----------------------------- MODULE NodeProofs -----------------------------
(***************************************************************************)
(* Theorems about the nodes of a workflow: the sandbox that code nodes run *)
(* in, the rows of a conversation that memory nodes work on at the same    *)
(* time, what integration nodes ask of their services, and the circuit     *)
(* breaker of a type of nodes, for every number of runs, nodes and callers,*)
(* every limit and every bound.                                            *)
(***************************************************************************)
EXTENDS CircuitBreaker, CodeSandbox, ConversationMemory, NodeOperations, FiniteSetTheorems, TLAPS

-----------------------------------------------------------------------------
(***************************************************************************)
(* The sandbox. A run is followed from its script to its clean-up: what it *)
(* has made, whether the manager was in use when it made it, and what its  *)
(* result rests on. A stop of the process ends all runs that are under way *)
(* and keeps what they made.                                               *)
(***************************************************************************)
(* The manager in use is of the kind that was wanted.                       *)
InUse == mode \in {"docker", "subprocess"} /\ mode = wanted

NothingMade(r) == r \notin files /\ container[r] = "none" /\ child[r] = "none"

(* One run: what it has made so far, and what its result rests on.          *)
RunInv(r) ==
    /\ coderun[r] = "none" => NothingMade(r) /\ sandboxResult[r] = "none"
    /\ coderun[r] = "scripted" => InUse /\ {container[r], child[r]} = {"none"}
    /\ coderun[r] = "waiting" => InUse
    /\ container[r] # "none" => child[r] = "none"
    /\ coderun[r] \in {"scripted", "waiting", "finally"} => ~Violates(code[r])
    /\ coderun[r] = "finally" /\ child[r] = "running" => sandboxResult[r] = "cancelled"
    /\ coderun[r] = "over" /\ r \notin kept =>
         /\ r \notin files
         /\ remove_container => container[r] = "none"
         /\ child[r] = "running" => sandboxResult[r] = "cancelled"
    /\ Violates(code[r]) => NothingMade(r)

Earned(r) ==
    /\ sandboxResult[r] \in {"success", "marked"} =>
         /\ code[r].imports \subseteq {"json"} /\ code[r].attributes \subseteq {"append"}
         /\ code[r].calls \cup code[r].names \subseteq Builtins(Sandbox) \ {"__name__"}
         /\ "isinstance" \notin code[r].calls
         /\ code[r].deeds \subseteq {"returns_a_mark"} /\ "null" \notin code[r].inputs
    /\ sandboxResult[r] = "success" => code[r].deeds = {}

SandboxInv ==
    /\ SandboxTypeOK
    /\ mode \in {"docker", "subprocess"} => mode = wanted
    /\ \A r \in Run : RunInv(r) /\ Earned(r)

(* What the sandbox in use reads from a script that it ran to its end.      *)
LEMMA ReadIsEarned ==
    ASSUME NEW c \in Code, ~Violates(c), NEW sandbox \in {"docker", "subprocess"},
           NodeResult(c, ReadScript(Script(c, sandbox))) \in {"success", "marked"}
    PROVE  /\ c.imports \subseteq {"json"} /\ c.attributes \subseteq {"append"}
           /\ c.calls \cup c.names \subseteq Builtins(sandbox) \ {"__name__"}
           /\ "isinstance" \notin c.calls
           /\ c.deeds \subseteq {"returns_a_mark"} /\ "null" \notin c.inputs
           /\ NodeResult(c, ReadScript(Script(c, sandbox))) = "success" => c.deeds = {}
<1> DEFINE output == Script(c, sandbox)
           how == Executed(c, sandbox)
<1>1. ReadScript(output) = "done"
  BY DEF NodeResult
<1>2. ~output.died /\ ~output.noise /\ output.outcome = "done"
  BY <1>1 DEF ReadScript
<1>3. how = "done" /\ "makes_too_much" \notin c.deeds /\ "prints" \notin c.deeds
      /\ "makes_a_cycle" \notin c.deeds
  BY <1>2 DEF Script
<1>4. /\ "null" \notin c.inputs /\ Unknown(c, sandbox) = {} /\ safe_import(c)
      /\ "raises" \notin c.deeds
  BY <1>3 DEF Executed
<1>5. /\ "cannot_be_parsed" \notin c.deeds /\ ~visit_Import(c) /\ ~visit_Attribute(c)
      /\ ~visit_Call(c) /\ ~visit_Name(c)
  BY DEF Violates
<1>6. c.imports \subseteq Module /\ c.attributes \subseteq Attribute /\ c.deeds \subseteq Deed
  BY DEF Code
<1>7. c.imports \subseteq {"json"}
  BY <1>5, <1>6 DEF visit_Import, BaseModule, analysed_modules, Module
<1>8. c.attributes \subseteq {"append"}
  BY <1>5, <1>6 DEF visit_Attribute, forbidden_attributes, Attribute
<1>9. c.calls \cup c.names \subseteq Builtins(sandbox) \ {"__name__"}
  BY <1>4, <1>5 DEF Unknown, visit_Name, Dunder
<1>10. "isinstance" \notin c.calls
  BY <1>5 DEF visit_Call, forbidden_builtins
<1>11. c.deeds \subseteq {"returns_a_mark"}
  BY <1>3, <1>4, <1>5, <1>6 DEF Deed
<1>12. NodeResult(c, ReadScript(output)) = "success" => "returns_a_mark" \notin c.deeds
  BY DEF NodeResult
<1> QED
  BY <1>4, <1>7, <1>8, <1>9, <1>10, <1>11, <1>12

LEMMA ResultKinds ==
    ASSUME NEW c, NEW read
    PROVE  NodeResult(c, read) \in {"error", "marked", "success"}
BY DEF NodeResult

(* A step of one run leaves the others alone.                               *)
RunStep(r) ==
    \/ RefuseCode(r) \/ RefuseRun(r) \/ WriteScript(r) \/ StartContainer(r) \/ StartChild(r)
    \/ CodeEnds(r) \/ ReadOutput(r) \/ TimeOut(r) \/ Cancel(r) \/ CleanUp(r)

LEMMA TypesOfRun ==
    ASSUME SandboxTypeOK, NEW r \in Run, RunStep(r)
    PROVE  SandboxTypeOK'
<1> USE DEF SandboxTypeOK, GoTo, setting
<1>1. CASE RefuseCode(r) \/ RefuseRun(r) \/ WriteScript(r)
  BY <1>1 DEF RefuseCode, RefuseRun, WriteScript
<1>2. CASE StartContainer(r)
  BY <1>2 DEF StartContainer
<1>3. CASE StartChild(r) \/ Cancel(r)
  BY <1>3 DEF StartChild, Cancel
<1>4. CASE CodeEnds(r)
  BY <1>4 DEF CodeEnds
<1>5. CASE ReadOutput(r)
  BY <1>5, ResultKinds DEF ReadOutput
<1>6. CASE TimeOut(r)
  BY <1>6 DEF TimeOut
<1>7. CASE CleanUp(r)
  BY <1>7 DEF CleanUp
<1> QED
  BY <1>1, <1>2, <1>3, <1>4, <1>5, <1>6, <1>7 DEF RunStep

LEMMA OthersRest ==
    ASSUME SandboxTypeOK, NEW r \in Run, RunStep(r)
    PROVE  /\ UNCHANGED <<wanted, docker, code, mode>>
           /\ \A s \in Run : s # r =>
                /\ coderun'[s] = coderun[s] /\ sandboxResult'[s] = sandboxResult[s]
                /\ container'[s] = container[s] /\ child'[s] = child[s]
                /\ (s \in files' <=> s \in files) /\ (s \in kept' <=> s \in kept)
<1> USE DEF SandboxTypeOK, GoTo, setting
<1>1. CASE RefuseCode(r) \/ RefuseRun(r) \/ WriteScript(r)
  BY <1>1 DEF RefuseCode, RefuseRun, WriteScript
<1>2. CASE StartContainer(r)
  BY <1>2 DEF StartContainer
<1>3. CASE StartChild(r) \/ Cancel(r)
  BY <1>3 DEF StartChild, Cancel
<1>4. CASE CodeEnds(r)
  BY <1>4 DEF CodeEnds
<1>5. CASE ReadOutput(r)
  BY <1>5 DEF ReadOutput
<1>6. CASE TimeOut(r)
  BY <1>6 DEF TimeOut
<1>7. CASE CleanUp(r)
  BY <1>7 DEF CleanUp
<1> QED
  BY <1>1, <1>2, <1>3, <1>4, <1>5, <1>6, <1>7 DEF RunStep

(* The moving run, action by action.                                        *)
LEMMA RunKept ==
    ASSUME SandboxInv, NEW r \in Run, RunStep(r)
    PROVE  RunInv(r)' /\ Earned(r)'
<1>1. /\ SandboxTypeOK /\ RunInv(r) /\ Earned(r)
      /\ mode \in {"docker", "subprocess"} => mode = wanted
  BY DEF SandboxInv
<1>2. /\ coderun[r] \in {"none", "scripted", "waiting", "finally", "over"}
      /\ container[r] \in {"none", "running", "exited"}
      /\ child[r] \in {"none", "running", "exited"}
      /\ code[r] \in Code /\ wanted \in {"docker", "subprocess", "disabled"}
      /\ mode \in {"none", "docker", "subprocess", "disabled"}
  BY <1>1 DEF SandboxTypeOK
<1>3. UNCHANGED <<wanted, docker, code, mode>>
  BY <1>1, OthersRest
<1>4. (InUse <=> InUse') /\ (Violates(code[r]) <=> Violates(code'[r])) /\ Sandbox' = Sandbox
  BY <1>3 DEF InUse, Sandbox
<1>5. ASSUME sandboxResult'[r] \notin {"success", "marked"} \/ sandboxResult'[r] = sandboxResult[r]
      PROVE  Earned(r)'
  BY <1>1, <1>3, <1>4, <1>5 DEF Earned
<1> USE DEF GoTo, setting
<1>6. CASE RefuseCode(r)
  <2>1. /\ coderun'[r] = "over" /\ sandboxResult'[r] = "violations" /\ coderun[r] = "none"
        /\ UNCHANGED <<container, child, files, kept>>
    BY <1>1, <1>6 DEF RefuseCode, SandboxTypeOK
  <2> QED
    BY <1>1, <1>4, <1>5, <2>1 DEF RunInv, NothingMade
<1>7. CASE RefuseRun(r)
  <2>1. /\ coderun'[r] = "over" /\ sandboxResult'[r] = "SandboxDisabled" /\ coderun[r] = "none"
        /\ UNCHANGED <<container, child, files, kept>>
    BY <1>1, <1>7 DEF RefuseRun, SandboxTypeOK
  <2> QED
    BY <1>1, <1>4, <1>5, <2>1 DEF RunInv, NothingMade
<1>8. CASE WriteScript(r)
  <2>1. /\ coderun'[r] = "scripted" /\ sandboxResult'[r] = "none" /\ coderun[r] = "none"
        /\ InUse /\ ~Violates(code[r]) /\ UNCHANGED <<container, child, kept>>
    BY <1>1, <1>8 DEF WriteScript, SandboxTypeOK, InUse
  <2> QED
    BY <1>1, <1>4, <1>5, <2>1 DEF RunInv, NothingMade
<1>9. CASE StartContainer(r)
  <2>1. coderun[r] = "scripted" /\ UNCHANGED <<child, files, kept>>
    BY <1>9 DEF StartContainer
  <2>2. \/ coderun'[r] = "waiting" /\ sandboxResult'[r] = "none"
        \/ coderun'[r] = "finally" /\ sandboxResult'[r] = "error"
    BY <1>1, <1>9 DEF StartContainer, SandboxTypeOK
  <2>3. child[r] = "none" /\ InUse /\ ~Violates(code[r])
    BY <1>1, <2>1 DEF RunInv
  <2> QED
    BY <1>4, <1>5, <2>1, <2>2, <2>3 DEF RunInv, NothingMade
<1>10. CASE StartChild(r)
  <2>1. coderun[r] = "scripted" /\ UNCHANGED <<container, files, kept>>
    BY <1>10 DEF StartChild
  <2>2. \/ coderun'[r] = "waiting" /\ sandboxResult'[r] = "none"
        \/ coderun'[r] = "finally" /\ sandboxResult'[r] = "error" /\ child'[r] = child[r]
    BY <1>1, <1>10 DEF StartChild, SandboxTypeOK
  <2>3. child[r] = "none" /\ container[r] = "none" /\ InUse /\ ~Violates(code[r])
    BY <1>1, <2>1 DEF RunInv
  <2> QED
    BY <1>4, <1>5, <2>1, <2>2, <2>3 DEF RunInv, NothingMade
<1>11. CASE CodeEnds(r)
  <2>1. UNCHANGED <<coderun, sandboxResult, files, kept>>
    BY <1>11 DEF CodeEnds
  <2>2. \/ container[r] = "running" /\ container'[r] = "exited" /\ child'[r] = child[r]
        \/ child[r] = "running" /\ child'[r] = "exited" /\ container'[r] = container[r]
    BY <1>1, <1>11 DEF CodeEnds, SandboxTypeOK
  <2>3. coderun[r] \notin {"none", "scripted"} /\ ~Violates(code[r])
    BY <1>1, <2>2 DEF RunInv, NothingMade
  <2>4. Earned(r)'
    BY <1>5, <2>1
  <2> QED
    BY <1>1, <1>4, <2>1, <2>2, <2>3, <2>4 DEF RunInv
<1>12. CASE ReadOutput(r)
  <2>1. /\ coderun[r] = "waiting" /\ coderun'[r] = "finally"
        /\ UNCHANGED <<container, child, files, kept>>
        /\ "exited" \in {container[r], child[r]}
    BY <1>1, <1>12 DEF ReadOutput, SandboxTypeOK
  <2>2. sandboxResult'[r] \in {NodeResult(code[r], ReadScript(Script(code[r], mode))), "error"}
    BY <1>1, <1>12 DEF ReadOutput, SandboxTypeOK
  <2>3. mode \in {"docker", "subprocess"} /\ mode = wanted /\ ~Violates(code[r])
    BY <1>1, <2>1 DEF RunInv, InUse
  <2>4. Sandbox = mode
    BY <2>3 DEF Sandbox
  <2>5. ASSUME sandboxResult'[r] \in {"success", "marked"}
        PROVE  Earned(r)'
    <3>1. sandboxResult'[r] = NodeResult(code[r], ReadScript(Script(code[r], mode)))
      BY <2>2, <2>5
    <3>2. /\ code[r].imports \subseteq {"json"} /\ code[r].attributes \subseteq {"append"}
          /\ code[r].calls \cup code[r].names \subseteq Builtins(mode) \ {"__name__"}
          /\ "isinstance" \notin code[r].calls
          /\ code[r].deeds \subseteq {"returns_a_mark"} /\ "null" \notin code[r].inputs
          /\ sandboxResult'[r] = "success" => code[r].deeds = {}
      BY <1>2, <2>3, <2>5, <3>1, ReadIsEarned
    <3>3. code' = code /\ Sandbox' = mode
      BY <1>3, <1>4, <2>4
    <3>4. Builtins(Sandbox)' = Builtins(mode)
      BY <1>3, <2>4 DEF Builtins, Sandbox
    <3> QED
      BY <3>2, <3>3, <3>4 DEF Earned
  <2>6. Earned(r)'
    BY <1>5, <2>5
  <2>7. child[r] # "running"
    BY <1>1, <2>1 DEF RunInv
  <2> QED
    BY <1>1, <1>4, <2>1, <2>3, <2>6, <2>7 DEF RunInv
<1>13. CASE TimeOut(r)
  <2>1. /\ coderun[r] = "waiting" /\ coderun'[r] = "finally" /\ sandboxResult'[r] = "TimeoutError"
        /\ UNCHANGED <<files, kept>>
    BY <1>1, <1>13 DEF TimeOut, SandboxTypeOK
  <2>2. container'[r] = container[r] \/ (container[r] = "running" /\ container'[r] = "exited")
    BY <1>1, <1>13 DEF TimeOut, SandboxTypeOK
  <2>3. child'[r] # "running" /\ (child[r] = "none" => child'[r] = "none")
    BY <1>1, <1>2, <1>13 DEF TimeOut, SandboxTypeOK
  <2>4. ~Violates(code[r])
    BY <1>1, <2>1 DEF RunInv
  <2> QED
    BY <1>1, <1>4, <1>5, <2>1, <2>2, <2>3, <2>4 DEF RunInv
<1>14. CASE Cancel(r)
  <2>1. /\ coderun[r] = "waiting" /\ coderun'[r] = "finally" /\ sandboxResult'[r] = "cancelled"
        /\ UNCHANGED <<container, child, files, kept>>
    BY <1>1, <1>14 DEF Cancel, SandboxTypeOK
  <2> QED
    BY <1>1, <1>4, <1>5, <2>1 DEF RunInv
<1>15. CASE CleanUp(r)
  <2>1. coderun[r] = "finally" /\ coderun'[r] = "over" /\ UNCHANGED <<sandboxResult, child>>
    BY <1>1, <1>15 DEF CleanUp, SandboxTypeOK
  <2>2. \/ r \in kept' /\ UNCHANGED <<container>>
        \/ /\ r \notin files' /\ (remove_container => container'[r] = "none")
           /\ (container'[r] # "none" => container[r] # "none")
    <3>1. PICK failed \in BOOLEAN :
            /\ kept' = IF failed THEN kept \cup {r} ELSE kept
            /\ files' = IF failed THEN files ELSE files \ {r}
            /\ container' = IF failed \/ ~remove_container THEN container
                            ELSE [container EXCEPT ![r] = "none"]
      BY <1>15 DEF CleanUp
    <3>2. CASE failed
      BY <3>1, <3>2
    <3>3. CASE ~failed /\ remove_container
      BY <1>1, <3>1, <3>3 DEF SandboxTypeOK
    <3>4. CASE ~failed /\ ~remove_container
      BY <3>1, <3>4
    <3> QED
      BY <3>2, <3>3, <3>4
  <2>3. ~Violates(code[r])
    BY <1>1, <2>1 DEF RunInv
  <2>4. Earned(r)'
    BY <1>5, <2>1
  <2> QED
    BY <1>1, <1>4, <2>1, <2>2, <2>3, <2>4 DEF RunInv
<1> QED
  BY <1>6, <1>7, <1>8, <1>9, <1>10, <1>11, <1>12, <1>13, <1>14, <1>15 DEF RunStep

(* The other runs stand as they stood, and so does the mode.                *)
LEMMA RunStepKeeps ==
    ASSUME SandboxInv, NEW r \in Run, RunStep(r)
    PROVE  SandboxInv'
<1>1. SandboxTypeOK
  BY DEF SandboxInv
<1>2. SandboxTypeOK'
  BY <1>1, TypesOfRun
<1>3. UNCHANGED <<wanted, docker, code, mode>>
  BY <1>1, OthersRest
<1>4. ASSUME NEW s \in Run, s # r
      PROVE  RunInv(s)' /\ Earned(s)'
  <2>1. /\ coderun'[s] = coderun[s] /\ sandboxResult'[s] = sandboxResult[s]
        /\ container'[s] = container[s] /\ child'[s] = child[s]
        /\ (s \in files' <=> s \in files) /\ (s \in kept' <=> s \in kept)
    BY <1>1, <1>4, OthersRest
  <2>2. RunInv(s) /\ Earned(s)
    BY DEF SandboxInv
  <2>3. (InUse <=> InUse') /\ (Violates(code[s]) <=> Violates(code'[s])) /\ Sandbox' = Sandbox
    BY <1>3 DEF InUse, Sandbox
  <2>4. Earned(s)'
    BY <1>3, <2>1, <2>2, <2>3 DEF Earned
  <2>5. RunInv(s)'
    BY <1>3, <2>1, <2>2, <2>3 DEF RunInv, NothingMade
  <2> QED
    BY <2>4, <2>5
<1>5. RunInv(r)' /\ Earned(r)'
  BY RunKept
<1>6. (mode \in {"docker", "subprocess"} => mode = wanted)'
  BY <1>3 DEF SandboxInv
<1> QED
  BY <1>2, <1>4, <1>5, <1>6 DEF SandboxInv

(* The first call fixes the mode; no run has made anything before that.     *)
LEMMA InitializeKeeps ==
    ASSUME SandboxInv, NEW r \in Run, Initialize(r)
    PROVE  SandboxInv'
<1> USE DEF setting
<1>1. /\ mode = "none" /\ mode' = IF wanted = "docker" /\ ~DockerReady THEN "disabled" ELSE wanted
      /\ UNCHANGED <<wanted, docker, code, coderun, sandboxResult, container, child, files, kept>>
  BY DEF Initialize
<1>2. SandboxTypeOK'
  BY <1>1 DEF SandboxInv, SandboxTypeOK
<1>3. mode' \in {"docker", "subprocess"} => mode' = wanted'
  BY <1>1
<1>4. ASSUME NEW s \in Run
      PROVE  RunInv(s)' /\ Earned(s)'
  <2>1. RunInv(s) /\ Earned(s)
    BY DEF SandboxInv
  <2>2. ~InUse
    BY <1>1 DEF InUse
  <2>3. coderun[s] \notin {"scripted", "waiting"}
    BY <2>1, <2>2 DEF RunInv
  <2>4. (Violates(code[s]) <=> Violates(code'[s])) /\ Sandbox' = Sandbox
    BY <1>1 DEF Sandbox
  <2>5. Earned(s)'
    BY <1>1, <2>1, <2>4 DEF Earned
  <2>6. RunInv(s)'
    BY <1>1, <2>1, <2>3, <2>4 DEF RunInv, NothingMade
  <2> QED
    BY <2>5, <2>6
<1> QED
  BY <1>2, <1>3, <1>4 DEF SandboxInv

LEMMA StopKeeps ==
    ASSUME SandboxInv, ProcessStops
    PROVE  SandboxInv'
<1> USE DEF setting
<1> DEFINE underWay == {r \in Run : coderun[r] \notin {"none", "over"}}
<1>1. /\ coderun' = [r \in Run |-> IF r \in underWay THEN "over" ELSE coderun[r]]
      /\ sandboxResult' = [r \in Run |-> IF r \in underWay THEN "lost" ELSE sandboxResult[r]]
      /\ kept' = kept \cup underWay /\ mode' = "none"
      /\ UNCHANGED <<wanted, docker, code, container, child, files>>
  BY DEF ProcessStops
<1>2. SandboxTypeOK'
  BY <1>1 DEF SandboxInv, SandboxTypeOK
<1>3. ASSUME NEW s \in Run
      PROVE  RunInv(s)' /\ Earned(s)'
  <2>1. RunInv(s) /\ Earned(s)
    BY DEF SandboxInv
  <2>2. (Violates(code[s]) <=> Violates(code'[s])) /\ Sandbox' = Sandbox
    BY <1>1 DEF Sandbox
  <2>3. CASE s \in underWay
    <3>1. coderun'[s] = "over" /\ sandboxResult'[s] = "lost" /\ s \in kept'
      BY <1>1, <2>3
    <3>2. UNCHANGED <<container, child, files>>
      BY <1>1
    <3> QED
      BY <2>1, <2>2, <3>1, <3>2 DEF RunInv, Earned, NothingMade
  <2>4. CASE s \notin underWay
    <3>1. /\ coderun'[s] = coderun[s] /\ sandboxResult'[s] = sandboxResult[s]
          /\ s \in kept' <=> s \in kept
      BY <1>1, <2>4
    <3>2. coderun[s] \in {"none", "over"}
      BY <2>4
    <3>3. UNCHANGED <<code, container, child, files>>
      BY <1>1
    <3>4. Earned(s)'
      BY <2>1, <2>2, <3>1, <3>3 DEF Earned
    <3> QED
      BY <2>1, <2>2, <3>1, <3>2, <3>3, <3>4 DEF RunInv, NothingMade
  <2> QED
    BY <2>3, <2>4
<1>4. (mode \in {"docker", "subprocess"} => mode = wanted)'
  BY <1>1
<1> QED
  BY <1>2, <1>3, <1>4 DEF SandboxInv

LEMMA SandboxInvariant == SandboxSpec => []SandboxInv
<1>1. SandboxInit => SandboxInv
  <2> SUFFICES ASSUME SandboxInit PROVE SandboxInv
    OBVIOUS
  <2>1. code \in [Run -> Code]
    BY SandboxAssumption DEF SandboxInit
  <2>2. SandboxTypeOK
    BY <2>1 DEF SandboxInit, SandboxTypeOK
  <2>3. ASSUME NEW r \in Run PROVE RunInv(r) /\ Earned(r)
    BY DEF SandboxInit, RunInv, Earned, NothingMade
  <2> QED
    BY <2>2, <2>3 DEF SandboxInit, SandboxInv
<1>2. SandboxInv /\ [SandboxNext]_sandboxVars => SandboxInv'
  <2> SUFFICES ASSUME SandboxInv, [SandboxNext]_sandboxVars PROVE SandboxInv'
    OBVIOUS
  <2>1. ASSUME NEW r \in Run, RunStep(r) PROVE SandboxInv'
    BY <2>1, RunStepKeeps
  <2>2. ASSUME NEW r \in Run, Initialize(r) PROVE SandboxInv'
    BY <2>2, InitializeKeeps
  <2>3. CASE ProcessStops
    BY <2>3, StopKeeps
  <2>4. CASE UNCHANGED sandboxVars
    BY <2>4 DEF sandboxVars, setting, SandboxInv, SandboxTypeOK, RunInv, Earned, NothingMade, InUse,
                Sandbox
  <2> QED
    BY <2>1, <2>2, <2>3, <2>4 DEF SandboxNext, RunStep
<1> QED
  BY <1>1, <1>2, PTL DEF SandboxSpec

(* Code that the analysis refuses makes nothing; a run that is over has    *)
(* left only what its clean-up could not take or what it was cancelled     *)
(* from; and a result is of code that the sandbox ran to its end.          *)
THEOREM EveryRunAccounted == SandboxSpec => []RunsAccounted
<1>1. SandboxInv => RunsAccounted
  <2> SUFFICES ASSUME SandboxInv PROVE RunsAccounted
    OBVIOUS
  <2>1. NothingLeft
    BY DEF SandboxInv, RunInv, NothingLeft
  <2>2. ResultEarned
    BY DEF SandboxInv, RunInv, Earned, ResultEarned, NothingMade
  <2> QED
    BY <2>1, <2>2 DEF RunsAccounted
<1> QED
  BY <1>1, SandboxInvariant, PTL

-----------------------------------------------------------------------------
(***************************************************************************)
(* The memories of a conversation. A node that has counted the rows and    *)
(* not yet added its own will delete the oldest of them first; whichever   *)
(* of these nodes finish, in whatever order, there is room for their rows. *)
(* That is inductive, and with no such node it is the bound itself.        *)
(***************************************************************************)
(* How many rows come before a row.                                         *)
Rank(rows, x) == Cardinality({y \in rows : y < x})

LEMMA RowsFinite ==
    ASSUME NEW rows \in SUBSET (1 .. MaxMemories)
    PROVE  IsFiniteSet(rows) /\ Cardinality(rows) \in 0 .. MaxMemories
<1>1. MaxMemories \in Nat
  BY MemoryAssumption
<1>2. IsFiniteSet(1 .. MaxMemories) /\ Cardinality(1 .. MaxMemories) = MaxMemories
  BY <1>1, FS_Interval
<1>3. IsFiniteSet(rows) /\ Cardinality(rows) <= MaxMemories
  BY <1>2, FS_Subset
<1>4. Cardinality(rows) \in Nat
  BY <1>3, FS_CardinalityType
<1> QED
  BY <1>1, <1>3, <1>4

LEMMA RankType ==
    ASSUME NEW rows \in SUBSET (1 .. MaxMemories), NEW x
    PROVE  IsFiniteSet({y \in rows : y < x}) /\ Rank(rows, x) \in Nat
<1>1. {y \in rows : y < x} \in SUBSET (1 .. MaxMemories)
  OBVIOUS
<1>2. Cardinality({y \in rows : y < x}) \in 0 .. MaxMemories /\ IsFiniteSet({y \in rows : y < x})
  BY <1>1, RowsFinite
<1> QED
  BY <1>2 DEF Rank

LEMMA RankOfFewer ==
    ASSUME NEW rows \in SUBSET (1 .. MaxMemories), NEW fewer \in SUBSET rows, NEW x
    PROVE  Rank(fewer, x) <= Rank(rows, x)
<1>1. {y \in fewer : y < x} \subseteq {y \in rows : y < x}
  OBVIOUS
<1> QED
  BY <1>1, RankType, FS_Subset DEF Rank

LEMMA RankGrows ==
    ASSUME NEW rows \in SUBSET (1 .. MaxMemories), NEW e \in rows, NEW f \in Int, e < f
    PROVE  Rank(rows, e) < Rank(rows, f)
<1> DEFINE before == {y \in rows : y < e}
<1>1. e \in Int /\ rows \subseteq Int
  OBVIOUS
<1>2. IsFiniteSet(before) /\ e \notin before
  BY <1>1, RankType
<1>3. Cardinality(before \cup {e}) = Cardinality(before) + 1
  BY <1>2, FS_AddElement
<1>4. before \cup {e} \subseteq {y \in rows : y < f}
  <2>1. ASSUME NEW y \in before PROVE y \in rows /\ y < f
    <3>1. y \in Int /\ y \in rows /\ y < e
      BY <1>1
    <3> QED
      BY <1>1, <3>1
  <2> QED
    BY <2>1
<1>5. Cardinality(before \cup {e}) <= Cardinality({y \in rows : y < f})
  BY <1>4, RankType, FS_Subset
<1>6. Rank(rows, e) \in Nat /\ Rank(rows, f) \in Nat
  BY RankType
<1> QED
  BY <1>3, <1>5, <1>6 DEF Rank

LEMMA RankBelow ==
    ASSUME NEW rows \in SUBSET (1 .. MaxMemories), NEW e \in rows
    PROVE  Rank(rows, e) < Cardinality(rows)
<1>1. e \in Int /\ rows \subseteq Int
  OBVIOUS
<1>2. {y \in rows : y < e} \subseteq rows \ {e}
  BY <1>1
<1>3. IsFiniteSet(rows) /\ Cardinality(rows) \in Nat
  BY RowsFinite
<1>4. IsFiniteSet(rows \ {e}) /\ Cardinality(rows \ {e}) = Cardinality(rows) - 1
  BY <1>3, FS_RemoveElement
<1>5. Cardinality({y \in rows : y < e}) <= Cardinality(rows \ {e})
  BY <1>2, <1>4, FS_Subset
<1>6. Rank(rows, e) \in Nat
  BY RankType
<1> QED
  BY <1>3, <1>4, <1>5, <1>6 DEF Rank

(* One more row counts once, and only for the rows after it.                *)
LEMMA RankOfMore ==
    ASSUME NEW rows \in SUBSET (1 .. MaxMemories), NEW x \in 1 .. MaxMemories, NEW e \in Int
    PROVE  /\ Rank(rows \cup {x}, e) <= Rank(rows, e) + 1
           /\ ~(x < e) => Rank(rows \cup {x}, e) = Rank(rows, e)
<1>1. CASE x < e
  <2>1. {y \in rows \cup {x} : y < e} = {y \in rows : y < e} \cup {x}
    BY <1>1
  <2>2. IsFiniteSet({y \in rows : y < e}) /\ Cardinality({y \in rows : y < e}) \in Nat
    BY RankType DEF Rank
  <2>3. Cardinality({y \in rows : y < e} \cup {x})
           \in {Cardinality({y \in rows : y < e}), Cardinality({y \in rows : y < e}) + 1}
    BY <2>2, FS_AddElement
  <2> QED
    BY <1>1, <2>1, <2>2, <2>3 DEF Rank
<1>2. CASE ~(x < e)
  <2>1. {y \in rows \cup {x} : y < e} = {y \in rows : y < e}
    BY <1>2
  <2>2. Rank(rows, e) \in Nat
    BY RankType
  <2> QED
    BY <1>2, <2>1, <2>2 DEF Rank
<1> QED
  BY <1>1, <1>2

(* What is left when the oldest are gone.                                   *)
LEMMA LeftByOldest ==
    ASSUME NEW rows \in SUBSET (1 .. MaxMemories), NEW d \in Nat, NEW bound \in Nat,
           Cardinality(rows) - d <= bound
    PROVE  Cardinality(rows \ Oldest(rows, d)) <= bound
<1> DEFINE rest == rows \ Oldest(rows, d)
           high == d .. (Cardinality(rows) - 1)
           f == [x \in rest |-> Rank(rows, x)]
<1>1. Cardinality(rows) \in Nat
  BY RowsFinite
<1>2. ASSUME NEW x \in rest PROVE Rank(rows, x) \in high
  <2>1. Rank(rows, x) \in Nat /\ Rank(rows, x) < Cardinality(rows)
    BY RankType, RankBelow
  <2>2. ~(Rank(rows, x) < d)
    BY DEF Oldest, Rank
  <2> QED
    BY <1>1, <2>1, <2>2
<1>3. ASSUME NEW x \in rest, NEW y \in rest, Rank(rows, x) = Rank(rows, y) PROVE x = y
  <2>1. x \in rows /\ y \in rows /\ rows \subseteq Int
    OBVIOUS
  <2>2. Rank(rows, x) \in Nat /\ Rank(rows, y) \in Nat
    BY RankType
  <2>3. ~(x < y) /\ ~(y < x)
    BY <1>3, <2>1, <2>2, RankGrows
  <2> QED
    BY <2>1, <2>3
<1>4. f \in Injection(rest, high)
  BY <1>2, <1>3 DEF Injection, IsInjective
<1>5. /\ IsFiniteSet(high)
      /\ Cardinality(high) = IF d > Cardinality(rows) - 1 THEN 0 ELSE Cardinality(rows) - d
  <2>1. d \in Int /\ Cardinality(rows) - 1 \in Int
    BY <1>1
  <2>2. /\ IsFiniteSet(high)
        /\ Cardinality(high) = IF d > Cardinality(rows) - 1 THEN 0 ELSE Cardinality(rows) - 1 - d + 1
    BY <2>1, FS_Interval
  <2> QED
    BY <1>1, <2>2
<1>6. Cardinality(rest) <= Cardinality(high)
  BY <1>4, <1>5, FS_Injection
<1>7. Cardinality(rest) \in Nat
  BY RowsFinite
<1> QED
  BY <1>1, <1>5, <1>6, <1>7

(* The rows that no prefix of these lengths takes.                          *)
Kept(rows, lengths) == {e \in rows : \A d \in lengths : e \notin Oldest(rows, d)}

(* Rows that go lift others out of no prefix; a row that comes in may push  *)
(* one out, and is then in a prefix itself.                                 *)
LEMMA FewerKept ==
    ASSUME NEW rows \in SUBSET (1 .. MaxMemories), NEW fewer \in SUBSET rows,
           NEW lengths \in SUBSET Nat
    PROVE  Kept(fewer, lengths) \subseteq Kept(rows, lengths)
<1> SUFFICES ASSUME NEW e \in Kept(fewer, lengths), NEW d \in lengths, e \in Oldest(rows, d)
             PROVE  FALSE
  BY DEF Kept
<1>1. Rank(rows, e) < d /\ e \in fewer /\ ~(Rank(fewer, e) < d)
  BY DEF Oldest, Rank, Kept
<1>2. Rank(fewer, e) <= Rank(rows, e)
  BY RankOfFewer
<1>3. Rank(fewer, e) \in Nat /\ Rank(rows, e) \in Nat /\ d \in Nat
  BY RankType
<1> QED
  BY <1>1, <1>2, <1>3

LEMMA OneMoreKept ==
    ASSUME NEW rows \in SUBSET (1 .. MaxMemories), NEW gone, NEW x \in 1 .. MaxMemories,
           NEW lengths \in SUBSET Nat
    PROVE  \E e : \A f \in Kept((rows \ gone) \cup {x}, lengths) :
                      f = e \/ (f \in Kept(rows, lengths) /\ f \notin gone)
<1> DEFINE few == rows \ gone
           more == few \cup {x}
<1>1. few \in SUBSET rows /\ few \in SUBSET (1 .. MaxMemories) /\ more \in SUBSET (1 .. MaxMemories)
  OBVIOUS
<1>2. ASSUME NEW e \in 1 .. MaxMemories
      PROVE  /\ Rank(few, e) \in Nat /\ Rank(more, e) \in Nat /\ Rank(rows, e) \in Nat /\ e \in Int
             /\ Rank(few, e) <= Rank(rows, e) /\ Rank(more, e) <= Rank(few, e) + 1
             /\ ~(x < e) => Rank(more, e) = Rank(few, e)
  <2>1. Rank(few, e) \in Nat /\ Rank(more, e) \in Nat /\ Rank(rows, e) \in Nat /\ e \in Int
    <3> HIDE DEF few, more
    <3>1. Rank(few, e) \in Nat
      BY <1>1, RankType
    <3>2. Rank(more, e) \in Nat
      BY <1>1, RankType
    <3>3. Rank(rows, e) \in Nat
      BY RankType
    <3> QED
      BY <3>1, <3>2, <3>3
  <2>2. Rank(few, e) <= Rank(rows, e)
    BY <1>1, RankOfFewer
  <2>3. Rank(more, e) <= Rank(few, e) + 1 /\ (~(x < e) => Rank(more, e) = Rank(few, e))
    BY <1>1, <2>1, RankOfMore
  <2> QED
    BY <2>1, <2>2, <2>3
<1>3. ASSUME NEW e \in Kept(more, lengths), e \in few, e \notin Kept(rows, lengths)
      PROVE  \E d \in lengths : /\ d \in Nat /\ Rank(rows, e) < d /\ ~(Rank(more, e) < d)
  BY <1>3 DEF Kept, Oldest, Rank
<1>4. ASSUME NEW e \in Kept(more, lengths), NEW d \in lengths
      PROVE  e \in more /\ ~(Rank(more, e) < d)
  BY DEF Kept, Oldest, Rank
<1>5. ASSUME NEW e \in Kept(more, lengths), e \in few, e \notin Kept(rows, lengths),
             NEW f \in Kept(more, lengths), f \in few, f \notin Kept(rows, lengths)
      PROVE  ~(e < f)
  <2> SUFFICES ASSUME e < f PROVE FALSE
    OBVIOUS
  <2>1. PICK p \in lengths : p \in Nat /\ Rank(rows, f) < p
    BY <1>3, <1>5
  <2>2. Rank(few, e) < Rank(few, f)
    BY <1>1, <1>5, RankGrows
  <2>3. e \in 1 .. MaxMemories /\ f \in 1 .. MaxMemories
    BY <1>1, <1>5
  <2>4. Rank(more, e) < p
    BY <1>2, <2>1, <2>2, <2>3
  <2> QED
    BY <1>4, <2>4
<1>6. ASSUME NEW e \in Kept(more, lengths), e \in few, e \notin Kept(rows, lengths)
      PROVE  x \notin Kept(more, lengths)
  <2>1. PICK d \in lengths : d \in Nat /\ Rank(rows, e) < d /\ ~(Rank(more, e) < d)
    BY <1>3, <1>6
  <2>2. e \in 1 .. MaxMemories
    BY <1>1, <1>6
  <2>3. x < e
    BY <1>2, <2>1, <2>2
  <2>4. Rank(more, x) < Rank(more, e)
    BY <1>1, <2>2, <2>3, RankGrows
  <2>5. Rank(more, x) < d
    BY <1>2, <2>1, <2>2, <2>4
  <2> QED
    BY <1>4, <2>5
<1>7. CASE \E e \in Kept(more, lengths) : e \in few /\ e \notin Kept(rows, lengths)
  <2>1. PICK e \in Kept(more, lengths) : e \in few /\ e \notin Kept(rows, lengths)
    BY <1>7
  <2>2. ASSUME NEW f \in Kept(more, lengths), f \notin Kept(rows, lengths) \ gone
        PROVE  f = e
    <3>1. f \in more /\ f # x
      BY <1>6, <2>1 DEF Kept
    <3>2. f \in few /\ f \notin Kept(rows, lengths)
      BY <2>2, <3>1
    <3>3. ~(e < f) /\ ~(f < e)
      BY <1>5, <2>1, <3>2
    <3>4. e \in Int /\ f \in Int
      BY <1>1, <2>1, <3>2
    <3> QED
      BY <3>3, <3>4
  <2> QED
    BY <2>2
<1>8. CASE ~\E e \in Kept(more, lengths) : e \in few /\ e \notin Kept(rows, lengths)
  <2>1. Kept(more, lengths) \subseteq (Kept(rows, lengths) \ gone) \cup {x}
    BY <1>8 DEF Kept
  <2> QED
    BY <2>1
<1> QED
  BY <1>7, <1>8

-----------------------------------------------------------------------------
(* The nodes that have yet to add their row, and what each will take.       *)
Adders == {n \in MemoryNode : node[n].step = "add" \/ (node[n].step = "commit" /\ node[n].new # {})}

Removed(q) ==
    IF node[q].step = "add" THEN Oldest(memories, to_delete(node[q].count)) ELSE node[q].doomed

Spared(Q) == {x \in memories : \A q \in Q : x \notin Removed(q)}

(* Whatever nodes of these finish, in any order: there is room for them.    *)
RoomForAll ==
    \A Q \in SUBSET Adders :
        Cardinality(Spared(Q)) + Cardinality(Q) < max_memories + Cardinality(MemoryNode)

LEMMA NodesFinite ==
    /\ IsFiniteSet(MemoryNode) /\ Cardinality(MemoryNode) \in Nat
    /\ max_memories \in Nat \ {0}
BY MemoryAssumption, FS_CardinalityType

LEMMA ToDelete ==
    ASSUME NEW count \in Nat
    PROVE  /\ to_delete(count) \in Nat
           /\ count < max_memories => to_delete(count) = 0
           /\ count - to_delete(count) <= max_memories - 1
BY NodesFinite DEF to_delete

LEMMA SetsOfNodes ==
    ASSUME NEW Q \in SUBSET MemoryNode
    PROVE  IsFiniteSet(Q) /\ Cardinality(Q) \in Nat /\ Cardinality(Q) <= Cardinality(MemoryNode)
BY NodesFinite, FS_Subset, FS_CardinalityType

(* ------------------------------- types ---------------------------------- *)
LEMMA OldestSubset == ASSUME NEW rows, NEW k PROVE Oldest(rows, k) \subseteq rows
BY DEF Oldest

LEMMA SelectedSubset == ASSUME NEW rows PROVE Selected(rows) \subseteq rows
BY DEF Selected, Newest

LEMMA OneNode ==
    ASSUME MemoryTypeOK, NEW n \in MemoryNode, Remember(n)
    PROVE  /\ MemoryTypeOK'
           /\ \A m \in MemoryNode : m # n => node'[m] = node[m]
<1>1. /\ memories \in SUBSET (1 .. MaxMemories) /\ clock \in 0 .. MaxMemories /\ MaxMemories \in Nat
      /\ Cardinality(memories) \in 0 .. MaxMemories
      /\ node[n].count \in 0 .. MaxMemories /\ node[n].doomed \in SUBSET (1 .. MaxMemories)
      /\ node[n].new \in SUBSET (1 .. MaxMemories)
  BY RowsFinite, MemoryAssumption DEF MemoryTypeOK
<1> DEFINE Record == [step : {"idle", "add", "prune", "pruned", "stats", "told", "commit"},
                      count : 0 .. MaxMemories, doomed : SUBSET (1 .. MaxMemories),
                      new : SUBSET (1 .. MaxMemories), seen : SUBSET (1 .. MaxMemories)]
<1>2. node \in [MemoryNode -> Record]
  BY DEF MemoryTypeOK
<1>3. ASSUME NEW r \in Record, node' = [node EXCEPT ![n] = r], clock' \in 0 .. MaxMemories,
             memories' \subseteq 1 .. MaxMemories
      PROVE  MemoryTypeOK' /\ \A m \in MemoryNode : m # n => node'[m] = node[m]
  <2> HIDE DEF Record
  <2>1. node' \in [MemoryNode -> Record]
    BY <1>2, <1>3
  <2>2. \A m \in MemoryNode : m # n => node'[m] = node[m]
    BY <1>2, <1>3
  <2> QED
    BY <1>3, <2>1, <2>2 DEF MemoryTypeOK, Record
<1>4. node[n] \in Record
  BY <1>2
<1>5. NoOperation \in Record
  BY MemoryAssumption DEF NoOperation
<1> DEFINE Goes(r, s) == [r EXCEPT !.step = s]
<1>6. CASE CountMemories(n)
  <2> DEFINE r == [Goes(node[n], "add") EXCEPT !.count = Cardinality(memories)]
  <2>1. r \in Record
    BY <1>1, <1>4
  <2>2. node' = [node EXCEPT ![n] = r]
    BY <1>2, <1>6 DEF CountMemories
  <2> QED
    BY <1>1, <1>3, <1>6, <2>1, <2>2 DEF CountMemories
<1>7. CASE PruneToAdd(n)
  <2> DEFINE r1 == [Goes(node[n], "commit") EXCEPT !.doomed = Oldest(memories, to_delete(node[n].count))]
             r == [r1 EXCEPT !.new = {clock + 1}]
  <2>1. Oldest(memories, to_delete(node[n].count)) \in SUBSET (1 .. MaxMemories)
    BY <1>1, OldestSubset
  <2>2. clock + 1 \in 1 .. MaxMemories
    BY <1>1, <1>7 DEF PruneToAdd
  <2>3. r1 \in Record
    BY <1>4, <2>1
  <2>4. r \in Record
    BY <2>2, <2>3
  <2>5. node' = [node EXCEPT ![n] = r]
    BY <1>2, <1>7 DEF PruneToAdd
  <2>6. clock' \in 0 .. MaxMemories /\ memories' = memories
    BY <1>1, <1>7, <2>2 DEF PruneToAdd
  <2> QED
    BY <1>1, <1>3, <2>4, <2>5, <2>6
<1>8. CASE PruneByAge(n)
  <2>1. PICK k : node' = [node EXCEPT ![n].step = "prune", ![n].doomed = Oldest(memories, k)]
    BY <1>8 DEF PruneByAge
  <2> DEFINE r == [Goes(node[n], "prune") EXCEPT !.doomed = Oldest(memories, k)]
  <2>2. Oldest(memories, k) \in SUBSET (1 .. MaxMemories)
    BY <1>1, OldestSubset
  <2>3. r \in Record
    BY <1>4, <2>2
  <2>4. node' = [node EXCEPT ![n] = r]
    BY <1>2, <2>1
  <2> QED
    BY <1>1, <1>3, <1>8, <2>3, <2>4 DEF PruneByAge
<1>9. CASE CountRest(n)
  <2> DEFINE r == [Goes(node[n], "pruned") EXCEPT !.count = Cardinality(memories \ node[n].doomed)]
  <2>1. memories \ node[n].doomed \in SUBSET (1 .. MaxMemories)
    BY <1>1
  <2>2. Cardinality(memories \ node[n].doomed) \in 0 .. MaxMemories
    BY <2>1, RowsFinite
  <2>3. r \in Record
    BY <1>4, <2>2
  <2>4. node' = [node EXCEPT ![n] = r]
    BY <1>2, <1>9 DEF CountRest
  <2> QED
    BY <1>1, <1>3, <1>9, <2>3, <2>4 DEF CountRest
<1>10. CASE PruneByCount(n)
  <2> DEFINE q == node[n]
             more == IF q.count > max_memories
                     THEN Oldest(memories \ q.doomed, q.count - max_memories) ELSE {}
             r == [Goes(node[n], "commit") EXCEPT !.doomed = q.doomed \cup more]
  <2>1. more \subseteq memories
    BY OldestSubset
  <2>2. r \in Record
    BY <1>1, <1>4, <2>1
  <2>3. node' = [node EXCEPT ![n] = r]
    BY <1>2, <1>10 DEF PruneByCount
  <2> QED
    BY <1>1, <1>3, <1>10, <2>2, <2>3 DEF PruneByCount
<1>11. CASE DeleteMemory(n)
  <2>1. PICK doomed \in {{x} : x \in memories} \cup {memories} :
           node' = [node EXCEPT ![n].step = "commit", ![n].doomed = doomed]
    BY <1>11 DEF DeleteMemory
  <2> DEFINE r == [Goes(node[n], "commit") EXCEPT !.doomed = doomed]
  <2>2. doomed \in SUBSET (1 .. MaxMemories)
    BY <1>1
  <2>3. r \in Record
    BY <1>4, <2>2
  <2>4. node' = [node EXCEPT ![n] = r]
    BY <1>2, <2>1
  <2> QED
    BY <1>1, <1>3, <1>11, <2>3, <2>4 DEF DeleteMemory
<1>12. ASSUME NEW rows \in SUBSET (1 .. MaxMemories), Tell(n, rows)
       PROVE  MemoryTypeOK' /\ \A m \in MemoryNode : m # n => node'[m] = node[m]
  <2> DEFINE r == [Goes(node[n], "told") EXCEPT !.seen = rows]
  <2>1. r \in Record
    BY <1>4
  <2>2. node' = [node EXCEPT ![n] = r]
    BY <1>2, <1>12 DEF Tell
  <2> QED
    BY <1>1, <1>3, <1>12, <2>1, <2>2 DEF Tell
<1>13. CASE GetHistory(n) \/ GetSingleMemory(n) \/ GetRoles(n)
  <2>1. Selected(memories) \in SUBSET (1 .. MaxMemories)
    BY <1>1, SelectedSubset
  <2>2. \A x : ({x} \cap memories) \in SUBSET (1 .. MaxMemories)
    BY <1>1
  <2> QED
    BY <1>1, <1>12, <1>13, <2>1, <2>2 DEF GetHistory, GetSingleMemory, GetRoles
<1>14. CASE GetTotals(n)
  <2> DEFINE r == [Goes(node[n], "stats") EXCEPT !.count = Cardinality(memories)]
  <2>1. r \in Record
    BY <1>1, <1>4
  <2>2. node' = [node EXCEPT ![n] = r]
    BY <1>2, <1>14 DEF GetTotals
  <2> QED
    BY <1>1, <1>3, <1>14, <2>1, <2>2 DEF GetTotals
<1>15. CASE EndRead(n) \/ Rollback(n)
  BY <1>1, <1>3, <1>5, <1>15 DEF EndRead, Rollback
<1>16. CASE Commit(n)
  BY <1>1, <1>3, <1>5, <1>16 DEF Commit
<1> QED
  BY <1>6, <1>7, <1>8, <1>9, <1>10, <1>11, <1>13, <1>14, <1>15, <1>16 DEF Remember

(* ------------------------- what a step does to Room --------------------- *)
(* Only PruneToAdd names a row to add.                                      *)
NewOf(n) ==
    /\ node[n].step # "commit" => node[n].new = {}
    /\ node[n].new = {} \/ \E x \in 1 .. MaxMemories : node[n].new = {x}

Quiet(n) ==
    \/ PruneToAdd(n) \/ PruneByAge(n) \/ CountRest(n) \/ PruneByCount(n) \/ DeleteMemory(n)
    \/ GetHistory(n) \/ GetSingleMemory(n) \/ GetTotals(n) \/ GetRoles(n) \/ EndRead(n) \/ Rollback(n)

LEMMA QuietNode ==
    ASSUME MemoryTypeOK, NEW n \in MemoryNode, NewOf(n), Quiet(n)
    PROVE  /\ NewOf(n)' /\ memories' = memories
           /\ n \in Adders' => n \in Adders /\ Removed(n)' = Removed(n)
<1>1. node \in [MemoryNode -> [step : {"idle", "add", "prune", "pruned", "stats", "told", "commit"},
          count : 0 .. MaxMemories, doomed : SUBSET (1 .. MaxMemories), new : SUBSET (1 .. MaxMemories),
          seen : SUBSET (1 .. MaxMemories)]]
  BY DEF MemoryTypeOK
<1>2. CASE PruneToAdd(n)
  <2>1. /\ node[n].step = "add" /\ node'[n].step = "commit" /\ node'[n].new = {clock + 1}
        /\ node'[n].doomed = Oldest(memories, to_delete(node[n].count)) /\ memories' = memories
    BY <1>1, <1>2 DEF PruneToAdd
  <2>2. clock + 1 \in 1 .. MaxMemories
    BY <1>2, MemoryAssumption DEF PruneToAdd, MemoryTypeOK
  <2> QED
    BY <2>1, <2>2 DEF NewOf, Adders, Removed
<1>3. ASSUME memories' = memories, node[n].new = {}, node'[n].new = {}, node'[n].step # "add"
      PROVE  NewOf(n)' /\ n \notin Adders'
  BY <1>3 DEF NewOf, Adders
<1>4. ASSUME node[n].step # "commit"
      PROVE  node[n].new = {}
  BY <1>4 DEF NewOf
<1>5. CASE PruneByAge(n) \/ CountRest(n) \/ PruneByCount(n)
  <2>1. /\ node[n].step # "commit" /\ memories' = memories /\ node'[n].new = node[n].new
        /\ node'[n].step # "add"
    BY <1>1, <1>5 DEF PruneByAge, CountRest, PruneByCount
  <2> QED
    BY <1>3, <1>4, <2>1
<1>6. CASE DeleteMemory(n) \/ GetTotals(n)
  <2>1. /\ node[n].step # "commit" /\ memories' = memories /\ node'[n].new = node[n].new
        /\ node'[n].step # "add"
    BY <1>1, <1>6 DEF DeleteMemory, GetTotals
  <2> QED
    BY <1>3, <1>4, <2>1
<1>7. CASE GetHistory(n) \/ GetSingleMemory(n) \/ GetRoles(n)
  <2>1. /\ node[n].step # "commit" /\ memories' = memories /\ node'[n].new = node[n].new
        /\ node'[n].step # "add"
    BY <1>1, <1>7 DEF GetHistory, GetSingleMemory, GetRoles, Tell
  <2> QED
    BY <1>3, <1>4, <2>1
<1>8. CASE EndRead(n) \/ Rollback(n)
  <2>1. memories' = memories /\ node'[n] = NoOperation
    BY <1>1, <1>8 DEF EndRead, Rollback
  <2> QED
    BY <2>1 DEF NoOperation, NewOf, Adders
<1> QED
  BY <1>2, <1>3, <1>5, <1>6, <1>7, <1>8 DEF Quiet

LEMMA QuietRoom ==
    ASSUME MemoryTypeOK, RoomForAll, NEW n \in MemoryNode, NewOf(n), Quiet(n)
    PROVE  RoomForAll'
<1>1. /\ memories' = memories
      /\ n \in Adders' => n \in Adders /\ Removed(n)' = Removed(n)
      /\ \A m \in MemoryNode : m # n => node'[m] = node[m]
  BY QuietNode, OneNode DEF Quiet, Remember
<1>2. ASSUME NEW m \in Adders' PROVE m \in Adders /\ Removed(m)' = Removed(m)
  <2>1. m \in MemoryNode
    BY DEF Adders
  <2> QED
    BY <1>1, <2>1 DEF Adders, Removed
<1>3. ASSUME NEW Q \in SUBSET Adders' PROVE Q \in SUBSET Adders /\ Spared(Q)' = Spared(Q)
  BY <1>1, <1>2 DEF Spared
<1> QED
  BY <1>3 DEF RoomForAll

(* Counting: with what it will delete, a node leaves room below the limit.  *)
LEMMA CountRoom ==
    ASSUME MemoryTypeOK, RoomForAll, NEW n \in MemoryNode, NewOf(n), CountMemories(n)
    PROVE  RoomForAll' /\ NewOf(n)'
<1>1. /\ memories' = memories /\ node[n].step = "idle" /\ node'[n].step = "add"
      /\ node'[n].count = Cardinality(memories) /\ node'[n].new = node[n].new
  BY DEF CountMemories, MemoryTypeOK
<1>2. \A m \in MemoryNode : m # n => node'[m] = node[m]
  BY OneNode DEF Remember
<1>3. NewOf(n)'
  BY <1>1 DEF NewOf
<1>4. memories \in SUBSET (1 .. MaxMemories)
  BY DEF MemoryTypeOK
<1>5. Cardinality(memories) \in Nat
  BY <1>4, RowsFinite
<1>6. Cardinality(memories \ Oldest(memories, to_delete(Cardinality(memories)))) <= max_memories - 1
  <2>1. max_memories - 1 \in Nat
    BY NodesFinite
  <2> QED
    BY <1>4, <1>5, <2>1, ToDelete, LeftByOldest
<1>7. ASSUME NEW Q \in SUBSET Adders'
      PROVE  Cardinality(Spared(Q)') + Cardinality(Q) < max_memories + Cardinality(MemoryNode)
  <2>1. Q \subseteq MemoryNode
    BY DEF Adders
  <2>2. CASE n \in Q
    <3>1. Removed(n)' = Oldest(memories, to_delete(Cardinality(memories)))
      BY <1>1 DEF Removed
    <3>2. Spared(Q)' \subseteq memories \ Oldest(memories, to_delete(Cardinality(memories)))
      BY <1>1, <2>2, <3>1 DEF Spared
    <3>3. memories \ Oldest(memories, to_delete(Cardinality(memories))) \in SUBSET (1 .. MaxMemories)
      BY <1>4
    <3>4. /\ Cardinality(Spared(Q)') <= Cardinality(memories \ Oldest(memories, to_delete(Cardinality(memories))))
          /\ Cardinality(Spared(Q)') \in Nat
          /\ Cardinality(memories \ Oldest(memories, to_delete(Cardinality(memories)))) \in Nat
      BY <3>2, <3>3, RowsFinite, FS_Subset, FS_CardinalityType
    <3>5. Cardinality(Q) <= Cardinality(MemoryNode) /\ Cardinality(Q) \in Nat
      BY <2>1, SetsOfNodes
    <3> QED
      BY <1>6, <3>4, <3>5, NodesFinite
  <2>3. CASE n \notin Q
    <3>1. ASSUME NEW m \in Q PROVE m \in Adders /\ Removed(m)' = Removed(m)
      <4>1. m \in MemoryNode /\ m # n /\ m \in Adders'
        BY <2>1, <2>3
      <4> QED
        BY <1>1, <1>2, <4>1 DEF Adders, Removed
    <3>2. Q \in SUBSET Adders /\ Spared(Q)' = Spared(Q)
      BY <1>1, <3>1 DEF Spared
    <3> QED
      BY <3>2 DEF RoomForAll
  <2> QED
    BY <2>2, <2>3
<1> QED
  BY <1>3, <1>7 DEF RoomForAll

(* A commit: the rows it deletes were counted as gone, and it adds at most  *)
(* one row in place of the node that it was itself.                         *)
LEMMA CommitRoom ==
    ASSUME MemoryTypeOK, RoomForAll, NEW n \in MemoryNode, NewOf(n), Commit(n)
    PROVE  RoomForAll' /\ NewOf(n)'
<1>1. /\ node[n].step = "commit" /\ memories' = (memories \ node[n].doomed) \cup node[n].new
      /\ node'[n] = NoOperation
  BY DEF Commit, MemoryTypeOK
<1>2. \A m \in MemoryNode : m # n => node'[m] = node[m]
  BY OneNode DEF Remember
<1>3. NewOf(n)' /\ n \notin Adders'
  BY <1>1 DEF NewOf, Adders, NoOperation
<1>4. memories \in SUBSET (1 .. MaxMemories) /\ memories' \in SUBSET (1 .. MaxMemories)
  <2>1. MemoryTypeOK'
    BY OneNode DEF Remember
  <2> QED
    BY <2>1 DEF MemoryTypeOK
<1>5. ASSUME NEW Q \in SUBSET Adders'
      PROVE  Cardinality(Spared(Q)') + Cardinality(Q) < max_memories + Cardinality(MemoryNode)
  <2> DEFINE lengths == {to_delete(node[q].count) : q \in {p \in Q : node[p].step = "add"}}
  <2>1. ASSUME NEW q \in Q
        PROVE  q \in MemoryNode /\ q # n /\ q \in Adders /\ node'[q] = node[q]
    <3>1. q \in Adders' /\ q # n
      BY <1>3
    <3>2. q \in MemoryNode
      BY <3>1 DEF Adders
    <3> QED
      BY <1>2, <3>1, <3>2 DEF Adders
  <2>2. Q \in SUBSET Adders /\ Q \in SUBSET MemoryNode /\ n \notin Q
    BY <2>1
  <2>3. lengths \in SUBSET Nat
    <3>1. ASSUME NEW q \in Q PROVE to_delete(node[q].count) \in Nat
      <4>1. node[q].count \in Nat
        BY <2>1 DEF MemoryTypeOK
      <4> QED
        BY <4>1, ToDelete
    <3> QED
      BY <3>1
  <2>4. ASSUME NEW y \in Spared(Q)' PROVE y \in Kept(memories', lengths)
    <3>1. y \in memories' /\ \A q \in Q : y \notin Removed(q)'
      BY DEF Spared
    <3>2. ASSUME NEW q \in Q, node[q].step = "add"
          PROVE  y \notin Oldest(memories', to_delete(node[q].count))
      BY <2>1, <3>1, <3>2 DEF Removed
    <3> QED
      BY <3>1, <3>2 DEF Kept
  <2>5. ASSUME NEW y \in Spared(Q)', y \in Kept(memories, lengths), NEW q \in Q
        PROVE  y \notin Removed(q)
    <3>1. y \notin Removed(q)'
      BY DEF Spared
    <3>2. CASE node[q].step = "add"
      BY <2>5, <3>2 DEF Kept, Removed
    <3>3. CASE node[q].step # "add"
      BY <2>1, <3>1, <3>3 DEF Removed
    <3> QED
      BY <3>2, <3>3
  <2>6. Cardinality(Spared(Q)') \in Nat /\ IsFiniteSet(Spared(Q)) /\ Cardinality(Spared(Q)) \in Nat
    <3>1. Spared(Q)' \in SUBSET (1 .. MaxMemories) /\ Spared(Q) \in SUBSET (1 .. MaxMemories)
      BY <1>4 DEF Spared
    <3> QED
      BY <3>1, RowsFinite
  <2>7. IsFiniteSet(Q) /\ Cardinality(Q) \in Nat
    BY <2>2, SetsOfNodes
  <2>8. CASE node[n].new = {}
    <3>1. memories' \in SUBSET memories
      BY <1>1, <2>8
    <3>2. Kept(memories', lengths) \subseteq Kept(memories, lengths)
      BY <1>4, <2>3, <3>1, FewerKept
    <3>3. ASSUME NEW y \in Spared(Q)' PROVE y \in Spared(Q)
      <4>1. y \in Kept(memories, lengths)
        BY <2>4, <3>2
      <4>2. y \in memories
        BY <4>1 DEF Kept
      <4> QED
        BY <2>5, <4>1, <4>2 DEF Spared
    <3>4. Cardinality(Spared(Q)') <= Cardinality(Spared(Q))
      BY <2>6, <3>3, FS_Subset
    <3>5. Cardinality(Spared(Q)) + Cardinality(Q) < max_memories + Cardinality(MemoryNode)
      BY <2>2 DEF RoomForAll
    <3> QED
      BY <2>6, <2>7, <3>4, <3>5, NodesFinite
  <2>9. CASE node[n].new # {}
    <3> DEFINE All == Q \cup {n}
    <3>1. PICK x \in 1 .. MaxMemories : node[n].new = {x}
      BY <2>9 DEF NewOf
    <3>2. PICK e : \A f \in Kept((memories \ node[n].doomed) \cup {x}, lengths) :
                      f = e \/ (f \in Kept(memories, lengths) /\ f \notin node[n].doomed)
      <4> HIDE DEF lengths
      <4>1. memories \in SUBSET (1 .. MaxMemories) /\ lengths \in SUBSET Nat /\ x \in 1 .. MaxMemories
        BY <1>4, <2>3, <3>1
      <4>2. ASSUME NEW l \in SUBSET Nat, NEW g
            PROVE  \E e : \A f \in Kept((memories \ g) \cup {x}, l) :
                      f = e \/ (f \in Kept(memories, l) /\ f \notin g)
        BY <4>1, OneMoreKept
      <4> QED
        BY <4>1, <4>2
    <3>3. ASSUME NEW y \in Spared(Q)', y # e PROVE y \in Spared(All)
      <4>1. y \in Kept(memories, lengths) /\ y \notin node[n].doomed
        <5> HIDE DEF lengths
        <5>1. y \in Kept((memories \ node[n].doomed) \cup {x}, lengths)
          BY <1>1, <2>4, <3>1
        <5> QED
          BY <3>2, <3>3, <5>1
      <4>2. y \in memories
        BY <4>1 DEF Kept
      <4>3. y \notin Removed(n)
        BY <1>1, <4>1 DEF Removed
      <4> QED
        BY <2>5, <4>1, <4>2, <4>3 DEF Spared
    <3>4. n \in Adders
      BY <1>1, <2>9 DEF Adders
    <3>5. All \in SUBSET Adders
      BY <2>2, <3>4
    <3>6. Cardinality(All) = Cardinality(Q) + 1
      BY <2>2, <2>7, FS_AddElement
    <3>7. Cardinality(Spared(All)) + Cardinality(All) < max_memories + Cardinality(MemoryNode)
      BY <3>5 DEF RoomForAll
    <3>8. IsFiniteSet(Spared(All)) /\ Cardinality(Spared(All)) \in Nat
      <4>1. Spared(All) \in SUBSET (1 .. MaxMemories)
        BY <1>4 DEF Spared
      <4> QED
        BY <4>1, RowsFinite
    <3>9. Spared(Q)' \subseteq Spared(All) \cup {e}
      BY <3>3
    <3>10. /\ Cardinality(Spared(All) \cup {e}) <= Cardinality(Spared(All)) + 1
           /\ Cardinality(Spared(All) \cup {e}) \in Nat /\ IsFiniteSet(Spared(All) \cup {e})
      <4> DEFINE left == Spared(All)
      <4> HIDE DEF left
      <4>1. IsFiniteSet(left) /\ Cardinality(left) \in Nat
        BY <3>8 DEF left
      <4>2. IsFiniteSet(left \cup {e}) /\ Cardinality(left \cup {e})
              = IF e \in left THEN Cardinality(left) ELSE Cardinality(left) + 1
        BY <4>1, FS_AddElement
      <4>3. Cardinality(left \cup {e}) <= Cardinality(left) + 1 /\ Cardinality(left \cup {e}) \in Nat
        BY <4>1, <4>2
      <4> QED
        BY <4>2, <4>3 DEF left
    <3>11. Cardinality(Spared(Q)') <= Cardinality(Spared(All) \cup {e})
      BY <3>9, <3>10, FS_Subset
    <3> HIDE DEF All
    <3> QED
      BY <2>6, <2>7, <3>6, <3>7, <3>8, <3>10, <3>11, NodesFinite
  <2> QED
    BY <2>8, <2>9
<1> QED
  BY <1>3, <1>5 DEF RoomForAll

MemoryInv == MemoryTypeOK /\ RoomForAll /\ \A n \in MemoryNode : NewOf(n)

LEMMA MemoryInvariant == MemorySpec => []MemoryInv
<1> USE DEF MemoryInv
<1>1. MemoryInit => MemoryInv
  <2> SUFFICES ASSUME MemoryInit PROVE MemoryInv
    OBVIOUS
  <2>1. MemoryTypeOK
    BY MemoryAssumption DEF MemoryInit, MemoryTypeOK, NoOperation
  <2>2. Adders = {} /\ \A n \in MemoryNode : NewOf(n)
    BY DEF MemoryInit, Adders, NewOf, NoOperation
  <2>3. \A Q : Spared(Q) = {}
    BY DEF MemoryInit, Spared
  <2>4. Cardinality({}) = 0
    BY FS_EmptySet
  <2>5. \A Q \in SUBSET Adders : Q = {}
    BY <2>2
  <2>6. ASSUME NEW Q \in SUBSET Adders
        PROVE  Cardinality(Spared(Q)) + Cardinality(Q) < max_memories + Cardinality(MemoryNode)
    <3>1. Cardinality(Spared(Q)) = 0 /\ Cardinality(Q) = 0
      BY <2>3, <2>4, <2>5
    <3> QED
      BY <3>1, NodesFinite
  <2> QED
    BY <2>1, <2>2, <2>6 DEF RoomForAll
<1>2. MemoryInv /\ [MemoryNext]_memoryVars => MemoryInv'
  <2> SUFFICES ASSUME MemoryInv, [MemoryNext]_memoryVars PROVE MemoryInv'
    OBVIOUS
  <2>1. CASE MemoryNext
    <3>1. PICK n \in MemoryNode : Remember(n)
      BY <2>1 DEF MemoryNext
    <3>2. MemoryTypeOK' /\ \A m \in MemoryNode : m # n => node'[m] = node[m]
      BY <3>1, OneNode
    <3>3. RoomForAll' /\ NewOf(n)'
      BY <3>1, QuietRoom, QuietNode, CountRoom, CommitRoom DEF Remember, Quiet
    <3>4. \A m \in MemoryNode : NewOf(m)'
      BY <3>2, <3>3 DEF NewOf
    <3> QED
      BY <3>2, <3>3, <3>4
  <2>2. CASE UNCHANGED memoryVars
    BY <2>2 DEF memoryVars, MemoryTypeOK, RoomForAll, Adders, Spared, Removed, NewOf
  <2> QED
    BY <2>1, <2>2
<1> QED
  BY <1>1, <1>2, PTL DEF MemorySpec

(* However nodes add, prune and delete at once, the rows that are committed *)
(* exceed the limit by at most one for each other node.                     *)
THEOREM MemoriesStayBounded == MemorySpec => []MemoriesBounded
<1> USE DEF MemoryInv
<1>1. MemoryInv => MemoriesBounded
  <2> SUFFICES ASSUME MemoryInv PROVE MemoriesBounded
    OBVIOUS
  <2>1. Spared({}) = memories
    BY DEF Spared
  <2>2. Cardinality(memories) + Cardinality({}) < max_memories + Cardinality(MemoryNode)
    BY <2>1 DEF RoomForAll
  <2>3. Cardinality({}) = 0 /\ Cardinality(memories) \in Nat
    BY FS_EmptySet, RowsFinite DEF MemoryTypeOK
  <2> QED
    BY <2>2, <2>3 DEF MemoriesBounded
<1> QED
  BY <1>1, MemoryInvariant, PTL

-----------------------------------------------------------------------------
(***************************************************************************)
(* The integration nodes. Of what an operation asks, a request that changes*)
(* something is the last, and can neither be left out nor fail unnoticed;  *)
(* so a node that has read its success has nothing left that could fail.   *)
(***************************************************************************)
Methods == {"GET", "LIST", "IMAGE", "POST", "PATCH", "PUT", "DELETE"}
Asked == [client : DOMAIN Client, method : Methods, changes : BOOLEAN, spare : BOOLEAN,
          find : BOOLEAN, ignored : BOOLEAN, consent : BOOLEAN]
ReadOnly == {a \in Asked : ~a.changes}
Certain == {a \in Asked : a.changes /\ ~a.spare /\ ~a.find /\ ~a.ignored}

(* Its client knows the method, and takes the answer to it for a success.   *)
Suits(c, m) == Verb(m) \in Client[c].knows /\ Form(m) \in Client[c].success
Reading == {a \in ReadOnly : Suits(a.client, a.method)}
Changing == {a \in Certain : Suits(a.client, a.method)}

SoundAsks(s) ==
    \/ \E a \in ReadOnly \cup Certain : s = <<a>>
    \/ \E a \in ReadOnly, b \in ReadOnly \cup Certain : s = <<a, b>>

SoundRow(r) == "asks" \in DOMAIN r /\ SoundAsks(r.asks)
SoundNode(table) ==
    /\ {"rows", "absent", "broken", "missing", "unknown", "sealed", "offers"} \subseteq DOMAIN table
    /\ {table.absent, table.broken, table.missing, table.unknown} \subseteq {"final", "again", "returned"}
    /\ \A o \in DOMAIN table.rows : SoundRow(table.rows[o])

(* A row that reads, one that changes something, and a node whose rows do   *)
(* what its manifest offers.                                                *)
AsksToRead(s) ==
    (\E a \in Reading : s = <<a>>) \/ (\E a \in Reading, b \in Reading : s = <<a, b>>)
AsksToChange(s) ==
    (\E a \in Changing : s = <<a>>) \/ (\E a \in Reading, b \in Changing : s = <<a, b>>)

RowReads(r) == "asks" \in DOMAIN r /\ AsksToRead(r.asks)
RowChanges(r) == "asks" \in DOMAIN r /\ AsksToChange(r.asks)

KeepsWord(table, o) ==
    /\ o \in DOMAIN table.rows /\ ~table.sealed /\ table.offers[o] \in BOOLEAN
    /\ IF table.offers[o] THEN RowChanges(table.rows[o]) ELSE RowReads(table.rows[o])

LEMMA ClientsNamed ==
    /\ {"notion", "slack", "discord", "twilio", "mistral", "perplexity", "supabase", "webhook", "browser",
        "gmail", "openai", "anthropic", "gemini", "slackhook", "sheets", "inbox", "youtube", "rpc", "lookup",
        "agent", "embedding", "knowledge", "storage"} = DOMAIN Client
BY DEF Client

LEMMA ClientsSuit ==
    /\ \A m \in {"GET", "POST", "PATCH", "DELETE"} : Suits("notion", m) /\ Suits("discord", m)
    /\ \A m \in {"GET", "POST", "DELETE"} : Suits("twilio", m)
    /\ \A m \in {"GET", "POST"} : Suits("slack", m)
    /\ \A m \in {"GET", "LIST", "POST", "PATCH", "PUT", "DELETE"} : Suits("supabase", m) /\ Suits("webhook", m)
    /\ Suits("slackhook", "POST") /\ Suits("gmail", "POST") /\ Suits("mistral", "POST")
    /\ Suits("perplexity", "POST") /\ Suits("browser", "POST") /\ Suits("openai", "POST")
    /\ Suits("anthropic", "POST") /\ Suits("gemini", "POST")
    /\ \A m \in Methods : /\ Suits("lookup", m) /\ Suits("sheets", m) /\ Suits("inbox", m) /\ Suits("rpc", m)
                          /\ Suits("youtube", m) /\ Suits("storage", m) /\ Suits("agent", m)
<1> USE DEF Suits, Verb, Form, Client
<1>1. \A m \in {"GET", "POST", "PATCH", "DELETE"} : Suits("notion", m) /\ Suits("discord", m)
  BY DEF NotionRequest, DiscordRequest, JsonClient
<1>2. /\ \A m \in {"GET", "POST", "DELETE"} : Suits("twilio", m)
      /\ \A m \in {"GET", "POST"} : Suits("slack", m)
  BY DEF TwilioRequest, SlackRequest, JsonClient
<1>3. \A m \in {"GET", "LIST", "POST", "PATCH", "PUT", "DELETE"} : Suits("supabase", m) /\ Suits("webhook", m)
  BY DEF SupabaseRequest, WebhookRequest, ServesAnything, Read
<1>4. /\ Suits("slackhook", "POST") /\ Suits("gmail", "POST") /\ Suits("mistral", "POST")
      /\ Suits("perplexity", "POST") /\ Suits("browser", "POST")
  BY DEF SlackWebhook, GmailSend, MistralRequest, PerplexityRequest, BrowserRequest, JsonClient, Read
<1>5. Suits("openai", "POST") /\ Suits("anthropic", "POST") /\ Suits("gemini", "POST")
  BY DEF OpenAIRequest, AnthropicRequest, GeminiRequest
<1>6. \A m \in Methods : /\ Suits("lookup", m) /\ Suits("sheets", m) /\ Suits("inbox", m) /\ Suits("rpc", m)
                         /\ Suits("youtube", m) /\ Suits("storage", m) /\ Suits("agent", m)
  BY DEF PhoneLookup, SheetsClient, GmailReads, SupabaseRpc, YouTubeClient, Storage, AgentModel, Once, Read,
         Methods
<1> QED
  BY <1>1, <1>2, <1>3, <1>4, <1>5, <1>6

LEMMA AsksTyped ==
    ASSUME NEW c \in DOMAIN Client, NEW m \in Methods
    PROVE  /\ Reads(c, m) \in ReadOnly /\ Changes(c, m) \in Certain
           /\ Suits(c, m) => Reads(c, m) \in Reading /\ Changes(c, m) \in Changing
           /\ Suits(c, "GET") => Finds(c) \in Reading /\ Looks(c) \in Reading
<1>1. Reads(c, m) \in ReadOnly /\ Changes(c, m) \in Certain
  BY DEF Reads, Changes, Asks, ReadOnly, Certain, Asked
<1>2. Reads(c, "GET") \in ReadOnly
  BY DEF Reads, Asks, ReadOnly, Asked, Methods
<1>3. Finds(c) \in ReadOnly /\ Looks(c) \in ReadOnly
  BY <1>2 DEF Finds, Looks, ReadOnly, Asked
<1>4. /\ Reads(c, m).client = c /\ Reads(c, m).method = m
      /\ Changes(c, m).client = c /\ Changes(c, m).method = m
      /\ Finds(c).client = c /\ Finds(c).method = "GET" /\ Looks(c).client = c /\ Looks(c).method = "GET"
  BY DEF Reads, Changes, Asks, Finds, Looks
<1> QED
  BY <1>1, <1>3, <1>4 DEF Reading, Changing

LEMMA AsksChanged ==
    /\ Offloads \in Reading
    /\ \A a \in Reading :
         /\ [a EXCEPT !.ignored = TRUE] \in Reading /\ [a EXCEPT !.spare = TRUE] \in Reading
         /\ Consents(a) \in Reading
    /\ \A a \in Changing : Consents(a) \in Changing
<1>1. ASSUME NEW a \in Reading
      PROVE  [a EXCEPT !.ignored = TRUE] \in Reading /\ [a EXCEPT !.spare = TRUE] \in Reading
  BY DEF Reading, ReadOnly, Asked
<1>2. ASSUME NEW a \in Reading PROVE Consents(a) \in Reading
  BY DEF Consents, Asked, ReadOnly, Reading
<1>3. ASSUME NEW a \in Changing PROVE Consents(a) \in Changing
  BY DEF Consents, Asked, Certain, Changing
<1>4. Offloads \in Reading
  <2>1. Reads("storage", "PUT") \in Reading
    BY AsksTyped, ClientsSuit, ClientsNamed DEF Methods
  <2> QED
    BY <1>1, <2>1 DEF Offloads, Reading, ReadOnly, Asked
<1> QED
  BY <1>1, <1>2, <1>3, <1>4

LEMMA RowsMade ==
    /\ \A n, c, u, s : /\ AsksToRead(s) => RowReads(Row(n, c, u, s))
                       /\ AsksToChange(s) => RowChanges(Row(n, c, u, s))
    /\ \A p, s : /\ AsksToRead(s) => RowReads(Needs(p, s))
                 /\ AsksToChange(s) => RowChanges(Needs(p, s))
    /\ \A r, c, u : /\ RowReads(r) => RowReads(Takes(r, c, u))
                    /\ RowChanges(r) => RowChanges(Takes(r, c, u))
    /\ \A a \in Reading : AsksToRead(<<a>>)
    /\ \A a \in Changing : AsksToChange(<<a>>)
    /\ \A a \in Reading, b \in Reading : AsksToRead(<<a, b>>)
    /\ \A a \in Reading, b \in Changing : AsksToChange(<<a, b>>)
BY DEF RowReads, RowChanges, Row, Needs, Takes, AsksToRead, AsksToChange

LEMMA RowsSound == \A r : RowReads(r) \/ RowChanges(r) => SoundRow(r)
<1>1. Reading \subseteq ReadOnly /\ Changing \subseteq Certain
  BY DEF Reading, Changing
<1>2. \A s : AsksToRead(s) \/ AsksToChange(s) => SoundAsks(s)
  BY <1>1 DEF SoundAsks, AsksToRead, AsksToChange
<1> QED
  BY <1>2 DEF SoundRow, RowReads, RowChanges

LEMMA OffersOf == ASSUME NEW R, NEW C PROVE DOMAIN Offers(R, C) = R \cup C
BY DEF Offers

(* A node whose rows read where its manifest says so, and change something  *)
(* where it says that.                                                      *)
LEMMA NodeKeeps ==
    ASSUME NEW R, NEW C, NEW table, table.offers = Offers(R, C), ~table.sealed
    PROVE  /\ DOMAIN table.offers = R \cup C
           /\ \A o \in C : o \in DOMAIN table.rows /\ RowChanges(table.rows[o]) => KeepsWord(table, o)
           /\ \A o \in R : o \notin C /\ o \in DOMAIN table.rows /\ RowReads(table.rows[o]) => KeepsWord(table, o)
<1>1. DOMAIN table.offers = R \cup C
  BY OffersOf
<1>2. ASSUME NEW o \in R \cup C PROVE (table.offers[o] <=> o \in C) /\ table.offers[o] \in BOOLEAN
  <2>1. table.offers[o] = Offers(R, C)[o]
    BY Zenon
  <2>2. Offers(R, C)[o] = (o \in C)
    BY Zenon, <1>2 DEF Offers
  <2>3. (o \in C) \in BOOLEAN
    OBVIOUS
  <2> QED
    BY Zenon, <2>1, <2>2, <2>3
<1> QED
  BY <1>1, <1>2 DEF KeepsWord

LEMMA NotionRows == SoundNode(NotionNode) /\ \A o \in DOMAIN NotionNode.offers : KeepsWord(NotionNode, o)
<1>1. \A m \in {"GET", "POST", "PATCH"} : Reads("notion", m) \in Reading /\ Changes("notion", m) \in Changing
  BY AsksTyped, ClientsSuit, ClientsNamed DEF Methods
<1>2. /\ NotionQueryDatabase \in Reading /\ NotionCreatePage \in Changing /\ NotionUpdatePage \in Changing
      /\ NotionGetPage \in Reading /\ NotionGetPageContent \in Reading /\ NotionArchivePage \in Changing
      /\ NotionAppendBlocks \in Changing /\ NotionSearch \in Reading
  BY <1>1 DEF NotionQueryDatabase, NotionCreatePage, NotionUpdatePage, NotionGetPage, NotionGetPageContent,
              NotionArchivePage, NotionAppendBlocks, NotionSearch
<1>3. /\ RowReads(notion_query_database) /\ RowChanges(notion_create_page) /\ RowChanges(notion_update_page)
      /\ RowReads(notion_get_page) /\ RowChanges(notion_archive_page) /\ RowChanges(notion_append_content)
      /\ RowReads(notion_search)
  BY <1>2, RowsMade, AsksChanged
     DEF notion_query_database, notion_create_page, notion_update_page, notion_get_page, notion_archive_page,
         notion_append_content, notion_search
<1>4. SoundNode(NotionNode)
  BY <1>3, RowsSound DEF SoundNode, NotionNode, Node
<1> QED
  BY <1>3, <1>4, NodeKeeps DEF NotionNode, Node, notion_manifest

LEMMA SlackRows ==
    /\ SoundNode(SlackNode) /\ \A o \in DOMAIN SlackNode.offers : KeepsWord(SlackNode, o)
    /\ SoundNode(SlackWebhookNode)
    /\ \A o \in {"send_message", "add_reaction"} : KeepsWord(SlackWebhookNode, o)
<1>1. /\ \A m \in {"GET", "POST"} : Reads("slack", m) \in Reading /\ Changes("slack", m) \in Changing
      /\ Looks("slack") \in Reading /\ Changes("slackhook", "POST") \in Changing
  BY AsksTyped, ClientsSuit, ClientsNamed DEF Methods
<1>2. /\ SlackResolveChannel \in Reading /\ SlackSendMessage \in Changing /\ SlackReadMessages \in Reading
      /\ SlackListChannels \in Reading /\ SlackAddReaction \in Changing
  BY <1>1 DEF SlackResolveChannel, SlackSendMessage, SlackReadMessages, SlackListChannels, SlackAddReaction
<1>3. /\ RowChanges(slack_send_message) /\ RowReads(slack_read_messages) /\ RowReads(slack_list_channels)
      /\ RowChanges(slack_add_reaction) /\ RowChanges(slack_webhook)
  BY <1>2, <1>1, RowsMade
     DEF slack_send_message, slack_read_messages, slack_list_channels, slack_add_reaction, slack_webhook
<1>4. SoundNode(SlackNode) /\ SoundNode(SlackWebhookNode)
  BY <1>3, RowsSound DEF SoundNode, SlackNode, SlackWebhookNode, Node
<1>5. \A o \in DOMAIN SlackNode.offers : KeepsWord(SlackNode, o)
  BY <1>3, NodeKeeps DEF SlackNode, Node, slack_manifest
<1>6. \A o \in {"send_message", "add_reaction"} : KeepsWord(SlackWebhookNode, o)
  BY <1>3, NodeKeeps DEF SlackWebhookNode, Node, slack_manifest
<1> QED
  BY <1>4, <1>5, <1>6

LEMMA DiscordRows ==
    /\ SoundNode(DiscordNode)
    /\ \A o \in {"send_webhook", "send_message", "create_thread"} : KeepsWord(DiscordNode, o)
<1>1. /\ Changes("discord", "POST") \in Changing
      /\ Reads("discord", "LIST") \in ReadOnly /\ Changes("discord", "PUT") \in Certain
  BY AsksTyped, ClientsSuit, ClientsNamed DEF Methods
<1>2. /\ DiscordWebhookMessage \in Changing /\ DiscordSendMessage \in Changing
      /\ DiscordCreateThread \in Changing /\ DiscordGetMessages \in ReadOnly /\ DiscordAddReaction \in Certain
  BY <1>1 DEF DiscordWebhookMessage, DiscordSendMessage, DiscordGetMessages, DiscordAddReaction,
              DiscordCreateThread
<1>3. RowChanges(discord_send_webhook) /\ RowChanges(discord_send_message) /\ RowChanges(discord_create_thread)
  BY <1>2, RowsMade DEF discord_send_webhook, discord_send_message, discord_create_thread
<1>4. SoundRow(discord_get_messages) /\ SoundRow(discord_add_reaction)
  BY <1>2 DEF discord_get_messages, discord_add_reaction, SoundRow, SoundAsks, Takes, Needs, Row
<1>5. SoundNode(DiscordNode)
  BY <1>3, <1>4, RowsSound DEF SoundNode, DiscordNode, Node
<1> QED
  BY <1>3, <1>5, NodeKeeps DEF DiscordNode, Node, discord_manifest

LEMMA TwilioRows == SoundNode(TwilioNode) /\ \A o \in DOMAIN TwilioNode.offers : KeepsWord(TwilioNode, o)
<1>1. /\ Reads("twilio", "GET") \in Reading /\ Changes("twilio", "POST") \in Changing
      /\ Reads("lookup", "GET") \in Reading
  BY AsksTyped, ClientsSuit, ClientsNamed DEF Methods
<1>2. /\ TwilioSendSms \in Changing /\ TwilioMakeCall \in Changing /\ TwilioGetMessage \in Reading
      /\ TwilioGetCall \in Reading /\ TwilioLookupPhone \in Reading /\ TwilioListMessages \in Reading
  BY <1>1 DEF TwilioSendSms, TwilioMakeCall, TwilioGetMessage, TwilioGetCall, TwilioLookupPhone,
              TwilioListMessages
<1>3. /\ RowChanges(twilio_send_sms) /\ RowChanges(twilio_make_call) /\ RowReads(twilio_get_message)
      /\ RowReads(twilio_get_call) /\ RowReads(twilio_lookup_phone) /\ RowReads(twilio_list_messages)
  BY <1>2, RowsMade
     DEF twilio_send_sms, twilio_make_call, twilio_get_message, twilio_get_call, twilio_lookup_phone,
         twilio_list_messages
<1>4. SoundNode(TwilioNode)
  BY <1>3, RowsSound DEF SoundNode, TwilioNode, Node
<1> QED
  BY <1>3, <1>4, NodeKeeps DEF TwilioNode, Node, twilio_manifest

LEMMA SheetsRows ==
    SoundNode(GoogleSheetsNode) /\ \A o \in DOMAIN GoogleSheetsNode.offers : KeepsWord(GoogleSheetsNode, o)
<1>1. \A m \in Methods : Reads("sheets", m) \in Reading /\ Changes("sheets", m) \in Changing
  BY AsksTyped, ClientsSuit, ClientsNamed
<1>2. /\ Consents(SheetsReadData) \in Reading /\ Consents(SheetsAppendData) \in Changing
      /\ Consents(SheetsUpdateData) \in Changing /\ SheetsClearData \in Changing
      /\ SheetsGetMetadata \in Reading /\ SheetsCreateSheet \in Changing
  BY <1>1, AsksChanged
     DEF SheetsReadData, SheetsAppendData, SheetsUpdateData, SheetsClearData, SheetsGetMetadata,
         SheetsCreateSheet, Methods
<1>3. /\ RowReads(sheets_read_data) /\ RowChanges(sheets_append_data) /\ RowChanges(sheets_update_data)
      /\ RowChanges(sheets_clear_data) /\ RowReads(sheets_get_metadata) /\ RowChanges(sheets_create_sheet)
  BY <1>2, RowsMade
     DEF sheets_read_data, sheets_append_data, sheets_update_data, sheets_clear_data, sheets_get_metadata,
         sheets_create_sheet
<1>4. SoundNode(GoogleSheetsNode)
  BY <1>3, RowsSound DEF SoundNode, GoogleSheetsNode, Node
<1> QED
  BY <1>3, <1>4, NodeKeeps DEF GoogleSheetsNode, Node, sheets_manifest

LEMMA GmailRows == SoundNode(GmailNode) /\ \A o \in DOMAIN GmailNode.offers : KeepsWord(GmailNode, o)
<1>1. Changes("gmail", "POST") \in Changing /\ Reads("inbox", "GET") \in Reading
  BY AsksTyped, ClientsSuit, ClientsNamed DEF Methods
<1>2. /\ Consents(Changes("gmail", "POST")) \in Changing
      /\ [Reads("inbox", "GET") EXCEPT !.spare = TRUE] \in Reading
  BY <1>1, AsksChanged
<1>3. RowChanges(gmail_send_email) /\ RowReads(gmail_read_emails) /\ RowReads(gmail_get_labels)
  BY <1>1, <1>2, RowsMade DEF gmail_send_email, gmail_read_emails, gmail_get_labels
<1>4. SoundNode(GmailNode)
  BY <1>3, RowsSound DEF SoundNode, GmailNode, Node
<1> QED
  BY <1>3, <1>4, NodeKeeps DEF GmailNode, Node, gmail_manifest

LEMMA SupabaseRows == SoundNode(SupabaseNode) /\ \A o \in DOMAIN SupabaseNode.offers : KeepsWord(SupabaseNode, o)
<1>1. /\ \A m \in {"POST", "PATCH", "DELETE"} : Changes("supabase", m) \in Changing
      /\ Reads("supabase", "LIST") \in Reading /\ Changes("rpc", "POST") \in Changing
  BY AsksTyped, ClientsSuit, ClientsNamed DEF Methods
<1>2. /\ SupabaseSelect \in Reading /\ SupabaseInsert \in Changing /\ SupabaseUpdate \in Changing
      /\ SupabaseUpsert \in Changing /\ SupabaseDelete \in Changing
  BY <1>1 DEF SupabaseSelect, SupabaseInsert, SupabaseUpdate, SupabaseUpsert, SupabaseDelete
<1>3. /\ RowReads(supabase_select) /\ RowChanges(supabase_insert) /\ RowChanges(supabase_update)
      /\ RowChanges(supabase_upsert) /\ RowChanges(supabase_delete) /\ RowChanges(supabase_rpc)
  BY <1>1, <1>2, RowsMade
     DEF supabase_select, supabase_insert, supabase_update, supabase_upsert, supabase_delete, supabase_rpc
<1>4. SoundNode(SupabaseNode)
  BY <1>3, RowsSound DEF SoundNode, SupabaseNode, Node
<1> QED
  <2>1. SupabaseNode.offers = Offers({"SELECT"}, {"INSERT", "UPDATE", "UPSERT", "DELETE", "RPC"})
    BY DEF SupabaseNode, Node, supabase_manifest
  <2>2. ~SupabaseNode.sealed
    BY DEF SupabaseNode, Node
  <2>3. /\ \A o \in {"INSERT", "UPDATE", "UPSERT", "DELETE", "RPC"} :
             o \in DOMAIN SupabaseNode.rows /\ RowChanges(SupabaseNode.rows[o])
        /\ "SELECT" \in DOMAIN SupabaseNode.rows /\ RowReads(SupabaseNode.rows["SELECT"])
    BY <1>3 DEF SupabaseNode, Node
  <2> QED
    BY <1>4, <2>1, <2>2, <2>3, NodeKeeps

LEMMA YouTubeRows == SoundNode(YouTubeNode) /\ \A o \in DOMAIN YouTubeNode.offers : KeepsWord(YouTubeNode, o)
<1>1. Reads("youtube", "GET") \in Reading /\ Finds("youtube") \in Reading
  BY AsksTyped, ClientsSuit, ClientsNamed DEF Methods
<1>2. /\ YouTubeSearch \in Reading /\ YouTubeVideoDetails \in Reading /\ YouTubeComments \in Reading
      /\ YouTubeTranscript \in Reading /\ YouTubeChannelInfo \in Reading
  BY <1>1 DEF YouTubeSearch, YouTubeVideoDetails, YouTubeComments, YouTubeTranscript, YouTubeChannelInfo
<1>3. /\ RowReads(youtube_search_videos) /\ RowReads(youtube_get_video_details)
      /\ RowReads(youtube_get_video_comments) /\ RowReads(youtube_get_transcript)
      /\ RowReads(youtube_get_channel_info)
  BY <1>2, RowsMade, AsksChanged
     DEF youtube_search_videos, youtube_get_video_details, youtube_get_video_comments, youtube_get_transcript,
         youtube_get_channel_info
<1>4. SoundNode(YouTubeNode)
  BY <1>3, RowsSound DEF SoundNode, YouTubeNode, Node, Returning
<1> QED
  <2>1. /\ YouTubeNode.offers = Offers({"search_videos", "get_video_details", "get_video_comments",
                                       "get_transcript", "get_channel_info"}, {})
        /\ ~YouTubeNode.sealed
    BY DEF YouTubeNode, Node, Returning, youtube_manifest
  <2>2. \A o \in {"search_videos", "get_video_details", "get_video_comments", "get_transcript",
                  "get_channel_info"} : o \in DOMAIN YouTubeNode.rows /\ RowReads(YouTubeNode.rows[o])
    BY <1>3 DEF YouTubeNode, Node, Returning
  <2>3. DOMAIN YouTubeNode.offers = {"search_videos", "get_video_details", "get_video_comments",
                                     "get_transcript", "get_channel_info"}
    BY <2>1, OffersOf
  <2>4. \A o \in DOMAIN YouTubeNode.offers : KeepsWord(YouTubeNode, o)
    BY <2>1, <2>2, <2>3, NodeKeeps
  <2> QED
    BY <1>4, <2>4

LEMMA ParsingRows ==
    /\ SoundNode(MistralParseNode) /\ \A o \in DOMAIN MistralParseNode.offers : KeepsWord(MistralParseNode, o)
    /\ SoundNode(PerplexityNode) /\ \A o \in DOMAIN PerplexityNode.offers : KeepsWord(PerplexityNode, o)
<1>1. Reads("mistral", "POST") \in Reading /\ Changes("perplexity", "POST") \in Changing
  BY AsksTyped, ClientsSuit, ClientsNamed DEF Methods
<1>2. RowReads(mistral_parse) /\ RowChanges(perplexity_search)
  BY <1>1, RowsMade, AsksChanged DEF mistral_parse, perplexity_search
<1>3. SoundNode(MistralParseNode) /\ SoundNode(PerplexityNode)
  BY <1>2, RowsSound DEF SoundNode, MistralParseNode, PerplexityNode, Node, Returning
<1>4. \A o \in DOMAIN MistralParseNode.offers : KeepsWord(MistralParseNode, o)
  <2>1. MistralParseNode.offers = Offers({"run"}, {}) /\ ~MistralParseNode.sealed
    BY DEF MistralParseNode, Node, Returning, mistral_manifest
  <2>2. "run" \in DOMAIN MistralParseNode.rows /\ RowReads(MistralParseNode.rows["run"])
    BY <1>2 DEF MistralParseNode, Node, Returning
  <2> QED
    BY <2>1, <2>2, NodeKeeps
<1>5. \A o \in DOMAIN PerplexityNode.offers : KeepsWord(PerplexityNode, o)
  <2>1. PerplexityNode.offers = Offers({}, {"run"}) /\ ~PerplexityNode.sealed
    BY DEF PerplexityNode, Node, Returning, perplexity_manifest
  <2>2. "run" \in DOMAIN PerplexityNode.rows /\ RowChanges(PerplexityNode.rows["run"])
    BY <1>2 DEF PerplexityNode, Node, Returning
  <2> QED
    BY <2>1, <2>2, NodeKeeps
<1> QED
  BY <1>3, <1>4, <1>5

(* This one keeps no word: it cannot read its credentials.                  *)
LEMMA KnowledgeRows == SoundNode(RAGNode)
<1>1. /\ Reads("embedding", "POST") \in ReadOnly /\ Reads("knowledge", "GET") \in ReadOnly
      /\ Changes("knowledge", "POST") \in Certain /\ Changes("knowledge", "DELETE") \in Certain
  BY AsksTyped, ClientsNamed DEF Methods
<1>2. SoundRow(rag_upsert) /\ SoundRow(rag_search) /\ SoundRow(rag_delete)
  BY <1>1 DEF rag_upsert, rag_search, rag_delete, SoundRow, SoundAsks, Needs, Takes, Row
<1> QED
  BY <1>2 DEF SoundNode, RAGNode, Node

LEMMA BrowserRows ==
    SoundNode(BrowserUseNode) /\ \A o \in {"fetch", "extract_text"} : KeepsWord(BrowserUseNode, o)
<1>1. Reads("browser", "POST") \in Reading /\ Reads("browser", "IMAGE") \in ReadOnly
  BY AsksTyped, ClientsSuit, ClientsNamed DEF Methods
<1>2. RowReads(browser_fetch)
  BY <1>1, RowsMade DEF browser_fetch
<1>3. SoundRow(browser_screenshot)
  BY <1>1, <1>2 DEF browser_screenshot, SoundRow, SoundAsks, RowReads
<1>4. SoundNode(BrowserUseNode)
  BY <1>2, <1>3, RowsSound DEF SoundNode, BrowserUseNode, Node
<1> QED
  <2>1. /\ BrowserUseNode.offers = Offers({"fetch", "extract_text", "screenshot"}, {})
        /\ ~BrowserUseNode.sealed
    BY DEF BrowserUseNode, Node, browser_manifest
  <2>2. DOMAIN browser_manifest = {"fetch", "extract_text", "screenshot"}
    BY OffersOf DEF browser_manifest
  <2>3. \A o \in {"fetch", "extract_text"} :
          o \in DOMAIN BrowserUseNode.rows /\ RowReads(BrowserUseNode.rows[o])
    BY <1>2, <2>2 DEF BrowserUseNode, Node
  <2> QED
    BY <1>4, <2>1, <2>3, NodeKeeps

LEMMA ModelRows ==
    /\ \A table \in {OpenAINode, AnthropicNode, GeminiNode, AgentNode} :
         SoundNode(table) /\ \A o \in DOMAIN table.offers : KeepsWord(table, o)
<1>1. /\ Changes("openai", "POST") \in Changing /\ Changes("anthropic", "POST") \in Changing
      /\ Changes("gemini", "POST") \in Changing /\ Changes("agent", "POST") \in Changing
  BY AsksTyped, ClientsSuit, ClientsNamed DEF Methods
<1>2. /\ RowChanges(openai_complete) /\ RowChanges(anthropic_complete) /\ RowChanges(gemini_generate)
      /\ RowChanges(agent_reason)
  BY <1>1, RowsMade DEF openai_complete, anthropic_complete, gemini_generate, agent_reason
<1>3. ASSUME NEW table \in {OpenAINode, AnthropicNode, GeminiNode, AgentNode}
      PROVE  /\ table.offers = Offers({}, {"run"}) /\ ~table.sealed
             /\ DOMAIN table.rows = {"run"} /\ RowChanges(table.rows["run"])
  <2>1. CASE table = OpenAINode
    BY <1>2, <2>1 DEF OpenAINode, Node, Raising, openai_manifest
  <2>2. CASE table = AnthropicNode
    BY <1>2, <2>2 DEF AnthropicNode, Node, Raising, anthropic_manifest
  <2>3. CASE table = GeminiNode
    BY <1>2, <2>3 DEF GeminiNode, Node, Raising, gemini_manifest
  <2>4. CASE table = AgentNode
    BY <1>2, <2>4 DEF AgentNode, Node, Raising, agent_manifest
  <2> QED
    BY <1>3, <2>1, <2>2, <2>3, <2>4
<1>4. ASSUME NEW table \in {OpenAINode, AnthropicNode, GeminiNode, AgentNode}
      PROVE  /\ {"rows", "absent", "broken", "missing", "unknown", "sealed", "offers"} \subseteq DOMAIN table
             /\ {table.absent, table.broken, table.missing, table.unknown} \subseteq {"final", "again", "returned"}
  BY <1>4 DEF OpenAINode, AnthropicNode, GeminiNode, AgentNode, Node, Raising
<1>5. ASSUME NEW table \in {OpenAINode, AnthropicNode, GeminiNode, AgentNode}
      PROVE  SoundNode(table) /\ \A o \in DOMAIN table.offers : KeepsWord(table, o)
  <2>1. SoundNode(table)
    BY <1>3, <1>4, RowsSound DEF SoundNode
  <2>2. KeepsWord(table, "run")
    BY <1>3, NodeKeeps
  <2>3. DOMAIN table.offers = {"run"}
    <3>1. DOMAIN Offers({}, {"run"}) = {} \cup {"run"}
      BY OffersOf
    <3> QED
      BY <1>3, <3>1
  <2> QED
    BY <2>1, <2>2, <2>3
<1> QED
  BY <1>5

LEMMA WebhookRows == SoundNode(WebhookNode) /\ \A o \in DOMAIN WebhookNode.offers : KeepsWord(WebhookNode, o)
<1>1. \A m \in {"GET", "POST", "PUT", "PATCH", "DELETE"} :
        Reads("webhook", m) \in Reading /\ Changes("webhook", m) \in Changing
  BY AsksTyped, ClientsSuit, ClientsNamed DEF Methods
<1>2. RowReads(webhook_get) /\ \A m \in {"POST", "PUT", "PATCH", "DELETE"} : RowChanges(webhook_change(m))
  BY <1>1, RowsMade DEF webhook_get, webhook_change
<1>3. webhook_manifest = Offers({"GET"}, {"POST", "PUT", "PATCH", "DELETE"})
  BY DEF webhook_manifest
<1>4. DOMAIN webhook_manifest = {"GET", "POST", "PUT", "PATCH", "DELETE"}
  BY <1>3, OffersOf
<1>5. /\ DOMAIN WebhookNode.rows = {"GET", "POST", "PUT", "PATCH", "DELETE"}
      /\ RowReads(WebhookNode.rows["GET"])
      /\ \A o \in {"POST", "PUT", "PATCH", "DELETE"} : RowChanges(WebhookNode.rows[o])
  BY <1>2, <1>4 DEF WebhookNode, Returning, Node
<1>6. WebhookNode.offers = webhook_manifest /\ ~WebhookNode.sealed
  BY DEF WebhookNode, Returning, Node
<1>7. SoundNode(WebhookNode)
  BY <1>5, RowsSound DEF SoundNode, WebhookNode, Returning, Node
<1> QED
  <2>1. \A o \in {"POST", "PUT", "PATCH", "DELETE"} : KeepsWord(WebhookNode, o)
    BY <1>3, <1>5, <1>6, NodeKeeps
  <2>2. KeepsWord(WebhookNode, "GET")
    <3>1. "GET" \in {"GET"} /\ "GET" \notin {"POST", "PUT", "PATCH", "DELETE"}
      OBVIOUS
    <3>2. WebhookNode.offers = Offers({"GET"}, {"POST", "PUT", "PATCH", "DELETE"}) /\ ~WebhookNode.sealed
      BY <1>3, <1>6
    <3>3. "GET" \in DOMAIN WebhookNode.rows /\ RowReads(WebhookNode.rows["GET"])
      BY <1>5
    <3> QED
      BY <3>1, <3>2, <3>3, NodeKeeps
  <2> QED
    BY <1>4, <1>6, <1>7, <2>1, <2>2

LEMMA NodesSound == \A n \in DOMAIN Nodes : SoundNode(Nodes[n])
BY NotionRows, SlackRows, DiscordRows, TwilioRows, SheetsRows, GmailRows, SupabaseRows, YouTubeRows, ParsingRows,
   KnowledgeRows, BrowserRows, ModelRows, WebhookRows DEF Nodes

LEMMA WordsKept ==
    ASSUME NEW n \in DOMAIN Nodes, NEW o \in DOMAIN Nodes[n].offers, <<n, o>> \notin BrokenOffers
    PROVE  KeepsWord(Nodes[n], o)
<1>1. CASE n \in {"notion", "slack", "twilio", "googleSheets", "gmail", "supabase"}
  BY <1>1, NotionRows, SlackRows, TwilioRows, SheetsRows, GmailRows, SupabaseRows DEF Nodes
<1>2. CASE n \in {"youtube", "mistralParse", "perplexity", "webhook", "openai", "anthropic", "gemini", "agent"}
  BY <1>2, YouTubeRows, ParsingRows, WebhookRows, ModelRows DEF Nodes
<1>3. CASE n = "slackWebhook"
  <2>1. o \in {"send_message", "add_reaction"}
    BY <1>3 DEF Nodes, SlackWebhookNode, Node, slack_manifest, Offers, BrokenOffers
  <2> QED
    BY <1>3, <2>1, SlackRows DEF Nodes
<1>4. CASE n = "discord"
  <2>1. o \in {"send_webhook", "send_message", "create_thread"}
    BY <1>4 DEF Nodes, DiscordNode, Node, discord_manifest, Offers, BrokenOffers
  <2> QED
    BY <1>4, <2>1, DiscordRows DEF Nodes
<1>5. CASE n = "browserUse"
  <2>1. o \in {"fetch", "extract_text"}
    BY <1>5 DEF Nodes, BrowserUseNode, Node, browser_manifest, Offers, BrokenOffers
  <2> QED
    BY <1>5, <2>1, BrowserRows DEF Nodes
<1>6. n # "rag"
  <2> SUFFICES ASSUME n = "rag" PROVE FALSE
    OBVIOUS
  <2>1. Nodes[n].offers = Offers({"SEARCH"}, {"UPSERT", "DELETE"})
    BY DEF Nodes, RAGNode, Node, rag_manifest
  <2>2. DOMAIN Nodes[n].offers = {"SEARCH"} \cup {"UPSERT", "DELETE"}
    BY <2>1, OffersOf
  <2> QED
    BY <2>2 DEF BrokenOffers
<1> QED
  BY <1>1, <1>2, <1>3, <1>4, <1>5, <1>6 DEF Nodes

(* The plan of an operation, whichever it is.                               *)
PlanOf(asks, n) ==
    /\ DOMAIN asks = 1 .. n
    /\ \A i \in 1 .. n : asks[i] \in Asked /\ (asks[i].changes => i = n /\ asks[i] \in Certain)

LEMMA Planned ==
    ASSUME nodeKind \in DOMAIN Nodes, Handled PROVE \E n \in {1, 2} : PlanOf(plan.asks, n)
<1>1. SoundAsks(plan.asks)
  BY NodesSound DEF SoundNode, SoundRow, Handled, plan, handler
<1>2. ReadOnly \subseteq Asked /\ Certain \subseteq Asked /\ \A a \in ReadOnly : ~a.changes
  BY DEF ReadOnly, Certain
<1>3. ASSUME NEW a \in ReadOnly \cup Certain, plan.asks = <<a>> PROVE PlanOf(plan.asks, 1)
  BY <1>2, <1>3 DEF PlanOf
<1>4. ASSUME NEW a \in ReadOnly, NEW b \in ReadOnly \cup Certain, plan.asks = <<a, b>> PROVE PlanOf(plan.asks, 2)
  BY <1>2, <1>4 DEF PlanOf
<1> QED
  BY <1>1, <1>3, <1>4 DEF SoundAsks

(* One request: what its client reads as a success the service has done.    *)
RequestTrue ==
    /\ call \in [client : DOMAIN Client, method : Methods, round : Nat, attempt : Nat,
                 step : {"attempt", "over"}]
    /\ done \in Nat /\ unsure \in Nat
    /\ result = "success" => call.step = "over" /\ done > 0 /\ done <= unsure + 1
    /\ result # "success" => done <= unsure

LEMMA SuccessIsDone == \A c \in DOMAIN Client : Client[c].success \subseteq {"object", "list", "image", "garbled"}
BY DEF Client, NotionRequest, SlackRequest, DiscordRequest, TwilioRequest, MistralRequest, PerplexityRequest,
       SupabaseRequest, WebhookRequest, BrowserRequest, GmailSend, OpenAIRequest, AnthropicRequest, GeminiRequest,
       SlackWebhook, SheetsClient, GmailReads, YouTubeClient, SupabaseRpc, PhoneLookup, AgentModel, Embedding,
       KnowledgeTable, Storage, Once, JsonClient, Read, ServesAnything

LEMMA RequestKeeps == ASSUME RequestTrue, RequestNext PROVE RequestTrue'
<1> DEFINE Calls == [client : DOMAIN Client, method : Methods, round : Nat, attempt : Nat,
                     step : {"attempt", "over"}]
<1>1. call \in Calls /\ call.step = "attempt" /\ result # "success" /\ done \in Nat /\ unsure \in Nat /\ done <= unsure
  BY DEF RequestTrue, RequestNext, UnknownMethod, Attempt
<1>2. ASSUME NEW a, Return(a) PROVE call' \in Calls /\ call'.step = "over" /\ result' = a
  BY <1>1, <1>2 DEF Return
<1>3. ASSUME NEW a, TryAgain(a) \/ NextRound(a) PROVE call' \in Calls /\ result' \in {result, a}
  <2>1. CASE Return(a)
    BY <1>2, <2>1
  <2>2. CASE call' = [call EXCEPT !.attempt = @ + 1] /\ UNCHANGED result
    BY <1>1, <2>2
  <2>3. CASE call' = [call EXCEPT !.round = @ + 1, !.attempt = 1] /\ UNCHANGED result
    <3> DEFINE c == [call EXCEPT !.round = @ + 1]
    <3>1. c \in Calls
      BY <1>1
    <3>2. [c EXCEPT !.attempt = 1] \in Calls
      BY <3>1
    <3>3. [c EXCEPT !.attempt = 1] = call'
      BY <1>1, <2>3
    <3> QED
      BY <2>3, <3>2, <3>3
  <2> QED
    BY <1>3, <2>1, <2>2, <2>3 DEF TryAgain, NextRound
<1> HIDE DEF Calls
<1>4. CASE UnknownMethod
  BY <1>1, <1>3, <1>4 DEF UnknownMethod, RequestTrue, Calls
<1>5. CASE Attempt
  <2>0. PICK a \in DOMAIN Performed :
          /\ Judge(a)
          /\ \E did \in Performed[a] :
               done' = done + did /\ unsure' = unsure + (IF a \in policy.success THEN 0 ELSE did)
    BY <1>5 DEF Attempt
  <2>1. PICK did \in Performed[a] :
          done' = done + did /\ unsure' = unsure + (IF a \in policy.success THEN 0 ELSE did)
    BY <2>0
  <2>2. a # "success" /\ did \in {0, 1} /\ (a \in {"object", "list", "image", "garbled"} => did = 1)
    BY DEF Performed
  <2>3. CASE a \in policy.success
    <3>1. Return("success") /\ did = 1
      BY <1>1, <2>0, <2>2, <2>3, SuccessIsDone DEF Judge, policy, Calls
    <3> QED
      BY <1>1, <1>2, <2>1, <2>3, <3>1 DEF RequestTrue, Calls
  <2>4. CASE a \notin policy.success
    <3>1. call' \in Calls /\ result' \in {result, a}
      BY <1>2, <1>3, <2>0, <2>4 DEF Judge
    <3> QED
      BY <1>1, <2>1, <2>2, <2>4, <3>1 DEF RequestTrue, Calls
  <2> QED
    BY <2>3, <2>4
<1> QED
  BY <1>4, <1>5 DEF RequestNext

(* What is written of each request, over all attempts of the executor. One  *)
(* that changes something was read as a success only if the node is past it *)
(* and so at its end.                                                       *)
Fact == {f \in [done : Nat, unsure : Nat, read : Nat] : f.read > 0 => f.done > 0}

LedgerTrue(ask, fact, past, over) ==
    /\ ask.changes =>
         /\ fact.done <= fact.unsure + fact.read
         /\ fact.read = 0 \/ (fact.read = 1 /\ (past \/ over))
    /\ over \/ past => ask.spare \/ ask.ignored \/ fact.read > 0

NodeInv ==
    /\ RequestTrue
    /\ nodeKind \in DOMAIN Nodes
    /\ flaw.kind \in {"none", "absent", "broken", "scopes", "unfit", "missing", "checked", "unchecked"}
    /\ ledger \in [1 .. 2 -> Fact] /\ at \in 1 .. 3
    /\ nodeStep \in {"check", "ask", "wait", "concluded", "over"}
    /\ nodeStep \in {"check", "ask", "wait"} => conclusion = "none"
    /\ nodeStep \in {"ask", "wait"} => Handled
    /\ nodeStep = "wait" => at \in DOMAIN plan.asks
    /\ Handled => \A i \in DOMAIN plan.asks :
         LedgerTrue(plan.asks[i], ledger[i], nodeStep \in {"ask", "wait"} /\ i < at, conclusion = "success")

LEMMA SamePlan ==
    ASSUME UNCHANGED configured
    PROVE  /\ handler' = handler /\ plan' = plan /\ (Handled' <=> Handled)
           /\ UNCHANGED <<nodeKind, operation, flaw>>
BY DEF configured, handler, plan, Handled

(* A step that leaves the ledger as it is.                                  *)
LEMMA LedgerStays ==
    ASSUME NodeInv, UNCHANGED <<configured, ledger>>, RequestTrue', at' \in 1 .. 3,
           nodeStep' \in {"check", "ask", "wait", "concluded", "over"},
           nodeStep' \in {"check", "ask", "wait"} => conclusion' = "none",
           nodeStep' \in {"ask", "wait"} => Handled,
           nodeStep' = "wait" => at' \in DOMAIN plan.asks,
           Handled => \A i \in DOMAIN plan.asks :
             LedgerTrue(plan.asks[i], ledger[i], nodeStep' \in {"ask", "wait"} /\ i < at', conclusion' = "success")
    PROVE  NodeInv'
BY SamePlan DEF NodeInv

LEMMA CheckKeeps == ASSUME NodeInv, Check PROVE NodeInv'
<1>1. /\ UNCHANGED <<call, done, unsure, result, configured, ledger>> /\ nodeStep = "check" /\ conclusion = "none"
  BY DEF Check, requestVars, NodeInv
<1>2. RequestTrue'
  BY <1>1 DEF NodeInv, RequestTrue
<1>3. ASSUME Handled, NEW i \in DOMAIN plan.asks PROVE LedgerTrue(plan.asks[i], ledger[i], FALSE, FALSE)
  BY <1>1, <1>3 DEF NodeInv, LedgerTrue
<1>4. CASE flaw.kind = "none" /\ Handled /\ ~handler.sealed
  <2>1. at' = 1 /\ nodeStep' = "ask" /\ conclusion' = "none"
    BY <1>1, <1>4 DEF Check
  <2>2. ASSUME NEW i \in DOMAIN plan.asks PROVE LedgerTrue(plan.asks[i], ledger[i], i < 1, FALSE)
    <3>1. ~(i < 1)
      BY <1>4, Planned DEF NodeInv, PlanOf
    <3> QED
      BY <1>3, <1>4, <3>1 DEF LedgerTrue
  <2>3. ASSUME NEW i \in DOMAIN plan.asks
        PROVE  LedgerTrue(plan.asks[i], ledger[i], nodeStep' \in {"ask", "wait"} /\ i < at', conclusion' = "success")
    BY <2>1, <2>2 DEF LedgerTrue
  <2> QED
    BY <1>1, <1>2, <1>4, <2>1, <2>3, LedgerStays
<1>5. CASE ~(flaw.kind = "none" /\ Handled /\ ~handler.sealed)
  <2>1. conclusion' = Refusal /\ nodeStep' = "concluded" /\ at' = at
    BY <1>5 DEF Check, Conclude
  <2>2. Refusal # "success"
    BY NodesSound DEF Refusal, NodeInv, SoundNode, handler
  <2> QED
    BY <1>1, <1>2, <1>3, <2>1, <2>2, LedgerStays DEF NodeInv
<1> QED
  BY <1>4, <1>5

LEMMA AskKeeps == ASSUME NodeInv, Send \/ Skip \/ Finish PROVE NodeInv'
<1>1. nodeStep = "ask" /\ conclusion = "none" /\ Handled /\ UNCHANGED <<configured, ledger>>
  BY DEF Send, Skip, Finish, NodeInv
<1>2. PICK n \in {1, 2} : PlanOf(plan.asks, n)
  BY <1>1, Planned DEF NodeInv
<1>3. ASSUME NEW i \in DOMAIN plan.asks PROVE LedgerTrue(plan.asks[i], ledger[i], i < at, FALSE)
  BY <1>1 DEF NodeInv, LedgerTrue
<1>4. CASE Send
  <2>1. at \in DOMAIN plan.asks /\ nodeStep' = "wait" /\ UNCHANGED <<at, conclusion>>
    BY <1>4 DEF Send
  <2>2. wanting \in Asked
    BY <1>2, <2>1 DEF PlanOf, wanting
  <2>3. RequestTrue'
    BY <1>4, <2>2 DEF Send, Request, RequestTrue, Asked
  <2> QED
    BY <1>1, <1>3, <2>1, <2>3, LedgerStays DEF NodeInv
<1>5. CASE Skip
  <2>1. at \in 1 .. n /\ wanting.spare /\ at' = at + 1 /\ UNCHANGED <<nodeStep, conclusion>>
    BY <1>2, <1>5 DEF Skip, PlanOf
  <2>2. RequestTrue'
    BY <1>5 DEF Skip, requestVars, NodeInv, RequestTrue
  <2>3. ASSUME NEW i \in DOMAIN plan.asks PROVE LedgerTrue(plan.asks[i], ledger[i], i < at + 1, FALSE)
    <3>1. CASE i = at
      <4>1. ~plan.asks[i].changes
        BY <1>2, <2>1, <3>1 DEF PlanOf, wanting, Certain
      <4> QED
        BY <2>1, <3>1, <4>1 DEF LedgerTrue, wanting
    <3>2. CASE i # at
      <4>1. i < at + 1 <=> i < at
        BY <1>2, <2>1, <3>2 DEF PlanOf
      <4> QED
        BY <1>3, <4>1 DEF LedgerTrue
    <3> QED
      BY <3>1, <3>2
  <2>4. at' \in 1 .. 3
    BY <2>1
  <2>5. ASSUME NEW i \in DOMAIN plan.asks
        PROVE  LedgerTrue(plan.asks[i], ledger[i], nodeStep' \in {"ask", "wait"} /\ i < at', conclusion' = "success")
    BY <1>1, <2>1, <2>3 DEF LedgerTrue
  <2> QED
    BY <1>1, <2>1, <2>2, <2>4, <2>5, LedgerStays DEF NodeInv
<1>6. CASE Finish
  <2>1. at \notin 1 .. n /\ conclusion' = "success" /\ nodeStep' = "concluded" /\ UNCHANGED at
    BY <1>2, <1>6 DEF Finish, PlanOf, Conclude
  <2>2. RequestTrue'
    BY <1>6 DEF Finish, requestVars, NodeInv, RequestTrue
  <2>3. ASSUME NEW i \in DOMAIN plan.asks PROVE LedgerTrue(plan.asks[i], ledger[i], FALSE, TRUE)
    <3>1. i < at
      BY <1>2, <2>1 DEF PlanOf, NodeInv
    <3> QED
      BY <1>3, <3>1 DEF LedgerTrue
  <2> QED
    BY <1>1, <2>1, <2>2, <2>3, LedgerStays DEF NodeInv
<1> QED
  BY <1>4, <1>5, <1>6

LEMMA AnswerKeeps == ASSUME NodeInv, Receive \/ NotFound PROVE NodeInv'
<1>1. /\ nodeStep = "wait" /\ conclusion = "none" /\ Handled /\ Booked /\ UNCHANGED configured
      /\ UNCHANGED <<call, done, unsure, result>>
  BY DEF Receive, NotFound, requestVars, NodeInv
<1>2. PICK n \in {1, 2} : PlanOf(plan.asks, n)
  BY <1>1, Planned DEF NodeInv
<1>3. at \in 1 .. n /\ at \in 1 .. 2 /\ wanting = plan.asks[at]
  BY <1>1, <1>2 DEF NodeInv, PlanOf, wanting
<1>4. RequestTrue /\ RequestTrue'
  BY <1>1 DEF NodeInv, RequestTrue
<1> DEFINE good == IF result = "success" THEN 1 ELSE 0
           fact == [done |-> ledger[at].done + done, unsure |-> ledger[at].unsure + unsure,
                    read |-> ledger[at].read + good]
<1>5. ledger' = [ledger EXCEPT ![at] = fact] /\ ledger \in [1 .. 2 -> Fact] /\ fact \in Fact
  <2>1. ledger \in [1 .. 2 -> Fact]
    BY DEF NodeInv
  <2>2. ledger' = [ledger EXCEPT ![at] = fact]
    BY <1>1 DEF Booked
  <2>3. fact \in Fact
    BY <1>3, <1>4, <2>1 DEF Fact, RequestTrue
  <2> QED
    BY <2>1, <2>2, <2>3
<1>6. ledger' \in [1 .. 2 -> Fact] /\ ledger'[at] = fact /\ \A i \in 1 .. 2 : i # at => ledger'[i] = ledger[i]
  BY <1>3, <1>5
<1>7. ASSUME NEW i \in 1 .. n PROVE LedgerTrue(plan.asks[i], ledger[i], i < at, FALSE)
  BY <1>1, <1>2 DEF NodeInv, PlanOf, LedgerTrue
<1>8. wanting.changes => /\ at = n /\ ~wanting.ignored /\ ~wanting.find
                         /\ ledger[at].read = 0 /\ fact.done <= fact.unsure + fact.read
  <2> SUFFICES ASSUME wanting.changes
               PROVE  /\ at = n /\ ~wanting.ignored /\ ~wanting.find
                      /\ ledger[at].read = 0 /\ fact.done <= fact.unsure + fact.read
    OBVIOUS
  <2>1. at = n /\ ~wanting.ignored /\ ~wanting.find
    BY <1>2, <1>3 DEF PlanOf, Certain
  <2>2. ledger[at].read = 0 /\ ledger[at].done <= ledger[at].unsure
    BY <1>3, <1>5, <1>7 DEF LedgerTrue, Fact
  <2>3. done <= unsure + good
    BY <1>4 DEF RequestTrue
  <2>4. ledger[at] \in Fact /\ done \in Nat /\ unsure \in Nat
    BY <1>3, <1>4, <1>5 DEF RequestTrue
  <2> QED
    BY <2>1, <2>2, <2>3, <2>4 DEF Fact
<1>9. ASSUME NEW i \in 1 .. n, i # at
      PROVE  LedgerTrue(plan.asks[i], ledger'[i], i < at + 1, FALSE) /\ LedgerTrue(plan.asks[i], ledger'[i], FALSE, FALSE)
  <2>1. i \in 1 .. 2 /\ (i < at + 1 <=> i < at) /\ (plan.asks[i].changes => ~(i < at))
    BY <1>2, <1>3, <1>9 DEF PlanOf
  <2> QED
    BY <1>6, <1>7, <1>9, <2>1 DEF LedgerTrue
<1> HIDE DEF fact
<1>10. CASE nodeStep' = "ask" /\ at' = at + 1 /\ UNCHANGED conclusion /\ (result = "success" \/ wanting.ignored)
  <2>1. LedgerTrue(wanting, fact, at < at + 1, FALSE)
    BY <1>3, <1>5, <1>8, <1>10 DEF LedgerTrue, Fact, fact
  <2>2. \A i \in 1 .. n : LedgerTrue(plan.asks[i], ledger'[i], i < at + 1, FALSE)
    BY <1>3, <1>6, <1>9, <2>1
  <2> QED
    <3>1. ASSUME NEW i \in 1 .. n
          PROVE  LedgerTrue(plan.asks[i], ledger'[i], nodeStep' \in {"ask", "wait"} /\ i < at', conclusion' = "success")
      BY <1>1, <1>10, <2>2 DEF LedgerTrue
    <3>2. at' \in 1 .. 3
      BY <1>3, <1>10
    <3> QED
      BY <1>1, <1>2, <1>4, <1>6, <1>10, <3>1, <3>2, SamePlan DEF NodeInv, PlanOf
<1>11. CASE /\ nodeStep' = "concluded" /\ conclusion' # "success" /\ UNCHANGED at
            /\ result # "success" \/ wanting.find
  <2>1. LedgerTrue(wanting, fact, FALSE, FALSE)
    BY <1>3, <1>5, <1>8, <1>11 DEF LedgerTrue, Fact, fact
  <2>2. \A i \in 1 .. n : LedgerTrue(plan.asks[i], ledger'[i], FALSE, FALSE)
    BY <1>3, <1>6, <1>9, <2>1
  <2> QED
    <3>1. ASSUME NEW i \in 1 .. n
          PROVE  LedgerTrue(plan.asks[i], ledger'[i], nodeStep' \in {"ask", "wait"} /\ i < at', conclusion' = "success")
      BY <1>11, <2>2 DEF LedgerTrue
    <3> QED
      BY <1>1, <1>2, <1>4, <1>6, <1>11, <3>1, SamePlan DEF NodeInv, PlanOf
<1>12. CASE Receive
  <2>1. \/ nodeStep' = "ask" /\ at' = at + 1 /\ UNCHANGED conclusion /\ (result = "success" \/ wanting.ignored)
        \/ conclusion' = FailedRequest /\ nodeStep' = "concluded" /\ UNCHANGED at /\ result # "success"
    BY <1>12 DEF Receive, Conclude
  <2> QED
    BY <1>10, <1>11, <2>1 DEF FailedRequest
<1>13. CASE NotFound
  BY <1>11, <1>13 DEF NotFound, Conclude
<1> QED
  BY <1>12, <1>13

LEMMA EndKeeps == ASSUME NodeInv, RunAgain \/ RecordSucceeded \/ RecordFailed \/ AwaitAnswer \/ UNCHANGED nodeVars
                  PROVE  NodeInv'
<1>1. UNCHANGED <<configured, ledger, at>>
  BY DEF RunAgain, RecordSucceeded, RecordFailed, AwaitAnswer, nodeVars, configured
<1>2. RequestTrue'
  BY RequestKeeps DEF RunAgain, RecordSucceeded, RecordFailed, AwaitAnswer, nodeVars, NodeInv, RequestTrue, requestVars
<1>3. \/ UNCHANGED <<nodeStep, conclusion>>
      \/ nodeStep \in {"concluded", "over"} /\ nodeStep' = "over" /\ UNCHANGED conclusion
      \/ nodeStep = "concluded" /\ conclusion # "success" /\ nodeStep' = "check" /\ conclusion' = "none"
  BY DEF RunAgain, RecordSucceeded, RecordFailed, AwaitAnswer, nodeVars
<1>4. ASSUME Handled, NEW i \in DOMAIN plan.asks
      PROVE  LedgerTrue(plan.asks[i], ledger[i], nodeStep' \in {"ask", "wait"} /\ i < at', conclusion' = "success")
  <2>1. LedgerTrue(plan.asks[i], ledger[i], nodeStep \in {"ask", "wait"} /\ i < at, conclusion = "success")
    BY <1>4 DEF NodeInv
  <2>2. /\ nodeStep' \in {"ask", "wait"} /\ i < at' <=> nodeStep \in {"ask", "wait"} /\ i < at
        /\ conclusion' = "success" <=> conclusion = "success"
    BY <1>1, <1>3
  <2> QED
    BY <2>1, <2>2 DEF LedgerTrue
<1> QED
  BY <1>1, <1>2, <1>3, <1>4, LedgerStays DEF NodeInv

LEMMA NodeInvariant == NodeSpec => []NodeInv
<1>1. NodeInit => NodeInv
  <2> SUFFICES ASSUME NodeInit PROVE NodeInv
    OBVIOUS
  <2>1. RequestTrue
    BY ClientsNamed DEF NodeInit, RequestInit, RequestTrue, Methods
  <2>2. flaw.kind \in {"none", "absent", "broken", "scopes", "unfit", "missing", "checked", "unchecked"}
    BY DEF NodeInit, Flaws, Flaw
  <2>3. ledger \in [1 .. 2 -> Fact] /\ \A i \in 1 .. 2 : ledger[i] = [done |-> 0, unsure |-> 0, read |-> 0]
    BY DEF NodeInit, Fact
  <2>4. ASSUME Handled, NEW i \in DOMAIN plan.asks
        PROVE  LedgerTrue(plan.asks[i], ledger[i], FALSE, FALSE)
    <3>1. i \in 1 .. 2
      BY <2>4, Planned DEF NodeInit, PlanOf
    <3> QED
      BY <2>3, <3>1 DEF LedgerTrue
  <2>5. ASSUME Handled, NEW i \in DOMAIN plan.asks
        PROVE  LedgerTrue(plan.asks[i], ledger[i], nodeStep \in {"ask", "wait"} /\ i < at, conclusion = "success")
    BY <2>4, <2>5 DEF LedgerTrue, NodeInit
  <2> QED
    BY <2>1, <2>2, <2>3, <2>5 DEF NodeInit, NodeInv
<1>2. NodeInv /\ [NodeNext]_nodeVars => NodeInv'
  BY CheckKeeps, AskKeeps, AnswerKeeps, EndKeeps DEF NodeNext
<1> QED
  BY <1>1, <1>2, PTL DEF NodeSpec

(* The types. A client tries no more often than its rounds allow, and what   *)
(* it asks for is done no more often than it tried.                         *)
Tried(c) == (IF c.round = 1 THEN 0 ELSE max_retries) + c.attempt
Results == {"none", "success", "method"} \cup DOMAIN Performed

RequestTyped ==
    /\ RequestTypeOK
    /\ IF call.step = "attempt" THEN done + 1 <= Tried(call) ELSE done <= Tried(call)

LEMMA RoundsOf == \A c \in DOMAIN Client : Client[c].rounds \in {1, 2}
BY DEF Client, NotionRequest, SlackRequest, DiscordRequest, TwilioRequest, MistralRequest, PerplexityRequest,
       SupabaseRequest, WebhookRequest, BrowserRequest, GmailSend, OpenAIRequest, AnthropicRequest, GeminiRequest,
       SlackWebhook, SheetsClient, GmailReads, YouTubeClient, SupabaseRpc, PhoneLookup, AgentModel, Embedding,
       KnowledgeTable, Storage, Once, JsonClient

LEMMA RequestTypesKept == ASSUME RequestTyped, RequestNext PROVE RequestTyped'
<1> USE RequestAssumption
<1> DEFINE Record == [client : DOMAIN Client, method : Methods, round : 1 .. 2,
                      attempt : 1 .. max_retries, step : {"attempt", "over"}]
<1>1. /\ call \in Record /\ call.step = "attempt" /\ done \in Nat /\ unsure \in 0 .. done
      /\ done + 1 <= Tried(call) /\ result \in Results
  BY DEF RequestTyped, RequestTypeOK, RequestNext, UnknownMethod, Attempt, Methods, Results
<1>2. /\ done' \in Nat /\ unsure' \in 0 .. done' /\ done' <= Tried(call)
      /\ \E a \in Results : Return(a) \/ TryAgain(a) \/ NextRound(a)
  <2>1. CASE UnknownMethod
    BY <1>1, <2>1 DEF UnknownMethod, Results, Tried
  <2>2. CASE Attempt
    <3>1. PICK a \in DOMAIN Performed :
            /\ Judge(a)
            /\ \E did \in Performed[a] :
                 done' = done + did /\ unsure' = unsure + (IF a \in policy.success THEN 0 ELSE did)
      BY <2>2 DEF Attempt
    <3>2. PICK did \in Performed[a] :
            done' = done + did /\ unsure' = unsure + (IF a \in policy.success THEN 0 ELSE did)
      BY <3>1
    <3>3. did \in {0, 1}
      BY DEF Performed
    <3>4. Return("success") \/ Return(a) \/ TryAgain(a) \/ NextRound(a)
      BY <3>1 DEF Judge
    <3>5. done' \in Nat /\ unsure' \in 0 .. done' /\ done' <= Tried(call)
      BY <1>1, <3>2, <3>3 DEF Tried
    <3>6. a \in Results /\ "success" \in Results
      BY DEF Results
    <3> QED
      BY <3>4, <3>5, <3>6
  <2> QED
    BY <2>1, <2>2 DEF RequestNext
<1>3. PICK a \in Results : Return(a) \/ TryAgain(a) \/ NextRound(a)
  BY <1>2
<1>4. served' \in BOOLEAN
  <2>1. served \in BOOLEAN
    BY DEF RequestTyped, RequestTypeOK
  <2> QED
    BY <2>1 DEF RequestNext, UnknownMethod, Attempt
<1>5. ASSUME call' \in Record, result' \in Results,
             IF call'.step = "attempt" THEN done' + 1 <= Tried(call') ELSE done' <= Tried(call')
      PROVE  RequestTyped'
  <2>1. done' \in 0 .. 2 * max_retries
    BY <1>2, <1>5 DEF Tried
  <2> QED
    BY <1>2, <1>4, <1>5, <2>1 DEF RequestTyped, RequestTypeOK, Methods, Results
<1>6. CASE Return(a)
  <2>1. call' = [call EXCEPT !.step = "over"] /\ result' = a
    BY <1>6 DEF Return
  <2>2. call' \in Record /\ call'.step = "over" /\ Tried(call') = Tried(call)
    BY <1>1, <2>1 DEF Tried
  <2> QED
    BY <1>2, <1>3, <1>5, <2>1, <2>2
<1>7. CASE call.attempt < max_retries /\ call' = [call EXCEPT !.attempt = @ + 1] /\ UNCHANGED result
  <2>1. call' \in Record /\ call'.step = "attempt" /\ Tried(call') = Tried(call) + 1
    BY <1>1, <1>7 DEF Tried
  <2>2. Tried(call) \in Nat
    BY <1>1 DEF Tried
  <2> QED
    BY <1>1, <1>2, <1>5, <1>7, <2>1, <2>2
<1>8. CASE call.round < policy.rounds /\ call' = [call EXCEPT !.round = @ + 1, !.attempt = 1] /\ UNCHANGED result
  <2> DEFINE c == [call EXCEPT !.round = 2]
  <2>1. call.round = 1
    BY <1>1, <1>8, RoundsOf DEF policy
  <2>2. c \in Record /\ c.step = "attempt" /\ c.round = 2
    BY <1>1
  <2>3. call' = [c EXCEPT !.attempt = 1]
    BY <1>1, <1>8, <2>1
  <2> HIDE DEF c
  <2>4. call' \in Record /\ call'.step = "attempt" /\ call'.round = 2 /\ call'.attempt = 1
    BY <2>2, <2>3
  <2>5. Tried(call') = max_retries + 1 /\ Tried(call) <= max_retries
    BY <1>1, <2>1, <2>4 DEF Tried
  <2>6. done' + 1 <= Tried(call')
    BY <1>1, <1>2, <2>5 DEF Tried
  <2> QED
    BY <1>1, <1>5, <1>8, <2>4, <2>6
<1> QED
  BY <1>3, <1>6, <1>7, <1>8 DEF TryAgain, NextRound

NodeTyped ==
    /\ RequestTyped /\ flaw \in Flaws(nodeKind, operation) /\ nodeRun \in 1 .. max_attempts
    /\ conclusion \in {"none", "success", "returned", "paused", "final", "again"}
    /\ recorded \in [trace : {"RUNNING", "SUCCESS", "FAILED"}, breaker : {"none", "success", "failure"}]

LEMMA NodeTypesKept == NodeInv /\ NodeTyped /\ [NodeNext]_nodeVars => NodeTyped'
<1> SUFFICES ASSUME NodeInv, NodeTyped, [NodeNext]_nodeVars PROVE NodeTyped'
  OBVIOUS
<1> USE NodeAssumption
<1>1. ASSUME UNCHANGED <<call, done, unsure, result>>, served' \in BOOLEAN PROVE RequestTyped'
  BY <1>1 DEF NodeTyped, RequestTyped, RequestTypeOK
<1>2. ASSUME UNCHANGED requestVars PROVE RequestTyped'
  BY <1>1, <1>2 DEF requestVars, NodeTyped, RequestTyped, RequestTypeOK
<1>3. CASE Check
  <2>1. Refusal \in {"returned", "paused", "final", "again"}
    BY NodesSound DEF Refusal, NodeInv, SoundNode, handler
  <2> QED
    BY <1>2, <1>3, <2>1 DEF Check, Conclude, NodeTyped, configured
<1>4. CASE Send
  <2>1. PICK n \in {1, 2} : PlanOf(plan.asks, n)
    BY <1>4, Planned DEF Send, NodeInv
  <2>2. wanting \in Asked
    BY <1>4, <2>1 DEF Send, PlanOf, wanting
  <2>3. RequestTyped'
    BY <1>4, <2>2, RequestAssumption
    DEF Send, Request, Asked, Methods, NodeTyped, RequestTyped, RequestTypeOK, Tried
  <2> QED
    BY <1>4, <2>3 DEF Send, NodeTyped, configured
<1>5. CASE Skip \/ Finish
  BY <1>2, <1>5 DEF Skip, Finish, Conclude, NodeTyped, configured
<1>6. CASE AwaitAnswer
  <2>1. RequestTyped'
    BY <1>6, RequestTypesKept DEF AwaitAnswer, NodeTyped
  <2> QED
    BY <1>6, <2>1 DEF AwaitAnswer, NodeTyped, configured
<1>7. CASE Receive
  BY <1>2, <1>7 DEF Receive, Conclude, FailedRequest, NodeTyped, configured
<1>8. CASE NotFound
  BY <1>1, <1>8 DEF NotFound, Conclude, NodeTyped, configured
<1>9. CASE RunAgain
  BY <1>2, <1>9 DEF RunAgain, NodeTyped, configured
<1>10. CASE RecordSucceeded \/ RecordFailed
  BY <1>2, <1>10 DEF RecordSucceeded, RecordFailed, NodeTyped, configured
<1>11. CASE UNCHANGED nodeVars
  BY <1>2, <1>11 DEF nodeVars, NodeTyped
<1> QED
  BY <1>3, <1>4, <1>5, <1>6, <1>7, <1>8, <1>9, <1>10, <1>11 DEF NodeNext

LEMMA NodeTypes == NodeSpec => []NodeTypeOK
<1>1. NodeInit => NodeTyped
  BY ClientsNamed, RequestAssumption, NodeAssumption
  DEF NodeInit, RequestInit, NodeTyped, RequestTyped, RequestTypeOK, Tried
<1>2. NodeInv /\ NodeTyped => NodeTypeOK
  BY DEF NodeInv, NodeTyped, RequestTyped, NodeTypeOK
<1> QED
  BY <1>1, <1>2, NodeInvariant, NodeTypesKept, PTL DEF NodeSpec

(* Of however many attempts of the executor and of the client in each: what *)
(* changes something at a service is not asked for again once it was read   *)
(* as a success, and is done no more often than answers to it were lost.    *)
THEOREM RequestsAccounted == NodeSpec => []NodeAccounts
<1>1. NodeInv => NodeAccounts
  <2> SUFFICES ASSUME NodeInv PROVE NodeAccounts
    OBVIOUS
  <2>1. DoneIsAccounted
    BY DEF NodeInv, RequestTrue, DoneIsAccounted
  <2>2. ASSUME nodeStep # "check", Handled, NEW i \in DOMAIN plan.asks
        PROVE  /\ plan.asks[i].changes => ledger[i].read <= 1 /\ ledger[i].done <= ledger[i].unsure + ledger[i].read
               /\ conclusion = "success" => plan.asks[i].spare \/ plan.asks[i].ignored \/ ledger[i].read > 0
               /\ conclusion \in {"returned", "paused", "final", "again"} /\ plan.asks[i].changes => ledger[i].read = 0
    <3>1. LedgerTrue(plan.asks[i], ledger[i], nodeStep \in {"ask", "wait"} /\ i < at, conclusion = "success")
      BY <2>2 DEF NodeInv
    <3>2. nodeStep \in {"ask", "wait"} => conclusion = "none"
      BY DEF NodeInv
    <3> QED
      BY <3>1, <3>2 DEF LedgerTrue
  <2> QED
    BY <2>1, <2>2 DEF NodeAccounts
<1> QED
  BY <1>1, NodeInvariant, PTL

(* At its best a request is answered, at once, in the form its client reads.*)
Faultless ==
    /\ flaw.kind = "none" /\ served /\ operation \in DOMAIN handler.offers
    /\ <<nodeKind, operation>> \notin BrokenOffers

BestInv == Faultless =>
    /\ nodeStep \in {"check", "ask", "wait"} => conclusion = "none"
    /\ nodeStep \in {"concluded", "over"} => conclusion = "success"
    /\ nodeStep = "wait" =>
         /\ call.client = wanting.client /\ call.method = wanting.method
         /\ result = IF call.step = "attempt" THEN "none" ELSE "success"

LEMMA AskedAsOffered ==
    ASSUME nodeKind \in DOMAIN Nodes, Faultless
    PROVE  /\ Handled /\ ~handler.sealed
           /\ \A i \in DOMAIN plan.asks : plan.asks[i] \in Reading \cup Changing
           /\ handler.offers[operation] = \E i \in DOMAIN plan.asks : plan.asks[i] \in Changing
<1>1. KeepsWord(handler, operation)
  BY WordsKept DEF Faultless, handler
<1>2. \A a \in Reading : a \notin Changing
  BY DEF Reading, Changing, ReadOnly, Certain
<1>3. CASE handler.offers[operation]
  <2>1. AsksToChange(plan.asks)
    BY <1>1, <1>3 DEF KeepsWord, RowChanges, plan
  <2>2. ASSUME NEW a \in Changing, plan.asks = <<a>>
        PROVE  /\ \A i \in DOMAIN plan.asks : plan.asks[i] \in Reading \cup Changing
               /\ 1 \in DOMAIN plan.asks /\ plan.asks[1] \in Changing
    BY <2>2
  <2>3. ASSUME NEW a \in Reading, NEW b \in Changing, plan.asks = <<a, b>>
        PROVE  /\ \A i \in DOMAIN plan.asks : plan.asks[i] \in Reading \cup Changing
               /\ 2 \in DOMAIN plan.asks /\ plan.asks[2] \in Changing
    BY <2>3
  <2> QED
    BY <1>1, <1>3, <2>1, <2>2, <2>3 DEF AsksToChange, KeepsWord, Handled
<1>4. CASE ~handler.offers[operation]
  <2>1. AsksToRead(plan.asks)
    BY <1>1, <1>4 DEF KeepsWord, RowReads, plan
  <2>2. \A i \in DOMAIN plan.asks : plan.asks[i] \in Reading
    BY <2>1 DEF AsksToRead
  <2> QED
    BY <1>1, <1>2, <1>4, <2>2 DEF KeepsWord, Handled
<1> QED
  BY <1>3, <1>4

(* An operation that is offered, and neither misconfigured nor answered     *)
(* otherwise than it should be, succeeds, and changes something exactly if  *)
(* its manifest says so.                                                    *)
LEMMA BestStep == ASSUME NodeInv, BestInv, [NodeNext]_nodeVars PROVE BestInv'
<1> SUFFICES ASSUME Faultless'
             PROVE  /\ nodeStep' \in {"check", "ask", "wait"} => conclusion' = "none"
                    /\ nodeStep' \in {"concluded", "over"} => conclusion' = "success"
                    /\ nodeStep' = "wait" =>
                         /\ call'.client = wanting'.client /\ call'.method = wanting'.method
                         /\ result' = IF call'.step = "attempt" THEN "none" ELSE "success"
  BY DEF BestInv
<1>1. UNCHANGED configured
  BY DEF NodeNext, Check, Send, Skip, AwaitAnswer, Receive, NotFound, Finish, RunAgain, RecordSucceeded,
         RecordFailed, nodeVars, configured
<1>14. NotFound \/ AwaitAnswer \/ UNCHANGED served
  BY DEF NodeNext, Check, Send, Skip, Receive, Finish, RunAgain, RecordSucceeded, RecordFailed, Request,
         requestVars, nodeVars
<1>2. Faultless /\ served'
  <2>1. served' => served
    BY <1>14 DEF NotFound, AwaitAnswer, RequestNext, UnknownMethod, Attempt
  <2> QED
    BY <1>1, <2>1, SamePlan DEF Faultless
<1>3. /\ Handled /\ ~handler.sealed /\ flaw.kind = "none"
      /\ \A i \in DOMAIN plan.asks : plan.asks[i] \in Reading \cup Changing
  BY <1>2, AskedAsOffered DEF NodeInv, Faultless
<1>4. /\ nodeStep \in {"check", "ask", "wait"} => conclusion = "none"
      /\ nodeStep \in {"concluded", "over"} => conclusion = "success"
      /\ nodeStep = "wait" =>
           /\ at \in DOMAIN plan.asks
           /\ call.client = wanting.client /\ call.method = wanting.method
           /\ result = IF call.step = "attempt" THEN "none" ELSE "success"
  BY <1>2 DEF BestInv, NodeInv
<1>5. at' = at => wanting' = wanting
  BY <1>1, SamePlan DEF wanting
<1>6. CASE Check
  BY <1>3, <1>4, <1>6 DEF Check
<1>7. CASE Send
  BY <1>4, <1>5, <1>7 DEF Send, Request
<1>8. CASE Skip \/ Finish
  BY <1>4, <1>8 DEF Skip, Finish, Conclude
<1>9. CASE AwaitAnswer
  <2>1. nodeStep = "wait" /\ UNCHANGED <<nodeStep, at, conclusion>> /\ call.step = "attempt" /\ RequestNext
    BY <1>9 DEF AwaitAnswer, RequestNext, UnknownMethod, Attempt
  <2>2. Suits(call.client, call.method)
    BY <1>3, <1>4, <2>1 DEF Reading, Changing, wanting
  <2>3. Attempt
    BY <2>1, <2>2 DEF RequestNext, UnknownMethod, Known, policy, Suits
  <2>4. PICK a \in Read : Possible(call, a) /\ Judge(a)
    BY <1>2, <2>3 DEF Attempt
  <2>5. a \in policy.success
    BY <2>2, <2>4 DEF Possible, Suits, policy
  <2>6. result' = "success" /\ call' = [call EXCEPT !.step = "over"]
    BY <2>4, <2>5 DEF Judge, Return
  <2> QED
    BY <1>4, <1>5, <2>1, <2>6 DEF NodeInv, RequestTrue
<1>10. CASE Receive
  BY <1>4, <1>10 DEF Receive
<1>11. CASE NotFound
  BY <1>2, <1>11 DEF NotFound
<1>12. CASE RunAgain \/ RecordSucceeded \/ RecordFailed
  BY <1>4, <1>12 DEF RunAgain, RecordSucceeded, RecordFailed
<1>13. CASE UNCHANGED nodeVars
  BY <1>4, <1>5, <1>13 DEF nodeVars, requestVars
<1> QED
  BY <1>6, <1>7, <1>8, <1>9, <1>10, <1>11, <1>12, <1>13 DEF NodeNext

(* Of every node: an operation its manifest offers, with nothing wrong in   *)
(* its configuration and a service that answers as it should, succeeds, and *)
(* changes something exactly if the manifest says so; eight do not, and are *)
(* named.                                                                   *)
THEOREM OfferedSucceeds == NodeSpec => []OfferedWorks
<1>1. NodeInit => BestInv
  BY DEF NodeInit, BestInv
<1>2. NodeInv /\ BestInv => OfferedWorks
  <2> SUFFICES ASSUME NodeInv, BestInv, AtItsBest, <<nodeKind, operation>> \notin BrokenOffers PROVE Works
    BY DEF OfferedWorks
  <2>1. Faultless /\ conclusion = "success" /\ nodeStep = "over"
    BY DEF AtItsBest, Faultless, BestInv
  <2>2. /\ Handled /\ \A i \in DOMAIN plan.asks : plan.asks[i] \in Reading \cup Changing
        /\ handler.offers[operation] = \E i \in DOMAIN plan.asks : plan.asks[i] \in Changing
    BY <2>1, AskedAsOffered DEF NodeInv
  <2>3. ASSUME NEW i \in DOMAIN plan.asks PROVE plan.asks[i] \in Changing <=> plan.asks[i].changes
    BY <2>2 DEF Reading, Changing, ReadOnly, Certain
  <2>4. ASSUME NEW i \in DOMAIN plan.asks, plan.asks[i] \in Changing PROVE ledger[i].done > 0
    <3>1. ~plan.asks[i].spare /\ ~plan.asks[i].ignored
      BY <2>4 DEF Changing, Certain
    <3>2. ledger[i].read > 0
      BY <2>1, <2>2, <3>1 DEF NodeInv, LedgerTrue
    <3>3. i \in 1 .. 2
      BY <2>2, Planned DEF NodeInv, PlanOf
    <3> QED
      BY <3>2, <3>3 DEF NodeInv, Fact
  <2> QED
    BY <2>1, <2>2, <2>3, <2>4 DEF Works
<1> QED
  BY <1>1, <1>2, NodeInvariant, BestStep, PTL DEF NodeSpec

-----------------------------------------------------------------------------
(***************************************************************************)
(* The circuit breaker.                                                    *)
(***************************************************************************)
USE CallerAssumption, ThresholdAssumption, BreakerAssumption, BreakerBounds

-----------------------------------------------------------------------------
(* TypeOK alone is inductive.                                               *)
LEMMA TypeStep == TypeOK /\ [Next]_vars => TypeOK'
<1> SUFFICES ASSUME TypeOK, [Next]_vars PROVE TypeOK'
  OBVIOUS
<1> USE DEF TypeOK
<1>1. ASSUME NEW c \in Caller, can_execute(c) PROVE TypeOK'
  <2>1. CASE AdmitClosed(c)
    BY <1>1, <2>1 DEF can_execute, AdmitClosed
  <2>2. CASE AdmitFirst(c)
    BY <1>1, <2>2 DEF can_execute, AdmitFirst
  <2>3. CASE AdmitProbe(c)
    BY <1>1, <2>3 DEF can_execute, AdmitProbe
  <2> QED
    BY <1>1, <2>1, <2>2, <2>3 DEF can_execute
<1>2. ASSUME NEW c \in Caller, record_success(c) PROVE TypeOK'
  BY <1>2 DEF record_success, Reported
<1>3. ASSUME NEW c \in Caller, record_failure(c) PROVE TypeOK'
  BY <1>3 DEF record_failure, Reported
<1>4. ASSUME NEW c \in Caller, Abandon(c) PROVE TypeOK'
  BY <1>4 DEF Abandon
<1>5. CASE Tick
  BY <1>5 DEF Tick
<1>6. CASE UNCHANGED vars
  BY <1>6 DEF vars
<1> QED
  BY <1>1, <1>2, <1>3, <1>4, <1>5, <1>6 DEF Next

(* Type correctness, with the order of the clock and the last failure and   *)
(* the probes among the callers let through.                                *)
THEOREM TypeCorrect == Spec => []TypeOK
<1>1. Init => TypeOK
  BY DEF Init, TypeOK
<1> QED
  BY <1>1, TypeStep, PTL DEF Spec

-----------------------------------------------------------------------------
(* A closed breaker is below its threshold: the failures of calls let       *)
(* through before it opened count too, but none is added while it is closed *)
(* without the comparison, and closing it resets the count.                 *)
LEMMA ThresholdStep == TypeOK /\ ClosedBelowThreshold /\ [Next]_vars => ClosedBelowThreshold'
<1> SUFFICES ASSUME TypeOK, ClosedBelowThreshold, [Next]_vars PROVE ClosedBelowThreshold'
  OBVIOUS
<1> USE DEF TypeOK, ClosedBelowThreshold
<1>1. ASSUME NEW c \in Caller, can_execute(c) PROVE ClosedBelowThreshold'
  BY <1>1 DEF can_execute, AdmitClosed, AdmitFirst, AdmitProbe
<1>2. ASSUME NEW c \in Caller, record_success(c) PROVE ClosedBelowThreshold'
  BY <1>2 DEF record_success
<1>3. ASSUME NEW c \in Caller, record_failure(c) PROVE ClosedBelowThreshold'
  BY <1>3 DEF record_failure
<1>4. ASSUME NEW c \in Caller, Abandon(c) PROVE ClosedBelowThreshold'
  BY <1>4 DEF Abandon
<1>5. CASE Tick
  BY <1>5 DEF Tick
<1>6. CASE UNCHANGED vars
  BY <1>6 DEF vars
<1> QED
  BY <1>1, <1>2, <1>3, <1>4, <1>5, <1>6 DEF Next

(* ClosedBelowThreshold holds in every reachable state.                     *)
THEOREM BelowThreshold == Spec => []ClosedBelowThreshold
<1>1. Init => ClosedBelowThreshold
  BY DEF Init, ClosedBelowThreshold
<1> QED
  BY <1>1, TypeCorrect, ThresholdStep, PTL DEF Spec

-----------------------------------------------------------------------------
(* An open breaker lets nobody through before its time.                     *)
THEOREM OpenUntilTime == Spec => OpenHolds
<1>1. TypeOK /\ [Next]_vars
      => [state = "OPEN" /\ now - lastFailure <= recovery_timeout
          => state' = "OPEN" /\ admitted' \subseteq admitted]_vars
  <2> SUFFICES ASSUME TypeOK, Next, state = "OPEN", now - lastFailure <= recovery_timeout
               PROVE  state' = "OPEN" /\ admitted' \subseteq admitted
    OBVIOUS
  <2> USE DEF TypeOK
  <2>1. ASSUME NEW c \in Caller, can_execute(c) PROVE FALSE
    BY <2>1 DEF can_execute, AdmitClosed, AdmitFirst, AdmitProbe
  <2>2. ASSUME NEW c \in Caller, record_success(c)
        PROVE  state' = "OPEN" /\ admitted' \subseteq admitted
    BY <2>2 DEF record_success, Reported
  <2>3. ASSUME NEW c \in Caller, record_failure(c)
        PROVE  state' = "OPEN" /\ admitted' \subseteq admitted
    BY <2>3 DEF record_failure, Reported
  <2>4. ASSUME NEW c \in Caller, Abandon(c)
        PROVE  state' = "OPEN" /\ admitted' \subseteq admitted
    BY <2>4 DEF Abandon
  <2>5. CASE Tick
    BY <2>5 DEF Tick
  <2> QED
    BY <2>1, <2>2, <2>3, <2>4, <2>5 DEF Next
<1> QED
  BY <1>1, TypeCorrect, PTL DEF Spec, OpenHolds

-----------------------------------------------------------------------------
(* The account of the half-open calls, from which both bounds follow: every *)
(* call let through since the breaker became half-open is still under way   *)
(* or has ended without a report.                                           *)
Account ==
    state = "HALF_OPEN" =>
        /\ Cardinality(probes) <= halfOpen + 1
        /\ Cardinality(probes) + abandons >= halfOpen + 1

LEMMA FiniteProbes == TypeOK => IsFiniteSet(probes) /\ Cardinality(probes) \in Nat
BY FS_Subset, FS_CardinalityType DEF TypeOK

LEMMA AccountStep == TypeOK /\ Account /\ [Next]_vars => Account'
<1> SUFFICES ASSUME TypeOK, Account, [Next]_vars PROVE Account'
  OBVIOUS
<1>0. IsFiniteSet(probes) /\ Cardinality(probes) \in Nat
  BY FiniteProbes
<1> USE DEF TypeOK
<1>1. ASSUME NEW c \in Caller, can_execute(c) PROVE Account'
  <2>1. CASE AdmitClosed(c)
    BY <1>1, <2>1 DEF can_execute, AdmitClosed, Account
  <2>2. CASE AdmitFirst(c)
    <3>1. Cardinality(probes') = 1
      BY <2>2, FS_Singleton DEF AdmitFirst
    <3> QED
      BY <1>1, <2>2, <3>1 DEF can_execute, AdmitFirst, Account
  <2>3. CASE AdmitProbe(c)
    <3>1. c \notin probes
      BY <1>1 DEF can_execute
    <3>2. Cardinality(probes') = Cardinality(probes) + 1
      BY <1>0, <2>3, <3>1, FS_AddElement DEF AdmitProbe
    <3> QED
      BY <1>0, <1>1, <2>3, <3>2 DEF can_execute, AdmitProbe, Account
  <2> QED
    BY <1>1, <2>1, <2>2, <2>3 DEF can_execute
<1>2. ASSUME NEW c \in Caller, record_success(c) PROVE Account'
  BY <1>2 DEF record_success, Account
<1>3. ASSUME NEW c \in Caller, record_failure(c) PROVE Account'
  BY <1>3 DEF record_failure, Account
<1>4. ASSUME NEW c \in Caller, Abandon(c) PROVE Account'
  <2>1. Cardinality(probes') = IF c \in probes THEN Cardinality(probes) - 1
                                               ELSE Cardinality(probes)
    <3>1. probes' = probes \ {c}
      BY <1>4 DEF Abandon
    <3> QED
      BY <1>0, <3>1, FS_RemoveElement
  <2> QED
    BY <1>0, <1>4, <2>1 DEF Abandon, Account
<1>5. CASE Tick
  BY <1>5 DEF Tick, Account
<1>6. CASE UNCHANGED vars
  BY <1>6 DEF vars, Account
<1> QED
  BY <1>1, <1>2, <1>3, <1>4, <1>5, <1>6 DEF Next

(* The account holds in every reachable state.                              *)
THEOREM Accounted == Spec => []Account
<1>1. Init => Account
  BY DEF Init, Account
<1> QED
  BY <1>1, TypeCorrect, AccountStep, PTL DEF Spec

(* At most halfOpen + 1 probes are under way.                               *)
THEOREM ProbesBounded == Spec => []ProbeBound
<1>1. Account => ProbeBound
  BY DEF Account, ProbeBound
<1> QED
  BY <1>1, Accounted, PTL

(* A half-open breaker that has spent its calls waits for one of them, as   *)
(* long as at most half_open_max_calls have ended without a report.         *)
THEOREM ProbeAwaited == Spec => []Waiting
<1>1. TypeOK /\ Account => Waiting
  <2> SUFFICES ASSUME TypeOK, Account, state = "HALF_OPEN", halfOpen = half_open_max_calls,
                      abandons <= half_open_max_calls
               PROVE  probes # {}
    BY DEF Waiting
  <2>1. Cardinality(probes) > 0
    BY FiniteProbes DEF TypeOK, Account
  <2> QED
    BY <2>1, FS_EmptySet
<1> QED
  BY <1>1, Accounted, TypeCorrect, PTL
=============================================================================

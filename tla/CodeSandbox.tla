------------------------------ MODULE CodeSandbox ------------------------------
(***************************************************************************)
(* Runs of user code by the code node, in containers or in subprocesses,   *)
(* as the one manager of the process found at its first call. A run makes  *)
(* things outside the process (a directory or file, a container, a child)  *)
(* and waits for them with a time limit; the run of the workflow may be    *)
(* cancelled meanwhile, and the process may stop.                          *)
(***************************************************************************)
EXTENDS UserCode

CONSTANTS
    Run,                \* executions of a code node
    CodeOf,             \* [Run -> the pieces of code it may be setting]
    remove_container    \* DockerSandboxConfig.remove_container

ASSUME SandboxAssumption ==
    remove_container \in BOOLEAN /\ \A r \in Run : CodeOf[r] \subseteq Code

VARIABLES
    wanted,     \* SANDBOX_MODE: docker, subprocess or disabled
    docker,     \* what there is of Docker: the package, the daemon, the image
    code,       \* [Run -> its code]
    mode,       \* the manager's _active_mode, or "none" before its first call
    coderun,    \* [Run -> where it is]
    sandboxResult,    \* [Run -> what the node got]
    container,  \* [Run -> none, running, exited]
    child,      \* [Run -> its subprocess: none, running, exited]
    files,      \* runs with a directory or file of theirs on disk
    kept        \* runs whose clean-up failed, or that died with the process

sandboxVars == <<wanted, docker, code, mode, coderun, sandboxResult, container, child, files, kept>>
setting == <<wanted, docker, code>>

SandboxInit ==
    /\ wanted \in {"docker", "subprocess", "disabled"}
    /\ docker \in {{}, {"package"}, {"package", "daemon"}, {"package", "daemon", "image"}}
    /\ code \in [Run -> UNION {CodeOf[r] : r \in Run}] /\ \A r \in Run : code[r] \in CodeOf[r]
    /\ mode = "none"
    /\ coderun = [r \in Run |-> "none"]
    /\ sandboxResult = [r \in Run |-> "none"]
    /\ container = [r \in Run |-> "none"] /\ child = [r \in Run |-> "none"]
    /\ files = {} /\ kept = {}

GoTo(r, step, what) ==
    /\ coderun' = [coderun EXCEPT ![r] = step]
    /\ sandboxResult' = [sandboxResult EXCEPT ![r] = what]

-----------------------------------------------------------------------------
(* The static analysis comes first, and what it refuses goes no further.    *)
RefuseCode(r) ==
    /\ coderun[r] = "none" /\ Violates(code[r])
    /\ GoTo(r, "over", "violations")
    /\ UNCHANGED <<setting, mode, container, child, files, kept>>

DockerReady == docker = {"package", "daemon", "image"}

(* get_sandbox_manager and initialize: a manager that was to use Docker and *)
(* finds none is disabled; only one with no wish at all falls back.         *)
Initialize(r) ==
    /\ coderun[r] = "none" /\ mode = "none" /\ ~Violates(code[r])
    /\ mode' = IF wanted = "docker" /\ ~DockerReady THEN "disabled" ELSE wanted
    /\ UNCHANGED <<setting, coderun, sandboxResult, container, child, files, kept>>

RefuseRun(r) ==
    /\ coderun[r] = "none" /\ mode = "disabled" /\ ~Violates(code[r])
    /\ GoTo(r, "over", "SandboxDisabled")
    /\ UNCHANGED <<setting, mode, container, child, files, kept>>

WriteScript(r) ==
    /\ coderun[r] = "none" /\ mode \in {"docker", "subprocess"} /\ ~Violates(code[r])
    /\ files' = files \cup {r}
    /\ GoTo(r, "scripted", "none")
    /\ UNCHANGED <<setting, mode, container, child, kept>>

(* Created and started, or only created (start raises), or not even that.   *)
StartContainer(r) ==
    /\ coderun[r] = "scripted" /\ mode = "docker"
    /\ \E how \in {"running", "exited", "none"} :
         /\ container' = [container EXCEPT ![r] = how]
         /\ IF how = "running" THEN GoTo(r, "waiting", "none") ELSE GoTo(r, "finally", "error")
    /\ UNCHANGED <<setting, mode, child, files, kept>>

StartChild(r) ==
    /\ coderun[r] = "scripted" /\ mode = "subprocess"
    /\ \/ child' = [child EXCEPT ![r] = "running"] /\ GoTo(r, "waiting", "none")
       \/ UNCHANGED child /\ GoTo(r, "finally", "error")
    /\ UNCHANGED <<setting, mode, container, files, kept>>

(* The code ends by itself, whether or not anybody still waits for it.      *)
CodeEnds(r) ==
    /\ \/ container[r] = "running" /\ container' = [container EXCEPT ![r] = "exited"]
          /\ UNCHANGED child
       \/ child[r] = "running" /\ child' = [child EXCEPT ![r] = "exited"]
          /\ UNCHANGED container
    /\ UNCHANGED <<setting, mode, coderun, sandboxResult, files, kept>>

(* What the script put out; or an error: the code was killed at a limit, or *)
(* its output could not be had.                                             *)
ReadOutput(r) ==
    /\ coderun[r] = "waiting" /\ "exited" \in {container[r], child[r]}
    /\ \E what \in {NodeResult(code[r], ReadScript(Script(code[r], mode))), "error"} :
         GoTo(r, "finally", what)
    /\ UNCHANGED <<setting, mode, container, child, files, kept>>

TimeOut_LeavesChild(r) ==
    /\ coderun[r] = "waiting"
    /\ \/ UNCHANGED container
       \/ container[r] = "running" /\ container' = [container EXCEPT ![r] = "exited"]
    /\ GoTo(r, "finally", "TimeoutError")
    /\ UNCHANGED <<setting, mode, child, files, kept>>

(* A container that cannot be killed is left to the clean-up; a child is    *)
(* killed and waited for. wait() of the Docker client may also raise.       *)
TimeOut(r) ==
    /\ coderun[r] = "waiting"
    /\ \/ UNCHANGED container
       \/ container[r] = "running" /\ container' = [container EXCEPT ![r] = "exited"]
    /\ child' = [child EXCEPT ![r] = IF @ = "running" THEN "exited" ELSE @]
    /\ GoTo(r, "finally", "TimeoutError")
    /\ UNCHANGED <<setting, mode, files, kept>>

(* CancelledError goes to the finally clauses, past the kill.               *)
Cancel(r) ==
    /\ coderun[r] = "waiting"
    /\ GoTo(r, "finally", "cancelled")
    /\ UNCHANGED <<setting, mode, container, child, files, kept>>

CleanUp(r) ==
    /\ coderun[r] = "finally"
    /\ \E failed \in BOOLEAN :
         /\ kept' = IF failed THEN kept \cup {r} ELSE kept
         /\ files' = IF failed THEN files ELSE files \ {r}
         /\ container' = IF failed \/ ~remove_container THEN container
                         ELSE [container EXCEPT ![r] = "none"]
    /\ coderun' = [coderun EXCEPT ![r] = "over"]
    /\ UNCHANGED <<setting, mode, sandboxResult, child>>

(* The process stops; its containers and files stay. The next one has a new *)
(* manager, and nobody calls cleanup_stale_containers.                      *)
ProcessStops ==
    LET underWay == {r \in Run : coderun[r] \notin {"none", "over"}} IN
    /\ underWay # {}
    /\ coderun' = [r \in Run |-> IF r \in underWay THEN "over" ELSE coderun[r]]
    /\ sandboxResult' = [r \in Run |-> IF r \in underWay THEN "lost" ELSE sandboxResult[r]]
    /\ kept' = kept \cup underWay
    /\ mode' = "none"
    /\ UNCHANGED <<setting, container, child, files>>

SandboxNext ==
    \/ \E r \in Run :
         \/ RefuseCode(r) \/ Initialize(r) \/ RefuseRun(r) \/ WriteScript(r)
         \/ StartContainer(r) \/ StartChild(r) \/ CodeEnds(r)
         \/ ReadOutput(r) \/ TimeOut(r) \/ Cancel(r) \/ CleanUp(r)
    \/ ProcessStops

SandboxSpec == SandboxInit /\ [][SandboxNext]_sandboxVars

-----------------------------------------------------------------------------
SandboxTypeOK ==
    /\ wanted \in {"docker", "subprocess", "disabled"} /\ code \in [Run -> Code]
    /\ mode \in {"none", "docker", "subprocess", "disabled"}
    /\ coderun \in [Run -> {"none", "scripted", "waiting", "finally", "over"}]
    /\ sandboxResult \in [Run -> {"none", "SandboxDisabled", "violations", "error", "marked", "success",
                            "TimeoutError", "cancelled", "lost"}]
    /\ container \in [Run -> {"none", "running", "exited"}]
    /\ child \in [Run -> {"none", "running", "exited"}]
    /\ files \subseteq Run /\ kept \subseteq Run

(* A run that is over leaves no file and no container, except where the     *)
(* removal failed or the process stopped; and code goes on running behind   *)
(* it only as the child of a run that was cancelled.                        *)
NothingLeft ==
    \A r \in Run : coderun[r] = "over" /\ r \notin kept =>
        /\ r \notin files
        /\ remove_container => container[r] = "none"
        /\ child[r] = "running" => sandboxResult[r] = "cancelled"

(* A node gets a result only of code that the analysis would pass, that the *)
(* sandbox in use ran to its end with names it knows and inputs that Python *)
(* reads as JSON does, and that wrote nothing to stdout itself; code that   *)
(* the analysis refuses never gets as far as a file or a process.           *)
Sandbox == IF wanted = "docker" THEN "docker" ELSE "subprocess"

ResultEarned ==
    \A r \in Run :
        /\ sandboxResult[r] \in {"success", "marked"} =>
             /\ code[r].imports \subseteq {"json"} /\ code[r].attributes \subseteq {"append"}
             /\ code[r].calls \cup code[r].names \subseteq Builtins(Sandbox) \ {"__name__"}
             /\ "isinstance" \notin code[r].calls
             /\ code[r].deeds \subseteq {"returns_a_mark"} /\ "null" \notin code[r].inputs
        /\ sandboxResult[r] = "success" => code[r].deeds = {}
        /\ Violates(code[r]) => r \notin files /\ {container[r], child[r]} = {"none"}

(* Both at once: what a run leaves behind and what it reports.              *)
RunsAccounted == NothingLeft /\ ResultEarned
=============================================================================

------------------------ MODULE GraphExecutorProofs -------------------------
(* Theorems about GraphExecutor, for every set of graphs, cycles included,  *)
(* every number of branches, items, attempts and faults.                    *)
EXTENDS GraphExecutor, FiniteSetTheorems, TLAPS

NodeStep(n) == \/ SkipJoin(n) \/ CallNode(n) \/ Pause(n) \/ StopBranch(n)
               \/ FanOut(n) \/ Iterate(n) \/ Traverse(n)
CallStep(c) == \/ UsePinned(c) \/ Enter(c) \/ Refuse(c) \/ Attempt(c)
               \/ Succeed(c) \/ FailAttempt(c) \/ GiveUp(c)
RunStep == \/ Begin \/ BeginSingle \/ GatherReturns \/ Raise \/ Complete \/ SingleEnds
           \/ Cancel

LEMMA Steps ==
    ASSUME [Next]_vars
    PROVE  \/ \E n \in Node : NodeStep(n)
           \/ \E c \in DOMAIN calls : CallStep(c)
           \/ RunStep
           \/ UNCHANGED vars
BY DEF Next, Progress, NodeStep, CallStep, RunStep

-----------------------------------------------------------------------------
(* The shape of the calls in each phase: none between two nodes, one for a  *)
(* node from the queue, finitely many in a gather.                          *)
IsCallOf(call) == /\ call.node \in Node
                  /\ call.at \in {"waiting", "ready", "running", "ok", "error"}
                  /\ AnyResult(call.result)

Shape ==
    /\ IsGraph(graph)
    /\ IsFiniteSet(DOMAIN calls)
    /\ \A c \in DOMAIN calls : IsCallOf(calls[c])
    /\ phase \in {"idle", "ready"} => DOMAIN calls = {}
    /\ phase \in {"node", "single"} => DOMAIN calls = {1}
    /\ width \in Nat \ {0}

LEMMA MakesResult ==
    ASSUME NEW b \in Handle \cup {"NO_RESULT", "none", "paused", "approved", "start",
                                  "completed", "error"},
           NEW items \in Seq(Item), NEW w \in Nat
    PROVE  AnyResult(Result(b, items, w))
BY DEF AnyResult, Result

LEMMA ResultShape ==
    ASSUME IsGraph(graph), NEW n \in Node, NEW r \in Results(n) PROVE AnyResult(r)
<1>1. graph.kind[n] \in Kind
  BY DEF IsGraph
<1>2. <<>> \in Seq(Item) /\ 0 \in Nat
  OBVIOUS
<1>3. CASE graph.kind[n] = "plain"
  <2>1. r = Result("none", <<>>, 0)
    BY <1>3 DEF Results
  <2> QED
    BY <1>2, <2>1, MakesResult
<1>4. CASE graph.kind[n] = "router"
  <2>1. PICK h \in Handle : r = Result(h, <<>>, 0)
    BY <1>4 DEF Results
  <2> QED
    BY <1>2, <2>1, MakesResult
<1>5. CASE graph.kind[n] = "wait"
  <2>1. PICK b \in {"paused", "approved"} : r = Result(b, <<>>, 0)
    BY <1>5 DEF Results
  <2> QED
    BY <1>2, <2>1, MakesResult
<1>6. CASE graph.kind[n] = "parallel"
  <2>1. PICK b \in {"start", "completed", "error"} : r = Result(b, <<>>, 0)
    BY <1>6 DEF Results
  <2> QED
    BY <1>2, <2>1, MakesResult
<1>7. CASE graph.kind[n] = "loop"
  <2>1. \/ \E b \in {"completed", "error"} : r = Result(b, <<>>, 0)
        \/ \E items \in ItemLists, w \in {0} \cup Widths : r = Result("start", items, w)
    BY <1>7 DEF Results
  <2> QED
    BY <1>2, <2>1, MakesResult, ItemAssumption, BoundAssumption
<1> QED
  BY <1>1, <1>3, <1>4, <1>5, <1>6, <1>7 DEF Kind

LEMMA NewCall == ASSUME NEW n \in Node, NEW item PROVE IsCallOf(Call(n, item))
<1>1. AnyResult(NoResult)
  <2>1. <<>> \in Seq(Item) /\ 0 \in Nat
    OBVIOUS
  <2> QED
    BY <2>1, MakesResult DEF NoResult
<1> QED
  BY <1>1 DEF IsCallOf, Call

(* A step of a call leaves the others alone.                                *)
LEMMA StepShape ==
    ASSUME Shape, NEW c \in DOMAIN calls, NEW at, NEW attempt, NEW result,
           Step(c, at, attempt, result), AnyResult(result),
           at \in {"waiting", "ready", "running", "ok", "error"},
           UNCHANGED <<graph, phase, width>>
    PROVE  Shape'
BY DEF Shape, Step, IsCallOf

LEMMA CallKeepsShape ==
    ASSUME Shape, NEW c \in DOMAIN calls, CallStep(c) PROVE Shape'
<1> USE DEF Outside, Move
<1>0. IsCallOf(calls[c])
  BY DEF Shape
<1>1. CASE UsePinned(c)
  <2>1. PICK r \in Results(calls[c].node) : Step(c, "ok", calls[c].attempt, r)
    BY <1>1 DEF UsePinned
  <2>2. AnyResult(r)
    BY <1>0, <2>1, ResultShape DEF Shape, IsCallOf
  <2> QED
    BY <1>0, <1>1, <2>1, <2>2, StepShape DEF UsePinned, IsCallOf
<1>2. CASE Enter(c)
  BY <1>0, <1>2, StepShape DEF Enter, IsCallOf
<1>3. CASE Refuse(c)
  BY <1>0, <1>3, StepShape DEF Refuse, IsCallOf
<1>4. CASE Attempt(c)
  BY <1>0, <1>4, StepShape DEF Attempt, IsCallOf
<1>5. CASE Succeed(c)
  <2>1. PICK r \in Results(calls[c].node) : Step(c, "ok", calls[c].attempt, r)
    BY <1>5 DEF Succeed
  <2>2. AnyResult(r)
    BY <1>0, <2>1, ResultShape DEF Shape, IsCallOf
  <2> QED
    BY <1>0, <1>5, <2>1, <2>2, StepShape DEF Succeed, IsCallOf
<1>6. CASE FailAttempt(c)
  BY <1>0, <1>6, StepShape DEF FailAttempt, IsCallOf
<1>7. CASE GiveUp(c)
  BY <1>0, <1>7, StepShape DEF GiveUp, IsCallOf
<1> QED
  BY <1>1, <1>2, <1>3, <1>4, <1>5, <1>6, <1>7 DEF CallStep

LEMMA NoCalls ==
    ASSUME Shape, calls' = <<>>, graph' = graph, phase' \in {"ready", "over"}, width' = width
    PROVE  Shape'
<1>1. DOMAIN calls' = {}
  OBVIOUS
<1>2. IsFiniteSet(DOMAIN calls')
  BY <1>1, FS_EmptySet
<1>3. IsGraph(graph')
  BY DEF Shape
<1>4. \A c \in DOMAIN calls' : IsCallOf(calls'[c])
  BY <1>1
<1>5. /\ phase' \in {"idle", "ready"} => DOMAIN calls' = {}
      /\ phase' \in {"node", "single"} => DOMAIN calls' = {1}
  BY <1>1
<1>6. width' \in Nat \ {0}
  BY DEF Shape
<1> QED
  BY <1>2, <1>3, <1>4, <1>5, <1>6 DEF Shape

LEMMA SomeCalls ==
    ASSUME Shape, NEW m \in Nat, DOMAIN calls' = 1 .. m,
           \A c \in DOMAIN calls' : IsCallOf(calls'[c]),
           graph' = graph, width' \in Nat \ {0},
           phase' = "gather" \/ (phase' \in {"node", "single"} /\ m = 1)
    PROVE  Shape'
<1>1. IsFiniteSet(DOMAIN calls')
  BY FS_Interval
<1>2. IsGraph(graph')
  BY DEF Shape
<1>3. phase' \in {"node", "single"} => DOMAIN calls' = {1}
  OBVIOUS
<1>4. phase' \notin {"idle", "ready"}
  OBVIOUS
<1> QED
  BY <1>1, <1>2, <1>3, <1>4 DEF Shape

LEMMA OneCall ==
    ASSUME Shape, NEW n \in Node, NEW item, calls' = <<Call(n, item)>>, graph' = graph,
           phase' \in {"node", "single"}, width' = 1
    PROVE  Shape'
<1>1. DOMAIN calls' = 1 .. 1 /\ \A c \in DOMAIN calls' : calls'[c] = Call(n, item)
  OBVIOUS
<1>2. \A c \in DOMAIN calls' : IsCallOf(calls'[c])
  BY <1>1, NewCall
<1> QED
  BY <1>1, <1>2, SomeCalls

LEMMA Edges ==
    ASSUME IsGraph(graph), NEW n \in Node
    PROVE  /\ DOMAIN graph.out[n] = 1 .. Len(graph.out[n]) /\ Len(graph.out[n]) \in Nat
           /\ \A i \in DOMAIN graph.out[n] : graph.out[n][i].to \in Node
<1> DEFINE edges == graph.out[n]
           Edge == [to : Node, via : STRING]
<1>1. edges \in Seq(Edge)
  BY DEF IsGraph
<1>2. \A e \in Edge : e.to \in Node
  OBVIOUS
<1> HIDE DEF edges, Edge
<1>3. /\ DOMAIN edges = 1 .. Len(edges) /\ Len(edges) \in Nat
      /\ \A i \in DOMAIN edges : edges[i] \in Edge
  BY <1>1
<1>4. \A i \in DOMAIN edges : edges[i].to \in Node
  BY <1>2, <1>3
<1> QED
  BY <1>3, <1>4 DEF edges

LEMMA NodeKeepsShape == ASSUME Shape, NEW n \in Node, NodeStep(n) PROVE Shape'
<1>1. CASE SkipJoin(n)
  BY <1>1 DEF SkipJoin, Shape
<1>2. CASE CallNode(n)
  BY <1>2, OneCall DEF CallNode
<1>3. CASE Pause(n)
  BY <1>3 DEF Pause, Shape
<1>4. CASE StopBranch(n)
  BY <1>4, NoCalls DEF StopBranch, Ready
<1>5. CASE FanOut(n)
  <2> DEFINE edges == graph.out[n]
  <2>1. /\ DOMAIN edges = 1 .. Len(edges) /\ Len(edges) \in Nat
        /\ \A i \in DOMAIN edges : edges[i].to \in Node
    BY Edges DEF Shape
  <2>2. /\ calls' = [i \in DOMAIN edges |-> Call(edges[i].to, calls[1].item)]
        /\ phase' = "gather" /\ width' = Len(edges) + 1 /\ graph' = graph
    BY <1>5 DEF FanOut, Gather
  <2> HIDE DEF edges
  <2>3. \A c \in DOMAIN calls' : calls'[c] = Call(edges[c].to, calls[1].item)
    BY <2>2
  <2>4. \A c \in DOMAIN calls' : IsCallOf(calls'[c])
    BY <2>1, <2>2, <2>3, NewCall
  <2>5. width' \in Nat \ {0} /\ DOMAIN calls' = 1 .. Len(edges)
    BY <2>1, <2>2
  <2> QED
    BY <2>1, <2>2, <2>4, <2>5, SomeCalls
<1>6. CASE Iterate(n)
  <2> DEFINE items == calls[1].result.items
  <2>1. calls[1].result.items \in Seq(Item) /\ calls[1].result.width \in Nat
    BY <1>6 DEF Iterate, Continues, Returned, Shape, IsCallOf, AnyResult
  <2>2. Body(n) \subseteq Node
    <3>1. \A i \in DOMAIN graph.out[n] : graph.out[n][i].to \in Node
      BY Edges DEF Shape
    <3> QED
      BY <3>1 DEF Body, StartEdges
  <2>3. CASE Ready /\ graph' = graph
    BY <2>3, NoCalls DEF Ready
  <2>4. ASSUME NEW body \in Body(n), calls[1].result.width > 0, graph' = graph,
               Gather([i \in DOMAIN items |-> Call(body, items[i])], calls[1].result.width)
        PROVE  Shape'
    <3>1. DOMAIN calls' = 1 .. Len(items) /\ Len(items) \in Nat
      BY <2>1, <2>4 DEF Gather
    <3>2. \A c \in DOMAIN calls' : calls'[c] = Call(body, items[c])
      BY <2>4 DEF Gather
    <3>3. \A c \in DOMAIN calls' : IsCallOf(calls'[c])
      BY <2>2, <3>2, NewCall
    <3>4. width' \in Nat \ {0} /\ phase' = "gather"
      BY <2>1, <2>4 DEF Gather
    <3> QED
      BY <2>4, <3>1, <3>3, <3>4, SomeCalls
  <2> QED
    BY <1>6, <2>3, <2>4 DEF Iterate
<1>7. CASE Traverse(n)
  BY <1>7, NoCalls DEF Traverse, Ready
<1> QED
  BY <1>1, <1>2, <1>3, <1>4, <1>5, <1>6, <1>7 DEF NodeStep

LEMMA RunKeepsShape == ASSUME Shape, RunStep PROVE Shape'
<1>1. CASE Begin
  BY <1>1 DEF Begin, Shape
<1>2. CASE BeginSingle
  BY <1>2, OneCall DEF BeginSingle
<1>3. CASE GatherReturns
  BY <1>3, NoCalls DEF GatherReturns, Ready
<1>4. CASE Raise
  BY <1>4 DEF Raise, Shape
<1>5. CASE Complete
  BY <1>5 DEF Complete, Shape
<1>6. CASE SingleEnds
  BY <1>6 DEF SingleEnds, Shape
<1>7. CASE Cancel
  BY <1>7, NoCalls DEF Cancel
<1> QED
  BY <1>1, <1>2, <1>3, <1>4, <1>5, <1>6, <1>7 DEF RunStep

(* Shape holds in every reachable state.                                    *)
THEOREM ShapeKept == Spec => []Shape
<1>1. Init => Shape
  BY GraphAssumption, FS_EmptySet DEF Init, Shape
<1>2. Shape /\ [Next]_vars => Shape'
  <2>1. CASE UNCHANGED vars
    BY <2>1 DEF vars, Shape
  <2> QED
    BY <2>1, Steps, CallKeepsShape, NodeKeepsShape, RunKeepsShape
<1> QED
  BY <1>1, <1>2, PTL DEF Spec

-----------------------------------------------------------------------------
(* What a step of one call does: it moves that call alone, forward or back  *)
(* to another attempt, under the two semaphores.                            *)
Moves(c) ==
    \/ /\ calls[c].at = "waiting" /\ calls'[c].at = "ready"
       /\ Cardinality(At({"ready", "running"})) < width
    \/ /\ calls[c].at = "ready" /\ calls'[c].at = "running"
       /\ Cardinality(At({"running"})) < MaxParallel
    \/ calls[c].at = "running" /\ calls'[c].at = "ready"
    \/ calls[c].at \in {"waiting", "running"} /\ calls'[c].at \in {"ok", "error"}

LEMMA CallMoves ==
    ASSUME NEW c \in DOMAIN calls, CallStep(c)
    PROVE  /\ DOMAIN calls' = DOMAIN calls
           /\ \A d \in DOMAIN calls : d # c => calls'[d] = calls[d]
           /\ UNCHANGED <<phase, state, width>>
           /\ raised' = raised \/ calls'[c].at = "error"
           /\ Moves(c)
<1> USE DEF Step, Move, Outside, results, Moves
<1>1. CASE UsePinned(c)
  BY <1>1 DEF UsePinned, MayEnter, At
<1>2. CASE Enter(c)
  BY <1>2 DEF Enter, MayEnter, At
<1>3. CASE Refuse(c)
  BY <1>3 DEF Refuse, MayEnter, At
<1>4. CASE Attempt(c)
  BY <1>4 DEF Attempt, At
<1>5. CASE Succeed(c)
  BY <1>5 DEF Succeed, At
<1>6. CASE FailAttempt(c)
  BY <1>6 DEF FailAttempt, At
<1>7. CASE GiveUp(c)
  BY <1>7 DEF GiveUp, At
<1> QED
  BY <1>1, <1>2, <1>3, <1>4, <1>5, <1>6, <1>7 DEF CallStep

(* Any other step leaves the calls and their width alone or replaces them.  *)
LEMMA CallsReplaced ==
    ASSUME (\E n \in Node : NodeStep(n)) \/ RunStep
    PROVE  \/ UNCHANGED <<calls, width>>
           \/ \A c \in DOMAIN calls' : calls'[c].at = "waiting"
<1>0. ASSUME calls' = <<>> PROVE \A c \in DOMAIN calls' : calls'[c].at = "waiting"
  BY <1>0
<1>1. ASSUME NEW n \in Node, NodeStep(n)
      PROVE  \/ UNCHANGED <<calls, width>>
             \/ \A c \in DOMAIN calls' : calls'[c].at = "waiting"
  <2>1. CASE SkipJoin(n) \/ Pause(n)
    BY <2>1 DEF SkipJoin, Pause
  <2>2. CASE CallNode(n)
    BY <2>2 DEF CallNode, Call
  <2>3. CASE StopBranch(n) \/ Traverse(n)
    BY <1>0, <2>3 DEF StopBranch, Traverse, Ready
  <2>4. CASE FanOut(n)
    BY <2>4 DEF FanOut, Gather, Call
  <2>5. CASE Iterate(n)
    <3>1. CASE Ready
      BY <1>0, <3>1 DEF Ready
    <3>2. ASSUME NEW body \in Body(n),
                 Gather([i \in DOMAIN calls[1].result.items |->
                             Call(body, calls[1].result.items[i])], calls[1].result.width)
          PROVE  \A c \in DOMAIN calls' : calls'[c].at = "waiting"
      BY <3>2 DEF Gather, Call
    <3> QED
      BY <2>5, <3>1, <3>2 DEF Iterate
  <2> QED
    BY <1>1, <2>1, <2>2, <2>3, <2>4, <2>5 DEF NodeStep
<1>2. CASE RunStep
  BY <1>2 DEF RunStep, Begin, BeginSingle, GatherReturns, Raise, Complete, SingleEnds,
              Cancel, Ready, Call
<1> QED
  BY <1>1, <1>2

-----------------------------------------------------------------------------
(* Neither semaphore is overrun.                                            *)
LEMMA CallKeepsConcurrency ==
    ASSUME Shape, Concurrency, NEW c \in DOMAIN calls, CallStep(c) PROVE Concurrency'
<1> DEFINE running == At({"running"})
           active == At({"ready", "running"})
<1>1. /\ IsFiniteSet(running) /\ IsFiniteSet(active)
      /\ Cardinality(running) \in Nat /\ Cardinality(active) \in Nat
      /\ width \in Nat /\ MaxParallel \in Nat
  BY FS_Subset, FS_CardinalityType, BoundAssumption DEF Shape, At
<1>2. Cardinality(running) <= MaxParallel /\ Cardinality(active) <= width
  BY DEF Concurrency
<1>3. width' = width
  BY CallMoves
<1>4. SUFFICES Cardinality(running') <= MaxParallel /\ Cardinality(active') <= width
  BY <1>3 DEF Concurrency
<1>5. CASE calls[c].at = "waiting" /\ calls'[c].at = "ready"
  <2>1. Cardinality(active) < width
    BY <1>5, CallMoves DEF Moves
  <2>2. running' = running /\ active' = active \cup {c} /\ c \notin active
    BY <1>5, CallMoves DEF At
  <2>3. Cardinality(active') = Cardinality(active) + 1
    BY <1>1, <2>2, FS_AddElement
  <2>4. Cardinality(running') = Cardinality(running)
    BY <2>2
  <2> QED
    BY <1>1, <1>2, <2>1, <2>3, <2>4
<1>6. CASE calls[c].at = "ready" /\ calls'[c].at = "running"
  <2>1. Cardinality(running) < MaxParallel
    BY <1>6, CallMoves DEF Moves
  <2>2. running' = running \cup {c} /\ active' = active /\ c \notin running
    BY <1>6, CallMoves DEF At
  <2>3. Cardinality(running') = Cardinality(running) + 1
    BY <1>1, <2>2, FS_AddElement
  <2>4. Cardinality(active') = Cardinality(active)
    BY <2>2
  <2> QED
    BY <1>1, <1>2, <2>1, <2>3, <2>4
<1>7. CASE calls[c].at = "running" /\ calls'[c].at = "ready"
  <2>1. running' = running \ {c} /\ active' = active
    BY <1>7, CallMoves DEF At
  <2>2. Cardinality(running') <= Cardinality(running) /\ Cardinality(running') \in Nat
    <3>1. running' \in SUBSET running
      BY <2>1
    <3> HIDE DEF running
    <3> QED
      BY <1>1, <3>1, FS_Subset, FS_CardinalityType
  <2>3. Cardinality(active') = Cardinality(active)
    BY <2>1
  <2> QED
    BY <1>1, <1>2, <2>2, <2>3
<1>8. CASE calls[c].at \in {"waiting", "running"} /\ calls'[c].at \in {"ok", "error"}
  <2>1. running' = running \ {c} /\ active' = active \ {c}
    BY <1>8, CallMoves DEF At
  <2>2. Cardinality(running') <= Cardinality(running) /\ Cardinality(running') \in Nat
    <3>1. running' \in SUBSET running
      BY <2>1
    <3> HIDE DEF running
    <3> QED
      BY <1>1, <3>1, FS_Subset, FS_CardinalityType
  <2>3. Cardinality(active') <= Cardinality(active) /\ Cardinality(active') \in Nat
    <3>1. active' \in SUBSET active
      BY <2>1
    <3> HIDE DEF active
    <3> QED
      BY <1>1, <3>1, FS_Subset, FS_CardinalityType
  <2> QED
    BY <1>1, <1>2, <2>2, <2>3
<1> QED
  BY <1>5, <1>6, <1>7, <1>8, CallMoves DEF Moves

(* No bound on branches, iterations or attempts lets more attempts run than *)
(* the execution semaphore, or more calls be under way than their gather,   *)
(* admits.                                                                  *)
THEOREM SemaphoresHold == Spec => []Concurrency
<1>1. Init => Concurrency
  <2> SUFFICES ASSUME Init PROVE Concurrency
    OBVIOUS
  <2>1. At({"running"}) = {} /\ At({"ready", "running"}) = {}
    BY DEF Init, At
  <2> QED
    <3>1. Cardinality({}) = 0 /\ width = 1 /\ MaxParallel \in Nat
      BY FS_EmptySet, BoundAssumption DEF Init
    <3> QED
      BY <2>1, <3>1 DEF Concurrency
<1>2. Shape /\ Shape' /\ Concurrency /\ [Next]_vars => Concurrency'
  <2> SUFFICES ASSUME Shape, Shape', Concurrency, [Next]_vars PROVE Concurrency'
    OBVIOUS
  <2>1. CASE UNCHANGED <<calls, width>>
    BY <2>1 DEF Concurrency, At
  <2>2. CASE \A c \in DOMAIN calls' : calls'[c].at = "waiting"
    <3>1. At({"running"})' = {} /\ At({"ready", "running"})' = {}
      BY <2>2 DEF At
    <3>2. width' \in Nat
      BY DEF Shape
    <3> QED
      BY <3>1, <3>2, FS_EmptySet, BoundAssumption DEF Concurrency
  <2>3. ASSUME NEW c \in DOMAIN calls, CallStep(c) PROVE Concurrency'
    BY <2>3, CallKeepsConcurrency
  <2>4. CASE UNCHANGED vars
    BY <2>1, <2>4 DEF vars
  <2> QED
    BY <2>1, <2>2, <2>3, <2>4, Steps, CallsReplaced
<1> QED
  BY <1>1, <1>2, ShapeKept, PTL DEF Spec

-----------------------------------------------------------------------------
(* Errors surface because, as long as the run is not over, an error that    *)
(* was raised is still among the calls of the current step, and the step    *)
(* that would report success is barred by it.                               *)
Surface ==
    /\ Shape
    /\ QuietWhenOver
    /\ state \in {"ACTIVE", "PAUSED", "COMPLETED", "FAILED"}
    /\ state # "ACTIVE" => Over
    /\ ErrorsSurface
    /\ raised /\ ~Over => At({"error"}) # {}

LEMMA CallKeepsSurface ==
    ASSUME Surface, NEW c \in DOMAIN calls, CallStep(c) PROVE Surface'
<1>1. Moves(c)
  BY CallMoves
<1>2. calls[c].at \notin {"ok", "error"}
  BY <1>1 DEF Moves
<1>3. ~Over /\ ~Over' /\ state = "ACTIVE" /\ state' = "ACTIVE"
  <2>1. ~Over
    BY <1>2 DEF Surface, QuietWhenOver, Done
  <2> QED
    BY <2>1, CallMoves DEF Surface, Over
<1>4. raised' => At({"error"})' # {}
  <2>1. CASE calls'[c].at = "error"
    <3>1. c \in At({"error"})'
      BY <2>1, CallMoves DEF At
    <3> QED
      BY <3>1
  <2>2. CASE raised' = raised
    <3>1. SUFFICES ASSUME raised PROVE At({"error"})' # {}
      BY <2>2
    <3>2. PICK d \in At({"error"}) : TRUE
      BY <1>3, <3>1 DEF Surface
    <3>3. d \in At({"error"})'
      BY <1>2, <3>2, CallMoves DEF At
    <3> QED
      BY <3>3
  <2> QED
    BY <2>1, <2>2, CallMoves
<1>5. Shape'
  BY CallKeepsShape DEF Surface
<1> QED
  BY <1>3, <1>4, <1>5 DEF Surface, QuietWhenOver, ErrorsSurface

(* What every step of run() starts from: the call has returned, or there is *)
(* none, so nothing was raised.                                             *)
LEMMA NothingRaised ==
    ASSUME Surface, ~Over, At({"error"}) = {} PROVE ~raised /\ state = "ACTIVE"
BY DEF Surface

LEMMA NodeKeepsSurface == ASSUME Surface, NEW n \in Node, NodeStep(n) PROVE Surface'
<1>1. Shape'
  BY NodeKeepsShape DEF Surface
<1>2. phase \in {"ready", "node"} /\ At({"error"}) = {}
  <2>1. CASE SkipJoin(n) \/ CallNode(n)
    BY <2>1 DEF SkipJoin, CallNode, Visit, Surface, Shape, At
  <2>2. CASE Pause(n) \/ StopBranch(n) \/ FanOut(n) \/ Iterate(n) \/ Traverse(n)
    <3>1. Returned(n)
      BY <2>2 DEF Pause, StopBranch, FanOut, Iterate, Traverse, Continues
    <3> QED
      BY <3>1 DEF Returned, Surface, Shape, At
  <2> QED
    BY <2>1, <2>2 DEF NodeStep
<1>3. ~raised /\ ~Over /\ state = "ACTIVE"
  BY <1>2, NothingRaised DEF Over
<1>4. ~raised'
  BY <1>3 DEF NodeStep, SkipJoin, CallNode, Pause, StopBranch, FanOut, Iterate, Traverse,
              results
<1>5. CASE Pause(n)
  <2>1. state' = "PAUSED" /\ phase' = "over" /\ calls' = calls
    BY <1>5 DEF Pause
  <2>2. Done
    BY <1>5 DEF Pause, Returned, Surface, Shape, Done
  <2> QED
    BY <1>1, <1>4, <2>1, <2>2 DEF Surface, QuietWhenOver, ErrorsSurface, Done, Over
<1>6. CASE ~Pause(n)
  <2>1. state' = state /\ ~Over'
    BY <1>2, <1>3, <1>6 DEF NodeStep, SkipJoin, CallNode, StopBranch, FanOut, Iterate,
                            Traverse, Ready, Gather, Over
  <2> QED
    BY <1>1, <1>3, <1>4, <2>1 DEF Surface, QuietWhenOver, ErrorsSurface
<1> QED
  BY <1>5, <1>6

LEMMA RunKeepsSurface == ASSUME Surface, RunStep PROVE Surface'
<1>0. Shape'
  BY RunKeepsShape DEF Surface
<1> USE DEF Over, QuietWhenOver, ErrorsSurface
<1>1. CASE Begin \/ BeginSingle
  <2>1. phase = "idle" /\ At({"error"}) = {}
    BY <1>1 DEF Begin, BeginSingle, Surface, Shape, At
  <2>2. ~raised /\ state = "ACTIVE"
    BY <2>1, NothingRaised
  <2>3. raised' = raised /\ state' = state /\ phase' # "over"
    BY <1>1 DEF Begin, BeginSingle, results
  <2> QED
    BY <1>0, <2>2, <2>3 DEF Surface
<1>2. CASE GatherReturns
  <2>1. ~raised /\ state = "ACTIVE"
    BY <1>2, NothingRaised DEF GatherReturns
  <2>2. raised' = raised /\ state' = state /\ phase' # "over"
    BY <1>2 DEF GatherReturns, Ready, results
  <2> QED
    BY <1>0, <2>1, <2>2 DEF Surface
<1>3. CASE Raise
  <2>1. Done /\ calls' = calls /\ state' = "FAILED" /\ phase' = "over"
    BY <1>3 DEF Raise
  <2> QED
    BY <1>0, <2>1 DEF Surface, Done
<1>4. CASE Complete
  <2>1. DOMAIN calls = {} /\ calls' = calls /\ state' = "COMPLETED" /\ phase' = "over"
    BY <1>4 DEF Complete, Surface, Shape
  <2>2. ~raised
    BY <1>4, <2>1, NothingRaised DEF Complete, At
  <2>3. raised' = raised
    BY <1>4 DEF Complete, results
  <2> QED
    BY <1>0, <2>1, <2>2, <2>3 DEF Surface, Done
<1>5. CASE SingleEnds
  <2>1. Done /\ calls' = calls /\ phase = "single" /\ phase' = "over" /\ raised' = raised
    BY <1>5 DEF SingleEnds, results
  <2>2. CASE At({"error"}) = {}
    <3>1. state' = "COMPLETED" /\ ~raised
      BY <1>5, <2>1, <2>2, NothingRaised DEF SingleEnds
    <3> QED
      BY <1>0, <2>1, <3>1 DEF Surface, Done
  <2>3. CASE At({"error"}) # {}
    <3>1. state' = state /\ state = "ACTIVE"
      BY <1>5, <2>1, <2>3 DEF SingleEnds, Surface
    <3> QED
      BY <1>0, <2>1, <3>1 DEF Surface, Done
  <2> QED
    BY <2>2, <2>3
<1>6. CASE Cancel
  <2>1. calls' = <<>> /\ phase' = "over" /\ state' = state /\ state = "ACTIVE"
    BY <1>6 DEF Cancel, Surface
  <2>2. Done'
    BY <2>1 DEF Done
  <2> QED
    BY <1>0, <2>1, <2>2 DEF Surface
<1> QED
  BY <1>1, <1>2, <1>3, <1>4, <1>5, <1>6 DEF RunStep

LEMMA SurfaceKept == Spec => []Surface
<1>1. Init => Surface
  <2> SUFFICES ASSUME Init PROVE Surface
    OBVIOUS
  <2>1. Shape
    BY GraphAssumption, FS_EmptySet DEF Init, Shape
  <2> QED
    BY <2>1 DEF Init, Surface, QuietWhenOver, ErrorsSurface, Over
<1>2. Surface /\ [Next]_vars => Surface'
  <2>1. CASE UNCHANGED vars
    BY <2>1 DEF vars, Surface, Shape, QuietWhenOver, Done, Over, ErrorsSurface, At
  <2> QED
    BY <2>1, Steps, CallKeepsSurface, NodeKeepsSurface, RunKeepsSurface
<1> QED
  BY <1>1, <1>2, PTL DEF Spec

(* Whatever the graph, a run that reports COMPLETED or PAUSED swallowed no  *)
(* error of a branch, an iteration or a retry.                              *)
THEOREM NoErrorSwallowed == Spec => []ErrorsSurface
<1>1. Surface => ErrorsSurface
  BY DEF Surface
<1> QED
  BY <1>1, SurfaceKept, PTL

(* By whatever way out, no call of a node runs on after the run has ended.  *)
THEOREM NothingRunsOn == Spec => []QuietWhenOver
<1>1. Surface => QuietWhenOver
  BY DEF Surface
<1> QED
  BY <1>1, SurfaceKept, PTL

-----------------------------------------------------------------------------
(* The types. The calls of a step, as a function on 1 .. m, ...             *)
CallsOK == DOMAIN calls = 1 .. Len(calls) /\ \A c \in DOMAIN calls : IsCall(calls[c])

LEMMA NewCallOK ==
    ASSUME NEW n \in Node, NEW item \in Item \cup {NoItem} PROVE IsCall(Call(n, item))
<1>1. AnyResult(NoResult)
  <2>1. <<>> \in Seq(Item) /\ 0 \in Nat
    OBVIOUS
  <2> QED
    BY <2>1, MakesResult DEF NoResult
<1>2. 1 \in 1 .. MaxAttempts
  BY BoundAssumption
<1> QED
  BY <1>1, <1>2 DEF IsCall, Call

LEMMA StepOK ==
    ASSUME CallsOK, NEW c \in DOMAIN calls, NEW at \in {"waiting", "ready", "running", "ok", "error"},
           NEW attempt \in 1 .. MaxAttempts, NEW result, AnyResult(result),
           Step(c, at, attempt, result)
    PROVE  CallsOK'
<1>1. /\ DOMAIN calls' = DOMAIN calls /\ \A d \in DOMAIN calls : d # c => calls'[d] = calls[d]
      /\ calls'[c] = [node |-> calls[c].node, item |-> calls[c].item, attempt |-> attempt,
                      at |-> at, result |-> result]
  BY DEF Step
<1>2. IsCall(calls'[c])
  BY <1>1 DEF IsCall, CallsOK
<1>3. Len(calls') = Len(calls)
  BY DEF Step, CallsOK
<1> QED
  BY <1>1, <1>2, <1>3 DEF CallsOK

LEMMA CallKeepsTypes ==
    ASSUME TypeOK, Shape, NEW c \in DOMAIN calls, CallStep(c) PROVE TypeOK'
<1> USE DEF Outside, Move, results
<1>0. /\ IsCall(calls[c]) /\ CallsOK /\ faults \in 0 .. MaxFaults
      /\ MaxFaults \in Nat /\ MaxAttempts \in Nat
  BY BoundAssumption DEF TypeOK, CallsOK
<1>1. ASSUME CallsOK', UNCHANGED <<outputs, scoped, successes>>, raised' \in BOOLEAN,
             faults' \in 0 .. MaxFaults, UNCHANGED <<graph, phase, state, queue, visits, width, order>>
      PROVE  TypeOK'
  BY <1>1 DEF TypeOK, CallsOK
<1>2. CASE UsePinned(c)
  <2>1. PICK r \in Results(calls[c].node) : Step(c, "ok", calls[c].attempt, r)
    BY <1>2 DEF UsePinned
  <2>2. AnyResult(r)
    BY <1>0, <2>1, ResultShape DEF Shape, IsCall
  <2>3. CallsOK'
    BY <1>0, <2>1, <2>2, StepOK DEF IsCall
  <2> QED
    BY <1>0, <1>1, <1>2, <2>3 DEF UsePinned, TypeOK
<1>3. CASE Enter(c)
  <2>1. CallsOK'
    BY <1>0, <1>3, StepOK DEF IsCall, Enter
  <2> QED
    BY <1>0, <1>1, <1>3, <2>1 DEF Enter, TypeOK
<1>4. CASE Refuse(c)
  <2>1. CallsOK'
    BY <1>0, <1>4, StepOK DEF IsCall, Refuse
  <2> QED
    BY <1>0, <1>1, <1>4, <2>1 DEF Refuse
<1>5. CASE Attempt(c)
  <2>1. CallsOK'
    BY <1>0, <1>5, StepOK DEF IsCall, Attempt
  <2> QED
    BY <1>0, <1>1, <1>5, <2>1 DEF Attempt, TypeOK
<1>6. CASE FailAttempt(c)
  <2>1. calls[c].attempt + 1 \in 1 .. MaxAttempts
    BY <1>0, <1>6 DEF FailAttempt, IsCall
  <2>2. CallsOK'
    BY <1>0, <1>6, <2>1, StepOK DEF IsCall, FailAttempt
  <2> QED
    BY <1>0, <1>1, <1>6, <2>2 DEF FailAttempt, TypeOK
<1>7. CASE GiveUp(c)
  <2>1. CallsOK'
    BY <1>0, <1>7, StepOK DEF IsCall, GiveUp
  <2> QED
    BY <1>0, <1>1, <1>7, <2>1 DEF GiveUp
<1>8. CASE Succeed(c)
  <2> DEFINE n == calls[c].node  item == calls[c].item
  <2>1. PICK r \in Results(n) :
           /\ Step(c, "ok", calls[c].attempt, r)
           /\ outputs' = IF item = NoItem THEN [outputs EXCEPT ![n] = r] ELSE outputs
    BY <1>8 DEF Succeed
  <2>2. n \in Node /\ item \in Item \cup {NoItem}
    BY <1>0 DEF IsCall
  <2>3. AnyResult(r)
    BY <2>1, <2>2, ResultShape DEF Shape
  <2>4. CallsOK'
    BY <1>0, <2>1, <2>3, StepOK DEF IsCall
  <2>5. DOMAIN outputs' = Node /\ \A m \in Node : AnyResult(outputs'[m])
    BY <2>1, <2>2, <2>3 DEF TypeOK
  <2>6. successes' \in [Node -> Nat]
    BY <1>8, <2>2 DEF Succeed, TypeOK
  <2>7. scoped' \in [Node -> SUBSET {ScopeKey[i] : i \in Item}]
    <3>1. CASE item = NoItem
      BY <1>8, <3>1 DEF Succeed, TypeOK
    <3>2. CASE item # NoItem
      <4>1. scoped' = [scoped EXCEPT ![n] = @ \cup {ScopeKey[item]}]
        BY <1>8, <3>2 DEF Succeed
      <4>2. ScopeKey[item] \in {ScopeKey[i] : i \in Item}
        BY <2>2, <3>2
      <4> QED
        BY <2>2, <4>1, <4>2 DEF TypeOK
    <3> QED
      BY <3>1, <3>2
  <2>8. UNCHANGED <<graph, phase, state, queue, visits, width, order, raised, faults>>
    BY <1>8 DEF Succeed
  <2> QED
    BY <2>4, <2>5, <2>6, <2>7, <2>8 DEF TypeOK, CallsOK
<1> QED
  BY <1>2, <1>3, <1>4, <1>5, <1>6, <1>7, <1>8 DEF CallStep

(* The edges S in drawing order: each of them once.                         *)
LEMMA Ordered ==
    ASSUME NEW S \in SUBSET Nat, IsFiniteSet(S)
    PROVE  /\ Cardinality(S) \in Nat /\ InOrder(S) \in [1 .. Cardinality(S) -> S]
           /\ \A i, j \in 1 .. Cardinality(S) : i < j => InOrder(S)[i] < InOrder(S)[j]
<1> DEFINE N == Cardinality(S)
           Below(x) == {y \in S : y <= x}
           rank == [x \in S |-> Cardinality(Below(x))]
<1>1. N \in Nat
  BY FS_CardinalityType
<1>2. \A x \in S : IsFiniteSet(Below(x)) /\ rank[x] \in 1 .. N
  <2> TAKE x \in S
  <2>1. Below(x) \in SUBSET S /\ x \in Below(x)
    OBVIOUS
  <2>2. IsFiniteSet(Below(x)) /\ Cardinality(Below(x)) <= N
    BY <2>1, FS_Subset
  <2>3. Cardinality(Below(x)) \in Nat /\ Cardinality(Below(x)) # 0
    BY <2>1, <2>2, FS_CardinalityType, FS_EmptySet
  <2> QED
    BY <1>1, <2>2, <2>3
<1>3. ASSUME NEW x \in S, NEW y \in S, x < y PROVE rank[x] < rank[y]
  <2>0. x \in Nat /\ y \in Nat /\ \A z \in S : z \in Nat
    OBVIOUS
  <2>a. \A z \in S : z <= x => z <= y
    BY <1>3, <2>0
  <2>b. ~(y <= x) /\ y <= y
    BY <1>3, <2>0
  <2>1. Below(x) \in SUBSET Below(y) /\ y \in Below(y) /\ y \notin Below(x)
    BY <2>a, <2>b
  <2>2. Cardinality(Below(x)) <= Cardinality(Below(y)) /\ Cardinality(Below(x)) # Cardinality(Below(y))
    BY <1>2, <2>1, FS_Subset
  <2>3. rank[x] \in 1 .. N /\ rank[y] \in 1 .. N
    BY <1>2
  <2> QED
    BY <2>2, <2>3
<1> HIDE DEF rank
<1>4. rank \in [S -> 1 .. N]
  BY <1>2 DEF rank
<1>5. rank \in Injection(S, 1 .. N)
  <2>1. \A x, y \in S : rank[x] = rank[y] => x = y
    BY <1>3, <1>4
  <2> QED
    BY <1>4, <2>1 DEF Injection, IsInjective
<1>6. rank \in Surjection(S, 1 .. N)
  <2>1. IsFiniteSet(1 .. N) /\ Cardinality(1 .. N) = N
    BY <1>1, FS_Interval
  <2> QED
    BY <1>5, <2>1, FS_Injection
<1> DEFINE f == [k \in 1 .. N |-> CHOOSE x \in S : rank[x] = k]
<1>7. \A k \in 1 .. N : f[k] \in S /\ rank[f[k]] = k
  BY <1>6 DEF Surjection
<1> HIDE DEF f
<1>8. f \in [1 .. N -> S] /\ DOMAIN f = 1 .. N
  BY <1>7 DEF f
<1>9. \A i, j \in 1 .. N : i < j => f[i] < f[j]
  <2> TAKE i, j \in 1 .. N
  <2> HAVE i < j
  <2>1. f[i] \in S /\ f[j] \in S /\ rank[f[i]] = i /\ rank[f[j]] = j
    BY <1>7
  <2>2. ~(f[j] < f[i])
    <3> SUFFICES ASSUME f[j] < f[i] PROVE FALSE
      OBVIOUS
    <3>1. rank[f[j]] < rank[f[i]]
      BY <1>3, <2>1
    <3> QED
      BY <1>1, <2>1, <3>1
  <2>3. f[i] # f[j]
    BY <1>1, <2>1
  <2>4. f[i] \in Nat /\ f[j] \in Nat
    BY <2>1
  <2> QED
    BY <2>2, <2>3, <2>4
<1>10. /\ InOrder(S) \in [1 .. N -> S]
       /\ \A i, j \in DOMAIN InOrder(S) : i < j => InOrder(S)[i] < InOrder(S)[j]
  BY <1>8, <1>9 DEF InOrder
<1> QED
  BY <1>1, <1>10

(* What a node's output is passed on to.                                    *)
Taken(n) == {i \in DOMAIN graph.out[n] : Selected \in {"none", graph.out[n][i].via}}

LEMMA Follows ==
    ASSUME IsGraph(graph), NEW n \in Node, NEW item
    PROVE  \E m \in Nat : \E taken \in [1 .. m -> DOMAIN graph.out[n]] :
             /\ \A i, j \in 1 .. m : i < j => taken[i] < taken[j]
             /\ Follow(n, item) = [k \in 1 .. m |-> Entry(graph.out[n][taken[k]].to, item)]
<1> DEFINE S == Taken(n)
<1>1. S \in SUBSET Nat /\ S \subseteq DOMAIN graph.out[n] /\ IsFiniteSet(S)
  <2>1. DOMAIN graph.out[n] = 1 .. Len(graph.out[n]) /\ Len(graph.out[n]) \in Nat
    BY Edges
  <2>2. IsFiniteSet(1 .. Len(graph.out[n])) /\ S \in SUBSET (1 .. Len(graph.out[n]))
    BY <2>1, FS_Interval DEF Taken
  <2>3. IsFiniteSet(S)
    BY <2>2, FS_Subset
  <2> QED
    BY <2>1, <2>2, <2>3
<1>2. Follow(n, item) = [k \in DOMAIN InOrder(S) |-> Entry(graph.out[n][InOrder(S)[k]].to, item)]
  BY DEF Follow, Taken
<1> HIDE DEF S
<1>3. /\ Cardinality(S) \in Nat /\ InOrder(S) \in [1 .. Cardinality(S) -> S]
      /\ \A i, j \in 1 .. Cardinality(S) : i < j => InOrder(S)[i] < InOrder(S)[j]
  BY <1>1, Ordered
<1>4. InOrder(S) \in [1 .. Cardinality(S) -> DOMAIN graph.out[n]] /\ DOMAIN InOrder(S) = 1 .. Cardinality(S)
  BY <1>1, <1>3
<1> QED
  BY <1>2, <1>3, <1>4

LEMMA Queues ==
    ASSUME NEW m \in Nat, NEW f, NEW item \in Item \cup {NoItem}, NEW g \in [1 .. m -> Node],
           f = [k \in 1 .. m |-> Entry(g[k], item)]
    PROVE  f \in Seq(Entries)
<1>1. \A k \in 1 .. m : f[k] \in Entries
  BY DEF Entry, Entries
<1> QED
  BY <1>1

LEMMA FollowOK ==
    ASSUME IsGraph(graph), NEW n \in Node, NEW item \in Item \cup {NoItem}
    PROVE  Follow(n, item) \in Seq(Entries)
<1>1. PICK m \in Nat : \E taken \in [1 .. m -> DOMAIN graph.out[n]] :
         Follow(n, item) = [k \in 1 .. m |-> Entry(graph.out[n][taken[k]].to, item)]
  BY Follows
<1>2. PICK taken \in [1 .. m -> DOMAIN graph.out[n]] :
         Follow(n, item) = [k \in 1 .. m |-> Entry(graph.out[n][taken[k]].to, item)]
  BY <1>1
<1> DEFINE g == [k \in 1 .. m |-> graph.out[n][taken[k]].to]
<1>3. g \in [1 .. m -> Node]
  BY Edges
<1>4. Follow(n, item) = [k \in 1 .. m |-> Entry(g[k], item)]
  BY <1>2
<1> HIDE DEF g
<1> QED
  BY <1>3, <1>4, Queues

(* Calls of nodes, one for each of 1 .. m.                                  *)
LEMMA CallsFor ==
    ASSUME NEW m \in Nat, DOMAIN calls' = 1 .. m, NEW it \in Item \cup {NoItem},
           calls' = [c \in 1 .. m |-> calls'[c]],
           \A c \in 1 .. m : \E n \in Node, item \in Item \cup {NoItem} : calls'[c] = Call(n, item)
    PROVE  CallsOK'
<1>1. Len(calls') = m
  OBVIOUS
<1>2. \A c \in 1 .. m : IsCall(calls'[c])
  BY NewCallOK
<1> QED
  BY <1>1, <1>2 DEF CallsOK

LEMMA NoCallsOK == ASSUME calls' = <<>> PROVE CallsOK'
<1>1. Len(calls') = 0 /\ DOMAIN calls' = 1 .. 0 /\ DOMAIN calls' = {}
  OBVIOUS
<1> QED
  BY <1>1 DEF CallsOK

(* What a step of run() may change.                                         *)
LEMMA NodeTypes ==
    ASSUME TypeOK, CallsOK', graph' = graph, UNCHANGED results,
           phase' \in {"ready", "node", "gather", "over"}, state' \in {state, "PAUSED"},
           queue' \in Seq(Entries), visits' \in [Node -> Nat], order' \in Seq(Node),
           width' \in Nat \ {0}
    PROVE  TypeOK'
BY DEF TypeOK, CallsOK, results

LEMMA NodeKeepsTypes == ASSUME TypeOK, Shape, NEW n \in Node, NodeStep(n) PROVE TypeOK'
<1>0. /\ queue \in Seq(Entries) /\ visits \in [Node -> Nat] /\ order \in Seq(Node)
      /\ width \in Nat \ {0} /\ IsGraph(graph) /\ CallsOK
      /\ phase \in {"idle", "single", "ready", "node", "gather", "over"}
  BY DEF TypeOK, CallsOK
<1>1. CASE SkipJoin(n) \/ CallNode(n)
  <2>1. /\ queue # <<>> /\ queue' = Tail(queue) /\ visits' = [visits EXCEPT ![n] = @ + 1]
        /\ UNCHANGED <<graph, state, order, results>>
    BY <1>1 DEF SkipJoin, CallNode, Visit
  <2>2. queue' \in Seq(Entries) /\ visits' \in [Node -> Nat]
    BY <1>0, <2>1
  <2>3. CallsOK' /\ phase' \in {"ready", "node"} /\ width' \in Nat \ {0}
    <3>1. CASE SkipJoin(n)
      BY <1>0, <3>1 DEF SkipJoin, Visit, CallsOK
    <3>2. CASE CallNode(n)
      <4>1. Head(queue).item \in Item \cup {NoItem}
        <5>1. Head(queue) \in Entries
          BY <1>0, <2>1
        <5> QED
          BY <5>1 DEF Entries
      <4>2. calls' = <<Call(n, Head(queue).item)>> /\ phase' = "node" /\ width' = 1
        BY <3>2 DEF CallNode
      <4>3. DOMAIN calls' = 1 .. 1 /\ calls'[1] = Call(n, Head(queue).item) /\ Len(calls') = 1
        BY <4>2
      <4>4. IsCall(calls'[1])
        BY <4>1, <4>3, NewCallOK
      <4> QED
        BY <4>2, <4>3, <4>4 DEF CallsOK
    <3> QED
      BY <1>1, <3>1, <3>2
  <2> QED
    BY <1>0, <2>1, <2>2, <2>3, NodeTypes
<1>2. ASSUME Pause(n) \/ StopBranch(n) \/ FanOut(n) \/ Iterate(n) \/ Traverse(n)
      PROVE  /\ order' \in Seq(Node) /\ visits' = visits /\ graph' = graph /\ UNCHANGED results
             /\ 1 \in DOMAIN calls /\ calls[1].item \in Item \cup {NoItem}
             /\ calls[1].result.items \in Seq(Item)
  <2>1. /\ order' = Append(order, n) /\ visits' = visits /\ graph' = graph /\ UNCHANGED results
        /\ Returned(n)
    BY <1>2 DEF Pause, StopBranch, FanOut, Iterate, Traverse, Track, Continues
  <2>2. 1 \in DOMAIN calls
    BY <2>1 DEF Returned, Shape
  <2>3. calls[1].item \in Item \cup {NoItem} /\ calls[1].result.items \in Seq(Item)
    BY <1>0, <2>2 DEF CallsOK, IsCall, AnyResult
  <2> QED
    BY <1>0, <2>1, <2>2, <2>3
<1>3. CASE Pause(n)
  <2>1. phase' = "over" /\ state' = "PAUSED" /\ UNCHANGED <<queue, calls, width>>
    BY <1>3 DEF Pause
  <2>2. CallsOK'
    BY <1>0, <2>1 DEF CallsOK
  <2> QED
    BY <1>0, <1>2, <1>3, <2>1, <2>2, NodeTypes
<1>4. CASE StopBranch(n)
  <2>1. phase' = "ready" /\ calls' = <<>> /\ UNCHANGED <<queue, state, width>>
    BY <1>4 DEF StopBranch, Ready
  <2> QED
    BY <1>0, <1>2, <1>4, <2>1, NoCallsOK, NodeTypes
<1>5. CASE FanOut(n)
  <2> DEFINE edges == graph.out[n]
             m == Len(edges)
  <2>1. /\ DOMAIN edges = 1 .. m /\ m \in Nat
        /\ \A i \in DOMAIN edges : edges[i].to \in Node
    BY <1>0, Edges
  <2>2. /\ calls' = [i \in DOMAIN edges |-> Call(edges[i].to, calls[1].item)]
        /\ phase' = "gather" /\ width' = m + 1 /\ UNCHANGED <<queue, state>>
    BY <1>5 DEF FanOut, Gather
  <2> HIDE DEF edges, m
  <2>3. DOMAIN calls' = 1 .. m /\ calls' = [c \in 1 .. m |-> calls'[c]]
    BY <2>1, <2>2
  <2>4. \A c \in 1 .. m : \E k \in Node, item \in Item \cup {NoItem} : calls'[c] = Call(k, item)
    BY <1>2, <1>5, <2>1, <2>2
  <2>5. CallsOK'
    BY <1>2, <1>5, <2>1, <2>3, <2>4, CallsFor
  <2> QED
    BY <1>0, <1>2, <1>5, <2>1, <2>2, <2>5, NodeTypes
<1>6. CASE Iterate(n)
  <2> DEFINE items == calls[1].result.items
  <2>1. items \in Seq(Item) /\ calls[1].result.width \in Nat /\ state' = state
    BY <1>0, <1>2, <1>6 DEF Iterate, CallsOK, IsCall, AnyResult
  <2>2. Body(n) \subseteq Node
    <3>1. \A i \in DOMAIN graph.out[n] : graph.out[n][i].to \in Node
      BY <1>0, Edges
    <3> QED
      BY <3>1 DEF Body, StartEdges
  <2>3. CASE Ready /\ UNCHANGED queue
    BY <1>0, <1>2, <1>6, <2>1, <2>3, NoCallsOK, NodeTypes DEF Ready
  <2>4. ASSUME NEW body \in Body(n), Ready,
               queue' = queue \o [i \in DOMAIN items |-> Entry(body, items[i])]
        PROVE  TypeOK'
    <3> DEFINE m == Len(items)
               more == [i \in DOMAIN items |-> Entry(body, items[i])]
    <3>1. m \in Nat /\ DOMAIN items = 1 .. m /\ \A i \in 1 .. m : items[i] \in Item
      BY <2>1
    <3>2. \A i \in 1 .. m : more[i] \in Entries
      BY <2>2, <3>1 DEF Entry, Entries
    <3>3. more \in [1 .. m -> Entries]
      BY <3>1, <3>2
    <3> HIDE DEF more, m
    <3>5. more \in Seq(Entries)
      BY <3>1, <3>3
    <3>4. queue' \in Seq(Entries)
      BY <1>0, <2>4, <3>5 DEF more
    <3> QED
      BY <1>0, <1>2, <1>6, <2>1, <2>4, <3>4, NoCallsOK, NodeTypes DEF Ready
  <2>5. ASSUME NEW body \in Body(n), calls[1].result.width > 0, UNCHANGED queue,
               Gather([i \in DOMAIN items |-> Call(body, items[i])], calls[1].result.width)
        PROVE  TypeOK'
    <3> DEFINE m == Len(items)
    <3>1. m \in Nat /\ DOMAIN items = 1 .. m /\ \A i \in 1 .. m : items[i] \in Item
      BY <2>1
    <3>2. /\ calls' = [i \in DOMAIN items |-> Call(body, items[i])]
          /\ phase' = "gather" /\ width' = calls[1].result.width
      BY <2>5 DEF Gather
    <3> HIDE DEF items, m
    <3>3. DOMAIN calls' = 1 .. m /\ calls' = [c \in 1 .. m |-> calls'[c]]
      BY <3>1, <3>2
    <3>4. \A c \in 1 .. m : \E k \in Node, item \in Item \cup {NoItem} : calls'[c] = Call(k, item)
      BY <2>2, <3>1, <3>2
    <3>5. CallsOK'
      BY <1>2, <1>6, <3>1, <3>3, <3>4, CallsFor
    <3> QED
      BY <1>0, <1>2, <1>6, <2>1, <2>5, <3>2, <3>5, NodeTypes
  <2> QED
    BY <1>6, <2>3, <2>4, <2>5 DEF Iterate
<1>7. CASE Traverse(n)
  <2>1. /\ queue' = queue \o Follow(n, calls[1].item) /\ phase' = "ready" /\ calls' = <<>>
        /\ UNCHANGED <<state, width>>
    BY <1>7 DEF Traverse, Ready
  <2>2. Follow(n, calls[1].item) \in Seq(Entries)
    BY <1>0, <1>2, <1>7, FollowOK
  <2>3. queue' \in Seq(Entries)
    BY <1>0, <2>1, <2>2
  <2> QED
    BY <1>0, <1>2, <1>7, <2>1, <2>3, NoCallsOK, NodeTypes
<1> QED
  BY <1>1, <1>3, <1>4, <1>5, <1>6, <1>7 DEF NodeStep

LEMMA RunKeepsTypes == ASSUME TypeOK, Shape, RunStep PROVE TypeOK'
<1>0. CallsOK
  BY DEF TypeOK, CallsOK
<1>1. CASE Begin
  <2>1. queue' = <<Entry(StartNode, NoItem)>> /\ Entry(StartNode, NoItem) \in Entries
    BY <1>1, StartAssumption DEF Begin, Entry, Entries
  <2>2. queue' \in Seq(Entries)
    BY <2>1
  <2> QED
    BY <1>1, <2>2 DEF Begin, TypeOK, results
<1>2. CASE BeginSingle
  <2>1. PICK n \in Node : calls' = <<Call(n, NoItem)>>
    BY <1>2 DEF BeginSingle
  <2>2. DOMAIN calls' = 1 .. 1 /\ calls'[1] = Call(n, NoItem) /\ Len(calls') = 1
    BY <2>1
  <2>3. IsCall(calls'[1])
    BY <2>2, NewCallOK
  <2>4. CallsOK'
    BY <2>2, <2>3 DEF CallsOK
  <2> QED
    BY <1>2, <2>4 DEF BeginSingle, TypeOK, CallsOK, results
<1>3. CASE GatherReturns
  BY <1>3, NoCallsOK DEF GatherReturns, Ready, TypeOK, CallsOK, results
<1>4. CASE Raise \/ Complete
  BY <1>4 DEF Raise, Complete, TypeOK, results
<1>5. CASE SingleEnds
  <2>1. 1 \in DOMAIN calls /\ calls[1].node \in Node
    BY <1>5 DEF SingleEnds, Shape, IsCallOf
  <2>2. order' \in {order, Append(order, calls[1].node)} /\ state' \in {state, "COMPLETED"}
    BY <1>5 DEF SingleEnds, Track
  <2>3. order' \in Seq(Node)
    <3>1. order \in Seq(Node)
      BY DEF TypeOK
    <3>2. Append(order, calls[1].node) \in Seq(Node)
      BY <2>1, <3>1
    <3> QED
      BY <2>2, <3>1, <3>2
  <2> QED
    BY <1>5, <2>2, <2>3 DEF SingleEnds, TypeOK, results
<1>6. CASE Cancel
  BY <1>6, NoCallsOK DEF Cancel, TypeOK, CallsOK, results
<1> QED
  BY <1>1, <1>2, <1>3, <1>4, <1>5, <1>6 DEF RunStep

(* The types of a run, whatever the graph: entries of the queue and calls   *)
(* name nodes and items there are, attempts stay within their bound.        *)
THEOREM TypesKept == Spec => []TypeOK
<1>1. Init => TypeOK
  <2> SUFFICES ASSUME Init PROVE TypeOK
    OBVIOUS
  <2>1. DOMAIN calls = {} /\ Len(calls) = 0 /\ DOMAIN calls = 1 .. Len(calls)
    BY DEF Init
  <2>2. AnyResult(NoResult)
    <3>1. <<>> \in Seq(Item) /\ 0 \in Nat
      OBVIOUS
    <3> QED
      BY <3>1, MakesResult DEF NoResult
  <2>3. /\ queue \in Seq(Entries) /\ order \in Seq(Node) /\ IsGraph(graph)
        /\ 0 \in 0 .. MaxFaults
    BY GraphAssumption, BoundAssumption DEF Init
  <2>4. /\ DOMAIN outputs = Node /\ \A n \in Node : AnyResult(outputs[n])
        /\ visits \in [Node -> Nat] /\ successes \in [Node -> Nat]
        /\ scoped \in [Node -> SUBSET {ScopeKey[i] : i \in Item}]
    BY <2>2 DEF Init
  <2>5. \A c \in DOMAIN calls : IsCall(calls[c])
    BY <2>1
  <2>6. /\ width \in Nat \ {0} /\ faults \in 0 .. MaxFaults
        /\ phase = "idle" /\ state = "ACTIVE"
    BY <2>3 DEF Init
  <2>7. raised \in BOOLEAN
    BY DEF Init
  <2> QED
    BY <2>1, <2>3, <2>4, <2>5, <2>6, <2>7 DEF TypeOK
<1>2. TypeOK /\ Shape /\ [Next]_vars => TypeOK'
  <2>1. CASE UNCHANGED vars
    BY <2>1 DEF vars, TypeOK
  <2> QED
    BY <2>1, Steps, CallKeepsTypes, NodeKeepsTypes, RunKeepsTypes
<1> QED
  BY <1>1, <1>2, ShapeKept, PTL DEF Spec

-----------------------------------------------------------------------------
(* How often a node waits in a queue.                                       *)
Places(q, n) == {i \in 1 .. Len(q) : q[i].node = n}
Queued(q, n) == Cardinality(Places(q, n))

LEMMA Placed ==
    ASSUME NEW q \in Seq(Entries), NEW n
    PROVE  IsFiniteSet(Places(q, n)) /\ Queued(q, n) \in Nat
<1>1. IsFiniteSet(1 .. Len(q))
  BY FS_Interval
<1>2. IsFiniteSet(Places(q, n))
  BY <1>1, FS_Subset DEF Places
<1> QED
  BY <1>2, FS_CardinalityType DEF Queued

(* The head of the queue takes one place with it, ...                       *)
LEMMA HeadTaken ==
    ASSUME NEW q \in Seq(Entries), q # <<>>, NEW n
    PROVE  Queued(Tail(q), n) + (IF Head(q).node = n THEN 1 ELSE 0) = Queued(q, n)
<1> DEFINE P == Places(q, n)
           T == Places(Tail(q), n)
           f == [i \in T |-> i + 1]
<1>1. /\ Len(q) \in Nat /\ Len(q) > 0 /\ Len(Tail(q)) = Len(q) - 1 /\ Head(q) = q[1]
      /\ Tail(q) \in Seq(Entries)
      /\ \A i \in 1 .. (Len(q) - 1) : Tail(q)[i] = q[i + 1]
  OBVIOUS
<1>2. IsFiniteSet(P) /\ Cardinality(P) \in Nat /\ IsFiniteSet(T) /\ Cardinality(T) \in Nat
  BY <1>1, Placed DEF Queued
<1>3. IsFiniteSet(P \ {1}) /\ Cardinality(P \ {1}) = IF 1 \in P THEN Cardinality(P) - 1 ELSE Cardinality(P)
  BY <1>2, FS_RemoveElement
<1>4. f \in Bijection(T, P \ {1})
  <2>1. \A i \in T : i \in Nat /\ i + 1 \in P \ {1}
    BY <1>1 DEF Places
  <2>2. f \in [T -> P \ {1}]
    BY <2>1
  <2>3. \A i, j \in T : f[i] = f[j] => i = j
    BY <2>1
  <2>4. \A j \in P \ {1} : j - 1 \in T /\ f[j - 1] = j
    BY <1>1 DEF Places
  <2> QED
    BY <2>2, <2>3, <2>4 DEF Bijection, Injection, IsInjective, Surjection
<1>5. Cardinality(P \ {1}) = Cardinality(T)
  BY <1>2, <1>4, FS_Bijection DEF ExistsBijection
<1>6. 1 \in P <=> Head(q).node = n
  BY <1>1 DEF Places
<1> HIDE DEF P, T
<1>7. Cardinality(T) + (IF Head(q).node = n THEN 1 ELSE 0) = Cardinality(P)
  BY <1>2, <1>3, <1>5, <1>6
<1> QED
  BY <1>7 DEF P, T, Queued

(* ... and what is put behind a queue brings its own.                       *)
LEMMA Appended ==
    ASSUME NEW q \in Seq(Entries), NEW a \in Seq(Entries), NEW n
    PROVE  Queued(q \o a, n) = Queued(q, n) + Queued(a, n)
<1> DEFINE P == Places(q, n)
           A == Places(a, n)
           B == {i \in (Len(q) + 1) .. (Len(q) + Len(a)) : (q \o a)[i].node = n}
           f == [i \in B |-> i - Len(q)]
<1>1. /\ Len(q) \in Nat /\ Len(a) \in Nat /\ Len(q \o a) = Len(q) + Len(a)
      /\ \A i \in 1 .. Len(q) : (q \o a)[i] = q[i]
      /\ \A i \in (Len(q) + 1) .. (Len(q) + Len(a)) : (q \o a)[i] = a[i - Len(q)]
  OBVIOUS
<1>2. IsFiniteSet(P) /\ Cardinality(P) \in Nat /\ IsFiniteSet(A) /\ Cardinality(A) \in Nat
  BY Placed DEF Queued
<1>3. Places(q \o a, n) = P \cup B /\ P \cap B = {}
  <2>1. ASSUME NEW i PROVE i \in Places(q \o a, n) <=> i \in P \cup B
    BY <1>1 DEF Places
  <2>2. \A i \in P : i \notin B
    BY <1>1 DEF Places
  <2> QED
    BY <2>1, <2>2
<1>4. f \in Bijection(B, A)
  <2>1. \A i \in B : i \in Nat /\ i - Len(q) \in A
    BY <1>1 DEF Places
  <2>2. f \in [B -> A]
    BY <2>1
  <2>3. \A i, j \in B : f[i] = f[j] => i = j
    BY <1>1, <2>1
  <2>4. \A j \in A : j + Len(q) \in B /\ f[j + Len(q)] = j
    <3> TAKE j \in A
    <3>1. j \in 1 .. Len(a) /\ a[j].node = n
      BY DEF Places
    <3>2. j + Len(q) \in (Len(q) + 1) .. (Len(q) + Len(a)) /\ (j + Len(q)) - Len(q) = j
      BY <1>1, <3>1
    <3>3. (q \o a)[j + Len(q)] = a[j]
      BY <1>1, <3>2
    <3> QED
      BY <3>1, <3>2, <3>3
  <2> HIDE DEF f, A, B
  <2>5. f \in Injection(B, A)
    BY <2>2, <2>3 DEF Injection, IsInjective
  <2>6. f \in Surjection(B, A)
    BY <2>2, <2>4 DEF Surjection
  <2> QED
    BY <2>5, <2>6 DEF Bijection
<1>5. IsFiniteSet(B) /\ Cardinality(B) = Cardinality(A)
  <2>1. IsFiniteSet(B)
    <3>1. IsFiniteSet((Len(q) + 1) .. (Len(q) + Len(a)))
      BY <1>1, FS_Interval
    <3> QED
      BY <3>1, FS_Subset
  <2>2. ExistsBijection(B, A)
    BY <1>4, Zenon DEF ExistsBijection
  <2> HIDE DEF A, B
  <2> QED
    BY <2>1, <2>2, FS_Bijection
<1> HIDE DEF P, A, B
<1>6. Cardinality(P \cup B) = Cardinality(P) + Cardinality(B) - Cardinality(P \cap B)
  BY <1>2, <1>5, FS_Union
<1>7. Cardinality(P \cap B) = 0
  BY <1>3, FS_EmptySet
<1>8. Cardinality(P \cup B) = Cardinality(P) + Cardinality(A)
  BY <1>2, <1>5, <1>6, <1>7
<1> QED
  BY <1>3, <1>8 DEF P, A, Queued

(* The edges from one node to another; a traversal follows each once.       *)
Between(n, m) == {i \in DOMAIN graph.out[n] : graph.out[n][i].to = m}

LEMMA BetweenFinite ==
    ASSUME IsGraph(graph), NEW n \in Node, NEW m
    PROVE  IsFiniteSet(Between(n, m)) /\ Cardinality(Between(n, m)) \in Nat
<1>1. IsFiniteSet(DOMAIN graph.out[n])
  BY Edges, FS_Interval
<1>2. IsFiniteSet(Between(n, m))
  BY <1>1, FS_Subset DEF Between
<1> QED
  BY <1>2, FS_CardinalityType

LEMMA FollowedOnce ==
    ASSUME IsGraph(graph), NEW n \in Node, NEW item, NEW m
    PROVE  Queued(Follow(n, item), m) <= Cardinality(Between(n, m))
<1>1. PICK k \in Nat : \E taken \in [1 .. k -> DOMAIN graph.out[n]] :
         /\ \A i, j \in 1 .. k : i < j => taken[i] < taken[j]
         /\ Follow(n, item) = [i \in 1 .. k |-> Entry(graph.out[n][taken[i]].to, item)]
  BY Follows
<1>2. PICK taken \in [1 .. k -> DOMAIN graph.out[n]] :
         /\ \A i, j \in 1 .. k : i < j => taken[i] < taken[j]
         /\ Follow(n, item) = [i \in 1 .. k |-> Entry(graph.out[n][taken[i]].to, item)]
  BY <1>1
<1> DEFINE q == Follow(n, item)
           P == Places(q, m)
           f == [i \in P |-> taken[i]]
<1>3. Len(q) = k /\ \A i \in 1 .. k : q[i].node = graph.out[n][taken[i]].to
  BY <1>2 DEF Entry
<1>4. \A i \in P : i \in 1 .. k /\ taken[i] \in Between(n, m)
  BY <1>2, <1>3 DEF Places, Between
<1>5. \A i, j \in 1 .. k : taken[i] = taken[j] => i = j
  <2> TAKE i, j \in 1 .. k
  <2>1. taken[i] \in Nat /\ taken[j] \in Nat
    BY Edges
  <2>2. (i < j => taken[i] < taken[j]) /\ (j < i => taken[j] < taken[i])
    BY <1>2
  <2> QED
    BY <2>1, <2>2
<1> HIDE DEF P
<1>6. f \in Injection(P, Between(n, m))
  <2>1. f \in [P -> Between(n, m)] /\ \A i, j \in P : f[i] = f[j] => i = j
    BY <1>4, <1>5
  <2> QED
    BY <2>1 DEF Injection, IsInjective
<1>7. Cardinality(P) <= Cardinality(Between(n, m))
  BY <1>6, BetweenFinite, FS_Injection
<1> QED
  BY <1>7 DEF P, Queued

-----------------------------------------------------------------------------
(* The edges into a node whose source has run: what may have arrived.       *)
Arrived(n) == {e \in InEdges(n) : Ran(e[1])}

LEMMA IntoNode ==
    ASSUME IsGraph(graph), NEW n
    PROVE  /\ InEdges(n) = UNION {{<<m, i>> : i \in Between(m, n)} : m \in Node}
           /\ \A m \in Node : \A i \in Between(m, n) : <<m, i>> \in InEdges(n)
           /\ \A e \in InEdges(n) : \E m \in Node : \E i \in Between(m, n) : e = <<m, i>>
           /\ IsFiniteSet(InEdges(n)) /\ Cardinality(InEdges(n)) \in Nat
<1> DEFINE From(m) == {<<m, i>> : i \in Between(m, n)}
           All == {From(m) : m \in Node}
<1>1. InEdges(n) = UNION All
  BY DEF InEdges, Between
<1>2. ASSUME NEW m \in Node PROVE IsFiniteSet(From(m))
  <2> DEFINE f == [i \in Between(m, n) |-> <<m, i>>]
  <2>1. f \in Surjection(Between(m, n), From(m))
    BY DEF Surjection
  <2> QED
    BY <2>1, BetweenFinite, FS_Surjection
<1>3. IsFiniteSet(All)
  <2> DEFINE f == [m \in Node |-> From(m)]
  <2>1. f \in Surjection(Node, All)
    BY DEF Surjection
  <2> QED
    BY <2>1, StartAssumption, FS_Surjection
<1>4. IsFiniteSet(UNION All)
  BY <1>2, <1>3, FS_UNION
<1>5. \A m \in Node : \A i \in Between(m, n) : <<m, i>> \in UNION All
  OBVIOUS
<1>6. \A e \in UNION All : \E m \in Node : \E i \in Between(m, n) : e = <<m, i>>
  OBVIOUS
<1> QED
  BY <1>1, <1>4, <1>5, <1>6, FS_CardinalityType

LEMMA ArrivedFinite ==
    ASSUME IsGraph(graph), NEW n
    PROVE  /\ IsFiniteSet(Arrived(n)) /\ Cardinality(Arrived(n)) \in Nat
           /\ Cardinality(Arrived(n)) <= Cardinality(InEdges(n))
           /\ Cardinality(Arrived(n)) = Cardinality(InEdges(n)) =>
                \A e \in InEdges(n) : Ran(e[1])
<1>1. Arrived(n) \in SUBSET InEdges(n) /\ IsFiniteSet(InEdges(n))
  BY IntoNode DEF Arrived
<1>2. /\ IsFiniteSet(Arrived(n)) /\ Cardinality(Arrived(n)) <= Cardinality(InEdges(n))
      /\ Cardinality(Arrived(n)) = Cardinality(InEdges(n)) => InEdges(n) = Arrived(n)
  BY <1>1, FS_Subset
<1> QED
  BY <1>2, FS_CardinalityType DEF Arrived

(* A node that runs for the first time opens each of its edges.             *)
LEMMA Opens ==
    ASSUME IsGraph(graph), graph' = graph, NEW n \in Node, NEW m \in Node,
           order \in Seq(Node), Track(n), ~Ran(n)
    PROVE  /\ Cardinality(Arrived(m)') >= Cardinality(Arrived(m)) + Cardinality(Between(n, m))
           /\ \A k : Ran(k)' <=> Ran(k) \/ k = n
<1> DEFINE A == Arrived(m)
           N == {<<n, i>> : i \in Between(n, m)}
           f == [i \in Between(n, m) |-> <<n, i>>]
<1>1. \A k : Ran(k)' <=> Ran(k) \/ k = n
  <2>1. /\ Len(order) \in Nat /\ DOMAIN order = 1 .. Len(order)
        /\ order' = Append(order, n) /\ DOMAIN order' = 1 .. (Len(order) + 1)
        /\ order'[Len(order) + 1] = n /\ \A i \in 1 .. Len(order) : order'[i] = order[i]
    BY DEF Track
  <2> QED
    BY <2>1 DEF Ran
<1>2. /\ IsFiniteSet(A) /\ Cardinality(A) \in Nat
      /\ IsFiniteSet(Between(n, m)) /\ Cardinality(Between(n, m)) \in Nat
  BY ArrivedFinite, BetweenFinite
<1>3. IsGraph(graph)' /\ InEdges(m)' = InEdges(m)
  BY DEF InEdges
<1>4. IsFiniteSet(Arrived(m)')
  <2>1. Arrived(m)' \in SUBSET InEdges(m) /\ IsFiniteSet(InEdges(m))
    BY <1>3, IntoNode DEF Arrived
  <2> QED
    BY <2>1, FS_Subset
<1>5. A \cup N \in SUBSET Arrived(m)'
  <2>1. \A e \in A : e \in Arrived(m)'
    BY <1>1, <1>3 DEF Arrived
  <2>2. \A i \in Between(n, m) : <<n, i>> \in Arrived(m)'
    BY <1>1, <1>3, IntoNode DEF Arrived
  <2> QED
    BY <2>1, <2>2
<1>6. A \cap N = {}
  BY DEF Arrived
<1>7. f \in Injection(Between(n, m), N) /\ f \in Surjection(Between(n, m), N)
  BY DEF Injection, IsInjective, Surjection
<1>8. IsFiniteSet(N) /\ Cardinality(N) = Cardinality(Between(n, m))
  BY <1>2, <1>7, FS_Surjection
<1> HIDE DEF A, N
<1>9. Cardinality(A \cup N) = Cardinality(A) + Cardinality(Between(n, m))
  <2>1. Cardinality(A \cap N) = 0
    BY <1>6, FS_EmptySet
  <2>2. Cardinality(A \cup N) = Cardinality(A) + Cardinality(N) - Cardinality(A \cap N)
    BY <1>2, <1>8, FS_Union
  <2> QED
    BY <1>2, <1>8, <2>1, <2>2
<1>10. Cardinality(A \cup N) <= Cardinality(Arrived(m)')
  BY <1>4, <1>5, FS_Subset
<1> QED
  BY <1>1, <1>9, <1>10 DEF A

-----------------------------------------------------------------------------
(* Joins. Each edge lets its target be visited once, when its source has    *)
(* run; the start is visited once more. A node that has run has had all its *)
(* visits, so that it cannot be called again.                               *)
Straight == Loopless /\ ~Entered
Share(n) == IF n = StartNode THEN 1 ELSE Cardinality(Arrived(n))

Visited(n) ==
    /\ Queued(queue, n) + visits[n] <= Share(n)
    /\ Ran(n) => visits[n] >= Required(n)

Called(n) == ~Ran(n) /\ visits[n] >= Required(n) /\ \A e \in InEdges(n) : Ran(e[1])

Joins ==
    /\ phase \in {"idle", "single"} => order = <<>>
    /\ phase = "idle" => queue = <<>> /\ \A n \in Node : visits[n] = 0
    /\ Straight =>
         /\ \A i, j \in DOMAIN order : order[i] = order[j] => i = j
         /\ phase \in {"ready", "node", "gather"} => \A n \in Node : Visited(n)
         /\ phase = "node" => Called(calls[1].node)

(* A node that has had all its visits was visited by each of its edges, and *)
(* never before.                                                            *)
LEMMA CalledOnce ==
    ASSUME IsGraph(graph), NEW n \in Node, ~Entered, NEW v \in Nat, NEW w \in Nat,
           w + v <= Share(n), v >= Required(n),
           Ran(n) => v > Required(n)
    PROVE  ~Ran(n) /\ \A e \in InEdges(n) : Ran(e[1])
<1>1. /\ Cardinality(Arrived(n)) \in Nat /\ Cardinality(InEdges(n)) \in Nat
      /\ Cardinality(Arrived(n)) <= Cardinality(InEdges(n))
      /\ Cardinality(Arrived(n)) = Cardinality(InEdges(n)) => \A e \in InEdges(n) : Ran(e[1])
  BY ArrivedFinite, IntoNode
<1>2. CASE n = StartNode
  <2>1. InEdges(n) = {} /\ Required(n) = 1 /\ Share(n) = 1
    BY <1>2 DEF Entered, Required, Share
  <2> QED
    BY <2>1
<1>3. CASE n # StartNode
  <2>1. Share(n) = Cardinality(Arrived(n))
    BY <1>3 DEF Share
  <2>2. CASE InEdges(n) = {}
    <3>1. Cardinality(InEdges(n)) = 0 /\ Required(n) = 1
      BY <2>2, FS_EmptySet DEF Required
    <3> QED
      BY <1>1, <2>1, <3>1
  <2>3. CASE InEdges(n) # {}
    <3>1. Required(n) = Cardinality(InEdges(n))
      BY <2>3 DEF Required
    <3> QED
      BY <1>1, <2>1, <3>1
  <2> QED
    BY <2>2, <2>3
<1> QED
  BY <1>2, <1>3

(* The graph stays, and with it what depends on nothing else.               *)
LEMMA GraphStays ==
    ASSUME graph' = graph
    PROVE  /\ Straight' = Straight /\ \A n : InEdges(n)' = InEdges(n) /\ Required(n)' = Required(n)
BY DEF Straight, Loopless, Entered, InEdges, Required

LEMMA SameOrder ==
    ASSUME graph' = graph, order' = order
    PROVE  \A n : (Ran(n)' <=> Ran(n)) /\ Share(n)' = Share(n)
BY GraphStays DEF Ran, Share, Arrived

(* A visit moves a place of the queue to the visits of its node.            *)
LEMMA VisitKeepsJoins ==
    ASSUME TypeOK, Joins, Straight, NEW n \in Node, Visit(n), UNCHANGED <<graph, order>>,
           NEW m \in Node
    PROVE  /\ Queued(queue', m) + visits'[m] <= Share(m)
           /\ Ran(m) => visits'[m] >= Required(m) /\ (m = n => visits'[m] > Required(m))
           /\ Queued(queue', m) \in Nat /\ visits'[m] \in Nat
<1>1. /\ queue \in Seq(Entries) /\ queue # <<>> /\ Head(queue).node = n /\ queue' = Tail(queue)
      /\ visits' = [visits EXCEPT ![n] = @ + 1] /\ visits \in [Node -> Nat] /\ phase = "ready"
  BY DEF TypeOK, Visit
<1>2. Visited(m)
  BY <1>1 DEF Joins
<1>3. Queued(Tail(queue), m) + (IF n = m THEN 1 ELSE 0) = Queued(queue, m)
  BY <1>1, HeadTaken
<1>4. Tail(queue) \in Seq(Entries)
  BY <1>1
<1>5. Queued(Tail(queue), m) \in Nat /\ Queued(queue, m) \in Nat
  BY <1>1, <1>4, Placed
<1>6. visits'[m] = visits[m] + (IF n = m THEN 1 ELSE 0) /\ visits[m] \in Nat
  BY <1>1
<1>7. IsGraph(graph) /\ Cardinality(Arrived(m)) \in Nat /\ Cardinality(InEdges(m)) \in Nat
  BY ArrivedFinite, IntoNode DEF TypeOK
<1>8. Share(m) \in Nat /\ Required(m) \in Nat
  BY <1>7 DEF Share, Required
<1> HIDE DEF Queued
<1>9. Queued(Tail(queue), m) + visits'[m] <= Share(m)
  BY <1>2, <1>3, <1>5, <1>6, <1>8 DEF Visited
<1>10. Ran(m) => visits'[m] >= Required(m) /\ (m = n => visits'[m] > Required(m))
  BY <1>2, <1>6, <1>8 DEF Visited
<1> QED
  BY <1>1, <1>5, <1>6, <1>9, <1>10

(* The node that has run opens its edges before anything is queued behind   *)
(* them.                                                                    *)
LEMMA TrackKeepsJoins ==
    ASSUME TypeOK, Joins, NEW n \in Node, Returned(n), graph' = graph, visits' = visits,
           Track(n), phase' \in {"ready", "gather", "over"},
           NEW a \in Seq(Entries), queue' = queue \o a,
           \A m \in Node : Queued(a, m) <= Cardinality(Between(n, m))
    PROVE  Joins'
<1>1. /\ IsGraph(graph) /\ order \in Seq(Node) /\ queue \in Seq(Entries)
      /\ visits \in [Node -> Nat] /\ phase = "node" /\ calls[1].node = n
  BY DEF TypeOK, Returned
<1>2. SUFFICES ASSUME Straight
               PROVE  /\ \A i, j \in DOMAIN order' : order'[i] = order'[j] => i = j
                      /\ \A m \in Node : Visited(m)'
  BY GraphStays DEF Joins
<1>3. Called(n) /\ \A m \in Node : Visited(m)
  BY <1>1, <1>2 DEF Joins
<1>4. \A i, j \in DOMAIN order : order[i] = order[j] => i = j
  BY <1>2 DEF Joins
<1>5. \A i, j \in DOMAIN order' : order'[i] = order'[j] => i = j
  <2>1. /\ Len(order) \in Nat /\ DOMAIN order = 1 .. Len(order)
        /\ DOMAIN order' = 1 .. (Len(order) + 1)
        /\ order'[Len(order) + 1] = n /\ \A i \in 1 .. Len(order) : order'[i] = order[i]
    BY <1>1 DEF Track
  <2>2. \A i \in 1 .. Len(order) : order[i] # n
    BY <1>3, <2>1 DEF Called, Ran
  <2> QED
    BY <1>4, <2>1, <2>2
<1>6. ASSUME NEW m \in Node PROVE Visited(m)'
  <2>1. /\ Cardinality(Arrived(m)') >= Cardinality(Arrived(m)) + Cardinality(Between(n, m))
        /\ \A k : Ran(k)' <=> Ran(k) \/ k = n
    BY <1>1, <1>3, Opens DEF Called
  <2>2. /\ Cardinality(Arrived(m)) \in Nat /\ Cardinality(Between(n, m)) \in Nat
        /\ IsGraph(graph)'
    BY <1>1, ArrivedFinite, BetweenFinite
  <2>3. Cardinality(Arrived(m)') \in Nat
    <3>1. Arrived(m)' \in SUBSET InEdges(m) /\ IsFiniteSet(InEdges(m))
      BY <1>1, GraphStays, IntoNode DEF Arrived
    <3> QED
      BY <3>1, FS_Subset, FS_CardinalityType
  <2>4. Queued(queue, m) \in Nat /\ Queued(a, m) \in Nat /\ visits[m] \in Nat
    BY <1>1, Placed
  <2>5. Queued(queue \o a, m) = Queued(queue, m) + Queued(a, m)
    BY <1>1, Appended
  <2>6. queue \o a \in Seq(Entries)
    BY <1>1
  <2>7. Queued(queue \o a, m) \in Nat /\ Queued(a, m) <= Cardinality(Between(n, m))
    BY <2>6, Placed
  <2>8. Queued(queue, m) + visits[m] <= Share(m)
    BY <1>3 DEF Visited
  <2>9. Queued(queue \o a, m) + visits[m] <= Share(m)'
    <3>1. CASE m = StartNode
      <4>1. Between(n, m) = {}
        BY <1>1, <1>2, <3>1, IntoNode DEF Straight, Entered
      <4>2. Cardinality(Between(n, m)) = 0
        BY <4>1, FS_EmptySet
      <4>3. Share(m)' = Share(m) /\ Share(m) = 1
        BY <3>1 DEF Share
      <4> HIDE DEF Queued
      <4> QED
        BY <2>4, <2>5, <2>7, <2>8, <4>2, <4>3
    <3>2. CASE m # StartNode
      <4>1. Share(m) = Cardinality(Arrived(m)) /\ Share(m)' = Cardinality(Arrived(m)')
        BY <3>2 DEF Share
      <4> HIDE DEF Queued
      <4> QED
        BY <2>1, <2>2, <2>3, <2>4, <2>5, <2>7, <2>8, <4>1
    <3> QED
      BY <3>1, <3>2
  <2>10. Ran(m)' => visits[m] >= Required(m)
    BY <1>3, <2>1 DEF Visited, Called
  <2>11. Queued(queue, m)' = Queued(queue \o a, m)
    BY DEF Queued, Places
  <2> QED
    BY <2>9, <2>10, <2>11, GraphStays DEF Visited
<1> QED
  BY <1>5, <1>6

(* The steps that visit nothing, queue nothing and call nothing new.        *)
LEMMA StaysJoined ==
    ASSUME Joins, UNCHANGED <<graph, visits, queue, order>>, phase # "idle",
           \/ phase' = phase /\ calls'[1].node = calls[1].node
           \/ phase' = "ready" /\ phase = "gather"
           \/ phase' = "over"
    PROVE  Joins'
<1>1. \A n : Visited(n)' <=> Visited(n)
  BY SameOrder, GraphStays DEF Visited, Queued, Places
<1>2. Straight' = Straight
  BY GraphStays
<1>3. phase' = "idle" => FALSE
  OBVIOUS
<1>4. phase' = "single" => phase = "single"
  OBVIOUS
<1>5. phase' \in {"ready", "node", "gather"} => phase \in {"ready", "node", "gather"}
  OBVIOUS
<1>6. phase' = "node" => phase = "node" /\ calls'[1].node = calls[1].node
  OBVIOUS
<1>7. Straight' /\ phase' = "node" => Called(calls[1].node)'
  <2> SUFFICES ASSUME Straight', phase' = "node" PROVE Called(calls[1].node)'
    OBVIOUS
  <2>1. calls'[1].node = calls[1].node /\ Called(calls[1].node)
    BY <1>2, <1>6 DEF Joins
  <2> QED
    BY <2>1, SameOrder, GraphStays DEF Called
<1> QED
  BY <1>1, <1>2, <1>3, <1>4, <1>5, <1>7 DEF Joins

LEMMA CallKeepsJoins ==
    ASSUME TypeOK, Joins, Shape, NEW c \in DOMAIN calls, CallStep(c) PROVE Joins'
<1>1. UNCHANGED <<graph, phase, queue, visits, order>>
  BY DEF CallStep, UsePinned, Enter, Refuse, Attempt, Succeed, FailAttempt, GiveUp, Outside
<1>2. \A d \in DOMAIN calls : calls'[d].node = calls[d].node
  BY DEF CallStep, UsePinned, Enter, Refuse, Attempt, Succeed, FailAttempt, GiveUp, Move, Step
<1>3. phase # "idle"
  BY DEF Shape
<1>4. CASE phase = "node"
  BY <1>1, <1>2, <1>3, <1>4, StaysJoined DEF Shape
<1>5. CASE phase # "node"
  <2>1. \A n : Visited(n)' <=> Visited(n)
    BY <1>1, SameOrder, GraphStays DEF Visited, Queued, Places
  <2> QED
    BY <1>1, <1>5, <2>1, GraphStays DEF Joins
<1> QED
  BY <1>4, <1>5

LEMMA NodeKeepsJoins == ASSUME TypeOK, Joins, Shape, NEW n \in Node, NodeStep(n) PROVE Joins'
<1>0. IsGraph(graph) /\ queue \in Seq(Entries) /\ visits \in [Node -> Nat]
  BY DEF TypeOK
<1>1. CASE SkipJoin(n) \/ CallNode(n)
  <2>1. Visit(n) /\ UNCHANGED <<graph, order>> /\ phase = "ready"
    BY <1>1 DEF SkipJoin, CallNode, Visit
  <2>2. SUFFICES ASSUME Straight
                 PROVE  /\ \A m \in Node : Visited(m)'
                        /\ phase' = "node" => Called(calls[1].node)'
    <3>1. phase' \in {"ready", "node"}
      BY <1>1, <2>1 DEF SkipJoin, CallNode
    <3> QED
      BY <2>1, <3>1, GraphStays DEF Joins
  <2>3. ASSUME NEW m \in Node
        PROVE  /\ Queued(queue', m) + visits'[m] <= Share(m)
               /\ Ran(m) => visits'[m] >= Required(m) /\ (m = n => visits'[m] > Required(m))
               /\ Queued(queue', m) \in Nat /\ visits'[m] \in Nat
    BY <2>1, <2>2, VisitKeepsJoins
  <2>4. ASSUME NEW m \in Node PROVE Visited(m)'
    <3>1. Queued(queue, m)' = Queued(queue', m)
      BY DEF Queued, Places
    <3> QED
      BY <2>1, <2>3, <3>1, SameOrder, GraphStays DEF Visited
  <2>5. ASSUME phase' = "node" PROVE Called(calls[1].node)'
    <3>1. visits'[n] >= Required(n) /\ calls'[1].node = n
      <4>1. CallNode(n)
        BY <1>1, <2>1, <2>5 DEF SkipJoin
      <4> QED
        BY <4>1 DEF CallNode, Call
    <3> DEFINE v == visits'[n]
               w == Queued(queue', n)
    <3>2. v \in Nat /\ w \in Nat /\ w + v <= Share(n) /\ v >= Required(n) /\ (Ran(n) => v > Required(n))
      BY <2>3, <3>1
    <3> HIDE DEF v, w
    <3>3. ~Ran(n) /\ \A e \in InEdges(n) : Ran(e[1])
      BY <1>0, <2>2, <3>2, CalledOnce DEF Straight
    <3> QED
      BY <2>1, <3>1, <3>3, SameOrder, GraphStays DEF Called
  <2> QED
    BY <2>4, <2>5
<1>2. CASE Pause(n) \/ StopBranch(n) \/ FanOut(n)
  <2>1. /\ Returned(n) /\ graph' = graph /\ visits' = visits /\ queue' = queue /\ Track(n)
        /\ phase' \in {"ready", "gather", "over"}
    BY <1>2 DEF Pause, StopBranch, FanOut, Continues, Ready, Gather
  <2>2. <<>> \in Seq(Entries) /\ queue \o <<>> = queue
    BY <1>0
  <2>3. \A m \in Node : Queued(<<>>, m) <= Cardinality(Between(n, m))
    <3> TAKE m \in Node
    <3>1. Places(<<>>, m) = {}
      BY DEF Places
    <3>2. Queued(<<>>, m) = 0 /\ Cardinality(Between(n, m)) \in Nat
      BY <1>0, <3>1, FS_EmptySet, BetweenFinite DEF Queued
    <3> QED
      BY <3>2
  <2> QED
    BY <2>1, <2>2, <2>3, TrackKeepsJoins
<1>3. CASE Iterate(n)
  <2>1. /\ ~Loopless /\ phase' \in {"ready", "gather"} /\ graph' = graph
    BY <1>3 DEF Iterate, Loopless, Ready, Gather
  <2>2. ~Straight'
    BY <2>1, GraphStays DEF Straight
  <2> QED
    BY <2>1, <2>2 DEF Joins
<1>4. CASE Traverse(n)
  <2>1. /\ Returned(n) /\ graph' = graph /\ visits' = visits /\ Track(n) /\ phase' = "ready"
        /\ queue' = queue \o Follow(n, calls[1].item)
    BY <1>4 DEF Traverse, Continues, Ready
  <2>2. calls[1].item \in Item \cup {NoItem}
    <3>1. 1 \in DOMAIN calls
      BY <2>1 DEF Returned, Shape
    <3> QED
      BY <3>1 DEF TypeOK, IsCall
  <2>3. Follow(n, calls[1].item) \in Seq(Entries)
    BY <1>0, <2>2, FollowOK
  <2>4. \A m \in Node : Queued(Follow(n, calls[1].item), m) <= Cardinality(Between(n, m))
    BY <1>0, FollowedOnce
  <2> QED
    BY <2>1, <2>3, <2>4, TrackKeepsJoins
<1> QED
  BY <1>1, <1>2, <1>3, <1>4 DEF NodeStep

LEMMA RunKeepsJoins == ASSUME TypeOK, Joins, Shape, RunStep PROVE Joins'
<1>1. CASE Begin
  <2>1. /\ phase = "idle" /\ phase' = "ready" /\ queue' = <<Entry(StartNode, NoItem)>>
        /\ UNCHANGED <<graph, visits, order>>
    BY <1>1 DEF Begin
  <2>2. order = <<>> /\ \A n \in Node : visits[n] = 0
    BY <2>1 DEF Joins
  <2>3. order' = <<>> /\ \A i, j \in DOMAIN order' : FALSE
    BY <2>1, <2>2
  <2>4. \A n \in Node : visits'[n] = 0 /\ ~Ran(n)'
    BY <2>1, <2>2, <2>3 DEF Ran
  <2>5. ASSUME NEW n \in Node PROVE Queued(queue, n)' + visits'[n] <= Share(n)'
    <3>1. Len(queue') = 1 /\ queue'[1] = Entry(StartNode, NoItem)
      BY <2>1
    <3>2. CASE n = StartNode
      <4>1. Places(queue, n)' = {1}
        BY <3>1, <3>2 DEF Places, Entry
      <4>2. Queued(queue, n)' = 1
        BY <4>1, FS_Singleton DEF Queued
      <4> QED
        BY <2>4, <3>2, <4>2 DEF Share
    <3>3. CASE n # StartNode
      <4>1. Places(queue, n)' = {}
        BY <3>1, <3>3 DEF Places, Entry
      <4>2. Queued(queue, n)' = 0
        BY <4>1, FS_EmptySet DEF Queued
      <4>3. Cardinality(Arrived(n)) \in Nat /\ Share(n)' = Share(n)
        BY <2>1, ArrivedFinite, SameOrder DEF TypeOK
      <4> QED
        BY <2>4, <3>3, <4>2, <4>3 DEF Share
    <3> QED
      BY <3>2, <3>3
  <2> QED
    BY <2>1, <2>3, <2>4, <2>5 DEF Joins, Visited
<1>2. CASE BeginSingle
  <2>1. phase = "idle" /\ phase' = "single" /\ UNCHANGED <<graph, order>>
    BY <1>2 DEF BeginSingle
  <2>2. order' = <<>> /\ \A i, j \in DOMAIN order' : FALSE
    BY <2>1 DEF Joins
  <2> QED
    BY <2>1, <2>2 DEF Joins
<1>3. CASE GatherReturns
  BY <1>3, StaysJoined DEF GatherReturns, Ready
<1>4. CASE Raise
  BY <1>4, StaysJoined DEF Raise
<1>5. CASE Complete
  BY <1>5, StaysJoined DEF Complete
<1>6. CASE Cancel
  BY <1>6, StaysJoined DEF Cancel
<1>7. CASE SingleEnds
  <2>1. phase = "single" /\ phase' = "over" /\ graph' = graph
    BY <1>7 DEF SingleEnds
  <2>2. order = <<>>
    BY <2>1 DEF Joins
  <2>3. order' = order \/ order' = <<calls[1].node>>
    BY <1>7, <2>2 DEF SingleEnds, Track
  <2>4. \A i, j \in DOMAIN order' : i = j
    BY <2>2, <2>3
  <2> QED
    BY <2>1, <2>4 DEF Joins
<1> QED
  BY <1>1, <1>2, <1>3, <1>4, <1>5, <1>6, <1>7 DEF RunStep

(* Whatever the graph, branches, pauses and errors included: without loops, *)
(* and unless something leads back to the start, a join is called once, and *)
(* when every one of its sources has run.                                   *)
THEOREM JoinsWait == Spec => []JoinWaits
<1>1. Init => Joins
  <2> SUFFICES ASSUME Init PROVE Joins
    OBVIOUS
  <2>1. \A i, j \in DOMAIN order : FALSE
    BY DEF Init
  <2> QED
    BY <2>1 DEF Init, Joins
<1>2. TypeOK /\ Shape /\ Joins /\ [Next]_vars => Joins'
  <2>1. ASSUME TypeOK, Joins, UNCHANGED vars PROVE Joins'
    <3>1. \A n : Visited(n)' <=> Visited(n)
      BY <2>1, SameOrder, GraphStays DEF vars, Visited, Queued, Places
    <3>2. Called(calls[1].node)' <=> Called(calls[1].node)
      BY <2>1, SameOrder, GraphStays DEF vars, Called
    <3> QED
      BY <2>1, <3>1, <3>2, GraphStays DEF vars, Joins
  <2> QED
    BY <2>1, Steps, CallKeepsJoins, NodeKeepsJoins, RunKeepsJoins
<1>3. Joins => JoinWaits
  BY DEF Joins, JoinWaits, Straight, Called
<1> QED
  BY <1>1, <1>2, <1>3, TypesKept, ShapeKept, PTL DEF Spec

-----------------------------------------------------------------------------
(* Loops. A node that only a loop leads to runs once for each item of it:   *)
(* what is queued for it, called and not returned, and returned makes up    *)
(* the items.                                                               *)
IsBody(l, b) ==
    /\ graph.kind[l] = "loop" /\ l \notin graph.pinned
    /\ b \in Body(l) \ ({l, StartNode} \cup graph.pinned) /\ Required(b) = 1

Busy(n) == {c \in DOMAIN calls : calls[c].node = n}
Pending(n) == {c \in Busy(n) : calls[c].at # "ok"}
Untouched(b) == Queued(queue, b) = 0 /\ Busy(b) = {} /\ successes[b] = 0
AtLoop(l) == phase = "node" /\ calls[1].node = l

Iterated(l, b) ==
    /\ successes[l] = 0 =>
         Untouched(b) /\ (visits[l] >= Required(l) => AtLoop(l))
    /\ successes[l] = 1 /\ visits[l] < Required(l) => Untouched(b)
    /\ successes[l] = 1 /\ visits[l] >= Required(l) /\ AtLoop(l) /\ calls[1].at = "ok" =>
         Untouched(b) /\ (outputs[l].branch = "start" => calls[1].result = outputs[l])
    /\ /\ successes[l] = 1 /\ visits[l] >= Required(l) /\ ~AtLoop(l)
       /\ outputs[l].branch = "start"
       => Queued(queue, b) + Cardinality(Pending(b)) + successes[b] = Len(outputs[l].items)

Counted ==
    /\ phase \in {"idle", "single"} => \A n \in Node : visits[n] = 0
    /\ phase = "idle" => queue = <<>> /\ \A n \in Node : successes[n] = 0
    /\ phase = "node" => visits[calls[1].node] >= Required(calls[1].node)
    /\ \A c \in DOMAIN calls :
         calls[c].at = "ok" /\ calls[c].node \notin graph.pinned => successes[calls[c].node] > 0
    /\ \A n \in Node : successes[n] = 0 => outputs[n] = NoResult

Loops ==
    /\ Counted
    /\ phase \in {"ready", "node", "gather"} => \A l, b \in Node : IsBody(l, b) => Iterated(l, b)
    /\ LoopServed

LEMMA RequiredPositive ==
    ASSUME IsGraph(graph), NEW n PROVE Required(n) \in Nat /\ Required(n) >= 1
<1>1. IsFiniteSet(InEdges(n)) /\ Cardinality(InEdges(n)) \in Nat
  BY IntoNode
<1>2. InEdges(n) # {} => Cardinality(InEdges(n)) # 0
  BY <1>1, FS_EmptySet
<1> QED
  BY <1>1, <1>2 DEF Required

(* Nothing but its loop leads to such a body, and the loop to no other.     *)
LEMMA OnlySource ==
    ASSUME IsGraph(graph), NEW l \in Node, NEW b \in Node, IsBody(l, b)
    PROVE  /\ Body(l) = {b} /\ \A n \in Node : n # l => Between(n, b) = {}
           /\ \A n \in Node : n # l => b \notin Body(n)
           /\ \A n \in Node : Body(n) \subseteq Node
<1>1. \A n \in Node : \A x \in Body(n) : x \in Node /\ Between(n, x) # {}
  <2> TAKE n \in Node
  <2>1. \A i \in DOMAIN graph.out[n] : graph.out[n][i].to \in Node
    BY Edges
  <2> QED
    BY <2>1 DEF Body, StartEdges, Between
<1>2. PICK i \in Between(l, b) : TRUE
  BY <1>1 DEF IsBody
<1>3. <<l, i>> \in InEdges(b) /\ IsFiniteSet(InEdges(b))
  BY IntoNode
<1>4. Cardinality(InEdges(b)) = 1
  BY <1>3 DEF IsBody, Required
<1>5. InEdges(b) = {<<l, i>>}
  BY <1>3, <1>4, FS_Singleton
<1>6. \A n \in Node : n # l => Between(n, b) = {}
  <2> SUFFICES ASSUME NEW n \in Node, n # l, NEW j \in Between(n, b) PROVE FALSE
    OBVIOUS
  <2>1. <<n, j>> \in InEdges(b)
    BY IntoNode
  <2>2. <<n, j>> = <<l, i>>
    BY <1>5, <2>1
  <2> QED
    BY <2>2
<1>7. Body(l) = {b}
  <2>1. ASSUME NEW x \in Body(l), NEW y \in Body(l) PROVE x = y
    <3>1. PICK j \in StartEdges(l) : x = graph.out[l][j].to /\ \A k \in StartEdges(l) : j <= k
      BY DEF Body
    <3>2. PICK k \in StartEdges(l) : y = graph.out[l][k].to /\ \A m \in StartEdges(l) : k <= m
      BY DEF Body
    <3>3. j \in Nat /\ k \in Nat
      BY Edges DEF StartEdges
    <3>4. j <= k /\ k <= j
      BY <3>1, <3>2
    <3>5. j = k
      BY <3>3, <3>4
    <3> QED
      BY <3>1, <3>2, <3>5
  <2> QED
    BY <2>1 DEF IsBody
<1> QED
  BY <1>1, <1>6, <1>7

LEMMA BodyNodes ==
    ASSUME IsGraph(graph) PROVE \A n \in Node : Body(n) \subseteq Node
<1> TAKE n \in Node
<1>1. \A i \in DOMAIN graph.out[n] : graph.out[n][i].to \in Node
  BY Edges
<1> QED
  BY <1>1 DEF Body, StartEdges

LEMMA BodyStays ==
    ASSUME graph' = graph PROVE \A l, b : IsBody(l, b)' <=> IsBody(l, b)
BY GraphStays DEF IsBody, Body, StartEdges

LEMMA PendingFinite ==
    ASSUME Shape, NEW n
    PROVE  IsFiniteSet(Pending(n)) /\ Cardinality(Pending(n)) \in Nat
<1>1. Pending(n) \in SUBSET DOMAIN calls /\ IsFiniteSet(DOMAIN calls)
  BY DEF Pending, Busy, Shape
<1> QED
  BY <1>1, FS_Subset, FS_CardinalityType

(* A call that returns leaves those that are pending and is counted; any    *)
(* other step of a call leaves both alone.                                  *)
LEMMA CallCounts ==
    ASSUME TypeOK, NEW c \in DOMAIN calls, CallStep(c), NEW b \in Node, b \notin graph.pinned
    PROVE  /\ Busy(b)' = Busy(b)
           /\ \/ /\ successes'[b] = successes[b] /\ outputs'[b] = outputs[b]
                 /\ Pending(b)' = Pending(b) /\ (calls[c].node = b => calls'[c].at # "ok")
              \/ /\ calls[c].node = b /\ c \in Pending(b) /\ Pending(b)' = Pending(b) \ {c}
                 /\ successes'[b] = successes[b] + 1 /\ calls'[c].at = "ok"
                 /\ outputs'[b] \in {outputs[b], calls'[c].result}
<1> USE DEF Step, Move, Outside, results
<1>0. successes \in [Node -> Nat] /\ DOMAIN outputs = Node /\ calls[c].node \in Node
  BY DEF TypeOK, IsCall
<1>1. /\ DOMAIN calls' = DOMAIN calls /\ \A d \in DOMAIN calls : d # c => calls'[d] = calls[d]
      /\ calls'[c].node = calls[c].node
  BY DEF CallStep, UsePinned, Enter, Refuse, Attempt, Succeed, FailAttempt, GiveUp
<1>2. Busy(b)' = Busy(b)
  BY <1>1 DEF Busy
<1>3. ASSUME calls[c].node = b => calls[c].at # "ok" /\ calls'[c].at # "ok"
      PROVE  Pending(b)' = Pending(b)
  BY <1>1, <1>2, <1>3 DEF Pending, Busy
<1>4. CASE UsePinned(c)
  <2>1. calls[c].node # b /\ UNCHANGED <<successes, outputs>>
    BY <1>4 DEF UsePinned
  <2> QED
    BY <1>2, <1>3, <2>1
<1>5. CASE Enter(c) \/ Refuse(c) \/ Attempt(c) \/ FailAttempt(c) \/ GiveUp(c)
  <2>1. calls[c].at # "ok" /\ calls'[c].at # "ok" /\ UNCHANGED <<successes, outputs>>
    BY <1>5 DEF Enter, Refuse, Attempt, FailAttempt, GiveUp, MayEnter, At
  <2> QED
    BY <1>2, <1>3, <2>1
<1>6. CASE Succeed(c)
  <2>1. /\ calls[c].at # "ok" /\ calls'[c].at = "ok"
        /\ successes' = [successes EXCEPT ![calls[c].node] = @ + 1]
        /\ outputs' \in {outputs, [outputs EXCEPT ![calls[c].node] = calls'[c].result]}
    <3>1. PICK r \in Results(calls[c].node) :
             /\ Step(c, "ok", calls[c].attempt, r)
             /\ outputs' = IF calls[c].item = NoItem THEN [outputs EXCEPT ![calls[c].node] = r]
                                                    ELSE outputs
      BY <1>6 DEF Succeed
    <3>2. calls'[c].result = r /\ calls'[c].at = "ok"
      BY <3>1
    <3> QED
      BY <1>6, <3>1, <3>2 DEF Succeed, At
  <2>2. CASE calls[c].node = b
    <3>1. c \in Pending(b) /\ Pending(b)' = Pending(b) \ {c}
      BY <1>1, <1>2, <2>1, <2>2 DEF Pending, Busy
    <3> QED
      BY <1>0, <1>2, <2>1, <2>2, <3>1
  <2>3. CASE calls[c].node # b
    BY <1>0, <1>2, <1>3, <2>1, <2>3
  <2> QED
    BY <2>2, <2>3
<1> QED
  BY <1>4, <1>5, <1>6 DEF CallStep

LEMMA CallKeepsCounted ==
    ASSUME TypeOK, Shape, Counted, NEW c \in DOMAIN calls, CallStep(c) PROVE Counted'
<1>0. successes \in [Node -> Nat] /\ \A d \in DOMAIN calls : calls[d].node \in Node
  BY DEF TypeOK, IsCall
<1>1. UNCHANGED <<graph, phase, queue, visits, order>> /\ phase # "idle"
  BY DEF CallStep, UsePinned, Enter, Refuse, Attempt, Succeed, FailAttempt, GiveUp, Outside, Shape
<1>2. /\ DOMAIN calls' = DOMAIN calls /\ \A d \in DOMAIN calls : d # c => calls'[d] = calls[d]
      /\ \A d \in DOMAIN calls : calls'[d].node = calls[d].node
  BY DEF CallStep, UsePinned, Enter, Refuse, Attempt, Succeed, FailAttempt, GiveUp, Move, Step
<1>3. \A n \in Node : successes'[n] >= successes[n] /\ (successes'[n] = 0 => outputs'[n] = outputs[n])
  <2>1. CASE Succeed(c)
    <3>1. /\ successes' = [successes EXCEPT ![calls[c].node] = @ + 1]
          /\ \E r : outputs' \in {outputs, [outputs EXCEPT ![calls[c].node] = r]}
      BY <2>1 DEF Succeed
    <3>2. DOMAIN outputs = Node
      BY DEF TypeOK
    <3>3. calls[c].node \in Node
      BY <1>0
    <3>4. \A n \in Node : successes'[n] = IF n = calls[c].node THEN successes[n] + 1 ELSE successes[n]
      BY <1>0, <3>1, <3>3
    <3>5. \A n \in Node : n # calls[c].node => outputs'[n] = outputs[n]
      BY <3>1, <3>2
    <3> QED
      BY <1>0, <3>4, <3>5
  <2>2. CASE ~Succeed(c)
    <3>1. UNCHANGED <<successes, outputs>>
      BY <2>2 DEF CallStep, UsePinned, Enter, Refuse, Attempt, FailAttempt, GiveUp, results
    <3> QED
      BY <1>0, <3>1
  <2> QED
    BY <2>1, <2>2
<1>4. \A n \in Node : successes'[n] \in Nat
  <2>1. TypeOK'
    BY CallKeepsTypes
  <2> QED
    BY <2>1 DEF TypeOK
<1>5. ASSUME NEW d \in DOMAIN calls, calls'[d].at = "ok", calls'[d].node \notin graph.pinned
      PROVE  successes'[calls'[d].node] > 0
  <2> DEFINE b == calls[d].node
  <2>1. b \in Node /\ b \notin graph.pinned /\ calls'[d].node = b
    BY <1>0, <1>2, <1>5
  <2>2. CASE d # c
    <3>1. successes[b] > 0
      BY <1>2, <1>5, <2>1, <2>2 DEF Counted
    <3> QED
      BY <1>0, <1>3, <1>4, <2>1, <3>1
  <2>3. CASE d = c
    <3>1. successes'[b] = successes[b] + 1
      BY <1>5, <2>1, <2>3, CallCounts
    <3> QED
      BY <1>0, <2>1, <3>1
  <2> QED
    BY <2>2, <2>3
<1>6. \A n \in Node : successes'[n] = 0 => outputs'[n] = NoResult
  <2> TAKE n \in Node
  <2> HAVE successes'[n] = 0
  <2>1. successes[n] = 0
    BY <1>0, <1>3, <1>4
  <2> QED
    BY <1>3, <2>1 DEF Counted
<1>7. phase = "node" => visits[calls[1].node]' >= Required(calls[1].node)'
  <2>1. phase = "node" => calls'[1].node = calls[1].node
    BY <1>2 DEF Shape
  <2> QED
    BY <1>1, <2>1, GraphStays DEF Counted
<1> QED
  BY <1>1, <1>2, <1>5, <1>6, <1>7 DEF Counted

LEMMA CallKeepsIterated ==
    ASSUME TypeOK, Shape, Counted, NEW c \in DOMAIN calls, CallStep(c),
           NEW l \in Node, NEW b \in Node, IsBody(l, b), Iterated(l, b)
    PROVE  Iterated(l, b)'
<1>0. /\ successes \in [Node -> Nat] /\ IsGraph(graph) /\ queue \in Seq(Entries)
      /\ visits \in [Node -> Nat] /\ l # b /\ l \notin graph.pinned /\ b \notin graph.pinned
      /\ successes[l] \in Nat /\ successes[b] \in Nat /\ visits[l] \in Nat
  BY DEF TypeOK, IsBody
<1>1. UNCHANGED <<graph, phase, queue, visits, order>>
  BY DEF CallStep, UsePinned, Enter, Refuse, Attempt, Succeed, FailAttempt, GiveUp, Outside
<1>2. /\ DOMAIN calls' = DOMAIN calls /\ \A d \in DOMAIN calls : d # c => calls'[d] = calls[d]
      /\ \A d \in DOMAIN calls : calls'[d].node = calls[d].node
  BY DEF CallStep, UsePinned, Enter, Refuse, Attempt, Succeed, FailAttempt, GiveUp, Move, Step
<1>3. /\ Required(l)' = Required(l) /\ Queued(queue, b)' = Queued(queue, b)
      /\ AtLoop(l)' <=> AtLoop(l)
  <2>1. phase = "node" => calls'[1].node = calls[1].node
    BY <1>2 DEF Shape
  <2> QED
    BY <1>1, <2>1, GraphStays DEF Queued, Places, AtLoop
<1>4. Required(l) \in Nat /\ Required(l) >= 1
  BY <1>0, RequiredPositive
<1>5. phase = "node" => c = 1
  BY DEF Shape
<1>6. CASE calls[c].node = l
  <2>1. Busy(b)' = Busy(b) /\ Pending(b)' = Pending(b) /\ successes'[b] = successes[b]
    BY <1>0, <1>6, CallCounts
  <2>2. Untouched(b)' <=> Untouched(b)
    BY <1>3, <2>1 DEF Untouched
  <2>3. CASE successes'[l] = successes[l] /\ outputs'[l] = outputs[l] /\ calls'[1].at # "ok"
    BY <1>1, <1>3, <2>1, <2>2, <2>3 DEF Iterated
  <2>4. CASE successes'[l] = successes[l] /\ outputs'[l] = outputs[l] /\ calls'[c].at # "ok"
    <3>1. AtLoop(l) => calls'[1].at # "ok"
      BY <1>5, <2>4 DEF AtLoop
    <3> QED
      BY <1>1, <1>3, <2>1, <2>2, <2>4, <3>1 DEF Iterated
  <2>5. CASE /\ successes'[l] = successes[l] + 1 /\ outputs'[l] \in {outputs[l], calls'[c].result}
    <3>1. CASE successes[l] = 0
      <4>1. Untouched(b) /\ (visits[l] >= Required(l) => AtLoop(l)) /\ outputs[l] = NoResult
        BY <3>1 DEF Iterated, Counted
      <4>2. outputs'[l].branch = "start" => outputs'[l] = calls'[c].result
        BY <2>5, <4>1 DEF NoResult, Result
      <4>3. AtLoop(l) => c = 1
        BY <1>5 DEF AtLoop
      <4> QED
        BY <1>1, <1>3, <2>2, <2>5, <3>1, <4>1, <4>2, <4>3 DEF Iterated
    <3>2. CASE successes[l] # 0
      <4>1. successes'[l] # 0 /\ successes'[l] # 1
        BY <1>0, <2>5, <3>2
      <4> QED
        BY <4>1 DEF Iterated
    <3> QED
      BY <3>1, <3>2
  <2> QED
    BY <1>0, <1>6, <2>4, <2>5, CallCounts
<1>7. CASE calls[c].node # l
  <2>1. successes'[l] = successes[l] /\ outputs'[l] = outputs[l] /\ ~AtLoop(l)
    BY <1>0, <1>5, <1>7, CallCounts DEF AtLoop
  <2>2. Untouched(b) => Untouched(b)'
    <3>1. Untouched(b) => calls[c].node # b
      BY DEF Untouched, Busy
    <3> QED
      BY <1>0, <1>3, <3>1, CallCounts DEF Untouched
  <2>3. Cardinality(Pending(b)') + successes'[b] = Cardinality(Pending(b)) + successes[b]
    <3>1. IsFiniteSet(Pending(b)) /\ Cardinality(Pending(b)) \in Nat
      BY PendingFinite
    <3>2. CASE successes'[b] = successes[b] /\ Pending(b)' = Pending(b)
      BY <3>2
    <3>3. CASE c \in Pending(b) /\ Pending(b)' = Pending(b) \ {c} /\ successes'[b] = successes[b] + 1
      <4>1. Cardinality(Pending(b)') = Cardinality(Pending(b)) - 1
        BY <3>1, <3>3, FS_RemoveElement
      <4> QED
        BY <1>0, <3>1, <3>3, <4>1
    <3> QED
      BY <1>0, <3>2, <3>3, CallCounts
  <2>4. /\ Cardinality(Pending(b)') \in Nat /\ Cardinality(Pending(b)) \in Nat
        /\ Queued(queue, b) \in Nat /\ successes'[b] \in Nat
    <3>1. TypeOK'
      BY CallKeepsTypes
    <3>2. IsFiniteSet(Pending(b)) /\ Cardinality(Pending(b)) \in Nat
      BY PendingFinite
    <3>3. Pending(b)' = Pending(b) \/ Pending(b)' = Pending(b) \ {c}
      BY <1>0, CallCounts
    <3>4. IsFiniteSet(Pending(b)')
      BY <3>2, <3>3, FS_RemoveElement
    <3>5. Cardinality(Pending(b)') \in Nat
      BY <3>4, FS_CardinalityType
    <3>6. Queued(queue, b) \in Nat /\ successes'[b] \in Nat
      BY <1>0, <3>1, Placed DEF TypeOK
    <3> QED
      BY <3>2, <3>5, <3>6
  <2>5. Queued(queue, b) + Cardinality(Pending(b)') + successes'[b]
          = Queued(queue, b) + Cardinality(Pending(b)) + successes[b]
    <3> DEFINE q == Queued(queue, b)
               x == Cardinality(Pending(b)')
               y == Cardinality(Pending(b))
               u == successes'[b]
               v == successes[b]
    <3>1. q \in Nat /\ x \in Nat /\ y \in Nat /\ u \in Nat /\ v \in Nat /\ x + u = y + v
      BY <1>0, <2>3, <2>4
    <3> HIDE DEF q, x, y, u, v
    <3>2. q + x + u = q + y + v
      BY <3>1
    <3> QED
      BY <3>2 DEF q, x, y, u, v
  <2> QED
    BY <1>1, <1>3, <2>1, <2>2, <2>5 DEF Iterated
<1> QED
  BY <1>6, <1>7

LEMMA CountTo == ASSUME NEW n \in Nat PROVE Cardinality(1 .. n) = n
BY FS_Interval

(* Entries of a queue, one for each of some items.                          *)
LEMMA ManyQueued ==
    ASSUME NEW items \in Seq(Item), NEW body \in Node
    PROVE  /\ [i \in DOMAIN items |-> Entry(body, items[i])] \in Seq(Entries)
           /\ Len([i \in DOMAIN items |-> Entry(body, items[i])]) = Len(items)
           /\ \A i \in DOMAIN items :
                [j \in DOMAIN items |-> Entry(body, items[j])][i].node = body
<1> DEFINE m == Len(items)
           more == [i \in DOMAIN items |-> Entry(body, items[i])]
<1>1. m \in Nat /\ DOMAIN items = 1 .. m /\ \A i \in 1 .. m : items[i] \in Item
  OBVIOUS
<1>2. \A i \in 1 .. m : more[i] \in Entries
  BY <1>1 DEF Entry, Entries
<1>3. more \in [1 .. m -> Entries]
  BY <1>1, <1>2
<1>4. \A i \in DOMAIN items : more[i].node = body
  BY DEF Entry
<1> HIDE DEF more, m
<1>5. more \in Seq(Entries) /\ Len(more) = m
  BY <1>1, <1>3
<1> QED
  BY <1>4, <1>5 DEF more, m

LEMMA VisitKeepsIterated ==
    ASSUME TypeOK, Shape, Counted, NEW m \in Node, SkipJoin(m) \/ CallNode(m),
           NEW l \in Node, NEW b \in Node, IsBody(l, b), Iterated(l, b)
    PROVE  Iterated(l, b)'
<1>0. /\ successes \in [Node -> Nat] /\ IsGraph(graph) /\ queue \in Seq(Entries)
      /\ visits \in [Node -> Nat] /\ l # b /\ visits[l] \in Nat /\ visits[m] \in Nat
  BY DEF TypeOK, IsBody
<1>1. /\ queue # <<>> /\ Head(queue).node = m /\ queue' = Tail(queue) /\ phase = "ready"
      /\ visits' = [visits EXCEPT ![m] = @ + 1]
      /\ UNCHANGED <<graph, successes, outputs>> /\ DOMAIN calls = {}
  BY DEF SkipJoin, CallNode, Visit, results, Shape
<1>2. Busy(b) = {} /\ Pending(b) = {} /\ ~AtLoop(l) /\ Required(l)' = Required(l) /\ Required(b) = 1
  BY <1>1, GraphStays DEF Busy, Pending, AtLoop, IsBody
<1>3. Required(l) \in Nat /\ Required(l) >= 1 /\ Required(m) \in Nat
  BY <1>0, RequiredPositive
<1>4. /\ Queued(queue, b) \in Nat /\ Queued(Tail(queue), b) \in Nat
      /\ Queued(Tail(queue), b) + (IF m = b THEN 1 ELSE 0) = Queued(queue, b)
  <2>1. Tail(queue) \in Seq(Entries)
    BY <1>0, <1>1
  <2> QED
    BY <1>0, <1>1, <2>1, Placed, HeadTaken
<1>5. Queued(queue, b)' = Queued(Tail(queue), b)
  BY <1>1 DEF Queued, Places
<1>6. ASSUME visits'[m] >= Required(m) PROVE CallNode(m)
  BY <1>0, <1>1, <1>3, <1>6 DEF SkipJoin
<1>7. ASSUME CallNode(m)
      PROVE  /\ phase' = "node" /\ DOMAIN calls' = {1} /\ calls'[1].node = m
             /\ calls'[1].at = "waiting"
  <2>1. phase' = "node" /\ calls' = <<Call(m, Head(queue).item)>>
    BY <1>7 DEF CallNode
  <2> QED
    BY <2>1 DEF Call
<1>8. ASSUME ~CallNode(m) PROVE phase' = "ready" /\ DOMAIN calls' = {}
  BY <1>1, <1>8 DEF SkipJoin
<1>9. visits'[l] = visits[l] + (IF m = l THEN 1 ELSE 0)
  BY <1>0, <1>1
<1>10. ASSUME visits'[l] >= Required(l), ~AtLoop(l)' PROVE m # l /\ visits[l] >= Required(l)
  <2>1. m # l
    BY <1>6, <1>7, <1>10 DEF AtLoop
  <2> QED
    BY <1>0, <1>9, <1>10, <2>1
<1>11. Untouched(b) => Untouched(b)'
  <2> SUFFICES ASSUME Untouched(b) PROVE Untouched(b)'
    OBVIOUS
  <2>1. Queued(queue, b) = 0 /\ successes[b] = 0
    BY DEF Untouched
  <2>2. m # b /\ Queued(Tail(queue), b) = 0
    BY <1>4, <2>1
  <2>3. Busy(b)' = {}
    BY <1>7, <1>8, <2>2 DEF Busy
  <2> QED
    BY <1>1, <1>5, <2>1, <2>2, <2>3 DEF Untouched
<1>12. AtLoop(l)' => calls'[1].at # "ok"
  BY <1>7, <1>8 DEF AtLoop
<1>13. Queued(queue, b)' + Cardinality(Pending(b)') = Queued(queue, b) + Cardinality(Pending(b))
  <2>1. Cardinality(Pending(b)) = 0
    BY <1>2, FS_EmptySet
  <2>2. CASE m = b
    <3>1. visits'[b] >= 1
      BY <1>0, <1>1, <2>2
    <3>2. CallNode(m)
      BY <1>2, <1>6, <2>2, <3>1
    <3>3. Pending(b)' = {1}
      BY <1>7, <2>2, <3>2 DEF Pending, Busy
    <3>4. Cardinality(Pending(b)') = 1
      BY <3>3, FS_Singleton
    <3> QED
      BY <1>4, <1>5, <2>1, <2>2, <3>4
  <2>3. CASE m # b
    <3>1. Pending(b)' = {}
      BY <1>7, <1>8, <2>3 DEF Pending, Busy
    <3>2. Cardinality(Pending(b)') = 0
      BY <3>1, FS_EmptySet
    <3> QED
      BY <1>4, <1>5, <2>1, <2>3, <3>2
  <2> QED
    BY <2>2, <2>3
<1>14. visits[l] < Required(l) \/ visits[l] >= Required(l)
  BY <1>0, <1>3
<1>15. visits'[l] < Required(l) => visits[l] < Required(l)
  BY <1>0, <1>3, <1>9
<1>16. successes[l] = 0 => Untouched(b)' /\ (visits'[l] >= Required(l) => AtLoop(l)')
  BY <1>2, <1>10, <1>11 DEF Iterated
<1>17. successes[l] = 1 /\ visits'[l] < Required(l) => Untouched(b)'
  BY <1>11, <1>15 DEF Iterated
<1>18. /\ successes[l] = 1 /\ visits'[l] >= Required(l) /\ ~AtLoop(l)' /\ outputs[l].branch = "start"
       => Queued(queue, b)' + Cardinality(Pending(b)') + successes[b] = Len(outputs[l].items)
  <2> SUFFICES ASSUME successes[l] = 1, visits'[l] >= Required(l), ~AtLoop(l)', outputs[l].branch = "start"
               PROVE  Queued(queue, b)' + Cardinality(Pending(b)') + successes[b] = Len(outputs[l].items)
    OBVIOUS
  <2>1. visits[l] >= Required(l)
    BY <1>10
  <2>2. Queued(queue, b) + Cardinality(Pending(b)) + successes[b] = Len(outputs[l].items)
    BY <1>2, <2>1 DEF Iterated
  <2> QED
    BY <1>13, <2>2
<1> QED
  BY <1>1, <1>2, <1>12, <1>16, <1>17, <1>18 DEF Iterated

(* What a node called from the queue does not bring about: entries or calls *)
(* of a body that is not its own.                                           *)
LEMMA LeavesAlone ==
    ASSUME TypeOK, Shape, NEW n \in Node, NEW l \in Node, NEW b \in Node, IsBody(l, b), n # l,
           StopBranch(n) \/ FanOut(n) \/ Iterate(n) \/ Traverse(n)
    PROVE  Queued(queue', b) = Queued(queue, b) /\ Busy(b)' = {}
<1>0. /\ IsGraph(graph) /\ queue \in Seq(Entries) /\ Between(n, b) = {} /\ b \notin Body(n)
      /\ Body(n) \subseteq Node
  BY OnlySource DEF TypeOK
<1>1. Returned(n) /\ DOMAIN calls = {1}
  BY DEF StopBranch, FanOut, Iterate, Traverse, Continues, Returned, Shape
<1>2. IsCall(calls[1])
  BY <1>1 DEF TypeOK
<1>3. ASSUME calls' = <<>> PROVE Busy(b)' = {}
  BY <1>3 DEF Busy
<1>4. CASE StopBranch(n)
  BY <1>3, <1>4 DEF StopBranch, Ready
<1>5. CASE FanOut(n)
  <2> DEFINE edges == graph.out[n]
  <2>1. /\ calls' = [i \in DOMAIN edges |-> Call(edges[i].to, calls[1].item)] /\ queue' = queue
    BY <1>5 DEF FanOut, Gather
  <2>2. \A i \in DOMAIN edges : edges[i].to # b
    BY <1>0 DEF Between
  <2>3. \A i \in DOMAIN calls' : calls'[i].node # b
    BY <2>1, <2>2 DEF Call
  <2> QED
    BY <2>1, <2>3 DEF Busy
<1>6. CASE Iterate(n)
  <2> DEFINE items == calls[1].result.items
  <2>1. CASE Ready /\ UNCHANGED queue
    BY <1>3, <2>1 DEF Ready
  <2>2. ASSUME NEW body \in Body(n), Ready,
               queue' = queue \o [i \in DOMAIN items |-> Entry(body, items[i])]
        PROVE  Queued(queue', b) = Queued(queue, b) /\ Busy(b)' = {}
    <3> DEFINE more == [i \in DOMAIN items |-> Entry(body, items[i])]
    <3>1. more \in Seq(Entries) /\ \A i \in DOMAIN items : more[i].node = body
      BY <1>0, <1>2, <2>2, ManyQueued DEF IsCall, AnyResult
    <3>2. Places(more, b) = {}
      <4>1. DOMAIN more = DOMAIN items /\ DOMAIN more = 1 .. Len(more)
        BY <3>1
      <4> HIDE DEF more
      <4> QED
        BY <1>0, <2>2, <3>1, <4>1 DEF Places
    <3>3. Queued(more, b) = 0
      BY <3>2, FS_EmptySet DEF Queued
    <3> HIDE DEF more
    <3>4. Queued(queue \o more, b) = Queued(queue, b) + 0
      BY <1>0, <3>1, <3>3, Appended
    <3>5. Queued(queue, b) \in Nat
      BY <1>0, Placed
    <3> QED
      BY <1>3, <2>2, <3>4, <3>5 DEF Ready, more
  <2>3. ASSUME NEW body \in Body(n), UNCHANGED queue,
               Gather([i \in DOMAIN items |-> Call(body, items[i])], calls[1].result.width)
        PROVE  Queued(queue', b) = Queued(queue, b) /\ Busy(b)' = {}
    <3>1. \A i \in DOMAIN calls' : calls'[i].node = body
      BY <2>3 DEF Gather, Call
    <3> QED
      BY <1>0, <2>3, <3>1 DEF Busy
  <2> QED
    BY <1>6, <2>1, <2>2, <2>3 DEF Iterate
<1>7. CASE Traverse(n)
  <2>1. queue' = queue \o Follow(n, calls[1].item) /\ calls' = <<>>
    BY <1>7 DEF Traverse, Ready
  <2>2. Follow(n, calls[1].item) \in Seq(Entries)
    BY <1>0, <1>2, FollowOK DEF IsCall
  <2>3. Queued(Follow(n, calls[1].item), b) <= Cardinality(Between(n, b))
    BY <1>0, FollowedOnce
  <2>4. Queued(Follow(n, calls[1].item), b) \in Nat /\ Queued(queue, b) \in Nat
    BY <1>0, <2>2, Placed
  <2>5. Cardinality(Between(n, b)) = 0
    BY <1>0, FS_EmptySet
  <2>6. Queued(queue \o Follow(n, calls[1].item), b) = Queued(queue, b) + Queued(Follow(n, calls[1].item), b)
    BY <1>0, <2>2, Appended
  <2> QED
    BY <1>3, <2>1, <2>3, <2>4, <2>5, <2>6
<1> QED
  BY <1>4, <1>5, <1>6, <1>7

(* The loop itself: its items are queued, or called, all of them.           *)
LEMMA IterateServes ==
    ASSUME TypeOK, Shape, NEW l \in Node, NEW b \in Node, IsBody(l, b), Iterate(l), Untouched(b)
    PROVE  Queued(queue', b) + Cardinality(Pending(b)') + successes'[b] = Len(calls[1].result.items)
<1> DEFINE items == calls[1].result.items
<1>0. /\ IsGraph(graph) /\ queue \in Seq(Entries) /\ Body(l) = {b} /\ b \in Node
  BY OnlySource DEF TypeOK
<1>1. Returned(l) /\ DOMAIN calls = {1}
  BY DEF Iterate, Continues, Returned, Shape
<1>2. items \in Seq(Item) /\ Len(items) \in Nat /\ DOMAIN items = 1 .. Len(items)
  <2>1. items \in Seq(Item)
    BY <1>1 DEF TypeOK, IsCall, AnyResult
  <2> QED
    BY <2>1
<1>3. successes'[b] = 0 /\ Queued(queue, b) = 0
  BY DEF Iterate, results, Untouched
<1>4. ASSUME calls' = <<>> PROVE Cardinality(Pending(b)') = 0
  <2>1. Pending(b)' = {}
    BY <1>4 DEF Pending, Busy
  <2> QED
    BY <2>1, FS_EmptySet
<1>5. CASE Ready /\ UNCHANGED queue /\ items = <<>>
  BY <1>3, <1>4, <1>5 DEF Ready
<1>6. CASE Ready /\ queue' = queue \o [i \in DOMAIN items |-> Entry(b, items[i])]
  <2> DEFINE more == [i \in DOMAIN items |-> Entry(b, items[i])]
  <2>1. more \in Seq(Entries) /\ Len(more) = Len(items) /\ \A i \in DOMAIN items : more[i].node = b
    BY <1>2, ManyQueued
  <2> HIDE DEF more, items
  <2>2. Places(more, b) = 1 .. Len(items)
    BY <1>2, <2>1 DEF Places
  <2>3. Queued(more, b) = Len(items)
    BY <1>2, <2>2, CountTo DEF Queued
  <2>4. Queued(queue \o more, b) = Queued(queue, b) + Queued(more, b)
    BY <1>0, <2>1, Appended
  <2>5. queue' = queue \o more /\ Cardinality(Pending(b)') = 0
    BY <1>4, <1>6 DEF more, items, Ready
  <2> QED
    BY <1>2, <1>3, <2>3, <2>4, <2>5 DEF items
<1>7. CASE /\ UNCHANGED queue
           /\ Gather([i \in DOMAIN items |-> Call(b, items[i])], calls[1].result.width)
  <2>1. /\ calls' = [i \in DOMAIN items |-> Call(b, items[i])] /\ queue' = queue
    BY <1>7 DEF Gather
  <2> HIDE DEF items
  <2>2. /\ DOMAIN calls' = 1 .. Len(items)
        /\ \A i \in DOMAIN calls' : calls'[i].node = b /\ calls'[i].at = "waiting"
    BY <1>2, <2>1 DEF Call
  <2>3. Pending(b)' = 1 .. Len(items)
    BY <2>2 DEF Pending, Busy
  <2>4. Cardinality(Pending(b)') = Len(items)
    BY <1>2, <2>3, CountTo
  <2> QED
    BY <1>2, <1>3, <2>1, <2>4 DEF items
<1> QED
  BY <1>0, <1>5, <1>6, <1>7 DEF Iterate

LEMMA ReturnKeepsIterated ==
    ASSUME TypeOK, Shape, Counted, NEW n \in Node,
           StopBranch(n) \/ FanOut(n) \/ Iterate(n) \/ Traverse(n),
           NEW l \in Node, NEW b \in Node, IsBody(l, b), Iterated(l, b)
    PROVE  Iterated(l, b)'
<1>0. /\ successes \in [Node -> Nat] /\ IsGraph(graph) /\ queue \in Seq(Entries)
      /\ visits \in [Node -> Nat] /\ l # b /\ l \notin graph.pinned /\ Required(l) \in Nat
  BY RequiredPositive DEF TypeOK, IsBody
<1>1. /\ phase = "node" /\ calls[1].node = n /\ calls[1].at = "ok" /\ DOMAIN calls = {1}
      /\ phase' \in {"ready", "gather"} /\ UNCHANGED <<graph, visits, successes, outputs>>
  BY DEF StopBranch, FanOut, Iterate, Traverse, Continues, Returned, Shape, Ready, Gather, results
<1>2. /\ ~AtLoop(l)' /\ Required(l)' = Required(l) /\ (AtLoop(l) <=> n = l)
      /\ Queued(queue, b)' = Queued(queue', b)
  BY <1>1, GraphStays DEF AtLoop, Queued, Places
<1>3. n = l => successes[l] # 0 /\ visits[l] >= Required(l)
  BY <1>0, <1>1 DEF Counted
<1>4. n # l => Queued(queue', b) = Queued(queue, b) /\ Busy(b)' = {} /\ Cardinality(Pending(b)') = 0
  <2> SUFFICES ASSUME n # l
               PROVE  /\ Queued(queue', b) = Queued(queue, b) /\ Busy(b)' = {}
                      /\ Cardinality(Pending(b)') = 0
    OBVIOUS
  <2>1. Queued(queue', b) = Queued(queue, b) /\ Busy(b)' = {}
    BY LeavesAlone
  <2>2. Pending(b)' = {}
    BY <2>1 DEF Pending
  <2> QED
    BY <2>1, <2>2, FS_EmptySet
<1>5. n # l => (Untouched(b) => Untouched(b)')
  BY <1>1, <1>2, <1>4 DEF Untouched
<1>6. successes[l] = 0 => Untouched(b)' /\ ~(visits[l] >= Required(l))
  BY <1>2, <1>3, <1>5 DEF Iterated
<1>7. successes[l] = 1 /\ visits[l] < Required(l) => Untouched(b)'
  <2>1. ~(visits[l] < Required(l) /\ visits[l] >= Required(l))
    BY <1>0
  <2> QED
    BY <1>3, <1>5, <2>1 DEF Iterated
<1>8. /\ successes[l] = 1 /\ visits[l] >= Required(l) /\ outputs[l].branch = "start"
      => Queued(queue', b) + Cardinality(Pending(b)') + successes[b] = Len(outputs[l].items)
  <2> SUFFICES ASSUME successes[l] = 1, visits[l] >= Required(l), outputs[l].branch = "start"
               PROVE  Queued(queue', b) + Cardinality(Pending(b)') + successes[b]
                        = Len(outputs[l].items)
    OBVIOUS
  <2>1. CASE n = l
    <3>1. Untouched(b) /\ calls[1].result = outputs[l]
      BY <1>1, <1>2, <2>1 DEF Iterated
    <3>2. Selected = "start" /\ graph.kind[l] = "loop"
      BY <3>1 DEF Selected, IsBody
    <3>3. ~FansOut(l)
      BY <3>2 DEF FansOut
    <3>4. Iterate(l)
      BY <2>1, <3>2, <3>3 DEF StopBranch, FanOut, Traverse
    <3>5. Queued(queue', b) + Cardinality(Pending(b)') + successes'[b] = Len(calls[1].result.items)
      BY <3>1, <3>4, IterateServes
    <3> QED
      BY <1>1, <3>1, <3>5
  <2>2. CASE n # l
    <3>1. Queued(queue, b) + Cardinality(Pending(b)) + successes[b] = Len(outputs[l].items)
      BY <1>2, <2>2 DEF Iterated
    <3>2. Pending(b) = {}
      BY <1>1 DEF Pending, Busy
    <3>3. Cardinality(Pending(b)) = 0
      BY <3>2, FS_EmptySet
    <3> QED
      BY <1>4, <2>2, <3>1, <3>3
  <2> QED
    BY <2>1, <2>2
<1> QED
  BY <1>1, <1>2, <1>6, <1>7, <1>8 DEF Iterated

LEMMA ReturnReplaces ==
    ASSUME NEW n \in Node, StopBranch(n) \/ FanOut(n) \/ Iterate(n) \/ Traverse(n)
    PROVE  \A c \in DOMAIN calls' : calls'[c].at = "waiting"
<1>1. CASE StopBranch(n) \/ Traverse(n)
  BY <1>1 DEF StopBranch, Traverse, Ready
<1>2. CASE FanOut(n)
  BY <1>2 DEF FanOut, Gather, Call
<1>3. CASE Iterate(n)
  <2>1. CASE Ready
    BY <2>1 DEF Ready
  <2>2. ASSUME NEW body \in Body(n),
               Gather([i \in DOMAIN calls[1].result.items |->
                           Call(body, calls[1].result.items[i])], calls[1].result.width)
        PROVE  \A c \in DOMAIN calls' : calls'[c].at = "waiting"
    BY <2>2 DEF Gather, Call
  <2> QED
    BY <1>3, <2>1, <2>2 DEF Iterate
<1> QED
  BY <1>1, <1>2, <1>3

LEMMA NodeKeepsLoops ==
    ASSUME TypeOK, Surface, Loops, NEW n \in Node, NodeStep(n) PROVE Loops'
<1>0. /\ Shape /\ Counted /\ phase \in {"ready", "node"} /\ ~Over /\ state = "ACTIVE"
  <2>1. phase \in {"ready", "node"}
    BY DEF NodeStep, SkipJoin, CallNode, Visit, Pause, StopBranch, FanOut, Iterate, Traverse,
           Continues, Returned
  <2> QED
    BY <2>1 DEF Surface, Loops, Over
<1>1. LoopServed'
  <2>1. state' # "COMPLETED"
    BY <1>0 DEF NodeStep, SkipJoin, CallNode, Pause, StopBranch, FanOut, Iterate, Traverse
  <2> QED
    BY <2>1 DEF LoopServed
<1>2. UNCHANGED <<graph, successes, outputs>>
  BY DEF NodeStep, SkipJoin, CallNode, Pause, StopBranch, FanOut, Iterate, Traverse, results
<1>3. CASE SkipJoin(n) \/ CallNode(n)
  <2>1. Counted'
    <3>1. CASE SkipJoin(n)
      <4>1. phase = "ready" /\ phase' = "ready" /\ calls' = calls
        BY <3>1 DEF SkipJoin, Visit
      <4> QED
        BY <1>0, <1>2, <4>1 DEF Counted
    <3>2. CASE CallNode(n)
      <4>1. phase' = "node" /\ calls' = <<Call(n, Head(queue).item)>> /\ visits'[n] >= Required(n)
        BY <3>2 DEF CallNode
      <4>2. DOMAIN calls' = {1} /\ calls'[1].node = n /\ calls'[1].at = "waiting"
        BY <4>1 DEF Call
      <4> QED
        BY <1>0, <1>2, <4>1, <4>2, GraphStays DEF Counted
    <3> QED
      BY <1>3, <3>1, <3>2
  <2>2. phase = "ready"
    BY <1>3 DEF SkipJoin, CallNode, Visit
  <2>3. \A l, b \in Node : IsBody(l, b)' => Iterated(l, b)'
    BY <1>0, <1>2, <1>3, <2>2, BodyStays, VisitKeepsIterated DEF Loops
  <2> QED
    BY <1>1, <2>1, <2>3 DEF Loops
<1>4. CASE StopBranch(n) \/ FanOut(n) \/ Iterate(n) \/ Traverse(n)
  <2>1. phase = "node" /\ phase' \in {"ready", "gather"} /\ visits' = visits
    BY <1>4 DEF StopBranch, FanOut, Iterate, Traverse, Continues, Returned, Ready, Gather
  <2>2. \A c \in DOMAIN calls' : calls'[c].at = "waiting"
    BY <1>4, ReturnReplaces
  <2>3. Counted'
    BY <1>0, <1>2, <2>1, <2>2 DEF Counted
  <2>4. \A l, b \in Node : IsBody(l, b)' => Iterated(l, b)'
    BY <1>0, <1>2, <1>4, <2>1, BodyStays, ReturnKeepsIterated DEF Loops
  <2> QED
    BY <1>1, <2>3, <2>4 DEF Loops
<1>5. CASE Pause(n)
  <2>1. phase' = "over" /\ calls' = calls
    BY <1>5 DEF Pause
  <2>2. Counted'
    BY <1>0, <1>2, <2>1 DEF Counted
  <2> QED
    BY <1>1, <2>1, <2>2 DEF Loops
<1> QED
  BY <1>3, <1>4, <1>5 DEF NodeStep

LEMMA CallKeepsLoops ==
    ASSUME TypeOK, Surface, Loops, NEW c \in DOMAIN calls, CallStep(c) PROVE Loops'
<1>1. calls[c].at \notin {"ok", "error"}
  BY CallMoves DEF Moves
<1>2. ~Over /\ state = "ACTIVE" /\ state' = state /\ phase' = phase /\ graph' = graph
  <2>1. ~Over
    BY <1>1 DEF Surface, QuietWhenOver, Done
  <2>2. graph' = graph
    BY DEF CallStep, UsePinned, Enter, Refuse, Attempt, Succeed, FailAttempt, GiveUp, Outside
  <2> QED
    BY <2>1, <2>2, CallMoves DEF Surface
<1>3. Counted'
  BY CallKeepsCounted DEF Surface, Loops
<1>4. LoopServed'
  BY <1>2 DEF LoopServed
<1>5. phase' \in {"ready", "node", "gather"} => \A l, b \in Node : IsBody(l, b)' => Iterated(l, b)'
  BY <1>2, BodyStays, CallKeepsIterated DEF Surface, Loops
<1> QED
  BY <1>3, <1>4, <1>5 DEF Loops

LEMMA RunKeepsLoops == ASSUME TypeOK, Surface, Loops, RunStep PROVE Loops'
<1>0. Shape /\ Counted /\ IsGraph(graph)
  BY DEF Surface, Loops, TypeOK
<1>1. CASE Begin
  <2>1. /\ phase = "idle" /\ phase' = "ready" /\ queue' = <<Entry(StartNode, NoItem)>>
        /\ UNCHANGED <<graph, visits, state, calls, successes, outputs>> /\ DOMAIN calls = {}
    BY <1>0, <1>1 DEF Begin, results, Shape
  <2>2. \A n \in Node : visits[n] = 0 /\ successes[n] = 0
    BY <1>0, <2>1 DEF Counted
  <2>3. Counted'
    BY <1>0, <2>1 DEF Counted
  <2>4. ASSUME NEW l \in Node, NEW b \in Node, IsBody(l, b)' PROVE Iterated(l, b)'
    <3>1. IsBody(l, b)
      BY <2>1, <2>4, BodyStays
    <3>2. Len(queue') = 1 /\ queue'[1].node = StartNode
      BY <2>1 DEF Entry
    <3>3. Places(queue, b)' = {}
      BY <3>1, <3>2 DEF Places, IsBody
    <3>4. Untouched(b)'
      BY <2>1, <2>2, <3>3, FS_EmptySet DEF Untouched, Queued, Busy
    <3>5. Required(l)' >= 1 /\ visits'[l] = 0 /\ successes'[l] = 0
      BY <1>0, <2>1, <2>2, GraphStays, RequiredPositive
    <3>6. ~(visits'[l] >= Required(l)')
      BY <1>0, <2>1, <3>5, GraphStays, RequiredPositive
    <3> QED
      BY <3>4, <3>5, <3>6 DEF Iterated
  <2>5. LoopServed'
    BY <2>1 DEF LoopServed, Surface, Over
  <2> QED
    BY <2>3, <2>4, <2>5 DEF Loops
<1>2. CASE BeginSingle
  <2>1. /\ phase = "idle" /\ phase' = "single"
        /\ UNCHANGED <<graph, visits, state, successes, outputs>>
    BY <1>2 DEF BeginSingle, results
  <2>2. \A c \in DOMAIN calls' : calls'[c].at = "waiting"
    BY <1>2 DEF BeginSingle, Call
  <2>3. Counted'
    BY <1>0, <2>1, <2>2 DEF Counted
  <2>4. LoopServed'
    BY <2>1 DEF LoopServed, Surface, Over
  <2> QED
    BY <2>1, <2>3, <2>4 DEF Loops
<1>3. CASE GatherReturns
  <2>1. /\ phase = "gather" /\ phase' = "ready" /\ calls' = <<>>
        /\ UNCHANGED <<graph, queue, visits, state, successes, outputs>>
    BY <1>3 DEF GatherReturns, Ready, results
  <2>2. \A c \in DOMAIN calls : calls[c].at = "ok"
    BY <1>3 DEF GatherReturns, Done, At
  <2>3. DOMAIN calls' = {}
    BY <2>1
  <2>4. Counted'
    BY <1>0, <2>1, <2>3 DEF Counted
  <2>5. ASSUME NEW l \in Node, NEW b \in Node, IsBody(l, b)' PROVE Iterated(l, b)'
    <3>1. Iterated(l, b)
      BY <2>1, <2>5, BodyStays DEF Loops
    <3>2. Busy(b)' = {} /\ Pending(b)' = {} /\ Pending(b) = {} /\ ~AtLoop(l) /\ ~AtLoop(l)'
      BY <2>1, <2>2, <2>3 DEF Busy, Pending, AtLoop
    <3>3. Untouched(b) => Untouched(b)'
      BY <2>1, <3>2 DEF Untouched, Queued, Places
    <3>4. Queued(queue, b)' = Queued(queue, b) /\ Required(l)' = Required(l)
      BY <2>1, GraphStays DEF Queued, Places
    <3>5. Cardinality(Pending(b)') = Cardinality(Pending(b))
      BY <3>2
    <3> QED
      BY <2>1, <3>1, <3>2, <3>3, <3>4, <3>5 DEF Iterated
  <2>6. LoopServed'
    BY <2>1 DEF LoopServed, Surface, Over
  <2> QED
    BY <2>4, <2>5, <2>6 DEF Loops
<1>4. CASE Raise
  <2>1. /\ phase' = "over" /\ state' = "FAILED"
        /\ UNCHANGED <<graph, queue, visits, calls, successes, outputs>>
    BY <1>4 DEF Raise, results
  <2>2. Counted' /\ LoopServed'
    BY <1>0, <2>1 DEF Counted, LoopServed
  <2> QED
    BY <2>1, <2>2 DEF Loops
<1>5. CASE Complete
  <2>1. /\ phase = "ready" /\ queue = <<>> /\ phase' = "over" /\ DOMAIN calls = {}
        /\ UNCHANGED <<graph, queue, visits, calls, successes, outputs>>
    BY <1>0, <1>5 DEF Complete, results, Shape
  <2>2. Counted'
    BY <1>0, <2>1 DEF Counted
  <2>3. ASSUME NEW l \in Node, NEW b \in Node, IsBody(l, b), outputs[l].branch = "start",
               visits[l] >= Required(l), successes[l] = 1
        PROVE  successes[b] = Len(outputs[l].items)
    <3>1. Queued(queue, b) + Cardinality(Pending(b)) + successes[b] = Len(outputs[l].items)
      BY <2>1, <2>3 DEF Loops, Iterated, AtLoop
    <3>2. Pending(b) = {} /\ Places(queue, b) = {}
      BY <2>1 DEF Pending, Busy, Places
    <3>3. Cardinality(Pending(b)) = 0 /\ Queued(queue, b) = 0
      BY <3>2, FS_EmptySet DEF Queued
    <3>4. successes[b] \in Nat
      BY DEF TypeOK
    <3> QED
      BY <3>1, <3>3, <3>4
  <2>4. \A l \in Node : Body(l) \subseteq Node
    BY <1>0, BodyNodes
  <2>5. LoopServed'
    BY <2>1, <2>3, <2>4, GraphStays DEF LoopServed, IsBody, Body, StartEdges
  <2> QED
    BY <2>1, <2>2, <2>5 DEF Loops
<1>6. CASE Cancel
  <2>1. /\ phase' = "over" /\ calls' = <<>> /\ ~Over
        /\ UNCHANGED <<graph, queue, visits, state, successes, outputs>>
    BY <1>6 DEF Cancel, results
  <2>2. DOMAIN calls' = {}
    BY <2>1
  <2>3. Counted' /\ LoopServed'
    BY <1>0, <2>1, <2>2 DEF Counted, LoopServed, Surface
  <2> QED
    BY <2>1, <2>3 DEF Loops
<1>7. CASE SingleEnds
  <2>1. /\ phase = "single" /\ phase' = "over"
        /\ UNCHANGED <<graph, queue, visits, calls, successes, outputs>>
    BY <1>7 DEF SingleEnds, results
  <2>2. Counted'
    BY <1>0, <2>1 DEF Counted
  <2>3. \A l \in Node : ~(visits'[l] >= Required(l)')
    <3> TAKE l \in Node
    <3>1. visits'[l] = 0 /\ Required(l)' = Required(l)
      BY <1>0, <2>1, GraphStays DEF Counted
    <3> QED
      BY <1>0, <3>1, RequiredPositive
  <2>4. LoopServed'
    BY <2>3 DEF LoopServed
  <2> QED
    BY <2>1, <2>2, <2>4 DEF Loops
<1> QED
  BY <1>1, <1>2, <1>3, <1>4, <1>5, <1>6, <1>7 DEF RunStep

(* In every graph, cyclic ones included: a loop that ran once, from the     *)
(* queue, has had the first node of its body run once for every item, one   *)
(* after the other or side by side, when the run is COMPLETED.              *)
THEOREM LoopsServed == Spec => []LoopServed
<1>1. Init => Loops
  <2> SUFFICES ASSUME Init PROVE Loops
    OBVIOUS
  <2>1. DOMAIN calls = {} /\ phase = "idle" /\ state = "ACTIVE"
    BY DEF Init
  <2>2. Counted
    BY <2>1 DEF Init, Counted
  <2> QED
    BY <2>1, <2>2 DEF Loops, LoopServed
<1>2. TypeOK /\ Surface /\ Loops /\ [Next]_vars => Loops'
  <2>1. ASSUME Loops, UNCHANGED vars PROVE Loops'
    <3>1. \A l, b : (IsBody(l, b)' <=> IsBody(l, b)) /\ (Iterated(l, b)' <=> Iterated(l, b))
      BY <2>1, GraphStays, BodyStays
         DEF vars, Iterated, Untouched, Queued, Places, Busy, Pending, AtLoop
    <3>2. Counted' /\ LoopServed'
      BY <2>1, GraphStays DEF vars, Counted, LoopServed, Loops, Body, StartEdges
    <3> QED
      BY <2>1, <3>1, <3>2 DEF vars, Loops
  <2> QED
    BY <2>1, Steps, CallKeepsLoops, NodeKeepsLoops, RunKeepsLoops
<1>3. Loops => LoopServed
  BY DEF Loops
<1> QED
  BY <1>1, <1>2, <1>3, TypesKept, SurfaceKept, PTL DEF Spec

-----------------------------------------------------------------------------
(* A run does not go on for ever: what stands in the queue, where run() is, *)
(* and what the calls it waits for have yet to do, retries included. A step *)
(* puts another node in the execution order or leaves less of the three.    *)
Ahead == IF phase = "idle" THEN Len(queue) + 2 ELSE Len(queue)
StageRank == IF phase = "over" THEN 0 ELSE IF phase = "ready" THEN 1 ELSE 2
Count(S) == Cardinality(At(S))
Toil == Count({"waiting"}) + Count({"waiting", "ready"})
          + Count({"waiting", "ready", "running"}) + 2 * (MaxFaults - faults)

Eases ==
    \/ Ahead' < Ahead
    \/ Ahead' = Ahead /\ StageRank' < StageRank
    \/ Ahead' = Ahead /\ StageRank' = StageRank /\ Toil' < Toil
Tracks == \E n \in Node : order' = Append(order, n)
RunsDown == Tracks \/ (order' = order /\ Eases)

LEMMA CallFaults ==
    ASSUME NEW c \in DOMAIN calls, CallStep(c), faults \in 0 .. MaxFaults
    PROVE  /\ UNCHANGED <<queue, phase, order>>
           /\ faults' \in 0 .. MaxFaults /\ faults <= faults'
           /\ calls[c].at = "running" /\ calls'[c].at = "ready" => faults' = faults + 1
<1> USE BoundAssumption DEF Step, Move, Outside, results
<1>1. CASE UsePinned(c)
  BY <1>1 DEF UsePinned
<1>2. CASE Enter(c)
  BY <1>2 DEF Enter, MayEnter, At
<1>3. CASE Refuse(c)
  BY <1>3 DEF Refuse
<1>4. CASE Attempt(c)
  BY <1>4 DEF Attempt, At
<1>5. CASE Succeed(c)
  BY <1>5 DEF Succeed
<1>6. CASE FailAttempt(c)
  BY <1>6 DEF FailAttempt
<1>7. CASE GiveUp(c)
  BY <1>7 DEF GiveUp
<1> QED
  BY <1>1, <1>2, <1>3, <1>4, <1>5, <1>6, <1>7 DEF CallStep

(* How a call that moves changes the number of calls at some places.        *)
LEMMA CountChanges ==
    ASSUME Shape, NEW c \in DOMAIN calls, CallStep(c), NEW S
    PROVE  /\ Count(S) \in Nat /\ Count(S)' \in Nat
           /\ (calls[c].at \in S) = (calls'[c].at \in S) => Count(S)' = Count(S)
           /\ calls[c].at \in S /\ calls'[c].at \notin S => Count(S)' = Count(S) - 1
           /\ calls[c].at \notin S /\ calls'[c].at \in S => Count(S)' = Count(S) + 1
<1> DEFINE here == At(S)
           there == {d \in DOMAIN calls' : calls'[d].at \in S}
<1>1. here \in SUBSET DOMAIN calls /\ there \in SUBSET DOMAIN calls
  BY CallMoves DEF At
<1>2. IsFiniteSet(DOMAIN calls)
  BY DEF Shape
<1>3. /\ calls[c].at \in S /\ calls'[c].at \in S => there = here
      /\ calls[c].at \notin S /\ calls'[c].at \notin S => there = here
      /\ calls[c].at \in S /\ calls'[c].at \notin S => there = here \ {c} /\ c \in here
      /\ calls[c].at \notin S /\ calls'[c].at \in S => there = here \cup {c} /\ c \notin here
  BY CallMoves DEF At
<1>4. Count(S) = Cardinality(here) /\ Count(S)' = Cardinality(there)
  BY DEF Count, At
<1> HIDE DEF here, there
<1>5. /\ IsFiniteSet(here) /\ Cardinality(here) \in Nat
      /\ IsFiniteSet(there) /\ Cardinality(there) \in Nat
  BY <1>1, <1>2, FS_Subset, FS_CardinalityType
<1>6. /\ c \in here => Cardinality(here \ {c}) = Cardinality(here) - 1
      /\ c \notin here => Cardinality(here \cup {c}) = Cardinality(here) + 1
  BY <1>5, FS_AddElement, FS_RemoveElement
<1> QED
  BY <1>3, <1>4, <1>5, <1>6

LEMMA Falls ==
    ASSUME NEW a \in Nat, NEW b \in Nat, NEW d \in Nat, NEW e \in Nat,
           NEW a2 \in Nat, NEW b2 \in Nat, NEW d2 \in Nat, NEW e2 \in Nat, e2 <= e,
           \/ a2 + b2 + d2 < a + b + d
           \/ a2 + b2 + d2 = a + b + d + 1 /\ e2 < e
    PROVE  a2 + b2 + d2 + 2 * e2 < a + b + d + 2 * e
OBVIOUS

LEMMA Spares ==
    ASSUME NEW m \in Nat, NEW f \in 0 .. m, NEW f2 \in 0 .. m, f <= f2
    PROVE  /\ m - f \in Nat /\ m - f2 \in Nat /\ m - f2 <= m - f
           /\ f2 = f + 1 => m - f2 < m - f
OBVIOUS

LEMMA CallEases ==
    ASSUME TypeOK, Shape, NEW c \in DOMAIN calls, CallStep(c) PROVE RunsDown
<1>1. /\ UNCHANGED <<queue, phase, order>>
      /\ MaxFaults \in Nat
      /\ faults \in 0 .. MaxFaults /\ faults' \in 0 .. MaxFaults /\ faults <= faults'
      /\ calls[c].at = "running" /\ calls'[c].at = "ready" => faults' = faults + 1
  BY CallFaults, BoundAssumption DEF TypeOK
<1>2. Ahead' = Ahead /\ StageRank' = StageRank
  BY <1>1 DEF Ahead, StageRank
<1>3. PICK a \in Nat, a2 \in Nat :
           a = Count({"waiting"}) /\ a2 = Count({"waiting"})'
  BY CountChanges
<1>4. PICK b \in Nat, b2 \in Nat :
           b = Count({"waiting", "ready"}) /\ b2 = Count({"waiting", "ready"})'
  BY CountChanges
<1>5. PICK d \in Nat, d2 \in Nat :
           /\ d = Count({"waiting", "ready", "running"})
           /\ d2 = Count({"waiting", "ready", "running"})'
  BY CountChanges
<1>6. PICK e \in Nat, e2 \in Nat :
           /\ e = MaxFaults - faults /\ e2 = MaxFaults - faults' /\ e2 <= e
           /\ calls[c].at = "running" /\ calls'[c].at = "ready" => e2 < e
  <2>1. /\ MaxFaults - faults \in Nat /\ MaxFaults - faults' \in Nat
        /\ MaxFaults - faults' <= MaxFaults - faults
        /\ faults' = faults + 1 => MaxFaults - faults' < MaxFaults - faults
    BY <1>1, Spares
  <2> QED
    BY <1>1, <2>1
<1>7. \/ a2 + b2 + d2 < a + b + d
      \/ a2 + b2 + d2 = a + b + d + 1 /\ e2 < e
  <2>1. CASE calls[c].at = "waiting" /\ calls'[c].at = "ready"
    <3>1. a2 = a - 1
      BY <1>3, <2>1, CountChanges
    <3>2. b2 = b
      BY <1>4, <2>1, CountChanges
    <3>3. d2 = d
      BY <1>5, <2>1, CountChanges
    <3> QED
      BY <3>1, <3>2, <3>3
  <2>2. CASE calls[c].at = "ready" /\ calls'[c].at = "running"
    <3>1. a2 = a
      BY <1>3, <2>2, CountChanges
    <3>2. b2 = b - 1
      BY <1>4, <2>2, CountChanges
    <3>3. d2 = d
      BY <1>5, <2>2, CountChanges
    <3> QED
      BY <3>1, <3>2, <3>3
  <2>3. CASE calls[c].at = "running" /\ calls'[c].at = "ready"
    <3>1. a2 = a
      BY <1>3, <2>3, CountChanges
    <3>2. b2 = b + 1
      BY <1>4, <2>3, CountChanges
    <3>3. d2 = d
      BY <1>5, <2>3, CountChanges
    <3> QED
      BY <1>6, <2>3, <3>1, <3>2, <3>3
  <2>4. CASE calls[c].at = "waiting" /\ calls'[c].at \in {"ok", "error"}
    <3>1. a2 = a - 1
      BY <1>3, <2>4, CountChanges
    <3>2. b2 = b - 1
      BY <1>4, <2>4, CountChanges
    <3>3. d2 = d - 1
      BY <1>5, <2>4, CountChanges
    <3> QED
      BY <3>1, <3>2, <3>3
  <2>5. CASE calls[c].at = "running" /\ calls'[c].at \in {"ok", "error"}
    <3>1. a2 = a
      BY <1>3, <2>5, CountChanges
    <3>2. b2 = b
      BY <1>4, <2>5, CountChanges
    <3>3. d2 = d - 1
      BY <1>5, <2>5, CountChanges
    <3> QED
      BY <3>1, <3>2, <3>3
  <2> QED
    BY <2>1, <2>2, <2>3, <2>4, <2>5, CallMoves DEF Moves
<1>8. a2 + b2 + d2 + 2 * e2 < a + b + d + 2 * e
  BY <1>6, <1>7, Falls
<1>9. Toil = a + b + d + 2 * e /\ Toil' = a2 + b2 + d2 + 2 * e2
  BY <1>3, <1>4, <1>5, <1>6 DEF Toil
<1> QED
  BY <1>1, <1>2, <1>8, <1>9 DEF RunsDown, Eases

(* A node visited leaves the queue; a node whose output is used is tracked. *)
LEMMA NodeRunsDown ==
    ASSUME TypeOK, NEW n \in Node, NodeStep(n) PROVE RunsDown
<1>1. CASE SkipJoin(n) \/ CallNode(n)
  <2>1. /\ phase = "ready" /\ phase' # "idle" /\ order' = order
        /\ queue # <<>> /\ queue' = Tail(queue)
    BY <1>1 DEF SkipJoin, CallNode, Visit
  <2>2. Len(queue') < Len(queue)
    BY <2>1 DEF TypeOK
  <2>3. Ahead = Len(queue) /\ Ahead' = Len(queue')
    BY <2>1 DEF Ahead
  <2> QED
    BY <2>1, <2>2, <2>3 DEF RunsDown, Eases
<1>2. CASE Pause(n) \/ StopBranch(n) \/ FanOut(n) \/ Iterate(n) \/ Traverse(n)
  <2>1. order' = Append(order, n)
    BY <1>2 DEF Pause, StopBranch, FanOut, Iterate, Traverse, Track
  <2> QED
    BY <2>1 DEF RunsDown, Tracks
<1> QED
  BY <1>1, <1>2 DEF NodeStep

LEMMA RunStepRunsDown == ASSUME TypeOK, Shape, RunStep PROVE RunsDown
<1>0. Len(queue) \in Nat
  BY DEF TypeOK
<1>1. CASE Begin \/ BeginSingle
  <2>1. /\ phase = "idle" /\ phase' # "idle" /\ order' = order
        /\ Len(queue') \in {1, Len(queue)}
    BY <1>1 DEF Begin, BeginSingle
  <2>2. Ahead = Len(queue) + 2 /\ Ahead' = Len(queue')
    BY <2>1 DEF Ahead
  <2>3. Ahead' < Ahead
    BY <1>0, <2>1, <2>2
  <2> QED
    BY <2>1, <2>3 DEF RunsDown, Eases
<1>2. ASSUME phase # "idle", phase' # "idle", StageRank' < StageRank,
             UNCHANGED <<queue, order>>
      PROVE  RunsDown
  BY <1>2 DEF RunsDown, Eases, Ahead
<1>3. CASE GatherReturns
  BY <1>2, <1>3 DEF GatherReturns, Ready, StageRank
<1>4. CASE Raise
  BY <1>2, <1>4 DEF Raise, StageRank
<1>5. CASE Complete
  BY <1>2, <1>5 DEF Complete, StageRank
<1>6. CASE Cancel
  BY <1>2, <1>6 DEF Cancel, StageRank, Over
<1>7. CASE SingleEnds
  <2>1. CASE At({"error"}) = {}
    <3>1. calls[1].node \in Node
      BY <1>7 DEF SingleEnds, Shape, IsCallOf
    <3> QED
      BY <1>7, <2>1, <3>1 DEF SingleEnds, Track, RunsDown, Tracks
  <2>2. CASE At({"error"}) # {}
    BY <1>2, <1>7, <2>2 DEF SingleEnds, StageRank
  <2> QED
    BY <2>1, <2>2
<1> QED
  BY <1>1, <1>3, <1>4, <1>5, <1>6, <1>7 DEF RunStep

(* The three are natural numbers: none falls for ever.                      *)
LEMMA MeasuresCount == Spec => [](Ahead \in Nat /\ StageRank \in Nat /\ Toil \in Nat)
<1>1. ASSUME TypeOK, Shape PROVE Ahead \in Nat /\ StageRank \in Nat /\ Toil \in Nat
  <2>1. Ahead \in Nat /\ StageRank \in Nat
    BY <1>1 DEF TypeOK, Ahead, StageRank
  <2>2. ASSUME NEW S PROVE Count(S) \in Nat
    BY <1>1, FS_Subset, FS_CardinalityType DEF Shape, Count, At
  <2>3. faults \in 0 .. MaxFaults /\ MaxFaults \in Nat
    BY <1>1, BoundAssumption DEF TypeOK
  <2>4. MaxFaults - faults \in Nat
    BY <2>3, Spares
  <2> QED
    BY <2>1, <2>2, <2>4 DEF Toil
<1> QED
  BY <1>1, TypesKept, ShapeKept, PTL

(* In every graph: between two nodes of the execution order a run takes     *)
(* only finitely many steps, the retries of every call included.            *)
THEOREM RunDrains == Spec => [][RunsDown]_vars
<1>1. TypeOK /\ Shape /\ [Next]_vars => [RunsDown]_vars
  BY Steps, CallEases, NodeRunsDown, RunStepRunsDown
<1> QED
  BY <1>1, TypesKept, ShapeKept, PTL DEF Spec

(* Without loops, and unless something leads back to the start, the order   *)
(* never holds more nodes than the graph: together with RunDrains, a run    *)
(* takes finitely many steps, whatever the nodes select and the calls do.   *)
OrderBounded == Straight => Len(order) <= Cardinality(Node)

THEOREM OrderFits == Spec => []OrderBounded
<1>1. TypeOK /\ JoinWaits => OrderBounded
  <2> SUFFICES ASSUME TypeOK, JoinWaits, Straight PROVE Len(order) <= Cardinality(Node)
    BY DEF OrderBounded
  <2>1. order \in Seq(Node) /\ Len(order) \in Nat
    BY DEF TypeOK
  <2>2. \A i, j \in 1 .. Len(order) : order[i] = order[j] => i = j
    BY <2>1 DEF JoinWaits, Straight
  <2>3. order \in Injection(1 .. Len(order), Node)
    BY <2>1, <2>2 DEF Injection, IsInjective
  <2>4. IsFiniteSet(Node)
    BY StartAssumption
  <2>5. Cardinality(1 .. Len(order)) <= Cardinality(Node)
    BY <2>3, <2>4, FS_Injection
  <2>6. Cardinality(1 .. Len(order)) = Len(order)
    BY <2>1, CountTo
  <2> QED
    BY <2>5, <2>6
<1> QED
  BY <1>1, TypesKept, JoinsWait, PTL
=============================================================================

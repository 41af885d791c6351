---------------------------- MODULE GraphExecutor ----------------------------
(***************************************************************************)
(* One run of a workflow graph by WorkflowExecutor: the queue of nodes, the *)
(* visit counts that make a join wait, the calls of nodes with their        *)
(* retries, the branches and parallel iterations gathered beside the queue, *)
(* and the state of the execution context.                                  *)
(*                                                                          *)
(* The coroutine interleaves with itself only inside asyncio.gather; there  *)
(* each call of a node is a thread of its own. What a node computes is      *)
(* abstracted to what the executor reads of it: the branch it selects and   *)
(* the items it hands to a loop.                                            *)
(***************************************************************************)
EXTENDS Naturals, Sequences, FiniteSets

CONSTANTS
    Node,         \* node ids
    StartNode,    \* what _find_start_node returns
    Graphs,       \* the graphs a run may be given
    Handle,       \* handles a router or filter may select
    Item,         \* items a loop may iterate over
    ItemLists,    \* the item lists a loop node may produce
    ScopeKey,     \* ScopeKey[i]: the key "item_<hash of i modulo 10000>"
    Widths,       \* max_concurrency values of parallel loops
    MaxParallel,  \* max_parallel: size of the execution semaphore
    MaxAttempts,  \* max_retries of a run: attempts at one call
    MaxFaults     \* bound on failing attempts and refused calls

Kind == {"plain", "router", "wait", "parallel", "loop"}
NoItem == "NO_ITEM"

(* A graph: the kind of each node, its outgoing edges in drawing order, and *)
(* the nodes whose pinned output replaces a call.                           *)
IsGraph(g) ==
    /\ g.kind \in [Node -> Kind]
    /\ g.out \in [Node -> Seq([to : Node, via : STRING])]
    /\ g.pinned \subseteq Node

ASSUME StartAssumption == StartNode \in Node /\ IsFiniteSet(Node)
ASSUME GraphAssumption == \A g \in Graphs : IsGraph(g)
ASSUME ItemAssumption == NoItem \notin Item /\ ItemLists \subseteq Seq(Item)
ASSUME KeyAssumption == DOMAIN ScopeKey = Item
ASSUME BoundAssumption ==
    /\ Widths \subseteq Nat \ {0}
    /\ MaxParallel \in Nat \ {0} /\ MaxAttempts \in Nat \ {0} /\ MaxFaults \in Nat

VARIABLES
    graph,      \* the graph of this run
    phase,      \* where run() is
    state,      \* ContextState of the context
    queue,      \* nodes to visit, with the item of their iteration
    visits,     \* visit_count
    calls,      \* calls of _execute_node the current step waits for
    width,      \* how many of them may be under way at once
    outputs,    \* node_outputs, NoResult where there is none
    scoped,     \* keys of each node's scoped outputs
    order,      \* _execution_order
    successes,  \* SUCCESS traces of each node
    raised,     \* some call of a node has raised
    faults      \* failing attempts and refused calls so far

vars == <<graph, phase, state, queue, visits, calls, width, outputs, scoped, order,
          successes, raised, faults>>
results == <<outputs, scoped, successes, raised, faults>>

-----------------------------------------------------------------------------
Targets(n) == {graph.out[n][i].to : i \in DOMAIN graph.out[n]}
InEdges(n) == UNION {{<<m, i>> : i \in {j \in DOMAIN graph.out[m] : graph.out[m][j].to = n}} :
                     m \in Node}
Required(n) == IF InEdges(n) = {} THEN 1 ELSE Cardinality(InEdges(n))

(* What a node may return: the selected branch, the items of a loop, and    *)
(* the concurrency of a parallel loop (0: one after the other).             *)
Result(branch, items, w) == [branch |-> branch, items |-> items, width |-> w]
NoResult == Result("NO_RESULT", <<>>, 0)
Results(n) ==
    CASE graph.kind[n] = "plain" -> {Result("none", <<>>, 0)}
      [] graph.kind[n] = "router" -> {Result(h, <<>>, 0) : h \in Handle}
      [] graph.kind[n] = "wait" -> {Result(b, <<>>, 0) : b \in {"paused", "approved"}}
      [] graph.kind[n] = "parallel" ->
           {Result(b, <<>>, 0) : b \in {"start", "completed", "error"}}
      [] graph.kind[n] = "loop" ->
           {Result("completed", <<>>, 0), Result("error", <<>>, 0)}
             \cup {Result("start", items, w) : items \in ItemLists, w \in {0} \cup Widths}

Call(n, item) == [node |-> n, item |-> item, attempt |-> 1, at |-> "waiting",
                  result |-> NoResult]
Entry(n, item) == [node |-> n, item |-> item]
At(where) == {c \in DOMAIN calls : calls[c].at \in where}
Over == phase = "over"

-----------------------------------------------------------------------------
Init ==
    /\ graph \in Graphs
    /\ phase = "idle"
    /\ state = "ACTIVE"
    /\ queue = <<>>
    /\ visits = [n \in Node |-> 0]
    /\ calls = <<>>
    /\ width = 1
    /\ outputs = [n \in Node |-> NoResult]
    /\ scoped = [n \in Node |-> {}]
    /\ order = <<>>
    /\ successes = [n \in Node |-> 0]
    /\ raised = FALSE
    /\ faults = 0

(* run(): the whole graph, from its start node ...                          *)
Begin ==
    /\ phase = "idle"
    /\ phase' = "ready"
    /\ queue' = <<Entry(StartNode, NoItem)>>
    /\ UNCHANGED <<graph, state, visits, calls, width, order, results>>

(* ... or one node on its own.                                              *)
BeginSingle ==
    /\ phase = "idle"
    /\ phase' = "single"
    /\ \E n \in Node : calls' = <<Call(n, NoItem)>>
    /\ width' = 1
    /\ UNCHANGED <<graph, state, queue, visits, order, results>>

-----------------------------------------------------------------------------
Visit_Uncounted(n) ==
    /\ phase = "ready"
    /\ queue # <<>> /\ Head(queue).node = n
    /\ queue' = Tail(queue)
    /\ visits' = [visits EXCEPT ![n] = Required(n)]

(* The head of the loop: a node leaves the queue and is visited. It is      *)
(* called once it has as many visits as incoming edges, and at every visit  *)
(* after that.                                                              *)
Visit(n) ==
    /\ phase = "ready"
    /\ queue # <<>> /\ Head(queue).node = n
    /\ queue' = Tail(queue)
    /\ visits' = [visits EXCEPT ![n] = @ + 1]

SkipJoin(n) ==
    /\ Visit(n)
    /\ visits'[n] < Required(n)
    /\ UNCHANGED <<graph, phase, state, calls, width, order, results>>

CallNode(n) ==
    /\ Visit(n)
    /\ visits'[n] >= Required(n)
    /\ phase' = "node"
    /\ calls' = <<Call(n, Head(queue).item)>>
    /\ width' = 1
    /\ UNCHANGED <<graph, state, order, results>>

-----------------------------------------------------------------------------
(* _execute_node, as one call c of the current step.                        *)

MayEnter_Unbounded(c) == c \in At({"waiting"})

MayEnter_NeverReleased(c) ==
    /\ c \in At({"waiting"})
    /\ Cardinality(At({"ready", "running", "ok", "error"})) < width

(* A free place among the calls that may be under way, retries included.    *)
MayEnter(c) ==
    /\ c \in At({"waiting"})
    /\ Cardinality(At({"ready", "running"})) < width

(* The call goes on to another place, attempt and result.                   *)
Step(c, at, attempt, result) ==
    calls' = [calls EXCEPT ![c] = [node |-> calls[c].node, item |-> calls[c].item,
                                   attempt |-> attempt, at |-> at, result |-> result]]
Move(c, at) == Step(c, at, calls[c].attempt, calls[c].result)
Outside == UNCHANGED <<graph, phase, state, queue, visits, width, order>>

(* A pinned output is returned as it is; nothing is recorded of it.         *)
UsePinned(c) ==
    /\ MayEnter(c)
    /\ calls[c].node \in graph.pinned
    /\ \E r \in Results(calls[c].node) : Step(c, "ok", calls[c].attempt, r)
    /\ Outside /\ UNCHANGED results

Enter(c) ==
    /\ MayEnter(c)
    /\ calls[c].node \notin graph.pinned
    /\ Move(c, "ready")
    /\ Outside /\ UNCHANGED results

(* The circuit breaker is open, or the node type is unknown.                *)
Refuse(c) ==
    /\ MayEnter(c)
    /\ calls[c].node \notin graph.pinned
    /\ faults < MaxFaults /\ faults' = faults + 1
    /\ Move(c, "error")
    /\ raised' = TRUE
    /\ Outside /\ UNCHANGED <<outputs, scoped, successes>>

(* An attempt waits for the execution semaphore.                            *)
Attempt(c) ==
    /\ c \in At({"ready"})
    /\ Cardinality(At({"running"})) < MaxParallel
    /\ Move(c, "running")
    /\ Outside /\ UNCHANGED results

(* The output of an iteration goes to the scope of its item, any other to   *)
(* node_outputs.                                                            *)
Succeed(c) ==
    LET n == calls[c].node item == calls[c].item IN
    /\ c \in At({"running"})
    /\ \E r \in Results(n) :
         /\ Step(c, "ok", calls[c].attempt, r)
         /\ outputs' = IF item = NoItem THEN [outputs EXCEPT ![n] = r] ELSE outputs
    /\ successes' = [successes EXCEPT ![n] = @ + 1]
    /\ scoped' = IF item = NoItem THEN scoped
                                   ELSE [scoped EXCEPT ![n] = @ \cup {ScopeKey[item]}]
    /\ Outside /\ UNCHANGED <<raised, faults>>

FailAttempt_Unbounded(c) ==
    /\ c \in At({"running"})
    /\ faults < MaxFaults /\ faults' = faults + 1
    /\ Step(c, "ready", calls[c].attempt + 1, calls[c].result)
    /\ Outside /\ UNCHANGED <<outputs, scoped, successes, raised>>

(* The attempt raised: the call sleeps and tries again ...                  *)
FailAttempt(c) ==
    /\ c \in At({"running"})
    /\ faults < MaxFaults /\ faults' = faults + 1
    /\ calls[c].attempt < MaxAttempts
    /\ Step(c, "ready", calls[c].attempt + 1, calls[c].result)
    /\ Outside /\ UNCHANGED <<outputs, scoped, successes, raised>>

(* ... or gives up, when it was the last attempt or is not retryable.       *)
GiveUp(c) ==
    /\ c \in At({"running"})
    /\ faults < MaxFaults /\ faults' = faults + 1
    /\ Move(c, "error")
    /\ raised' = TRUE
    /\ Outside /\ UNCHANGED <<outputs, scoped, successes>>

-----------------------------------------------------------------------------
(* What run() does with the output of a node called from the queue.         *)

Returned(n) == phase = "node" /\ calls[1].at = "ok" /\ calls[1].node = n
Selected == calls[1].result.branch
FansOut(n) == \/ graph.kind[n] = "parallel"
              \/ Len(graph.out[n]) > 1 /\ Selected = "none"
Gather(cs, w) == phase' = "gather" /\ calls' = cs /\ width' = w
Track(n) == order' = Append(order, n)
Ready == phase' = "ready" /\ calls' = <<>> /\ UNCHANGED width

Pause(n) ==
    /\ Returned(n) /\ Selected = "paused"
    /\ state' = "PAUSED" /\ phase' = "over"
    /\ Track(n)
    /\ UNCHANGED <<graph, queue, visits, calls, width, results>>

StopBranch(n) ==
    /\ Returned(n) /\ Selected = "completed"
    /\ Track(n) /\ Ready
    /\ UNCHANGED <<graph, state, queue, visits, results>>

Continues(n) == Returned(n) /\ Selected \notin {"paused", "completed"}

(* _execute_parallel_branches: the direct targets are called beside the     *)
(* queue.                                                                   *)
FanOut(n) ==
    LET edges == graph.out[n]
        item == calls[1].item IN
    /\ Continues(n) /\ FansOut(n)
    /\ Gather([i \in DOMAIN edges |-> Call(edges[i].to, item)], Len(edges) + 1)
    /\ Track(n)
    /\ UNCHANGED <<graph, state, queue, visits, results>>

(* A loop node: its items enter the queue, or are gathered, at the target   *)
(* of its first edge from the handle "start".                               *)
StartEdges(n) == {i \in DOMAIN graph.out[n] : graph.out[n][i].via = "start"}
Body(n) == {graph.out[n][i].to : i \in {j \in StartEdges(n) : \A k \in StartEdges(n) : j <= k}}

Iterate(n) ==
    LET items == calls[1].result.items
        workers == calls[1].result.width IN
    /\ Continues(n) /\ ~FansOut(n)
    /\ graph.kind[n] = "loop" /\ Selected = "start"
    /\ Track(n)
    /\ \/ /\ Body(n) = {} \/ items = <<>>
          /\ Ready /\ UNCHANGED queue
       \/ \E body \in Body(n) :
            /\ items # <<>> /\ workers = 0
            /\ queue' = queue \o [i \in DOMAIN items |-> Entry(body, items[i])]
            /\ Ready
       \/ \E body \in Body(n) :
            /\ items # <<>> /\ workers > 0
            /\ Gather([i \in DOMAIN items |-> Call(body, items[i])], workers)
            /\ UNCHANGED queue
    /\ UNCHANGED <<graph, state, visits, results>>

(* Sequential traversal along the selected branch, in drawing order.        *)
InOrder(S) ==
    CHOOSE s \in [1 .. Cardinality(S) -> S] : \A i, j \in DOMAIN s : i < j => s[i] < s[j]
Follow(n, item) ==
    LET edges == graph.out[n]
        taken == InOrder({i \in DOMAIN edges : Selected \in {"none", edges[i].via}})
    IN  [k \in DOMAIN taken |-> Entry(edges[taken[k]].to, item)]

Traverse(n) ==
    /\ Continues(n) /\ ~FansOut(n)
    /\ ~(graph.kind[n] = "loop" /\ Selected = "start")
    /\ queue' = queue \o Follow(n, calls[1].item)
    /\ Track(n) /\ Ready
    /\ UNCHANGED <<graph, state, visits, results>>

-----------------------------------------------------------------------------
Done == \A c \in DOMAIN calls : calls[c].at \in {"ok", "error"}

GatherReturns_AtFirst ==
    /\ phase = "gather" /\ At({"ok"}) # {}
    /\ At({"error"}) = {}
    /\ Ready
    /\ UNCHANGED <<graph, state, queue, visits, order, results>>

GatherReturns_ErrorsDropped ==
    /\ phase = "gather" /\ Done
    /\ Ready
    /\ UNCHANGED <<graph, state, queue, visits, order, results>>

(* gather returns when every call has ended, failed ones included.          *)
GatherReturns ==
    /\ phase = "gather" /\ Done
    /\ At({"error"}) = {}
    /\ Ready
    /\ UNCHANGED <<graph, state, queue, visits, order, results>>

Raise_AtFirstError ==
    /\ phase \in {"node", "gather"}
    /\ At({"error"}) # {}
    /\ state' = "FAILED" /\ phase' = "over"
    /\ UNCHANGED <<graph, queue, visits, calls, width, order, results>>

(* An exception leaves run(), with the context FAILED.                      *)
Raise ==
    /\ phase \in {"node", "gather"} /\ Done
    /\ At({"error"}) # {}
    /\ state' = "FAILED" /\ phase' = "over"
    /\ UNCHANGED <<graph, queue, visits, calls, width, order, results>>

Complete ==
    /\ phase = "ready" /\ queue = <<>>
    /\ state' = "COMPLETED" /\ phase' = "over"
    /\ UNCHANGED <<graph, queue, visits, calls, width, order, results>>

(* The single node run; its exception leaves the context as it is.          *)
SingleEnds ==
    /\ phase = "single" /\ Done
    /\ phase' = "over"
    /\ IF At({"error"}) = {}
         THEN state' = "COMPLETED" /\ Track(calls[1].node)
         ELSE UNCHANGED <<state, order>>
    /\ UNCHANGED <<graph, queue, visits, calls, width, results>>

(* The caller stops waiting (wait_for in the published API): the coroutine  *)
(* and everything it gathers is cancelled, the context not told.            *)
Cancel ==
    /\ ~Over /\ phase # "idle"
    /\ phase' = "over" /\ calls' = <<>>
    /\ UNCHANGED <<graph, state, queue, visits, width, order, results>>

-----------------------------------------------------------------------------
Progress ==
    \/ Begin \/ BeginSingle
    \/ \E n \in Node : \/ SkipJoin(n) \/ CallNode(n) \/ Pause(n) \/ StopBranch(n)
                       \/ FanOut(n) \/ Iterate(n) \/ Traverse(n)
    \/ \E c \in DOMAIN calls : \/ UsePinned(c) \/ Enter(c) \/ Refuse(c) \/ Attempt(c)
                               \/ Succeed(c) \/ FailAttempt(c) \/ GiveUp(c)
    \/ GatherReturns \/ Raise \/ Complete \/ SingleEnds

Next == Progress \/ Cancel

Spec == Init /\ [][Next]_vars

(* The event loop runs what is ready, and every node ends its attempt.      *)
FairSpec == Spec /\ WF_vars(Progress)

-----------------------------------------------------------------------------
(* Properties.                                                              *)

Entries == [node : Node, item : Item \cup {NoItem}]
AnyResult(r) == /\ r.branch \in Handle \cup {"NO_RESULT", "none", "paused", "approved",
                                             "start", "completed", "error"}
                /\ r.items \in Seq(Item) /\ r.width \in Nat
IsCall(c) == /\ c.node \in Node /\ c.item \in Item \cup {NoItem}
             /\ c.attempt \in 1 .. MaxAttempts
             /\ c.at \in {"waiting", "ready", "running", "ok", "error"}
             /\ AnyResult(c.result)

TypeOK ==
    /\ IsGraph(graph)
    /\ phase \in {"idle", "single", "ready", "node", "gather", "over"}
    /\ state \in {"ACTIVE", "PAUSED", "COMPLETED", "FAILED"}
    /\ queue \in Seq(Entries)
    /\ visits \in [Node -> Nat]
    /\ DOMAIN calls = 1 .. Len(calls) /\ \A c \in DOMAIN calls : IsCall(calls[c])
    /\ width \in Nat \ {0}
    /\ DOMAIN outputs = Node /\ \A n \in Node : AnyResult(outputs[n])
    /\ scoped \in [Node -> SUBSET {ScopeKey[i] : i \in Item}]
    /\ order \in Seq(Node)
    /\ successes \in [Node -> Nat]
    /\ raised \in BOOLEAN
    /\ faults \in 0 .. MaxFaults

Ran(n) == \E i \in DOMAIN order : order[i] = n
CompletedGraph == state = "COMPLETED" /\ visits[StartNode] > 0
Loopless == \A n \in Node : graph.kind[n] # "loop"
Entered == InEdges(StartNode) # {}

(* Without loops, and unless something leads back to the start, a node      *)
(* called from the queue has seen each of its sources end, and is called    *)
(* from it once: the visit counter of executor.py:700 makes a join wait for *)
(* all of them, not for as many arrivals of some.                           *)
JoinWaits ==
    Loopless /\ ~Entered =>
        /\ phase = "node" => \A e \in InEdges(calls[1].node) : Ran(e[1])
        /\ \A i, j \in DOMAIN order : order[i] = order[j] => i = j

(* When run() has ended, by any way out, no call of a node goes on behind   *)
(* its back: gather collects failed siblings (executor.py:1059).            *)
QuietWhenOver == Over => Done

(* A run that reports success, or a pause, swallowed no error of a branch   *)
(* or an iteration (executor.py:1064, 1099).                                *)
ErrorsSurface == state \in {"COMPLETED", "PAUSED"} => ~raised

(* Neither semaphore is overrun, by retries included.                       *)
Concurrency == /\ Cardinality(At({"running"})) <= MaxParallel
               /\ Cardinality(At({"ready", "running"})) <= width

(* A completed run that came to a loop, and to no other run of that loop,   *)
(* has run the first node of its body, if nothing else leads there, once    *)
(* for every item, in whatever way the iterations were scheduled.           *)
LoopServed ==
    state = "COMPLETED" =>
        \A l \in Node \ graph.pinned :
            /\ graph.kind[l] = "loop" /\ outputs[l].branch = "start"
            /\ visits[l] >= Required(l) /\ successes[l] = 1
            => \A body \in Body(l) \ ({l, StartNode} \cup graph.pinned) :
                  Required(body) = 1 => successes[body] = Len(outputs[l].items)

(* Every run of an acyclic graph ends: queue, retries and semaphores drain. *)
Terminates == <>Over

-----------------------------------------------------------------------------
(* What the documentation and the comments say, and the code does not keep. *)

(* PROJECT_OVERVIEW.md:241: the engine evaluates "concurrent branch joins". *)
(* A node whose sources have all run, none selecting a branch, runs too.    *)
BranchesJoin ==
    CompletedGraph =>
        \A n \in Node :
            /\ InEdges(n) # {} /\ n \notin graph.pinned
            /\ \A e \in InEdges(n) : successes[e[1]] > 0 /\ graph.kind[e[1]] = "plain"
            => successes[n] > 0

(* context.py:129: the scope key is a "Unique key for this iteration", so   *)
(* that a node has as many scoped outputs as it had iterations.             *)
ScopesApart ==
    CompletedGraph =>
        \A n \in Node : outputs[n] = NoResult => Cardinality(scoped[n]) = successes[n]
=============================================================================

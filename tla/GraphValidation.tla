---------------------------- MODULE GraphValidation ----------------------------
(***************************************************************************)
(* The static check that a graph has to pass to be published: entry point, *)
(* node types, required fields, edge references, and a depth-first search  *)
(* for cycles from the start node. A cycle is allowed only where the edge  *)
(* that closes it leaves a node of a loop type, so the verdict depends on  *)
(* where the search comes in. The order of a node's edges is free here.    *)
(* What does not keep a graph from running is warned of beside the verdict.*)
(***************************************************************************)
EXTENDS Naturals, Sequences, FiniteSets, SequencesExt

CONSTANTS
    Vertex,         \* ids of the graph's nodes
    Dangling,       \* an id that edges may name and no node has
    Typings,        \* the node types of the graphs checked: [Vertex -> type]
    Gaps,           \* sets of nodes that may lack a required field
    Oddities,       \* sets of nodes that may have a value of another type than its field's,
                    \* an edge by a handle their type lacks, or a branch without an edge
    MaxEdges        \* bound on a graph's edges

ASSUME ValidationAssumption ==
    /\ Gaps \subseteq SUBSET Vertex /\ Oddities \subseteq SUBSET Vertex
    /\ IsFiniteSet(Vertex) /\ Dangling \notin Vertex /\ MaxEdges \in Nat

LOOP_ALLOWED_TYPES == {"loopNode", "parallelNode"}
MUST_HAVE_OUTPUT == {"startNode", "filterNode", "routerNode", "loopNode"}
Registered == LOOP_ALLOWED_TYPES \cup {"startNode", "otherNode"}

VARIABLES
    type,       \* [Vertex -> type]
    edge,       \* set of <<source, target>>
    unfilled,   \* nodes with a required field that is not configured
    odd,        \* nodes with a value, a handle or a branch to warn of
    entry,      \* the node the search starts from: the first start node
    visited, path, todo,    \* the search: path is its stack, todo what is left of each
    verdict,    \* none, valid, invalid or cycle
    report      \* the warnings and statistics beside it

drawn == <<type, edge, unfilled, odd, entry>>
validationVars == <<drawn, visited, path, todo, verdict, report>>

Neighbours(v) == {w \in Vertex \cup {Dangling} : <<v, w>> \in edge}

StartNodes == {v \in Vertex : type[v] = "startNode"}

NoReport == [made |-> FALSE]

(* The edges a graph may have.                                              *)
Drawings ==
    LET arrow == {{}} \cup {{a} : a \in Vertex \X (Vertex \cup {Dangling})}
    IN {UNION {drawing[n] : n \in 1 .. MaxEdges} : drawing \in [1 .. MaxEdges -> arrow]}

ValidationInit ==
    /\ edge \in Drawings
    /\ type \in Typings
    /\ unfilled \in Gaps /\ odd \in Oddities
    /\ entry \in IF StartNodes # {} THEN StartNodes ELSE {Dangling}
    /\ visited = {} /\ path = <<>> /\ todo = <<>>
    /\ verdict = "none" /\ report = NoReport

-----------------------------------------------------------------------------
(* The schema refuses edges to a node that is not there.                    *)
WellFormed == edge \subseteq Vertex \X Vertex

(* A required field is satisfied by an edge into the node without a handle. *)
FieldMissing(v) == v \in unfilled /\ ~\E w \in Vertex : <<w, v>> \in edge

EdgesAstray == {e \in edge : ~({e[1], e[2]} \subseteq Vertex)}

StaticErrors ==
    \/ Cardinality(StartNodes) # 1
    \/ \E v \in Vertex : type[v] \notin Registered \/ FieldMissing(v)
    \/ EdgesAstray # {}

-----------------------------------------------------------------------------
(* The warnings: nodes nothing leads to, nodes of a type that needs an edge *)
(* out and has none, nodes the start node does not reach.                   *)
NoWayIn == {v \in Vertex : type[v] # "startNode" /\ ~\E w \in Vertex : <<w, v>> \in edge}
NoWayOut == {v \in Vertex : type[v] \in MUST_HAVE_OUTPUT /\ Neighbours(v) = {}}

(* The nodes a breadth-first search from the start node has met within n    *)
(* rounds.                                                                  *)
Met_OneRound(n) == {entry} \cup (IF n = 0 THEN {} ELSE Neighbours(entry))

Met(n) ==
    LET met[k \in 0 .. n] ==
          IF k = 0 THEN {entry} ELSE met[k - 1] \cup UNION {Neighbours(v) : v \in met[k - 1]}
    IN met[n]

Unreachable == IF StartNodes = {} THEN {} ELSE Vertex \ Met(Cardinality(Vertex))

(* max_depth: the round in which the search meets its last node.            *)
MaxDepth ==
    IF StartNodes = {} THEN 0
    ELSE CHOOSE d \in 0 .. Cardinality(Vertex) :
           /\ Met(d) = Met(Cardinality(Vertex))
           /\ d > 0 => Met(d - 1) # Met(d)

Stats ==
    [nodes |-> Cardinality(Vertex), edges |-> Cardinality(edge), depth |-> MaxDepth,
     connected |-> MaxDepth > 0 \/ Cardinality(Vertex) <= 1]

Warnings == [apart |-> NoWayIn, ends |-> NoWayOut, far |-> Unreachable, odd |-> odd]

Close(v) == verdict' = v /\ report' = [made |-> TRUE, warnings |-> Warnings, stats |-> Stats]
GoOn == UNCHANGED <<verdict, report>>

-----------------------------------------------------------------------------
(* A graph the schema refuses is looked at no further.                      *)
RefuseGraph ==
    /\ verdict = "none" /\ ~WellFormed /\ verdict' = "invalid"
    /\ UNCHANGED <<drawn, visited, path, todo, report>>

Push(v) ==
    /\ visited' = visited \cup {v}
    /\ path' = Append(path, v)
    /\ todo' = Append(todo, Neighbours(v))

(* The other checks only add to the list of errors; the search is made      *)
(* whenever there is a start node.                                          *)
StartSearch ==
    /\ verdict = "none" /\ path = <<>> /\ WellFormed
    /\ IF StartNodes = {}
       THEN Close("invalid") /\ UNCHANGED <<visited, path, todo>>
       ELSE Push(entry) /\ GoOn
    /\ UNCHANGED drawn

Top == Len(path)
Take(w) == todo' = [todo EXCEPT ![Top] = @ \ {w}]

Descend(w) ==
    /\ verdict = "none" /\ path # <<>>
    /\ w \in todo[Top] /\ w \notin visited
    /\ visited' = visited \cup {w}
    /\ path' = Append(path, w)
    /\ todo' = Append([todo EXCEPT ![Top] = @ \ {w}], Neighbours(w))
    /\ GoOn /\ UNCHANGED drawn

MeetVisited_AnyLoopOnPath(w) ==
    /\ verdict = "none" /\ path # <<>>
    /\ w \in todo[Top] /\ w \in visited
    /\ Take(w)
    /\ IF Contains(path, w) /\ \A n \in 1 .. Top : type[path[n]] \notin LOOP_ALLOWED_TYPES
       THEN Close("cycle") ELSE GoOn
    /\ UNCHANGED <<drawn, visited, path>>

(* A neighbour on the stack closes a cycle; the search ends at the first    *)
(* one whose last node is not of a loop type, and the other checks are made.*)
MeetVisited(w) ==
    /\ verdict = "none" /\ path # <<>>
    /\ w \in todo[Top] /\ w \in visited
    /\ Take(w)
    /\ IF Contains(path, w) /\ type[path[Top]] \notin LOOP_ALLOWED_TYPES
       THEN Close("cycle") ELSE GoOn
    /\ UNCHANGED <<drawn, visited, path>>

Retreat ==
    /\ verdict = "none" /\ path # <<>> /\ todo[Top] = {}
    /\ path' = Front(path) /\ todo' = Front(todo)
    /\ IF Top > 1 THEN GoOn ELSE Close(IF StaticErrors THEN "invalid" ELSE "valid")
    /\ UNCHANGED <<drawn, visited>>

ValidationStep ==
    \/ RefuseGraph \/ StartSearch \/ Retreat
    \/ \E w \in Vertex : Descend(w) \/ MeetVisited(w)

ValidationSpec == ValidationInit /\ [][ValidationStep]_validationVars

-----------------------------------------------------------------------------
ValidationTypeOK ==
    /\ type \in Typings /\ edge \subseteq Vertex \X (Vertex \cup {Dangling})
    /\ unfilled \subseteq Vertex /\ odd \subseteq Vertex /\ entry \in Vertex \cup {Dangling}
    /\ visited \subseteq Vertex
    /\ path \in Seq(visited) /\ Len(todo) = Len(path)
    /\ report.made => verdict # "none"
    /\ verdict \in {"none", "valid", "invalid", "cycle"}

(* What is reached of V from S, by nodes of V: it is in every part of V that*)
(* has what of S is in V and that no edge to a node of V leaves.            *)
NoEdgeOut(T, V) == \A v \in T, w \in V : <<v, w>> \in edge => w \in T

Closure(S, V) ==
    {w \in V : \A T \in SUBSET V : S \cap V \subseteq T /\ NoEdgeOut(T, V) => w \in T}

OnCycle(v, V) == v \in Closure({w \in V : <<v, w>> \in edge}, V)

Reached == Closure({entry}, Vertex)

(* What is accepted has one start node, and on every cycle the start node   *)
(* reaches there is a node of a loop type, in whatever order the search     *)
(* takes the edges; and what is refused for a cycle has one that it reached.*)
CyclesNeedLoops ==
    LET plain == {v \in Reached : type[v] \notin LOOP_ALLOWED_TYPES} IN
    /\ verdict = "valid" =>
         /\ WellFormed /\ StartNodes = {entry}
         /\ \A v \in plain : ~OnCycle(v, plain)
    /\ verdict = "cycle" => \E v \in Reached : OnCycle(v, Reached)

(* A graph accepted without a warning runs whole: the start node reaches    *)
(* every node, and it is called connected; and no node that a run may come  *)
(* to is called unreachable.                                                *)
QuietRunsWhole ==
    report.made =>
        /\ verdict = "valid" /\ report.warnings.ends \cup report.warnings.far = {} =>
             Reached = Vertex /\ report.stats.connected
        /\ report.warnings.far \cap Reached = {}

(* The verdict of the check and the warnings beside it: an accepted graph   *)
(* has no cycle without a loop node, and without a warning it runs whole.   *)
VerdictSound == CyclesNeedLoops /\ QuietRunsWhole
=============================================================================

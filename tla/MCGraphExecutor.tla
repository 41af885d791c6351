--------------------------- MODULE MCGraphExecutor ---------------------------
(* Instances of GraphExecutor for TLC: all acyclic graphs over four nodes,  *)
(* drawn so that edges go from lower to higher numbers and every node can   *)
(* be reached from node 1.                                                  *)
EXTENDS GraphExecutor, TLC, FiniteSetsExt, SequencesExt

CONSTANTS i1, i2, k1, k2

Nodes == 1 .. 4
Pairs == {p \in Nodes \X Nodes : p[1] < p[2]}
Connected(E) == \A n \in Nodes \ {1} : \E m \in Nodes : <<m, n>> \in E

(* The first edge of a loop is its body. A router's edges all leave from    *)
(* one handle, or the first from one and the others from another.           *)
Via(kind, split, i) ==
    CASE kind = "router" -> IF split /\ i > 1 THEN "b" ELSE "a"
      [] kind = "loop" -> IF i = 1 THEN "start" ELSE "completed"
      [] OTHER -> "output"
OutOf(E, kind, split, n) ==
    LET ts == SetToSortSeq({m \in Nodes : <<n, m>> \in E}, <) IN
    [i \in DOMAIN ts |-> [to |-> ts[i], via |-> Via(kind[n], split, i)]]
Graph(E, kind, split, pins) ==
    [kind |-> kind, out |-> [n \in Nodes |-> OutOf(E, kind, split, n)], pinned |-> pins]

(* All graphs whose inner nodes have one of the kinds K.                    *)
Family(K, split, pins) ==
    {Graph(E, (1 :> "plain") @@ (2 :> a) @@ (3 :> b) @@ (4 :> "plain"), split, pins) :
        E \in {F \in SUBSET Pairs : Connected(F)}, a \in K, b \in K}

AllGraphs == Family(Kind, TRUE, {})
               \cup Family({"plain", "router"}, FALSE, {})
               \cup Family({"plain", "router", "parallel"}, TRUE, {2})
LoopGraphs == Family({"plain", "loop"}, TRUE, {})

TwoItems == {<<i1, i2>>}
SomeItems == {<<>>, <<i1>>, <<i1, i2>>}
DistinctKeys == (i1 :> k1) @@ (i2 :> k2)
=============================================================================

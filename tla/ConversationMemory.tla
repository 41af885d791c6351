--------------------------- MODULE ConversationMemory ---------------------------
(***************************************************************************)
(* The memory node on one conversation's rows. Executions of a workflow    *)
(* that share a conversation work on it at the same time, each operation   *)
(* in a transaction of several statements: rows it deletes are chosen from *)
(* what is committed when the statement runs, and go when it commits.      *)
(***************************************************************************)
EXTENDS Integers, FiniteSets, FiniteSetsExt

CONSTANTS
    MemoryNode,     \* concurrent executions of the node
    max_memories,   \* the node's inputs
    history_limit,
    max_tokens,
    TokensOf,       \* [1 .. MaxMemories -> Nat], the estimate for each row
    MaxMemories     \* bound on the rows ever added

ASSUME MemoryAssumption ==
    /\ max_memories \in Nat \ {0} /\ {history_limit, max_tokens, MaxMemories} \subseteq Nat
    /\ TokensOf \in [1 .. MaxMemories -> Nat] /\ IsFiniteSet(MemoryNode)

VARIABLES
    memories,   \* the committed rows, by their created_at
    node,       \* [MemoryNode -> [step, count, doomed, new, seen]]
    clock       \* created_at of the last row

memoryVars == <<memories, node, clock>>

NoOperation == [step |-> "idle", count |-> 0, doomed |-> {}, new |-> {}, seen |-> {}]

MemoryInit ==
    /\ memories = {}
    /\ node = [n \in MemoryNode |-> NoOperation]
    /\ clock = 0

(* ORDER BY created_at ASC LIMIT k                                          *)
Oldest(rows, k) == {x \in rows : Cardinality({y \in rows : y < x}) < k}

(* ------------------------------ add memory ------------------------------ *)
CountMemories(n) ==
    /\ node[n].step = "idle" /\ clock < MaxMemories
    /\ node' = [node EXCEPT ![n].step = "add", ![n].count = Cardinality(memories)]
    /\ UNCHANGED <<memories, clock>>

to_delete_AboveOnly(count) ==
    IF count > max_memories THEN count - (max_memories * 9) \div 10 + 1 ELSE 0

(* Room is made down to nine tenths of the limit, less one.                 *)
to_delete(count) ==
    IF count >= max_memories THEN count - (max_memories * 9) \div 10 + 1 ELSE 0

PruneToAdd(n) ==
    /\ node[n].step = "add" /\ clock < MaxMemories
    /\ node' = [node EXCEPT ![n].step = "commit",
                            ![n].doomed = Oldest(memories, to_delete(node[n].count)),
                            ![n].new = {clock + 1}]
    /\ clock' = clock + 1
    /\ UNCHANGED memories

(* ---------------------------- prune memories ---------------------------- *)
(* By age first: the rows before a cutoff; then the rest are counted.       *)
PruneByAge(n) ==
    /\ node[n].step = "idle"
    /\ \E k \in 0 .. Cardinality(memories) :
         node' = [node EXCEPT ![n].step = "prune", ![n].doomed = Oldest(memories, k)]
    /\ UNCHANGED <<memories, clock>>

CountRest(n) ==
    /\ node[n].step = "prune"
    /\ node' = [node EXCEPT ![n].step = "pruned",
                            ![n].count = Cardinality(memories \ node[n].doomed)]
    /\ UNCHANGED <<memories, clock>>

PruneByCount(n) ==
    LET q == node[n] IN
    /\ q.step = "pruned"
    /\ node' = [node EXCEPT ![n].step = "commit",
                            ![n].doomed = q.doomed \cup
                               (IF q.count > max_memories
                                THEN Oldest(memories \ q.doomed, q.count - max_memories)
                                ELSE {})]
    /\ UNCHANGED <<memories, clock>>

(* ---------------------------- delete memory ----------------------------- *)
(* One memory, or the whole conversation.                                   *)
DeleteMemory(n) ==
    /\ node[n].step = "idle"
    /\ \E doomed \in {{x} : x \in memories} \cup {memories} :
         node' = [node EXCEPT ![n].step = "commit", ![n].doomed = doomed]
    /\ UNCHANGED <<memories, clock>>

(* --------------------------------- reads -------------------------------- *)
(* The rows are committed ones; what is told of them is an answer of then.  *)
Tell(n, rows) == node' = [node EXCEPT ![n].step = "told", ![n].seen = rows] /\ UNCHANGED <<memories, clock>>

Newest(rows, k) == {x \in rows : Cardinality({y \in rows : y > x}) < k}

(* Of the newest rows, from the oldest on, those that fit the tokens.       *)
Selected(rows) ==
    LET recent == Newest(rows, history_limit) IN
    {x \in recent : MapThenSumSet(LAMBDA y : TokensOf[y], {y \in recent : y <= x}) <= max_tokens}

GetHistory(n) == node[n].step = "idle" /\ Tell(n, Selected(memories))

GetSingleMemory(n) ==
    /\ node[n].step = "idle"
    /\ \E x \in 1 .. MaxMemories : Tell(n, {x} \cap memories)   \* none: "Memory not found"

(* Two statements: the totals, and the rows by their role.                  *)
GetTotals(n) ==
    /\ node[n].step = "idle"
    /\ node' = [node EXCEPT ![n].step = "stats", ![n].count = Cardinality(memories)]
    /\ UNCHANGED <<memories, clock>>

GetRoles(n) == node[n].step = "stats" /\ Tell(n, memories)

EndRead(n) ==
    /\ node[n].step = "told"
    /\ node' = [node EXCEPT ![n] = NoOperation]
    /\ UNCHANGED <<memories, clock>>

(* --------------------------- the transaction ends ----------------------- *)
Commit(n) ==
    /\ node[n].step = "commit"
    /\ memories' = (memories \ node[n].doomed) \cup node[n].new
    /\ node' = [node EXCEPT ![n] = NoOperation]
    /\ UNCHANGED clock

(* A statement raises and the transaction is rolled back.                   *)
Rollback(n) ==
    /\ node[n].step # "idle"
    /\ node' = [node EXCEPT ![n] = NoOperation]
    /\ UNCHANGED <<memories, clock>>

Remember(n) ==
    \/ CountMemories(n) \/ PruneToAdd(n) \/ PruneByAge(n) \/ CountRest(n)
    \/ PruneByCount(n) \/ DeleteMemory(n)
    \/ GetHistory(n) \/ GetSingleMemory(n) \/ GetTotals(n) \/ GetRoles(n) \/ EndRead(n) \/ Commit(n) \/ Rollback(n)

MemoryNext == \E n \in MemoryNode : Remember(n)

MemorySpec == MemoryInit /\ [][MemoryNext]_memoryVars

-----------------------------------------------------------------------------
MemoryTypeOK ==
    /\ memories \subseteq 1 .. MaxMemories
    /\ node \in [MemoryNode ->
         [step : {"idle", "add", "prune", "pruned", "stats", "told", "commit"}, count : 0 .. MaxMemories,
          doomed : SUBSET (1 .. MaxMemories), new : SUBSET (1 .. MaxMemories),
          seen : SUBSET (1 .. MaxMemories)]]
    /\ clock \in 0 .. MaxMemories

(* The limit is checked before the row is added and nothing is locked, so   *)
(* it can be exceeded; but by no more than one row for each other node at   *)
(* work, however often they add, prune and delete.                          *)
MemoriesBounded == Cardinality(memories) < max_memories + Cardinality(MemoryNode)
=============================================================================

--------------------------- MODULE RetentionCleanup ---------------------------
(***************************************************************************)
(* cleanup_all: deletes what is older than one cutoff, first traces, then  *)
(* executions (a trace refers to its execution), then memories, each in    *)
(* batches with a commit of their own. Workers write meanwhile: they begin *)
(* an old execution again, which makes it young, and add traces. A batch   *)
(* that fails is rolled back and counted as an error, not as a batch.      *)
(***************************************************************************)
EXTENDS Naturals, FiniteSets

CONSTANTS
    Execution, Trace, Memory,   \* rows
    ExecutionOf,                \* [Trace -> Execution]
    batch_size, max_batches,
    MaxWrites,                  \* bound on the workers' writes
    MaxErrors                   \* bound on the database's own errors

ASSUME CleanupAssumption ==
    /\ ExecutionOf \in [Trace -> Execution]
    /\ batch_size \in Nat \ {0} /\ max_batches \in Nat \ {0}
    /\ MaxWrites \in Nat /\ MaxErrors \in Nat
    /\ IsFiniteSet(Execution \cup Trace \cup Memory)

VARIABLES
    age,        \* [row -> absent, old or young, by its table's date column]
    phase,      \* the table being cleaned
    batches,    \* batches committed in this phase
    tries,      \* batches begun in this phase
    failedTables, \* tables with an error
    left,       \* tables left before they were seen to be clean
    writes

cleanupVars == <<age, phase, batches, tries, failedTables, left, writes>>

Rows == Execution \cup Trace \cup Memory

TableOf(p) == CASE p = "traces" -> Trace [] p = "executions" -> Execution
                [] p = "memories" -> Memory [] OTHER -> {}

NextPhase == [traces |-> "executions", executions |-> "memories", memories |-> "done"]

Eligible == {x \in TableOf(phase) : age[x] = "old"}

TracesOf(e) == {x \in Trace : ExecutionOf[x] = e /\ age[x] # "absent"}

CleanupInit ==
    /\ age \in [Rows -> {"absent", "old", "young"}]
    /\ \A x \in Trace : age[x] # "absent" => age[ExecutionOf[x]] # "absent"
    /\ phase = "traces" /\ batches = 0 /\ tries = 0
    /\ failedTables = {} /\ left = {} /\ writes = 0

-----------------------------------------------------------------------------
(* The table's first query: nothing to delete, or the batches begin.        *)
CountRecords ==
    /\ phase # "done" /\ tries = 0 /\ Eligible = {}
    /\ phase' = NextPhase[phase]
    /\ UNCHANGED <<age, batches, tries, failedTables, left, writes>>

(* The count raises: the table is given up with an error.                   *)
CountFails ==
    /\ phase # "done" /\ tries = 0
    /\ phase' = NextPhase[phase]
    /\ failedTables' = failedTables \cup {phase} /\ left' = left \cup {phase}
    /\ UNCHANGED <<age, batches, tries, writes>>

TryBound == max_batches + MaxErrors + 1
Try == tries' = IF tries < TryBound THEN tries + 1 ELSE tries
Leave(p) == phase' = NextPhase[p] /\ batches' = 0 /\ tries' = 0

(* LIMIT without an order: which old rows the batch takes is not said. A    *)
(* batch of less than batch_size rows is the last one.                      *)
Batch == {b \in SUBSET Eligible :
            Cardinality(b) = IF Cardinality(Eligible) < batch_size
                             THEN Cardinality(Eligible) ELSE batch_size}

Referenced(b) == \E e \in b \cap Execution : TracesOf(e) # {}

DeleteBatch_StopsAtFull ==
    /\ phase # "done" /\ (tries > 0 \/ Eligible # {}) /\ batches < max_batches
    /\ \E b \in Batch :
         /\ ~Referenced(b)
         /\ age' = [x \in Rows |-> IF x \in b THEN "absent" ELSE age[x]]
         /\ Leave(phase)
    /\ UNCHANGED <<failedTables, left, writes>>

DeleteBatch ==
    /\ phase # "done" /\ (tries > 0 \/ Eligible # {}) /\ batches < max_batches
    /\ \E b \in Batch :
         /\ ~Referenced(b)
         /\ age' = [x \in Rows |-> IF x \in b THEN "absent" ELSE age[x]]
         /\ IF Cardinality(b) < batch_size
            THEN Leave(phase)
            ELSE batches' = batches + 1 /\ Try /\ UNCHANGED phase
    /\ UNCHANGED <<failedTables, left, writes>>

(* An execution that still has a trace violates the foreign key; the        *)
(* database may fail for other reasons (MaxErrors). The loop goes round     *)
(* again at once. tries stops counting at TryBound.                         *)
BatchFails ==
    /\ phase # "done" /\ (tries > 0 \/ Eligible # {}) /\ batches < max_batches
    /\ \/ \E b \in Batch : Referenced(b)
       \/ tries - batches < MaxErrors
    /\ Try
    /\ failedTables' = failedTables \cup {phase}
    /\ UNCHANGED <<age, phase, batches, left, writes>>

StopAtLimit ==
    /\ batches = max_batches
    /\ left' = left \cup {phase}
    /\ Leave(phase)
    /\ UNCHANGED <<age, failedTables, writes>>

(* mark_running sets started_at anew; a running execution adds a trace.     *)
StartAgain(e) ==
    /\ age[e] # "absent" /\ writes < MaxWrites
    /\ age' = [age EXCEPT ![e] = "young"]
    /\ writes' = writes + 1
    /\ UNCHANGED <<phase, batches, tries, failedTables, left>>

AddTrace(x) ==
    /\ age[x] = "absent" /\ age[ExecutionOf[x]] # "absent" /\ writes < MaxWrites
    /\ age' = [age EXCEPT ![x] = "young"]
    /\ writes' = writes + 1
    /\ UNCHANGED <<phase, batches, tries, failedTables, left>>

Workers == (\E e \in Execution : StartAgain(e)) \/ (\E x \in Trace : AddTrace(x))

CleanupNext == CountRecords \/ CountFails \/ DeleteBatch \/ BatchFails \/ StopAtLimit \/ Workers

CleanupSpec == CleanupInit /\ [][CleanupNext]_cleanupVars

-----------------------------------------------------------------------------
CleanupTypeOK ==
    /\ age \in [Rows -> {"absent", "old", "young"}]
    /\ phase \in {"traces", "executions", "memories", "done"}
    /\ batches \in 0 .. max_batches
    /\ tries \in 0 .. TryBound
    /\ failedTables \subseteq DOMAIN NextPhase /\ left \subseteq DOMAIN NextPhase
    /\ writes \in 0 .. MaxWrites

Past(p) == CASE p = "traces" -> {} [] p = "executions" -> {"traces"}
             [] p = "memories" -> {"traces", "executions"} [] OTHER -> DOMAIN NextPhase

(* A table left for another reason than max_batches or a failed count has   *)
(* no old row any more, failed batches or not and whatever the workers      *)
(* wrote meanwhile, and no row outlives the execution it refers to.         *)
CleanIsEmpty ==
    /\ \A p \in Past(phase) \ left : \A x \in TableOf(p) : age[x] # "old"
    /\ \A x \in Trace : age[x] # "absent" => age[ExecutionOf[x]] # "absent"
=============================================================================

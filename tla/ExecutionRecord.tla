--------------------------- MODULE ExecutionRecord ---------------------------
(***************************************************************************)
(* What the status of a workflow execution promises to whoever reads it,   *)
(* with the queue, the workers and the requests hidden: while some holder  *)
(* (a creating request, a task, a cancel) has the execution anything may   *)
(* be written; once nobody holds it, a terminal status is final, and one   *)
(* that is not terminal can still be failed by the stale sweep.            *)
(***************************************************************************)
CONSTANTS Execution, ExecutionStatus, TERMINAL_STATES, NoRow

VARIABLES
    record,   \* the status readers see, NoRow before there is a row
    holders   \* executions somebody holds

vars == <<record, holders>>

Init == record = [e \in Execution |-> NoRow] /\ holders = {}

(* Somebody takes an execution that is new or not settled.                  *)
Take(e) ==
    /\ e \notin holders
    /\ record[e] \notin TERMINAL_STATES
    /\ \/ UNCHANGED record
       \/ record[e] = NoRow /\ record' = [record EXCEPT ![e] = "PENDING"]
    /\ holders' = holders \cup {e}

(* A holder writes a status, and may be the last to let go.                 *)
Write(e) ==
    /\ e \in holders
    /\ \E s \in ExecutionStatus : record' = [record EXCEPT ![e] = s]
    /\ holders' \in {holders, holders \ {e}}

(* Holders let go without a write, several at once when a process dies.     *)
Release ==
    /\ holders' \subseteq holders
    /\ UNCHANGED record

(* The stale sweep fails what nobody holds.                                 *)
Expire(e) ==
    /\ e \notin holders
    /\ record[e] \in ExecutionStatus \ TERMINAL_STATES
    /\ record' = [record EXCEPT ![e] = "FAILED"]
    /\ UNCHANGED holders

Next == Release \/ \E e \in Execution : Take(e) \/ Write(e) \/ Expire(e)

Spec == Init /\ [][Next]_vars
=============================================================================

------------------------ MODULE MCExecutionLifecycle ------------------------
(* Instances of ExecutionLifecycle for TLC: two executions, so that one may *)
(* be the retry of the other.                                               *)
EXTENDS ExecutionLifecycle, TLC

CONSTANTS e1, e2

Interchangeable == Permutations(Execution)
=============================================================================

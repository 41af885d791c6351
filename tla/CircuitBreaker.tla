--------------------------- MODULE CircuitBreaker ---------------------------
(***************************************************************************)
(* The circuit breaker of one node type. It belongs to the class            *)
(* WorkflowExecutor, so every run of a process shares it: a caller is one   *)
(* execution of a node of that type, in whatever run, from its admission    *)
(* to its report. Each method holds the breaker's lock from end to end and  *)
(* is one action.                                                           *)
(***************************************************************************)
EXTENDS Naturals, FiniteSets

CONSTANTS
    Caller,               \* executions of nodes of this type
    failure_threshold,
    recovery_timeout,
    half_open_max_calls,
    MaxTime,              \* bound on the clock
    MaxFailures,          \* bound on the failure count
    MaxAbandons           \* bound on calls that end without a report

ASSUME CallerAssumption == IsFiniteSet(Caller)
ASSUME ThresholdAssumption == failure_threshold \in Nat \ {0}
ASSUME BreakerAssumption ==
    recovery_timeout \in Nat /\ half_open_max_calls \in Nat
ASSUME BreakerBounds == MaxTime \in Nat /\ MaxFailures \in Nat /\ MaxAbandons \in Nat

VARIABLES
    state,        \* _state
    failures,     \* _failures
    lastFailure,  \* _last_failure_time, 0 before the first
    halfOpen,     \* _half_open_calls
    now,          \* time.time()
    admitted,     \* callers let through that have not reported
    probes,       \* those among them the present half-open period let through
    abandons      \* calls that ended without a report

vars == <<state, failures, lastFailure, halfOpen, now, admitted, probes, abandons>>

-----------------------------------------------------------------------------
Init ==
    /\ state = "CLOSED"
    /\ failures = 0
    /\ lastFailure = 0
    /\ halfOpen = 0
    /\ now = 1
    /\ admitted = {}
    /\ probes = {}
    /\ abandons = 0

(* can_execute: nothing else is let through; a refused node raises.         *)
AdmitClosed(c) ==
    /\ state = "CLOSED"
    /\ UNCHANGED <<state, halfOpen, probes>>

AdmitFirst_AtOnce(c) ==
    /\ state = "OPEN"
    /\ state' = "HALF_OPEN" /\ halfOpen' = 0
    /\ probes' = {c}

(* The first call after the time-out turns the breaker half-open, and is    *)
(* not counted among the half-open calls.                                   *)
AdmitFirst(c) ==
    /\ state = "OPEN"
    /\ now - lastFailure > recovery_timeout
    /\ state' = "HALF_OPEN" /\ halfOpen' = 0
    /\ probes' = {c}

AdmitProbe_Uncounted(c) ==
    /\ state = "HALF_OPEN"
    /\ halfOpen < half_open_max_calls
    /\ UNCHANGED <<state, halfOpen>>
    /\ probes' = probes \cup {c}

AdmitProbe_Unbounded(c) ==
    /\ state = "HALF_OPEN"
    /\ halfOpen' = halfOpen + 1
    /\ probes' = probes \cup {c}
    /\ UNCHANGED state

AdmitProbe(c) ==
    /\ state = "HALF_OPEN"
    /\ halfOpen < half_open_max_calls
    /\ halfOpen' = halfOpen + 1
    /\ probes' = probes \cup {c}
    /\ UNCHANGED state

can_execute(c) ==
    /\ c \notin admitted
    /\ AdmitClosed(c) \/ AdmitFirst(c) \/ AdmitProbe(c)
    /\ admitted' = admitted \cup {c}
    /\ UNCHANGED <<failures, lastFailure, now, abandons>>

(* A report comes from whoever was let through, however long ago and in     *)
(* whatever state the breaker then was.                                     *)
Reported(c) ==
    /\ c \in admitted
    /\ admitted' = admitted \ {c}
    /\ UNCHANGED <<now, abandons, halfOpen>>

record_success_KeepsCount(c) ==
    /\ Reported(c)
    /\ state' = IF state = "HALF_OPEN" THEN "CLOSED" ELSE state
    /\ failures' = IF state = "CLOSED" THEN 0 ELSE failures
    /\ probes' = IF state = "HALF_OPEN" THEN {} ELSE probes
    /\ UNCHANGED lastFailure

record_success(c) ==
    /\ Reported(c)
    /\ state' = IF state = "HALF_OPEN" THEN "CLOSED" ELSE state
    /\ failures' = IF state = "OPEN" THEN failures ELSE 0
    /\ probes' = IF state = "HALF_OPEN" THEN {} ELSE probes
    /\ UNCHANGED lastFailure

record_failure(c) ==
    /\ Reported(c)
    /\ failures < MaxFailures /\ failures' = failures + 1
    /\ lastFailure' = now
    /\ state' = IF state = "CLOSED" /\ failures' < failure_threshold THEN "CLOSED" ELSE "OPEN"
    /\ probes' = IF state = "HALF_OPEN" THEN {} ELSE probes

(* The call ends without a report: its run is cancelled (CancelledError is  *)
(* no Exception and passes both handlers), or its inputs or its type cannot *)
(* be resolved, which raises before the first attempt.                      *)
Abandon(c) ==
    /\ c \in admitted
    /\ abandons < MaxAbandons /\ abandons' = abandons + 1
    /\ admitted' = admitted \ {c}
    /\ probes' = probes \ {c}
    /\ UNCHANGED <<state, failures, lastFailure, halfOpen, now>>

Tick ==
    /\ now < MaxTime /\ now' = now + 1
    /\ UNCHANGED <<state, failures, lastFailure, halfOpen, admitted, probes, abandons>>

Next ==
    \/ \E c \in Caller : can_execute(c) \/ record_success(c) \/ record_failure(c) \/ Abandon(c)
    \/ Tick

Spec == Init /\ [][Next]_vars

-----------------------------------------------------------------------------
(* Properties.                                                              *)

TypeOK ==
    /\ state \in {"CLOSED", "OPEN", "HALF_OPEN"}
    /\ failures \in 0 .. MaxFailures
    /\ lastFailure \in Nat /\ now \in Nat /\ lastFailure <= now
    /\ halfOpen \in 0 .. half_open_max_calls
    /\ admitted \subseteq Caller /\ probes \subseteq admitted
    /\ state # "HALF_OPEN" => probes = {}
    /\ abandons \in 0 .. MaxAbandons

(* A closed breaker has not seen failure_threshold failures in a row, late  *)
(* reports of calls admitted before it last opened included.                *)
ClosedBelowThreshold == state = "CLOSED" => failures < failure_threshold

(* While it is half-open at most one call more than half_open_max_calls is  *)
(* under way on its account: the first one comes on top (executor.py:61).   *)
ProbeBound == state = "HALF_OPEN" => Cardinality(probes) <= halfOpen + 1

(* A half-open breaker that has let all its calls through still waits for   *)
(* one of them, whose report closes or reopens it (executor.py:75, 90): up  *)
(* to half_open_max_calls calls may be lost without a report.               *)
Waiting ==
    /\ state = "HALF_OPEN" /\ halfOpen = half_open_max_calls
    /\ abandons <= half_open_max_calls
    => probes # {}

(* Once open it lets nobody through before recovery_timeout has passed      *)
(* since the latest failure, which may be later than the one that opened it.*)
OpenHolds ==
    [][state = "OPEN" /\ now - lastFailure <= recovery_timeout
         => state' = "OPEN" /\ admitted' \subseteq admitted]_vars

(* PROJECT_OVERVIEW.md:243: the breaker is there to "isolate run failures". *)
(* No runs that fail without a report leave it shut for ever, to the other  *)
(* runs: half-open, all its calls spent, and nobody left to report.         *)
RunsIsolated ==
    ~(state = "HALF_OPEN" /\ halfOpen = half_open_max_calls /\ admitted = {})
=============================================================================

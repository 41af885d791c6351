-------------------------- MODULE WorkflowScheduler --------------------------
(***************************************************************************)
(* The scheduler tick: every minute it loads the due schedules, sends one   *)
(* message for each, works out their next run and commits, all of them in   *)
(* one transaction at the end. Users pause, resume, change, disable and     *)
(* delete schedules meanwhile.                                              *)
(*                                                                          *)
(* The session writes back the columns it changed and no others, so a tick  *)
(* and a user merge their changes column by column. Time is in minutes.     *)
(***************************************************************************)
EXTENDS Naturals, Sequences, FiniteSets

CONSTANTS
    Schedule,
    kind,          \* schedule_type of each schedule
    period,        \* cron: the slots are its multiples; interval; once: run_at
    Draft,         \* schedules whose workflow is not PUBLISHED
    Ticker,        \* workers that may run a tick
    LOOKAHEAD,     \* SCHEDULE_LOOKAHEAD_SECONDS
    MAX_PER_TICK,  \* MAX_SCHEDULES_PER_TICK
    MaxErrors,     \* max_consecutive_errors
    MaxTime,       \* bound on the clock
    MaxEdits,      \* bound on the changes by users
    MaxFaults      \* bound on failing messages and lost ticks

ASSUME KindAssumption ==
    /\ kind \in [Schedule -> {"CRON", "INTERVAL", "ONCE"}]
    /\ period \in [Schedule -> Nat \ {0}]
    /\ Draft \subseteq Schedule
ASSUME LimitAssumption ==
    LOOKAHEAD \in Nat /\ MAX_PER_TICK \in Nat \ {0} /\ MaxErrors \in Nat \ {0}
ASSUME BoundAssumption == MaxTime \in Nat \ {0} /\ MaxEdits \in Nat /\ MaxFaults \in Nat

VARIABLES
    now,
    row,     \* the committed row of each schedule
    beat,    \* the minute for which a tick was last started
    tick,    \* the tick each worker is at
    sent,    \* messages sent for each schedule: the run they are for, and when
    lost,    \* ticks that ended without their commit
    edits,   \* changes by users so far
    faults

vars == <<now, row, beat, tick, sent, lost, edits, faults>>

-----------------------------------------------------------------------------
NoTime == 0
Idle == [at |-> "idle"]
Deleted == [status |-> "DELETED", next |-> NoTime, last |-> NoTime, runs |-> 0, errors |-> 0]

NextSlot(p, t) == p * ((t \div p) + 1)

(* The next run of a row, worked out now. A one-time schedule that has run  *)
(* has none.                                                                *)
calculate_next_run(s, r) ==
    CASE kind[s] = "CRON" -> NextSlot(period[s], now)
      [] kind[s] = "INTERVAL" -> period[s] + (IF r.last = NoTime THEN now ELSE r.last)
      [] kind[s] = "ONCE" -> IF r.runs > 0 THEN NoTime ELSE period[s]

update_next_run(s, r) == [r EXCEPT !.next = calculate_next_run(s, r)]

record_execution_StaysActive(s, r) ==
    update_next_run(s, [r EXCEPT !.last = now, !.runs = @ + 1, !.errors = 0])

record_execution(s, r) ==
    update_next_run(s, [r EXCEPT
        !.last = now, !.runs = @ + 1, !.errors = 0,
        !.status = IF kind[s] = "ONCE" THEN "COMPLETED" ELSE @])

record_error_NeverPauses(s, r) == update_next_run(s, [r EXCEPT !.errors = @ + 1])

(* The tick's handler of an exception.                                      *)
record_error(s, r) ==
    update_next_run(s, [r EXCEPT
        !.errors = @ + 1,
        !.status = IF r.errors + 1 >= MaxErrors THEN "PAUSED" ELSE @])

Init ==
    /\ now = 1
    /\ row = [s \in Schedule |->
                update_next_run(s, [Deleted EXCEPT !.status = "ACTIVE"])]
    /\ beat = 0
    /\ tick = [t \in Ticker |-> Idle]
    /\ sent = [s \in Schedule |-> <<>>]
    /\ lost = 0
    /\ edits = 0
    /\ faults = 0

-----------------------------------------------------------------------------
Due(s) == /\ row[s].status = "ACTIVE"
          /\ row[s].next # NoTime /\ row[s].next <= now + LOOKAHEAD

BeginTick_Unlimited(t) ==
    /\ tick[t] = Idle
    /\ beat < now /\ beat' = now
    /\ LET batch == {s \in Schedule : Due(s)} IN
         /\ batch # {}
         /\ tick' = [tick EXCEPT ![t] = [at |-> "working", todo |-> batch,
                                         loaded |-> [s \in batch |-> row[s]],
                                         copy |-> [s \in batch |-> row[s]]]]
    /\ UNCHANGED <<now, row, sent, lost, edits, faults>>

(* The due schedules are loaded, the earliest MAX_PER_TICK of them; the beat*)
(* starts one tick a minute.                                                *)
BeginTick(t) ==
    /\ tick[t] = Idle
    /\ beat < now /\ beat' = now
    /\ \E batch \in SUBSET {s \in Schedule : Due(s)} :
         /\ batch # {}
         /\ Cardinality(batch) <= MAX_PER_TICK
         /\ \A s \in Schedule \ batch : Due(s) =>
              /\ Cardinality(batch) = MAX_PER_TICK
              /\ \A b \in batch : row[b].next <= row[s].next
         /\ tick' = [tick EXCEPT ![t] = [at |-> "working", todo |-> batch,
                                         loaded |-> [s \in batch |-> row[s]],
                                         copy |-> [s \in batch |-> row[s]]]]
    /\ UNCHANGED <<now, row, sent, lost, edits, faults>>

Working(t) == tick[t].at = "working"
Turn(t, s) ==
    /\ Working(t) /\ s \in tick[t].todo
    /\ \A o \in tick[t].todo : tick[t].loaded[s].next <= tick[t].loaded[o].next
Done(t, s, r) ==
    tick' = [tick EXCEPT ![t] = [at |-> "working", todo |-> tick[t].todo \ {s},
                                 loaded |-> tick[t].loaded,
                                 copy |-> [tick[t].copy EXCEPT ![s] = r]]]

(* The workflow is not published: the schedule stays as it is.              *)
Skip(t, s) ==
    /\ Turn(t, s)
    /\ s \in Draft
    /\ Done(t, s, tick[t].copy[s])
    /\ UNCHANGED <<now, row, beat, sent, lost, edits, faults>>

Trigger(t, s) ==
    /\ Turn(t, s)
    /\ s \notin Draft
    /\ sent' = [sent EXCEPT ![s] = Append(@, [for |-> tick[t].copy[s].next, at |-> now])]
    /\ Done(t, s, record_execution(s, tick[t].copy[s]))
    /\ UNCHANGED <<now, row, beat, lost, edits, faults>>

(* The queue refuses the message.                                           *)
TriggerFails(t, s) ==
    /\ Turn(t, s)
    /\ s \notin Draft
    /\ faults < MaxFaults /\ faults' = faults + 1
    /\ Done(t, s, record_error(s, tick[t].copy[s]))
    /\ UNCHANGED <<now, row, beat, sent, lost, edits>>

(* What the session writes of a row: the columns the tick changed.          *)
Column(was, is, there) == IF is # was THEN is ELSE there
Merge(r, loaded, copy) ==
    [status |-> Column(loaded.status, copy.status, r.status),
     next   |-> Column(loaded.next, copy.next, r.next),
     last   |-> Column(loaded.last, copy.last, r.last),
     runs   |-> Column(loaded.runs, copy.runs, r.runs),
     errors |-> Column(loaded.errors, copy.errors, r.errors)]
Changed(t) == {s \in DOMAIN tick[t].copy : tick[t].copy[s] # tick[t].loaded[s]}
GoneUnder(t) == {s \in Changed(t) : row[s].status = "DELETED"}

EndTick_UnlessTouched(t) ==
    /\ Working(t) /\ tick[t].todo = {}
    /\ row' = [s \in Schedule |-> IF s \in Changed(t) /\ row[s] = tick[t].loaded[s]
                                  THEN tick[t].copy[s] ELSE row[s]]
    /\ tick' = [tick EXCEPT ![t] = Idle]
    /\ UNCHANGED <<now, beat, sent, lost, edits, faults>>

EndTick(t) ==
    /\ Working(t) /\ tick[t].todo = {}
    /\ GoneUnder(t) = {}
    /\ row' = [s \in Schedule |->
                 IF s \in Changed(t) THEN Merge(row[s], tick[t].loaded[s], tick[t].copy[s])
                                     ELSE row[s]]
    /\ tick' = [tick EXCEPT ![t] = Idle]
    /\ UNCHANGED <<now, beat, sent, lost, edits, faults>>

(* A row to be updated is gone: StaleDataError, and the whole transaction   *)
(* is rolled back, the messages being sent already.                         *)
EndTickStale(t) ==
    /\ Working(t) /\ tick[t].todo = {}
    /\ GoneUnder(t) # {}
    /\ tick' = [tick EXCEPT ![t] = Idle]
    /\ lost' = lost + 1
    /\ UNCHANGED <<now, row, beat, sent, edits, faults>>

(* The worker dies, or the commit fails.                                    *)
LoseTick(t) ==
    /\ Working(t)
    /\ faults < MaxFaults /\ faults' = faults + 1
    /\ tick' = [tick EXCEPT ![t] = Idle]
    /\ lost' = lost + 1
    /\ UNCHANGED <<now, row, beat, sent, edits>>

-----------------------------------------------------------------------------
(* Users. Each handler reads the row and commits it in one short request.   *)

Write(s, r) ==
    /\ edits < MaxEdits /\ edits' = edits + 1
    /\ row' = [row EXCEPT ![s] = r]
    /\ UNCHANGED <<now, beat, tick, sent, lost, faults>>

pause_schedule(s) ==
    /\ row[s].status = "ACTIVE"
    /\ Write(s, [row[s] EXCEPT !.status = "PAUSED"])

resume_schedule(s) ==
    /\ row[s].status = "PAUSED"
    /\ Write(s, update_next_run(s, [row[s] EXCEPT !.status = "ACTIVE", !.errors = 0]))

disable_schedule(s) ==
    /\ row[s].status \in {"ACTIVE", "PAUSED", "COMPLETED"}
    /\ Write(s, [row[s] EXCEPT !.status = "DISABLED", !.next = NoTime])

(* A change of the timing, to a value with the same slots.                  *)
update_schedule(s) ==
    /\ row[s].status # "DELETED"
    /\ Write(s, update_next_run(s, row[s]))

delete_schedule(s) ==
    /\ row[s].status # "DELETED"
    /\ Write(s, Deleted)

Tick ==
    /\ now < MaxTime /\ now' = now + 1
    /\ UNCHANGED <<row, beat, tick, sent, lost, edits, faults>>

-----------------------------------------------------------------------------
User(s) == \/ pause_schedule(s) \/ resume_schedule(s) \/ disable_schedule(s)
           \/ update_schedule(s) \/ delete_schedule(s)

Next ==
    \/ \E t \in Ticker :
         \/ BeginTick(t) \/ EndTick(t) \/ EndTickStale(t) \/ LoseTick(t)
         \/ \E s \in Schedule : Skip(t, s) \/ Trigger(t, s) \/ TriggerFails(t, s)
    \/ \E s \in Schedule : User(s)
    \/ Tick

Spec == Init /\ [][Next]_vars

-----------------------------------------------------------------------------
(* Properties.                                                              *)

Row == [status : {"ACTIVE", "PAUSED", "DISABLED", "COMPLETED", "DELETED"},
        next : Nat, last : 0 .. MaxTime, runs : Nat, errors : 0 .. MaxErrors]

TypeOK ==
    /\ now \in 1 .. MaxTime
    /\ row \in [Schedule -> Row]
    /\ beat \in 0 .. now
    /\ \A t \in Ticker : tick[t] = Idle \/
         /\ tick[t].todo \subseteq DOMAIN tick[t].copy
         /\ Cardinality(DOMAIN tick[t].copy) <= MAX_PER_TICK
         /\ DOMAIN tick[t].loaded = DOMAIN tick[t].copy
         /\ tick[t].copy \in [DOMAIN tick[t].copy -> Row]
    /\ \A s \in Schedule : \A i \in DOMAIN sent[s] : sent[s][i].at \in 1 .. now
    /\ edits \in 0 .. MaxEdits /\ faults \in 0 .. MaxFaults

(* ONCE is run once. Only a tick that sent its messages and did not commit  *)
(* is repeated (scheduler.py:141 comes after the messages).                 *)
OnceOnce == \A s \in Schedule : kind[s] = "ONCE" => Len(sent[s]) <= 1 + lost

(* Two runs of an interval schedule are never closer than the interval less *)
(* the look-ahead (schedule.py:247), unless a tick was lost between them.   *)
Spaced ==
    lost = 0 => \A s \in Schedule : kind[s] = "INTERVAL" =>
        \A i \in DOMAIN sent[s] \ {1} :
            sent[s][i].at + LOOKAHEAD >= sent[s][i - 1].at + period[s]

(* What a schedule's user counts on, whatever ticks, faults and changes     *)
(* come between: it runs no more often than it says.                        *)
NeverTooOften == OnceOnce /\ Spaced

(* A schedule with max_consecutive_errors errors in a row is not ACTIVE,    *)
(* whatever its user does while the tick that counts the last one is on its *)
(* way to the commit.                                                       *)
AutoPaused == \A s \in Schedule : row[s].errors >= MaxErrors => row[s].status # "ACTIVE"

-----------------------------------------------------------------------------
(* What the documentation says, and the code does not keep.                 *)

(* schedules.py:236: CRON, e.g. "0 9 * * *" is "for daily at 9am": no slot  *)
(* is run twice.                                                            *)
SlotOnce ==
    \A s \in Schedule : kind[s] = "CRON" =>
        \A i, j \in DOMAIN sent[s] : sent[s][i].for = sent[s][j].for => i = j
=============================================================================

--------------------------- MODULE PlatformProofs ---------------------------
(***************************************************************************)
(* Theorems about what the editor and its users work with, side by side as *)
(* MCPlatform has it, and about three parts of it that have no other       *)
(* module of proofs: the scheduler, for every set of schedules, pauses     *)
(* what fails for any number of tickers, whose ticks may overlap, and runs *)
(* nothing too often for one tick at a time; the decisions of logic nodes; *)
(* and the templates in a node's fields, for every number of nodes.        *)
(***************************************************************************)
EXTENDS MCPlatform, StoredRowsProofs

-----------------------------------------------------------------------------
(* The scheduler.                                                           *)
ScheduleStatuses == {"ACTIVE", "PAUSED", "DISABLED", "COMPLETED", "DELETED"}
AnyRow == [status : ScheduleStatuses, next : Nat, last : Nat, runs : Nat, errors : Nat]

LEMMA SlotIsNat == ASSUME NEW p \in Nat \ {0}, NEW t \in Nat PROVE NextSlot(p, t) \in Nat
<1>1. t \div p \in Nat
  OBVIOUS
<1> DEFINE q == t \div p
<1> HIDE DEF q
<1>2. q \in Nat
  BY <1>1 DEF q
<1>3. p * (q + 1) \in Nat
  BY <1>2
<1> QED
  BY <1>3 DEF NextSlot, q

LEMMA NextIsNat ==
    ASSUME now \in Nat, NEW s \in Schedule, NEW r \in AnyRow
    PROVE  calculate_next_run(s, r) \in Nat
<1>1. /\ kind[s] \in {"CRON", "INTERVAL", "ONCE"} /\ period[s] \in Nat \ {0}
      /\ r.last \in Nat
  BY KindAssumption DEF AnyRow
<1>2. CASE kind[s] = "CRON"
  <2>1. calculate_next_run(s, r) = NextSlot(period[s], now)
    BY <1>2 DEF calculate_next_run
  <2> QED
    BY <1>1, <2>1, SlotIsNat
<1>3. CASE kind[s] = "INTERVAL"
  <2>1. calculate_next_run(s, r) = period[s] + (IF r.last = NoTime THEN now ELSE r.last)
    BY <1>3 DEF calculate_next_run
  <2> QED
    BY <1>1, <2>1
<1>4. CASE kind[s] = "ONCE"
  <2>1. calculate_next_run(s, r) = IF r.runs > 0 THEN NoTime ELSE period[s]
    BY <1>4 DEF calculate_next_run
  <2> QED
    BY <1>1, <2>1 DEF NoTime
<1> QED
  BY <1>1, <1>2, <1>3, <1>4

LEMMA NextKept ==
    ASSUME now \in Nat, NEW s \in Schedule, NEW r \in AnyRow
    PROVE  LET u == update_next_run(s, r) IN
           u \in AnyRow /\ u.status = r.status /\ u.errors = r.errors
BY NextIsNat DEF update_next_run, AnyRow

(* A run clears the errors and completes or keeps the row ...               *)
LEMMA RunKept ==
    ASSUME now \in Nat, NEW s \in Schedule, NEW r \in AnyRow
    PROVE  record_execution(s, r) \in AnyRow /\ record_execution(s, r).errors = 0
<1> DEFINE u == [r EXCEPT !.last = now, !.runs = @ + 1, !.errors = 0,
                          !.status = IF kind[s] = "ONCE" THEN "COMPLETED" ELSE @]
<1>1. u \in AnyRow /\ u.errors = 0
  <2>1. /\ r.runs + 1 \in Nat /\ 0 \in Nat
        /\ (IF kind[s] = "ONCE" THEN "COMPLETED" ELSE r.status) \in ScheduleStatuses
    BY DEF AnyRow, ScheduleStatuses
  <2> QED
    BY <2>1, Zenon DEF AnyRow
<1> HIDE DEF u
<1>2. update_next_run(s, u) \in AnyRow /\ update_next_run(s, u).errors = 0
  BY <1>1, NextKept
<1> QED
  BY <1>2 DEF u, record_execution

(* ... and the error that is one too many pauses it.                        *)
LEMMA ErrorKept ==
    ASSUME now \in Nat, NEW s \in Schedule, NEW r \in AnyRow
    PROVE  /\ record_error(s, r) \in AnyRow
           /\ record_error(s, r).errors >= MaxErrors => record_error(s, r).status = "PAUSED"
<1> DEFINE u == [r EXCEPT !.errors = @ + 1,
                          !.status = IF r.errors + 1 >= MaxErrors THEN "PAUSED" ELSE @]
<1>1. u \in AnyRow /\ (u.errors >= MaxErrors => u.status = "PAUSED")
  <2>1. /\ r.errors + 1 \in Nat
        /\ (IF r.errors + 1 >= MaxErrors THEN "PAUSED" ELSE r.status) \in ScheduleStatuses
    BY DEF AnyRow, ScheduleStatuses
  <2> QED
    BY <2>1, Zenon DEF AnyRow
<1> HIDE DEF u
<1>2. /\ update_next_run(s, u) \in AnyRow
      /\ update_next_run(s, u).errors >= MaxErrors => update_next_run(s, u).status = "PAUSED"
  BY <1>1, NextKept
<1> QED
  BY <1>2 DEF u, record_error

-----------------------------------------------------------------------------
(* What a tick holds of a row: it was ACTIVE when it was loaded, and if the *)
(* tick brings its errors to the limit it pauses it in the same commit.     *)
Safe(r) == r.errors >= MaxErrors => r.status # "ACTIVE"
HeldRow(l, c) ==
    /\ l \in AnyRow /\ c \in AnyRow
    /\ l.status = "ACTIVE"
    /\ c.errors # l.errors /\ c.errors >= MaxErrors => c.status = "PAUSED"
HeldTick(k) ==
    /\ DOMAIN k.copy \subseteq Schedule
    /\ DOMAIN k.loaded = DOMAIN k.copy
    /\ k.todo \subseteq DOMAIN k.copy
    /\ \A s \in DOMAIN k.copy : HeldRow(k.loaded[s], k.copy[s])

Inv ==
    /\ now \in Nat
    /\ row \in [Schedule -> AnyRow]
    /\ \A s \in Schedule : Safe(row[s])
    /\ DOMAIN tick = Ticker
    /\ \A t \in Ticker : Working(t) => HeldTick(tick[t])

(* However the row has changed meanwhile, the columns of a tick and its own *)
(* make a row that is safe.                                                 *)
LEMMA MergeSafe ==
    ASSUME NEW r \in AnyRow, NEW l, NEW c, HeldRow(l, c), Safe(r)
    PROVE  Merge(r, l, c) \in AnyRow /\ Safe(Merge(r, l, c))
<1>1. Merge(r, l, c) \in AnyRow
  BY DEF Merge, Column, HeldRow, AnyRow
<1>2. /\ Merge(r, l, c).errors = IF c.errors # l.errors THEN c.errors ELSE r.errors
      /\ Merge(r, l, c).status = IF c.status # l.status THEN c.status ELSE r.status
  BY DEF Merge, Column
<1>3. l.status = "ACTIVE"
  BY DEF HeldRow
<1>4. ASSUME Merge(r, l, c).errors >= MaxErrors PROVE Merge(r, l, c).status # "ACTIVE"
  <2>1. CASE c.errors # l.errors
    <3>1. c.status = "PAUSED"
      BY <1>2, <1>4, <2>1 DEF HeldRow
    <3> QED
      BY <1>2, <1>3, <3>1
  <2>2. CASE c.errors = l.errors
    <3>1. r.status # "ACTIVE"
      BY <1>2, <1>4, <2>2 DEF Safe
    <3> QED
      BY <1>2, <1>3, <3>1
  <2> QED
    BY <2>1, <2>2
<1> QED
  BY <1>1, <1>4 DEF Safe

(* One tick moves, the rows stay.                                           *)
LEMMA TickFrame ==
    ASSUME Inv, NEW t \in Ticker, NEW k, tick' = [tick EXCEPT ![t] = k],
           k.at = "working" => HeldTick(k), UNCHANGED <<now, row>>
    PROVE  Inv'
<1>1. DOMAIN tick' = Ticker
  BY DEF Inv
<1>2. ASSUME NEW o \in Ticker, Working(o)' PROVE HeldTick(tick'[o])
  BY <1>2 DEF Inv, Working
<1> QED
  BY <1>1, <1>2 DEF Inv

LEMMA DoneKeepsInv ==
    ASSUME Inv, NEW t \in Ticker, NEW s \in Schedule, Turn(t, s), NEW r \in AnyRow,
           Done(t, s, r), UNCHANGED <<now, row>>,
           r = tick[t].copy[s] \/ (r.errors >= MaxErrors => r.status = "PAUSED")
    PROVE  Inv'
<1> DEFINE old == tick[t]
           k == [at |-> "working", todo |-> old.todo \ {s}, loaded |-> old.loaded,
                 copy |-> [old.copy EXCEPT ![s] = r]]
<1>1. HeldTick(old) /\ s \in DOMAIN old.copy
  BY DEF Turn, Inv, HeldTick
<1>2. /\ k.todo = old.todo \ {s} /\ k.loaded = old.loaded
      /\ k.copy = [old.copy EXCEPT ![s] = r]
  OBVIOUS
<1>3. tick' = [tick EXCEPT ![t] = k]
  BY DEF Done
<1> HIDE DEF k, old
<1>4. HeldRow(old.loaded[s], r)
  BY <1>1 DEF HeldTick, HeldRow, old
<1>5. \A o \in DOMAIN k.copy : HeldRow(k.loaded[o], k.copy[o])
  BY <1>1, <1>2, <1>4 DEF HeldTick
<1>6. HeldTick(k)
  BY <1>1, <1>2, <1>5 DEF HeldTick
<1> QED
  BY <1>3, <1>6, TickFrame

LEMMA TickerKeepsInv ==
    ASSUME Inv, NEW t \in Ticker,
           \/ BeginTick(t) \/ EndTick(t) \/ EndTickStale(t) \/ LoseTick(t)
           \/ \E s \in Schedule : Skip(t, s) \/ Trigger(t, s) \/ TriggerFails(t, s)
    PROVE  Inv'
<1>0. Idle.at # "working"
  BY DEF Idle
<1>1. CASE BeginTick(t)
  <2>1. PICK batch \in SUBSET {s \in Schedule : Due(s)} :
          tick' = [tick EXCEPT ![t] = [at |-> "working", todo |-> batch,
                                       loaded |-> [s \in batch |-> row[s]],
                                       copy |-> [s \in batch |-> row[s]]]]
    BY <1>1 DEF BeginTick
  <2> DEFINE k == [at |-> "working", todo |-> batch,
                   loaded |-> [s \in batch |-> row[s]], copy |-> [s \in batch |-> row[s]]]
  <2>2. \A s \in batch : HeldRow(row[s], row[s])
    BY DEF Due, HeldRow, Inv
  <2>3. HeldTick(k)
    BY <2>2 DEF HeldTick
  <2> QED
    BY <1>1, <2>1, <2>3, TickFrame DEF BeginTick
<1>2. CASE EndTick(t)
  <2>1. /\ row' = [s \in Schedule |->
                     IF s \in Changed(t) THEN Merge(row[s], tick[t].loaded[s], tick[t].copy[s])
                                         ELSE row[s]]
        /\ tick' = [tick EXCEPT ![t] = Idle] /\ now' = now /\ Working(t)
    BY <1>2 DEF EndTick
  <2>2. \A s \in Schedule : row'[s] \in AnyRow /\ Safe(row'[s])
    <3> SUFFICES ASSUME NEW s \in Schedule PROVE row'[s] \in AnyRow /\ Safe(row'[s])
      OBVIOUS
    <3>1. row[s] \in AnyRow /\ Safe(row[s])
      BY DEF Inv
    <3>2. CASE s \in Changed(t)
      <4>1. HeldRow(tick[t].loaded[s], tick[t].copy[s])
        BY <2>1, <3>2 DEF Changed, Inv, HeldTick
      <4> QED
        BY <2>1, <3>1, <3>2, <4>1, MergeSafe
    <3>3. CASE s \notin Changed(t)
      BY <2>1, <3>1, <3>3
    <3> QED
      BY <3>2, <3>3
  <2>3. row' \in [Schedule -> AnyRow]
    BY <2>1, <2>2
  <2>4. ASSUME NEW o \in Ticker, Working(o)' PROVE HeldTick(tick'[o])
    BY <1>0, <2>1, <2>4 DEF Inv, Working
  <2> QED
    BY <2>1, <2>2, <2>3, <2>4 DEF Inv
<1>3. CASE EndTickStale(t) \/ LoseTick(t)
  BY <1>0, <1>3, TickFrame DEF EndTickStale, LoseTick
<1>4. ASSUME NEW s \in Schedule, Skip(t, s) \/ Trigger(t, s) \/ TriggerFails(t, s)
      PROVE  Inv'
  <2>1. Turn(t, s) /\ tick[t].copy[s] \in AnyRow /\ now \in Nat /\ UNCHANGED <<now, row>>
    BY <1>4 DEF Skip, Trigger, TriggerFails, Turn, Inv, HeldTick, HeldRow
  <2>2. CASE Skip(t, s)
    BY <2>1, <2>2, DoneKeepsInv DEF Skip
  <2>3. CASE Trigger(t, s)
    <3>1. ~(record_execution(s, tick[t].copy[s]).errors >= MaxErrors)
      BY <2>1, RunKept, LimitAssumption
    <3> QED
      BY <2>1, <2>3, <3>1, RunKept, DoneKeepsInv DEF Trigger
  <2>4. CASE TriggerFails(t, s)
    BY <2>1, <2>4, ErrorKept, DoneKeepsInv DEF TriggerFails
  <2> QED
    BY <1>4, <2>2, <2>3, <2>4
<1> QED
  BY <1>1, <1>2, <1>3, <1>4

LEMMA UserKeepsInv == ASSUME Inv, NEW s \in Schedule, User(s) PROVE Inv'
<1>1. row[s] \in AnyRow /\ Safe(row[s]) /\ now \in Nat
  BY DEF Inv
<1>2. ASSUME NEW r \in AnyRow, Safe(r), Write(s, r) PROVE Inv'
  BY <1>2 DEF Write, Inv, Working
<1>3. CASE pause_schedule(s)
  <2> DEFINE r == [row[s] EXCEPT !.status = "PAUSED"]
  <2>1. r \in AnyRow /\ Safe(r)
    BY <1>1 DEF AnyRow, ScheduleStatuses, Safe
  <2> QED
    BY <1>2, <1>3, <2>1 DEF pause_schedule
<1>4. CASE resume_schedule(s)
  <2> DEFINE r == [row[s] EXCEPT !.status = "ACTIVE", !.errors = 0]
  <2>1. r \in AnyRow /\ r.errors = 0
    BY <1>1 DEF AnyRow, ScheduleStatuses
  <2> HIDE DEF r
  <2>2. update_next_run(s, r) \in AnyRow /\ Safe(update_next_run(s, r))
    BY <1>1, <2>1, NextKept, LimitAssumption DEF Safe
  <2> QED
    BY <1>2, <1>4, <2>2 DEF resume_schedule, r
<1>5. CASE disable_schedule(s)
  <2> DEFINE r == [row[s] EXCEPT !.status = "DISABLED", !.next = NoTime]
  <2>1. r \in AnyRow /\ Safe(r)
    BY <1>1 DEF AnyRow, ScheduleStatuses, Safe, NoTime
  <2> QED
    BY <1>2, <1>5, <2>1 DEF disable_schedule
<1>6. CASE update_schedule(s)
  <2>1. update_next_run(s, row[s]) \in AnyRow /\ Safe(update_next_run(s, row[s]))
    BY <1>1, NextKept DEF Safe
  <2> QED
    BY <1>2, <1>6, <2>1 DEF update_schedule
<1>7. CASE delete_schedule(s)
  <2>1. Deleted \in AnyRow /\ Safe(Deleted)
    BY DEF Deleted, AnyRow, ScheduleStatuses, Safe, NoTime
  <2> QED
    BY <1>2, <1>7, <2>1 DEF delete_schedule
<1> QED
  BY <1>3, <1>4, <1>5, <1>6, <1>7 DEF User

LEMMA InvInitially == Init => Inv
<1> SUFFICES ASSUME Init PROVE Inv
  OBVIOUS
<1> DEFINE r == [Deleted EXCEPT !.status = "ACTIVE"]
<1>1. r \in AnyRow /\ r.errors = 0 /\ now \in Nat
  BY DEF Init, Deleted, AnyRow, ScheduleStatuses, NoTime
<1>2. row = [s \in Schedule |-> update_next_run(s, r)]
  BY DEF Init
<1> HIDE DEF r
<1>3. \A s \in Schedule : row[s] \in AnyRow /\ Safe(row[s])
  BY <1>1, <1>2, NextKept, LimitAssumption DEF Safe
<1>4. DOMAIN tick = Ticker /\ \A t \in Ticker : ~Working(t)
  BY DEF Init, Working, Idle
<1> QED
  BY <1>1, <1>2, <1>3, <1>4 DEF Inv

LEMMA InvKept == Inv /\ [Next]_vars => Inv'
<1> SUFFICES ASSUME Inv, [Next]_vars PROVE Inv'
  OBVIOUS
<1>1. CASE Tick
  BY <1>1 DEF Tick, Inv, Working
<1>2. CASE UNCHANGED vars
  BY <1>2 DEF vars, Inv, Working
<1> QED
  BY <1>1, <1>2, TickerKeepsInv, UserKeepsInv DEF Next

(* A schedule with max_consecutive_errors errors is never ACTIVE, however   *)
(* many ticks overlap with one another and with its user.                   *)
THEOREM PausedWhenFailing == Spec => []AutoPaused
<1>1. Inv => AutoPaused
  BY DEF Inv, Safe, AutoPaused
<1> QED
  BY <1>1, InvInitially, InvKept, PTL DEF Spec

-----------------------------------------------------------------------------
(* How often a schedule runs, when no two ticks overlap.                    *)

OneTicker == \A t, u \in Ticker : t = u

Message == [for : Nat, at : Nat]
LastRun(m) == m[Len(m)].at

(* In what follows, of a schedule s: m the messages sent, k the ticks lost, *)
(* n the time, r its row, l and c the row as a tick loaded it and as it     *)
(* will write it.                                                           *)

(* Messages are in the order of time, and spaced. An interval below the     *)
(* look-ahead asks for no space between runs but their order.               *)
SentTrue(s, m, k, n) ==
    /\ m \in Seq(Message)
    /\ \A i \in DOMAIN m : 1 <= m[i].at /\ m[i].at <= n
    /\ kind[s] = "ONCE" => Len(m) <= 1 + k
    /\ k = 0 /\ kind[s] = "INTERVAL" =>
         \A i \in DOMAIN m \ {1} : m[i].at + LOOKAHEAD >= m[i - 1].at + period[s]

Close(s, k) == kind[s] = "INTERVAL" /\ k = 0 /\ LOOKAHEAD < period[s]

(* A row that no tick has run and not yet committed knows of the last run:  *)
(* one to be run once is done with, the next run of an interval is due only *)
(* after it.                                                                *)
RowKnows(s, m, k, r) ==
    \/ r.status = "DELETED"
    \/ /\ kind[s] = "ONCE" /\ Len(m) > k => r.runs > 0 /\ r.next = NoTime
       /\ Close(s, k) /\ Len(m) > 0 =>
            r.last = LastRun(m) /\ (r.next = NoTime \/ r.next >= LastRun(m) + period[s])

(* A tick that has not run the schedule read a row that knew; one that has, *)
(* changed the columns that tell of it, so that its commit writes them.     *)
NotRun(s, m, k, l, c) ==
    /\ kind[s] = "ONCE" => Len(m) <= k
    /\ Close(s, k) /\ Len(m) > 0 =>
         /\ l.last = LastRun(m) /\ c.last = LastRun(m)
         /\ l.next >= LastRun(m) + period[s] /\ c.next >= LastRun(m) + period[s]
HasRun(s, m, k, l, c) ==
    /\ kind[s] = "ONCE" => c.runs > 0 /\ c.next = NoTime
    /\ Close(s, k) => /\ Len(m) > 0 /\ c.last = LastRun(m)
                      /\ c.next = LastRun(m) + period[s] /\ c.next # l.next
HeldKnows(s, m, k, n, r, l, c) ==
    /\ l.next # NoTime /\ l.next <= n + LOOKAHEAD
    /\ r.status = "DELETED" \/ r.last = l.last
    /\ c.runs = l.runs => NotRun(s, m, k, l, c)
    /\ c.runs # l.runs => HasRun(s, m, k, l, c)

Has(t, s) == Working(t) /\ s \in DOMAIN tick[t].copy
Ran(t, s) == Has(t, s) /\ tick[t].copy[s].runs # tick[t].loaded[s].runs

ScheduleTrue(s) ==
    /\ SentTrue(s, sent[s], lost, now)
    /\ (\A t \in Ticker : ~Ran(t, s)) => RowKnows(s, sent[s], lost, row[s])
    /\ \A t \in Ticker : Has(t, s) =>
         /\ HeldKnows(s, sent[s], lost, now, row[s], tick[t].loaded[s], tick[t].copy[s])
         /\ s \in tick[t].todo => tick[t].copy[s] = tick[t].loaded[s]

OftenInv ==
    /\ Inv
    /\ now >= 1 /\ lost \in Nat /\ DOMAIN sent = Schedule
    /\ \A s \in Schedule : ScheduleTrue(s)

LEMMA RunTold ==
    ASSUME now \in Nat, now >= 1, NEW s \in Schedule, NEW r \in AnyRow
    PROVE  LET c == record_execution(s, r) IN
           /\ c.runs = r.runs + 1 /\ c.last = now
           /\ kind[s] = "ONCE" => c.next = NoTime
           /\ kind[s] = "INTERVAL" => c.next = now + period[s]
<1> DEFINE u == [r EXCEPT !.last = now, !.runs = @ + 1, !.errors = 0,
                          !.status = IF kind[s] = "ONCE" THEN "COMPLETED" ELSE @]
<1>1. u.runs = r.runs + 1 /\ u.last = now /\ r.runs \in Nat /\ DOMAIN u = DOMAIN r /\ "next" \in DOMAIN r
      /\ "runs" \in DOMAIN r /\ "last" \in DOMAIN r
  BY DEF AnyRow
<1> HIDE DEF u
<1> DEFINE c == [u EXCEPT !.next = calculate_next_run(s, u)]
<1>2. c.runs = u.runs /\ c.last = u.last /\ c.next = calculate_next_run(s, u)
  BY <1>1
<1>3. kind[s] = "ONCE" => calculate_next_run(s, u) = NoTime
  BY <1>1 DEF calculate_next_run
<1>4. kind[s] = "INTERVAL" => calculate_next_run(s, u) = now + period[s]
  <2>1. period[s] \in Nat
    BY KindAssumption
  <2>2. kind[s] = "INTERVAL" => calculate_next_run(s, u) = period[s] + now
    BY <1>1 DEF calculate_next_run, NoTime
  <2> QED
    BY <2>1, <2>2
<1>5. c = record_execution(s, r)
  BY DEF record_execution, update_next_run, u
<1> HIDE DEF c
<1> QED
  BY <1>1, <1>2, <1>3, <1>4, <1>5

LEMMA ErrorTold ==
    ASSUME now \in Nat, NEW s \in Schedule, NEW r \in AnyRow
    PROVE  LET c == record_error(s, r) IN
           /\ c.runs = r.runs /\ c.last = r.last
           /\ kind[s] = "INTERVAL" /\ r.last # NoTime => c.next = r.last + period[s]
<1> DEFINE u == [r EXCEPT !.errors = @ + 1,
                          !.status = IF r.errors + 1 >= MaxErrors THEN "PAUSED" ELSE @]
<1>1. u.runs = r.runs /\ u.last = r.last /\ r.last \in Nat /\ DOMAIN u = DOMAIN r /\ "next" \in DOMAIN r
      /\ "runs" \in DOMAIN r /\ "last" \in DOMAIN r
  BY DEF AnyRow
<1> HIDE DEF u
<1> DEFINE c == [u EXCEPT !.next = calculate_next_run(s, u)]
<1>2. c.runs = u.runs /\ c.last = u.last /\ c.next = calculate_next_run(s, u)
  BY <1>1
<1>3. kind[s] = "INTERVAL" /\ r.last # NoTime => calculate_next_run(s, u) = r.last + period[s]
  <2>1. period[s] \in Nat
    BY KindAssumption
  <2>2. kind[s] = "INTERVAL" /\ r.last # NoTime => calculate_next_run(s, u) = period[s] + r.last
    BY <1>1 DEF calculate_next_run, NoTime
  <2> QED
    BY <1>1, <2>1, <2>2
<1>4. c = record_error(s, r)
  BY DEF record_error, update_next_run, u
<1> HIDE DEF c
<1> QED
  BY <1>1, <1>2, <1>3, <1>4

(* A user's recalculation.                                                  *)
LEMMA UpdateTold ==
    ASSUME now \in Nat, NEW s \in Schedule, NEW r \in AnyRow
    PROVE  LET c == update_next_run(s, r) IN
           /\ c.status = r.status /\ c.runs = r.runs /\ c.last = r.last
           /\ kind[s] = "ONCE" /\ r.runs > 0 => c.next = NoTime
           /\ kind[s] = "INTERVAL" /\ r.last # NoTime => c.next = r.last + period[s]
<1> DEFINE c == [r EXCEPT !.next = calculate_next_run(s, r)]
<1>1. /\ c.runs = r.runs /\ c.last = r.last /\ c.status = r.status
      /\ c.next = calculate_next_run(s, r) /\ r.last \in Nat
  BY DEF AnyRow
<1>2. kind[s] = "ONCE" /\ r.runs > 0 => calculate_next_run(s, r) = NoTime
  BY DEF calculate_next_run
<1>3. kind[s] = "INTERVAL" /\ r.last # NoTime => calculate_next_run(s, r) = r.last + period[s]
  <2>1. period[s] \in Nat
    BY KindAssumption
  <2>2. kind[s] = "INTERVAL" /\ r.last # NoTime => calculate_next_run(s, r) = period[s] + r.last
    BY DEF calculate_next_run
  <2> QED
    BY <1>1, <2>1, <2>2
<1>4. c = update_next_run(s, r)
  BY DEF update_next_run
<1> HIDE DEF c
<1> QED
  BY <1>1, <1>2, <1>3, <1>4

(* Time that passes makes nothing due too early.                            *)
LEMMA TimeKeeps ==
    ASSUME NEW s \in Schedule, NEW m, NEW k, NEW n \in Nat, NEW o \in Nat, n <= o, SentTrue(s, m, k, n)
    PROVE  /\ SentTrue(s, m, k, o)
           /\ \A r, c : \A l \in AnyRow : HeldKnows(s, m, k, n, r, l, c) => HeldKnows(s, m, k, o, r, l, c)
<1>1. \A i \in DOMAIN m : m[i].at \in Nat
  <2> SUFFICES ASSUME NEW i \in DOMAIN m PROVE m[i].at \in Nat
    OBVIOUS
  <2>1. m[i] \in Message
    BY DEF SentTrue
  <2> QED
    BY <2>1 DEF Message
<1>2. SentTrue(s, m, k, o)
  BY <1>1 DEF SentTrue
<1>3. ASSUME NEW r, NEW c, NEW l \in AnyRow, HeldKnows(s, m, k, n, r, l, c)
      PROVE  HeldKnows(s, m, k, o, r, l, c)
  BY <1>3, LimitAssumption DEF HeldKnows, AnyRow
<1> QED
  BY <1>2, <1>3

(* Nothing that concerns a schedule has moved but the clock.                *)
LEMMA Unmoved ==
    ASSUME OftenInv, NEW s \in Schedule,
           sent'[s] = sent[s], lost' = lost, row'[s] = row[s], now' \in Nat, now <= now',
           \A t \in Ticker : Has(t, s)' =>
             /\ Has(t, s)
             /\ tick'[t].copy[s] = tick[t].copy[s] /\ tick'[t].loaded[s] = tick[t].loaded[s]
             /\ s \in tick'[t].todo => s \in tick[t].todo,
           \A t \in Ticker : Has(t, s) => Has(t, s)'
    PROVE  ScheduleTrue(s)'
<1>1. ScheduleTrue(s) /\ now \in Nat
  BY DEF OftenInv, Inv
<1>2. SentTrue(s, sent'[s], lost', now')
  BY <1>1, TimeKeeps DEF ScheduleTrue
<1>3. \A t \in Ticker : Ran(t, s)' <=> Ran(t, s)
  BY DEF Ran
<1>4. (\A t \in Ticker : ~Ran(t, s)') => RowKnows(s, sent'[s], lost', row'[s])
  BY <1>1, <1>3 DEF ScheduleTrue
<1>5. ASSUME NEW t \in Ticker, Has(t, s)'
      PROVE  /\ HeldKnows(s, sent'[s], lost', now', row'[s], tick'[t].loaded[s], tick'[t].copy[s])
             /\ s \in tick'[t].todo => tick'[t].copy[s] = tick'[t].loaded[s]
  <2>1. Has(t, s) /\ tick[t].loaded[s] \in AnyRow
    BY <1>5 DEF OftenInv, Inv, HeldTick, HeldRow, Has
  <2>2. /\ HeldKnows(s, sent[s], lost, now, row[s], tick[t].loaded[s], tick[t].copy[s])
        /\ s \in tick[t].todo => tick[t].copy[s] = tick[t].loaded[s]
    BY <1>1, <2>1 DEF ScheduleTrue
  <2>3. HeldKnows(s, sent[s], lost, now', row[s], tick[t].loaded[s], tick[t].copy[s])
    BY <1>1, <2>1, <2>2, TimeKeeps DEF ScheduleTrue
  <2> QED
    BY <1>5, <2>2, <2>3
<1> QED
  BY <1>2, <1>4, <1>5 DEF ScheduleTrue

(* One schedule of a tick is done with.                                     *)
LEMMA DoneMoves ==
    ASSUME Inv, NEW t \in Ticker, NEW s \in Schedule, NEW r, Turn(t, s), Done(t, s, r)
    PROVE  /\ Has(t, s) /\ Has(t, s)' /\ s \in tick[t].todo /\ s \notin tick'[t].todo
           /\ tick'[t].copy[s] = r /\ tick'[t].loaded[s] = tick[t].loaded[s]
           /\ \A u \in Ticker, o \in Schedule \ {s} :
                /\ Has(u, o)' <=> Has(u, o)
                /\ Has(u, o) => /\ tick'[u].copy[o] = tick[u].copy[o]
                                /\ tick'[u].loaded[o] = tick[u].loaded[o]
                                /\ o \in tick'[u].todo => o \in tick[u].todo
<1>1. Working(t) /\ s \in tick[t].todo /\ HeldTick(tick[t]) /\ DOMAIN tick = Ticker
  BY DEF Turn, Inv
<1> DEFINE k == [at |-> "working", todo |-> tick[t].todo \ {s}, loaded |-> tick[t].loaded,
                 copy |-> [tick[t].copy EXCEPT ![s] = r]]
<1>2. tick'[t] = k /\ \A u \in Ticker \ {t} : tick'[u] = tick[u]
  BY <1>1 DEF Done
<1>3. /\ tick'[t].at = "working" /\ tick'[t].todo = tick[t].todo \ {s} /\ tick'[t].loaded = tick[t].loaded
      /\ tick'[t].copy = [tick[t].copy EXCEPT ![s] = r]
  BY <1>2
<1>4. s \in DOMAIN tick[t].copy /\ DOMAIN tick'[t].copy = DOMAIN tick[t].copy
  BY <1>1, <1>3 DEF HeldTick
<1>5. Has(t, s) /\ Has(t, s)'
  BY <1>1, <1>3, <1>4 DEF Has, Working
<1>6. tick'[t].copy[s] = r /\ s \notin tick'[t].todo
  BY <1>3, <1>4
<1>7. ASSUME NEW u \in Ticker, NEW o \in Schedule \ {s}
      PROVE  /\ Has(u, o)' <=> Has(u, o)
             /\ Has(u, o) => /\ tick'[u].copy[o] = tick[u].copy[o]
                             /\ tick'[u].loaded[o] = tick[u].loaded[o]
                             /\ o \in tick'[u].todo => o \in tick[u].todo
  <2>1. CASE u = t
    BY <1>1, <1>3, <1>4, <2>1 DEF Has, Working
  <2>2. CASE u # t
    BY <1>2, <2>2 DEF Has, Working
  <2> QED
    BY <2>1, <2>2
<1> QED
  BY <1>1, <1>3, <1>5, <1>6, <1>7

(* A message sent in its time: the schedule has run, and the tick knows.    *)
LEMMA SendKnows ==
    ASSUME NEW s \in Schedule, NEW m, NEW k \in Nat, NEW n \in Nat, n >= 1, NEW r, NEW l \in AnyRow, NEW c,
           SentTrue(s, m, k, n), HeldKnows(s, m, k, n, r, l, l), NEW e \in Message, e.at = n,
           c.runs = l.runs + 1, c.last = n, kind[s] = "ONCE" => c.next = NoTime,
           kind[s] = "INTERVAL" => c.next = n + period[s]
    PROVE  SentTrue(s, Append(m, e), k, n) /\ HeldKnows(s, Append(m, e), k, n, r, l, c)
<1> DEFINE a == Append(m, e)
<1>1. /\ m \in Seq(Message) /\ a \in Seq(Message) /\ Len(a) = Len(m) + 1 /\ Len(m) \in Nat
      /\ a[Len(m) + 1] = e /\ \A i \in DOMAIN m : a[i] = m[i]
      /\ DOMAIN a = 1 .. Len(m) + 1 /\ DOMAIN m = 1 .. Len(m)
  BY DEF SentTrue
<1>2. /\ \A i \in DOMAIN m : 1 <= m[i].at /\ m[i].at <= n
      /\ kind[s] = "ONCE" => Len(m) <= k
      /\ Close(s, k) /\ Len(m) > 0 => l.next >= m[Len(m)].at + period[s]
      /\ l.next \in Nat /\ l.next <= n + LOOKAHEAD /\ l.next # NoTime
      /\ l.runs \in Nat /\ period[s] \in Nat /\ period[s] > 0 /\ LOOKAHEAD \in Nat
      /\ r.status = "DELETED" \/ r.last = l.last
  BY KindAssumption, LimitAssumption DEF SentTrue, HeldKnows, NotRun, LastRun, AnyRow
<1> HIDE DEF a
<1>3. ASSUME k = 0, kind[s] = "INTERVAL", NEW i \in DOMAIN a \ {1}
      PROVE  a[i].at + LOOKAHEAD >= a[i - 1].at + period[s]
  <2>1. CASE i \in DOMAIN m
    <3>1. i - 1 \in DOMAIN m /\ i \in DOMAIN m \ {1}
      BY <1>1, <1>3, <2>1
    <3> QED
      BY <1>1, <1>3, <3>1 DEF SentTrue
  <2>2. CASE i = Len(m) + 1
    <3>1. Len(m) > 0 /\ Len(m) \in DOMAIN m /\ a[i] = e /\ a[i - 1] = m[Len(m)]
      BY <1>1, <1>3, <2>2
    <3>2. m[Len(m)] \in Message
      BY <1>1, <3>1
    <3>3. m[Len(m)].at \in Nat /\ m[Len(m)].at <= n
      BY <1>2, <3>1, <3>2 DEF Message
    <3>4. CASE LOOKAHEAD < period[s]
      BY <1>2, <1>3, <3>1, <3>3, <3>4 DEF Close
    <3>5. CASE ~(LOOKAHEAD < period[s])
      BY <1>2, <3>1, <3>3, <3>5
    <3> QED
      BY <3>4, <3>5
  <2> QED
    BY <1>1, <1>3, <2>1, <2>2
<1>4. SentTrue(s, a, k, n)
  <2>1. \A i \in DOMAIN a : 1 <= a[i].at /\ a[i].at <= n
    BY <1>1, <1>2
  <2>2. kind[s] = "ONCE" => Len(a) <= 1 + k
    BY <1>1, <1>2
  <2> QED
    BY <1>1, <1>3, <2>1, <2>2 DEF SentTrue
<1>5. c.runs # l.runs /\ c.runs > 0
  BY <1>2
<1>6. LastRun(a) = n /\ Len(a) > 0
  BY <1>1 DEF LastRun
<1>7. HasRun(s, a, k, l, c)
  BY <1>2, <1>5, <1>6 DEF HasRun, Close
<1>8. HeldKnows(s, a, k, n, r, l, c)
  BY <1>2, <1>5, <1>7 DEF HeldKnows
<1> QED
  BY <1>4, <1>8 DEF a

(* A failed message leaves all that tells of the last run.                  *)
LEMMA FailKnows ==
    ASSUME NEW s \in Schedule, NEW m, NEW k \in Nat, NEW n \in Nat, NEW r, NEW l \in AnyRow, NEW c,
           SentTrue(s, m, k, n), HeldKnows(s, m, k, n, r, l, l),
           c.runs = l.runs, c.last = l.last,
           kind[s] = "INTERVAL" /\ l.last # NoTime => c.next = l.last + period[s]
    PROVE  HeldKnows(s, m, k, n, r, l, c)
<1>1. NotRun(s, m, k, l, l)
  BY DEF HeldKnows
<1>2. ASSUME Close(s, k), Len(m) > 0
      PROVE  c.next >= LastRun(m) + period[s] /\ l.last = LastRun(m) /\ l.next >= LastRun(m) + period[s]
  <2>1. Len(m) \in DOMAIN m
    BY <1>2 DEF SentTrue
  <2>2. m[Len(m)] \in Message
    BY <2>1 DEF SentTrue
  <2>3. LastRun(m) \in Nat /\ LastRun(m) >= 1
    BY <2>1, <2>2 DEF SentTrue, LastRun, Message
  <2>4. l.last = LastRun(m) /\ l.next >= LastRun(m) + period[s]
    BY <1>1, <1>2 DEF NotRun
  <2>5. c.next = LastRun(m) + period[s] /\ period[s] \in Nat
    BY <1>2, <2>3, <2>4, KindAssumption DEF Close, NoTime
  <2> QED
    BY <2>3, <2>4, <2>5
<1>3. NotRun(s, m, k, l, c)
  BY <1>1, <1>2 DEF NotRun
<1> QED
  BY <1>3 DEF HeldKnows

(* What a tick commits: its own columns where it has run the schedule, and  *)
(* whatever the user made of them where it has not.                         *)
LEMMA MergeKnows ==
    ASSUME NEW s \in Schedule, NEW m, NEW k \in Nat, NEW n \in Nat, NEW r \in AnyRow, NEW l \in AnyRow,
           NEW c \in AnyRow, HeldKnows(s, m, k, n, r, l, c), r.status # "DELETED",
           c.runs = l.runs => RowKnows(s, m, k, r), SentTrue(s, m, k, n)
    PROVE  RowKnows(s, m, k, Merge(r, l, c))
<1> DEFINE w == Merge(r, l, c)
<1>1. /\ w.next = IF c.next # l.next THEN c.next ELSE r.next
      /\ w.last = IF c.last # l.last THEN c.last ELSE r.last
      /\ w.runs = IF c.runs # l.runs THEN c.runs ELSE r.runs
  BY DEF Merge, Column
<1>2. r.last = l.last /\ l.next # NoTime
  BY DEF HeldKnows
<1> HIDE DEF w
<1>3. CASE c.runs # l.runs
  <2>1. HasRun(s, m, k, l, c)
    BY <1>3 DEF HeldKnows
  <2>2. kind[s] = "ONCE" => w.runs > 0 /\ w.next = NoTime
    BY <1>1, <1>2, <1>3, <2>1 DEF HasRun
  <2>3. ASSUME Close(s, k) PROVE w.last = LastRun(m) /\ w.next >= LastRun(m) + period[s]
    <3>1. w.last = LastRun(m) /\ w.next = LastRun(m) + period[s] /\ w.next = c.next
      BY <1>1, <1>2, <2>1, <2>3 DEF HasRun
    <3>2. c.next \in Nat
      BY DEF AnyRow
    <3> QED
      BY <3>1, <3>2
  <2> QED
    BY <2>2, <2>3 DEF RowKnows, w
<1>4. CASE c.runs = l.runs
  <2>1. NotRun(s, m, k, l, c) /\ RowKnows(s, m, k, r)
    BY <1>4 DEF HeldKnows
  <2>2. kind[s] = "ONCE" => ~(Len(m) > k)
    <3>1. Len(m) \in Nat
      BY DEF SentTrue
    <3> QED
      BY <2>1, <3>1 DEF NotRun
  <2>3. ASSUME Close(s, k), Len(m) > 0
        PROVE  w.last = LastRun(m) /\ (w.next = NoTime \/ w.next >= LastRun(m) + period[s])
    BY <1>1, <2>1, <2>3 DEF NotRun, RowKnows
  <2> QED
    BY <2>2, <2>3 DEF RowKnows, w
<1> QED
  BY <1>3, <1>4

(* What a user may make of a row.                                           *)
Changes(s, r, w) ==
    /\ r.status # "DELETED"
    /\ \/ w.status = "DELETED"
       \/ /\ w.last = r.last /\ w.runs = r.runs
          /\ kind[s] = "ONCE" /\ r.runs > 0 => w.next \in {r.next, NoTime}
          /\ kind[s] = "INTERVAL" /\ r.last # NoTime => w.next \in {r.next, NoTime, r.last + period[s]}

LEMMA ChangeKnows ==
    ASSUME NEW s \in Schedule, NEW m, NEW k \in Nat, NEW n \in Nat, NEW r \in AnyRow, NEW w,
           SentTrue(s, m, k, n), RowKnows(s, m, k, r), Changes(s, r, w)
    PROVE  RowKnows(s, m, k, w)
<1> SUFFICES ASSUME w.status # "DELETED" PROVE RowKnows(s, m, k, w)
  BY DEF RowKnows
<1>1. kind[s] = "ONCE" /\ Len(m) > k => w.runs > 0 /\ w.next = NoTime
  BY DEF RowKnows, Changes
<1>2. ASSUME Close(s, k), Len(m) > 0
      PROVE  w.last = LastRun(m) /\ (w.next = NoTime \/ w.next >= LastRun(m) + period[s])
  <2>1. Len(m) \in DOMAIN m
    BY <1>2 DEF SentTrue
  <2>2. m[Len(m)] \in Message
    BY <2>1 DEF SentTrue
  <2>3. LastRun(m) \in Nat /\ LastRun(m) >= 1
    BY <2>1, <2>2 DEF SentTrue, LastRun, Message
  <2>4. r.last = LastRun(m) /\ (r.next = NoTime \/ r.next >= LastRun(m) + period[s])
    BY <1>2 DEF RowKnows, Changes
  <2>5. w.last = r.last /\ w.next \in {r.next, NoTime, r.last + period[s]} /\ period[s] \in Nat
    BY <1>2, <2>3, <2>4, KindAssumption DEF Changes, Close, NoTime
  <2> QED
    BY <2>3, <2>4, <2>5
<1> QED
  BY <1>1, <1>2 DEF RowKnows

-----------------------------------------------------------------------------
LEMMA BeginOften ==
    ASSUME OneTicker, OftenInv, NEW t \in Ticker, BeginTick(t)
    PROVE  \A s \in Schedule : ScheduleTrue(s)'
<1>1. PICK batch \in SUBSET {s \in Schedule : Due(s)} :
        tick' = [tick EXCEPT ![t] = [at |-> "working", todo |-> batch,
                                     loaded |-> [s \in batch |-> row[s]],
                                     copy |-> [s \in batch |-> row[s]]]]
  BY DEF BeginTick
<1>2. UNCHANGED <<now, row, sent, lost>> /\ tick[t] = Idle
  BY DEF BeginTick
<1>3. DOMAIN tick = Ticker /\ now \in Nat /\ \A u \in Ticker : u = t
  BY DEF OftenInv, Inv, OneTicker
<1>4. /\ tick'[t].loaded = [s \in batch |-> row[s]] /\ tick'[t].copy = [s \in batch |-> row[s]]
      /\ tick'[t].at = "working"
  BY <1>1, <1>3
<1>5. \A s \in Schedule : \A u \in Ticker : ~Ran(u, s)
  BY <1>2, <1>3 DEF Ran, Has, Working, Idle
<1> SUFFICES ASSUME NEW s \in Schedule PROVE ScheduleTrue(s)'
  OBVIOUS
<1>6. SentTrue(s, sent[s], lost, now) /\ RowKnows(s, sent[s], lost, row[s]) /\ row[s] \in AnyRow
  BY <1>5 DEF OftenInv, ScheduleTrue, Inv
<1>7. ASSUME s \in batch PROVE HeldKnows(s, sent[s], lost, now, row[s], row[s], row[s])
  <2>1. row[s].status = "ACTIVE" /\ row[s].next # NoTime /\ row[s].next <= now + LOOKAHEAD
    BY <1>7 DEF Due
  <2>2. Len(sent[s]) \in Nat /\ lost \in Nat
    BY <1>6 DEF SentTrue, OftenInv
  <2>3. NotRun(s, sent[s], lost, row[s], row[s])
    BY <1>6, <2>1, <2>2 DEF RowKnows, NotRun
  <2> QED
    BY <2>1, <2>3 DEF HeldKnows
<1>8. \A u \in Ticker : Has(u, s)' => s \in batch /\ tick'[u].copy[s] = row[s] /\ tick'[u].loaded[s] = row[s]
  BY <1>3, <1>4 DEF Has
<1>9. SentTrue(s, sent'[s], lost', now') /\ RowKnows(s, sent'[s], lost', row'[s])
  BY <1>2, <1>6
<1>10. \A u \in Ticker : Has(u, s)' =>
         /\ HeldKnows(s, sent'[s], lost', now', row'[s], tick'[u].loaded[s], tick'[u].copy[s])
         /\ s \in tick'[u].todo => tick'[u].copy[s] = tick'[u].loaded[s]
  BY <1>2, <1>7, <1>8
<1> QED
  BY <1>9, <1>10 DEF ScheduleTrue

(* One schedule of a tick is done with: the others are as they were.        *)
LEMMA DoneOften ==
    ASSUME OneTicker, OftenInv, NEW t \in Ticker, NEW s \in Schedule, NEW r, Turn(t, s), Done(t, s, r),
           UNCHANGED <<now, row, lost>>, DOMAIN sent' = Schedule,
           \A o \in Schedule \ {s} : sent'[o] = sent[o],
           SentTrue(s, sent'[s], lost, now),
           HeldKnows(s, sent'[s], lost, now, row[s], tick[t].loaded[s], r),
           r.runs = tick[t].loaded[s].runs => sent'[s] = sent[s]
    PROVE  \A o \in Schedule : ScheduleTrue(o)'
<1>1. /\ Has(t, s) /\ Has(t, s)' /\ s \in tick[t].todo /\ s \notin tick'[t].todo
      /\ tick'[t].copy[s] = r /\ tick'[t].loaded[s] = tick[t].loaded[s]
      /\ \A u \in Ticker, o \in Schedule \ {s} :
           /\ Has(u, o)' <=> Has(u, o)
           /\ Has(u, o) => /\ tick'[u].copy[o] = tick[u].copy[o]
                           /\ tick'[u].loaded[o] = tick[u].loaded[o]
                           /\ o \in tick'[u].todo => o \in tick[u].todo
  BY DoneMoves DEF OftenInv
<1>2. ASSUME NEW o \in Schedule, o # s PROVE ScheduleTrue(o)'
  BY <1>1, <1>2, Unmoved DEF OftenInv, Inv
<1>3. ScheduleTrue(s)'
  <2>1. \A u \in Ticker : u = t
    BY DEF OneTicker
  <2>2. tick[t].copy[s] = tick[t].loaded[s] /\ ScheduleTrue(s)
    BY <1>1 DEF OftenInv, ScheduleTrue
  <2>3. ASSUME \A u \in Ticker : ~Ran(u, s)' PROVE RowKnows(s, sent'[s], lost', row'[s])
    <3>1. r.runs = tick[t].loaded[s].runs
      BY <1>1, <2>3 DEF Ran
    <3>2. \A u \in Ticker : ~Ran(u, s)
      BY <2>1, <2>2 DEF Ran
    <3> QED
      BY <2>2, <3>1, <3>2 DEF ScheduleTrue
  <2>4. \A u \in Ticker : Has(u, s)' =>
         /\ HeldKnows(s, sent'[s], lost', now', row'[s], tick'[u].loaded[s], tick'[u].copy[s])
         /\ s \in tick'[u].todo => tick'[u].copy[s] = tick'[u].loaded[s]
    BY <1>1, <2>1
  <2> QED
    BY <2>3, <2>4 DEF ScheduleTrue
<1> QED
  BY <1>2, <1>3

LEMMA TurnOften ==
    ASSUME OneTicker, OftenInv, NEW t \in Ticker, NEW s \in Schedule,
           Skip(t, s) \/ Trigger(t, s) \/ TriggerFails(t, s)
    PROVE  DOMAIN sent' = Schedule /\ \A o \in Schedule : ScheduleTrue(o)'
<1> DEFINE l == tick[t].loaded[s]
           c == tick[t].copy[s]
<1>1. Turn(t, s) /\ UNCHANGED <<now, row, lost>>
  BY DEF Skip, Trigger, TriggerFails
<1>2. Has(t, s) /\ s \in tick[t].todo /\ HeldRow(l, c)
  BY <1>1 DEF Turn, OftenInv, Inv, HeldTick, Has
<1>3. /\ c = l /\ l \in AnyRow /\ SentTrue(s, sent[s], lost, now)
      /\ HeldKnows(s, sent[s], lost, now, row[s], l, l)
      /\ now \in Nat /\ now >= 1 /\ lost \in Nat /\ DOMAIN sent = Schedule
  BY <1>2 DEF OftenInv, ScheduleTrue, HeldRow, Inv
<1>4. CASE Skip(t, s)
  <2>1. Done(t, s, l) /\ sent' = sent
    BY <1>3, <1>4 DEF Skip
  <2> HIDE DEF l, c
  <2> QED
    BY <1>1, <1>3, <2>1, DoneOften DEF l
<1>5. CASE Trigger(t, s)
  <2> DEFINE e == [for |-> c.next, at |-> now]
             d == record_execution(s, c)
  <2>1. sent' = [sent EXCEPT ![s] = Append(@, e)] /\ Done(t, s, d)
    BY <1>5 DEF Trigger
  <2>2. e \in Message /\ e.at = now
    BY <1>3 DEF Message, AnyRow
  <2>3. /\ d.runs = l.runs + 1 /\ d.last = now
        /\ kind[s] = "ONCE" => d.next = NoTime
        /\ kind[s] = "INTERVAL" => d.next = now + period[s]
    BY <1>3, RunTold
  <2>4. sent'[s] = Append(sent[s], e) /\ DOMAIN sent' = Schedule /\ \A o \in Schedule \ {s} : sent'[o] = sent[o]
    BY <1>3, <2>1
  <2>5. DOMAIN sent' = Schedule /\ l.runs \in Nat
    BY <1>3, <2>4 DEF AnyRow
  <2> HIDE DEF l, c, d, e
  <2>6. SentTrue(s, Append(sent[s], e), lost, now) /\ HeldKnows(s, Append(sent[s], e), lost, now, row[s], l, d)
    BY <1>3, <2>2, <2>3, SendKnows
  <2>7. d.runs # l.runs
    BY <2>3, <2>5
  <2> QED
    BY <1>1, <2>1, <2>4, <2>6, <2>7, DoneOften DEF l
<1>6. CASE TriggerFails(t, s)
  <2> DEFINE d == record_error(s, c)
  <2>1. sent' = sent /\ Done(t, s, d)
    BY <1>6 DEF TriggerFails
  <2>2. /\ d.runs = l.runs /\ d.last = l.last
        /\ kind[s] = "INTERVAL" /\ l.last # NoTime => d.next = l.last + period[s]
    BY <1>3, ErrorTold
  <2> HIDE DEF l, c, d
  <2>3. HeldKnows(s, sent[s], lost, now, row[s], l, d)
    BY <1>3, <2>2, FailKnows
  <2> QED
    BY <1>1, <1>3, <2>1, <2>3, DoneOften DEF l
<1> QED
  BY <1>4, <1>5, <1>6

LEMMA EndOften ==
    ASSUME OneTicker, OftenInv, NEW t \in Ticker, EndTick(t)
    PROVE  \A s \in Schedule : ScheduleTrue(s)'
<1>1. /\ Working(t) /\ GoneUnder(t) = {} /\ tick' = [tick EXCEPT ![t] = Idle] /\ UNCHANGED <<now, sent, lost>>
      /\ row' = [s \in Schedule |->
                   IF s \in Changed(t) THEN Merge(row[s], tick[t].loaded[s], tick[t].copy[s]) ELSE row[s]]
  BY DEF EndTick
<1>2. DOMAIN tick = Ticker /\ \A u \in Ticker : u = t
  BY DEF OftenInv, Inv, OneTicker
<1>3. \A u \in Ticker : ~Working(u)'
  BY <1>1, <1>2 DEF Working, Idle
<1> SUFFICES ASSUME NEW s \in Schedule PROVE ScheduleTrue(s)'
  OBVIOUS
<1>4. SentTrue(s, sent[s], lost, now) /\ row[s] \in AnyRow /\ now \in Nat /\ lost \in Nat
  BY DEF OftenInv, ScheduleTrue, Inv
<1>5. RowKnows(s, sent[s], lost, row'[s])
  <2>1. CASE s \in Changed(t)
    <3>1. /\ Has(t, s) /\ row[s].status # "DELETED"
          /\ row'[s] = Merge(row[s], tick[t].loaded[s], tick[t].copy[s])
      BY <1>1, <2>1 DEF Changed, GoneUnder, Has
    <3>2. /\ HeldKnows(s, sent[s], lost, now, row[s], tick[t].loaded[s], tick[t].copy[s])
          /\ tick[t].loaded[s] \in AnyRow /\ tick[t].copy[s] \in AnyRow
      BY <3>1 DEF OftenInv, ScheduleTrue, Inv, HeldTick, HeldRow, Has
    <3>3. tick[t].copy[s].runs = tick[t].loaded[s].runs => RowKnows(s, sent[s], lost, row[s])
      BY <1>2 DEF Ran, OftenInv, ScheduleTrue
    <3> QED
      BY <1>4, <3>1, <3>2, <3>3, MergeKnows
  <2>2. CASE s \notin Changed(t)
    <3>1. \A u \in Ticker : ~Ran(u, s)
      BY <1>2, <2>2 DEF Ran, Has, Changed
    <3> QED
      BY <1>1, <2>2, <3>1 DEF OftenInv, ScheduleTrue
  <2> QED
    BY <2>1, <2>2
<1> QED
  BY <1>1, <1>3, <1>4, <1>5 DEF ScheduleTrue, Has

(* A tick that is lost may be repeated once more.                           *)
LEMMA LoseOften ==
    ASSUME OneTicker, OftenInv, NEW t \in Ticker, EndTickStale(t) \/ LoseTick(t)
    PROVE  \A s \in Schedule : ScheduleTrue(s)'
<1>1. tick' = [tick EXCEPT ![t] = Idle] /\ UNCHANGED <<now, row, sent>> /\ lost' = lost + 1
  BY DEF EndTickStale, LoseTick
<1>2. DOMAIN tick = Ticker /\ \A u \in Ticker : u = t
  BY DEF OftenInv, Inv, OneTicker
<1>3. \A u \in Ticker : ~Working(u)'
  BY <1>1, <1>2 DEF Working, Idle
<1> SUFFICES ASSUME NEW s \in Schedule PROVE ScheduleTrue(s)'
  OBVIOUS
<1>4. SentTrue(s, sent[s], lost, now) /\ lost \in Nat
  BY DEF OftenInv, ScheduleTrue
<1>5. Len(sent[s]) \in Nat /\ (kind[s] = "ONCE" => Len(sent[s]) <= 1 + lost)
  BY <1>4 DEF SentTrue
<1>6. SentTrue(s, sent[s], lost + 1, now)
  BY <1>4, <1>5 DEF SentTrue
<1>7. RowKnows(s, sent[s], lost + 1, row[s])
  BY <1>4, <1>5 DEF RowKnows, Close
<1> QED
  BY <1>1, <1>3, <1>6, <1>7 DEF ScheduleTrue, Has

LEMMA UserOften ==
    ASSUME OneTicker, OftenInv, NEW s \in Schedule, User(s)
    PROVE  \A o \in Schedule : ScheduleTrue(o)'
<1>1. row[s] \in AnyRow /\ now \in Nat /\ lost \in Nat /\ DOMAIN row = Schedule
  BY DEF OftenInv, Inv
<1>2. PICK w : Write(s, w) /\ Changes(s, row[s], w)
  <2> SUFFICES \E w : Write(s, w) /\ Changes(s, row[s], w)
    OBVIOUS
  <2>1. CASE pause_schedule(s)
    <3> DEFINE w == [row[s] EXCEPT !.status = "PAUSED"]
    <3>1. w.status = "PAUSED" /\ w.last = row[s].last /\ w.runs = row[s].runs /\ w.next = row[s].next
      BY <1>1 DEF AnyRow
    <3>2. Write(s, w) /\ row[s].status = "ACTIVE"
      BY <2>1 DEF pause_schedule
    <3> HIDE DEF w
    <3> QED
      BY <3>1, <3>2 DEF Changes
  <2>2. CASE resume_schedule(s)
    <3> DEFINE v == [row[s] EXCEPT !.status = "ACTIVE", !.errors = 0]
               w == update_next_run(s, v)
    <3>1. v \in AnyRow /\ v.last = row[s].last /\ v.runs = row[s].runs
      BY <1>1 DEF AnyRow, ScheduleStatuses
    <3>2. Write(s, w) /\ row[s].status = "PAUSED"
      BY <2>2 DEF resume_schedule
    <3> HIDE DEF v
    <3>3. /\ w.runs = v.runs /\ w.last = v.last /\ (kind[s] = "ONCE" /\ v.runs > 0 => w.next = NoTime)
          /\ kind[s] = "INTERVAL" /\ v.last # NoTime => w.next = v.last + period[s]
      BY <1>1, <3>1, UpdateTold
    <3> HIDE DEF w
    <3> QED
      BY <3>1, <3>2, <3>3 DEF Changes
  <2>3. CASE disable_schedule(s)
    <3> DEFINE w == [row[s] EXCEPT !.status = "DISABLED", !.next = NoTime]
    <3>1. w.last = row[s].last /\ w.runs = row[s].runs /\ w.next = NoTime
      BY <1>1 DEF AnyRow
    <3>2. Write(s, w) /\ row[s].status # "DELETED"
      BY <2>3 DEF disable_schedule
    <3> HIDE DEF w
    <3> QED
      BY <3>1, <3>2 DEF Changes
  <2>4. CASE update_schedule(s)
    <3> DEFINE w == update_next_run(s, row[s])
    <3>1. Write(s, w) /\ row[s].status # "DELETED"
      BY <2>4 DEF update_schedule
    <3>2. /\ w.runs = row[s].runs /\ w.last = row[s].last
          /\ kind[s] = "ONCE" /\ row[s].runs > 0 => w.next = NoTime
          /\ kind[s] = "INTERVAL" /\ row[s].last # NoTime => w.next = row[s].last + period[s]
      BY <1>1, UpdateTold
    <3> HIDE DEF w
    <3> QED
      BY <3>1, <3>2 DEF Changes
  <2>5. CASE delete_schedule(s)
    BY <2>5 DEF delete_schedule, Changes, Deleted
  <2> QED
    BY <2>1, <2>2, <2>3, <2>4, <2>5 DEF User
<1>3. UNCHANGED <<now, tick, sent, lost>> /\ row'[s] = w /\ \A o \in Schedule \ {s} : row'[o] = row[o]
  BY <1>1, <1>2 DEF Write
<1>4. \A u \in Ticker, o \in Schedule : (Has(u, o)' <=> Has(u, o)) /\ (Ran(u, o)' <=> Ran(u, o))
  BY <1>3 DEF Ran, Has, Working
<1>5. ASSUME NEW o \in Schedule, o # s PROVE ScheduleTrue(o)'
  BY <1>1, <1>3, <1>4, <1>5, Unmoved
<1>6. ScheduleTrue(s)'
  <2>1. ScheduleTrue(s) /\ SentTrue(s, sent[s], lost, now)
    BY DEF OftenInv, ScheduleTrue
  <2>2. RowKnows(s, sent[s], lost, row[s]) => RowKnows(s, sent[s], lost, w)
    BY <1>1, <1>2, <2>1, ChangeKnows
  <2>3. ASSUME NEW u \in Ticker, Has(u, s)
        PROVE  HeldKnows(s, sent[s], lost, now, w, tick[u].loaded[s], tick[u].copy[s])
    <3>1. HeldKnows(s, sent[s], lost, now, row[s], tick[u].loaded[s], tick[u].copy[s])
      BY <2>1, <2>3 DEF ScheduleTrue
    <3> QED
      BY <1>2, <3>1 DEF HeldKnows, Changes
  <2> QED
    BY <1>3, <1>4, <2>1, <2>2, <2>3 DEF ScheduleTrue
<1> QED
  BY <1>5, <1>6

(* With one tick at a time, whatever is lost, fails or is changed by the    *)
(* user meanwhile: what is to be run once is run once, and once more for    *)
(* each tick that was lost; and until one is, no two runs of an interval    *)
(* are closer than it less the look-ahead.                                  *)
THEOREM NotTooOften == ASSUME OneTicker PROVE Spec => []NeverTooOften
<1>1. Init => OftenInv
  <2> SUFFICES ASSUME Init PROVE OftenInv
    OBVIOUS
  <2>1. now = 1 /\ lost = 0 /\ sent = [s \in Schedule |-> <<>>] /\ \A t \in Ticker : ~Working(t)
    BY DEF Init, Working, Idle
  <2>2. ASSUME NEW s \in Schedule PROVE ScheduleTrue(s)
    <3>1. sent[s] = <<>> /\ Len(sent[s]) = 0
      BY <2>1
    <3>2. SentTrue(s, sent[s], lost, now)
      BY <2>1, <3>1 DEF SentTrue
    <3>3. RowKnows(s, sent[s], lost, row[s])
      BY <2>1, <3>1 DEF RowKnows
    <3> QED
      BY <2>1, <3>2, <3>3 DEF ScheduleTrue, Has
  <2> QED
    BY <2>1, <2>2, InvInitially DEF OftenInv
<1>2. OftenInv /\ [Next]_vars => OftenInv'
  <2> SUFFICES ASSUME OftenInv, [Next]_vars PROVE OftenInv'
    OBVIOUS
  <2>1. Inv' /\ now' >= 1 /\ lost' \in Nat
    <3>1. Inv'
      BY InvKept DEF OftenInv
    <3>2. now' \in {now, now + 1} /\ lost' \in {lost, lost + 1}
      BY DEF Next, vars, BeginTick, EndTick, EndTickStale, LoseTick, Skip, Trigger, TriggerFails, User, Tick,
         pause_schedule, resume_schedule, disable_schedule, update_schedule, delete_schedule, Write
    <3> QED
      BY <3>1, <3>2 DEF OftenInv, Inv
  <2>2. CASE UNCHANGED sent /\ \A s \in Schedule : ScheduleTrue(s)'
    BY <2>1, <2>2 DEF OftenInv
  <2>3. CASE UNCHANGED vars
    <3>1. \A s \in Schedule, t \in Ticker : Has(t, s)' <=> Has(t, s)
      BY <2>3 DEF vars, Has, Working
    <3>2. UNCHANGED sent /\ \A s \in Schedule : ScheduleTrue(s)'
      BY <2>3, <3>1, Unmoved DEF vars, OftenInv, Inv
    <3> QED
      BY <2>2, <3>2
  <2>4. CASE Tick
    <3>1. \A s \in Schedule, t \in Ticker : Has(t, s)' <=> Has(t, s)
      BY <2>4 DEF Tick, Has, Working
    <3>2. UNCHANGED sent /\ \A s \in Schedule : ScheduleTrue(s)'
      BY <2>1, <2>4, <3>1, Unmoved DEF Tick, OftenInv, Inv
    <3> QED
      BY <2>2, <3>2
  <2>5. ASSUME NEW s \in Schedule, User(s) PROVE OftenInv'
    <3>1. UNCHANGED sent
      BY <2>5 DEF User, pause_schedule, resume_schedule, disable_schedule, update_schedule,
         delete_schedule, Write
    <3> QED
      BY <2>2, <2>5, <3>1, UserOften
  <2>6. ASSUME NEW t \in Ticker, BeginTick(t) \/ EndTick(t) \/ EndTickStale(t) \/ LoseTick(t)
        PROVE  OftenInv'
    <3>1. UNCHANGED sent
      BY <2>6 DEF BeginTick, EndTick, EndTickStale, LoseTick
    <3> QED
      BY <2>2, <2>6, <3>1, BeginOften, EndOften, LoseOften
  <2>7. ASSUME NEW t \in Ticker, NEW s \in Schedule, Skip(t, s) \/ Trigger(t, s) \/ TriggerFails(t, s)
        PROVE  OftenInv'
    BY <2>1, <2>7, TurnOften DEF OftenInv
  <2> QED
    BY <2>3, <2>4, <2>5, <2>6, <2>7 DEF Next
<1>3. OftenInv => NeverTooOften
  BY DEF OftenInv, ScheduleTrue, SentTrue, NeverTooOften, OnceOnce, Spaced
<1> QED
  BY <1>1, <1>2, <1>3, PTL DEF Spec

-----------------------------------------------------------------------------
(***************************************************************************)
(* The scheduler's type. A row is loaded while it is ACTIVE, so its errors *)
(* are below the limit, and a tick adds one at most: what it has not come  *)
(* to yet is as it was loaded.                                             *)
(***************************************************************************)
Limited(r) == r.last <= MaxTime /\ r.errors <= MaxErrors

TickTyped(k) ==
    /\ k.at = "working" /\ k.copy \in [DOMAIN k.copy -> AnyRow]
    /\ Cardinality(DOMAIN k.copy) <= MAX_PER_TICK
    /\ \A s \in DOMAIN k.copy :
         Limited(k.loaded[s]) /\ Limited(k.copy[s]) /\ k.loaded[s].errors < MaxErrors
    /\ \A s \in k.todo : k.copy[s] = k.loaded[s]

SentBy(messages, time) ==
    /\ messages \in [Schedule -> Seq(Message)]
    /\ \A s \in Schedule : \A i \in 1 .. Len(messages[s]) : messages[s][i].at \in 1 .. time

Typed ==
    /\ now \in 1 .. MaxTime /\ beat \in 0 .. now
    /\ \A s \in Schedule : Limited(row[s])
    /\ \A t \in Ticker : tick[t] = Idle \/ TickTyped(tick[t])
    /\ SentBy(sent, now)
    /\ edits \in 0 .. MaxEdits /\ faults \in 0 .. MaxFaults

LEMMA UpdateLimited ==
    ASSUME now \in Nat, NEW s \in Schedule, NEW r \in AnyRow, Limited(r)
    PROVE  Limited(update_next_run(s, r))
BY DEF update_next_run, AnyRow, Limited

LEMMA RunLimited ==
    ASSUME now \in 1 .. MaxTime, NEW s \in Schedule, NEW r \in AnyRow
    PROVE  Limited(record_execution(s, r))
<1> DEFINE u == [r EXCEPT !.last = now, !.runs = @ + 1, !.errors = 0,
                          !.status = IF kind[s] = "ONCE" THEN "COMPLETED" ELSE @]
<1>1. record_execution(s, r).last = now /\ record_execution(s, r).errors = 0
  BY DEF record_execution, update_next_run, AnyRow
<1> QED
  BY <1>1, LimitAssumption, BoundAssumption DEF Limited

LEMMA ErrorLimited ==
    ASSUME now \in Nat, NEW s \in Schedule, NEW r \in AnyRow, Limited(r), r.errors < MaxErrors
    PROVE  Limited(record_error(s, r))
<1>1. record_error(s, r).last = r.last /\ record_error(s, r).errors = r.errors + 1
  BY DEF record_error, update_next_run, AnyRow
<1>2. r.errors \in Nat
  BY DEF AnyRow
<1> QED
  BY <1>1, <1>2, LimitAssumption DEF Limited

LEMMA MergeLimited ==
    ASSUME NEW r, NEW l, NEW c, Limited(r), Limited(c)
    PROVE  Limited(Merge(r, l, c))
BY DEF Merge, Column, Limited

(* A tick moves and nothing is committed.                                   *)
LEMMA TickTypesKept ==
    ASSUME Inv, Typed, NEW t \in Ticker, NEW k, tick' = [tick EXCEPT ![t] = k],
           k = Idle \/ TickTyped(k), UNCHANGED <<now, row>>, beat' \in 0 .. now,
           edits' = edits, faults' \in 0 .. MaxFaults, SentBy(sent', now)
    PROVE  Typed'
<1>1. \A o \in Ticker : tick'[o] = Idle \/ TickTyped(tick'[o])
  BY DEF Inv, Typed
<1> QED
  BY <1>1 DEF Typed

LEMMA DoneTyped ==
    ASSUME Inv, Typed, NEW t \in Ticker, NEW s \in Schedule, Turn(t, s), NEW r, Limited(r),
           r \in AnyRow, Done(t, s, r), UNCHANGED <<now, row, beat, edits>>, faults' \in 0 .. MaxFaults,
           SentBy(sent', now)
    PROVE  Typed'
<1> DEFINE old == tick[t]
           k == [at |-> "working", todo |-> old.todo \ {s}, loaded |-> old.loaded,
                 copy |-> [old.copy EXCEPT ![s] = r]]
<1>1. TickTyped(old) /\ old.todo \subseteq DOMAIN old.copy
  BY DEF Turn, Working, Idle, Inv, HeldTick, Typed
<1>2. /\ k.at = "working" /\ k.todo = old.todo \ {s} /\ k.loaded = old.loaded
      /\ k.copy = [old.copy EXCEPT ![s] = r]
  OBVIOUS
<1>3. tick' = [tick EXCEPT ![t] = k]
  BY DEF Done
<1> HIDE DEF k, old
<1>4. DOMAIN k.copy = DOMAIN old.copy /\ \A o \in DOMAIN old.copy : k.copy[o] = IF o = s THEN r ELSE old.copy[o]
  BY <1>2
<1>5. TickTyped(k)
  <2>1. k.copy \in [DOMAIN k.copy -> AnyRow]
    BY <1>1, <1>2, <1>4 DEF TickTyped
  <2>2. \A o \in k.todo : k.copy[o] = k.loaded[o]
    BY <1>1, <1>2, <1>4 DEF TickTyped
  <2>3. \A o \in DOMAIN k.copy : Limited(k.loaded[o]) /\ Limited(k.copy[o]) /\ k.loaded[o].errors < MaxErrors
    BY <1>1, <1>2, <1>4 DEF TickTyped
  <2> QED
    BY <1>1, <1>2, <1>4, <2>1, <2>2, <2>3 DEF TickTyped
<1>6. beat' \in 0 .. now
  BY DEF Typed
<1> QED
  BY <1>3, <1>5, <1>6, TickTypesKept

LEMMA TickerTyped ==
    ASSUME Inv, Typed, NEW t \in Ticker,
           \/ BeginTick(t) \/ EndTick(t) \/ EndTickStale(t) \/ LoseTick(t)
           \/ \E s \in Schedule : Skip(t, s) \/ Trigger(t, s) \/ TriggerFails(t, s)
    PROVE  Typed'
<1>1. /\ now \in 1 .. MaxTime /\ beat \in 0 .. now /\ faults \in 0 .. MaxFaults /\ MaxFaults \in Nat
      /\ MaxTime \in Nat /\ faults < MaxFaults => faults + 1 \in 0 .. MaxFaults
  BY BoundAssumption DEF Typed
<1>2. CASE BeginTick(t)
  <2>1. PICK batch \in SUBSET {s \in Schedule : Due(s)} :
          /\ Cardinality(batch) <= MAX_PER_TICK
          /\ tick' = [tick EXCEPT ![t] = [at |-> "working", todo |-> batch,
                                          loaded |-> [s \in batch |-> row[s]],
                                          copy |-> [s \in batch |-> row[s]]]]
    BY <1>2 DEF BeginTick
  <2> DEFINE k == [at |-> "working", todo |-> batch,
                   loaded |-> [s \in batch |-> row[s]], copy |-> [s \in batch |-> row[s]]]
  <2>2. /\ k.at = "working" /\ k.todo = batch /\ k.loaded = [s \in batch |-> row[s]]
        /\ k.copy = [s \in batch |-> row[s]]
    OBVIOUS
  <2>3. tick' = [tick EXCEPT ![t] = k]
    BY <2>1
  <2> HIDE DEF k
  <2>4. TickTyped(k)
    <3>1. ASSUME NEW s \in batch PROVE row[s] \in AnyRow /\ Limited(row[s]) /\ row[s].errors < MaxErrors
      BY LimitAssumption DEF Due, Inv, Safe, AnyRow, Typed
    <3> QED
      BY <2>1, <2>2, <3>1 DEF TickTyped
  <2>5. UNCHANGED <<now, row, sent, edits, faults>> /\ beat' = now
    BY <1>2 DEF BeginTick
  <2> QED
    BY <1>1, <2>3, <2>4, <2>5, TickTypesKept DEF Typed
<1>3. CASE EndTick(t)
  <2>1. /\ row' = [s \in Schedule |->
                     IF s \in Changed(t) THEN Merge(row[s], tick[t].loaded[s], tick[t].copy[s])
                                         ELSE row[s]]
        /\ tick' = [tick EXCEPT ![t] = Idle] /\ Working(t) /\ UNCHANGED <<now, beat, sent, edits, faults>>
    BY <1>3 DEF EndTick
  <2>2. TickTyped(tick[t])
    BY <2>1 DEF Working, Idle, Typed
  <2>3. \A s \in Schedule : Limited(row'[s])
    BY <2>1, <2>2, MergeLimited DEF Changed, TickTyped, Typed
  <2>4. \A o \in Ticker : tick'[o] = Idle \/ TickTyped(tick'[o])
    BY <2>1 DEF Inv, Typed
  <2> QED
    BY <2>1, <2>3, <2>4 DEF Typed
<1>4. CASE EndTickStale(t) \/ LoseTick(t)
  <2>1. UNCHANGED <<now, row, beat, sent, edits>> /\ faults' \in 0 .. MaxFaults /\ tick' = [tick EXCEPT ![t] = Idle]
    BY <1>1, <1>4 DEF EndTickStale, LoseTick
  <2> QED
    BY <1>1, <2>1, TickTypesKept DEF Typed
<1>5. ASSUME NEW s \in Schedule, Skip(t, s) \/ Trigger(t, s) \/ TriggerFails(t, s)
      PROVE  Typed'
  <2> DEFINE c == tick[t].copy[s]
  <2>1. Turn(t, s) /\ UNCHANGED <<now, row, beat, edits>> /\ faults' \in 0 .. MaxFaults
    BY <1>1, <1>5 DEF Skip, Trigger, TriggerFails
  <2>2. HeldTick(tick[t]) /\ TickTyped(tick[t]) /\ s \in tick[t].todo
    BY <2>1 DEF Turn, Working, Idle, Inv, Typed
  <2>3. c \in AnyRow /\ Limited(c) /\ c.errors < MaxErrors /\ SentBy(sent, now)
    BY <2>2 DEF HeldTick, HeldRow, TickTyped, Typed
  <2>4. CASE Skip(t, s)
    BY <2>1, <2>3, <2>4, DoneTyped DEF Skip
  <2>5. CASE TriggerFails(t, s)
    <3>1. Limited(record_error(s, c)) /\ record_error(s, c) \in AnyRow
      BY <1>1, <2>3, ErrorLimited, ErrorKept
    <3> QED
      BY <2>1, <2>3, <2>5, <3>1, DoneTyped DEF TriggerFails
  <2>6. CASE Trigger(t, s)
    <3> DEFINE m == [for |-> c.next, at |-> now]
    <3>1. Limited(record_execution(s, c)) /\ record_execution(s, c) \in AnyRow
      BY <1>1, <2>3, RunLimited, RunKept
    <3>2. m \in Message /\ m.at = now
      BY <1>1, <2>3 DEF AnyRow, Message
    <3>3. sent' = [sent EXCEPT ![s] = Append(sent[s], m)]
      BY <2>6 DEF Trigger
    <3> HIDE DEF m
    <3>4. SentBy(sent', now)
      <4>1. ASSUME NEW o \in Schedule
            PROVE  /\ sent'[o] \in Seq(Message)
                   /\ \A i \in 1 .. Len(sent'[o]) : sent'[o][i].at \in 1 .. now
        <5>1. sent[o] \in Seq(Message) /\ \A i \in 1 .. Len(sent[o]) : sent[o][i].at \in 1 .. now
          BY <2>3 DEF SentBy
        <5>2. CASE o = s
          <6>1. sent'[o] = Append(sent[o], m)
            BY <2>3, <3>3, <5>2 DEF SentBy
          <6> QED
            BY <1>1, <3>2, <5>1, <6>1
        <5>3. CASE o # s
          BY <2>3, <3>3, <5>1, <5>3 DEF SentBy
        <5> QED
          BY <5>2, <5>3
      <4>2. sent' = [o \in Schedule |-> sent'[o]]
        BY <2>3, <3>3 DEF SentBy
      <4> QED
        BY <4>1, <4>2 DEF SentBy
    <3> QED
      BY <2>1, <2>3, <2>6, <3>1, <3>4, DoneTyped DEF Trigger
  <2> QED
    BY <1>5, <2>4, <2>5, <2>6
<1> QED
  BY <1>2, <1>3, <1>4, <1>5

LEMMA UserTyped == ASSUME Inv, Typed, NEW s \in Schedule, User(s) PROVE Typed'
<1>1. row[s] \in AnyRow /\ Limited(row[s]) /\ now \in Nat
  BY DEF Inv, Typed
<1>2. ASSUME NEW r, Limited(r), Write(s, r) PROVE Typed'
  <2>1. \A o \in Schedule : Limited(row'[o])
    BY <1>2 DEF Write, Inv, Typed
  <2>2. edits' \in 0 .. MaxEdits
    BY <1>2, BoundAssumption DEF Write, Typed
  <2> QED
    BY <1>2, <2>1, <2>2 DEF Write, Typed
<1>3. CASE pause_schedule(s)
  <2> DEFINE r == [row[s] EXCEPT !.status = "PAUSED"]
  <2>1. Limited(r)
    BY <1>1 DEF AnyRow, Limited
  <2> QED
    BY <1>2, <1>3, <2>1 DEF pause_schedule
<1>4. CASE resume_schedule(s)
  <2> DEFINE r == [row[s] EXCEPT !.status = "ACTIVE", !.errors = 0]
  <2>1. r \in AnyRow /\ r.errors = 0 /\ r.last = row[s].last
    BY <1>1 DEF AnyRow, ScheduleStatuses
  <2> HIDE DEF r
  <2>2. Limited(r)
    BY <1>1, <2>1, LimitAssumption DEF Limited
  <2>3. Limited(update_next_run(s, r))
    BY <1>1, <2>1, <2>2, UpdateLimited
  <2> QED
    BY <1>2, <1>4, <2>3 DEF resume_schedule, r
<1>5. CASE disable_schedule(s)
  <2> DEFINE r == [row[s] EXCEPT !.status = "DISABLED", !.next = NoTime]
  <2>1. Limited(r)
    BY <1>1 DEF AnyRow, Limited
  <2> QED
    BY <1>2, <1>5, <2>1 DEF disable_schedule
<1>6. CASE update_schedule(s)
  BY <1>1, <1>2, <1>6, UpdateLimited DEF update_schedule
<1>7. CASE delete_schedule(s)
  <2>1. Limited(Deleted)
    BY LimitAssumption, BoundAssumption DEF Deleted, Limited, NoTime
  <2> QED
    BY <1>2, <1>7, <2>1 DEF delete_schedule
<1> QED
  BY <1>3, <1>4, <1>5, <1>6, <1>7 DEF User

LEMMA ScheduleTypes == Spec => []TypeOK
<1>1. Init => Typed
  <2> SUFFICES ASSUME Init PROVE Typed
    OBVIOUS
  <2> DEFINE r == [Deleted EXCEPT !.status = "ACTIVE"]
  <2>1. r \in AnyRow /\ Limited(r) /\ now = 1
    BY LimitAssumption, BoundAssumption DEF Init, Deleted, AnyRow, ScheduleStatuses, NoTime, Limited
  <2>2. row = [s \in Schedule |-> update_next_run(s, r)]
    BY DEF Init
  <2> HIDE DEF r
  <2>3. \A s \in Schedule : Limited(row[s])
    BY <2>1, <2>2, UpdateLimited
  <2>4. SentBy(sent, now)
    BY DEF Init, SentBy
  <2> QED
    BY <2>1, <2>3, <2>4, BoundAssumption DEF Init, Typed
<1>2. Inv /\ Typed /\ [Next]_vars => Typed'
  <2> SUFFICES ASSUME Inv, Typed, [Next]_vars PROVE Typed'
    OBVIOUS
  <2>1. CASE Tick
    <3>1. /\ now' = now + 1 /\ now' \in 1 .. MaxTime /\ beat \in 0 .. now'
          /\ UNCHANGED <<row, beat, tick, sent, edits, faults>>
      BY <2>1, BoundAssumption DEF Tick, Typed
    <3>2. SentBy(sent, now')
      BY <3>1, BoundAssumption DEF SentBy, Typed
    <3> QED
      BY <3>1, <3>2 DEF Typed
  <2>2. CASE UNCHANGED vars
    BY <2>2 DEF vars, Typed
  <2> QED
    BY <2>1, <2>2, TickerTyped, UserTyped DEF Next
<1>3. Inv /\ Typed => TypeOK
  <2> SUFFICES ASSUME Inv, Typed PROVE TypeOK
    OBVIOUS
  <2>1. \A r \in AnyRow : Limited(r) => r \in Row
    BY LimitAssumption, BoundAssumption DEF AnyRow, ScheduleStatuses, Limited, Row
  <2>2. row \in [Schedule -> Row]
    BY <2>1 DEF Inv, Typed
  <2>3. ASSUME NEW t \in Ticker, tick[t] # Idle
        PROVE  /\ tick[t].todo \subseteq DOMAIN tick[t].copy
               /\ Cardinality(DOMAIN tick[t].copy) <= MAX_PER_TICK
               /\ DOMAIN tick[t].loaded = DOMAIN tick[t].copy
               /\ tick[t].copy \in [DOMAIN tick[t].copy -> Row]
    <3>1. TickTyped(tick[t])
      BY <2>3 DEF Typed
    <3>2. HeldTick(tick[t])
      BY <3>1 DEF TickTyped, Inv, Working
    <3>3. tick[t].copy \in [DOMAIN tick[t].copy -> Row]
      BY <2>1, <3>1 DEF TickTyped
    <3> QED
      BY <3>1, <3>2, <3>3 DEF TickTyped, HeldTick
  <2>4. \A s \in Schedule : DOMAIN sent[s] = 1 .. Len(sent[s])
    BY DEF Typed, SentBy
  <2> QED
    BY <2>2, <2>3, <2>4 DEF Typed, SentBy, TypeOK
<1> QED
  BY <1>1, <1>2, <1>3, InvInitially, InvKept, PTL DEF Spec

-----------------------------------------------------------------------------
(***************************************************************************)
(* The logic nodes. What a node has decided is sound before any edge is    *)
(* taken, and nothing it rests on changes until the next node is entered.  *)
(***************************************************************************)
(* What a node hands on, of the settings that the node behind it has.       *)
Handling == {"fail_fast", "fail_slow", "ignore", "collect"}
CarriedTrue ==
    /\ DOMAIN carried \subseteq {"condition", "mode", "failure_handling", "items", "operation", "model"}
    /\ "failure_handling" \in DOMAIN carried => carried.failure_handling \in Handling

LogicTrue ==
    /\ logic.kind \in DOMAIN Settings /\ logic.settings \in Settings[logic.kind]
    /\ evidence \in Evidence(logic.kind)

(* The decision of a node that has made one, whatever edges are taken then. *)
Decided == logicStep \in {"output", "over", "paused"} /\ chain > 0
Sound ==
    /\ logic.kind = "router" => RouterGrounded /\ branch \in {"sales", "support", "other"}
    /\ logic.kind = "filter" =>
         /\ branch \in {"true", "false", "else", "error"}
         /\ branch = "true" => Given("condition") /\ evidence.main = "true"
         /\ branch = "else" => evidence.main = "false" /\ evidence.alternative = "true"
    /\ logic.kind = "wait" =>
         branch \in {"paused", "error", "approved"} /\ (branch = "approved" => evidence.holds)
    /\ logic.kind = "parallel" /\ branch = "completed" /\ Missing # {} =>
         Input.mode = "all_settled" \/ Input.failure_handling \in {"ignore", "collect"}
    /\ logic.kind = "loop" => branch \in {"start", "completed", "error"}

(* A router that asks its model may, and has had no answer so far.          *)
AskingModel ==
    logicStep = "ai" =>
        /\ logic.kind = "router" /\ Given("prompt") /\ Given("connection_id")
        /\ asked \in Seq({"silent"}) /\ Len(asked) < AiAttempts

LogicInv ==
    /\ chain \in Nat
    /\ LogicTrue /\ CarriedTrue
    /\ logicStep = "input" => asked = <<>>
    /\ AskingModel
    /\ Decided => Sound
    /\ logicStep \in {"over", "paused"} /\ chain > 0 => followed = EdgesTaken

(* What reaches a node of the settings that nobody hands on.                *)
LEMMA InputTyped ==
    ASSUME LogicTrue, CarriedTrue
    PROVE  /\ logic.kind = "router" => Input.default_branch \in {"support", "other"}
           /\ logic.kind = "loop" => Input.empty_behavior \in {"completed", "error"}
           /\ logic.kind = "parallel" => Input.failure_handling \in Handling
<1> DEFINE set == logic.settings
<1>1. \A k \in DOMAIN carried : Input[k] = carried[k]
  BY DEF Input, Over
<1>2. \A k \in DOMAIN set \ DOMAIN carried : Input[k] = set[k]
  BY DEF Input, Over
<1>3. ASSUME logic.kind = "router" PROVE Input.default_branch \in {"support", "other"}
  <2>1. set \in RouterSettings
    BY <1>3 DEF LogicTrue, Settings
  <2>2. "default_branch" \in DOMAIN set /\ set.default_branch \in {"support", "other"}
    BY <2>1 DEF RouterSettings
  <2>3. "default_branch" \notin DOMAIN carried
    BY DEF CarriedTrue
  <2> QED
    BY <1>2, <2>2, <2>3
<1>4. ASSUME logic.kind = "loop" PROVE Input.empty_behavior \in {"completed", "error"}
  <2>1. set \in LoopSettings
    BY <1>4 DEF LogicTrue, Settings
  <2>2. "empty_behavior" \in DOMAIN set /\ set.empty_behavior \in {"completed", "error"}
    BY <2>1 DEF LoopSettings
  <2>3. "empty_behavior" \notin DOMAIN carried
    BY DEF CarriedTrue
  <2> QED
    BY <1>2, <2>2, <2>3
<1>5. ASSUME logic.kind = "parallel" PROVE Input.failure_handling \in Handling
  <2>1. set \in ParallelSettings
    BY <1>5 DEF LogicTrue, Settings
  <2>2. "failure_handling" \in DOMAIN set /\ set.failure_handling \in Handling
    BY <2>1 DEF ParallelSettings, Handling
  <2> QED
    BY <1>1, <1>2, <2>2 DEF CarriedTrue
<1> QED
  BY <1>3, <1>4, <1>5

(* What a node hands on is of these names and values, whatever it does.     *)
LEMMA HandedOn ==
    ASSUME LogicTrue, CarriedTrue, NEW b
    PROVE  LET o == OutputKeys(b) IN
           /\ DOMAIN o \subseteq {"condition", "mode", "failure_handling", "items", "operation", "model"}
           /\ "failure_handling" \in DOMAIN o => o.failure_handling \in Handling
<1>1. DOMAIN <<>> = {}
  OBVIOUS
<1>2. CASE logic.kind = "filter"
  BY <1>1, <1>2 DEF OutputKeys, FilterKeys
<1>3. CASE logic.kind = "wait"
  BY <1>1, <1>3 DEF OutputKeys
<1>4. CASE logic.kind = "parallel"
  BY <1>1, <1>4, InputTyped DEF OutputKeys
<1>5. CASE logic.kind = "loop"
  BY <1>1, <1>5 DEF OutputKeys
<1>6. CASE logic.kind = "memory"
  BY <1>1, <1>6 DEF OutputKeys
<1>7. CASE logic.kind = "model"
  BY <1>1, <1>7 DEF OutputKeys
<1>8. CASE logic.kind = "router"
  BY <1>1, <1>8 DEF OutputKeys
<1> QED
  BY <1>2, <1>3, <1>4, <1>5, <1>6, <1>7, <1>8 DEF LogicTrue, Settings

(* A decision that is sound keeps the invariant; an error makes none.       *)
LEMMA SelectKeeps ==
    ASSUME LogicInv, NEW b, Select(b), Sound'
    PROVE  LogicInv'
<1>1. /\ UNCHANGED <<logic, linked, carried, evidence, chain>> /\ logicStep' = "output"
  BY DEF Select
<1> QED
  BY <1>1 DEF LogicInv, LogicTrue, CarriedTrue, AskingModel, Decided

LEMMA RaiseKeeps ==
    ASSUME LogicInv, NEW x \in BOOLEAN, RaiseError(x), logicStep = "input"
    PROVE  LogicInv'
<1>1. UNCHANGED <<logic, linked, carried, chain>> /\ LogicTrue /\ CarriedTrue /\ chain \in Nat
  BY DEF RaiseError, LogicInv
<1>2. CASE logicStep' = "input" /\ asked' = <<>> /\ evidence' \in Evidence(logic.kind)
  BY <1>1, <1>2 DEF LogicInv, LogicTrue, CarriedTrue, AskingModel, Decided
<1>3. CASE logicStep' = "failed" /\ evidence' = evidence
  BY <1>1, <1>3 DEF LogicInv, LogicTrue, CarriedTrue, AskingModel, Decided
<1> QED
  BY <1>2, <1>3 DEF RaiseError

LEMMA NextNodeKeeps == ASSUME LogicInv, NextNode PROVE LogicInv'
<1>1. PICK n \in LogicNode : \E l \in Linked(n.kind) : EnterNode(n, l)
  BY DEF NextNode
<1>2. /\ logic' = n /\ evidence' \in Evidence(n.kind) /\ asked' = <<>> /\ logicStep' = "input"
  BY <1>1 DEF EnterNode
<1>3. n.kind \in DOMAIN Settings /\ n.settings \in Settings[n.kind]
  <2>1. PICK k \in DOMAIN Settings : n \in [kind : {k}, settings : Settings[k]]
    BY DEF LogicNode
  <2>2. n.kind = k /\ n.settings \in Settings[k]
    BY <2>1
  <2> QED
    BY <2>2
<1>4. CarriedTrue'
  <2>1. LogicTrue /\ CarriedTrue
    BY DEF LogicInv
  <2>2. carried' = <<>> \/ carried' = OutputKeys(branch)
    BY DEF NextNode
  <2>3. CASE carried' = <<>>
    <3>1. DOMAIN carried' = {}
      BY <2>3
    <3> QED
      BY <3>1 DEF CarriedTrue
  <2>4. CASE carried' = OutputKeys(branch)
    BY <2>1, <2>4, HandedOn DEF CarriedTrue
  <2> QED
    BY <2>2, <2>3, <2>4
<1>5. chain' \in Nat
  BY DEF NextNode, LogicInv
<1> QED
  BY <1>2, <1>3, <1>4, <1>5 DEF LogicInv, LogicTrue, AskingModel, Decided

(* What a router falls back on is a branch of the list or the default.      *)
LEMMA FallbackListed ==
    ASSUME LogicTrue, CarriedTrue, logic.kind = "router"
    PROVE  RouterFallback \in {"sales", "support", "other"} /\ Branches[1] = "support"
<1>1. Branches[1] = "support"
  BY DEF Branches
<1>2. RoutedByRules \in {"sales", "support"}
  BY <1>1 DEF RoutedByRules
<1> QED
  BY <1>1, <1>2, InputTyped DEF RouterFallback

LEMMA SameInput ==
    ASSUME UNCHANGED <<logic, linked, carried, evidence>>
    PROVE  /\ Input' = Input /\ Branches' = Branches /\ RoutedByRules' = RoutedByRules
           /\ RouterFallback' = RouterFallback
           /\ \A k : Given(k)' <=> Given(k)
<1>1. Input' = Input
  BY DEF Input
<1>2. \A k : Given(k)' <=> Given(k)
  BY <1>1 DEF Given
<1>3. Branches' = Branches
  BY <1>1 DEF Branches, DefaultListed
<1>4. RoutedByRules' = RoutedByRules
  BY <1>3 DEF RoutedByRules
<1>5. RouterFallback' = RouterFallback
  BY <1>1, <1>2, <1>4 DEF RouterFallback
<1> QED
  BY <1>1, <1>2, <1>3, <1>4, <1>5

LEMMA RouterKeeps == ASSUME LogicInv, RouterStarts \/ RouterAsks PROVE LogicInv'
<1>1. LogicTrue /\ CarriedTrue
  BY DEF LogicInv
<1>2. CASE RouterStarts
  <2>1. logic.kind = "router" /\ logicStep = "input" /\ asked = <<>> /\ Len(asked) = 0
    BY <1>2 DEF RouterStarts, Deciding, LogicInv
  <2>2. \/ RaiseError(FALSE) \/ RaiseError(TRUE)
        \/ Given("prompt") /\ Select(RouterFallback) /\ UNCHANGED asked
        \/ /\ Given("prompt") /\ Given("connection_id") /\ logicStep' = "ai"
           /\ UNCHANGED <<logic, linked, carried, evidence, asked, tries, chain, branch, followed>>
    BY <1>2 DEF RouterStarts
  <2>3. CASE RaiseError(FALSE) \/ RaiseError(TRUE)
    BY <2>1, <2>3, RaiseKeeps
  <2>4. CASE Given("prompt") /\ Select(RouterFallback) /\ UNCHANGED asked
    <3>1. UNCHANGED <<logic, linked, carried, evidence, asked>> /\ branch' = RouterFallback
      BY <2>4 DEF Select
    <3>2. branch' \in {"sales", "support", "other"}
      BY <1>1, <2>1, <3>1, FallbackListed
    <3>3. RouterGrounded'
      BY <2>1, <2>4, <3>1, SameInput DEF RouterGrounded, Named, RouterFallback
    <3>4. Sound'
      BY <2>1, <3>1, <3>2, <3>3 DEF Sound
    <3> QED
      BY <2>4, <3>4, SelectKeeps
  <2>5. CASE /\ Given("prompt") /\ Given("connection_id") /\ logicStep' = "ai"
             /\ UNCHANGED <<logic, linked, carried, evidence, asked, tries, chain, branch, followed>>
    <3>1. asked' \in Seq({"silent"}) /\ Len(asked') = 0 /\ AiAttempts \in Nat \ {0}
      BY <2>1, <2>5, LogicAssumption
    <3> QED
      BY <1>1, <2>1, <2>5, <3>1, SameInput DEF LogicInv, LogicTrue, CarriedTrue, AskingModel, Decided
  <2> QED
    BY <2>2, <2>3, <2>4, <2>5
<1>3. CASE RouterAsks
  <2> DEFINE a == evidence.answers[Len(asked) + 1]
  <2>1. /\ logic.kind = "router" /\ Given("prompt") /\ Given("connection_id") /\ logicStep = "ai"
        /\ asked \in Seq({"silent"}) /\ Len(asked) < AiAttempts
    BY <1>3 DEF RouterAsks, LogicInv, AskingModel
  <2>2. a \in {"sales", "empty", "unlisted", "silent"}
    <3>1. evidence.answers \in [1 .. AiAttempts -> {"sales", "empty", "unlisted", "silent"}]
      BY <1>1, <2>1 DEF LogicTrue, Evidence
    <3>2. Len(asked) + 1 \in 1 .. AiAttempts
      BY <2>1, LogicAssumption
    <3> QED
      BY <3>1, <3>2
  <2>3. asked' = Append(asked, a)
    BY <1>3 DEF RouterAsks
  <2>4. /\ Len(asked') = Len(asked) + 1 /\ asked'[Len(asked')] = a /\ Len(asked) \in Nat
        /\ \A i \in 1 .. Len(asked') - 1 : asked'[i] = "silent"
    BY <2>1, <2>3
  <2>5. \/ /\ a = "silent" /\ Len(asked) + 1 < AiAttempts
           /\ UNCHANGED <<logic, linked, carried, evidence, logicStep, tries, chain, branch, followed>>
        \/ a = "sales" /\ Select(a)
        \/ a = "empty" /\ Select(Branches[1])
        \/ a \in {"unlisted", "silent"} /\ Select(RouterFallback)
    BY <1>3, <2>2 DEF RouterAsks
  <2> HIDE DEF a
  <2>6. CASE /\ a = "silent" /\ Len(asked) + 1 < AiAttempts
             /\ UNCHANGED <<logic, linked, carried, evidence, logicStep, tries, chain, branch, followed>>
    <3>1. asked' \in Seq({"silent"})
      BY <2>1, <2>3, <2>6
    <3> QED
      BY <1>1, <2>1, <2>4, <2>6, <3>1 DEF LogicInv, LogicTrue, CarriedTrue, AskingModel, Decided, Given, Input
  <2>7. ASSUME NEW b, Select(b), b \in {"sales", "support", "other"},
               IF a \in {"sales", "empty"} THEN b \in {a, Branches[1]} ELSE b = RouterFallback
        PROVE  LogicInv'
    <3>1. UNCHANGED <<logic, linked, carried, evidence>> /\ branch' = b
      BY <2>7 DEF Select
    <3>2. RouterGrounded'
      BY <2>1, <2>4, <2>7, <3>1, SameInput DEF RouterGrounded, Named, RouterFallback
    <3>3. Sound'
      BY <2>1, <2>7, <3>1, <3>2 DEF Sound
    <3> QED
      BY <2>7, <3>3, SelectKeeps
  <2> QED
    BY <1>1, <2>1, <2>5, <2>6, <2>7, FallbackListed
<1> QED
  BY <1>2, <1>3

LEMMA FilterKeeps == ASSUME LogicInv, FilterDecides PROVE LogicInv'
<1>1. logic.kind = "filter" /\ logicStep = "input" /\ LogicTrue
  BY DEF FilterDecides, Deciding, LogicInv
<1>2. evidence.main \in Verdict /\ evidence.alternative \in Verdict
  BY <1>1 DEF LogicTrue, Evidence
<1>3. ASSUME NEW b \in {"true", "false", "else", "error"}, Select(b),
             b = "true" => Given("condition") /\ evidence.main = "true",
             b = "else" => evidence.main = "false" /\ evidence.alternative = "true"
      PROVE  LogicInv'
  <2>1. UNCHANGED <<logic, linked, carried, evidence>> /\ branch' = b
    BY <1>3 DEF Select
  <2>2. Sound'
    BY <1>1, <1>3, <2>1 DEF Sound, Given, Input
  <2> QED
    BY <1>3, <2>2, SelectKeeps
<1>4. ASSUME FilterError PROVE LogicInv'
  <2>1. RaiseError(TRUE) \/ Select("error") \/ Select("false")
    BY <1>4 DEF FilterError
  <2> QED
    BY <1>1, <1>3, <2>1, RaiseKeeps
<1>5. \/ FilterError
      \/ Select("true") /\ Given("condition") /\ evidence.main = "true"
      \/ Select("else") /\ evidence.main = "false" /\ evidence.alternative = "true"
      \/ Select("false")
  BY <1>2 DEF FilterDecides, FilterElse, Verdict
<1> QED
  BY <1>3, <1>4, <1>5

LEMMA OthersKeep == ASSUME LogicInv, WaitDecides \/ ParallelDecides \/ LoopDecides \/ OtherDecides PROVE LogicInv'
<1>1. LogicTrue /\ CarriedTrue
  BY DEF LogicInv
<1>2. CASE WaitDecides
  <2>1. logic.kind = "wait"
    BY <1>2 DEF WaitDecides, Deciding
  <2>2. PICK b \in {"paused", "error", "approved"} : Select(b) /\ (b = "approved" => evidence.holds)
    BY <1>2 DEF WaitDecides
  <2>3. UNCHANGED <<logic, evidence>> /\ branch' = b
    BY <2>2 DEF Select
  <2>4. Sound'
    BY <2>1, <2>2, <2>3 DEF Sound
  <2> QED
    BY <2>2, <2>4, SelectKeeps
<1>3. CASE ParallelDecides
  <2>1. logic.kind = "parallel"
    BY <1>3 DEF ParallelDecides, Deciding
  <2>2. PICK b \in {"start", "error", "completed"} :
          /\ Select(b)
          /\ b = "completed" /\ Missing # {} =>
               Input.mode = "all_settled" \/ Input.failure_handling \notin {"fail_fast", "fail_slow"}
    BY <1>3 DEF ParallelDecides
  <2>3. UNCHANGED <<logic, linked, carried, evidence>> /\ branch' = b
    BY <2>2 DEF Select
  <2>4. Input.failure_handling \in Handling
    BY <1>1, <2>1, InputTyped
  <2>5. Sound'
    BY <2>1, <2>2, <2>3, <2>4 DEF Sound, Missing, Input, Handling
  <2> QED
    BY <2>2, <2>5, SelectKeeps
<1>4. CASE LoopDecides
  <2>1. logic.kind = "loop"
    BY <1>4 DEF LoopDecides, Deciding
  <2>2. PICK b \in {"start", "error", "completed"} : Select(b)
    BY <1>1, <1>4, <2>1, InputTyped DEF LoopDecides
  <2>3. UNCHANGED logic /\ branch' = b
    BY <2>2 DEF Select
  <2>4. Sound'
    BY <2>1, <2>2, <2>3 DEF Sound
  <2> QED
    BY <2>2, <2>4, SelectKeeps
<1>5. CASE OtherDecides
  <2>1. logicStep = "input" /\ logic.kind \in {"memory", "model"} /\ (RaiseError(FALSE) \/ Select("none"))
    BY <1>5 DEF OtherDecides
  <2>2. CASE RaiseError(FALSE)
    BY <2>1, <2>2, RaiseKeeps
  <2>3. CASE Select("none")
    <3>1. UNCHANGED logic
      BY <2>3 DEF Select
    <3>2. Sound'
      BY <2>1, <3>1 DEF Sound
    <3> QED
      BY <2>3, <3>2, SelectKeeps
  <2> QED
    BY <2>1, <2>2, <2>3
<1> QED
  BY <1>2, <1>3, <1>4, <1>5

(* The same evidence and the same branch are the same decision.             *)
LEMMA SameDecision ==
    ASSUME UNCHANGED <<logic, linked, carried, evidence, asked, branch>>
    PROVE  (Sound' <=> Sound) /\ EdgesTaken' = EdgesTaken
<1>1. RouterGrounded' <=> RouterGrounded
  BY SameInput DEF RouterGrounded, Named
<1>2. Missing' = Missing
  BY DEF Missing
<1>3. Sound' <=> Sound
  BY <1>1, <1>2, SameInput DEF Sound
<1>4. Handles' = Handles
  BY DEF Handles
<1>5. EdgesTaken' = EdgesTaken
  BY <1>4 DEF EdgesTaken
<1> QED
  BY <1>3, <1>5

LEMMA LogicInvariant == LogicSpec => []LogicInv
<1>1. LogicInit => LogicInv
  <2> SUFFICES ASSUME LogicInit PROVE LogicInv
    OBVIOUS
  <2>1. LogicTrue
    BY DEF LogicInit, LogicTrue, Settings, MemorySettings, Evidence
  <2>2. DOMAIN <<>> = {}
    OBVIOUS
  <2>3. DOMAIN carried = {}
    BY <2>2 DEF LogicInit
  <2>4. chain = 0 /\ logicStep = "over" /\ CarriedTrue
    BY <2>3 DEF LogicInit, CarriedTrue
  <2> QED
    BY <2>1, <2>4 DEF LogicInv, AskingModel, Decided
<1>2. LogicInv /\ [LogicNext]_logicVars => LogicInv'
  <2> SUFFICES ASSUME LogicInv, [LogicNext]_logicVars PROVE LogicInv'
    OBVIOUS
  <2>1. CASE UNCHANGED logicVars
    <3>1. UNCHANGED <<logic, linked, carried, evidence, asked, logicStep, chain, branch, followed>>
      BY <2>1 DEF logicVars
    <3>2. (Sound' <=> Sound) /\ EdgesTaken' = EdgesTaken
      BY <3>1, SameDecision
    <3>3. LogicTrue' /\ CarriedTrue'
      BY <3>1 DEF LogicInv, LogicTrue, CarriedTrue
    <3>4. AskingModel'
      BY <3>1, SameInput DEF LogicInv, AskingModel
    <3> QED
      BY <3>1, <3>2, <3>3, <3>4 DEF LogicInv, Decided
  <2>2. CASE FollowEdges
    <3>1. /\ UNCHANGED <<logic, linked, carried, evidence, asked, chain, branch>> /\ followed' = EdgesTaken
          /\ logicStep = "output" /\ logicStep' \in {"paused", "over"}
      BY <2>2 DEF FollowEdges
    <3>2. (Sound' <=> Sound) /\ EdgesTaken' = EdgesTaken
      BY <3>1, SameDecision
    <3>3. LogicTrue' /\ CarriedTrue'
      BY <3>1 DEF LogicInv, LogicTrue, CarriedTrue
    <3> QED
      BY <3>1, <3>2, <3>3 DEF LogicInv, AskingModel, Decided
  <2> QED
    BY <2>1, <2>2, NextNodeKeeps, RouterKeeps, FilterKeeps, OthersKeep DEF LogicNext
<1> QED
  BY <1>1, <1>2, PTL DEF LogicSpec

(* Of however many nodes in a chain, with any settings, answers, verdicts   *)
(* and sources: what a node lets through rests on what it found in the      *)
(* attempt that decided.                                                    *)
THEOREM DecisionsGrounded == LogicSpec => []Grounded
<1>1. LogicInv => Grounded
  <2> SUFFICES ASSUME LogicInv, Ended PROVE Grounded
    BY DEF Grounded
  <2>1. Sound /\ followed = EdgesTaken
    BY DEF LogicInv, Decided, Ended
  <2>2. \A h \in EdgesTaken : h \in Handles
    BY DEF EdgesTaken, Handles
  <2>3. logic.kind = "wait" /\ EdgesTaken # {} /\ branch # "error" => evidence.holds
    BY <2>1 DEF Sound, EdgesTaken
  <2>4. logic.kind \notin {"parallel", "memory", "model"} => EdgesTaken \subseteq {branch}
    <3>1. logic.kind \in {"router", "filter", "wait", "loop", "parallel", "memory", "model"}
      BY DEF LogicInv, LogicTrue, Settings
    <3> QED
      BY <2>1, <3>1 DEF Sound, EdgesTaken
  <2>5. logic.kind = "filter" =>
          /\ branch = "true" => Given("condition") /\ evidence.main = "true"
          /\ branch = "else" => evidence.main = "false" /\ evidence.alternative = "true"
    BY <2>1 DEF Sound
  <2>6. logic.kind = "parallel" /\ branch = "completed" /\ Missing # {} =>
          Input.mode = "all_settled" \/ Input.failure_handling \in {"ignore", "collect"}
    BY <2>1 DEF Sound
  <2>7. RouterGrounded
    BY <2>1 DEF Sound, RouterGrounded
  <2> QED
    BY <2>1, <2>2, <2>3, <2>4, <2>5, <2>6, <2>7 DEF Grounded
<1> QED
  BY <1>1, LogicInvariant, PTL

(***************************************************************************)
(* The type of the logic nodes: a decision is one of the node's handles, a *)
(* pause or none, whatever settings and evidence it rests on.              *)
(***************************************************************************)
LogicTyped ==
    /\ logic \in LogicNode /\ linked \in Linked(logic.kind)
    /\ tries \in 1 .. MaxTries /\ chain \in 0 .. MaxChain
    /\ logicStep \in {"input", "ai", "output", "over", "paused", "failed"}
    /\ branch \in Handles \cup {"none", "paused"} /\ followed \subseteq Handles

LEMMA SelectTyped ==
    ASSUME LogicTyped, NEW b \in Handles \cup {"none", "paused"}, Select(b)
    PROVE  LogicTyped'
<1>1. Handles' = Handles
  BY DEF Select, Handles
<1> QED
  BY <1>1 DEF LogicTyped, Select

LEMMA RaiseTyped == ASSUME LogicTyped, NEW x \in BOOLEAN, RaiseError(x) PROVE LogicTyped'
<1>1. Handles' = Handles
  BY DEF RaiseError, Handles
<1>2. tries' \in 1 .. MaxTries
  BY LogicAssumption DEF RaiseError, LogicTyped
<1> QED
  BY <1>1, <1>2 DEF LogicTyped, RaiseError

LEMMA RouterTyped == ASSUME LogicInv, LogicTyped, RouterStarts \/ RouterAsks PROVE LogicTyped'
<1>1. logic.kind = "router" /\ LogicTrue /\ CarriedTrue
  BY DEF RouterStarts, RouterAsks, Deciding, LogicInv, AskingModel
<1>2. Handles = {"support", "sales", "other"}
  BY <1>1 DEF Handles
<1>3. RouterFallback \in Handles /\ Branches[1] \in Handles
  BY <1>1, <1>2, FallbackListed
<1>4. CASE RouterStarts
  <2>1. \/ \E x \in BOOLEAN : RaiseError(x)
        \/ Select(RouterFallback)
        \/ logicStep' = "ai" /\ UNCHANGED <<logic, linked, tries, chain, branch, followed>>
    BY <1>4 DEF RouterStarts
  <2>2. CASE logicStep' = "ai" /\ UNCHANGED <<logic, linked, tries, chain, branch, followed>>
    BY <2>2 DEF LogicTyped, Handles
  <2> QED
    BY <1>3, <2>1, <2>2, RaiseTyped, SelectTyped
<1>5. CASE RouterAsks
  <2> DEFINE a == evidence.answers[Len(asked) + 1]
  <2>1. a \in {"sales", "empty", "unlisted", "silent"}
    <3>1. evidence.answers \in [1 .. AiAttempts -> {"sales", "empty", "unlisted", "silent"}]
      BY <1>1 DEF LogicTrue, Evidence
    <3>2. asked \in Seq({"silent"}) /\ Len(asked) < AiAttempts
      BY <1>5 DEF RouterAsks, LogicInv, AskingModel
    <3>3. Len(asked) + 1 \in 1 .. AiAttempts
      BY <3>2, LogicAssumption
    <3> QED
      BY <3>1, <3>3
  <2>2. \/ Select("sales") \/ Select(Branches[1]) \/ Select(RouterFallback)
        \/ UNCHANGED <<logic, linked, logicStep, tries, chain, branch, followed>>
    BY <1>5, <2>1 DEF RouterAsks
  <2>3. CASE UNCHANGED <<logic, linked, logicStep, tries, chain, branch, followed>>
    BY <2>3 DEF LogicTyped, Handles
  <2> QED
    BY <1>2, <1>3, <2>2, <2>3, SelectTyped
<1> QED
  BY <1>4, <1>5

LEMMA NodesTyped ==
    ASSUME LogicInv, LogicTyped,
           FilterDecides \/ WaitDecides \/ ParallelDecides \/ LoopDecides \/ OtherDecides
    PROVE  LogicTyped'
<1>1. LogicTrue /\ CarriedTrue
  BY DEF LogicInv
<1>2. CASE FilterDecides
  <2>1. Handles = {"true", "false", "else", "error"}
    BY <1>2 DEF FilterDecides, Deciding, Handles
  <2>2. evidence.main \in Verdict /\ evidence.alternative \in Verdict
    BY <1>1, <1>2 DEF FilterDecides, Deciding, LogicTrue, Evidence
  <2>3. \/ \E x \in BOOLEAN : RaiseError(x)
        \/ \E b \in {"true", "false", "else", "error"} : Select(b)
    BY <1>2, <2>2 DEF FilterDecides, FilterElse, FilterError, Verdict
  <2> QED
    BY <2>1, <2>3, RaiseTyped, SelectTyped
<1>3. CASE WaitDecides
  <2>1. Handles = {"approved", "rejected", "timeout", "error"}
    BY <1>3 DEF WaitDecides, Deciding, Handles
  <2>2. \E b \in {"paused", "error", "approved"} : Select(b)
    BY <1>3 DEF WaitDecides
  <2> QED
    BY <2>1, <2>2, SelectTyped
<1>4. CASE ParallelDecides
  <2>1. Handles = {"start", "completed", "error"}
    BY <1>4 DEF ParallelDecides, Deciding, Handles
  <2>2. \E b \in {"start", "error", "completed"} : Select(b)
    BY <1>4 DEF ParallelDecides
  <2> QED
    BY <2>1, <2>2, SelectTyped
<1>5. CASE LoopDecides
  <2>1. Handles = {"start", "completed", "error"} /\ logic.kind = "loop"
    BY <1>5 DEF LoopDecides, Deciding, Handles
  <2>2. \E b \in {"start", "error", "completed"} : Select(b)
    BY <1>1, <1>5, <2>1, InputTyped DEF LoopDecides
  <2> QED
    BY <2>1, <2>2, SelectTyped
<1>6. CASE OtherDecides
  <2>1. RaiseError(FALSE) \/ Select("none")
    BY <1>6 DEF OtherDecides
  <2> QED
    BY <2>1, RaiseTyped, SelectTyped
<1> QED
  BY <1>2, <1>3, <1>4, <1>5, <1>6

(* How many answers are awaited: of a router's model, no more than it gives.*)
LEMMA AnswersCounted ==
    ASSUME LogicInv, Len(asked) <= AiAttempts, [LogicNext]_logicVars
    PROVE  Len(asked') <= AiAttempts
<1>1. AiAttempts \in Nat \ {0} /\ Len(<<>>) = 0
  BY LogicAssumption
<1>2. CASE RouterAsks
  <2>1. asked \in Seq({"silent"}) /\ Len(asked) < AiAttempts
    BY <1>2 DEF RouterAsks, LogicInv, AskingModel
  <2>2. asked' = Append(asked, evidence.answers[Len(asked) + 1])
    BY <1>2 DEF RouterAsks
  <2>3. Len(asked') = Len(asked) + 1 /\ Len(asked) \in Nat
    BY <2>1, <2>2
  <2> QED
    BY <1>1, <2>1, <2>3
<1>3. ASSUME asked' = <<>> \/ asked' = asked PROVE Len(asked') <= AiAttempts
  BY <1>1, <1>3
<1>4. CASE RouterStarts
  BY <1>3, <1>4 DEF RouterStarts, RaiseError
<1>5. CASE FilterDecides
  <2>1. evidence.main \in Verdict /\ evidence.alternative \in Verdict
    BY <1>5 DEF FilterDecides, Deciding, LogicInv, LogicTrue, Evidence
  <2> QED
    BY <1>3, <1>5, <2>1 DEF FilterDecides, FilterElse, FilterError, RaiseError, Verdict
<1>6. CASE NextNode \/ WaitDecides \/ ParallelDecides \/ LoopDecides \/ OtherDecides \/ FollowEdges
           \/ UNCHANGED logicVars
  BY <1>3, <1>6 DEF NextNode, EnterNode, WaitDecides, ParallelDecides, LoopDecides, OtherDecides,
     RaiseError, FollowEdges, logicVars
<1> QED
  BY <1>2, <1>4, <1>5, <1>6 DEF LogicNext

LEMMA LogicTypes == LogicSpec => []LogicTypeOK
<1>1. LogicInit => LogicTyped /\ Len(asked) <= AiAttempts
  <2> SUFFICES ASSUME LogicInit PROVE LogicTyped /\ Len(asked) <= AiAttempts
    OBVIOUS
  <2>1. logic \in [kind : {"memory"}, settings : Settings["memory"]]
    BY DEF LogicInit, Settings, MemorySettings
  <2>2. logic \in LogicNode /\ logic.kind = "memory"
    <3>1. "memory" \in DOMAIN Settings
      BY DEF Settings
    <3> QED
      BY <2>1, <3>1 DEF LogicNode
  <2>3. Handles = {"output"} /\ linked \in Linked(logic.kind)
    BY <2>2 DEF LogicInit, Handles, Linked
  <2>4. Len(asked) = 0
    BY DEF LogicInit
  <2>5. tries = 1 /\ chain = 0 /\ logicStep = "over" /\ branch = "none" /\ followed = {"output"}
    BY Zenon DEF LogicInit
  <2>6. tries \in 1 .. MaxTries /\ chain \in 0 .. MaxChain /\ Len(asked) <= AiAttempts
    BY <2>4, <2>5, LogicAssumption
  <2> QED
    BY <2>2, <2>3, <2>5, <2>6 DEF LogicTyped
<1>2. LogicInv /\ LogicTyped /\ [LogicNext]_logicVars => LogicTyped'
  <2> SUFFICES ASSUME LogicInv, LogicTyped, [LogicNext]_logicVars PROVE LogicTyped'
    OBVIOUS
  <2>1. CASE NextNode
    <3>1. PICK n \in LogicNode : \E l \in Linked(n.kind) : EnterNode(n, l)
      BY <2>1 DEF NextNode
    <3>2. /\ logic' = n /\ linked' \in Linked(n.kind) /\ logicStep' = "input" /\ tries' = 1
          /\ branch' = "none" /\ followed' = {}
      BY <3>1 DEF EnterNode
    <3>3. chain' \in 0 .. MaxChain
      BY <2>1, LogicAssumption DEF NextNode, LogicTyped
    <3> QED
      BY <3>2, <3>3, LogicAssumption DEF LogicTyped
  <2>2. CASE FollowEdges
    <3>1. /\ UNCHANGED <<logic, linked, tries, chain, branch>> /\ followed' = EdgesTaken
          /\ logicStep' \in {"paused", "over"}
      BY <2>2 DEF FollowEdges
    <3>2. Handles' = Handles
      BY <3>1 DEF Handles
    <3>3. EdgesTaken \subseteq Handles
      BY DEF EdgesTaken, Handles
    <3> QED
      BY <3>1, <3>2, <3>3 DEF LogicTyped
  <2>3. CASE UNCHANGED logicVars
    <3>1. UNCHANGED <<logic, linked, logicStep, tries, chain, branch, followed>>
      BY <2>3 DEF logicVars
    <3> QED
      BY <3>1 DEF LogicTyped, Handles
  <2> QED
    BY <2>1, <2>2, <2>3, RouterTyped, NodesTyped DEF LogicNext
<1>3. LogicTyped /\ Len(asked) <= AiAttempts => LogicTypeOK
  BY DEF LogicTyped, LogicTypeOK
<1>4. LogicInv /\ Len(asked) <= AiAttempts /\ [LogicNext]_logicVars => (Len(asked) <= AiAttempts)'
  BY AnswersCounted
<1> QED
  BY <1>1, <1>2, <1>3, <1>4, LogicInvariant, PTL DEF LogicSpec

-----------------------------------------------------------------------------
(***************************************************************************)
(* Templates. Every edge drawn was looked at against those there were, so  *)
(* none leads back; and a variable of the picker means what it was picked  *)
(* for, in whatever order the nodes before the target have run.            *)
(***************************************************************************)
FollowsIn(S, L) == \A a \in S, b \in Step : <<a, b>> \in L => b \in S
Below(s, L) == {y \in Step : \A S \in SUBSET Step : s \in S /\ FollowsIn(S, L) => y \in S}
NoneLeadsBack(L) == \A s, t \in Step : <<s, t>> \in L => s \notin Below(t, L)

LEMMA BelowFacts ==
    ASSUME NEW L, NEW s \in Step
    PROVE  /\ s \in Below(s, L) /\ FollowsIn(Below(s, L), L) /\ Below(s, L) \in SUBSET Step
           /\ \A S \in SUBSET Step : s \in S /\ FollowsIn(S, L) => Below(s, L) \subseteq S
<1>1. s \in Below(s, L) /\ Below(s, L) \in SUBSET Step
  BY DEF Below
<1>2. \A S \in SUBSET Step : s \in S /\ FollowsIn(S, L) => Below(s, L) \subseteq S
  BY DEF Below
<1>3. FollowsIn(Below(s, L), L)
  <2> SUFFICES ASSUME NEW a \in Below(s, L), NEW b \in Step, <<a, b>> \in L,
                      NEW S \in SUBSET Step, s \in S, FollowsIn(S, L)
               PROVE  b \in S
    BY DEF FollowsIn, Below
  <2>1. a \in S
    BY <1>2
  <2> QED
    BY <2>1 DEF FollowsIn
<1> QED
  BY <1>1, <1>2, <1>3

LEMMA DownstreamIsBelow == \A s : Downstream(s) = Below(s, link)
BY DEF Downstream, Below, FollowsIn

(* An edge into a node that does not lead to its source closes no circle.   *)
LEMMA OneMoreLink ==
    ASSUME NEW L, NoneLeadsBack(L), NEW s \in Step, NEW t \in Step, s # t, s \notin Below(t, L)
    PROVE  NoneLeadsBack(L \cup {<<s, t>>})
<1> DEFINE M == L \cup {<<s, t>>}
<1>1. ASSUME NEW a \in Step, NEW b \in Step, <<a, b>> \in L PROVE a \notin Below(b, M)
  <2>1. CASE s \notin Below(b, L)
    <3>1. FollowsIn(Below(b, L), M)
      BY <2>1, BelowFacts DEF FollowsIn
    <3>2. Below(b, M) \subseteq Below(b, L)
      BY <3>1, BelowFacts
    <3> QED
      BY <1>1, <3>2 DEF NoneLeadsBack
  <2>2. CASE s \in Below(b, L)
    <3> DEFINE S == Below(b, L) \cup Below(t, L)
    <3>1. S \in SUBSET Step /\ b \in S /\ FollowsIn(S, M)
      BY BelowFacts DEF FollowsIn
    <3>2. Below(b, M) \subseteq S
      BY <3>1, BelowFacts
    <3>3. a \notin Below(b, L)
      BY <1>1 DEF NoneLeadsBack
    <3>4. ASSUME a \in Below(t, L) PROVE FALSE
      <4>1. b \in Below(t, L)
        BY <1>1, <3>4, BelowFacts DEF FollowsIn
      <4>2. Below(b, L) \subseteq Below(t, L)
        BY <4>1, BelowFacts
      <4> QED
        BY <2>2, <4>2
    <3> QED
      BY <3>2, <3>3, <3>4
  <2> QED
    BY <2>1, <2>2
<1>2. s \notin Below(t, M)
  <2>1. FollowsIn(Below(t, L), M)
    BY BelowFacts DEF FollowsIn
  <2> QED
    BY <2>1, BelowFacts
<1>3. ASSUME NEW a \in Step, NEW b \in Step, <<a, b>> \in M PROVE a \notin Below(b, M)
  BY <1>1, <1>2, <1>3
<1> QED
  BY <1>3 DEF NoneLeadsBack

LEMMA OneLinkLess ==
    ASSUME NEW L, NoneLeadsBack(L), NEW e PROVE NoneLeadsBack(L \ {e})
<1> SUFFICES ASSUME NEW a \in Step, NEW b \in Step, <<a, b>> \in L \ {e} PROVE a \notin Below(b, L \ {e})
  BY DEF NoneLeadsBack
<1>1. FollowsIn(Below(b, L), L \ {e})
  BY BelowFacts DEF FollowsIn
<1>2. Below(b, L \ {e}) \subseteq Below(b, L)
  BY <1>1, BelowFacts
<1> QED
  BY <1>2 DEF NoneLeadsBack

(* What the picker writes, and what is shown and rendered of it.            *)
Lasting(t) == Picked(t) /\ (t.form = "full" \/ OwnName(t.node))

PickedTrue(t) ==
    t.by = "picker" => t \in Template /\ t.form \in {"full", "shorthand"} /\ t.filter = "none"

ShownTrue == Picked(template) /\ shown[1] = "value" =>
    template.node \in outputs /\ shown = <<"value", template.node, "itself">>

RenderedTrue == rendered # <<"none">> =>
    /\ outputs # {}
    /\ Lasting(template) =>
         rendered = IF template.node \in outputs THEN <<"value", template.node, "itself">> ELSE <<"blank">>

PickInv ==
    /\ NoneLeadsBack(link)
    /\ PickedTrue(template) /\ ShownTrue /\ RenderedTrue

LEMMA MeantAlone == ASSUME NEW n \in Step, SameLabel(n) = {n} PROVE Meant(n) = n
<1>1. n \in SameLabel(n) /\ \A k \in SameLabel(n) : k <= n
  BY TemplateAssumption
<1> QED
  BY <1>1 DEF Meant

LEMMA HoldKeeps == ASSUME PickInv, NEW t, Hold(t), PickedTrue(t) PROVE PickInv'
<1>1. outputs = {} /\ rendered = <<"none">>
  BY DEF Hold, Editing, PickInv, RenderedTrue
<1>2. /\ template' = t /\ shown' = <<"none">> /\ link' = link /\ outputs' = {} /\ rendered' = <<"none">>
  BY <1>1 DEF Hold
<1>3. shown'[1] = "none"
  BY <1>2
<1> QED
  BY <1>2, <1>3 DEF PickInv, ShownTrue, RenderedTrue

LEMMA RunTargetKeeps == ASSUME PickInv, RunTarget PROVE PickInv'
<1>1. UNCHANGED <<link, template, shown, outputs>> /\ rendered' = RunRender(template)
  BY DEF RunTarget
<1>2. outputs # {}
  BY TemplateAssumption DEF RunTarget, Reached
<1>3. ASSUME Lasting(template)
      PROVE  RunRender(template) =
               IF template.node \in outputs THEN <<"value", template.node, "itself">> ELSE <<"blank">>
  <2> DEFINE a == Aliased(template)
  <2>1. /\ template.form \in {"full", "shorthand"} /\ template.filter = "none" /\ template.path = "field"
        /\ template.node \in Step /\ template \in Template
    BY <1>3 DEF PickInv, PickedTrue, Lasting, Picked, Template
  <2>2. a.form = "full" /\ a.node = template.node /\ a.filter = "none" /\ a.path = "field"
    <3>1. CASE template.form = "full"
      BY <2>1, <3>1 DEF Aliased
    <3>2. CASE template.form = "shorthand"
      <4>1. LabelOf[template.node] # "lower" /\ Meant(template.node) = template.node
        BY <1>3, <2>1, <3>2, MeantAlone DEF Lasting, OwnName
      <4>2. a = [template EXCEPT !.form = "full", !.node = Meant(template.node)]
        BY <2>1, <3>2, <4>1 DEF Aliased
      <4> QED
        BY <2>1, <4>1, <4>2 DEF Template
    <3> QED
      BY <2>1, <3>1, <3>2
  <2> HIDE DEF a
  <2>3. "none" \in Executable
    BY DEF Executable, Filters
  <2>4. \A shape : RunApplies("none", shape) = "itself"
    BY DEF RunApplies
  <2>5. Blank("none") = <<"blank">>
    BY DEF Blank
  <2> QED
    BY <2>2, <2>3, <2>4, <2>5 DEF RunRender, a
<1> QED
  BY <1>1, <1>2, <1>3 DEF PickInv, ShownTrue, RenderedTrue, Lasting, Picked, OwnName, SameLabel

(* Of however many nodes, with any labels and shapes: a variable from the   *)
(* picker is rendered as the output it was picked from, and as it was       *)
(* shown, and no drawn edge leads back to where it comes from.              *)
THEOREM PickedMeansItsNode == TemplateSpec => []PickedResolves
<1>1. TemplateInit => PickInv
  <2> SUFFICES ASSUME TemplateInit PROVE PickInv
    OBVIOUS
  <2>1. NoneLeadsBack(link)
    <3>1. {Target} \in SUBSET Step /\ Target \in {Target} /\ FollowsIn({Target}, link)
      BY TemplateAssumption DEF TemplateInit, FollowsIn
    <3>2. Entry \notin Below(Target, link)
      BY <3>1, TemplateAssumption, BelowFacts
    <3> QED
      BY <3>2 DEF TemplateInit, NoneLeadsBack
  <2>2. template.by = "none" /\ rendered = <<"none">>
    BY DEF TemplateInit, NoTemplate
  <2> QED
    BY <2>1, <2>2 DEF PickInv, PickedTrue, ShownTrue, RenderedTrue, Picked
<1>2. PickInv /\ [TemplateNext]_templateVars => PickInv'
  <2> SUFFICES ASSUME PickInv, [TemplateNext]_templateVars PROVE PickInv'
    OBVIOUS
  <2>1. ASSUME NEW n \in Step, RunOther(n) PROVE PickInv'
    <3>1. UNCHANGED <<link, template, shown, rendered>> /\ outputs \subseteq outputs' /\ rendered = <<"none">>
      BY <2>1 DEF RunOther
    <3> QED
      BY <3>1 DEF PickInv, PickedTrue, ShownTrue, RenderedTrue, Picked
  <2>2. ASSUME NEW n \in Step, NEW p \in {"field", "items"}, PickVariable(n, p) PROVE PickInv'
    <3>1. PICK form \in {"full", "shorthand"} : Hold([Full("picker", n, p, "none") EXCEPT !.form = form])
      BY <2>2 DEF PickVariable
    <3>2. PickedTrue([Full("picker", n, p, "none") EXCEPT !.form = form])
      BY DEF PickedTrue, Full, Template, Filters
    <3> QED
      BY <3>1, <3>2, HoldKeeps
  <2>3. ASSUME NEW n \in Step, NEW f \in Filters, InsertVariable(n, f) \/ MapEdge(n, f) PROVE PickInv'
    <3>1. ASSUME NEW form, NEW by \in {"hand", "edge"}, Hold([Full(by, n, "field", f) EXCEPT !.form = form])
          PROVE  PickInv'
      <4>1. PickedTrue([Full(by, n, "field", f) EXCEPT !.form = form])
        BY DEF PickedTrue, Full
      <4> QED
        BY <3>1, <4>1, HoldKeeps
    <3>2. CASE InsertVariable(n, f)
      BY <3>1, <3>2 DEF InsertVariable
    <3>3. CASE MapEdge(n, f)
      <4>1. PickedTrue(Full("edge", n, "field", f))
        BY DEF PickedTrue, Full
      <4> QED
        BY <3>3, <4>1, HoldKeeps DEF MapEdge
    <3> QED
      BY <2>3, <3>2, <3>3
  <2>4. ASSUME NEW s \in Step, NEW t \in Step, DrawLink(s, t) PROVE PickInv'
    <3>1. /\ s # t /\ s \notin Below(t, link) /\ link' = link \cup {<<s, t>>}
          /\ UNCHANGED <<template, shown, outputs, rendered>>
      BY <2>4, DownstreamIsBelow DEF DrawLink, Connects, IsUpstream
    <3>2. NoneLeadsBack(link)'
      BY <3>1, OneMoreLink DEF PickInv
    <3> QED
      BY <3>1, <3>2 DEF PickInv, PickedTrue, ShownTrue, RenderedTrue, Lasting, Picked, OwnName, SameLabel
  <2>5. ASSUME NEW s \in Step, NEW t \in Step, RemoveLink(s, t) PROVE PickInv'
    <3>1. link' = link \ {<<s, t>>} /\ UNCHANGED <<template, shown, outputs, rendered>>
      BY <2>5 DEF RemoveLink
    <3>2. NoneLeadsBack(link)'
      BY <3>1, OneLinkLess DEF PickInv
    <3> QED
      BY <3>1, <3>2 DEF PickInv, PickedTrue, ShownTrue, RenderedTrue, Lasting, Picked, OwnName, SameLabel
  <2>6. CASE WriteByHand
    <3>1. PICK form \in {"previous", "item"} : Hold([Full("hand", Entry, "field", "none") EXCEPT !.form = form])
      BY <2>6 DEF WriteByHand
    <3>2. PickedTrue([Full("hand", Entry, "field", "none") EXCEPT !.form = form])
      BY DEF PickedTrue, Full
    <3> QED
      BY <3>1, <3>2, HoldKeeps
  <2>7. CASE Preview
    <3>1. shown' = ApiRender(template, outputs) /\ UNCHANGED <<link, template, outputs, rendered>>
      BY <2>7 DEF Preview
    <3>2. ShownTrue'
      <4> SUFFICES ASSUME Picked(template), shown'[1] = "value"
                   PROVE  template.node \in outputs /\ shown' = <<"value", template.node, "itself">>
        BY <3>1 DEF ShownTrue, Picked
      <4>1. template.form \in {"full", "shorthand"} /\ template.filter = "none" /\ template.path = "field"
        BY DEF PickInv, PickedTrue, Picked
      <4>2. \A shape : ApiApplies("none", shape) = "itself"
        BY DEF ApiApplies
      <4>3. ~Refused(template)
        BY <4>1 DEF Refused
      <4>4. template.form = "full" /\ template.node \in outputs
        BY <3>1, <4>1, <4>3 DEF ApiRender
      <4> QED
        BY <3>1, <4>1, <4>2, <4>3, <4>4 DEF ApiRender
    <3> QED
      BY <3>1, <3>2 DEF PickInv, PickedTrue, RenderedTrue, Lasting, Picked, OwnName, SameLabel
  <2>8. CASE Validate \/ UNCHANGED templateVars
    <3>1. UNCHANGED <<link, template, shown, outputs, rendered>>
      BY <2>8 DEF Validate, templateVars
    <3> QED
      BY <3>1 DEF PickInv, PickedTrue, ShownTrue, RenderedTrue, Lasting, Picked, OwnName, SameLabel
  <2> QED
    BY <2>1, <2>2, <2>3, <2>4, <2>5, <2>6, <2>7, <2>8, RunTargetKeeps DEF TemplateNext
<1>3. PickInv => PickedResolves
  <2> SUFFICES ASSUME PickInv PROVE PickedResolves
    OBVIOUS
  <2>1. \A s, t \in Step : <<s, t>> \in link => ~IsUpstream(t, s)
    BY DownstreamIsBelow DEF PickInv, NoneLeadsBack, IsUpstream
  <2> QED
    BY <2>1 DEF PickInv, ShownTrue, RenderedTrue, Lasting, PickedResolves
<1> QED
  BY <1>1, <1>2, <1>3, PTL DEF TemplateSpec

(* The type of the templates; and the order of a run has nothing in it but  *)
(* nodes with an output.                                                    *)
LEMMA TemplateTypes == TemplateSpec => []TemplateTypeOK
<1>1. TemplateInit => TemplateTypeOK
  BY TemplateAssumption DEF TemplateInit, TemplateTypeOK
<1>2. TemplateTypeOK /\ [TemplateNext]_templateVars => TemplateTypeOK'
  <2> SUFFICES ASSUME TemplateTypeOK, [TemplateNext]_templateVars PROVE TemplateTypeOK'
    OBVIOUS
  <2>0. edited < MaxTemplateEdits => edited + 1 \in 0 .. MaxTemplateEdits
    BY TemplateAssumption DEF TemplateTypeOK
  <2>1. ASSUME NEW t \in Template, Hold(t) PROVE TemplateTypeOK'
    BY <2>0, <2>1 DEF Hold, Editing, TemplateTypeOK
  <2>2. ASSUME NEW by \in {"picker", "edge", "hand"}, NEW n \in Step, NEW path \in {"field", "items"},
               NEW f \in Filters
        PROVE  /\ Full(by, n, path, f) \in Template
               /\ \A form \in {"full", "shorthand", "previous", "item"} :
                    [Full(by, n, path, f) EXCEPT !.form = form] \in Template
    BY DEF Full, Template
  <2>3. "none" \in Filters /\ Documented \subseteq Filters /\ Entry \in Step
    BY TemplateAssumption DEF Filters, Documented
  <2>4. ASSUME NEW n \in Step, RunOther(n) PROVE TemplateTypeOK'
    <3>1. /\ outputs' = outputs \cup {n} /\ (inOrder' = inOrder \/ inOrder' = Append(inOrder, n))
          /\ UNCHANGED <<link, template, judged, edited>>
      BY <2>4 DEF RunOther
    <3>2. inOrder \in Seq(outputs')
      BY <3>1 DEF TemplateTypeOK
    <3>3. Append(inOrder, n) \in Seq(outputs')
      BY <3>1, <3>2
    <3> QED
      BY <3>1, <3>2, <3>3 DEF TemplateTypeOK
  <2>5. ASSUME NEW n \in Step, NEW p \in {"field", "items"}, PickVariable(n, p) PROVE TemplateTypeOK'
    BY <2>1, <2>2, <2>3, <2>5 DEF PickVariable
  <2>6. ASSUME NEW n \in Step, NEW f \in Filters, InsertVariable(n, f) \/ MapEdge(n, f) PROVE TemplateTypeOK'
    BY <2>1, <2>2, <2>6 DEF InsertVariable, MapEdge
  <2>7. CASE WriteByHand
    BY <2>1, <2>2, <2>3, <2>7 DEF WriteByHand
  <2>8. ASSUME NEW a \in Step, NEW b \in Step, DrawLink(a, b) \/ RemoveLink(a, b) PROVE TemplateTypeOK'
    <3>1. link' \subseteq Step \X Step /\ edited < MaxTemplateEdits /\ edited' = edited + 1
      BY <2>8 DEF DrawLink, RemoveLink, Editing, TemplateTypeOK
    <3> QED
      BY <2>0, <2>8, <3>1 DEF DrawLink, RemoveLink, TemplateTypeOK
  <2>9. CASE Validate \/ Preview \/ RunTarget \/ UNCHANGED templateVars
    BY <2>9 DEF Validate, Preview, RunTarget, templateVars, TemplateTypeOK
  <2> QED
    BY <2>4, <2>5, <2>6, <2>7, <2>8, <2>9 DEF TemplateNext
<1> QED
  BY <1>1, <1>2, PTL DEF TemplateSpec

-----------------------------------------------------------------------------
(***************************************************************************)
(* The editor side as a whole. A step of one component is a step of it or  *)
(* a stutter for each of the others, so that what has been shown of each   *)
(* by itself holds of them side by side.                                   *)
(***************************************************************************)
LEMMA PlatformStarts ==
    PlatformInit => /\ Init /\ LogicInit /\ TemplateInit /\ ConnInit /\ SearchInit
                    /\ ReportsInit /\ LibraryInit /\ SessionsInit /\ MembersInit
BY DEF PlatformInit

LEMMA PlatformSteps ==
    [PlatformNext]_platformVars =>
        /\ [Next]_vars /\ [LogicNext]_logicVars /\ [TemplateNext]_templateVars
        /\ [ConnNext]_connVars /\ [SearchNext]_searchVars /\ [ReportsNext]_reportVars
        /\ [LibraryNext]_libraryVars /\ [SessionsNext]_sessionVars /\ [MembersNext]_memberVars
<1> SUFFICES ASSUME [PlatformNext]_platformVars
             PROVE  /\ [Next]_vars /\ [LogicNext]_logicVars /\ [TemplateNext]_templateVars
                    /\ [ConnNext]_connVars /\ [SearchNext]_searchVars /\ [ReportsNext]_reportVars
                    /\ [LibraryNext]_libraryVars /\ [SessionsNext]_sessionVars
                    /\ [MembersNext]_memberVars
  OBVIOUS
<1>1. [Next]_vars
  BY DEF PlatformNext, platformVars
<1>2. [LogicNext]_logicVars
  BY DEF PlatformNext, platformVars
<1>3. [TemplateNext]_templateVars
  BY DEF PlatformNext, platformVars
<1>4. [ConnNext]_connVars
  BY DEF PlatformNext, platformVars
<1>5. [SearchNext]_searchVars
  BY DEF PlatformNext, platformVars
<1>6. [ReportsNext]_reportVars
  BY DEF PlatformNext, platformVars
<1>7. [LibraryNext]_libraryVars
  BY DEF PlatformNext, platformVars
<1>8. [SessionsNext]_sessionVars
  BY DEF PlatformNext, platformVars
<1>9. [MembersNext]_memberVars
  BY DEF PlatformNext, platformVars
<1> QED
  BY <1>1, <1>2, <1>3, <1>4, <1>5, <1>6, <1>7, <1>8, <1>9

(* A behaviour of the whole is one of each component.                       *)
THEOREM PlatformImplements ==
    PlatformSpec => /\ Spec /\ LogicSpec /\ TemplateSpec /\ ConnSpec /\ SearchSpec
                    /\ ReportsSpec /\ LibrarySpec /\ SessionsSpec /\ MembersSpec
BY PlatformStarts, PlatformSteps, PTL
   DEF PlatformSpec, Spec, LogicSpec, TemplateSpec, ConnSpec, SearchSpec, ReportsSpec, LibrarySpec,
       SessionsSpec, MembersSpec

(* Every variable of the whole keeps its type, whichever component it is of *)
(* that is at work.                                                         *)
THEOREM PlatformTypesCorrect == PlatformSpec => []PlatformTypeOK
<1>1. /\ TypeOK /\ LogicTypeOK /\ TemplateTypeOK /\ ConnTypeOK /\ SearchTypeOK /\ ReportsTypeOK
      /\ LibraryTypeOK /\ SessionsTypeOK /\ MembersTypeOK
      => PlatformTypeOK
  BY DEF PlatformTypeOK
<1> QED
  BY <1>1, PlatformImplements, ScheduleTypes, LogicTypes, TemplateTypes, ConnTypes, SearchTypes,
     ReportsTypes, LibraryTypes, SessionsTypes, MembersTypes, PTL

(* And with their types the whole keeps what the components promise, as one *)
(* run checks it of one instance; with one ticker no schedule runs too often *)
(* either.                                                                  *)
THEOREM PlatformSafe ==
    PlatformSpec => /\ [](/\ AutoPaused /\ Grounded /\ PickedResolves /\ StoredCoherent
                          /\ SearchGrounded /\ ReportsAgree /\ WalkShowsAll /\ AccountServed)
                    /\ OneTicker => []NeverTooOften
<1>1. PlatformSpec => [](/\ AutoPaused /\ Grounded /\ PickedResolves /\ StoredCoherent
                        /\ SearchGrounded /\ ReportsAgree /\ WalkShowsAll /\ AccountServed)
  BY PlatformImplements, PausedWhenFailing, DecisionsGrounded, PickedMeansItsNode,
     CredentialsCoherent, SearchIsGrounded, ReportsStayConsistent, WalksShowAll,
     AccountsAreServed, PTL
<1>2. OneTicker => (PlatformSpec => []NeverTooOften)
  <2> SUFFICES ASSUME OneTicker PROVE PlatformSpec => []NeverTooOften
    OBVIOUS
  <2>1. Spec => []NeverTooOften
    BY NotTooOften
  <2> QED
    BY <2>1, PlatformImplements, PTL
<1> QED
  BY <1>1, <1>2, PTL
=============================================================================

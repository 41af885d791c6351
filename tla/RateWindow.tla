------------------------------ MODULE RateWindow ------------------------------
(***************************************************************************)
(* The sliding-window limiter of the public agent endpoint, for one key.   *)
(* The in-memory one decides and records in one go. The Redis one counts   *)
(* in one pipeline and adds in a second one, after an await; its members   *)
(* are a millisecond and the address of an object that is freed at once,   *)
(* so that two hits of one millisecond may have the same member.           *)
(***************************************************************************)
EXTENDS Naturals, FiniteSets, Sequences

CONSTANTS
    Backends,       \* "memory" (lite mode), "redis" (full mode)
    LimitCaller,    \* concurrent requests
    Address,        \* values id(object()) may take
    max_requests, window_s,
    MaxNow, MaxHits \* bounds on time and on accepted hits

ASSUME WindowAssumption ==
    /\ Backends \subseteq {"memory", "redis"} /\ Address # {}
    /\ {max_requests, window_s, MaxNow} \subseteq Nat \ {0} /\ MaxHits \in Nat

VARIABLES
    backend,
    clock_s,
    hits,       \* what is stored; id tells hits of one time apart
    caller,     \* [LimitCaller -> [step, member]] of its call of the Redis limiter
    accepted    \* when hits were allowed, in order (auxiliary)

windowVars == <<backend, clock_s, hits, caller, accepted>>

WindowInit ==
    /\ backend \in Backends
    /\ clock_s = 1
    /\ hits = {}
    /\ caller = [c \in LimitCaller |-> [step |-> "idle", member |-> {}]]
    /\ accepted = <<>>

Fresh_Early == {h \in hits : h.at + window_s > clock_s + 1}

(* What is not yet window_s old; the rest is dropped before the count.      *)
Fresh == {h \in hits : h.at + window_s > clock_s}

ClockTicks ==
    /\ clock_s < MaxNow /\ clock_s' = clock_s + 1
    /\ UNCHANGED <<backend, hits, caller, accepted>>

Full(h) == Cardinality(h) >= max_requests

-----------------------------------------------------------------------------
AllowInMemory(c) ==
    /\ backend = "memory" /\ Len(accepted) < MaxHits
    /\ IF Full(Fresh)
       THEN hits' = Fresh /\ UNCHANGED accepted
       ELSE /\ hits' = Fresh \cup {[at |-> clock_s, id |-> Len(accepted) + 1]}
            /\ accepted' = Append(accepted, clock_s)
    /\ UNCHANGED <<backend, clock_s, caller>>

(* ZREMRANGEBYSCORE, ZCARD.                                                 *)
CountHits(c) ==
    /\ backend = "redis" /\ caller[c].step = "idle" /\ Len(accepted) < MaxHits
    /\ hits' = Fresh
    /\ IF Full(Fresh)
       THEN UNCHANGED caller
       ELSE \E a \in Address :
              caller' = [caller EXCEPT ![c] =
                          [step |-> "counted", member |-> {[at |-> clock_s, id |-> a]}]]
    /\ UNCHANGED <<backend, clock_s, accepted>>

(* ZADD, EXPIRE.                                                            *)
AddHit(c) ==
    /\ caller[c].step = "counted"
    /\ hits' = hits \cup caller[c].member
    /\ accepted' = Append(accepted, clock_s)
    /\ caller' = [caller EXCEPT ![c] = [step |-> "idle", member |-> {}]]
    /\ UNCHANGED <<backend, clock_s>>

WindowStep == \E c \in LimitCaller : AllowInMemory(c) \/ CountHits(c) \/ AddHit(c)

WindowNext == WindowStep \/ ClockTicks
WindowSpec == WindowInit /\ [][WindowNext]_windowVars

-----------------------------------------------------------------------------
WindowTypeOK ==
    LET Hits == [at : 1 .. MaxNow, id : Address \cup 1 .. MaxHits] IN
    /\ backend \in Backends /\ clock_s \in 1 .. MaxNow
    /\ hits \subseteq Hits
    /\ caller \in [LimitCaller -> [step : {"idle", "counted"}, member : SUBSET Hits]]
    /\ accepted \in Seq(1 .. MaxNow)

(* "within `limit` per rolling `window_s` seconds" (base.py:13): of the      *)
(* limiter of lite mode, no stretch of window_s seconds, wherever it        *)
(* begins, has accepted more than max_requests hits.                        *)
RollingLimitInMemory ==
    backend = "memory" => \A t \in 1 .. MaxNow :
        Cardinality({n \in DOMAIN accepted :
                       t <= accepted[n] /\ accepted[n] < t + window_s}) <= max_requests
=============================================================================

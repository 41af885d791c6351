--------------------------- MODULE WebhookIngress ---------------------------
(***************************************************************************)
(* The public endpoint that starts a workflow from an event of another     *)
(* system. A delivery is one POST: senders repeat what was not answered    *)
(* with success, and may have several deliveries of one event under way.   *)
(* The handler looks three things up, commits a row under the delivery's   *)
(* idempotency key and then hands the execution to the task queue; each    *)
(* step ends at an await.                                                  *)
(***************************************************************************)
EXTENDS Naturals, FiniteSets

CONSTANTS
    Delivery,
    Provider,       \* [Delivery -> the provider detected from its headers]
    IdHeader,       \* [Delivery -> its event-id header, or NoHeader]
    NoHeader,
    BodyOf,         \* [Delivery -> its payload's hash]
    Signature,      \* [Delivery -> what its signature header is worth]
    MaxHookEdits    \* bound on the owner's edits of hook and workflow

ASSUME IngressAssumption ==
    /\ DOMAIN Provider = Delivery
    /\ DOMAIN IdHeader = Delivery /\ DOMAIN BodyOf = Delivery
    /\ DOMAIN Signature = Delivery
    /\ MaxHookEdits \in Nat

VARIABLES
    hook,       \* [active, workflow, edits]
    delivery,   \* [Delivery -> where its handler is]
    reply,      \* [Delivery -> what the sender was answered]
    event,      \* [Keys -> status of the row with that external_event_id]
    dispatched  \* [Keys -> tasks enqueued for that row]

ingressVars == <<hook, delivery, reply, event, dispatched>>

-----------------------------------------------------------------------------
(* One verifier per provider: which of the signature's parts it looks at.   *)
GenericHMACVerifier(s) == s.matches
GitHubVerifier(s)      == s.prefixed /\ s.matches
StripeVerifier(s)      == s.stamped /\ s.fresh /\ s.matches
SlackVerifier(s)       == s.stamped /\ s.fresh /\ s.matches
ShopifyVerifier(s)     == s.matches
TwilioVerifier(s)      == s.matches

Verified(d) ==
    LET s == Signature[d] IN
    /\ s.present
    /\ CASE Provider[d] = "github"  -> GitHubVerifier(s)
         [] Provider[d] = "stripe"  -> StripeVerifier(s)
         [] Provider[d] = "slack"   -> SlackVerifier(s)
         [] Provider[d] = "shopify" -> ShopifyVerifier(s)
         [] Provider[d] = "twilio"  -> TwilioVerifier(s)
         [] OTHER                   -> GenericHMACVerifier(s)

(* The idempotency key: the event id if a header has one, or the payload.   *)
KeyOf(d) ==
    IF IdHeader[d] # NoHeader THEN <<"id", IdHeader[d]>> ELSE <<"hash", BodyOf[d]>>

Keys == {KeyOf(d) : d \in Delivery}

Answer(d, r) ==
    /\ delivery' = [delivery EXCEPT ![d] = "over"]
    /\ reply' = [reply EXCEPT ![d] = r]

Goto(d, step) ==
    /\ delivery' = [delivery EXCEPT ![d] = step]
    /\ UNCHANGED reply

IngressInit ==
    /\ hook = [active |-> TRUE, workflow |-> "RUNNABLE", edits |-> 0]
    /\ delivery = [d \in Delivery |-> "none"]
    /\ reply = [d \in Delivery |-> "none"]
    /\ event = [k \in Keys |-> "none"]
    /\ dispatched = [k \in Keys |-> 0]

-----------------------------------------------------------------------------
LookupHook(d) ==
    /\ delivery[d] = "none"
    /\ IF hook.active THEN Goto(d, "found") ELSE Answer(d, "NOT_FOUND")
    /\ UNCHANGED <<hook, event, dispatched>>

(* Body and signature; a hook without a secret takes any signature.         *)
CheckRequest(d) ==
    /\ delivery[d] = "found"
    /\ \E tooLarge, hasSecret \in BOOLEAN :
         IF tooLarge \/ (hasSecret /\ ~Verified(d))
         THEN Answer(d, "REFUSED") ELSE Goto(d, "verified")
    /\ UNCHANGED <<hook, event, dispatched>>

CheckWorkflow(d) ==
    /\ delivery[d] = "verified"
    /\ IF hook.workflow = "RUNNABLE" THEN Goto(d, "runnable") ELSE Answer(d, "REFUSED")
    /\ UNCHANGED <<hook, event, dispatched>>

(* external_event_id is unique: the second insert is answered as a          *)
(* duplicate, whatever has become of the first.                             *)
InsertEvent(d) ==
    /\ delivery[d] = "runnable"
    /\ IF event[KeyOf(d)] = "none"
       THEN event' = [event EXCEPT ![KeyOf(d)] = "PENDING"] /\ Goto(d, "inserted")
       ELSE UNCHANGED event /\ Answer(d, "DUPLICATE")
    /\ UNCHANGED <<hook, dispatched>>

InsertFails_AsDuplicate(d) ==
    /\ delivery[d] = "runnable"
    /\ Answer(d, "DUPLICATE")
    /\ UNCHANGED <<hook, event, dispatched>>

(* Any other error of the database rolls back and is the server's.          *)
InsertFails(d) ==
    /\ delivery[d] = "runnable"
    /\ Answer(d, "ERROR")
    /\ UNCHANGED <<hook, event, dispatched>>

Dispatch(d) ==
    /\ delivery[d] = "inserted"
    /\ dispatched' = [dispatched EXCEPT ![KeyOf(d)] = @ + 1]
    /\ Answer(d, "ACCEPTED")
    /\ UNCHANGED <<hook, event>>

DispatchRaises(d) ==
    /\ delivery[d] = "inserted"
    /\ Goto(d, "undispatched")
    /\ UNCHANGED <<hook, event, dispatched>>

RecordFailure(d) ==
    /\ delivery[d] = "undispatched"
    /\ event' = [event EXCEPT ![KeyOf(d)] = "FAILED"]
    /\ Answer(d, "ERROR")
    /\ UNCHANGED <<hook, dispatched>>

(* The process stops: the sender gets no answer.                            *)
HandlerDies(d) ==
    /\ delivery[d] \notin {"none", "over", "dead"}
    /\ Goto(d, "dead")
    /\ UNCHANGED <<hook, event, dispatched>>

(* The owner switches the hook on and off, archives or deletes its workflow.*)
EditHook ==
    /\ hook.edits < MaxHookEdits
    /\ \E active \in BOOLEAN, workflow \in {"RUNNABLE", "ARCHIVED", "DELETED"} :
         /\ hook.workflow = "DELETED" => workflow = "DELETED"
         /\ hook' = [active |-> active, workflow |-> workflow, edits |-> hook.edits + 1]
    /\ UNCHANGED <<delivery, reply, event, dispatched>>

Handle(d) ==
    \/ LookupHook(d) \/ CheckRequest(d) \/ CheckWorkflow(d)
    \/ InsertEvent(d) \/ InsertFails(d)
    \/ Dispatch(d) \/ DispatchRaises(d) \/ RecordFailure(d)
    \/ HandlerDies(d)

IngressNext == (\E d \in Delivery : Handle(d)) \/ EditHook

IngressSpec == IngressInit /\ [][IngressNext]_ingressVars

-----------------------------------------------------------------------------
IngressTypeOK ==
    /\ hook \in [active : BOOLEAN, workflow : {"RUNNABLE", "ARCHIVED", "DELETED"},
                 edits : 0 .. MaxHookEdits]
    /\ delivery \in [Delivery -> {"none", "found", "verified", "runnable", "inserted",
                                  "undispatched", "over", "dead"}]
    /\ reply \in [Delivery -> {"none", "NOT_FOUND", "REFUSED", "DUPLICATE", "ACCEPTED", "ERROR"}]
    /\ event \in [Keys -> {"none", "PENDING", "FAILED"}]
    /\ dispatched \in [Keys -> Nat]

(* However many deliveries race, at most one task is enqueued for a key,    *)
(* and only for a row that is committed and was not given up.               *)
OneDispatch ==
    \A k \in Keys :
        /\ dispatched[k] <= 1
        /\ dispatched[k] = 1 => event[k] = "PENDING"

(* A success stands for an enqueued task, unless the one handler that       *)
(* inserted the row is still at work, died, or could not dispatch it: what  *)
(* the sender is told rests on another delivery's handler.                  *)
SuccessIsBacked ==
    \A d \in Delivery :
        reply[d] \in {"ACCEPTED", "DUPLICATE"} =>
            \/ dispatched[KeyOf(d)] = 1
            \/ \E e \in Delivery \ {d} :
                 /\ KeyOf(e) = KeyOf(d)
                 /\ \/ delivery[e] \in {"inserted", "undispatched", "dead"}
                    \/ reply[e] = "ERROR" /\ event[KeyOf(e)] = "FAILED"

(* What the sender counts on: its event is done once, and a success is one. *)
SendersServed == OneDispatch /\ SuccessIsBacked
=============================================================================

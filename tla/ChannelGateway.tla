---------------------------- MODULE ChannelGateway ----------------------------
(***************************************************************************)
(* Messages from WhatsApp, Messenger and Telegram to an agent. A delivery  *)
(* is one POST of the channel; a message may be delivered several times.   *)
(* The gateway answers at once and a task runs the turn and sends the      *)
(* reply. Routers build the gateway anew for each request and give it no   *)
(* cache, so that its dedup and session keys are written to a private      *)
(* MemoryCache and are never found again: every delivery is a message, and *)
(* starts a conversation.                                                  *)
(***************************************************************************)
EXTENDS AgentChat

CONSTANTS
    Inbound,        \* deliveries: some of the turns
    MaxWorkerLoss   \* bound on worker deaths

ASSUME GatewayAssumption == Inbound \subseteq Turn /\ MaxWorkerLoss \in Nat

VARIABLES
    inbound,    \* [Inbound -> [step, thread, durable]]
    replies,    \* [Inbound -> replies sent to the channel]
    losses

gatewayVars == <<inbound, replies, losses>>

GatewayInit ==
    /\ inbound = [i \in Inbound |-> [step |-> "none", thread |-> NoThread, durable |-> TRUE]]
    /\ replies = [i \in Inbound |-> 0]
    /\ losses = 0

Step(i, s) == inbound' = [inbound EXCEPT ![i].step = s]

-----------------------------------------------------------------------------
(* Signature, payload, text; then the private cache, which knows nothing.   *)
ReceiveMessage(i) ==
    /\ inbound[i].step = "none"
    /\ \/ Step(i, "refused")
       \/ ~agentDeleted /\ Step(i, "unseen")
    /\ UNCHANGED <<chatVars, replies, losses>>

(* No session is found: a conversation is created, unless the agent is gone.*)
OpenSession(i) ==
    /\ inbound[i].step = "unseen"
    /\ IF agentDeleted
       THEN Step(i, "refused") /\ UNCHANGED thread
       ELSE \E c \in Free :
              /\ CreateConversation(c, "null")
              /\ inbound' = [inbound EXCEPT ![i].step = "opened", ![i].thread = c]
    /\ UNCHANGED <<agentDeleted, turn, replies, losses>>

(* The event goes to the queue, or to a task of this process if that fails. *)
EnqueueEvent(i) ==
    /\ inbound[i].step = "opened" /\ ~agentDeleted
    /\ \E durable \in BOOLEAN :
         inbound' = [inbound EXCEPT ![i].step = "queued", ![i].durable = durable]
    /\ UNCHANGED <<chatVars, replies, losses>>

(* The agent was deleted since: its owner cannot be read, the request fails.*)
EnqueueFails(i) ==
    /\ inbound[i].step = "opened" /\ agentDeleted
    /\ Step(i, "refused")
    /\ UNCHANGED <<chatVars, replies, losses>>

ProcessEvent(i) ==
    /\ inbound[i].step = "queued"
    /\ BeginTurn(i, inbound[i].thread)
    /\ Step(i, "processing")
    /\ UNCHANGED <<agentDeleted, thread, replies, losses>>

ProcessTurn(i) ==
    /\ inbound[i].step = "processing"
    /\ StreamChat(i)
    /\ UNCHANGED gatewayVars

(* The text goes to the channel, an apology too; whatever the channel says, *)
(* and when the turn raised, the task is done and acknowledged.             *)
SendReply(i) ==
    /\ inbound[i].step = "processing" /\ Ended(i)
    /\ \E sent \in {0, 1} : replies' = [replies EXCEPT ![i] = @ + sent]
    /\ Step(i, "sent")
    /\ UNCHANGED <<chatVars, losses>>

SwallowError(i) ==
    /\ inbound[i].step = "processing" /\ turn[i].step = "raised"
    /\ Step(i, "sent")
    /\ UNCHANGED <<chatVars, replies, losses>>

Acknowledge(i) ==
    /\ inbound[i].step = "sent"
    /\ Step(i, "done")
    /\ UNCHANGED <<chatVars, replies, losses>>

(* acks_late: what a worker held is delivered again; a background task of a *)
(* process that stops is lost.                                              *)
WorkerLost(i) ==
    /\ inbound[i].step \in {"processing", "sent"} /\ losses < MaxWorkerLoss
    /\ Step(i, IF inbound[i].durable THEN "queued" ELSE "lost")
    /\ turn' = [turn EXCEPT ![i] = Idle]
    /\ losses' = losses + 1
    /\ UNCHANGED <<agentDeleted, thread, replies>>

Gateway(i) ==
    \/ ReceiveMessage(i) \/ OpenSession(i) \/ EnqueueEvent(i) \/ EnqueueFails(i)
    \/ ProcessEvent(i) \/ ProcessTurn(i) \/ SendReply(i) \/ SwallowError(i)
    \/ Acknowledge(i)

GatewayStep == \E i \in Inbound : Gateway(i) \/ WorkerLost(i)

-----------------------------------------------------------------------------
GatewayTypeOK ==
    /\ inbound \in [Inbound -> [step : {"none", "refused", "unseen", "opened", "queued",
                                        "processing", "sent", "done", "lost"},
                                thread : Thread \cup {NoThread}, durable : BOOLEAN]]
    /\ replies \in [Inbound -> Nat]
    /\ losses \in 0 .. MaxWorkerLoss
=============================================================================

----------------------------- MODULE AgentTraffic -----------------------------
(***************************************************************************)
(* One agent with both ways in: the requests of its published API and the  *)
(* messages of its channels, over the same conversations.                  *)
(***************************************************************************)
EXTENDS AgentApi, ChannelGateway

CONSTANT MaxOwnerEdits   \* bound on the owner's requests

ASSUME TrafficAssumption == MaxOwnerEdits \in Nat

VARIABLES
    edits,
    waiting   \* the most conversations that ever awaited a first reply (auxiliary)

trafficVars == <<chatVars, apiVars, gatewayVars, edits, waiting>>

(* Conversations that count once they have a reply, and requests that were  *)
(* let through to create one.                                               *)
Open == Cardinality({c \in OfApi : ~HasReply(c)})
        + Cardinality({r \in ApiRequest : apiStep[r] = "counted"})

TrafficInit == ChatInit /\ ApiInit /\ GatewayInit /\ edits = 0 /\ waiting = 0

OwnerStep ==
    /\ edits < MaxOwnerEdits /\ edits' = edits + 1
    /\ \/ DeleteAgent /\ UNCHANGED apiVars
       \/ (\E c \in Thread : DeleteConversation(c)) /\ UNCHANGED apiVars
       \/ RevokeApi
       \/ UpdateApi
    /\ UNCHANGED gatewayVars

TrafficStep ==
    \/ ApiStep /\ UNCHANGED <<gatewayVars, edits>>
    \/ GatewayStep /\ UNCHANGED <<apiVars, edits>>
    \/ OwnerStep

TrafficNext ==
    /\ TrafficStep
    /\ waiting' = IF Open' > waiting THEN Open' ELSE waiting

TrafficSpec == TrafficInit /\ [][TrafficNext]_trafficVars

-----------------------------------------------------------------------------
(* The chat cap is checked before a conversation is created and counts only *)
(* what was answered, so it can be overrun; but only as far as the number   *)
(* of conversations that awaited their first reply at one time allows.      *)
CapOverrun == Used > 0 => Used < chat_cap + waiting
=============================================================================

------------------------------- MODULE AgentApi -------------------------------
(***************************************************************************)
(* The public chat endpoint of a published agent. A request is authorised, *)
(* finds or creates its conversation, runs a turn under the endpoint's     *)
(* time-out, and counts the call. Only new conversations are subject to    *)
(* the agent's chat cap, and only conversations with a reply are counted.  *)
(***************************************************************************)
EXTENDS AgentChat

CONSTANTS
    ApiRequest,     \* requests to the endpoint: some of the turns
    chat_cap        \* conversations the agent may have

ASSUME ApiAssumption == ApiRequest \subseteq Turn /\ chat_cap \in Nat

VARIABLES
    api,        \* the agent_api row: [published, active, total_calls]
    apiStep,    \* [ApiRequest -> where its handler is]
    loaded      \* [ApiRequest -> total_calls of the row as it read it]

apiVars == <<api, apiStep, loaded>>

(* count_new_conversations: threads of the API with an assistant's reply.   *)
HasReply(c) == \E n \in 1 .. Len(thread[c].roles) : thread[c].roles[n] = "assistant"
OfApi == {c \in Thread : thread[c].source = "agent_api"}
Used == Cardinality({c \in OfApi : HasReply(c)})
is_cap_reached == Used >= chat_cap

(* conversation_belongs_to_agent: threads without a source are accepted.    *)
Continuable(c) == thread[c].source \in {"agent_api", "null"} /\ ~thread[c].deleted

ApiInit ==
    /\ api = [published |-> TRUE, active |-> TRUE, total_calls |-> 0]
    /\ apiStep = [r \in ApiRequest |-> "none"]
    /\ loaded = [r \in ApiRequest |-> 0]

Reply(r) == apiStep' = [apiStep EXCEPT ![r] = "over"]

-----------------------------------------------------------------------------
(* The row by its slug, the key, the limiter; the row stays loaded.         *)
Authorise(r) ==
    /\ apiStep[r] = "none"
    /\ \/ Reply(r) /\ UNCHANGED loaded    \* 404, 403, 401 or 429
       \/ /\ api.published /\ api.active
          /\ apiStep' = [apiStep EXCEPT ![r] = "authorised"]
          /\ loaded' = [loaded EXCEPT ![r] = api.total_calls]
    /\ UNCHANGED <<chatVars, api>>

Continue(r) ==
    /\ apiStep[r] = "authorised"
    /\ \E c \in Thread :
         /\ thread[c].source # "none"
         /\ IF Continuable(c)
            THEN /\ apiStep' = [apiStep EXCEPT ![r] = "chatting"]
                 /\ BeginTurn(r, c)
            ELSE Reply(r) /\ UNCHANGED turn
    /\ UNCHANGED <<agentDeleted, thread, api, loaded>>

CountThreads_OffByOne(r) ==
    /\ apiStep[r] = "authorised"
    /\ IF Used > chat_cap
       THEN Reply(r)
       ELSE apiStep' = [apiStep EXCEPT ![r] = "counted"]
    /\ UNCHANGED <<chatVars, api, loaded>>

(* The count is a query of its own; a deleted agent is still found here.    *)
CountThreads(r) ==
    /\ apiStep[r] = "authorised"
    /\ IF is_cap_reached
       THEN Reply(r)
       ELSE apiStep' = [apiStep EXCEPT ![r] = "counted"]
    /\ UNCHANGED <<chatVars, api, loaded>>

CreateThread(r) ==
    /\ apiStep[r] = "counted"
    /\ \E c \in Free : CreateConversation(c, "agent_api") /\ BeginTurn(r, c)
    /\ apiStep' = [apiStep EXCEPT ![r] = "chatting"]
    /\ UNCHANGED <<agentDeleted, api, loaded>>

Chat(r) ==
    /\ apiStep[r] = "chatting"
    /\ StreamChat(r)
    /\ UNCHANGED apiVars

(* wait_for cancels the turn wherever it is; what it committed stays.       *)
ChatTimesOut(r) ==
    /\ apiStep[r] = "chatting" /\ turn[r].step \in {"loaded", "asked", "replied"}
    /\ turn' = [turn EXCEPT ![r].step = "cancelled"]
    /\ Reply(r)
    /\ UNCHANGED <<agentDeleted, thread, api, loaded>>

ChatFails(r) ==
    /\ apiStep[r] = "chatting" /\ turn[r].step = "raised"
    /\ Reply(r)
    /\ UNCHANGED <<chatVars, api, loaded>>

(* total_calls += 1 on the row as it was loaded; a revoked row is gone and  *)
(* the commit raises.                                                       *)
CountCall(r) ==
    /\ apiStep[r] = "chatting" /\ Ended(r)
    /\ IF api.published
       THEN /\ api' = [api EXCEPT !.total_calls = loaded[r] + 1]
            /\ Reply(r)
       ELSE UNCHANGED api /\ Reply(r)   \* 500
    /\ UNCHANGED <<chatVars, loaded>>

(* The owner's handlers.                                                    *)
RevokeApi ==
    /\ api.published
    /\ api' = [api EXCEPT !.published = FALSE]
    /\ UNCHANGED <<chatVars, apiStep, loaded>>

UpdateApi ==
    /\ api.published
    /\ \E is_active \in BOOLEAN : api' = [api EXCEPT !.active = is_active]
    /\ UNCHANGED <<chatVars, apiStep, loaded>>

Api(r) ==
    \/ Authorise(r) \/ Continue(r) \/ CountThreads(r) \/ CreateThread(r)
    \/ Chat(r) \/ ChatTimesOut(r) \/ ChatFails(r) \/ CountCall(r)

ApiStep == \E r \in ApiRequest : Api(r)

-----------------------------------------------------------------------------
ApiTypeOK ==
    /\ api \in [published : BOOLEAN, active : BOOLEAN, total_calls : Nat]
    /\ apiStep \in [ApiRequest -> {"none", "authorised", "counted", "chatting", "over"}]
    /\ loaded \in [ApiRequest -> Nat]
=============================================================================

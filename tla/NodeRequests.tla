----------------------------- MODULE NodeRequests -----------------------------
(***************************************************************************)
(* One request of an integration node to the service behind it, through    *)
(* the node's own client. All clients have the same loop: an attempt, a    *)
(* verdict on its answer, and another attempt after a delay. They differ   *)
(* in the methods they know and in what they make of an answer. An answer  *)
(* may be lost although the service has done what was asked.               *)
(***************************************************************************)
EXTENDS Naturals, FiniteSets, Sequences

CONSTANT max_retries

ASSUME RequestAssumption == max_retries \in Nat \ {0}

VARIABLES
    call,       \* [client, method, round, attempt, step]
    done,       \* times the service did it
    unsure,     \* of these, the ones whose answer the client could not read as success
    result,     \* "success", or the answer that ended it
    served      \* no answer so far was other than it should be

requestVars == <<call, done, unsure, result, served>>

(* An answer, and how often the service did the request to give it.         *)
Performed ==
    [object |-> {1}, list |-> {1}, image |-> {1}, garbled |-> {1}, limited |-> {0}, server |-> {0, 1},
     client |-> {0}, denied |-> {0}, timeout |-> {0, 1}, refused |-> {0},
     redirects |-> {0}, unlisted |-> {0, 1}]

Read == {"object", "list", "image"}

(* LIST is a GET that is answered with a list, IMAGE a POST that is answered*)
(* with a picture. Only the webhook node follows redirects; only the models'*)
(* clients tell errors by their text, and some are not in their lists.      *)
Form(method) ==
    IF method = "LIST" THEN "list" ELSE IF method = "IMAGE" THEN "image" ELSE "object"

Verb(method) ==
    IF method = "LIST" THEN "GET" ELSE IF method = "IMAGE" THEN "POST" ELSE method

Possible(c, a) ==
    /\ a \in Read => a = Form(c.method)
    /\ a = "redirects" => c.client = "webhook"
    /\ a = "unlisted" => c.client \in {"openai", "anthropic", "gemini"}

-----------------------------------------------------------------------------
(* What each client takes for success and what it tries again; the rest it  *)
(* returns as an error. "knows" are the methods it can send. The first five *)
(* store "success" in the answer, which raises if that is a list.           *)
JsonClient(methods) ==
    [knows |-> methods, success |-> {"object"},
     again |-> {"list", "garbled", "limited", "server", "timeout", "refused"}, rounds |-> 1]

NotionRequest  == JsonClient({"GET", "POST", "PATCH", "DELETE"})
SlackRequest   == JsonClient({"GET", "POST"})
TwilioRequest  == JsonClient({"GET", "POST", "DELETE"})
DiscordRequest == JsonClient({"GET", "POST", "PATCH", "DELETE"})

PerplexityRequest == JsonClient({"POST"})

MistralRequest ==
    [knows |-> {"POST"}, success |-> Read,
     again |-> {"garbled", "limited", "server", "timeout", "refused"}, rounds |-> 1]

(* A success without a body it can read is one all the same.                *)
SupabaseRequest_StoresSuccess ==
    JsonClient({"GET", "POST", "PATCH", "PUT", "DELETE"})

SupabaseRequest ==
    [knows |-> {"GET", "POST", "PATCH", "PUT", "DELETE"}, success |-> Read \cup {"garbled"},
     again |-> {"limited", "server", "timeout", "refused"}, rounds |-> 1]

(* Of a body it cannot read the webhook node keeps the beginning.           *)
ServesAnything == Read \cup {"garbled"}

WebhookRequest ==
    [knows |-> {"GET", "POST", "PATCH", "PUT", "DELETE"}, success |-> ServesAnything,
     again |-> {"limited", "server", "timeout", "refused"}, rounds |-> 1]

(* Two endpoints; an error it does not know by its status goes on, too, and *)
(* so does a picture: reading it as JSON raises what is not caught.         *)
BrowserRequest ==
    [knows |-> {"POST"}, success |-> {"object"},
     again |-> {"list", "image", "garbled", "limited", "server", "client", "timeout", "refused"}, rounds |-> 2]

(* Refused credentials end it; every other exception is tried again.        *)
GmailSend ==
    [knows |-> {"POST"}, success |-> Read,
     again |-> {"garbled", "limited", "server", "client", "timeout", "refused"}, rounds |-> 1]

OpenAIRequest ==
    [knows |-> {"POST"}, success |-> {"object"},
     again |-> {"limited", "server", "timeout", "refused"}, rounds |-> 1]

AnthropicRequest ==
    [knows |-> {"POST"}, success |-> {"object"},
     again |-> {"limited", "server", "timeout", "refused"}, rounds |-> 1]

(* A model that is out of quota, overloaded or unknown is not tried again:  *)
(* the next one is (Fallback).                                              *)
GeminiRequest ==
    [knows |-> {"POST"}, success |-> {"object"}, again |-> {"server", "timeout"},
     rounds |-> 2]

(* An incoming webhook of Slack: the status is all that is read, and every  *)
(* other one is tried again.                                                *)
SlackWebhook ==
    [knows |-> {"POST"}, success |-> Read \cup {"garbled"},
     again |-> {"limited", "server", "client", "denied", "timeout", "refused"}, rounds |-> 1]

(* One attempt, and any exception is the answer.                            *)
Once ==
    [knows |-> {"GET", "POST", "PATCH", "PUT", "DELETE"}, success |-> Read, again |-> {},
     rounds |-> 1]

SheetsClient == Once
GmailReads == Once
YouTubeClient == Once
SupabaseRpc == Once
PhoneLookup == Once
AgentModel == Once
Embedding == Once
KnowledgeTable == Once
Storage == Once

Client == [notion |-> NotionRequest, slack |-> SlackRequest, discord |-> DiscordRequest,
           twilio |-> TwilioRequest, mistral |-> MistralRequest,
           perplexity |-> PerplexityRequest, supabase |-> SupabaseRequest,
           webhook |-> WebhookRequest, browser |-> BrowserRequest, gmail |-> GmailSend,
           openai |-> OpenAIRequest, anthropic |-> AnthropicRequest,
           gemini |-> GeminiRequest, slackhook |-> SlackWebhook, sheets |-> SheetsClient,
           inbox |-> GmailReads, youtube |-> YouTubeClient, rpc |-> SupabaseRpc, lookup |-> PhoneLookup,
           agent |-> AgentModel, embedding |-> Embedding, knowledge |-> KnowledgeTable,
           storage |-> Storage]

(* Gemini goes to its next model after one of these; the browser to its     *)
(* next endpoint when the attempts at one are used up.                      *)
Fallback(a) == call.client = "gemini" /\ a \in {"limited", "client"}
Exhausted == call.client = "browser"

-----------------------------------------------------------------------------
RequestInit ==
    /\ call = [client |-> "notion", method |-> "GET", round |-> 1, attempt |-> 1, step |-> "over"]
    /\ done = 0 /\ unsure = 0 /\ result = "none" /\ served = TRUE

(* A node asks its client for a request.                                    *)
Request(client, method) ==
    /\ call' = [client |-> client, method |-> method, round |-> 1, attempt |-> 1,
                step |-> "attempt"]
    /\ done' = 0 /\ unsure' = 0 /\ result' = "none" /\ UNCHANGED served

policy == Client[call.client]
Known == Verb(call.method) \in policy.knows

Return(r) == result' = r /\ call' = [call EXCEPT !.step = "over"]

NextRound(a) ==
    IF call.round < policy.rounds
    THEN call' = [call EXCEPT !.round = @ + 1, !.attempt = 1] /\ UNCHANGED result
    ELSE Return(a)

(* The next attempt, or the next round, or the end of both.                 *)
TryAgain(a) ==
    IF call.attempt < max_retries
    THEN call' = [call EXCEPT !.attempt = @ + 1] /\ UNCHANGED result
    ELSE IF Exhausted THEN NextRound(a) ELSE Return(a)

(* A method the client does not know raises inside the loop.                *)
UnknownMethod ==
    /\ call.step = "attempt" /\ ~Known
    /\ TryAgain("method")
    /\ UNCHANGED <<done, unsure, served>>

Judge(a) ==
    IF a \in policy.success THEN Return("success")
    ELSE IF a \in policy.again THEN TryAgain(a)
    ELSE IF Fallback(a) THEN NextRound(a) ELSE Return(a)

Attempt ==
    /\ call.step = "attempt" /\ Known
    /\ \E a \in DOMAIN Performed :
         /\ Possible(call, a)
         /\ served' = (served /\ a \in Read)
         /\ \E did \in Performed[a] :
              /\ done' = done + did
              /\ unsure' = unsure + (IF a \in policy.success THEN 0 ELSE did)
         /\ Judge(a)

RequestNext == UnknownMethod \/ Attempt

-----------------------------------------------------------------------------
RequestTypeOK ==
    /\ call \in [client : DOMAIN Client, method : {"GET", "LIST", "IMAGE", "POST", "PATCH", "PUT", "DELETE"},
                 round : 1 .. 2, attempt : 1 .. max_retries, step : {"attempt", "over"}]
    /\ served \in BOOLEAN /\ done \in 0 .. 2 * max_retries /\ unsure \in 0 .. done
    /\ result \in {"none", "success", "method"} \cup DOMAIN Performed

(* The service did the request, at the most, once for each answer that the  *)
(* client could not read as success and once for the success it reports: it *)
(* is never done again after that, an error is reported of something that   *)
(* was done only if an answer was lost, and a reported success was done.    *)
DoneIsAccounted ==
    /\ done <= unsure + (IF result = "success" THEN 1 ELSE 0)
    /\ result = "success" => done > 0
=============================================================================

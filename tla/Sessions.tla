------------------------------- MODULE Sessions -------------------------------
(***************************************************************************)
(* The sessions of one account: an access token that expires by itself, a  *)
(* refresh token that is a row and is good for one use, both cookies of a  *)
(* browser. A request whose access token has expired is refreshed on its   *)
(* way in and answered with new cookies. Requests of a browser run side by *)
(* side, on the cookies they were sent with, and their answers come in any *)
(* order or not at all.                                                    *)
(*                                                                         *)
(* Refresh tokens are numbered as they are issued; 0 is no token.          *)
(***************************************************************************)
EXTENDS Naturals

CONSTANTS
    Browser,
    WebRequest,
    MaxTokens,     \* bounds
    MaxSessionFaults

ASSUME SessionsAssumption == MaxTokens \in Nat /\ MaxSessionFaults \in Nat

VARIABLES
    withDomain,  \* production with COOKIE_DOMAIN_1: cookies are set for it
    jar,         \* Browser -> its cookies
    tokens,      \* refresh tokens in the table
    issued,
    active,      \* the account is
    web,         \* WebRequest -> how far it is
    leftBy,      \* browsers whose last answer with cookies was a logout's
    stranded,    \* refresh tokens that a browser may keep in vain
    spoilt       \* faults: answers lost, tokens not saved or not deleted

sessionVars == <<withDomain, jar, tokens, issued, active, web, leftBy, stranded, spoilt>>

-----------------------------------------------------------------------------
TokenNumber == 0 .. MaxTokens
Clear == 0
Keep == MaxTokens + 1
NoRequest == [step |-> "none"]
Public == {"login", "renew"}
Operation == Public \cup {"call", "me", "logout", "delete_me"}

SessionsInit ==
    /\ withDomain \in BOOLEAN
    /\ jar = [b \in Browser |-> [access |-> FALSE, refresh |-> 0]]
    /\ tokens = {} /\ issued = 0 /\ active = TRUE
    /\ web = [r \in WebRequest |-> NoRequest]
    /\ leftBy = {} /\ stranded = {} /\ spoilt = 0

At(r, step) == web[r].step = step
Goto(r, step) == web' = [web EXCEPT ![r] = [@ EXCEPT !.step = step, !.access = FALSE]]

(* The answer and its cookies: cleared, left alone, or with a new token.    *)
Reply(r, cookies) ==
    web' = [web EXCEPT ![r] = [step |-> "answered", by |-> @.by, out |-> @.op = "logout" /\ At(r, "handled"),
                               refresh |-> @.refresh, cookies |-> cookies]]

Fails == spoilt < MaxSessionFaults /\ spoilt' = spoilt + 1
Table == <<tokens, issued>>
Rest == <<withDomain, jar, leftBy>>

-----------------------------------------------------------------------------
Send(r, b) ==
    /\ At(r, "none")
    /\ \E op \in Operation :
         web' = [web EXCEPT ![r] = [step |-> "sent", by |-> b, op |-> op, access |-> jar[b].access,
                                    refresh |-> jar[b].refresh, new |-> 0]]
    /\ UNCHANGED <<Table, Rest, active, stranded, spoilt>>

(* AuthMiddleware.dispatch, up to the look-up of a refresh token. A token   *)
(* that was sent may have expired on the way.                               *)
Authenticate(r) ==
    /\ At(r, "sent")
    /\ \/ web[r].op \in Public /\ Goto(r, "handled")
       \/ web[r].op \notin Public /\ web[r].access /\
            IF active THEN Goto(r, "handled") ELSE Reply(r, Clear)
       \/ /\ web[r].op \notin Public
          /\ IF web[r].refresh # 0 THEN Goto(r, "refreshing")
             ELSE Reply(r, IF web[r].access THEN Clear ELSE Keep)
    /\ UNCHANGED <<Table, Rest, active, stranded, spoilt>>

(* _perform_token_refresh, and refresh_access_token of the endpoint, whose  *)
(* refusal leaves the cookies alone.                                        *)
Good(r) == web[r].refresh \in tokens /\ active

FindToken(r) ==
    /\ At(r, "refreshing") \/ (At(r, "handled") /\ web[r].op = "renew")
    /\ IF Good(r) THEN Goto(r, "found")
       ELSE Reply(r, IF web[r].op = "renew" THEN Keep ELSE Clear)
    /\ UNCHANGED <<Table, Rest, active, stranded, spoilt>>

(* A token that another request has deleted meanwhile is deleted again.     *)
ConsumeToken(r) ==
    /\ At(r, "found") /\ Goto(r, "consumed")
    /\ tokens' = tokens \ {web[r].refresh}
    /\ UNCHANGED <<issued, Rest, active, stranded, spoilt>>

(* create_refresh_token, after a token was consumed, for a login, and for   *)
(* /me, which leaves the former token in the table.                         *)
Issuing(r) == At(r, "consumed") \/ (At(r, "handled") /\ web[r].op \in {"login", "me"})

AnswerWith_NoCookies(r, n) ==
    IF At(r, "consumed") /\ web[r].op # "renew" THEN Goto(r, "handled")
    ELSE Reply(r, IF web[r].new # 0 THEN web[r].new ELSE n)

(* The middleware's token goes on to the handler; an endpoint's is the      *)
(* answer, unless the middleware's cookies are set over it.                 *)
AnswerWith(r, n) ==
    IF At(r, "consumed") /\ web[r].op # "renew"
    THEN web' = [web EXCEPT ![r] = [@ EXCEPT !.step = "handled", !.new = n]]
    ELSE Reply(r, IF web[r].new # 0 THEN web[r].new ELSE n)

IssueToken(r) ==
    /\ Issuing(r) /\ issued < MaxTokens
    /\ issued' = issued + 1 /\ tokens' = tokens \cup {issued + 1}
    /\ AnswerWith(r, issued + 1)
    /\ UNCHANGED <<Rest, active, stranded, spoilt>>

(* The middleware answers its own failure with 500 and cleared cookies; an  *)
(* endpoint's is answered as any other call.                                *)
OwnCookies(r) == IF web[r].new # 0 THEN web[r].new ELSE Keep

IssueFails(r) ==
    /\ Issuing(r) /\ Fails
    /\ Reply(r, IF At(r, "consumed") /\ web[r].op # "renew" THEN Clear ELSE OwnCookies(r))
    /\ stranded' = stranded \cup (IF At(r, "consumed") THEN {web[r].refresh} ELSE {})
    /\ UNCHANGED <<Table, Rest, active>>

(* The handlers. After a refresh the middleware sets its cookies last.      *)
CallEndpoint(r) ==
    /\ At(r, "handled") /\ web[r].op = "call" /\ Reply(r, OwnCookies(r))
    /\ UNCHANGED <<Table, Rest, active, stranded, spoilt>>

(* An error of the deletion is logged.                                      *)
Logout(r) ==
    /\ At(r, "handled") /\ web[r].op = "logout"
    /\ Reply(r, IF web[r].new # 0 THEN web[r].new ELSE Clear)
    /\ \/ tokens' = {} /\ stranded' = stranded \cup tokens /\ UNCHANGED spoilt
       \/ Fails /\ UNCHANGED <<tokens, stranded>>
    /\ UNCHANGED <<issued, Rest, active>>

(* delete_me clears a cookie of a response that it does not return.         *)
DeleteMe(r) ==
    /\ At(r, "handled") /\ web[r].op = "delete_me"
    /\ active' = FALSE /\ Reply(r, OwnCookies(r))
    /\ UNCHANGED <<Table, Rest, stranded, spoilt>>

-----------------------------------------------------------------------------
(* set_auth_cookies; clear_auth_cookies names no domain.                    *)
Applied(cookies, old) ==
    CASE cookies = Keep -> old
      [] cookies = Clear -> IF withDomain THEN old ELSE [access |-> FALSE, refresh |-> 0]
      [] OTHER -> [access |-> TRUE, refresh |-> cookies]

Deliver(r) ==
    /\ At(r, "answered")
    /\ LET b == web[r].by IN
         /\ jar' = [jar EXCEPT ![b] = Applied(web[r].cookies, @)]
         /\ leftBy' = IF web[r].out THEN leftBy \cup {b}
                      ELSE IF web[r].cookies \in TokenNumber \ {Clear} THEN leftBy \ {b} ELSE leftBy
    /\ web' = [web EXCEPT ![r] = NoRequest]
    /\ UNCHANGED <<withDomain, Table, active, stranded, spoilt>>

LoseAnswer(r) ==
    /\ At(r, "answered") /\ Fails
    /\ web' = [web EXCEPT ![r] = NoRequest]
    /\ stranded' = stranded \cup {web[r].refresh}
    /\ UNCHANGED <<Table, Rest, active>>

AccessExpires(b) ==
    /\ jar[b].access /\ jar' = [jar EXCEPT ![b].access = FALSE]
    /\ UNCHANGED <<withDomain, Table, active, web, leftBy, stranded, spoilt>>

SessionsNext ==
    \/ \E r \in WebRequest :
         \/ \E b \in Browser : Send(r, b)
         \/ Authenticate(r) \/ FindToken(r) \/ ConsumeToken(r) \/ IssueToken(r) \/ IssueFails(r)
         \/ CallEndpoint(r) \/ Logout(r) \/ DeleteMe(r) \/ Deliver(r) \/ LoseAnswer(r)
    \/ \E b \in Browser : AccessExpires(b)

SessionsSpec == SessionsInit /\ [][SessionsNext]_sessionVars

-----------------------------------------------------------------------------
SessionsTypeOK ==
    /\ jar \in [Browser -> [access : BOOLEAN, refresh : TokenNumber]]
    /\ tokens \subseteq 1 .. issued /\ issued \in TokenNumber /\ spoilt \in 0 .. MaxSessionFaults
    /\ \A r \in WebRequest : web[r].step \in
         {"none", "sent", "refreshing", "found", "consumed", "handled", "answered"}

(* Of however many requests spend one token together, in whatever order     *)
(* their answers come: a browser with none under way holds a token that is  *)
(* in the table, or none, unless a fault or a logout took it; and a browser *)
(* that was logged out has no token that works, unless one could not be     *)
(* deleted. (It may still hold an access token: a logout that was itself    *)
(* refreshed is answered with a new one.)                                   *)
SessionsSound ==
    \A b \in Browser :
        (\A r \in WebRequest : At(r, "none") \/ web[r].by # b) =>
            /\ jar[b].refresh \in tokens \cup stranded \cup {0}
            /\ b \in leftBy /\ spoilt = 0 /\ ~withDomain => jar[b].refresh \notin tokens
=============================================================================

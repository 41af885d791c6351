---------------------------- MODULE ConnectionStore ----------------------------
(***************************************************************************)
(* Stored connections to providers: created, replaced, deleted, tested,    *)
(* their OAuth token refreshed. Every call loads the row, works on what it *)
(* read, and writes at its commit; other calls come between.               *)
(*                                                                         *)
(* Credentials are one encrypted blob. Of its content the model keeps the  *)
(* account they are for and the access token: which account's it is and    *)
(* how often it was renewed.                                               *)
(***************************************************************************)
EXTENDS Naturals, FiniteSets

CONSTANTS
    Conn,        \* rows that may come to be
    ConnCall,    \* requests
    Account,     \* accounts at the provider
    MaxRenewals

ASSUME ConnAssumption == MaxRenewals \in Nat

VARIABLES
    conn,        \* Conn -> the row, or NoConn
    gone,        \* rows deleted
    connCall     \* ConnCall -> what it does, what it read and how far it is

connVars == <<conn, gone, connCall>>

-----------------------------------------------------------------------------
NoConn == [provider |-> "none"]
Token == [of : Account, renewed : 0 .. MaxRenewals]
Blob == [account : Account, refreshable : BOOLEAN, token : Token]
Fresh(a, r) == [account |-> a, refreshable |-> r, token |-> [of |-> a, renewed |-> 0]]

(* A provider that is not in the list, and Google's with its api_key alone, *)
(* take credentials without a refresh token.                                *)
ConnProvider == {"GMAIL_OAUTH", "GOOGLE", "NOTION"}
Accepts(provider, blob) == provider = "GMAIL_OAUTH" => blob.refreshable

ConnRow == [provider : ConnProvider, owner : {"me", "other"}, blob : Blob]

NoCall == [op |-> "none", step |-> "idle"]

ConnInit ==
    /\ conn = [c \in Conn |-> NoConn] /\ gone = {}
    /\ connCall = [r \in ConnCall |-> NoCall]

Answer(r, code) == connCall' = [connCall EXCEPT ![r] = [op |-> @.op, step |-> code]]

-----------------------------------------------------------------------------
(* create_connection.                                                       *)
CreateConnection(r, c) ==
    /\ connCall[r].step = "idle" /\ conn[c] = NoConn /\ c \notin gone
    /\ \E p \in ConnProvider, o \in {"me", "other"}, a \in Account, f \in BOOLEAN :
         LET blob == Fresh(a, f) IN
           IF Accepts(p, blob)
           THEN /\ conn' = [conn EXCEPT ![c] = [provider |-> p, owner |-> o, blob |-> blob]]
                /\ connCall' = [connCall EXCEPT ![r] = [op |-> "create", step |-> "201"]]
           ELSE /\ connCall' = [connCall EXCEPT ![r] = [op |-> "create", step |-> "400"]]
                /\ UNCHANGED conn
    /\ UNCHANGED gone

(* The two steps of Google's OAuth call the service with arguments it does  *)
(* not have.                                                                *)
GoogleOAuth(r) ==
    /\ connCall[r].step = "idle"
    /\ \E op \in {"auth url", "callback"} :
         connCall' = [connCall EXCEPT ![r] =
           [op |-> op, step |-> IF op = "callback" THEN "400" ELSE "500"]]
    /\ UNCHANGED <<conn, gone>>

(* get_connection_or_404 at the start of each other call.                   *)
LoadConnection(r, c) ==
    /\ connCall[r].step = "idle"
    /\ \E op \in {"get", "put name", "put", "delete", "test", "refresh"} :
         connCall' = [connCall EXCEPT ![r] =
           IF conn[c] = NoConn THEN [op |-> op, step |-> "404"]
           ELSE IF conn[c].owner # "me" THEN [op |-> op, step |-> "403"]
           ELSE [op |-> op, step |-> "loaded", row |-> c, read |-> conn[c]]]
    /\ UNCHANGED <<conn, gone>>

Loaded(r, op) == connCall[r].step = "loaded" /\ connCall[r].op = op

(* What is only read: the stored credentials masked, or tried out.          *)
GetConnection(r) == Loaded(r, "get") /\ Answer(r, "200") /\ UNCHANGED <<conn, gone>>

TestConnection(r) ==
    /\ Loaded(r, "test") /\ \E outcome \in {"200", "invalid"} : Answer(r, outcome)
    /\ UNCHANGED <<conn, gone>>

(* An update finds its row by its key, or fails.                            *)
Update(r, blob) ==
    LET c == connCall[r].row IN
      IF conn[c] = NoConn THEN Answer(r, "500") /\ UNCHANGED conn
      ELSE conn' = [conn EXCEPT ![c] = [@ EXCEPT !.blob = blob]] /\ Answer(r, "200")

(* update_connection: the name alone, or the whole of the credentials.      *)
RenameConnection(r) ==
    /\ Loaded(r, "put name") /\ Answer(r, IF conn[connCall[r].row] = NoConn THEN "500" ELSE "200")
    /\ UNCHANGED <<conn, gone>>

ReplaceCredentials(r) ==
    /\ Loaded(r, "put")
    /\ \E a \in Account, f \in BOOLEAN :
         IF Accepts(connCall[r].read.provider, Fresh(a, f))
         THEN Update(r, Fresh(a, f))
         ELSE Answer(r, "400") /\ UNCHANGED conn
    /\ UNCHANGED gone

(* A delete of a row that is gone is none.                                  *)
DeleteConnection(r) ==
    /\ Loaded(r, "delete")
    /\ conn' = [conn EXCEPT ![connCall[r].row] = NoConn]
    /\ gone' = gone \cup {connCall[r].row} /\ Answer(r, "200")

-----------------------------------------------------------------------------
(* refresh_oauth_token. The provider answers for the account of the refresh *)
(* token that was read; the blob that was read goes back with its token.    *)
Refreshable(row) == row.provider \in {"GMAIL_OAUTH", "GOOGLE"} /\ row.blob.refreshable

Renewed(blob) == [of |-> blob.account, renewed |-> blob.token.renewed + 1]

RefreshedBlob_IntoStored(r) ==
    LET now == conn[connCall[r].row] IN
      [(IF now = NoConn THEN connCall[r].read ELSE now).blob EXCEPT !.token = Renewed(connCall[r].read.blob)]

RefreshedBlob(r) == [connCall[r].read.blob EXCEPT !.token = Renewed(connCall[r].read.blob)]

RefreshToken(r) ==
    /\ Loaded(r, "refresh") /\ UNCHANGED gone
    /\ \/ /\ Answer(r, "400") /\ UNCHANGED conn   \* refused, or not to be refreshed
       \/ /\ Refreshable(connCall[r].read) /\ connCall[r].read.blob.token.renewed < MaxRenewals
          /\ IF conn[connCall[r].row] = NoConn THEN Answer(r, "400") /\ UNCHANGED conn
             ELSE /\ conn' = [conn EXCEPT ![connCall[r].row] = [@ EXCEPT !.blob = RefreshedBlob(r)]]
                  /\ Answer(r, "200")

ConnNext ==
    \E r \in ConnCall :
        \/ \E c \in Conn : CreateConnection(r, c) \/ LoadConnection(r, c)
        \/ GoogleOAuth(r) \/ GetConnection(r) \/ TestConnection(r) \/ RenameConnection(r)
        \/ ReplaceCredentials(r) \/ DeleteConnection(r) \/ RefreshToken(r)

ConnSpec == ConnInit /\ [][ConnNext]_connVars

-----------------------------------------------------------------------------
ConnTypeOK ==
    /\ conn \in [Conn -> ConnRow \cup {NoConn}] /\ gone \subseteq Conn
    /\ \A r \in ConnCall : connCall[r].step \in
         {"idle", "loaded", "200", "201", "400", "403", "404", "500", "invalid"}

(* Whatever calls run at once: the token that is stored is one of the       *)
(* account whose refresh token is stored beside it, so a node never acts    *)
(* for one account and renews for another; a provider's required fields are *)
(* there; and a connection that was deleted does not come back.             *)
StoredCoherent ==
    \A c \in Conn :
        /\ conn[c] # NoConn => conn[c].blob.token.of = conn[c].blob.account
        /\ conn[c] # NoConn => Accepts(conn[c].provider, conn[c].blob)
        /\ c \in gone => conn[c] = NoConn
=============================================================================

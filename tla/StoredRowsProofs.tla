-------------------------- MODULE StoredRowsProofs --------------------------
(* Theorems about rows that a call reads, keeps while it waits and writes   *)
(* later: connections, the workflow API's users, the cache of embeddings,   *)
(* the tokens of an account's sessions; and the reports and lists that take *)
(* several queries. For any number of rows, calls, searches, browsers and   *)
(* executions.                                                              *)
EXTENDS ConnectionStore, WorkflowUsers, KnowledgeSearch, ExecutionReports, WorkflowLibrary,
        FiniteSetTheorems, SequenceTheorems, TLAPS

-----------------------------------------------------------------------------
Coherent(c) == c.blob.token.of = c.blob.account /\ Accepts(c.provider, c.blob)

(* What a call has read may be old, but it was coherent, and its row is     *)
(* either of the same provider still or has gone for good.                  *)
ReadSound(r) ==
    connCall[r].step = "loaded" =>
        /\ connCall[r].row \in Conn /\ connCall[r].read \in ConnRow
        /\ Coherent(connCall[r].read)
        /\ conn[connCall[r].row] = NoConn => connCall[r].row \in gone
        /\ conn[connCall[r].row] # NoConn =>
             conn[connCall[r].row].provider = connCall[r].read.provider

Stored ==
    /\ conn \in [Conn -> ConnRow \cup {NoConn}] /\ gone \subseteq Conn
    /\ \A c \in Conn : /\ conn[c] # NoConn => Coherent(conn[c])
                       /\ c \in gone => conn[c] = NoConn

Calls == connCall = [r \in ConnCall |-> connCall[r]]

ConnInv == Stored /\ Calls /\ \A r \in ConnCall : ReadSound(r)

LEMMA NoConnIsNone == \A c \in ConnRow : c # NoConn
BY DEF ConnRow, NoConn, ConnProvider

(* Credentials for an account as they come from a user, and as they are     *)
(* renewed, hold a token of that account.                                   *)
LEMMA FreshCoherent ==
    ASSUME NEW a \in Account, NEW f \in BOOLEAN
    PROVE  Fresh(a, f) \in Blob /\ Fresh(a, f).token.of = Fresh(a, f).account
BY ConnAssumption DEF Fresh, Blob, Token

LEMMA RenewedCoherent ==
    ASSUME NEW r \in ConnCall, connCall[r].read \in ConnRow,
           connCall[r].read.blob.token.renewed < MaxRenewals
    PROVE  /\ RefreshedBlob(r) \in Blob
           /\ RefreshedBlob(r).token.of = RefreshedBlob(r).account
           /\ RefreshedBlob(r).refreshable = connCall[r].read.blob.refreshable
<1> DEFINE b == connCall[r].read.blob
<1>1. b \in Blob
  BY DEF ConnRow
<1>2. b.token.renewed + 1 \in 0 .. MaxRenewals /\ b.account \in Account
  BY <1>1, ConnAssumption DEF Blob, Token
<1> HIDE DEF b
<1>3. Renewed(b) \in Token /\ Renewed(b).of = b.account
  BY <1>2 DEF Renewed, Token
<1>4. RefreshedBlob(r) = [b EXCEPT !.token = Renewed(b)]
  BY DEF RefreshedBlob, b
<1>5. /\ [b EXCEPT !.token = Renewed(b)] \in Blob
      /\ [b EXCEPT !.token = Renewed(b)].token = Renewed(b)
      /\ [b EXCEPT !.token = Renewed(b)].account = b.account
      /\ [b EXCEPT !.token = Renewed(b)].refreshable = b.refreshable
  BY <1>1, <1>3 DEF Blob
<1> QED
  BY <1>3, <1>4, <1>5 DEF b

(* An answer ends a call; the others keep what they have read.              *)
LEMMA AnswerKeeps ==
    ASSUME ConnInv, NEW r \in ConnCall, NEW code, code # "loaded", Answer(r, code),
           UNCHANGED <<conn, gone>>
    PROVE  ConnInv'
BY DEF ConnInv, Stored, Calls, ReadSound, Answer

(* A row that is written with coherent credentials of its own provider.     *)
LEMMA WriteKeeps ==
    ASSUME ConnInv, NEW r \in ConnCall, NEW c \in Conn, conn[c] # NoConn,
           NEW blob \in Blob, blob.token.of = blob.account, Accepts(conn[c].provider, blob),
           conn' = [conn EXCEPT ![c] = [@ EXCEPT !.blob = blob]],
           Answer(r, "200"), UNCHANGED gone
    PROVE  ConnInv'
<1> DEFINE new == [conn[c] EXCEPT !.blob = blob]
<1>1. conn[c] \in ConnRow
  BY DEF ConnInv, Stored
<1>2. new \in ConnRow /\ new.provider = conn[c].provider /\ new.blob = blob
  BY <1>1 DEF ConnRow
<1>3. new # NoConn /\ Coherent(new)
  BY <1>2, NoConnIsNone DEF Coherent
<1>4. conn' = [conn EXCEPT ![c] = new]
  OBVIOUS
<1> HIDE DEF new
<1>5. Stored'
  BY <1>2, <1>3, <1>4 DEF ConnInv, Stored
<1>6. \A q \in ConnCall : ReadSound(q)'
  <2> SUFFICES ASSUME NEW q \in ConnCall, (connCall[q].step = "loaded")' PROVE ReadSound(q)'
    BY DEF ReadSound
  <2>1. connCall[q] = connCall'[q] /\ connCall[q].step = "loaded"
    BY DEF Answer, ConnInv, Calls
  <2>2. ReadSound(q) /\ connCall[q].row \in Conn
    BY <2>1 DEF ConnInv, ReadSound
  <2>3. conn'[connCall[q].row] = IF connCall[q].row = c THEN new ELSE conn[connCall[q].row]
    BY <2>2, <1>4 DEF ConnInv, Stored
  <2> QED
    BY <2>1, <2>2, <2>3, <1>2, <1>3 DEF ReadSound
<1>7. Calls'
  BY DEF ConnInv, Calls, Answer
<1> QED
  BY <1>5, <1>6, <1>7 DEF ConnInv

LEMMA CreateKeeps ==
    ASSUME ConnInv, NEW r \in ConnCall, NEW c \in Conn, CreateConnection(r, c) PROVE ConnInv'
<1>1. PICK p \in ConnProvider, o \in {"me", "other"}, a \in Account, f \in BOOLEAN :
        LET blob == Fresh(a, f) IN
          IF Accepts(p, blob)
          THEN /\ conn' = [conn EXCEPT ![c] = [provider |-> p, owner |-> o, blob |-> blob]]
               /\ connCall' = [connCall EXCEPT ![r] = [op |-> "create", step |-> "201"]]
          ELSE /\ connCall' = [connCall EXCEPT ![r] = [op |-> "create", step |-> "400"]]
               /\ UNCHANGED conn
  BY DEF CreateConnection
<1>2. conn[c] = NoConn /\ c \notin gone /\ UNCHANGED gone
  BY DEF CreateConnection
<1> DEFINE new == [provider |-> p, owner |-> o, blob |-> Fresh(a, f)]
<1>3. new \in ConnRow /\ new.provider = p /\ new.blob = Fresh(a, f)
  BY FreshCoherent DEF ConnRow
<1>4. CASE Accepts(p, Fresh(a, f))
  <2>1. conn' = [conn EXCEPT ![c] = new]
    BY <1>1, <1>4
  <2>2. new # NoConn /\ Coherent(new)
    BY <1>3, <1>4, NoConnIsNone, FreshCoherent DEF Coherent
  <2>3. connCall' = [connCall EXCEPT ![r] = [op |-> "create", step |-> "201"]]
    BY <1>1, <1>4
  <2> HIDE DEF new
  <2>4. Stored'
    BY <2>1, <2>2, <1>2, <1>3 DEF ConnInv, Stored
  <2>5. \A q \in ConnCall : ReadSound(q)'
    BY <2>1, <2>3, <1>2 DEF ConnInv, Stored, Calls, ReadSound
  <2> QED
    BY <2>3, <2>4, <2>5 DEF ConnInv, Calls
<1>5. CASE ~Accepts(p, Fresh(a, f))
  <2>1. connCall' = [connCall EXCEPT ![r] = [op |-> "create", step |-> "400"]] /\ UNCHANGED conn
    BY <1>1, <1>5
  <2> QED
    BY <2>1, <1>2 DEF ConnInv, Stored, Calls, ReadSound
<1> QED
  BY <1>4, <1>5

(* What is loaded is what is stored.                                        *)
LEMMA LoadKeeps ==
    ASSUME ConnInv, NEW r \in ConnCall, NEW c \in Conn, LoadConnection(r, c) PROVE ConnInv'
<1>1. PICK op : connCall' = [connCall EXCEPT ![r] =
           IF conn[c] = NoConn THEN [op |-> op, step |-> "404"]
           ELSE IF conn[c].owner # "me" THEN [op |-> op, step |-> "403"]
           ELSE [op |-> op, step |-> "loaded", row |-> c, read |-> conn[c]]]
  BY DEF LoadConnection
<1>2. UNCHANGED <<conn, gone>>
  BY DEF LoadConnection
<1>3. CASE conn[c] = NoConn
  BY <1>1, <1>2, <1>3 DEF ConnInv, Stored, Calls, ReadSound
<1>4. CASE conn[c] # NoConn /\ conn[c].owner # "me"
  BY <1>1, <1>2, <1>4 DEF ConnInv, Stored, Calls, ReadSound
<1>5. CASE conn[c] # NoConn /\ conn[c].owner = "me"
  <2>1. connCall' = [connCall EXCEPT ![r] =
                       [op |-> op, step |-> "loaded", row |-> c, read |-> conn[c]]]
    BY <1>1, <1>5
  <2>2. conn[c] \in ConnRow /\ Coherent(conn[c])
    BY <1>5 DEF ConnInv, Stored
  <2> QED
    BY <1>2, <1>5, <2>1, <2>2 DEF ConnInv, Stored, Calls, ReadSound
<1> QED
  BY <1>3, <1>4, <1>5

(* New credentials are checked for the provider that was read, which is the *)
(* row's, and written where the row is still there.                         *)
LEMMA ReplaceKeeps ==
    ASSUME ConnInv, NEW r \in ConnCall, ReplaceCredentials(r) PROVE ConnInv'
<1> DEFINE c == connCall[r].row
<1>1. /\ c \in Conn /\ connCall[r].read \in ConnRow
      /\ conn[c] # NoConn => conn[c].provider = connCall[r].read.provider
  BY DEF ConnInv, ReadSound, ReplaceCredentials, Loaded
<1>2. PICK a \in Account, f \in BOOLEAN :
        IF Accepts(connCall[r].read.provider, Fresh(a, f))
        THEN Update(r, Fresh(a, f)) ELSE Answer(r, "400") /\ UNCHANGED conn
  BY DEF ReplaceCredentials
<1>3. UNCHANGED gone
  BY DEF ReplaceCredentials
<1>4. CASE Accepts(connCall[r].read.provider, Fresh(a, f)) /\ conn[c] # NoConn
  <2>1. conn' = [conn EXCEPT ![c] = [@ EXCEPT !.blob = Fresh(a, f)]] /\ Answer(r, "200")
    BY <1>2, <1>4 DEF Update
  <2> QED
    BY <1>1, <1>3, <1>4, <2>1, FreshCoherent, WriteKeeps
<1>5. CASE Accepts(connCall[r].read.provider, Fresh(a, f)) /\ conn[c] = NoConn
  <2>1. Answer(r, "500") /\ UNCHANGED conn
    BY <1>2, <1>5 DEF Update
  <2> QED
    BY <1>3, <2>1, AnswerKeeps
<1>6. CASE ~Accepts(connCall[r].read.provider, Fresh(a, f))
  <2>1. Answer(r, "400") /\ UNCHANGED conn
    BY <1>2, <1>6
  <2> QED
    BY <1>3, <2>1, AnswerKeeps
<1> QED
  BY <1>4, <1>5, <1>6

LEMMA DeleteKeeps ==
    ASSUME ConnInv, NEW r \in ConnCall, DeleteConnection(r) PROVE ConnInv'
<1> DEFINE c == connCall[r].row
<1>1. c \in Conn
  BY DEF ConnInv, ReadSound, DeleteConnection, Loaded
<1>2. conn' = [conn EXCEPT ![c] = NoConn] /\ gone' = gone \cup {c} /\ Answer(r, "200")
  BY DEF DeleteConnection
<1> HIDE DEF c
<1>3. Stored'
  BY <1>1, <1>2 DEF ConnInv, Stored
<1>4. \A q \in ConnCall : ReadSound(q)'
  BY <1>1, <1>2 DEF ConnInv, Stored, Calls, ReadSound, Answer
<1> QED
  BY <1>2, <1>3, <1>4 DEF ConnInv, Calls, Answer

(* The blob that was read goes back whole, over whatever was stored since:  *)
(* it is coherent by itself, token and refresh token being of one account.  *)
LEMMA RefreshKeeps ==
    ASSUME ConnInv, NEW r \in ConnCall, RefreshToken(r) PROVE ConnInv'
<1> DEFINE c == connCall[r].row
<1>1. /\ c \in Conn /\ connCall[r].read \in ConnRow /\ Coherent(connCall[r].read)
      /\ conn[c] # NoConn => conn[c].provider = connCall[r].read.provider
  BY DEF ConnInv, ReadSound, RefreshToken, Loaded
<1>2. UNCHANGED gone
  BY DEF RefreshToken
<1>3. CASE Answer(r, "400") /\ UNCHANGED conn
  BY <1>2, <1>3, AnswerKeeps
<1>4. CASE /\ connCall[r].read.blob.token.renewed < MaxRenewals
           /\ conn[c] # NoConn
           /\ conn' = [conn EXCEPT ![c] = [@ EXCEPT !.blob = RefreshedBlob(r)]]
           /\ Answer(r, "200")
  <2>1. Accepts(conn[c].provider, RefreshedBlob(r))
    BY <1>1, <1>4, RenewedCoherent DEF Accepts, Coherent
  <2> QED
    BY <1>1, <1>2, <1>4, <2>1, RenewedCoherent, WriteKeeps
<1> QED
  BY <1>3, <1>4 DEF RefreshToken

-----------------------------------------------------------------------------
LEMMA ConnInvariant == ConnSpec => []ConnInv
<1>1. ConnInit => ConnInv
  BY DEF ConnInit, ConnInv, Stored, Calls, ReadSound, NoCall
<1>2. ConnInv /\ [ConnNext]_connVars => ConnInv'
  <2> SUFFICES ASSUME ConnInv, [ConnNext]_connVars PROVE ConnInv'
    OBVIOUS
  <2>1. CASE UNCHANGED connVars
    BY <2>1 DEF connVars, ConnInv, Stored, Calls, ReadSound
  <2>2. ASSUME NEW r \in ConnCall, NEW c \in Conn, CreateConnection(r, c) PROVE ConnInv'
    BY <2>2, CreateKeeps
  <2>3. ASSUME NEW r \in ConnCall, NEW c \in Conn, LoadConnection(r, c) PROVE ConnInv'
    BY <2>3, LoadKeeps
  <2>4. ASSUME NEW r \in ConnCall, GoogleOAuth(r) PROVE ConnInv'
    <3>1. PICK op \in {"auth url", "callback"} : connCall' = [connCall EXCEPT ![r] =
                 [op |-> op, step |-> IF op = "callback" THEN "400" ELSE "500"]]
      BY <2>4 DEF GoogleOAuth
    <3> DEFINE code == IF op = "callback" THEN "400" ELSE "500"
    <3>2. code # "loaded" /\ connCall' = [connCall EXCEPT ![r] = [op |-> op, step |-> code]]
      BY <3>1
    <3> HIDE DEF code
    <3>3. UNCHANGED <<conn, gone>>
      BY <2>4 DEF GoogleOAuth
    <3> QED
      BY <3>2, <3>3 DEF ConnInv, Stored, Calls, ReadSound
  <2>5. ASSUME NEW r \in ConnCall, GetConnection(r) \/ TestConnection(r) \/ RenameConnection(r)
        PROVE  ConnInv'
    <3>1. /\ \E code \in {"200", "500", "invalid"} : Answer(r, code)
          /\ UNCHANGED <<conn, gone>>
      BY <2>5 DEF GetConnection, TestConnection, RenameConnection
    <3> QED
      BY <3>1, AnswerKeeps
  <2>6. ASSUME NEW r \in ConnCall, ReplaceCredentials(r) PROVE ConnInv'
    BY <2>6, ReplaceKeeps
  <2>7. ASSUME NEW r \in ConnCall, DeleteConnection(r) PROVE ConnInv'
    BY <2>7, DeleteKeeps
  <2>8. ASSUME NEW r \in ConnCall, RefreshToken(r) PROVE ConnInv'
    BY <2>8, RefreshKeeps
  <2> QED
    BY <2>1, <2>2, <2>3, <2>4, <2>5, <2>6, <2>7, <2>8 DEF ConnNext
<1> QED
  BY <1>1, <1>2, PTL DEF ConnSpec

(* Whatever calls run at once: a stored token is of the account whose       *)
(* refresh token is stored beside it, a provider's required fields are      *)
(* there, and a deleted connection does not come back.                      *)
THEOREM CredentialsCoherent == ConnSpec => []StoredCoherent
<1>1. ConnInv => StoredCoherent
  BY DEF ConnInv, Stored, Coherent, StoredCoherent
<1> QED
  BY <1>1, ConnInvariant, PTL

ConnStep == {"idle", "loaded", "200", "201", "400", "403", "404", "500", "invalid"}
ConnSteps == \A r \in ConnCall : connCall[r].step \in ConnStep

(* How far a call may be, whatever it does.                                 *)
LEMMA ConnTypes == ConnSpec => []ConnTypeOK
<1>1. ConnInit => ConnSteps
  BY DEF ConnInit, ConnSteps, ConnStep, NoCall
<1>2. ConnInv /\ ConnSteps /\ [ConnNext]_connVars => ConnSteps'
  <2> SUFFICES ASSUME ConnInv, ConnSteps, [ConnNext]_connVars PROVE ConnSteps'
    OBVIOUS
  <2>1. ASSUME NEW r \in ConnCall, NEW call, call.step \in ConnStep,
               connCall' = [connCall EXCEPT ![r] = call]
        PROVE  ConnSteps'
    BY <2>1 DEF ConnInv, Calls, ConnSteps
  <2>2. ASSUME NEW r \in ConnCall, NEW code \in ConnStep, Answer(r, code) PROVE ConnSteps'
    <3>1. connCall' = [connCall EXCEPT ![r] = [op |-> connCall[r].op, step |-> code]]
      BY <2>2 DEF Answer
    <3> QED
      BY <2>1, <3>1
  <2>3. CASE UNCHANGED connVars
    BY <2>3 DEF connVars, ConnSteps
  <2>4. ASSUME NEW r \in ConnCall, NEW c \in Conn, CreateConnection(r, c) PROVE ConnSteps'
    <3>1. PICK step \in {"201", "400"} :
            connCall' = [connCall EXCEPT ![r] = [op |-> "create", step |-> step]]
      BY <2>4 DEF CreateConnection
    <3>2. [op |-> "create", step |-> step].step \in ConnStep
      BY DEF ConnStep
    <3> QED
      BY <2>1, <3>1, <3>2
  <2>5. ASSUME NEW r \in ConnCall, NEW c \in Conn, LoadConnection(r, c) PROVE ConnSteps'
    <3>1. PICK op \in {"get", "put name", "put", "delete", "test", "refresh"} :
            connCall' = [connCall EXCEPT ![r] =
              IF conn[c] = NoConn THEN [op |-> op, step |-> "404"]
              ELSE IF conn[c].owner # "me" THEN [op |-> op, step |-> "403"]
              ELSE [op |-> op, step |-> "loaded", row |-> c, read |-> conn[c]]]
      BY <2>5 DEF LoadConnection
    <3>2. \/ connCall' = [connCall EXCEPT ![r] = [op |-> op, step |-> "404"]]
          \/ connCall' = [connCall EXCEPT ![r] = [op |-> op, step |-> "403"]]
          \/ connCall' = [connCall EXCEPT ![r] = [op |-> op, step |-> "loaded", row |-> c, read |-> conn[c]]]
      BY <3>1
    <3>3. \A code \in {"404", "403"} : [op |-> op, step |-> code].step \in ConnStep
      BY DEF ConnStep
    <3>4. [op |-> op, step |-> "loaded", row |-> c, read |-> conn[c]].step \in ConnStep
      BY DEF ConnStep
    <3> QED
      BY <2>1, <3>2, <3>3, <3>4
  <2>6. ASSUME NEW r \in ConnCall, GoogleOAuth(r) PROVE ConnSteps'
    <3>1. PICK op \in {"auth url", "callback"} : connCall' = [connCall EXCEPT ![r] =
                 [op |-> op, step |-> IF op = "callback" THEN "400" ELSE "500"]]
      BY <2>6 DEF GoogleOAuth
    <3> DEFINE code == IF op = "callback" THEN "400" ELSE "500"
    <3>2. code \in ConnStep /\ connCall' = [connCall EXCEPT ![r] = [op |-> op, step |-> code]]
      BY <3>1 DEF ConnStep
    <3> HIDE DEF code
    <3> QED
      BY <2>1, <3>2
  <2>7. ASSUME NEW r \in ConnCall,
               \/ GetConnection(r) \/ TestConnection(r) \/ RenameConnection(r)
               \/ ReplaceCredentials(r) \/ DeleteConnection(r) \/ RefreshToken(r)
        PROVE  ConnSteps'
    <3>1. \E code \in {"200", "500", "invalid", "400"} : Answer(r, code)
      BY <2>7 DEF GetConnection, TestConnection, RenameConnection, ReplaceCredentials, Update,
             DeleteConnection, RefreshToken
    <3> QED
      BY <2>2, <3>1 DEF ConnStep
  <2> QED
    BY <2>3, <2>4, <2>5, <2>6, <2>7 DEF ConnNext
<1>3. ConnInv /\ ConnSteps => ConnTypeOK
  BY DEF ConnInv, Stored, ConnSteps, ConnStep, ConnTypeOK
<1> QED
  BY <1>1, <1>2, <1>3, ConnInvariant, PTL DEF ConnSpec

-----------------------------------------------------------------------------
(* The workflow API's users. An email that was ever read of an account is   *)
(* the account's still or was given up, and no two accounts share one.      *)
MemberRow == [email : Email, active : BOOLEAN]

HisOrGivenUp(a, e) == account[a] \in MemberRow /\ (e = account[a].email \/ e \in givenUp)

AccountsApart ==
    /\ account \in [Member -> MemberRow \cup {NoAccount}]
    /\ \A a, b \in Member : account[a] \in MemberRow /\ account[a].email = account[b].email => a = b

MirrorTrue ==
    /\ mirror \in [Member -> MemberRow \cup {NoAccount}] /\ known \subseteq Member
    /\ \A a \in Member : mirror[a] \in MemberRow => mirror[a].active /\ HisOrGivenUp(a, mirror[a].email)
    /\ \A a, b \in Member : mirror[a] \in MemberRow /\ mirror[a].email = mirror[b].email => a = b
    /\ \A a \in known : mirror[a] \in MemberRow

MemberStep == {"loaded", "missing", "200", "401", "500"}

CallTrue(r) ==
    \/ memberCall[r] = NotCalling
    \/ /\ memberCall[r] \in [step : MemberStep, by : Member, read : MemberRow]
       /\ HisOrGivenUp(memberCall[r].by, memberCall[r].read.email)
       /\ memberCall[r].step \in {"loaded", "missing"} => memberCall[r].read.active
       /\ memberCall[r].step = "500" =>
            mirror[memberCall[r].by] \in MemberRow \/ memberCall[r].read.email \in givenUp

MembersInv ==
    /\ AccountsApart /\ MirrorTrue
    /\ memberCall = [r \in MemberCall |-> memberCall[r]]
    /\ \A r \in MemberCall : CallTrue(r)

LEMMA RowIsAccount == NoAccount \notin MemberRow /\ NoAccount.email \notin Email
BY MembersAssumption DEF MemberRow

(* What accounts do: emails stay apart, and what was read of one stays his  *)
(* or is given up now.                                                      *)
LEMMA AccountsKeep ==
    ASSUME MembersInv, NEW a \in Member,
           (\E e \in Email : SignUp(a, e) \/ ChangeEmail(a, e)) \/ Deactivate(a)
    PROVE  MembersInv'
<1>1. UNCHANGED <<mirror, memberCall, known>>
  BY DEF SignUp, ChangeEmail, Deactivate
<1> DEFINE Kept == /\ AccountsApart'
                   /\ \A b \in Member : \A x : HisOrGivenUp(b, x) => HisOrGivenUp(b, x)'
                   /\ givenUp \subseteq givenUp'
<1>2. Kept
  <2>1. ASSUME NEW e \in Email, SignUp(a, e) PROVE Kept
    <3>1. account' = [account EXCEPT ![a] = [email |-> e, active |-> TRUE]] /\ UNCHANGED givenUp
      BY <2>1 DEF SignUp
    <3>2. account[a] = NoAccount /\ \A b \in Member : account[b].email # e
      BY <2>1 DEF SignUp, Holds
    <3>3. [email |-> e, active |-> TRUE] \in MemberRow
      BY DEF MemberRow
    <3> QED
      BY <3>1, <3>2, <3>3, RowIsAccount DEF MembersInv, AccountsApart, HisOrGivenUp, MemberRow
  <2>2. ASSUME NEW e \in Email, ChangeEmail(a, e) PROVE Kept
    <3> DEFINE new == [account[a] EXCEPT !.email = e]
    <3>1. account[a] \in MemberRow /\ \A b \in Member : account[b].email # e
      BY <2>2 DEF ChangeEmail, Holds, MembersInv, AccountsApart, NoAccount
    <3>2. new \in MemberRow /\ new.email = e
      BY <3>1 DEF MemberRow
    <3>3. account' = [account EXCEPT ![a] = new] /\ givenUp' = givenUp \cup {account[a].email}
      BY <2>2 DEF ChangeEmail
    <3> HIDE DEF new
    <3> QED
      BY <3>1, <3>2, <3>3, RowIsAccount DEF MembersInv, AccountsApart, HisOrGivenUp, MemberRow
  <2>3. CASE Deactivate(a)
    <3> DEFINE new == [account[a] EXCEPT !.active = FALSE]
    <3>1. account[a] \in MemberRow
      BY <2>3 DEF Deactivate, MembersInv, AccountsApart, NoAccount
    <3>2. new \in MemberRow /\ new.email = account[a].email
      BY <3>1 DEF MemberRow
    <3>3. account' = [account EXCEPT ![a] = new] /\ UNCHANGED givenUp
      BY <2>3 DEF Deactivate
    <3> HIDE DEF new
    <3> QED
      BY <3>1, <3>2, <3>3, RowIsAccount DEF MembersInv, AccountsApart, HisOrGivenUp, MemberRow
  <2> QED
    BY <2>1, <2>2, <2>3
<1>3. MirrorTrue'
  BY <1>1, <1>2 DEF MembersInv, MirrorTrue
<1>4. \A r \in MemberCall : CallTrue(r)'
  <2> SUFFICES ASSUME NEW r \in MemberCall, memberCall[r] # NotCalling PROVE CallTrue(r)'
    BY <1>1 DEF CallTrue
  <2>1. CallTrue(r)
    BY DEF MembersInv
  <2>2. memberCall[r].by \in Member
    BY <2>1 DEF CallTrue
  <2> QED
    BY <1>1, <1>2, <2>1, <2>2 DEF CallTrue
<1> QED
  BY <1>1, <1>2, <1>3, <1>4 DEF MembersInv

(* A call loads an account as it is, and finds its row.                     *)
LEMMA LoadAccountKeeps ==
    ASSUME MembersInv, NEW r \in MemberCall, NEW a \in Member, LoadAccount(r, a)
    PROVE  MembersInv'
<1> DEFINE step == IF account[a].active THEN "loaded" ELSE "401"
           new == [step |-> step, by |-> a, read |-> account[a]]
<1>1. account[a] \in MemberRow /\ memberCall' = [memberCall EXCEPT ![r] = new]
  BY DEF LoadAccount, MembersInv, AccountsApart
<1>2. UNCHANGED <<account, mirror, givenUp, known>>
  BY DEF LoadAccount
<1>3. step \in MemberStep /\ step # "500" /\ (step \in {"loaded", "missing"} => account[a].active)
  BY DEF MemberStep
<1>4. /\ new \in [step : MemberStep, by : Member, read : MemberRow] /\ new # NotCalling
      /\ new.step = step /\ new.by = a /\ new.read = account[a]
  BY <1>1, <1>3 DEF NotCalling
<1> HIDE DEF new, step
<1>5. \A q \in MemberCall : CallTrue(q)'
  BY <1>1, <1>2, <1>3, <1>4 DEF MembersInv, CallTrue, HisOrGivenUp
<1> QED
  BY <1>1, <1>2, <1>5 DEF MembersInv, AccountsApart, MirrorTrue, HisOrGivenUp

(* A call moves on to what is true of it.                                   *)
LEMMA EndsKeeps ==
    ASSUME MembersInv, NEW r \in MemberCall, memberCall[r] # NotCalling, NEW code \in MemberStep,
           Ends(r, code), MirrorTrue', UNCHANGED <<account, givenUp>>,
           \A m \in Member : mirror[m] \in MemberRow => mirror'[m] \in MemberRow,
           code \in {"loaded", "missing"} => memberCall[r].step = "loaded",
           code = "500" => mirror'[memberCall[r].by] \in MemberRow
                           \/ memberCall[r].read.email \in givenUp
    PROVE  MembersInv'
<1> DEFINE new == [memberCall[r] EXCEPT !.step = code]
<1>1. memberCall[r] \in [step : MemberStep, by : Member, read : MemberRow] /\ CallTrue(r)
  BY DEF MembersInv, CallTrue
<1>2. /\ new \in [step : MemberStep, by : Member, read : MemberRow] /\ new # NotCalling
      /\ new.step = code /\ new.by = memberCall[r].by /\ new.read = memberCall[r].read
  BY <1>1 DEF NotCalling
<1>3. memberCall' = [memberCall EXCEPT ![r] = new]
  BY DEF Ends
<1> HIDE DEF new
<1>4. \A q \in MemberCall : memberCall'[q] = IF q = r THEN new ELSE memberCall[q]
  BY <1>3 DEF MembersInv
<1>5. CallTrue(r)'
  BY <1>1, <1>2, <1>4 DEF CallTrue, HisOrGivenUp, NotCalling
<1>6. ASSUME NEW q \in MemberCall, q # r PROVE CallTrue(q)'
  <2>1. memberCall'[q] = memberCall[q] /\ CallTrue(q)
    BY <1>4, <1>6 DEF MembersInv
  <2> QED
    BY <2>1 DEF CallTrue, HisOrGivenUp
<1> QED
  BY <1>3, <1>5, <1>6 DEF MembersInv, AccountsApart

LEMMA FindRowKeeps ==
    ASSUME MembersInv, NEW r \in MemberCall, FindRow(r) PROVE MembersInv'
<1> DEFINE a == memberCall[r].by
<1>1. memberCall[r].step = "loaded" /\ memberCall[r] # NotCalling /\ a \in Member
  BY DEF FindRow, MembersInv, CallTrue, NotCalling
<1>2. UNCHANGED <<account, mirror, givenUp>>
  BY DEF FindRow
<1>3. CASE mirror[a] = NoAccount
  <2>1. Ends(r, "missing") /\ UNCHANGED known
    BY <1>3 DEF FindRow
  <2>2. MirrorTrue'
    BY <1>2, <2>1 DEF MembersInv, MirrorTrue, HisOrGivenUp
  <2> QED
    BY <1>1, <1>2, <2>1, <2>2, EndsKeeps DEF MemberStep
<1>4. CASE mirror[a] # NoAccount
  <2>1. mirror[a] \in MemberRow /\ mirror[a].active
    BY <1>1, <1>4 DEF MembersInv, MirrorTrue
  <2>2. Ends(r, "200") /\ known' = known \cup {a}
    BY <1>4, <2>1 DEF FindRow, Serve
  <2>3. MirrorTrue'
    BY <1>1, <1>2, <2>1, <2>2 DEF MembersInv, MirrorTrue, HisOrGivenUp
  <2> QED
    BY <1>1, <1>2, <2>2, <2>3, EndsKeeps DEF MemberStep
<1> QED
  BY <1>3, <1>4

(* The row is added where nobody has its email; where somebody has, it is   *)
(* the account itself, or the email was given up.                           *)
LEMMA InsertRowKeeps ==
    ASSUME MembersInv, NEW r \in MemberCall, InsertRow(r) PROVE MembersInv'
<1> DEFINE a == memberCall[r].by
           read == memberCall[r].read
<1>1. /\ memberCall[r].step = "missing" /\ memberCall[r] # NotCalling
      /\ a \in Member /\ read \in MemberRow /\ read.active /\ HisOrGivenUp(a, read.email)
  BY DEF InsertRow, MembersInv, CallTrue, NotCalling
<1>2. UNCHANGED <<account, givenUp>>
  BY DEF InsertRow
<1>3. CASE mirror[a] # NoAccount \/ Holds(mirror, read.email)
  <2>1. Ends(r, "500") /\ UNCHANGED <<mirror, known>>
    BY <1>3 DEF InsertRow
  <2>2. MirrorTrue'
    BY <1>2, <2>1 DEF MembersInv, MirrorTrue, HisOrGivenUp
  <2>3. mirror[a] \in MemberRow \/ read.email \in givenUp
    <3>1. CASE mirror[a] # NoAccount
      BY <1>1, <3>1 DEF MembersInv, MirrorTrue
    <3>2. CASE Holds(mirror, read.email)
      <4>1. PICK m \in Member : mirror[m].email = read.email
        BY <3>2 DEF Holds
      <4>2. mirror[m] \in MemberRow
        BY <1>1, <4>1, RowIsAccount DEF MembersInv, MirrorTrue, MemberRow
      <4>3. HisOrGivenUp(m, read.email)
        BY <4>1, <4>2 DEF MembersInv, MirrorTrue
      <4> QED
        BY <1>1, <4>2, <4>3 DEF HisOrGivenUp, MembersInv, AccountsApart
    <3> QED
      BY <1>3, <3>1, <3>2
  <2> QED
    BY <1>1, <1>2, <2>1, <2>2, <2>3, EndsKeeps DEF MemberStep
<1>4. CASE mirror[a] = NoAccount /\ ~Holds(mirror, read.email)
  <2>1. mirror' = [mirror EXCEPT ![a] = read] /\ Ends(r, "200") /\ known' = known \cup {a}
    BY <1>1, <1>4 DEF InsertRow, Serve
  <2>2. \A m \in Member : mirror[m].email # read.email
    BY <1>4 DEF Holds
  <2> HIDE DEF a, read
  <2>3. MirrorTrue'
    BY <1>1, <1>2, <2>1, <2>2 DEF MembersInv, MirrorTrue, HisOrGivenUp
  <2>4. \A m \in Member : mirror[m] \in MemberRow => mirror'[m] \in MemberRow
    BY <1>1, <2>1 DEF MembersInv, MirrorTrue
  <2> QED
    BY <1>1, <1>2, <2>1, <2>3, <2>4, EndsKeeps DEF MemberStep, a, read
<1> QED
  BY <1>3, <1>4

LEMMA MembersInvariant == MembersSpec => []MembersInv
<1>1. MembersInit => MembersInv
  BY RowIsAccount DEF MembersInit, MembersInv, AccountsApart, MirrorTrue, CallTrue
<1>2. MembersInv /\ [MembersNext]_memberVars => MembersInv'
  <2> SUFFICES ASSUME MembersInv, [MembersNext]_memberVars PROVE MembersInv'
    OBVIOUS
  <2>1. CASE UNCHANGED memberVars
    BY <2>1 DEF memberVars, MembersInv, AccountsApart, MirrorTrue, CallTrue, HisOrGivenUp
  <2>2. ASSUME NEW a \in Member,
               (\E e \in Email : SignUp(a, e) \/ ChangeEmail(a, e)) \/ Deactivate(a)
        PROVE  MembersInv'
    BY <2>2, AccountsKeep
  <2>3. ASSUME NEW r \in MemberCall, NEW a \in Member, LoadAccount(r, a) PROVE MembersInv'
    BY <2>3, LoadAccountKeeps
  <2>4. ASSUME NEW r \in MemberCall, FindRow(r) PROVE MembersInv'
    BY <2>4, FindRowKeeps
  <2>5. ASSUME NEW r \in MemberCall, InsertRow(r) PROVE MembersInv'
    BY <2>5, InsertRowKeeps
  <2> QED
    BY <2>1, <2>2, <2>3, <2>4, <2>5 DEF MembersNext
<1> QED
  BY <1>1, <1>2, PTL DEF MembersSpec

(* An account that was served keeps its row, emails in the table are apart, *)
(* and a request fails only where another request of the account has just   *)
(* added the row, or where the email was somebody else's before.            *)
THEOREM RowOfOnesOwn == MembersSpec => []OwnRow
<1>1. MembersInv => OwnRow
  <2> SUFFICES ASSUME MembersInv PROVE OwnRow
    OBVIOUS
  <2>1. \A a \in known : mirror[a] # NoAccount
    BY RowIsAccount DEF MembersInv, MirrorTrue
  <2>2. \A a, b \in Member : mirror[a] # NoAccount /\ mirror[a].email = mirror[b].email => a = b
    BY DEF MembersInv, MirrorTrue
  <2>3. ASSUME NEW r \in MemberCall
        PROVE  /\ memberCall[r].step # "403"
               /\ memberCall[r].step = "500" =>
                    mirror[memberCall[r].by] # NoAccount \/ memberCall[r].read.email \in givenUp
    <3>1. CallTrue(r)
      BY DEF MembersInv
    <3> QED
      BY <3>1, RowIsAccount DEF CallTrue, NotCalling, MemberStep
  <2> QED
    BY <2>1, <2>2, <2>3 DEF OwnRow
<1> QED
  BY <1>1, MembersInvariant, PTL

(* What is left of the users' type: the emails that were given up, and how  *)
(* often one was changed.                                                   *)
LEMMA MembersTypes == MembersSpec => []MembersTypeOK
<1> DEFINE Moved == givenUp \subseteq Email /\ moves \in 0 .. MaxMoves
<1>1. MembersInit => Moved
  BY MembersAssumption DEF MembersInit
<1>2. MembersInv /\ Moved /\ [MembersNext]_memberVars => Moved'
  <2> SUFFICES ASSUME MembersInv, Moved, [MembersNext]_memberVars PROVE Moved'
    OBVIOUS
  <2>1. ASSUME NEW a \in Member, NEW e \in Email, ChangeEmail(a, e) PROVE Moved'
    <3>1. account[a] \in MemberRow
      <4>1. account[a] \in MemberRow \cup {NoAccount}
        BY DEF MembersInv, AccountsApart
      <4>2. account[a].active
        BY <2>1 DEF ChangeEmail
      <4> QED
        BY <4>1, <4>2 DEF NoAccount
    <3>2. account[a].email \in Email
      BY <3>1 DEF MemberRow
    <3> QED
      BY <2>1, <3>2, MembersAssumption DEF ChangeEmail
  <2>2. CASE UNCHANGED <<givenUp, moves>>
    BY <2>2
  <2> QED
    BY <2>1, <2>2 DEF MembersNext, memberVars, SignUp, Deactivate, LoadAccount, FindRow, InsertRow
<1>3. MembersInv /\ Moved => MembersTypeOK
  <2> SUFFICES ASSUME MembersInv, Moved PROVE MembersTypeOK
    OBVIOUS
  <2>1. ASSUME NEW r \in MemberCall
        PROVE  memberCall[r].step \in {"idle", "loaded", "missing", "200", "401", "403", "500"}
    BY DEF MembersInv, CallTrue, NotCalling, MemberStep
  <2> QED
    BY <2>1 DEF MembersInv, AccountsApart, MirrorTrue, MemberRow, MembersTypeOK
<1> QED
  BY <1>1, <1>2, <1>3, MembersInvariant, PTL DEF MembersSpec

-----------------------------------------------------------------------------
(* Searches. Every vector in the cache has a time of its making, and a      *)
(* search that looked answers with what was there.                          *)
SearchOf(s) ==
    /\ search[s].age \in Nat /\ (search[s].age < cache_ttl \/ search[s].age = 0)
    /\ search[s].found \subseteq {d \in Ingested : d[1] = SearchUser[s]}
    /\ search[s].step = "500" => s \in dbFailed

SearchStep == {"idle", "embed", "vector", "keyword", "answered", "500"}
SearchRecord == [step : SearchStep, age : Nat, found : SUBSET Ingested]

SearchInv ==
    /\ documents \subseteq Ingested /\ clock \in Nat
    /\ \A q \in DOMAIN cached : cached[q] \in 0 .. clock
    /\ search \in [Searcher -> SearchRecord] /\ \A s \in Searcher : SearchOf(s)

(* One search moves at a time; none is forgotten to have failed.            *)
LEMMA SearchMoves ==
    ASSUME SearchInv, NEW s \in Searcher, NEW r \in SearchRecord, Proceed(s, r),
           dbFailed \subseteq dbFailed',
           r.age < cache_ttl \/ r.age = 0,
           r.found \subseteq {d \in Ingested : d[1] = SearchUser[s]},
           r.step = "500" => s \in dbFailed'
    PROVE  (search \in [Searcher -> SearchRecord] /\ \A q \in Searcher : SearchOf(q))'
BY DEF SearchInv, SearchOf, Proceed, SearchRecord

LEMMA StepOfOne ==
    ASSUME SearchInv, NEW s \in Searcher,
           BeginSearch(s) \/ Embed(s) \/ VectorSearch(s) \/ KeywordSearch(s)
    PROVE  SearchInv'
<1>1. search[s] \in SearchRecord /\ SearchOf(s)
  BY DEF SearchInv
<1>2. {cache_ttl, cache_entries, MaxSearchTime} \subseteq Nat
  BY SearchAssumption
<1>3. CASE BeginSearch(s)
  <2> DEFINE q == QueryOf[s]
             fresh == [step |-> "vector", age |-> clock - cached[q], found |-> {}]
  <2>1. CASE Proceed(s, [Unsearched EXCEPT !.step = "answered"]) /\ UNCHANGED cached
    <3>1. [Unsearched EXCEPT !.step = "answered"] = [step |-> "answered", age |-> 0, found |-> {}]
      BY DEF Unsearched
    <3>2. UNCHANGED <<documents, clock, dbFailed>>
      BY <1>3 DEF BeginSearch
    <3> QED
      BY <2>1, <3>1, <3>2, SearchMoves DEF SearchInv, SearchRecord, SearchStep
  <2>2. CASE Proceed(s, [Unsearched EXCEPT !.step = "embed"]) /\ cached' = Without(cached, {q})
    <3>1. [Unsearched EXCEPT !.step = "embed"] = [step |-> "embed", age |-> 0, found |-> {}]
      BY DEF Unsearched
    <3>2. UNCHANGED <<documents, clock, dbFailed>>
      BY <1>3 DEF BeginSearch
    <3>3. \A p \in DOMAIN cached' : p \in DOMAIN cached /\ cached'[p] = cached[p]
      BY <2>2 DEF Without
    <3> QED
      BY <2>2, <3>1, <3>2, <3>3, SearchMoves DEF SearchInv, SearchRecord, SearchStep
  <2>3. CASE Proceed(s, fresh) /\ UNCHANGED cached /\ q \in DOMAIN cached /\ ~Expired(q)
    <3>1. clock - cached[q] \in Nat /\ clock - cached[q] < cache_ttl
      BY <1>2, <2>3 DEF SearchInv, Expired
    <3>2. UNCHANGED <<documents, clock, dbFailed>>
      BY <1>3 DEF BeginSearch
    <3>3. fresh \in SearchRecord /\ fresh.age = clock - cached[q] /\ fresh.found = {} /\ fresh.step = "vector"
      BY <3>1 DEF SearchRecord, SearchStep
    <3> HIDE DEF fresh
    <3> QED
      BY <2>3, <3>1, <3>2, <3>3, SearchMoves DEF SearchInv
  <2> QED
    BY <1>3, <2>1, <2>2, <2>3 DEF BeginSearch
<1>4. CASE Embed(s)
  <2> DEFINE vector == [search[s] EXCEPT !.step = "vector", !.age = 0]
             keyword == [search[s] EXCEPT !.step = "keyword"]
  <2>1. UNCHANGED <<documents, clock>>
    BY <1>4 DEF Embed
  <2>2. /\ vector \in SearchRecord /\ vector.age = 0 /\ vector.step = "vector"
        /\ vector.found = search[s].found
    BY <1>1 DEF SearchRecord, SearchStep
  <2>3. /\ keyword \in SearchRecord /\ keyword.age = search[s].age /\ keyword.step = "keyword"
        /\ keyword.found = search[s].found
    BY <1>1 DEF SearchRecord, SearchStep
  <2> HIDE DEF vector, keyword
  <2>4. CASE Proceed(s, vector) /\ cached' = With(Cleaned, QueryOf[s]) /\ UNCHANGED dbFailed
    <3>1. \A p \in DOMAIN Cleaned : p \in DOMAIN cached /\ Cleaned[p] = cached[p]
      BY DEF Cleaned, Without
    <3>2. \A p \in DOMAIN cached' : cached'[p] = clock \/ (p \in DOMAIN Cleaned /\ cached'[p] = Cleaned[p])
      BY <2>4 DEF With
    <3>3. \A p \in DOMAIN cached' : cached'[p] \in 0 .. clock
      BY <3>1, <3>2 DEF SearchInv
    <3> QED
      BY <1>1, <2>1, <2>2, <2>4, <3>3, SearchMoves DEF SearchInv, SearchOf
  <2>5. CASE Proceed(s, keyword) /\ UNCHANGED cached /\ dbFailed \subseteq dbFailed'
    BY <1>1, <2>1, <2>3, <2>5, SearchMoves DEF SearchInv, SearchOf
  <2> QED
    BY <1>4, <2>4, <2>5 DEF Embed, vector, keyword
<1>5. CASE VectorSearch(s) \/ KeywordSearch(s)
  <2>1. UNCHANGED <<documents, clock, cached>> /\ dbFailed \subseteq dbFailed'
    BY <1>5 DEF VectorSearch, KeywordSearch
  <2>2. PICK r : /\ Proceed(s, r)
                 /\ \/ r = [search[s] EXCEPT !.step = "keyword"]
                    \/ s \in dbFailed' /\ r = [search[s] EXCEPT !.step = "500"]
                    \/ \E hits \in SUBSET Own(s) : r = [search[s] EXCEPT !.step = "answered", !.found = hits]
    BY <1>5 DEF VectorSearch, KeywordSearch
  <2>3. CASE r = [search[s] EXCEPT !.step = "keyword"]
    <3>1. r \in SearchRecord /\ r.age = search[s].age /\ r.found = search[s].found /\ r.step = "keyword"
      BY <1>1, <2>3 DEF SearchRecord, SearchStep
    <3> QED
      BY <1>1, <2>1, <2>2, <3>1, SearchMoves DEF SearchInv, SearchOf
  <2>4. CASE s \in dbFailed' /\ r = [search[s] EXCEPT !.step = "500"]
    <3>1. r \in SearchRecord /\ r.age = search[s].age /\ r.found = search[s].found
      BY <1>1, <2>4 DEF SearchRecord, SearchStep
    <3> QED
      BY <1>1, <2>1, <2>2, <2>4, <3>1, SearchMoves DEF SearchInv, SearchOf
  <2>5. ASSUME NEW hits \in SUBSET Own(s),
               r = [search[s] EXCEPT !.step = "answered", !.found = hits]
        PROVE  SearchInv'
    <3>1. hits \subseteq {d \in Ingested : d[1] = SearchUser[s]}
      BY DEF Own, SearchInv
    <3>2. r \in SearchRecord /\ r.age = search[s].age /\ r.found = hits /\ r.step = "answered"
      BY <1>1, <2>5, <3>1 DEF SearchRecord, SearchStep
    <3> QED
      BY <1>1, <2>1, <2>2, <3>1, <3>2, SearchMoves DEF SearchInv, SearchOf
  <2> QED
    BY <2>2, <2>3, <2>4, <2>5
<1> QED
  BY <1>3, <1>4, <1>5

LEMMA SearchInvariant == SearchSpec => []SearchInv
<1>1. SearchInit => SearchInv
  BY SearchAssumption DEF SearchInit, SearchInv, SearchOf, SearchRecord, SearchStep, Unsearched
<1>2. SearchInv /\ [SearchNext]_searchVars => SearchInv'
  <2> SUFFICES ASSUME SearchInv, [SearchNext]_searchVars PROVE SearchInv'
    OBVIOUS
  <2>1. CASE UNCHANGED searchVars
    BY <2>1 DEF searchVars, SearchInv, SearchOf
  <2>2. CASE TickClock
    <3>1. clock' = clock + 1 /\ UNCHANGED <<documents, cached, search, dbFailed>>
      BY <2>2 DEF TickClock
    <3>2. \A q \in DOMAIN cached : cached[q] \in 0 .. clock + 1
      BY DEF SearchInv
    <3> QED
      BY <3>1, <3>2 DEF SearchInv, SearchOf
  <2>3. CASE BeginBulk \/ BulkStep \/ \E d \in Ingested : d \in documents /\ DeleteDocument(d)
    <3>1. documents' \subseteq documents /\ UNCHANGED <<cached, clock, search, dbFailed>>
      BY <2>3 DEF BeginBulk, BulkStep, DeleteDocument
    <3> QED
      BY <3>1 DEF SearchInv, SearchOf
  <2>4. ASSUME NEW s \in Searcher,
               BeginSearch(s) \/ Embed(s) \/ VectorSearch(s) \/ KeywordSearch(s)
        PROVE  SearchInv'
    BY <2>4, StepOfOne
  <2> QED
    BY <2>1, <2>2, <2>3, <2>4 DEF SearchNext
<1> QED
  BY <1>1, <1>2, PTL DEF SearchSpec

(* A search answers with the caller's documents alone; the vector it used,  *)
(* whoever's search made it, was within its time to live; and it fails only *)
(* where the database did.                                                  *)
THEOREM SearchIsGrounded == SearchSpec => []SearchGrounded
<1>1. SearchInv => SearchGrounded
  BY DEF SearchInv, SearchOf, SearchGrounded
<1> QED
  BY <1>1, SearchInvariant, PTL

(* What is left of the searches' type: the clock, what is in the cache, and *)
(* what a bulk deletion has before it.                                      *)
LEMMA SearchTypes == SearchSpec => []SearchTypeOK
<1> DEFINE Texts == {QueryOf[s] : s \in Searcher}
           Remainder == /\ clock \in 0 .. MaxSearchTime /\ DOMAIN cached \subseteq Texts
                        /\ bulk \in Seq(Ingested) /\ dbFailed \subseteq Searcher
<1>0. MaxSearchTime \in Nat
  BY SearchAssumption
<1>1. SearchInit => Remainder
  BY <1>0 DEF SearchInit
<1>2. SearchInv /\ Remainder /\ [SearchNext]_searchVars => Remainder'
  <2> SUFFICES ASSUME SearchInv, Remainder, [SearchNext]_searchVars PROVE Remainder'
    OBVIOUS
  <2>1. CASE UNCHANGED searchVars
    BY <2>1 DEF searchVars
  <2>2. CASE TickClock
    BY <1>0, <2>2 DEF TickClock
  <2>3. CASE BeginBulk
    <3>1. PICK d \in Ingested, e \in Ingested : bulk' = <<d, e>>
      BY <2>3 DEF BeginBulk
    <3> QED
      BY <2>3, <3>1 DEF BeginBulk
  <2>4. CASE BulkStep
    <3>1. bulk # <<>> /\ (bulk' = Tail(bulk) \/ bulk' = <<>>)
      BY <2>4 DEF BulkStep
    <3>2. Tail(bulk) \in Seq(Ingested) /\ <<>> \in Seq(Ingested)
      BY <3>1, HeadTailProperties
    <3>3. bulk' \in Seq(Ingested)
      BY <3>1, <3>2
    <3> QED
      BY <2>4, <3>3 DEF BulkStep
  <2>5. ASSUME NEW d \in Ingested, DeleteDocument(d) PROVE Remainder'
    BY <2>5 DEF DeleteDocument
  <2>6. ASSUME NEW s \in Searcher, BeginSearch(s) PROVE Remainder'
    <3>1. DOMAIN cached' \subseteq DOMAIN cached
      BY <2>6 DEF BeginSearch, Without
    <3> QED
      BY <2>6, <3>1 DEF BeginSearch
  <2>7. ASSUME NEW s \in Searcher, Embed(s) PROVE Remainder'
    <3>1. DOMAIN Cleaned \subseteq DOMAIN cached
      BY DEF Cleaned, Without
    <3>2. DOMAIN cached' \subseteq DOMAIN Cleaned \cup {QueryOf[s]} \/ cached' = cached
      BY <2>7 DEF Embed, With
    <3> QED
      BY <2>7, <3>1, <3>2 DEF Embed
  <2>8. ASSUME NEW s \in Searcher, VectorSearch(s) \/ KeywordSearch(s) PROVE Remainder'
    BY <2>8 DEF VectorSearch, KeywordSearch
  <2> QED
    BY <2>1, <2>2, <2>3, <2>4, <2>5, <2>6, <2>7, <2>8 DEF SearchNext
<1>3. SearchInv /\ Remainder => SearchTypeOK
  BY DEF SearchInv, SearchRecord, SearchStep, SearchTypeOK
<1> QED
  BY <1>1, <1>2, <1>3, SearchInvariant, PTL DEF SearchSpec

-----------------------------------------------------------------------------
Asking == {"sent", "refreshing", "found", "consumed", "handled"}

Asked == [step : Asking, by : Browser, op : Operation, access : BOOLEAN, refresh : TokenNumber,
          new : TokenNumber]
Answered == [step : {"answered"}, by : Browser, out : BOOLEAN, refresh : TokenNumber,
             cookies : 0 .. MaxTokens + 1]

(* A request that has a token for its answer; that has spent the one it was *)
(* sent with, and has another for it; or that will have.                    *)
Carries(r, n) ==
    \/ web[r].step \in Asking /\ web[r].new = n
    \/ At(r, "answered") /\ web[r].cookies = n

Spent(r) ==
    \/ At(r, "consumed")
    \/ At(r, "handled") /\ web[r].new # 0
    \/ At(r, "answered") /\ web[r].cookies \in 1 .. MaxTokens

(* A token on its way is good, and nobody else has it or was sent with it.  *)
Unseen(r, n) ==
    /\ n \in tokens \cup stranded
    /\ \A b \in Browser : jar[b].refresh # n
    /\ \A s \in WebRequest : ~At(s, "none") => web[s].refresh # n
    /\ \A s \in WebRequest : Carries(s, n) => s = r

Awaited(b, n) == \E r \in WebRequest : Spent(r) /\ web[r].by = b /\ web[r].refresh = n

SessionTypes ==
    /\ withDomain \in BOOLEAN
    /\ jar \in [Browser -> [access : BOOLEAN, refresh : TokenNumber]]
    /\ issued \in TokenNumber /\ tokens \subseteq 1 .. issued /\ stranded \subseteq 0 .. issued
    /\ spoilt \in 0 .. MaxSessionFaults
    /\ web \in [WebRequest -> Asked \cup Answered \cup {NoRequest}]

(* How far a request can have come with which token.                        *)
Course(r) ==
    /\ ~At(r, "none") => web[r].refresh <= issued
    /\ web[r].step \in {"refreshing", "found", "consumed"} =>
         web[r].refresh # 0 /\ (web[r].op \in Public => web[r].op = "renew")
    /\ web[r].step \in Asking \ {"handled"} => web[r].new = 0
    /\ At(r, "handled") /\ web[r].op \in Public => web[r].new = 0
    /\ At(r, "answered") /\ web[r].out =>
         web[r].cookies # Keep /\ (spoilt = 0 => web[r].cookies \notin tokens)
    /\ \A n \in 1 .. MaxTokens : Carries(r, n) => Unseen(r, n)
    /\ \A b \in Browser :
         ~At(r, "none") /\ web[r].refresh = jar[b].refresh /\ jar[b].refresh # 0 => web[r].by = b

Holding(b) ==
    /\ jar[b].refresh <= issued
    /\ \A c \in Browser : jar[b].refresh = jar[c].refresh /\ jar[b].refresh # 0 => b = c
    /\ jar[b].refresh \in tokens \cup stranded \cup {0} \/ Awaited(b, jar[b].refresh)
    /\ b \in leftBy /\ spoilt = 0 /\ ~withDomain => jar[b].refresh \notin tokens

SessionInv ==
    /\ SessionTypes
    /\ \A r \in WebRequest : Course(r)
    /\ \A b \in Browser : Holding(b)

-----------------------------------------------------------------------------
LEMMA Shapes ==
    ASSUME SessionTypes, NEW r \in WebRequest
    PROVE  /\ web[r].step \in Asking \/ At(r, "answered") \/ At(r, "none")
           /\ web[r].step \in Asking => web[r] \in Asked
           /\ At(r, "answered") => web[r] \in Answered
           /\ At(r, "none") => web[r] = NoRequest
<1>1. web[r] \in Asked \/ web[r] \in Answered \/ web[r] = NoRequest
  BY DEF SessionTypes
<1>2. web[r] \in Asked => web[r].step \in Asking
  BY DEF Asked
<1>3. web[r] \in Answered => web[r].step = "answered"
  BY DEF Answered
<1>4. NoRequest.step = "none"
  BY DEF NoRequest
<1> QED
  BY <1>1, <1>2, <1>3, <1>4 DEF At, Asking

LEMMA GotoMoves ==
    ASSUME SessionTypes, NEW r \in WebRequest, web[r] \in Asked, NEW step \in Asking, Goto(r, step)
    PROVE  /\ web' \in [WebRequest -> Asked \cup Answered \cup {NoRequest}]
           /\ \A s \in WebRequest : s # r => web'[s] = web[s]
           /\ web'[r].step = step /\ web'[r].by = web[r].by /\ web'[r].refresh = web[r].refresh
           /\ web'[r].op = web[r].op /\ web'[r].new = web[r].new
<1> DEFINE w1 == [web[r] EXCEPT !.step = step]
           w == [w1 EXCEPT !.access = FALSE]
<1>1. w1 \in Asked /\ w1.by = web[r].by /\ w1.refresh = web[r].refresh /\ w1.op = web[r].op
      /\ w1.new = web[r].new /\ w1.step = step
  BY DEF Asked
<1>2. w \in Asked /\ w.by = w1.by /\ w.refresh = w1.refresh /\ w.op = w1.op /\ w.new = w1.new
      /\ w.step = w1.step
  BY <1>1 DEF Asked
<1>3. web' = [web EXCEPT ![r] = w]
  BY DEF Goto
<1> HIDE DEF w1, w
<1>4. web'[r] = w /\ \A s \in WebRequest : s # r => web'[s] = web[s]
  BY <1>3 DEF SessionTypes
<1>5. web' \in [WebRequest -> Asked \cup Answered \cup {NoRequest}]
  BY <1>2, <1>3 DEF SessionTypes
<1> QED
  BY <1>1, <1>2, <1>4, <1>5

LEMMA ReplyMoves ==
    ASSUME SessionTypes, NEW r \in WebRequest, web[r] \in Asked, NEW cookies \in 0 .. MaxTokens + 1,
           Reply(r, cookies)
    PROVE  /\ web' \in [WebRequest -> Asked \cup Answered \cup {NoRequest}]
           /\ \A s \in WebRequest : s # r => web'[s] = web[s]
           /\ web'[r].step = "answered" /\ web'[r].by = web[r].by /\ web'[r].refresh = web[r].refresh
           /\ web'[r].cookies = cookies /\ (web'[r].out <=> web[r].op = "logout" /\ At(r, "handled"))
<1> DEFINE out == web[r].op = "logout" /\ At(r, "handled")
           w == [step |-> "answered", by |-> web[r].by, out |-> out, refresh |-> web[r].refresh,
                 cookies |-> cookies]
<1>1. out \in BOOLEAN
  OBVIOUS
<1>2. web[r].by \in Browser /\ web[r].refresh \in TokenNumber
  BY DEF Asked
<1>3. web' = [web EXCEPT ![r] = w]
  BY DEF Reply
<1> HIDE DEF out
<1>4. w \in Answered
  BY <1>1, <1>2 DEF Answered
<1>5. w.step = "answered" /\ w.by = web[r].by /\ w.refresh = web[r].refresh /\ w.cookies = cookies /\ w.out = out
  OBVIOUS
<1> HIDE DEF w
<1>6. web'[r] = w /\ \A s \in WebRequest : s # r => web'[s] = web[s]
  BY <1>3 DEF SessionTypes
<1>7. web' \in [WebRequest -> Asked \cup Answered \cup {NoRequest}]
  BY <1>3, <1>4 DEF SessionTypes
<1>8. web'[r].out <=> out
  BY <1>1, <1>5, <1>6
<1> QED
  BY <1>5, <1>6, <1>7, <1>8 DEF out

-----------------------------------------------------------------------------
(* What a request does between its sending and its answer, as far as tokens *)
(* are concerned: the one it was sent with may go, if it has another or the *)
(* prospect of one; what it carries it carried, or it was issued just now.  *)
Proceeds(r) ==
    /\ UNCHANGED <<withDomain, jar, leftBy>>
    /\ \A s \in WebRequest : s # r => web'[s] = web[s]
    /\ ~At(r, "none") /\ web'[r].step # "none"
    /\ web'[r].by = web[r].by /\ web'[r].refresh = web[r].refresh
    /\ issued' = issued \/ issued' = issued + 1
    /\ tokens' \subseteq tokens \cup (issued + 1 .. issued') /\ issued + 1 .. issued' \subseteq tokens'
    /\ stranded \subseteq stranded' /\ (spoilt' = 0 => spoilt = 0)
    /\ tokens \subseteq tokens' \cup stranded' \cup (IF Spent(r)' THEN {web[r].refresh} ELSE {})
    /\ Spent(r) => Spent(r)' \/ web[r].refresh \in stranded'
    /\ \A n \in 1 .. MaxTokens : Carries(r, n)' => Carries(r, n) \/ n \in issued + 1 .. issued'

LEMMA ProceedsKeeps ==
    ASSUME SessionInv, SessionTypes', NEW r \in WebRequest, Proceeds(r),
           /\ web'[r].step \in {"refreshing", "found", "consumed"} =>
                web'[r].refresh # 0 /\ (web'[r].op \in Public => web'[r].op = "renew")
           /\ web'[r].step \in Asking \ {"handled"} => web'[r].new = 0
           /\ web'[r].step = "handled" /\ web'[r].op \in Public => web'[r].new = 0
           /\ web'[r].step = "answered" /\ web'[r].out =>
                web'[r].cookies # Keep /\ (spoilt' = 0 => web'[r].cookies \notin tokens')
    PROVE  SessionInv'
<1>1. SessionTypes /\ (\A s \in WebRequest : Course(s)) /\ (\A b \in Browser : Holding(b))
  BY DEF SessionInv
<1>2. issued \in 0 .. MaxTokens /\ issued' \in 0 .. MaxTokens /\ MaxTokens \in Nat /\ issued <= issued'
      /\ tokens \subseteq 1 .. issued /\ stranded \subseteq 0 .. issued
      /\ tokens' \subseteq 1 .. issued' /\ stranded' \subseteq 0 .. issued'
  BY <1>1, SessionsAssumption DEF SessionTypes, TokenNumber, Proceeds
<1>3. ASSUME NEW s \in WebRequest
      PROVE  /\ web'[s].step = "none" <=> web[s].step = "none"
             /\ web[s].step # "none" => web'[s].by = web[s].by /\ web'[s].refresh = web[s].refresh
             /\ s # r => web'[s] = web[s]
  BY DEF Proceeds, At
<1>4. ASSUME NEW s \in WebRequest, NEW n \in 1 .. MaxTokens, Carries(s, n)'
      PROVE  (Carries(s, n) /\ n <= issued) \/ (s = r /\ n \in issued + 1 .. issued')
  <2>1. Carries(s, n) \/ (s = r /\ n \in issued + 1 .. issued')
    BY <1>3, <1>4 DEF Proceeds, Carries, At
  <2>2. Carries(s, n) => n \in tokens \cup stranded
    BY <1>1 DEF Course, Unseen
  <2> QED
    BY <1>2, <2>1, <2>2
<1>5. ASSUME NEW b \in Browser
      PROVE  jar'[b] = jar[b] /\ jar[b].refresh \in Nat /\ jar[b].refresh <= issued
  BY <1>1 DEF Proceeds, Holding, SessionTypes, TokenNumber
<1>6. ASSUME NEW s \in WebRequest, web[s].step # "none"
      PROVE  web[s].refresh \in Nat /\ web[s].refresh <= issued
  <2>1. web[s] \in Asked \/ web[s] \in Answered
    BY <1>1, <1>6, Shapes DEF At
  <2>2. web[s].refresh \in Nat
    BY <2>1 DEF Asked, Answered, TokenNumber
  <2> QED
    BY <1>1, <1>6, <2>2 DEF Course, At
<1>7. ASSUME NEW s \in WebRequest, NEW n \in 1 .. MaxTokens, Carries(s, n)'
      PROVE  Unseen(s, n)'
  <2>1. CASE Carries(s, n) /\ n <= issued
    <3>1. Unseen(s, n)
      BY <1>1, <2>1 DEF Course
    <3>2. n # web[r].refresh
      BY <3>1 DEF Unseen, Proceeds
    <3>3. n \in tokens' \cup stranded'
      BY <3>1, <3>2 DEF Unseen, Proceeds
    <3>4. \A b \in Browser : jar'[b].refresh # n
      BY <1>5, <3>1 DEF Unseen
    <3>5. \A t \in WebRequest : web'[t].step # "none" => web'[t].refresh # n
      BY <1>3, <3>1 DEF Unseen, At
    <3>6. ASSUME NEW t \in WebRequest, Carries(t, n)' PROVE t = s
      BY <1>2, <1>4, <2>1, <3>1, <3>6 DEF Unseen
    <3> QED
      BY <3>3, <3>4, <3>5, <3>6 DEF Unseen, At
  <2>2. CASE s = r /\ n \in issued + 1 .. issued'
    <3>1. n \in tokens' /\ n > issued
      BY <1>2, <2>2 DEF Proceeds
    <3>2. \A b \in Browser : jar'[b].refresh # n
      BY <1>2, <1>5, <3>1
    <3>3. \A t \in WebRequest : web'[t].step # "none" => web'[t].refresh # n
      BY <1>2, <1>3, <1>6, <3>1
    <3>4. ASSUME NEW t \in WebRequest, Carries(t, n)' PROVE t = s
      BY <1>2, <1>4, <2>2, <3>1, <3>4
    <3> QED
      BY <3>1, <3>2, <3>3, <3>4 DEF Unseen, At
  <2> QED
    BY <1>4, <1>7, <2>1, <2>2
<1>8. ASSUME NEW s \in WebRequest
      PROVE  Course(s)'
  <2>1. web'[s].step # "none" => web'[s].refresh <= issued'
    BY <1>2, <1>3, <1>6
  <2>2. ASSUME NEW b \in Browser, web'[s].step # "none", web'[s].refresh = jar'[b].refresh, jar'[b].refresh # 0
        PROVE  web'[s].by = b
    BY <1>1, <1>3, <1>5, <2>2 DEF Course, At
  <2>3. /\ web'[s].step \in {"refreshing", "found", "consumed"} =>
             web'[s].refresh # 0 /\ (web'[s].op \in Public => web'[s].op = "renew")
        /\ web'[s].step \in Asking \ {"handled"} => web'[s].new = 0
        /\ web'[s].step = "handled" /\ web'[s].op \in Public => web'[s].new = 0
    BY <1>1, <1>3 DEF Course, At
  <2>4. ASSUME web'[s].step = "answered", web'[s].out
        PROVE  web'[s].cookies # Keep /\ (spoilt' = 0 => web'[s].cookies \notin tokens')
    <3>1. CASE s = r
      BY <2>4, <3>1
    <3>2. CASE s # r
      <4>1. web'[s] = web[s]
        BY <1>3, <3>2
      <4>2. web[s].cookies # Keep /\ (spoilt = 0 => web[s].cookies \notin tokens)
        BY <1>1, <2>4, <4>1 DEF Course, At
      <4>3. SUFFICES ASSUME web[s].cookies \in issued + 1 .. issued' PROVE FALSE
        BY <4>1, <4>2 DEF Proceeds
      <4>4. web[s].cookies \in 1 .. MaxTokens /\ Carries(s, web[s].cookies)
        BY <1>2, <2>4, <4>1, <4>3 DEF Carries, At
      <4>5. web[s].cookies \in tokens \cup stranded
        BY <1>1, <4>4 DEF Course, Unseen
      <4> QED
        BY <1>2, <4>3, <4>5
    <3> QED
      BY <3>1, <3>2
  <2> QED
    BY <1>7, <2>1, <2>2, <2>3, <2>4 DEF Course, At
<1>9. ASSUME NEW b \in Browser
      PROVE  Holding(b)'
  <2>1. Holding(b)
    BY <1>1
  <2>2. jar'[b].refresh \in tokens' \cup stranded' \cup {0} \/ Awaited(b, jar[b].refresh)'
    <3>1. CASE jar[b].refresh = 0
      BY <1>5, <3>1
    <3>2. CASE jar[b].refresh # 0 /\ jar[b].refresh \in tokens \cup stranded
      <4>1. CASE jar[b].refresh \in tokens' \cup stranded'
        BY <1>5, <4>1
      <4>2. CASE Spent(r)' /\ jar[b].refresh = web[r].refresh
        <5>1. web[r].by = b
          BY <1>1, <3>2, <4>2 DEF Course, Proceeds
        <5> QED
          BY <4>2, <5>1 DEF Awaited, Proceeds
      <4> QED
        BY <3>2, <4>1, <4>2 DEF Proceeds
    <3>3. CASE Awaited(b, jar[b].refresh)
      <4>1. PICK s \in WebRequest : Spent(s) /\ web[s].by = b /\ web[s].refresh = jar[b].refresh
        BY <3>3 DEF Awaited
      <4>2. web[s].step # "none"
        BY <4>1 DEF Spent, At
      <4>3. Spent(s)' \/ (s = r /\ web[r].refresh \in stranded')
        BY <1>3, <4>1 DEF Proceeds, Spent, At
      <4> QED
        BY <1>3, <1>5, <4>1, <4>2, <4>3 DEF Awaited
    <3> QED
      BY <2>1, <3>1, <3>2, <3>3 DEF Holding
  <2>3. b \in leftBy' /\ spoilt' = 0 /\ ~withDomain' => jar'[b].refresh \notin tokens'
    <3> SUFFICES ASSUME b \in leftBy', spoilt' = 0, ~withDomain', jar'[b].refresh \in tokens' PROVE FALSE
      OBVIOUS
    <3>1. jar[b].refresh \notin tokens
      BY <2>1 DEF Holding, Proceeds
    <3> QED
      BY <1>2, <1>5, <3>1 DEF Proceeds
  <2>4. \A c \in Browser : jar'[b].refresh = jar'[c].refresh /\ jar'[b].refresh # 0 => b = c
    BY <1>5, <2>1 DEF Holding
  <2>5. jar'[b].refresh <= issued'
    BY <1>2, <1>5
  <2> QED
    BY <1>5, <2>2, <2>3, <2>4, <2>5 DEF Holding, Awaited
<1> QED
  BY <1>8, <1>9 DEF SessionInv

-----------------------------------------------------------------------------
(* The steps that are of this kind.                                         *)
LEMMA Asking_Asked ==
    ASSUME SessionInv, NEW r \in WebRequest, web[r].step \in Asking
    PROVE  /\ SessionTypes /\ Course(r) /\ web[r] \in Asked /\ ~At(r, "none") /\ ~At(r, "answered")
           /\ web[r].new \in 0 .. MaxTokens /\ web[r].new \in 0 .. MaxTokens + 1
           /\ web[r].refresh \in 0 .. issued
           /\ MaxTokens \in Nat
           /\ web[r].new # 0 => Carries(r, web[r].new) /\ web[r].new \in tokens \cup stranded
<1>1. SessionTypes /\ Course(r) /\ web[r] \in Asked
  BY Shapes DEF SessionInv
<1>2. web[r].new \in 0 .. MaxTokens /\ web[r].refresh \in 0 .. MaxTokens /\ MaxTokens \in Nat
  BY <1>1, SessionsAssumption DEF Asked, TokenNumber
<1>3. Carries(r, web[r].new)
  BY DEF Carries
<1>4. web[r].new # 0 => web[r].new \in tokens \cup stranded
  BY <1>1, <1>2, <1>3 DEF Course, Unseen
<1>5. ~At(r, "none") /\ ~At(r, "answered")
  BY DEF At, Asking
<1>6. web[r].refresh <= issued
  BY <1>1, <1>5 DEF Course
<1>7. issued \in 0 .. MaxTokens
  BY <1>1 DEF SessionTypes, TokenNumber
<1> QED
  BY <1>1, <1>2, <1>3, <1>4, <1>5, <1>6, <1>7

(* From one step to the next with the same tokens.                          *)
LEMMA GoesOn ==
    ASSUME SessionInv, NEW r \in WebRequest, web[r].step \in Asking \ {"consumed"}, web[r].new = 0,
           NEW step \in {"refreshing", "found", "handled"}, Goto(r, step),
           step \in {"refreshing", "found"} =>
               web[r].refresh # 0 /\ (web[r].op \in Public => web[r].op = "renew"),
           UNCHANGED <<tokens, issued, withDomain, jar, leftBy, active, stranded, spoilt>>
    PROVE  SessionInv'
<1>1. SessionTypes /\ web[r] \in Asked /\ ~At(r, "none") /\ ~At(r, "answered")
  BY Asking_Asked
<1>2. /\ web' \in [WebRequest -> Asked \cup Answered \cup {NoRequest}]
      /\ \A s \in WebRequest : s # r => web'[s] = web[s]
      /\ web'[r].step = step /\ web'[r].by = web[r].by /\ web'[r].refresh = web[r].refresh
      /\ web'[r].op = web[r].op /\ web'[r].new = web[r].new
  BY <1>1, GotoMoves DEF Asking
<1>3. SessionTypes'
  BY <1>1, <1>2 DEF SessionTypes
<1>4. ~Spent(r)
  BY <1>1 DEF Spent, At
<1>5. issued + 1 .. issued' = {}
  BY <1>1 DEF SessionTypes, TokenNumber
<1>6. \A n \in 1 .. MaxTokens : ~Carries(r, n)'
  BY <1>2 DEF Carries, At, Asking
<1>7. Proceeds(r)
  BY <1>1, <1>2, <1>4, <1>5, <1>6 DEF Proceeds, At
<1> QED
  BY <1>2, <1>3, <1>7, ProceedsKeeps

(* An answer without a token that was issued just now.                      *)
LEMMA IsAnswered ==
    ASSUME SessionInv, NEW r \in WebRequest, web[r].step \in Asking,
           NEW cookies \in {Clear, Keep, web[r].new}, Reply(r, cookies),
           UNCHANGED <<withDomain, jar, leftBy, issued>>,
           tokens' \subseteq tokens, tokens \subseteq tokens' \cup stranded',
           stranded \subseteq stranded', stranded' \subseteq 0 .. issued,
           spoilt' \in 0 .. MaxSessionFaults, spoilt' = 0 => spoilt = 0,
           Spent(r) => (cookies = web[r].new /\ web[r].new # 0) \/ web[r].refresh \in stranded',
           web[r].op = "logout" /\ At(r, "handled") =>
               cookies # Keep /\ (spoilt' = 0 => cookies \notin tokens')
    PROVE  SessionInv'
<1>1. /\ SessionTypes /\ web[r] \in Asked /\ ~At(r, "none") /\ ~At(r, "answered") /\ MaxTokens \in Nat
      /\ web[r].new \in 0 .. MaxTokens /\ (web[r].new # 0 => Carries(r, web[r].new))
  BY Asking_Asked
<1>2. cookies \in 0 .. MaxTokens + 1
  BY <1>1 DEF Clear, Keep
<1>3. /\ web' \in [WebRequest -> Asked \cup Answered \cup {NoRequest}]
      /\ \A s \in WebRequest : s # r => web'[s] = web[s]
      /\ web'[r].step = "answered" /\ web'[r].by = web[r].by /\ web'[r].refresh = web[r].refresh
      /\ web'[r].cookies = cookies /\ (web'[r].out <=> web[r].op = "logout" /\ At(r, "handled"))
  BY <1>1, <1>2, ReplyMoves
<1>4. SessionTypes'
  BY <1>1, <1>3 DEF SessionTypes
<1>5. issued + 1 .. issued' = {}
  BY <1>1 DEF SessionTypes, TokenNumber
<1>6. ASSUME NEW n \in 1 .. MaxTokens, Carries(r, n)' PROVE Carries(r, n)
  <2>1. n = cookies
    BY <1>3, <1>6 DEF Carries, At, Asking
  <2>2. n = web[r].new /\ n # 0
    BY <1>1, <2>1 DEF Clear, Keep
  <2> QED
    BY <1>1, <2>2
<1>7. Spent(r) => Spent(r)' \/ web[r].refresh \in stranded'
  BY <1>1, <1>3 DEF Spent, At
<1>8. Proceeds(r)
  BY <1>1, <1>3, <1>5, <1>6, <1>7 DEF Proceeds, At
<1> QED
  BY <1>3, <1>4, <1>8, ProceedsKeeps DEF At, Asking

LEMMA AuthenticateKeeps ==
    ASSUME SessionInv, NEW r \in WebRequest, Authenticate(r)
    PROVE  SessionInv'
<1>1. /\ At(r, "sent") /\ web[r].step \in Asking /\ web[r].step # "consumed" /\ ~At(r, "handled")
      /\ UNCHANGED <<tokens, issued, withDomain, jar, leftBy, active, stranded, spoilt>>
  BY DEF Authenticate, At, Asking, Table, Rest
<1>2. SessionTypes /\ Course(r) /\ ~At(r, "answered")
  BY <1>1, Asking_Asked
<1>3. web[r].new = 0 /\ ~Spent(r)
  BY <1>1, <1>2 DEF Course, Spent, At
<1>4. CASE \/ Goto(r, "handled")
           \/ Goto(r, "refreshing") /\ web[r].refresh # 0 /\ web[r].op \notin Public
  BY <1>1, <1>3, <1>4, GoesOn
<1>5. CASE Reply(r, Clear) \/ Reply(r, Keep)
  BY <1>1, <1>2, <1>3, <1>5, IsAnswered DEF SessionTypes
<1> QED
  BY <1>4, <1>5 DEF Authenticate

LEMMA FindTokenKeeps ==
    ASSUME SessionInv, NEW r \in WebRequest, FindToken(r)
    PROVE  SessionInv'
<1>1. /\ At(r, "refreshing") \/ (At(r, "handled") /\ web[r].op = "renew")
      /\ web[r].step \in Asking /\ web[r].step # "consumed"
      /\ UNCHANGED <<tokens, issued, withDomain, jar, leftBy, active, stranded, spoilt>>
  BY DEF FindToken, At, Asking, Table, Rest
<1>2. SessionTypes /\ Course(r) /\ ~At(r, "answered")
  BY <1>1, Asking_Asked
<1>3. web[r].new = 0 /\ ~Spent(r)
  BY <1>1, <1>2 DEF Course, Spent, At, Asking, Public
<1>4. CASE Goto(r, "found") /\ Good(r)
  <2>1. web[r].refresh # 0
    BY <1>2, <1>4 DEF Good, SessionTypes
  <2>2. web[r].op \in Public => web[r].op = "renew"
    BY <1>1, <1>2 DEF Course, At
  <2> QED
    BY <1>1, <1>3, <1>4, <2>1, <2>2, GoesOn
<1>5. ~(web[r].op = "logout" /\ At(r, "handled"))
  BY <1>1 DEF At
<1>6. CASE Reply(r, Clear) \/ Reply(r, Keep)
  BY <1>1, <1>2, <1>3, <1>5, <1>6, IsAnswered DEF SessionTypes
<1> QED
  BY <1>4, <1>6 DEF FindToken

LEMMA ConsumeTokenKeeps ==
    ASSUME SessionInv, NEW r \in WebRequest, ConsumeToken(r)
    PROVE  SessionInv'
<1>1. /\ At(r, "found") /\ web[r].step \in Asking /\ Goto(r, "consumed")
      /\ tokens' = tokens \ {web[r].refresh}
      /\ UNCHANGED <<issued, withDomain, jar, leftBy, active, stranded, spoilt>>
  BY DEF ConsumeToken, At, Asking, Rest
<1>2. SessionTypes /\ Course(r) /\ web[r] \in Asked /\ ~At(r, "none") /\ ~At(r, "answered")
  BY <1>1, Asking_Asked
<1>3. web[r].new = 0 /\ web[r].refresh # 0 /\ (web[r].op \in Public => web[r].op = "renew")
  BY <1>1, <1>2 DEF Course, At
<1>4. /\ web' \in [WebRequest -> Asked \cup Answered \cup {NoRequest}]
      /\ \A s \in WebRequest : s # r => web'[s] = web[s]
      /\ web'[r].step = "consumed" /\ web'[r].by = web[r].by /\ web'[r].refresh = web[r].refresh
      /\ web'[r].op = web[r].op /\ web'[r].new = web[r].new
  BY <1>1, <1>2, GotoMoves DEF Asking
<1>5. SessionTypes'
  BY <1>1, <1>2, <1>4 DEF SessionTypes
<1>6. issued + 1 .. issued' = {}
  BY <1>1, <1>2 DEF SessionTypes, TokenNumber
<1>7. (\A n \in 1 .. MaxTokens : ~Carries(r, n)') /\ Spent(r)'
  BY <1>3, <1>4 DEF Carries, Spent, At, Asking
<1>8. Proceeds(r)
  BY <1>1, <1>2, <1>4, <1>6, <1>7 DEF Proceeds, At
<1> QED
  BY <1>3, <1>4, <1>5, <1>8, ProceedsKeeps DEF At

(* The token is issued, and on its way.                                     *)
LEMMA IssueTokenKeeps ==
    ASSUME SessionInv, NEW r \in WebRequest, IssueToken(r)
    PROVE  SessionInv'
<1> DEFINE n == issued + 1
<1>1. /\ web[r].step \in Asking /\ issued < MaxTokens /\ issued' = n /\ tokens' = tokens \cup {n}
      /\ At(r, "consumed") \/ (At(r, "handled") /\ web[r].op \in {"login", "me"})
      /\ UNCHANGED <<withDomain, jar, leftBy, active, stranded, spoilt>>
  BY DEF IssueToken, Issuing, At, Asking, Rest
<1>2. /\ SessionTypes /\ Course(r) /\ web[r] \in Asked /\ ~At(r, "none") /\ ~At(r, "answered")
      /\ MaxTokens \in Nat /\ web[r].new \in 0 .. MaxTokens
      /\ web[r].new # 0 => Carries(r, web[r].new)
  BY <1>1, Asking_Asked
<1>3. /\ n \in 1 .. MaxTokens /\ issued + 1 .. issued' = {n} /\ n \in TokenNumber
      /\ issued' = issued + 1
  BY <1>1, <1>2 DEF SessionTypes, TokenNumber
<1>4. tokens' \subseteq 1 .. issued' /\ stranded' \subseteq 0 .. issued' /\ issued' \in TokenNumber
  BY <1>1, <1>2, <1>3 DEF SessionTypes, TokenNumber
<1> HIDE DEF n
<1>5. CASE At(r, "consumed") /\ web[r].op # "renew"
  <2> DEFINE w1 == [web[r] EXCEPT !.step = "handled"]
             w == [w1 EXCEPT !.new = n]
  <2>1. w1 \in Asked /\ w1.by = web[r].by /\ w1.refresh = web[r].refresh /\ w1.step = "handled"
        /\ w1.op = web[r].op
    BY <1>2 DEF Asked, Asking
  <2>2. w \in Asked /\ w.by = w1.by /\ w.refresh = w1.refresh /\ w.step = w1.step /\ w.new = n
        /\ w.op = w1.op
    BY <1>3, <2>1 DEF Asked
  <2>3. web' = [web EXCEPT ![r] = w]
    BY <1>5 DEF IssueToken, AnswerWith, n
  <2> HIDE DEF w1, w
  <2>4. web'[r] = w /\ \A s \in WebRequest : s # r => web'[s] = web[s]
    BY <1>2, <2>3 DEF SessionTypes
  <2>5. web' \in [WebRequest -> Asked \cup Answered \cup {NoRequest}]
    BY <1>2, <2>2, <2>3 DEF SessionTypes
  <2>6. SessionTypes'
    BY <1>1, <1>2, <1>4, <2>5 DEF SessionTypes
  <2>7. (\A m \in 1 .. MaxTokens : Carries(r, m)' => m = n) /\ Spent(r)'
    BY <1>3, <2>1, <2>2, <2>4 DEF Carries, Spent, At
  <2>8. Proceeds(r)
    BY <1>1, <1>2, <1>3, <2>1, <2>2, <2>4, <2>7 DEF Proceeds, At
  <2>9. web[r].op \notin Public
    BY <1>2, <1>5 DEF Course, At
  <2> QED
    BY <2>1, <2>2, <2>4, <2>6, <2>8, <2>9, ProceedsKeeps DEF At, Asking
<1>6. CASE ~(At(r, "consumed") /\ web[r].op # "renew")
  <2> DEFINE cookies == IF web[r].new # 0 THEN web[r].new ELSE n
  <2>1. cookies \in 1 .. MaxTokens
    BY <1>2, <1>3
  <2>2. Reply(r, cookies)
    BY <1>6 DEF IssueToken, AnswerWith, n
  <2> HIDE DEF cookies
  <2>3. cookies \in 0 .. MaxTokens + 1
    BY <1>2, <2>1
  <2>4. /\ web' \in [WebRequest -> Asked \cup Answered \cup {NoRequest}]
        /\ \A s \in WebRequest : s # r => web'[s] = web[s]
        /\ web'[r].step = "answered" /\ web'[r].by = web[r].by /\ web'[r].refresh = web[r].refresh
        /\ web'[r].cookies = cookies /\ (web'[r].out <=> web[r].op = "logout" /\ At(r, "handled"))
    BY <1>2, <2>2, <2>3, ReplyMoves
  <2>5. SessionTypes'
    BY <1>1, <1>2, <1>4, <2>4 DEF SessionTypes
  <2>6. ASSUME NEW m \in 1 .. MaxTokens, Carries(r, m)' PROVE Carries(r, m) \/ m = n
    <3>1. m = cookies
      BY <2>4, <2>6 DEF Carries, At, Asking
    <3> QED
      BY <1>2, <3>1 DEF cookies
  <2>7. Spent(r)'
    BY <2>1, <2>4 DEF Spent, At
  <2>8. Proceeds(r)
    BY <1>1, <1>2, <1>3, <2>4, <2>6, <2>7 DEF Proceeds, At
  <2>9. ~web'[r].out
    BY <1>1, <2>4 DEF At
  <2> QED
    BY <2>4, <2>5, <2>8, <2>9, ProceedsKeeps DEF At, Asking
<1> QED
  BY <1>5, <1>6

LEMMA IssueFailsKeeps ==
    ASSUME SessionInv, NEW r \in WebRequest, IssueFails(r)
    PROVE  SessionInv'
<1> DEFINE lost == IF At(r, "consumed") THEN {web[r].refresh} ELSE {}
<1>1. /\ web[r].step \in Asking /\ stranded' = stranded \cup lost
      /\ At(r, "consumed") \/ (At(r, "handled") /\ web[r].op \in {"login", "me"})
      /\ spoilt < MaxSessionFaults /\ spoilt' = spoilt + 1
      /\ UNCHANGED <<tokens, issued, withDomain, jar, leftBy, active>>
  BY DEF IssueFails, Issuing, Fails, At, Asking, Rest, Table
<1>2. /\ SessionTypes /\ Course(r) /\ ~At(r, "answered") /\ web[r].refresh \in 0 .. issued
  BY <1>1, Asking_Asked
<1>3. spoilt' \in 0 .. MaxSessionFaults /\ spoilt' # 0
  BY <1>1, <1>2, SessionsAssumption DEF SessionTypes
<1>4. stranded' \subseteq 0 .. issued
  BY <1>1, <1>2 DEF SessionTypes
<1>5. ~(web[r].op = "logout" /\ At(r, "handled"))
  BY <1>1 DEF At
<1>6. CASE At(r, "consumed")
  <2>1. Reply(r, Clear) \/ Reply(r, OwnCookies(r))
    BY <1>6 DEF IssueFails
  <2>2. OwnCookies(r) \in {Keep, web[r].new}
    BY DEF OwnCookies
  <2>3. PICK cookies \in {Clear, Keep, web[r].new} : Reply(r, cookies)
    BY <2>1, <2>2
  <2>4. web[r].refresh \in stranded'
    BY <1>1, <1>6
  <2> QED
    BY <1>1, <1>3, <1>4, <1>5, <2>3, <2>4, IsAnswered
<1>7. CASE ~At(r, "consumed")
  <2>1. Reply(r, OwnCookies(r))
    BY <1>7 DEF IssueFails
  <2>2. OwnCookies(r) \in {Clear, Keep, web[r].new}
    BY DEF OwnCookies
  <2>3. Spent(r) => OwnCookies(r) = web[r].new /\ web[r].new # 0
    BY <1>2, <1>7 DEF Spent, OwnCookies
  <2> QED
    BY <1>1, <1>3, <1>4, <1>5, <2>1, <2>2, <2>3, IsAnswered
<1> QED
  BY <1>6, <1>7

LEMMA HandledKeeps ==
    ASSUME SessionInv, NEW r \in WebRequest, CallEndpoint(r) \/ DeleteMe(r)
    PROVE  SessionInv'
<1>1. /\ web[r].step \in Asking /\ At(r, "handled") /\ web[r].op # "logout" /\ Reply(r, OwnCookies(r))
      /\ UNCHANGED <<tokens, issued, withDomain, jar, leftBy, stranded, spoilt>>
  BY DEF CallEndpoint, DeleteMe, At, Asking, Rest, Table
<1>2. SessionTypes /\ ~At(r, "answered")
  BY <1>1, Asking_Asked
<1>3. OwnCookies(r) \in {Clear, Keep, web[r].new}
  BY DEF OwnCookies
<1>4. Spent(r) => OwnCookies(r) = web[r].new /\ web[r].new # 0
  BY <1>1, <1>2 DEF Spent, OwnCookies, At
<1> QED
  BY <1>1, <1>2, <1>3, <1>4, IsAnswered DEF SessionTypes

LEMMA LogoutKeeps ==
    ASSUME SessionInv, NEW r \in WebRequest, Logout(r)
    PROVE  SessionInv'
<1> DEFINE cookies == IF web[r].new # 0 THEN web[r].new ELSE Clear
<1>1. /\ web[r].step \in Asking /\ At(r, "handled") /\ Reply(r, cookies)
      /\ UNCHANGED <<issued, withDomain, jar, leftBy, active>>
  BY DEF Logout, At, Asking, Rest
<1>2. /\ SessionTypes /\ ~At(r, "answered") /\ web[r].new \in 0 .. MaxTokens /\ MaxTokens \in Nat
  BY <1>1, Asking_Asked
<1>3. \/ tokens' = {} /\ stranded' = stranded \cup tokens /\ spoilt' = spoilt
      \/ spoilt < MaxSessionFaults /\ spoilt' = spoilt + 1 /\ UNCHANGED <<tokens, stranded>>
  BY DEF Logout, Fails
<1>4. /\ tokens' \subseteq tokens /\ tokens \subseteq tokens' \cup stranded' /\ stranded \subseteq stranded'
      /\ stranded' \subseteq 0 .. issued /\ spoilt' \in 0 .. MaxSessionFaults
      /\ spoilt' = 0 => spoilt = 0 /\ tokens' = {}
  <2>1. /\ spoilt \in 0 .. MaxSessionFaults /\ MaxSessionFaults \in Nat
        /\ tokens \subseteq 0 .. issued /\ stranded \subseteq 0 .. issued
    BY <1>2, SessionsAssumption DEF SessionTypes, TokenNumber
  <2>2. CASE tokens' = {} /\ stranded' = stranded \cup tokens /\ spoilt' = spoilt
    BY <2>1, <2>2
  <2>3. CASE spoilt < MaxSessionFaults /\ spoilt' = spoilt + 1 /\ UNCHANGED <<tokens, stranded>>
    BY <2>1, <2>3
  <2> QED
    BY <1>3, <2>2, <2>3
<1>5. cookies \in {Clear, Keep, web[r].new} /\ cookies # Keep
  BY <1>2 DEF Clear, Keep
<1>6. Spent(r) => cookies = web[r].new /\ web[r].new # 0
  BY <1>1, <1>2 DEF Spent, At
<1> HIDE DEF cookies
<1> QED
  BY <1>1, <1>4, <1>5, <1>6, IsAnswered

-----------------------------------------------------------------------------
(* A request is sent with the token of its browser.                         *)
LEMMA SendKeeps ==
    ASSUME SessionInv, NEW r \in WebRequest, NEW b \in Browser, Send(r, b)
    PROVE  SessionInv'
<1>1. /\ SessionTypes /\ (\A s \in WebRequest : Course(s)) /\ (\A c \in Browser : Holding(c))
      /\ MaxTokens \in Nat
  BY SessionsAssumption DEF SessionInv
<1>2. /\ At(r, "none") /\ UNCHANGED <<tokens, issued, withDomain, jar, leftBy, active, stranded, spoilt>>
  BY DEF Send, Table, Rest
<1>3. PICK op \in Operation :
         web' = [web EXCEPT ![r] = [step |-> "sent", by |-> b, op |-> op, access |-> jar[b].access,
                                    refresh |-> jar[b].refresh, new |-> 0]]
  BY DEF Send
<1> DEFINE w == [step |-> "sent", by |-> b, op |-> op, access |-> jar[b].access,
                 refresh |-> jar[b].refresh, new |-> 0]
<1>4. jar[b].access \in BOOLEAN /\ jar[b].refresh \in TokenNumber /\ 0 \in TokenNumber
  BY <1>1 DEF SessionTypes, TokenNumber
<1>5. w \in Asked /\ w.step = "sent" /\ w.by = b /\ w.refresh = jar[b].refresh /\ w.new = 0
  BY <1>3, <1>4 DEF Asked, Asking
<1>6. web' = [web EXCEPT ![r] = w]
  BY <1>3
<1> HIDE DEF w
<1>7. web'[r] = w /\ \A s \in WebRequest : s # r => web'[s] = web[s]
  BY <1>1, <1>6 DEF SessionTypes
<1>8. SessionTypes'
  <2>1. web' \in [WebRequest -> Asked \cup Answered \cup {NoRequest}]
    BY <1>1, <1>5, <1>6 DEF SessionTypes
  <2> QED
    BY <1>1, <1>2, <2>1 DEF SessionTypes
<1>9. ASSUME NEW s \in WebRequest, NEW n \in 1 .. MaxTokens, Carries(s, n)'
      PROVE  s # r /\ Carries(s, n)
  <2>1. s # r
    BY <1>5, <1>7, <1>9 DEF Carries, At
  <2> QED
    BY <1>7, <1>9, <2>1 DEF Carries, At
<1>10. ASSUME NEW s \in WebRequest, NEW n \in 1 .. MaxTokens, Carries(s, n)'
       PROVE  Unseen(s, n)'
  <2>1. Unseen(s, n)
    BY <1>1, <1>9, <1>10 DEF Course
  <2>2. \A t \in WebRequest : web'[t].step # "none" => web'[t].refresh # n
    BY <1>5, <1>7, <2>1 DEF Unseen, At
  <2>3. \A t \in WebRequest : Carries(t, n)' => t = s
    BY <1>9, <2>1 DEF Unseen
  <2> QED
    BY <1>2, <2>1, <2>2, <2>3 DEF Unseen, At
<1>11. ASSUME NEW s \in WebRequest PROVE Course(s)'
  <2>1. CASE s # r
    <3>1. web'[s] = web[s]
      BY <1>7, <2>1
    <3> QED
      BY <1>1, <1>2, <1>10, <3>1 DEF Course, At
  <2>2. CASE s = r
    <3>1. w.refresh <= issued
      BY <1>1, <1>5 DEF Holding
    <3>2. \A c \in Browser : w.refresh = jar[c].refresh /\ jar[c].refresh # 0 => w.by = c
      BY <1>1, <1>5 DEF Holding
    <3> QED
      BY <1>2, <1>5, <1>7, <1>10, <2>2, <3>1, <3>2 DEF Course, At, Asking
  <2> QED
    BY <2>1, <2>2
<1>12. ASSUME NEW c \in Browser PROVE Holding(c)'
  <2>1. \A s \in WebRequest : Spent(s) => web'[s] = web[s]
    BY <1>2, <1>7 DEF Spent, At
  <2>2. Awaited(c, jar[c].refresh) => Awaited(c, jar[c].refresh)'
    <3>1. SUFFICES ASSUME NEW s \in WebRequest, Spent(s), web[s].by = c, web[s].refresh = jar[c].refresh
                   PROVE  Awaited(c, jar[c].refresh)'
      BY DEF Awaited
    <3>2. Spent(s)' /\ web'[s].by = c /\ web'[s].refresh = jar'[c].refresh
      BY <1>2, <2>1, <3>1 DEF Spent, At
    <3> QED
      BY <3>2 DEF Awaited
  <2> QED
    BY <1>1, <1>2, <2>2 DEF Holding
<1> QED
  BY <1>8, <1>11, <1>12 DEF SessionInv

(* An answer is lost: its browser keeps the token that it sent.             *)
LEMMA LoseAnswerKeeps ==
    ASSUME SessionInv, NEW r \in WebRequest, LoseAnswer(r)
    PROVE  SessionInv'
<1>1. /\ SessionTypes /\ (\A s \in WebRequest : Course(s)) /\ (\A c \in Browser : Holding(c))
      /\ MaxTokens \in Nat /\ MaxSessionFaults \in Nat
  BY SessionsAssumption DEF SessionInv
<1>2. /\ At(r, "answered") /\ spoilt < MaxSessionFaults /\ spoilt' = spoilt + 1
      /\ web' = [web EXCEPT ![r] = NoRequest] /\ stranded' = stranded \cup {web[r].refresh}
      /\ UNCHANGED <<tokens, issued, withDomain, jar, leftBy, active>>
  BY DEF LoseAnswer, Fails, Table, Rest
<1>3. web'[r] = NoRequest /\ \A s \in WebRequest : s # r => web'[s] = web[s]
  BY <1>1, <1>2 DEF SessionTypes
<1>4. web[r].refresh \in 0 .. issued
  <2>1. web[r].refresh \in TokenNumber
    BY <1>1, <1>2, Shapes DEF Answered
  <2>2. web[r].refresh <= issued
    BY <1>1, <1>2 DEF Course, At
  <2> QED
    BY <1>1, <2>1, <2>2 DEF SessionTypes, TokenNumber
<1>5. spoilt' \in 0 .. MaxSessionFaults /\ spoilt' # 0
  BY <1>1, <1>2 DEF SessionTypes
<1>6. SessionTypes'
  BY <1>1, <1>2, <1>4, <1>5 DEF SessionTypes
<1>7. ASSUME NEW s \in WebRequest, NEW n, Carries(s, n)' PROVE s # r /\ Carries(s, n)
  BY <1>3, <1>7 DEF Carries, At, Asking, NoRequest
<1>8. ASSUME NEW s \in WebRequest, NEW n \in 1 .. MaxTokens, Carries(s, n)' PROVE Unseen(s, n)'
  <2>1. Unseen(s, n)
    BY <1>1, <1>7, <1>8 DEF Course
  <2>2. \A t \in WebRequest : web'[t].step # "none" => web'[t].refresh # n
    BY <1>3, <2>1 DEF Unseen, At, NoRequest
  <2>3. \A t \in WebRequest : Carries(t, n)' => t = s
    BY <1>7, <2>1 DEF Unseen
  <2> QED
    BY <1>2, <2>1, <2>2, <2>3 DEF Unseen, At
<1>9. ASSUME NEW s \in WebRequest PROVE Course(s)'
  <2>1. CASE s # r
    <3>1. web'[s] = web[s]
      BY <1>3, <2>1
    <3> QED
      BY <1>1, <1>2, <1>5, <1>8, <3>1 DEF Course, At
  <2>2. CASE s = r
    BY <1>3, <1>8, <2>2 DEF Course, At, Asking, NoRequest
  <2> QED
    BY <2>1, <2>2
<1>10. ASSUME NEW c \in Browser PROVE Holding(c)'
  <2>1. Awaited(c, jar[c].refresh) => Awaited(c, jar[c].refresh)' \/ jar[c].refresh \in stranded'
    <3>1. SUFFICES ASSUME NEW s \in WebRequest, Spent(s), web[s].by = c, web[s].refresh = jar[c].refresh,
                          jar[c].refresh \notin stranded'
                   PROVE  Awaited(c, jar[c].refresh)'
      BY DEF Awaited
    <3>2. s # r
      BY <1>2, <3>1
    <3>3. Spent(s)' /\ web'[s].by = c /\ web'[s].refresh = jar'[c].refresh
      BY <1>2, <1>3, <3>1, <3>2 DEF Spent, At
    <3> QED
      BY <3>3 DEF Awaited
  <2> QED
    BY <1>1, <1>2, <1>5, <2>1 DEF Holding
<1> QED
  BY <1>6, <1>9, <1>10 DEF SessionInv

(* An answer comes with a token, or leaves what is there or nothing.        *)
LEMMA DeliverKeeps ==
    ASSUME SessionInv, NEW r \in WebRequest, Deliver(r)
    PROVE  SessionInv'
<1> DEFINE b == web[r].by
           got == web[r].cookies
<1>1. /\ SessionTypes /\ (\A s \in WebRequest : Course(s)) /\ (\A c \in Browser : Holding(c))
      /\ MaxTokens \in Nat /\ issued \in 0 .. MaxTokens
  BY SessionsAssumption DEF SessionInv, SessionTypes, TokenNumber
<1>2. /\ At(r, "answered") /\ web' = [web EXCEPT ![r] = NoRequest]
      /\ jar' = [jar EXCEPT ![b] = Applied(got, @)]
      /\ leftBy' = IF web[r].out THEN leftBy \cup {b}
                   ELSE IF got \in TokenNumber \ {Clear} THEN leftBy \ {b} ELSE leftBy
      /\ UNCHANGED <<withDomain, tokens, issued, active, stranded, spoilt>>
  BY DEF Deliver, Table
<1>3. web'[r] = NoRequest /\ \A s \in WebRequest : s # r => web'[s] = web[s]
  BY <1>1, <1>2 DEF SessionTypes
<1>4. web[r] \in Answered /\ b \in Browser /\ got \in 0 .. MaxTokens + 1 /\ web[r].out \in BOOLEAN
  BY <1>1, <1>2, Shapes DEF Answered
<1>5. jar'[b] = Applied(got, jar[b]) /\ \A c \in Browser : c # b => jar'[c] = jar[c]
  BY <1>1, <1>2, <1>4 DEF SessionTypes
<1>6. /\ jar'[b].refresh = IF got \in 1 .. MaxTokens THEN got
                           ELSE IF got = Clear /\ ~withDomain THEN 0 ELSE jar[b].refresh
      /\ got \in 1 .. MaxTokens \/ got = Clear \/ got = Keep
      /\ Clear = 0 /\ Keep \notin 0 .. MaxTokens
  <2>1. Clear = 0 /\ Keep \notin 0 .. MaxTokens /\ (got \in 1 .. MaxTokens \/ got = Clear \/ got = Keep)
    BY <1>1, <1>4 DEF Clear, Keep
  <2>2. CASE got \in 1 .. MaxTokens
    BY <1>1, <1>5, <2>1, <2>2 DEF Applied
  <2>3. CASE got = Keep
    BY <1>1, <1>5, <2>1, <2>3 DEF Applied
  <2>4. CASE got = Clear
    BY <1>1, <1>5, <2>1, <2>4 DEF Applied
  <2> QED
    BY <2>1, <2>2, <2>3, <2>4
<1>7. /\ got \in 1 .. MaxTokens => Carries(r, got) /\ Unseen(r, got)
      /\ web[r].out => got # Keep /\ (spoilt = 0 => got \notin tokens)
  BY <1>1, <1>2 DEF Course, Carries
<1>9. SessionTypes'
  <2>1. jar[b] \in [access : BOOLEAN, refresh : TokenNumber]
    BY <1>1, <1>4 DEF SessionTypes
  <2>2. Applied(got, jar[b]) \in [access : BOOLEAN, refresh : TokenNumber]
    <3>1. CASE got \in 1 .. MaxTokens
      BY <1>6, <3>1 DEF Applied, TokenNumber
    <3>2. CASE got \notin 1 .. MaxTokens
      BY <1>1, <1>6, <2>1, <3>2 DEF Applied, TokenNumber
    <3> QED
      BY <3>1, <3>2
  <2>3. jar' \in [Browser -> [access : BOOLEAN, refresh : TokenNumber]]
    BY <1>1, <1>2, <2>2 DEF SessionTypes
  <2>4. web' \in [WebRequest -> Asked \cup Answered \cup {NoRequest}]
    BY <1>1, <1>2 DEF SessionTypes
  <2> QED
    BY <1>1, <1>2, <2>3, <2>4 DEF SessionTypes
<1> HIDE DEF b, got
<1>10. ASSUME NEW s \in WebRequest, NEW n, Carries(s, n)' PROVE s # r /\ Carries(s, n)
  BY <1>3, <1>10 DEF Carries, At, Asking, NoRequest
<1>11. ASSUME NEW c \in Browser
       PROVE  \/ jar'[c].refresh = jar[c].refresh
              \/ jar'[c].refresh = 0
              \/ c = b /\ got \in 1 .. MaxTokens /\ jar'[c].refresh = got
  BY <1>5, <1>6
<1>12. ASSUME NEW s \in WebRequest, NEW n \in 1 .. MaxTokens, Carries(s, n)' PROVE Unseen(s, n)'
  <2>1. Unseen(s, n) /\ s # r
    BY <1>1, <1>10, <1>12 DEF Course
  <2>2. n # got
    BY <1>7, <2>1 DEF Unseen
  <2>3. \A c \in Browser : jar'[c].refresh # n
    BY <1>11, <2>1, <2>2 DEF Unseen
  <2>4. \A t \in WebRequest : web'[t].step # "none" => web'[t].refresh # n
    BY <1>3, <2>1 DEF Unseen, At, NoRequest
  <2>5. \A t \in WebRequest : Carries(t, n)' => t = s
    BY <1>10, <2>1 DEF Unseen
  <2> QED
    BY <1>2, <2>1, <2>3, <2>4, <2>5 DEF Unseen, At
<1>13. ASSUME NEW s \in WebRequest PROVE Course(s)'
  <2>1. CASE s # r
    <3>1. web'[s] = web[s]
      BY <1>3, <2>1
    <3>2. ASSUME NEW c \in Browser, web[s].step # "none", web[s].refresh = jar'[c].refresh,
                 jar'[c].refresh # 0
          PROVE  web[s].by = c
      <4>1. CASE jar'[c].refresh = jar[c].refresh
        BY <1>1, <3>2, <4>1 DEF Course, At
      <4>2. CASE got \in 1 .. MaxTokens /\ jar'[c].refresh = got
        BY <1>7, <3>2, <4>2 DEF Unseen, At
      <4> QED
        BY <1>11, <3>2, <4>1, <4>2
    <3> QED
      BY <1>1, <1>2, <1>12, <3>1, <3>2 DEF Course, At
  <2>2. CASE s = r
    BY <1>3, <1>12, <2>2 DEF Course, At, Asking, NoRequest
  <2> QED
    BY <2>1, <2>2
<1>14. ASSUME NEW c \in Browser, Awaited(c, jar[c].refresh), jar'[c].refresh = jar[c].refresh,
              c # b \/ got \notin 1 .. MaxTokens
       PROVE  Awaited(c, jar[c].refresh)'
  <2>1. PICK s \in WebRequest : Spent(s) /\ web[s].by = c /\ web[s].refresh = jar[c].refresh
    BY <1>14 DEF Awaited
  <2>2. s # r
    BY <1>2, <1>14, <2>1 DEF Spent, At, b, got
  <2>3. Spent(s)' /\ web'[s].by = c /\ web'[s].refresh = jar'[c].refresh
    BY <1>3, <1>14, <2>1, <2>2 DEF Spent, At
  <2> QED
    BY <2>3 DEF Awaited
<1>15. ASSUME NEW c \in Browser PROVE Holding(c)'
  <2>1. Holding(c)
    BY <1>1
  <2>2. tokens \subseteq 1 .. issued /\ stranded \subseteq 0 .. issued
    BY <1>1 DEF SessionTypes
  <2>3. CASE c = b /\ got \in 1 .. MaxTokens
    <3>1. jar'[c].refresh = got /\ Unseen(r, got)
      BY <1>6, <1>7, <2>3
    <3>2. got <= issued /\ got \in tokens' \cup stranded'
      BY <1>1, <1>2, <2>2, <3>1 DEF Unseen
    <3>3. \A d \in Browser : got = jar'[d].refresh => d = c
      BY <1>5, <2>3, <3>1 DEF Unseen
    <3>4. c \in leftBy' => web[r].out
      BY <1>2, <1>6, <2>3 DEF TokenNumber, got, b
    <3> QED
      BY <1>2, <1>7, <3>1, <3>2, <3>3, <3>4 DEF Holding
  <2>4. CASE c # b \/ got \notin 1 .. MaxTokens
    <3>1. jar'[c].refresh = jar[c].refresh \/ jar'[c].refresh = 0
      BY <1>11, <2>4
    <3>2. \A d \in Browser : jar'[c].refresh = jar'[d].refresh /\ jar'[c].refresh # 0 => c = d
      <4> SUFFICES ASSUME NEW d \in Browser, jar'[c].refresh = jar'[d].refresh, jar'[c].refresh # 0
                   PROVE  c = d
        OBVIOUS
      <4>1. jar'[c].refresh = jar[c].refresh
        BY <3>1
      <4>2. CASE jar'[d].refresh = jar[d].refresh
        BY <2>1, <4>1, <4>2 DEF Holding
      <4>3. CASE got \in 1 .. MaxTokens /\ jar'[d].refresh = got
        BY <1>7, <4>1, <4>3 DEF Unseen
      <4> QED
        BY <1>11, <4>2, <4>3
    <3>3. c \in leftBy' /\ spoilt' = 0 /\ ~withDomain' => jar'[c].refresh \notin tokens'
      <4> SUFFICES ASSUME c \in leftBy', spoilt = 0, ~withDomain, jar'[c].refresh \in tokens
                   PROVE  FALSE
        BY <1>2
      <4>1. jar'[c].refresh = jar[c].refresh /\ jar[c].refresh \in tokens
        BY <2>2, <3>1
      <4>2. c \notin leftBy
        BY <2>1, <4>1 DEF Holding
      <4>3. c = b /\ web[r].out
        BY <1>2, <4>2 DEF b
      <4>4. got = Clear
        BY <1>6, <1>7, <2>4, <4>3
      <4> QED
        BY <1>1, <1>6, <2>2, <4>1, <4>3, <4>4
    <3>4. jar'[c].refresh <= issued'
      BY <1>1, <1>2, <2>1, <3>1 DEF Holding
    <3>5. jar'[c].refresh \in tokens' \cup stranded' \cup {0} \/ Awaited(c, jar[c].refresh)'
      BY <1>2, <1>14, <2>1, <2>4, <3>1 DEF Holding
    <3> QED
      BY <3>2, <3>3, <3>4, <3>5 DEF Holding
  <2> QED
    BY <2>3, <2>4
<1> QED
  BY <1>9, <1>13, <1>15 DEF SessionInv

LEMMA ExpiryKeeps ==
    ASSUME SessionInv, NEW b \in Browser, AccessExpires(b)
    PROVE  SessionInv'
<1>1. SessionTypes /\ (\A s \in WebRequest : Course(s)) /\ (\A c \in Browser : Holding(c))
  BY DEF SessionInv
<1>2. /\ jar' = [jar EXCEPT ![b].access = FALSE]
      /\ UNCHANGED <<withDomain, tokens, issued, active, web, leftBy, stranded, spoilt>>
  BY DEF AccessExpires, Table
<1>3. /\ jar' \in [Browser -> [access : BOOLEAN, refresh : TokenNumber]]
      /\ \A c \in Browser : jar'[c].refresh = jar[c].refresh
  BY <1>1, <1>2 DEF SessionTypes
<1>4. SessionTypes'
  BY <1>1, <1>2, <1>3 DEF SessionTypes
<1>5. ASSUME NEW s \in WebRequest, NEW n, Unseen(s, n) PROVE Unseen(s, n)'
  BY <1>2, <1>3, <1>5 DEF Unseen, At, Carries
<1>6. \A s \in WebRequest : Course(s)'
  BY <1>1, <1>2, <1>3, <1>5 DEF Course, At, Carries
<1>7. ASSUME NEW c \in Browser PROVE Holding(c)'
  BY <1>1, <1>2, <1>3 DEF Holding, Awaited, Spent, At
<1> QED
  BY <1>4, <1>6, <1>7 DEF SessionInv

LEMMA SessionInvariant == SessionsSpec => []SessionInv
<1>1. SessionsInit => SessionInv
  <2> SUFFICES ASSUME SessionsInit PROVE SessionInv
    OBVIOUS
  <2>1. SessionTypes
    BY SessionsAssumption DEF SessionsInit, SessionTypes, TokenNumber
  <2>2. \A r \in WebRequest : web[r] = NoRequest
    BY DEF SessionsInit
  <2>3. \A r \in WebRequest : Course(r)
    BY <2>2 DEF Course, Carries, At, Asking, NoRequest
  <2>4. \A b \in Browser : jar[b].refresh = 0
    BY DEF SessionsInit
  <2>5. ASSUME NEW b \in Browser PROVE Holding(b)
    <3>1. jar[b].refresh = 0 /\ issued = 0 /\ leftBy = {}
      BY <2>4 DEF SessionsInit
    <3> QED
      BY <3>1 DEF Holding
  <2> QED
    BY <2>1, <2>3, <2>5 DEF SessionInv
<1>2. SessionInv /\ [SessionsNext]_sessionVars => SessionInv'
  <2> SUFFICES ASSUME SessionInv, [SessionsNext]_sessionVars PROVE SessionInv'
    OBVIOUS
  <2>1. CASE UNCHANGED sessionVars
    BY <2>1 DEF sessionVars, SessionInv, SessionTypes, Course, Holding, Awaited, Spent, Unseen, Carries, At
  <2>2. CASE SessionsNext
    BY <2>2, SendKeeps, AuthenticateKeeps, FindTokenKeeps, ConsumeTokenKeeps, IssueTokenKeeps,
       IssueFailsKeeps, HandledKeeps, LogoutKeeps, DeliverKeeps, LoseAnswerKeeps, ExpiryKeeps
       DEF SessionsNext
  <2> QED
    BY <2>1, <2>2
<1> QED
  BY <1>1, <1>2, PTL DEF SessionsSpec

(* Of however many requests of however many browsers spend, renew, log out  *)
(* and fail at once: a browser that awaits no answer has a token that is    *)
(* good, or none, or one that a fault or a logout took; and after a logout  *)
(* none that is good.                                                       *)
THEOREM SessionsStaySound == SessionsSpec => []SessionsSound
<1>1. SessionInv => SessionsSound
  <2> SUFFICES ASSUME SessionInv, NEW b \in Browser,
                      \A r \in WebRequest : At(r, "none") \/ web[r].by # b
               PROVE  /\ jar[b].refresh \in tokens \cup stranded \cup {0}
                      /\ b \in leftBy /\ spoilt = 0 /\ ~withDomain => jar[b].refresh \notin tokens
    BY DEF SessionsSound
  <2>1. Holding(b)
    BY DEF SessionInv
  <2>2. ~Awaited(b, jar[b].refresh)
    BY DEF Awaited, Spent, At
  <2> QED
    BY <2>1, <2>2 DEF Holding
<1> QED
  BY <1>1, SessionInvariant, PTL

LEMMA SessionsTypes == SessionsSpec => []SessionsTypeOK
<1>1. SessionInv => SessionsTypeOK
  <2> SUFFICES ASSUME SessionInv PROVE SessionsTypeOK
    OBVIOUS
  <2>1. ASSUME NEW r \in WebRequest
        PROVE  web[r].step \in {"none", "sent", "refreshing", "found", "consumed", "handled", "answered"}
    BY Shapes DEF SessionInv, Asking, At
  <2> QED
    BY <2>1 DEF SessionInv, SessionTypes, SessionsTypeOK
<1> QED
  BY <1>1, SessionInvariant, PTL

(* Both halves of what an account is served by: the session of its browser, *)
(* and the row of its own in the workflow API's table.                      *)
THEOREM AccountsAreServed == SessionsSpec /\ MembersSpec => []AccountServed
BY SessionsStaySound, RowOfOnesOwn, PTL DEF AccountServed

-----------------------------------------------------------------------------
RunRow ==
    [status : Statuses \cup {"none"}, started : Nat, context : {"empty", "result", "error"},
     working : BOOLEAN, done : SUBSET RunNodes, traced : SUBSET RunNodes, unsaved : SUBSET RunNodes]

(* What a run's row says by itself: it began no later than now, and a node  *)
(* that the present attempt has run has a trace unless the write failed.    *)
RunTrue(e) ==
    /\ run[e] \in RunRow /\ run[e].started <= instant /\ (run[e].working => Exists(e))
    /\ run[e].done \subseteq run[e].traced \cup run[e].unsaved

Counted == \A e \in ReportedRun : Exists(e) /\ InPeriod(e, report.at) => e \in report.sections[1]

(* What a report has already read stays true enough while others write: the *)
(* traces that it owes are there; what is in the analytics' window by now   *)
(* was so at the first query already, for what starts later starts outside; *)
(* and the days it found lie between its first one and the present one.     *)
TimelineTrue ==
    report.kind = "timeline" =>
        /\ report.step = "loaded" =>
             report.of \in ReportedRun /\ report.owed \subseteq run[report.of].traced
        /\ report.step = "over" => report.owed \subseteq report.shown

AnalyticsTrue ==
    report.kind = "analytics" =>
        /\ report.at \in Nat /\ report.at < instant
        /\ report.sections \in Seq(SUBSET ReportedRun)
        /\ \A i \in DOMAIN report.sections : report.sections[i] \subseteq report.sections[1]
        /\ report.sections # <<>> => Counted

TrendsTrue ==
    report.kind = "trends" =>
        /\ report.step \in {"begun", "queried"} => report.from \in Nat
        /\ report.step = "queried" => report.days \subseteq DayOf(report.from) .. DayOf(instant)
        /\ report.step = "over" => report.days \subseteq report.shown

RunsTrue == run = [e \in ReportedRun |-> run[e]] /\ \A e \in ReportedRun : RunTrue(e)

ReportInv == instant \in Nat /\ RunsTrue /\ TimelineTrue /\ AnalyticsTrue /\ TrendsTrue

(* Later is on the same day or on a later one.                              *)
LEMMA DaysGoOn ==
    ASSUME NEW s \in Nat, NEW t \in Nat, s <= t
    PROVE  DayOf(s) \in Nat /\ DayOf(t) \in Nat /\ DayOf(s) <= DayOf(t)
<1> DEFINE a == s \div DayLength
           b == t \div DayLength
<1>1. /\ DayLength \in Nat /\ DayLength > 0
  BY ReportsAssumption
<1>2. a \in Nat /\ b \in Nat
  BY <1>1
<1>3. s >= a * DayLength /\ t < (b + 1) * DayLength
  BY <1>1
<1>4. ASSUME b < a PROVE FALSE
  <2>1. b + 1 <= a
    BY <1>2, <1>4
  <2>2. (b + 1) * DayLength <= a * DayLength
    BY <1>1, <1>2, <2>1
  <2>3. a * DayLength \in Nat /\ (b + 1) * DayLength \in Nat
    BY <1>1, <1>2
  <2> QED
    BY <1>3, <2>2, <2>3
<1> QED
  BY <1>2, <1>4 DEF DayOf

(* A row that a writer may put in the place of another, at an instant: it   *)
(* has lost no trace, and it began when that one did or begins now.         *)
RunMoves(was, r, now) ==
    /\ r \in RunRow /\ r.status # "none"
    /\ r.started = now \/ (was.status # "none" /\ r.started = was.started)
    /\ r.done \subseteq r.traced \cup r.unsaved /\ was.traced \subseteq r.traced

(* What was found up to now is found on a day up to any later one.          *)
LEMMA DaysStay ==
    ASSUME NEW from \in Nat, NEW now \in Nat, NEW later \in Nat, now <= later,
           NEW days, days \subseteq DayOf(from) .. DayOf(now)
    PROVE  days \subseteq DayOf(from) .. DayOf(later)
BY DaysGoOn

(* A change of one row by a writer disturbs no report.                      *)
LEMMA RewriteKeeps ==
    ASSUME ReportInv, NEW e \in ReportedRun, NEW r, Rewrite(e, r), RunMoves(run[e], r, instant)
    PROVE  ReportInv'
<1> USE DEF RunMoves
<1>1. /\ instant' = instant /\ report' = report /\ instant \in Nat
      /\ run' = [f \in ReportedRun |-> IF f = e THEN r ELSE run[f]]
  BY DEF Rewrite, ReportInv, RunsTrue
<1>2. run'[e] = r /\ \A f \in ReportedRun : f # e => run'[f] = run[f]
  BY <1>1
<1>3. RunsTrue'
  <2> SUFFICES ASSUME NEW f \in ReportedRun PROVE RunTrue(f)'
    BY <1>1 DEF RunsTrue
  <2>1. RunTrue(f) /\ RunTrue(e)
    BY DEF ReportInv, RunsTrue
  <2>2. CASE f = e
    BY <1>1, <1>2, <2>1, <2>2 DEF RunTrue, Exists
  <2>3. CASE f # e
    BY <1>1, <1>2, <2>1, <2>3 DEF RunTrue, Exists
  <2> QED
    BY <2>2, <2>3
<1>4. TimelineTrue'
  <2> SUFFICES ASSUME report.kind = "timeline", report.step = "loaded"
               PROVE  report.owed \subseteq run'[report.of].traced
    BY <1>1 DEF TimelineTrue, ReportInv
  <2>1. report.of \in ReportedRun /\ report.owed \subseteq run[report.of].traced
    BY DEF ReportInv, TimelineTrue
  <2> QED
    BY <1>2, <2>1
<1>5. AnalyticsTrue'
  <2> SUFFICES ASSUME report.kind = "analytics", report.sections # <<>>, Counted, report.at \in Nat,
                      report.at < instant,
                      NEW f \in ReportedRun, Exists(f)', InPeriod(f, report.at)'
               PROVE  f \in report.sections[1]
    BY <1>1 DEF AnalyticsTrue, Counted, ReportInv, InPeriod, Exists
  <2>1. CASE f # e
    BY <1>1, <1>2, <2>1 DEF Counted, Exists, InPeriod
  <2>2. CASE f = e
    <3>1. r.started <= report.at
      BY <1>1, <1>2, <2>2 DEF InPeriod
    <3>2. r.started # instant
      BY <1>1, <3>1
    <3> QED
      BY <1>1, <1>2, <2>2, <3>2 DEF Counted, Exists, InPeriod
  <2> QED
    BY <2>1, <2>2
<1>6. TrendsTrue'
  BY <1>1 DEF TrendsTrue, ReportInv
<1> QED
  BY <1>1, <1>3, <1>4, <1>5, <1>6 DEF ReportInv

(* What each of the writers puts there does.                                *)
LEMMA WrittenMoves ==
    ASSUME NEW was \in RunRow, NEW now \in Nat, was.done \subseteq was.traced \cup was.unsaved
    PROVE  /\ \A d \in BOOLEAN :
                RunMoves(was, [was EXCEPT !.status = IF d THEN "PENDING" ELSE "FAILED",
                                         !.context = IF d THEN "empty" ELSE "error",
                                         !.started = now], now)
           /\ RunMoves(was, [was EXCEPT !.status = "RUNNING", !.started = now,
                                       !.working = TRUE, !.done = {}], now)
           /\ was.status # "none" =>
                /\ \A n \in RunNodes, saved \in BOOLEAN :
                     RunMoves(was, [was EXCEPT !.done = @ \cup {n},
                                              !.traced = IF saved THEN @ \cup {n} ELSE @,
                                              !.unsaved = IF saved THEN @ ELSE @ \cup {n}], now)
                /\ \A s \in {"COMPLETED", "FAILED"} :
                     RunMoves(was, [was EXCEPT !.status = s, !.working = FALSE,
                                   !.context = IF s = "COMPLETED" THEN "result" ELSE @], now)
                /\ \A revoked \in BOOLEAN :
                     RunMoves(was, [was EXCEPT !.status = "CANCELLED",
                                              !.working = was.working /\ ~revoked], now)
                /\ RunMoves(was, [was EXCEPT !.status = "FAILED", !.context = "error"], now)
<1>1. ASSUME NEW d \in BOOLEAN
      PROVE  RunMoves(was, [was EXCEPT !.status = IF d THEN "PENDING" ELSE "FAILED",
                                      !.context = IF d THEN "empty" ELSE "error",
                                      !.started = now], now)
  <2> DEFINE r == [was EXCEPT !.status = IF d THEN "PENDING" ELSE "FAILED",
                              !.context = IF d THEN "empty" ELSE "error", !.started = now]
  <2>1. r \in RunRow
    BY DEF RunRow, Statuses
  <2>2. r.status # "none" /\ r.started = now
    BY DEF RunRow
  <2>3. r.done = was.done /\ r.traced = was.traced /\ r.unsaved = was.unsaved
    BY DEF RunRow
  <2> HIDE DEF r
  <2>4. RunMoves(was, r, now)
    BY <2>1, <2>2, <2>3 DEF RunMoves
  <2> QED
    BY <2>4 DEF r
<1>2. RunMoves(was, [was EXCEPT !.status = "RUNNING", !.started = now, !.working = TRUE, !.done = {}], now)
  <2> DEFINE r == [was EXCEPT !.status = "RUNNING", !.started = now, !.working = TRUE, !.done = {}]
  <2>1. r \in RunRow
    BY DEF RunRow, Statuses
  <2>2. r.status # "none" /\ r.started = now
    BY DEF RunRow
  <2>3. r.done = {} /\ r.traced = was.traced
    BY DEF RunRow
  <2> HIDE DEF r
  <2>4. RunMoves(was, r, now)
    BY <2>1, <2>2, <2>3 DEF RunMoves
  <2> QED
    BY <2>4 DEF r
<1>3. ASSUME was.status # "none", NEW n \in RunNodes, NEW saved \in BOOLEAN
      PROVE  RunMoves(was, [was EXCEPT !.done = @ \cup {n},
                                      !.traced = IF saved THEN @ \cup {n} ELSE @,
                                      !.unsaved = IF saved THEN @ ELSE @ \cup {n}], now)
  BY <1>3 DEF RunMoves, RunRow, Statuses
<1>4. ASSUME was.status # "none", NEW s \in {"COMPLETED", "FAILED"}
      PROVE  RunMoves(was, [was EXCEPT !.status = s, !.working = FALSE,
                           !.context = IF s = "COMPLETED" THEN "result" ELSE @], now)
  BY <1>4 DEF RunMoves, RunRow, Statuses
<1>5. ASSUME was.status # "none", NEW revoked \in BOOLEAN
      PROVE  RunMoves(was, [was EXCEPT !.status = "CANCELLED", !.working = was.working /\ ~revoked], now)
  BY <1>5 DEF RunMoves, RunRow, Statuses
<1>6. ASSUME was.status # "none"
      PROVE  RunMoves(was, [was EXCEPT !.status = "FAILED", !.context = "error"], now)
  BY <1>6 DEF RunMoves, RunRow, Statuses
<1> QED
  BY <1>1, <1>2, <1>3, <1>4, <1>5, <1>6

LEMMA WritersKeep ==
    ASSUME ReportInv, NEW e \in ReportedRun,
           \/ CreateRun(e) \/ StartRun(e) \/ RunNode(e) \/ EndRun(e) \/ CancelRun(e) \/ SweepRun(e)
    PROVE  ReportInv'
<1>1. /\ run[e] \in RunRow /\ run[e].done \subseteq run[e].traced \cup run[e].unsaved
      /\ instant \in Nat /\ (run[e].working => run[e].status # "none")
  BY DEF ReportInv, RunsTrue, RunTrue, Exists
<1> SUFFICES \E r : RunMoves(run[e], r, instant) /\ Rewrite(e, r)
  <2>1. PICK r : RunMoves(run[e], r, instant) /\ Rewrite(e, r)
    OBVIOUS
  <2> QED
    BY <2>1, RewriteKeeps
<1>2. CASE CreateRun(e)
  BY <1>1, <1>2, WrittenMoves DEF CreateRun
<1>3. CASE StartRun(e)
  BY <1>1, <1>3, WrittenMoves DEF StartRun
<1>4. CASE RunNode(e)
  BY <1>1, <1>4, WrittenMoves DEF RunNode
<1>5. CASE EndRun(e)
  BY <1>1, <1>5, WrittenMoves DEF EndRun
<1>6. CASE CancelRun(e)
  BY <1>1, <1>6, WrittenMoves DEF CancelRun
<1>7. CASE SweepRun(e)
  BY <1>1, <1>7, WrittenMoves DEF SweepRun
<1> QED
  BY <1>2, <1>3, <1>4, <1>5, <1>6, <1>7

LEMMA ReportersKeep ==
    ASSUME ReportInv, UNCHANGED run,
           \/ PassTime \/ AnswerBulk \/ ReadTraces \/ BeginAnalytics \/ QuerySection
           \/ AnswerSummary \/ BeginTrends \/ QueryTrends \/ FillDays
           \/ \E e \in ReportedRun :
                AnswerStatus(e) \/ AnswerTrace(e) \/ RefuseResume(e) \/ BeginTimeline(e)
    PROVE  ReportInv'
<1> USE DEF Unoccupied, Report
<1>1. instant \in Nat /\ instant' \in Nat /\ instant <= instant' /\ RunsTrue'
  <2>1. instant \in Nat /\ instant' \in {instant, instant + 1}
    BY DEF ReportInv, PassTime, AnswerBulk, ReadTraces, BeginAnalytics, QuerySection, AnswerSummary,
           BeginTrends, QueryTrends, FillDays, AnswerStatus, AnswerTrace, RefuseResume, BeginTimeline
  <2> QED
    BY <2>1 DEF ReportInv, RunsTrue, RunTrue, RunRow, Exists
<1> DEFINE Kept == TimelineTrue' /\ AnalyticsTrue' /\ TrendsTrue'
<1>2. CASE \/ AnswerBulk \/ AnswerSummary
           \/ \E e \in ReportedRun : AnswerStatus(e) \/ AnswerTrace(e) \/ RefuseResume(e)
  <2>1. report'.kind \in {"status", "trace", "bulk", "resume", "summary"}
    BY <1>2 DEF AnswerBulk, AnswerSummary, AnswerStatus, AnswerTrace, RefuseResume
  <2> QED
    BY <1>1, <2>1 DEF ReportInv, TimelineTrue, AnalyticsTrue, TrendsTrue
<1>3. CASE PassTime
  <2>1. report' = report /\ TrendsTrue
    BY <1>3 DEF PassTime, ReportInv
  <2>2. TrendsTrue'
    <3> SUFFICES ASSUME report.kind = "trends", report.step = "queried"
                 PROVE  report.days \subseteq DayOf(report.from) .. DayOf(instant')
      BY <2>1 DEF TrendsTrue, DayOf
    <3>1. report.from \in Nat /\ report.days \subseteq DayOf(report.from) .. DayOf(instant)
      BY <2>1 DEF TrendsTrue
    <3> QED
      BY <1>1, <3>1, DaysStay
  <2> QED
    BY <1>1, <1>3, <2>2 DEF PassTime, ReportInv, TimelineTrue, AnalyticsTrue, Counted, Exists, InPeriod
<1>4. CASE \E e \in ReportedRun : BeginTimeline(e)
  <2>1. PICK e \in ReportedRun : BeginTimeline(e)
    BY <1>4
  <2>2. run[e].done \subseteq run[e].traced \cup run[e].unsaved
    BY DEF ReportInv, RunsTrue, RunTrue
  <2> QED
    BY <1>1, <2>1, <2>2 DEF BeginTimeline, ReportInv, TimelineTrue, AnalyticsTrue, TrendsTrue
<1>5. CASE ReadTraces
  BY <1>1, <1>5 DEF ReadTraces, ReportInv, TimelineTrue, AnalyticsTrue, TrendsTrue
<1>6. CASE BeginAnalytics
  BY <1>1, <1>6 DEF BeginAnalytics, ReportInv, TimelineTrue, AnalyticsTrue, TrendsTrue
<1>7. CASE QuerySection
  <2> DEFINE next == Sections[Len(report.sections) + 1]
             rows == {e \in ReportedRun : run[e].status \in Concerned(next) /\ InPeriod(e, report.at)}
             all == Append(report.sections, rows)
  <2>1. /\ report.kind = "analytics" /\ report.at \in Nat /\ report.at < instant
        /\ report.sections \in Seq(SUBSET ReportedRun)
        /\ \A i \in DOMAIN report.sections : report.sections[i] \subseteq report.sections[1]
        /\ report.sections # <<>> => Counted
    BY <1>7 DEF QuerySection, ReportInv, AnalyticsTrue
  <2>2. /\ report'.kind = "analytics" /\ report'.at = report.at /\ report'.sections = all
        /\ instant' = instant
    BY <1>7 DEF QuerySection
  <2>3. rows \in SUBSET ReportedRun /\ all \in Seq(SUBSET ReportedRun)
    BY <2>1
  <2>4. \A e \in rows : e \in ReportedRun /\ Exists(e) /\ InPeriod(e, report.at)
    BY DEF Concerned, Exists, Statuses
  <2>5. /\ report.sections = <<>> => all[1] = rows /\ DOMAIN all = {1}
        /\ report.sections # <<>> =>
             /\ all[1] = report.sections[1] /\ all[Len(report.sections) + 1] = rows
             /\ DOMAIN all = DOMAIN report.sections \cup {Len(report.sections) + 1}
             /\ \A i \in DOMAIN report.sections : all[i] = report.sections[i]
    BY <2>1, <2>3
  <2> HIDE DEF all
  <2>6. Counted'
    <3>1. CASE report.sections = <<>>
      <4>1. next = "status"
        BY <3>1 DEF Sections
      <4>2. Concerned(next) = Statuses
        BY <4>1 DEF Concerned
      <4>3. \A e \in ReportedRun : run[e].status \in Statuses \cup {"none"}
        BY DEF ReportInv, RunsTrue, RunTrue, RunRow
      <4>4. ASSUME NEW e \in ReportedRun, Exists(e), InPeriod(e, report.at) PROVE e \in rows
        BY <4>2, <4>3, <4>4 DEF Exists
      <4>5. \A e \in ReportedRun : Exists(e) /\ InPeriod(e, report.at) => e \in all[1]
        BY <2>5, <3>1, <4>4
      <4> QED
        BY <2>2, <4>5 DEF Counted, Exists, InPeriod
    <3>2. CASE report.sections # <<>>
      BY <2>1, <2>2, <2>5, <3>2 DEF Counted, Exists, InPeriod
    <3> QED
      BY <3>1, <3>2
  <2>7. \A i \in DOMAIN all : all[i] \subseteq all[1]
    <3>1. CASE report.sections = <<>>
      BY <2>5, <3>1
    <3>2. CASE report.sections # <<>>
      <4>1. rows \subseteq report.sections[1]
        BY <2>1, <2>4, <3>2 DEF Counted
      <4> QED
        BY <2>1, <2>5, <3>2, <4>1
    <3> QED
      BY <3>1, <3>2
  <2> QED
    BY <1>1, <2>1, <2>2, <2>3, <2>6, <2>7 DEF ReportInv, TimelineTrue, AnalyticsTrue, TrendsTrue
<1>8. CASE BeginTrends
  BY <1>1, <1>8, ReportsAssumption DEF BeginTrends, ReportInv, TimelineTrue, AnalyticsTrue, TrendsTrue
<1>9. CASE QueryTrends
  <2>1. /\ report.kind = "trends" /\ report.step = "begun" /\ report.from \in Nat
        /\ report' = [kind |-> "trends", step |-> "queried", from |-> report.from,
                       days |-> {DayOf(run[e].started) : e \in
                         {f \in ReportedRun : Exists(f) /\ run[f].started >= report.from}}]
        /\ instant' = instant
    BY <1>9 DEF QueryTrends, ReportInv, TrendsTrue
  <2>2. ASSUME NEW e \in ReportedRun, run[e].started >= report.from
        PROVE  DayOf(run[e].started) \in DayOf(report.from) .. DayOf(instant)
    <3>1. run[e].started \in Nat /\ run[e].started <= instant
      BY DEF ReportInv, RunsTrue, RunTrue, RunRow
    <3> QED
      BY <1>1, <2>1, <2>2, <3>1, DaysGoOn
  <2>3. report'.days \subseteq DayOf(report.from) .. DayOf(instant)
    BY <2>1, <2>2
  <2>4. report'.kind = "trends" /\ report'.step = "queried" /\ report'.from = report.from
    BY <2>1
  <2> QED
    BY <1>1, <2>1, <2>3, <2>4 DEF ReportInv, TimelineTrue, AnalyticsTrue, TrendsTrue
<1>10. CASE FillDays
  <2>1. /\ report.days \subseteq DayOf(report.from) .. DayOf(instant)
        /\ report' = [kind |-> "trends", step |-> "over", days |-> report.days,
                       shown |-> DayOf(report.from) .. DayOf(instant)]
    BY <1>10 DEF FillDays, ReportInv, TrendsTrue
  <2> QED
    BY <1>1, <2>1 DEF ReportInv, TimelineTrue, AnalyticsTrue, TrendsTrue
<1> QED
  BY <1>2, <1>3, <1>4, <1>5, <1>6, <1>7, <1>8, <1>9, <1>10

LEMMA ReportInvariant == ReportsSpec => []ReportInv
<1>1. ReportsInit => ReportInv
  BY DEF ReportsInit, ReportInv, RunsTrue, RunTrue, RunRow, Exists, NoReport, TimelineTrue,
         AnalyticsTrue, TrendsTrue
<1>2. ReportInv /\ [ReportsNext]_reportVars => ReportInv'
  <2> SUFFICES ASSUME ReportInv, [ReportsNext]_reportVars PROVE ReportInv'
    OBVIOUS
  <2>1. CASE UNCHANGED reportVars
    BY <2>1 DEF reportVars, ReportInv, RunsTrue, RunTrue, Exists, TimelineTrue, AnalyticsTrue,
           TrendsTrue, Counted, InPeriod
  <2>2. ASSUME NEW e \in ReportedRun,
               \/ CreateRun(e) \/ StartRun(e) \/ RunNode(e) \/ EndRun(e) \/ CancelRun(e)
               \/ SweepRun(e)
        PROVE  ReportInv'
    BY <2>2, WritersKeep
  <2>3. ASSUME \/ PassTime \/ AnswerBulk \/ ReadTraces \/ BeginAnalytics \/ QuerySection
               \/ AnswerSummary \/ BeginTrends \/ QueryTrends \/ FillDays
               \/ \E e \in ReportedRun :
                    AnswerStatus(e) \/ AnswerTrace(e) \/ RefuseResume(e) \/ BeginTimeline(e)
        PROVE  ReportInv'
    <3>1. UNCHANGED run
      BY <2>3 DEF PassTime, AnswerBulk, ReadTraces, BeginAnalytics, QuerySection, AnswerSummary, BeginTrends,
         QueryTrends, FillDays, AnswerStatus, AnswerTrace, RefuseResume, BeginTimeline, Unoccupied
    <3> QED
      BY <2>3, <3>1, ReportersKeep
  <2> QED
    BY <2>1, <2>2, <2>3 DEF ReportsNext
<1> QED
  BY <1>1, <1>2, PTL DEF ReportsSpec

(* Whatever the workers, cancels and the sweep commit between the queries   *)
(* of a report: a timeline that says COMPLETED shows all the traces that    *)
(* were written, no section of the analytics lists what its totals leave    *)
(* out, and the trends' days hold every execution that was found.           *)
THEOREM ReportsStayConsistent == ReportsSpec => []ReportsAgree
<1>1. ReportInv => ReportsAgree
  BY DEF ReportInv, ReportsAgree, TimelineTrue, AnalyticsTrue, TrendsTrue
<1> QED
  BY <1>1, ReportInvariant, PTL

(* What is left of the reports' type: that the clock stops at its bound,    *)
(* and how far a report may be.                                             *)
ReportStep == {"idle", "loaded", "querying", "begun", "queried", "over"}

LEMMA ReportsTypes == ReportsSpec => []ReportsTypeOK
<1> DEFINE Bounded == instant \in 1 .. MaxClock /\ report.step \in ReportStep
<1>1. ReportsInit => Bounded
  BY ReportsAssumption DEF ReportsInit, NoReport, ReportStep
<1>2. ReportInv /\ Bounded /\ [ReportsNext]_reportVars => Bounded'
  <2> SUFFICES ASSUME ReportInv, Bounded, [ReportsNext]_reportVars PROVE Bounded'
    OBVIOUS
  <2>1. CASE UNCHANGED reportVars
    BY <2>1 DEF reportVars
  <2>2. ASSUME NEW e \in ReportedRun,
               \/ CreateRun(e) \/ StartRun(e) \/ RunNode(e) \/ EndRun(e) \/ CancelRun(e)
               \/ SweepRun(e)
        PROVE  Bounded'
    <3>1. UNCHANGED <<instant, report>>
      BY <2>2 DEF CreateRun, StartRun, RunNode, EndRun, CancelRun, SweepRun, Rewrite
    <3> QED
      BY <3>1
  <2>3. ASSUME \/ AnswerBulk \/ ReadTraces \/ QuerySection \/ AnswerSummary \/ QueryTrends \/ FillDays
               \/ \E e \in ReportedRun :
                    AnswerStatus(e) \/ AnswerTrace(e) \/ RefuseResume(e) \/ BeginTimeline(e)
        PROVE  Bounded'
    <3>1. UNCHANGED instant
      BY <2>3 DEF AnswerBulk, ReadTraces, QuerySection, AnswerSummary, QueryTrends, FillDays,
             AnswerStatus, AnswerTrace, RefuseResume, BeginTimeline
    <3>2. report'.step \in ReportStep
      BY <2>3 DEF AnswerBulk, ReadTraces, QuerySection, AnswerSummary, QueryTrends, FillDays,
             AnswerStatus, AnswerTrace, RefuseResume, BeginTimeline, Report, ReportStep
    <3> QED
      BY <3>1, <3>2
  <2>4. CASE PassTime
    BY <2>4, ReportsAssumption DEF PassTime
  <2>5. CASE BeginAnalytics \/ BeginTrends
    <3>1. instant < MaxClock /\ instant' = instant + 1 /\ report'.step \in ReportStep
      BY <2>5 DEF BeginAnalytics, BeginTrends, Report, ReportStep
    <3> QED
      BY <3>1, ReportsAssumption
  <2> QED
    BY <2>1, <2>2, <2>3, <2>4, <2>5 DEF ReportsNext
<1>3. ReportInv /\ Bounded => ReportsTypeOK
  <2> SUFFICES ASSUME ReportInv, Bounded PROVE ReportsTypeOK
    OBVIOUS
  <2>1. ASSUME NEW e \in ReportedRun PROVE run[e] \in ExecRow
    <3>1. run[e] \in RunRow /\ run[e].started \in Nat /\ run[e].started <= instant
      BY DEF ReportInv, RunsTrue, RunTrue, RunRow
    <3>2. run[e].started \in 0 .. MaxClock
      BY <3>1, ReportsAssumption
    <3> QED
      BY <3>1, <3>2 DEF RunRow, ExecRow
  <2>2. run = [e \in ReportedRun |-> run[e]]
    BY DEF ReportInv, RunsTrue
  <2>3. run \in [ReportedRun -> ExecRow]
    BY <2>1, <2>2
  <2> QED
    BY <2>3 DEF ReportsTypeOK, ReportStep
<1> QED
  BY <1>1, <1>2, <1>3, ReportInvariant, PTL DEF ReportsSpec

-----------------------------------------------------------------------------
(***************************************************************************)
(* The lists by page. A row that a walk still owes has not been shown, but *)
(* is behind what has been: what comes or changes goes before it.          *)
(***************************************************************************)
StatusNames == {"absent", "DRAFT", "PUBLISHED", "ARCHIVED", "PENDING", "RUNNING", "COMPLETED", "ACTIVE", "PAUSED",
                "DISABLED"}

IsWalk(w) ==
    /\ w = [step |-> w.step, sort |-> w.sort, filter |-> w.filter, skip |-> w.skip, total |-> w.total,
            shown |-> w.shown, owed |-> w.owed, late |-> w.late, gone |-> w.gone]
    /\ w.step \in {"asking", "counted", "over"} /\ w.sort \in {"asc", "desc"} /\ w.skip \in Nat
    /\ w.late \in BOOLEAN /\ w.gone \in BOOLEAN

(* A walk of which something is promised.                                   *)
Promised(w, list) == w.filter = "all" /\ ~w.gone /\ (w.sort = "desc" \/ list = "schedules")

Listing(s) ==
    /\ s \in Seq(ShelfRow)
    /\ \A i, j \in 1 .. Len(s) : s[i] = s[j] => i = j

(* The row at a place of a list as it is asked for.                         *)
AtPlace(s, sort, i) == IF sort = "asc" THEN s[Len(s) - i + 1] ELSE s[i]

Ahead(w, s) == \A r \in w.owed \ w.shown : \E i \in 1 .. Len(s) : w.skip < i /\ AtPlace(s, w.sort, i) = r

WalkTrue(w, s, list) ==
    /\ w.step \in {"asking", "counted"} /\ Promised(w, list) => Ahead(w, s)
    /\ w.step = "counted" /\ Promised(w, list) /\ ~w.late => w.total = Len(s)
    /\ w.step = "over" /\ Promised(w, list) /\ ~w.late => w.owed \subseteq w.shown

LibraryInv ==
    /\ listed \in {"workflows", "executions", "schedules"}
    /\ Listing(shelf) /\ status \in [ShelfRow -> StatusNames]
    /\ \A i \in 1 .. Len(shelf) : status[shelf[i]] # "absent"
    /\ walk = NoWalk \/ (IsWalk(walk) /\ WalkTrue(walk, shelf, listed))

LEMMA RemovedAt ==
    ASSUME NEW s \in Seq(ShelfRow), NEW p \in 1 .. Len(s)
    PROVE  /\ RemoveAt(s, p) \in Seq(ShelfRow) /\ Len(RemoveAt(s, p)) = Len(s) - 1
           /\ \A i \in 1 .. Len(s) - 1 : RemoveAt(s, p)[i] = IF i < p THEN s[i] ELSE s[i + 1]
<1> DEFINE front == SubSeq(s, 1, p - 1)
           back == SubSeq(s, p + 1, Len(s))
<1>1. /\ front \in Seq(ShelfRow) /\ Len(front) = p - 1
      /\ \A i \in 1 .. p - 1 : front[i] = s[i]
  BY SubSeqProperties
<1>2. /\ back \in Seq(ShelfRow) /\ Len(back) = Len(s) - p
      /\ \A i \in 1 .. Len(s) - p : back[i] = s[p + i]
  BY SubSeqProperties
<1> HIDE DEF front, back
<1>3. /\ front \o back \in Seq(ShelfRow) /\ Len(front \o back) = Len(s) - 1
      /\ \A i \in 1 .. Len(s) - 1 : (front \o back)[i] = IF i <= p - 1 THEN front[i] ELSE back[i - (p - 1)]
  <2>1. /\ front \o back \in Seq(ShelfRow) /\ Len(front \o back) = Len(front) + Len(back)
        /\ \A i \in 1 .. Len(front) + Len(back) :
             (front \o back)[i] = IF i <= Len(front) THEN front[i] ELSE back[i - Len(front)]
    BY <1>1, <1>2, ConcatProperties
  <2>2. Len(front) + Len(back) = Len(s) - 1
    BY <1>1, <1>2
  <2> QED
    BY <1>1, <2>1, <2>2
<1>4. ASSUME NEW i \in 1 .. Len(s) - 1 PROVE (front \o back)[i] = IF i < p THEN s[i] ELSE s[i + 1]
  <2>1. CASE i < p
    BY <1>1, <1>3, <2>1
  <2>2. CASE ~(i < p)
    <3>1. i - (p - 1) \in 1 .. Len(s) - p /\ p + (i - (p - 1)) = i + 1
      BY <2>2
    <3> QED
      BY <1>2, <1>3, <2>2, <3>1
  <2> QED
    BY <2>1, <2>2
<1> QED
  BY <1>3, <1>4 DEF RemoveAt, front, back

LEMMA Removed ==
    ASSUME Listing(shelf), NEW w \in ShelfRow
    PROVE  /\ Listing(AllBut(w)) /\ \A i \in 1 .. Len(AllBut(w)) : AllBut(w)[i] # w
           /\ Len(AllBut(w)) = Len(shelf) \/ Len(AllBut(w)) = Len(shelf) - 1
           /\ \A i \in 1 .. Len(AllBut(w)) :
                 \/ AllBut(w)[i] = shelf[i]
                 \/ i + 1 \in 1 .. Len(shelf) /\ AllBut(w)[i] = shelf[i + 1]
           /\ (\A i \in 1 .. Len(shelf) : shelf[i] # w) => AllBut(w) = shelf
           /\ (\E i \in 1 .. Len(shelf) : shelf[i] = w) => Len(AllBut(w)) = Len(shelf) - 1
           /\ \A i \in 1 .. Len(shelf) : shelf[i] # w =>
                \E j \in {i - 1, i} : j \in 1 .. Len(AllBut(w)) /\ AllBut(w)[j] = shelf[i]
<1>1. shelf \in Seq(ShelfRow) /\ DOMAIN shelf = 1 .. Len(shelf) /\ Len(shelf) \in Nat
  BY DEF Listing
<1>2. w \in ToSet(shelf) <=> \E i \in 1 .. Len(shelf) : shelf[i] = w
  BY <1>1 DEF ToSet
<1>3. CASE w \notin ToSet(shelf)
  BY <1>1, <1>2, <1>3 DEF AllBut, Listing
<1>4. CASE w \in ToSet(shelf)
  <2>1. PICK p \in 1 .. Len(shelf) : shelf[p] = w /\ AllBut(w) = RemoveAt(shelf, p)
    BY <1>1, <1>2, <1>4 DEF AllBut
  <2> DEFINE s == AllBut(w)
  <2>2. /\ s \in Seq(ShelfRow) /\ Len(s) = Len(shelf) - 1
        /\ \A i \in 1 .. Len(shelf) - 1 : s[i] = IF i < p THEN shelf[i] ELSE shelf[i + 1]
    BY <1>1, <2>1, RemovedAt
  <2>3. \A i, j \in 1 .. Len(shelf) : shelf[i] = shelf[j] => i = j
    BY DEF Listing
  <2> HIDE DEF s
  <2>4. ASSUME NEW i \in 1 .. Len(s), NEW j \in 1 .. Len(s), s[i] = s[j] PROVE i = j
    <3> DEFINE Past(n) == IF n < p THEN n ELSE n + 1
    <3>1. Past(i) \in 1 .. Len(shelf) /\ Past(j) \in 1 .. Len(shelf)
      BY <1>1, <2>2
    <3>2. s[i] = shelf[Past(i)] /\ s[j] = shelf[Past(j)]
      BY <1>1, <2>2
    <3>3. Past(i) = Past(j)
      BY <2>3, <2>4, <3>1, <3>2
    <3> QED
      BY <1>1, <2>2, <3>3
  <2>5. \A i \in 1 .. Len(s) : s[i] # w
    BY <1>1, <2>1, <2>2, <2>3
  <2>6. ASSUME NEW i \in 1 .. Len(shelf), shelf[i] # w
        PROVE  \E j \in {i - 1, i} : j \in 1 .. Len(s) /\ s[j] = shelf[i]
    <3>1. CASE i < p
      BY <1>1, <2>2, <2>6, <3>1
    <3>2. CASE i > p
      BY <1>1, <2>2, <2>6, <3>2
    <3> QED
      BY <1>1, <2>1, <2>6, <3>1, <3>2
  <2>7. \A i \in 1 .. Len(s) : s[i] = shelf[i] \/ (i + 1 \in 1 .. Len(shelf) /\ s[i] = shelf[i + 1])
    BY <1>1, <2>2
  <2> QED
    BY <1>2, <1>4, <2>2, <2>4, <2>5, <2>6, <2>7 DEF Listing, s
<1> QED
  BY <1>3, <1>4
(* A row that is added, or changed, goes before the others.                 *)
LEMMA PutFirst ==
    ASSUME Listing(shelf), NEW w \in ShelfRow, PutOnTop(w)
    PROVE  /\ Listing(shelf')
           /\ \A i \in 1 .. Len(shelf') : shelf'[i] = w \/ \E j \in 1 .. Len(shelf) : shelf'[i] = shelf[j]
           /\ \A i \in 1 .. Len(shelf) : shelf[i] # w =>
                \E j \in {i, i + 1} : j \in 1 .. Len(shelf') /\ shelf'[j] = shelf[i]
           /\ (\E i \in 1 .. Len(shelf) : shelf[i] = w) => Len(shelf') = Len(shelf)
           /\ (\A i \in 1 .. Len(shelf) : shelf[i] # w) =>
                Len(shelf') = Len(shelf) + 1 /\ \A i \in 1 .. Len(shelf) : shelf'[i + 1] = shelf[i]
           /\ 1 \in 1 .. Len(shelf') /\ shelf'[1] = w
<1> DEFINE s == AllBut(w)
<1>1. /\ Listing(s) /\ \A i \in 1 .. Len(s) : s[i] # w
      /\ \A i \in 1 .. Len(s) : s[i] = shelf[i] \/ (i + 1 \in 1 .. Len(shelf) /\ s[i] = shelf[i + 1])
      /\ Len(s) = Len(shelf) \/ Len(s) = Len(shelf) - 1
      /\ (\A i \in 1 .. Len(shelf) : shelf[i] # w) => s = shelf
      /\ (\E i \in 1 .. Len(shelf) : shelf[i] = w) => Len(s) = Len(shelf) - 1
      /\ \A i \in 1 .. Len(shelf) : shelf[i] # w =>
           \E j \in {i - 1, i} : j \in 1 .. Len(s) /\ s[j] = shelf[i]
  BY Removed
<1>2. shelf' = <<w>> \o s /\ s \in Seq(ShelfRow) /\ Len(s) \in Nat /\ Len(shelf) \in Nat
  BY <1>1 DEF PutOnTop, Listing
<1> HIDE DEF s
<1>3. /\ shelf' \in Seq(ShelfRow) /\ Len(shelf') = Len(s) + 1 /\ shelf'[1] = w
      /\ \A i \in 1 .. Len(s) : shelf'[i + 1] = s[i]
  <2>1. /\ <<w>> \in Seq(ShelfRow) /\ Len(<<w>>) = 1 /\ <<w>>[1] = w
    OBVIOUS
  <2>2. /\ <<w>> \o s \in Seq(ShelfRow) /\ Len(<<w>> \o s) = 1 + Len(s)
        /\ \A i \in 1 .. 1 + Len(s) : (<<w>> \o s)[i] = IF i <= 1 THEN <<w>>[i] ELSE s[i - 1]
    BY <1>2, <2>1, ConcatProperties
  <2>3. \A i \in 1 .. Len(s) : i + 1 \in 1 .. 1 + Len(s) /\ ~(i + 1 <= 1) /\ (i + 1) - 1 = i
    BY <1>2
  <2> QED
    BY <1>2, <2>1, <2>2, <2>3
<1>4. \A i \in 1 .. Len(shelf') : i = 1 \/ (i - 1 \in 1 .. Len(s) /\ shelf'[i] = s[i - 1])
  <2>1. \A i \in 1 .. Len(s) + 1 : i = 1 \/ (i - 1 \in 1 .. Len(s) /\ (i - 1) + 1 = i)
    BY <1>2
  <2> QED
    BY <1>3, <2>1
<1>5. ASSUME NEW i \in 1 .. Len(shelf'), NEW j \in 1 .. Len(shelf'), shelf'[i] = shelf'[j] PROVE i = j
  <2>1. \A k, l \in 1 .. Len(s) : s[k] = s[l] => k = l
    BY <1>1 DEF Listing
  <2>2. i = 1 <=> j = 1
    BY <1>1, <1>3, <1>4, <1>5
  <2>3. ASSUME i # 1, j # 1 PROVE i - 1 = j - 1
    BY <1>4, <1>5, <2>1, <2>3
  <2>4. i \in Int /\ j \in Int
    BY <1>2, <1>3
  <2> QED
    BY <2>2, <2>3, <2>4
<1>6. \A i \in 1 .. Len(shelf') : shelf'[i] = w \/ \E j \in 1 .. Len(shelf) : shelf'[i] = shelf[j]
  <2>1. \A i \in 1 .. Len(s) : \E j \in 1 .. Len(shelf) : s[i] = shelf[j]
    BY <1>1, <1>2
  <2> QED
    <3>1. \A i \in 1 .. Len(shelf') \ {1} : shelf'[i] = s[i - 1] /\ i - 1 \in 1 .. Len(s)
      BY <1>4
    <3>2. \A i \in 1 .. Len(shelf') \ {1} : \E j \in 1 .. Len(shelf) : shelf'[i] = shelf[j]
      BY <2>1, <3>1
    <3> QED
      BY <1>3, <3>2
<1>7. ASSUME NEW i \in 1 .. Len(shelf), shelf[i] # w
      PROVE  \E j \in {i, i + 1} : j \in 1 .. Len(shelf') /\ shelf'[j] = shelf[i]
  <2>1. PICK j \in {i - 1, i} : j \in 1 .. Len(s) /\ s[j] = shelf[i]
    BY <1>1, <1>7
  <2>2. j + 1 \in {i, i + 1} /\ j + 1 \in 1 .. Len(shelf') /\ shelf'[j + 1] = shelf[i]
    BY <1>2, <1>3, <2>1
  <2> QED
    BY <2>2
<1>8. (\E i \in 1 .. Len(shelf) : shelf[i] = w) => Len(shelf') = Len(shelf)
  BY <1>1, <1>2, <1>3
<1>9. (\A i \in 1 .. Len(shelf) : shelf[i] # w) =>
        Len(shelf') = Len(shelf) + 1 /\ \A i \in 1 .. Len(shelf) : shelf'[i + 1] = shelf[i]
  BY <1>1, <1>2, <1>3
<1>10. 1 \in 1 .. Len(shelf') /\ shelf'[1] = w
  BY <1>2, <1>3
<1> QED
  BY <1>3, <1>5, <1>6, <1>7, <1>8, <1>9, <1>10 DEF Listing

(* A page has no more rows than it may have.                                *)
LEMMA PageFits ==
    ASSUME NEW rows, NEW n \in Nat, DOMAIN rows = 1 .. n, NEW skip \in Nat
    PROVE  Cardinality(Page(rows, skip)) \in Nat /\ Cardinality(Page(rows, skip)) <= PageSize
<1> DEFINE places == {j \in DOMAIN rows : skip < j /\ j <= skip + PageSize}
<1>1. PageSize \in Nat
  BY LibraryAssumption
<1>2. IsFiniteSet((skip + 1) .. (skip + PageSize)) /\ Cardinality((skip + 1) .. (skip + PageSize)) = PageSize
  BY <1>1, FS_Interval
<1>3. places \in SUBSET ((skip + 1) .. (skip + PageSize))
  BY <1>1
<1>4. IsFiniteSet(places) /\ Cardinality(places) <= PageSize /\ Cardinality(places) \in Nat
  BY <1>2, <1>3, FS_Subset, FS_CardinalityType
<1>5. [i \in places |-> rows[i]] \in Surjection(places, Page(rows, skip))
  BY DEF Page, Surjection
<1>6. IsFiniteSet(Page(rows, skip)) /\ Cardinality(Page(rows, skip)) <= Cardinality(places)
  BY <1>4, <1>5, FS_Surjection
<1>7. Cardinality(Page(rows, skip)) \in Nat
  BY <1>6, FS_CardinalityType
<1> QED
  BY <1>1, <1>4, <1>6, <1>7

(* Rows that come to the top, or are moved there, stay out of a walk's way. *)
LEMMA WalkNotes ==
    ASSUME LibraryInv, NEW w \in ShelfRow, NEW came \in BOOLEAN, PutOnTop(w), Noting(w, came), UNCHANGED listed,
           came => \A i \in 1 .. Len(shelf) : shelf[i] # w,
           ~came => listed # "schedules" /\ \E i \in 1 .. Len(shelf) : shelf[i] = w
    PROVE  walk' = NoWalk \/ (IsWalk(walk') /\ WalkTrue(walk', shelf', listed'))
<1>1. CASE walk.step \in {"idle", "over"}
  <2>1. walk' = walk /\ (walk = NoWalk \/ (IsWalk(walk) /\ walk.step = "over" /\ WalkTrue(walk, shelf, listed)))
    BY <1>1 DEF Noting, LibraryInv, NoWalk, IsWalk
  <2> QED
    BY <2>1 DEF WalkTrue
<1>2. CASE walk.step \notin {"idle", "over"}
  <2>1. /\ IsWalk(walk) /\ WalkTrue(walk, shelf, listed)
        /\ walk' = [walk EXCEPT !.owed = walk.owed \ {w}, !.late = walk.late \/ (came /\ walk.step = "counted")]
    BY <1>2 DEF Noting, LibraryInv, NoWalk
  <2>2. /\ IsWalk(walk') /\ walk.step \in {"asking", "counted"}
        /\ walk'.step = walk.step /\ walk'.skip = walk.skip /\ walk'.sort = walk.sort /\ walk'.shown = walk.shown
        /\ walk'.total = walk.total /\ walk'.owed = walk.owed \ {w} /\ walk'.skip \in Nat
        /\ (Promised(walk', listed') <=> Promised(walk, listed))
        /\ ~walk'.late => ~walk.late /\ (walk.step = "counted" => ~came)
    BY <1>2, <2>1 DEF IsWalk, Promised
  <2>3. Listing(shelf) /\ Listing(shelf') /\ Len(shelf) \in Nat /\ Len(shelf') \in Nat
    BY PutFirst DEF LibraryInv, Listing
  <2>4. /\ \A i \in 1 .. Len(shelf) : shelf[i] # w =>
             \E j \in {i, i + 1} : j \in 1 .. Len(shelf') /\ shelf'[j] = shelf[i]
        /\ (\E i \in 1 .. Len(shelf) : shelf[i] = w) => Len(shelf') = Len(shelf)
        /\ (\A i \in 1 .. Len(shelf) : shelf[i] # w) =>
             Len(shelf') = Len(shelf) + 1 /\ \A i \in 1 .. Len(shelf) : shelf'[i + 1] = shelf[i]
    BY <2>3, PutFirst
  <2>5. ASSUME Promised(walk', listed'), NEW r \in walk'.owed \ walk'.shown
        PROVE  \E i \in 1 .. Len(shelf') : walk'.skip < i /\ AtPlace(shelf', walk'.sort, i) = r
    <3>1. r # w /\ walk.skip \in Nat /\ (walk.sort = "desc" \/ listed = "schedules")
      BY <2>2, <2>5 DEF Promised
    <3>2. PICK i \in 1 .. Len(shelf) : walk.skip < i /\ AtPlace(shelf, walk.sort, i) = r
      BY <2>1, <2>2, <2>5 DEF WalkTrue, Ahead
    <3>3. CASE walk.sort = "asc"
      <4>1. Len(shelf') = Len(shelf) + 1 /\ \A k \in 1 .. Len(shelf) : shelf'[k + 1] = shelf[k]
        BY <2>4, <3>1, <3>3
      <4>2. /\ shelf[Len(shelf) - i + 1] = r /\ Len(shelf) - i + 1 \in 1 .. Len(shelf)
            /\ Len(shelf') - i + 1 = (Len(shelf) - i + 1) + 1 /\ i \in 1 .. Len(shelf')
        BY <2>3, <3>2, <3>3, <4>1 DEF AtPlace
      <4>3. shelf'[Len(shelf') - i + 1] = r
        BY <4>1, <4>2
      <4> QED
        BY <2>2, <3>2, <3>3, <4>2, <4>3 DEF AtPlace
    <3>4. CASE walk.sort # "asc"
      <4>1. shelf[i] = r
        BY <3>2, <3>4 DEF AtPlace
      <4>2. PICK j \in {i, i + 1} : j \in 1 .. Len(shelf') /\ shelf'[j] = r
        BY <2>4, <3>1, <4>1
      <4>3. walk.skip < j
        BY <3>1, <3>2, <4>2
      <4> QED
        BY <2>2, <3>4, <4>2, <4>3 DEF AtPlace
    <3> QED
      BY <3>3, <3>4
  <2>6. walk'.step = "counted" /\ Promised(walk', listed') /\ ~walk'.late => walk'.total = Len(shelf')
    BY <2>1, <2>2, <2>4 DEF WalkTrue
  <2> QED
    BY <2>2, <2>5, <2>6 DEF WalkTrue, Ahead
<1> QED
  BY <1>1, <1>2

LEMMA TopKeeps ==
    ASSUME LibraryInv, NEW w \in ShelfRow, NEW came \in BOOLEAN, PutOnTop(w), Noting(w, came), UNCHANGED listed,
           came => status[w] = "absent",
           ~came => listed # "schedules" /\ w \in ToSet(shelf),
           NEW s \in StatusNames \ {"absent"}, status' = [status EXCEPT ![w] = s]
    PROVE  LibraryInv'
<1>1. Listing(shelf) /\ status \in [ShelfRow -> StatusNames] /\ \A i \in 1 .. Len(shelf) : status[shelf[i]] # "absent"
  BY DEF LibraryInv
<1>2. /\ came => \A i \in 1 .. Len(shelf) : shelf[i] # w
      /\ ~came => listed # "schedules" /\ \E i \in 1 .. Len(shelf) : shelf[i] = w
  <2>1. DOMAIN shelf = 1 .. Len(shelf)
    BY <1>1 DEF Listing
  <2> QED
    BY <1>1, <2>1 DEF ToSet
<1>3. walk' = NoWalk \/ (IsWalk(walk') /\ WalkTrue(walk', shelf', listed'))
  BY <1>2, WalkNotes
<1>4. /\ Listing(shelf')
      /\ \A i \in 1 .. Len(shelf') : shelf'[i] = w \/ \E j \in 1 .. Len(shelf) : shelf'[i] = shelf[j]
  BY <1>1, PutFirst
<1>5. status' \in [ShelfRow -> StatusNames] /\ status'[w] # "absent"
  BY <1>1
<1>6. \A i \in 1 .. Len(shelf') : status'[shelf'[i]] # "absent"
  <2>1. \A i \in 1 .. Len(shelf) : shelf[i] \in ShelfRow
    BY <1>1 DEF Listing
  <2> QED
    BY <1>1, <1>4, <1>5, <2>1
<1> QED
  BY <1>3, <1>4, <1>5, <1>6 DEF LibraryInv

(* What leaves the list as it is.                                           *)
LEMMA ShelfStays ==
    ASSUME LibraryInv, UNCHANGED <<listed, shelf, walk>>,
           status' = status \/ \E w \in ShelfRow, s \in StatusNames \ {"absent"} : status' = [status EXCEPT ![w] = s]
    PROVE  LibraryInv'
<1>1. Listing(shelf) /\ status \in [ShelfRow -> StatusNames] /\ \A i \in 1 .. Len(shelf) : status[shelf[i]] # "absent"
  BY DEF LibraryInv
<1>2. \A i \in 1 .. Len(shelf) : shelf[i] \in ShelfRow
  BY <1>1 DEF Listing
<1>3. status' \in [ShelfRow -> StatusNames] /\ \A i \in 1 .. Len(shelf) : status'[shelf[i]] # "absent"
  BY <1>1, <1>2
<1> QED
  BY <1>3 DEF LibraryInv

LEMMA RemovalKeeps ==
    ASSUME LibraryInv, NEW w \in ShelfRow, DeleteSchedule(w)
    PROVE  LibraryInv'
<1>1. Listing(shelf) /\ status \in [ShelfRow -> StatusNames] /\ \A i \in 1 .. Len(shelf) : status[shelf[i]] # "absent"
  BY DEF LibraryInv
<1>2. /\ Listing(AllBut(w)) /\ \A i \in 1 .. Len(AllBut(w)) : AllBut(w)[i] # w
      /\ \A i \in 1 .. Len(AllBut(w)) :
            \/ AllBut(w)[i] = shelf[i]
            \/ i + 1 \in 1 .. Len(shelf) /\ AllBut(w)[i] = shelf[i + 1]
      /\ Len(AllBut(w)) = Len(shelf) \/ Len(AllBut(w)) = Len(shelf) - 1
  BY <1>1, Removed
<1>3. shelf' = AllBut(w) /\ status' = [status EXCEPT ![w] = "absent"] /\ UNCHANGED listed
  BY DEF DeleteSchedule
<1>4. /\ \A i \in 1 .. Len(shelf') : status'[shelf'[i]] # "absent"
      /\ status' \in [ShelfRow -> StatusNames]
  <2>1. Len(shelf) \in Nat
    BY <1>1 DEF Listing
  <2>2. \A i \in 1 .. Len(AllBut(w)) :
          /\ AllBut(w)[i] \in ShelfRow \ {w} /\ \E j \in 1 .. Len(shelf) : AllBut(w)[i] = shelf[j]
    BY <1>2, <2>1 DEF Listing
  <2>3. \A i \in 1 .. Len(AllBut(w)) : status[AllBut(w)[i]] # "absent"
    BY <1>1, <2>2
  <2>4. status' \in [ShelfRow -> StatusNames]
    BY <1>1, <1>3 DEF StatusNames
  <2> QED
    BY <1>1, <1>3, <2>2, <2>3, <2>4
<1>5. walk' = NoWalk \/ (IsWalk(walk') /\ WalkTrue(walk', shelf', listed'))
  <2>1. CASE walk.step \in {"idle", "over"}
    <3>1. walk' = walk /\ (walk = NoWalk \/ (IsWalk(walk) /\ walk.step = "over" /\ WalkTrue(walk, shelf, listed)))
      BY <2>1 DEF DeleteSchedule, LibraryInv, NoWalk, IsWalk
    <3> QED
      BY <1>3, <3>1 DEF WalkTrue
  <2>2. CASE walk.step \notin {"idle", "over"}
    <3>1. IsWalk(walk) /\ walk' = [walk EXCEPT !.owed = walk.owed \ {w}, !.gone = TRUE]
      BY <2>2 DEF DeleteSchedule, LibraryInv, NoWalk
    <3>2. IsWalk(walk') /\ walk'.gone
      BY <3>1 DEF IsWalk
    <3> QED
      BY <3>2 DEF WalkTrue, Promised
  <2> QED
    BY <2>1, <2>2
<1> QED
  BY <1>2, <1>3, <1>4, <1>5 DEF LibraryInv

(* The rows of a query without a filter.                                    *)
LEMMA RowsPlaced ==
    ASSUME Listing(shelf), NEW sort \in {"asc", "desc"}
    PROVE  /\ DOMAIN Rows(sort, "all") = 1 .. Len(shelf) /\ Len(Rows(sort, "all")) = Len(shelf)
           /\ \A i \in 1 .. Len(shelf) : Rows(sort, "all")[i] = AtPlace(shelf, sort, i)
<1>1. shelf \in Seq(ShelfRow) /\ DOMAIN shelf = 1 .. Len(shelf) /\ Len(shelf) \in Nat
  BY DEF Listing
<1>2. Rows(sort, "all") = IF sort = "asc" THEN Reverse(shelf) ELSE shelf
  BY DEF Rows, Ordered
<1>3. /\ DOMAIN Reverse(shelf) = 1 .. Len(shelf) /\ Len(Reverse(shelf)) = Len(shelf)
      /\ \A i \in 1 .. Len(shelf) : Reverse(shelf)[i] = shelf[Len(shelf) - i + 1]
  BY <1>1 DEF Reverse
<1> QED
  BY <1>1, <1>2, <1>3 DEF AtPlace

LEMMA BeginKeeps == ASSUME LibraryInv, BeginWalk PROVE LibraryInv'
<1>1. PICK query \in Queries :
        walk' = [step |-> "asking", sort |-> query.sort, filter |-> query.filter, skip |-> 0, total |-> 0,
                 shown |-> {}, owed |-> ToSet(shelf), late |-> FALSE, gone |-> FALSE]
  BY DEF BeginWalk
<1>2. query.sort \in {"asc", "desc"} /\ query.filter \in {"all", "DRAFT", "RUNNING", "PAUSED"}
  BY DEF Queries
<1>3. shelf \in Seq(ShelfRow) /\ Len(shelf) \in Nat /\ ToSet(shelf) = {shelf[i] : i \in 1 .. Len(shelf)}
  BY DEF LibraryInv, Listing, ToSet
<1>4. IsWalk(walk')
  BY <1>1, <1>2, <1>3 DEF IsWalk
<1>5. ASSUME NEW r \in ToSet(shelf)
      PROVE  \E i \in 1 .. Len(shelf) : 0 < i /\ AtPlace(shelf, query.sort, i) = r
  <2>1. PICK k \in 1 .. Len(shelf) : shelf[k] = r
    BY <1>3
  <2>2. /\ Len(shelf) - k + 1 \in 1 .. Len(shelf) /\ Len(shelf) - (Len(shelf) - k + 1) + 1 = k
        /\ 0 < k /\ 0 < Len(shelf) - k + 1
    BY <1>3
  <2> QED
    BY <2>1, <2>2 DEF AtPlace
<1>6. UNCHANGED <<listed, shelf, status>>
  BY DEF BeginWalk
<1>7. WalkTrue(walk', shelf, listed)
  BY <1>1, <1>5 DEF WalkTrue, Ahead
<1> QED
  BY <1>4, <1>6, <1>7 DEF LibraryInv

LEMMA CountKeeps == ASSUME LibraryInv, CountRows PROVE LibraryInv'
<1>1. /\ UNCHANGED <<listed, shelf, status>> /\ walk.step = "asking" /\ IsWalk(walk) /\ WalkTrue(walk, shelf, listed)
      /\ Listing(shelf) /\ shelf \in Seq(ShelfRow) /\ Len(shelf) \in Nat
  BY DEF CountRows, LibraryInv, NoWalk, Listing
<1> DEFINE count == Len(Rows(walk.sort, walk.filter))
<1>2. walk' = [walk EXCEPT !.step = "counted", !.total = count, !.late = FALSE]
  BY DEF CountRows
<1>3. walk.filter = "all" => count = Len(shelf)
  BY <1>1, RowsPlaced DEF IsWalk
<1> HIDE DEF count
<1>4. /\ IsWalk(walk') /\ walk'.step = "counted" /\ walk'.total = count /\ walk'.skip = walk.skip
      /\ walk'.sort = walk.sort /\ walk'.owed = walk.owed /\ walk'.shown = walk.shown
      /\ walk'.filter = walk.filter /\ walk'.gone = walk.gone
  BY <1>1, <1>2 DEF IsWalk
<1>5. WalkTrue(walk', shelf, listed)
  BY <1>1, <1>3, <1>4 DEF WalkTrue, Ahead, Promised
<1> QED
  BY <1>1, <1>4, <1>5 DEF LibraryInv

LEMMA PageKeeps == ASSUME LibraryInv, ReadPage PROVE LibraryInv'
<1>1. /\ UNCHANGED <<listed, shelf, status>> /\ walk.step = "counted" /\ IsWalk(walk)
      /\ WalkTrue(walk, shelf, listed) /\ Listing(shelf) /\ shelf \in Seq(ShelfRow) /\ Len(shelf) \in Nat
      /\ PageSize \in Nat
  BY LibraryAssumption DEF ReadPage, LibraryInv, NoWalk, Listing
<1> DEFINE got == Page(Rows(walk.sort, walk.filter), walk.skip)
<1>2. walk' = [walk EXCEPT !.shown = walk.shown \cup got, !.skip = walk.skip + PageSize,
                           !.step = IF More(got) THEN "asking" ELSE "over"]
  BY DEF ReadPage
<1>3. walk.filter = "all" =>
        /\ Cardinality(got) \in Nat /\ Cardinality(got) <= PageSize
        /\ \A i \in 1 .. Len(shelf) :
             walk.skip < i /\ i <= walk.skip + PageSize => AtPlace(shelf, walk.sort, i) \in got
  <2> SUFFICES ASSUME walk.filter = "all"
               PROVE  /\ Cardinality(got) \in Nat /\ Cardinality(got) <= PageSize
                      /\ \A i \in 1 .. Len(shelf) : walk.skip < i /\ i <= walk.skip + PageSize =>
                           AtPlace(shelf, walk.sort, i) \in got
    OBVIOUS
  <2>1. walk.sort \in {"asc", "desc"} /\ walk.skip \in Nat
    BY <1>1 DEF IsWalk
  <2>2. /\ DOMAIN Rows(walk.sort, "all") = 1 .. Len(shelf)
        /\ \A i \in 1 .. Len(shelf) : Rows(walk.sort, "all")[i] = AtPlace(shelf, walk.sort, i)
    BY <1>1, <2>1, RowsPlaced
  <2> QED
    BY <1>1, <2>1, <2>2, PageFits DEF Page
<1>4. ~More(got) /\ walk.total = Len(shelf) /\ walk.filter = "all" => Len(shelf) <= walk.skip + PageSize
  BY <1>1, <1>3 DEF More, IsWalk
<1> HIDE DEF got
<1>5. /\ IsWalk(walk') /\ walk'.skip = walk.skip + PageSize /\ walk'.shown = walk.shown \cup got
      /\ walk'.step = (IF More(got) THEN "asking" ELSE "over") /\ walk.skip \in Nat
      /\ walk'.sort = walk.sort /\ walk'.owed = walk.owed /\ walk'.late = walk.late
      /\ walk'.filter = walk.filter /\ walk'.gone = walk.gone
  <2> DEFINE next == IF More(got) THEN "asking" ELSE "over"
  <2>1. next \in {"asking", "over"} /\ next = (IF More(got) THEN "asking" ELSE "over")
    OBVIOUS
  <2> HIDE DEF next
  <2>2. walk' = [walk EXCEPT !.shown = walk.shown \cup got, !.skip = walk.skip + PageSize, !.step = next]
    BY <1>2, <2>1
  <2>3. walk.skip + PageSize \in Nat /\ walk.skip \in Nat
    BY <1>1 DEF IsWalk
  <2>4. /\ IsWalk(walk') /\ walk'.skip = walk.skip + PageSize /\ walk'.shown = walk.shown \cup got
        /\ walk'.step = next /\ walk'.sort = walk.sort /\ walk'.owed = walk.owed /\ walk'.late = walk.late
        /\ walk'.filter = walk.filter /\ walk'.gone = walk.gone
    BY <1>1, <2>1, <2>2, <2>3 DEF IsWalk
  <2> QED
    BY <2>1, <2>3, <2>4
<1>6. ASSUME Promised(walk', listed), NEW r \in walk'.owed \ walk'.shown
      PROVE  /\ \E i \in 1 .. Len(shelf) : walk'.skip < i /\ AtPlace(shelf, walk'.sort, i) = r
             /\ ~(~More(got) /\ ~walk'.late)
  <2>1. Promised(walk, listed) /\ walk.filter = "all" /\ r \in walk.owed \ walk.shown /\ r \notin got
    BY <1>5, <1>6 DEF Promised
  <2>2. PICK i \in 1 .. Len(shelf) : walk.skip < i /\ AtPlace(shelf, walk.sort, i) = r
    BY <1>1, <2>1 DEF WalkTrue, Ahead
  <2>3. ~(i <= walk.skip + PageSize)
    BY <1>3, <2>1, <2>2
  <2>4. ~walk.late => walk.total = Len(shelf)
    BY <1>1, <2>1 DEF WalkTrue
  <2> QED
    BY <1>1, <1>4, <1>5, <2>1, <2>2, <2>3, <2>4
<1>7. WalkTrue(walk', shelf, listed)
  BY <1>5, <1>6 DEF WalkTrue, Ahead
<1> QED
  BY <1>1, <1>5, <1>7 DEF LibraryInv

LEMMA LibraryInvariant == LibrarySpec => []LibraryInv
<1>1. LibraryInit => LibraryInv
  <2> SUFFICES ASSUME LibraryInit PROVE LibraryInv
    OBVIOUS
  <2>1. Listing(<<>>) /\ Len(<<>>) = 0
    BY DEF Listing
  <2> QED
    BY <2>1 DEF LibraryInit, LibraryInv, StatusNames
<1>2. LibraryInv /\ [LibraryNext]_libraryVars => LibraryInv'
  <2> SUFFICES ASSUME LibraryInv, [LibraryNext]_libraryVars PROVE LibraryInv'
    OBVIOUS
  <2>1. ASSUME NEW w \in ShelfRow, NEW s, Add(w, s), s \in StatusNames \ {"absent"} PROVE LibraryInv'
    BY <2>1, TopKeeps DEF Add
  <2>2. ASSUME NEW w \in ShelfRow, NEW s, Touch(w, s), s \in StatusNames \ {"absent"}, listed # "schedules"
        PROVE  LibraryInv'
    BY <2>2, TopKeeps DEF Touch
  <2>3. ASSUME NEW c, AnswerOne(c) PROVE LibraryInv'
    BY <2>3, ShelfStays DEF AnswerOne
  <2> USE DEF StatusNames
  <2>4. ASSUME NEW w \in ShelfRow,
               \/ CreateWorkflow(w) \/ ImportWorkflow(w) \/ ReadOne(w) \/ ValidateWorkflow(w) \/ ChangeWorkflow(w)
               \/ \E source \in ShelfRow : CloneWorkflow(source, w)
        PROVE  LibraryInv'
    BY <2>1, <2>2, <2>3, <2>4
       DEF CreateWorkflow, ImportWorkflow, ReadOne, ValidateWorkflow, ChangeWorkflow, CloneWorkflow, WorkflowStates
  <2>5. ASSUME NEW w \in ShelfRow, AddExecution(w) \/ StartExecution(w) \/ FinishExecution(w) PROVE LibraryInv'
    BY <2>1, <2>2, <2>5, ShelfStays DEF AddExecution, StartExecution, FinishExecution
  <2>6. ASSUME NEW w \in ShelfRow, CreateSchedule(w) \/ ReadSchedule(w) \/ TriggerSchedule(w) PROVE LibraryInv'
    BY <2>1, <2>3, <2>6 DEF CreateSchedule, ReadSchedule, TriggerSchedule
  <2>7. ASSUME NEW w \in ShelfRow, ChangeSchedule(w) PROVE LibraryInv'
    BY <2>7, ShelfStays DEF ChangeSchedule, ScheduleStates
  <2>8. CASE SummariseSchedules \/ UNCHANGED libraryVars
    BY <2>8, ShelfStays DEF SummariseSchedules, libraryVars
  <2> QED
    BY <2>4, <2>5, <2>6, <2>7, <2>8, RemovalKeeps, BeginKeeps, CountKeeps, PageKeeps DEF LibraryNext
<1> QED
  BY <1>1, <1>2, PTL DEF LibrarySpec

(* For any number of rows, any size of a page and any changes meanwhile: a  *)
(* walk over the pages, newest first and not filtered, misses no row that   *)
(* was there when it began and was left alone; nor does a walk over         *)
(* schedules in either order, unless one was deleted.                       *)
THEOREM WalksShowAll == LibrarySpec => []WalkShowsAll
<1>1. LibraryInv => WalkShowsAll
  BY DEF LibraryInv, WalkTrue, WalkShowsAll, Promised, NoWalk
<1> QED
  BY <1>1, LibraryInvariant, PTL

(***************************************************************************)
(* The type of the lists: a row is listed where it is the user's and there,*)
(* and once; of another's, nothing is ever changed.                        *)
(***************************************************************************)
OnShelf(w) == \E i \in 1 .. Len(shelf) : shelf[i] = w

Shelved ==
    /\ touches \in 0 .. MaxTouches /\ status \in [ShelfRow -> States \cup {"absent", "DRAFT"}]
    /\ \A w \in ShelfRow : OnShelf(w) <=> w \notin Theirs /\ status[w] # "absent"
    /\ \A w \in Theirs : status[w] = "DRAFT"

LEMMA ShelfIsSet ==
    ASSUME Listing(shelf)
    PROVE  /\ \A w : w \in ToSet(shelf) <=> OnShelf(w)
           /\ Len(shelf) = Cardinality(ToSet(shelf))
<1>1. shelf \in Seq(ShelfRow) /\ DOMAIN shelf = 1 .. Len(shelf) /\ Len(shelf) \in Nat
  BY DEF Listing
<1>2. \A w : w \in ToSet(shelf) <=> OnShelf(w)
  BY <1>1 DEF ToSet, OnShelf
<1> DEFINE places == 1 .. Len(shelf)
           f == [i \in places |-> shelf[i]]
           rows == ToSet(shelf)
<1>3. \A w : w \in rows <=> \E i \in places : shelf[i] = w
  BY <1>2 DEF OnShelf
<1>4. \A i, j \in places : shelf[i] = shelf[j] => i = j
  BY DEF Listing
<1>5. IsFiniteSet(places) /\ Cardinality(places) = Len(shelf)
  BY <1>1, FS_Interval
<1> HIDE DEF places, rows
<1>6. f \in [places -> rows]
  BY <1>3
<1>7. f \in Bijection(places, rows)
  BY <1>3, <1>4, <1>6 DEF Bijection, Injection, IsInjective, Surjection
<1>8. ExistsBijection(places, rows)
  BY <1>7, Zenon DEF ExistsBijection
<1>9. Cardinality(rows) = Cardinality(places)
  BY <1>5, <1>8, FS_Bijection
<1> QED
  BY <1>2, <1>5, <1>9 DEF rows

(* What an addition and a change have in common: one row of the user's is   *)
(* put first, and has a status then.                                        *)
LEMMA TopShelved ==
    ASSUME LibraryInv, Shelved, NEW w \in ShelfRow, w \notin Theirs, PutOnTop(w),
           NEW s, s \in (States \cup {"DRAFT"}) \ {"absent"}, status' = [status EXCEPT ![w] = s],
           listed' = listed, touches' \in 0 .. MaxTouches
    PROVE  Shelved'
<1>1. Listing(shelf) /\ status \in [ShelfRow -> States \cup {"absent", "DRAFT"}]
  BY DEF LibraryInv, Shelved
<1>2. States' = States
  BY DEF States
<1>3. /\ \A v \in ShelfRow : v # w => status'[v] = status[v]
      /\ status'[w] = s /\ status' \in [ShelfRow -> States' \cup {"absent", "DRAFT"}]
  BY <1>1, <1>2
<1>4. OnShelf(w)'
  BY <1>1, PutFirst DEF OnShelf
<1>5. ASSUME NEW v \in ShelfRow, v # w PROVE OnShelf(v)' <=> OnShelf(v)
  <2>1. \A i \in 1 .. Len(shelf') : shelf'[i] = w \/ \E j \in 1 .. Len(shelf) : shelf'[i] = shelf[j]
    BY <1>1, PutFirst
  <2>2. \A i \in 1 .. Len(shelf) : shelf[i] # w =>
          \E j \in {i, i + 1} : j \in 1 .. Len(shelf') /\ shelf'[j] = shelf[i]
    BY <1>1, PutFirst
  <2>3. OnShelf(v)' => OnShelf(v)
    BY <1>5, <2>1 DEF OnShelf
  <2>4. OnShelf(v) => OnShelf(v)'
    BY <1>5, <2>2 DEF OnShelf
  <2> QED
    BY <2>3, <2>4
<1>6. \A v \in ShelfRow : OnShelf(v)' <=> v \notin Theirs /\ status'[v] # "absent"
  BY <1>3, <1>4, <1>5 DEF Shelved
<1>7. \A v \in Theirs : status'[v] = "DRAFT"
  BY <1>3, LibraryAssumption DEF Shelved
<1> QED
  BY <1>3, <1>6, <1>7 DEF Shelved

(* What leaves the list alone gives no row another status than it had, or   *)
(* than a listed row may have.                                              *)
LEMMA ListShelved ==
    ASSUME Shelved, UNCHANGED <<listed, shelf>>, touches' \in 0 .. MaxTouches,
           \/ status' = status
           \/ \E w \in ShelfRow, s \in States :
                /\ w \notin Theirs /\ status[w] # "absent" /\ s # "absent"
                /\ status' = [status EXCEPT ![w] = s]
    PROVE  Shelved'
<1>1. States' = States /\ \A v : OnShelf(v)' <=> OnShelf(v)
  BY DEF States, OnShelf
<1>2. CASE status' = status
  BY <1>1, <1>2 DEF Shelved
<1>3. ASSUME NEW w \in ShelfRow, NEW s \in States, w \notin Theirs, status[w] # "absent", s # "absent",
             status' = [status EXCEPT ![w] = s]
      PROVE  Shelved'
  <2>1. /\ \A v \in ShelfRow : v # w => status'[v] = status[v]
        /\ status'[w] = s /\ status' \in [ShelfRow -> States \cup {"absent", "DRAFT"}]
    BY <1>3 DEF Shelved
  <2>2. \A v \in ShelfRow : OnShelf(v)' <=> v \notin Theirs /\ status'[v] # "absent"
    BY <1>1, <1>3, <2>1 DEF Shelved
  <2>3. \A v \in Theirs : status'[v] = "DRAFT"
    BY <1>3, <2>1, LibraryAssumption DEF Shelved
  <2> QED
    BY <1>1, <2>1, <2>2, <2>3 DEF Shelved
<1> QED
  BY <1>2, <1>3

LEMMA DeleteShelved ==
    ASSUME LibraryInv, Shelved, NEW w \in ShelfRow, DeleteSchedule(w) PROVE Shelved'
<1>1. /\ w \notin Theirs /\ status[w] # "absent" /\ listed' = listed /\ shelf' = AllBut(w)
      /\ touches < MaxTouches /\ touches' = touches + 1 /\ status' = [status EXCEPT ![w] = "absent"]
  BY DEF DeleteSchedule, LoadSchedule, Load
<1>2. touches' \in 0 .. MaxTouches
  BY <1>1, LibraryAssumption DEF Shelved
<1>3. States' = States
  BY <1>1 DEF States
<1>4. /\ \A v \in ShelfRow : v # w => status'[v] = status[v]
      /\ status'[w] = "absent" /\ status' \in [ShelfRow -> States \cup {"absent", "DRAFT"}]
  BY <1>1 DEF Shelved
<1>5. Listing(shelf)
  BY DEF LibraryInv
<1>6. /\ \A i \in 1 .. Len(AllBut(w)) : AllBut(w)[i] # w
      /\ \A i \in 1 .. Len(AllBut(w)) :
            \/ AllBut(w)[i] = shelf[i] /\ i \in 1 .. Len(shelf)
            \/ i + 1 \in 1 .. Len(shelf) /\ AllBut(w)[i] = shelf[i + 1]
      /\ \A i \in 1 .. Len(shelf) : shelf[i] # w =>
           \E j \in {i - 1, i} : j \in 1 .. Len(AllBut(w)) /\ AllBut(w)[j] = shelf[i]
  <2>1. /\ AllBut(w) \in Seq(ShelfRow) /\ shelf \in Seq(ShelfRow)
        /\ Len(AllBut(w)) = Len(shelf) \/ Len(AllBut(w)) = Len(shelf) - 1
    BY <1>5, Removed DEF Listing
  <2>2. Len(AllBut(w)) \in Nat /\ Len(shelf) \in Nat
    BY <2>1
  <2>3. \A i \in 1 .. Len(AllBut(w)) : i \in 1 .. Len(shelf)
    BY <2>1, <2>2
  <2>4. \A i \in 1 .. Len(AllBut(w)) :
            \/ AllBut(w)[i] = shelf[i]
            \/ i + 1 \in 1 .. Len(shelf) /\ AllBut(w)[i] = shelf[i + 1]
    BY <1>5, Removed
  <2> QED
    BY <1>5, <2>3, <2>4, Removed
<1>7. ~OnShelf(w)'
  BY <1>1, <1>6 DEF OnShelf
<1>8. ASSUME NEW v \in ShelfRow, v # w PROVE OnShelf(v)' <=> OnShelf(v)
  BY <1>1, <1>6, <1>8 DEF OnShelf
<1>9. \A v \in ShelfRow : OnShelf(v)' <=> v \notin Theirs /\ status'[v] # "absent"
  BY <1>4, <1>7, <1>8 DEF Shelved
<1>10. \A v \in Theirs : status'[v] = "DRAFT"
  BY <1>1, <1>4, LibraryAssumption DEF Shelved
<1> QED
  BY <1>2, <1>3, <1>4, <1>9, <1>10 DEF Shelved

LEMMA ShelvedKept == LibraryInv /\ Shelved /\ [LibraryNext]_libraryVars => Shelved'
<1> SUFFICES ASSUME LibraryInv, Shelved, [LibraryNext]_libraryVars PROVE Shelved'
  OBVIOUS
<1>0. /\ touches \in 0 .. MaxTouches /\ MaxTouches \in Nat
      /\ touches < MaxTouches => touches + 1 \in 0 .. MaxTouches
  BY LibraryAssumption DEF Shelved
<1>1. ASSUME NEW w \in ShelfRow, NEW s, Add(w, s), s \in (States \cup {"DRAFT"}) \ {"absent"}
      PROVE  Shelved'
  <2>1. w \notin Theirs
    BY <1>1 DEF Add, Shelved
  <2> QED
    BY <1>0, <1>1, <2>1, TopShelved DEF Add
<1>2. ASSUME NEW w \in ShelfRow, NEW s, Touch(w, s), s \in (States \cup {"DRAFT"}) \ {"absent"}
      PROVE  Shelved'
  <2>1. OnShelf(w)
    BY <1>2, ShelfIsSet DEF Touch, LibraryInv
  <2>2. w \notin Theirs
    BY <2>1 DEF Shelved
  <2> QED
    BY <1>0, <1>2, <2>2, TopShelved DEF Touch
<1>3. ASSUME NEW c, AnswerOne(c) PROVE Shelved'
  BY <1>0, <1>3, ListShelved DEF AnswerOne
<1>4. /\ listed = "workflows" => States = WorkflowStates
      /\ listed = "executions" => States = ExecutionStates
      /\ listed = "schedules" => States = ScheduleStates
  BY DEF States
<1>5. \A s \in WorkflowStates \cup ExecutionStates \cup ScheduleStates : s # "absent"
  BY DEF WorkflowStates, ExecutionStates, ScheduleStates
<1>6. ASSUME NEW w \in ShelfRow,
             \/ CreateWorkflow(w) \/ ImportWorkflow(w) \/ ReadOne(w) \/ ValidateWorkflow(w)
             \/ \E source \in ShelfRow : CloneWorkflow(source, w)
      PROVE  Shelved'
  BY <1>1, <1>3, <1>6 DEF CreateWorkflow, ImportWorkflow, ReadOne, ValidateWorkflow, CloneWorkflow
<1>7. ASSUME NEW w \in ShelfRow, ChangeWorkflow(w) PROVE Shelved'
  BY <1>2, <1>4, <1>5, <1>7 DEF ChangeWorkflow
<1>8. ASSUME NEW w \in ShelfRow, AddExecution(w) \/ StartExecution(w) PROVE Shelved'
  BY <1>1, <1>2, <1>4, <1>8 DEF AddExecution, StartExecution, ExecutionStates
<1>9. ASSUME NEW w \in ShelfRow, FinishExecution(w) PROVE Shelved'
  <2>1. "COMPLETED" \in States
    BY <1>4, <1>9 DEF FinishExecution, ExecutionStates
  <2>2. w \notin Theirs /\ status[w] # "absent"
    BY <1>9 DEF FinishExecution, Shelved
  <2> QED
    BY <1>0, <1>9, <2>1, <2>2, ListShelved DEF FinishExecution
<1>10. ASSUME NEW w \in ShelfRow, CreateSchedule(w) \/ ReadSchedule(w) \/ TriggerSchedule(w) PROVE Shelved'
  BY <1>1, <1>3, <1>4, <1>10 DEF CreateSchedule, ReadSchedule, TriggerSchedule, ScheduleStates
<1>11. ASSUME NEW w \in ShelfRow, ChangeSchedule(w) PROVE Shelved'
  <2>1. PICK s \in ScheduleStates : status' = [status EXCEPT ![w] = s]
    BY <1>11 DEF ChangeSchedule
  <2>2. OnShelf(w)
    BY <1>11, ShelfIsSet DEF ChangeSchedule, LibraryInv
  <2>3. w \notin Theirs /\ status[w] # "absent"
    BY <2>2 DEF Shelved
  <2>4. s \in States /\ s # "absent"
    BY <1>4, <1>5, <1>11 DEF ChangeSchedule
  <2> QED
    BY <1>0, <1>11, <2>1, <2>3, <2>4, ListShelved DEF ChangeSchedule
<1>12. CASE SummariseSchedules \/ BeginWalk \/ CountRows \/ ReadPage \/ UNCHANGED libraryVars
  <2>1. UNCHANGED <<listed, shelf, status, touches>>
    BY <1>12 DEF SummariseSchedules, BeginWalk, CountRows, ReadPage, libraryVars
  <2> QED
    BY <1>0, <2>1, ListShelved
<1> QED
  BY <1>6, <1>7, <1>8, <1>9, <1>10, <1>11, <1>12, DeleteShelved DEF LibraryNext

LEMMA LibraryTypes == LibrarySpec => []LibraryTypeOK
<1>1. LibraryInit => Shelved
  <2> SUFFICES ASSUME LibraryInit PROVE Shelved
    OBVIOUS
  <2>1. \A w : ~OnShelf(w)
    BY DEF LibraryInit, OnShelf
  <2> QED
    BY <2>1, LibraryAssumption DEF LibraryInit, Shelved
<1>2. LibraryInv /\ Shelved => LibraryTypeOK
  <2> SUFFICES ASSUME LibraryInv, Shelved PROVE LibraryTypeOK
    OBVIOUS
  <2>1. Listing(shelf)
    BY DEF LibraryInv
  <2>2. \A i \in 1 .. Len(shelf) : shelf[i] \in ShelfRow
    BY <2>1 DEF Listing
  <2>3. ToSet(shelf) = {w \in ShelfRow \ Theirs : status[w] # "absent"}
    <3>1. \A w : w \in ToSet(shelf) <=> w \in ShelfRow /\ OnShelf(w)
      BY <2>1, <2>2, ShelfIsSet DEF OnShelf
    <3> QED
      BY <3>1 DEF Shelved
  <2>4. walk.step \in {"idle", "asking", "counted", "over"}
    BY DEF LibraryInv, NoWalk, IsWalk
  <2> QED
    BY <2>1, <2>3, <2>4, ShelfIsSet DEF LibraryInv, Shelved, LibraryTypeOK
<1> QED
  BY <1>1, <1>2, LibraryInvariant, ShelvedKept, PTL DEF LibrarySpec
=============================================================================

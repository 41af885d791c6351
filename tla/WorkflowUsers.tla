---------------------------- MODULE WorkflowUsers ----------------------------
(***************************************************************************)
(* The workflow API knows its users from a table of its own, with a row    *)
(* for each account that has called it. The middleware loads the account;  *)
(* the dependency of the endpoint looks for the row and adds it where it   *)
(* is missing, as the account was when it was loaded. Both tables hold an  *)
(* email once, but a row is never written again, while accounts change     *)
(* their emails, close, and others take the emails up.                     *)
(***************************************************************************)
EXTENDS Sessions, FiniteSets

CONSTANTS
    Member,       \* accounts
    Email,
    MemberCall,   \* requests to the workflow API
    MaxMoves      \* bound on changes of emails

NoAccount == [email |-> "none", active |-> FALSE]

ASSUME MembersAssumption == MaxMoves \in Nat /\ NoAccount.email \notin Email

VARIABLES
    account,      \* [Member -> [email, active]] of table users, or NoAccount
    mirror,       \* [Member -> [email, active]] of table user, or NoAccount
    memberCall,   \* [MemberCall -> how far it is, and the account it read]
    givenUp,      \* emails that an account has changed
    known,        \* accounts that were served
    moves

memberVars == <<account, mirror, memberCall, givenUp, known, moves>>

NotCalling == [step |-> "idle"]

MembersInit ==
    /\ account = [a \in Member |-> NoAccount] /\ mirror = account
    /\ memberCall = [r \in MemberCall |-> NotCalling]
    /\ givenUp = {} /\ known = {} /\ moves = 0

Holds(table, e) == \E a \in Member : table[a].email = e

-----------------------------------------------------------------------------
(* signup_user: looked for and inserted, and refused by the index if two    *)
(* come at once.                                                            *)
SignUp(a, e) ==
    /\ account[a] = NoAccount /\ ~Holds(account, e)
    /\ account' = [account EXCEPT ![a] = [email |-> e, active |-> TRUE]]
    /\ UNCHANGED <<mirror, memberCall, givenUp, known, moves>>

(* update_user_profile, where the index refuses an email that is taken.     *)
ChangeEmail(a, e) ==
    /\ account[a].active /\ ~Holds(account, e) /\ moves < MaxMoves /\ moves' = moves + 1
    /\ account' = [account EXCEPT ![a].email = e]
    /\ givenUp' = givenUp \cup {account[a].email}
    /\ UNCHANGED <<mirror, memberCall, known>>

Deactivate(a) ==
    /\ account[a].active /\ account' = [account EXCEPT ![a].active = FALSE]
    /\ UNCHANGED <<mirror, memberCall, givenUp, known, moves>>

-----------------------------------------------------------------------------
Ends(r, code) == memberCall' = [memberCall EXCEPT ![r] = [@ EXCEPT !.step = code]]

(* The middleware: an account that is not active is refused.                *)
LoadAccount(r, a) ==
    /\ memberCall[r].step \in {"idle", "200", "401", "403", "500"} /\ account[a] # NoAccount
    /\ memberCall' = [memberCall EXCEPT ![r] =
         [step |-> IF account[a].active THEN "loaded" ELSE "401", by |-> a, read |-> account[a]]]
    /\ UNCHANGED <<account, mirror, givenUp, known, moves>>

Serve(r, row) ==
    /\ Ends(r, IF row.active THEN "200" ELSE "403")
    /\ known' = IF row.active THEN known \cup {memberCall[r].by} ELSE known

FindRow(r) ==
    /\ memberCall[r].step = "loaded"
    /\ LET row == mirror[memberCall[r].by] IN
         IF row = NoAccount THEN Ends(r, "missing") /\ UNCHANGED known ELSE Serve(r, row)
    /\ UNCHANGED <<account, mirror, givenUp, moves>>

InsertRow_Overwrites(r) ==
    LET a == memberCall[r].by IN
    /\ memberCall[r].step = "missing"
    /\ mirror' = [m \in Member |-> IF m = a THEN memberCall[r].read
                                   ELSE IF mirror[m].email = memberCall[r].read.email THEN NoAccount ELSE mirror[m]]
    /\ Serve(r, mirror'[a])
    /\ UNCHANGED <<account, givenUp, moves>>

(* "User sync failed": the row is there by now, or its email is.            *)
InsertRow(r) ==
    LET a == memberCall[r].by IN
    /\ memberCall[r].step = "missing"
    /\ IF mirror[a] # NoAccount \/ Holds(mirror, memberCall[r].read.email)
       THEN Ends(r, "500") /\ UNCHANGED <<mirror, known>>
       ELSE /\ mirror' = [mirror EXCEPT ![a] = memberCall[r].read]
            /\ Serve(r, memberCall[r].read)
    /\ UNCHANGED <<account, givenUp, moves>>

MembersNext ==
    \/ \E a \in Member :
         \/ \E e \in Email : SignUp(a, e) \/ ChangeEmail(a, e)
         \/ Deactivate(a)
         \/ \E r \in MemberCall : LoadAccount(r, a)
    \/ \E r \in MemberCall : FindRow(r) \/ InsertRow(r)

MembersSpec == MembersInit /\ [][MembersNext]_memberVars

-----------------------------------------------------------------------------
MembersTypeOK ==
    /\ account \in [Member -> [email : Email, active : BOOLEAN] \cup {NoAccount}]
    /\ mirror \in [Member -> [email : Email, active : BOOLEAN] \cup {NoAccount}]
    /\ givenUp \subseteq Email /\ known \subseteq Member /\ moves \in 0 .. MaxMoves
    /\ \A r \in MemberCall : memberCall[r].step \in {"idle", "loaded", "missing", "200", "401", "403", "500"}

(* An account that was served once keeps its row, and no two rows have one  *)
(* email. A request of an active account is refused only where another      *)
(* request of it has added the row meanwhile, so that it will be served the *)
(* next time, or where its email was an other account's before, whose row   *)
(* still has it; then it is never served. (No answer is ever 403.)          *)
OwnRow ==
    /\ \A a \in known : mirror[a] # NoAccount
    /\ \A a, b \in Member : mirror[a] # NoAccount /\ mirror[a].email = mirror[b].email => a = b
    /\ \A r \in MemberCall :
         /\ memberCall[r].step # "403"
         /\ memberCall[r].step = "500" =>
              mirror[memberCall[r].by] # NoAccount \/ memberCall[r].read.email \in givenUp

(* An account's requests are served: its browser has a session that lives,  *)
(* and the workflow API a row of its own for it.                            *)
AccountServed == SessionsSound /\ OwnRow
=============================================================================

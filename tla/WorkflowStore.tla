----------------------------- MODULE WorkflowStore -----------------------------
(***************************************************************************)
(* One workflow's row and its versions, under the owner's concurrent       *)
(* requests. A request reads the row, then its versions with a second      *)
(* query (selectin), and decides from both; nothing is locked. Its commit  *)
(* inserts a version under the unique index on (workflow, number) and      *)
(* updates those columns of the row that differ from what it read, as the  *)
(* session does for changed attributes.                                    *)
(***************************************************************************)
EXTENDS Naturals, FiniteSets

CONSTANTS
    StoreRequest,
    Graph,
    ValidGraph,     \* the graphs GraphValidationService accepts
    MaxVersions     \* bound on the versions in the table

ASSUME StoreAssumption ==
    ValidGraph \subseteq Graph /\ Graph # {} /\ MaxVersions \in Nat \ {0}

VARIABLES
    row,        \* [graph, status, active_version, version]
    versions,   \* the rows of workflowversion: [number, graph]
    request     \* [StoreRequest -> [step, kind, read, count, graph, status, answer]]

storeVars == <<row, versions, request>>

Status == {"DRAFT", "PUBLISHED", "ARCHIVED"}
NoField == "keep"       \* a field the request does not have

transitions == [DRAFT     |-> {"PUBLISHED", "ARCHIVED"},
                PUBLISHED |-> {"DRAFT", "ARCHIVED"},
                ARCHIVED  |-> {"DRAFT"}]

SnapshotOf(n) == (CHOOSE v \in versions : v.number = n).graph

(* create_workflow: a draft is stored whatever its graph is worth.          *)
StoreInit ==
    /\ \E g \in Graph :
         /\ row = [graph |-> g, status |-> "DRAFT", active_version |-> 1, version |-> 1]
         /\ versions = {[number |-> 1, graph |-> g]}
    /\ request = [r \in StoreRequest |->
                   [step |-> "none", kind |-> "none", read |-> row, count |-> 0,
                    graph |-> row.graph, status |-> NoField, answer |-> "none"]]

Refuse(r, why) == request' = [request EXCEPT ![r].step = "over", ![r].answer = why]

-----------------------------------------------------------------------------
(* A PUT names a graph, a status or both; a restore names a version.        *)
ReadWorkflow(r) ==
    /\ request[r].step = "none"
    /\ \E kind \in {"put", "publish", "delete", "restore"}, status \in Status \cup {NoField} :
         /\ kind # "put" => status = NoField
         /\ request' = [request EXCEPT ![r].step = "read", ![r].kind = kind,
                                       ![r].read = row, ![r].status = status]
    /\ UNCHANGED <<row, versions>>

ReadVersions(r) ==
    /\ request[r].step = "read"
    /\ request' = [request EXCEPT ![r].step = "decide", ![r].count = Cardinality(versions)]
    /\ UNCHANGED <<row, versions>>

(* update_workflow: the transition and, if the result is published, the     *)
(* graph are judged by the row as it was read.                              *)
DecideUpdate(r) ==
    LET q == request[r]
        target == IF q.status = NoField THEN q.read.status ELSE q.status
    IN
    /\ q.step = "decide" /\ q.kind = "put"
    /\ \E newGraph \in BOOLEAN, g \in Graph :
         /\ ~newGraph => g = q.read.graph
         /\ IF \/ target \notin transitions[q.read.status] \cup {q.read.status}
               \/ target = "PUBLISHED" /\ g \notin ValidGraph
            THEN Refuse(r, "refused")
            ELSE request' = [request EXCEPT
                   ![r].step = IF newGraph THEN "insert" ELSE "commit",
                   ![r].graph = g, ![r].status = target]
    /\ UNCHANGED <<row, versions>>

(* The publish endpoint has code of its own: no transition is checked.      *)
DecidePublish(r) ==
    /\ request[r].step = "decide" /\ request[r].kind = "publish"
    /\ IF request[r].read.graph \in ValidGraph
       THEN request' = [request EXCEPT ![r].step = "commit", ![r].status = "PUBLISHED",
                                       ![r].graph = request[r].read.graph]
       ELSE Refuse(r, "refused")
    /\ UNCHANGED <<row, versions>>

DecideDelete(r) ==
    /\ request[r].step = "decide" /\ request[r].kind = "delete"
    /\ request' = [request EXCEPT ![r].step = "commit", ![r].status = "ARCHIVED",
                                  ![r].graph = request[r].read.graph]
    /\ UNCHANGED <<row, versions>>

(* A restore takes the old snapshot as it is, whatever the status.          *)
DecideRestore(r) ==
    /\ request[r].step = "decide" /\ request[r].kind = "restore"
    /\ \E v \in versions :
         request' = [request EXCEPT ![r].step = "insert", ![r].graph = v.graph,
                                    ![r].status = request[r].read.status]
    /\ UNCHANGED <<row, versions>>

(* Only what differs from the row as it was read is written.                *)
Written(r) ==
    LET q == request[r] IN
    [row EXCEPT !.graph = IF q.graph # q.read.graph THEN q.graph ELSE @,
                !.status = IF q.status # q.read.status THEN q.status ELSE @]

CommitRow(r) ==
    /\ request[r].step = "commit"
    /\ row' = Written(r)
    /\ request' = [request EXCEPT ![r].step = "over", ![r].answer = "ok"]
    /\ UNCHANGED versions

CommitVersion_Unindexed(r) ==
    LET next == request[r].count + 1 IN
    /\ request[r].step = "insert" /\ Cardinality(versions) < MaxVersions
    /\ versions' = versions \cup {[number |-> next, graph |-> request[r].graph]}
    /\ row' = [Written(r) EXCEPT !.active_version = next]
    /\ request' = [request EXCEPT ![r].step = "over", ![r].answer = "ok"]

(* The next number is the count that was read, plus one. If somebody took   *)
(* it meanwhile the index refuses it and the whole request is rolled back.  *)
(* A restore leaves the row's own version number behind.                    *)
CommitVersion(r) ==
    LET next == request[r].count + 1 IN
    /\ request[r].step = "insert" /\ Cardinality(versions) < MaxVersions
    /\ IF \E v \in versions : v.number = next
       THEN Refuse(r, "conflict") /\ UNCHANGED <<row, versions>>
       ELSE /\ versions' = versions \cup {[number |-> next, graph |-> request[r].graph]}
            /\ row' = [Written(r) EXCEPT
                 !.active_version = next,
                 !.version = IF request[r].kind = "put" THEN next ELSE @]
            /\ request' = [request EXCEPT ![r].step = "over", ![r].answer = "ok"]

StoreRequestStep(r) ==
    \/ ReadWorkflow(r) \/ ReadVersions(r)
    \/ DecideUpdate(r) \/ DecidePublish(r) \/ DecideDelete(r) \/ DecideRestore(r)
    \/ CommitRow(r) \/ CommitVersion(r)

StoreNext == \E r \in StoreRequest : StoreRequestStep(r)

StoreSpec == StoreInit /\ [][StoreNext]_storeVars

-----------------------------------------------------------------------------
StoreTypeOK ==
    LET RowValue == [graph : Graph, status : Status,
                 active_version : 1 .. MaxVersions, version : 1 .. MaxVersions]
    IN
    /\ row \in RowValue
    /\ versions \subseteq [number : 1 .. MaxVersions, graph : Graph]
    /\ request \in [StoreRequest ->
         [step : {"none", "read", "decide", "insert", "commit", "over"},
          kind : {"none", "put", "publish", "delete", "restore"}, read : RowValue,
          count : 0 .. MaxVersions, graph : Graph, status : Status \cup {NoField},
          answer : {"none", "ok", "refused", "conflict"}]]

(* The row was read before a version that was counted after.                *)
Torn(r) == request[r].count > request[r].read.active_version

(* Versions are numbered 1..n without a gap or a double, the active one is  *)
(* the newest, and its snapshot is the row's graph, whoever races whom;     *)
(* only a request whose two reads fell on either side of another's commit   *)
(* can leave the row with a graph that is not its active version's.         *)
ActiveIsNewest ==
    LET n == Cardinality(versions) IN
    /\ {v.number : v \in versions} = 1 .. n
    /\ row.active_version = n
    /\ SnapshotOf(n) # row.graph =>
         \E r \in StoreRequest : Torn(r) /\ request[r].answer = "ok"
=============================================================================

--------------------------- MODULE ServicesProofs ---------------------------
(***************************************************************************)
(* Theorems about the components that share no state, side by side as      *)
(* MCServices has them, and about two of them that have no other module of *)
(* proofs: a workflow's row with its versions, for any number of requests, *)
(* graphs and versions, and the validation of a graph, for every graph.    *)
(***************************************************************************)
EXTENDS MCServices, AgentProofs, BackgroundJobProofs, NodeProofs

-----------------------------------------------------------------------------
(* The types of what a request holds of the row and of its own answer.      *)
RowValue == [graph : Graph, status : Status,
             active_version : 1 .. MaxVersions, version : 1 .. MaxVersions]
RequestValue ==
    [step : {"none", "read", "decide", "insert", "commit", "over"},
     kind : {"none", "put", "publish", "delete", "restore"}, read : RowValue,
     count : 0 .. MaxVersions, graph : Graph, status : Status \cup {NoField},
     answer : {"none", "ok", "refused", "conflict"}]
Snapshot == [number : 1 .. MaxVersions, graph : Graph]

(* The invariant. The types; ...                                            *)
Typed ==
    /\ row \in RowValue /\ versions \subseteq Snapshot
    /\ request \in [StoreRequest -> RequestValue]

(* ... versions are numbered from 1 without a gap or a double, and the      *)
(* newest is the active one; ...                                            *)
Numbered ==
    LET n == Cardinality(versions) IN
    /\ IsFiniteSet(versions) /\ {v.number : v \in versions} = 1 .. n
    /\ \A v, w \in versions : v.number = w.number => v = w
    /\ n <= MaxVersions /\ row.active_version = n

(* ... what a request that goes on has read is no newer than the row, and   *)
(* the same graph if it is no older; and the row has the graph of the       *)
(* newest version, or a request whose two reads fell on either side of a    *)
(* commit has answered.                                                     *)
Excuse(r) == Torn(r) /\ request[r].answer = "ok"
NewestIs(g) == \E v \in versions : v.number = Cardinality(versions) /\ v.graph = g

(* What a request under way may rely on of what it read before.             *)
Trusted(r) ==
    LET q == request[r] IN
    /\ q.answer # "none" => q.step = "over"
    /\ q.step \in {"read", "decide", "insert", "commit"} =>
         /\ q.read.active_version <= row.active_version
         /\ q.read.active_version = row.active_version => q.read.graph = row.graph
    /\ q.step \in {"decide", "insert", "commit"} => q.count <= Cardinality(versions)
    /\ q.step = "commit" => q.graph = q.read.graph
    /\ q.step \in {"insert", "commit"} => q.status \in Status

StoreInv ==
    /\ Typed /\ Numbered
    /\ \A r \in StoreRequest : Trusted(r)
    /\ NewestIs(row.graph) \/ \E r \in StoreRequest : Excuse(r)

(* A request that goes on without a write: it is enough that what it holds  *)
(* is in order.                                                             *)
LEMMA RequestReads ==
    ASSUME StoreInv, NEW r \in StoreRequest, NEW q \in RequestValue,
           request' = [request EXCEPT ![r] = q], UNCHANGED <<row, versions>>,
           request[r].step # "over",
           Trusted(r)'
    PROVE  StoreInv'
<1>1. Typed' /\ Numbered'
  BY DEF StoreInv, Typed, Numbered
<1>2. \A s \in StoreRequest : Trusted(s)'
  BY DEF StoreInv, Typed, Trusted
<1>3. ASSUME NEW s \in StoreRequest, Excuse(s) PROVE Excuse(s)'
  <2>1. s # r
    BY <1>3 DEF StoreInv, Excuse, Trusted
  <2> QED
    BY <1>3, <2>1 DEF StoreInv, Typed, Excuse, Torn
<1> QED
  BY <1>1, <1>2, <1>3 DEF StoreInv, NewestIs

(* One that has decided holds what it will write.                           *)
LEMMA Decides ==
    ASSUME StoreInv, NEW r \in StoreRequest, request[r].step = "decide",
           NEW s \in {"insert", "commit"}, NEW g \in Graph, NEW st \in Status,
           s = "commit" => g = request[r].read.graph,
           request' = [request EXCEPT ![r] = [@ EXCEPT !.step = s, !.graph = g, !.status = st]],
           UNCHANGED <<row, versions>>
    PROVE  StoreInv'
<1> DEFINE q == [request[r] EXCEPT !.step = s, !.graph = g, !.status = st]
<1>1. request[r] \in RequestValue
  BY DEF StoreInv, Typed
<1>2. /\ q \in RequestValue /\ q.step = s /\ q.graph = g /\ q.status = st /\ q.answer = request[r].answer
      /\ q.read = request[r].read /\ q.count = request[r].count
  BY <1>1 DEF RequestValue
<1>3. request' = [request EXCEPT ![r] = q] /\ request'[r] = q
  BY <1>1 DEF StoreInv, Typed
<1> HIDE DEF q
<1>4. Trusted(r)'
  BY <1>2, <1>3 DEF Trusted, StoreInv
<1> QED
  BY <1>2, <1>3, <1>4, RequestReads

(* One that is refused holds nothing more.                                  *)
LEMMA Refuses ==
    ASSUME StoreInv, NEW r \in StoreRequest, request[r].step # "over",
           NEW why \in {"refused", "conflict"}, Refuse(r, why), UNCHANGED <<row, versions>>
    PROVE  StoreInv'
<1> DEFINE q == [request[r] EXCEPT !.step = "over", !.answer = why]
<1>1. request[r] \in RequestValue
  BY DEF StoreInv, Typed
<1>2. q \in RequestValue /\ q.step = "over"
  BY <1>1 DEF RequestValue
<1>3. request' = [request EXCEPT ![r] = q] /\ request'[r] = q
  BY <1>1 DEF StoreInv, Typed, Refuse, RequestValue
<1> HIDE DEF q
<1>4. Trusted(r)'
  BY <1>2, <1>3 DEF Trusted
<1> QED
  BY <1>2, <1>3, <1>4, RequestReads

(* The steps of a request, one by one.                                      *)
LEMMA ReadsRow == ASSUME StoreInv, NEW r \in StoreRequest, ReadWorkflow(r) PROVE StoreInv'
<1>1. PICK k \in {"put", "publish", "delete", "restore"}, st \in Status \cup {NoField} :
         request' = [request EXCEPT ![r].step = "read", ![r].kind = k,
                                    ![r].read = row, ![r].status = st]
  BY DEF ReadWorkflow
<1> DEFINE q == [request[r] EXCEPT !.step = "read", !.kind = k, !.read = row, !.status = st]
<1>2. request[r] \in RequestValue /\ request[r].step = "none" /\ UNCHANGED <<row, versions>>
  BY DEF ReadWorkflow, StoreInv, Typed
<1>3. q \in RequestValue /\ q.step = "read" /\ q.read = row /\ q.answer = request[r].answer
  BY <1>2 DEF RequestValue, StoreInv, Typed
<1>4. request' = [request EXCEPT ![r] = q] /\ request'[r] = q
  BY <1>1, <1>2 DEF StoreInv, Typed, RequestValue
<1> HIDE DEF q
<1>5. Trusted(r)'
  BY <1>2, <1>3, <1>4 DEF Trusted, StoreInv, Numbered, Typed, RowValue
<1> QED
  BY <1>2, <1>3, <1>4, <1>5, RequestReads

LEMMA ReadsVersions == ASSUME StoreInv, NEW r \in StoreRequest, ReadVersions(r) PROVE StoreInv'
<1> DEFINE q == [request[r] EXCEPT !.step = "decide", !.count = Cardinality(versions)]
<1>1. request[r] \in RequestValue /\ request[r].step = "read" /\ UNCHANGED <<row, versions>>
  BY DEF ReadVersions, StoreInv, Typed
<1>2. Cardinality(versions) \in 0 .. MaxVersions
  BY FS_CardinalityType DEF StoreInv, Numbered
<1>3. /\ q \in RequestValue /\ q.step = "decide" /\ q.count = Cardinality(versions)
      /\ q.read = request[r].read /\ q.answer = request[r].answer
  BY <1>1, <1>2 DEF RequestValue
<1>4. request' = [request EXCEPT ![r] = q] /\ request'[r] = q
  BY <1>1 DEF ReadVersions, StoreInv, Typed, RequestValue
<1> HIDE DEF q
<1>5. Trusted(r)'
  BY <1>1, <1>2, <1>3, <1>4 DEF Trusted, StoreInv
<1> QED
  BY <1>1, <1>3, <1>4, <1>5, RequestReads

LEMMA DecidesUpdate == ASSUME StoreInv, NEW r \in StoreRequest, DecideUpdate(r) PROVE StoreInv'
<1> DEFINE target == IF request[r].status = NoField THEN request[r].read.status ELSE request[r].status
<1>1. request[r] \in RequestValue /\ request[r].step = "decide" /\ UNCHANGED <<row, versions>>
  BY DEF DecideUpdate, StoreInv, Typed
<1>2. PICK newGraph \in BOOLEAN, g \in Graph :
        /\ ~newGraph => g = request[r].read.graph
        /\ \/ Refuse(r, "refused")
           \/ request' = [request EXCEPT ![r].step = IF newGraph THEN "insert" ELSE "commit",
                                         ![r].graph = g, ![r].status = target]
  BY DEF DecideUpdate
<1>3. CASE Refuse(r, "refused")
  BY <1>1, <1>3, Refuses
<1>4. CASE request' = [request EXCEPT ![r].step = IF newGraph THEN "insert" ELSE "commit",
                                      ![r].graph = g, ![r].status = target]
  <2>1. target \in Status
    BY <1>1 DEF RequestValue, RowValue
  <2> DEFINE s == IF newGraph THEN "insert" ELSE "commit"
  <2>2. s \in {"insert", "commit"} /\ (s = "commit" => g = request[r].read.graph)
    BY <1>2
  <2> HIDE DEF target
  <2>3. request' = [request EXCEPT ![r] = [@ EXCEPT !.step = s, !.graph = g, !.status = target]]
    BY <1>1, <1>4 DEF StoreInv, Typed, RequestValue
  <2> HIDE DEF s
  <2> QED
    BY <1>1, <2>1, <2>2, <2>3, Decides
<1> QED
  BY <1>2, <1>3, <1>4

LEMMA DecidesOther ==
    ASSUME StoreInv, NEW r \in StoreRequest,
           DecidePublish(r) \/ DecideDelete(r) \/ DecideRestore(r)
    PROVE  StoreInv'
<1>1. request[r] \in RequestValue /\ request[r].step = "decide" /\ UNCHANGED <<row, versions>>
  BY DEF DecidePublish, DecideDelete, DecideRestore, StoreInv, Typed
<1>2. request[r].read.graph \in Graph /\ request[r].read.status \in Status
  BY <1>1 DEF RequestValue, RowValue
<1>3. CASE Refuse(r, "refused")
  BY <1>1, <1>3, Refuses
<1>4. CASE \E s \in {"insert", "commit"}, g \in Graph, st \in Status :
              /\ s = "commit" => g = request[r].read.graph
              /\ request' = [request EXCEPT ![r].step = s, ![r].graph = g, ![r].status = st]
  <2>1. PICK s \in {"insert", "commit"}, g \in Graph, st \in Status :
              /\ s = "commit" => g = request[r].read.graph
              /\ request' = [request EXCEPT ![r].step = s, ![r].graph = g, ![r].status = st]
    BY <1>4
  <2>2. request' = [request EXCEPT ![r] = [@ EXCEPT !.step = s, !.graph = g, !.status = st]]
    BY <1>1, <2>1 DEF StoreInv, Typed, RequestValue
  <2>3. request[r].step = "decide" /\ UNCHANGED <<row, versions>>
        /\ (s = "commit" => g = request[r].read.graph)
    BY <1>1, <2>1
  <2> QED
    BY <2>2, <2>3, Decides
<1>5. CASE DecidePublish(r) /\ ~Refuse(r, "refused")
  <2>1. request' = [request EXCEPT ![r].step = "commit", ![r].status = "PUBLISHED",
                                   ![r].graph = request[r].read.graph]
    BY <1>5 DEF DecidePublish
  <2>2. request' = [request EXCEPT ![r] = [@ EXCEPT !.step = "commit",
                      !.graph = request[r].read.graph, !.status = "PUBLISHED"]]
    BY <1>1, <2>1 DEF StoreInv, Typed, RequestValue
  <2> QED
    BY <1>1, <1>2, <2>2, Decides DEF Status
<1>6. CASE DecideDelete(r)
  <2>1. request' = [request EXCEPT ![r].step = "commit", ![r].graph = request[r].read.graph,
                                   ![r].status = "ARCHIVED"]
    BY <1>1, <1>6 DEF DecideDelete, StoreInv, Typed, RequestValue
  <2> QED
    BY <1>2, <1>4, <2>1 DEF Status
<1>7. CASE DecideRestore(r)
  <2>1. PICK v \in versions :
          request' = [request EXCEPT ![r].step = "insert", ![r].graph = v.graph,
                                     ![r].status = request[r].read.status]
    BY <1>7 DEF DecideRestore
  <2>2. v.graph \in Graph
    BY DEF StoreInv, Typed, Snapshot
  <2> QED
    BY <1>2, <1>4, <2>1, <2>2
<1> QED
  BY <1>3, <1>5, <1>6, <1>7

(* A commit without a version leaves the row its graph and its version.     *)
LEMMA CommitsRow == ASSUME StoreInv, NEW r \in StoreRequest, CommitRow(r) PROVE StoreInv'
<1> DEFINE q == [request[r] EXCEPT !.step = "over", !.answer = "ok"]
<1>1. request[r] \in RequestValue /\ request[r].step = "commit" /\ versions' = versions /\ row \in RowValue
  BY DEF CommitRow, StoreInv, Typed
<1>2. request[r].graph = request[r].read.graph /\ request[r].status \in Status
  BY <1>1 DEF StoreInv, Trusted
<1>3. row' \in RowValue /\ row'.graph = row.graph /\ row'.active_version = row.active_version
  BY <1>1, <1>2 DEF CommitRow, Written, RowValue
<1>4. q \in RequestValue /\ q.step = "over"
  BY <1>1 DEF RequestValue
<1>5. request' = [request EXCEPT ![r] = q] /\ request'[r] = q
  BY <1>1 DEF CommitRow, StoreInv, Typed, RequestValue
<1> HIDE DEF q
<1>6. Typed' /\ Numbered'
  BY <1>1, <1>3, <1>4, <1>5 DEF StoreInv, Typed, Numbered
<1>7. \A s \in StoreRequest : Trusted(s)'
  <2>1. Trusted(r)'
    BY <1>4, <1>5 DEF Trusted
  <2>2. ASSUME NEW s \in StoreRequest \ {r} PROVE Trusted(s)'
    BY <1>1, <1>3, <1>5 DEF StoreInv, Typed, Trusted
  <2> QED
    BY <2>1, <2>2
<1>8. ASSUME NEW s \in StoreRequest, Excuse(s) PROVE Excuse(s)'
  <2>1. s # r
    BY <1>1, <1>8 DEF StoreInv, Excuse, Trusted
  <2> QED
    BY <1>5, <1>8, <2>1 DEF StoreInv, Typed, Excuse, Torn
<1> QED
  BY <1>1, <1>3, <1>6, <1>7, <1>8 DEF StoreInv, NewestIs

(* The version goes in under the next number, and is the newest from then   *)
(* on.                                                                      *)
LEMMA CommitsVersion == ASSUME StoreInv, NEW r \in StoreRequest, CommitVersion(r) PROVE StoreInv'
<1> DEFINE n == Cardinality(versions)
           next == request[r].count + 1
<1>1. /\ request[r] \in RequestValue /\ request[r].step = "insert" /\ row \in RowValue
      /\ n < MaxVersions /\ request[r].count <= n
  BY DEF CommitVersion, StoreInv, Typed, Trusted
<1>2. n \in Nat /\ request[r].count \in Nat
  BY <1>1, FS_CardinalityType DEF StoreInv, Numbered, RequestValue
<1>3. CASE \E v \in versions : v.number = next
  BY <1>1, <1>3, Refuses DEF CommitVersion
<1>4. CASE ~ \E v \in versions : v.number = next
  <2> DEFINE new == [number |-> next, graph |-> request[r].graph]
             q == [request[r] EXCEPT !.step = "over", !.answer = "ok"]
  <2>1. next = n + 1
    <3>1. next \notin 1 .. n
      BY <1>4 DEF StoreInv, Numbered
    <3> QED
      BY <1>1, <1>2, <3>1
  <2>2. /\ versions' = versions \cup {new}
        /\ row' = [Written(r) EXCEPT
             !.active_version = next, !.version = IF request[r].kind = "put" THEN next ELSE @]
        /\ request' = [request EXCEPT ![r].step = "over", ![r].answer = "ok"]
    BY <1>4 DEF CommitVersion
  <2>3. /\ new \in Snapshot /\ new.number = n + 1 /\ new.graph = request[r].graph /\ new \notin versions
    <3>1. n + 1 \in 1 .. MaxVersions /\ request[r].graph \in Graph
      BY <1>1, <1>2, StoreAssumption DEF RequestValue
    <3> QED
      BY <1>4, <2>1, <3>1 DEF Snapshot
  <2>4. request' = [request EXCEPT ![r] = q] /\ request'[r] = q
    BY <1>1, <2>2 DEF StoreInv, Typed, RequestValue
  <2>5. /\ q \in RequestValue /\ q.step = "over" /\ q.answer = "ok"
        /\ q.read = request[r].read /\ q.count = request[r].count
    BY <1>1 DEF RequestValue
  <2>6. /\ row' \in RowValue /\ row'.active_version = n + 1
        /\ row'.graph = IF request[r].graph # request[r].read.graph THEN request[r].graph ELSE row.graph
    <3>1. request[r].status \in Status /\ request[r].graph \in Graph /\ n + 1 \in 1 .. MaxVersions
      BY <1>1, <1>2, StoreAssumption DEF StoreInv, Trusted, RequestValue
    <3> QED
      BY <1>1, <2>1, <2>2, <3>1 DEF Written, RowValue
  <2> HIDE DEF new, q, next
  <2>7. IsFiniteSet(versions') /\ Cardinality(versions') = n + 1
    BY <2>2, <2>3, FS_AddElement DEF StoreInv, Numbered
  <2>8. Typed'
    BY <2>2, <2>3, <2>4, <2>5, <2>6 DEF StoreInv, Typed
  <2>9. Numbered'
    <3>1. {v.number : v \in versions'} = 1 .. n + 1
      BY <1>2, <2>2, <2>3 DEF StoreInv, Numbered
    <3>2. \A v, w \in versions' : v.number = w.number => v = w
      <4>1. \A v \in versions : v.number \in 1 .. n
        BY DEF StoreInv, Numbered
      <4> QED
        BY <1>2, <2>2, <2>3, <4>1 DEF StoreInv, Numbered
    <3> QED
      BY <1>1, <1>2, <2>6, <2>7, <3>1, <3>2, StoreAssumption DEF Numbered
  <2>10. \A s \in StoreRequest : Trusted(s)'
    <3>1. Trusted(r)'
      BY <2>4, <2>5 DEF Trusted
    <3>2. ASSUME NEW s \in StoreRequest \ {r} PROVE Trusted(s)'
      <4>1. request'[s] = request[s] /\ request[s] \in RequestValue /\ Trusted(s)
        BY <2>4 DEF StoreInv, Typed
      <4>2. row.active_version = n
        BY DEF StoreInv, Numbered
      <4> QED
        BY <1>2, <2>6, <2>7, <4>1, <4>2 DEF Trusted, RequestValue, RowValue
    <3> QED
      BY <3>1, <3>2
  <2>11. NewestIs(row.graph)' \/ Excuse(r)'
    <3>1. CASE Torn(r)
      BY <2>4, <2>5, <3>1 DEF Excuse, Torn
    <3>2. CASE ~Torn(r)
      <4>1. request[r].read.active_version = row.active_version
        BY <1>1, <1>2, <2>1, <3>2 DEF Torn, StoreInv, Numbered, Trusted, RequestValue, RowValue, next
      <4>2. row'.graph = request[r].graph
        BY <1>1, <2>6, <4>1 DEF StoreInv, Trusted
      <4> QED
        BY <2>2, <2>3, <2>7, <4>2 DEF NewestIs
    <3> QED
      BY <3>1, <3>2
  <2> QED
    BY <2>8, <2>9, <2>10, <2>11 DEF StoreInv
<1> QED
  BY <1>3, <1>4

(* No step of any request breaks the invariant.                             *)
LEMMA StoreStep == StoreInv /\ [StoreNext]_storeVars => StoreInv'
<1> SUFFICES ASSUME StoreInv, [StoreNext]_storeVars PROVE StoreInv'
  OBVIOUS
<1>1. CASE UNCHANGED storeVars
  BY <1>1 DEF storeVars, StoreInv, Typed, Numbered, Trusted, NewestIs, Excuse, Torn
<1>2. ASSUME NEW r \in StoreRequest, StoreRequestStep(r) PROVE StoreInv'
  BY <1>2, ReadsRow, ReadsVersions, DecidesUpdate, DecidesOther, CommitsRow, CommitsVersion
  DEF StoreRequestStep
<1> QED
  BY <1>1, <1>2 DEF StoreNext

LEMMA StoreInvariant == StoreSpec => []StoreInv
<1>1. StoreInit => StoreInv
  <2> SUFFICES ASSUME StoreInit PROVE StoreInv
    OBVIOUS
  <2>1. PICK g \in Graph :
         /\ row = [graph |-> g, status |-> "DRAFT", active_version |-> 1, version |-> 1]
         /\ versions = {[number |-> 1, graph |-> g]}
    BY DEF StoreInit
  <2>2. Cardinality(versions) = 1 /\ IsFiniteSet(versions)
    BY <2>1, FS_Singleton
  <2>3. Typed
    BY <2>1, StoreAssumption
    DEF StoreInit, Typed, RowValue, Status, Snapshot, RequestValue
  <2>4. Numbered
    BY <2>1, <2>2, StoreAssumption DEF Numbered
  <2>5. NewestIs(row.graph)
    BY <2>1, <2>2 DEF NewestIs
  <2>6. \A r \in StoreRequest : Trusted(r)
    BY DEF StoreInit, Trusted
  <2> QED
    BY <2>3, <2>4, <2>5, <2>6 DEF StoreInv
<1> QED
  BY <1>1, StoreStep, PTL DEF StoreSpec

(* Versions are numbered without a gap or a double and the active one is    *)
(* the newest, whoever races whom; and the row has its graph, unless a      *)
(* request read row and versions on either side of another's commit. For    *)
(* any number of requests.                                                  *)
THEOREM ActiveStaysNewest == StoreSpec => []ActiveIsNewest
<1>1. StoreInv => ActiveIsNewest
  <2> SUFFICES ASSUME StoreInv PROVE ActiveIsNewest
    OBVIOUS
  <2> DEFINE n == Cardinality(versions)
  <2>1. {v.number : v \in versions} = 1 .. n /\ row.active_version = n
    BY DEF StoreInv, Numbered
  <2>2. ASSUME NewestIs(row.graph) PROVE SnapshotOf(n) = row.graph
    <3>1. PICK w \in versions : w.number = n /\ w.graph = row.graph
      BY <2>2 DEF NewestIs
    <3>2. (CHOOSE v \in versions : v.number = n) = w
      BY <3>1 DEF StoreInv, Numbered
    <3> QED
      BY <3>1, <3>2 DEF SnapshotOf
  <2> QED
    BY <2>1, <2>2 DEF ActiveIsNewest, StoreInv, Excuse
<1> QED
  BY <1>1, StoreInvariant, PTL

LEMMA StoreTypes == StoreSpec => []StoreTypeOK
<1>1. StoreInv => StoreTypeOK
  BY DEF StoreInv, Typed, RowValue, RequestValue, Snapshot, StoreTypeOK
<1> QED
  BY <1>1, StoreInvariant, PTL

-----------------------------------------------------------------------------
(***************************************************************************)
(* The search for cycles of the validation.                                *)
(***************************************************************************)
OnPath == {path[i] : i \in 1 .. Len(path)}
DoneWith == visited \ OnPath
PlainNodes == {v \in Vertex : type[v] \notin LOOP_ALLOWED_TYPES}
PlainReached == {v \in Reached : type[v] \notin LOOP_ALLOWED_TYPES}

(* The nodes of F are done with: what they lead to was visited, what plain  *)
(* ones lead to is done with too, and from a plain one no way over plain    *)
(* nodes leads back: some part of F holds all such ways, and not the node.  *)
NoWayBack(v, F) ==
    \E S \in SUBSET (F \cap PlainNodes) :
        /\ Neighbours(v) \cap PlainNodes \subseteq S
        /\ NoEdgeOut(S, PlainNodes)
        /\ v \notin S

SettledIn(F, X) ==
    \A v \in F :
        /\ Neighbours(v) \subseteq X
        /\ v \in PlainNodes => Neighbours(v) \subseteq F /\ NoWayBack(v, F)

SearchShape ==
    /\ visited \subseteq Vertex
    /\ path \in Seq(visited)
    /\ todo \in Seq(SUBSET (Vertex \cup {Dangling})) /\ Len(todo) = Len(path)
    /\ \A i \in 1 .. Len(path) : todo[i] \subseteq Neighbours(path[i])
    /\ \A i, j \in 1 .. Len(path) : path[i] = path[j] => i = j
    /\ entry \in IF StartNodes # {} THEN StartNodes ELSE {Dangling}
    /\ verdict = "none" /\ path = <<>> => visited = {}
    /\ path # <<>> => entry \in visited /\ WellFormed /\ StartNodes # {}

(* The nodes on the path: what is not left of their edges was visited, and  *)
(* is done with if they are plain, or comes next on the path.               *)
Pursued ==
    \A i \in 1 .. Len(path) : \A w \in Neighbours(path[i]) \ todo[i] :
        /\ w \in visited
        /\ path[i] \in PlainNodes /\ w \in OnPath => i < Len(path) /\ w = path[i + 1]

(* Each node on the path is reached from those before it.                   *)
Leads ==
    \A i, j \in 1 .. Len(path) : i < j =>
        \A T \in SUBSET Reached :
            Neighbours(path[i]) \cap Reached \subseteq T /\ NoEdgeOut(T, Reached) => path[j] \in T

SearchInv ==
    /\ SearchShape
    /\ verdict = "none" =>
         Pursued /\ SettledIn(DoneWith, visited) /\ visited \subseteq Reached /\ Leads
    /\ CyclesNeedLoops

LEMMA SameGraph ==
    ASSUME UNCHANGED drawn
    PROVE  /\ \A v : Neighbours(v)' = Neighbours(v)
           /\ PlainNodes' = PlainNodes /\ Reached' = Reached /\ StartNodes' = StartNodes /\ WellFormed' = WellFormed
           /\ PlainReached' = PlainReached
           /\ \A T, V : NoEdgeOut(T, V)' <=> NoEdgeOut(T, V)
           /\ \A F, X : SettledIn(F, X)' <=> SettledIn(F, X)
           /\ \A v, V : OnCycle(v, V)' <=> OnCycle(v, V)
<1>1. UNCHANGED <<type, edge, entry>>
  BY DEF drawn
<1>2. \A v : Neighbours(v)' = Neighbours(v)
  BY <1>1 DEF Neighbours
<1>3. PlainNodes' = PlainNodes /\ StartNodes' = StartNodes /\ (WellFormed' <=> WellFormed)
  BY <1>1 DEF PlainNodes, StartNodes, WellFormed
<1>4. \A T, V : NoEdgeOut(T, V)' <=> NoEdgeOut(T, V)
  BY <1>1 DEF NoEdgeOut
<1>5. \A S, V : Closure(S, V)' = Closure(S, V)
  BY <1>1 DEF Closure, NoEdgeOut
<1>6. Reached' = Reached
  BY <1>1, <1>5 DEF Reached
<1>7. PlainReached' = PlainReached
  BY <1>1, <1>6 DEF PlainReached
<1>8. \A v, F : NoWayBack(v, F)' <=> NoWayBack(v, F)
  BY <1>2, <1>3, <1>4 DEF NoWayBack
<1>9. \A F, X : SettledIn(F, X)' <=> SettledIn(F, X)
  BY <1>2, <1>3, <1>8 DEF SettledIn
<1>10. \A v, V : OnCycle(v, V)' <=> OnCycle(v, V)
  BY <1>1 DEF OnCycle, Closure, NoEdgeOut
<1> QED
  BY <1>2, <1>3, <1>4, <1>6, <1>7, <1>9, <1>10

(* Once all that was visited is done with, no cycle is left to find.        *)
LEMMA NoCycleLeft ==
    ASSUME SettledIn(visited, visited), visited \subseteq Vertex, entry \in visited
    PROVE  \A v \in PlainReached : ~OnCycle(v, PlainReached)
<1>1. Reached \subseteq visited
  <2>1. visited \in SUBSET Vertex /\ {entry} \cap Vertex \subseteq visited
    OBVIOUS
  <2>2. NoEdgeOut(visited, Vertex)
    BY DEF SettledIn, NoEdgeOut, Neighbours
  <2> QED
    BY <2>1, <2>2 DEF Reached, Closure
<1>2. PlainReached \subseteq PlainNodes \cap visited
  BY <1>1 DEF PlainReached, PlainNodes
<1> SUFFICES ASSUME NEW v \in PlainReached PROVE ~OnCycle(v, PlainReached)
  OBVIOUS
<1>3. PICK S \in SUBSET (visited \cap PlainNodes) :
        Neighbours(v) \cap PlainNodes \subseteq S /\ NoEdgeOut(S, PlainNodes) /\ v \notin S
  BY <1>2 DEF SettledIn, NoWayBack
<1> DEFINE T == S \cap PlainReached
           N == {w \in PlainReached : <<v, w>> \in edge}
<1>4. T \in SUBSET PlainReached /\ v \notin T
  BY <1>3
<1>5. N \cap PlainReached \subseteq T
  BY <1>2, <1>3 DEF Neighbours, PlainNodes
<1>6. NoEdgeOut(T, PlainReached)
  BY <1>2, <1>3 DEF NoEdgeOut
<1> QED
  BY <1>4, <1>5, <1>6 DEF OnCycle, Closure

LEMMA PathFacts ==
    ASSUME SearchShape
    PROVE  /\ Len(path) \in Nat /\ OnPath \subseteq visited /\ visited \subseteq Vertex
           /\ \A i \in 1 .. Len(path) : path[i] \in visited /\ todo[i] \in SUBSET (Vertex \cup {Dangling})
           /\ path # <<>> => Len(path) \in 1 .. Len(path)
<1>1. Len(path) \in Nat /\ \A i \in 1 .. Len(path) : path[i] \in visited
  BY DEF SearchShape
<1>2. \A i \in 1 .. Len(path) : todo[i] \in SUBSET (Vertex \cup {Dangling})
  BY DEF SearchShape
<1>3. path # <<>> => Len(path) # 0
  BY DEF SearchShape
<1> QED
  BY <1>1, <1>2, <1>3 DEF OnPath, SearchShape

(* The search: into a node, past one, and out of one.                       *)
LEMMA StartKeeps == ASSUME SearchInv, StartSearch PROVE SearchInv'
<1>1. /\ verdict = "none" /\ path = <<>> /\ WellFormed /\ UNCHANGED drawn /\ visited = {}
      /\ SearchShape
  BY DEF StartSearch, SearchInv, SearchShape
<1>2. CASE StartNodes = {}
  <2>1. Close("invalid") /\ UNCHANGED <<visited, path, todo>>
    BY <1>2 DEF StartSearch
  <2>2. verdict' = "invalid"
    BY <2>1 DEF Close
  <2> QED
    BY <1>1, <2>1, <2>2, SameGraph DEF SearchInv, SearchShape, CyclesNeedLoops, drawn
<1>3. CASE StartNodes # {}
  <2>1. /\ visited' = {entry} /\ path' = <<entry>> /\ todo' = <<Neighbours(entry)>> /\ verdict' = "none"
    BY <1>1, <1>3 DEF StartSearch, Push, GoOn, SearchShape
  <2>2. entry \in StartNodes /\ entry \in Vertex
    BY <1>1, <1>3 DEF SearchShape, StartNodes
  <2>3. Len(path') = 1 /\ path'[1] = entry /\ todo'[1] = Neighbours(entry) /\ Len(todo') = 1
    BY <2>1
  <2>4. SearchShape'
    <3>1. path' \in Seq(visited') /\ todo' \in Seq(SUBSET (Vertex \cup {Dangling}))
      BY <2>1 DEF Neighbours
    <3> QED
      BY <1>1, <1>3, <2>1, <2>2, <2>3, <3>1, SameGraph DEF SearchShape, drawn
  <2>5. DoneWith' = {}
    BY <2>1, <2>3 DEF DoneWith, OnPath
  <2>6. Pursued' /\ Leads'
    BY <1>1, <2>3, SameGraph DEF Pursued, Leads
  <2>7. SettledIn(DoneWith, visited)'
    BY <2>5 DEF SettledIn
  <2>8. visited' \subseteq Reached'
    BY <1>1, <2>1, <2>2, SameGraph DEF Reached, Closure
  <2> QED
    BY <2>1, <2>4, <2>6, <2>7, <2>8 DEF SearchInv, CyclesNeedLoops
<1> QED
  BY <1>2, <1>3

LEMMA DescendKeeps == ASSUME SearchInv, NEW w \in Vertex, Descend(w) PROVE SearchInv'
<1> DEFINE n == Len(path)
<1>1. /\ verdict = "none" /\ path # <<>> /\ UNCHANGED drawn /\ verdict' = "none" /\ w \notin visited
      /\ w \in todo[n] /\ SearchShape /\ Pursued /\ SettledIn(DoneWith, visited)
      /\ visited \subseteq Reached /\ Leads
  BY DEF Descend, SearchInv, GoOn, Top
<1>2. /\ n \in Nat /\ n \in 1 .. n /\ OnPath \subseteq visited
      /\ \A i \in 1 .. n : path[i] \in visited /\ todo[i] \in SUBSET (Vertex \cup {Dangling})
  BY <1>1, PathFacts
<1>3. visited' = visited \cup {w}
  BY DEF Descend
<1>4. /\ path' = Append(path, w) /\ path' \in Seq(visited') /\ Len(path') = n + 1
      /\ path'[n + 1] = w /\ \A i \in 1 .. n : path'[i] = path[i]
  <2>1. path \in Seq(visited') /\ w \in visited'
    BY <1>1, <1>3 DEF SearchShape
  <2> QED
    BY <2>1 DEF Descend
<1>5. /\ Len(todo') = n + 1 /\ todo' \in Seq(SUBSET (Vertex \cup {Dangling}))
      /\ todo'[n + 1] = Neighbours(w) /\ todo'[n] = todo[n] \ {w}
      /\ \A i \in 1 .. n : i # n => todo'[i] = todo[i]
  <2> DEFINE remaining == [todo EXCEPT ![n] = @ \ {w}]
  <2>1. todo \in Seq(SUBSET (Vertex \cup {Dangling})) /\ Len(todo) = n
    BY <1>1 DEF SearchShape
  <2>2. /\ remaining \in Seq(SUBSET (Vertex \cup {Dangling})) /\ Len(remaining) = n
        /\ remaining[n] = todo[n] \ {w} /\ \A i \in 1 .. n : i # n => remaining[i] = todo[i]
    BY <1>2, <2>1
  <2>3. todo' = Append(remaining, Neighbours(w)) /\ Neighbours(w) \in SUBSET (Vertex \cup {Dangling})
    BY DEF Descend, Top, Neighbours
  <2> HIDE DEF remaining
  <2> QED
    BY <1>2, <2>2, <2>3
<1>6. w \in Neighbours(path[n]) /\ <<path[n], w>> \in edge /\ path[n] \in Vertex
  BY <1>1, <1>2 DEF SearchShape, Neighbours
<1>7. OnPath' = OnPath \cup {w} /\ DoneWith' = DoneWith
  <2>1. OnPath' = OnPath \cup {w}
    BY <1>2, <1>4 DEF OnPath
  <2> QED
    BY <1>1, <1>2, <1>3, <2>1 DEF DoneWith
<1>8. SearchShape'
  <2>1. \A i \in 1 .. n + 1 : todo'[i] \subseteq Neighbours(path'[i])
    BY <1>1, <1>2, <1>4, <1>5 DEF SearchShape
  <2>2. \A i, j \in 1 .. n + 1 : path'[i] = path'[j] => i = j
    BY <1>1, <1>2, <1>4 DEF SearchShape
  <2>3. visited' \subseteq Vertex /\ path' # <<>>
    BY <1>1, <1>3, <1>4 DEF SearchShape
  <2>4. entry' = entry /\ (\A v : Neighbours(v)' = Neighbours(v)) /\ StartNodes' = StartNodes /\ WellFormed' = WellFormed
    BY <1>1, SameGraph DEF drawn
  <2>5. \A i \in 1 .. n + 1 : todo'[i] \subseteq (Neighbours(path[i]))'
    BY <2>1, <2>4
  <2> QED
    BY <1>1, <1>3, <1>4, <1>5, <2>1, <2>2, <2>3, <2>4 DEF SearchShape
<1>9. Pursued'
  <2> SUFFICES ASSUME NEW i \in 1 .. n + 1, NEW u \in Neighbours(path'[i]) \ todo'[i]
               PROVE  /\ u \in visited'
                      /\ path'[i] \in PlainNodes /\ u \in OnPath' => i < n + 1 /\ u = path'[i + 1]
    BY <1>1, <1>4, SameGraph DEF Pursued
  <2>1. CASE i = n + 1
    BY <1>4, <1>5, <2>1
  <2>2. CASE i # n + 1 /\ u \notin todo[i]
    BY <1>1, <1>2, <1>3, <1>4, <1>7, <2>2 DEF Pursued
  <2>3. CASE i = n /\ u = w
    BY <1>3, <1>4, <2>3
  <2> QED
    BY <1>2, <1>5, <2>1, <2>2, <2>3
<1>10. SettledIn(DoneWith, visited)'
  <2>1. SettledIn(DoneWith, visited')
    BY <1>1, <1>3 DEF SettledIn
  <2> QED
    BY <1>1, <1>7, <2>1, SameGraph DEF SettledIn
<1>11. visited' \subseteq Reached'
  <2>1. w \in Reached
    BY <1>1, <1>2, <1>6 DEF Reached, Closure, NoEdgeOut
  <2> QED
    BY <1>1, <1>3, <2>1, SameGraph
<1>12. Leads'
  <2> SUFFICES ASSUME NEW i \in 1 .. n + 1, NEW j \in 1 .. n + 1, i < j, NEW T \in SUBSET Reached,
                      Neighbours(path'[i]) \cap Reached \subseteq T, NoEdgeOut(T, Reached)
               PROVE  path'[j] \in T
    BY <1>1, <1>4, SameGraph DEF Leads
  <2>1. CASE j # n + 1
    BY <1>1, <1>2, <1>4, <2>1 DEF Leads
  <2>2. CASE j = n + 1
    <3>1. w \in Reached
      BY <1>1, <1>3, <1>11, SameGraph
    <3>2. CASE i = n
      BY <1>2, <1>4, <1>6, <2>2, <3>1, <3>2
    <3>3. CASE i # n
      <4>1. path[n] \in T
        BY <1>1, <1>2, <1>4, <2>2, <3>3 DEF Leads
      <4> QED
        BY <1>4, <1>6, <2>2, <3>1, <4>1 DEF NoEdgeOut
    <3> QED
      BY <3>2, <3>3
  <2> QED
    BY <2>1, <2>2
<1> QED
  BY <1>1, <1>8, <1>9, <1>10, <1>11, <1>12 DEF SearchInv, CyclesNeedLoops

LEMMA MeetKeeps == ASSUME SearchInv, NEW w \in Vertex, MeetVisited(w) PROVE SearchInv'
<1> DEFINE n == Len(path)
<1>1. /\ verdict = "none" /\ path # <<>> /\ UNCHANGED <<drawn, visited, path>>
      /\ w \in todo[n] /\ w \in visited /\ SearchShape /\ Pursued /\ SettledIn(DoneWith, visited)
      /\ visited \subseteq Reached /\ Leads
  BY DEF MeetVisited, SearchInv, Top
<1>2. /\ n \in Nat /\ n \in 1 .. n /\ OnPath \subseteq visited
      /\ \A i \in 1 .. n : path[i] \in visited /\ todo[i] \in SUBSET (Vertex \cup {Dangling})
  BY <1>1, PathFacts
<1>3. /\ Len(todo') = n /\ todo' \in Seq(SUBSET (Vertex \cup {Dangling}))
      /\ todo'[n] = todo[n] \ {w} /\ \A i \in 1 .. n : i # n => todo'[i] = todo[i]
  <2>1. todo \in Seq(SUBSET (Vertex \cup {Dangling})) /\ Len(todo) = n
    BY <1>1 DEF SearchShape
  <2>2. todo' = [todo EXCEPT ![n] = @ \ {w}]
    BY DEF MeetVisited, Take, Top
  <2> QED
    BY <1>2, <2>1, <2>2
<1>4. <<path[n], w>> \in edge /\ path[n] \in Vertex
  BY <1>1, <1>2 DEF SearchShape, Neighbours
<1>5. SearchShape'
  <2>1. \A i \in 1 .. n : todo'[i] \subseteq (Neighbours(path[i]))'
    BY <1>1, <1>3, SameGraph DEF SearchShape
  <2> QED
    BY <1>1, <1>3, <2>1, SameGraph DEF SearchShape, drawn
<1>6. CASE Contains(path, w) /\ type[path[n]] \notin LOOP_ALLOWED_TYPES
  <2>1. verdict' = "cycle"
    BY <1>6 DEF MeetVisited, Close, Top
  <2>2. PICK i \in 1 .. n : path[i] = w
    BY <1>6 DEF Contains
  <2>3. OnCycle(w, Reached)
    <3> DEFINE N == {u \in Reached : <<w, u>> \in edge}
    <3> SUFFICES ASSUME NEW T \in SUBSET Reached, N \cap Reached \subseteq T, NoEdgeOut(T, Reached)
                 PROVE  w \in T
      BY <1>1 DEF OnCycle, Closure
    <3>1. CASE i = n
      BY <1>1, <1>4, <2>2, <3>1
    <3>2. CASE i # n
      <4>1. Neighbours(path[i]) \cap Reached \subseteq T
        BY <2>2 DEF Neighbours
      <4>2. path[n] \in T
        BY <1>1, <1>2, <3>2, <4>1 DEF Leads
      <4> QED
        BY <1>1, <1>4, <4>2 DEF NoEdgeOut
    <3> QED
      BY <3>1, <3>2
  <2> QED
    BY <1>1, <1>5, <2>1, <2>3, SameGraph DEF SearchInv, CyclesNeedLoops
<1>7. CASE ~(Contains(path, w) /\ type[path[n]] \notin LOOP_ALLOWED_TYPES)
  <2>1. verdict' = "none"
    BY <1>1, <1>7 DEF MeetVisited, GoOn, Top
  <2>2. w \in OnPath => path[n] \notin PlainNodes
    BY <1>2, <1>4, <1>7 DEF OnPath, Contains, PlainNodes
  <2>3. OnPath' = OnPath /\ DoneWith' = DoneWith
    BY <1>1 DEF OnPath, DoneWith
  <2>4. Pursued'
    <3> SUFFICES ASSUME NEW i \in 1 .. n, NEW u \in Neighbours(path[i]) \ todo'[i]
                 PROVE  /\ u \in visited
                        /\ path[i] \in PlainNodes /\ u \in OnPath => i < n /\ u = path[i + 1]
      BY <1>1, <2>3, SameGraph DEF Pursued
    <3>1. CASE i = n /\ u = w
      BY <1>1, <2>2, <3>1
    <3>2. CASE u \notin todo[i]
      BY <1>1, <3>2 DEF Pursued
    <3> QED
      BY <1>2, <1>3, <3>1, <3>2
  <2>5. SettledIn(DoneWith, visited)'
    BY <1>1, <2>3, SameGraph
  <2>6. Leads' /\ (visited \subseteq Reached)'
    BY <1>1, SameGraph DEF Leads
  <2> QED
    BY <1>5, <2>1, <2>4, <2>5, <2>6 DEF SearchInv, CyclesNeedLoops
<1> QED
  BY <1>6, <1>7

LEMMA FrontOf ==
    ASSUME NEW S, NEW m \in Nat, NEW s \in Seq(S), Len(s) = m + 1
    PROVE  LET f == SubSeq(s, 1, m) IN
           f \in Seq(S) /\ Len(f) = m /\ \A i \in 1 .. m : f[i] = s[i]
OBVIOUS

LEMMA OneLess == ASSUME NEW n \in Nat, n # 0 PROVE \E m \in Nat : n = m + 1
<1>1. n - 1 \in Nat /\ n = (n - 1) + 1
  OBVIOUS
<1> QED
  BY <1>1

LEMMA RetreatKeeps == ASSUME SearchInv, Retreat PROVE SearchInv'
<1> DEFINE n == Len(path)
           v == path[n]
<1>1. /\ verdict = "none" /\ path # <<>> /\ UNCHANGED <<drawn, visited>>
      /\ todo[n] = {} /\ SearchShape /\ Pursued /\ SettledIn(DoneWith, visited)
      /\ visited \subseteq Reached /\ Leads
  BY DEF Retreat, SearchInv, Top
<1>2. /\ n \in Nat /\ n \in 1 .. n /\ OnPath \subseteq visited /\ visited \subseteq Vertex
      /\ \A i \in 1 .. n : path[i] \in visited /\ todo[i] \in SUBSET (Vertex \cup {Dangling})
  BY <1>1, PathFacts
<1>3. PICK m \in Nat : n = m + 1
  <2>1. n \in Nat /\ n # 0
    BY <1>2
  <2> HIDE DEF n
  <2> QED
    BY <2>1, OneLess
<1>4. /\ path' \in Seq(visited) /\ Len(path') = m
      /\ \A i \in 1 .. m : path'[i] = path[i]
  <2>1. path \in Seq(visited)
    BY <1>1 DEF SearchShape
  <2>2. path' = SubSeq(path, 1, m)
    BY <1>3 DEF Retreat, Front
  <2> QED
    BY <1>3, <2>1, <2>2, FrontOf
<1>5. /\ todo' \in Seq(SUBSET (Vertex \cup {Dangling})) /\ Len(todo') = m
      /\ \A i \in 1 .. m : todo'[i] = todo[i]
  <2>1. todo \in Seq(SUBSET (Vertex \cup {Dangling})) /\ Len(todo) = n
    BY <1>1 DEF SearchShape
  <2>2. todo' = SubSeq(todo, 1, m)
    BY <1>3, <2>1 DEF Retreat, Front
  <2> QED
    BY <1>3, <2>1, <2>2, FrontOf
<1>6. \A i, j \in 1 .. n : path[i] = path[j] => i = j
  BY <1>1 DEF SearchShape
<1>7. OnPath' = OnPath \ {v} /\ v \in visited /\ v \in OnPath
  BY <1>2, <1>3, <1>4, <1>6 DEF OnPath
<1>8. DoneWith' = DoneWith \cup {v}
  BY <1>1, <1>7 DEF DoneWith
<1>9. SettledIn(DoneWith \cup {v}, visited)
  <2>1. ASSUME NEW u \in DoneWith
        PROVE  /\ Neighbours(u) \subseteq visited
               /\ u \in PlainNodes => Neighbours(u) \subseteq DoneWith \cup {v} /\ NoWayBack(u, DoneWith \cup {v})
    <3>1. NoWayBack(u, DoneWith) => NoWayBack(u, DoneWith \cup {v})
      BY DEF NoWayBack
    <3> QED
      BY <1>1, <3>1 DEF SettledIn
  <2>2. Neighbours(v) \subseteq visited
    BY <1>1, <1>2, <1>3 DEF Pursued
  <2>3. ASSUME v \in PlainNodes PROVE Neighbours(v) \subseteq DoneWith
    BY <1>1, <1>2, <1>3, <2>3 DEF Pursued, DoneWith
  <2>4. ASSUME v \in PlainNodes PROVE NoWayBack(v, DoneWith \cup {v})
    <3> DEFINE S == DoneWith \cap PlainNodes
    <3>1. S \in SUBSET ((DoneWith \cup {v}) \cap PlainNodes) /\ Neighbours(v) \cap PlainNodes \subseteq S /\ v \notin S
      BY <1>7, <2>3, <2>4 DEF DoneWith
    <3>2. NoEdgeOut(S, PlainNodes)
      BY <1>1 DEF NoEdgeOut, SettledIn, Neighbours, PlainNodes
    <3> QED
      BY <3>1, <3>2 DEF NoWayBack
  <2> QED
    BY <2>1, <2>2, <2>3, <2>4 DEF SettledIn
<1>10. SettledIn(DoneWith, visited)'
  BY <1>1, <1>8, <1>9, SameGraph
<1>11. CASE m # 0
  <2>1. verdict' = "none"
    BY <1>1, <1>3, <1>11 DEF Retreat, GoOn, Top
  <2>2. SearchShape'
    <3>1. \A i \in 1 .. m : todo'[i] \subseteq Neighbours(path[i]) /\ path'[i] = path[i]
      BY <1>1, <1>2, <1>3, <1>4, <1>5 DEF SearchShape
    <3>2. path' # <<>>
      BY <1>4, <1>11
    <3>3. \A i, j \in 1 .. m : path'[i] = path'[j] => i = j
      BY <1>2, <1>3, <1>4, <1>6
    <3> QED
      BY <1>1, <1>2, <1>3, <1>4, <1>5, <3>1, <3>2, <3>3, SameGraph DEF SearchShape, drawn
  <2>3. Pursued'
    <3> SUFFICES ASSUME NEW i \in 1 .. m, NEW u \in Neighbours(path[i]) \ todo[i]
                 PROVE  /\ u \in visited
                        /\ path[i] \in PlainNodes /\ u \in OnPath' => i < m /\ u = path'[i + 1]
      BY <1>1, <1>2, <1>3, <1>4, <1>5, SameGraph DEF Pursued
    <3>1. u \in visited /\ (path[i] \in PlainNodes /\ u \in OnPath => u = path[i + 1])
      BY <1>1, <1>2, <1>3 DEF Pursued
    <3> QED
      BY <1>2, <1>3, <1>4, <1>7, <3>1
  <2>4. Leads'
    BY <1>1, <1>2, <1>3, <1>4, SameGraph DEF Leads
  <2> QED
    BY <1>1, <1>10, <2>1, <2>2, <2>3, <2>4, SameGraph DEF SearchInv, CyclesNeedLoops
<1>12. CASE m = 0
  <2>1. verdict' = IF StaticErrors THEN "invalid" ELSE "valid"
    BY <1>3, <1>12 DEF Retreat, Close, Top
  <2>2. path' = <<>> /\ Len(path') = 0 /\ Len(todo') = 0
    BY <1>4, <1>5, <1>12
  <2>3. SearchShape'
    BY <1>1, <1>2, <1>3, <1>4, <1>5, <2>1, <2>2, SameGraph DEF SearchShape, drawn
  <2>4. DoneWith \cup {v} = visited
    BY <1>2, <1>3, <1>7, <1>12 DEF DoneWith, OnPath
  <2>5. entry \in visited /\ WellFormed
    BY <1>1 DEF SearchShape
  <2>6. \A u \in PlainReached : ~OnCycle(u, PlainReached)
    BY <1>2, <1>3, <1>9, <2>4, <2>5, NoCycleLeft
  <2>7. ~StaticErrors => StartNodes = {entry}
    <3>1. IsFiniteSet(StartNodes)
      BY ValidationAssumption, FS_Subset DEF StartNodes
    <3>2. entry \in StartNodes
      BY <1>1, <1>2, <1>3, <2>5, ValidationAssumption DEF SearchShape
    <3> QED
      BY <3>1, <3>2, FS_Singleton DEF StaticErrors
  <2>8. CyclesNeedLoops'
    <3>1. verdict' = "valid" => (WellFormed /\ StartNodes = {entry})'
      BY <1>1, <2>1, <2>5, <2>7, SameGraph DEF drawn
    <3>2. \A u \in PlainReached' : ~OnCycle(u, PlainReached)'
      BY <1>1, <2>6, SameGraph
    <3> QED
      BY <2>1, <3>1, <3>2 DEF CyclesNeedLoops, PlainReached
  <2> QED
    BY <2>1, <2>3, <2>8 DEF SearchInv
<1> QED
  BY <1>11, <1>12

LEMMA SearchKept == ValidationSpec => []SearchInv
<1>1. ValidationInit => SearchInv
  <2> SUFFICES ASSUME ValidationInit PROVE SearchInv
    OBVIOUS
  <2>1. visited = {} /\ Len(path) = 0 /\ Len(todo) = 0 /\ verdict = "none"
    BY DEF ValidationInit
  <2>2. SearchShape
    BY <2>1 DEF ValidationInit, SearchShape
  <2> QED
    BY <2>1, <2>2 DEF SearchInv, Pursued, SettledIn, DoneWith, Leads, CyclesNeedLoops
<1>2. SearchInv /\ [ValidationStep]_validationVars => SearchInv'
  <2> SUFFICES ASSUME SearchInv, [ValidationStep]_validationVars PROVE SearchInv'
    OBVIOUS
  <2>1. CASE RefuseGraph
    <3>1. verdict' = "invalid" /\ UNCHANGED <<drawn, visited, path, todo>>
      BY <2>1 DEF RefuseGraph
    <3> QED
      BY <3>1, SameGraph DEF SearchInv, SearchShape, CyclesNeedLoops, drawn
  <2>2. CASE UNCHANGED validationVars
    <3>1. UNCHANGED drawn /\ UNCHANGED <<visited, path, todo, verdict>>
      BY <2>2 DEF validationVars
    <3>2. SearchShape'
      BY <3>1, SameGraph DEF SearchInv, SearchShape, drawn
    <3>3. OnPath' = OnPath /\ DoneWith' = DoneWith
      BY <3>1 DEF OnPath, DoneWith
    <3>4. Pursued' <=> Pursued
      BY <3>1, <3>3, SameGraph DEF Pursued
    <3>5. Leads' <=> Leads
      BY <3>1, SameGraph DEF Leads
    <3>6. CyclesNeedLoops'
      <4>1. entry' = entry
        BY <3>1 DEF drawn
      <4> QED
        BY <3>1, <4>1, SameGraph DEF SearchInv, CyclesNeedLoops, PlainReached
    <3> QED
      BY <3>1, <3>2, <3>3, <3>4, <3>5, <3>6, SameGraph DEF SearchInv
  <2> QED
    BY <2>1, <2>2, StartKeeps, DescendKeeps, MeetKeeps, RetreatKeeps DEF ValidationStep
<1> QED
  BY <1>1, <1>2, PTL DEF ValidationSpec

-----------------------------------------------------------------------------
(***************************************************************************)
(* The rounds of the search for unreachable nodes.                         *)
(***************************************************************************)
(* Numbers from zero on: what holds of zero, and of a number's successor.   *)
LEMMA FromZeroOn ==
    ASSUME NEW T \in SUBSET Nat, 0 \in T, \A n \in T : n + 1 \in T
    PROVE  T = Nat
<1> SUFFICES ASSUME Nat \ T # {} PROVE FALSE
  OBVIOUS
<1> DEFINE R == OpToRel(<, Nat)
<1>1. IsWellFoundedOn(R, Nat)
  BY NatLessThanWellFounded
<1>2. \A m, n \in Nat : m < n => <<m, n>> \in R
  BY DEF OpToRel
<1> HIDE DEF R
<1>3. \E n \in Nat \ T : \A m \in Nat \ T : <<m, n>> \notin R
  BY <1>1, WFMin
<1>4. PICK n \in Nat \ T : \A m \in Nat \ T : <<m, n>> \notin R
  BY <1>3
<1>5. n # 0 /\ n - 1 \in Nat /\ n - 1 < n
  OBVIOUS
<1>6. n - 1 \in T
  BY <1>2, <1>4, <1>5
<1> QED
  BY <1>5, <1>6

Grown(S) == S \cup UNION {Neighbours(v) : v \in S}
Rounds(f, n) == f = [k \in 0 .. n |-> IF k = 0 THEN {entry} ELSE Grown(f[k - 1])]

LEMMA MetChosen == ASSUME NEW n \in Nat PROVE Met(n) = (CHOOSE f : Rounds(f, n))[n]
  BY DEF Met, Rounds, Grown

(* The rounds of the search: each is what the one before has grown to.      *)
LEMMA RoundsSay ==
    ASSUME NEW n \in Nat, NEW f, Rounds(f, n)
    PROVE  f[0] = {entry} /\ \A k \in 0 .. n - 1 : f[k + 1] = Grown(f[k])
<1>1. ASSUME NEW k \in 0 .. n PROVE f[k] = IF k = 0 THEN {entry} ELSE Grown(f[k - 1])
  BY Zenon DEF Rounds
<1>2. f[0] = {entry}
  BY <1>1
<1>3. ASSUME NEW k \in 0 .. n - 1 PROVE f[k + 1] = Grown(f[k])
  <2>1. k + 1 \in 0 .. n /\ k + 1 # 0 /\ (k + 1) - 1 = k
    OBVIOUS
  <2> QED
    BY <1>1, <2>1
<1> QED
  BY <1>2, <1>3

LEMMA RoundsAre ==
    ASSUME NEW n \in Nat PROVE \E f : Rounds(f, n)
<1> DEFINE T == {m \in Nat : \E f : Rounds(f, m)}
<1>1. 0 \in T
  <2> DEFINE f == [k \in 0 .. 0 |-> {entry}]
  <2>1. Rounds(f, 0)
    BY DEF Rounds
  <2> QED
    BY <2>1
<1>2. ASSUME NEW m \in T PROVE m + 1 \in T
  <2>1. PICK f : Rounds(f, m)
    OBVIOUS
  <2> DEFINE g == [k \in 0 .. m + 1 |-> IF k <= m THEN f[k] ELSE Grown(f[m])]
  <2>2. ASSUME NEW k \in 0 .. m + 1 PROVE g[k] = IF k = 0 THEN {entry} ELSE Grown(g[k - 1])
    <3>1. CASE k <= m
      <4>1. CASE k = 0
        BY <2>1, <4>1, RoundsSay
      <4>2. CASE k > 0
        <5>1. k - 1 \in 0 .. m - 1 /\ (k - 1) + 1 = k
          BY <3>1, <4>2
        <5>2. f[k] = Grown(f[k - 1])
          BY <2>1, <5>1, RoundsSay
        <5> QED
          BY <3>1, <5>1, <5>2
      <4> QED
        BY <4>1, <4>2
    <3>2. CASE k = m + 1
      BY <3>2
    <3> QED
      BY <3>1, <3>2
  <2>3. Rounds(g, m + 1)
    BY <2>2 DEF Rounds
  <2> QED
    BY <2>3
<1> HIDE DEF T
<1>3. T = Nat
  BY <1>1, <1>2, FromZeroOn DEF T
<1> QED
  BY <1>3 DEF T

LEMMA RoundsAgree ==
    ASSUME NEW m \in Nat, NEW n \in Nat, m <= n, NEW f, Rounds(f, m), NEW g, Rounds(g, n)
    PROVE  \A k \in 0 .. m : f[k] = g[k]
<1> DEFINE T == {k \in Nat : k <= m => f[k] = g[k]}
<1>1. 0 \in T
  BY RoundsSay
<1>2. ASSUME NEW k \in T PROVE k + 1 \in T
  <2>1. SUFFICES ASSUME k + 1 <= m PROVE f[k + 1] = g[k + 1]
    OBVIOUS
  <2>2. f[k + 1] = Grown(f[k])
    BY <2>1, RoundsSay
  <2>3. g[k + 1] = Grown(g[k])
    BY <2>1, RoundsSay
  <2> QED
    BY <2>1, <2>2, <2>3
<1> HIDE DEF T
<1>3. T = Nat
  BY <1>1, <1>2, FromZeroOn DEF T
<1> QED
  BY <1>3 DEF T

LEMMA MetGrows ==
    /\ Met(0) = {entry}
    /\ \A n \in Nat : Met(n + 1) = Grown(Met(n))
<1> DEFINE F(n) == CHOOSE f : Rounds(f, n)
<1>1. \A n \in Nat : Rounds(F(n), n)
  BY RoundsAre
<1>2. \A n \in Nat : Met(n) = F(n)[n]
  BY MetChosen
<1> HIDE DEF F
<1>3. F(0)[0] = {entry}
  BY <1>1, RoundsSay
<1>4. ASSUME NEW n \in Nat PROVE F(n + 1)[n + 1] = Grown(F(n)[n])
  <2>1. F(n + 1)[n + 1] = Grown(F(n + 1)[n])
    BY <1>1, RoundsSay
  <2>2. F(n)[n] = F(n + 1)[n]
    BY <1>1, RoundsAgree
  <2> QED
    BY <2>1, <2>2
<1> QED
  BY <1>2, <1>3, <1>4

(* After as many rounds as there are nodes the search has met what is       *)
(* reached: until it meets nothing new, each round meets one node more.     *)
LEMMA MetIsReached ==
    ASSUME WellFormed, entry \in Vertex
    PROVE  Met(Cardinality(Vertex)) = Reached
<1> DEFINE N == Cardinality(Vertex)
<1>1. N \in Nat /\ IsFiniteSet(Vertex)
  BY ValidationAssumption, FS_CardinalityType
<1>2. \A v \in Reached : Neighbours(v) \subseteq Reached
  BY DEF WellFormed, Neighbours, Reached, Closure, NoEdgeOut
<1>3. entry \in Reached /\ Reached \subseteq Vertex
  BY DEF Reached, Closure
<1> DEFINE T == {n \in Nat : entry \in Met(n) /\ Met(n) \subseteq Reached}
<1>4. T = Nat
  <2>1. 0 \in T
    BY <1>3, MetGrows
  <2>2. ASSUME NEW n \in T PROVE n + 1 \in T
    <3>1. Met(n + 1) = Grown(Met(n))
      BY MetGrows
    <3> QED
      BY <1>2, <3>1 DEF Grown
  <2> HIDE DEF T
  <2> QED
    BY <2>1, <2>2, FromZeroOn DEF T
<1>5. \A n \in Nat : entry \in Met(n) /\ Met(n) \subseteq Reached
  BY <1>4
<1>6. \A n \in Nat : IsFiniteSet(Met(n)) /\ Cardinality(Met(n)) \in Nat /\ Cardinality(Met(n)) <= N
  BY <1>1, <1>3, <1>5, FS_Subset, FS_CardinalityType
<1> DEFINE U == {n \in Nat : Grown(Met(n)) = Met(n) \/ Cardinality(Met(n)) > n}
<1>7. U = Nat
  <2>1. 0 \in U
    <3>1. Cardinality(Met(0)) = 1
      BY MetGrows, FS_Singleton
    <3> QED
      BY <3>1
  <2>2. ASSUME NEW n \in U PROVE n + 1 \in U
    <3>1. Met(n + 1) = Grown(Met(n))
      BY MetGrows
    <3>2. CASE Grown(Met(n)) = Met(n)
      BY <3>1, <3>2
    <3>3. CASE Cardinality(Met(n)) > n /\ Grown(Met(n)) # Met(n)
      <4>1. Met(n) \subseteq Met(n + 1) /\ Met(n) # Met(n + 1)
        BY <3>1, <3>3 DEF Grown
      <4>2. Cardinality(Met(n)) < Cardinality(Met(n + 1))
        BY <1>6, <4>1, FS_Subset
      <4> QED
        BY <1>6, <3>3, <4>2
    <3> QED
      BY <3>2, <3>3
  <2> HIDE DEF U
  <2> QED
    BY <2>1, <2>2, FromZeroOn DEF U
<1>8. Grown(Met(N)) = Met(N)
  BY <1>1, <1>6, <1>7
<1>9. NoEdgeOut(Met(N), Vertex)
  BY <1>8 DEF NoEdgeOut, Grown, Neighbours
<1>10. Met(N) \in SUBSET Vertex
  BY <1>1, <1>3, <1>5
<1>11. Reached \subseteq Met(N)
  BY <1>1, <1>5, <1>9, <1>10 DEF Reached, Closure
<1> QED
  BY <1>1, <1>5, <1>11

(* The depth is that of a round in which all that is reached has been met.  *)
LEMMA DepthMeets ==
    ASSUME StartNodes # {}
    PROVE  MaxDepth \in Nat /\ Met(MaxDepth) = Met(Cardinality(Vertex))
<1> DEFINE N == Cardinality(Vertex)
           Latest(d) == Met(d) = Met(N) /\ (d > 0 => Met(d - 1) # Met(d))
<1>1. N \in Nat
  BY ValidationAssumption, FS_CardinalityType
<1>2. \E d \in 0 .. N : Latest(d)
  <2> SUFFICES ASSUME \A d \in 0 .. N : ~Latest(d) PROVE FALSE
    OBVIOUS
  <2> DEFINE T == {n \in Nat : n <= N => Met(N - n) = Met(N)}
  <2>1. 0 \in T
    BY <1>1
  <2>2. ASSUME NEW n \in T PROVE n + 1 \in T
    <3>1. SUFFICES ASSUME n + 1 <= N PROVE Met(N - (n + 1)) = Met(N)
      OBVIOUS
    <3>2. N - n \in 0 .. N /\ N - n > 0 /\ Met(N - n) = Met(N) /\ N - (n + 1) = (N - n) - 1
      BY <1>1, <3>1
    <3>3. Met((N - n) - 1) = Met(N - n)
      BY <3>2
    <3> QED
      BY <3>2, <3>3
  <2>3. T = Nat
    <3> HIDE DEF T
    <3> QED
      BY <2>1, <2>2, FromZeroOn DEF T
  <2>4. Met(N - N) = Met(N) /\ N - N = 0
    BY <1>1, <2>3
  <2>5. Latest(0)
    BY <2>4
  <2> QED
    BY <1>1, <2>5
<1>3. MaxDepth = CHOOSE d \in 0 .. N : Latest(d)
  BY DEF MaxDepth
<1> HIDE DEF Latest
<1>4. MaxDepth \in 0 .. N /\ Latest(MaxDepth)
  BY <1>2, <1>3
<1> QED
  BY <1>1, <1>4 DEF Latest

(* What the report says beside the verdict.                                 *)
LEMMA ReportTrue ==
    ASSUME WellFormed, entry \in Vertex, StartNodes # {}
    PROVE  /\ Unreachable \cap Reached = {}
           /\ Unreachable = {} => Reached = Vertex /\ Stats.connected
<1>1. Unreachable = Vertex \ Reached
  BY MetIsReached DEF Unreachable
<1>2. Reached \subseteq Vertex
  BY DEF Reached, Closure
<1>3. ASSUME Unreachable = {}, MaxDepth = 0 PROVE Cardinality(Vertex) = 1
  <2>1. Vertex = {entry}
    BY <1>1, <1>2, <1>3, MetIsReached, DepthMeets, MetGrows
  <2> QED
    BY <2>1, FS_Singleton
<1>4. ASSUME Unreachable = {} PROVE Stats.connected
  <2>1. MaxDepth > 0 \/ Cardinality(Vertex) <= 1
    BY <1>3, <1>4, DepthMeets
  <2> QED
    BY <2>1 DEF Stats
<1> QED
  BY <1>1, <1>2, <1>4

LEMMA ReportKeeps ==
    ASSUME SearchInv, QuietRunsWhole, [ValidationStep]_validationVars
    PROVE  QuietRunsWhole'
<1>1. UNCHANGED drawn
  BY DEF ValidationStep, RefuseGraph, StartSearch, Retreat, Descend, MeetVisited, validationVars
<1>2. Reached' = Reached /\ Vertex' = Vertex
  BY <1>1, SameGraph
<1>3. CASE GoOn
  BY <1>2, <1>3 DEF GoOn, QuietRunsWhole
<1>4. ASSUME NEW v, Close(v), path # <<>> PROVE QuietRunsWhole'
  <2>1. WellFormed /\ entry \in Vertex /\ StartNodes # {}
    BY <1>4 DEF SearchInv, SearchShape
  <2>2. /\ report'.warnings.ends = NoWayOut /\ report'.warnings.far = Unreachable
        /\ report'.stats.connected = Stats.connected
    BY <1>4 DEF Close, Warnings
  <2> QED
    BY <1>2, <2>1, <2>2, ReportTrue DEF QuietRunsWhole
<1>5. ASSUME Close("invalid"), StartNodes = {} PROVE QuietRunsWhole'
  <2>1. report'.warnings.far = {} /\ verdict' = "invalid"
    BY <1>5 DEF Close, Warnings, Unreachable
  <2> QED
    BY <1>2, <2>1 DEF QuietRunsWhole
<1>6. CASE RefuseGraph
  <2>1. verdict' = "invalid" /\ report' = report
    BY <1>6 DEF RefuseGraph
  <2> QED
    BY <1>2, <2>1 DEF QuietRunsWhole
<1>7. CASE StartSearch
  BY <1>3, <1>5, <1>7 DEF StartSearch
<1>8. ASSUME NEW w \in Vertex, Descend(w) \/ MeetVisited(w) PROVE QuietRunsWhole'
  BY <1>3, <1>4, <1>8 DEF Descend, MeetVisited
<1>9. CASE Retreat
  BY <1>3, <1>4, <1>9 DEF Retreat
<1>10. CASE UNCHANGED validationVars
  BY <1>3, <1>10 DEF validationVars, GoOn
<1> QED
  BY <1>6, <1>7, <1>8, <1>9, <1>10 DEF ValidationStep

(* Of every graph, with its edges in any order: what is published has one   *)
(* start node and no cycle without a loop node that it reaches, and what is *)
(* refused for a cycle has one; a graph accepted without a warning is       *)
(* reached as a whole, and no node is called unreachable that is not.       *)
THEOREM VerdictIsSound == ValidationSpec => []VerdictSound
<1>1. ValidationInit => QuietRunsWhole
  BY DEF ValidationInit, QuietRunsWhole, NoReport
<1>2. SearchInv => CyclesNeedLoops
  BY DEF SearchInv
<1> QED
  BY <1>1, <1>2, SearchKept, ReportKeeps, PTL DEF ValidationSpec, VerdictSound

(* The types: a graph and what may be wrong with it stay as they were drawn *)
(* while it is checked, and nothing is reported before there is a verdict.  *)
LEMMA DrawingsDraw == ASSUME NEW d \in Drawings PROVE d \subseteq Vertex \X (Vertex \cup {Dangling})
<1> DEFINE Pairs == Vertex \X (Vertex \cup {Dangling})
           arrow == {{}} \cup {{a} : a \in Pairs}
<1>1. PICK drawing \in [1 .. MaxEdges -> arrow] : d = UNION {drawing[n] : n \in 1 .. MaxEdges}
  BY DEF Drawings
<1>2. \A n \in 1 .. MaxEdges : drawing[n] \subseteq Pairs
  OBVIOUS
<1> HIDE DEF Pairs
<1>3. d \subseteq Pairs
  BY <1>1, <1>2
<1> QED
  BY <1>3 DEF Pairs

GraphTyped ==
    /\ type \in Typings /\ edge \subseteq Vertex \X (Vertex \cup {Dangling})
    /\ unfilled \subseteq Vertex /\ odd \subseteq Vertex
    /\ verdict \in {"none", "valid", "invalid", "cycle"}
    /\ report.made => verdict # "none"

LEMMA GraphTypesKept == GraphTyped /\ [ValidationStep]_validationVars => GraphTyped'
<1> SUFFICES ASSUME GraphTyped, [ValidationStep]_validationVars PROVE GraphTyped'
  OBVIOUS
<1>1. ASSUME UNCHANGED drawn, GoOn PROVE GraphTyped'
  BY <1>1 DEF GraphTyped, drawn, GoOn
<1>2. ASSUME UNCHANGED drawn, NEW v \in {"valid", "invalid", "cycle"}, Close(v) PROVE GraphTyped'
  BY <1>2 DEF GraphTyped, drawn, Close
<1>3. CASE RefuseGraph
  BY <1>3 DEF RefuseGraph, GraphTyped, drawn
<1>4. CASE StartSearch
  BY <1>1, <1>2, <1>4 DEF StartSearch
<1>5. CASE Retreat
  BY <1>1, <1>2, <1>5 DEF Retreat
<1>6. ASSUME NEW w \in Vertex, Descend(w) \/ MeetVisited(w) PROVE GraphTyped'
  BY <1>1, <1>2, <1>6 DEF Descend, MeetVisited
<1>7. CASE UNCHANGED validationVars
  BY <1>7 DEF validationVars, GraphTyped, drawn
<1> QED
  BY <1>3, <1>4, <1>5, <1>6, <1>7 DEF ValidationStep

LEMMA ValidationTypes == ValidationSpec => []ValidationTypeOK
<1>1. ValidationInit => GraphTyped
  BY DrawingsDraw, ValidationAssumption DEF ValidationInit, GraphTyped, NoReport
<1>2. GraphTyped /\ SearchInv => ValidationTypeOK
  BY DEF GraphTyped, SearchInv, SearchShape, StartNodes, ValidationTypeOK
<1> QED
  BY <1>1, <1>2, GraphTypesKept, SearchKept, PTL DEF ValidationSpec

-----------------------------------------------------------------------------
(***************************************************************************)
(* The components side by side. A step of one of them is a step of it or a *)
(* stutter for each of the others, so that what has been shown of each by  *)
(* itself holds of all of them together.                                   *)
(***************************************************************************)
LEMMA ServicesStart ==
    ServicesInit => /\ Init /\ IngressInit /\ TrafficInit /\ LeadInit /\ StoreInit
                    /\ CleanupInit /\ MemoryInit /\ WindowInit /\ NodeInit /\ JobInit
                    /\ StreamInit /\ SwitchInit /\ SandboxInit /\ ValidationInit /\ AdminInit
BY DEF ServicesInit

LEMMA ServicesSteps ==
    [ServicesNext]_servicesVars =>
        /\ [Next]_vars /\ [IngressNext]_ingressVars /\ [TrafficNext]_trafficVars
        /\ [LeadNext]_leadVars /\ [StoreNext]_storeVars /\ [CleanupNext]_cleanupVars
        /\ [MemoryNext]_memoryVars /\ [WindowNext]_windowVars /\ [NodeNext]_nodeVars
        /\ [JobNext]_jobVars /\ [StreamNext]_streamVars /\ [SwitchNext]_switchVars
        /\ [SandboxNext]_sandboxVars /\ [ValidationStep]_validationVars /\ [AdminNext]_adminVars
<1> SUFFICES ASSUME [ServicesNext]_servicesVars
             PROVE  /\ [Next]_vars /\ [IngressNext]_ingressVars /\ [TrafficNext]_trafficVars
                    /\ [LeadNext]_leadVars /\ [StoreNext]_storeVars /\ [CleanupNext]_cleanupVars
                    /\ [MemoryNext]_memoryVars /\ [WindowNext]_windowVars /\ [NodeNext]_nodeVars
                    /\ [JobNext]_jobVars /\ [StreamNext]_streamVars /\ [SwitchNext]_switchVars
                    /\ [SandboxNext]_sandboxVars /\ [ValidationStep]_validationVars /\ [AdminNext]_adminVars
  OBVIOUS
<1>1. [Next]_vars
  BY DEF ServicesNext, servicesVars
<1>2. [IngressNext]_ingressVars
  BY DEF ServicesNext, servicesVars
<1>3. [TrafficNext]_trafficVars
  BY DEF ServicesNext, servicesVars
<1>4. [LeadNext]_leadVars
  BY DEF ServicesNext, servicesVars
<1>5. [StoreNext]_storeVars
  BY DEF ServicesNext, servicesVars
<1>6. [CleanupNext]_cleanupVars
  BY DEF ServicesNext, servicesVars
<1>7. [MemoryNext]_memoryVars
  BY DEF ServicesNext, servicesVars
<1>8. [WindowNext]_windowVars
  BY DEF ServicesNext, servicesVars
<1>9. [NodeNext]_nodeVars
  BY DEF ServicesNext, servicesVars
<1>10. [JobNext]_jobVars
  BY DEF ServicesNext, servicesVars
<1>11. [StreamNext]_streamVars
  BY DEF ServicesNext, servicesVars
<1>12. [SwitchNext]_switchVars
  BY DEF ServicesNext, servicesVars
<1>13. [SandboxNext]_sandboxVars
  BY DEF ServicesNext, servicesVars
<1>14. [ValidationStep]_validationVars
  BY DEF ServicesNext, servicesVars
<1>15. [AdminNext]_adminVars
  BY DEF ServicesNext, servicesVars
<1> QED
  BY <1>1, <1>2, <1>3, <1>4, <1>5, <1>6, <1>7, <1>8, <1>9, <1>10, <1>11, <1>12, <1>13, <1>14, <1>15

(* A behaviour of the whole is one of each component.                       *)
THEOREM ServicesImplement ==
    ServicesSpec => /\ Spec /\ IngressSpec /\ TrafficSpec /\ LeadSpec /\ StoreSpec
                    /\ CleanupSpec /\ MemorySpec /\ WindowSpec /\ NodeSpec /\ JobSpec
                    /\ StreamSpec /\ SwitchSpec /\ SandboxSpec /\ ValidationSpec /\ AdminSpec
BY ServicesStart, ServicesSteps, PTL
   DEF ServicesSpec, Spec, IngressSpec, TrafficSpec, LeadSpec, StoreSpec, CleanupSpec, MemorySpec,
       WindowSpec, NodeSpec, JobSpec, StreamSpec, SwitchSpec, SandboxSpec, ValidationSpec, AdminSpec

(* Every variable of the whole keeps its type, whichever component it is of *)
(* that is at work.                                                         *)
THEOREM ServicesTypesCorrect == ServicesSpec => []ServicesTypeOK
<1>1. JobInv /\ SwitchInv /\ CleanInv /\ IngressInv /\ StreamInv /\ SandboxInv /\ MemoryInv
      => /\ JobTypeOK /\ SwitchTypeOK /\ CleanupTypeOK /\ IngressTypeOK /\ StreamTypeOK
         /\ SandboxTypeOK /\ MemoryTypeOK
  BY DEF JobInv, SwitchInv, CleanInv, Grounds, IngressInv, StreamInv, SandboxInv, MemoryInv
<1>2. /\ TypeOK /\ IngressTypeOK /\ TrafficTypeOK /\ LeadTypeOK /\ StoreTypeOK /\ CleanupTypeOK
      /\ MemoryTypeOK /\ WindowTypeOK /\ NodeTypeOK /\ JobTypeOK /\ StreamTypeOK /\ SwitchTypeOK
      /\ SandboxTypeOK /\ ValidationTypeOK /\ AdminTypeOK
      => ServicesTypeOK
  BY DEF ServicesTypeOK, TrafficTypeOK
<1> QED
  BY <1>1, <1>2, ServicesImplement, TypeCorrect, IngressInvariant, TrafficTypesCorrect, LeadTypes,
     StoreTypes, CleanInvariant, MemoryInvariant, WindowTypes, NodeTypes, JobInvariant,
     StreamInvariant, SwitchInvariant, SandboxInvariant, ValidationTypes, AdminTypes, PTL

(* And with their types the whole keeps what the components promise, as one *)
(* run checks it of one instance, the open breaker's promise included.      *)
THEOREM ServicesSafe ==
    ServicesSpec =>
        /\ [](/\ ProbeBound /\ SendersServed /\ QuestionFirst /\ CapOverrun /\ EveryContactAnswered
              /\ ActiveIsNewest /\ MemoriesBounded /\ RollingLimitInMemory /\ NodeAccounts
              /\ OfferedWorks /\ JobNotLost /\ LiveSocketServed /\ CompletedIsCopied /\ CleanIsEmpty
              /\ RunsAccounted /\ VerdictSound /\ TokensSettled)
        /\ OpenHolds
BY ServicesImplement, ProbesBounded, OpenUntilTime, SenderServed, QuestionComesFirst,
   CapOverrunBounded, ContactsAnswered, ActiveStaysNewest, MemoriesStayBounded, LimitRolls,
   RequestsAccounted, OfferedSucceeds, VideoNotLost, LiveSocketsServed, SwitchedIsMoved,
   CleanedForGood, EveryRunAccounted, VerdictIsSound, TokensStaySettled, PTL
=============================================================================

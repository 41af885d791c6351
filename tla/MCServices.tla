------------------------------ MODULE MCServices ------------------------------
(***************************************************************************)
(* The components that share no state with one another, in one instance:   *)
(* every behaviour is one of a single component, the one in focus.         *)
(***************************************************************************)
EXTENDS TLC, CircuitBreaker, WebhookIngress, AgentTraffic, LeadCapture, WorkflowStore,
        RetentionCleanup, ConversationMemory, RateWindow, NodeOperations, VideoJobs,
        TraceStreams, DatabaseSwitch, CodeSandbox, GraphValidation, AgentAdmin

CONSTANTS
    Focuses, c1, c2, c3, c4, d1, d2, d3, r1, r2, r3, i1, no_thread, no_header, t1, t2, t3,
    q1, q2, q3, g1, g2, e1, e2, e3, x1, x2, x3, m1, n1, n2, j1, j2, s1, s2,
    db1, db2, db3, w1, w2, v1, v2, v3, v4, nowhere

VARIABLE focus

-----------------------------------------------------------------------------
(* Webhooks: two deliveries of one event and one whose key is another's, of *)
(* two providers; signatures good and stale.                                *)
MCProvider == d1 :> "stripe" @@ d2 :> "stripe" @@ d3 :> "github"
MCIdHeader == d1 :> no_header @@ d2 :> no_header @@ d3 :> "evt"
MCBodyOf == [d \in {d1, d2, d3} |-> "body"]
Signed == [present |-> TRUE, prefixed |-> TRUE, stamped |-> TRUE, fresh |-> TRUE, matches |-> TRUE]
MCSignature == d1 :> Signed @@ d2 :> [Signed EXCEPT !.fresh = FALSE] @@ d3 :> Signed

(* Leads: the first and the third message leave the same number.            *)
MCMessageOf == t1 :> {"phone1"} @@ t2 :> {"phone2"} @@ t3 :> {"phone1"}

MCExecutionOf == x1 :> e1 @@ x2 :> e2 @@ x3 :> e2

(* Memories that fit a history together, and one that fills it.             *)
MCTokensOf == [m \in 1 .. 4 |-> IF m = 3 THEN 2 ELSE 1]

(* A chain with and without a loop node, two start nodes, no start node and *)
(* a type nobody registered.                                                *)
Typing(first, second, third) ==
    v1 :> first @@ v2 :> second @@ v3 :> third @@ v4 :> "otherNode"

MCTypings ==
    {Typing("startNode", "loopNode", "otherNode"), Typing("startNode", "otherNode", "otherNode"),
     Typing("startNode", "startNode", "lostNode"), Typing("otherNode", "loopNode", "otherNode")}

(* Code: a plain piece, and one for each thing that may be wrong with it.   *)
Imports(m) == [Plain EXCEPT !.imports = {m}]
Calls(n) == [Plain EXCEPT !.calls = {n}]
Names(n) == [Plain EXCEPT !.names = {n}]
Does(d) == [Plain EXCEPT !.deeds = d]
MCCodeOf ==
    w1 :> ({Plain} \cup {Imports(m) : m \in Module} \cup {Calls(n) : n \in Name}
           \cup {Names(n) : n \in Name} \cup {[Plain EXCEPT !.attributes = {a}] : a \in Attribute}
           \cup {[Plain EXCEPT !.inputs = {i}] : i \in {"number", "null"}}
           \cup {Does(d) : d \in {s \in SUBSET Deed : Cardinality(s) \in 1 .. 2}})
    @@ w2 :> {Plain}

-----------------------------------------------------------------------------
(* A component that is not in focus stays in one of its initial states.     *)
StoreAtRest == row = [graph |-> g1, status |-> "DRAFT", active_version |-> 1, version |-> 1]

(* Graphs that no order of the search can make valid may do with less edges;*)
(* one that the schema refuses needs only the edge it is refused for.       *)
Flawless == unfilled = {} /\ odd = {} /\ Cardinality(StartNodes) = 1

ServicesInit ==
    /\ focus \in Focuses
    /\ Init /\ IngressInit /\ TrafficInit /\ LeadInit
    /\ MemoryInit /\ StreamInit /\ AdminInit
    /\ StoreInit /\ (focus # "versions" => StoreAtRest)
    /\ IF focus = "cleanup" THEN CleanupInit
       ELSE age = [y \in Rows |-> "absent"] /\ CleanupInit
    /\ IF focus = "limits" THEN WindowInit ELSE backend = "memory" /\ WindowInit
    /\ IF focus = "nodes" THEN NodeInit
       ELSE nodeKind = "notion" /\ operation = "other" /\ flaw = Flaw("none", {}) /\ NodeInit
    /\ IF focus = "videos" THEN JobInit ELSE lite = TRUE /\ JobInit
    /\ IF focus = "switches" THEN SwitchInit
       ELSE fromEnv = TRUE /\ schema = {db1} /\ SwitchInit
    /\ IF focus = "sandbox" THEN SandboxInit /\ (wanted # "docker" => docker = {})
       ELSE wanted = "docker" /\ docker = {} /\ code = [r \in Run |-> Plain] /\ SandboxInit
    /\ IF focus = "validation"
       THEN /\ ValidationInit
            /\ Cardinality(edge) \in 0 .. IF ~WellFormed THEN 1 ELSE IF Flawless THEN MaxEdges ELSE MaxEdges - 2
       ELSE /\ type = Typing("startNode", "otherNode", "otherNode") /\ edge = {}
            /\ unfilled = {} /\ odd = {} /\ ValidationInit

Agents == focus \in {"agents", "channels"}

(* Requests are alike: the first to arrive is r1. The owner interferes with *)
(* two of them; the third is there for the cap.                             *)
RequestsInOrder ==
    /\ apiStep'[r2] # "none" => apiStep'[r1] # "none"
    /\ apiStep'[r3] # "none" => apiStep'[r2] # "none" /\ edits' = 0

(* The owner's calls begin in order, the third when the others are over.    *)
CallEnds == {"200", "200_configured", "403", "404", "500"}
CallsInOrder ==
    /\ adminCall'[2].step # "idle" => adminCall'[1].step # "idle"
    /\ adminCall'[3].step # "idle" => \A r \in {1, 2} : adminCall'[r].step \in CallEnds

ServicesNext ==
    /\ UNCHANGED focus
    /\ IF focus = "breaker" THEN Next ELSE UNCHANGED vars
    /\ IF focus = "webhooks" THEN IngressNext ELSE UNCHANGED ingressVars
    /\ IF Agents THEN TrafficNext ELSE UNCHANGED trafficVars
    /\ focus = "agents" => UNCHANGED gatewayVars /\ RequestsInOrder
    /\ focus = "channels" => \A r \in {r2, r3} : apiStep'[r] = "none"
    /\ IF focus = "leads" THEN LeadNext ELSE UNCHANGED leadVars
    /\ task'[t3].step # "none" => task'[t1].step # "none"   \* they are alike
    /\ Cardinality({t \in LeadTask : task'[t].step = "dead"}) <= 1
    /\ IF focus = "versions" THEN StoreNext ELSE UNCHANGED storeVars
    /\ IF focus = "cleanup" THEN CleanupNext ELSE UNCHANGED cleanupVars
    /\ IF focus = "memory" THEN MemoryNext ELSE UNCHANGED memoryVars
    /\ IF focus = "limits" THEN WindowNext ELSE UNCHANGED windowVars
    /\ IF focus = "nodes" THEN NodeNext ELSE UNCHANGED nodeVars
    /\ IF focus = "videos" THEN JobNext ELSE UNCHANGED jobVars
    /\ IF focus = "streams" THEN StreamNext ELSE UNCHANGED streamVars
    /\ IF focus = "switches" THEN SwitchNext ELSE UNCHANGED switchVars
    /\ IF focus = "sandbox" THEN SandboxNext ELSE UNCHANGED sandboxVars
    /\ IF focus = "owner" THEN AdminNext /\ CallsInOrder ELSE UNCHANGED adminVars
    /\ IF focus = "validation" THEN ValidationStep ELSE UNCHANGED validationVars

servicesVars ==
    <<focus, vars, ingressVars, trafficVars, leadVars, storeVars, cleanupVars, memoryVars,
      windowVars, nodeVars, jobVars, streamVars, switchVars, sandboxVars, validationVars,
      adminVars>>

ServicesSpec == ServicesInit /\ [][ServicesNext]_servicesVars

(* The type invariant of the one in focus; the others do not move.          *)
ServicesTypeOK ==
    /\ focus = "breaker" => TypeOK
    /\ focus = "webhooks" => IngressTypeOK
    /\ Agents => ChatTypeOK /\ ApiTypeOK /\ GatewayTypeOK
    /\ focus = "leads" => LeadTypeOK
    /\ focus = "versions" => StoreTypeOK
    /\ focus = "cleanup" => CleanupTypeOK
    /\ focus = "memory" => MemoryTypeOK
    /\ focus = "limits" => WindowTypeOK
    /\ focus = "nodes" => NodeTypeOK
    /\ focus = "videos" => JobTypeOK
    /\ focus = "streams" => StreamTypeOK
    /\ focus = "switches" => SwitchTypeOK
    /\ focus = "sandbox" => SandboxTypeOK
    /\ focus = "validation" => ValidationTypeOK
    /\ focus = "owner" => AdminTypeOK
=============================================================================

------------------------------ MODULE LogicNodes ------------------------------
(***************************************************************************)
(* Logic nodes in a chain: what the executor merges into the input of a    *)
(* node, what a router, a condition, a wait, a parallel or a loop node     *)
(* decides on it, and which edges the executor follows then. A model's or  *)
(* a memory node takes part for the keys of its output alone.              *)
(*                                                                         *)
(* A setting, an answer and a verdict are one value each. What a node will *)
(* find (the evidence) is drawn anew at each attempt of the executor.      *)
(***************************************************************************)
EXTENDS Naturals, Sequences

CONSTANTS
    MaxChain,     \* nodes in a chain
    MaxTries,     \* attempts of the executor at one node
    AiAttempts    \* config.max_retries of the router

ASSUME LogicAssumption == {MaxChain, MaxTries, AiAttempts} \subseteq Nat \ {0}

VARIABLES
    logic,      \* the node at hand: its kind and its settings in the graph
    linked,     \* inputs that edges map to it
    carried,    \* the output of the node before it, as far as it names settings
    evidence,   \* what it will find
    asked,      \* answers of the router's model that were awaited
    logicStep, tries, chain,
    branch,     \* selected_branch
    followed    \* handles whose edges were followed

logicVars == <<logic, linked, carried, evidence, asked, logicStep, tries, chain, branch, followed>>

-----------------------------------------------------------------------------
(* Settings. "" stands for one that is not given.                           *)
RouterSettings ==
    [connection_id : {"", "google"}, ai_only : {"", "yes"}, default_branch : {"support", "other"}]
FilterSettings ==
    [condition : {"", "own"}, else_condition : {"", "own"},
     error_branch : {"false_branch", "error_branch", "raise"}]
WaitSettings ==
    [mode : {"manual", "timeout", "condition", "webhook"}, wait_condition : {"", "own"}]
ParallelSettings ==
    [mode : {"fan_out", "fan_in", "race", "all_settled"},
     failure_handling : {"fail_fast", "fail_slow", "ignore", "collect"}]
LoopSettings == [items : {"", "own"}, empty_behavior : {"completed", "error"}]
MemorySettings == [operation : {"add memory", "get all memories"}]
ModelSettings == [model : {"own"}]

Settings ==
    [router |-> RouterSettings, filter |-> FilterSettings, wait |-> WaitSettings,
     parallel |-> ParallelSettings, loop |-> LoopSettings, memory |-> MemorySettings,
     model |-> ModelSettings]

LogicNode == UNION {[kind : {k}, settings : Settings[k]] : k \in DOMAIN Settings}

(* An edge that maps nothing in particular fills the prompt, which is the   *)
(* only way to one here.                                                    *)
Linked(kind) == {<<>>} \cup (IF kind \in {"router", "model"} THEN {[prompt |-> "text"]} ELSE {})

Verdict == {"true", "false", "raises"}
Source == {"absent", "error", "done"}

(* A router finds the answers of its model and the rules that match; a loop *)
(* how many items its filter and limits leave.                              *)
Evidence(kind) ==
    CASE kind = "router" ->
           [answers : [1 .. AiAttempts -> {"sales", "empty", "unlisted", "silent"}],
            refused : BOOLEAN, rules : SUBSET {"support", "sales"}]
      [] kind = "filter" -> [main : Verdict, alternative : Verdict]
      [] kind = "wait" -> [holds : BOOLEAN]
      [] kind = "parallel" -> [sources : [1 .. 2 -> Source]]
      [] kind = "loop" -> [left : 0 .. 2]
      [] OTHER -> [none : {TRUE}]

-----------------------------------------------------------------------------
(* What the node before put out wins over the settings of the node, and     *)
(* these over what edges map to it.                                         *)
Over(f, g) == [k \in DOMAIN f \cup DOMAIN g |-> IF k \in DOMAIN f THEN f[k] ELSE g[k]]

Input == Over(carried, Over(logic.settings, linked))

Given(setting) == setting \in DOMAIN Input /\ Input[setting] # ""

(* The keys of an output that are settings of some node: a condition that   *)
(* could not be evaluated is in the output of its error.                    *)
FilterKeys(b) ==
    IF evidence.main = "raises" \/ (b # "true" /\ Given("else_condition") /\ evidence.alternative = "raises")
    THEN [condition |-> "failed"] ELSE <<>>

OutputKeys(b) ==
    CASE logic.kind = "filter" /\ Given("condition") -> FilterKeys(b)
      [] logic.kind = "wait" /\ b = "approved" -> [mode |-> Input.mode]
      [] logic.kind = "parallel" /\ b = "start" /\ Input.mode = "race" -> [mode |-> "race"]
      [] logic.kind = "parallel" /\ b = "start" ->
           [mode |-> Input.mode, failure_handling |-> Input.failure_handling]
      [] logic.kind = "loop" /\ b = "start" -> [items |-> "outer"]
      [] logic.kind = "memory" -> [operation |-> Input.operation]
      [] logic.kind = "model" -> [model |-> Input.model]
      [] OTHER -> <<>>

-----------------------------------------------------------------------------
EnterNode(n, l) ==
    /\ logic' = n /\ linked' = l
    /\ evidence' \in Evidence(n.kind)
    /\ asked' = <<>> /\ logicStep' = "input" /\ tries' = 1
    /\ branch' = "none" /\ followed' = {}

LogicInit ==
    /\ logic = [kind |-> "memory", settings |-> [operation |-> "add memory"]]
    /\ linked = <<>> /\ carried = <<>> /\ evidence = [none |-> TRUE] /\ asked = <<>>
    /\ logicStep = "over" /\ tries = 1 /\ chain = 0 /\ branch = "none" /\ followed = {"output"}

(* The next node of the chain, or the first, is any node.                   *)
NextNode ==
    /\ logicStep = "over" /\ followed # {} /\ chain < MaxChain
    /\ chain' = chain + 1
    /\ carried' = IF chain = 0 THEN <<>> ELSE OutputKeys(branch)
    /\ \E n \in LogicNode : \E l \in Linked(n.kind) : EnterNode(n, l)

Select(b) ==
    /\ branch' = b /\ logicStep' = "output"
    /\ UNCHANGED <<logic, linked, carried, evidence, tries, chain, followed>>

(* An exception: the executor runs the node again, or the run fails.        *)
RaiseError(retryable) ==
    /\ IF retryable /\ tries < MaxTries
       THEN /\ tries' = tries + 1 /\ evidence' \in Evidence(logic.kind)
            /\ asked' = <<>> /\ logicStep' = "input"
       ELSE logicStep' = "failed" /\ UNCHANGED <<tries, evidence, asked>>
    /\ UNCHANGED <<logic, linked, carried, chain, branch, followed>>

Deciding(kind) == logicStep = "input" /\ logic.kind = kind

-----------------------------------------------------------------------------
(* The router.                                                              *)
DefaultListed == Input.default_branch \in {"support", "sales"}
Branches == IF DefaultListed THEN <<"support", "sales">> ELSE <<"support", "sales", "other">>

(* The first rule that matches in the order of the rules; with none, the    *)
(* first branch of the list.                                                *)
RoutedByRules ==
    IF "sales" \in evidence.rules THEN "sales"
    ELSE IF "support" \in evidence.rules THEN "support" ELSE Branches[1]

RouterFallback_IgnoresAiOnly == RoutedByRules
RouterFallback == IF Given("ai_only") THEN Input.default_branch ELSE RoutedByRules

RouterStarts ==
    /\ Deciding("router")
    /\ IF ~Given("prompt") THEN RaiseError(FALSE)
       ELSE IF ~Given("connection_id") THEN Select(RouterFallback) /\ UNCHANGED asked
       ELSE IF evidence.refused   \* no such connection, or it cannot be read
       THEN IF Given("ai_only") THEN RaiseError(TRUE) ELSE Select(RouterFallback) /\ UNCHANGED asked
       ELSE /\ logicStep' = "ai"
            /\ UNCHANGED <<logic, linked, carried, evidence, asked, tries, chain, branch, followed>>

(* Silence (no text, a time-out, an error) is asked again; a text that is   *)
(* no branch is not; an empty one is part of every branch's name.           *)
RouterAsks ==
    /\ logicStep = "ai"
    /\ LET a == evidence.answers[Len(asked) + 1] IN
         /\ asked' = Append(asked, a)
         /\ CASE a = "sales" -> Select(a)
              [] a = "empty" -> Select(Branches[1])
              [] a = "unlisted" -> Select(RouterFallback)
              [] a = "silent" ->
                   IF Len(asked) + 1 < AiAttempts
                   THEN UNCHANGED <<logic, linked, carried, evidence, logicStep, tries, chain, branch, followed>>
                   ELSE Select(RouterFallback)

-----------------------------------------------------------------------------
(* The condition. An error goes where error_branch says.                    *)
FilterError ==
    IF Input.error_branch = "raise" THEN RaiseError(TRUE)
    ELSE Select(IF Input.error_branch = "error_branch" THEN "error" ELSE "false") /\ UNCHANGED asked

FilterElse ==
    IF ~Given("else_condition") THEN Select("false") /\ UNCHANGED asked
    ELSE CASE evidence.alternative = "raises" -> FilterError
           [] evidence.alternative = "true" -> Select("else") /\ UNCHANGED asked
           [] evidence.alternative = "false" -> Select("false") /\ UNCHANGED asked

FilterDecides ==
    /\ Deciding("filter")
    /\ IF ~Given("condition") THEN FilterError
       ELSE CASE evidence.main = "raises" -> FilterError
              [] evidence.main = "true" -> Select("true") /\ UNCHANGED asked
              [] evidence.main = "false" -> FilterElse

(* The wait: a condition that already holds is passed, one that cannot be   *)
(* evaluated does not hold.                                                 *)
WaitDecides ==
    /\ Deciding("wait") /\ UNCHANGED asked
    /\ Select(CASE Input.mode \in {"manual", "timeout", "webhook"} -> "paused"
                [] Input.mode = "condition" /\ ~Given("wait_condition") -> "error"
                [] Input.mode = "condition" /\ Given("wait_condition") ->
                     IF evidence.holds THEN "approved" ELSE "paused"
                [] OTHER -> "error")

(* Fan-in looks at the outputs that are there when it runs.                 *)
Missing == {i \in DOMAIN evidence.sources : evidence.sources[i] # "done"}

ParallelDecides ==
    /\ Deciding("parallel") /\ UNCHANGED asked
    /\ Select(CASE Input.mode \in {"fan_out", "race"} -> "start"
                [] Input.mode = "fan_in" ->
                     IF Missing # {} /\ Input.failure_handling \in {"fail_fast", "fail_slow"}
                     THEN "error" ELSE "completed"
                [] Input.mode = "all_settled" -> "completed"
                [] OTHER -> "error")

LoopDecides ==
    /\ Deciding("loop") /\ UNCHANGED asked
    /\ Select(IF Given("items") THEN "start" ELSE Input.empty_behavior)

(* A model wants a prompt.                                                  *)
OtherDecides ==
    /\ logicStep = "input" /\ logic.kind \in {"memory", "model"}
    /\ IF logic.kind = "model" /\ ~Given("prompt") THEN RaiseError(FALSE)
       ELSE Select("none") /\ UNCHANGED asked

-----------------------------------------------------------------------------
Handles ==
    CASE logic.kind = "router" -> {"support", "sales", "other"}
      [] logic.kind = "filter" -> {"true", "false", "else", "error"}
      [] logic.kind = "wait" -> {"approved", "rejected", "timeout", "error"}
      [] logic.kind \in {"parallel", "loop"} -> {"start", "completed", "error"}
      [] OTHER -> {"output"}

(* The executor pauses or goes no further from here; takes every edge of a  *)
(* parallel node and of one that selected nothing; calls the body of a loop *)
(* for the items there are; or takes the edges at the handle.               *)
EdgesTaken_EveryEdge == Handles

EdgesTaken ==
    CASE branch \in {"paused", "completed"} -> {}
      [] branch \notin {"paused", "completed"} /\ (logic.kind = "parallel" \/ branch = "none") -> Handles
      [] logic.kind = "loop" /\ branch = "start" -> IF evidence.left = 0 THEN {} ELSE {"start"}
      [] OTHER -> {branch} \cap Handles

FollowEdges ==
    /\ logicStep = "output"
    /\ followed' = EdgesTaken
    /\ logicStep' = IF branch = "paused" THEN "paused" ELSE "over"
    /\ UNCHANGED <<logic, linked, carried, evidence, asked, tries, chain, branch>>

LogicNext ==
    NextNode \/ RouterStarts \/ RouterAsks \/ FilterDecides \/ WaitDecides \/ ParallelDecides
    \/ LoopDecides \/ OtherDecides \/ FollowEdges

LogicSpec == LogicInit /\ [][LogicNext]_logicVars

-----------------------------------------------------------------------------
LogicTypeOK ==
    /\ logic \in LogicNode /\ linked \in Linked(logic.kind)
    /\ logicStep \in {"input", "ai", "output", "over", "paused", "failed"}
    /\ tries \in 1 .. MaxTries /\ chain \in 0 .. MaxChain /\ Len(asked) <= AiAttempts
    /\ branch \in Handles \cup {"none", "paused"} /\ followed \subseteq Handles

(* What a node lets through rests on what it found in the attempt that      *)
(* decided: a router goes against its rules only on a branch its model      *)
(* named, or because it must not use them; what could not be evaluated is   *)
(* never taken as true; a strict fan-in goes on only with every source; a   *)
(* run that goes on at a wait had its condition. And only the edges at the  *)
(* branch are taken, but for a parallel node's.                             *)
Ended == logicStep \in {"over", "paused"} /\ chain > 0
Named == Len(asked) > 0 /\ asked[Len(asked)] \in {"sales", "empty"}

RouterGrounded ==
    logic.kind = "router" =>
        /\ Given("prompt")
        /\ ~Named => branch = IF Given("ai_only") THEN Input.default_branch ELSE RoutedByRules
        /\ Named => Given("connection_id") /\ branch \in {asked[Len(asked)], Branches[1]}
        /\ \A i \in 1 .. Len(asked) - 1 : asked[i] = "silent"

Grounded ==
    Ended =>
        /\ RouterGrounded
        /\ logic.kind = "filter" =>
             /\ branch = "true" => Given("condition") /\ evidence.main = "true"
             /\ branch = "else" => evidence.main = "false" /\ evidence.alternative = "true"
        /\ logic.kind = "wait" /\ followed # {} /\ branch # "error" => evidence.holds
        /\ logic.kind = "parallel" /\ branch = "completed" /\ Missing # {} =>
             Input.mode = "all_settled" \/ Input.failure_handling \in {"ignore", "collect"}
        /\ logic.kind \notin {"parallel", "memory", "model"} => followed \subseteq {branch}
        /\ logic.kind # "parallel" => \A h \in followed : h \in Handles

(* executor.py:889 "Connected inputs first, then static config overrides":  *)
(* a node runs with the settings it has in the graph.                       *)
OwnSettings == logicStep = "input" => \A k \in DOMAIN logic.settings : Input[k] = logic.settings[k]
=============================================================================

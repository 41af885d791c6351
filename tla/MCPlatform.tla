------------------------------ MODULE MCPlatform ------------------------------
(***************************************************************************)
(* What the editor and its users work with, in one instance as in          *)
(* MCServices: every behaviour is one of the component in focus.           *)
(***************************************************************************)
EXTENDS WorkflowScheduler, LogicNodes, TemplateSyntax, ConnectionStore, KnowledgeSearch,
        ExecutionReports, WorkflowLibrary, Sessions, WorkflowUsers

CONSTANTS Focuses, t1, k1, s1, s2, a1, a2

VARIABLE focus

(* One schedule of each type.                                               *)
MCKind == [s \in {"c", "i", "o"} |->
             CASE s = "c" -> "CRON" [] s = "i" -> "INTERVAL" [] OTHER -> "ONCE"]
MCPeriod == [s \in {"c", "i", "o"} |-> IF s = "o" THEN 2 ELSE 3]

(* The start node, a list and a text.                                 *)
MCLabelOf == <<"Start", "Fetch", "Write">>
MCShapeOf == <<"object", "list", "text">>

(* Two users ask the same; one has two documents.                           *)
MCQueryOf == s1 :> "q1" @@ s2 :> "q1"
MCSearchUser == s1 :> "u1" @@ s2 :> "u2"
MCIngested == {<<"u1", "f">>, <<"u1", "g">>, <<"u2", "f">>}

(* Rows are alike, as long as none goes. While a list is walked, answers to *)
(* other requests are not told apart.                                       *)
LibraryBound ==
    /\ listed # "schedules" /\ status' # status =>
         \A w \in DOMAIN status \ {1} : status'[w - 1] = "absent" => status'[w] \in {"absent", status[w]}
    /\ walk.step # "idle" => answer' = answer
    /\ walk'.step # "idle" => answer.code \in {"none", "201"}

(* Two changes by users or two faults, and one more of the other kind.       *)
SchedulesBound == edits' + faults' <= 3

(* Two requests at a time, each with a part of the operations. Faults come  *)
(* without the cookies' domain; the account is closed with either.          *)
SessionsBound ==
    /\ \A r \in WebRequest : web'[r].step = "sent" =>
         web'[r].op \in (IF r = 1 THEN {"login", "call", "logout", "delete_me"}
                         ELSE {"call", "renew", "me"})
    /\ ~(withDomain /\ spoilt' > 0)
    /\ spoilt' > 0 \/ withDomain => active'

PlatformInit ==
    /\ focus \in Focuses
    /\ Init /\ LogicInit /\ TemplateInit /\ ConnInit /\ SearchInit
    /\ ReportsInit /\ LibraryInit /\ SessionsInit /\ MembersInit
    /\ focus # "library" => listed = "workflows"
    /\ focus # "sessions" => ~withDomain

PlatformNext ==
    /\ UNCHANGED focus
    /\ IF focus = "schedules" THEN Next /\ SchedulesBound ELSE UNCHANGED vars
    /\ IF focus = "logic" THEN LogicNext ELSE UNCHANGED logicVars
    /\ IF focus = "templates" THEN TemplateNext ELSE UNCHANGED templateVars
    /\ IF focus = "connections" THEN ConnNext ELSE UNCHANGED connVars
    /\ IF focus = "knowledge" THEN SearchNext ELSE UNCHANGED searchVars
    /\ IF focus = "reports" THEN ReportsNext ELSE UNCHANGED reportVars
    /\ IF focus = "library" THEN LibraryNext /\ LibraryBound ELSE UNCHANGED libraryVars
    /\ IF focus = "sessions" THEN SessionsNext /\ SessionsBound ELSE UNCHANGED sessionVars
    /\ IF focus = "users" THEN MembersNext ELSE UNCHANGED memberVars

platformVars == <<focus, vars, logicVars, templateVars, connVars, searchVars, reportVars,
                  libraryVars, sessionVars, memberVars>>

PlatformSpec == PlatformInit /\ [][PlatformNext]_platformVars

PlatformTypeOK ==
    /\ focus = "schedules" => TypeOK
    /\ focus = "logic" => LogicTypeOK
    /\ focus = "templates" => TemplateTypeOK
    /\ focus = "connections" => ConnTypeOK
    /\ focus = "knowledge" => SearchTypeOK
    /\ focus = "reports" => ReportsTypeOK
    /\ focus = "library" => LibraryTypeOK
    /\ focus = "sessions" => SessionsTypeOK
    /\ focus = "users" => MembersTypeOK
=============================================================================

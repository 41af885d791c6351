---------------------------- MODULE WorkflowLibrary ----------------------------
(***************************************************************************)
(* A user's workflows, the executions of them or the schedules for them,   *)
(* as the editor lists them page by page while workflows are created,      *)
(* cloned, imported and changed, executions start, and schedules come and  *)
(* go. The lists come newest first (updated_at, started_at, created_at),   *)
(* so the rows are kept as a sequence in that order, which time stamps     *)
(* would only number. What a change does to a workflow's graph and versions*)
(* is WorkflowStore's, when a schedule runs is WorkflowScheduler's.        *)
(***************************************************************************)
EXTENDS Naturals, Sequences, SequencesExt, FiniteSets

CONSTANTS
    ShelfRow,      \* rows that may come to be
    Theirs,     \* rows of another user, in the table from the start
    PageSize,
    MaxTouches  \* bound on changes of rows

ASSUME LibraryAssumption == Theirs \subseteq ShelfRow /\ PageSize \in Nat \ {0} /\ MaxTouches \in Nat

VARIABLES
    listed,   \* "workflows", "executions" or "schedules"
    shelf,    \* the user's rows, newest first
    status,   \* ShelfRow -> status column, or "absent"
    touches,
    answer,   \* to the last request that was not a page of the walk
    walk      \* a client's walk over the pages

libraryVars == <<listed, shelf, status, touches, answer, walk>>

-----------------------------------------------------------------------------
WorkflowStates == {"DRAFT", "PUBLISHED", "ARCHIVED"}
ExecutionStates == {"PENDING", "RUNNING", "COMPLETED"}
ScheduleStates == {"ACTIVE", "PAUSED", "DISABLED", "COMPLETED"}
States ==
    CASE listed = "workflows" -> WorkflowStates
      [] listed = "executions" -> ExecutionStates
      [] listed = "schedules" -> ScheduleStates

NoWalk == [step |-> "idle"]

LibraryInit ==
    /\ listed \in {"workflows", "executions", "schedules"}
    /\ shelf = <<>> /\ touches = 0 /\ answer = [code |-> "none"] /\ walk = NoWalk
    /\ status = [w \in ShelfRow |-> IF w \in Theirs THEN "DRAFT" ELSE "absent"]

(* A walk keeps which of its first rows were left alone, whether a row came *)
(* between a count and its page, and whether one has gone.                  *)
Noting(w, came) ==
    walk' = IF walk.step \in {"idle", "over"} THEN walk
            ELSE [walk EXCEPT !.owed = @ \ {w},
                              !.late = @ \/ (came /\ walk.step = "counted")]

(* A row is listed once.                                                    *)
AllBut(w) ==
    IF w \in ToSet(shelf) THEN RemoveAt(shelf, CHOOSE i \in DOMAIN shelf : shelf[i] = w) ELSE shelf

PutOnTop(w) == shelf' = <<w>> \o AllBut(w)

Add(w, s) ==
    /\ status[w] = "absent"
    /\ PutOnTop(w) /\ Noting(w, TRUE)
    /\ status' = [status EXCEPT ![w] = s] /\ answer' = [code |-> "201"] /\ UNCHANGED <<listed, touches>>

AnswerOne(code) == answer' = [code |-> code] /\ UNCHANGED <<listed, shelf, status, touches, walk>>

(* get_workflow_or_404.                                                     *)
Load(w) == IF status[w] = "absent" THEN "404" ELSE IF w \in Theirs THEN "403" ELSE "200"

-----------------------------------------------------------------------------
(* create_workflow: a draft, be its graph valid or not; it needs a name.    *)
CreateWorkflow(w) ==
    /\ listed = "workflows"
    /\ Add(w, "DRAFT") \/ AnswerOne("400")

(* clone_workflow takes the graph as it finds it.                           *)
CloneWorkflow(source, w) ==
    /\ listed = "workflows" /\ source # w /\ status[w] = "absent"
    /\ IF Load(source) = "200" THEN Add(w, "DRAFT") ELSE AnswerOne(Load(source))

(* import_workflow refuses a missing or invalid graph.                      *)
ImportWorkflow(w) ==
    /\ listed = "workflows"
    /\ Add(w, "DRAFT") \/ AnswerOne("400")

(* Reads of one workflow: itself, its versions and its export; and what the *)
(* validation says of its graph.                                            *)
ReadOne(w) ==
    /\ listed = "workflows"
    /\ AnswerOne(Load(w))

ValidateWorkflow(w) ==
    /\ listed = "workflows" /\ Load(w) = "200"
    /\ AnswerOne("valid") \/ AnswerOne("invalid")

(* A change (an update, a publication, a restoration, an archiving) stamps  *)
(* updated_at.                                                              *)
Touch(w, s) ==
    /\ w \in ToSet(shelf) /\ touches < MaxTouches /\ touches' = touches + 1
    /\ PutOnTop(w) /\ Noting(w, FALSE)
    /\ status' = [status EXCEPT ![w] = s]
    /\ UNCHANGED <<listed, answer>>

ChangeWorkflow(w) ==
    /\ listed = "workflows"
    /\ \E s \in WorkflowStates : Touch(w, s)

(* Executions: a new one is stamped, a start stamps anew, an end does not.  *)
AddExecution(w) == listed = "executions" /\ Add(w, "PENDING")
StartExecution(w) == listed = "executions" /\ Touch(w, "RUNNING")

FinishExecution(w) ==
    /\ listed = "executions" /\ status[w] = "RUNNING" /\ status' = [status EXCEPT ![w] = "COMPLETED"]
    /\ UNCHANGED <<listed, shelf, touches, answer, walk>>

-----------------------------------------------------------------------------
(* Schedules come in the order they were created in, whatever is changed.   *)
(* create_schedule: the workflow may be missing, another's, or archived.    *)
CreateSchedule(w) ==
    /\ listed = "schedules"
    /\ Add(w, "ACTIVE") \/ \E refusal \in {"404", "403", "400"} : AnswerOne(refusal)

(* A pause, a resumption, a disabling; a run once made.                     *)
Follows == {<<"ACTIVE", "PAUSED">>, <<"PAUSED", "ACTIVE">>, <<"ACTIVE", "COMPLETED">>}
           \cup {<<s, "DISABLED">> : s \in ScheduleStates \ {"DISABLED"}}

ChangeSchedule(w) ==
    /\ listed = "schedules" /\ w \in ToSet(shelf) /\ touches < MaxTouches /\ touches' = touches + 1
    /\ \E s \in ScheduleStates : <<status[w], s>> \in Follows /\ status' = [status EXCEPT ![w] = s]
    /\ UNCHANGED <<listed, shelf, answer, walk>>

LoadSchedule(w) == Load(w)

(* The row really goes, and those behind it move up.                        *)
DeleteSchedule(w) ==
    /\ listed = "schedules" /\ LoadSchedule(w) = "200" /\ touches < MaxTouches /\ touches' = touches + 1
    /\ status' = [status EXCEPT ![w] = "absent"] /\ shelf' = AllBut(w)
    /\ walk' = IF walk.step \in {"idle", "over"} THEN walk
               ELSE [walk EXCEPT !.owed = @ \ {w}, !.gone = TRUE]
    /\ UNCHANGED <<listed, answer>>

ReadSchedule(w) == listed = "schedules" /\ AnswerOne(LoadSchedule(w))

(* Says that a run is queued, and queues none.                              *)
TriggerSchedule(w) ==
    /\ listed = "schedules"
    /\ IF LoadSchedule(w) # "200" THEN AnswerOne(LoadSchedule(w))
       ELSE IF status[w] = "DISABLED" THEN AnswerOne("400")
       ELSE AnswerOne("400") \/ AnswerOne("200 queued")   \* the workflow is gone or archived, or not

SummariseSchedules ==
    /\ listed = "schedules"
    /\ answer' = [code |-> "200", total |-> Len(shelf),
                  active |-> Cardinality({w \in ToSet(shelf) : status[w] = "ACTIVE"}),
                  paused |-> Cardinality({w \in ToSet(shelf) : status[w] = "PAUSED"})]
    /\ UNCHANGED <<listed, shelf, status, touches, walk>>

-----------------------------------------------------------------------------
(* list_workflows, list_workflow_executions, list_all_executions and        *)
(* list_schedules: the count of a query, and then a page of it.             *)
Ordered_Ascending(sort) == IF sort = "asc" THEN shelf ELSE Reverse(shelf)

Ordered(sort) == IF sort = "asc" THEN Reverse(shelf) ELSE shelf

Rows(sort, filter) ==
    IF filter = "all" THEN Ordered(sort) ELSE SelectSeq(Ordered(sort), LAMBDA w : status[w] = filter)

Page(rows, skip) == {rows[i] : i \in {j \in DOMAIN rows : skip < j /\ j <= skip + PageSize}}

(* What a client may ask for; the list of executions it cannot sort.        *)
Queries ==
    [sort : IF listed = "executions" THEN {"desc"} ELSE {"asc", "desc"},
     filter : {"all", "DRAFT", "RUNNING", "PAUSED"} \cap (States \cup {"all"})]

BeginWalk ==
    /\ walk.step \in {"idle", "over"}
    /\ \E query \in Queries :
         walk' = [step |-> "asking", sort |-> query.sort, filter |-> query.filter, skip |-> 0, total |-> 0,
                  shown |-> {}, owed |-> ToSet(shelf), late |-> FALSE, gone |-> FALSE]
    /\ UNCHANGED <<listed, shelf, status, touches, answer>>

CountRows ==
    /\ walk.step = "asking"
    /\ walk' = [walk EXCEPT !.step = "counted", !.total = Len(Rows(walk.sort, walk.filter)),
                            !.late = FALSE]
    /\ UNCHANGED <<listed, shelf, status, touches, answer>>

(* has_more of the others; the executions' client compares for itself.   *)
More(got) ==
    IF listed = "executions" THEN walk.skip + PageSize < walk.total
    ELSE walk.skip + Cardinality(got) < walk.total

ReadPage ==
    /\ walk.step = "counted"
    /\ LET got == Page(Rows(walk.sort, walk.filter), walk.skip) IN
         walk' = [walk EXCEPT !.shown = @ \cup got, !.skip = @ + PageSize,
                              !.step = IF More(got) THEN "asking" ELSE "over"]
    /\ UNCHANGED <<listed, shelf, status, touches, answer>>

LibraryNext ==
    \/ \E w \in ShelfRow :
         \/ CreateWorkflow(w) \/ ImportWorkflow(w) \/ ReadOne(w) \/ ValidateWorkflow(w) \/ ChangeWorkflow(w)
         \/ \E source \in ShelfRow : CloneWorkflow(source, w)
         \/ AddExecution(w) \/ StartExecution(w) \/ FinishExecution(w)
         \/ CreateSchedule(w) \/ ChangeSchedule(w) \/ DeleteSchedule(w)
         \/ ReadSchedule(w) \/ TriggerSchedule(w)
    \/ SummariseSchedules
    \/ BeginWalk \/ CountRows \/ ReadPage

LibrarySpec == LibraryInit /\ [][LibraryNext]_libraryVars

-----------------------------------------------------------------------------
LibraryTypeOK ==
    /\ listed \in {"workflows", "executions", "schedules"} /\ touches \in 0 .. MaxTouches
    /\ ToSet(shelf) = {w \in ShelfRow \ Theirs : status[w] # "absent"}
    /\ Len(shelf) = Cardinality(ToSet(shelf))
    /\ status \in [ShelfRow -> States \cup {"absent", "DRAFT"}]
    /\ walk.step \in {"idle", "asking", "counted", "over"}

(* A walk in the order that is the default, over all states, shows every    *)
(* row that was there when it began and was left alone, whatever came and   *)
(* changed meanwhile; unless a row came between the last count and its      *)
(* page. (In the other order, or with a status to filter by, rows move up   *)
(* over the page boundary and are missed.) A walk over schedules shows them *)
(* in either order, unless one was deleted meanwhile.                       *)
WalkShowsAll ==
    /\ walk.step = "over" /\ walk.filter = "all" /\ ~walk.late /\ ~walk.gone
    /\ walk.sort = "desc" \/ listed = "schedules"
    => walk.owed \subseteq walk.shown
=============================================================================

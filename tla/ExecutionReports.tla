---------------------------- MODULE ExecutionReports ----------------------------
(***************************************************************************)
(* What users are told of their executions: status, timeline, bulk check,  *)
(* analytics, summary and trends. A report is made of several queries, and *)
(* each query of its own snapshot; workers, cancels and the sweep commit   *)
(* between them.                                                           *)
(*                                                                         *)
(* Time is a counter. It goes on when a report has read the clock, so that *)
(* what starts later starts later by the clock too.                        *)
(***************************************************************************)
EXTENDS Naturals, Sequences, FiniteSets

CONSTANTS
    ReportedRun,  \* executions of the user
    RunNodes,     \* nodes of the graph they run
    Period,       \* length of the analytics' window
    DayLength, TrendDays,
    MaxClock

ASSUME ReportsAssumption ==
    Period \in Nat /\ DayLength \in Nat \ {0} /\ TrendDays \in Nat /\ MaxClock \in Nat \ {0}

VARIABLES
    instant,
    run,      \* ReportedRun -> its row, its traces and its worker
    report    \* the report that is being made, or was

reportVars == <<instant, run, report>>

-----------------------------------------------------------------------------
Statuses == {"PENDING", "RUNNING", "COMPLETED", "FAILED", "CANCELLED"}

ExecRow ==
    [status : Statuses \cup {"none"},
     started : 0 .. MaxClock,
     context : {"empty", "result", "error"},   \* context_data as stored
     working : BOOLEAN,
     done : SUBSET RunNodes,       \* nodes the present attempt has run
     traced : SUBSET RunNodes,     \* nodes with a trace
     unsaved : SUBSET RunNodes]    \* nodes whose trace could not be written

NoReport == [kind |-> "none", step |-> "idle"]

ReportsInit ==
    /\ instant = 1
    /\ run = [e \in ReportedRun |->
                [status |-> "none", started |-> 0, context |-> "empty", working |-> FALSE,
                 done |-> {}, traced |-> {}, unsaved |-> {}]]
    /\ report = NoReport

-----------------------------------------------------------------------------
(* The writers.                                                             *)

Exists(e) == run[e].status # "none"
Rewrite(e, row) == run' = [run EXCEPT ![e] = row] /\ UNCHANGED <<instant, report>>

(* A row is created PENDING and starts its clock; a webhook's that cannot   *)
(* be dispatched gets a new context_data with the error.                    *)
CreateRun(e) ==
    /\ ~Exists(e)
    /\ \E dispatched \in BOOLEAN :
         Rewrite(e, [run[e] EXCEPT !.status = IF dispatched THEN "PENDING" ELSE "FAILED",
                                   !.context = IF dispatched THEN "empty" ELSE "error",
                                   !.started = instant])

(* mark_running, of a first attempt or of a further one: it starts anew.    *)
StartRun(e) ==
    /\ Exists(e) /\ ~run[e].working
    /\ Rewrite(e, [run[e] EXCEPT !.status = "RUNNING", !.started = instant,
                                 !.working = TRUE, !.done = {}])

(* _persist_trace commits each trace as its node ends. An error of it is    *)
(* logged.                                                                  *)
RunNode(e) ==
    /\ run[e].working
    /\ \E n \in RunNodes \ run[e].done, saved \in BOOLEAN :
         Rewrite(e, [run[e] EXCEPT
           !.done = @ \cup {n},
           !.traced = IF saved THEN @ \cup {n} ELSE @,
           !.unsaved = IF saved THEN @ ELSE @ \cup {n}])

(* mark_completed, and context_data is the result; mark_failed and          *)
(* mark_cancelled change a dict in place, which a JSON column does not see. *)
EndRun(e) ==
    /\ run[e].working
    /\ \E status \in {"COMPLETED", "FAILED"} :
         Rewrite(e, [run[e] EXCEPT !.status = status, !.working = FALSE,
                                   !.context = IF status = "COMPLETED" THEN "result" ELSE @])

CancelRun(e) ==
    /\ run[e].status \in {"PENDING", "RUNNING"}
    /\ \E revoked \in BOOLEAN :
         Rewrite(e, [run[e] EXCEPT !.status = "CANCELLED",
                                   !.working = run[e].working /\ ~revoked])

(* The daily sweep stores a whole context_data.                             *)
SweepRun(e) ==
    /\ run[e].status \in {"PENDING", "RUNNING"} /\ run[e].started < instant
    /\ Rewrite(e, [run[e] EXCEPT !.status = "FAILED", !.context = "error"])

PassTime == instant < MaxClock /\ instant' = instant + 1 /\ UNCHANGED <<run, report>>

-----------------------------------------------------------------------------
(* The reports.                                                             *)

Unoccupied == report.step \in {"idle", "over"} /\ UNCHANGED run
Report(r) == report' = r

(* One query: get_execution_status, get_node_trace_detail,                  *)
(* bulk_status_check; and resume, which finds nothing PAUSED.               *)
ErrorOf(row) == IF row.status = "FAILED" /\ row.context = "error" THEN "told" ELSE "none"

AnswerStatus(e) ==
    /\ Unoccupied /\ Exists(e) /\ UNCHANGED instant
    /\ Report([kind |-> "status", step |-> "over", status |-> run[e].status,
               error |-> ErrorOf(run[e])])

AnswerTrace(e) ==
    /\ Unoccupied /\ UNCHANGED instant
    /\ \E n \in RunNodes :
         Report([kind |-> "trace", step |-> "over",
                 code |-> IF n \in run[e].traced THEN "200" ELSE "404"])

AnswerBulk ==
    /\ Unoccupied /\ UNCHANGED instant
    /\ \E asked \in SUBSET ReportedRun :
         Report([kind |-> "bulk", step |-> "over",
                 found |-> {e \in asked : Exists(e)},
                 missing |-> {e \in asked : ~Exists(e)}])

RefuseResume(e) ==
    /\ Unoccupied /\ UNCHANGED instant
    /\ Report([kind |-> "resume", step |-> "over",
               code |-> IF Exists(e) THEN "400" ELSE "404"])

(* get_execution_timeline: the row, then its traces.                        *)
BeginTimeline(e) ==
    /\ Unoccupied /\ Exists(e) /\ UNCHANGED instant
    /\ Report([kind |-> "timeline", step |-> "loaded", of |-> e, status |-> run[e].status,
               owed |-> run[e].done \ run[e].unsaved])

ReadTraces ==
    /\ report.kind = "timeline" /\ report.step = "loaded" /\ UNCHANGED <<instant, run>>
    /\ Report([kind |-> "timeline", step |-> "over", status |-> report.status,
               owed |-> report.owed, shown |-> run[report.of].traced])

(* get_execution_analytics: seven queries over one window. Each section is  *)
(* the executions it counts or lists.                                       *)
Sections == <<"status", "trigger", "workflow", "duration", "hourly", "failing", "errors">>

Concerned(section) ==
    CASE section = "duration" -> {"COMPLETED"}
      [] section \in {"failing", "errors"} -> {"FAILED"}
      [] OTHER -> Statuses

InPeriod_Open(e, at) == run[e].started + Period >= at

InPeriod(e, at) == run[e].started + Period >= at /\ run[e].started <= at

BeginAnalytics ==
    /\ Unoccupied /\ instant < MaxClock /\ instant' = instant + 1
    /\ Report([kind |-> "analytics", step |-> "querying", at |-> instant, sections |-> <<>>])

QuerySection ==
    /\ report.kind = "analytics" /\ report.step = "querying" /\ UNCHANGED <<instant, run>>
    /\ LET next == Sections[Len(report.sections) + 1]
           rows == {e \in ReportedRun : /\ run[e].status \in Concerned(next)
                                        /\ InPeriod(e, report.at)}
           all == Append(report.sections, rows)
       IN  Report([kind |-> "analytics", at |-> report.at, sections |-> all,
                   step |-> IF Len(all) = Len(Sections) THEN "over" ELSE "querying"])

(* get_analytics_summary: what started today, then a count of workflows     *)
(* with a status that the database's enumeration does not have.             *)
AnswerSummary ==
    /\ Unoccupied /\ UNCHANGED instant
    /\ \E lite \in BOOLEAN :
         Report([kind |-> "summary", step |-> "over", code |-> IF lite THEN "200" ELSE "500"])

(* get_execution_trends: a query from thirty days back; then the days up to *)
(* the present one, whichever it now is.                                    *)
DayOf(t) == t \div DayLength

BeginTrends ==
    /\ Unoccupied /\ instant < MaxClock /\ instant' = instant + 1
    /\ Report([kind |-> "trends", step |-> "begun",
               from |-> IF instant > TrendDays * DayLength THEN instant - TrendDays * DayLength ELSE 0])

QueryTrends ==
    /\ report.kind = "trends" /\ report.step = "begun" /\ UNCHANGED <<instant, run>>
    /\ Report([kind |-> "trends", step |-> "queried", from |-> report.from,
               days |-> {DayOf(run[e].started) : e \in
                 {f \in ReportedRun : Exists(f) /\ run[f].started >= report.from}}])

FillDays ==
    /\ report.kind = "trends" /\ report.step = "queried" /\ UNCHANGED <<instant, run>>
    /\ Report([kind |-> "trends", step |-> "over", days |-> report.days,
               shown |-> DayOf(report.from) .. DayOf(instant)])

ReportsNext ==
    \/ \E e \in ReportedRun :
         \/ CreateRun(e) \/ StartRun(e) \/ RunNode(e) \/ EndRun(e) \/ CancelRun(e) \/ SweepRun(e)
         \/ AnswerStatus(e) \/ AnswerTrace(e) \/ RefuseResume(e) \/ BeginTimeline(e)
    \/ PassTime \/ AnswerBulk \/ ReadTraces \/ BeginAnalytics \/ QuerySection
    \/ AnswerSummary \/ BeginTrends \/ QueryTrends \/ FillDays

ReportsSpec == ReportsInit /\ [][ReportsNext]_reportVars

-----------------------------------------------------------------------------
ReportsTypeOK ==
    /\ instant \in 1 .. MaxClock /\ run \in [ReportedRun -> ExecRow]
    /\ report.step \in {"idle", "loaded", "querying", "begun", "queried", "over"}

(* A report does not contradict itself, whatever is committed between its   *)
(* queries: a timeline that says COMPLETED shows every node whose trace was *)
(* written; no section of the analytics lists an execution that its totals  *)
(* (of the first query) do not count; and an execution the trends found     *)
(* falls on one of the days they return, though midnight may pass.          *)
ReportsAgree ==
    report.step = "over" =>
        /\ report.kind = "timeline" /\ report.status = "COMPLETED" => report.owed \subseteq report.shown
        /\ report.kind = "analytics" =>
             \A i \in DOMAIN report.sections : report.sections[i] \subseteq report.sections[1]
        /\ report.kind = "trends" => report.days \subseteq report.shown

(* "Get error from context if failed" (executions.py:211): the status of a  *)
(* failed execution comes with its error.                                   *)
ErrorsTold ==
    report.kind = "status" /\ report.status = "FAILED" => report.error = "told"
=============================================================================

------------------------- MODULE MCWorkflowScheduler -------------------------
(* Instances of WorkflowScheduler for TLC: one schedule of each type.       *)
EXTENDS WorkflowScheduler, TLC

CONSTANTS t1

Kinds == [s \in {"c", "i", "o"} |->
            CASE s = "c" -> "CRON" [] s = "i" -> "INTERVAL" [] OTHER -> "ONCE"]
Periods == [s \in {"c", "i", "o"} |-> CASE s = "c" -> 3 [] s = "i" -> 3 [] OTHER -> 2]
CronOnly == [s \in {"c"} |-> "CRON"]
CronPeriod == [s \in {"c"} |-> 3]
=============================================================================

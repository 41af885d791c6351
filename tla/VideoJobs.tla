------------------------------- MODULE VideoJobs -------------------------------
(***************************************************************************)
(* Video generation jobs. The request commits the job's row, may have the  *)
(* prompt enhanced, and hands the work to the task queue. In full mode a   *)
(* worker acknowledges the message after the last write (acks_late), so    *)
(* that a job may be delivered again; in lite mode the work is a task of   *)
(* the web process. Every write commits by itself.                         *)
(***************************************************************************)
EXTENDS Naturals, FiniteSets

CONSTANTS
    Job,
    JobModes,       \* TRUE: lite
    MaxJobFaults    \* bound on processes that stop and on failed writes

ASSUME JobAssumption == JobModes \subseteq BOOLEAN /\ MaxJobFaults \in Nat

VARIABLES
    lite,
    job,        \* [Job -> the row's status, or "none"]
    video,      \* [Job -> whether the row has a video_url]
    submit,     \* [Job -> where its request is]
    work,       \* [Job -> where its message or task is]
    unwritten,  \* jobs whose last write failed, too
    jobFaults

jobVars == <<lite, job, video, submit, work, unwritten, jobFaults>>

Finished == {"COMPLETED", "FAILED"}

JobInit ==
    /\ lite \in JobModes
    /\ job = [j \in Job |-> "none"] /\ video = [j \in Job |-> FALSE]
    /\ submit = [j \in Job |-> "none"] /\ work = [j \in Job |-> "none"]
    /\ unwritten = {} /\ jobFaults = 0

Fault == jobFaults < MaxJobFaults /\ jobFaults' = jobFaults + 1

-----------------------------------------------------------------------------
SubmitPrompt(j) ==
    /\ submit[j] = "none"
    /\ \E enhance \in BOOLEAN :
         /\ job' = [job EXCEPT ![j] = IF enhance THEN "ENHANCING" ELSE "PENDING"]
         /\ submit' = [submit EXCEPT ![j] = IF enhance THEN "enhancing" ELSE "stored"]
    /\ UNCHANGED <<lite, video, work, unwritten, jobFaults>>

(* Whether it works or not: an error is noted in error_message.             *)
EnhancePrompt(j) ==
    /\ submit[j] = "enhancing"
    /\ job' = [job EXCEPT ![j] = "PENDING"]
    /\ submit' = [submit EXCEPT ![j] = "stored"]
    /\ UNCHANGED <<lite, video, work, unwritten, jobFaults>>

EnqueueJob(j) ==
    /\ submit[j] = "stored"
    /\ submit' = [submit EXCEPT ![j] = "over"]
    /\ work' = [work EXCEPT ![j] = "queued"]
    /\ UNCHANGED <<lite, job, video, unwritten, jobFaults>>

(* The queue raises or the process stops: nothing takes the row back.       *)
SubmitDies(j) ==
    /\ submit[j] \in {"enhancing", "stored"} /\ Fault
    /\ submit' = [submit EXCEPT ![j] = "dead"]
    /\ UNCHANGED <<lite, job, video, work, unwritten>>

-----------------------------------------------------------------------------
TakeJob(j) ==
    /\ work[j] = "queued"
    /\ work' = [work EXCEPT ![j] = "taken"]
    /\ unwritten' = unwritten \ {j}
    /\ UNCHANGED <<lite, job, video, submit, jobFaults>>

(* PROCESSING, whatever the row says; then the long call.                   *)
StartJob(j) ==
    /\ work[j] = "taken"
    /\ work' = [work EXCEPT ![j] = "generating"]
    /\ job' = [job EXCEPT ![j] = "PROCESSING"]
    /\ UNCHANGED <<lite, video, submit, unwritten, jobFaults>>

CompleteJob(j) ==
    /\ work[j] = "generating"
    /\ work' = [work EXCEPT ![j] = "written"]
    /\ job' = [job EXCEPT ![j] = "COMPLETED"]
    /\ video' = [video EXCEPT ![j] = TRUE]
    /\ UNCHANGED <<lite, submit, unwritten, jobFaults>>

(* The generator or a write raises. FAILED is written by the first handler  *)
(* or by the one around it; if that fails too, the row is left as it is.    *)
FailJob(j) ==
    /\ work[j] \in {"taken", "generating"}
    /\ work' = [work EXCEPT ![j] = "written"]
    /\ \/ job' = [job EXCEPT ![j] = "FAILED"] /\ UNCHANGED <<unwritten, jobFaults>>
       \/ Fault /\ unwritten' = unwritten \cup {j} /\ UNCHANGED job
    /\ UNCHANGED <<lite, video, submit>>

AcknowledgeJob(j) ==
    /\ work[j] = "written"
    /\ work' = [work EXCEPT ![j] = "done"]
    /\ UNCHANGED <<lite, job, video, submit, unwritten, jobFaults>>

WorkerDies_AckedEarly(j) ==
    /\ work[j] \in {"taken", "generating", "written"} /\ Fault
    /\ work' = [work EXCEPT ![j] = IF lite THEN "lost" ELSE "done"]
    /\ UNCHANGED <<lite, job, video, submit, unwritten>>

WorkerDies(j) ==
    /\ work[j] \in {"taken", "generating", "written"} /\ Fault
    /\ work' = [work EXCEPT ![j] = IF lite THEN "lost" ELSE "queued"]
    /\ UNCHANGED <<lite, job, video, submit, unwritten>>

GenerateVideo(j) ==
    TakeJob(j) \/ StartJob(j) \/ CompleteJob(j) \/ FailJob(j) \/ AcknowledgeJob(j) \/ WorkerDies(j)

JobNext ==
    \E j \in Job : \/ SubmitPrompt(j) \/ EnhancePrompt(j) \/ EnqueueJob(j) \/ SubmitDies(j)
                   \/ GenerateVideo(j)

JobSpec == JobInit /\ [][JobNext]_jobVars

-----------------------------------------------------------------------------
JobTypeOK ==
    /\ lite \in JobModes
    /\ job \in [Job -> {"none", "ENHANCING", "PENDING", "PROCESSING"} \cup Finished]
    /\ video \in [Job -> BOOLEAN]
    /\ submit \in [Job -> {"none", "enhancing", "stored", "over", "dead"}]
    /\ work \in [Job -> {"none", "queued", "taken", "generating", "written", "done", "lost"}]
    /\ unwritten \subseteq Job /\ jobFaults \in 0 .. MaxJobFaults

(* A job that is not finished is still with its request, in the queue or    *)
(* with a worker; the exceptions are a request that died before it enqueued,*)
(* a lite process that stopped, and a job none of whose writes succeeded.   *)
JobNotLost ==
    \A j \in Job : job[j] \notin Finished \cup {"none"} =>
        \/ submit[j] \in {"enhancing", "stored", "dead"}
        \/ work[j] \in {"queued", "taken", "generating"}
        \/ lite /\ work[j] = "lost"
        \/ j \in unwritten
=============================================================================

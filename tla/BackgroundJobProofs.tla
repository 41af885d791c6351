------------------------ MODULE BackgroundJobProofs -------------------------
(* Theorems about work that a request or a timer hands over and that        *)
(* outlives it: the generation of a video, the switch of the database, the  *)
(* lead of a conversation and the cleanup of what is old; and about events  *)
(* on their way through the server: the deliveries that a workflow's        *)
(* webhook takes in, and the trace events that are sent to the browsers     *)
(* that watch a run. For any number of jobs, switches, databases, messages, *)
(* rows, deliveries, sockets, events and faults.                            *)
EXTENDS VideoJobs, DatabaseSwitch, LeadCapture, RetentionCleanup, WebhookIngress, TraceStreams,
        FiniteSetTheorems, TLAPS

-----------------------------------------------------------------------------
(* A video job. Beside the types: the message exists once the request is    *)
(* over, not before; work that has been written has left a status behind or  *)
(* is known not to have; and only a lite process loses work.                *)
HandedOver(j) ==
    /\ submit[j] = "none" => job[j] = "none"
    /\ submit[j] = "over" <=> work[j] # "none"
    /\ work[j] \in {"written", "done"} => job[j] \in Finished \/ j \in unwritten
    /\ work[j] = "lost" => lite

JobInv == JobTypeOK /\ \A j \in Job : HandedOver(j)

(* The types hold in every state.                                           *)
LEMMA JobTypesKept == JobTypeOK /\ [JobNext]_jobVars => JobTypeOK'
<1> SUFFICES ASSUME JobTypeOK, [JobNext]_jobVars PROVE JobTypeOK'
  OBVIOUS
<1> USE JobAssumption DEF JobTypeOK, Finished
<1>1. CASE UNCHANGED jobVars
  BY <1>1 DEF jobVars
<1>2. ASSUME NEW j \in Job, SubmitPrompt(j) PROVE JobTypeOK'
  BY <1>2 DEF SubmitPrompt
<1>3. ASSUME NEW j \in Job, EnhancePrompt(j) PROVE JobTypeOK'
  BY <1>3 DEF EnhancePrompt
<1>4. ASSUME NEW j \in Job, EnqueueJob(j) PROVE JobTypeOK'
  BY <1>4 DEF EnqueueJob
<1>5. ASSUME NEW j \in Job, SubmitDies(j) PROVE JobTypeOK'
  BY <1>5 DEF SubmitDies, Fault
<1>6. ASSUME NEW j \in Job, TakeJob(j) PROVE JobTypeOK'
  BY <1>6 DEF TakeJob
<1>7. ASSUME NEW j \in Job, StartJob(j) PROVE JobTypeOK'
  BY <1>7 DEF StartJob
<1>8. ASSUME NEW j \in Job, CompleteJob(j) PROVE JobTypeOK'
  BY <1>8 DEF CompleteJob
<1>9. ASSUME NEW j \in Job, FailJob(j) PROVE JobTypeOK'
  BY <1>9 DEF FailJob, Fault
<1>10. ASSUME NEW j \in Job, AcknowledgeJob(j) PROVE JobTypeOK'
  BY <1>10 DEF AcknowledgeJob
<1>11. ASSUME NEW j \in Job, WorkerDies(j) PROVE JobTypeOK'
  BY <1>11 DEF WorkerDies, Fault
<1> QED
  BY <1>1, <1>2, <1>3, <1>4, <1>5, <1>6, <1>7, <1>8, <1>9, <1>10, <1>11
  DEF JobNext, GenerateVideo

(* What happens to one job leaves the others as they are.                   *)
LEMMA JobHandedOver == JobInv /\ [JobNext]_jobVars => (\A j \in Job : HandedOver(j))'
<1> SUFFICES ASSUME JobInv, [JobNext]_jobVars PROVE (\A j \in Job : HandedOver(j))'
  OBVIOUS
<1> USE DEF JobInv, JobTypeOK, HandedOver, Finished
<1>1. CASE UNCHANGED jobVars
  BY <1>1 DEF jobVars
<1>2. ASSUME NEW j \in Job, SubmitPrompt(j) PROVE (\A k \in Job : HandedOver(k))'
  BY <1>2 DEF SubmitPrompt
<1>3. ASSUME NEW j \in Job, EnhancePrompt(j) PROVE (\A k \in Job : HandedOver(k))'
  BY <1>3 DEF EnhancePrompt
<1>4. ASSUME NEW j \in Job, EnqueueJob(j) PROVE (\A k \in Job : HandedOver(k))'
  BY <1>4 DEF EnqueueJob
<1>5. ASSUME NEW j \in Job, SubmitDies(j) PROVE (\A k \in Job : HandedOver(k))'
  BY <1>5 DEF SubmitDies
<1>6. ASSUME NEW j \in Job, TakeJob(j) PROVE (\A k \in Job : HandedOver(k))'
  BY <1>6 DEF TakeJob
<1>7. ASSUME NEW j \in Job, StartJob(j) PROVE (\A k \in Job : HandedOver(k))'
  BY <1>7 DEF StartJob
<1>8. ASSUME NEW j \in Job, CompleteJob(j) PROVE (\A k \in Job : HandedOver(k))'
  BY <1>8 DEF CompleteJob
<1>9. ASSUME NEW j \in Job, FailJob(j) PROVE (\A k \in Job : HandedOver(k))'
  BY <1>9 DEF FailJob
<1>10. ASSUME NEW j \in Job, AcknowledgeJob(j) PROVE (\A k \in Job : HandedOver(k))'
  BY <1>10 DEF AcknowledgeJob
<1>11. ASSUME NEW j \in Job, WorkerDies(j) PROVE (\A k \in Job : HandedOver(k))'
  BY <1>11 DEF WorkerDies
<1> QED
  BY <1>1, <1>2, <1>3, <1>4, <1>5, <1>6, <1>7, <1>8, <1>9, <1>10, <1>11
  DEF JobNext, GenerateVideo

LEMMA JobInvariant == JobSpec => []JobInv
<1>1. JobInit => JobInv
  BY JobAssumption DEF JobInit, JobInv, JobTypeOK, HandedOver
<1>2. JobInv /\ [JobNext]_jobVars => JobInv'
  BY JobTypesKept, JobHandedOver DEF JobInv
<1> QED
  BY <1>1, <1>2, PTL DEF JobSpec

(* A job that is not finished is still with its request, in the queue or    *)
(* with a worker, whatever dies and is delivered again, save for a request  *)
(* that died, a lite process that stopped and writes that all failed.       *)
THEOREM VideoNotLost == JobSpec => []JobNotLost
<1>1. JobInv => JobNotLost
  BY DEF JobInv, JobTypeOK, HandedOver, JobNotLost, Finished
<1> QED
  BY <1>1, JobInvariant, PTL

-----------------------------------------------------------------------------
(* A switch. One that was asked to copy is past the copy only with the data *)
(* on its target, which then has the schema: neither is ever taken away.    *)
DataMoved ==
    \A w \in Switch : switch[w].step \in {"ready", "completed"} /\ switch[w].copy =>
        switch[w].source \in copied[switch[w].target] /\ switch[w].target \in schema

FileTrue == statusFile.phase = "completed" => statusFile.host = configUrl

SwitchInv == SwitchTypeOK /\ DataMoved /\ FileTrue /\ activeUrl \in schema

LEMMA SwitchTypesKept == SwitchTypeOK /\ [SwitchNext]_switchVars => SwitchTypeOK'
<1> SUFFICES ASSUME SwitchTypeOK, [SwitchNext]_switchVars PROVE SwitchTypeOK'
  OBVIOUS
<1> USE SwitchAssumption DEF SwitchTypeOK, SwitchOver, SetPhase
<1>1. CASE UNCHANGED switchVars
  BY <1>1 DEF switchVars
<1>2. ASSUME NEW w \in Switch, CheckTarget(w) PROVE SwitchTypeOK'
  BY <1>2 DEF CheckTarget
<1>3. ASSUME NEW w \in Switch, run_alembic_upgrade(w) PROVE SwitchTypeOK'
  BY <1>3 DEF run_alembic_upgrade
<1>4. ASSUME NEW w \in Switch, copy_data(w) PROVE SwitchTypeOK'
  BY <1>4 DEF copy_data
<1>5. ASSUME NEW w \in Switch, PersistUrl(w) PROVE SwitchTypeOK'
  BY <1>5 DEF PersistUrl
<1>6. ASSUME NEW w \in Switch, SwitchFails(w) PROVE SwitchTypeOK'
  BY <1>6 DEF SwitchFails
<1>7. ASSUME NEW w \in Switch, NEW d \in Database, NEW copy \in BOOLEAN,
             start_switch(w, d, copy)
      PROVE  SwitchTypeOK'
  BY <1>7 DEF start_switch
<1>8. CASE RestartProcess
  BY <1>8 DEF RestartProcess
<1> QED
  BY <1>1, <1>2, <1>3, <1>4, <1>5, <1>6, <1>7, <1>8 DEF SwitchNext, perform_switch

(* What was copied stays, so each step has only its own switch to answer    *)
(* for.                                                                     *)
LEMMA DataStays == SwitchInv /\ [SwitchNext]_switchVars => DataMoved'
<1> SUFFICES ASSUME SwitchInv, [SwitchNext]_switchVars PROVE DataMoved'
  OBVIOUS
<1> USE DEF SwitchInv, SwitchTypeOK, DataMoved, SetPhase, SwitchOver
<1>1. CASE UNCHANGED switchVars
  BY <1>1 DEF switchVars
<1>2. ASSUME NEW w \in Switch, CheckTarget(w) PROVE DataMoved'
  BY <1>2 DEF CheckTarget
<1>3. ASSUME NEW w \in Switch, run_alembic_upgrade(w) PROVE DataMoved'
  BY <1>3 DEF run_alembic_upgrade
<1>4. ASSUME NEW w \in Switch, copy_data(w) PROVE DataMoved'
  BY <1>4 DEF copy_data
<1>5. ASSUME NEW w \in Switch, PersistUrl(w) PROVE DataMoved'
  BY <1>5 DEF PersistUrl
<1>6. ASSUME NEW w \in Switch, SwitchFails(w) PROVE DataMoved'
  BY <1>6 DEF SwitchFails
<1>7. ASSUME NEW w \in Switch, NEW d \in Database, NEW copy \in BOOLEAN,
             start_switch(w, d, copy)
      PROVE  DataMoved'
  BY <1>7 DEF start_switch
<1>8. CASE RestartProcess
  BY <1>8 DEF RestartProcess
<1> QED
  BY <1>1, <1>2, <1>3, <1>4, <1>5, <1>6, <1>7, <1>8 DEF SwitchNext, perform_switch

(* "completed" is written together with the URL, and the URL by nobody else *)
(* than a switch that reports at once; a schema is never dropped.           *)
LEMMA FileStaysTrue ==
    SwitchInv /\ [SwitchNext]_switchVars => FileTrue' /\ (activeUrl \in schema)'
<1> SUFFICES ASSUME SwitchInv, [SwitchNext]_switchVars
             PROVE  FileTrue' /\ (activeUrl \in schema)'
  OBVIOUS
<1> USE DEF SwitchInv, SwitchTypeOK, FileTrue, SetPhase
<1>1. CASE UNCHANGED switchVars
  BY <1>1 DEF switchVars
<1>2. ASSUME NEW w \in Switch, perform_switch(w)
      PROVE  FileTrue' /\ (activeUrl \in schema)'
  BY <1>2 DEF perform_switch, CheckTarget, run_alembic_upgrade, copy_data, PersistUrl, SwitchFails
<1>3. ASSUME NEW w \in Switch, NEW d \in Database, NEW copy \in BOOLEAN,
             start_switch(w, d, copy)
      PROVE  FileTrue' /\ (activeUrl \in schema)'
  BY <1>3 DEF start_switch
<1>4. CASE RestartProcess
  BY <1>4 DEF RestartProcess
<1> QED
  BY <1>1, <1>2, <1>3, <1>4 DEF SwitchNext

LEMMA SwitchInvariant == SwitchSpec => []SwitchInv
<1>1. SwitchInit => SwitchInv
  BY SwitchAssumption
  DEF SwitchInit, SwitchInv, SwitchTypeOK, DataMoved, FileTrue, NoSwitch, SwitchOver
<1>2. SwitchInv /\ [SwitchNext]_switchVars => SwitchInv'
  BY SwitchTypesKept, DataStays, FileStaysTrue DEF SwitchInv
<1> QED
  BY <1>1, <1>2, PTL DEF SwitchSpec

(* Whatever switches overlap, fail or are cut short by a restart, one that  *)
(* says it completed has moved the data it was asked to move, the status    *)
(* names the database the next start reads, and the one in use has a schema.*)
THEOREM SwitchedIsMoved == SwitchSpec => []CompletedIsCopied
<1>1. SwitchInv => CompletedIsCopied
  BY DEF SwitchInv, DataMoved, FileTrue, CompletedIsCopied
<1> QED
  BY <1>1, SwitchInvariant, PTL

-----------------------------------------------------------------------------
(* A lead. A task is early until it has stored what it found: its contacts  *)
(* count for nothing before, and nobody has stored any while there is no    *)
(* row. Past that, its contacts are in the row, and stay there.             *)
Early == {"none", "scheduled", "extracted", "insert", "merge"}
Outcome == {"none", "silent", "sent", "skipped", "failed"}
TaskRecord ==
    [step : Early \cup {"stored", "mailed", "done", "dead"},
     found : SUBSET Contact, contacts : SUBSET Contact, created : BOOLEAN,
     changed : BOOLEAN, status : Outcome, outcome : Outcome]

Tasks == task \in [LeadTask -> TaskRecord]
Others(t) == \A u \in LeadTask \ {t} : task'[u] = task[u]

HasStored(t) == task[t].step \in {"stored", "mailed"} \/ task[t].outcome # "none"

RowFirst ==
    \A t \in LeadTask :
        /\ task[t].step \in Early => task[t].outcome = "none"
        /\ HasStored(t) \/ task[t].step = "merge" => lead.exists

Unanswered(t) ==
    /\ task[t].changed
    /\ \/ task[t].step \in {"stored", "dead"}
       \/ task[t].outcome \in {"silent", "skipped", "failed"}

AnsweredFor(x) ==
    (\E m \in mails : x \in m.contacts)
    \/ (\E t \in LeadTask : x \in task[t].contacts /\ Unanswered(t))

LeadRow == [exists : BOOLEAN, contacts : SUBSET Contact, notify_status : Outcome]

LeadInv ==
    /\ Tasks /\ lead \in LeadRow /\ RowFirst /\ ContactsKept
    /\ ~lead.exists => lead.contacts = {}
    /\ \A x \in lead.contacts : AnsweredFor(x)

-----------------------------------------------------------------------------
(* What each action does to the record of its task; the others keep theirs. *)
LEMMA StepSet ==
    ASSUME Tasks, NEW t \in LeadTask,
           NEW s \in Early \cup {"stored", "mailed", "done", "dead"}, NEW o \in Outcome,
           task' = [task EXCEPT ![t] = [@ EXCEPT !.step = s, !.outcome = o]]
    PROVE  /\ Tasks' /\ Others(t)
           /\ task'[t].step = s /\ task'[t].outcome = o
           /\ task'[t].found = task[t].found /\ task'[t].contacts = task[t].contacts
           /\ task'[t].changed = task[t].changed
BY DEF Tasks, Others, TaskRecord

LEMMA StepOnly ==
    ASSUME Tasks, NEW t \in LeadTask,
           NEW s \in Early \cup {"stored", "mailed", "done", "dead"},
           task' = [task EXCEPT ![t].step = s]
    PROVE  /\ Tasks' /\ Others(t)
           /\ task'[t].step = s /\ task'[t].outcome = task[t].outcome
           /\ task'[t].found = task[t].found /\ task'[t].contacts = task[t].contacts
           /\ task'[t].changed = task[t].changed
BY DEF Tasks, Others, TaskRecord

LEMMA WithOwnTyped ==
    ASSUME NEW t \in LeadTask, NEW found \in SUBSET Said
    PROVE  WithOwn(t, found) \in SUBSET Contact
BY DEF WithOwn, Said, Contact

LEMMA Extracted ==
    ASSUME Tasks, NEW t \in LeadTask, NEW f \in SUBSET Contact,
           task' = [task EXCEPT ![t] = [@ EXCEPT !.step = "extracted", !.found = f]]
    PROVE  /\ Tasks' /\ Others(t)
           /\ task'[t].step = "extracted" /\ task'[t].outcome = task[t].outcome
           /\ task'[t].contacts = task[t].contacts /\ task'[t].changed = task[t].changed
BY DEF Tasks, Others, TaskRecord, Early

LEMMA MergeStores ==
    ASSUME Tasks, lead \in LeadRow, NEW t \in LeadTask, MergeLead(t)
    PROVE  /\ Tasks' /\ Others(t)
           /\ task'[t].step = "stored" /\ task'[t].outcome = task[t].outcome
           /\ task'[t].found = task[t].found
           /\ task'[t].contacts = lead.contacts \cup task[t].found
           /\ task'[t].changed = ~(task[t].found \subseteq lead.contacts)
<1> DEFINE c == lead.contacts \cup task[t].found
           b == ~(task[t].found \subseteq lead.contacts)
<1>1. /\ c \in SUBSET Contact /\ b \in BOOLEAN /\ task[t].created \in BOOLEAN
      /\ lead.notify_status \in Outcome
  BY DEF Tasks, TaskRecord, LeadRow
<1>2. task' = [task EXCEPT ![t] = [@ EXCEPT !.step = "stored", !.contacts = c, !.changed = b,
                                     !.created = task[t].created, !.status = lead.notify_status]]
  BY DEF MergeLead, Tasks, TaskRecord
<1>3. c = lead.contacts \cup task[t].found /\ b = ~(task[t].found \subseteq lead.contacts)
  OBVIOUS
<1> HIDE DEF c, b
<1>4. /\ Tasks' /\ Others(t)
      /\ task'[t].step = "stored" /\ task'[t].outcome = task[t].outcome
      /\ task'[t].found = task[t].found /\ task'[t].contacts = c /\ task'[t].changed = b
  BY <1>1, <1>2 DEF Tasks, Others, TaskRecord
<1> QED
  BY <1>3, <1>4

LEMMA InsertStores ==
    ASSUME Tasks, NEW t \in LeadTask, InsertLead(t), ~lead.exists
    PROVE  /\ Tasks' /\ Others(t)
           /\ task'[t].step = "stored" /\ task'[t].outcome = task[t].outcome
           /\ task'[t].found = task[t].found /\ task'[t].contacts = task[t].found
           /\ task'[t].changed = TRUE
<1> DEFINE step == [task[t] EXCEPT !.step = "stored"]
           created == [step EXCEPT !.created = TRUE]
           changed == [created EXCEPT !.changed = TRUE]
           stored == [changed EXCEPT !.contacts = task[t].found]
<1>1. task' = [task EXCEPT ![t] = stored]
  BY DEF InsertLead, Tasks
<1>2. task[t] \in TaskRecord
  BY DEF Tasks
<1>3. /\ step \in TaskRecord /\ step.found = task[t].found /\ step.outcome = task[t].outcome
      /\ step.step = "stored"
  BY <1>2 DEF TaskRecord
<1> HIDE DEF step
<1>4. /\ created \in TaskRecord /\ created.found = task[t].found
      /\ created.outcome = task[t].outcome /\ created.step = "stored"
  BY <1>3 DEF TaskRecord
<1> HIDE DEF created
<1>5. /\ changed \in TaskRecord /\ changed.found = task[t].found /\ changed.changed = TRUE
      /\ changed.outcome = task[t].outcome /\ changed.step = "stored"
  BY <1>4 DEF TaskRecord
<1> HIDE DEF changed
<1>6. /\ stored \in TaskRecord /\ stored.found = task[t].found /\ stored.changed = TRUE
      /\ stored.outcome = task[t].outcome /\ stored.step = "stored"
      /\ stored.contacts = task[t].found
  BY <1>5 DEF TaskRecord
<1> HIDE DEF stored
<1> QED
  BY <1>1, <1>6 DEF Tasks, Others

-----------------------------------------------------------------------------
(* A task that goes on without storing or answering anything.               *)
LEMMA StaysEarly ==
    ASSUME LeadInv, NEW t \in LeadTask, Tasks', Others(t), task[t].step \in Early,
           task'[t].step \in Early \cup {"dead"}, task'[t].step = "merge" => lead.exists,
           task'[t].outcome = task[t].outcome,
           UNCHANGED <<lead, mails>>
    PROVE  LeadInv'
<1>1. RowFirst' /\ ContactsKept'
  BY DEF LeadInv, RowFirst, ContactsKept, HasStored, Others, Early
<1>2. \A x \in lead'.contacts : AnsweredFor(x)'
  <2> TAKE x \in lead'.contacts
  <2>1. CASE \E m \in mails : x \in m.contacts
    BY <2>1 DEF AnsweredFor
  <2>2. CASE \E u \in LeadTask : x \in task[u].contacts /\ Unanswered(u)
    <3>1. PICK u \in LeadTask : x \in task[u].contacts /\ Unanswered(u)
      BY <2>2
    <3>2. u # t
      BY <3>1 DEF LeadInv, RowFirst, Unanswered, Early
    <3> QED
      BY <3>1, <3>2 DEF Others, AnsweredFor, Unanswered
  <2> QED
    BY <2>1, <2>2 DEF LeadInv, AnsweredFor
<1> QED
  BY <1>1, <1>2 DEF LeadInv

LEMMA LeadMerges == ASSUME LeadInv, NEW t \in LeadTask, MergeLead(t) PROVE LeadInv'
<1> DEFINE c == lead.contacts \cup task[t].found
<1>1. /\ Tasks' /\ Others(t) /\ task'[t].step = "stored" /\ task'[t].outcome = task[t].outcome
      /\ task'[t].found = task[t].found /\ task'[t].contacts = c
      /\ task'[t].changed = ~(task[t].found \subseteq lead.contacts)
  BY MergeStores DEF LeadInv
<1>2. lead'.contacts = c /\ lead'.exists = lead.exists /\ lead' \in LeadRow /\ mails' = mails
      /\ task[t].step = "merge"
  BY DEF MergeLead, LeadInv, LeadRow, Tasks, TaskRecord
<1>5. lead.exists
  BY <1>2 DEF LeadInv, RowFirst
<1>3. RowFirst' /\ ContactsKept'
  BY <1>1, <1>2, <1>5 DEF LeadInv, RowFirst, ContactsKept, HasStored, Others, Early
<1>4. \A x \in lead'.contacts : AnsweredFor(x)'
  <2> TAKE x \in lead'.contacts
  <2>1. CASE x \notin lead.contacts
    BY <1>1, <1>2, <2>1 DEF AnsweredFor, Unanswered
  <2>2. CASE \E m \in mails : x \in m.contacts
    BY <1>2, <2>2 DEF AnsweredFor
  <2>3. CASE \E u \in LeadTask : x \in task[u].contacts /\ Unanswered(u)
    <3>1. PICK u \in LeadTask : x \in task[u].contacts /\ Unanswered(u)
      BY <2>3
    <3>2. u # t
      BY <1>2, <3>1 DEF LeadInv, RowFirst, Unanswered, Early
    <3> QED
      BY <1>1, <3>1, <3>2 DEF Others, AnsweredFor, Unanswered
  <2> QED
    BY <2>1, <2>2, <2>3 DEF LeadInv, AnsweredFor
<1> QED
  BY <1>1, <1>2, <1>3, <1>4, <1>5 DEF LeadInv

LEMMA Inserts == ASSUME LeadInv, NEW t \in LeadTask, InsertLead(t) PROVE LeadInv'
<1>1. CASE lead.exists
  <2>1. task' = [task EXCEPT ![t].step = "merge"] /\ task[t].step = "insert"
        /\ UNCHANGED <<lead, mails>>
    BY <1>1 DEF InsertLead
  <2> QED
    BY <1>1, <2>1, StepOnly, StaysEarly DEF LeadInv, Early
<1>2. CASE ~lead.exists
  <2>1. /\ Tasks' /\ Others(t) /\ task'[t].step = "stored" /\ task'[t].outcome = task[t].outcome
        /\ task'[t].found = task[t].found /\ task'[t].contacts = task[t].found
        /\ task'[t].changed = TRUE
    BY <1>2, InsertStores DEF LeadInv
  <2>2. /\ lead'.contacts = task[t].found /\ lead'.exists = TRUE /\ lead' \in LeadRow
        /\ task[t].step = "insert"
    BY <1>2 DEF InsertLead, LeadInv, LeadRow, Tasks, TaskRecord
  <2>3. RowFirst' /\ ContactsKept'
    BY <1>2, <2>1, <2>2 DEF LeadInv, RowFirst, ContactsKept, HasStored, Others, Early
  <2>4. \A x \in lead'.contacts : AnsweredFor(x)'
    BY <2>1, <2>2 DEF AnsweredFor, Unanswered
  <2> QED
    BY <2>1, <2>2, <2>3, <2>4 DEF LeadInv
<1> QED
  BY <1>1, <1>2

(* A task that has stored, and now leaves it at that, mails or has mailed.  *)
LEMMA Answers ==
    ASSUME LeadInv, NEW t \in LeadTask, Tasks', Others(t), task[t].step \in {"stored", "mailed"},
           task'[t].step \notin Early, task'[t].found = task[t].found,
           task'[t].contacts = task[t].contacts, task'[t].changed = task[t].changed,
           lead' \in LeadRow, lead'.exists = lead.exists, lead'.contacts = lead.contacts,
           mails \subseteq mails',
           Unanswered(t) => Unanswered(t)' \/ \E m \in mails' : m.contacts = task[t].contacts
    PROVE  LeadInv'
<1>1. RowFirst' /\ ContactsKept'
  BY DEF LeadInv, RowFirst, ContactsKept, HasStored, Others, Early
<1>2. \A x \in lead'.contacts : AnsweredFor(x)'
  <2> TAKE x \in lead'.contacts
  <2>1. CASE \E m \in mails : x \in m.contacts
    BY <2>1 DEF AnsweredFor
  <2>2. CASE \E u \in LeadTask : x \in task[u].contacts /\ Unanswered(u)
    <3>1. PICK u \in LeadTask : x \in task[u].contacts /\ Unanswered(u)
      BY <2>2
    <3>2. CASE u # t
      BY <3>1, <3>2 DEF Others, AnsweredFor, Unanswered
    <3>3. CASE u = t
      BY <3>1, <3>3 DEF AnsweredFor
    <3> QED
      BY <3>2, <3>3
  <2> QED
    BY <2>1, <2>2 DEF LeadInv, AnsweredFor
<1> QED
  BY <1>1, <1>2 DEF LeadInv

(* The last three steps of a task, and its end.                             *)
LEMMA Leaves == ASSUME LeadInv, NEW t \in LeadTask, DontNotify(t) PROVE LeadInv'
<1>0. Tasks /\ lead \in LeadRow
  BY DEF LeadInv
<1>1. task[t] \in TaskRecord /\ task[t].step = "stored" /\ UNCHANGED <<lead, mails>>
  BY <1>0 DEF DontNotify, Tasks
<1>2. CASE ~task[t].changed /\ task' = [task EXCEPT ![t].step = "done"]
  <2>1. /\ Tasks' /\ Others(t)
        /\ task'[t].step = "done" /\ task'[t].outcome = task[t].outcome
        /\ task'[t].found = task[t].found /\ task'[t].contacts = task[t].contacts
        /\ task'[t].changed = task[t].changed
    BY <1>0, <1>2, StepOnly
  <2>2. ~Unanswered(t)
    BY <1>2 DEF Unanswered
  <2> QED
    BY <1>0, <1>1, <2>1, <2>2, Answers DEF Early
<1>3. CASE task' = [task EXCEPT ![t].step = "done", ![t].outcome = "silent"]
  <2>1. task' = [task EXCEPT ![t] = [@ EXCEPT !.step = "done", !.outcome = "silent"]]
    BY <1>0, <1>3 DEF Tasks, TaskRecord
  <2>2. /\ Tasks' /\ Others(t)
        /\ task'[t].step = "done" /\ task'[t].outcome = "silent"
        /\ task'[t].found = task[t].found /\ task'[t].contacts = task[t].contacts
        /\ task'[t].changed = task[t].changed
    BY <1>0, <2>1, StepSet DEF Outcome
  <2>3. Unanswered(t) => Unanswered(t)'
    BY <2>2 DEF Unanswered
  <2> QED
    BY <1>0, <1>1, <2>2, <2>3, Answers DEF Early
<1> QED
  BY <1>2, <1>3 DEF DontNotify

LEMMA Mails == ASSUME LeadInv, NEW t \in LeadTask, SendMail(t) PROVE LeadInv'
<1>0. Tasks /\ lead \in LeadRow
  BY DEF LeadInv
<1>1. PICK o \in {"sent", "skipped", "failed"} :
         /\ task' = [task EXCEPT ![t].step = "mailed", ![t].outcome = o]
         /\ mails' = IF o # "sent" THEN mails
                     ELSE mails \cup {[updated |-> IsUpdate(t), contacts |-> task[t].contacts]}
  BY DEF SendMail
<1>2. task[t] \in TaskRecord /\ task[t].step = "stored" /\ task[t].changed /\ lead' = lead
  BY <1>0 DEF SendMail, Tasks
<1>3. task' = [task EXCEPT ![t] = [@ EXCEPT !.step = "mailed", !.outcome = o]]
  BY <1>0, <1>1 DEF Tasks, TaskRecord
<1>4. /\ Tasks' /\ Others(t)
      /\ task'[t].step = "mailed" /\ task'[t].outcome = o
      /\ task'[t].found = task[t].found /\ task'[t].contacts = task[t].contacts
      /\ task'[t].changed = task[t].changed
  <2>1. o \in Outcome
    BY DEF Outcome
  <2> QED
    BY <1>0, <1>3, <2>1, StepSet
<1>5. mails \subseteq mails' /\ (o = "sent" => \E m \in mails' : m.contacts = task[t].contacts)
  <2> DEFINE mail == [updated |-> IsUpdate(t), contacts |-> task[t].contacts]
  <2>1. mail.contacts = task[t].contacts
    OBVIOUS
  <2>2. mails' = IF o # "sent" THEN mails ELSE mails \cup {mail}
    BY <1>1
  <2> HIDE DEF mail
  <2> QED
    BY <2>1, <2>2
<1>6. Unanswered(t)' \/ \E m \in mails' : m.contacts = task[t].contacts
  BY <1>2, <1>4, <1>5 DEF Unanswered
<1> QED
  BY <1>0, <1>2, <1>4, <1>5, <1>6, Answers DEF Early

LEMMA Records == ASSUME LeadInv, NEW t \in LeadTask, RecordNotification(t) PROVE LeadInv'
<1>0. Tasks /\ lead \in LeadRow
  BY DEF LeadInv
<1>1. task[t] \in TaskRecord /\ task[t].step = "mailed" /\ mails' = mails
      /\ task' = [task EXCEPT ![t].step = "done"]
      /\ lead' = [lead EXCEPT !.notify_status = task[t].outcome]
  BY <1>0 DEF RecordNotification, Tasks
<1>2. /\ Tasks' /\ Others(t)
      /\ task'[t].step = "done" /\ task'[t].outcome = task[t].outcome
      /\ task'[t].found = task[t].found /\ task'[t].contacts = task[t].contacts
      /\ task'[t].changed = task[t].changed
  BY <1>0, <1>1, StepOnly
<1>3. Unanswered(t) => Unanswered(t)'
  BY <1>1, <1>2 DEF Unanswered
<1>4. lead' \in LeadRow /\ lead'.exists = lead.exists /\ lead'.contacts = lead.contacts
  BY <1>0, <1>1 DEF TaskRecord, LeadRow
<1> QED
  BY <1>0, <1>1, <1>2, <1>3, <1>4, Answers DEF Early

LEMMA Dies == ASSUME LeadInv, NEW t \in LeadTask, TaskDies(t) PROVE LeadInv'
<1>0. Tasks /\ lead \in LeadRow
  BY DEF LeadInv
<1>1. task[t] \in TaskRecord /\ task[t].step \notin {"none", "done", "dead"}
      /\ UNCHANGED <<lead, mails>> /\ task' = [task EXCEPT ![t].step = "dead"]
  BY <1>0 DEF TaskDies, Tasks
<1>2. /\ Tasks' /\ Others(t)
      /\ task'[t].step = "dead" /\ task'[t].outcome = task[t].outcome
      /\ task'[t].found = task[t].found /\ task'[t].contacts = task[t].contacts
      /\ task'[t].changed = task[t].changed
  BY <1>0, <1>1, StepOnly
<1>3. CASE task[t].step \in Early
  BY <1>1, <1>2, <1>3, StaysEarly
<1>4. CASE task[t].step \in {"stored", "mailed"}
  <2>1. Unanswered(t) => Unanswered(t)'
    BY <1>2 DEF Unanswered
  <2> QED
    BY <1>0, <1>1, <1>2, <1>4, <2>1, Answers DEF Early
<1> QED
  BY <1>1, <1>3, <1>4 DEF TaskRecord

LEMMA Prepares ==
    ASSUME LeadInv, NEW t \in LeadTask, MessageArrives(t) \/ Extract(t) \/ LookForLead(t)
    PROVE  LeadInv'
<1>0. Tasks /\ lead \in LeadRow
  BY DEF LeadInv
<1>1. CASE MessageArrives(t)
  <2>1. /\ Tasks' /\ Others(t)
        /\ task'[t].step = "scheduled" /\ task'[t].outcome = task[t].outcome
    BY <1>0, <1>1, StepOnly DEF MessageArrives, Early
  <2> QED
    BY <1>1, <2>1, StaysEarly DEF MessageArrives, Early
<1>2. CASE Extract(t)
  <2>1. PICK found \in SUBSET Said :
           task' = [task EXCEPT ![t] = [@ EXCEPT !.step = "extracted", !.found = WithOwn(t, found)]]
    BY <1>2 DEF Extract
  <2>2. /\ Tasks' /\ Others(t)
        /\ task'[t].step = "extracted" /\ task'[t].outcome = task[t].outcome
    BY <1>0, <2>1, WithOwnTyped, Extracted
  <2> QED
    BY <1>2, <2>2, StaysEarly DEF Extract, Early
<1>3. CASE LookForLead(t)
  <2>1. PICK s \in {"insert", "merge"} :
           task' = [task EXCEPT ![t].step = s] /\ (s = "merge" => lead.exists)
    BY <1>3 DEF LookForLead
  <2>2. s \in Early
    BY DEF Early
  <2>3. /\ Tasks' /\ Others(t)
        /\ task'[t].step = s /\ task'[t].outcome = task[t].outcome
    BY <1>0, <2>1, <2>2, StepOnly
  <2> QED
    BY <1>3, <2>1, <2>2, <2>3, StaysEarly DEF LookForLead, Early
<1> QED
  BY <1>1, <1>2, <1>3

LEMMA LeadStep == LeadInv /\ [LeadNext]_leadVars => LeadInv'
<1> SUFFICES ASSUME LeadInv, [LeadNext]_leadVars PROVE LeadInv'
  OBVIOUS
<1>1. CASE UNCHANGED leadVars
  BY <1>1 DEF leadVars, LeadInv, Tasks, LeadRow, RowFirst, ContactsKept, HasStored, AnsweredFor, Unanswered
<1>2. ASSUME NEW t \in LeadTask, ProcessLead(t) PROVE LeadInv'
  BY <1>2, Prepares, Inserts, LeadMerges, Leaves, Mails, Records, Dies DEF ProcessLead
<1> QED
  BY <1>1, <1>2 DEF LeadNext

(* No contact that was stored gets lost, and none is left for nobody to     *)
(* tell the client about, however the tasks of a conversation overlap.      *)
THEOREM ContactsAnswered == LeadSpec => []EveryContactAnswered
<1>1. LeadInit => LeadInv
  BY DEF LeadInit, NoTask, LeadInv, Tasks, TaskRecord, Early, Outcome, LeadRow,
         RowFirst, ContactsKept, HasStored
<1>2. LeadInv => EveryContactAnswered
  <2> SUFFICES ASSUME LeadInv PROVE EveryContactAnswered
    OBVIOUS
  <2>1. ASSUME NEW x \in lead.contacts
        PROVE  \/ \E m \in mails : x \in m.contacts
               \/ \E t \in LeadTask :
                    /\ x \in task[t].contacts /\ task[t].changed
                    /\ task[t].step \in {"stored", "dead"}
                       \/ task[t].outcome \in {"silent", "skipped", "failed"}
    BY DEF LeadInv, AnsweredFor, Unanswered
  <2> QED
    BY <2>1 DEF EveryContactAnswered, LeadInv
<1> QED
  BY <1>1, <1>2, LeadStep, PTL DEF LeadSpec

(* The types of a lead: what a task tells of its mail, once it has told it. *)
Notices == {"none", "sent", "skipped", "failed"}

LeadTyped == LeadTypeOK /\ \A t \in LeadTask : task[t].step = "mailed" => task[t].outcome \in Notices

LEMMA LeadTypesKept == LeadTyped /\ [LeadNext]_leadVars => LeadTyped'
<1> SUFFICES ASSUME LeadTyped, [LeadNext]_leadVars PROVE LeadTyped'
  OBVIOUS
<1> DEFINE Rec == [step : {"none", "scheduled", "extracted", "insert", "merge", "stored", "mailed",
                           "done", "dead"},
                   found : SUBSET Contact, contacts : SUBSET Contact, created : BOOLEAN,
                   changed : BOOLEAN, status : Notices, outcome : Outcome]
           LeadRec == [exists : BOOLEAN, contacts : SUBSET Contact, notify_status : Notices]
<1>1. task \in [LeadTask -> Rec] /\ lead \in LeadRec
  BY DEF LeadTyped, LeadTypeOK, Notices, Outcome
<1>2. ASSUME NEW t \in LeadTask, NEW new \in Rec, task' = [task EXCEPT ![t] = new],
             new.step = "mailed" => new.outcome \in Notices, lead' \in LeadRec,
             mails' \subseteq [updated : BOOLEAN, contacts : SUBSET Contact]
      PROVE  LeadTyped'
  BY <1>1, <1>2 DEF LeadTyped, LeadTypeOK, Notices, Outcome
<1>3. CASE UNCHANGED leadVars
  BY <1>3 DEF leadVars, LeadTyped, LeadTypeOK
<1>4. ASSUME NEW t \in LeadTask, ProcessLead(t) PROVE LeadTyped'
  <2>1. task[t] \in Rec /\ mails \subseteq [updated : BOOLEAN, contacts : SUBSET Contact]
    BY <1>1 DEF LeadTyped, LeadTypeOK
  <2>2. ASSUME NEW s \in {"scheduled", "insert", "merge", "done", "dead"},
               task' = [task EXCEPT ![t].step = s], lead' \in LeadRec, UNCHANGED mails
        PROVE  LeadTyped'
    <3> DEFINE new == [task[t] EXCEPT !.step = s]
    <3>1. task' = [task EXCEPT ![t] = new]
      BY <1>1, <2>2
    <3>2. new \in Rec /\ new.step # "mailed"
      BY <2>1
    <3> HIDE DEF new
    <3> QED
      BY <1>2, <2>1, <2>2, <3>1, <3>2
  <2>3. CASE MessageArrives(t) \/ LookForLead(t) \/ TaskDies(t)
    BY <1>1, <2>2, <2>3 DEF MessageArrives, LookForLead, TaskDies
  <2>4. CASE Extract(t)
    <3>1. PICK found \in SUBSET Said :
            task' = [task EXCEPT ![t] = [@ EXCEPT !.step = "extracted", !.found = WithOwn(t, found)]]
      BY <2>4 DEF Extract
    <3> DEFINE new == [task[t] EXCEPT !.step = "extracted", !.found = WithOwn(t, found)]
    <3>2. task' = [task EXCEPT ![t] = new]
      BY <1>1, <3>1
    <3>3. new \in Rec /\ new.step # "mailed"
      BY <2>1, WithOwnTyped
    <3> HIDE DEF new
    <3> QED
      BY <1>1, <1>2, <2>1, <2>4, <3>2, <3>3 DEF Extract
  <2>5. CASE InsertLead(t)
    <3>1. CASE lead.exists
      BY <1>1, <2>2, <2>5, <3>1 DEF InsertLead
    <3>2. CASE ~lead.exists
      <4> DEFINE new == [task[t] EXCEPT !.step = "stored", !.created = TRUE, !.changed = TRUE,
                                        !.contacts = task[t].found]
      <4>1. task' = [task EXCEPT ![t] = new]
        BY <1>1, <2>5, <3>2 DEF InsertLead
      <4>2. new \in Rec /\ new.step # "mailed"
        BY <2>1
      <4>3. lead' \in LeadRec /\ mails' = mails
        BY <1>1, <2>1, <2>5, <3>2 DEF InsertLead
      <4> HIDE DEF new
      <4> QED
        BY <1>2, <2>1, <4>1, <4>2, <4>3
    <3> QED
      BY <3>1, <3>2
  <2>6. CASE MergeLead(t)
    <3> DEFINE all == lead.contacts \cup task[t].found
               more == ~(task[t].found \subseteq lead.contacts)
               new == [task[t] EXCEPT !.step = "stored", !.contacts = all, !.changed = more,
                                      !.status = lead.notify_status]
    <3>1. task' = [task EXCEPT ![t] = new]
      BY <1>1, <2>6 DEF MergeLead
    <3>2. all \in SUBSET Contact /\ more \in BOOLEAN /\ lead.notify_status \in Notices
      BY <1>1, <2>1
    <3>3. lead' \in LeadRec /\ mails' = mails
      BY <1>1, <2>6, <3>2 DEF MergeLead
    <3> HIDE DEF all, more
    <3>4. new \in Rec /\ new.step # "mailed"
      BY <2>1, <3>2
    <3> HIDE DEF new
    <3> QED
      BY <1>2, <2>1, <3>1, <3>3, <3>4
  <2>7. CASE DontNotify(t)
    <3>1. CASE task' = [task EXCEPT ![t].step = "done", ![t].outcome = "silent"]
      <4> DEFINE new == [task[t] EXCEPT !.step = "done", !.outcome = "silent"]
      <4>1. task' = [task EXCEPT ![t] = new]
        BY <1>1, <3>1
      <4>2. new \in Rec /\ new.step # "mailed"
        BY <2>1 DEF Outcome
      <4> HIDE DEF new
      <4> QED
        BY <1>1, <1>2, <2>1, <2>7, <4>1, <4>2 DEF DontNotify
    <3> QED
      BY <1>1, <2>2, <2>7, <3>1 DEF DontNotify
  <2>8. CASE SendMail(t)
    <3>1. PICK o \in {"sent", "skipped", "failed"} :
            /\ task' = [task EXCEPT ![t].step = "mailed", ![t].outcome = o]
            /\ mails' = IF o # "sent" THEN mails
                        ELSE mails \cup {[updated |-> IsUpdate(t), contacts |-> task[t].contacts]}
      BY <2>8 DEF SendMail
    <3> DEFINE new == [task[t] EXCEPT !.step = "mailed", !.outcome = o]
               mail == [updated |-> IsUpdate(t), contacts |-> task[t].contacts]
    <3>2. task' = [task EXCEPT ![t] = new]
      BY <1>1, <3>1
    <3>3. new \in Rec /\ new.outcome \in Notices
      BY <2>1 DEF Outcome, Notices
    <3>4. mail \in [updated : BOOLEAN, contacts : SUBSET Contact]
      BY <2>1 DEF IsUpdate
    <3>5. mails' \subseteq [updated : BOOLEAN, contacts : SUBSET Contact]
      <4>1. mails' = mails \/ mails' = mails \cup {mail}
        BY <3>1
      <4> HIDE DEF mail
      <4> QED
        BY <2>1, <3>4, <4>1
    <3> HIDE DEF new
    <3> QED
      BY <1>1, <1>2, <2>8, <3>2, <3>3, <3>5 DEF SendMail
  <2>9. CASE RecordNotification(t)
    <3>1. task[t].outcome \in Notices
      BY <2>9 DEF RecordNotification, LeadTyped
    <3>2. lead' \in LeadRec
      BY <1>1, <2>9, <3>1 DEF RecordNotification
    <3> QED
      BY <2>2, <2>9, <3>2 DEF RecordNotification
  <2> QED
    BY <1>4, <2>3, <2>4, <2>5, <2>6, <2>7, <2>8, <2>9 DEF ProcessLead
<1> QED
  BY <1>3, <1>4 DEF LeadNext

LEMMA LeadTypes == LeadSpec => []LeadTypeOK
<1>1. LeadInit => LeadTyped
  BY DEF LeadInit, NoTask, LeadTyped, LeadTypeOK
<1>2. LeadTyped => LeadTypeOK
  BY DEF LeadTyped
<1> QED
  BY <1>1, <1>2, LeadTypesKept, PTL DEF LeadSpec

-----------------------------------------------------------------------------
(* The types; the batches of a table are among the tries, and none are left *)
(* to count when the cleanup is done.                                       *)
Grounds ==
    /\ CleanupTypeOK
    /\ batches <= tries /\ (phase = "done" => batches = 0)

CleanInv == Grounds /\ CleanIsEmpty

(* A batch that deletes fewer rows than it may took all that were due.      *)
LEMMA LastBatch ==
    ASSUME phase # "done", NEW b \in Batch, Cardinality(b) < batch_size
    PROVE  b = Eligible
<1>1. Eligible \subseteq Rows
  BY DEF Eligible, TableOf, Rows
<1>2. IsFiniteSet(Eligible)
  BY <1>1, CleanupAssumption, FS_Subset DEF Rows
<1>3. Cardinality(Eligible) \in Nat /\ b \in SUBSET Eligible
  BY <1>2, FS_CardinalityType DEF Batch
<1>4. Cardinality(b) = Cardinality(Eligible)
  BY <1>3, CleanupAssumption DEF Batch
<1> QED
  BY <1>2, <1>3, <1>4, FS_Subset

(* From one table the cleanup goes on to the next, and has passed it.       *)
LEMMA Turns ==
    ASSUME Grounds, phase # "done"
    PROVE  NextPhase[phase] \in {"executions", "memories", "done"} /\ Past(NextPhase[phase]) = Past(phase) \cup {phase}
           /\ phase \in DOMAIN NextPhase
BY DEF Grounds, CleanupTypeOK, NextPhase, Past

(* This much holds after every step.                                        *)
LEMMA GroundsKept == Grounds /\ [CleanupNext]_cleanupVars => Grounds'
<1> SUFFICES ASSUME Grounds, [CleanupNext]_cleanupVars PROVE Grounds'
  OBVIOUS
<1> USE CleanupAssumption DEF Grounds, CleanupTypeOK, TryBound
<1>1. CASE CountRecords
  BY <1>1, Turns DEF CountRecords
<1>2. CASE CountFails
  BY <1>2, Turns DEF CountFails
<1>3. CASE DeleteBatch
  <2>1. phase # "done" /\ batches < max_batches /\ age' \in [Rows -> {"absent", "old", "young"}]
        /\ UNCHANGED <<failedTables, left, writes>>
    BY <1>3 DEF DeleteBatch
  <2>2. CASE Leave(phase)
    BY <2>1, <2>2, Turns DEF Leave
  <2>3. CASE batches' = batches + 1 /\ Try /\ UNCHANGED phase
    BY <2>1, <2>3 DEF Try
  <2> QED
    BY <1>3, <2>2, <2>3 DEF DeleteBatch
<1>4. CASE BatchFails
  <2>1. phase # "done" /\ failedTables' = failedTables \cup {phase} /\ phase \in DOMAIN NextPhase
    BY <1>4, Turns DEF BatchFails
  <2> QED
    BY <1>4, <2>1 DEF BatchFails, Try
<1>5. CASE StopAtLimit
  <2>1. phase # "done"
    BY <1>5 DEF StopAtLimit
  <2> QED
    BY <1>5, <2>1, Turns DEF StopAtLimit, Leave
<1>6. CASE Workers
  BY <1>6 DEF Workers, StartAgain, AddTrace
<1>7. CASE UNCHANGED cleanupVars
  BY <1>7 DEF cleanupVars
<1> QED
  BY <1>1, <1>2, <1>3, <1>4, <1>5, <1>6, <1>7 DEF CleanupNext

(* So a table that was left clean is empty of old rows, and no step brings  *)
(* one back: what workers add is young, and what a batch deletes takes      *)
(* nothing away that a row of another table refers to.                      *)
LEMMA CleanStep == CleanInv /\ [CleanupNext]_cleanupVars => CleanInv'
<1> SUFFICES ASSUME CleanInv, [CleanupNext]_cleanupVars PROVE CleanIsEmpty'
  BY GroundsKept DEF CleanInv
<1>1. CASE CountRecords
  BY <1>1, Turns DEF CountRecords, CleanInv, Grounds, CleanupTypeOK, CleanIsEmpty, Eligible
<1>2. CASE CountFails
  BY <1>2, Turns DEF CountFails, CleanInv, Grounds, CleanupTypeOK, CleanIsEmpty
<1>3. CASE DeleteBatch
  <2>1. PICK b \in Batch :
          /\ ~Referenced(b)
          /\ age' = [x \in Rows |-> IF x \in b THEN "absent" ELSE age[x]]
          /\ IF Cardinality(b) < batch_size THEN Leave(phase)
             ELSE batches' = batches + 1 /\ Try /\ UNCHANGED phase
    BY <1>3 DEF DeleteBatch
  <2>2. phase # "done" /\ left' = left
    BY <1>3 DEF DeleteBatch
  <2>3. Trace \subseteq Rows /\ \A p \in {"traces", "executions", "memories", "done"} : TableOf(p) \subseteq Rows
    BY DEF TableOf, Rows
  <2>4. \A p \in Past(phase) \ left : \A x \in TableOf(p) : age'[x] # "old"
    BY <2>1, <2>3 DEF CleanInv, CleanIsEmpty, Past, NextPhase, Grounds, CleanupTypeOK
  <2>5. \A x \in Trace : age'[x] # "absent" => age'[ExecutionOf[x]] # "absent"
    <3> SUFFICES ASSUME NEW x \in Trace, age'[x] # "absent", age'[ExecutionOf[x]] = "absent" PROVE FALSE
      OBVIOUS
    <3>1. x \notin b /\ age[x] # "absent" /\ ExecutionOf[x] \in Execution /\ age[ExecutionOf[x]] # "absent"
      BY <2>1, <2>3, CleanupAssumption DEF CleanInv, CleanIsEmpty
    <3>2. ExecutionOf[x] \in b
      BY <2>1, <3>1 DEF Rows
    <3> QED
      BY <2>1, <3>1, <3>2 DEF Referenced, TracesOf
  <2>6. CASE Cardinality(b) < batch_size
    <3>1. b = Eligible /\ phase' = NextPhase[phase]
      BY <2>1, <2>2, <2>6, LastBatch DEF Leave
    <3>2. \A x \in TableOf(phase) : age'[x] # "old"
      BY <2>1, <2>3, <3>1 DEF Eligible, CleanInv, Grounds, CleanupTypeOK
    <3>3. Past(phase') = Past(phase) \cup {phase} /\ phase' \in {"executions", "memories", "done"}
      BY <2>2, <3>1, Turns DEF CleanInv
    <3> QED
      BY <2>1, <2>2, <2>4, <2>5, <3>2, <3>3 DEF CleanInv, CleanIsEmpty, Grounds, CleanupTypeOK
  <2>7. CASE ~(Cardinality(b) < batch_size)
    BY <2>1, <2>2, <2>4, <2>5, <2>7 DEF CleanInv, CleanIsEmpty, Grounds, CleanupTypeOK
  <2> QED
    BY <2>6, <2>7
<1>4. CASE BatchFails
  BY <1>4 DEF BatchFails, CleanInv, Grounds, CleanupTypeOK, CleanIsEmpty
<1>5. CASE StopAtLimit
  <2>1. phase # "done"
    BY <1>5, CleanupAssumption DEF StopAtLimit, CleanInv, Grounds, CleanupTypeOK
  <2> QED
    BY <1>5, <2>1, Turns DEF StopAtLimit, CleanInv, CleanIsEmpty, Leave
<1>6. CASE Workers
  <2>1. PICK x \in Rows : /\ age' = [age EXCEPT ![x] = "young"] /\ UNCHANGED <<phase, left>>
                          /\ x \in Trace /\ age[x] = "absent" => age[ExecutionOf[x]] # "absent"
    BY <1>6 DEF Workers, StartAgain, AddTrace, Rows
  <2>2. \A p \in Past(phase) : TableOf(p) \subseteq Rows
    BY DEF TableOf, Rows
  <2>3. \A y \in Trace : ExecutionOf[y] \in Rows /\ y \in Rows
    BY CleanupAssumption DEF Rows
  <2> QED
    BY <2>1, <2>2, <2>3 DEF CleanInv, Grounds, CleanupTypeOK, CleanIsEmpty
<1>7. CASE UNCHANGED cleanupVars
  BY <1>7 DEF cleanupVars, CleanInv, Grounds, CleanupTypeOK, CleanIsEmpty
<1> QED
  BY <1>1, <1>2, <1>3, <1>4, <1>5, <1>6, <1>7 DEF CleanupNext

LEMMA CleanInvariant == CleanupSpec => []CleanInv
<1>1. CleanupInit => CleanInv
  BY CleanupAssumption DEF CleanupInit, CleanInv, Grounds, CleanupTypeOK, CleanIsEmpty, Past, TryBound
<1> QED
  BY <1>1, CleanStep, PTL DEF CleanupSpec

(* What is left clean stays clean, and no row outlives what it refers to.   *)
THEOREM CleanedForGood == CleanupSpec => []CleanIsEmpty
<1>1. CleanInv => CleanIsEmpty
  BY DEF CleanInv
<1> QED
  BY <1>1, CleanInvariant, PTL

-----------------------------------------------------------------------------
(* The handler that inserted the row and has still to dispatch it.          *)
AtWork(d) == delivery[d] \in {"inserted", "undispatched"}

(* Why a row may be there although nothing was enqueued for it.             *)
Excused(k) ==
    \E e \in Delivery :
        /\ KeyOf(e) = k
        /\ AtWork(e) \/ delivery[e] = "dead" \/ (reply[e] = "ERROR" /\ event[k] = "FAILED")

(* At most one handler works for a key, before anything is enqueued for it. *)
OneAtWork ==
    /\ \A d \in Delivery : AtWork(d) => event[KeyOf(d)] = "PENDING" /\ dispatched[KeyOf(d)] = 0
    /\ \A d, e \in Delivery : AtWork(d) /\ AtWork(e) /\ KeyOf(d) = KeyOf(e) => d = e

RowsBacked == \A k \in Keys : event[k] # "none" => dispatched[k] = 1 \/ Excused(k)

(* A delivery is answered once, and a success is said of a row that exists. *)
AnswersHold ==
    \A d \in Delivery :
        /\ reply[d] # "none" => delivery[d] = "over"
        /\ reply[d] = "ACCEPTED" => dispatched[KeyOf(d)] = 1
        /\ reply[d] = "DUPLICATE" => event[KeyOf(d)] # "none"

IngressInv == IngressTypeOK /\ OneDispatch /\ OneAtWork /\ RowsBacked /\ AnswersHold

LEMMA KeyIsKey == \A d \in Delivery : KeyOf(d) \in Keys
BY DEF Keys

-----------------------------------------------------------------------------
LEMMA IngressTypesKept == IngressTypeOK /\ [IngressNext]_ingressVars => IngressTypeOK'
<1> SUFFICES ASSUME IngressTypeOK, [IngressNext]_ingressVars PROVE IngressTypeOK'
  OBVIOUS
<1> USE IngressAssumption, KeyIsKey DEF IngressTypeOK, Answer, Goto
<1>1. CASE UNCHANGED ingressVars
  BY <1>1 DEF ingressVars
<1>2. ASSUME NEW d \in Delivery, LookupHook(d) PROVE IngressTypeOK'
  BY <1>2 DEF LookupHook
<1>3. ASSUME NEW d \in Delivery, CheckRequest(d) PROVE IngressTypeOK'
  BY <1>3 DEF CheckRequest
<1>4. ASSUME NEW d \in Delivery, CheckWorkflow(d) PROVE IngressTypeOK'
  BY <1>4 DEF CheckWorkflow
<1>5. ASSUME NEW d \in Delivery, InsertEvent(d) PROVE IngressTypeOK'
  BY <1>5 DEF InsertEvent
<1>6. ASSUME NEW d \in Delivery, InsertFails(d) PROVE IngressTypeOK'
  BY <1>6 DEF InsertFails
<1>7. ASSUME NEW d \in Delivery, Dispatch(d) PROVE IngressTypeOK'
  BY <1>7 DEF Dispatch
<1>8. ASSUME NEW d \in Delivery, DispatchRaises(d) PROVE IngressTypeOK'
  BY <1>8 DEF DispatchRaises
<1>9. ASSUME NEW d \in Delivery, RecordFailure(d) PROVE IngressTypeOK'
  BY <1>9 DEF RecordFailure
<1>10. ASSUME NEW d \in Delivery, HandlerDies(d) PROVE IngressTypeOK'
  BY <1>10 DEF HandlerDies
<1>11. CASE EditHook
  BY <1>11 DEF EditHook
<1> QED
  BY <1>1, <1>2, <1>3, <1>4, <1>5, <1>6, <1>7, <1>8, <1>9, <1>10, <1>11
  DEF IngressNext, Handle

(* The unique index lets one handler insert; no other begins work for its  *)
(* key afterwards.                                                         *)
LEMMA OneStaysAtWork == IngressInv /\ [IngressNext]_ingressVars => OneAtWork'
<1> SUFFICES ASSUME IngressInv, [IngressNext]_ingressVars PROVE OneAtWork'
  OBVIOUS
<1> USE KeyIsKey DEF IngressInv, IngressTypeOK, Answer, Goto, AtWork, OneAtWork, OneDispatch
<1>1. CASE UNCHANGED ingressVars
  BY <1>1 DEF ingressVars
<1>2. ASSUME NEW d \in Delivery, LookupHook(d) PROVE OneAtWork'
  BY <1>2 DEF LookupHook
<1>3. ASSUME NEW d \in Delivery, CheckRequest(d) PROVE OneAtWork'
  BY <1>3 DEF CheckRequest
<1>4. ASSUME NEW d \in Delivery, CheckWorkflow(d) PROVE OneAtWork'
  BY <1>4 DEF CheckWorkflow
<1>5. ASSUME NEW d \in Delivery, InsertEvent(d) PROVE OneAtWork'
  BY <1>5 DEF InsertEvent
<1>6. ASSUME NEW d \in Delivery, InsertFails(d) PROVE OneAtWork'
  BY <1>6 DEF InsertFails
<1>7. ASSUME NEW d \in Delivery, Dispatch(d) PROVE OneAtWork'
  BY <1>7 DEF Dispatch
<1>8. ASSUME NEW d \in Delivery, DispatchRaises(d) PROVE OneAtWork'
  BY <1>8 DEF DispatchRaises
<1>9. ASSUME NEW d \in Delivery, RecordFailure(d) PROVE OneAtWork'
  BY <1>9 DEF RecordFailure
<1>10. ASSUME NEW d \in Delivery, HandlerDies(d) PROVE OneAtWork'
  BY <1>10 DEF HandlerDies
<1>11. CASE EditHook
  BY <1>11 DEF EditHook
<1> QED
  BY <1>1, <1>2, <1>3, <1>4, <1>5, <1>6, <1>7, <1>8, <1>9, <1>10, <1>11
  DEF IngressNext, Handle

(* Only the handler at work enqueues, once.                                *)
LEMMA OneDispatchKept == IngressInv /\ [IngressNext]_ingressVars => OneDispatch'
<1> SUFFICES ASSUME IngressInv, [IngressNext]_ingressVars PROVE OneDispatch'
  OBVIOUS
<1> USE KeyIsKey DEF IngressInv, IngressTypeOK, Answer, Goto, AtWork, OneAtWork, OneDispatch
<1>1. CASE UNCHANGED ingressVars
  BY <1>1 DEF ingressVars
<1>2. ASSUME NEW d \in Delivery, LookupHook(d) PROVE OneDispatch'
  BY <1>2 DEF LookupHook
<1>3. ASSUME NEW d \in Delivery, CheckRequest(d) PROVE OneDispatch'
  BY <1>3 DEF CheckRequest
<1>4. ASSUME NEW d \in Delivery, CheckWorkflow(d) PROVE OneDispatch'
  BY <1>4 DEF CheckWorkflow
<1>5. ASSUME NEW d \in Delivery, InsertEvent(d) PROVE OneDispatch'
  BY <1>5 DEF InsertEvent
<1>6. ASSUME NEW d \in Delivery, InsertFails(d) PROVE OneDispatch'
  BY <1>6 DEF InsertFails
<1>7. ASSUME NEW d \in Delivery, Dispatch(d) PROVE OneDispatch'
  BY <1>7 DEF Dispatch
<1>8. ASSUME NEW d \in Delivery, DispatchRaises(d) PROVE OneDispatch'
  BY <1>8 DEF DispatchRaises
<1>9. ASSUME NEW d \in Delivery, RecordFailure(d) PROVE OneDispatch'
  BY <1>9 DEF RecordFailure
<1>10. ASSUME NEW d \in Delivery, HandlerDies(d) PROVE OneDispatch'
  BY <1>10 DEF HandlerDies
<1>11. CASE EditHook
  BY <1>11 DEF EditHook
<1> QED
  BY <1>1, <1>2, <1>3, <1>4, <1>5, <1>6, <1>7, <1>8, <1>9, <1>10, <1>11
  DEF IngressNext, Handle

(* A row loses its handler to a dispatch, a failure it records, or death.  *)
LEMMA RowsStayBacked == IngressInv /\ [IngressNext]_ingressVars => RowsBacked'
<1> SUFFICES ASSUME IngressInv, [IngressNext]_ingressVars PROVE RowsBacked'
  OBVIOUS
<1> USE KeyIsKey DEF IngressInv, IngressTypeOK, Answer, Goto, AtWork, OneAtWork, RowsBacked, Excused, AnswersHold
<1>1. CASE UNCHANGED ingressVars
  BY <1>1 DEF ingressVars
<1>2. ASSUME NEW d \in Delivery, LookupHook(d) PROVE RowsBacked'
  BY <1>2 DEF LookupHook
<1>3. ASSUME NEW d \in Delivery, CheckRequest(d) PROVE RowsBacked'
  BY <1>3 DEF CheckRequest
<1>4. ASSUME NEW d \in Delivery, CheckWorkflow(d) PROVE RowsBacked'
  BY <1>4 DEF CheckWorkflow
<1>5. ASSUME NEW d \in Delivery, InsertEvent(d) PROVE RowsBacked'
  BY <1>5 DEF InsertEvent
<1>6. ASSUME NEW d \in Delivery, InsertFails(d) PROVE RowsBacked'
  BY <1>6 DEF InsertFails
<1>7. ASSUME NEW d \in Delivery, Dispatch(d) PROVE RowsBacked'
  BY <1>7 DEF Dispatch
<1>8. ASSUME NEW d \in Delivery, DispatchRaises(d) PROVE RowsBacked'
  BY <1>8 DEF DispatchRaises
<1>9. ASSUME NEW d \in Delivery, RecordFailure(d) PROVE RowsBacked'
  BY <1>9 DEF RecordFailure
<1>10. ASSUME NEW d \in Delivery, HandlerDies(d) PROVE RowsBacked'
  BY <1>10 DEF HandlerDies
<1>11. CASE EditHook
  BY <1>11 DEF EditHook
<1> QED
  BY <1>1, <1>2, <1>3, <1>4, <1>5, <1>6, <1>7, <1>8, <1>9, <1>10, <1>11
  DEF IngressNext, Handle

(* What was answered stays true: rows and dispatches are never taken back. *)
LEMMA AnswersStay == IngressInv /\ [IngressNext]_ingressVars => AnswersHold'
<1> SUFFICES ASSUME IngressInv, [IngressNext]_ingressVars PROVE AnswersHold'
  OBVIOUS
<1> USE KeyIsKey DEF IngressInv, IngressTypeOK, Answer, Goto, AtWork, OneAtWork, OneDispatch, AnswersHold
<1>1. CASE UNCHANGED ingressVars
  BY <1>1 DEF ingressVars
<1>2. ASSUME NEW d \in Delivery, LookupHook(d) PROVE AnswersHold'
  BY <1>2 DEF LookupHook
<1>3. ASSUME NEW d \in Delivery, CheckRequest(d) PROVE AnswersHold'
  BY <1>3 DEF CheckRequest
<1>4. ASSUME NEW d \in Delivery, CheckWorkflow(d) PROVE AnswersHold'
  BY <1>4 DEF CheckWorkflow
<1>5. ASSUME NEW d \in Delivery, InsertEvent(d) PROVE AnswersHold'
  BY <1>5 DEF InsertEvent
<1>6. ASSUME NEW d \in Delivery, InsertFails(d) PROVE AnswersHold'
  BY <1>6 DEF InsertFails
<1>7. ASSUME NEW d \in Delivery, Dispatch(d) PROVE AnswersHold'
  BY <1>7 DEF Dispatch
<1>8. ASSUME NEW d \in Delivery, DispatchRaises(d) PROVE AnswersHold'
  BY <1>8 DEF DispatchRaises
<1>9. ASSUME NEW d \in Delivery, RecordFailure(d) PROVE AnswersHold'
  BY <1>9 DEF RecordFailure
<1>10. ASSUME NEW d \in Delivery, HandlerDies(d) PROVE AnswersHold'
  BY <1>10 DEF HandlerDies
<1>11. CASE EditHook
  BY <1>11 DEF EditHook
<1> QED
  BY <1>1, <1>2, <1>3, <1>4, <1>5, <1>6, <1>7, <1>8, <1>9, <1>10, <1>11
  DEF IngressNext, Handle

-----------------------------------------------------------------------------
LEMMA IngressInvariant == IngressSpec => []IngressInv
<1>1. IngressInit => IngressInv
  BY IngressAssumption
  DEF IngressInit, IngressInv, IngressTypeOK, OneDispatch, OneAtWork, RowsBacked, AnswersHold, AtWork
<1>2. IngressInv /\ [IngressNext]_ingressVars => IngressInv'
  BY IngressTypesKept, OneStaysAtWork, OneDispatchKept, RowsStayBacked, AnswersStay DEF IngressInv
<1> QED
  BY <1>1, <1>2, PTL DEF IngressSpec

(* However many deliveries of one event race, fail or die: at most one task *)
(* is enqueued for it, and a success the sender was told is one, or rests   *)
(* on another delivery that inserted the row and did not get to enqueue it. *)
THEOREM SenderServed == IngressSpec => []SendersServed
<1>1. IngressInv => SendersServed
  <2> SUFFICES ASSUME IngressInv PROVE SuccessIsBacked
    BY DEF IngressInv, SendersServed
  <2>1. SUFFICES ASSUME NEW d \in Delivery, reply[d] \in {"ACCEPTED", "DUPLICATE"},
                        dispatched[KeyOf(d)] # 1
                 PROVE  Excused(KeyOf(d)) /\ delivery[d] = "over"
    BY <2>1 DEF SuccessIsBacked, Excused, AtWork
  <2> QED
    BY <2>1, KeyIsKey DEF IngressInv, RowsBacked, AnswersHold
<1> QED
  BY <1>1, IngressInvariant, PTL

-----------------------------------------------------------------------------
(* What the register and the broadcasts hold, whoever else comes and goes.  *)
HasSocket(w) == socket[w] # "none" /\ way[w] = "socket"

Sending ==
    /\ \A s \in Socket : socket[s] = "none" => way[s] = "socket"
    /\ \A w \in connections : HasSocket(w)
    /\ \A w \in Socket : socket[w] = "open" /\ way[w] = "socket" => w \in connections
    /\ \A s \in Socket :
         /\ \A w \in sending[s].left : HasSocket(w)
         /\ \A w \in sending[s].dead : socket[w] \notin {"none", "open"}
         /\ sending[s].left # {} => sending[s].event # 0

Buffered(s, e) == \E n \in 1 .. Len(buffer[s]) : buffer[s][n] = e

(* What a listener was subscribed for is with the socket, or on its way.    *)
Reaches(s) ==
    \A e \in awaited[s] :
        \/ got[s][e] > 0
        \/ Buffered(s, e)
        \/ way[s] = "socket" /\ sending[s].event = e /\ s \in sending[s].left

(* An event stream gets what it has queued, each event of it once.          *)
SentOnce(s) ==
    /\ sending[s] = NotSending
    /\ \A n \in 1 .. Len(buffer[s]) : buffer[s][n] <= published /\ got[s][buffer[s][n]] = 0
    /\ \A m, n \in 1 .. Len(buffer[s]) : m # n => buffer[s][m] # buffer[s][n]
    /\ \A e \in Event : got[s][e] <= 1 /\ (e > published => got[s][e] = 0)

(* A socket nobody has come to has nothing.                                 *)
New(s) == /\ listener[s] = "none" /\ buffer[s] = <<>> /\ sending[s] = NotSending
          /\ awaited[s] = {} /\ \A e \in Event : got[s][e] = 0

(* The invariant of one socket: what has not begun or has ended holds       *)
(* nothing, what listens is reached by everything it awaits.                *)
SocketOK(s) ==
    /\ socket[s] = "none" => New(s)
    /\ listener[s] # "listening" => buffer[s] = <<>> /\ sending[s] = NotSending
    /\ listener[s] = "starting" => awaited[s] = {}
    /\ socket[s] = "open" /\ listener[s] = "listening" => Reaches(s)
    /\ way[s] = "events" => SentOnce(s)

StreamInv == StreamTypeOK /\ Sending /\ \A s \in Socket : SocketOK(s)

-----------------------------------------------------------------------------
Broadcasts == [event : 0 .. NumEvents, left : SUBSET Socket, dead : SUBSET Socket]

(* What a send writes of its broadcast.                                      *)
LEMMA SentOne ==
    ASSUME NEW b \in Broadcasts, NEW l, NEW d
    PROVE  [b EXCEPT !.left = l, !.dead = d] = [event |-> b.event, left |-> l, dead |-> d]
<1>1. PICK m : m = [event |-> b.event, left |-> l, dead |-> b.dead]
  OBVIOUS
<1>2. m = [b EXCEPT !.left = l]
  BY <1>1 DEF Broadcasts
<1>3. [m EXCEPT !.dead = d] = [event |-> b.event, left |-> l, dead |-> d]
  BY <1>1
<1>4. [b EXCEPT !.left = l, !.dead = d] = [[b EXCEPT !.left = l] EXCEPT !.dead = d]
  OBVIOUS
<1> QED
  BY <1>2, <1>3, <1>4

(* One event more for a socket: what it had it still has.                   *)
LEMMA OneMoreCopy ==
    ASSUME StreamTypeOK, NEW w \in Socket, NEW e \in Event,
           got' = [got EXCEPT ![w][e] = @ + 1]
    PROVE  /\ got' \in [Socket -> [Event -> Nat]]
           /\ \A v \in Socket : v # w => got'[v] = got[v]
           /\ \A f \in Event : f # e => got'[w][f] = got[w][f]
           /\ got'[w][e] = got[w][e] + 1
<1>1. got[w] \in [Event -> Nat] /\ got[w][e] \in Nat
  BY DEF StreamTypeOK
<1>2. PICK new : new = [got[w] EXCEPT ![e] = got[w][e] + 1]
  OBVIOUS
<1>3. new \in [Event -> Nat] /\ new[e] = got[w][e] + 1 /\ \A f \in Event : f # e => new[f] = got[w][f]
  BY <1>1, <1>2
<1>4. got' = [got EXCEPT ![w] = new]
  BY <1>2
<1> QED
  BY <1>3, <1>4 DEF StreamTypeOK

(* A send takes one socket off the broadcast, and reaches it if it is open. *)
LEMMA OneSent ==
    ASSUME StreamTypeOK, Sending, NEW s \in Socket, NEW w \in Socket, SendTo(s, w)
    PROVE  /\ \E noticed \in SUBSET {w} :
                /\ socket[w] = "open" => noticed = {}
                /\ sending' = [sending EXCEPT ![s] = [event |-> sending[s].event,
                                                      left  |-> sending[s].left \ {w},
                                                      dead  |-> sending[s].dead \cup noticed]]
           /\ got' \in [Socket -> [Event -> Nat]]
           /\ \A v \in Socket : v # w => got'[v] = got[v]
           /\ \A e \in Event : got'[w][e] >= got[w][e]
           /\ socket[w] = "open" => got'[w][sending[s].event] > 0
<1> USE StreamAssumption
<1>1. sending[s].event \in Event /\ w \in sending[s].left /\ sending[s] \in Broadcasts
  BY DEF StreamTypeOK, SendTo, Sending, Event, Broadcasts
<1>2. \A e \in Event : got[w][e] \in Nat
  BY DEF StreamTypeOK
<1>3. CASE socket[w] = "open"
  <2>1. got' = [got EXCEPT ![w][sending[s].event] = @ + 1]
    BY <1>3 DEF SendTo, Deliver
  <2>2. sending' = [sending EXCEPT ![s].left = @ \ {w}]
    BY <1>3 DEF SendTo
  <2>a. sending' = [sending EXCEPT ![s] = [sending[s] EXCEPT !.left = sending[s].left \ {w}]]
    BY <2>2
  <2>b. [sending[s] EXCEPT !.left = sending[s].left \ {w}] =
          [event |-> sending[s].event, left |-> sending[s].left \ {w},
           dead |-> sending[s].dead \cup {}]
    BY <1>1 DEF Broadcasts
  <2>3. sending' = [sending EXCEPT ![s] = [event |-> sending[s].event,
                                           left  |-> sending[s].left \ {w},
                                           dead  |-> sending[s].dead \cup {}]]
    BY <2>a, <2>b
  <2>4. /\ got' \in [Socket -> [Event -> Nat]]
        /\ \A v \in Socket : v # w => got'[v] = got[v]
        /\ \A f \in Event : f # sending[s].event => got'[w][f] = got[w][f]
        /\ got'[w][sending[s].event] = got[w][sending[s].event] + 1
    BY <2>1, <1>1, OneMoreCopy
  <2>5. \A e \in Event : got'[w][e] >= got[w][e]
    <3> TAKE e \in Event
    <3>1. CASE e = sending[s].event
      BY <3>1, <2>4, <1>2
    <3>2. CASE e # sending[s].event
      BY <3>2, <2>4, <1>2
    <3> QED
      BY <3>1, <3>2
  <2>6. got'[w][sending[s].event] > 0
    BY <2>4, <1>1, <1>2
  <2> QED
    BY <2>3, <2>4, <2>5, <2>6
<1>4. CASE socket[w] # "open"
  <2>1. got' = got
    BY <1>4 DEF SendTo
  <2>2. PICK noticed \in SUBSET {w} :
          sending' = [sending EXCEPT ![s].left = @ \ {w}, ![s].dead = @ \cup noticed]
    BY <1>4 DEF SendTo
  <2>a. sending' = [sending EXCEPT ![s] = [sending[s] EXCEPT
                      !.left = sending[s].left \ {w}, !.dead = sending[s].dead \cup noticed]]
    BY <2>2, <1>1 DEF StreamTypeOK
  <2>b. [sending[s] EXCEPT !.left = sending[s].left \ {w}, !.dead = sending[s].dead \cup noticed] =
          [event |-> sending[s].event, left |-> sending[s].left \ {w},
           dead |-> sending[s].dead \cup noticed]
    BY <1>1, SentOne
  <2>3. sending' = [sending EXCEPT ![s] = [event |-> sending[s].event,
                                           left  |-> sending[s].left \ {w},
                                           dead  |-> sending[s].dead \cup noticed]]
    BY <2>a, <2>b
  <2>4. got' \in [Socket -> [Event -> Nat]] /\ \A e \in Event : got'[w][e] >= got[w][e]
    BY <2>1, <1>2 DEF StreamTypeOK
  <2> QED
    BY <1>4, <2>1, <2>3, <2>4
<1> QED
  BY <1>3, <1>4

(* The types hold after every step.                                         *)
LEMMA StreamTypeKept == StreamTypeOK /\ Sending /\ [StreamNext]_streamVars => StreamTypeOK'
<1> SUFFICES ASSUME StreamTypeOK, Sending, [StreamNext]_streamVars PROVE StreamTypeOK'
  OBVIOUS
<1> USE StreamAssumption
<1>0. NotSending \in Broadcasts /\ <<>> \in Seq(Event) /\ 0 \in 0 .. NumEvents
  BY DEF NotSending, Broadcasts
<1>1. ASSUME NEW s \in Socket, TurnAway(s) PROVE StreamTypeOK'
  BY <1>1 DEF StreamTypeOK, TurnAway
<1>2. ASSUME NEW s \in Socket, Connect(s) PROVE StreamTypeOK'
  BY <1>2 DEF StreamTypeOK, Connect
<1>3. ASSUME NEW s \in Socket, OpenEvents(s) PROVE StreamTypeOK'
  BY <1>3 DEF StreamTypeOK, OpenEvents
<1>4. ASSUME NEW s \in Socket, Subscribe(s) PROVE StreamTypeOK'
  BY <1>4 DEF StreamTypeOK, Subscribe
<1>5. ASSUME NEW s \in Socket, PeerLeaves(s) PROVE StreamTypeOK'
  BY <1>5 DEF StreamTypeOK, PeerLeaves
<1>6. ASSUME NEW s \in Socket, ListenerFails(s) PROVE StreamTypeOK'
  <2>1. errors' \in 0 .. MaxListenerErrors
    BY <1>6 DEF StreamTypeOK, ListenerFails
  <2>2. socket' \in [Socket -> {"none", "open", "gone", "closed", "refused"}]
    BY <1>6 DEF StreamTypeOK, ListenerFails
  <2>3. listener' \in [Socket -> {"none", "starting", "listening", "ended", "cancelled"}]
    BY <1>6 DEF StreamTypeOK, ListenerFails
  <2>4. buffer' \in [Socket -> Seq(Event)]
    BY <1>6, <1>0 DEF StreamTypeOK, ListenerFails
  <2>5. sending' \in [Socket -> Broadcasts]
    BY <1>6, <1>0 DEF StreamTypeOK, ListenerFails, Broadcasts
  <2> QED
    BY <1>6, <2>1, <2>2, <2>3, <2>4, <2>5 DEF StreamTypeOK, ListenerFails, Broadcasts
<1>7. ASSUME NEW s \in Socket, CancelListener(s) PROVE StreamTypeOK'
  <2>1. listener' \in [Socket -> {"none", "starting", "listening", "ended", "cancelled"}]
    BY <1>7 DEF StreamTypeOK, CancelListener
  <2>2. buffer' \in [Socket -> Seq(Event)]
    BY <1>7, <1>0 DEF StreamTypeOK, CancelListener
  <2>3. sending' \in [Socket -> Broadcasts]
    BY <1>7, <1>0 DEF StreamTypeOK, CancelListener, Broadcasts
  <2> QED
    BY <1>7, <2>1, <2>2, <2>3 DEF StreamTypeOK, CancelListener, Broadcasts
<1>8. ASSUME NEW s \in Socket, Disconnect(s) PROVE StreamTypeOK'
  BY <1>8 DEF StreamTypeOK, Disconnect
<1>9. CASE PublishFails
  BY <1>9 DEF StreamTypeOK, PublishFails
<1>10. CASE Publish
  <2>1. published' = published + 1 /\ published' \in Event /\ published' \in 0 .. NumEvents
    BY <1>10 DEF StreamTypeOK, Publish, Event
  <2>2. PICK p : p = published'
    OBVIOUS
  <2>3. \A s \in Socket : Append(buffer[s], p) \in Seq(Event) /\ buffer[s] \in Seq(Event)
    BY <2>1, <2>2 DEF StreamTypeOK
  <2>4. buffer' = [s \in Socket |-> IF s \in Listening THEN Append(buffer[s], p) ELSE buffer[s]]
    BY <1>10, <2>2 DEF Publish
  <2>5. buffer' \in [Socket -> Seq(Event)]
    BY <2>3, <2>4
  <2>6. awaited' \in [Socket -> SUBSET Event]
    BY <1>10, <2>1 DEF Publish, StreamTypeOK
  <2> QED
    BY <1>10, <2>1, <2>5, <2>6 DEF StreamTypeOK, Publish
<1>11. ASSUME NEW s \in Socket, StartBroadcast(s) PROVE StreamTypeOK'
  <2>1. buffer[s] \in Seq(Event) /\ buffer[s] # <<>>
    BY <1>11 DEF StreamTypeOK, StartBroadcast
  <2>2. Head(buffer[s]) \in Event /\ Tail(buffer[s]) \in Seq(Event)
    BY <2>1
  <2>3. [event |-> Head(buffer[s]), left |-> connections, dead |-> {}] \in Broadcasts
    BY <2>2 DEF StreamTypeOK, Event, Broadcasts
  <2>4. sending' \in [Socket -> Broadcasts]
    BY <1>11, <2>3 DEF StreamTypeOK, StartBroadcast, Broadcasts
  <2>5. buffer' \in [Socket -> Seq(Event)]
    BY <1>11, <2>2 DEF StreamTypeOK, StartBroadcast
  <2> QED
    BY <1>11, <2>4, <2>5 DEF StreamTypeOK, StartBroadcast, Broadcasts
<1>12. ASSUME NEW s \in Socket, NEW w \in Socket, SendTo(s, w) PROVE StreamTypeOK'
  <2>1. got' \in [Socket -> [Event -> Nat]]
    BY <1>12, OneSent
  <2>2. PICK noticed \in SUBSET {w} :
          sending' = [sending EXCEPT ![s] = [event |-> sending[s].event,
                                             left  |-> sending[s].left \ {w},
                                             dead  |-> sending[s].dead \cup noticed]]
    BY <1>12, OneSent
  <2>3. sending' \in [Socket -> Broadcasts]
    <3>1. sending[s].event \in 0 .. NumEvents /\ sending[s].left \subseteq Socket
          /\ sending[s].dead \subseteq Socket
      BY DEF StreamTypeOK
    <3>2. [event |-> sending[s].event, left |-> sending[s].left \ {w},
           dead |-> sending[s].dead \cup noticed] \in Broadcasts
      BY <3>1 DEF Broadcasts
    <3> QED
      BY <2>2, <3>2 DEF StreamTypeOK, Broadcasts
  <2> QED
    BY <1>12, <2>1, <2>3 DEF StreamTypeOK, SendTo, Broadcasts
<1>13. ASSUME NEW s \in Socket, EndBroadcast(s) PROVE StreamTypeOK'
  <2>1. sending' \in [Socket -> Broadcasts]
    BY <1>13, <1>0 DEF StreamTypeOK, EndBroadcast, Broadcasts
  <2> QED
    BY <1>13, <2>1 DEF StreamTypeOK, EndBroadcast, Broadcasts
<1>14. ASSUME NEW s \in Socket, Yield(s) PROVE StreamTypeOK'
  <2>1. buffer[s] \in Seq(Event) /\ buffer[s] # <<>>
    BY <1>14 DEF StreamTypeOK, Yield
  <2>2. Head(buffer[s]) \in Event /\ Tail(buffer[s]) \in Seq(Event)
    BY <2>1
  <2>3. buffer' \in [Socket -> Seq(Event)]
    BY <1>14, <2>2 DEF StreamTypeOK, Yield
  <2>4. got' \in [Socket -> [Event -> Nat]]
    <3>1. CASE socket[s] = "open"
      <4>1. got' = [got EXCEPT ![s][Head(buffer[s])] = @ + 1]
        BY <1>14, <3>1 DEF Yield
      <4> QED
        BY <4>1, <2>2, OneMoreCopy
    <3>2. CASE socket[s] # "open"
      BY <1>14, <3>2 DEF Yield, StreamTypeOK
    <3> QED
      BY <3>1, <3>2
  <2> QED
    BY <1>14, <2>3, <2>4 DEF StreamTypeOK, Yield
<1>15. CASE UNCHANGED streamVars
  BY <1>15 DEF StreamTypeOK, streamVars
<1> QED
  BY <1>1, <1>2, <1>3, <1>4, <1>5, <1>6, <1>7, <1>8, <1>9, <1>10, <1>11, <1>12, <1>13, <1>14,
     <1>15 DEF StreamNext, Listen

-----------------------------------------------------------------------------
(* The register and the broadcasts, step by step.                           *)
LEMMA SendingKept ==
    StreamTypeOK /\ Sending /\ [StreamNext]_streamVars => Sending'
<1> SUFFICES ASSUME StreamTypeOK, Sending, [StreamNext]_streamVars PROVE Sending'
  OBVIOUS
<1> USE StreamAssumption
<1>1. ASSUME NEW s \in Socket, TurnAway(s) PROVE Sending'
  BY <1>1 DEF StreamTypeOK, Sending, HasSocket, TurnAway
<1>2. ASSUME NEW s \in Socket, Connect(s) PROVE Sending'
  BY <1>2 DEF StreamTypeOK, Sending, HasSocket, Connect
<1>3. ASSUME NEW s \in Socket, OpenEvents(s) PROVE Sending'
  BY <1>3 DEF StreamTypeOK, Sending, HasSocket, OpenEvents
<1>4. ASSUME NEW s \in Socket, Subscribe(s) PROVE Sending'
  BY <1>4 DEF StreamTypeOK, Sending, HasSocket, Subscribe
<1>5. ASSUME NEW s \in Socket, PeerLeaves(s) PROVE Sending'
  BY <1>5 DEF StreamTypeOK, Sending, HasSocket, PeerLeaves
<1>6. ASSUME NEW s \in Socket, ListenerFails(s) PROVE Sending'
  BY <1>6 DEF StreamTypeOK, Sending, HasSocket, ListenerFails, NotSending
<1>7. ASSUME NEW s \in Socket, CancelListener(s) PROVE Sending'
  BY <1>7 DEF StreamTypeOK, Sending, HasSocket, CancelListener, NotSending
<1>8. ASSUME NEW s \in Socket, Disconnect(s) PROVE Sending'
  BY <1>8 DEF StreamTypeOK, Sending, HasSocket, Disconnect
<1>9. CASE PublishFails \/ Publish
  BY <1>9 DEF StreamTypeOK, Sending, HasSocket, PublishFails, Publish
<1>10. ASSUME NEW s \in Socket, StartBroadcast(s) PROVE Sending'
  <2>1. buffer[s] \in Seq(Event) /\ buffer[s] # <<>>
    BY <1>10 DEF StreamTypeOK, StartBroadcast
  <2>2. Head(buffer[s]) \in Event /\ Head(buffer[s]) # 0
    BY <2>1 DEF Event
  <2> QED
    BY <1>10, <2>2 DEF StreamTypeOK, Sending, HasSocket, StartBroadcast
<1>11. ASSUME NEW s \in Socket, NEW w \in Socket, SendTo(s, w) PROVE Sending'
  <2>1. PICK noticed \in SUBSET {w} :
          /\ socket[w] = "open" => noticed = {}
          /\ sending' = [sending EXCEPT ![s] = [event |-> sending[s].event,
                                                left  |-> sending[s].left \ {w},
                                                dead  |-> sending[s].dead \cup noticed]]
    BY <1>11, OneSent
  <2>2. socket' = socket /\ way' = way /\ connections' = connections /\ w \in sending[s].left
    BY <1>11 DEF SendTo
  <2> QED
    BY <2>1, <2>2 DEF StreamTypeOK, Sending, HasSocket
<1>12. ASSUME NEW s \in Socket, EndBroadcast(s) PROVE Sending'
  BY <1>12 DEF StreamTypeOK, Sending, HasSocket, EndBroadcast, NotSending
<1>13. ASSUME NEW s \in Socket, Yield(s) PROVE Sending'
  BY <1>13 DEF StreamTypeOK, Sending, HasSocket, Yield
<1>14. CASE UNCHANGED streamVars
  BY <1>14 DEF Sending, HasSocket, streamVars
<1> QED
  BY <1>1, <1>2, <1>3, <1>4, <1>5, <1>6, <1>7, <1>8, <1>9, <1>10, <1>11, <1>12, <1>13, <1>14
  DEF StreamNext, Listen

-----------------------------------------------------------------------------
(* A queue after an event has been put at its end, or taken from its head.  *)
LEMMA Queued ==
    ASSUME NEW q \in Seq(Event), NEW e \in Event
    PROVE  /\ Len(Append(q, e)) = Len(q) + 1 /\ Append(q, e)[Len(q) + 1] = e
           /\ \A n \in 1 .. Len(q) : Append(q, e)[n] = q[n]
OBVIOUS

LEMMA Taken ==
    ASSUME NEW q \in Seq(Event), q # <<>>
    PROVE  /\ Len(q) \in Nat /\ Len(q) >= 1 /\ Len(Tail(q)) = Len(q) - 1 /\ Head(q) = q[1]
           /\ Head(q) \in Event /\ Tail(q) \in Seq(Event)
           /\ \A n \in 1 .. Len(q) - 1 : Tail(q)[n] = q[n + 1]
OBVIOUS

(* What no step touches stays in order.                                     *)
Apart(s) == /\ socket'[s] = socket[s] /\ way'[s] = way[s] /\ listener'[s] = listener[s]
            /\ buffer'[s] = buffer[s] /\ sending'[s] = sending[s] /\ awaited'[s] = awaited[s]
            /\ got'[s] = got[s]

LEMMA ApartKept ==
    ASSUME StreamTypeOK, NEW s \in Socket, SocketOK(s), Apart(s),
           published' \in Nat, published' >= published
    PROVE  SocketOK(s)'
<1> USE StreamAssumption
<1>1. published \in Nat /\ buffer[s] \in Seq(Event) /\ \A n \in 1 .. Len(buffer[s]) : buffer[s][n] \in Nat
  BY DEF StreamTypeOK, Event
<1>2. \A e \in Event : e \in Nat
  BY DEF Event
<1>3. ASSUME SentOnce(s) PROVE SentOnce(s)'
  <2>1. \A n \in 1 .. Len(buffer[s]) : buffer[s][n] <= published'
    BY <1>1, <1>3 DEF SentOnce
  <2>2. \A e \in Event : e > published' => got[s][e] = 0
    BY <1>1, <1>2, <1>3 DEF SentOnce
  <2> QED
    BY <1>3, <2>1, <2>2 DEF SentOnce, Apart
<1>4. Reaches(s) => Reaches(s)'
  BY DEF Reaches, Buffered, Apart
<1>5. New(s) => New(s)'
  BY DEF New, Apart
<1> QED
  BY <1>3, <1>4, <1>5 DEF SocketOK, Apart

(* A listener that ends, however it ends, leaves nothing behind.            *)
LEMMA EndedKept ==
    ASSUME StreamTypeOK, NEW s \in Socket, SocketOK(s),
           listener[s] # "none" \/ socket[s] # "none",
           listener'[s] \notin {"none", "starting", "listening"},
           socket'[s] \in {socket[s], "closed"}, socket[s] # "none", way'[s] = way[s],
           buffer'[s] = <<>>, sending'[s] = NotSending, got'[s] = got[s], published' = published
    PROVE  SocketOK(s)'
<1>1. way[s] = "events" => SentOnce(s)'
  BY DEF SocketOK, SentOnce
<1> QED
  BY <1>1 DEF SocketOK

(* An event that is published waits at the end of the queue of every        *)
(* listener of the moment.                                                  *)
LEMMA PublishKept ==
    ASSUME StreamTypeOK, Publish, NEW s \in Socket, SocketOK(s)
    PROVE  SocketOK(s)'
<1> USE StreamAssumption
<1>1. PICK p : p = published + 1
  OBVIOUS
<1>2. p \in Event /\ published \in Nat /\ p \in Nat /\ p > published /\ published' = p
  BY <1>1 DEF StreamTypeOK, Publish, Event
<1>3. CASE s \notin Listening
  <2>1. Apart(s)
    BY <1>3 DEF Publish, Apart
  <2> QED
    BY <2>1, <1>2, ApartKept
<1>4. CASE s \in Listening
  <2>1. buffer[s] \in Seq(Event) /\ buffer'[s] = Append(buffer[s], p)
    BY <1>4, <1>2 DEF StreamTypeOK, Publish
  <2>2. /\ awaited'[s] = awaited[s] \cup {p} /\ listener'[s] = "listening" /\ got'[s] = got[s]
        /\ sending'[s] = sending[s] /\ way'[s] = way[s] /\ socket'[s] = socket[s]
        /\ listener[s] = "listening"
    BY <1>4, <1>2 DEF StreamTypeOK, Publish, Listening
  <2>3. PICK q \in Seq(Event) : q = buffer[s]
    BY <2>1
  <2>4. PICK r : r = Append(q, p)
    OBVIOUS
  <2>5. Len(r) = Len(q) + 1 /\ r[Len(q) + 1] = p /\ Len(q) \in Nat
        /\ \A n \in 1 .. Len(q) : r[n] = q[n]
    BY <2>4, <1>2, Queued
  <2>6. buffer'[s] = r
    BY <2>1, <2>3, <2>4
  <2>7. Reaches(s) => Reaches(s)'
    <3> SUFFICES ASSUME Reaches(s), NEW e \in awaited'[s]
                 PROVE  \/ got'[s][e] > 0
                        \/ Buffered(s, e)'
                        \/ way'[s] = "socket" /\ sending'[s].event = e /\ s \in sending'[s].left
      BY DEF Reaches
    <3>1. CASE e = p
      <4>1. Len(q) + 1 \in 1 .. Len(r) /\ r[Len(q) + 1] = e
        BY <3>1, <2>5
      <4> QED
        BY <4>1, <2>6 DEF Buffered
    <3>2. CASE e \in awaited[s]
      <4>1. Buffered(s, e) => Buffered(s, e)'
        <5> SUFFICES ASSUME NEW n \in 1 .. Len(q), q[n] = e PROVE \E m \in 1 .. Len(r) : r[m] = e
          BY <2>3, <2>6 DEF Buffered
        <5> QED
          BY <2>5
      <4> QED
        BY <3>2, <4>1, <2>2 DEF Reaches
    <3> QED
      BY <3>1, <3>2, <2>2
  <2>8. SentOnce(s) => SentOnce(s)'
    <3> SUFFICES ASSUME SentOnce(s) PROVE SentOnce(s)'
      OBVIOUS
    <3>1. /\ sending[s] = NotSending
          /\ \A n \in 1 .. Len(q) : q[n] <= published /\ got[s][q[n]] = 0 /\ q[n] \in Event /\ q[n] \in Nat
          /\ \A m, n \in 1 .. Len(q) : m # n => q[m] # q[n]
          /\ \A e \in Event : e \in Nat /\ got[s][e] <= 1 /\ (e > published => got[s][e] = 0)
      BY <2>3 DEF SentOnce, Event
    <3>2. \A n \in 1 .. Len(r) : r[n] <= p /\ got[s][r[n]] = 0
      <4> TAKE n \in 1 .. Len(r)
      <4>1. CASE n \in 1 .. Len(q)
        BY <4>1, <3>1, <2>5, <1>2
      <4>2. CASE n = Len(q) + 1
        BY <4>2, <3>1, <2>5, <1>2
      <4> QED
        BY <4>1, <4>2, <2>5
    <3>3. \A m, n \in 1 .. Len(r) : m # n => r[m] # r[n]
      <4> SUFFICES ASSUME NEW m \in 1 .. Len(r), NEW n \in 1 .. Len(r), m # n PROVE r[m] # r[n]
        OBVIOUS
      <4>1. CASE m \in 1 .. Len(q) /\ n \in 1 .. Len(q)
        BY <4>1, <3>1, <2>5
      <4>2. CASE m = Len(q) + 1 /\ n \in 1 .. Len(q)
        <5>1. r[m] = p /\ r[n] = q[n]
          BY <4>2, <2>5
        <5> QED
          BY <5>1, <4>2, <3>1, <1>2
      <4>3. CASE n = Len(q) + 1 /\ m \in 1 .. Len(q)
        <5>1. r[n] = p /\ r[m] = q[m]
          BY <4>3, <2>5
        <5> QED
          BY <5>1, <4>3, <3>1, <1>2
      <4> QED
        BY <4>1, <4>2, <4>3, <2>5
    <3>4. \A e \in Event : got[s][e] <= 1 /\ (e > p => got[s][e] = 0)
      BY <3>1, <1>2
    <3> QED
      BY <3>1, <3>2, <3>3, <3>4, <2>2, <2>6, <1>2 DEF SentOnce
  <2> QED
    BY <2>2, <2>7, <2>8 DEF SocketOK, New
<1> QED
  BY <1>3, <1>4

(* Whoever comes, is let in or turned away, subscribes or leaves.           *)
LEMMA ComesKept ==
    ASSUME StreamTypeOK, Sending, NEW s \in Socket, SocketOK(s),
           TurnAway(s) \/ Connect(s) \/ OpenEvents(s)
    PROVE  SocketOK(s)'
<1>1. New(s) /\ socket[s] = "none" /\ way[s] = "socket"
  BY DEF SocketOK, Sending, TurnAway, Connect, OpenEvents
<1>2. CASE TurnAway(s)
  BY <1>1, <1>2 DEF StreamTypeOK, TurnAway, SocketOK, New
<1>3. CASE Connect(s)
  BY <1>1, <1>3 DEF StreamTypeOK, Connect, SocketOK, New
<1>4. CASE OpenEvents(s)
  <2>1. /\ buffer'[s] = <<>> /\ sending'[s] = NotSending /\ awaited'[s] = {}
        /\ \A e \in Event : got'[s][e] = 0
    BY <1>1, <1>4 DEF OpenEvents, New
  <2>2. Len(buffer'[s]) = 0
    BY <2>1
  <2>3. SentOnce(s)'
    BY <2>1, <2>2 DEF SentOnce, NotSending
  <2> QED
    BY <1>4, <2>1, <2>3 DEF StreamTypeOK, OpenEvents, SocketOK
<1> QED
  BY <1>2, <1>3, <1>4

LEMMA SubscribeKept ==
    ASSUME StreamTypeOK, NEW s \in Socket, SocketOK(s), Subscribe(s)
    PROVE  SocketOK(s)'
<1>1. awaited'[s] = {} /\ Reaches(s)'
  BY DEF Subscribe, SocketOK, Reaches
<1>2. SentOnce(s) => SentOnce(s)'
  BY DEF SentOnce, Subscribe
<1> QED
  BY <1>1, <1>2 DEF StreamTypeOK, Subscribe, SocketOK, New

LEMMA LeavesKept ==
    ASSUME StreamTypeOK, NEW s \in Socket, SocketOK(s), PeerLeaves(s) \/ Disconnect(s)
    PROVE  SocketOK(s)'
<1>1. SentOnce(s) => SentOnce(s)'
  BY DEF SentOnce, PeerLeaves, Disconnect
<1>2. socket'[s] \in {"gone", "closed"} /\ way' = way /\ listener' = listener /\ buffer' = buffer
      /\ sending' = sending /\ awaited' = awaited
  BY DEF StreamTypeOK, PeerLeaves, Disconnect
<1> QED
  BY <1>1, <1>2 DEF SocketOK

(* A broadcast takes the event from the head of the queue to all that are   *)
(* registered, its own socket among them.                                   *)
LEMMA StartKept ==
    ASSUME StreamTypeOK, Sending, NEW s \in Socket, SocketOK(s), StartBroadcast(s)
    PROVE  SocketOK(s)'
<1>1. PICK q \in Seq(Event) : q = buffer[s]
  BY DEF StreamTypeOK
<1>2. PICK r : r = Tail(q)
  OBVIOUS
<1>3. q # <<>> /\ Len(q) \in Nat /\ Len(q) >= 1 /\ Len(r) = Len(q) - 1 /\ Head(q) = q[1]
      /\ \A n \in 1 .. Len(q) - 1 : r[n] = q[n + 1]
  BY <1>1, <1>2, Taken DEF StartBroadcast
<1>4. /\ sending'[s].event = q[1] /\ sending'[s].left = connections /\ buffer'[s] = r
      /\ way[s] = "socket" /\ way' = way /\ listener[s] = "listening" /\ listener' = listener
      /\ socket' = socket /\ awaited' = awaited /\ got' = got /\ sending[s] = NotSending
  BY <1>1, <1>2, <1>3 DEF StreamTypeOK, StartBroadcast, Listening
<1>5. ASSUME socket[s] = "open" PROVE Reaches(s)'
  <2>1. Reaches(s) /\ s \in connections
    BY <1>5, <1>4 DEF SocketOK, Sending
  <2>2. SUFFICES ASSUME NEW e \in awaited[s]
                 PROVE  \/ got[s][e] > 0
                        \/ \E n \in 1 .. Len(r) : r[n] = e
                        \/ e = q[1]
    BY <2>1, <1>4 DEF Reaches, Buffered
  <2>3. CASE Buffered(s, e)
    <3>1. PICK n \in 1 .. Len(q) : q[n] = e
      BY <2>3, <1>1 DEF Buffered
    <3>2. CASE n = 1
      BY <3>1, <3>2
    <3>3. CASE n # 1
      <4>1. n - 1 \in 1 .. Len(r) /\ r[n - 1] = q[(n - 1) + 1] /\ (n - 1) + 1 = n
        BY <3>1, <3>3, <1>3
      <4> QED
        BY <4>1, <3>1
    <3> QED
      BY <3>2, <3>3
  <2> QED
    BY <2>1, <2>3, <1>4 DEF Reaches, NotSending
<1> QED
  BY <1>4, <1>5 DEF SocketOK, New

(* A send does not take the event from anybody but the socket it is sent    *)
(* to.                                                                      *)
LEMMA SendKept ==
    ASSUME StreamTypeOK, Sending, NEW s \in Socket, NEW w \in Socket, SendTo(s, w),
           NEW v \in Socket, SocketOK(v)
    PROVE  SocketOK(v)'
<1> USE StreamAssumption
<1>1. PICK noticed \in SUBSET {w} :
          /\ socket[w] = "open" => noticed = {}
          /\ sending' = [sending EXCEPT ![s] = [event |-> sending[s].event,
                                                left  |-> sending[s].left \ {w},
                                                dead  |-> sending[s].dead \cup noticed]]
  BY OneSent
<1>2. /\ got' \in [Socket -> [Event -> Nat]]
      /\ \A u \in Socket : u # w => got'[u] = got[u]
      /\ \A e \in Event : got'[w][e] >= got[w][e]
      /\ socket[w] = "open" => got'[w][sending[s].event] > 0
  BY OneSent
<1>3. /\ socket' = socket /\ way' = way /\ listener' = listener /\ buffer' = buffer
      /\ awaited' = awaited /\ published' = published
      /\ w \in sending[s].left /\ listener[s] = "listening" /\ way[w] = "socket" /\ socket[w] # "none"
  BY DEF SendTo, Listening, Sending, HasSocket
<1>4. \A e \in awaited[v] : e \in Event /\ got[v][e] \in Nat /\ got'[v][e] \in Nat
                            /\ got'[v][e] >= got[v][e]
  <2>1. \A e \in awaited[v] : e \in Event /\ got[v][e] \in Nat /\ got'[v][e] \in Nat
    BY <1>2 DEF StreamTypeOK
  <2> QED
    BY <2>1, <1>2
<1>5. CASE v = s
  <2>1. way[s] # "events" /\ socket[s] # "none"
    <3>1. sending[s] # NotSending
      BY <1>3 DEF NotSending
    <3> QED
      BY <3>1, <1>3, <1>5 DEF SocketOK, SentOnce, New
  <2>2. Reaches(s) /\ socket[s] = "open" => Reaches(s)'
    <3> SUFFICES ASSUME Reaches(s), socket[s] = "open", NEW e \in awaited[s]
                 PROVE  \/ got'[s][e] > 0
                        \/ Buffered(s, e)
                        \/ way[s] = "socket" /\ sending'[s].event = e /\ s \in sending'[s].left
      BY <1>3 DEF Reaches, Buffered
    <3>1. CASE got[s][e] > 0
      BY <3>1, <1>4, <1>5
    <3>2. CASE way[s] = "socket" /\ sending[s].event = e /\ s \in sending[s].left
      <4>1. CASE s = w
        BY <4>1, <3>2, <1>2
      <4>2. CASE s # w
        BY <4>2, <3>2, <1>1 DEF StreamTypeOK
      <4> QED
        BY <4>1, <4>2
    <3> QED
      BY <3>1, <3>2 DEF Reaches
  <2> QED
    BY <1>3, <1>5, <2>1, <2>2 DEF SocketOK, New
<1>6. CASE v # s
  <2>1. sending'[v] = sending[v]
    BY <1>6, <1>1 DEF StreamTypeOK
  <2>2. Reaches(v) => Reaches(v)'
    <3> SUFFICES ASSUME Reaches(v), NEW e \in awaited[v]
                 PROVE  \/ got'[v][e] > 0
                        \/ Buffered(v, e)
                        \/ way[v] = "socket" /\ sending[v].event = e /\ v \in sending[v].left
      BY <1>3, <2>1 DEF Reaches, Buffered
    <3> QED
      BY <1>4 DEF Reaches
  <2>3. way[v] = "events" /\ SentOnce(v) => SentOnce(v)'
    BY <1>2, <1>3, <2>1 DEF SentOnce
  <2>4. socket[v] = "none" /\ New(v) => New(v)'
    BY <1>2, <1>3, <2>1 DEF New
  <2> QED
    BY <1>3, <2>1, <2>2, <2>3, <2>4 DEF SocketOK
<1> QED
  BY <1>5, <1>6

(* A broadcast ends when nobody is left on it.                              *)
LEMMA EndKept ==
    ASSUME StreamTypeOK, Sending, NEW s \in Socket, SocketOK(s), EndBroadcast(s)
    PROVE  SocketOK(s)'
<1>1. /\ sending'[s] = NotSending /\ sending[s].left = {} /\ listener[s] = "listening"
      /\ socket' = socket /\ way' = way /\ listener' = listener /\ buffer' = buffer
      /\ awaited' = awaited /\ published' = published /\ got' = got
  BY DEF StreamTypeOK, EndBroadcast, Listening
<1>2. Reaches(s) => Reaches(s)'
  BY <1>1 DEF Reaches, Buffered
<1>3. SentOnce(s) => SentOnce(s)'
  BY <1>1 DEF SentOnce, NotSending
<1> QED
  BY <1>1, <1>2, <1>3 DEF SocketOK, New

(* An event stream gets the head of its queue, which it did not have.       *)
LEMMA YieldKept ==
    ASSUME StreamTypeOK, NEW s \in Socket, SocketOK(s), Yield(s)
    PROVE  SocketOK(s)'
<1> USE StreamAssumption
<1>1. PICK q \in Seq(Event) : q = buffer[s]
  BY DEF StreamTypeOK
<1>2. PICK r : r = Tail(q)
  OBVIOUS
<1>3. q # <<>> /\ Len(q) \in Nat /\ Len(q) >= 1 /\ Len(r) = Len(q) - 1 /\ Head(q) = q[1]
      /\ q[1] \in Event /\ \A n \in 1 .. Len(q) - 1 : r[n] = q[n + 1]
  BY <1>1, <1>2, Taken DEF Yield
<1>4. /\ buffer'[s] = r /\ way[s] = "events" /\ way' = way /\ listener[s] = "listening"
      /\ listener' = listener /\ socket' = socket /\ awaited' = awaited /\ sending' = sending
      /\ published' = published
  BY <1>1, <1>2, <1>3 DEF StreamTypeOK, Yield, Listening
<1>5. SentOnce(s)
  BY <1>4 DEF SocketOK
<1>6. /\ \A n \in 1 .. Len(q) : q[n] <= published /\ got[s][q[n]] = 0 /\ q[n] \in Event
      /\ \A m, n \in 1 .. Len(q) : m # n => q[m] # q[n]
      /\ \A e \in Event : e \in Nat /\ got[s][e] \in Nat /\ got[s][e] <= 1
                          /\ (e > published => got[s][e] = 0)
      /\ published \in Nat
  <2>1. published \in Nat /\ (\A e \in Event : e \in Nat /\ got[s][e] \in Nat)
    BY DEF Event, StreamTypeOK
  <2>2. \A n \in 1 .. Len(q) : q[n] \in Event
    BY <1>1
  <2> QED
    BY <1>1, <1>5, <2>1, <2>2 DEF SentOnce
<1>7. \A n \in 1 .. Len(r) : /\ n + 1 \in 1 .. Len(q) /\ r[n] = q[n + 1] /\ r[n] # q[1]
                             /\ r[n] <= published /\ got[s][r[n]] = 0 /\ r[n] \in Event
  <2> TAKE n \in 1 .. Len(r)
  <2>1. n + 1 \in 1 .. Len(q) /\ n + 1 # 1 /\ 1 \in 1 .. Len(q) /\ r[n] = q[n + 1]
    BY <1>3
  <2> QED
    BY <2>1, <1>6
<1>8. \A m, n \in 1 .. Len(r) : m # n => r[m] # r[n]
  <2> SUFFICES ASSUME NEW m \in 1 .. Len(r), NEW n \in 1 .. Len(r), m # n PROVE r[m] # r[n]
    OBVIOUS
  <2>1. m + 1 # n + 1 /\ m + 1 \in 1 .. Len(q) /\ n + 1 \in 1 .. Len(q)
        /\ r[m] = q[m + 1] /\ r[n] = q[n + 1]
    BY <1>3, <1>7
  <2> QED
    BY <2>1, <1>6
<1>9. CASE socket[s] = "open"
  <2>1. got' = [got EXCEPT ![s][q[1]] = @ + 1]
    BY <1>9, <1>1, <1>3 DEF Yield
  <2>2. /\ \A f \in Event : f # q[1] => got'[s][f] = got[s][f]
        /\ got'[s][q[1]] = got[s][q[1]] + 1
    BY <2>1, <1>3, OneMoreCopy
  <2>3. got'[s][q[1]] = 1 /\ q[1] <= published /\ q[1] \in Nat
    <3>1. 1 \in 1 .. Len(q)
      BY <1>3
    <3>2. got[s][q[1]] = 0 /\ q[1] <= published /\ q[1] \in Event
      BY <3>1, <1>6
    <3> QED
      BY <3>2, <2>2, <1>6
  <2>4. SentOnce(s)'
    <3>1. \A n \in 1 .. Len(r) : r[n] <= published /\ got'[s][r[n]] = 0
      BY <1>7, <2>2
    <3>2. \A e \in Event : got'[s][e] <= 1 /\ (e > published => got'[s][e] = 0)
      <4> TAKE e \in Event
      <4>1. CASE e = q[1]
        BY <4>1, <2>3, <1>6
      <4>2. CASE e # q[1]
        BY <4>2, <2>2, <1>6
      <4> QED
        BY <4>1, <4>2
    <3> QED
      BY <3>1, <3>2, <1>4, <1>5, <1>8 DEF SentOnce
  <2>5. Reaches(s)'
    <3>1. Reaches(s) /\ sending[s].left = {}
      BY <1>9, <1>4, <1>5 DEF SocketOK, SentOnce, NotSending
    <3> SUFFICES ASSUME NEW e \in awaited[s]
                 PROVE  got'[s][e] > 0 \/ \E n \in 1 .. Len(r) : r[n] = e
      BY <1>4 DEF Reaches, Buffered
    <3>2. e \in Event
      BY DEF StreamTypeOK
    <3>3. CASE e = q[1]
      BY <3>3, <2>3
    <3>4. CASE e # q[1] /\ got[s][e] > 0
      BY <3>4, <3>2, <2>2
    <3>5. CASE e # q[1] /\ Buffered(s, e)
      <4>1. PICK n \in 1 .. Len(q) : q[n] = e
        BY <3>5, <1>1 DEF Buffered
      <4>2. n # 1
        BY <4>1, <3>5
      <4>3. n - 1 \in 1 .. Len(r) /\ r[n - 1] = q[(n - 1) + 1] /\ (n - 1) + 1 = n
        BY <4>1, <4>2, <1>3
      <4> QED
        BY <4>1, <4>3
    <3> QED
      BY <3>1, <3>3, <3>4, <3>5 DEF Reaches
  <2> QED
    BY <1>4, <2>4, <2>5, <1>9 DEF SocketOK
<1>10. CASE socket[s] # "open"
  <2>1. got' = got
    BY <1>10 DEF Yield
  <2>2. SentOnce(s)'
    BY <2>1, <1>4, <1>5, <1>6, <1>7, <1>8 DEF SentOnce
  <2>3. socket[s] # "none"
    BY <1>4 DEF SocketOK, New
  <2> QED
    BY <1>4, <1>10, <2>2, <2>3 DEF SocketOK
<1> QED
  BY <1>9, <1>10

(* So each socket's invariant holds after every step of anybody.            *)
LEMMA SocketsKept ==
    StreamInv /\ [StreamNext]_streamVars => (\A s \in Socket : SocketOK(s))'
<1> SUFFICES ASSUME StreamInv, [StreamNext]_streamVars, NEW v \in Socket PROVE SocketOK(v)'
  OBVIOUS
<1> USE StreamAssumption
<1>0. StreamTypeOK /\ Sending /\ SocketOK(v) /\ published \in Nat
  BY DEF StreamInv, StreamTypeOK
<1>1. ASSUME NEW s \in Socket, TurnAway(s) \/ Connect(s) \/ OpenEvents(s) PROVE SocketOK(v)'
  <2>1. CASE v = s
    BY <1>0, <1>1, <2>1, ComesKept
  <2>2. CASE v # s
    <3>1. Apart(v) /\ published' = published
      BY <1>0, <1>1, <2>2 DEF StreamTypeOK, Apart, TurnAway, Connect, OpenEvents
    <3> QED
      BY <1>0, <3>1, ApartKept
  <2> QED
    BY <2>1, <2>2
<1>2. ASSUME NEW s \in Socket, Subscribe(s) PROVE SocketOK(v)'
  <2>1. CASE v = s
    BY <1>0, <1>2, <2>1, SubscribeKept
  <2>2. CASE v # s
    <3>1. Apart(v) /\ published' = published
      BY <1>0, <1>2, <2>2 DEF StreamTypeOK, Apart, Subscribe
    <3> QED
      BY <1>0, <3>1, ApartKept
  <2> QED
    BY <2>1, <2>2
<1>3. ASSUME NEW s \in Socket, PeerLeaves(s) \/ Disconnect(s) PROVE SocketOK(v)'
  <2>1. CASE v = s
    BY <1>0, <1>3, <2>1, LeavesKept
  <2>2. CASE v # s
    <3>1. Apart(v) /\ published' = published
      BY <1>0, <1>3, <2>2 DEF StreamTypeOK, Apart, PeerLeaves, Disconnect
    <3> QED
      BY <1>0, <3>1, ApartKept
  <2> QED
    BY <2>1, <2>2
<1>4. ASSUME NEW s \in Socket, ListenerFails(s) \/ CancelListener(s) PROVE SocketOK(v)'
  <2>1. CASE v = s
    <3>1. socket[s] # "none"
      BY <1>0, <1>4, <2>1 DEF SocketOK, New, ListenerFails, CancelListener
    <3>2. /\ listener'[s] \notin {"none", "starting", "listening"}
          /\ socket'[s] \in {socket[s], "closed"} /\ way'[s] = way[s]
          /\ buffer'[s] = <<>> /\ sending'[s] = NotSending /\ got'[s] = got[s]
          /\ published' = published
      <4>1. CASE ListenerFails(s)
        BY <4>1, <1>0 DEF StreamTypeOK, ListenerFails
      <4>2. CASE CancelListener(s)
        BY <4>2, <1>0 DEF StreamTypeOK, CancelListener
      <4> QED
        BY <4>1, <4>2, <1>4
    <3> QED
      BY <1>0, <2>1, <3>1, <3>2, EndedKept
  <2>2. CASE v # s
    <3>1. Apart(v) /\ published' = published
      <4>1. CASE ListenerFails(s)
        BY <4>1, <1>0, <2>2 DEF StreamTypeOK, Apart, ListenerFails
      <4>2. CASE CancelListener(s)
        BY <4>2, <1>0, <2>2 DEF StreamTypeOK, Apart, CancelListener
      <4> QED
        BY <4>1, <4>2, <1>4
    <3> QED
      BY <1>0, <3>1, ApartKept
  <2> QED
    BY <2>1, <2>2
<1>5. CASE Publish
  BY <1>0, <1>5, PublishKept
<1>6. CASE PublishFails
  <2>1. Apart(v) /\ published' = published + 1
    BY <1>6 DEF Apart, PublishFails
  <2> QED
    BY <1>0, <2>1, ApartKept
<1>7. ASSUME NEW s \in Socket, StartBroadcast(s) PROVE SocketOK(v)'
  <2>1. CASE v = s
    BY <1>0, <1>7, <2>1, StartKept
  <2>2. CASE v # s
    <3>1. Apart(v) /\ published' = published
      BY <1>0, <1>7, <2>2 DEF StreamTypeOK, Apart, StartBroadcast
    <3> QED
      BY <1>0, <3>1, ApartKept
  <2> QED
    BY <2>1, <2>2
<1>8. ASSUME NEW s \in Socket, NEW w \in Socket, SendTo(s, w) PROVE SocketOK(v)'
  BY <1>0, <1>8, SendKept
<1>9. ASSUME NEW s \in Socket, EndBroadcast(s) PROVE SocketOK(v)'
  <2>1. CASE v = s
    BY <1>0, <1>9, <2>1, EndKept
  <2>2. CASE v # s
    <3>1. Apart(v) /\ published' = published
      BY <1>0, <1>9, <2>2 DEF StreamTypeOK, Apart, EndBroadcast
    <3> QED
      BY <1>0, <3>1, ApartKept
  <2> QED
    BY <2>1, <2>2
<1>10. ASSUME NEW s \in Socket, Yield(s) PROVE SocketOK(v)'
  <2>1. CASE v = s
    BY <1>0, <1>10, <2>1, YieldKept
  <2>2. CASE v # s
    <3>1. got'[v] = got[v] /\ buffer'[v] = buffer[v]
      BY <1>0, <1>10, <2>2 DEF StreamTypeOK, Yield
    <3>2. Apart(v) /\ published' = published
      BY <1>10, <3>1 DEF Apart, Yield
    <3> QED
      BY <1>0, <3>2, ApartKept
  <2> QED
    BY <2>1, <2>2
<1>11. CASE UNCHANGED streamVars
  <2>1. Apart(v) /\ published' = published
    BY <1>11 DEF Apart, streamVars
  <2> QED
    BY <1>0, <2>1, ApartKept
<1> QED
  BY <1>1, <1>2, <1>3, <1>4, <1>5, <1>6, <1>7, <1>8, <1>9, <1>10, <1>11 DEF StreamNext, Listen

LEMMA StreamInvariant == StreamSpec => []StreamInv
<1> USE StreamAssumption
<1>1. StreamInit => StreamInv
  <2> SUFFICES ASSUME StreamInit PROVE StreamInv
    OBVIOUS
  <2>1. StreamTypeOK
    BY DEF StreamInit, StreamTypeOK, NotSending, Event
  <2>2. Sending
    BY DEF StreamInit, Sending, NotSending
  <2>3. \A s \in Socket : SocketOK(s)
    BY DEF StreamInit, SocketOK, New
  <2> QED
    BY <2>1, <2>2, <2>3 DEF StreamInv
<1>2. StreamInv /\ [StreamNext]_streamVars => StreamInv'
  BY StreamTypeKept, SendingKept, SocketsKept DEF StreamInv
<1> QED
  BY <1>1, <1>2, PTL DEF StreamSpec

(* Whoever connects, leaves or breaks meanwhile, every event published while *)
(* a socket's or a stream's own listener listened has reached it or is       *)
(* still on its way, and an event stream gets none twice.                    *)
THEOREM LiveSocketsServed == StreamSpec => []LiveSocketServed
<1>1. StreamInv => LiveSocketServed
  <2> SUFFICES ASSUME StreamInv, NEW s \in Socket, socket[s] = "open", s \in Listening,
                      NEW e \in awaited[s]
               PROVE  /\ \/ got[s][e] > 0
                         \/ \E n \in 1 .. Len(buffer[s]) : buffer[s][n] = e
                         \/ sending[s].event = e /\ s \in sending[s].left
                      /\ way[s] = "events" => got[s][e] <= 1
    BY DEF LiveSocketServed
  <2>1. SocketOK(s) /\ listener[s] = "listening" /\ e \in Event
    BY DEF StreamInv, Listening, StreamTypeOK
  <2> QED
    BY <2>1 DEF SocketOK, Reaches, Buffered, SentOnce
<1> QED
  BY <1>1, StreamInvariant, PTL
=============================================================================

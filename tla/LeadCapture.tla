----------------------------- MODULE LeadCapture -----------------------------
(***************************************************************************)
(* Contact details a visitor leaves in one conversation. Every message     *)
(* with a phone number or an address starts a background task of its own,  *)
(* after the answer: it extracts fields from the transcript, merges them   *)
(* into the conversation's one lead row, and mails the agent's client if   *)
(* there is something new. Tasks of one conversation overlap; the row is   *)
(* locked while one of them merges, not while it mails.                    *)
(***************************************************************************)
EXTENDS Naturals, FiniteSets

CONSTANTS
    LeadTask,       \* one task for each message with contact details
    MessageOf,      \* [LeadTask -> the contacts of its message]
    Phone           \* the contacts that are phone numbers; others are addresses

Contact == UNION {MessageOf[t] : t \in LeadTask}

ASSUME LeadAssumption ==
    /\ DOMAIN MessageOf = LeadTask
    /\ IsFiniteSet(LeadTask) /\ \A t \in LeadTask : MessageOf[t] # {}

VARIABLES
    lead,       \* the row: [exists, contacts, notify_status]
    task,       \* [LeadTask -> [step, found, lead, created, changed, updated, outcome]]
    mails       \* the mails the client received: [updated, contacts]

leadVars == <<lead, task, mails>>

NoTask == [step |-> "none", found |-> {}, contacts |-> {}, created |-> FALSE,
           changed |-> FALSE, status |-> "none", outcome |-> "none"]

LeadInit ==
    /\ lead = [exists |-> FALSE, contacts |-> {}, notify_status |-> "none"]
    /\ task = [t \in LeadTask |-> NoTask]
    /\ mails = {}

Said == UNION {MessageOf[t] : t \in {u \in LeadTask : task[u].step # "none"}}

-----------------------------------------------------------------------------
MessageArrives(t) ==
    /\ task[t].step = "none"
    /\ task' = [task EXCEPT ![t].step = "scheduled"]
    /\ UNCHANGED <<lead, mails>>

(* The model finds any contacts of the transcript; addresses of the task's  *)
(* own message are added to them, its numbers only if no number was found.  *)
(* Without the model (it failed) the task has those of its message alone.   *)
WithOwn(t, found) ==
    found \cup (MessageOf[t] \ Phone)
          \cup (IF found \cap Phone = {} THEN MessageOf[t] \cap Phone ELSE {})

Extract(t) ==
    /\ task[t].step = "scheduled"
    /\ \E found \in SUBSET Said :
         task' = [task EXCEPT ![t] = [@ EXCEPT !.step = "extracted", !.found = WithOwn(t, found)]]
    /\ UNCHANGED <<lead, mails>>

(* A first look for the row, to lock it; there may be none to lock.         *)
LookForLead(t) ==
    /\ task[t].step = "extracted"
    /\ task' = [task EXCEPT ![t].step = IF lead.exists THEN "merge" ELSE "insert"]
    /\ UNCHANGED <<lead, mails>>

(* INSERT ... ON CONFLICT DO NOTHING: who loses the race looks again.       *)
InsertLead(t) ==
    /\ task[t].step = "insert"
    /\ IF lead.exists
       THEN task' = [task EXCEPT ![t].step = "merge"] /\ UNCHANGED lead
       ELSE /\ lead' = [lead EXCEPT !.exists = TRUE, !.contacts = task[t].found]
            /\ task' = [task EXCEPT ![t].step = "stored", ![t].created = TRUE,
                                    ![t].changed = TRUE, ![t].contacts = task[t].found]
    /\ UNCHANGED mails

MergeLead_Overwrites(t) ==
    /\ task[t].step = "merge"
    /\ lead' = [lead EXCEPT !.contacts = task[t].found]
    /\ task' = [task EXCEPT ![t].step = "stored",
                            ![t].contacts = task[t].found,
                            ![t].changed = ~(task[t].found \subseteq lead.contacts),
                            ![t].status = lead.notify_status]
    /\ UNCHANGED mails

MergeLead_ComparedLate(t) ==
    /\ task[t].step = "merge"
    /\ lead' = [lead EXCEPT !.contacts = @ \cup task[t].found]
    /\ task' = [task EXCEPT ![t].step = "stored",
                            ![t].contacts = lead.contacts \cup task[t].found,
                            ![t].changed = ~(task[t].found \subseteq lead'.contacts),
                            ![t].status = lead.notify_status]
    /\ UNCHANGED mails

(* SELECT ... FOR UPDATE, merge and commit: the row is locked from the read *)
(* to the commit, so the three are one step to everybody else.              *)
MergeLead(t) ==
    /\ task[t].step = "merge"
    /\ lead' = [lead EXCEPT !.contacts = @ \cup task[t].found]
    /\ task' = [task EXCEPT ![t].step = "stored",
                            ![t].contacts = lead.contacts \cup task[t].found,
                            ![t].changed = ~(task[t].found \subseteq lead.contacts),
                            ![t].status = lead.notify_status]
    /\ UNCHANGED mails

(* An unchanged lead is not mailed; without recipients nobody is.           *)
DontNotify(t) ==
    /\ task[t].step = "stored"
    /\ \/ ~task[t].changed /\ task' = [task EXCEPT ![t].step = "done"]
       \/ task[t].changed
          /\ task' = [task EXCEPT ![t].step = "done", ![t].outcome = "silent"]
    /\ UNCHANGED <<lead, mails>>

(* "Updated" only if the row, as this task read it, says a mail was sent.   *)
IsUpdate(t) == ~task[t].created /\ task[t].status = "sent"

SendMail(t) ==
    /\ task[t].step = "stored" /\ task[t].changed
    /\ \E outcome \in {"sent", "skipped", "failed"} :
         /\ task' = [task EXCEPT ![t].step = "mailed", ![t].outcome = outcome]
         /\ mails' = IF outcome # "sent" THEN mails
                     ELSE mails \cup {[updated |-> IsUpdate(t), contacts |-> task[t].contacts]}
    /\ UNCHANGED lead

RecordNotification(t) ==
    /\ task[t].step = "mailed"
    /\ lead' = [lead EXCEPT !.notify_status = task[t].outcome]
    /\ task' = [task EXCEPT ![t].step = "done"]
    /\ UNCHANGED mails

(* An error or the end of the process; nothing is tried again.              *)
TaskDies(t) ==
    /\ task[t].step \notin {"none", "done", "dead"}
    /\ task' = [task EXCEPT ![t].step = "dead"]
    /\ UNCHANGED <<lead, mails>>

ProcessLead(t) ==
    \/ MessageArrives(t) \/ Extract(t) \/ LookForLead(t) \/ InsertLead(t)
    \/ MergeLead(t) \/ DontNotify(t) \/ SendMail(t) \/ RecordNotification(t)
    \/ TaskDies(t)

LeadNext == \E t \in LeadTask : ProcessLead(t)

LeadSpec == LeadInit /\ [][LeadNext]_leadVars

-----------------------------------------------------------------------------
LeadTypeOK ==
    /\ lead \in [exists : BOOLEAN, contacts : SUBSET Contact,
                 notify_status : {"none", "sent", "skipped", "failed"}]
    /\ task \in [LeadTask ->
         [step : {"none", "scheduled", "extracted", "insert", "merge", "stored",
                  "mailed", "done", "dead"},
          found : SUBSET Contact, contacts : SUBSET Contact, created : BOOLEAN,
          changed : BOOLEAN, status : {"none", "sent", "skipped", "failed"},
          outcome : {"none", "silent", "sent", "skipped", "failed"}]]
    /\ mails \subseteq [updated : BOOLEAN, contacts : SUBSET Contact]

(* What a task merged stays in the row, whichever tasks merge before and    *)
(* after it, and whoever wins the race to insert it.                        *)
ContactsKept ==
    \A t \in LeadTask :
        task[t].step \in {"stored", "mailed"} \/ task[t].outcome # "none" =>
            task[t].found \subseteq task[t].contacts /\ task[t].contacts \subseteq lead.contacts

(* A stored contact has reached the client by mail, or the task that found  *)
(* it new has yet to mail it, or did not (alerts off, not configured, send  *)
(* failed, died): only then is it never mailed, as a task that finds the    *)
(* lead unchanged leaves it to that one. And none is lost: ContactsKept.    *)
EveryContactAnswered ==
    /\ ContactsKept
    /\ \A x \in lead.contacts :
          \/ \E m \in mails : x \in m.contacts
          \/ \E t \in LeadTask :
               /\ x \in task[t].contacts /\ task[t].changed
               /\ task[t].step \in {"stored", "dead"}
                  \/ task[t].outcome \in {"silent", "skipped", "failed"}
=============================================================================

------------------------------- MODULE Casework -------------------------------
(***************************************************************************)
(* The member managers' files: notes, follow-ups, tickets, tasks, e-mail   *)
(* templates, announcements, moderation, the log of communications, and the *)
(* e-mails to many members.  The controller hands on req.user._id as the   *)
(* manager, which the payload of a token does not have, so that a document *)
(* that must name one is refused.                                          *)
(***************************************************************************)
EXTENDS Integers, FiniteSets

CONSTANTS Members,
          Sends,       \* bulk e-mails under way at a time
          MaxChanges,  \* changes of documents
          MaxFaults

CaseworkAssumption ==
    /\ IsFiniteSet(Members) /\ Sends # {} /\ IsFiniteSet(Sends)
    /\ MaxChanges \in Nat /\ MaxFaults \in Nat

VARIABLES kind,      \* the kind of document that is looked at
          doc,       \* one of that kind
          template,  \* the e-mail template and its usageCount
          send,      \* what each bulk e-mail does
          mailed,    \* mailed[s]: how often each member was e-mailed
          begun,     \* bulk e-mails that used the template
          changes, faults

vars == <<kind, doc, template, send, mailed, begun, changes, faults>>
-----------------------------------------------------------------------------
Kinds == {"note", "followUp", "ticket", "task", "announcement", "moderation", "communication"}

\* createdBy, assignedTo, managerId, moderatedBy: only a ticket need not have one.
NamesManager(k) == k # "ticket"
ManagerKnown == FALSE

NoDoc == [there |-> FALSE, status |-> "pending", completedAt |-> FALSE]
Idle == [stage |-> "idle", left |-> {}, total |-> 0, sent |-> 0, failed |-> 0, usage |-> 0]

TypeOK ==
    /\ kind \in Kinds
    /\ doc \in [there : BOOLEAN, status : {"pending", "completed"}, completedAt : BOOLEAN]
    /\ template \in [there : BOOLEAN, usage : Nat]
    /\ send \in [Sends -> [stage : {"idle", "template", "count", "mail", "log", "done"},
                           left : SUBSET Members, total : 0..Cardinality(Members),
                           sent : Nat, failed : Nat, usage : Nat]]
    /\ mailed \in [Sends -> [Members -> Nat]]
    /\ begun \in 0..Cardinality(Sends)
    /\ changes \in 0..MaxChanges /\ faults \in 0..MaxFaults

\* Documents that name their manager can only be there from before.
Init ==
    /\ kind \in Kinds
    /\ doc \in {NoDoc, [NoDoc EXCEPT !.there = TRUE]}
    /\ template = [there |-> TRUE, usage |-> 0]
    /\ send = [s \in Sends |-> Idle]
    /\ mailed = [s \in Sends |-> [m \in Members |-> 0]]
    /\ begun = 0 /\ changes = 0 /\ faults = 0

Sending == <<template, send, mailed, begun, faults>>
Change(d) ==
    /\ changes < MaxChanges /\ changes' = changes + 1
    /\ doc' = d
    /\ UNCHANGED <<kind, Sending>>
-----------------------------------------------------------------------------
(* Documents *)

\* A validation error, unless the document can do without a manager.
Create(k) ==
    /\ kind = k /\ ~doc.there
    /\ Change(IF NamesManager(k) /\ ~ManagerKnown THEN doc ELSE [NoDoc EXCEPT !.there = TRUE])

CreateNote == Create("note")
CreateFollowUp == Create("followUp")
CreateTicket == Create("ticket")
CreateTask == Create("task")
CreateAnnouncement == Create("announcement")
ModerateContent == Create("moderation")
LogCommunication == Create("communication")

\* findByIdAndUpdate with the fields of the body, the status among them: a document
\* completed before keeps its completedAt, one completed by an update gets none.
Update(k, status) ==
    /\ kind = k /\ doc.there
    /\ Change([doc EXCEPT !.status = status])

UpdateNote == Update("note", doc.status)
UpdateAnnouncement == Update("announcement", doc.status)
UpdateFollowUp(status) == Update("followUp", status)
UpdateTicket(status) == Update("ticket", status)
UpdateTask(status) == Update("task", status)

\* Also of a document that is completed already.
Complete(k) ==
    /\ kind = k /\ doc.there
    /\ Change([doc EXCEPT !.status = "completed", !.completedAt = TRUE])

CompleteFollowUp == Complete("followUp")
CompleteTask == Complete("task")

Delete(k) == kind = k /\ doc.there /\ Change(NoDoc)

DeleteNote == Delete("note")
DeleteTask == Delete("task")
DeleteAnnouncement == Delete("announcement")

\* The comment names its author: save() refuses it.
AddTicketComment ==
    /\ kind = "ticket" /\ doc.there
    /\ Change(doc)

\* A new one would name its manager too: nothing is made.
CreateEmailTemplate ==
    /\ changes < MaxChanges /\ changes' = changes + 1
    /\ UNCHANGED <<kind, doc, Sending>>

\* The template is edited or deleted while it is used.
UpdateEmailTemplate ==
    /\ template.there /\ changes < MaxChanges /\ changes' = changes + 1
    /\ UNCHANGED <<kind, doc, Sending>>

DeleteEmailTemplate ==
    /\ template.there /\ changes < MaxChanges /\ changes' = changes + 1
    /\ template' = [template EXCEPT !.there = FALSE]
    /\ UNCHANGED <<kind, doc, send, mailed, begun, faults>>
-----------------------------------------------------------------------------
(* sendBulkEmail *)

Documents == <<kind, doc, changes>>

\* All, those named, or those a filter finds; that on the membership type compares a
\* field members do not have and finds nobody.
Recipients == SUBSET Members

SendBulkEmail(s, recipients, templated) ==
    /\ send[s] = Idle
    /\ send' = [send EXCEPT ![s] = [Idle EXCEPT !.stage = IF templated THEN "template" ELSE "mail",
                                    !.left = recipients, !.total = Cardinality(recipients)]]
    /\ UNCHANGED <<Documents, template, mailed, begun, faults>>

FindTemplate(s) ==
    /\ send[s].stage = "template"
    /\ send' = [send EXCEPT ![s] = IF template.there
                  THEN [@ EXCEPT !.stage = "count", !.usage = template.usage]
                  ELSE Idle]
    /\ UNCHANGED <<Documents, template, mailed, begun, faults>>

\* Mutant of Counted: the count that was read, plus one.
CountedFromRead(s) == send[s].usage + 1

\* $inc
Counted(s) == template.usage + 1

IncrementUsage(s) ==
    /\ send[s].stage = "count"
    /\ send' = [send EXCEPT ![s].stage = "mail"]
    /\ template' = [template EXCEPT !.usage = IF template.there THEN Counted(s) ELSE @]
    /\ begun' = begun + 1
    /\ UNCHANGED <<Documents, mailed, faults>>

\* sendEmail answers success or not, and does not throw; the answer is not looked at.
EmailRecipient(s, m, leaves) ==
    /\ send[s].stage = "mail" /\ m \in send[s].left
    /\ ~leaves => faults < MaxFaults
    /\ faults' = IF leaves THEN faults ELSE faults + 1
    /\ mailed' = [mailed EXCEPT ![s][m] = IF leaves THEN @ + 1 ELSE @]
    /\ send' = [send EXCEPT ![s].stage = "log", ![s].left = @ \ {m}]
    /\ UNCHANGED <<Documents, template, begun>>

\* The log names its manager too: without one the recipient counts as failed.
LogRecipient(s) ==
    /\ send[s].stage = "log"
    /\ send' = [send EXCEPT ![s].stage = "mail",
                            ![s].sent = IF ManagerKnown THEN @ + 1 ELSE @,
                            ![s].failed = IF ManagerKnown THEN @ ELSE @ + 1]
    /\ UNCHANGED <<Documents, template, mailed, begun, faults>>

EndSend(s) ==
    /\ send[s].stage = "mail" /\ send[s].left = {}
    /\ send' = [send EXCEPT ![s].stage = "done"]
    /\ UNCHANGED <<Documents, template, mailed, begun, faults>>

Next ==
    \/ CreateNote \/ CreateFollowUp \/ CreateTicket \/ CreateTask \/ CreateAnnouncement
    \/ ModerateContent \/ LogCommunication
    \/ UpdateNote \/ UpdateAnnouncement
    \/ \E status \in {"pending", "completed"} :
         UpdateFollowUp(status) \/ UpdateTicket(status) \/ UpdateTask(status)
    \/ CompleteFollowUp \/ CompleteTask
    \/ DeleteNote \/ DeleteTask \/ DeleteAnnouncement
    \/ AddTicketComment \/ CreateEmailTemplate \/ UpdateEmailTemplate \/ DeleteEmailTemplate
    \/ \E s \in Sends :
         \/ \E recipients \in Recipients, templated \in BOOLEAN :
              SendBulkEmail(s, recipients, templated)
         \/ FindTemplate(s) \/ IncrementUsage(s) \/ LogRecipient(s) \/ EndSend(s)
         \/ \E m \in Members, leaves \in BOOLEAN : EmailRecipient(s, m, leaves)

Spec == Init /\ [][Next]_vars
-----------------------------------------------------------------------------
(* A template that is still there counts every bulk e-mail that used it,   *)
(* however they overlap.                                                   *)
UsesAreCounted == template.there => template.usage = begun

(* What a bulk e-mail reports as sent left: "Bulk email sent to            *)
(* ${results.sent} recipients".                                            *)
SentAreCounted ==
    \A s \in Sends : send[s].stage = "done" =>
        send[s].sent = Cardinality({m \in Members : mailed[s][m] > 0})
-----------------------------------------------------------------------------
(* Only a bulk e-mail that did not count its template yet can still do so. *)
Uncounted == {s \in Sends : send[s].stage \in {"idle", "template", "count"}}

BeginsAreSends == begun + Cardinality(Uncounted) <= Cardinality(Sends)

CaseworkInv == TypeOK /\ UsesAreCounted /\ BeginsAreSends
===============================================================================

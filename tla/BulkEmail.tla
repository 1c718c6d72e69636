------------------------------ MODULE BulkEmail ------------------------------
(***************************************************************************)
(* Bulk messages and subscription reminders.  sendBulkEmails writes a log  *)
(* for each recipient and publishes a job for it; processEmailLog claims   *)
(* the log, has the e-mail sent and records the outcome.  It runs in the   *)
(* worker, for a job or for the sweep that looks for unsent logs every 30  *)
(* seconds.  A worker asks Resend first and then SMTP, whose answer it     *)
(* awaits for 30 seconds: an e-mail may leave although it counts as failed.*)
(*                                                                         *)
(* NotificationOutbox uses the queue too.  Names that both would have are  *)
(* told apart here by a Mail or Log, so that one module can extend both.   *)
(***************************************************************************)
EXTENDS JobQueue

CONSTANTS
  Logs,     \* e-mail logs, one for each recipient
  MaxTries  \* claims of one log (4)

ASSUME BulkEmailAssumption ==
  /\ Jobs = Logs
  /\ NoJob \notin Logs
  /\ MaxTries \in Nat \ {0}
  /\ MaxOutages \in Nat /\ MaxFaults \in Nat

VARIABLES
  logStatus,    \* the log's status, "absent" before it is written
  logAttempts,  \* the log's attempts field
  mailStage,    \* what each handler call does next
  log,          \* the log each handler call works on
  copies,       \* history: e-mails that left for the recipient
  doubts,       \* history: sends that left although they count as failed
  lost          \* history: logs whose handler died or could not record

logVars      == <<logStatus, logAttempts>>
mailCallVars == <<mailStage, log>>
copyVars     == <<copies, doubts>>
mailBounds   == <<outages, faults>>
mailVars     == <<queueVars, logVars, mailCallVars, copyVars, lost, mailBounds>>

-----------------------------------------------------------------------------
MailStages == {"idle", "publish", "claim", "resend", "smtp", "sent", "failed", "nack"}

MailGoto(h, s) == mailStage' = [mailStage EXCEPT ![h] = s]

\* An idle handler call takes up log k at stage s.
BeginLog(h, k, s) ==
  /\ mailStage[h] = "idle"
  /\ MailGoto(h, s)
  /\ log' = [log EXCEPT ![h] = k]

FinishLog(h) ==
  /\ MailGoto(h, "idle")
  /\ log' = [log EXCEPT ![h] = NoJob]

\* The filter of the claim and of the sweep's query.
Unsent(k) == logStatus[k] \in {"QUEUED", "FAILED"} /\ logAttempts[k] < MaxTries

-----------------------------------------------------------------------------
MailInit ==
  /\ QueueInit
  /\ logStatus = [k \in Logs |-> "absent"]
  /\ logAttempts = [k \in Logs |-> 0]
  /\ mailStage = [h \in Handlers |-> "idle"]
  /\ log = [h \in Handlers |-> NoJob]
  /\ copies = [k \in Logs |-> 0]
  /\ doubts = [k \in Logs |-> 0]
  /\ lost = {}
  /\ outages = 0 /\ faults = 0

\* sendBulkEmails and sendSubscriptionReminders write the logs ...
QueueEmail(h, k) ==
  /\ logStatus[k] = "absent"
  /\ logStatus' = [logStatus EXCEPT ![k] = "QUEUED"]
  /\ BeginLog(h, k, "publish")
  /\ UNCHANGED <<queueVars, logAttempts, copyVars, lost, mailBounds>>

\* ... and publish a job for each, whatever becomes of it.
PublishLog(h) ==
  /\ mailStage[h] = "publish"
  /\ \/ Publish(log[h]) /\ UNCHANGED outages
     \/ PublishLost /\ outages < MaxOutages /\ outages' = outages + 1
     \/ PublishRefused /\ UNCHANGED outages
  /\ FinishLog(h)
  /\ UNCHANGED <<logVars, copyVars, lost, faults>>

ReceiveLog(h, k) ==
  /\ Receive(h, k)
  /\ BeginLog(h, k, "claim")
  /\ UNCHANGED <<logVars, copyVars, lost, mailBounds>>

\* A log of the sweep's list, when its turn comes.
SweepLog(h, k) ==
  /\ Unsent(k)
  /\ BeginLog(h, k, "claim")
  /\ UNCHANGED <<queueVars, logVars, copyVars, lost, mailBounds>>

\* Mutant of ClaimLog: the log is read, but not marked as being sent.
ClaimLogUnmarked(h) ==
  LET k == log[h] IN
  /\ mailStage[h] = "claim"
  /\ \/ /\ Unsent(k)
        /\ logAttempts' = [logAttempts EXCEPT ![k] = @ + 1]
        /\ MailGoto(h, "resend")
        /\ UNCHANGED <<queueVars, log>>
     \/ /\ ~Unsent(k)
        /\ Ack(h)
        /\ FinishLog(h)
        /\ UNCHANGED logAttempts
  /\ UNCHANGED <<logStatus, copyVars, lost, mailBounds>>

\* processEmailLog's conditional update counts the attempt before it is made.
ClaimLog(h) ==
  LET k == log[h] IN
  /\ mailStage[h] = "claim"
  /\ \/ /\ Unsent(k)
        /\ logStatus' = [logStatus EXCEPT ![k] = "SENDING"]
        /\ logAttempts' = [logAttempts EXCEPT ![k] = @ + 1]
        /\ MailGoto(h, "resend")
        /\ UNCHANGED <<queueVars, log>>
     \/ /\ ~Unsent(k)
        /\ Ack(h)
        /\ FinishLog(h)
        /\ UNCHANGED logVars
  /\ UNCHANGED <<copyVars, lost, mailBounds>>

\* One more e-mail to log k leaves; `known` says whether the caller is told so.
Leaves(k, known) ==
  /\ copies' = [copies EXCEPT ![k] = @ + 1]
  /\ doubts' = IF known THEN doubts ELSE [doubts EXCEPT ![k] = @ + 1]

\* Resend accepts the e-mail, refuses it, is not set up, or fails to answer
\* after it has accepted it.
TryResend(h) ==
  /\ mailStage[h] = "resend"
  /\ \/ Leaves(log[h], TRUE) /\ MailGoto(h, "sent")
     \/ UNCHANGED copyVars /\ MailGoto(h, "smtp")
     \/ Leaves(log[h], FALSE) /\ MailGoto(h, "smtp")
  /\ UNCHANGED <<queueVars, logVars, log, lost, mailBounds>>

\* Mutant of TrySmtp: the answer of sendViaSmtp is not looked at.
TrySmtpIgnored(h) ==
  /\ mailStage[h] = "smtp"
  /\ MailGoto(h, "sent")
  /\ UNCHANGED <<queueVars, logVars, log, copyVars, lost, mailBounds>>

\* The SMTP server takes the e-mail, refuses it, or takes it after the timeout.
TrySmtp(h) ==
  /\ mailStage[h] = "smtp"
  /\ \/ Leaves(log[h], TRUE) /\ MailGoto(h, "sent")
     \/ UNCHANGED copyVars /\ MailGoto(h, "failed")
     \/ Leaves(log[h], FALSE) /\ MailGoto(h, "failed")
  /\ UNCHANGED <<queueVars, logVars, log, lost, mailBounds>>

RecordSent(h) ==
  /\ mailStage[h] = "sent"
  /\ logStatus' = [logStatus EXCEPT ![log[h]] = "SENT"]
  /\ Ack(h)
  /\ FinishLog(h)
  /\ UNCHANGED <<logAttempts, copyVars, lost, mailBounds>>

\* The update to SENT is part of the try block: when it throws, an e-mail that
\* has left is recorded as failed.
RecordSentFails(h) ==
  /\ mailStage[h] = "sent"
  /\ faults < MaxFaults
  /\ faults' = faults + 1
  /\ lost' = lost \union {log[h]}
  /\ MailGoto(h, "failed")
  /\ UNCHANGED <<queueVars, logVars, log, copyVars, outages>>

\* Mutant of RecordFailed: the catch block only throws.
RecordFailedNot(h) ==
  /\ mailStage[h] = "failed"
  /\ MailGoto(h, "nack")
  /\ UNCHANGED <<queueVars, logVars, log, copyVars, lost, mailBounds>>

\* The catch block records the failure and throws ...
RecordFailed(h) ==
  /\ mailStage[h] = "failed"
  /\ logStatus' = [logStatus EXCEPT ![log[h]] = "FAILED"]
  /\ MailGoto(h, "nack")
  /\ UNCHANGED <<queueVars, logAttempts, log, copyVars, lost, mailBounds>>

\* ... so that a job is dead-lettered; the sweep goes on to its next log.
Rethrow(h) ==
  /\ mailStage[h] = "nack"
  /\ Nack(h)
  /\ FinishLog(h)
  /\ UNCHANGED <<logVars, copyVars, lost, mailBounds>>

-----------------------------------------------------------------------------
\* The process is restarted between two calls, or the claim or the update to
\* FAILED throws.
MailerDies(h) ==
  /\ mailStage[h] # "idle"
  /\ faults < MaxFaults
  /\ faults' = faults + 1
  /\ lost' = lost \union {log[h]}
  /\ Redeliver(h) \/ (mailStage[h] \in {"claim", "failed"} /\ Nack(h))
  /\ FinishLog(h)
  /\ UNCHANGED <<logVars, copyVars, outages>>

MailOutage ==
  /\ outages < MaxOutages
  /\ outages' = outages + 1
  /\ ConnectionCloses
  /\ UNCHANGED <<logVars, mailCallVars, copyVars, lost, faults>>

MailBrokerReturns ==
  /\ Reconnect
  /\ UNCHANGED <<logVars, mailCallVars, copyVars, lost, mailBounds>>

-----------------------------------------------------------------------------
ProceedMail(h) ==
  \/ PublishLog(h)
  \/ ClaimLog(h)
  \/ TryResend(h)
  \/ TrySmtp(h)
  \/ RecordSent(h)
  \/ RecordFailed(h)
  \/ Rethrow(h)

MailNext ==
  \/ \E h \in Handlers, k \in Logs : QueueEmail(h, k) \/ ReceiveLog(h, k) \/ SweepLog(h, k)
  \/ \E h \in Handlers : ProceedMail(h) \/ RecordSentFails(h) \/ MailerDies(h)
  \/ MailOutage
  \/ MailBrokerReturns

MailSpec == MailInit /\ [][MailNext]_mailVars

\* A call in progress goes on and the sweep runs every 30 seconds.  The broker
\* owes nothing.
MailFairness ==
  /\ \A h \in Handlers : WF_mailVars(ProceedMail(h))
  /\ \A k \in Logs : WF_mailVars(\E h \in Handlers : SweepLog(h, k))

MailFairSpec == MailSpec /\ MailFairness
-----------------------------------------------------------------------------
MailTypeOK ==
  /\ QueueTypeOK
  /\ logStatus \in [Logs -> {"absent", "QUEUED", "SENDING", "SENT", "FAILED"}]
  /\ logAttempts \in [Logs -> 0 .. MaxTries]
  /\ mailStage \in [Handlers -> MailStages]
  /\ log \in [Handlers -> Logs \union {NoJob}]
  /\ \A h \in Handlers : mailStage[h] # "idle" => log[h] \in Logs
  /\ copies \in [Logs -> Nat]
  /\ doubts \in [Logs -> Nat]
  /\ lost \subseteq Logs
  /\ outages \in 0 .. MaxOutages
  /\ faults \in 0 .. MaxFaults

Delivering(h) == mailStage[h] \in {"resend", "smtp", "sent", "failed"}

\* A job and a sweep, or two sweeps, never send one log at the same time, and
\* whoever sends it has it marked SENDING.
OneSenderPerLog ==
  \A h \in Handlers : Delivering(h) =>
    /\ logStatus[log[h]] = "SENDING"
    /\ \A g \in Handlers \ {h} : Delivering(g) => log[g] # log[h]

\* A log marked SENT has really been sent: no failure is taken for a success.
SentHasLeft == \A k \in Logs : logStatus[k] = "SENT" => copies[k] > 0

\* A recipient gets the e-mail twice only if a provider took it without saying
\* so, or its handler died or could not record that it was sent; redelivered
\* jobs and sweeps alone never repeat it.
SecondCopyOnlyInDoubt ==
  \A k \in Logs : copies[k] > 1 + doubts[k] => k \in lost

\* One sender, which marks as sent what left, and once unless in doubt.
SentOnce == MailTypeOK /\ OneSenderPerLog /\ SentHasLeft /\ SecondCopyOnlyInDoubt

\* Every log is sent, or has failed MaxTries times, in the end, whatever the
\* broker does, unless its handler is lost.
LogsAreSettled ==
  \A k \in Logs : logStatus[k] # "absent"
    ~> \/ logStatus[k] = "SENT"
       \/ logStatus[k] = "FAILED" /\ logAttempts[k] = MaxTries
       \/ k \in lost
=============================================================================

---------------------------- MODULE ScheduledEmails ----------------------------
(***************************************************************************)
(* The e-mails of the daily jobs: birthdays, expiring subscriptions, events *)
(* that come near, and the first weeks of a member.  A job lists who is due *)
(* today and e-mails them one after the other.  Nothing is written down: a  *)
(* job that did not run on its day is not made up for, and one that runs    *)
(* twice e-mails everybody twice.                                           *)
(***************************************************************************)
EXTENDS Integers, FiniteSets

CONSTANTS Members,
          Processes,  \* API processes and workers, every one with its own clock of jobs
          Workers,    \* those that run the jobs; all of them without a queue
          Leads,      \* Leads[job]: how many days before, or after, its date a job e-mails
          MaxDay,
          MaxChanges, \* dates that are changed
          MaxForced   \* runs that an administrator starts

Jobs == {"birthday", "subscription", "event", "followUp"}

ScheduledEmailsAssumption ==
    /\ IsFiniteSet(Members) /\ Members # {}
    /\ IsFiniteSet(Processes) /\ Workers \subseteq Processes
    /\ Leads \in [Jobs -> SUBSET Int]
    /\ \A j \in Jobs : \A leads \in SUBSET Leads[j] \ {{}} :  \* as they are few
         \E l \in leads : \A k \in leads : k <= l
    /\ MaxDay \in Nat /\ MaxChanges \in Nat /\ MaxForced \in Nat

VARIABLES day,
          job,       \* the job that is looked at
          date,      \* of each member: birthday, expiry, event, first day; None: has none
          run,       \* what each process does
          ran,       \* processes that ran the job today
          mailed,    \* <<member, lead, day>> of the e-mails that left
          again,     \* <<member, lead, day>> of e-mails that left a second time
          missed,    \* <<member, lead, day>>: due, and the run was late, failed or never was
          started,   \* how often the job was started on each day
          moved, forced

vars == <<day, job, date, run, ran, mailed, again, missed, started, moved, forced>>
-----------------------------------------------------------------------------
None == -1
Idle == [stage |-> "idle", today |-> 0, lead |-> 0, leads |-> {}, list |-> {}]

Dates == 0..MaxDay + 1
Mails == Members \X (UNION {Leads[j] : j \in Jobs}) \X (0..MaxDay)

TypeOK ==
    /\ day \in 0..MaxDay /\ job \in Jobs
    /\ date \in [Members -> Dates \cup {None}]
    /\ run \in [Processes -> [stage : {"idle", "lists", "mails"}, today : 0..MaxDay, lead : Int,
                              leads : SUBSET Int, list : SUBSET Members]]
    /\ \A p \in Processes : run[p].leads \subseteq Leads[job]
    /\ ran \subseteq Processes
    /\ mailed \subseteq Mails /\ again \subseteq Mails /\ missed \subseteq Mails
    /\ started \in [0..MaxDay -> Nat]
    /\ moved \in 0..MaxChanges /\ forced \in 0..MaxForced

Init ==
    /\ day = 0 /\ job \in Jobs
    /\ date \in [Members -> Dates \cup {None}]
    /\ run = [p \in Processes |-> Idle]
    /\ ran = {} /\ mailed = {} /\ again = {} /\ missed = {}
    /\ started = [d \in 0..MaxDay |-> 0]
    /\ moved = 0 /\ forced = 0

Nearest(leads) == CHOOSE l \in leads : \A k \in leads : k <= l
-----------------------------------------------------------------------------
(* A run. *)

Start(p) ==
    /\ run[p].stage = "idle"
    /\ run' = [run EXCEPT ![p] = [Idle EXCEPT !.stage = "lists", !.today = day, !.leads = Leads[job]]]
    /\ started' = [started EXCEPT ![day] = @ + 1]

\* Mutant of RunsJobs: the processes that answer requests run them too.
RunsJobsAnywhere(p) == TRUE

\* With a queue only the worker's clock starts a job.
RunsJobs(p) == p \in Workers

Scheduled(p) ==
    /\ RunsJobs(p) /\ p \notin ran
    /\ ran' = ran \cup {p}
    /\ Start(p)
    /\ UNCHANGED <<day, job, date, mailed, again, missed, moved, forced>>

SendBirthdayEmails(p) == job = "birthday" /\ Scheduled(p)
SendSubscriptionReminders(p) == job = "subscription" /\ Scheduled(p)
SendEventReminders(p) == job = "event" /\ Scheduled(p)
SendFollowUpEmails(p) == job = "followUp" /\ Scheduled(p)

\* trigger...: by hand, on whichever process answers the request.
Trigger(p) ==
    /\ forced < MaxForced
    /\ forced' = forced + 1
    /\ Start(p)
    /\ UNCHANGED <<day, job, date, ran, mailed, again, missed, moved>>

\* Mutant of DueOn: one day off.
DueOnNext(m, lead, today) == date[m] # None /\ date[m] = today + lead + 1

\* Members whose date is that many days away from the day the run began.
DueOn(m, lead, today) == date[m] # None /\ date[m] = today + lead

\* Another query for every distance, the farthest first.
ListDue(p) ==
    LET lead == Nearest(run[p].leads) IN
    /\ run[p].stage = "lists" /\ run[p].leads # {}
    /\ run' = [run EXCEPT ![p].stage = "mails", ![p].lead = lead,
                          ![p].leads = @ \ {lead},
                          ![p].list = {m \in Members : DueOn(m, lead, run[p].today)}]
    /\ UNCHANGED <<day, job, date, ran, mailed, again, missed, started, moved, forced>>

SendEmail(p, m) ==
    LET mail == <<m, run[p].lead, run[p].today>> IN
    /\ run[p].stage = "mails" /\ m \in run[p].list
    /\ run' = [run EXCEPT ![p].list = @ \ {m}]
    /\ again' = IF mail \in mailed THEN again \cup {mail} ELSE again
    /\ mailed' = mailed \cup {mail}
    /\ UNCHANGED <<day, job, date, ran, missed, started, moved, forced>>

\* SMTP fails or the e-mail's own error is caught: the next one is sent.
EmailFails(p, m) ==
    LET mail == <<m, run[p].lead, run[p].today>> IN
    /\ run[p].stage = "mails" /\ m \in run[p].list
    /\ run' = [run EXCEPT ![p].list = @ \ {m}]
    /\ missed' = missed \cup {mail}
    /\ UNCHANGED <<day, job, date, ran, mailed, again, started, moved, forced>>

GoOn(p) ==
    /\ run[p].stage = "mails" /\ run[p].list = {}
    /\ run' = [run EXCEPT ![p] = IF @.leads = {} THEN Idle ELSE [@ EXCEPT !.stage = "lists"]]
    /\ UNCHANGED <<day, job, date, ran, mailed, again, missed, started, moved, forced>>

Lost(r) == (Members \X r.leads \X {r.today}) \cup (r.list \X {r.lead} \X {r.today})

\* A query fails, or the process stops: the rest of the run is gone.
RunEnds(p) ==
    /\ run[p].stage # "idle"
    /\ missed' = missed \cup Lost(run[p])
    /\ run' = [run EXCEPT ![p] = Idle]
    /\ UNCHANGED <<day, job, date, ran, mailed, again, started, moved, forced>>
-----------------------------------------------------------------------------
(* Around it. *)

\* A member renews, an event is moved, somebody registers: another date.
ChangeDate(m, d) ==
    /\ moved < MaxChanges
    /\ date[m] # d
    /\ moved' = moved + 1
    /\ date' = [date EXCEPT ![m] = d]
    /\ missed' = missed \cup ({m} \X Leads[job] \X {day})
    /\ UNCHANGED <<day, job, run, ran, mailed, again, started, forced>>

\* The hour of the job passes where no process was up: nobody is e-mailed.
NextDay ==
    /\ day < MaxDay
    /\ day' = day + 1
    /\ ran' = {}
    /\ missed' = IF started[day] = 0 THEN missed \cup (Members \X Leads[job] \X {day}) ELSE missed
    /\ UNCHANGED <<job, date, run, mailed, again, started, moved, forced>>
-----------------------------------------------------------------------------
Next ==
    \/ \E p \in Processes :
         \/ SendBirthdayEmails(p) \/ SendSubscriptionReminders(p)
         \/ SendEventReminders(p) \/ SendFollowUpEmails(p)
         \/ Trigger(p) \/ ListDue(p) \/ GoOn(p) \/ RunEnds(p)
         \/ \E m \in Members : SendEmail(p, m) \/ EmailFails(p, m)
    \/ \E m \in Members, d \in Dates \cup {None} : ChangeDate(m, d)
    \/ NextDay

Spec == Init /\ [][Next]_vars
-----------------------------------------------------------------------------
Running(d) == \E p \in Processes : run[p].stage # "idle" /\ run[p].today = d

(* One process that runs the jobs, and nobody starting them by hand: then  *)
(* nobody is e-mailed the same thing twice on a day.  With more processes  *)
(* the job runs in each.                                                   *)
MailedOnce ==
    forced = 0 /\ Cardinality(Workers) <= 1 => again = {}

(* Who was due on a day that is over has been e-mailed, unless the job did *)
(* not run, an e-mail or the run failed, or the date was changed that day. *)
DueAreMailed ==
    \A m \in Members, d \in 0..day - 1 : \A l \in Leads[job] :
        ~Running(d) /\ moved = 0 /\ date[m] # None /\ date[m] = d + l /\ <<m, l, d>> \notin missed
            => <<m, l, d>> \in mailed
-----------------------------------------------------------------------------
(* The invariants on which they rest.  A run that is under way has not yet *)
(* e-mailed whom it still lists, nor at distances it has yet to list; a    *)
(* worker that has not run the job today has e-mailed nobody today.        *)

ToMail(p) == Lost(run[p])

RunsAreInTime ==
    /\ \A d \in day + 1..MaxDay : started[d] = 0
    /\ \A p \in Processes :
         /\ run[p].today <= day
         /\ run[p].stage # "idle" /\ run[p].today = day => started[day] > 0
         /\ run[p].stage # "mails" => run[p].list = {}
         /\ run[p].stage = "idle" => run[p].leads = {}
         /\ run[p].stage = "mails" => run[p].lead \in Leads[job] \ run[p].leads

WorkersMailOnce ==
    /\ \A p \in Processes : run[p].stage # "idle" => p \in Workers
    /\ \A p \in Processes : run[p].stage # "idle" /\ run[p].today = day => p \in ran
    /\ \A p \in Processes : ToMail(p) \cap mailed = {}
    /\ \A mail \in mailed : mail[3] <= day /\ (mail[3] = day => ran # {})
    /\ ran \subseteq Workers

\* Whom a job that was started on day d has to e-mail, and nothing has been heard of.
DueAreAccountedFor ==
    \A m \in Members, d \in 0..day : \A l \in Leads[job] :
        (d < day \/ started[d] > 0) /\ date[m] # None /\ date[m] = d + l =>
            \/ <<m, l, d>> \in mailed \cup missed
            \/ \E p \in Processes : <<m, l, d>> \in ToMail(p)

EmailsInv ==
    /\ TypeOK /\ RunsAreInTime
    /\ forced = 0 /\ Cardinality(Workers) <= 1 => WorkersMailOnce /\ again = {}
    /\ moved = 0 => DueAreAccountedFor
    /\ DueAreMailed
===============================================================================

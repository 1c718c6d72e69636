---------------------------- MODULE ServiceBilling ----------------------------
(***************************************************************************)
(* One service the organisation pays for (a domain, a server): its         *)
(* statuses recomputed by three updates whenever it is listed, renewals    *)
(* that read the document and save it, edits by hand, and the daily        *)
(* reminders.  Time is counted in days, and the renewals by the calendar.  *)
(***************************************************************************)
EXTENDS Integers, Sequences

CONSTANTS Renewers,     \* administrators renewing
          Runs,         \* runs that list the service or remind of it
          Months,       \* bound: months of the calendar
          MonthStart,   \* first day of each month, and of the one after the last
          Shortest, Longest,   \* days of the shortest and the longest month
          CycleMonths,  \* 1, 3, 6, 12 or 24 in the code
          Soon,         \* 7 in the code
          ReminderDays,
          MaxDay, MaxRenewals, MaxEdits, MaxRuns

LastDay == MonthStart[Months] - 1

\* The months follow each other; the days that the longest has more than the
\* shortest fit into any month.
Calendar ==
    /\ MonthStart \in [0..Months -> Nat] /\ MonthStart[0] = 0
    /\ Shortest \in Nat /\ Longest \in Nat /\ Longest <= 2 * Shortest
    /\ \A m \in 0..Months-1 : MonthStart[m + 1] <= MonthStart[m] + Longest
    /\ \A m, n \in 0..Months : m < n => MonthStart[m] + Shortest <= MonthStart[n]
    /\ \A d \in 0..LastDay : \E m \in 0..Months-1 : MonthStart[m] <= d /\ d < MonthStart[m + 1]

BillingAssumption ==
    /\ Renewers # {} /\ Runs # {}
    /\ Months \in Nat \ {0} /\ Calendar
    /\ CycleMonths \in Nat \ {0} /\ Soon \in Nat /\ ReminderDays \in Nat
    /\ MaxDay \in Nat /\ MaxRenewals \in Nat /\ MaxEdits \in Nat /\ MaxRuns \in Nat
    /\ MaxDay + Soon + 1 <= LastDay

VARIABLES day,
          service,      \* the document
          renewing,     \* what each renewal read
          run,          \* what each run does, and what it read
          reminders,    \* the days reminders were e-mailed on
          course,       \* the date last set by hand, the history then, and
                        \* whether a renewal under way had read the one before
          overlap,      \* renewals overlapped since
          doubled,      \* reminders whose runs overlapped or broke off
          edits, runs

vars == <<day, service, renewing, run, reminders, course, overlap, doubled, edits, runs>>
-----------------------------------------------------------------------------
Statuses == {"active", "expiring_soon", "expired", "cancelled", "suspended"}
Never == 0 - 1

\* history: the number of entries.
Service == [active : BOOLEAN, status : Statuses, renewal : 0..LastDay,
            reminded : Never..MaxDay, history : 0..MaxRenewals]

IdleRun == [stage |-> "idle", kind |-> "list", day |-> 0, renewal |-> 0, reminded |-> Never]

TypeOK ==
    /\ day \in 0..MaxDay
    /\ service \in Service
    /\ renewing \in [Renewers -> {Never} \cup 0..LastDay]
    /\ run \in [Runs -> [stage : {"idle", "expire", "soon", "activate", "find", "send", "mark"},
                         kind : {"list", "remind"}, day : 0..MaxDay,
                         renewal : 0..LastDay, reminded : Never..MaxDay]]
    /\ reminders \in Seq(0..MaxDay)
    /\ course \in [date : 0..LastDay, history : 0..MaxRenewals, crossed : BOOLEAN]
    /\ overlap \in BOOLEAN /\ doubled \in BOOLEAN
    /\ edits \in 0..MaxEdits /\ runs \in 0..MaxRuns

\* create(): active, with no renewals yet, and any date of the first month.
Init ==
    /\ day = 0
    /\ \E date \in 0..MonthStart[1]-1 :
         /\ service = [active |-> TRUE, status |-> "active", renewal |-> date,
                       reminded |-> Never, history |-> 0]
         /\ course = [date |-> date, history |-> 0, crossed |-> FALSE]
    /\ renewing = [a \in Renewers |-> Never]
    /\ run = [r \in Runs |-> IdleRun]
    /\ reminders = <<>>
    /\ overlap = FALSE /\ doubled = FALSE
    /\ edits = 0 /\ runs = 0

Renewing == \E a \in Renewers : renewing[a] # Never
Reminding(r) == run[r].stage \in {"send", "mark"}
-----------------------------------------------------------------------------
(* Renewals and edits. *)

ReadService(a) ==
    /\ renewing[a] = Never
    /\ service.history < MaxRenewals
    /\ overlap' = (overlap \/ Renewing)
    /\ renewing' = [renewing EXCEPT ![a] = service.renewal]
    /\ UNCHANGED <<day, service, run, reminders, course, doubled, edits, runs>>

MonthOf(d) == CHOOSE m \in 0..Months-1 : MonthStart[m] <= d /\ d < MonthStart[m + 1]
DayOfMonth(d) == d - MonthStart[MonthOf(d)]

\* Mutant of NextRenewal: the cycle counts from today.
NextRenewalFromToday(renewal) == MonthStart[MonthOf(day) + CycleMonths] + DayOfMonth(day)

\* setMonth or setFullYear on the renewal date that was read: the same day of
\* the month a cycle later, counted on into the next where there is no such day.
NextRenewal(renewal) == MonthStart[MonthOf(renewal) + CycleMonths] + DayOfMonth(renewal)

\* save() pushes to the history and sets the dates and the status.
QuickRenewService(a) ==
    /\ renewing[a] # Never
    /\ service.history < MaxRenewals
    /\ MonthOf(renewing[a]) + CycleMonths + 1 < Months
    /\ service' = [service EXCEPT !.history = @ + 1, !.status = "active",
                                  !.renewal = NextRenewal(renewing[a])]
    /\ renewing' = [renewing EXCEPT ![a] = Never]
    /\ UNCHANGED <<day, run, reminders, course, overlap, doubled, edits, runs>>

\* The course starts anew from a date set by hand, unless a renewal that read
\* the date before is still to be saved.
SetByHand(date, history, others) ==
    /\ course' = [date |-> date, history |-> history,
                  crossed |-> \E b \in others : renewing[b] # Never]
    /\ overlap' = FALSE

\* renewService takes the new date from the administrator.
RenewService(a) ==
    /\ renewing[a] # Never
    /\ service.history < MaxRenewals
    /\ edits < MaxEdits
    /\ edits' = edits + 1
    /\ \E date \in {day + 1, day + Soon + 1} :
         /\ service' = [service EXCEPT !.history = @ + 1, !.status = "active", !.renewal = date]
         /\ SetByHand(date, service.history + 1, Renewers \ {a})
    /\ renewing' = [renewing EXCEPT ![a] = Never]
    /\ UNCHANGED <<day, run, reminders, doubled, runs>>

RenewalBreaksOff(a) ==
    /\ renewing[a] # Never
    /\ renewing' = [renewing EXCEPT ![a] = Never]
    /\ UNCHANGED <<day, service, run, reminders, course, overlap, doubled, edits, runs>>

\* update() writes what the form sends: a date, or a status.
UpdateDate ==
    /\ edits < MaxEdits
    /\ edits' = edits + 1
    /\ \E date \in {day + 1, day + Soon + 1} :
         /\ service' = [service EXCEPT !.renewal = date]
         /\ SetByHand(date, service.history, Renewers)
    /\ UNCHANGED <<day, run, renewing, reminders, doubled, runs>>

UpdateStatus ==
    /\ edits < MaxEdits
    /\ edits' = edits + 1
    /\ \E status \in {"cancelled", "suspended"} :
         service' = [service EXCEPT !.status = status]
    /\ UNCHANGED <<day, run, renewing, reminders, course, overlap, doubled, runs>>

\* remove() hides the document.
Remove ==
    /\ edits < MaxEdits
    /\ edits' = edits + 1
    /\ service' = [service EXCEPT !.active = FALSE]
    /\ UNCHANGED <<day, run, renewing, reminders, course, overlap, doubled, runs>>
-----------------------------------------------------------------------------
(* updateStatuses: three updateMany, for the moment the call began. *)

Begin(r, kind) ==
    /\ run[r].stage = "idle"
    /\ runs < MaxRuns
    /\ runs' = runs + 1
    /\ run' = [run EXCEPT ![r] = [IdleRun EXCEPT !.stage = "expire", !.kind = kind, !.day = day]]
    /\ UNCHANGED <<day, service, renewing, reminders, course, overlap, doubled, edits>>

\* The handlers that bring the statuses up to date before they read.  The report
\* of a year reads without doing so.
FindAll(r) == Begin(r, "list")
GetStatistics(r) == Begin(r, "list")
GetExpiringServicesPreview(r) == Begin(r, "list")
GenerateExpiringServicesInvoicePdf(r) == Begin(r, "list")
SendExpiringServicesInvoice(r) == Begin(r, "list")
SendRenewalReminders(r) == Begin(r, "remind")

MarkExpired(s, now) ==
    IF s.active /\ s.renewal < now /\ s.status # "cancelled"
    THEN [s EXCEPT !.status = "expired"] ELSE s

\* What was marked expired stays so, even with its date moved to the next days.
MarkExpiringSoon(s, now) ==
    IF s.active /\ s.renewal \in now..now + Soon /\ s.status \notin {"cancelled", "expired"}
    THEN [s EXCEPT !.status = "expiring_soon"] ELSE s

MarkActive(s, now) ==
    IF s.active /\ s.renewal > now + Soon /\ s.status \notin {"cancelled", "suspended"}
    THEN [s EXCEPT !.status = "active"] ELSE s

Step(r, stage, next, marked) ==
    /\ run[r].stage = stage
    /\ service' = marked
    /\ run' = [run EXCEPT ![r].stage = next]
    /\ UNCHANGED <<day, renewing, reminders, course, overlap, doubled, edits, runs>>

Expire(r) == Step(r, "expire", "soon", MarkExpired(service, run[r].day))
ExpireSoon(r) == Step(r, "soon", "activate", MarkExpiringSoon(service, run[r].day))
Activate(r) == Step(r, "activate", "find", MarkActive(service, run[r].day))
-----------------------------------------------------------------------------
(* Reading. *)

\* findAll, the statistics, the preview and the invoice answer with what they
\* find; the reminders keep it.
Find(r) ==
    LET reads == run[r].kind = "remind" /\ service.active IN
    /\ run[r].stage = "find"
    /\ run' = [run EXCEPT ![r] = IF reads
           THEN [@ EXCEPT !.stage = "send", !.renewal = service.renewal,
                          !.reminded = service.reminded]
           ELSE IdleRun]
    /\ doubled' = (doubled \/ (reads /\ \E q \in Runs \ {r} : Reminding(q)))
    /\ UNCHANGED <<day, service, renewing, reminders, course, overlap, edits, runs>>

\* On the one day before the renewal, and not within 24 hours of the last, nor
\* before it: a run that began earlier finds a negative number of hours.
IsDue(r) == /\ run[r].renewal - run[r].day = ReminderDays
            /\ run[r].reminded < run[r].day

SendReminder(r) ==
    /\ run[r].stage = "send" /\ IsDue(r)
    /\ Len(reminders) < MaxRuns
    /\ \/ reminders' = Append(reminders, run[r].day)
       \/ reminders' = reminders     \* the failed e-mail is logged and swallowed
    /\ run' = [run EXCEPT ![r].stage = "mark"]
    /\ UNCHANGED <<day, service, renewing, course, overlap, doubled, edits, runs>>

NotDue(r) ==
    /\ run[r].stage = "send" /\ ~IsDue(r)
    /\ run' = [run EXCEPT ![r] = IdleRun]
    /\ UNCHANGED <<day, service, renewing, reminders, course, overlap, doubled, edits, runs>>

\* Mutant of MarkReminded: saved only in the copy that was read.
MarkRemindedUnsaved(r) ==
    /\ run[r].stage = "mark"
    /\ run' = [run EXCEPT ![r] = IdleRun]
    /\ UNCHANGED <<day, service, renewing, reminders, course, overlap, doubled, edits, runs>>

MarkReminded(r) ==
    /\ run[r].stage = "mark"
    /\ service' = [service EXCEPT !.reminded = run[r].day]
    /\ run' = [run EXCEPT ![r] = IdleRun]
    /\ UNCHANGED <<day, renewing, reminders, course, overlap, doubled, edits, runs>>

RunBreaksOff(r) ==
    /\ run[r].stage # "idle"
    /\ doubled' = (doubled \/ Reminding(r))
    /\ run' = [run EXCEPT ![r] = IdleRun]
    /\ UNCHANGED <<day, service, renewing, reminders, course, overlap, edits, runs>>

NextDay ==
    /\ day < MaxDay
    /\ day' = day + 1
    /\ UNCHANGED <<service, renewing, run, reminders, course, overlap, doubled, edits, runs>>
-----------------------------------------------------------------------------
Next ==
    \/ \E a \in Renewers : \/ ReadService(a) \/ QuickRenewService(a)
                           \/ RenewService(a) \/ RenewalBreaksOff(a)
    \/ UpdateDate \/ UpdateStatus \/ Remove
    \/ \E r \in Runs : \/ FindAll(r) \/ GetStatistics(r) \/ GetExpiringServicesPreview(r)
                       \/ GenerateExpiringServicesInvoicePdf(r) \/ SendExpiringServicesInvoice(r)
                       \/ SendRenewalReminders(r)
                       \/ Expire(r) \/ ExpireSoon(r) \/ Activate(r) \/ Find(r)
                       \/ SendReminder(r) \/ NotDue(r) \/ MarkReminded(r) \/ RunBreaksOff(r)
    \/ NextDay

Spec == Init /\ [][Next]_vars
-----------------------------------------------------------------------------
(* From the date set last each renewal goes one cycle on, to the same day  *)
(* of the month; a day that a month does not have slips into the next, and *)
(* not again after that.  Renewals that overlap reckon from one date and   *)
(* go fewer cycles than there are entries in the history, never more; and  *)
(* a renewal that had read the date before the last undoes what was set.   *)
OnCourse(date, cycles) ==
    LET month == MonthOf(course.date) + cycles * CycleMonths IN
    \/ MonthOf(date) = month /\ DayOfMonth(date) = DayOfMonth(course.date)
    \/ MonthOf(date) = month + 1 /\ DayOfMonth(date) < Longest - Shortest

Follows(date) ==
    \E cycles \in 0..service.history - course.history :
        /\ OnCourse(date, cycles)
        /\ overlap \/ cycles = service.history - course.history

RenewalsAdvance == course.crossed \/ Follows(service.renewal)

(* No second reminder leaves on a day unless runs of the reminders         *)
(* overlapped (the job and an administrator's click) or one broke off      *)
(* between the e-mail and its note.                                        *)
RemindedOnceADay ==
    \A i, j \in DOMAIN reminders : reminders[i] = reminders[j] => i = j \/ doubled
-----------------------------------------------------------------------------
(* The invariants on which they rest.  What a renewal under way has read    *)
(* is on the course as well, and unless renewals overlapped it is the only *)
(* one.  Unless reminding runs overlapped, one at a time reminds, from the *)
(* note that is stored, and a reminder goes back to a day that is noted or *)
(* is about to be; the note only ever moves forward.                       *)

RenewsOnCourse ==
    /\ course.history <= service.history
    /\ \A a \in Renewers : renewing[a] # Never => Follows(renewing[a])
    /\ \A a, b \in Renewers :
         renewing[a] # Never /\ renewing[b] # Never => a = b \/ overlap

RemindsFromTheNote ==
    /\ \A r, q \in Runs : Reminding(r) /\ Reminding(q) => r = q
    /\ \A r \in Runs :
         /\ run[r].stage = "send" => run[r].reminded = service.reminded
         /\ run[r].stage = "mark" => service.reminded < run[r].day
    /\ \A i \in DOMAIN reminders :
         \/ reminders[i] <= service.reminded
         \/ \E r \in Runs : run[r].stage = "mark" /\ reminders[i] <= run[r].day

BillingInv ==
    /\ TypeOK
    /\ RenewalsAdvance /\ (course.crossed \/ RenewsOnCourse)
    /\ RemindedOnceADay /\ (doubled \/ RemindsFromTheNote)
=============================================================================

---------------------------- MODULE OfficeServices ----------------------------
(***************************************************************************)
(* The services of the office: renewals of services, reminders and daily   *)
(* e-mails, volunteers, members' cases, listings, content, invoices and    *)
(* backups.  Services adds those of the members and chooses one at a time. *)
(* The variables are slots, which every service uses for its own; A and B  *)
(* are the members, calls, documents, ... that are interchangeable in a    *)
(* service.                                                                *)
(***************************************************************************)
EXTENDS Integers

CONSTANTS
  A, B, ann, admin, none,
  \* ServiceBilling
  Months, MonthStart, Shortest, Longest, CycleMonths, Soon, ReminderDays,
  MaxRenewals, MaxRuns,
  \* EventReminders and ScheduledEmails
  Limit, MaxReminders, Processes, Workers, Leads, MaxForced,
  \* Volunteering
  MaxVolunteers,
  \* Content, Invoices, Listings and Backups
  MaxRequested, Totals, Amounts, PageSize, Keep, MaxBackups, MaxLists,
  \* bounds that services share
  MaxDay, MaxEdits, MaxCalls, MaxChanges, MaxFaults

VARIABLES v1, v2, v3, v4, v5, v6, v7, v8, v9, v10, v11, v12, v13, v14
-----------------------------------------------------------------------------
Bills == INSTANCE ServiceBilling WITH
    day <- v1, service <- v2, renewing <- v3, run <- v4, reminders <- v5,
    course <- v6, overlap <- v7, doubled <- v8, edits <- v9, runs <- v10,
    Renewers <- A, Runs <- B
ASSUME ServiceBillingAssumed == Bills!BillingAssumption

Remind == INSTANCE EventReminders WITH
    reminder <- v1, preferences <- v2, eventThere <- v3, run <- v4, inApp <- v5,
    delivered <- v6, repeated <- v7, abandoned <- v8, unwanted <- v9,
    changes <- v10, faults <- v11, left <- v12, doubted <- v13, Runs <- A
ASSUME EventRemindersAssumed == Remind!RemindersAssumption

Daily == INSTANCE ScheduledEmails WITH
    day <- v1, job <- v2, date <- v3, run <- v4, ran <- v5, mailed <- v6,
    again <- v7, missed <- v8, started <- v9, moved <- v10, forced <- v11,
    Members <- {ann}
ASSUME ScheduledEmailsAssumed == Daily!ScheduledEmailsAssumption

Jobs == INSTANCE Volunteering WITH
    shift <- v1, applicants <- v2, candidates <- v3, closing <- v4, active <- v5,
    call <- v6, marked <- v7, crowded <- v8, shifted <- v9, twice <- v10,
    calls <- v11, Members <- A \cup {ann}, Calls <- B
ASSUME VolunteeringAssumed == Jobs!VolunteeringAssumption

Cases == INSTANCE Casework WITH
    kind <- v1, doc <- v2, template <- v3, send <- v4, mailed <- v5, begun <- v6,
    changes <- v7, faults <- v8, Members <- A, Sends <- B
ASSUME CaseworkAssumed == Cases!CaseworkAssumption

\* The documents that a listing may show.
Documents == A \cup {ann}

Lists == INSTANCE Listings WITH
    listing <- v1, key <- v2, group <- v3, reader <- v4, added <- v5,
    removed <- v6, moved <- v7, steady <- v8, changes <- v9, Docs <- Documents,
    Limit <- PageSize
ASSUME ListingsAssumed == Lists!ListingsAssumption

Content == INSTANCE Content WITH
    kind <- v1, doc <- v2, source <- v3, call <- v4, overlapped <- v5, told <- v6,
    answered <- v7, calls <- v8, faults <- v9, Member <- ann, Admin <- admin,
    Members <- A, Calls <- B, None <- none, MaxCalls <- MaxRequested
ASSUME ContentAssumed == Content!ContentAssumption

Invoices == INSTANCE Invoices WITH
    invoice <- v1, form <- v2, payment <- v3, given <- v4, outOfTurn <- v5,
    disturbed <- v6, edits <- v7, undone <- v8, decided <- v9, Invoices <- A, Payments <- B, None <- none
ASSUME InvoicesAssumed == Invoices!InvoicesAssumption

Backups == INSTANCE Backups WITH
    cloud <- v1, made <- v2, byHand <- v3, memory <- v4, listing <- v5, call <- v6,
    tangled <- v7, lists <- v8, faults <- v9, Calls <- A
ASSUME BackupsAssumed == Backups!BackupsAssumption
===============================================================================

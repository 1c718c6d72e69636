---------------------------- MODULE EventReminders ----------------------------
(***************************************************************************)
(* A member's reminder of an event, delivered by a job that runs every     *)
(* minute: a run lists what is due, claims each reminder by setting "sent" *)
(* and takes the claim back where it knows of no channel that delivered.   *)
(***************************************************************************)
EXTENDS Naturals

CONSTANTS Runs,
          Limit,        \* 5 attempts in the code
          MaxReminders, \* reminders the member makes, one after the other
          MaxChanges,   \* changes of the preferences, and the event deleted
          MaxFaults     \* runs cut off

RemindersAssumption ==
    /\ Runs # {}
    /\ Limit \in Nat \ {0}
    /\ MaxReminders \in Nat /\ MaxChanges \in Nat /\ MaxFaults \in Nat

VARIABLES reminder,     \* the document
          preferences,  \* notificationPreferences of the member
          eventThere,
          run,          \* what each run of the job does
          inApp,        \* reminders with an item in the app
          left,         \* reminders that a channel took, whatever the run was told
          delivered,    \* reminders a run saw delivered
          doubted,      \* reminders taken by a channel whose run was told otherwise
          repeated,     \* reminders that left again in a later run
          abandoned,    \* reminders whose run was cut off after its claim
          unwanted,     \* reminders whose member wanted no channel when they were listed
          changes, faults

vars == <<reminder, preferences, eventThere, run, inApp, left, delivered, doubted, repeated,
          abandoned, unwanted, changes, faults>>
-----------------------------------------------------------------------------
Channels == {"push", "email"}
Methods == {{"push"}, {"email"}, Channels}
Settings == [push : BOOLEAN, email : BOOLEAN, reminders : BOOLEAN]
NoReminder == [id |-> 0, method |-> {}, due |-> FALSE, sent |-> FALSE, attempts |-> 0]
IdleRun == [stage |-> "idle", id |-> 0, wanted |-> {}, eventThere |-> TRUE, took |-> {}]
Ids == 1..MaxReminders

TypeOK ==
    /\ reminder \in [id : 0..MaxReminders, method : Methods \cup {{}}, due : BOOLEAN,
                     sent : BOOLEAN, attempts : Nat]
    /\ preferences \in Settings
    /\ eventThere \in BOOLEAN
    /\ run \in [Runs -> [stage : {"idle", "claim", "item", "push", "email", "judge", "release"},
                         id : 0..MaxReminders, wanted : SUBSET Channels,
                         eventThere : BOOLEAN, took : SUBSET Channels]]
    /\ inApp \subseteq Ids /\ delivered \subseteq Ids /\ repeated \subseteq Ids
    /\ left \subseteq Ids /\ doubted \subseteq Ids
    /\ abandoned \subseteq Ids /\ unwanted \subseteq Ids
    /\ changes \in 0..MaxChanges /\ faults \in 0..MaxFaults

Init ==
    /\ reminder = NoReminder
    /\ preferences = [push |-> TRUE, email |-> TRUE, reminders |-> TRUE]
    /\ eventThere = TRUE
    /\ run = [r \in Runs |-> IdleRun]
    /\ inApp = {} /\ left = {} /\ delivered = {} /\ doubted = {} /\ repeated = {}
    /\ abandoned = {} /\ unwanted = {}
    /\ changes = 0 /\ faults = 0

There(r) == reminder.id = run[r].id
GoTo(r, stage) == run' = [run EXCEPT ![r].stage = stage]
Sending == <<left, doubted, repeated>>
Outcome == <<inApp, delivered, abandoned, unwanted, Sending>>
World == <<preferences, eventThere, changes, faults>>
-----------------------------------------------------------------------------
(* The member's calls. *)

\* createEventReminder: the date lies between now and the event, and the index
\* allows one reminder of an event.
CreateReminder(id) ==
    /\ eventThere
    /\ reminder.id = 0 /\ id \notin inApp \cup left \cup delivered \cup abandoned \cup unwanted
    /\ \A r \in Runs : run[r].id # id
    /\ \E method \in Methods :
         reminder' = [NoReminder EXCEPT !.id = id, !.method = method]
    /\ UNCHANGED <<run, Outcome, World>>

DeleteReminder ==
    /\ reminder.id # 0
    /\ reminder' = NoReminder
    /\ UNCHANGED <<run, Outcome, World>>

UpdatePreferences ==
    /\ changes < MaxChanges
    /\ changes' = changes + 1
    /\ preferences' \in Settings
    /\ UNCHANGED <<reminder, eventThere, run, Outcome, faults>>

RemoveEvent ==
    /\ changes < MaxChanges
    /\ changes' = changes + 1
    /\ eventThere' = FALSE
    /\ UNCHANGED <<reminder, preferences, run, Outcome, faults>>

BecomesDue ==
    /\ reminder.id # 0 /\ ~reminder.due
    /\ reminder' = [reminder EXCEPT !.due = TRUE]
    /\ UNCHANGED <<run, Outcome, World>>
-----------------------------------------------------------------------------
(* deliverDueEventReminders. *)

\* The channels of the method that the member wants; none without reminders.
Wanted == {c \in reminder.method : preferences[c] /\ preferences.reminders}

\* populate() brings the event and the preferences with the list.
ListDue(r) ==
    /\ run[r].stage = "idle"
    /\ reminder.due /\ ~reminder.sent /\ reminder.attempts < Limit
    /\ run' = [run EXCEPT ![r] = [stage |-> "claim", id |-> reminder.id, wanted |-> Wanted,
                                  eventThere |-> eventThere, took |-> {}]]
    /\ UNCHANGED <<reminder, Outcome, World>>

Claimable(r) == There(r) /\ ~reminder.sent

Claim(r) ==
    /\ run[r].stage = "claim" /\ Claimable(r)
    /\ reminder' = [reminder EXCEPT !.sent = TRUE, !.attempts = @ + 1]
    /\ IF run[r].eventThere /\ run[r].wanted = {}
       THEN /\ run' = [run EXCEPT ![r] = IdleRun]
            /\ unwanted' = unwanted \cup {run[r].id}
       ELSE /\ GoTo(r, IF run[r].eventThere THEN "item" ELSE "release")
            /\ unwanted' = unwanted
    /\ UNCHANGED <<inApp, delivered, abandoned, Sending, World>>

ClaimLost(r) ==
    /\ run[r].stage = "claim" /\ ~Claimable(r)
    /\ run' = [run EXCEPT ![r] = IdleRun]
    /\ UNCHANGED <<reminder, Outcome, World>>

\* The type id of the item makes it one, however often it is created.
CreateItem(r) ==
    /\ run[r].stage = "item"
    /\ inApp' = inApp \cup {run[r].id}
    /\ GoTo(r, "push")
    /\ UNCHANGED <<reminder, delivered, abandoned, unwanted, Sending, World>>

\* A channel takes the reminder: again, if it did so in an earlier run.
Leaves(r) ==
    /\ left' = left \cup {run[r].id}
    /\ repeated' = IF run[r].id \in left /\ run[r].took = {}
                   THEN repeated \cup {run[r].id} ELSE repeated

\* Push first, then e-mail: a channel takes it and says so; or it is not asked,
\* or refuses; or it takes it and the run goes on, at stage otherwise, as if it
\* had not: the e-mail arrives after the 30 seconds in which SMTP has to
\* answer, the push is followed by an answer that is lost, or by a token that
\* cannot be deactivated.
TryChannel(r, c, next, otherwise) ==
    /\ run[r].stage = c
    /\ \/ /\ c \in run[r].wanted
          /\ run' = [run EXCEPT ![r].stage = next, ![r].took = @ \cup {c}]
          /\ Leaves(r)
          /\ doubted' = doubted
       \/ /\ GoTo(r, next)
          /\ UNCHANGED Sending
       \/ /\ c \in run[r].wanted
          /\ GoTo(r, otherwise)
          /\ Leaves(r)
          /\ doubted' = doubted \cup {run[r].id}
    /\ UNCHANGED <<reminder, inApp, delivered, abandoned, unwanted, World>>

TryPush(r) == TryChannel(r, "push", "email", "release")
TryEmail(r) == TryChannel(r, "email", "judge", "judge")

\* The item, or the query for the tokens or Expo's answer, fails; what goes
\* wrong with an e-mail is caught where it is sent.
Throws(r) ==
    /\ run[r].stage \in {"item", "push"}
    /\ GoTo(r, "release")
    /\ UNCHANGED <<reminder, Outcome, World>>

\* Mutant of Succeeded: every channel that is wanted has to deliver.
SucceededByAll(r) == run[r].took = run[r].wanted

Succeeded(r) == run[r].took # {}

Judge(r) ==
    /\ run[r].stage = "judge"
    /\ IF Succeeded(r)
       THEN run' = [run EXCEPT ![r] = IdleRun]
       ELSE GoTo(r, "release")
    /\ delivered' = IF run[r].took # {} THEN delivered \cup {run[r].id} ELSE delivered
    /\ UNCHANGED <<reminder, inApp, abandoned, unwanted, Sending, World>>

\* The claim is taken back by _id, for the next minute to try again.
Release(r) ==
    /\ run[r].stage = "release"
    /\ reminder' = IF There(r) THEN [reminder EXCEPT !.sent = FALSE] ELSE reminder
    /\ run' = [run EXCEPT ![r] = IdleRun]
    /\ UNCHANGED <<Outcome, World>>

\* The process stops, or taking the claim back fails.
RunStops(r) ==
    /\ run[r].stage # "idle"
    /\ faults < MaxFaults
    /\ faults' = faults + 1
    /\ abandoned' = IF run[r].stage = "claim" THEN abandoned ELSE abandoned \cup {run[r].id}
    /\ run' = [run EXCEPT ![r] = IdleRun]
    /\ UNCHANGED <<reminder, inApp, delivered, unwanted, Sending, preferences, eventThere, changes>>
-----------------------------------------------------------------------------
Next ==
    \/ \E id \in Ids : CreateReminder(id)
    \/ DeleteReminder \/ UpdatePreferences \/ RemoveEvent \/ BecomesDue
    \/ \E r \in Runs :
         \/ ListDue(r) \/ Claim(r) \/ ClaimLost(r) \/ CreateItem(r)
         \/ TryPush(r) \/ TryEmail(r)
         \/ Throws(r) \/ Judge(r) \/ Release(r) \/ RunStops(r)

Spec == Init /\ [][Next]_vars
-----------------------------------------------------------------------------
Working(r) == run[r].id # 0 /\ run[r].stage # "claim"

(* A reminder marked sent that no run is working on was taken by a         *)
(* channel, or its member wanted none, or a run that had claimed it was    *)
(* cut off: the mark of that run is never taken back.                      *)
SentIsDelivered ==
    reminder.sent /\ (\A r \in Runs : ~(Working(r) /\ There(r))) =>
        reminder.id \in delivered \cup unwanted \cup abandoned

(* One run works on a reminder at a time, and a reminder leaves again in a *)
(* later run only where a channel took it and the earlier run was told     *)
(* that it had not, or nothing: that the claim is taken back when one of   *)
(* two channels fails, or on an error, does not by itself send it twice.   *)
RemindedOnce ==
    /\ \A r, q \in Runs : Working(r) /\ Working(q) /\ run[r].id = run[q].id => r = q
    /\ repeated \subseteq doubted
-----------------------------------------------------------------------------
(* The invariant on which both rest: what a run works on is marked, and    *)
(* neither it nor what is to be claimed yet was seen delivered; if it left *)
(* all the same, and no channel has told this run that it took it, it is   *)
(* one of the doubted.                                                     *)

RunsMark ==
    \A r \in Runs :
        /\ run[r].stage = "idle" <=> run[r].id = 0
        /\ Working(r) /\ There(r) => reminder.sent
        /\ Working(r) => run[r].id \notin delivered

LeftIsKnown ==
    /\ reminder.id \in left => reminder.sent \/ reminder.id \in doubted
    /\ \A r \in Runs :
        /\ run[r].stage \in {"claim", "item", "push", "release"} => run[r].took = {}
        /\ Working(r) /\ run[r].id \in left => run[r].took # {} \/ run[r].id \in doubted

RemindersInv ==
    /\ TypeOK
    /\ reminder.id = 0 => ~reminder.due /\ ~reminder.sent
    /\ reminder.id \in delivered => reminder.sent
    /\ RunsMark /\ LeftIsKnown /\ RemindedOnce /\ SentIsDelivered
=============================================================================

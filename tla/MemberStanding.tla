---------------------------- MODULE MemberStanding ----------------------------
(***************************************************************************)
(* The standing of one member: the transition from student to doctor and   *)
(* on to the global network, bans, deactivation and verification by        *)
(* managers, and the notification settings kept in two documents.  Every   *)
(* request is split at its calls of the database.                          *)
(***************************************************************************)
EXTENDS Naturals, FiniteSets

CONSTANTS Admins,        \* administrators, each with one request at a time
          MaxRequests,   \* transitions asked for
          MaxCompletions,
          MaxFaults

StandingAssumption ==
    /\ Admins # {}
    /\ MaxRequests \in Nat /\ MaxCompletions \in Nat /\ MaxFaults \in Nat

VARIABLES member,        \* the user document
          transition,    \* the transition document
          completion,    \* updateTransitionStatus of each administrator
          ban,           \* banMember under way
          verification,  \* verifyMember under way
          settings,      \* the settings document
          saving,        \* updateSettings of two devices
          requests,      \* transition documents made
          completions,
          promotions,    \* changes of the member's role
          disturbed,     \* a completion overlapped another, or broke off
          faults

vars == <<member, transition, completion, ban, verification, settings, saving, requests,
          completions, promotions, disturbed, faults>>
-----------------------------------------------------------------------------
Roles == {"Student", "Doctor", "GlobalNetwork"}
Clients == {"phone", "web"}

NoTransition == [id |-> 0, form |-> 0, status |-> "none"]
IdleCompletion == [stage |-> "idle", id |-> 0, form |-> 0, role |-> "Student"]

TypeOK ==
    /\ member \in [role : Roles, form : Nat, banned : BOOLEAN, active : BOOLEAN,
                   verified : BOOLEAN, told : BOOLEAN, welcomed : BOOLEAN,
                   preference : BOOLEAN]
    /\ transition \in [id : 0..MaxRequests, form : 0..MaxRequests + 1,
                       status : {"none", "pending", "completed", "failed"}]
    /\ completion \in [Admins -> [stage : {"idle", "populate", "promote", "delete"},
                                  id : 0..MaxRequests, form : 0..MaxRequests + 1, role : Roles]]
    /\ ban \in {"idle", "logBan", "logUnban"}
    /\ verification \in {"idle", "log"}
    /\ settings \in BOOLEAN
    /\ saving \in [Clients -> {"idle", "on", "off"}]
    /\ requests \in 0..MaxRequests /\ completions \in 0..MaxCompletions
    /\ promotions \in Nat /\ faults \in 0..MaxFaults
    /\ disturbed \in BOOLEAN

Init ==
    /\ member = [role |-> "Student", form |-> 0, banned |-> FALSE, active |-> TRUE,
                 verified |-> FALSE, told |-> FALSE, welcomed |-> FALSE,
               preference |-> TRUE]
    /\ transition = NoTransition
    /\ completion = [a \in Admins |-> IdleCompletion]
    /\ ban = "idle" /\ verification = "idle"
    /\ settings = TRUE
    /\ saving = [d \in Clients |-> "idle"]
    /\ requests = 0 /\ completions = 0 /\ promotions = 0 /\ faults = 0
    /\ disturbed = FALSE

Standing == <<ban, verification, settings, saving>>
-----------------------------------------------------------------------------
(* Transitions. *)

\* createTransition upserts by the member: an open request is overwritten and
\* keeps its status.
CreateTransition ==
    /\ requests < MaxRequests
    /\ transition.id = 0
    /\ requests' = requests + 1
    /\ transition' = [id |-> requests + 1, form |-> 0, status |-> "pending"]
    /\ UNCHANGED <<member, completion, completions, promotions, disturbed, faults, Standing>>

EditTransition ==
    /\ transition.id # 0 /\ transition.form = 0
    /\ transition' = [transition EXCEPT !.form = 1]
    /\ UNCHANGED <<member, completion, requests, completions, promotions, disturbed, faults, Standing>>

\* Mutant of Found: the request is gone, and the member is promoted all the same.
FoundOnce(id) == id # 0

\* findByIdAndUpdate on the id the administrator saw returns null once it is gone.
Found(id) == transition.id = id

\* updateTransitionStatus writes the status first.
CompleteTransition(a, id) ==
    /\ completion[a].stage = "idle"
    /\ completions < MaxCompletions
    /\ Found(id)
    /\ completions' = completions + 1
    /\ transition' = IF transition.id = id
                     THEN [transition EXCEPT !.status = "completed"] ELSE transition
    /\ completion' = [completion EXCEPT ![a] =
           [stage |-> "populate", id |-> id, form |-> transition.form, role |-> "Student"]]
    /\ disturbed' = (disturbed \/ \E b \in Admins : completion[b].stage # "idle")
    /\ UNCHANGED <<member, requests, promotions, faults, Standing>>

FailTransition(a) ==
    /\ completion[a].stage = "idle"
    /\ transition.id # 0
    /\ transition' = [transition EXCEPT !.status = "failed"]
    /\ UNCHANGED <<member, completion, requests, completions, promotions, disturbed, faults, Standing>>

\* populate() reads the member's role.
PopulateUser(a) ==
    /\ completion[a].stage = "populate"
    /\ completion' = [completion EXCEPT ![a].stage = "promote", ![a].role = member.role]
    /\ UNCHANGED <<member, transition, requests, completions, promotions, disturbed, faults, Standing>>

Promoted(role) == IF role = "Student" THEN "Doctor" ELSE "GlobalNetwork"

\* The role that follows the one read, with the form as it was then.
Promote(a) ==
    /\ completion[a].stage = "promote"
    /\ member' = [member EXCEPT !.role = Promoted(completion[a].role),
                                !.form = completion[a].form]
    /\ promotions' = IF member'.role # member.role THEN promotions + 1 ELSE promotions
    /\ completion' = [completion EXCEPT ![a].stage = "delete"]
    /\ UNCHANGED <<transition, requests, completions, disturbed, faults, Standing>>

\* findByIdAndDelete takes the member's later edits with it; the e-mail follows.
DeleteTransition(a) ==
    /\ completion[a].stage = "delete"
    /\ transition' = IF transition.id = completion[a].id THEN NoTransition ELSE transition
    /\ completion' = [completion EXCEPT ![a] = IdleCompletion]
    /\ UNCHANGED <<member, requests, completions, promotions, disturbed, faults, Standing>>

CompletionBreaksOff(a) ==
    /\ completion[a].stage # "idle"
    /\ faults < MaxFaults
    /\ faults' = faults + 1
    /\ completion' = [completion EXCEPT ![a] = IdleCompletion]
    /\ disturbed' = TRUE
    /\ UNCHANGED <<member, transition, requests, completions, promotions, Standing>>

Transitions == <<transition, completion, requests, completions, promotions, disturbed, faults>>
-----------------------------------------------------------------------------
(* Moderation. *)

\* banMember writes the ban, whose lifting also reactivates the member.
WriteBan(banned) ==
    /\ ban = "idle"
    /\ member' = [member EXCEPT !.banned = banned, !.active = ~banned, !.told = FALSE]
    /\ ban' = IF banned THEN "logBan" ELSE "logUnban"
    /\ UNCHANGED <<verification, settings, saving, Transitions>>

\* communicationLogModel.create: the schema's types of a log.
LogTypes == {"email", "phone", "sms", "whatsapp", "in-person", "other"}

\* The log of the ban has the type "moderation", and no manager, as a user of a
\* request has no _id: a validation error ends the call before the e-mail to the
\* member.
LogBan ==
    /\ ban \in {"logBan", "logUnban"}
    /\ ban' = "idle"
    /\ member' = [member EXCEPT !.told = @ \/ ("moderation" \in LogTypes /\ ban = "logBan")]
    /\ UNCHANGED <<verification, settings, saving, Transitions>>

DeactivateMember ==
    /\ member' = [member EXCEPT !.active = ~@]
    /\ UNCHANGED <<ban, verification, settings, saving, Transitions>>

WriteVerification(verified) ==
    /\ verification = "idle"
    /\ member' = [member EXCEPT !.verified = verified]
    /\ verification' = "log"
    /\ UNCHANGED <<ban, settings, saving, Transitions>>

\* Of the type "verification": no log, and no welcome e-mail.
LogVerification ==
    /\ verification = "log"
    /\ verification' = "idle"
    /\ member' = [member EXCEPT !.welcomed = @ \/ ("verification" \in LogTypes /\ member.verified)]
    /\ UNCHANGED <<ban, settings, saving, Transitions>>
-----------------------------------------------------------------------------
(* Settings: the document first, then the copy in the member. *)

UpsertSettings(d, value) ==
    /\ saving[d] = "idle"
    /\ settings' = (value = "on")
    /\ saving' = [saving EXCEPT ![d] = value]
    /\ UNCHANGED <<member, ban, verification, Transitions>>

CopySettings(d) ==
    /\ saving[d] # "idle"
    /\ member' = [member EXCEPT !.preference = (saving[d] = "on")]
    /\ saving' = [saving EXCEPT ![d] = "idle"]
    /\ UNCHANGED <<ban, verification, settings, Transitions>>
-----------------------------------------------------------------------------
Next ==
    \/ CreateTransition \/ EditTransition
    \/ \E a \in Admins :
         \/ \E id \in 1..MaxRequests : CompleteTransition(a, id)
         \/ FailTransition(a) \/ PopulateUser(a) \/ Promote(a)
         \/ DeleteTransition(a) \/ CompletionBreaksOff(a)
    \/ \E banned \in BOOLEAN : WriteBan(banned)
    \/ LogBan \/ DeactivateMember
    \/ \E verified \in BOOLEAN : WriteVerification(verified)
    \/ LogVerification
    \/ \E d \in Clients : \/ \E value \in {"on", "off"} : UpsertSettings(d, value)
                          \/ CopySettings(d)

Spec == Init /\ [][Next]_vars
-----------------------------------------------------------------------------
(* A request for transition promotes the member once.  A student who asked *)
(* once is never in the global network unless two completions overlapped,  *)
(* the second having read the role the first wrote, or one broke off       *)
(* before it deleted the request and was repeated.                         *)
PromotedOnce == promotions > requests => disturbed
-----------------------------------------------------------------------------
(* The invariant on which it rests: while nothing is disturbed, one        *)
(* completion at a time works on the request that is there, and a request  *)
(* that is there and not about to be deleted has promoted nobody yet.      *)

Completing(a) == completion[a].stage # "idle"

OneCompletion == \A a, b \in Admins : Completing(a) /\ Completing(b) => a = b

CompletesTheRequest ==
    \A a \in Admins : Completing(a) => transition.id # 0 /\ completion[a].id = transition.id

Promotes == transition.id # 0 /\ \A a \in Admins : completion[a].stage # "delete"

PromotionsAreAskedFor == promotions <= requests /\ (Promotes => promotions < requests)

StandingInv ==
    /\ TypeOK
    /\ disturbed \/ (OneCompletion /\ CompletesTheRequest /\ PromotionsAreAskedFor)
=============================================================================

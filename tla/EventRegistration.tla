-------------------------- MODULE EventRegistration --------------------------
(***************************************************************************)
(* Registration for an event or a conference: payForEvent checks the       *)
(* member, keeps the form in a draft for two hours and opens a checkout;   *)
(* the member's return (confirm-payment) or Paystack's webhook verifies    *)
(* the payment, reads the draft back and registers the member.  Meanwhile  *)
(* drafts expire, administrators edit or delete the event, its             *)
(* registration closes and subscriptions lapse.                            *)
(***************************************************************************)
EXTENDS Naturals, Sequences, FiniteSets

CONSTANTS Members,
          Checkouts,    \* numbered in the order they are made
          Setups,       \* the kind of event, and whose the checkouts are
          MaxRequests,  \* requests of members while others are under way
          MaxChanges,   \* edits, lapses and expiries
          MaxFaults     \* confirmations that break off

ASSUME EventAssumption ==
    /\ Checkouts \subseteq Nat \ {0}
    /\ MaxRequests \in Nat /\ MaxChanges \in Nat /\ MaxFaults \in Nat
    /\ Setups \subseteq
         [conference : BOOLEAN, paid : BOOLEAN,
          owner : [Checkouts -> Members], paypal : SUBSET Members]

VARIABLES setup,
          event,        \* the document, without its registrations
          registered,   \* registeredUsers
          subscribed,   \* members with a subscription
          draft,        \* the registration draft of each member
          checkout,     \* the transaction or order at the provider
          call,         \* confirmations and free registrations under way
          cancelled,    \* members told that the event is cancelled
          expired,      \* checkouts whose draft expired
          refused,      \* charged checkouts a confirmation of which was refused
          overlap,      \* members two of whose registrations overlapped
          changes, faults

vars == <<setup, event, registered, subscribed, draft, checkout, call, cancelled,
          expired, refused, overlap, changes, faults>>
-----------------------------------------------------------------------------
Rooms == {"none", "priced"}
\* create() gives accommodation to conferences only.
RoomsOnOffer == IF setup.conference THEN Rooms ELSE {"none"}
Periods == {"regular", "late", "closed"}

\* At most one return and one webhook per checkout, one free registration per
\* member, at a time.
Requests == (Checkouts \X {"return", "webhook"}) \cup (Members \X {"free"})

IsFree(k) == k[2] = "free"
Who(k) == IF IsFree(k) THEN k[1] ELSE setup.owner[k[1]]
Idle == [stage |-> "idle", room |-> "none", form |-> 0]

\* form: how much the registration form asks; answers to a form that asked less
\* no longer pass.
Event == [exists : BOOLEAN, period : Periods, requires : BOOLEAN, form : {0, 1}]

\* gen counts the drafts of the member: a draft is replaced by one with a new
\* _id only after it is gone.
Draft == [live : BOOLEAN, gen : Nat, room : Rooms, form : {0, 1}]

\* entitled: whether the member might register when the checkout was made.
Checkout == [state : {"none", "failed", "open", "approved", "charged"}, gen : Nat,
             room : Rooms, form : {0, 1}, entitled : BOOLEAN]

Registration == [user : Members, reference : Checkouts \cup {0}, room : Rooms,
                 period : Periods]

IsRegistered(m) == \E i \in DOMAIN registered : registered[i].user = m
Via(t) == IF setup.owner[t] \in setup.paypal THEN "paypal" ELSE "paystack"
Active(k) == call[k].stage # "idle"
MayStart(k) == ~Active(k) /\ Cardinality({j \in Requests : Active(j)}) < MaxRequests

TypeOK ==
    /\ setup \in Setups
    /\ event \in Event
    /\ registered \in Seq(Registration)
    /\ subscribed \subseteq Members
    /\ draft \in [Members -> Draft]
    /\ checkout \in [Checkouts -> Checkout]
    /\ call \in [Requests -> [stage : {"idle", "draft", "check", "save", "clean"},
                              room : Rooms, form : {0, 1}]]
    /\ cancelled \subseteq Members /\ overlap \subseteq Members
    /\ expired \subseteq Checkouts /\ refused \subseteq Checkouts
    /\ changes \in 0..MaxChanges /\ faults \in 0..MaxFaults

\* An event that create() stored and nobody has registered for.
Init ==
    /\ setup \in Setups
    /\ event \in [exists : {TRUE}, period : {"regular"}, requires : {TRUE}, form : {0}]
    /\ registered = <<>>
    /\ subscribed = Members
    /\ draft = [m \in Members |-> [live |-> FALSE, gen |-> 0, room |-> "none", form |-> 0]]
    /\ checkout = [t \in Checkouts |-> [state |-> "none", gen |-> 0, room |-> "none",
                                        form |-> 0, entitled |-> FALSE]]
    /\ call = [k \in Requests |-> Idle]
    /\ cancelled = {} /\ expired = {} /\ refused = {} /\ overlap = {}
    /\ changes = 0 /\ faults = 0
-----------------------------------------------------------------------------
(* The guards. *)

\* An event that requires a subscription takes subscribers only.
Entitled(m) == event.requires => m \in subscribed

\* Conferences register in their periods, other events at any time.
CurrentPeriod == IF setup.conference THEN event.period ELSE "regular"
Open == CurrentPeriod # "closed"

\* Answers to a form that has become stricter are refused.
ResponsesPass(form) == form = event.form

\* The fee of the member's plan and the price of the room.
AmountDue(room) == setup.paid \/ room = "priced"
-----------------------------------------------------------------------------
(* Starting a registration. *)

\* Mutant of UpsertDraft: the draft is replaced as a whole.
UpsertDraftWhole(m, room) ==
    draft' = [draft EXCEPT ![m] = [live |-> TRUE, room |-> room, form |-> event.form,
                                   gen |-> IF @.live THEN @.gen ELSE @.gen + 1]]

\* findOneAndUpdate with upsert: the member's draft is overwritten, or a new one made.
\* Without a choice the room is undefined, which $set leaves out: an earlier one stays.
UpsertDraft(m, room) ==
    draft' = [draft EXCEPT ![m] =
                [live |-> TRUE, form |-> event.form,
                 gen  |-> IF @.live THEN @.gen ELSE @.gen + 1,
                 room |-> IF room = "none" /\ @.live THEN @.room ELSE room]]

\* The notification of payForEvent to everybody registered.
NotifyCancelled ==
    cancelled' = cancelled \cup {registered[i].user : i \in DOMAIN registered}

\* Mutant of MayPay: payForEvent does not ask for the subscription.
MayPayUnsubscribed(m) == event.exists /\ ~IsRegistered(m) /\ Open

MayPay(m) == event.exists /\ Entitled(m) /\ ~IsRegistered(m) /\ Open

\* POST events/pay/:slug.  The draft is written before the amount is looked at
\* and stays when nothing is due or the provider refuses.
PayForEvent(t, room) ==
    LET m == setup.owner[t]
        made(state) == [state |-> state, gen |-> draft'[m].gen, room |-> room,
                        form |-> event.form, entitled |-> Entitled(m)] IN
    /\ checkout[t].state = "none"
    /\ \A u \in Checkouts : u < t => checkout[u].state # "none"
    /\ MayPay(m)
    /\ UpsertDraft(m, room)
    /\ \/ /\ ~AmountDue(room)
          /\ checkout' = [checkout EXCEPT ![t] = made("failed")]
          /\ UNCHANGED cancelled
       \/ /\ AmountDue(room)
          /\ \E state \in {"open", "failed"} : checkout' = [checkout EXCEPT ![t] = made(state)]
          /\ NotifyCancelled
    /\ UNCHANGED <<setup, event, registered, subscribed, call, expired, refused,
                   overlap, changes, faults>>

\* The payer pays: Paystack charges the card, PayPal waits for the capture.
Pay(t) ==
    /\ checkout[t].state = "open"
    /\ checkout' = [checkout EXCEPT ![t].state =
                      IF Via(t) = "paypal" THEN "approved" ELSE "charged"]
    /\ UNCHANGED <<setup, event, registered, subscribed, draft, call, cancelled,
                   expired, refused, overlap, changes, faults>>
-----------------------------------------------------------------------------
(* Confirming it. *)

GoTo(k, stage) == call' = [call EXCEPT ![k].stage = stage]

\* BadRequest to the member, a 500 to Paystack, which then calls again.
Refuse(k) ==
    /\ call' = [call EXCEPT ![k] = Idle]
    /\ refused' = refused \cup
         {t \in Checkouts : ~IsFree(k) /\ k[1] = t /\ checkout'[t].state = "charged"}

\* An order is captured once: a second capture fails, as one does before the
\* approval.
VerifyPaypal(k, t) ==
    /\ Via(t) = "paypal"
    /\ \/ /\ checkout[t].state = "approved"
          /\ checkout' = [checkout EXCEPT ![t].state = "charged"]
          /\ GoTo(k, "draft") /\ UNCHANGED refused
       \/ checkout[t].state # "approved" /\ UNCHANGED checkout /\ Refuse(k)

\* Any transaction Paystack knows passes, paid or not.
VerifyPaystack(k, t) ==
    /\ Via(t) = "paystack"
    /\ GoTo(k, "draft")
    /\ UNCHANGED <<checkout, refused>>

\* POST events/confirm-payment.
ConfirmPayment(t) ==
    /\ checkout[t].state \notin {"none", "failed"} /\ MayStart(<<t, "return">>)
    /\ VerifyPaypal(<<t, "return">>, t) \/ VerifyPaystack(<<t, "return">>, t)
    /\ UNCHANGED <<setup, event, registered, subscribed, draft, cancelled, expired,
                   overlap, changes, faults>>

\* charge.success from Paystack: the description of a conference is not among
\* those the controller knows.  It calls again until it is answered with success.
Webhook(t) ==
    /\ checkout[t].state = "charged" /\ ~setup.conference
    /\ ~IsRegistered(setup.owner[t]) /\ ~Active(<<t, "webhook">>)
    /\ VerifyPaystack(<<t, "webhook">>, t)
    /\ UNCHANGED <<setup, event, registered, subscribed, draft, cancelled, expired,
                   overlap, changes, faults>>

\* Mutant of FindDraft: the draft is looked up by event and user alone.
FindDraftOfUser(k) ==
    LET d == draft[Who(k)] IN
    /\ call[k].stage = "draft"
    /\ \/ /\ event.exists /\ d.live
          /\ call' = [call EXCEPT ![k] = [stage |-> "check", room |-> d.room, form |-> d.form]]
          /\ UNCHANGED refused
       \/ ~(event.exists /\ d.live) /\ UNCHANGED checkout /\ Refuse(k)
    /\ UNCHANGED <<setup, event, registered, subscribed, draft, checkout, cancelled,
                   expired, overlap, changes, faults>>

\* The event of the payment's metadata, and the draft with the _id it names.
FindDraft(k) ==
    LET d == draft[Who(k)]
        found == event.exists /\ d.live /\ d.gen = checkout[k[1]].gen IN
    /\ call[k].stage = "draft"
    /\ \/ /\ found
          /\ call' = [call EXCEPT ![k] = [stage |-> "check", room |-> d.room, form |-> d.form]]
          /\ UNCHANGED refused
       \/ ~found /\ UNCHANGED checkout /\ Refuse(k)
    /\ UNCHANGED <<setup, event, registered, subscribed, draft, checkout, cancelled,
                   expired, overlap, changes, faults>>

\* POST events/register/:slug, with no reference.
RegisterFree(m, room) ==
    /\ MayStart(<<m, "free">>)
    /\ call' = [call EXCEPT ![<<m, "free">>] =
                  [stage |-> "check", room |-> room, form |-> event.form]]
    /\ UNCHANGED <<setup, event, registered, subscribed, draft, checkout, cancelled,
                   expired, refused, overlap, changes, faults>>

\* Mutant of MayRegister: registerForEvent does not look for the user.
MayRegisterAgain(k) ==
    /\ event.exists /\ ResponsesPass(call[k].form) /\ Entitled(Who(k)) /\ Open
    /\ ~(IsFree(k) /\ AmountDue(call[k].room))

MayRegister(k) ==
    /\ event.exists /\ ResponsesPass(call[k].form) /\ Entitled(Who(k)) /\ Open
    /\ ~IsRegistered(Who(k))
    /\ ~(IsFree(k) /\ AmountDue(call[k].room))

\* registerForEvent reads the event and the user and decides ...
CheckRegistration(k) ==
    /\ call[k].stage = "check"
    /\ \/ /\ MayRegister(k) /\ GoTo(k, "save") /\ UNCHANGED refused
          /\ overlap' = overlap \cup
               {m \in {Who(k)} : \E j \in Requests \ {k} : Who(j) = m /\ call[j].stage = "save"}
       \/ ~MayRegister(k) /\ UNCHANGED <<checkout, overlap>> /\ Refuse(k)
    /\ UNCHANGED <<setup, event, registered, subscribed, draft, checkout, cancelled,
                   expired, changes, faults>>

\* Mutant of SaveRegistration: the document is changed and not saved.
SaveRegistrationUnsaved(k) ==
    /\ call[k].stage = "save"
    /\ call' = [call EXCEPT ![k] = IF IsFree(k) THEN Idle ELSE [@ EXCEPT !.stage = "clean"]]
    /\ UNCHANGED <<setup, event, registered, subscribed, draft, checkout, cancelled,
                   expired, refused, overlap, changes, faults>>

\* ... and the save pushes the registration, into whatever the event has become.
SaveRegistration(k) ==
    LET entry == [user |-> Who(k), reference |-> IF IsFree(k) THEN 0 ELSE k[1],
                  room |-> call[k].room, period |-> CurrentPeriod] IN
    /\ call[k].stage = "save"
    /\ \/ /\ event.exists
          /\ registered' = Append(registered, entry)
          /\ call' = [call EXCEPT ![k] = IF IsFree(k) THEN Idle ELSE [@ EXCEPT !.stage = "clean"]]
          /\ UNCHANGED refused
       \/ ~event.exists /\ UNCHANGED <<registered, checkout>> /\ Refuse(k)
    /\ UNCHANGED <<setup, event, subscribed, draft, checkout, cancelled, expired,
                   overlap, changes, faults>>

\* The draft is deleted by its _id.
DeleteDraft(k) ==
    /\ call[k].stage = "clean"
    /\ draft' = [draft EXCEPT ![Who(k)].live = @ /\ draft[Who(k)].gen # checkout[k[1]].gen]
    /\ call' = [call EXCEPT ![k] = Idle]
    /\ UNCHANGED <<setup, event, registered, subscribed, checkout, cancelled, expired,
                   refused, overlap, changes, faults>>

Confirm(k) == FindDraft(k) \/ CheckRegistration(k) \/ SaveRegistration(k) \/ DeleteDraft(k)

\* The server stops, or a database call fails, between two steps.
BreakOff(k) ==
    /\ Active(k) /\ faults < MaxFaults
    /\ faults' = faults + 1
    /\ call' = [call EXCEPT ![k] = Idle]
    /\ UNCHANGED <<setup, event, registered, subscribed, draft, checkout, cancelled,
                   expired, refused, overlap, changes>>
-----------------------------------------------------------------------------
(* Meanwhile. *)

Change == changes < MaxChanges /\ changes' = changes + 1

\* The two hours of a draft are over.
ExpireDraft(m) ==
    /\ Change /\ draft[m].live
    /\ draft' = [draft EXCEPT ![m].live = FALSE]
    /\ expired' = expired \cup
         {t \in Checkouts : setup.owner[t] = m /\ checkout[t].gen = draft[m].gen}
    /\ UNCHANGED <<setup, event, registered, subscribed, checkout, call, cancelled,
                   refused, overlap, faults>>

Later(period) == IF period = "regular" THEN {"late", "closed"} ELSE {"closed"}

\* The dates of a conference pass, late registration only where it has one.
ClosePeriod ==
    /\ Change /\ setup.conference
    /\ \E p \in Later(event.period) : event' = [event EXCEPT !.period = p]
    /\ UNCHANGED <<setup, registered, subscribed, draft, checkout, call, cancelled,
                   expired, refused, overlap, faults>>

\* PATCH events/:slug: the subscription, the form or the dates.
UpdateOne ==
    /\ Change /\ event.exists
    /\ event' \in {[event EXCEPT !.requires = ~@], [event EXCEPT !.form = 1],
                   [event EXCEPT !.period = "regular"]}
    /\ UNCHANGED <<setup, registered, subscribed, draft, checkout, call, cancelled,
                   expired, refused, overlap, faults>>

\* DELETE events/:slug: drafts and checkouts stay, and nobody is told.
RemoveOne ==
    /\ Change /\ event.exists
    /\ event' = [event EXCEPT !.exists = FALSE]
    /\ UNCHANGED <<setup, registered, subscribed, draft, checkout, call, cancelled,
                   expired, refused, overlap, faults>>

\* A subscription ends or is bought.
Subscription(m) ==
    /\ Change
    /\ subscribed' = IF m \in subscribed THEN subscribed \ {m} ELSE subscribed \cup {m}
    /\ UNCHANGED <<setup, event, registered, draft, checkout, call, cancelled,
                   expired, refused, overlap, faults>>
-----------------------------------------------------------------------------
Next ==
    \/ \E t \in Checkouts : \/ \E room \in RoomsOnOffer : PayForEvent(t, room)
                            \/ Pay(t)
                            \/ ConfirmPayment(t)
                            \/ Webhook(t)
    \/ \E k \in Requests : Confirm(k) \/ BreakOff(k)
    \/ \E m \in Members : \/ \E room \in RoomsOnOffer : RegisterFree(m, room)
                          \/ ExpireDraft(m)
                          \/ Subscription(m)
    \/ ClosePeriod
    \/ UpdateOne
    \/ RemoveOne

\* Paystack repeats a webhook until it succeeds, and its handler is carried on.
\* Nobody has to pay, nor to come back after paying.
Fairness ==
    \A t \in Checkouts : WF_vars(Webhook(t)) /\ WF_vars(Confirm(<<t, "webhook">>))

Spec == Init /\ [][Next]_vars /\ Fairness
-----------------------------------------------------------------------------
\* Nobody is registered twice, unless two of the member's requests both checked
\* before either saved: the check and the push of registerForEvent are two calls.
RegisteredOnce ==
    \A m \in Members \ overlap :
        Cardinality({i \in DOMAIN registered : registered[i].user = m}) <= 1

\* The checkouts up to t with the same draft that chose a room.
Chose(t) == {u \in Checkouts : /\ checkout[u].state # "none" /\ checkout[u].room # "none"
                              /\ setup.owner[u] = setup.owner[t]
                              /\ checkout[u].gen = checkout[t].gen
                              /\ u <= t}

\* The room last chosen by then.
LastChosen(t, room) ==
    \/ Chose(t) = {} /\ room = "none"
    \/ \E u \in Chose(t) : checkout[u].room = room /\ \A v \in Chose(t) : v <= u

\* The room a member is registered with is the last one chosen in the checkouts that
\* shared the draft of the one he paid, up to that or to a later one: never one of a
\* draft since replaced, nor one given up for another.  It need not be the room that
\* was charged for: a later choice replaces it, and a checkout that chooses none
\* keeps, and does not charge for, the one before.
RoomIsChosen ==
    \A i \in DOMAIN registered :
        LET r == registered[i].reference IN
        r # 0 => \E t \in Checkouts :
                     /\ r <= t /\ checkout[t].state # "none"
                     /\ setup.owner[t] = registered[i].user
                     /\ checkout[t].gen = checkout[r].gen
                     /\ LastChosen(t, registered[i].room)

\* What has become of the event and the member since the checkout.
ChangedSince(t) ==
    LET m == setup.owner[t] IN
    \/ t \in expired
    \/ checkout[t].form # event.form
    \/ checkout[t].entitled /\ ~Entitled(m)
    \/ ~Open \/ ~event.exists
    \/ Via(t) = "paypal" /\ faults > 0
    \/ \E u \in Checkouts \ {t} : setup.owner[u] = m /\ checkout[u].state # "none"

\* A member who was charged and is not registered is refused only for what
\* happened after the checkout: payForEvent takes no money for a registration
\* that the confirmation would refuse at once.
RefusedOnlyIfChanged ==
    [][\A t \in refused' \ refused : IsRegistered(setup.owner[t]) \/ ChangedSince(t)]_vars

\* A charged event (not a conference: Paystack's webhook is ignored there) is
\* registered at last, even if the member never comes back, unless something
\* changed since the checkout.
PaidAreRegistered ==
    \A t \in Checkouts :
        (checkout[t].state = "charged" /\ ~setup.conference)
            ~> (IsRegistered(setup.owner[t]) \/ ChangedSince(t))

\* "has been cancelled" is said of events that are.
CancelledIsTrue == cancelled # {} => ~event.exists
=============================================================================

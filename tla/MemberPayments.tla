--------------------------- MODULE MemberPayments ---------------------------
(***************************************************************************)
(* Membership subscriptions and donations: from the checkout to the        *)
(* documents and the membership flags.  A payment is confirmed by the      *)
(* member's return from the provider (create), by Paystack's webhook       *)
(* (create without a user), by a sync or a requery (syncPaymentStatus), by *)
(* an administrator (activate, activateLifetime, the pending payments      *)
(* page), each of them a sequence of database and provider calls that      *)
(* interleaves with the others and may break off between any two of them.  *)
(*                                                                         *)
(* One calendar year is modelled: an annual payment is for this year or,   *)
(* "next", for the coming one.                                             *)
(***************************************************************************)
EXTENDS Naturals, Sequences, FiniteSets

CONSTANTS Members,      \* users
          Payments,     \* checkouts, or activations by an administrator
          Calls,        \* requests handled at the same time
          Plans,        \* what the payments may be for (functions on Payments)
          NoPayment,    \* the expiry date of a member who never paid
          MaxFaults     \* requests that break off

ASSUME PaymentsAssumption ==
    /\ NoPayment \notin Payments
    /\ MaxFaults \in Nat
    /\ Plans \subseteq
         [Payments -> [owner : Members,
                       kind : {"annual", "next", "lifetime", "vision", "donation"},
                       via : {"paystack", "old", "paypal", "admin"}]]
    \* Administrators activate memberships; they record no donations.
    /\ \A pl \in Plans, p \in Payments : pl[p].via = "admin" => pl[p].kind # "donation"

VARIABLES plan,     \* what each payment is for, and how it is paid
          charge,   \* the provider's side of it
          docs,     \* its subscription or donation documents, oldest first
          intent,   \* its payment intent
          member,   \* the membership fields of the users
          call,     \* the requests under way
          faults,
          history   \* who was confirmed twice at once, and who was disturbed

vars == <<plan, charge, docs, intent, member, call, faults, history>>

-----------------------------------------------------------------------------
Idle == [stage |-> "idle", entry |-> "save", pay |-> NoPayment, covered |-> FALSE]

\* paid: isPaid; ref: the reference is the provider's, no longer the intent's
\* code or "UNPAID-..."; life: isLifetime.
Document == [paid : BOOLEAN, ref : BOOLEAN, life : BOOLEAN]

Owner(p) == plan[p].owner
Kind(p)  == plan[p].kind
Via(p)   == plan[p].via
IsDonation(p) == Kind(p) = "donation"
Active(c) == call[c].stage # "idle"

TypeOK ==
    /\ plan \in Plans
    /\ charge \in [Payments -> {"none", "open", "approved", "charged"}]
    /\ docs \in [Payments -> Seq(Document)]
    /\ intent \in [Payments -> {"none", "pending", "processing", "successful"}]
    /\ member \in [Members -> [subscribed : BOOLEAN, life : BOOLEAN,
                               expiryOf : Payments \cup {NoPayment}]]
    /\ call \in [Calls -> [stage : {"idle", "lookup", "verify", "record", "mark",
                                    "cover", "update"},
                           entry : {"save", "sync", "admin"},
                           pay : Payments \cup {NoPayment}, covered : BOOLEAN]]
    /\ \A c \in Calls : Active(c) => call[c].pay \in Payments
    /\ faults \in 0..MaxFaults
    /\ history \in [twice : SUBSET Payments, disturbed : SUBSET Members]

\* An old payment was charged for by a version that made no document at the
\* checkout; an administrator's activation has no charge.
Init ==
    /\ plan \in Plans
    /\ charge = [p \in Payments |-> IF Via(p) = "old" THEN "open" ELSE "none"]
    /\ docs = [p \in Payments |-> <<>>]
    /\ intent = [p \in Payments |-> "none"]
    /\ member = [m \in Members |-> [subscribed |-> FALSE, life |-> FALSE,
                                    expiryOf |-> NoPayment]]
    /\ call = [c \in Calls |-> Idle]
    /\ faults = 0
    /\ history = [twice |-> {}, disturbed |-> {}]

-----------------------------------------------------------------------------
(* The checkout. *)

\* Members in Nigeria: an intent, an unpaid document under the intent's code, and
\* the transaction at Paystack.  When Paystack refuses, intent and document stay.
PaystackCheckout(p) ==
    /\ Via(p) = "paystack" /\ intent[p] = "none"
    /\ docs' = [docs EXCEPT ![p] = <<[paid |-> FALSE, ref |-> FALSE, life |-> FALSE]>>]
    /\ \/ /\ charge' = [charge EXCEPT ![p] = "open"]
          /\ intent' = [intent EXCEPT ![p] = "processing"]
       \/ /\ intent' = [intent EXCEPT ![p] = "pending"]
          /\ UNCHANGED charge
    /\ UNCHANGED <<plan, member, call, faults, history>>

\* POST subscriptions/pay.  The global network gets an order at PayPal, and no
\* document before it is paid.
InitSubscription(p) ==
    /\ ~IsDonation(p)
    /\ \/ PaystackCheckout(p)
       \/ /\ Via(p) = "paypal" /\ charge[p] = "none"
          /\ charge' = [charge EXCEPT ![p] = "open"]
          /\ UNCHANGED <<plan, docs, intent, member, call, faults, history>>

\* POST donations/init.  At PayPal too the document comes first, and takes the id
\* of the order as its reference once there is one.
InitDonation(p) ==
    /\ IsDonation(p)
    /\ \/ PaystackCheckout(p)
       \/ /\ Via(p) = "paypal" /\ docs[p] = <<>>
          /\ \E ordered \in BOOLEAN :
              /\ docs' = [docs EXCEPT ![p] =
                            <<[paid |-> FALSE, ref |-> ordered, life |-> FALSE]>>]
              /\ charge' = [charge EXCEPT ![p] = IF ordered THEN "open" ELSE "none"]
          /\ UNCHANGED <<plan, intent, member, call, faults, history>>

\* The payer pays: Paystack charges the card, PayPal waits for the capture.
Pay(p) ==
    /\ charge[p] = "open"
    /\ charge' = [charge EXCEPT ![p] = IF Via(p) = "paypal" THEN "approved" ELSE "charged"]
    /\ UNCHANGED <<plan, docs, intent, member, call, faults, history>>

-----------------------------------------------------------------------------
(* The lists: what the pages, exports, totals and receipts take for paid, and *)
(* what the page of pending payments shows.                                   *)

PaidSubscriptions(p) == {i \in DOMAIN docs[p] : ~IsDonation(p) /\ docs[p][i].paid}
PaidDonations(p)     == {i \in DOMAIN docs[p] : IsDonation(p) /\ docs[p][i].paid}
PendingDocuments(p)  == {i \in DOMAIN docs[p] : ~docs[p][i].paid}
Recorded(p) == PaidSubscriptions(p) \cup PaidDonations(p) # {}

-----------------------------------------------------------------------------
(* The requests that confirm a payment. *)

\* Mutant of KnownSubscription: only the unpaid documents are looked at.
KnownSubscriptionUnpaid(p) == \E i \in DOMAIN docs[p] : docs[p][i].ref /\ ~docs[p][i].paid

\* A subscription is refused when any document has the reference.
KnownSubscription(p) == \E i \in DOMAIN docs[p] : docs[p][i].ref

\* A donation is refused when a paid one has it.
KnownDonation(p) == \E i \in DOMAIN docs[p] : docs[p][i].ref /\ docs[p][i].paid

KnownReference(p) == IF IsDonation(p) THEN KnownDonation(p) ELSE KnownSubscription(p)

\* A sync returns when a paid document of the user has the reference.
AlreadyConfirmed(p) == \E i \in DOMAIN docs[p] : docs[p][i].ref /\ docs[p][i].paid

Begin(c, p, entry, stage) ==
    /\ ~Active(c)
    /\ call' = [call EXCEPT ![c] = [stage |-> stage, entry |-> entry, pay |-> p,
                                    covered |-> FALSE]]
    /\ history' = [history EXCEPT !.twice =
                     IF \E d \in Calls : Active(d) /\ call[d].pay = p
                     THEN @ \cup {p} ELSE @]

\* The member comes back from the provider (POST subscriptions/save, POST
\* donations/create), whether the payment was made or not.
Save(c, p) ==
    /\ charge[p] # "none" /\ ~KnownReference(p)
    /\ Begin(c, p, "save", "verify")
    /\ UNCHANGED <<plan, charge, docs, intent, member, faults>>

\* Mutant of Webhook: it gives up on a payment that has a document.
WebhookNewOnly(c, p) ==
    /\ Via(p) \in {"paystack", "old"} /\ charge[p] = "charged"
    /\ docs[p] = <<>>
    /\ Begin(c, p, "save", "verify")
    /\ UNCHANGED <<plan, charge, docs, intent, member, faults>>

\* Paystack's charge.success: the same create, without a user.
Webhook(c, p) ==
    /\ Via(p) \in {"paystack", "old"} /\ charge[p] = "charged"
    /\ ~KnownReference(p)
    /\ Begin(c, p, "save", "verify")
    /\ UNCHANGED <<plan, charge, docs, intent, member, faults>>

\* POST sync-payment-status with the provider's reference.  With the code of the
\* intent it always ends in an exception: it compares a field userId that the
\* intents do not have.
Sync(c, p) ==
    /\ charge[p] # "none"
    /\ Begin(c, p, "sync", "lookup")
    /\ UNCHANGED <<plan, charge, docs, intent, member, faults>>

\* POST payment-intents/requery: the only confirmation that asks Paystack for the
\* status of the charge; it marks the intent, then starts the sync.
Requery(c, p) ==
    /\ Via(p) = "paystack" /\ intent[p] \in {"processing", "successful"}
    /\ charge[p] = "charged"
    /\ intent' = [intent EXCEPT ![p] = "successful"]
    /\ Begin(c, p, "sync", "lookup")
    /\ UNCHANGED <<plan, charge, docs, member, faults>>

\* POST activate and activate-lifetime: an administrator's document.
Activate(c, p) ==
    /\ Via(p) = "admin" /\ docs[p] = <<>>
    /\ \A d \in Calls : call[d].pay # p
    /\ Begin(c, p, "admin", "record")
    /\ UNCHANGED <<plan, charge, docs, intent, member, faults>>

GoTo(c, stage) == call' = [call EXCEPT ![c].stage = stage]
Finish(c) == call' = [call EXCEPT ![c] = Idle]

\* A sync looks for a paid document first.
LookupSubscription(c) ==
    LET p == call[c].pay IN
    /\ call[c].stage = "lookup" /\ ~IsDonation(p)
    /\ IF AlreadyConfirmed(p) THEN Finish(c) ELSE GoTo(c, "verify")
    /\ UNCHANGED <<plan, charge, docs, intent, member, faults, history>>

LookupDonation(c) ==
    LET p == call[c].pay IN
    /\ call[c].stage = "lookup" /\ IsDonation(p)
    /\ IF AlreadyConfirmed(p) THEN Finish(c) ELSE GoTo(c, "verify")
    /\ UNCHANGED <<plan, charge, docs, intent, member, faults, history>>

\* Paystack answers status true for every transaction it knows, and neither create
\* nor sync looks at the status of the charge.
VerifyPaystack(c) ==
    LET p == call[c].pay IN
    /\ call[c].stage = "verify" /\ Via(p) \in {"paystack", "old"}
    /\ GoTo(c, "record")
    /\ UNCHANGED <<plan, charge, docs, intent, member, faults, history>>

\* PayPal captures an approved order, or the order is found completed.
VerifyPaypal(c) ==
    LET p == call[c].pay IN
    /\ call[c].stage = "verify" /\ Via(p) = "paypal"
    /\ IF charge[p] \in {"approved", "charged"}
       THEN /\ charge' = [charge EXCEPT ![p] = "charged"]
            /\ GoTo(c, "record")
       ELSE Finish(c) /\ UNCHANGED charge
    /\ UNCHANGED <<plan, docs, intent, member, faults, history>>

\* A document that becomes paid between another request's reading of the coverage
\* and its update of the member.
Disturb(c, m) ==
    history' = [history EXCEPT !.disturbed =
                  IF \E d \in Calls \ {c} : /\ call[d].stage = "update"
                                            /\ Owner(call[d].pay) = m
                  THEN @ \cup {m} ELSE @]

\* The document of the checkout becomes the paid one.
PayDocument(c, p, life) ==
    /\ docs' = [docs EXCEPT ![p][1] = [paid |-> TRUE, ref |-> TRUE, life |-> life]]
    /\ GoTo(c, "mark")

\* There is none: a new document, which no index refuses.
AddDocument(c, p, life) ==
    /\ docs' = [docs EXCEPT ![p] = Append(@, [paid |-> TRUE, ref |-> TRUE, life |-> life])]
    /\ GoTo(c, "cover")

Recording(c, entry, channels) ==
    LET p == call[c].pay IN
    /\ call[c].stage = "record" /\ call[c].entry = entry /\ Via(p) \in channels
    /\ Disturb(c, Owner(p))
    /\ UNCHANGED <<plan, charge, intent, member, faults>>

\* Subscriptions.create leaves isLifetime alone when it was paid at Paystack.
SaveSubscriptionPaystack(c) ==
    LET p == call[c].pay IN
    /\ Recording(c, "save", {"paystack", "old"}) /\ ~IsDonation(p)
    /\ IF Via(p) = "paystack" THEN PayDocument(c, p, docs[p][1].life)
                              ELSE AddDocument(c, p, FALSE)

SaveSubscriptionPaypal(c) ==
    LET p == call[c].pay IN
    /\ Recording(c, "save", {"paypal"}) /\ ~IsDonation(p)
    /\ AddDocument(c, p, Kind(p) = "lifetime")

SyncSubscriptionPaystack(c) ==
    LET p == call[c].pay IN
    /\ Recording(c, "sync", {"paystack", "old"}) /\ ~IsDonation(p)
    /\ IF Via(p) = "paystack" THEN PayDocument(c, p, Kind(p) = "lifetime")
                              ELSE AddDocument(c, p, Kind(p) = "lifetime")

SyncSubscriptionPaypal(c) ==
    LET p == call[c].pay IN
    /\ Recording(c, "sync", {"paypal"}) /\ ~IsDonation(p)
    /\ AddDocument(c, p, Kind(p) = "lifetime")

\* The unique index on their references refuses a second document of an old donation.
OldDonation(c, p) ==
    /\ docs' = [docs EXCEPT ![p] = IF @ = <<>>
                                   THEN <<[paid |-> TRUE, ref |-> TRUE, life |-> FALSE]>>
                                   ELSE @]
    /\ Finish(c)

PaypalDonation(c, p) ==
    /\ docs' = [docs EXCEPT ![p][1] = [paid |-> TRUE, ref |-> TRUE, life |-> FALSE]]
    /\ Finish(c)

SaveDonation(c) ==
    LET p == call[c].pay IN
    /\ Recording(c, "save", {"paystack", "old", "paypal"}) /\ IsDonation(p)
    /\ CASE Via(p) = "paystack" -> PayDocument(c, p, FALSE)
         [] Via(p) = "paypal"   -> PaypalDonation(c, p)
         [] Via(p) = "old"      -> OldDonation(c, p)

SyncDonationPaypal(c) ==
    /\ Recording(c, "sync", {"paypal"}) /\ IsDonation(call[c].pay)
    /\ PaypalDonation(c, call[c].pay)

SyncDonationPaystack(c) ==
    LET p == call[c].pay IN
    /\ Recording(c, "sync", {"paystack", "old"}) /\ IsDonation(p)
    /\ IF Via(p) = "paystack" THEN PayDocument(c, p, FALSE) ELSE OldDonation(c, p)

\* activate, for a year.
ActivateYear(c) ==
    LET p == call[c].pay IN
    /\ Recording(c, "admin", {"admin"}) /\ Kind(p) # "lifetime"
    /\ AddDocument(c, p, FALSE)

\* activateLifetime does not ask for coverage.
ActivateLifetime(c) ==
    LET p == call[c].pay IN
    /\ Recording(c, "admin", {"admin"}) /\ Kind(p) = "lifetime"
    /\ docs' = [docs EXCEPT ![p] = Append(@, [paid |-> TRUE, ref |-> TRUE, life |-> TRUE])]
    /\ GoTo(c, "update")

\* The intent of a confirmed payment is marked successful.
Mark(c) ==
    LET p == call[c].pay IN
    /\ call[c].stage = "mark"
    /\ intent' = [intent EXCEPT ![p] = "successful"]
    /\ IF IsDonation(p) THEN Finish(c) ELSE GoTo(c, "cover")
    /\ UNCHANGED <<plan, charge, docs, member, faults, history>>

\* Mutant of HasCoverage: documents of vision partners and lifetime members count,
\* as does a document that is not paid.
HasCoverageAny(m) == \E p \in Payments : Owner(p) = m /\ ~IsDonation(p) /\ docs[p] # <<>>

\* hasActiveCurrentYearSubscription: a paid document for this year, or a paid one
\* without a year that has not run out; none that is lifetime or of a vision partner.
HasCoverage(m) ==
    \E p \in Payments :
        /\ Owner(p) = m
        /\ Kind(p) \in {"annual", "lifetime"}
        /\ \E i \in DOMAIN docs[p] : docs[p][i].paid /\ ~docs[p][i].life

Cover(c) ==
    /\ call[c].stage = "cover"
    /\ call' = [call EXCEPT ![c] = [@ EXCEPT !.stage = "update",
                                            !.covered = HasCoverage(Owner(call[c].pay))]]
    /\ UNCHANGED <<plan, charge, docs, intent, member, faults, history>>

\* Mutant of Update: only a payment for life or for this year itself subscribes.
UpdateByKind(c) ==
    LET p == call[c].pay IN
    /\ call[c].stage = "update"
    /\ member' = [member EXCEPT ![Owner(p)] =
                    [subscribed |-> Kind(p) \in {"lifetime", "annual"},
                     life |-> @.life \/ Kind(p) = "lifetime",
                     expiryOf |-> p]]
    /\ Finish(c)
    /\ UNCHANGED <<plan, charge, docs, intent, faults, history>>

\* The user document takes the coverage just read and this payment's expiry date.
Update(c) ==
    LET p == call[c].pay IN
    /\ call[c].stage = "update"
    /\ member' = [member EXCEPT ![Owner(p)] =
                    [subscribed |-> Kind(p) = "lifetime" \/ call[c].covered,
                     life |-> @.life \/ Kind(p) = "lifetime",
                     expiryOf |-> p]]
    /\ Finish(c)
    /\ UNCHANGED <<plan, charge, docs, intent, faults, history>>

\* The request ends early: the provider or the database does not answer, or the
\* process stops.  Nothing takes back or repeats what it had written.
BreakOff(c) ==
    /\ Active(c) /\ faults < MaxFaults
    /\ faults' = faults + 1
    /\ Finish(c)
    /\ history' = [history EXCEPT !.disturbed =
                     IF call[c].stage \in {"mark", "cover", "update"}
                     THEN @ \cup {Owner(call[c].pay)} ELSE @]
    /\ UNCHANGED <<plan, charge, docs, intent, member>>

-----------------------------------------------------------------------------
(* The page of pending payments. *)

\* The first document with the reference becomes paid; the user is left alone.
SetPaid(p) ==
    /\ docs' = [docs EXCEPT ![p][1].paid = TRUE]
    /\ history' = [history EXCEPT !.disturbed =
                     IF IsDonation(p) THEN @ ELSE @ \cup {Owner(p)}]
    /\ UNCHANGED <<plan, charge, intent, member, call, faults>>

\* manuallyConfirmPayment, on the administrator's word.
ConfirmManually(p) ==
    /\ PendingDocuments(p) # {}
    /\ SetPaid(p)

\* refreshSinglePayment and refreshAllPendingPayments ask the provider for the
\* document's own reference: Paystack does not know the code of an intent, so only
\* a PayPal donation that was captured can be found.
Refresh(p) ==
    /\ PendingDocuments(p) # {} /\ docs[p][1].ref
    /\ Via(p) = "paypal" /\ charge[p] = "charged"
    /\ SetPaid(p)

-----------------------------------------------------------------------------
Step(c) ==
    \/ LookupSubscription(c) \/ LookupDonation(c)
    \/ VerifyPaystack(c)
    \/ VerifyPaypal(c)
    \/ SaveSubscriptionPaystack(c) \/ SaveSubscriptionPaypal(c)
    \/ SyncSubscriptionPaystack(c) \/ SyncSubscriptionPaypal(c)
    \/ SaveDonation(c) \/ SyncDonationPaypal(c) \/ SyncDonationPaystack(c)
    \/ ActivateYear(c) \/ ActivateLifetime(c)
    \/ Mark(c)
    \/ Cover(c)
    \/ Update(c)

Next ==
    \/ \E p \in Payments :
          \/ InitSubscription(p)
          \/ InitDonation(p)
          \/ Pay(p)
          \/ ConfirmManually(p)
          \/ Refresh(p)
    \/ \E c \in Calls, p \in Payments :
          \/ Save(c, p)
          \/ Webhook(c, p)
          \/ Sync(c, p)
          \/ Requery(c, p)
          \/ Activate(c, p)
    \/ \E c \in Calls : Step(c) \/ BreakOff(c)

Spec == Init /\ [][Next]_vars

\* A request goes on until it ends or breaks off.  Paystack sends the webhook again
\* until the answer is 200, which the handler gives only when create returns.
FairSpec ==
    /\ Spec
    /\ \A c \in Calls : WF_vars(Step(c))
    /\ \A p \in Payments : SF_vars(\E c \in Calls : Webhook(c, p))

-----------------------------------------------------------------------------
(* Properties. *)

\* A payment is one record in the lists and totals of subscriptions and donations,
\* however often it is confirmed; only requests that confirm it at the same time
\* can make a second one, and never for a payment that has a document of its own.
RecordedOnce ==
    \A p \in Payments :
        Cardinality(PaidSubscriptions(p) \cup PaidDonations(p)) > 1 =>
            /\ p \in history.twice
            /\ Via(p) \in {"paypal", "old"} /\ ~IsDonation(p)

\* When no request of theirs is under way, a member whose payments cover this year
\* is subscribed, unless a request broke off after it recorded a payment, an
\* administrator confirmed a payment by hand, or a payment was recorded between
\* another request's reading of the coverage and its update of the member.
CoveredAreSubscribed ==
    \A m \in Members :
        (/\ HasCoverage(m)
         /\ \A c \in Calls : Active(c) => Owner(call[c].pay) # m) =>
            member[m].subscribed \/ m \in history.disturbed

\* Nobody is subscribed without a recorded payment for this year or for life, and
\* the expiry date of a member is always that of a recorded payment of their own.
SubscribedHavePaid ==
    \A m \in Members :
        LET Mine == {p \in Payments : Owner(p) = m /\ ~IsDonation(p) /\ Recorded(p)} IN
        /\ member[m].subscribed => \E p \in Mine : Kind(p) \in {"annual", "lifetime"}
        /\ member[m].expiryOf # NoPayment => member[m].expiryOf \in Mine

\* What Paystack charged is recorded in the end, though the member never comes back
\* and requests break off: the webhook is answered 200 only when it is.
ChargedIsRecorded ==
    \A p \in Payments :
        (Via(p) \in {"paystack", "old"} /\ charge[p] = "charged") ~> Recorded(p)
=============================================================================

------------------------ MODULE MemberPaymentsProofs ------------------------
(***************************************************************************)
(* Proofs about MemberPayments for any members, payments and requests, and *)
(* every plan of the payments that PaymentsAssumption admits.              *)
(***************************************************************************)
EXTENDS MemberPayments, FiniteSetTheorems, SequenceTheorems, TLAPS

Kinds    == {"annual", "next", "lifetime", "vision", "donation"}
Channels == {"paystack", "old", "paypal", "admin"}
Stages   == {"idle", "lookup", "verify", "record", "mark", "cover", "update"}

Call == [stage : Stages, entry : {"save", "sync", "admin"},
         pay : Payments \cup {NoPayment}, covered : BOOLEAN]

MemberRecord == [subscribed : BOOLEAN, life : BOOLEAN, expiryOf : Payments \cup {NoPayment}]

(* Type correctness, by groups of variables. *)

PlanOK ==
    /\ plan \in Plans
    /\ \A p \in Payments : /\ Owner(p) \in Members /\ Kind(p) \in Kinds /\ Via(p) \in Channels
                           /\ Via(p) = "admin" => ~IsDonation(p)

DocsOK ==
    /\ charge \in [Payments -> {"none", "open", "approved", "charged"}]
    /\ docs \in [Payments -> Seq(Document)]
    /\ intent \in [Payments -> {"none", "pending", "processing", "successful"}]

CallsOK ==
    /\ call \in [Calls -> Call]
    /\ \A c \in Calls : call[c].stage = "idle" <=> call[c].pay = NoPayment

OthersOK ==
    /\ member \in [Members -> MemberRecord]
    /\ faults \in 0..MaxFaults
    /\ history \in [twice : SUBSET Payments, disturbed : SUBSET Members]

Typed == PlanOK /\ DocsOK /\ CallsOK /\ OthersOK

LEMMA TypedIsTypeOK == Typed => TypeOK
  BY DEF Typed, PlanOK, DocsOK, CallsOK, OthersOK, TypeOK, Call, MemberRecord, Stages, Active

LEMMA PlansAreTyped ==
  ASSUME plan \in Plans
  PROVE  PlanOK
  BY PaymentsAssumption DEF PlanOK, Owner, Kind, Via, IsDonation, Kinds, Channels

-----------------------------------------------------------------------------
(* The inductive invariant. *)

\* What documents a payment has: one of the checkout at Paystack, one of a
\* donation, one of an administrator; the others are added when they are paid.
DocumentsOf(p) ==
    /\ Via(p) = "paystack" =>
         /\ Len(docs[p]) = IF intent[p] = "none" THEN 0 ELSE 1
         /\ charge[p] # "none" => intent[p] # "none"
    /\ IsDonation(p) => Len(docs[p]) <= 1
    /\ Via(p) = "paypal" /\ IsDonation(p) /\ charge[p] # "none" => Len(docs[p]) = 1
    /\ Via(p) = "admin" => charge[p] = "none" /\ Len(docs[p]) <= 1
    /\ Via(p) \in {"paypal", "old"} /\ ~IsDonation(p) =>
         /\ \A i \in DOMAIN docs[p] : docs[p][i].paid /\ docs[p][i].ref
         /\ p \notin history.twice => Len(docs[p]) <= 1

\* A member with a recorded payment for this year or for life.
HasPaid(m) ==
    \E p \in Payments : /\ Owner(p) = m /\ Kind(p) \in {"annual", "lifetime"}
                        /\ Recorded(p)

\* What a request knows of its payment.
CallOf(c) ==
    LET p == call[c].pay IN
    Active(c) =>
      /\ call[c].entry = "admin" <=> Via(p) = "admin"
      /\ call[c].entry # "admin" => charge[p] # "none"
      /\ call[c].stage \in {"lookup", "verify"} => Via(p) # "admin"
      /\ call[c].stage = "mark" => Via(p) = "paystack"
      /\ call[c].stage \in {"mark", "cover", "update"} => Recorded(p)
      /\ call[c].stage \in {"cover", "update"} => ~IsDonation(p)
      /\ call[c].stage = "update" /\ call[c].covered => HasPaid(Owner(p))
      /\ call[c].stage = "record" /\ Via(p) = "admin" => docs[p] = <<>>
      /\ /\ call[c].stage \in {"verify", "record"}
         /\ p \notin history.twice /\ Via(p) \in {"paypal", "old"} /\ ~IsDonation(p)
         => docs[p] = <<>>

\* Two requests at once are noted, and no two are an administrator's.
OneCall ==
    \A c, d \in Calls :
        c # d /\ Active(c) /\ Active(d) /\ call[c].pay = call[d].pay =>
            call[c].pay \in history.twice /\ Via(call[c].pay) # "admin"

\* A request that is about to subscribe the member.
WillSubscribe(c, m) ==
    LET p == call[c].pay IN
    /\ Active(c) /\ Owner(p) = m
    /\ \/ call[c].stage \in {"mark", "cover"} /\ ~IsDonation(p)
       \/ call[c].stage = "update" /\ (call[c].covered \/ Kind(p) = "lifetime")

\* A member whose payments cover this year is subscribed or about to be, and no
\* request is about to take that back.
Coverage(m) ==
    m \notin history.disturbed /\ HasCoverage(m) =>
        /\ member[m].subscribed \/ \E c \in Calls : WillSubscribe(c, m)
        /\ \A c \in Calls :
             /\ Active(c) /\ Owner(call[c].pay) = m /\ call[c].stage = "update"
             => call[c].covered \/ Kind(call[c].pay) = "lifetime"

\* What the documents of the members say of them.
Standing(m) ==
    /\ member[m].subscribed => HasPaid(m)
    /\ LET p == member[m].expiryOf IN
       p # NoPayment => Owner(p) = m /\ ~IsDonation(p) /\ Recorded(p)

PaymentsInv ==
    /\ Typed
    /\ \A p \in Payments : DocumentsOf(p)
    /\ \A c \in Calls : CallOf(c)
    /\ OneCall
    /\ \A m \in Members : Coverage(m) /\ Standing(m)

-----------------------------------------------------------------------------
(* The requests, field by field. *)

LEMMA Sorts ==
  ASSUME Typed
  PROVE  PlanOK /\ DocsOK /\ CallsOK /\ OthersOK
  BY DEF Typed

LEMMA IdleIsCall ==
  Idle \in Call /\ Idle.stage = "idle" /\ Idle.pay = NoPayment
  BY DEF Idle, Call, Stages

\* Only request c moves, and goes on as k.
Becomes(c, k) == call'[c] = k /\ \A d \in Calls \ {c} : call'[d] = call[d]

LEMMA CallStep ==
  ASSUME CallsOK, NEW c \in Calls, NEW k \in Call, k.stage = "idle" <=> k.pay = NoPayment,
         call' = [call EXCEPT ![c] = k]
  PROVE  CallsOK' /\ Becomes(c, k)
  BY DEF CallsOK, Becomes

LEMMA ActiveCall ==
  ASSUME CallsOK, NEW c \in Calls, call[c].stage # "idle"
  PROVE  Active(c) /\ call[c] \in Call /\ call[c].pay \in Payments
  BY DEF CallsOK, Active, Call

\* Request c begins.
Begun(c, p, entry, stage) ==
  /\ ~Active(c) /\ \A d \in Calls \ {c} : call'[d] = call[d]
  /\ call'[c].stage = stage /\ call'[c].entry = entry /\ call'[c].pay = p
  /\ call'[c].covered = FALSE
  /\ history'.disturbed = history.disturbed
  /\ history'.twice = IF \E d \in Calls : Active(d) /\ call[d].pay = p
                      THEN history.twice \cup {p} ELSE history.twice

LEMMA BeginEffect ==
  ASSUME Typed, NEW c \in Calls, NEW p \in Payments,
         NEW entry \in {"save", "sync", "admin"}, NEW stage \in Stages \ {"idle"},
         Begin(c, p, entry, stage)
  PROVE  /\ CallsOK' /\ history' \in [twice : SUBSET Payments, disturbed : SUBSET Members]
         /\ Begun(c, p, entry, stage)
<1> DEFINE k == [stage |-> stage, entry |-> entry, pay |-> p, covered |-> FALSE]
<1>1. k \in Call /\ (k.stage = "idle" <=> k.pay = NoPayment)
  BY PaymentsAssumption DEF Call
<1>2. k.stage = stage /\ k.entry = entry /\ k.pay = p /\ k.covered = FALSE
  OBVIOUS
<1>3. call' = [call EXCEPT ![c] = k] /\ ~Active(c)
  BY DEF Begin
<1>4. CallsOK' /\ Becomes(c, k)
  <2> HIDE DEF k
  <2> QED
    BY <1>1, <1>3, CallStep, Sorts
<1>5. /\ history' \in [twice : SUBSET Payments, disturbed : SUBSET Members]
      /\ history'.disturbed = history.disturbed
      /\ history'.twice = IF \E d \in Calls : Active(d) /\ call[d].pay = p
                          THEN history.twice \cup {p} ELSE history.twice
  BY Sorts DEF Begin, OthersOK
<1> HIDE DEF k
<1> QED
  BY <1>2, <1>3, <1>4, <1>5 DEF Becomes, Begun

\* The request goes on to the given stage with its payment ...
GoesOn(c, stage) ==
  /\ \A d \in Calls \ {c} : call'[d] = call[d]
  /\ call'[c].stage = stage /\ call'[c].pay = call[c].pay
  /\ call'[c].entry = call[c].entry /\ call'[c].covered = call[c].covered

LEMMA GoToEffect ==
  ASSUME Typed, NEW c \in Calls, call[c].stage # "idle", NEW stage \in Stages \ {"idle"},
         GoTo(c, stage)
  PROVE  CallsOK' /\ GoesOn(c, stage)
<1> DEFINE k == [call[c] EXCEPT !.stage = stage]
<1>1. call[c] \in Call /\ call[c].pay # NoPayment
  BY ActiveCall, Sorts, PaymentsAssumption
<1>2. /\ k \in Call /\ k.stage = stage /\ k.pay = call[c].pay
      /\ k.entry = call[c].entry /\ k.covered = call[c].covered
  BY <1>1 DEF Call
<1>3. call' = [call EXCEPT ![c] = k]
  BY DEF GoTo
<1> HIDE DEF k
<1> QED
  BY <1>1, <1>2, <1>3, CallStep, Sorts DEF Becomes, GoesOn

\* ... or ends.
Ends(c) == call'[c] = Idle /\ \A d \in Calls \ {c} : call'[d] = call[d]

LEMMA FinishEffect ==
  ASSUME Typed, NEW c \in Calls, Finish(c)
  PROVE  CallsOK' /\ Ends(c) /\ ~Active(c)'
  BY IdleIsCall, CallStep, Sorts DEF Finish, Becomes, Ends, Active

-----------------------------------------------------------------------------
(* What may change under an invariant without disturbing it. *)

\* Recorded payments stay recorded when the documents are not taken away.
Grows ==
  \A p \in Payments : Recorded(p) => Recorded(p)'

LEMMA RecordedMeans ==
  ASSUME NEW p \in Payments
  PROVE  Recorded(p) <=> \E i \in DOMAIN docs[p] : docs[p][i].paid
  BY DEF Recorded, PaidSubscriptions, PaidDonations

LEMMA RecordedMeansNext ==
  ASSUME NEW p \in Payments
  PROVE  Recorded(p)' <=> \E i \in DOMAIN docs'[p] : docs'[p][i].paid
  BY DEF Recorded, PaidSubscriptions, PaidDonations

LEMMA HasPaidGrows ==
  ASSUME Grows, UNCHANGED plan, NEW m \in Members, HasPaid(m)
  PROVE  HasPaid(m)'
  BY DEF Grows, HasPaid, Owner, Kind

LEMMA CoveredHasPaid ==
  ASSUME NEW m \in Members, HasCoverage(m)
  PROVE  HasPaid(m)
  BY RecordedMeans DEF HasCoverage, HasPaid

LEMMA StandingStays ==
  ASSUME Typed, Grows, UNCHANGED plan, NEW m \in Members, member'[m] = member[m], Standing(m)
  PROVE  Standing(m)'
<1>1. member[m].expiryOf \in Payments \cup {NoPayment}
  BY Sorts DEF OthersOK, MemberRecord
<1>2. member[m].subscribed => HasPaid(m)'
  BY HasPaidGrows DEF Standing
<1> QED
  BY <1>1, <1>2 DEF Standing, Grows, Owner, IsDonation, Kind

LEMMA InitPayments == Init => PaymentsInv
<1> SUFFICES ASSUME Init PROVE PaymentsInv
  OBVIOUS
<1>1. PlanOK
  BY PlansAreTyped DEF Init
<1>2. /\ \A p \in Payments : docs[p] = <<>> /\ intent[p] = "none"
      /\ \A p \in Payments : charge[p] = IF Via(p) = "old" THEN "open" ELSE "none"
      /\ \A c \in Calls : ~Active(c)
      /\ \A m \in Members : ~member[m].subscribed /\ member[m].expiryOf = NoPayment
  BY DEF Init, Active, Idle
<1>3. Typed
  <2>1. DocsOK
    BY DEF Init, DocsOK
  <2>2. CallsOK
    BY IdleIsCall DEF Init, CallsOK
  <2>3. OthersOK
    BY PaymentsAssumption DEF Init, OthersOK, MemberRecord
  <2> QED
    BY <1>1, <2>1, <2>2, <2>3 DEF Typed
<1>4. \A p \in Payments : DocumentsOf(p) /\ ~Recorded(p)
  BY <1>2, RecordedMeans DEF DocumentsOf
<1>5. \A m \in Members : ~HasCoverage(m) /\ Coverage(m) /\ Standing(m)
  BY <1>2 DEF Coverage, HasCoverage, Standing
<1> QED
  BY <1>2, <1>3, <1>4, <1>5 DEF PaymentsInv, CallOf, OneCall

\* A payment that a step leaves alone.
LEMMA DocumentsStay ==
  ASSUME Typed, UNCHANGED plan, history.twice \subseteq history'.twice,
         NEW p \in Payments, DocumentsOf(p),
         charge'[p] = charge[p], docs'[p] = docs[p], intent'[p] = intent[p]
  PROVE  DocumentsOf(p)'
  BY DEF DocumentsOf, Owner, Kind, Via, IsDonation

\* A request that a step of another one leaves alone.
LEMMA CallStays ==
  ASSUME Typed, UNCHANGED plan, Grows, history.twice \subseteq history'.twice,
         NEW c \in Calls, CallOf(c), call'[c] = call[c],
         LET p == call[c].pay IN
         Active(c) =>
           /\ charge[p] # "none" => charge'[p] # "none"
           /\ docs[p] = <<>> =>
                \/ docs'[p] = <<>>
                \/ /\ Via(p) # "admin"
                   /\ p \in history'.twice \/ Via(p) = "paystack" \/ IsDonation(p)
  PROVE  CallOf(c)'
<1>1. CASE ~Active(c)
  BY <1>1 DEF CallOf, Active
<1>2. CASE Active(c)
  <2> DEFINE p == call[c].pay
  <2>1. p \in Payments /\ Owner(p) \in Members /\ Active(c)'
    BY <1>2, ActiveCall, Sorts DEF Active, PlanOK
  <2>2. Recorded(p) => Recorded(p)'
    BY <2>1 DEF Grows
  <2>3. HasPaid(Owner(p)) => HasPaid(Owner(p))'
    BY <2>1 DEF Grows, HasPaid, Owner, Kind
  <2>4. call'[c].pay = p
    OBVIOUS
  <2>5. /\ Via(p)' = Via(p) /\ (IsDonation(p)' <=> IsDonation(p)) /\ Owner(p)' = Owner(p)
    BY DEF Via, IsDonation, Kind, Owner
  <2> QED
    BY <1>2, <2>1, <2>2, <2>3, <2>4, <2>5
    DEF CallOf, Via, IsDonation, Kind, Owner, Recorded, PaidSubscriptions, PaidDonations, HasPaid
<1> QED
  BY <1>1, <1>2

\* Nothing that concerns the coverage of m.
LEMMA CoverageStays ==
  ASSUME Typed, UNCHANGED <<plan, member>>, history.disturbed \subseteq history'.disturbed,
         NEW m \in Members, Coverage(m), HasCoverage(m)' => HasCoverage(m),
         \A c \in Calls : \/ call'[c] = call[c]
                          \/ /\ call[c].stage \notin {"mark", "cover", "update"}
                             /\ call'[c].stage \notin {"mark", "cover", "update"}
  PROVE  Coverage(m)'
<1>1. \A c \in Calls : WillSubscribe(c, m) => WillSubscribe(c, m)'
  BY DEF WillSubscribe, Active, Owner, Kind, IsDonation
<1>2. \A c \in Calls : call'[c].stage = "update" => call'[c] = call[c]
  OBVIOUS
<1> QED
  BY <1>1, <1>2 DEF Coverage, Active, Owner, Kind

LEMMA CoverageSame ==
  ASSUME UNCHANGED <<plan, docs>>, NEW m \in Members
  PROVE  HasCoverage(m)' <=> HasCoverage(m)
  BY DEF HasCoverage, Owner, Kind

LEMMA GrowsSame ==
  ASSUME UNCHANGED <<plan, docs>>
  PROVE  Grows
  BY RecordedMeans, RecordedMeansNext DEF Grows

LEMMA OneCallStays ==
  ASSUME OneCall, UNCHANGED plan, history.twice \subseteq history'.twice,
         \A c \in Calls : Active(c)' => Active(c) /\ call'[c].pay = call[c].pay
  PROVE  OneCall'
  BY DEF OneCall, Via

\* One document is written over by another.
LEMMA Overwritten ==
  ASSUME NEW D, NEW s \in Seq(D), Len(s) = 1, NEW x \in D
  PROVE  /\ [s EXCEPT ![1] = x] \in Seq(D)
         /\ Len([s EXCEPT ![1] = x]) = 1
         /\ [s EXCEPT ![1] = x][1] = x
         /\ DOMAIN [s EXCEPT ![1] = x] = {1}
  OBVIOUS

-----------------------------------------------------------------------------
(* The checkout and the payer. *)

\* A payment before its checkout has no charge, no document and no request.
LEMMA BeforeCheckout ==
  ASSUME PaymentsInv, NEW p \in Payments,
         \/ Via(p) = "paystack" /\ intent[p] = "none"
         \/ Via(p) = "paypal" /\ ~IsDonation(p) /\ charge[p] = "none"
         \/ Via(p) = "paypal" /\ IsDonation(p) /\ docs[p] = <<>>
  PROVE  charge[p] = "none" /\ \A c \in Calls : Active(c) => call[c].pay # p
<1>1. DocumentsOf(p) /\ docs[p] \in Seq(Document)
  BY DEF PaymentsInv, Typed, DocsOK
<1>2. docs[p] = <<>> => Len(docs[p]) = 0
  OBVIOUS
<1>3. charge[p] = "none"
  <2>1. CASE Via(p) = "paystack"
    BY <1>1, <2>1 DEF DocumentsOf
  <2>2. CASE Via(p) = "paypal" /\ IsDonation(p) /\ docs[p] = <<>>
    BY <1>1, <1>2, <2>2 DEF DocumentsOf
  <2> QED
    BY <2>1, <2>2
<1> QED
  BY <1>3 DEF PaymentsInv, CallOf

LEMMA CheckoutEffect ==
  ASSUME PaymentsInv, NEW p \in Payments, InitSubscription(p) \/ InitDonation(p)
  PROVE  /\ Typed' /\ UNCHANGED <<plan, member, call, faults, history>>
         /\ charge[p] = "none" /\ \A c \in Calls : Active(c) => call[c].pay # p
         /\ \A q \in Payments \ {p} : /\ docs'[q] = docs[q] /\ charge'[q] = charge[q]
                                      /\ intent'[q] = intent[q]
         /\ \/ docs'[p] = docs[p]
            \/ docs[p] = <<>> /\ \A i \in DOMAIN docs'[p] : ~docs'[p][i].paid
         /\ DocumentsOf(p)'
<1> DEFINE new(r) == [paid |-> FALSE, ref |-> r, life |-> FALSE]
<1>0. /\ Typed /\ PlanOK /\ DocsOK /\ CallsOK /\ OthersOK /\ DocumentsOf(p)
      /\ docs[p] \in Seq(Document)
  BY Sorts DEF PaymentsInv, DocsOK
<1>1. \A r \in BOOLEAN : /\ <<new(r)>> \in Seq(Document) /\ Len(<<new(r)>>) = 1
                         /\ DOMAIN <<new(r)>> = {1} /\ ~<<new(r)>>[1].paid
  BY DEF Document
<1>2. UNCHANGED <<plan, member, call, faults, history>>
  BY DEF InitSubscription, InitDonation, PaystackCheckout
<1>3. CASE PaystackCheckout(p)
  <2>1. /\ docs' = [docs EXCEPT ![p] = <<new(FALSE)>>]
        /\ Via(p) = "paystack" /\ intent[p] = "none"
        /\ intent' = [intent EXCEPT ![p] = "processing"] \/ intent' = [intent EXCEPT ![p] = "pending"]
        /\ charge' = [charge EXCEPT ![p] = "open"] \/ charge' = charge
    BY <1>3 DEF PaystackCheckout
  <2>2. charge[p] = "none" /\ \A c \in Calls : Active(c) => call[c].pay # p
    BY <2>1, BeforeCheckout
  <2>3. DocsOK'
    BY <1>0, <1>1, <2>1 DEF DocsOK
  <2>4. Typed'
    BY <1>0, <1>2, <2>3 DEF Typed, PlanOK, CallsOK, OthersOK, Owner, Kind, Via, IsDonation
  <2>5. /\ docs'[p] = <<new(FALSE)>> /\ intent'[p] # "none"
        /\ \A q \in Payments \ {p} : /\ docs'[q] = docs[q] /\ charge'[q] = charge[q]
                                     /\ intent'[q] = intent[q]
    BY <1>0, <2>1 DEF DocsOK
  <2>6. docs[p] = <<>>
    BY <1>0, <2>1 DEF DocumentsOf
  <2>7. Len(docs'[p]) = 1 /\ Via(p)' = "paystack"
    BY <1>1, <1>2, <2>1, <2>5 DEF Via
  <2>8. DocumentsOf(p)'
    BY <2>5, <2>7 DEF DocumentsOf
  <2>9. \A i \in DOMAIN docs'[p] : ~docs'[p][i].paid
    BY <1>1, <2>5
  <2> HIDE DEF new
  <2> QED
    BY <1>2, <2>2, <2>4, <2>5, <2>6, <2>8, <2>9
<1>4. CASE ~PaystackCheckout(p) /\ ~IsDonation(p)
  <2>1. /\ Via(p) = "paypal" /\ charge[p] = "none" /\ charge' = [charge EXCEPT ![p] = "open"]
        /\ UNCHANGED <<docs, intent>>
    BY <1>4 DEF InitSubscription, InitDonation
  <2>2. \A c \in Calls : Active(c) => call[c].pay # p
    BY <1>4, <2>1, BeforeCheckout
  <2>3. DocsOK' /\ \A q \in Payments \ {p} : charge'[q] = charge[q]
    BY <1>0, <2>1 DEF DocsOK
  <2>4. Typed'
    BY <1>0, <1>2, <2>3 DEF Typed, PlanOK, CallsOK, OthersOK, Owner, Kind, Via, IsDonation
  <2>5. DocumentsOf(p)'
    BY <1>0, <1>2, <1>4, <2>1 DEF DocumentsOf, Via, IsDonation, Kind
  <2> QED
    BY <1>2, <2>1, <2>2, <2>3, <2>4, <2>5
<1>5. CASE ~PaystackCheckout(p) /\ IsDonation(p)
  <2>1. PICK r \in BOOLEAN :
          /\ docs' = [docs EXCEPT ![p] = <<new(r)>>]
          /\ charge' = [charge EXCEPT ![p] = IF r THEN "open" ELSE "none"]
    BY <1>5 DEF InitSubscription, InitDonation
  <2>2. Via(p) = "paypal" /\ docs[p] = <<>> /\ UNCHANGED intent
    BY <1>5 DEF InitSubscription, InitDonation
  <2>3. charge[p] = "none" /\ \A c \in Calls : Active(c) => call[c].pay # p
    BY <1>5, <2>2, BeforeCheckout
  <2>4. DocsOK'
    BY <1>0, <1>1, <2>1, <2>2 DEF DocsOK
  <2>5. Typed'
    BY <1>0, <1>2, <2>4 DEF Typed, PlanOK, CallsOK, OthersOK, Owner, Kind, Via, IsDonation
  <2>6. /\ docs'[p] = <<new(r)>>
        /\ \A q \in Payments \ {p} : docs'[q] = docs[q] /\ charge'[q] = charge[q]
    BY <1>0, <2>1 DEF DocsOK
  <2>7. Len(docs'[p]) = 1 /\ Via(p)' = "paypal" /\ IsDonation(p)'
    BY <1>1, <1>2, <1>5, <2>2, <2>6 DEF Via, IsDonation, Kind
  <2>8. DocumentsOf(p)'
    BY <2>7 DEF DocumentsOf
  <2>9. \A i \in DOMAIN docs'[p] : ~docs'[p][i].paid
    BY <1>1, <2>6
  <2> HIDE DEF new
  <2> QED
    BY <1>2, <2>2, <2>3, <2>5, <2>6, <2>8, <2>9
<1> QED
  BY <1>3, <1>4, <1>5

LEMMA CheckoutKeeps ==
  ASSUME PaymentsInv, NEW p \in Payments, InitSubscription(p) \/ InitDonation(p)
  PROVE  PaymentsInv'
<1>0. Typed
  BY DEF PaymentsInv
<1>1. /\ Typed' /\ UNCHANGED <<plan, member, call, faults, history>>
      /\ charge[p] = "none" /\ \A c \in Calls : Active(c) => call[c].pay # p
      /\ \A q \in Payments \ {p} : /\ docs'[q] = docs[q] /\ charge'[q] = charge[q]
                                   /\ intent'[q] = intent[q]
      /\ \/ docs'[p] = docs[p]
         \/ docs[p] = <<>> /\ \A i \in DOMAIN docs'[p] : ~docs'[p][i].paid
      /\ DocumentsOf(p)'
  BY CheckoutEffect
<1>2. Grows
  BY <1>1, RecordedMeans, RecordedMeansNext DEF Grows
<1>3. \A q \in Payments : DocumentsOf(q)'
  BY <1>0, <1>1, DocumentsStay DEF PaymentsInv
<1>4. \A c \in Calls : CallOf(c)'
  <2> SUFFICES ASSUME NEW c \in Calls PROVE CallOf(c)'
    OBVIOUS
  <2>1. Active(c) => call[c].pay \in Payments \ {p}
    BY <1>0, <1>1, ActiveCall, Sorts DEF Active
  <2> QED
    BY <1>0, <1>1, <1>2, <2>1, CallStays DEF PaymentsInv
<1>5. OneCall'
  BY <1>1, OneCallStays DEF PaymentsInv, Active
<1>6. \A m \in Members : HasCoverage(m)' => HasCoverage(m)
  BY <1>1 DEF HasCoverage, Owner, Kind
<1>7. \A m \in Members : Coverage(m)' /\ Standing(m)'
  BY <1>0, <1>1, <1>2, <1>6, CoverageStays, StandingStays DEF PaymentsInv
<1> QED
  BY <1>1, <1>3, <1>4, <1>5, <1>7 DEF PaymentsInv

LEMMA PayKeeps ==
  ASSUME PaymentsInv, NEW p \in Payments, Pay(p)
  PROVE  PaymentsInv'
<1>0. Typed /\ PlanOK /\ DocsOK /\ CallsOK /\ OthersOK
  BY Sorts DEF PaymentsInv
<1>1. /\ UNCHANGED <<plan, docs, intent, member, call, faults, history>>
      /\ charge[p] = "open" /\ charge' \in [Payments -> {"none", "open", "approved", "charged"}]
      /\ charge'[p] # "none" /\ \A q \in Payments \ {p} : charge'[q] = charge[q]
  BY <1>0 DEF Pay, DocsOK
<1>2. Typed'
  BY <1>0, <1>1 DEF Typed, DocsOK, PlanOK, CallsOK, OthersOK, Owner, Kind, Via, IsDonation
<1>3. Grows
  BY <1>1, GrowsSame
<1>4. \A q \in Payments : DocumentsOf(q)'
  BY <1>1 DEF PaymentsInv, DocumentsOf, Via, IsDonation, Kind
<1>5. \A c \in Calls : CallOf(c)'
  <2> SUFFICES ASSUME NEW c \in Calls PROVE CallOf(c)'
    OBVIOUS
  <2>1. Active(c) => call[c].pay \in Payments
    BY <1>0, ActiveCall DEF Active
  <2> QED
    BY <1>0, <1>1, <1>3, <2>1, CallStays DEF PaymentsInv
<1>6. OneCall'
  BY <1>1, OneCallStays DEF PaymentsInv, Active
<1>7. \A m \in Members : Coverage(m)' /\ Standing(m)'
  BY <1>0, <1>1, <1>3, CoverageSame, CoverageStays, StandingStays DEF PaymentsInv
<1> QED
  BY <1>2, <1>4, <1>5, <1>6, <1>7 DEF PaymentsInv

-----------------------------------------------------------------------------
(* The page of pending payments. *)

LEMMA SetPaidEffect ==
  ASSUME PaymentsInv, NEW p \in Payments, PendingDocuments(p) # {}, SetPaid(p)
  PROVE  /\ Typed' /\ UNCHANGED <<plan, charge, intent, member, call, faults>>
         /\ history'.twice = history.twice
         /\ history'.disturbed = IF IsDonation(p) THEN history.disturbed
                                 ELSE history.disturbed \cup {Owner(p)}
         /\ \A q \in Payments \ {p} : docs'[q] = docs[q]
         /\ docs[p] # <<>> /\ Recorded(p)' /\ Len(docs'[p]) = Len(docs[p])
         /\ Via(p) \in {"paypal", "old"} => IsDonation(p)
<1>0. /\ Typed /\ PlanOK /\ DocsOK /\ CallsOK /\ OthersOK /\ DocumentsOf(p)
      /\ docs[p] \in Seq(Document)
  BY Sorts DEF PaymentsInv, DocsOK
<1>1. PICK i \in DOMAIN docs[p] : ~docs[p][i].paid
  BY DEF PendingDocuments
<1>2. 1 \in DOMAIN docs[p] /\ docs[p] # <<>> /\ docs[p][1] \in Document
  BY <1>0, <1>1
<1>3. Via(p) \in {"paypal", "old"} => IsDonation(p)
  BY <1>0, <1>1, PlansAreTyped DEF DocumentsOf
<1> DEFINE x == [docs[p][1] EXCEPT !.paid = TRUE]
           s == [docs[p] EXCEPT ![1] = x]
<1>4. x \in Document /\ x.paid
  BY <1>2 DEF Document
<1>5. s \in Seq(Document) /\ Len(s) = Len(docs[p]) /\ 1 \in DOMAIN s /\ s[1].paid
  <2> HIDE DEF x
  <2> QED
    BY <1>0, <1>2, <1>4
<1>6. docs' = [docs EXCEPT ![p] = s]
  BY DEF SetPaid
<1>7. DocsOK' /\ docs'[p] = s /\ \A q \in Payments \ {p} : docs'[q] = docs[q]
  <2> HIDE DEF s
  <2> QED
    BY <1>0, <1>5, <1>6 DEF DocsOK, SetPaid
<1>8. /\ UNCHANGED <<plan, charge, intent, member, call, faults>>
      /\ history'.twice = history.twice
      /\ history'.disturbed = IF IsDonation(p) THEN history.disturbed
                              ELSE history.disturbed \cup {Owner(p)}
      /\ history' \in [twice : SUBSET Payments, disturbed : SUBSET Members]
  BY <1>0 DEF SetPaid, OthersOK, PlanOK
<1>9. Typed'
  BY <1>0, <1>7, <1>8 DEF Typed, PlanOK, CallsOK, OthersOK, Owner, Kind, Via, IsDonation
<1>10. Recorded(p)'
  BY <1>5, <1>7, RecordedMeansNext
<1> QED
  BY <1>2, <1>3, <1>5, <1>7, <1>8, <1>9, <1>10

LEMMA SetPaidKeeps ==
  ASSUME PaymentsInv, NEW p \in Payments, ConfirmManually(p) \/ Refresh(p)
  PROVE  PaymentsInv'
<1>0. Typed /\ PendingDocuments(p) # {} /\ SetPaid(p) /\ OthersOK
  BY Sorts DEF ConfirmManually, Refresh, PaymentsInv
<1>1. /\ Typed' /\ UNCHANGED <<plan, charge, intent, member, call, faults>>
      /\ history'.twice = history.twice
      /\ history'.disturbed = IF IsDonation(p) THEN history.disturbed
                              ELSE history.disturbed \cup {Owner(p)}
      /\ \A q \in Payments \ {p} : docs'[q] = docs[q]
      /\ docs[p] # <<>> /\ Recorded(p)' /\ Len(docs'[p]) = Len(docs[p])
      /\ Via(p) \in {"paypal", "old"} => IsDonation(p)
  BY <1>0, SetPaidEffect
<1>2. Grows
  BY <1>1, RecordedMeans, RecordedMeansNext DEF Grows
<1>3. \A q \in Payments : DocumentsOf(q)'
  <2>1. DocumentsOf(p)'
    BY <1>1 DEF PaymentsInv, DocumentsOf, Via, IsDonation, Kind
  <2> QED
    BY <1>0, <1>1, <2>1, DocumentsStay DEF PaymentsInv
<1>4. \A c \in Calls : CallOf(c)'
  <2> SUFFICES ASSUME NEW c \in Calls PROVE CallOf(c)'
    OBVIOUS
  <2>1. Active(c) => call[c].pay \in Payments
    BY <1>0, ActiveCall, Sorts DEF Active
  <2> QED
    BY <1>0, <1>1, <1>2, <2>1, CallStays DEF PaymentsInv
<1>5. OneCall'
  BY <1>1, OneCallStays DEF PaymentsInv, Active
<1>6. ASSUME NEW m \in Members PROVE Coverage(m)'
  <2>1. CASE IsDonation(p) \/ m # Owner(p)
    <3>1. HasCoverage(m)' => HasCoverage(m)
      BY <1>1, <2>1 DEF HasCoverage, Owner, Kind, IsDonation
    <3> QED
      BY <1>0, <1>1, <3>1, CoverageStays DEF PaymentsInv
  <2>2. CASE ~IsDonation(p) /\ m = Owner(p)
    BY <1>1, <2>2 DEF Coverage
  <2> QED
    BY <2>1, <2>2
<1>7. \A m \in Members : Standing(m)'
  BY <1>0, <1>1, <1>2, StandingStays DEF PaymentsInv
<1> QED
  BY <1>1, <1>3, <1>4, <1>5, <1>6, <1>7 DEF PaymentsInv

-----------------------------------------------------------------------------
(* The requests begin. *)

LEMMA NoDocument ==
  ASSUME NEW D, NEW s \in Seq(D), \A i \in DOMAIN s : FALSE
  PROVE  s = <<>>
  OBVIOUS

LEMMA BeginKeeps ==
  ASSUME PaymentsInv, NEW c \in Calls, NEW p \in Payments,
         NEW entry \in {"save", "sync", "admin"}, NEW stage \in {"lookup", "verify", "record"},
         Begin(c, p, entry, stage),
         UNCHANGED <<plan, charge, docs, member, faults>>,
         \/ intent' = intent
         \/ /\ Via(p) = "paystack" /\ intent[p] # "none"
            /\ intent' = [intent EXCEPT ![p] = "successful"],
         entry = "admin" <=> Via(p) = "admin",
         entry # "admin" => charge[p] # "none" /\ stage # "record",
         entry = "admin" => /\ docs[p] = <<>> /\ stage = "record"
                            /\ \A d \in Calls : call[d].pay # p,
         stage = "verify" => ~KnownReference(p)
  PROVE  PaymentsInv'
<1>0. /\ Typed /\ PlanOK /\ DocsOK /\ CallsOK /\ OthersOK /\ DocumentsOf(p)
      /\ docs[p] \in Seq(Document)
  BY Sorts DEF PaymentsInv, DocsOK
<1>1. /\ CallsOK' /\ ~Active(c) /\ \A d \in Calls \ {c} : call'[d] = call[d]
      /\ call'[c].stage = stage /\ call'[c].entry = entry /\ call'[c].pay = p
      /\ call'[c].covered = FALSE
      /\ history' \in [twice : SUBSET Payments, disturbed : SUBSET Members]
      /\ history'.disturbed = history.disturbed
      /\ history'.twice = IF \E d \in Calls : Active(d) /\ call[d].pay = p
                          THEN history.twice \cup {p} ELSE history.twice
  <2>1. stage \in Stages \ {"idle"}
    BY DEF Stages
  <2>2. /\ CallsOK' /\ history' \in [twice : SUBSET Payments, disturbed : SUBSET Members]
        /\ Begun(c, p, entry, stage)
    BY <1>0, <2>1, BeginEffect
  <2> QED
    BY <2>2 DEF Begun
<1>2. DocsOK' /\ \A q \in Payments : intent'[q] = "none" <=> intent[q] = "none"
  BY <1>0 DEF DocsOK
<1>3. Typed'
  BY <1>0, <1>1, <1>2 DEF Typed, PlanOK, OthersOK, Owner, Kind, Via, IsDonation
<1>4. Grows
  BY GrowsSame
<1>5. \A q \in Payments : DocumentsOf(q)'
  BY <1>1, <1>2 DEF PaymentsInv, DocumentsOf, Via, IsDonation, Kind
<1>6. \A d \in Calls \ {c} : CallOf(d)'
  <2> SUFFICES ASSUME NEW d \in Calls \ {c} PROVE CallOf(d)'
    OBVIOUS
  <2>1. Active(d) => call[d].pay \in Payments
    BY <1>0, ActiveCall DEF Active
  <2> QED
    BY <1>0, <1>1, <1>4, <2>1, CallStays DEF PaymentsInv
<1>7. CallOf(c)'
  <2>1. /\ stage = "verify" /\ Via(p) \in {"paypal", "old"} /\ ~IsDonation(p)
        => docs[p] = <<>>
    BY <1>0, NoDocument DEF DocumentsOf, KnownReference, KnownSubscription
  <2> QED
    BY <1>0, <1>1, <2>1 DEF CallOf, Active, Via, IsDonation, Kind
<1>8. OneCall'
  <2> SUFFICES ASSUME NEW d \in Calls, NEW e \in Calls, d # e, Active(d)', Active(e)',
                      call'[d].pay = call'[e].pay
               PROVE  call'[d].pay \in history'.twice /\ plan'[call'[d].pay].via # "admin"
    BY DEF OneCall, Via
  <2>1. CASE d # c /\ e # c
    BY <1>1, <2>1 DEF OneCall, Active, Via, PaymentsInv
  <2>2. CASE d = c \/ e = c
    BY <1>1, <2>2 DEF Active, Via
  <2> QED
    BY <2>1, <2>2
<1>9. \A m \in Members : Coverage(m)' /\ Standing(m)'
  <2>1. call[c].stage = "idle"
    BY <1>1 DEF Active
  <2> QED
    BY <1>0, <1>1, <1>4, <2>1, CoverageSame, CoverageStays, StandingStays DEF PaymentsInv
<1> QED
  BY <1>3, <1>5, <1>6, <1>7, <1>8, <1>9 DEF PaymentsInv

LEMMA RequestKeeps ==
  ASSUME PaymentsInv, NEW c \in Calls, NEW p \in Payments,
         Save(c, p) \/ Webhook(c, p) \/ Sync(c, p) \/ Requery(c, p) \/ Activate(c, p)
  PROVE  PaymentsInv'
<1>0. DocumentsOf(p)
  BY DEF PaymentsInv
<1>1. charge[p] # "none" => Via(p) # "admin"
  BY <1>0 DEF DocumentsOf
<1>2. CASE Save(c, p)
  BY <1>1, <1>2, BeginKeeps DEF Save
<1>3. CASE Webhook(c, p)
  BY <1>1, <1>3, BeginKeeps DEF Webhook
<1>4. CASE Sync(c, p)
  BY <1>1, <1>4, BeginKeeps DEF Sync
<1>5. CASE Requery(c, p)
  BY <1>1, <1>5, BeginKeeps DEF Requery
<1>6. CASE Activate(c, p)
  BY <1>1, <1>6, BeginKeeps DEF Activate
<1> QED
  BY <1>2, <1>3, <1>4, <1>5, <1>6

-----------------------------------------------------------------------------
(* The requests ask the provider. *)

LEMMA AskingKeeps ==
  ASSUME PaymentsInv, NEW c \in Calls, NEW p \in Payments, p = call[c].pay,
         call[c].stage \in {"lookup", "verify"},
         UNCHANGED <<plan, docs, intent, member, faults, history>>,
         \/ charge' = charge
         \/ charge[p] # "none" /\ charge' = [charge EXCEPT ![p] = "charged"],
         \/ Finish(c)
         \/ call[c].stage = "lookup" /\ ~AlreadyConfirmed(p) /\ GoTo(c, "verify")
         \/ call[c].stage = "verify" /\ GoTo(c, "record")
  PROVE  PaymentsInv'
<1>0. /\ Typed /\ PlanOK /\ DocsOK /\ CallsOK /\ OthersOK /\ DocumentsOf(p)
      /\ docs[p] \in Seq(Document) /\ CallOf(c) /\ Active(c)
  BY Sorts DEF PaymentsInv, DocsOK, Active
<1>1. /\ CallsOK'
      /\ \/ Ends(c) /\ ~Active(c)'
         \/ call[c].stage = "lookup" /\ ~AlreadyConfirmed(p) /\ GoesOn(c, "verify")
         \/ call[c].stage = "verify" /\ GoesOn(c, "record")
  BY <1>0, GoToEffect, FinishEffect DEF Stages
<1>2. DocsOK' /\ \A q \in Payments : charge'[q] = "none" <=> charge[q] = "none"
  BY <1>0 DEF DocsOK
<1>3. Typed'
  BY <1>0, <1>1, <1>2 DEF Typed, PlanOK, OthersOK, Owner, Kind, Via, IsDonation
<1>4. Grows
  BY GrowsSame
<1>5. \A q \in Payments : DocumentsOf(q)'
  BY <1>2 DEF PaymentsInv, DocumentsOf, Via, IsDonation, Kind
<1>6. \A d \in Calls \ {c} : CallOf(d)'
  <2> SUFFICES ASSUME NEW d \in Calls \ {c} PROVE CallOf(d)'
    OBVIOUS
  <2>1. Active(d) => call[d].pay \in Payments
    BY <1>0, ActiveCall DEF Active
  <2>2. call'[d] = call[d]
    BY <1>1 DEF Ends, GoesOn
  <2> QED
    BY <1>0, <1>2, <1>4, <2>1, <2>2, CallStays DEF PaymentsInv
<1>7. CallOf(c)'
  <2>1. CASE ~Active(c)'
    BY <2>1 DEF CallOf
  <2>2. CASE call[c].stage = "lookup" /\ ~AlreadyConfirmed(p) /\ GoesOn(c, "verify")
    <3>1. Via(p) \in {"paypal", "old"} /\ ~IsDonation(p) => docs[p] = <<>>
      BY <1>0, <2>2, NoDocument DEF DocumentsOf, AlreadyConfirmed
    <3> QED
      BY <1>0, <1>2, <2>2, <3>1 DEF CallOf, Active, GoesOn, Via, IsDonation, Kind
  <2>3. CASE call[c].stage = "verify" /\ GoesOn(c, "record")
    BY <1>0, <1>2, <2>3 DEF CallOf, Active, GoesOn, Via, IsDonation, Kind
  <2> QED
    BY <1>1, <2>1, <2>2, <2>3
<1>8. OneCall'
  <2>1. \A d \in Calls : Active(d)' => Active(d) /\ call'[d].pay = call[d].pay
    BY <1>0, <1>1 DEF Ends, GoesOn, Active
  <2> QED
    BY <2>1, OneCallStays DEF PaymentsInv
<1>9. \A m \in Members : Coverage(m)' /\ Standing(m)'
  <2>1. call'[c].stage \in {"idle", "verify", "record"}
        /\ \A d \in Calls \ {c} : call'[d] = call[d]
    BY <1>1, IdleIsCall DEF Ends, GoesOn
  <2> QED
    BY <1>0, <1>4, <2>1, CoverageSame, CoverageStays, StandingStays DEF PaymentsInv
<1> QED
  BY <1>3, <1>5, <1>6, <1>7, <1>8, <1>9 DEF PaymentsInv

LEMMA LookupKeeps ==
  ASSUME PaymentsInv, NEW c \in Calls,
         \/ LookupSubscription(c) \/ LookupDonation(c)
         \/ VerifyPaystack(c) \/ VerifyPaypal(c)
  PROVE  PaymentsInv'
<1>1. call[c].stage \in {"lookup", "verify"}
  BY DEF LookupSubscription, LookupDonation, VerifyPaystack, VerifyPaypal
<1>2. call[c].pay \in Payments
  BY <1>1, ActiveCall, Sorts DEF PaymentsInv
<1> SUFFICES ASSUME NEW p \in Payments, p = call[c].pay PROVE PaymentsInv'
  BY <1>2
<1>3. UNCHANGED <<plan, docs, intent, member, faults, history>>
  BY DEF LookupSubscription, LookupDonation, VerifyPaystack, VerifyPaypal
<1>4. \/ charge' = charge
      \/ charge[p] # "none" /\ charge' = [charge EXCEPT ![p] = "charged"]
  BY DEF LookupSubscription, LookupDonation, VerifyPaystack, VerifyPaypal
<1>5. \/ Finish(c)
      \/ call[c].stage = "lookup" /\ ~AlreadyConfirmed(p) /\ GoTo(c, "verify")
      \/ call[c].stage = "verify" /\ GoTo(c, "record")
  BY DEF LookupSubscription, LookupDonation, VerifyPaystack, VerifyPaypal
<1> QED
  BY <1>1, <1>3, <1>4, <1>5, AskingKeeps

-----------------------------------------------------------------------------
(* After the payment is recorded: the intent, the coverage and the member. *)

LEMMA MarkKeeps ==
  ASSUME PaymentsInv, NEW c \in Calls, Mark(c)
  PROVE  PaymentsInv'
<1>1. call[c].pay \in Payments /\ call[c].stage = "mark"
  BY ActiveCall, Sorts DEF Mark, PaymentsInv
<1> SUFFICES ASSUME NEW p \in Payments, p = call[c].pay PROVE PaymentsInv'
  BY <1>1
<1>0. /\ Typed /\ PlanOK /\ DocsOK /\ CallsOK /\ OthersOK /\ DocumentsOf(p)
      /\ docs[p] \in Seq(Document) /\ CallOf(c) /\ Active(c)
  BY <1>1, Sorts DEF PaymentsInv, DocsOK, Active
<1>2. /\ CallsOK'
      /\ \/ IsDonation(p) /\ Ends(c) /\ ~Active(c)'
         \/ ~IsDonation(p) /\ GoesOn(c, "cover")
  BY <1>0, <1>1, GoToEffect, FinishEffect DEF Stages, Mark
<1>3. Via(p) = "paystack" /\ intent[p] # "none" /\ Recorded(p)
  <2>1. Via(p) = "paystack" /\ Recorded(p)
    BY <1>0, <1>1 DEF CallOf
  <2>2. Len(docs[p]) # 0
    BY <1>0, <2>1, RecordedMeans
  <2> QED
    BY <1>0, <2>1, <2>2 DEF DocumentsOf
<1>4. /\ UNCHANGED <<plan, charge, docs, member, faults, history>>
      /\ DocsOK' /\ \A q \in Payments : intent'[q] = "none" <=> intent[q] = "none"
  BY <1>0, <1>3 DEF DocsOK, Mark
<1>5. Typed'
  BY <1>0, <1>2, <1>4 DEF Typed, PlanOK, OthersOK, Owner, Kind, Via, IsDonation
<1>6. Grows
  BY <1>4, GrowsSame
<1>7. \A q \in Payments : DocumentsOf(q)'
  BY <1>4 DEF PaymentsInv, DocumentsOf, Via, IsDonation, Kind
<1>8. \A d \in Calls \ {c} : CallOf(d)'
  <2> SUFFICES ASSUME NEW d \in Calls \ {c} PROVE CallOf(d)'
    OBVIOUS
  <2>1. Active(d) => call[d].pay \in Payments
    BY <1>0, ActiveCall DEF Active
  <2>2. call'[d] = call[d]
    BY <1>2 DEF Ends, GoesOn
  <2> QED
    BY <1>0, <1>4, <1>6, <2>1, <2>2, CallStays DEF PaymentsInv
<1>9. CallOf(c)'
  <2>1. Recorded(p)' /\ charge'[p] # "none" /\ Via(p)' = "paystack"
    BY <1>0, <1>3, <1>4, <1>6 DEF Grows, CallOf, Via, DocumentsOf
  <2> QED
    BY <1>0, <1>2, <1>3, <1>4, <2>1
    DEF CallOf, Active, GoesOn, Via, IsDonation, Kind
<1>10. OneCall'
  <2>1. \A d \in Calls : Active(d)' => Active(d) /\ call'[d].pay = call[d].pay
    BY <1>0, <1>2 DEF Ends, GoesOn, Active
  <2> QED
    BY <1>4, <2>1, OneCallStays DEF PaymentsInv
<1>11. ASSUME NEW m \in Members PROVE Coverage(m)'
  <2>1. \A d \in Calls : WillSubscribe(d, m) => WillSubscribe(d, m)'
    BY <1>1, <1>2, <1>4 DEF WillSubscribe, Active, Ends, GoesOn, Owner, Kind, IsDonation
  <2>2. \A d \in Calls : call'[d].stage = "update" => call'[d] = call[d]
    BY <1>2, IdleIsCall DEF Ends, GoesOn
  <2>3. HasCoverage(m)' => HasCoverage(m)
    BY <1>4, CoverageSame
  <2> QED
    BY <1>4, <2>1, <2>2, <2>3 DEF PaymentsInv, Coverage, Active, Owner, Kind
<1>12. \A m \in Members : Standing(m)'
  BY <1>0, <1>4, <1>6, StandingStays DEF PaymentsInv
<1> QED
  BY <1>5, <1>7, <1>8, <1>9, <1>10, <1>11, <1>12 DEF PaymentsInv

LEMMA CoverKeeps ==
  ASSUME PaymentsInv, NEW c \in Calls, Cover(c)
  PROVE  PaymentsInv'
<1>1. call[c].pay \in Payments /\ call[c].stage = "cover" /\ call[c] \in Call
  BY ActiveCall, Sorts DEF Cover, PaymentsInv
<1> SUFFICES ASSUME NEW p \in Payments, p = call[c].pay PROVE PaymentsInv'
  BY <1>1
<1>0. /\ Typed /\ PlanOK /\ DocsOK /\ CallsOK /\ OthersOK /\ CallOf(c) /\ Active(c)
  BY <1>1, Sorts DEF PaymentsInv, Active
<1> DEFINE has == HasCoverage(Owner(p))
           k == [call[c] EXCEPT !.stage = "update", !.covered = has]
<1>2. has \in BOOLEAN
  BY DEF HasCoverage
<1> HIDE DEF has
<1>3. /\ k \in Call /\ k.stage = "update" /\ k.pay = p /\ k.entry = call[c].entry
      /\ k.covered = has
  BY <1>1, <1>2 DEF Call, Stages
<1>4. call' = [call EXCEPT ![c] = k]
  BY DEF Cover, has
<1> HIDE DEF k
<1>5. CallsOK' /\ Becomes(c, k)
  BY <1>0, <1>3, <1>4, CallStep, PaymentsAssumption
<1>6. UNCHANGED <<plan, charge, docs, intent, member, faults, history>>
  BY DEF Cover
<1>7. Typed'
  BY <1>0, <1>5, <1>6
  DEF Typed, PlanOK, DocsOK, OthersOK, Owner, Kind, Via, IsDonation
<1>8. Grows
  BY <1>6, GrowsSame
<1>9. \A q \in Payments : DocumentsOf(q)'
  BY <1>6 DEF PaymentsInv, DocumentsOf, Via, IsDonation, Kind
<1>10. \A d \in Calls \ {c} : CallOf(d)'
  <2> SUFFICES ASSUME NEW d \in Calls \ {c} PROVE CallOf(d)'
    OBVIOUS
  <2>1. Active(d) => call[d].pay \in Payments
    BY <1>0, ActiveCall DEF Active
  <2>2. call'[d] = call[d]
    BY <1>5 DEF Becomes
  <2> QED
    BY <1>0, <1>6, <1>8, <2>1, <2>2, CallStays DEF PaymentsInv
<1>11. CallOf(c)'
  <2>1. Owner(p) \in Members
    BY <1>0 DEF PlanOK
  <2>2. has => HasPaid(Owner(p))
    BY <2>1, CoveredHasPaid DEF has
  <2>3. has => \E q \in Payments : /\ Owner(q) = Owner(p) /\ Recorded(q)'
                                   /\ Kind(q) \in {"annual", "lifetime"}
    BY <1>8, <2>2 DEF HasPaid, Grows
  <2>5. Recorded(p)' /\ ~IsDonation(p) /\ (call[c].entry = "admin" <=> Via(p) = "admin")
        /\ (call[c].entry # "admin" => charge[p] # "none")
    BY <1>0, <1>1, <1>8 DEF CallOf, Grows
  <2> QED
    BY <1>3, <1>5, <1>6, <2>3, <2>5
    DEF CallOf, Active, Becomes, Via, IsDonation, Kind, Owner, HasPaid
<1>12. OneCall'
  <2>1. \A d \in Calls : Active(d)' => Active(d) /\ call'[d].pay = call[d].pay
    BY <1>0, <1>1, <1>3, <1>5 DEF Becomes, Active
  <2> QED
    BY <1>6, <2>1, OneCallStays DEF PaymentsInv
<1>13. ASSUME NEW m \in Members PROVE Coverage(m)'
  <2>0. HasCoverage(m)' => HasCoverage(m)
    BY <1>6, CoverageSame
  <2>1. \A d \in Calls \ {c} : call'[d] = call[d]
    BY <1>5 DEF Becomes
  <2>2. HasCoverage(m) => (WillSubscribe(c, m) => WillSubscribe(c, m)')
    BY <1>0, <1>3, <1>5, <1>6 DEF WillSubscribe, Active, Becomes, Owner, Kind, has
  <2>3. \A d \in Calls \ {c} : WillSubscribe(d, m) => WillSubscribe(d, m)'
    BY <1>6, <2>1 DEF WillSubscribe, Active, Owner, Kind, IsDonation
  <2>4. HasCoverage(m) /\ Owner(p) = m => call'[c].covered
    BY <1>3, <1>5 DEF Becomes, has
  <2> QED
    BY <1>3, <1>5, <1>6, <2>0, <2>1, <2>2, <2>3, <2>4
    DEF PaymentsInv, Coverage, Active, Becomes, Owner, Kind
<1>14. \A m \in Members : Standing(m)'
  BY <1>0, <1>6, <1>8, StandingStays DEF PaymentsInv
<1> QED
  BY <1>7, <1>9, <1>10, <1>11, <1>12, <1>13, <1>14 DEF PaymentsInv

LEMMA UpdateKeeps ==
  ASSUME PaymentsInv, NEW c \in Calls, Update(c)
  PROVE  PaymentsInv'
<1>1. call[c].pay \in Payments /\ call[c].stage = "update" /\ call[c] \in Call
  BY ActiveCall, Sorts DEF Update, PaymentsInv
<1> SUFFICES ASSUME NEW p \in Payments, p = call[c].pay PROVE PaymentsInv'
  BY <1>1
<1>0. /\ Typed /\ PlanOK /\ DocsOK /\ CallsOK /\ OthersOK /\ CallOf(c) /\ Active(c)
      /\ Owner(p) \in Members
  BY <1>1, Sorts DEF PaymentsInv, Active, PlanOK
<1> DEFINE r == [subscribed |-> Kind(p) = "lifetime" \/ call[c].covered,
                 life |-> member[Owner(p)].life \/ Kind(p) = "lifetime",
                 expiryOf |-> p]
<1>2. /\ r \in MemberRecord /\ r.expiryOf = p
      /\ r.subscribed = (Kind(p) = "lifetime" \/ call[c].covered)
  <2>1. member[Owner(p)].life \in BOOLEAN /\ call[c].covered \in BOOLEAN
    BY <1>0, <1>1 DEF OthersOK, MemberRecord, Call
  <2> QED
    BY <2>1 DEF MemberRecord
<1>3. member' = [member EXCEPT ![Owner(p)] = r] /\ Finish(c)
  BY DEF Update
<1> HIDE DEF r
<1>4. CallsOK' /\ Ends(c) /\ ~Active(c)'
  BY <1>0, <1>3, FinishEffect
<1>5. UNCHANGED <<plan, charge, docs, intent, faults, history>>
  BY DEF Update
<1>6. /\ member' \in [Members -> MemberRecord] /\ member'[Owner(p)] = r
      /\ \A m \in Members \ {Owner(p)} : member'[m] = member[m]
  BY <1>0, <1>2, <1>3 DEF OthersOK
<1>7. Typed'
  BY <1>0, <1>4, <1>5, <1>6
  DEF Typed, PlanOK, DocsOK, OthersOK, Owner, Kind, Via, IsDonation
<1>8. Grows
  BY <1>5, GrowsSame
<1>9. \A q \in Payments : DocumentsOf(q)'
  BY <1>5 DEF PaymentsInv, DocumentsOf, Via, IsDonation, Kind
<1>10. \A d \in Calls \ {c} : call'[d] = call[d]
  BY <1>4 DEF Ends
<1>11. \A d \in Calls : CallOf(d)'
  <2>1. ASSUME NEW d \in Calls \ {c} PROVE CallOf(d)'
    <3>1. Active(d) => call[d].pay \in Payments
      BY <1>0, ActiveCall DEF Active
    <3> QED
      BY <1>0, <1>5, <1>8, <1>10, <3>1, CallStays DEF PaymentsInv
  <2>2. CallOf(c)'
    BY <1>4 DEF CallOf
  <2> QED
    BY <2>1, <2>2
<1>12. OneCall'
  <2>1. \A d \in Calls : Active(d)' => Active(d) /\ call'[d].pay = call[d].pay
    BY <1>4, <1>10 DEF Active
  <2> QED
    BY <1>5, <2>1, OneCallStays DEF PaymentsInv
<1>13. ASSUME NEW m \in Members PROVE Coverage(m)'
  <2>0. HasCoverage(m)' => HasCoverage(m)
    BY <1>5, CoverageSame
  <2>1. \A d \in Calls \ {c} : WillSubscribe(d, m) => WillSubscribe(d, m)'
    BY <1>5, <1>10 DEF WillSubscribe, Active, Owner, Kind, IsDonation
  <2>2. \A d \in Calls \ {c} : Active(d)' => Active(d)
    BY <1>10 DEF Active
  <2>3. CASE m = Owner(p)
    <3>1. m \notin history.disturbed /\ HasCoverage(m) => member'[m].subscribed
      BY <1>0, <1>1, <1>2, <1>6, <2>3 DEF PaymentsInv, Coverage
    <3> QED
      BY <1>4, <1>5, <1>10, <2>0, <2>2, <3>1
      DEF PaymentsInv, Coverage, Active, Owner, Kind
  <2>4. CASE m # Owner(p)
    <3>1. ~WillSubscribe(c, m)
      BY <2>4 DEF WillSubscribe
    <3>2. member'[m] = member[m]
      BY <1>6, <2>4
    <3> QED
      BY <1>4, <1>5, <1>10, <2>0, <2>1, <2>2, <3>1, <3>2
      DEF PaymentsInv, Coverage, Active, Owner, Kind
  <2> QED
    BY <2>3, <2>4
<1>14. ASSUME NEW m \in Members PROVE Standing(m)'
  <2>1. CASE m = Owner(p)
    <3>1. Recorded(p) /\ Recorded(p)' /\ ~IsDonation(p)
      BY <1>0, <1>1, <1>8 DEF CallOf, Grows
    <3>2. Kind(p) = "lifetime" => HasPaid(m)
      BY <2>1, <3>1 DEF HasPaid
    <3>3. call[c].covered => HasPaid(m)
      BY <1>0, <1>1, <2>1 DEF CallOf
    <3>4. member'[m].subscribed => HasPaid(m)'
      BY <1>2, <1>5, <1>6, <1>8, <2>1, <3>2, <3>3, HasPaidGrows
    <3>5. member'[m].expiryOf = p /\ Owner(p)' = m /\ ~IsDonation(p)'
      BY <1>2, <1>5, <1>6, <2>1, <3>1 DEF Owner, IsDonation, Kind
    <3> QED
      BY <3>1, <3>4, <3>5 DEF Standing, Owner, IsDonation, Kind, Recorded,
         PaidSubscriptions, PaidDonations
  <2>2. CASE m # Owner(p)
    BY <1>0, <1>5, <1>6, <1>8, <2>2, StandingStays DEF PaymentsInv
  <2> QED
    BY <2>1, <2>2
<1> QED
  BY <1>7, <1>9, <1>11, <1>12, <1>13, <1>14 DEF PaymentsInv

LEMMA BreakOffKeeps ==
  ASSUME PaymentsInv, NEW c \in Calls, BreakOff(c)
  PROVE  PaymentsInv'
<1>1. call[c].pay \in Payments /\ call[c].stage # "idle"
  BY ActiveCall, Sorts DEF BreakOff, PaymentsInv, Active
<1> SUFFICES ASSUME NEW p \in Payments, p = call[c].pay PROVE PaymentsInv'
  BY <1>1
<1>0. /\ Typed /\ PlanOK /\ DocsOK /\ CallsOK /\ OthersOK /\ CallOf(c) /\ Active(c)
      /\ Owner(p) \in Members
  BY <1>1, Sorts DEF PaymentsInv, Active, PlanOK
<1>2. CallsOK' /\ Ends(c) /\ ~Active(c)'
  BY <1>0, FinishEffect DEF BreakOff
<1>3. /\ UNCHANGED <<plan, charge, docs, intent, member>> /\ faults' \in 0..MaxFaults
      /\ history' \in [twice : SUBSET Payments, disturbed : SUBSET Members]
      /\ history'.twice = history.twice /\ history.disturbed \subseteq history'.disturbed
      /\ call[c].stage \in {"mark", "cover", "update"} => Owner(p) \in history'.disturbed
  BY <1>0, PaymentsAssumption DEF BreakOff, OthersOK
<1>4. Typed'
  BY <1>0, <1>2, <1>3 DEF Typed, PlanOK, DocsOK, OthersOK, Owner, Kind, Via, IsDonation
<1>5. Grows
  BY <1>3, GrowsSame
<1>6. \A q \in Payments : DocumentsOf(q)'
  BY <1>3 DEF PaymentsInv, DocumentsOf, Via, IsDonation, Kind
<1>7. \A d \in Calls \ {c} : call'[d] = call[d]
  BY <1>2 DEF Ends
<1>8. \A d \in Calls : CallOf(d)'
  <2>1. ASSUME NEW d \in Calls \ {c} PROVE CallOf(d)'
    <3>1. Active(d) => call[d].pay \in Payments
      BY <1>0, ActiveCall DEF Active
    <3> QED
      BY <1>0, <1>3, <1>5, <1>7, <3>1, CallStays DEF PaymentsInv
  <2>2. CallOf(c)'
    BY <1>2 DEF CallOf
  <2> QED
    BY <2>1, <2>2
<1>9. OneCall'
  <2>1. \A d \in Calls : Active(d)' => Active(d) /\ call'[d].pay = call[d].pay
    BY <1>2, <1>7 DEF Active
  <2> QED
    BY <1>3, <2>1, OneCallStays DEF PaymentsInv
<1>10. ASSUME NEW m \in Members PROVE Coverage(m)'
  <2>1. \A d \in Calls \ {c} : WillSubscribe(d, m) => WillSubscribe(d, m)'
    BY <1>3, <1>7 DEF WillSubscribe, Active, Owner, Kind, IsDonation
  <2>2. WillSubscribe(c, m) => m \in history'.disturbed
    BY <1>3 DEF WillSubscribe
  <2>3. HasCoverage(m)' => HasCoverage(m)
    BY <1>3, CoverageSame
  <2> QED
    BY <1>2, <1>3, <1>7, <2>1, <2>2, <2>3 DEF PaymentsInv, Coverage, Active, Owner, Kind
<1>11. \A m \in Members : Standing(m)'
  BY <1>0, <1>3, <1>5, StandingStays DEF PaymentsInv
<1> QED
  BY <1>4, <1>6, <1>8, <1>9, <1>10, <1>11 DEF PaymentsInv

-----------------------------------------------------------------------------
(* The payment is recorded. *)

LEMMA Appended ==
  ASSUME NEW D, NEW s \in Seq(D), NEW x \in D
  PROVE  /\ Append(s, x) \in Seq(D) /\ Len(Append(s, x)) = Len(s) + 1
         /\ DOMAIN Append(s, x) = 1..(Len(s) + 1)
         /\ Append(s, x)[Len(s) + 1] = x
         /\ \A i \in DOMAIN s : Append(s, x)[i] = s[i]
  OBVIOUS

LEMMA WriteEffect ==
  ASSUME Typed, NEW p \in Payments, NEW s \in Seq(Document),
         docs' = [docs EXCEPT ![p] = s], UNCHANGED <<charge, intent>>
  PROVE  DocsOK' /\ docs'[p] = s /\ \A q \in Payments \ {p} : docs'[q] = docs[q]
  BY Sorts DEF DocsOK

LEMMA DisturbEffect ==
  ASSUME Typed, NEW c \in Calls, NEW m \in Members, Disturb(c, m)
  PROVE  /\ history' \in [twice : SUBSET Payments, disturbed : SUBSET Members]
         /\ history'.twice = history.twice /\ history.disturbed \subseteq history'.disturbed
         /\ m \notin history'.disturbed =>
              \A d \in Calls \ {c} : ~(call[d].stage = "update" /\ Owner(call[d].pay) = m)
<1> DEFINE others == \E d \in Calls \ {c} : call[d].stage = "update" /\ Owner(call[d].pay) = m
<1>1. others => history' = [history EXCEPT !.disturbed = @ \cup {m}]
  BY DEF Disturb
<1>2. ~others => history' = [history EXCEPT !.disturbed = @]
  BY DEF Disturb
<1>3. history \in [twice : SUBSET Payments, disturbed : SUBSET Members]
  BY Sorts DEF OthersOK
<1>4. others <=> \E d \in Calls \ {c} : call[d].stage = "update" /\ Owner(call[d].pay) = m
  OBVIOUS
<1> HIDE DEF others
<1>5. CASE others
  BY <1>1, <1>3, <1>5
<1>6. CASE ~others
  BY <1>2, <1>3, <1>4, <1>6
<1> QED
  BY <1>5, <1>6

\* What a step that records payment p does.
Records(c, p) ==
  /\ Typed' /\ Grows /\ DocumentsOf(p)'
  /\ UNCHANGED <<plan, charge, intent, member>>
  /\ history'.twice = history.twice /\ history.disturbed \subseteq history'.disturbed
  /\ Owner(p) \notin history'.disturbed =>
       \A d \in Calls \ {c} : ~(call[d].stage = "update" /\ Owner(call[d].pay) = Owner(p))
  /\ \A q \in Payments \ {p} : docs'[q] = docs[q]
  /\ \/ /\ ~IsDonation(p) /\ Recorded(p)'
        /\ \/ GoesOn(c, "mark") /\ Via(p) = "paystack"
           \/ GoesOn(c, "cover")
           \/ GoesOn(c, "update") /\ Kind(p) = "lifetime"
     \/ /\ IsDonation(p)
        /\ \/ GoesOn(c, "mark") /\ Via(p) = "paystack" /\ Recorded(p)'
           \/ Ends(c)

\* The documents of p become s, of which one is paid.
LEMMA RecordsThem ==
  ASSUME PaymentsInv, NEW c \in Calls, NEW p \in Payments,
         UNCHANGED <<plan, charge, intent, member, faults>>, Disturb(c, Owner(p)),
         NEW s \in Seq(Document), docs' = [docs EXCEPT ![p] = s],
         \E i \in DOMAIN s : s[i].paid, CallsOK', DocumentsOf(p)',
         \/ /\ ~IsDonation(p)
            /\ \/ GoesOn(c, "mark") /\ Via(p) = "paystack"
               \/ GoesOn(c, "cover")
               \/ GoesOn(c, "update") /\ Kind(p) = "lifetime"
         \/ /\ IsDonation(p)
            /\ \/ GoesOn(c, "mark") /\ Via(p) = "paystack"
               \/ Ends(c)
  PROVE  Records(c, p)
<1>0. Typed /\ PlanOK /\ OthersOK /\ Owner(p) \in Members
  BY Sorts DEF PaymentsInv, PlanOK
<1>1. DocsOK' /\ docs'[p] = s /\ \A q \in Payments \ {p} : docs'[q] = docs[q]
  BY <1>0, WriteEffect
<1>2. /\ history' \in [twice : SUBSET Payments, disturbed : SUBSET Members]
      /\ history'.twice = history.twice /\ history.disturbed \subseteq history'.disturbed
      /\ Owner(p) \notin history'.disturbed =>
           \A d \in Calls \ {c} : ~(call[d].stage = "update" /\ Owner(call[d].pay) = Owner(p))
  <2> SUFFICES ASSUME NEW m \in Members, m = Owner(p)
               PROVE  /\ history' \in [twice : SUBSET Payments, disturbed : SUBSET Members]
                      /\ history'.twice = history.twice
                      /\ history.disturbed \subseteq history'.disturbed
                      /\ m \notin history'.disturbed =>
                           \A d \in Calls \ {c} :
                              ~(call[d].stage = "update" /\ Owner(call[d].pay) = m)
    BY <1>0
  <2>1. Disturb(c, m)
    OBVIOUS
  <2> QED
    BY <1>0, <2>1, DisturbEffect
<1>3. Typed'
  BY <1>0, <1>1, <1>2 DEF Typed, PlanOK, OthersOK, Owner, Kind, Via, IsDonation
<1>4. Recorded(p)'
  BY <1>1, RecordedMeansNext
<1>5. Grows
  BY <1>1, <1>4, RecordedMeans, RecordedMeansNext DEF Grows
<1> QED
  BY <1>1, <1>2, <1>3, <1>4, <1>5 DEF Records

\* One document of the checkout is paid.
LEMMA PayingRecords ==
  ASSUME PaymentsInv, NEW c \in Calls, NEW p \in Payments, p = call[c].pay,
         call[c].stage = "record", NEW life \in BOOLEAN,
         UNCHANGED <<plan, charge, intent, member, faults>>, Disturb(c, Owner(p)),
         \/ Via(p) = "paystack" /\ PayDocument(c, p, life)
         \/ Via(p) = "paypal" /\ IsDonation(p) /\ life = FALSE /\ PaypalDonation(c, p)
  PROVE  Records(c, p)
<1>0. /\ Typed /\ CallsOK /\ DocumentsOf(p) /\ docs[p] \in Seq(Document) /\ CallOf(c)
      /\ Active(c)
  BY Sorts DEF PaymentsInv, DocsOK, Active
<1>1. charge[p] # "none" /\ Len(docs[p]) = 1
  BY <1>0 DEF CallOf, DocumentsOf
<1> DEFINE x == [paid |-> TRUE, ref |-> TRUE, life |-> life]
           s == [docs[p] EXCEPT ![1] = x]
<1>2. x \in Document /\ x.paid
  BY DEF Document
<1>3. docs' = [docs EXCEPT ![p] = s]
  BY DEF PayDocument, PaypalDonation
<1> HIDE DEF x
<1>4. s \in Seq(Document) /\ Len(s) = 1 /\ s[1] = x /\ DOMAIN s = {1}
  BY <1>0, <1>1, <1>2, Overwritten
<1> HIDE DEF s
<1>5. /\ CallsOK'
      /\ \/ Via(p) = "paystack" /\ GoesOn(c, "mark")
         \/ Via(p) = "paypal" /\ IsDonation(p) /\ Ends(c)
  BY <1>0, GoToEffect, FinishEffect DEF PayDocument, PaypalDonation, Stages
<1>6. docs'[p] = s
  BY <1>0, <1>3, <1>4, WriteEffect
<1>7. DocumentsOf(p)'
  BY <1>0, <1>1, <1>4, <1>5, <1>6 DEF DocumentsOf, Via, IsDonation, Kind
<1>8. \E i \in DOMAIN s : s[i].paid
  BY <1>2, <1>4
<1> QED
  BY <1>3, <1>4, <1>5, <1>7, <1>8, RecordsThem

LEMMA AddedDocuments ==
  ASSUME NEW p \in Payments, NEW s \in Seq(Document), docs'[p] = s,
         UNCHANGED <<plan, charge>>, history.twice = history'.twice,
         Via(p) \in {"paypal", "old", "admin"}, ~IsDonation(p),
         Via(p) = "admin" => Len(s) <= 1 /\ charge[p] = "none",
         Via(p) \in {"paypal", "old"} => \A i \in DOMAIN s : s[i].paid /\ s[i].ref,
         Via(p) \in {"paypal", "old"} /\ p \notin history.twice => Len(s) <= 1
  PROVE  DocumentsOf(p)'
  BY DEF DocumentsOf, Via, IsDonation, Kind

\* A document is added.
LEMMA AddingRecords ==
  ASSUME PaymentsInv, NEW c \in Calls, NEW p \in Payments, p = call[c].pay,
         call[c].stage = "record", NEW life \in BOOLEAN,
         UNCHANGED <<plan, charge, intent, member, faults>>, Disturb(c, Owner(p)),
         Via(p) \in {"paypal", "old", "admin"}, ~IsDonation(p),
         docs' = [docs EXCEPT ![p] = Append(@, [paid |-> TRUE, ref |-> TRUE, life |-> life])],
         GoTo(c, "cover") \/ (GoTo(c, "update") /\ Kind(p) = "lifetime")
  PROVE  Records(c, p)
<1>0. /\ Typed /\ CallsOK /\ DocumentsOf(p) /\ docs[p] \in Seq(Document) /\ CallOf(c)
      /\ Active(c)
  BY Sorts DEF PaymentsInv, DocsOK, Active
<1> DEFINE x == [paid |-> TRUE, ref |-> TRUE, life |-> life]
           s == Append(docs[p], x)
<1>2. x \in Document /\ x.paid /\ x.ref
  BY DEF Document
<1>3. docs' = [docs EXCEPT ![p] = s]
  OBVIOUS
<1> HIDE DEF x
<1>4. /\ s \in Seq(Document) /\ Len(s) = Len(docs[p]) + 1
      /\ DOMAIN s = 1..(Len(docs[p]) + 1) /\ s[Len(docs[p]) + 1] = x
      /\ \A i \in DOMAIN docs[p] : s[i] = docs[p][i]
  BY <1>0, <1>2, Appended
<1> HIDE DEF s
<1>5. /\ CallsOK'
      /\ GoesOn(c, "cover") \/ (GoesOn(c, "update") /\ Kind(p) = "lifetime")
  BY <1>0, GoToEffect DEF Stages
<1>6. docs'[p] = s
  BY <1>0, <1>3, <1>4, WriteEffect
<1>7. Len(docs[p]) \in Nat /\ DOMAIN docs[p] = 1..Len(docs[p])
  BY <1>0
<1>8. \A i \in DOMAIN s : i \in DOMAIN docs[p] \/ i = Len(docs[p]) + 1
  BY <1>4, <1>7
<1>9. Len(docs[p]) + 1 \in DOMAIN s
  BY <1>4, <1>7
<1>10. docs[p] = <<>> => Len(s) <= 1
  BY <1>4, <1>7
<1>11. DocumentsOf(p)'
  <2>1. Via(p) = "admin" => Len(s) <= 1 /\ charge[p] = "none"
    BY <1>0, <1>10 DEF CallOf, DocumentsOf
  <2>2. Via(p) \in {"paypal", "old"} => \A i \in DOMAIN s : s[i].paid /\ s[i].ref
    BY <1>0, <1>2, <1>4, <1>8 DEF DocumentsOf
  <2>3. Via(p) \in {"paypal", "old"} /\ p \notin history.twice => Len(s) <= 1
    BY <1>0, <1>10 DEF CallOf
  <2>4. history.twice = history'.twice
    <3> SUFFICES ASSUME NEW m \in Members, m = Owner(p) PROVE history.twice = history'.twice
      BY Sorts DEF PlanOK, PaymentsInv
    <3>1. Disturb(c, m)
      OBVIOUS
    <3> QED
      BY <1>0, <3>1, DisturbEffect
  <2> QED
    BY <1>4, <1>6, <2>1, <2>2, <2>3, <2>4, AddedDocuments
<1>12. \E i \in DOMAIN s : s[i].paid
  BY <1>2, <1>4, <1>9
<1> QED
  BY <1>3, <1>4, <1>5, <1>11, <1>12, RecordsThem

\* An old donation gets its one document.
LEMMA OldDonationRecords ==
  ASSUME PaymentsInv, NEW c \in Calls, NEW p \in Payments, p = call[c].pay,
         call[c].stage = "record",
         UNCHANGED <<plan, charge, intent, member, faults>>, Disturb(c, Owner(p)),
         Via(p) = "old", IsDonation(p), OldDonation(c, p)
  PROVE  Records(c, p)
<1>0. /\ Typed /\ PlanOK /\ CallsOK /\ DocumentsOf(p) /\ docs[p] \in Seq(Document)
  BY Sorts DEF PaymentsInv, DocsOK
<1>1. CallsOK' /\ Ends(c)
  BY <1>0, FinishEffect DEF OldDonation
<1> DEFINE s == <<[paid |-> TRUE, ref |-> TRUE, life |-> FALSE]>>
<1>2. CASE docs[p] = <<>>
  <2>1. docs' = [docs EXCEPT ![p] = s]
    BY <1>2 DEF OldDonation
  <2>2. s \in Seq(Document) /\ Len(s) <= 1 /\ DOMAIN s = {1} /\ s[1].paid
    BY DEF Document
  <2> HIDE DEF s
  <2>3. docs'[p] = s
    BY <1>0, <2>1, <2>2, WriteEffect
  <2>4. DocumentsOf(p)'
    BY <2>2, <2>3 DEF DocumentsOf, Via, IsDonation, Kind
  <2> QED
    BY <1>1, <2>1, <2>2, <2>4, RecordsThem
<1>3. CASE docs[p] # <<>>
  <2>1. docs' = docs
    BY <1>0, <1>3, Sorts DEF OldDonation, DocsOK
  <2>2. /\ history' \in [twice : SUBSET Payments, disturbed : SUBSET Members]
        /\ history'.twice = history.twice /\ history.disturbed \subseteq history'.disturbed
        /\ Owner(p) \notin history'.disturbed =>
             \A d \in Calls \ {c} : ~(call[d].stage = "update" /\ Owner(call[d].pay) = Owner(p))
    <3> SUFFICES ASSUME NEW m \in Members, m = Owner(p)
                 PROVE  /\ history' \in [twice : SUBSET Payments, disturbed : SUBSET Members]
                        /\ history'.twice = history.twice
                        /\ history.disturbed \subseteq history'.disturbed
                        /\ m \notin history'.disturbed =>
                             \A d \in Calls \ {c} :
                                ~(call[d].stage = "update" /\ Owner(call[d].pay) = m)
      BY <1>0 DEF PlanOK
    <3>1. Disturb(c, m)
      OBVIOUS
    <3> QED
      BY <1>0, <3>1, DisturbEffect
  <2>3. Typed'
    BY <1>0, <1>1, <2>1, <2>2, Sorts
    DEF Typed, PlanOK, DocsOK, OthersOK, Owner, Kind, Via, IsDonation
  <2>4. Grows
    BY <2>1, GrowsSame
  <2>5. DocumentsOf(p)'
    BY <1>0, <2>1, <2>2, DocumentsStay
  <2> QED
    BY <1>1, <2>1, <2>2, <2>3, <2>4, <2>5 DEF Records
<1> QED
  BY <1>2, <1>3

LEMMA RecordsKeeps ==
  ASSUME PaymentsInv, NEW c \in Calls, NEW p \in Payments, p = call[c].pay,
         call[c].stage = "record", Records(c, p)
  PROVE  PaymentsInv'
<1>0. /\ Typed /\ PlanOK /\ CallsOK /\ DocumentsOf(p) /\ CallOf(c) /\ Active(c)
      /\ Owner(p) \in Members
  BY Sorts DEF PaymentsInv, Active, PlanOK
<1>1. Typed' /\ Grows /\ UNCHANGED <<plan, charge, intent, member>>
      /\ history'.twice = history.twice /\ history.disturbed \subseteq history'.disturbed
      /\ \A q \in Payments \ {p} : docs'[q] = docs[q]
  BY DEF Records
<1>2. \/ Ends(c) /\ ~Active(c)'
      \/ GoesOn(c, "mark") \/ GoesOn(c, "cover") \/ GoesOn(c, "update")
  BY IdleIsCall DEF Records, Ends, Active
<1>3. \A d \in Calls \ {c} : call'[d] = call[d]
  BY <1>2 DEF Ends, GoesOn
<1>4. \A q \in Payments : DocumentsOf(q)'
  BY <1>0, <1>1, DocumentsStay DEF Records, PaymentsInv
<1>5. \A d \in Calls \ {c} : CallOf(d)'
  <2> SUFFICES ASSUME NEW d \in Calls \ {c} PROVE CallOf(d)'
    OBVIOUS
  <2>1. Active(d) => call[d].pay \in Payments
    BY <1>0, ActiveCall DEF Active
  <2>2. Active(d) /\ call[d].pay = p => p \in history.twice /\ Via(p) # "admin"
    BY <1>0 DEF PaymentsInv, OneCall
  <2> QED
    BY <1>0, <1>1, <1>3, <2>1, <2>2, CallStays DEF PaymentsInv
<1>6. CallOf(c)'
  <2>1. CASE ~Active(c)'
    BY <2>1 DEF CallOf
  <2>2. CASE Active(c)'
    <3>1. Recorded(p)'
      BY <2>2, IdleIsCall DEF Records, Ends, Active
    <3>2. /\ call'[c].pay = p /\ call'[c].entry = call[c].entry
          /\ call'[c].stage = "mark" => Via(p) = "paystack"
          /\ call'[c].stage \in {"mark", "cover", "update"}
          /\ call'[c].stage \in {"cover", "update"} => ~IsDonation(p)
      BY <2>2, IdleIsCall DEF Records, Ends, GoesOn, Active
    <3>3. call'[c].stage = "update" => \E q \in Payments :
             /\ Owner(q) = Owner(p) /\ Recorded(q)' /\ Kind(q) \in {"annual", "lifetime"}
      BY <2>2, <3>1, IdleIsCall DEF Records, Ends, GoesOn, Active
    <3>4. (call[c].entry = "admin" <=> Via(p) = "admin")
          /\ (call[c].entry # "admin" => charge[p] # "none")
      BY <1>0 DEF CallOf
    <3> QED
      BY <1>1, <3>1, <3>2, <3>3, <3>4
      DEF CallOf, Active, Via, IsDonation, Kind, Owner, HasPaid
  <2> QED
    BY <2>1, <2>2
<1>7. OneCall'
  <2>1. \A d \in Calls : Active(d)' => Active(d) /\ call'[d].pay = call[d].pay
    BY <1>0, <1>2, <1>3 DEF GoesOn, Active
  <2> QED
    BY <1>1, <2>1, OneCallStays DEF PaymentsInv
<1>8. ASSUME NEW m \in Members PROVE Coverage(m)'
  <2>1. \A d \in Calls : WillSubscribe(d, m) => WillSubscribe(d, m)'
    BY <1>1, <1>3 DEF WillSubscribe, Active, Owner, Kind, IsDonation
  <2>2. CASE m = Owner(p) /\ ~IsDonation(p)
    <3>1. /\ call'[c].pay = p
          /\ \/ call'[c].stage \in {"mark", "cover"}
             \/ call'[c].stage = "update" /\ Kind(p) = "lifetime"
      BY <2>2 DEF Records, GoesOn
    <3>2. WillSubscribe(c, m)'
      BY <1>1, <2>2, <3>1 DEF WillSubscribe, Active, Owner, Kind, IsDonation
    <3>3. m \notin history'.disturbed =>
            \A d \in Calls \ {c} : ~(call'[d].stage = "update" /\ Owner(call[d].pay) = m)
      BY <1>3, <2>2 DEF Records
    <3> QED
      BY <1>1, <1>3, <3>1, <3>2, <3>3 DEF Coverage, Active, Owner, Kind
  <2>3. CASE m # Owner(p) \/ IsDonation(p)
    <3>1. HasCoverage(m)' => HasCoverage(m)
      BY <1>1, <2>3 DEF HasCoverage, Owner, Kind, IsDonation
    <3>2. Active(c)' /\ call'[c].stage = "update" => Owner(p) # m /\ call'[c].pay = p
      BY <2>3, IdleIsCall DEF Records, Ends, GoesOn, Active
    <3> QED
      BY <1>0, <1>1, <1>3, <2>1, <3>1, <3>2
      DEF PaymentsInv, Coverage, Active, Owner, Kind
  <2> QED
    BY <2>2, <2>3
<1>9. \A m \in Members : Standing(m)'
  BY <1>0, <1>1, StandingStays DEF PaymentsInv
<1> QED
  BY <1>1, <1>4, <1>5, <1>6, <1>7, <1>8, <1>9 DEF PaymentsInv

LEMMA RecordingKeeps ==
  ASSUME PaymentsInv, NEW c \in Calls,
         \/ SaveSubscriptionPaystack(c) \/ SaveSubscriptionPaypal(c)
         \/ SyncSubscriptionPaystack(c) \/ SyncSubscriptionPaypal(c)
         \/ SaveDonation(c) \/ SyncDonationPaypal(c) \/ SyncDonationPaystack(c)
         \/ ActivateYear(c) \/ ActivateLifetime(c)
  PROVE  PaymentsInv'
<1>1. call[c].stage = "record"
  BY DEF SaveSubscriptionPaystack, SaveSubscriptionPaypal, SyncSubscriptionPaystack,
         SyncSubscriptionPaypal, SaveDonation, SyncDonationPaypal, SyncDonationPaystack,
         ActivateYear, ActivateLifetime, Recording
<1>2. call[c].pay \in Payments
  BY <1>1, ActiveCall, Sorts DEF PaymentsInv
<1> SUFFICES ASSUME NEW p \in Payments, p = call[c].pay PROVE PaymentsInv'
  BY <1>2
<1>0. Typed /\ PlanOK /\ DocsOK /\ CallOf(c) /\ DocumentsOf(p) /\ Active(c)
  BY <1>1, Sorts DEF PaymentsInv, Active
<1>3. UNCHANGED <<plan, charge, intent, member, faults>> /\ Disturb(c, Owner(p))
  BY DEF SaveSubscriptionPaystack, SaveSubscriptionPaypal, SyncSubscriptionPaystack,
         SyncSubscriptionPaypal, SaveDonation, SyncDonationPaypal, SyncDonationPaystack,
         ActivateYear, ActivateLifetime, Recording
<1>4. Via(p) = "paystack" => docs[p][1].life \in BOOLEAN
  <2>1. docs[p] \in Seq(Document)
    BY <1>0 DEF DocsOK
  <2>2. Via(p) = "paystack" => Len(docs[p]) = 1
    BY <1>0 DEF CallOf, DocumentsOf
  <2>3. Via(p) = "paystack" => docs[p][1] \in Document
    BY <2>1, <2>2
  <2> QED
    BY <2>3 DEF Document
<1>5. (Kind(p) = "lifetime") \in BOOLEAN /\ FALSE \in BOOLEAN /\ TRUE \in BOOLEAN
  OBVIOUS
<1>6. ASSUME NEW life \in BOOLEAN, Via(p) = "paystack", PayDocument(c, p, life)
      PROVE  Records(c, p)
  BY <1>1, <1>3, <1>6, PayingRecords
<1>7. ASSUME NEW life \in BOOLEAN, Via(p) \in {"paypal", "old", "admin"}, ~IsDonation(p),
             AddDocument(c, p, life)
      PROVE  Records(c, p)
  BY <1>1, <1>3, <1>7, AddingRecords DEF AddDocument
<1>8. ASSUME Via(p) = "paypal", IsDonation(p), PaypalDonation(c, p)
      PROVE  Records(c, p)
  BY <1>1, <1>3, <1>5, <1>8, PayingRecords
<1>9. ASSUME Via(p) = "old", IsDonation(p), OldDonation(c, p)
      PROVE  Records(c, p)
  BY <1>1, <1>3, <1>9, OldDonationRecords
<1>10. Records(c, p)
  <2>1. CASE SaveSubscriptionPaystack(c)
    BY <1>4, <1>5, <1>6, <1>7, <2>1 DEF SaveSubscriptionPaystack, Recording
  <2>2. CASE SaveSubscriptionPaypal(c)
    BY <1>5, <1>7, <2>2 DEF SaveSubscriptionPaypal, Recording
  <2>3. CASE SyncSubscriptionPaystack(c)
    BY <1>5, <1>6, <1>7, <2>3 DEF SyncSubscriptionPaystack, Recording
  <2>4. CASE SyncSubscriptionPaypal(c)
    BY <1>5, <1>7, <2>4 DEF SyncSubscriptionPaypal, Recording
  <2>5. CASE SaveDonation(c)
    <3>1. /\ Via(p) \in {"paystack", "old", "paypal"} /\ IsDonation(p)
          /\ Via(p) = "paystack" => PayDocument(c, p, FALSE)
          /\ Via(p) = "paypal" => PaypalDonation(c, p)
          /\ Via(p) = "old" => OldDonation(c, p)
      BY <2>5 DEF SaveDonation, Recording
    <3> QED
      BY <1>5, <1>6, <1>8, <1>9, <3>1
  <2>6. CASE SyncDonationPaypal(c)
    BY <1>8, <2>6 DEF SyncDonationPaypal, Recording
  <2>7. CASE SyncDonationPaystack(c)
    BY <1>5, <1>6, <1>9, <2>7 DEF SyncDonationPaystack, Recording
  <2>8. Via(p) = "admin" => ~IsDonation(p)
    BY <1>0 DEF PlanOK
  <2>9. CASE ActivateYear(c)
    BY <1>5, <1>7, <2>8, <2>9 DEF ActivateYear, Recording
  <2>10. CASE ActivateLifetime(c)
    <3>1. /\ Via(p) = "admin" /\ Kind(p) = "lifetime" /\ GoTo(c, "update")
          /\ docs' = [docs EXCEPT ![p] = Append(@, [paid |-> TRUE, ref |-> TRUE, life |-> TRUE])]
      BY <2>10 DEF ActivateLifetime, Recording
    <3> QED
      BY <1>1, <1>3, <1>5, <2>8, <3>1, AddingRecords
  <2> QED
    BY <2>1, <2>2, <2>3, <2>4, <2>5, <2>6, <2>7, <2>9, <2>10
<1> QED
  BY <1>1, <1>10, RecordsKeeps

-----------------------------------------------------------------------------
(* The theorems. *)

LEMMA PaymentsStep == PaymentsInv /\ [Next]_vars => PaymentsInv'
<1> SUFFICES ASSUME PaymentsInv, [Next]_vars PROVE PaymentsInv'
  OBVIOUS
<1>1. CASE UNCHANGED vars
  <2>1. UNCHANGED <<plan, charge, docs, intent, member, call, faults, history>>
    BY <1>1 DEF vars
  <2>2. Typed'
    BY <2>1, Sorts DEF PaymentsInv, Typed, PlanOK, DocsOK, CallsOK, OthersOK, Owner, Kind, Via,
       IsDonation
  <2>3. Grows
    BY <2>1, GrowsSame
  <2>4. \A q \in Payments : DocumentsOf(q)'
    BY <2>1, DocumentsStay DEF PaymentsInv
  <2>5. \A c \in Calls : CallOf(c)'
    <3> SUFFICES ASSUME NEW c \in Calls PROVE CallOf(c)'
      OBVIOUS
    <3>1. Active(c) => call[c].pay \in Payments
      BY ActiveCall, Sorts DEF Active, PaymentsInv
    <3> QED
      BY <2>1, <2>3, <3>1, CallStays DEF PaymentsInv
  <2>6. OneCall'
    BY <2>1, OneCallStays DEF PaymentsInv, Active
  <2>7. \A m \in Members : Coverage(m)' /\ Standing(m)'
    BY <2>1, <2>3, CoverageSame, CoverageStays, StandingStays DEF PaymentsInv
  <2> QED
    BY <2>2, <2>4, <2>5, <2>6, <2>7 DEF PaymentsInv
<1>2. ASSUME NEW p \in Payments,
             \/ InitSubscription(p) \/ InitDonation(p) \/ Pay(p)
             \/ ConfirmManually(p) \/ Refresh(p)
      PROVE  PaymentsInv'
  BY <1>2, CheckoutKeeps, PayKeeps, SetPaidKeeps
<1>3. ASSUME NEW c \in Calls, NEW p \in Payments,
             \/ Save(c, p) \/ Webhook(c, p) \/ Sync(c, p) \/ Requery(c, p) \/ Activate(c, p)
      PROVE  PaymentsInv'
  BY <1>3, RequestKeeps
<1>4. ASSUME NEW c \in Calls, Step(c) \/ BreakOff(c)
      PROVE  PaymentsInv'
  BY <1>4, LookupKeeps, RecordingKeeps, MarkKeeps, CoverKeeps, UpdateKeeps, BreakOffKeeps
  DEF Step
<1>5. CASE Next
  <2>1. CASE \E p \in Payments :
               \/ InitSubscription(p) \/ InitDonation(p) \/ Pay(p)
               \/ ConfirmManually(p) \/ Refresh(p)
    BY <1>2, <2>1
  <2>2. CASE \E c \in Calls, p \in Payments :
               \/ Save(c, p) \/ Webhook(c, p) \/ Sync(c, p) \/ Requery(c, p)
               \/ Activate(c, p)
    BY <1>3, <2>2
  <2>3. CASE \E c \in Calls : Step(c) \/ BreakOff(c)
    BY <1>4, <2>3
  <2> QED
    BY <1>5, <2>1, <2>2, <2>3 DEF Next
<1> QED
  BY <1>1, <1>5

\* The inductive invariant holds in every reachable state: what a payment has for
\* documents, what a request knows between its calls, and who is covered.
THEOREM PaymentsCorrect == Spec => []PaymentsInv
<1>1. Init => PaymentsInv
  BY InitPayments
<1>2. PaymentsInv /\ [Next]_vars => PaymentsInv'
  BY PaymentsStep
<1> QED
  BY <1>1, <1>2, PTL DEF Spec

\* Every variable stays within its type.
THEOREM TypeCorrect == Spec => []TypeOK
<1>1. PaymentsInv => TypeOK
  BY TypedIsTypeOK DEF PaymentsInv
<1> QED
  BY <1>1, PaymentsCorrect, PTL

LEMMA AtMostOne ==
  ASSUME NEW D, NEW s \in Seq(D), Len(s) <= 1, NEW S \in SUBSET DOMAIN s
  PROVE  ~(Cardinality(S) > 1)
<1>1. IsFiniteSet({1}) /\ Cardinality({1}) = 1
  BY FS_Singleton
<1>2. S \subseteq {1}
  OBVIOUS
<1>3. Cardinality(S) <= 1 /\ Cardinality(S) \in Nat
  BY <1>1, <1>2, FS_Subset, FS_CardinalityType
<1> QED
  BY <1>3

\* However often a payment is confirmed, and whichever requests and callbacks of the
\* provider interleave, it is one record of the lists; only requests that confirm a
\* PayPal or an old subscription at the same time make a second one.
THEOREM PaymentsRecordedOnce == Spec => []RecordedOnce
<1>1. PaymentsInv => RecordedOnce
  <2> SUFFICES ASSUME PaymentsInv, NEW p \in Payments,
                      ~(/\ p \in history.twice
                        /\ Via(p) \in {"paypal", "old"} /\ ~IsDonation(p))
               PROVE  ~(Cardinality(PaidSubscriptions(p) \cup PaidDonations(p)) > 1)
    BY DEF RecordedOnce
  <2>1. docs[p] \in Seq(Document) /\ DocumentsOf(p) /\ Via(p) \in Channels
    BY Sorts DEF PaymentsInv, DocsOK, PlanOK
  <2>2. Len(docs[p]) <= 1
    BY <2>1 DEF DocumentsOf, Channels
  <2>3. PaidSubscriptions(p) \cup PaidDonations(p) \in SUBSET DOMAIN docs[p]
    BY DEF PaidSubscriptions, PaidDonations
  <2> QED
    BY <2>1, <2>2, <2>3, AtMostOne
<1> QED
  BY <1>1, PaymentsCorrect, PTL

\* A member whose payments cover this year is subscribed once their requests have
\* ended, unless one broke off or was overtaken between reading and writing.
THEOREM CoveredMembersAreSubscribed == Spec => []CoveredAreSubscribed
<1>1. PaymentsInv => CoveredAreSubscribed
  BY DEF PaymentsInv, CoveredAreSubscribed, Coverage, WillSubscribe
<1> QED
  BY <1>1, PaymentsCorrect, PTL

\* Nobody is subscribed, or has an expiry date, without a recorded payment.
THEOREM SubscribedMembersHavePaid == Spec => []SubscribedHavePaid
<1>1. PaymentsInv => SubscribedHavePaid
  <2> SUFFICES ASSUME PaymentsInv, NEW m \in Members
               PROVE  LET Mine == {p \in Payments : /\ Owner(p) = m /\ ~IsDonation(p)
                                                    /\ Recorded(p)} IN
                      /\ member[m].subscribed =>
                           \E p \in Mine : Kind(p) \in {"annual", "lifetime"}
                      /\ member[m].expiryOf # NoPayment => member[m].expiryOf \in Mine
    BY DEF SubscribedHavePaid
  <2>1. Standing(m) /\ member[m].expiryOf \in Payments \cup {NoPayment}
    BY Sorts DEF PaymentsInv, OthersOK, MemberRecord
  <2> QED
    BY <2>1 DEF Standing, HasPaid, IsDonation
<1> QED
  BY <1>1, PaymentsCorrect, PTL
=============================================================================

---------------------------- MODULE OrderPayment ----------------------------
(***************************************************************************)
(* The store: how a paid order takes its stock, exactly once, although the *)
(* customer's return from checkout, the "sync payment status" button and   *)
(* the payment-intent requery may all confirm the same payment at the same *)
(* time, in several requests of the web process.                           *)
(*                                                                         *)
(* MongoDB updates single documents atomically and nothing here runs in a  *)
(* transaction, so every store call of a request is a step of its own and  *)
(* a request may die between any two of them.                              *)
(***************************************************************************)
EXTENDS Integers, Sequences, FiniteSets

CONSTANTS
  Orders,        \* order documents (and the payments they are made for)
  Products,      \* product documents
  Requests,      \* concurrent requests that may be confirming a payment
  NoOrder,       \* what an idle request works on
  Cart,          \* Cart[o]: the order's products array, [product, quantity]
  Channel,       \* Channel[o]: how the order is paid
  InitialStock,  \* InitialStock[p]: stock when the model starts
  EditLevels,    \* stock levels an administrator may type into the form
  MaxEdits,      \* bound: administrator edits and removals of products
  MaxFaults      \* bound: store errors and requests that die half-way

Channels == {"paystack", "paypal", "legacy"}

ASSUME OrderAssumption ==
  /\ NoOrder \notin Orders
  /\ Cart \in [Orders -> Seq([product: Products, quantity: Nat \ {0}])]
  /\ \A o \in Orders : Len(Cart[o]) > 0
  /\ Channel \in [Orders -> Channels]
  /\ InitialStock \in [Products -> Nat]
  /\ EditLevels \subseteq Nat
  /\ MaxEdits \in Nat
  /\ MaxFaults \in Nat

VARIABLES
  order,     \* the order documents
  intent,    \* status of the order's payment intent
  charge,    \* the payment at Paystack or PayPal
  stock,     \* the products' stock field
  catalog,   \* the products that have not been removed
  stage,     \* the store call each request makes next
  job,       \* the order each request works on
  deducted,  \* the request's local list of deducted lines
  taken,     \* history: the order's lines whose quantity is out of stock
  base,      \* history: what the stock would be if no line were taken
  edits,     \* administrator edits so far
  faults     \* faults so far

vars == <<order, intent, charge, stock, catalog, stage, job, deducted, taken,
          base, edits, faults>>

requestVars == <<stage, job, deducted>>
stockVars   == <<stock, catalog, base, edits>>

-----------------------------------------------------------------------------
Lines(o) == DOMAIN Cart[o]

Stages == {"idle", "load", "claim", "latest", "deduct", "restore", "pay",
           "intent"}

\* The stages only the request whose claim succeeded can be in before the
\* order is paid.
Holding == {"deduct", "restore"}

OrderDoc == [placed: BOOLEAN, isPaid: BOOLEAN, stockDeducted: BOOLEAN,
             amountOk: BOOLEAN]

\* Request r moves on to stage s.
Goto(r, s) == stage' = [stage EXCEPT ![r] = s]

\* An idle request takes up order o at stage s.
Begin(r, o, s) ==
  /\ stage[r] = "idle"
  /\ Goto(r, s)
  /\ job' = [job EXCEPT ![r] = o]
  /\ deducted' = [deducted EXCEPT ![r] = {}]

\* The request answers its client, successfully or not.
Finish(r) ==
  /\ Goto(r, "idle")
  /\ job' = [job EXCEPT ![r] = NoOrder]
  /\ deducted' = [deducted EXCEPT ![r] = {}]

\* priceAndValidateProducts looks at each line on its own: two lines of one
\* product may each fit the stock when together they do not.
CanPrice(o) ==
  \A i \in Lines(o) : /\ Cart[o][i].product \in catalog
                      /\ stock[Cart[o][i].product] >= Cart[o][i].quantity

\* assertPaymentAmount: the charge has the order's total and currency.
AssertPaymentAmount(o) == order[o].amountOk

\* Mutant of InStock: the update's filter lacks the $gte on the stock.
InStockUnguarded(o, i) == Cart[o][i].product \in catalog

\* The filter of deductStockOnce's update of one product.
InStock(o, i) == /\ Cart[o][i].product \in catalog
                 /\ stock[Cart[o][i].product] >= Cart[o][i].quantity

-----------------------------------------------------------------------------
Init ==
  /\ order = [o \in Orders |-> [placed |-> FALSE, isPaid |-> FALSE,
                                stockDeducted |-> FALSE, amountOk |-> FALSE]]
  /\ intent = [o \in Orders |-> "none"]
  /\ charge = [o \in Orders |->
                 IF Channel[o] = "legacy" THEN "open" ELSE "none"]
  /\ stock = InitialStock
  /\ catalog = Products
  /\ stage = [r \in Requests |-> "idle"]
  /\ job = [r \in Requests |-> NoOrder]
  /\ deducted = [r \in Requests |-> {}]
  /\ taken = [o \in Orders |-> {}]
  /\ base = InitialStock
  /\ edits = 0
  /\ faults = 0

(***************************************************************************)
(* POST /orders/pay: price the cart, save the unpaid order (and, for       *)
(* Paystack, its intent) and open a checkout.  When the provider refuses,  *)
(* the order document stays behind without a checkout.                     *)
(***************************************************************************)
Checkout(o) ==
  /\ Channel[o] # "legacy"
  /\ ~order[o].placed
  /\ CanPrice(o)
  /\ order' = [order EXCEPT ![o] = [@ EXCEPT !.placed = TRUE,
                                             !.amountOk = TRUE]]
  /\ \/ /\ charge' = [charge EXCEPT ![o] = "open"]
        /\ intent' = [intent EXCEPT ![o] =
                        IF Channel[o] = "paystack" THEN "PROCESSING" ELSE @]
     \/ /\ charge' = charge
        /\ intent' = [intent EXCEPT ![o] =
                        IF Channel[o] = "paystack" THEN "PENDING" ELSE @]
  /\ UNCHANGED <<requestVars, stockVars, taken, faults>>

\* The customer pays on the provider's page (for PayPal: approves the payment).
CustomerPays(o) ==
  /\ charge[o] = "open"
  /\ charge' = [charge EXCEPT ![o] = "paid"]
  /\ UNCHANGED <<order, intent, requestVars, stockVars, taken, faults>>

(***************************************************************************)
(* POST /orders/create for a Paystack payment whose metadata names the     *)
(* order: verify it, load the order, and complete it unless it is paid.    *)
(***************************************************************************)
CreatePaystack(r, o) ==
  /\ Channel[o] = "paystack"
  /\ charge[o] = "paid"
  /\ order[o].placed
  /\ \/ order[o].isPaid /\ Begin(r, o, "intent")
     \/ ~order[o].isPaid /\ AssertPaymentAmount(o) /\ Begin(r, o, "claim")
  /\ UNCHANGED <<order, intent, charge, stockVars, taken, faults>>

\* POST /orders/create for PayPal captures the payment first.  A payment that
\* has been captured before is an error here: captureOrder swallows PayPal's
\* refusal and create fails on the undefined result.
CreatePaypal(r, o) ==
  /\ Channel[o] = "paypal"
  /\ charge[o] = "paid"
  /\ charge' = [charge EXCEPT ![o] = "captured"]
  /\ Begin(r, o, "load")
  /\ UNCHANGED <<order, intent, stockVars, taken, faults>>

(***************************************************************************)
(* POST /orders/create for a transaction without orderId: price the cart   *)
(* again and save an order under the payment's reference.  The reference   *)
(* is unique, so a second attempt ends in a conflict and saves nothing.    *)
(* The new total need not be what the customer was charged.                *)
(***************************************************************************)
CreateLegacy(r, o) ==
  /\ Channel[o] = "legacy"
  /\ charge[o] = "paid"
  /\ ~order[o].placed
  /\ CanPrice(o)
  /\ \E ok \in BOOLEAN :
       /\ order' = [order EXCEPT ![o] = [@ EXCEPT !.placed = TRUE,
                                                  !.amountOk = ok]]
       /\ \/ ok /\ Begin(r, o, "claim")
          \/ ~ok /\ stage[r] = "idle" /\ UNCHANGED requestVars
  /\ UNCHANGED <<intent, charge, stockVars, taken, faults>>

\* POST /orders/sync-payment-status: Paystack knows the reference only of its
\* own payments; a paid order is returned as it is.
SyncPaymentStatus(r, o) ==
  /\ Channel[o] # "paypal"
  /\ charge[o] = "paid"
  /\ order[o].placed
  /\ ~order[o].isPaid
  /\ AssertPaymentAmount(o)
  /\ Begin(r, o, "claim")
  /\ UNCHANGED <<order, intent, charge, stockVars, taken, faults>>

\* POST /payment-intents/requery marks the intent before it dispatches to
\* syncPaymentStatus.
Requery(r, o) ==
  /\ Channel[o] = "paystack"
  /\ charge[o] = "paid"
  /\ intent[o] # "none"
  /\ intent' = [intent EXCEPT ![o] = "SUCCESSFUL"]
  /\ Begin(r, o, "load")
  /\ UNCHANGED <<order, charge, stockVars, taken, faults>>

\* Mutant of LoadOrder: an order that cannot go on is not returned early.
LoadOrderGoesOn(r) ==
  /\ stage[r] = "load"
  /\ Goto(r, "claim")
  /\ job' = IF order[job[r]].isPaid THEN [job EXCEPT ![r] = NoOrder] ELSE job
  /\ UNCHANGED <<order, intent, charge, deducted, stockVars, taken, faults>>

\* The order is read after the capture, or by the sync a requery dispatches.
LoadOrder(r) ==
  LET o == job[r] IN
  /\ stage[r] = "load"
  /\ \/ /\ order[o].placed /\ ~order[o].isPaid /\ AssertPaymentAmount(o)
        /\ Goto(r, "claim")
        /\ UNCHANGED <<job, deducted>>
     \/ /\ ~order[o].placed \/ order[o].isPaid \/ ~AssertPaymentAmount(o)
        /\ Finish(r)
  /\ UNCHANGED <<order, intent, charge, stockVars, taken, faults>>

-----------------------------------------------------------------------------
\* Mutant of Claim: the update's filter does not ask for an unclaimed order.
ClaimAlways(r) ==
  /\ stage[r] = "claim"
  /\ order' = [order EXCEPT ![job[r]].stockDeducted = TRUE]
  /\ deducted' = [deducted EXCEPT ![r] = {}]
  /\ Goto(r, "deduct")
  /\ UNCHANGED <<intent, charge, job, stockVars, taken, faults>>

(***************************************************************************)
(* deductStockOnce.  The claim is one conditional update of the order.     *)
(***************************************************************************)
Claim(r) ==
  LET o == job[r] IN
  /\ stage[r] = "claim"
  /\ \/ /\ ~order[o].stockDeducted
        /\ order' = [order EXCEPT ![o].stockDeducted = TRUE]
        /\ deducted' = [deducted EXCEPT ![r] = {}]
        /\ Goto(r, "deduct")
     \/ /\ order[o].stockDeducted
        /\ Goto(r, "latest")
        /\ UNCHANGED <<order, deducted>>
  /\ UNCHANGED <<intent, charge, job, stockVars, taken, faults>>

\* Mutant of ReadLatest: the loser of the claim goes on without asking whether
\* the winner has paid.
ReadLatestUnchecked(r) ==
  /\ stage[r] = "latest"
  /\ Goto(r, "pay")
  /\ UNCHANGED <<order, intent, charge, job, deducted, stockVars, taken, faults>>

\* A request that lost the claim reads the order again: paid, it goes on as if
\* it had deducted; otherwise it answers "This payment is already being
\* processed".
ReadLatest(r) ==
  LET o == job[r] IN
  /\ stage[r] = "latest"
  /\ \/ order[o].isPaid /\ Goto(r, "pay") /\ UNCHANGED <<job, deducted>>
     \/ ~order[o].isPaid /\ Finish(r)
  /\ UNCHANGED <<order, intent, charge, stockVars, taken, faults>>

\* One turn of the loop: the conditional decrement of the next line's product.
DeductLine(r) ==
  LET o == job[r] IN
  /\ stage[r] = "deduct"
  /\ \E i \in Lines(o) :
       /\ deducted[r] = 1 .. (i - 1)
       /\ InStock(o, i)
       /\ stock' = [stock EXCEPT ![Cart[o][i].product] = @ - Cart[o][i].quantity]
       /\ taken' = [taken EXCEPT ![o] = @ \union {i}]
       /\ deducted' = [deducted EXCEPT ![r] = @ \union {i}]
       /\ Goto(r, IF i = Len(Cart[o]) THEN "pay" ELSE "deduct")
  /\ UNCHANGED <<order, intent, charge, job, catalog, base, edits, faults>>

\* Mutant of DeductFails: a line joins the list before its update is answered,
\* so the failing line is given back too.
DeductFailsEager(r) ==
  /\ stage[r] = "deduct"
  /\ \E i \in Lines(job[r]) :
       /\ deducted[r] = 1 .. (i - 1)
       /\ ~InStock(job[r], i)
       /\ deducted' = [deducted EXCEPT ![r] = @ \union {i}]
  /\ Goto(r, "restore")
  /\ UNCHANGED <<order, intent, charge, job, stockVars, taken, faults>>

\* The next line is out of stock, or its update fails: the catch block runs.
DeductFails(r) ==
  /\ stage[r] = "deduct"
  /\ \/ /\ \E i \in Lines(job[r]) : /\ deducted[r] = 1 .. (i - 1)
                                   /\ ~InStock(job[r], i)
        /\ faults' = faults
     \/ faults < MaxFaults /\ faults' = faults + 1
  /\ Goto(r, "restore")
  /\ UNCHANGED <<order, intent, charge, job, deducted, stockVars, taken>>

\* The catch block gives the deducted lines back, all at once (Promise.all),
\* so in any order.  The update of a removed product matches nothing.
RestoreLine(r) ==
  LET o == job[r] IN
  /\ stage[r] = "restore"
  /\ \E i \in deducted[r] :
       /\ stock' = IF Cart[o][i].product \in catalog
                   THEN [stock EXCEPT ![Cart[o][i].product] = @ + Cart[o][i].quantity]
                   ELSE stock
       /\ taken' = [taken EXCEPT ![o] = @ \ {i}]
       /\ deducted' = [deducted EXCEPT ![r] = @ \ {i}]
  /\ UNCHANGED <<order, intent, charge, stage, job, catalog, base, edits,
                 faults>>

\* Mutant of ReleaseClaim: the restores are not awaited.
ReleaseClaimEarly(r) ==
  /\ stage[r] = "restore"
  /\ order' = [order EXCEPT ![job[r]].stockDeducted = FALSE]
  /\ Finish(r)
  /\ UNCHANGED <<intent, charge, stockVars, taken, faults>>

\* Mutant of ReleaseClaim: the catch block does not reset stockDeducted.
ReleaseClaimKept(r) ==
  /\ stage[r] = "restore"
  /\ deducted[r] = {}
  /\ Finish(r)
  /\ UNCHANGED <<order, intent, charge, stockVars, taken, faults>>

\* Only when all of them are back is the claim given up and the error thrown.
ReleaseClaim(r) ==
  /\ stage[r] = "restore"
  /\ deducted[r] = {}
  /\ order' = [order EXCEPT ![job[r]].stockDeducted = FALSE]
  /\ Finish(r)
  /\ UNCHANGED <<intent, charge, stockVars, taken, faults>>

\* completePayment marks the order paid; the notification it sends has the
\* key order:<id>:paid and is modelled with the notification outbox.
MarkPaid(r) ==
  LET o == job[r] IN
  /\ stage[r] = "pay"
  /\ order' = [order EXCEPT ![o].isPaid = TRUE]
  /\ \/ /\ Channel[o] = "paystack"
        /\ Goto(r, "intent")
        /\ UNCHANGED <<job, deducted>>
     \/ /\ Channel[o] # "paystack"
        /\ Finish(r)
  /\ UNCHANGED <<intent, charge, stockVars, taken, faults>>

\* create and syncPaymentStatus mark the intent last.
MarkIntent(r) ==
  /\ stage[r] = "intent"
  /\ intent' = [intent EXCEPT ![job[r]] = "SUCCESSFUL"]
  /\ Finish(r)
  /\ UNCHANGED <<order, charge, stockVars, taken, faults>>

-----------------------------------------------------------------------------
(***************************************************************************)
(* The request dies before its next store call: the process is restarted,  *)
(* or that call throws outside deductStockOnce's try block.  What it has   *)
(* written stays.  A restore that fails while others succeed ends the same *)
(* way: the claim is kept.                                                 *)
(***************************************************************************)
RequestDies(r) ==
  /\ stage[r] # "idle"
  /\ faults < MaxFaults
  /\ faults' = faults + 1
  /\ Finish(r)
  /\ UNCHANGED <<order, intent, charge, stockVars, taken>>

\* PATCH /products/:slug overwrites the stock with the number in the form.
EditStock(p, n) ==
  /\ p \in catalog
  /\ edits < MaxEdits
  /\ edits' = edits + 1
  /\ stock' = [stock EXCEPT ![p] = n]
  /\ base' = [base EXCEPT ![p] = @ + (n - stock[p])]
  /\ UNCHANGED <<order, intent, charge, catalog, requestVars, taken, faults>>

\* DELETE /products/:slug, whatever orders still hold of the product.
RemoveProduct(p) ==
  /\ p \in catalog
  /\ edits < MaxEdits
  /\ edits' = edits + 1
  /\ catalog' = catalog \ {p}
  /\ UNCHANGED <<order, intent, charge, stock, base, requestVars, taken,
                 faults>>

-----------------------------------------------------------------------------
Confirm(r) ==
  \E o \in Orders : \/ CreatePaystack(r, o)
                    \/ CreatePaypal(r, o)
                    \/ CreateLegacy(r, o)
                    \/ SyncPaymentStatus(r, o)
                    \/ Requery(r, o)

\* The steps a request that has been taken up makes on its own.
Proceed(r) ==
  \/ LoadOrder(r)
  \/ Claim(r)
  \/ ReadLatest(r)
  \/ DeductLine(r)
  \/ DeductFails(r)
  \/ RestoreLine(r)
  \/ ReleaseClaim(r)
  \/ MarkPaid(r)
  \/ MarkIntent(r)

Customer == \E o \in Orders : Checkout(o) \/ CustomerPays(o)

Admin == \E p \in Products : RemoveProduct(p) \/ \E n \in EditLevels : EditStock(p, n)

Next ==
  \/ Customer
  \/ \E r \in Requests : Confirm(r)
  \/ \E r \in Requests : Proceed(r)
  \/ \E r \in Requests : RequestDies(r)
  \/ Admin

Spec == Init /\ [][Next]_vars

\* Node's event loop runs the continuation of every request that awaits an
\* answer.  Customers, administrators and faults owe nobody a step.
Fairness == \A r \in Requests : WF_vars(Proceed(r))

FairSpec == Spec /\ Fairness
-----------------------------------------------------------------------------
TypeOK ==
  /\ order \in [Orders -> OrderDoc]
  /\ intent \in [Orders -> {"none", "PENDING", "PROCESSING", "SUCCESSFUL"}]
  /\ charge \in [Orders -> {"none", "open", "paid", "captured"}]
  /\ stock \in [Products -> Int]
  /\ catalog \subseteq Products
  /\ stage \in [Requests -> Stages]
  /\ job \in [Requests -> Orders \union {NoOrder}]
  /\ \A r \in Requests : stage[r] # "idle" => job[r] \in Orders
  /\ deducted \in [Requests -> SUBSET Nat]
  /\ \A r \in Requests : job[r] \in Orders => deducted[r] \subseteq Lines(job[r])
  /\ taken \in [Orders -> SUBSET Nat]
  /\ \A o \in Orders : taken[o] \subseteq Lines(o)
  /\ base \in [Products -> Int]
  /\ edits \in 0 .. MaxEdits
  /\ faults \in 0 .. MaxFaults

\* The units of one order line, and the units of product p that orders hold
\* when each order o has taken the lines t[o].
LineUnits(o, i) == {<<o, i>>} \X (1 .. Cart[o][i].quantity)

HeldLines(t, p) ==
  UNION {{<<o, i>> : i \in {j \in t[o] : Cart[o][j].product = p}} : o \in Orders}

Units(t, p) == UNION {LineUnits(l[1], l[2]) : l \in HeldLines(t, p)}

\* Request r has won order o's claim and has not paid or released it yet.
Owns(r, o) == job[r] = o /\ stage[r] \in {"deduct", "restore", "pay"}

\* What request r knows in the middle of completePayment is true: its local
\* list is exactly what the order has taken, in the order of the cart, and
\* about to mark the order paid it has all of it, or found the order paid.
LocalFacts(r) ==
  /\ stage[r] = "deduct" =>
       /\ taken[job[r]] = deducted[r]
       /\ \E k \in 0 .. (Len(Cart[job[r]]) - 1) : deducted[r] = 1 .. k
  /\ stage[r] = "restore" => taken[job[r]] = deducted[r]
  /\ stage[r] = "pay" => /\ order[job[r]].stockDeducted
                         /\ taken[job[r]] = Lines(job[r])

\* No request acts on a stale list: what it will roll back, or pay for, is what
\* its order holds (the deducted array of deductStockOnce).
LocalListIsExact == \A r \in Requests : LocalFacts(r)

(***************************************************************************)
(* Stock is neither lost nor made up: every unit missing from a product's  *)
(* stock belongs to a line that some order holds, whatever requests race,  *)
(* roll back or die (orders.service.ts, deductStockOnce).                  *)
(***************************************************************************)
StockConserved ==
  \A p \in catalog : stock[p] + Cardinality(Units(taken, p)) = base[p]

\* No order takes a unit that is not there: racing orders cannot drive the
\* stock below zero (the $gte in the filter of each decrement).
NoOversell == \A p \in catalog : stock[p] >= 0

\* A paid order has taken each of its lines, whichever of the racing requests
\* marked it paid: losing the claim never lets a request pay too early.
PaidOrdersHoldTheirStock ==
  \A o \in Orders : order[o].isPaid => /\ order[o].stockDeducted
                                       /\ taken[o] = Lines(o)

\* An order without a claim holds no stock: the claim is given up only after
\* everything has been restored, so a retry starts from nothing.
UnclaimedOrdersHoldNothing ==
  \A o \in Orders : ~order[o].stockDeducted => taken[o] = {}

\* At most one request at a time takes or returns the stock of an order, and
\* none does once the order is paid.
ClaimIsExclusive ==
  \A r \in Requests : stage[r] \in Holding =>
    /\ order[job[r]].stockDeducted
    /\ ~order[job[r]].isPaid
    /\ \A q \in Requests \ {r} : job[q] = job[r] => stage[q] \notin Holding \union {"pay"}

\* Only a fault leaves an unpaid order claimed by nobody.  Such an order is
\* never paid: every later attempt is told that it is being processed.
OrphanedClaimNeedsFault ==
  \A o \in Orders :
    /\ order[o].stockDeducted
    /\ ~order[o].isPaid
    /\ \A r \in Requests : ~Owns(r, o)
    => faults > 0

\* Once paid, an order stays paid and keeps its stock: no late request of the
\* same payment deducts again or gives stock back.
PaymentIsFinal ==
  [][\A o \in Orders : order[o].isPaid => /\ order'[o].isPaid
                                          /\ taken'[o] = taken[o]]_vars

(***************************************************************************)
(* However many requests confirm an order, they act on its stock as one    *)
(* owner would: the requests implement StockReservation.                   *)
(***************************************************************************)
ReservationState ==
  [o \in Orders |-> IF order[o].isPaid THEN "sold"
                    ELSE IF order[o].stockDeducted THEN "claimed" ELSE "open"]

CartSize == [o \in Orders |-> Len(Cart[o])]

Reservation == INSTANCE StockReservation
                 WITH Size <- CartSize, state <- ReservationState, held <- taken

\* Every step of the requests is a step of the single owner, or none.
ImplementsReservation == Reservation!Spec

\* A claim is always resolved, unless its request was cut off: the order is
\* paid, or the claim given up so that the payment can be confirmed again.
\* However many requests race and roll back, they never wait for each other.
ClaimIsResolved ==
  \A o \in Orders :
    order[o].stockDeducted
      ~> (order[o].isPaid \/ ~order[o].stockDeducted \/ faults > 0)
=============================================================================

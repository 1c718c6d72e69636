------------------------- MODULE OrderPaymentProofs -------------------------
(***************************************************************************)
(* Proofs about OrderPayment for every set of orders, products and         *)
(* requests, every cart and any number of faults and edits.                *)
(***************************************************************************)
EXTENDS OrderPayment, FiniteSetTheorems, TLAPS

\* The length of a cart and its lines, in the form the provers use.
LEMMA CartFacts ==
  ASSUME NEW o \in Orders
  PROVE  /\ Len(Cart[o]) \in Nat \ {0}
         /\ Lines(o) = 1 .. Len(Cart[o])
         /\ \A i \in Lines(o) : /\ Cart[o][i].product \in Products
                                /\ Cart[o][i].quantity \in Nat \ {0}
<1> DEFINE S == [product: Products, quantity: Nat \ {0}]
<1>1. Cart[o] \in Seq(S) /\ Len(Cart[o]) > 0
  BY OrderAssumption
<1>2. DOMAIN Cart[o] = 1 .. Len(Cart[o]) /\ Len(Cart[o]) \in Nat
  BY <1>1
<1>3. ASSUME NEW i \in DOMAIN Cart[o]
      PROVE  Cart[o][i] \in S
  <2> HIDE DEF S
  <2> QED
    BY <1>1, <1>2, <1>3
<1> QED
  BY <1>1, <1>2, <1>3 DEF Lines

-----------------------------------------------------------------------------
\* The part of the type invariant that speaks of the requests.
RequestsOK ==
  /\ stage \in [Requests -> Stages]
  /\ job \in [Requests -> Orders \union {NoOrder}]
  /\ \A r \in Requests : stage[r] # "idle" => job[r] \in Orders
  /\ deducted \in [Requests -> SUBSET Nat]
  /\ \A r \in Requests : job[r] \in Orders => deducted[r] \subseteq Lines(job[r])

LEMMA BeginKeepsRequests ==
  ASSUME RequestsOK, NEW r \in Requests, NEW o \in Orders, NEW s \in Stages,
         Begin(r, o, s)
  PROVE  RequestsOK'
  BY DEF RequestsOK, Begin, Goto, Lines

LEMMA FinishKeepsRequests ==
  ASSUME RequestsOK, NEW r \in Requests, Finish(r)
  PROVE  RequestsOK'
  BY OrderAssumption DEF RequestsOK, Finish, Goto, Stages, Lines

LEMMA GotoKeepsRequests ==
  ASSUME RequestsOK, NEW r \in Requests, NEW s \in Stages, stage[r] # "idle",
         Goto(r, s), UNCHANGED <<job, deducted>>
  PROVE  RequestsOK'
  BY DEF RequestsOK, Goto, Lines

\* The rest: the documents, the provider, the history and the bounds.
DocumentsOK ==
  /\ order \in [Orders -> OrderDoc]
  /\ intent \in [Orders -> {"none", "PENDING", "PROCESSING", "SUCCESSFUL"}]
  /\ charge \in [Orders -> {"none", "open", "paid", "captured"}]

StockOK ==
  /\ stock \in [Products -> Int]
  /\ catalog \subseteq Products
  /\ taken \in [Orders -> SUBSET Nat]
  /\ \A o \in Orders : taken[o] \subseteq Lines(o)
  /\ base \in [Products -> Int]
  /\ edits \in 0 .. MaxEdits
  /\ faults \in 0 .. MaxFaults

\* Every variable keeps its type, and a busy request works on an order.
THEOREM TypeCorrect == Spec => []TypeOK
<1>1. Init => TypeOK
  BY OrderAssumption DEF Init, TypeOK, OrderDoc, Stages, Lines
<1>2. ASSUME TypeOK, [Next]_vars
      PROVE  TypeOK'
  <2>0. RequestsOK /\ DocumentsOK /\ StockOK
    BY <1>2 DEF TypeOK, RequestsOK, DocumentsOK, StockOK
  <2> USE <2>0
  <2> SUFFICES RequestsOK' /\ DocumentsOK' /\ StockOK'
    BY DEF TypeOK, RequestsOK, DocumentsOK, StockOK
  <2>1. ASSUME NEW o \in Orders, Checkout(o)
        PROVE  RequestsOK' /\ DocumentsOK' /\ StockOK'
    <3>1. order' \in [Orders -> OrderDoc]
      BY <2>1 DEF Checkout, DocumentsOK, OrderDoc
    <3>2. DocumentsOK'
      BY <2>1, <3>1 DEF Checkout, DocumentsOK
    <3> QED
      BY <2>1, <3>2 DEF Checkout, RequestsOK, StockOK, requestVars, stockVars,
                        Lines
  <2>2. ASSUME NEW o \in Orders, CustomerPays(o)
        PROVE  RequestsOK' /\ DocumentsOK' /\ StockOK'
    BY <2>2 DEF CustomerPays, RequestsOK, DocumentsOK, StockOK,
                requestVars, stockVars, Lines
  <2>3. ASSUME NEW r \in Requests, Confirm(r)
        PROVE  RequestsOK' /\ DocumentsOK' /\ StockOK'
    <3>1. PICK o \in Orders : \/ CreatePaystack(r, o)
                              \/ CreatePaypal(r, o)
                              \/ CreateLegacy(r, o)
                              \/ SyncPaymentStatus(r, o)
                              \/ Requery(r, o)
      BY <2>3 DEF Confirm
    <3>2. StockOK'
      BY <3>1 DEF CreatePaystack, CreatePaypal, CreateLegacy, SyncPaymentStatus,
                  Requery, StockOK, stockVars, Lines
    <3>3. DocumentsOK'
      BY <3>1 DEF CreatePaystack, CreatePaypal, CreateLegacy, SyncPaymentStatus,
                  Requery, DocumentsOK, OrderDoc
    <3>4. RequestsOK'
      <4>1. \/ \E s \in Stages : Begin(r, o, s)
            \/ UNCHANGED requestVars
        BY <3>1 DEF CreatePaystack, CreatePaypal, CreateLegacy,
                    SyncPaymentStatus, Requery, Stages
      <4>2. CASE UNCHANGED requestVars
        BY <4>2 DEF requestVars, RequestsOK, Lines
      <4> QED
        BY <4>1, <4>2, BeginKeepsRequests
    <3> QED
      BY <3>2, <3>3, <3>4
  <2>4. ASSUME NEW r \in Requests, Proceed(r)
        PROVE  RequestsOK' /\ DocumentsOK' /\ StockOK'
    <3>0. stage[r] # "idle" /\ job[r] \in Orders
      BY <2>4 DEF Proceed, LoadOrder, Claim, ReadLatest, DeductLine, DeductFails,
                  RestoreLine, ReleaseClaim, MarkPaid, MarkIntent, RequestsOK
    <3>1. CASE LoadOrder(r)
      <4>1. RequestsOK'
        BY <3>0, <3>1, GotoKeepsRequests, FinishKeepsRequests
        DEF LoadOrder, Stages
      <4> QED
        BY <3>1, <4>1 DEF LoadOrder, DocumentsOK, StockOK, stockVars, Lines
    <3>2. CASE Claim(r)
      <4>1. RequestsOK'
        BY <3>0, <3>2 DEF Claim, Goto, RequestsOK, Stages, Lines
      <4>2. StockOK'
        BY <3>2 DEF Claim, StockOK, stockVars, Lines
      <4>3. DocumentsOK'
        <5>1. \/ order' = order
              \/ order' = [order EXCEPT ![job[r]].stockDeducted = TRUE]
          BY <3>2 DEF Claim
        <5>2. order' \in [Orders -> OrderDoc]
          <6>1. CASE order' = order
            BY <6>1 DEF DocumentsOK
          <6>2. CASE order' = [order EXCEPT ![job[r]].stockDeducted = TRUE]
            BY <3>0, <6>2 DEF DocumentsOK, OrderDoc
          <6> QED
            BY <5>1, <6>1, <6>2
        <5> QED
          BY <3>2, <5>2 DEF Claim, DocumentsOK
      <4> QED
        BY <4>1, <4>2, <4>3
    <3>3. CASE ReadLatest(r)
      <4>1. RequestsOK'
        BY <3>0, <3>3, GotoKeepsRequests, FinishKeepsRequests
        DEF ReadLatest, Stages
      <4> QED
        BY <3>3, <4>1 DEF ReadLatest, DocumentsOK, StockOK, stockVars, Lines
    <3>4. CASE DeductLine(r)
      <4>1. PICK i \in Lines(job[r]) :
              /\ stock' = [stock EXCEPT ![Cart[job[r]][i].product] =
                             @ - Cart[job[r]][i].quantity]
              /\ taken' = [taken EXCEPT ![job[r]] = @ \union {i}]
              /\ deducted' = [deducted EXCEPT ![r] = @ \union {i}]
              /\ Goto(r, IF i = Len(Cart[job[r]]) THEN "pay" ELSE "deduct")
        BY <3>4 DEF DeductLine
      <4>2. RequestsOK'
        BY <3>0, <3>4, <4>1, CartFacts DEF DeductLine, RequestsOK, Goto, Stages
      <4>3. StockOK'
        <5>1. stock' \in [Products -> Int]
          BY <3>0, <4>1, CartFacts DEF StockOK
        <5>2. taken' \in [Orders -> SUBSET Nat]
          BY <3>0, <4>1, CartFacts DEF StockOK
        <5>3. \A o \in Orders : taken'[o] \subseteq Lines(o)
          BY <3>0, <4>1 DEF StockOK
        <5> QED
          BY <3>4, <5>1, <5>2, <5>3 DEF DeductLine, StockOK, Lines
      <4> QED
        BY <3>4, <4>2, <4>3 DEF DeductLine, DocumentsOK
    <3>5. CASE DeductFails(r)
      <4>1. RequestsOK'
        BY <3>0, <3>5, GotoKeepsRequests DEF DeductFails, Stages
      <4> QED
        BY <3>5, <4>1, OrderAssumption
        DEF DeductFails, DocumentsOK, StockOK, stockVars, Lines
    <3>6. CASE RestoreLine(r)
      <4>1. PICK i \in deducted[r] :
              /\ stock' = IF Cart[job[r]][i].product \in catalog
                          THEN [stock EXCEPT ![Cart[job[r]][i].product] =
                                  @ + Cart[job[r]][i].quantity]
                          ELSE stock
              /\ taken' = [taken EXCEPT ![job[r]] = @ \ {i}]
              /\ deducted' = [deducted EXCEPT ![r] = @ \ {i}]
        BY <3>6 DEF RestoreLine
      <4>2. RequestsOK'
        BY <3>0, <3>6, <4>1 DEF RestoreLine, RequestsOK, Lines
      <4>3. i \in Lines(job[r])
        BY <3>0, <4>1 DEF RequestsOK
      <4>4. StockOK'
        <5>1. stock' \in [Products -> Int]
          BY <3>0, <4>1, <4>3, CartFacts DEF StockOK
        <5>2. taken' \in [Orders -> SUBSET Nat]
          BY <3>0, <4>1 DEF StockOK
        <5>3. \A o \in Orders : taken'[o] \subseteq Lines(o)
          BY <3>0, <4>1 DEF StockOK
        <5> QED
          BY <3>6, <5>1, <5>2, <5>3 DEF RestoreLine, StockOK, Lines
      <4> QED
        BY <3>6, <4>2, <4>4 DEF RestoreLine, DocumentsOK
    <3>7. CASE ReleaseClaim(r)
      <4>1. RequestsOK'
        BY <3>7, FinishKeepsRequests DEF ReleaseClaim
      <4> QED
        BY <3>0, <3>7, <4>1 DEF ReleaseClaim, DocumentsOK, StockOK, stockVars,
                                Lines, OrderDoc
    <3>8. CASE MarkPaid(r)
      <4>1. RequestsOK'
        BY <3>0, <3>8, GotoKeepsRequests, FinishKeepsRequests
        DEF MarkPaid, Stages
      <4> QED
        BY <3>0, <3>8, <4>1 DEF MarkPaid, DocumentsOK, StockOK, stockVars,
                                Lines, OrderDoc
    <3>9. CASE MarkIntent(r)
      <4>1. RequestsOK'
        BY <3>9, FinishKeepsRequests DEF MarkIntent
      <4> QED
        BY <3>0, <3>9, <4>1 DEF MarkIntent, DocumentsOK, StockOK, stockVars,
                                Lines
    <3> QED
      BY <2>4, <3>1, <3>2, <3>3, <3>4, <3>5, <3>6, <3>7, <3>8, <3>9
      DEF Proceed
  <2>5. ASSUME NEW r \in Requests, RequestDies(r)
        PROVE  RequestsOK' /\ DocumentsOK' /\ StockOK'
    <3>1. RequestsOK'
      BY <2>5, FinishKeepsRequests DEF RequestDies
    <3> QED
      BY <2>5, <3>1, OrderAssumption
      DEF RequestDies, DocumentsOK, StockOK, stockVars, Lines
  <2>6. CASE Admin
    BY <2>6, OrderAssumption
    DEF Admin, EditStock, RemoveProduct, RequestsOK, DocumentsOK, StockOK,
        requestVars, Lines
  <2>7. CASE UNCHANGED vars
    BY <2>7 DEF vars, RequestsOK, DocumentsOK, StockOK, Lines
  <2> QED
    BY <1>2, <2>1, <2>2, <2>3, <2>4, <2>5, <2>6, <2>7 DEF Next, Customer
<1> QED
  BY <1>1, <1>2, PTL DEF Spec

-----------------------------------------------------------------------------
(***************************************************************************)
(* The inductive invariant behind the safety results.  PaidOrdersHold...   *)
(* alone is not inductive: that a request about to pay holds every line,   *)
(* and that nobody gives lines back meanwhile, has to be carried along.    *)
(***************************************************************************)
ClaimInv ==
  /\ PaidOrdersHoldTheirStock
  /\ UnclaimedOrdersHoldNothing
  /\ ClaimIsExclusive
  /\ LocalListIsExact

\* A step in which request r, and nobody else, moves, to a stage from which it
\* neither touches stock nor pays, and that changes no claim, payment or line.
Quiet(r) ==
  /\ \A o \in Orders : /\ order'[o].isPaid = order[o].isPaid
                       /\ order'[o].stockDeducted = order[o].stockDeducted
  /\ taken' = taken
  /\ \A q \in Requests \ {r} : /\ stage'[q] = stage[q]
                               /\ job'[q] = job[q]
                               /\ deducted'[q] = deducted[q]
  /\ stage'[r] \notin Holding \union {"pay"}

LEMMA QuietKeepsClaims ==
  ASSUME RequestsOK, ClaimInv, NEW r \in Requests, Quiet(r)
  PROVE  ClaimInv'
<1>1. PaidOrdersHoldTheirStock' /\ UnclaimedOrdersHoldNothing'
  BY DEF ClaimInv, Quiet, PaidOrdersHoldTheirStock, UnclaimedOrdersHoldNothing,
         Lines
<1>2. ASSUME NEW q \in Requests, stage'[q] \in Holding \union {"pay"}
      PROVE  /\ q # r /\ stage'[q] = stage[q] /\ job'[q] = job[q]
             /\ deducted'[q] = deducted[q] /\ job[q] \in Orders
  BY <1>2 DEF Quiet, RequestsOK, Holding
<1>3. ClaimIsExclusive'
  <2> SUFFICES ASSUME NEW q \in Requests, stage'[q] \in Holding
               PROVE  /\ order'[job'[q]].stockDeducted
                      /\ ~order'[job'[q]].isPaid
                      /\ \A p \in Requests \ {q} : job'[p] = job'[q] =>
                            stage'[p] \notin Holding \union {"pay"}
    BY DEF ClaimIsExclusive
  <2>1. /\ order[job[q]].stockDeducted
        /\ ~order[job[q]].isPaid
        /\ \A p \in Requests \ {q} : job[p] = job[q] =>
              stage[p] \notin Holding \union {"pay"}
    BY <1>2 DEF ClaimInv, ClaimIsExclusive
  <2> QED
    BY <1>2, <2>1 DEF Quiet
<1>4. LocalListIsExact'
  BY <1>2 DEF ClaimInv, LocalListIsExact, LocalFacts, Quiet, Holding, Lines
<1> QED
  BY <1>1, <1>3, <1>4 DEF ClaimInv

\* A step that touches no request, claim, payment or line.
LEMMA IdleKeepsClaims ==
  ASSUME RequestsOK, ClaimInv, UNCHANGED requestVars, taken' = taken,
         \A o \in Orders : /\ order'[o].isPaid = order[o].isPaid
                           /\ order'[o].stockDeducted = order[o].stockDeducted
  PROVE  ClaimInv'
<1>1. PaidOrdersHoldTheirStock' /\ UnclaimedOrdersHoldNothing'
  BY DEF ClaimInv, PaidOrdersHoldTheirStock, UnclaimedOrdersHoldNothing, Lines
<1>2. ClaimIsExclusive'
  BY DEF ClaimInv, ClaimIsExclusive, requestVars, RequestsOK, Holding
<1>3. LocalListIsExact'
  BY DEF ClaimInv, LocalListIsExact, LocalFacts, requestVars, RequestsOK, Lines
<1> QED
  BY <1>1, <1>2, <1>3 DEF ClaimInv

\* The steps outside deductStockOnce's critical section are quiet.
LEMMA QuietSteps ==
  ASSUME RequestsOK, DocumentsOK, NEW r \in Requests,
         \/ Confirm(r) /\ ~(UNCHANGED requestVars)
         \/ LoadOrder(r)
         \/ MarkIntent(r)
         \/ RequestDies(r)
  PROVE  Quiet(r)
<1> USE DEF Quiet, Holding, Goto, Begin, Finish, RequestsOK
<1>1. ASSUME NEW o \in Orders,
             \/ CreatePaystack(r, o) \/ CreatePaypal(r, o)
             \/ SyncPaymentStatus(r, o) \/ Requery(r, o)
      PROVE  Quiet(r)
  BY <1>1 DEF CreatePaystack, CreatePaypal, SyncPaymentStatus, Requery
<1>2. ASSUME NEW o \in Orders, CreateLegacy(r, o), ~(UNCHANGED requestVars)
      PROVE  Quiet(r)
  <2>1. \A x \in Orders : /\ order'[x].isPaid = order[x].isPaid
                          /\ order'[x].stockDeducted = order[x].stockDeducted
    BY <1>2 DEF CreateLegacy, DocumentsOK, OrderDoc
  <2> QED
    BY <1>2, <2>1 DEF CreateLegacy
<1>3. CASE LoadOrder(r)
  BY <1>3 DEF LoadOrder
<1>4. CASE MarkIntent(r)
  BY <1>4 DEF MarkIntent
<1>5. CASE RequestDies(r)
  BY <1>5 DEF RequestDies
<1> QED
  BY <1>1, <1>2, <1>3, <1>4, <1>5 DEF Confirm

LEMMA ClaimKeeps ==
  ASSUME RequestsOK, DocumentsOK, ClaimInv, NEW r \in Requests, Claim(r)
  PROVE  ClaimInv'
<1> DEFINE o == job[r]
<1>1. o \in Orders /\ stage[r] = "claim"
  BY DEF Claim, RequestsOK
<1>2. CASE order[o].stockDeducted
  <2>1. Quiet(r)
    BY <1>1, <1>2 DEF Claim, Quiet, Goto, Holding, RequestsOK
  <2> QED
    BY <2>1, QuietKeepsClaims
<1>3. CASE ~order[o].stockDeducted
  <2>1. /\ order' = [order EXCEPT ![o].stockDeducted = TRUE]
        /\ stage' = [stage EXCEPT ![r] = "deduct"]
        /\ deducted' = [deducted EXCEPT ![r] = {}]
        /\ UNCHANGED <<job, taken>>
    BY <1>1, <1>3 DEF Claim, Goto
  <2>2. /\ \A x \in Orders : order'[x].isPaid = order[x].isPaid
        /\ \A x \in Orders \ {o} : order'[x].stockDeducted = order[x].stockDeducted
        /\ order'[o].stockDeducted
    BY <1>1, <2>1 DEF DocumentsOK, OrderDoc
  <2>3. taken[o] = {} /\ ~order[o].isPaid
    BY <1>1, <1>3 DEF ClaimInv, PaidOrdersHoldTheirStock, UnclaimedOrdersHoldNothing
  <2>4. \A q \in Requests : job[q] = o => stage[q] \notin Holding \union {"pay"}
    BY <1>1, <1>3 DEF ClaimInv, ClaimIsExclusive, LocalListIsExact, LocalFacts
  <2>5. PaidOrdersHoldTheirStock' /\ UnclaimedOrdersHoldNothing'
    BY <1>1, <2>1, <2>2, <2>3
    DEF ClaimInv, PaidOrdersHoldTheirStock, UnclaimedOrdersHoldNothing, Lines
  <2>6. ClaimIsExclusive'
    BY <1>1, <2>1, <2>2, <2>3, <2>4
    DEF ClaimInv, ClaimIsExclusive, RequestsOK, Holding
  <2>7. LocalListIsExact'
    <3>1. \E k \in 0 .. (Len(Cart[o]) - 1) : {} = 1 .. k
      <4>1. {} = 1 .. 0
        OBVIOUS
      <4>2. 0 \in 0 .. (Len(Cart[o]) - 1)
        BY <1>1, CartFacts
      <4> QED
        BY <4>1, <4>2
    <3>2. /\ taken'[job'[r]] = deducted'[r]
          /\ \E k \in 0 .. (Len(Cart[job'[r]]) - 1) : deducted'[r] = 1 .. k
      BY <1>1, <2>1, <2>3, <3>1 DEF RequestsOK
    <3>3. ASSUME NEW q \in Requests, q # r
          PROVE  /\ stage'[q] = stage[q] /\ job'[q] = job[q]
                 /\ deducted'[q] = deducted[q]
      BY <2>1, <3>3
    <3>4. stage'[r] = "deduct"
      BY <2>1 DEF RequestsOK
    <3>5. ASSUME NEW q \in Requests, q # r, stage[q] = "pay"
          PROVE  order'[job[q]].stockDeducted
      BY <1>1, <2>2, <2>4, <3>5 DEF ClaimInv, LocalListIsExact, LocalFacts, RequestsOK
    <3> QED
      BY <2>1, <3>2, <3>3, <3>4, <3>5 DEF ClaimInv, LocalListIsExact, LocalFacts, Lines
  <2> QED
    BY <2>5, <2>6, <2>7 DEF ClaimInv
<1> QED
  BY <1>2, <1>3

\* What DeductLine and RestoreLine do to the local lists and the lines.
LEMMA DeductLineKeeps ==
  ASSUME RequestsOK, StockOK, ClaimInv, NEW r \in Requests, DeductLine(r)
  PROVE  ClaimInv'
<1> DEFINE o == job[r]
<1>1. o \in Orders /\ stage[r] = "deduct"
  BY DEF DeductLine, RequestsOK
<1>2. PICK i \in Lines(o) :
        /\ deducted[r] = 1 .. (i - 1)
        /\ taken' = [taken EXCEPT ![o] = @ \union {i}]
        /\ deducted' = [deducted EXCEPT ![r] = @ \union {i}]
        /\ stage' = [stage EXCEPT ![r] =
                       IF i = Len(Cart[o]) THEN "pay" ELSE "deduct"]
        /\ UNCHANGED <<order, job>>
  BY DEF DeductLine, Goto
<1>3. /\ order[o].stockDeducted
      /\ ~order[o].isPaid
      /\ \A q \in Requests \ {r} :
           job[q] = o => stage[q] \notin Holding \union {"pay"}
      /\ taken[o] = 1 .. (i - 1)
  BY <1>1, <1>2 DEF ClaimInv, ClaimIsExclusive, LocalListIsExact, LocalFacts, Holding
<1>4. /\ (1 .. (i - 1)) \union {i} = 1 .. i
      /\ i \in 1 .. Len(Cart[o])
      /\ Lines(o) = 1 .. Len(Cart[o])
  BY <1>1, <1>2, CartFacts
<1>5. /\ taken'[o] = 1 .. i
      /\ deducted'[r] = 1 .. i
      /\ stage'[r] = IF i = Len(Cart[o]) THEN "pay" ELSE "deduct"
      /\ \A x \in Orders \ {o} : taken'[x] = taken[x]
      /\ \A q \in Requests \ {r} : stage'[q] = stage[q] /\ deducted'[q] = deducted[q]
  BY <1>1, <1>2, <1>3, <1>4 DEF RequestsOK, StockOK
<1>6. PaidOrdersHoldTheirStock' /\ UnclaimedOrdersHoldNothing'
  BY <1>2, <1>3, <1>5
  DEF ClaimInv, PaidOrdersHoldTheirStock, UnclaimedOrdersHoldNothing, Lines
<1>7. ClaimIsExclusive'
  BY <1>1, <1>2, <1>3, <1>5 DEF ClaimInv, ClaimIsExclusive, Holding
<1>8. LocalListIsExact'
  <2>1. CASE i = Len(Cart[o])
    <3>1. stage'[r] = "pay" /\ taken'[o] = Lines(o)
      BY <2>1, <1>4, <1>5
    <3>2. ASSUME NEW q \in Requests \ {r}
          PROVE  stage[q] \in Holding \union {"pay"} => job[q] # o
      BY <1>3
    <3> QED
      BY <1>1, <1>2, <1>3, <1>5, <3>1, <3>2
      DEF ClaimInv, LocalListIsExact, LocalFacts, RequestsOK, Holding, Lines
  <2>2. CASE i # Len(Cart[o])
    <3>1. /\ stage'[r] = "deduct" /\ taken'[o] = deducted'[r]
          /\ i \in 0 .. (Len(Cart[o]) - 1) /\ deducted'[r] = 1 .. i
      BY <1>1, <2>2, <1>4, <1>5, CartFacts
    <3>2. ASSUME NEW q \in Requests, q # r
          PROVE  /\ stage[q] \in Holding \union {"pay"} => job[q] # o
                 /\ stage'[q] = stage[q] /\ job'[q] = job[q]
                 /\ deducted'[q] = deducted[q]
      BY <1>2, <1>3, <1>5, <3>2
    <3>3. ASSUME NEW q \in Requests, q # r, stage[q] \in Holding \union {"pay"}
          PROVE  taken'[job'[q]] = taken[job[q]]
      BY <1>5, <3>2, <3>3 DEF RequestsOK, Holding
    <3>4. job'[r] = o
      BY <1>2
    <3>5. SUFFICES ASSUME NEW q \in Requests
                   PROVE  LocalFacts(q)'
      BY DEF LocalListIsExact
    <3>6. CASE q = r
      BY <3>1, <3>4, <3>6 DEF LocalFacts
    <3>7. CASE q # r
      <4>1. LocalFacts(q)
        BY DEF ClaimInv, LocalListIsExact, LocalFacts
      <4> QED
        BY <1>2, <3>2, <3>3, <3>7, <4>1 DEF LocalFacts, Holding, Lines
    <3> QED
      BY <3>6, <3>7
  <2> QED
    BY <2>1, <2>2
<1> QED
  BY <1>6, <1>7, <1>8 DEF ClaimInv

LEMMA RestoreLineKeeps ==
  ASSUME RequestsOK, StockOK, ClaimInv, NEW r \in Requests, RestoreLine(r)
  PROVE  ClaimInv'
<1> DEFINE o == job[r]
<1>1. o \in Orders /\ stage[r] = "restore"
  BY DEF RestoreLine, RequestsOK
<1>2. PICK i \in deducted[r] :
        /\ taken' = [taken EXCEPT ![o] = @ \ {i}]
        /\ deducted' = [deducted EXCEPT ![r] = @ \ {i}]
        /\ UNCHANGED <<order, job, stage>>
  BY DEF RestoreLine
<1>3. /\ order[o].stockDeducted
      /\ ~order[o].isPaid
      /\ \A q \in Requests \ {r} :
           job[q] = o => stage[q] \notin Holding \union {"pay"}
      /\ taken[o] = deducted[r]
  BY <1>1 DEF ClaimInv, ClaimIsExclusive, LocalListIsExact, LocalFacts, Holding
<1>4. /\ taken'[o] = deducted'[r]
      /\ \A x \in Orders \ {o} : taken'[x] = taken[x]
      /\ \A q \in Requests \ {r} : deducted'[q] = deducted[q]
  BY <1>1, <1>2, <1>3 DEF RequestsOK, StockOK
<1>5. PaidOrdersHoldTheirStock' /\ UnclaimedOrdersHoldNothing'
  BY <1>2, <1>3, <1>4
  DEF ClaimInv, PaidOrdersHoldTheirStock, UnclaimedOrdersHoldNothing, Lines
<1>6. ClaimIsExclusive'
  BY <1>2 DEF ClaimInv, ClaimIsExclusive
<1>7. LocalListIsExact'
  BY <1>1, <1>2, <1>3, <1>4
  DEF ClaimInv, LocalListIsExact, LocalFacts, RequestsOK, Holding, Lines
<1> QED
  BY <1>5, <1>6, <1>7 DEF ClaimInv

LEMMA ReleaseClaimKeeps ==
  ASSUME RequestsOK, DocumentsOK, ClaimInv, NEW r \in Requests, ReleaseClaim(r)
  PROVE  ClaimInv'
<1> DEFINE o == job[r]
<1>1. o \in Orders /\ stage[r] = "restore" /\ deducted[r] = {}
  BY DEF ReleaseClaim, RequestsOK
<1>2. /\ order' = [order EXCEPT ![o].stockDeducted = FALSE]
      /\ stage' = [stage EXCEPT ![r] = "idle"]
      /\ job' = [job EXCEPT ![r] = NoOrder]
      /\ deducted' = [deducted EXCEPT ![r] = {}]
      /\ UNCHANGED taken
  BY DEF ReleaseClaim, Finish, Goto
<1>3. /\ ~order[o].isPaid
      /\ \A q \in Requests \ {r} :
           job[q] = o => stage[q] \notin Holding \union {"pay"}
      /\ taken[o] = {}
  BY <1>1 DEF ClaimInv, ClaimIsExclusive, LocalListIsExact, LocalFacts, Holding
<1>4. /\ \A x \in Orders : order'[x].isPaid = order[x].isPaid
      /\ \A x \in Orders \ {o} : order'[x].stockDeducted = order[x].stockDeducted
  BY <1>1, <1>2 DEF DocumentsOK, OrderDoc
<1>5. /\ stage'[r] = "idle"
      /\ \A q \in Requests \ {r} : /\ stage'[q] = stage[q]
                                   /\ job'[q] = job[q]
                                   /\ deducted'[q] = deducted[q]
  BY <1>2 DEF RequestsOK
<1>6. PaidOrdersHoldTheirStock' /\ UnclaimedOrdersHoldNothing'
  BY <1>1, <1>2, <1>3, <1>4
  DEF ClaimInv, PaidOrdersHoldTheirStock, UnclaimedOrdersHoldNothing, Lines
<1>7. ASSUME NEW q \in Requests, stage'[q] \in Holding \union {"pay"}
      PROVE  q # r /\ job[q] # o /\ job[q] \in Orders
  BY <1>3, <1>5, <1>7 DEF Holding, RequestsOK
<1>8. ClaimIsExclusive'
  BY <1>4, <1>5, <1>7 DEF ClaimInv, ClaimIsExclusive, Holding
<1>9. LocalListIsExact'
  BY <1>2, <1>4, <1>5, <1>7 DEF ClaimInv, LocalListIsExact, LocalFacts, Holding, Lines
<1> QED
  BY <1>6, <1>8, <1>9 DEF ClaimInv

LEMMA MarkPaidKeeps ==
  ASSUME RequestsOK, DocumentsOK, ClaimInv, NEW r \in Requests, MarkPaid(r)
  PROVE  ClaimInv'
<1> DEFINE o == job[r]
<1>1. o \in Orders /\ stage[r] = "pay"
  BY DEF MarkPaid, RequestsOK
<1>2. /\ order' = [order EXCEPT ![o].isPaid = TRUE]
      /\ taken' = taken
      /\ stage'[r] \notin Holding \union {"pay"}
      /\ \A q \in Requests \ {r} : /\ stage'[q] = stage[q]
                                   /\ job'[q] = job[q]
                                   /\ deducted'[q] = deducted[q]
  BY DEF MarkPaid, Finish, Goto, RequestsOK, Holding
<1>3. /\ \A x \in Orders \ {o} : order'[x].isPaid = order[x].isPaid
      /\ \A x \in Orders : order'[x].stockDeducted = order[x].stockDeducted
      /\ order'[o].isPaid
  BY <1>1, <1>2 DEF DocumentsOK, OrderDoc
<1>4. order[o].stockDeducted /\ taken[o] = Lines(o)
  BY <1>1 DEF ClaimInv, LocalListIsExact, LocalFacts
<1>5. PaidOrdersHoldTheirStock' /\ UnclaimedOrdersHoldNothing'
  BY <1>2, <1>3, <1>4
  DEF ClaimInv, PaidOrdersHoldTheirStock, UnclaimedOrdersHoldNothing, Lines
<1>6. ASSUME NEW q \in Requests, stage'[q] \in Holding
      PROVE  q # r /\ job[q] # o /\ job[q] \in Orders
  BY <1>1, <1>2, <1>6 DEF ClaimInv, ClaimIsExclusive, Holding, RequestsOK
<1>7. ClaimIsExclusive'
  BY <1>2, <1>3, <1>6 DEF ClaimInv, ClaimIsExclusive, Holding
<1>8. ASSUME NEW q \in Requests, stage'[q] \in Holding \union {"pay"}
      PROVE  q # r /\ job[q] \in Orders
  BY <1>2, <1>8 DEF Holding, RequestsOK
<1>9. LocalListIsExact'
  BY <1>2, <1>3, <1>8 DEF ClaimInv, LocalListIsExact, LocalFacts, Holding, Lines
<1> QED
  BY <1>5, <1>7, <1>9 DEF ClaimInv

LEMMA ReadLatestKeeps ==
  ASSUME RequestsOK, ClaimInv, NEW r \in Requests, ReadLatest(r)
  PROVE  ClaimInv'
<1> DEFINE o == job[r]
<1>1. o \in Orders /\ stage[r] = "latest"
  BY DEF ReadLatest, RequestsOK
<1>2. CASE ~order[o].isPaid
  <2>1. Quiet(r)
    BY <1>1, <1>2 DEF ReadLatest, Quiet, Finish, Goto, Holding, RequestsOK
  <2> QED
    BY <2>1, QuietKeepsClaims
<1>3. CASE order[o].isPaid
  <2>1. /\ stage' = [stage EXCEPT ![r] = "pay"]
        /\ UNCHANGED <<order, taken, job, deducted>>
    BY <1>1, <1>3 DEF ReadLatest, Goto
  <2>2. order[o].stockDeducted /\ taken[o] = Lines(o)
    BY <1>1, <1>3 DEF ClaimInv, PaidOrdersHoldTheirStock
  <2>3. ClaimIsExclusive'
    BY <1>1, <1>3, <2>1 DEF ClaimInv, ClaimIsExclusive, Holding, RequestsOK
  <2>4. LocalListIsExact'
    BY <1>1, <2>1, <2>2
    DEF ClaimInv, LocalListIsExact, LocalFacts, RequestsOK, Lines
  <2> QED
    BY <2>1, <2>3, <2>4
    DEF ClaimInv, PaidOrdersHoldTheirStock, UnclaimedOrdersHoldNothing, Lines
<1> QED
  BY <1>2, <1>3

LEMMA DeductFailsKeeps ==
  ASSUME RequestsOK, ClaimInv, NEW r \in Requests, DeductFails(r)
  PROVE  ClaimInv'
<1>1. /\ stage[r] = "deduct"
      /\ stage' = [stage EXCEPT ![r] = "restore"]
      /\ UNCHANGED <<order, taken, job, deducted>>
  BY DEF DeductFails, Goto
<1>2. ClaimIsExclusive'
  BY <1>1 DEF ClaimInv, ClaimIsExclusive, Holding, RequestsOK
<1>3. LocalListIsExact'
  BY <1>1 DEF ClaimInv, LocalListIsExact, LocalFacts, RequestsOK, Lines
<1> QED
  BY <1>1, <1>2, <1>3
  DEF ClaimInv, PaidOrdersHoldTheirStock, UnclaimedOrdersHoldNothing, Lines

LEMMA ClaimInvInductive ==
  ASSUME TypeOK, ClaimInv, [Next]_vars
  PROVE  ClaimInv'
<1>0. RequestsOK /\ DocumentsOK /\ StockOK
  BY DEF TypeOK, RequestsOK, DocumentsOK, StockOK
<1> USE <1>0
<1>1. ASSUME NEW o \in Orders, Checkout(o) \/ CustomerPays(o)
      PROVE  ClaimInv'
  <2>1. \A x \in Orders : /\ order'[x].isPaid = order[x].isPaid
                          /\ order'[x].stockDeducted = order[x].stockDeducted
    <3>1. CASE Checkout(o)
      BY <3>1 DEF Checkout, DocumentsOK, OrderDoc
    <3>2. CASE CustomerPays(o)
      BY <3>2 DEF CustomerPays
    <3> QED
      BY <1>1, <3>1, <3>2
  <2> QED
    <3>1. UNCHANGED requestVars /\ taken' = taken
      BY <1>1 DEF Checkout, CustomerPays, requestVars
    <3> QED
      BY <2>1, <3>1, IdleKeepsClaims
<1>2. ASSUME NEW r \in Requests, Confirm(r)
      PROVE  ClaimInv'
  <2>1. CASE UNCHANGED requestVars
    <3>1. /\ taken' = taken
          /\ \A x \in Orders : /\ order'[x].isPaid = order[x].isPaid
                               /\ order'[x].stockDeducted = order[x].stockDeducted
      <4>1. PICK o \in Orders : \/ CreatePaystack(r, o) \/ CreatePaypal(r, o)
                                \/ CreateLegacy(r, o)
                                \/ SyncPaymentStatus(r, o) \/ Requery(r, o)
        BY <1>2 DEF Confirm
      <4>2. CASE CreateLegacy(r, o)
        BY <4>2 DEF CreateLegacy, DocumentsOK, OrderDoc
      <4>3. CASE ~CreateLegacy(r, o)
        BY <4>1, <4>3
        DEF CreatePaystack, CreatePaypal, SyncPaymentStatus, Requery
      <4> QED
        BY <4>2, <4>3
    <3> QED
      BY <2>1, <3>1, IdleKeepsClaims
  <2>2. CASE ~(UNCHANGED requestVars)
    BY <1>2, <2>2, QuietSteps, QuietKeepsClaims
  <2> QED
    BY <2>1, <2>2
<1>3. ASSUME NEW r \in Requests, Proceed(r)
      PROVE  ClaimInv'
  <2>1. CASE LoadOrder(r) \/ MarkIntent(r)
    BY <2>1, QuietSteps, QuietKeepsClaims
  <2> QED
    BY <1>3, <2>1, ClaimKeeps, ReadLatestKeeps, DeductLineKeeps,
       DeductFailsKeeps, RestoreLineKeeps, ReleaseClaimKeeps, MarkPaidKeeps
    DEF Proceed
<1>4. ASSUME NEW r \in Requests, RequestDies(r)
      PROVE  ClaimInv'
  BY <1>4, QuietSteps, QuietKeepsClaims
<1>5. CASE Admin \/ UNCHANGED vars
  <2>1. UNCHANGED <<order, taken, requestVars>>
    BY <1>5 DEF Admin, EditStock, RemoveProduct, vars, requestVars
  <2> QED
    BY <2>1, IdleKeepsClaims
<1> QED
  BY <1>1, <1>2, <1>3, <1>4, <1>5 DEF Next, Customer

\* The claim works: a paid order holds all its stock, an unclaimed one none,
\* one request at a time touches it, and no request acts on a stale list.
THEOREM ClaimCorrect == Spec => []ClaimInv
<1>1. Init => ClaimInv
  BY DEF Init, ClaimInv, PaidOrdersHoldTheirStock, UnclaimedOrdersHoldNothing,
         ClaimIsExclusive, LocalListIsExact, LocalFacts, Holding
<1>2. TypeOK /\ ClaimInv /\ [Next]_vars => ClaimInv'
  BY ClaimInvInductive
<1> QED
  BY <1>1, <1>2, TypeCorrect, PTL DEF Spec

\* In every reachable state a paid order has taken each of its lines.
THEOREM PaidOrdersSafe == Spec => []PaidOrdersHoldTheirStock
<1>1. ClaimInv => PaidOrdersHoldTheirStock
  BY DEF ClaimInv
<1> QED
  BY <1>1, ClaimCorrect, PTL

\* In every reachable state an order without a claim holds none of its lines.
THEOREM UnclaimedOrdersSafe == Spec => []UnclaimedOrdersHoldNothing
<1>1. ClaimInv => UnclaimedOrdersHoldNothing
  BY DEF ClaimInv
<1> QED
  BY <1>1, ClaimCorrect, PTL

\* In every reachable state one request at most moves the stock of an order.
THEOREM ClaimsAreExclusive == Spec => []ClaimIsExclusive
<1>1. ClaimInv => ClaimIsExclusive
  BY DEF ClaimInv
<1> QED
  BY <1>1, ClaimCorrect, PTL

\* In every reachable state a request's list of lines is what its order holds.
THEOREM LocalListsAreExact == Spec => []LocalListIsExact
<1>1. ClaimInv => LocalListIsExact
  BY DEF ClaimInv
<1> QED
  BY <1>1, ClaimCorrect, PTL

-----------------------------------------------------------------------------
(***************************************************************************)
(* Conservation of stock.  Units(p) grows and shrinks by the units of one  *)
(* line at a time; those of different lines are different.                 *)
(***************************************************************************)
LEMMA LineUnitsCount ==
  ASSUME NEW o \in Orders, NEW i \in Lines(o)
  PROVE  /\ IsFiniteSet(LineUnits(o, i))
         /\ Cardinality(LineUnits(o, i)) = Cart[o][i].quantity
<1> DEFINE n == Cart[o][i].quantity
<1>1. n \in Nat
  BY CartFacts
<1>2. IsFiniteSet(1 .. n) /\ Cardinality(1 .. n) = n
  <2> HIDE DEF n
  <2>1. /\ IsFiniteSet(1 .. n)
        /\ Cardinality(1 .. n) = IF 1 > n THEN 0 ELSE n - 1 + 1
    BY <1>1, FS_Interval
  <2> QED
    BY <1>1, <2>1
<1> DEFINE l == <<o, i>>
<1>3. IsFiniteSet({l}) /\ Cardinality({l}) = 1
  <2> HIDE DEF l
  <2> QED
    BY FS_Singleton
<1>4. /\ IsFiniteSet({l} \X (1 .. n))
      /\ Cardinality({l} \X (1 .. n)) = Cardinality({l}) * Cardinality(1 .. n)
  <2> DEFINE S == {l}
             T == 1 .. n
  <2>1. IsFiniteSet(S) /\ IsFiniteSet(T)
    BY <1>2, <1>3
  <2> HIDE DEF S, T
  <2>2. IsFiniteSet(S \X T) /\ Cardinality(S \X T) = Cardinality(S) * Cardinality(T)
    BY <2>1, FS_Product
  <2> QED
    BY <2>2 DEF S, T
<1> QED
  BY <1>1, <1>2, <1>3, <1>4 DEF LineUnits

LEMMA UnitsMembers ==
  ASSUME NEW t, NEW p
  PROVE  \A x : x \in Units(t, p) <=>
           \E o \in Orders : \E i \in t[o] :
             Cart[o][i].product = p /\ x \in LineUnits(o, i)
<1>1. \A l : l \in HeldLines(t, p) <=>
        \E o \in Orders : \E i \in t[o] :
          Cart[o][i].product = p /\ l = <<o, i>>
  BY DEF HeldLines
<1>2. \A x : x \in Units(t, p) <=>
        \E l \in HeldLines(t, p) : x \in LineUnits(l[1], l[2])
  BY DEF Units
<1>3. ASSUME NEW x, NEW l \in HeldLines(t, p), x \in LineUnits(l[1], l[2])
      PROVE  \E o \in Orders : \E i \in t[o] :
               Cart[o][i].product = p /\ x \in LineUnits(o, i)
  <2>1. PICK o \in Orders : \E i \in t[o] :
          Cart[o][i].product = p /\ l = <<o, i>>
    BY <1>1
  <2>2. PICK i \in t[o] : Cart[o][i].product = p /\ l = <<o, i>>
    BY <2>1
  <2>3. l[1] = o /\ l[2] = i
    BY <2>2
  <2> QED
    BY <1>3, <2>2, <2>3
<1>4. ASSUME NEW x, NEW o \in Orders, NEW i \in t[o],
             Cart[o][i].product = p, x \in LineUnits(o, i)
      PROVE  \E l \in HeldLines(t, p) : x \in LineUnits(l[1], l[2])
  <2>1. <<o, i>> \in HeldLines(t, p)
    BY <1>1, <1>4
  <2>2. <<o, i>>[1] = o /\ <<o, i>>[2] = i
    OBVIOUS
  <2> QED
    BY <1>4, <2>1, <2>2
<1> QED
  BY <1>2, <1>3, <1>4, Zenon

LEMMA LineUnitsDistinct ==
  ASSUME NEW o, NEW i, NEW q, NEW j, NEW x,
         x \in LineUnits(o, i), x \in LineUnits(q, j)
  PROVE  o = q /\ i = j
  BY DEF LineUnits

\* Taking a line adds its units to those of its product, and nothing else.
LEMMA UnitsOfTakenLine ==
  ASSUME NEW t \in [Orders -> SUBSET Nat], NEW o \in Orders,
         NEW i \in Lines(o), i \notin t[o], NEW p,
         NEW u,
         \A q \in Orders : u[q] = IF q = o THEN t[o] \union {i} ELSE t[q]
  PROVE  /\ Units(t, p) \cap LineUnits(o, i) = {}
         /\ Cart[o][i].product = p =>
              Units(u, p) = Units(t, p) \union LineUnits(o, i)
         /\ Cart[o][i].product # p => Units(u, p) = Units(t, p)
<1>2. ASSUME NEW x, x \in Units(t, p), x \in LineUnits(o, i)
      PROVE  FALSE
  <2>1. PICK q \in Orders : \E j \in t[q] : x \in LineUnits(q, j)
    BY <1>2, UnitsMembers, Zenon
  <2>2. PICK j \in t[q] : x \in LineUnits(q, j)
    BY <2>1
  <2>3. q = o /\ j = i
    BY <1>2, <2>2, LineUnitsDistinct, Zenon
  <2> QED
    BY <2>2, <2>3
<1>3. \A x : x \in Units(u, p) <=>
        \/ x \in Units(t, p)
        \/ Cart[o][i].product = p /\ x \in LineUnits(o, i)
  <2>1. \A x : x \in Units(u, p) <=>
          \E q \in Orders : \E j \in u[q] :
            Cart[q][j].product = p /\ x \in LineUnits(q, j)
    BY UnitsMembers, Zenon
  <2>2. \A x : x \in Units(t, p) <=>
          \E q \in Orders : \E j \in t[q] :
            Cart[q][j].product = p /\ x \in LineUnits(q, j)
    BY UnitsMembers, Zenon
  <2> QED
    BY <2>1, <2>2
<1> QED
  <2>1. Units(t, p) \cap LineUnits(o, i) = {}
    BY <1>2
  <2> QED
    BY <1>3, <2>1

\* Giving a line back removes its units from those of its product.
LEMMA UnitsOfReturnedLine ==
  ASSUME NEW t \in [Orders -> SUBSET Nat], NEW o \in Orders,
         NEW i \in t[o], NEW p
  PROVE  /\ Cart[o][i].product = p => LineUnits(o, i) \subseteq Units(t, p)
         /\ Units([t EXCEPT ![o] = @ \ {i}], p) =
              IF Cart[o][i].product = p THEN Units(t, p) \ LineUnits(o, i)
                                        ELSE Units(t, p)
<1> DEFINE u == [t EXCEPT ![o] = @ \ {i}]
<1>1. \A q \in Orders : u[q] = IF q = o THEN t[o] \ {i} ELSE t[q]
  OBVIOUS
<1> HIDE DEF u
<1>2. \A x : x \in Units(u, p) <=>
        \E q \in Orders : \E j \in u[q] :
          Cart[q][j].product = p /\ x \in LineUnits(q, j)
  BY UnitsMembers, Zenon
<1>3. \A x : x \in Units(t, p) <=>
        \E q \in Orders : \E j \in t[q] :
          Cart[q][j].product = p /\ x \in LineUnits(q, j)
  BY UnitsMembers, Zenon
<1>4. Cart[o][i].product = p => LineUnits(o, i) \subseteq Units(t, p)
  BY <1>3
<1>5. \A q, j, x : x \in LineUnits(o, i) /\ x \in LineUnits(q, j)
                     => q = o /\ j = i
  BY LineUnitsDistinct, Zenon
<1>6. ASSUME NEW x, x \in Units(u, p)
      PROVE  x \in Units(t, p) /\ ~(Cart[o][i].product = p /\ x \in LineUnits(o, i))
  <2>1. PICK q \in Orders : \E j \in u[q] :
          Cart[q][j].product = p /\ x \in LineUnits(q, j)
    BY <1>2, <1>6
  <2>2. PICK j \in u[q] : Cart[q][j].product = p /\ x \in LineUnits(q, j)
    BY <2>1
  <2>3. j \in t[q] /\ ~(q = o /\ j = i)
    BY <1>1, <2>2
  <2> QED
    BY <1>3, <1>5, <2>2, <2>3, Zenon
<1>7. ASSUME NEW x, x \in Units(t, p),
             ~(Cart[o][i].product = p /\ x \in LineUnits(o, i))
      PROVE  x \in Units(u, p)
  <2>1. PICK q \in Orders : \E j \in t[q] :
          Cart[q][j].product = p /\ x \in LineUnits(q, j)
    BY <1>3, <1>7
  <2>2. PICK j \in t[q] : Cart[q][j].product = p /\ x \in LineUnits(q, j)
    BY <2>1
  <2>3. j \in u[q]
    BY <1>1, <1>7, <2>2
  <2> QED
    BY <1>2, <2>2, <2>3
<1> QED
  BY <1>4, <1>6, <1>7 DEF u

-----------------------------------------------------------------------------
\* What conservation rests on: the units held of each product are finitely
\* many, and they are what is missing from its stock.
StockInv ==
  \A p \in Products :
    /\ IsFiniteSet(Units(taken, p))
    /\ p \in catalog => stock[p] + Cardinality(Units(taken, p)) = base[p]

\* A step that takes no line keeps StockInv if the stock moves with its base
\* and no product comes back to the catalog.
LEMMA NoTakingKeepsStock ==
  ASSUME StockInv, taken' = taken, catalog' \subseteq catalog,
         catalog \subseteq Products, stock \in [Products -> Int],
         base \in [Products -> Int],
         \A p \in Products : /\ stock'[p] \in Int
                             /\ base'[p] = base[p] + (stock'[p] - stock[p])
  PROVE  StockInv'
<1> SUFFICES ASSUME NEW p \in Products
             PROVE  /\ IsFiniteSet(Units(taken, p))
                    /\ p \in catalog' =>
                         stock'[p] + Cardinality(Units(taken, p)) = base'[p]
  BY DEF StockInv
<1>1. IsFiniteSet(Units(taken, p))
  BY DEF StockInv
<1>2. Cardinality(Units(taken, p)) \in Nat
  BY <1>1, FS_CardinalityType
<1>3. p \in catalog' => stock[p] + Cardinality(Units(taken, p)) = base[p]
  BY DEF StockInv
<1>4. stock[p] \in Int /\ base[p] \in Int
  OBVIOUS
<1> HIDE DEF StockInv
<1> QED
  BY <1>1, <1>2, <1>3, <1>4

LEMMA DeductLineKeepsStock ==
  ASSUME TypeOK, ClaimInv, StockInv, NEW r \in Requests, DeductLine(r)
  PROVE  StockInv'
<1> DEFINE o == job[r]
<1>1. o \in Orders /\ stage[r] = "deduct" /\ taken[o] = deducted[r]
  BY DEF TypeOK, DeductLine, ClaimInv, LocalListIsExact, LocalFacts
<1>2. PICK i \in Lines(o) :
        /\ deducted[r] = 1 .. (i - 1)
        /\ stock' = [stock EXCEPT ![Cart[o][i].product] = @ - Cart[o][i].quantity]
        /\ taken' = [taken EXCEPT ![o] = @ \union {i}]
  BY DEF DeductLine
<1>3. i \notin taken[o] /\ i \in Int
  BY <1>1, <1>2, CartFacts
<1>4. /\ Cart[o][i].product \in Products
      /\ Cart[o][i].quantity \in Nat
  BY <1>1, CartFacts
<1>5. catalog' = catalog /\ base' = base
  BY DEF DeductLine
<1> SUFFICES ASSUME NEW p \in Products
             PROVE  /\ IsFiniteSet(Units(taken', p))
                    /\ p \in catalog =>
                         stock'[p] + Cardinality(Units(taken', p)) = base[p]
  BY <1>5 DEF StockInv
<1>6. /\ IsFiniteSet(Units(taken, p))
      /\ p \in catalog => stock[p] + Cardinality(Units(taken, p)) = base[p]
  BY DEF StockInv
<1>7. Cardinality(Units(taken, p)) \in Nat
  BY <1>6, FS_CardinalityType
<1>8. stock[p] \in Int /\ base[p] \in Int /\ taken \in [Orders -> SUBSET Nat]
  BY DEF TypeOK
<1>9. /\ Units(taken, p) \cap LineUnits(o, i) = {}
      /\ Cart[o][i].product = p =>
           Units(taken', p) = Units(taken, p) \union LineUnits(o, i)
      /\ Cart[o][i].product # p => Units(taken', p) = Units(taken, p)
  <2> HIDE DEF o
  <2>1. i \in Lines(o) /\ i \notin taken[o]
    BY <1>2, <1>3
  <2>2. \A q \in Orders :
          taken'[q] = IF q = o THEN taken[o] \union {i} ELSE taken[q]
    BY <1>2, <1>8
  <2>3. o \in Orders /\ taken \in [Orders -> SUBSET Nat]
    BY <1>1, <1>8
  <2> QED
    BY <2>1, <2>2, <2>3, UnitsOfTakenLine
<1>10. CASE Cart[o][i].product = p
  <2> HIDE DEF o
  <2>1. /\ IsFiniteSet(LineUnits(o, i))
        /\ Cardinality(LineUnits(o, i)) = Cart[o][i].quantity
    BY <1>1, LineUnitsCount
  <2>2. /\ IsFiniteSet(Units(taken', p))
        /\ Cardinality(Units(taken', p)) =
             Cardinality(Units(taken, p)) + Cart[o][i].quantity - Cardinality({})
    BY <1>6, <1>9, <1>10, <2>1, FS_Union
  <2>3. Cardinality({}) = 0
    BY FS_EmptySet
  <2>4. stock'[p] = stock[p] - Cart[o][i].quantity
    BY <1>2, <1>10, <1>4 DEF TypeOK
  <2> QED
    BY <1>4, <1>6, <1>7, <1>8, <2>2, <2>3, <2>4
<1>11. CASE Cart[o][i].product # p
  <2>1. stock'[p] = stock[p]
    BY <1>2, <1>11, <1>4 DEF TypeOK
  <2> QED
    BY <1>6, <1>9, <1>11, <2>1
<1> QED
  BY <1>10, <1>11

LEMMA RestoreLineKeepsStock ==
  ASSUME TypeOK, ClaimInv, StockInv, NEW r \in Requests, RestoreLine(r)
  PROVE  StockInv'
<1> DEFINE o == job[r]
<1>1. o \in Orders /\ stage[r] = "restore" /\ taken[o] = deducted[r]
  BY DEF TypeOK, RestoreLine, ClaimInv, LocalListIsExact, LocalFacts
<1>2. PICK i \in taken[o] :
        /\ stock' = IF Cart[o][i].product \in catalog
                    THEN [stock EXCEPT ![Cart[o][i].product] = @ + Cart[o][i].quantity]
                    ELSE stock
        /\ taken' = [taken EXCEPT ![o] = @ \ {i}]
  BY <1>1 DEF RestoreLine
<1>3. i \in Lines(o)
  BY <1>1 DEF TypeOK
<1>4. /\ Cart[o][i].product \in Products
      /\ Cart[o][i].quantity \in Nat
  BY <1>1, <1>3, CartFacts
<1>5. catalog' = catalog /\ base' = base
  BY DEF RestoreLine
<1> SUFFICES ASSUME NEW p \in Products
             PROVE  /\ IsFiniteSet(Units(taken', p))
                    /\ p \in catalog =>
                         stock'[p] + Cardinality(Units(taken', p)) = base[p]
  BY <1>5 DEF StockInv
<1>6. /\ IsFiniteSet(Units(taken, p))
      /\ p \in catalog => stock[p] + Cardinality(Units(taken, p)) = base[p]
  BY DEF StockInv
<1>7. Cardinality(Units(taken, p)) \in Nat
  BY <1>6, FS_CardinalityType
<1>8. stock[p] \in Int /\ base[p] \in Int /\ taken \in [Orders -> SUBSET Nat]
  BY DEF TypeOK
<1>9. /\ Cart[o][i].product = p => LineUnits(o, i) \subseteq Units(taken, p)
      /\ Units(taken', p) =
           IF Cart[o][i].product = p THEN Units(taken, p) \ LineUnits(o, i)
                                     ELSE Units(taken, p)
  <2> HIDE DEF o
  <2> QED
    BY <1>1, <1>2, <1>8, UnitsOfReturnedLine
<1>10. CASE Cart[o][i].product = p
  <2> HIDE DEF o
  <2>1. /\ IsFiniteSet(LineUnits(o, i))
        /\ Cardinality(LineUnits(o, i)) = Cart[o][i].quantity
    BY <1>1, <1>3, LineUnitsCount
  <2>2. Units(taken, p) \cap LineUnits(o, i) = LineUnits(o, i)
    BY <1>9, <1>10
  <2>3. /\ IsFiniteSet(Units(taken', p))
        /\ Cardinality(Units(taken', p)) =
             Cardinality(Units(taken, p)) - Cart[o][i].quantity
    <3>1. Units(taken', p) = Units(taken, p) \ LineUnits(o, i)
      BY <1>9, <1>10
    <3>2. /\ IsFiniteSet(Units(taken, p) \ LineUnits(o, i))
          /\ Cardinality(Units(taken, p) \ LineUnits(o, i)) =
               Cardinality(Units(taken, p))
                 - Cardinality(Units(taken, p) \cap LineUnits(o, i))
      BY <1>6, FS_Difference, Zenon
    <3> QED
      BY <2>1, <2>2, <3>1, <3>2
  <2>4. p \in catalog => stock'[p] = stock[p] + Cart[o][i].quantity
    BY <1>2, <1>10, <1>4 DEF TypeOK
  <2> QED
    BY <1>4, <1>6, <1>7, <1>8, <2>3, <2>4
<1>11. CASE Cart[o][i].product # p
  <2>1. stock'[p] = stock[p]
    BY <1>2, <1>11, <1>4 DEF TypeOK
  <2> QED
    BY <1>6, <1>9, <1>11, <2>1
<1> QED
  BY <1>10, <1>11

LEMMA OtherStepsKeepStock ==
  ASSUME TypeOK, StockInv, [Next]_vars,
         \A r \in Requests : ~DeductLine(r) /\ ~RestoreLine(r)
  PROVE  StockInv'
<1> USE DEF StockOK
<1>0. StockOK /\ EditLevels \subseteq Nat
  BY OrderAssumption DEF TypeOK
<1>1. CASE Admin
  <2>1. /\ taken' = taken
        /\ catalog' \subseteq catalog
        /\ \A p \in Products : /\ stock'[p] \in Int
                               /\ base'[p] = base[p] + (stock'[p] - stock[p])
    BY <1>0, <1>1 DEF Admin, RemoveProduct, EditStock
  <2> QED
    BY <1>0, <2>1, NoTakingKeepsStock
<1>2. CASE ~Admin
  <2>1. /\ taken' = taken /\ catalog' = catalog
        /\ stock' = stock /\ base' = base
    <3>1. CASE Customer
      BY <3>1 DEF Customer, Checkout, CustomerPays, stockVars
    <3>2. CASE \E r \in Requests : Confirm(r)
      BY <3>2 DEF Confirm, CreatePaystack, CreatePaypal, CreateLegacy,
                  SyncPaymentStatus, Requery, stockVars
    <3>3. CASE \E r \in Requests : Proceed(r)
      BY <3>3 DEF Proceed, LoadOrder, Claim, ReadLatest, DeductFails,
                  ReleaseClaim, MarkPaid, MarkIntent, stockVars
    <3>4. CASE \E r \in Requests : RequestDies(r)
      BY <3>4 DEF RequestDies, stockVars
    <3>5. CASE UNCHANGED vars
      BY <3>5 DEF vars
    <3> QED
      BY <1>2, <3>1, <3>2, <3>3, <3>4, <3>5 DEF Next
  <2>2. \A p \in Products : /\ stock'[p] \in Int
                            /\ base'[p] = base[p] + (stock'[p] - stock[p])
    BY <1>0, <2>1
  <2> QED
    BY <1>0, <2>1, <2>2, NoTakingKeepsStock
<1> QED
  BY <1>1, <1>2

\* In every reachable state, every unit that is missing from the stock of a
\* product is held by a line of some order: none is lost, none is made up.
THEOREM StockIsConserved == Spec => []StockConserved
<1>1. Init => StockInv
  <2> SUFFICES ASSUME Init, NEW p \in Products
               PROVE  /\ IsFiniteSet(Units(taken, p))
                      /\ stock[p] + Cardinality(Units(taken, p)) = base[p]
    BY DEF StockInv
  <2>1. Units(taken, p) = {}
    <3>1. \A x : x \in Units(taken, p) <=>
            \E o \in Orders : \E i \in taken[o] :
              Cart[o][i].product = p /\ x \in LineUnits(o, i)
      BY UnitsMembers
    <3> QED
      BY <3>1 DEF Init
  <2>2. IsFiniteSet({}) /\ Cardinality({}) = 0
    BY FS_EmptySet
  <2>3. stock[p] = base[p] /\ stock[p] \in Nat
    BY OrderAssumption DEF Init
  <2> QED
    BY <2>1, <2>2, <2>3
<1>2. TypeOK /\ ClaimInv /\ StockInv /\ [Next]_vars => StockInv'
  BY DeductLineKeepsStock, RestoreLineKeepsStock, OtherStepsKeepStock
<1>3. TypeOK /\ StockInv => StockConserved
  BY DEF TypeOK, StockInv, StockConserved
<1> QED
  BY <1>1, <1>2, <1>3, TypeCorrect, ClaimCorrect, PTL DEF Spec

\* In every reachable state the stock of each product on sale is at least 0.
THEOREM NothingIsOversold == Spec => []NoOversell
<1>1. Init => NoOversell
  BY OrderAssumption DEF Init, NoOversell
<1>2. ASSUME TypeOK, NoOversell, [Next]_vars
      PROVE  NoOversell'
  <2>0. /\ stock \in [Products -> Int] /\ catalog \subseteq Products
        /\ EditLevels \subseteq Nat
    BY <1>2, OrderAssumption DEF TypeOK
  <2>1. CASE Admin
    BY <1>2, <2>0, <2>1 DEF Admin, EditStock, RemoveProduct, NoOversell
  <2>2. ASSUME NEW r \in Requests, DeductLine(r)
        PROVE  NoOversell'
    <3>1. PICK i \in Lines(job[r]) :
            /\ InStock(job[r], i)
            /\ stock' = [stock EXCEPT ![Cart[job[r]][i].product] =
                           @ - Cart[job[r]][i].quantity]
      BY <2>2 DEF DeductLine
    <3>2. job[r] \in Orders /\ catalog' = catalog
      BY <1>2, <2>2 DEF TypeOK, DeductLine
    <3>3. /\ Cart[job[r]][i].product \in Products
          /\ Cart[job[r]][i].quantity \in Nat
      BY <3>2, CartFacts
    <3> QED
      BY <1>2, <2>0, <3>1, <3>2, <3>3 DEF NoOversell, InStock
  <2>3. ASSUME NEW r \in Requests, RestoreLine(r)
        PROVE  NoOversell'
    <3>1. job[r] \in Orders /\ deducted[r] \subseteq Lines(job[r])
      BY <1>2, <2>3 DEF TypeOK, RestoreLine
    <3>2. PICK i \in Lines(job[r]) :
            stock' = IF Cart[job[r]][i].product \in catalog
                     THEN [stock EXCEPT ![Cart[job[r]][i].product] =
                             @ + Cart[job[r]][i].quantity]
                     ELSE stock
      BY <2>3, <3>1 DEF RestoreLine
    <3>3. /\ Cart[job[r]][i].product \in Products
          /\ Cart[job[r]][i].quantity \in Nat
          /\ catalog' = catalog
      BY <2>3, <3>1, CartFacts DEF RestoreLine
    <3> QED
      BY <1>2, <2>0, <3>2, <3>3 DEF NoOversell
  <2>4. ASSUME ~Admin, \A r \in Requests : ~DeductLine(r) /\ ~RestoreLine(r)
        PROVE  NoOversell'
    <3>1. stock' = stock /\ catalog' = catalog
      BY <1>2, <2>4 DEF Next, Customer, Checkout, CustomerPays, Confirm,
           CreatePaystack, CreatePaypal, CreateLegacy, SyncPaymentStatus,
           Requery, Proceed, LoadOrder, Claim, ReadLatest, DeductFails,
           ReleaseClaim, MarkPaid, MarkIntent, RequestDies, stockVars, vars
    <3> QED
      BY <1>2, <3>1 DEF NoOversell
  <2> QED
    BY <2>1, <2>2, <2>3, <2>4
<1> QED
  BY <1>1, <1>2, TypeCorrect, PTL DEF Spec

-----------------------------------------------------------------------------
(***************************************************************************)
(* The requests implement StockReservation: each of the five steps of the  *)
(* critical section is a step of the one owner, or none; no other step     *)
(* changes what the owner sees.                                            *)
(***************************************************************************)
Critical(r) == \/ Claim(r) \/ DeductLine(r) \/ RestoreLine(r)
               \/ ReleaseClaim(r) \/ MarkPaid(r)

LEMMA OtherStepsAreInvisible ==
  ASSUME TypeOK, [Next]_vars, \A r \in Requests : ~Critical(r)
  PROVE  /\ taken' = taken
         /\ \A x \in Orders : /\ order'[x].isPaid = order[x].isPaid
                              /\ order'[x].stockDeducted = order[x].stockDeducted
<1>0. order \in [Orders -> OrderDoc]
  BY DEF TypeOK
<1>1. ASSUME NEW o \in Orders, Checkout(o) \/ CustomerPays(o)
      PROVE  /\ taken' = taken
             /\ \A x \in Orders : /\ order'[x].isPaid = order[x].isPaid
                                  /\ order'[x].stockDeducted = order[x].stockDeducted
  <2>1. CASE Checkout(o)
    BY <1>0, <2>1 DEF Checkout, OrderDoc
  <2>2. CASE CustomerPays(o)
    BY <2>2 DEF CustomerPays
  <2> QED
    BY <1>1, <2>1, <2>2
<1>2. ASSUME NEW r \in Requests, Confirm(r)
      PROVE  /\ taken' = taken
             /\ \A x \in Orders : /\ order'[x].isPaid = order[x].isPaid
                                  /\ order'[x].stockDeducted = order[x].stockDeducted
  <2>1. PICK o \in Orders : \/ CreatePaystack(r, o) \/ CreatePaypal(r, o)
                            \/ CreateLegacy(r, o)
                            \/ SyncPaymentStatus(r, o) \/ Requery(r, o)
    BY <1>2 DEF Confirm
  <2>2. CASE CreateLegacy(r, o)
    BY <1>0, <2>2 DEF CreateLegacy, OrderDoc
  <2>3. CASE ~CreateLegacy(r, o)
    BY <2>1, <2>3 DEF CreatePaystack, CreatePaypal, SyncPaymentStatus, Requery
  <2> QED
    BY <2>2, <2>3
<1>3. ASSUME NEW r \in Requests, Proceed(r)
      PROVE  order' = order /\ taken' = taken
  BY <1>3 DEF Proceed, Critical, LoadOrder, ReadLatest, DeductFails, MarkIntent
<1>4. ASSUME NEW r \in Requests, RequestDies(r)
      PROVE  order' = order /\ taken' = taken
  BY <1>4 DEF RequestDies
<1>5. CASE Admin \/ UNCHANGED vars
  BY <1>5 DEF Admin, EditStock, RemoveProduct, vars
<1> QED
  BY <1>1, <1>2, <1>3, <1>4, <1>5 DEF Next, Customer

\* Once an order is paid it stays paid and keeps its stock.
THEOREM PaymentStaysFinal == Spec => PaymentIsFinal
<1> DEFINE A == \A o \in Orders : order[o].isPaid => /\ order'[o].isPaid
                                                     /\ taken'[o] = taken[o]
<1>1. ASSUME TypeOK, ClaimInv, [Next]_vars
      PROVE  A
  <2>0. /\ order \in [Orders -> OrderDoc]
        /\ taken \in [Orders -> SUBSET Nat]
    BY <1>1 DEF TypeOK
  <2>1. ASSUME NEW r \in Requests, Claim(r) \/ ReleaseClaim(r) \/ MarkPaid(r)
        PROVE  A
    <3>1. taken' = taken
      BY <2>1 DEF Claim, ReleaseClaim, MarkPaid
    <3>2. ASSUME NEW o \in Orders, order[o].isPaid
          PROVE  order'[o].isPaid
      <4>1. CASE Claim(r)
        BY <2>0, <3>2, <4>1 DEF Claim, OrderDoc
      <4>2. CASE ReleaseClaim(r)
        BY <2>0, <3>2, <4>2 DEF ReleaseClaim, OrderDoc
      <4>3. CASE MarkPaid(r)
        BY <2>0, <3>2, <4>3 DEF MarkPaid, OrderDoc
      <4> QED
        BY <2>1, <4>1, <4>2, <4>3
    <3> QED
      BY <3>1, <3>2
  <2>2. ASSUME NEW r \in Requests, DeductLine(r) \/ RestoreLine(r)
        PROVE  A
    <3>1. order' = order /\ job[r] \in Orders /\ stage[r] \in Holding
      BY <1>1, <2>2 DEF TypeOK, DeductLine, RestoreLine, Holding
    <3>2. ~order[job[r]].isPaid
      BY <1>1, <3>1 DEF ClaimInv, ClaimIsExclusive
    <3>3. \A o \in Orders : o # job[r] => taken'[o] = taken[o]
      BY <2>0, <2>2 DEF DeductLine, RestoreLine
    <3> QED
      BY <3>1, <3>2, <3>3
  <2>3. CASE \A r \in Requests : ~Critical(r)
    BY <1>1, <2>3, OtherStepsAreInvisible
  <2> QED
    BY <2>1, <2>2, <2>3 DEF Critical
<1>2. TypeOK /\ ClaimInv /\ [Next]_vars => [A]_vars
  BY <1>1
<1> QED
  BY <1>2, TypeCorrect, ClaimCorrect, PTL DEF Spec, PaymentIsFinal

\* The abstract state of each order, and of the orders that a step leaves.
LEMMA ReservationFacts ==
  /\ \A o \in Orders : ReservationState[o] =
       IF order[o].isPaid THEN "sold"
       ELSE IF order[o].stockDeducted THEN "claimed" ELSE "open"
  /\ \A o \in Orders : ReservationState'[o] =
       IF order'[o].isPaid THEN "sold"
       ELSE IF order'[o].stockDeducted THEN "claimed" ELSE "open"
  BY DEF ReservationState

LEMMA ClaimIsReserveOrNothing ==
  ASSUME TypeOK, ClaimInv, NEW r \in Requests, Claim(r)
  PROVE  [Reservation!Next]_<<ReservationState, taken>>
<1> DEFINE o == job[r]
<1>0. o \in Orders /\ order \in [Orders -> OrderDoc] /\ taken' = taken
  BY DEF TypeOK, Claim
<1>1. CASE order[o].stockDeducted
  BY <1>0, <1>1 DEF Claim, ReservationState
<1>2. CASE ~order[o].stockDeducted
  <2>1. order' = [order EXCEPT ![o].stockDeducted = TRUE] /\ ~order[o].isPaid
    BY <1>0, <1>2 DEF Claim, ClaimInv, PaidOrdersHoldTheirStock
  <2>2. \A x \in Orders :
          /\ order'[x].isPaid = order[x].isPaid
          /\ order'[x].stockDeducted = IF x = o THEN TRUE ELSE order[x].stockDeducted
    BY <1>0, <2>1 DEF OrderDoc
  <2>3. ReservationState' = [ReservationState EXCEPT ![o] = "claimed"]
    BY <1>0, <2>1, <2>2 DEF ReservationState
  <2>4. Reservation!Reserve(o)
    BY <1>0, <1>2, <2>1, <2>3, ReservationFacts DEF Reservation!Reserve
  <2> QED
    BY <1>0, <2>4 DEF Reservation!Next
<1> QED
  BY <1>1, <1>2

LEMMA HoldingIsClaimed ==
  ASSUME TypeOK, ClaimInv, NEW r \in Requests, stage[r] \in Holding
  PROVE  /\ job[r] \in Orders
         /\ order[job[r]].stockDeducted /\ ~order[job[r]].isPaid
         /\ ReservationState[job[r]] = "claimed"
         /\ taken[job[r]] = deducted[r]
         /\ taken[job[r]] \subseteq 1 .. CartSize[job[r]]
<1>1. job[r] \in Orders
  BY DEF TypeOK, Holding
<1>2. order[job[r]].stockDeducted /\ ~order[job[r]].isPaid
  BY DEF ClaimInv, ClaimIsExclusive
<1>3. taken[job[r]] = deducted[r]
  BY DEF ClaimInv, LocalListIsExact, LocalFacts, Holding
<1>4. taken[job[r]] \subseteq 1 .. CartSize[job[r]]
  BY <1>1, CartFacts DEF TypeOK, CartSize
<1> QED
  BY <1>1, <1>2, <1>3, <1>4, ReservationFacts

LEMMA LineStepIsTakeOrReturn ==
  ASSUME TypeOK, ClaimInv, NEW r \in Requests, DeductLine(r) \/ RestoreLine(r)
  PROVE  [Reservation!Next]_<<ReservationState, taken>>
<1> DEFINE o == job[r]
<1>0. stage[r] \in Holding
  BY DEF DeductLine, RestoreLine, Holding
<1>1. /\ o \in Orders /\ ReservationState[o] = "claimed"
      /\ taken[o] = deducted[r] /\ taken[o] \subseteq 1 .. CartSize[o]
  BY <1>0, HoldingIsClaimed
<1>2. ReservationState' = ReservationState
  BY DEF DeductLine, RestoreLine, ReservationState
<1>3. CASE DeductLine(r)
  <2>1. PICK i \in Lines(o) : /\ deducted[r] = 1 .. (i - 1)
                              /\ taken' = [taken EXCEPT ![o] = @ \union {i}]
    BY <1>3 DEF DeductLine
  <2>2. i \in 1 .. CartSize[o]
    BY <1>1, CartFacts DEF CartSize
  <2>3. i \notin taken[o]
    BY <1>1, <2>1, <2>2
  <2>4. Reservation!Take(o, i)
    BY <1>1, <1>2, <2>1, <2>2, <2>3 DEF Reservation!Take
  <2> QED
    BY <1>1, <2>2, <2>4 DEF Reservation!Next
<1>4. CASE RestoreLine(r)
  <2>1. PICK i \in taken[o] : taken' = [taken EXCEPT ![o] = @ \ {i}]
    BY <1>1, <1>4 DEF RestoreLine
  <2>2. Reservation!Return(o, i)
    BY <1>1, <1>2, <2>1 DEF Reservation!Return
  <2> QED
    BY <1>1, <2>1, <2>2 DEF Reservation!Next
<1> QED
  BY <1>3, <1>4

LEMMA ReleaseIsReopen ==
  ASSUME TypeOK, ClaimInv, NEW r \in Requests, ReleaseClaim(r)
  PROVE  [Reservation!Next]_<<ReservationState, taken>>
<1> DEFINE o == job[r]
<1>0. stage[r] \in Holding /\ taken' = taken /\ deducted[r] = {}
      /\ order' = [order EXCEPT ![o].stockDeducted = FALSE]
  BY DEF ReleaseClaim, Holding
<1>1. /\ o \in Orders /\ ReservationState[o] = "claimed" /\ taken[o] = {}
      /\ ~order[o].isPaid /\ order \in [Orders -> OrderDoc]
  BY <1>0, HoldingIsClaimed DEF TypeOK
<1>2. \A x \in Orders :
        /\ order'[x].isPaid = order[x].isPaid
        /\ order'[x].stockDeducted = IF x = o THEN FALSE ELSE order[x].stockDeducted
  BY <1>0, <1>1 DEF OrderDoc
<1>3. ReservationState' = [ReservationState EXCEPT ![o] = "open"]
  BY <1>1, <1>2 DEF ReservationState
<1>4. Reservation!Reopen(o)
  BY <1>0, <1>1, <1>3 DEF Reservation!Reopen
<1> QED
  BY <1>1, <1>4 DEF Reservation!Next

LEMMA MarkPaidIsSellOrNothing ==
  ASSUME TypeOK, ClaimInv, NEW r \in Requests, MarkPaid(r)
  PROVE  [Reservation!Next]_<<ReservationState, taken>>
<1> DEFINE o == job[r]
<1>0. /\ o \in Orders /\ order \in [Orders -> OrderDoc] /\ taken' = taken
      /\ order' = [order EXCEPT ![o].isPaid = TRUE]
  BY DEF TypeOK, MarkPaid
<1>1. order[o].stockDeducted /\ taken[o] = Lines(o)
  BY DEF MarkPaid, ClaimInv, LocalListIsExact, LocalFacts
<1>2. \A x \in Orders :
        /\ order'[x].isPaid = IF x = o THEN TRUE ELSE order[x].isPaid
        /\ order'[x].stockDeducted = order[x].stockDeducted
  BY <1>0 DEF OrderDoc
<1>3. CASE order[o].isPaid
  BY <1>0, <1>2, <1>3 DEF ReservationState
<1>4. CASE ~order[o].isPaid
  <2>1. ReservationState' = [ReservationState EXCEPT ![o] = "sold"]
    BY <1>0, <1>2 DEF ReservationState
  <2>2. taken[o] = 1 .. CartSize[o]
    BY <1>0, <1>1, CartFacts DEF CartSize
  <2>3. Reservation!Sell(o)
    BY <1>0, <1>1, <1>4, <2>1, <2>2, ReservationFacts DEF Reservation!Sell
  <2> QED
    BY <1>0, <2>3 DEF Reservation!Next
<1> QED
  BY <1>3, <1>4

\* However many requests confirm an order, its stock moves as one owner would
\* move it: OrderPayment implements StockReservation.
THEOREM RequestsImplementReservation == Spec => ImplementsReservation
<1>1. Init => Reservation!Init
  BY DEF Init, ReservationState, Reservation!Init
<1>2. ASSUME TypeOK, ClaimInv, [Next]_vars
      PROVE  [Reservation!Next]_<<ReservationState, taken>>
  <2>1. CASE \A r \in Requests : ~Critical(r)
    <3>1. ReservationState' = ReservationState
      BY <1>2, <2>1, OtherStepsAreInvisible DEF ReservationState
    <3> QED
      BY <1>2, <2>1, <3>1, OtherStepsAreInvisible
  <2>2. ASSUME NEW r \in Requests, Critical(r)
        PROVE  [Reservation!Next]_<<ReservationState, taken>>
    BY <1>2, <2>2, ClaimIsReserveOrNothing, LineStepIsTakeOrReturn,
       ReleaseIsReopen, MarkPaidIsSellOrNothing DEF Critical
  <2> QED
    BY <2>1, <2>2
<1> QED
  BY <1>1, <1>2, TypeCorrect, ClaimCorrect, PTL
  DEF Spec, ImplementsReservation, Reservation!Spec

-----------------------------------------------------------------------------
(* Orphaned claims. *)

\* A request keeps what it owns until it pays or gives the claim up, or dies.
LEMMA OwnersStay ==
  ASSUME TypeOK, [Next]_vars, NEW o \in Orders, NEW q \in Requests, Owns(q, o),
         ~MarkPaid(q), ~ReleaseClaim(q), ~RequestDies(q)
  PROVE  Owns(q, o)'
<1>0. /\ stage \in [Requests -> Stages] /\ job \in [Requests -> Orders \union {NoOrder}]
      /\ job[q] = o /\ stage[q] \in {"deduct", "restore", "pay"}
  BY DEF TypeOK, Owns
<1>1. ASSUME NEW r \in Requests, r # q,
             Confirm(r) \/ Proceed(r) \/ RequestDies(r)
      PROVE  stage'[q] = stage[q] /\ job'[q] = job[q]
  <2>1. CASE Confirm(r)
    BY <1>0, <1>1, <2>1 DEF Confirm, CreatePaystack, CreatePaypal, CreateLegacy,
       SyncPaymentStatus, Requery, Begin, Goto, requestVars
  <2>2. CASE Proceed(r)
    BY <1>0, <1>1, <2>2 DEF Proceed, LoadOrder, Claim, ReadLatest, DeductLine, DeductFails,
       RestoreLine, ReleaseClaim, MarkPaid, MarkIntent, Finish, Goto
  <2>3. CASE RequestDies(r)
    BY <1>0, <1>1, <2>3 DEF RequestDies, Finish, Goto
  <2> QED
    BY <1>1, <2>1, <2>2, <2>3
<1>2. CASE Confirm(q)
  BY <1>0, <1>2 DEF Confirm, CreatePaystack, CreatePaypal, CreateLegacy,
     SyncPaymentStatus, Requery, Begin, requestVars, Owns
<1>3. CASE Proceed(q)
  <2>1. DeductLine(q) \/ DeductFails(q) \/ RestoreLine(q)
    BY <1>0, <1>3 DEF Proceed, LoadOrder, Claim, ReadLatest, MarkIntent
  <2> QED
    BY <1>0, <2>1 DEF DeductLine, DeductFails, RestoreLine, Goto, Owns
<1>4. CASE Customer \/ Admin \/ UNCHANGED vars
  BY <1>0, <1>4 DEF Customer, Checkout, CustomerPays, Admin, EditStock, RemoveProduct,
     requestVars, vars, Owns
<1> QED
  BY <1>0, <1>1, <1>2, <1>3, <1>4 DEF Next, Owns

LEMMA FaultsGrow ==
  ASSUME TypeOK, [Next]_vars
  PROVE  /\ faults \in Nat /\ faults' \in Nat /\ faults <= faults'
         /\ \A r \in Requests : RequestDies(r) => faults' > 0
<1>0. faults \in Nat
  BY OrderAssumption DEF TypeOK
<1>1. faults' = faults \/ faults' = faults + 1
  BY DEF Next, Customer, Checkout, CustomerPays, Confirm, CreatePaystack, CreatePaypal,
     CreateLegacy, SyncPaymentStatus, Requery, Proceed, LoadOrder, Claim, ReadLatest,
     DeductLine, DeductFails, RestoreLine, ReleaseClaim, MarkPaid, MarkIntent, RequestDies,
     Admin, EditStock, RemoveProduct, vars
<1>2. \A r \in Requests : RequestDies(r) => faults' = faults + 1
  BY DEF RequestDies
<1> QED
  BY <1>0, <1>1, <1>2

\* An order gets its claim from a request that then owns it.
LEMMA NewClaimHasOwner ==
  ASSUME TypeOK, [Next]_vars, NEW o \in Orders,
         order'[o].stockDeducted, ~order'[o].isPaid,
         ~order[o].stockDeducted \/ order[o].isPaid
  PROVE  \E r \in Requests : Owns(r, o)'
<1>0. /\ order \in [Orders -> OrderDoc] /\ stage \in [Requests -> Stages]
      /\ \A r \in Requests : stage[r] # "idle" => job[r] \in Orders
  BY DEF TypeOK
<1>1. PICK r \in Requests : Critical(r)
  BY OtherStepsAreInvisible
<1>2. job[r] \in Orders
  BY <1>0, <1>1 DEF Critical, Claim, DeductLine, RestoreLine, ReleaseClaim, MarkPaid
<1>3. CASE Claim(r)
  <2>1. CASE UNCHANGED order
    BY <2>1
  <2>2. CASE /\ order' = [order EXCEPT ![job[r]].stockDeducted = TRUE]
             /\ Goto(r, "deduct") /\ job' = job
    <3>1. o = job[r]
      BY <1>0, <1>2, <2>2 DEF OrderDoc
    <3>2. stage'[r] = "deduct" /\ job'[r] = job[r]
      BY <1>0, <2>2 DEF Goto
    <3> QED
      BY <3>1, <3>2 DEF Owns
  <2> QED
    BY <1>3, <2>1, <2>2 DEF Claim
<1>4. ~DeductLine(r) /\ ~RestoreLine(r)
  BY DEF DeductLine, RestoreLine
<1>5. ~ReleaseClaim(r)
  BY <1>0, <1>2 DEF ReleaseClaim, OrderDoc
<1>6. ~MarkPaid(r)
  BY <1>0, <1>2 DEF MarkPaid, OrderDoc
<1> QED
  BY <1>1, <1>3, <1>4, <1>5, <1>6 DEF Critical

\* Without a fault, a claim that is not paid has a request at work on it: no race of
\* confirmations, however many, leaves an order that can never be paid.
THEOREM ClaimsAreAttended == Spec => []OrphanedClaimNeedsFault
<1>1. Init => OrphanedClaimNeedsFault
  BY DEF Init, OrphanedClaimNeedsFault
<1>2. ASSUME TypeOK, OrphanedClaimNeedsFault, [Next]_vars
      PROVE  OrphanedClaimNeedsFault'
  <2> SUFFICES ASSUME NEW o \in Orders, order'[o].stockDeducted, ~order'[o].isPaid,
                      \A r \in Requests : ~Owns(r, o)'
               PROVE  faults' > 0
    BY DEF OrphanedClaimNeedsFault
  <2>1. /\ faults \in Nat /\ faults' \in Nat /\ faults <= faults'
        /\ \A r \in Requests : RequestDies(r) => faults' > 0
    BY <1>2, FaultsGrow
  <2>2. order[o].stockDeducted /\ ~order[o].isPaid
    BY <1>2, NewClaimHasOwner
  <2>3. CASE faults > 0
    BY <2>1, <2>3
  <2>4. CASE \E r \in Requests : Owns(r, o)
    <3>1. PICK r \in Requests : Owns(r, o)
      BY <2>4
    <3>2. job[r] = o /\ order \in [Orders -> OrderDoc]
      BY <1>2, <3>1 DEF Owns, TypeOK
    <3>3. ~MarkPaid(r)
      BY <3>2 DEF MarkPaid, OrderDoc
    <3>4. ~ReleaseClaim(r)
      BY <3>2 DEF ReleaseClaim, OrderDoc
    <3>5. RequestDies(r)
      BY <1>2, <3>1, <3>3, <3>4, OwnersStay
    <3> QED
      BY <2>1, <3>5
  <2> QED
    BY <1>2, <2>2, <2>3, <2>4 DEF OrphanedClaimNeedsFault
<1> QED
  BY <1>1, <1>2, TypeCorrect, PTL DEF Spec
=============================================================================

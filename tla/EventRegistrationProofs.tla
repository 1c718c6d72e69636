----------------------- MODULE EventRegistrationProofs -----------------------
(***************************************************************************)
(* Proofs about EventRegistration for any members, checkouts and set-ups,  *)
(* and any bounds on requests, changes and faults.                         *)
(***************************************************************************)
EXTENDS EventRegistration, FiniteSetTheorems, SequenceTheorems, TLAPS

Stages == {"idle", "draft", "check", "save", "clean"}
Call   == [stage : Stages, room : Rooms, form : {0, 1}]

(* Type correctness, by groups of variables. *)

SetupOK == setup \in Setups /\ setup.owner \in [Checkouts -> Members]

EventOK ==
    /\ event \in Event
    /\ registered \in Seq(Registration)
    /\ subscribed \subseteq Members

DraftsOK ==
    /\ draft \in [Members -> Draft]
    /\ checkout \in [Checkouts -> Checkout]

CallsOK == call \in [Requests -> Call]

OthersOK ==
    /\ cancelled \subseteq Members /\ overlap \subseteq Members
    /\ expired \subseteq Checkouts /\ refused \subseteq Checkouts
    /\ changes \in 0..MaxChanges /\ faults \in 0..MaxFaults

Typed == SetupOK /\ EventOK /\ DraftsOK /\ CallsOK /\ OthersOK

-----------------------------------------------------------------------------
(* The inductive invariant. *)

\* One registration of a member, unless two of their requests overlapped: a request
\* that is about to save has seen no registration, and no other is about to.
Once(m) ==
    m \notin overlap =>
        /\ \A i, j \in DOMAIN registered :
             registered[i].user = m /\ registered[j].user = m => i = j
        /\ \A k \in Requests : call[k].stage = "save" /\ Who(k) = m => ~IsRegistered(m)
        /\ \A j, k \in Requests :
             /\ call[j].stage = "save" /\ call[k].stage = "save"
             /\ Who(j) = m /\ Who(k) = m
             => j = k

Made(t) == checkout[t].state # "none"

\* The checkouts are made in their order.
InOrder == \A t, u \in Checkouts : u < t /\ Made(t) => Made(u)

\* The room is what the member's draft gen held at checkout r or a later one.
Chosen(r, m, gen, room) ==
    \E t \in Checkouts : /\ r <= t /\ Made(t) /\ setup.owner[t] = m
                         /\ checkout[t].gen = gen /\ LastChosen(t, room)

\* The same after a step.
ChosenNext(r, m, gen, room) ==
    \E t \in Checkouts :
        /\ r <= t /\ Made(t)' /\ setup'.owner[t] = m /\ checkout'[t].gen = gen
        /\ \/ Chose(t)' = {} /\ room = "none"
           \/ \E u \in Chose(t)' : checkout'[u].room = room /\ \A v \in Chose(t)' : v <= u

\* The room is what the draft gen held at the last checkout t of the member with it.
Latest(m, gen, room, t) ==
    /\ Made(t) /\ setup.owner[t] = m /\ checkout[t].gen = gen /\ LastChosen(t, room)
    /\ \A u \in Checkouts :
         Made(u) /\ setup.owner[u] = m /\ checkout[u].gen = gen => u <= t

\* No other checkout of the member has been made.
Only(t) ==
    \A u \in Checkouts \ {t} : setup.owner[u] = setup.owner[t] => ~Made(u)

\* What a draft holds, and that it is the member's last.
DraftOf(m) ==
    /\ \A t \in Checkouts : Made(t) /\ setup.owner[t] = m => checkout[t].gen <= draft[m].gen
    /\ draft[m].live => \E t \in Checkouts : Latest(m, draft[m].gen, draft[m].room, t)

\* What a checkout says of the member, the draft and the request that captured it.
CheckoutOf(t) ==
    LET m == setup.owner[t] IN
    Made(t) =>
        /\ checkout[t].entitled
        /\ Only(t) =>
             /\ draft[m].form = checkout[t].form
             /\ \/ draft[m].live /\ draft[m].gen = checkout[t].gen
                \/ t \in expired
                \/ IsRegistered(m)
        /\ Via(t) = "paypal" /\ checkout[t].state = "charged" =>
             \/ Active(<<t, "return">>) \/ faults > 0 \/ t \in refused \/ IsRegistered(m)

\* What a confirmation knows of its checkout.
CallOf(k) ==
    /\ Active(k) /\ ~IsFree(k) =>
         /\ Made(k[1]) /\ checkout[k[1]].state # "failed"
         /\ call[k].stage \in {"check", "save"} =>
              /\ Chosen(k[1], Who(k), checkout[k[1]].gen, call[k].room)
              /\ Only(k[1]) => call[k].form = checkout[k[1]].form
    /\ call[k].stage = "clean" => ~IsFree(k) /\ IsRegistered(Who(k))

\* The room of a registration is what the draft of its checkout held then or later.
RoomOf(i) ==
    LET t == registered[i].reference IN
    t # 0 => Made(t) /\ Chosen(t, registered[i].user, checkout[t].gen, registered[i].room)

EventInv ==
    /\ Typed /\ InOrder
    /\ \A m \in Members : Once(m) /\ DraftOf(m)
    /\ \A t \in Checkouts : CheckoutOf(t)
    /\ \A k \in Requests : CallOf(k)
    /\ \A i \in DOMAIN registered : RoomOf(i)

LEMMA TypedIsTypeOK == Typed => TypeOK
  BY DEF Typed, SetupOK, EventOK, DraftsOK, CallsOK, OthersOK, TypeOK, Call, Stages

LEMMA Sorts ==
  ASSUME Typed
  PROVE  SetupOK /\ EventOK /\ DraftsOK /\ CallsOK /\ OthersOK
  BY DEF Typed

-----------------------------------------------------------------------------
(* The requests. *)

LEMMA IdleIsCall == Idle \in Call /\ Idle.stage = "idle"
  BY DEF Idle, Call, Stages, Rooms

\* A request is a member's, or a return or webhook for a checkout.
LEMMA RequestOf ==
  ASSUME Typed, NEW k \in Requests
  PROVE  /\ Who(k) \in Members
         /\ IsFree(k) => k[1] \in Members
         /\ ~IsFree(k) => k[1] \in Checkouts /\ Who(k) = setup.owner[k[1]]
  BY Sorts DEF SetupOK, Requests, Who, IsFree

LEMMA ConfirmationOf ==
  ASSUME NEW t \in Checkouts
  PROVE  /\ <<t, "return">> \in Requests /\ <<t, "webhook">> \in Requests
         /\ ~IsFree(<<t, "return">>) /\ ~IsFree(<<t, "webhook">>)
         /\ <<t, "return">>[1] = t /\ <<t, "webhook">>[1] = t
  BY DEF Requests, IsFree

LEMMA FreeRequestOf ==
  ASSUME NEW m \in Members
  PROVE  <<m, "free">> \in Requests /\ IsFree(<<m, "free">>) /\ Who(<<m, "free">>) = m
  BY DEF Requests, IsFree, Who

\* Only request k moves, and becomes c.
Becomes(k, c) == call'[k] = c /\ \A j \in Requests \ {k} : call'[j] = call[j]

LEMMA CallStep ==
  ASSUME Typed, NEW k \in Requests, NEW c \in Call, call' = [call EXCEPT ![k] = c]
  PROVE  CallsOK' /\ Becomes(k, c)
  BY Sorts DEF CallsOK, Becomes

LEMMA GoToEffect ==
  ASSUME Typed, NEW k \in Requests, NEW stage \in Stages, GoTo(k, stage)
  PROVE  /\ [call[k] EXCEPT !.stage = stage] \in Call
         /\ call' = [call EXCEPT ![k] = [call[k] EXCEPT !.stage = stage]]
         /\ [call[k] EXCEPT !.stage = stage].stage = stage
         /\ [call[k] EXCEPT !.stage = stage].room = call[k].room
         /\ [call[k] EXCEPT !.stage = stage].form = call[k].form
<1>1. call[k] \in Call
  BY Sorts DEF CallsOK
<1> QED
  BY <1>1 DEF GoTo, Call

-----------------------------------------------------------------------------
(* What every step keeps. *)

\* Checkouts, registrations and what is noted of them are never taken back.
Kept ==
  /\ setup' = setup
  /\ \A t \in Checkouts : Made(t) =>
       /\ Made(t)' /\ checkout'[t].gen = checkout[t].gen
       /\ checkout'[t].room = checkout[t].room /\ checkout'[t].form = checkout[t].form
       /\ checkout'[t].entitled = checkout[t].entitled
       /\ checkout[t].state # "failed" => checkout'[t].state # "failed"
  /\ \A t \in Checkouts : Made(t)' /\ ~Made(t) =>
       \A u \in Checkouts : u < t <=> Made(u)
  /\ \A m \in Members : IsRegistered(m) => IsRegistered(m)'
  /\ expired \subseteq expired' /\ refused \subseteq refused' /\ overlap \subseteq overlap'
  /\ faults > 0 => faults' > 0

LEMMA KeptSame ==
  ASSUME Typed, UNCHANGED <<setup, registered, checkout>>,
         expired \subseteq expired', refused \subseteq refused', overlap \subseteq overlap',
         faults > 0 => faults' > 0
  PROVE  Kept
  BY DEF Kept, Made, IsRegistered

LEMMA OrderStays ==
  ASSUME Kept, InOrder
  PROVE  InOrder'
  BY EventAssumption DEF Kept, InOrder

\* A checkout that is made later comes after those there are.
LEMMA ChoseStays ==
  ASSUME Kept, NEW t \in Checkouts, Made(t)
  PROVE  /\ Chose(t)' = Chose(t) /\ Chose(t) \subseteq Checkouts
         /\ \A u \in Chose(t) : checkout'[u].room = checkout[u].room
<1>1. setup' = setup /\ checkout'[t].gen = checkout[t].gen
  BY DEF Kept
<1>2. ASSUME NEW u \in Checkouts, u <= t PROVE Made(u)' => Made(u)
  <2>1. u \in Nat /\ t \in Nat /\ ~(t < u)
    BY <1>2, EventAssumption
  <2>2. Made(u)' /\ ~Made(u) => (t < u <=> Made(t))
    BY DEF Kept
  <2> QED
    BY <2>1, <2>2
<1>3. \A u \in Checkouts : Made(u) =>
        /\ Made(u)' /\ checkout'[u].room = checkout[u].room
        /\ checkout'[u].gen = checkout[u].gen
  BY DEF Kept
<1>4. \A u \in Checkouts : u \in Chose(t)' <=> u \in Chose(t)
  BY <1>1, <1>2, <1>3 DEF Chose, Made
<1>5. \A u : (u \in Chose(t)' => u \in Checkouts) /\ (u \in Chose(t) => u \in Checkouts)
  BY DEF Chose
<1>6. \A u \in Chose(t) : Made(u)
  BY DEF Chose, Made
<1> QED
  BY <1>3, <1>4, <1>5, <1>6

LEMMA ChosenStays ==
  ASSUME Kept, NEW r, NEW m, NEW gen, NEW room, Chosen(r, m, gen, room)
  PROVE  ChosenNext(r, m, gen, room)
<1>1. PICK t \in Checkouts :
        /\ r <= t /\ Made(t) /\ setup.owner[t] = m /\ checkout[t].gen = gen
        /\ LastChosen(t, room)
  BY DEF Chosen
<1>2. /\ Chose(t)' = Chose(t)
      /\ \A u \in Chose(t) : checkout'[u].room = checkout[u].room
  BY <1>1, ChoseStays
<1>3. Made(t)' /\ setup'.owner[t] = m /\ checkout'[t].gen = gen
  BY <1>1 DEF Kept
<1> QED
  BY <1>1, <1>2, <1>3 DEF ChosenNext, LastChosen

LEMMA OnlyStays ==
  ASSUME Kept, NEW t \in Checkouts
  PROVE  Only(t)' => Only(t)
  BY DEF Kept, Only

LEMMA DraftStays ==
  ASSUME Kept, NEW m \in Members, DraftOf(m), draft'[m].gen = draft[m].gen,
         \/ checkout' = checkout
         \/ \A u \in Checkouts : setup.owner[u] = m /\ Made(u)' => Made(u),
         draft'[m].live => draft[m].live /\ draft'[m].room = draft[m].room
  PROVE  DraftOf(m)'
<1>1. setup' = setup
  BY DEF Kept
<1>2. \A u \in Checkouts : setup.owner[u] = m /\ Made(u)' =>
        Made(u) /\ checkout'[u].gen = checkout[u].gen
  BY DEF Kept, Made
<1>3. \A u \in Checkouts : Made(u)' /\ setup'.owner[u] = m => checkout'[u].gen <= draft'[m].gen
  BY <1>1, <1>2 DEF DraftOf
<1>4. ASSUME draft'[m].live
      PROVE  \E t \in Checkouts : Latest(m, draft[m].gen, draft[m].room, t)'
  <2>1. PICK t \in Checkouts : Latest(m, draft[m].gen, draft[m].room, t)
    BY <1>4 DEF DraftOf
  <2>2. /\ Made(t)' /\ setup'.owner[t] = m /\ checkout'[t].gen = draft'[m].gen
        /\ draft'[m].room = draft[m].room
    BY <1>4, <2>1 DEF Latest, Kept
  <2>3. /\ Chose(t)' = Chose(t)
        /\ \A u \in Chose(t) : checkout'[u].room = checkout[u].room
    BY <2>1, ChoseStays DEF Latest
  <2>4. LastChosen(t, draft[m].room)'
    BY <2>1, <2>2, <2>3 DEF Latest, LastChosen
  <2>5. \A u \in Checkouts :
          Made(u)' /\ setup'.owner[u] = m /\ checkout'[u].gen = draft'[m].gen => u <= t
    BY <1>1, <1>2, <2>1 DEF Latest
  <2> QED
    BY <2>2, <2>4, <2>5 DEF Latest
<1> QED
  BY <1>3, <1>4 DEF DraftOf

LEMMA CallStays ==
  ASSUME Typed, Kept, NEW k \in Requests, CallOf(k), call'[k] = call[k]
  PROVE  CallOf(k)'
<1>0. Who(k) \in Members
  BY RequestOf
<1>1. setup' = setup
  BY DEF Kept
<1>2. call[k].stage = "clean" =>
        ~IsFree(k) /\ \E m \in Members : m = Who(k) /\ IsRegistered(m)'
  BY <1>0 DEF CallOf, Kept
<1>3. CASE ~Active(k) \/ IsFree(k)
  BY <1>1, <1>2, <1>3 DEF CallOf, Active, IsFree, Who
<1>4. CASE Active(k) /\ ~IsFree(k)
  <2>1. k[1] \in Checkouts /\ Who(k) = setup.owner[k[1]]
    BY <1>4, RequestOf
  <2> SUFFICES ASSUME NEW t \in Checkouts, t = k[1] PROVE CallOf(k)'
    BY <2>1
  <2>2. Made(t)' /\ checkout'[t].state # "failed" /\ checkout'[t].gen = checkout[t].gen
        /\ checkout'[t].form = checkout[t].form
    BY <1>4 DEF Kept, CallOf
  <2>3. Only(t)' => Only(t)
    BY OnlyStays
  <2>4. call[k].stage \in {"check", "save"} =>
          ChosenNext(t, Who(k), checkout[t].gen, call[k].room)
    <3>1. call[k].stage \in {"check", "save"} => Chosen(t, Who(k), checkout[t].gen, call[k].room)
      BY <1>4 DEF CallOf
    <3> QED
      BY <3>1, ChosenStays
  <2> QED
    BY <1>1, <1>2, <1>4, <2>1, <2>2, <2>3, <2>4
    DEF CallOf, Active, IsFree, Who, Chosen, ChosenNext, LastChosen
<1> QED
  BY <1>3, <1>4

LEMMA CheckoutStays ==
  ASSUME Typed, Kept, NEW t \in Checkouts, CheckoutOf(t), Made(t),
         draft'[setup.owner[t]].form = draft[setup.owner[t]].form,
         draft[setup.owner[t]].live =>
           \/ /\ draft'[setup.owner[t]].live
              /\ draft'[setup.owner[t]].gen = draft[setup.owner[t]].gen
           \/ draft[setup.owner[t]].gen # checkout[t].gen
           \/ t \in expired' \/ IsRegistered(setup.owner[t]),
         Via(t) = "paypal" /\ checkout'[t].state = "charged" =>
           \/ checkout[t].state = "charged" /\ Active(<<t, "return">>) => Active(<<t, "return">>)'
           \/ faults' > 0 \/ t \in refused' \/ IsRegistered(setup.owner[t]),
         Via(t) = "paypal" /\ checkout'[t].state = "charged" =>
           checkout[t].state = "charged" \/ Active(<<t, "return">>)'
  PROVE  CheckoutOf(t)'
<1>0. setup.owner[t] \in Members
  BY Sorts DEF SetupOK
<1> SUFFICES ASSUME NEW m \in Members, m = setup.owner[t] PROVE CheckoutOf(t)'
  BY <1>0
<1>2. setup' = setup /\ (IsRegistered(m) => IsRegistered(m)') /\ (Only(t)' => Only(t))
  BY OnlyStays DEF Kept
<1>3. /\ checkout'[t].gen = checkout[t].gen /\ checkout'[t].form = checkout[t].form
      /\ checkout'[t].entitled = checkout[t].entitled
      /\ expired \subseteq expired' /\ refused \subseteq refused' /\ (faults > 0 => faults' > 0)
  BY DEF Kept
<1>4. setup'.owner[t] = m /\ Via(t)' = Via(t)
  BY <1>2 DEF Via
<1>5. /\ checkout[t].entitled
      /\ Only(t) =>
           /\ draft[m].form = checkout[t].form
           /\ \/ draft[m].live /\ draft[m].gen = checkout[t].gen
              \/ t \in expired
              \/ IsRegistered(m)
      /\ Via(t) = "paypal" /\ checkout[t].state = "charged" =>
           \/ Active(<<t, "return">>) \/ faults > 0 \/ t \in refused \/ IsRegistered(m)
  BY DEF CheckoutOf
<1>6. Only(t)' =>
        /\ draft'[m].form = checkout'[t].form
        /\ \/ draft'[m].live /\ draft'[m].gen = checkout'[t].gen
           \/ t \in expired'
           \/ IsRegistered(m)'
  BY <1>2, <1>3, <1>5
<1>7. Via(t)' = "paypal" /\ checkout'[t].state = "charged" =>
        \/ Active(<<t, "return">>)' \/ faults' > 0 \/ t \in refused' \/ IsRegistered(m)'
  BY <1>2, <1>3, <1>4, <1>5
<1> QED
  BY <1>3, <1>4, <1>5, <1>6, <1>7 DEF CheckoutOf

LEMMA OnceStays ==
  ASSUME Typed, Kept, NEW m \in Members, Once(m), registered' = registered,
         \A k \in Requests : call'[k].stage = "save" =>
            call'[k] = call[k] \/ (Who(k) = m => m \in overlap')
  PROVE  Once(m)'
<1> SUFFICES ASSUME m \notin overlap' PROVE Once(m)'
  BY DEF Once
<1>1. m \notin overlap /\ setup' = setup
  BY DEF Kept
<1> QED
  BY <1>1 DEF Once, Who, IsFree, IsRegistered

LEMMA RoomStays ==
  ASSUME Typed, Kept, NEW i \in DOMAIN registered, RoomOf(i), registered'[i] = registered[i]
  PROVE  RoomOf(i)'
<1>1. registered[i] \in Registration
  BY Sorts DEF EventOK
<1>2. registered[i].reference # 0 => registered[i].reference \in Checkouts
  BY <1>1 DEF Registration
<1> SUFFICES ASSUME NEW t \in Checkouts, t = registered[i].reference, t # 0
             PROVE  RoomOf(i)'
  BY <1>2 DEF RoomOf
<1>3. Made(t) /\ Chosen(t, registered[i].user, checkout[t].gen, registered[i].room)
  BY DEF RoomOf
<1>4. Made(t)' /\ checkout'[t].gen = checkout[t].gen
  BY <1>3 DEF Kept
<1>5. ChosenNext(t, registered[i].user, checkout[t].gen, registered[i].room)
  BY <1>3, ChosenStays
<1>6. registered'[i].reference = t
  OBVIOUS
<1> QED
  BY <1>4, <1>5, <1>6 DEF RoomOf, Chosen, ChosenNext, LastChosen, Made

LEMMA InitEvents == Init => EventInv
<1> SUFFICES ASSUME Init PROVE EventInv
  OBVIOUS
<1>1. \A p \in {"none"} : p \in Rooms
  BY DEF Rooms
<1>2. Typed
  <2>1. SetupOK
    BY EventAssumption DEF Init, SetupOK
  <2>2. EventOK
    <3>1. event \in Event
      BY DEF Init, Event, Periods
    <3> QED
      BY <3>1 DEF Init, EventOK
  <2>3. DraftsOK
    BY <1>1, EventAssumption DEF Init, DraftsOK, Draft, Checkout
  <2>4. CallsOK
    BY IdleIsCall DEF Init, CallsOK
  <2>5. OthersOK
    BY EventAssumption DEF Init, OthersOK
  <2> QED
    BY <2>1, <2>2, <2>3, <2>4, <2>5 DEF Typed
<1>3. DOMAIN registered = {}
  BY DEF Init
<1>4. /\ \A k \in Requests : ~Active(k) /\ call[k].stage = "idle"
      /\ \A m \in Members : ~draft[m].live
      /\ \A t \in Checkouts : ~Made(t)
  BY DEF Init, Active, Idle, Made
<1>5. \A m \in Members : Once(m) /\ DraftOf(m)
  BY <1>3, <1>4 DEF Once, DraftOf
<1> QED
  BY <1>2, <1>3, <1>4, <1>5 DEF EventInv, CheckoutOf, CallOf, InOrder

-----------------------------------------------------------------------------
(* A request ends, refused or broken off. *)

LEMMA StopKeeps ==
  ASSUME EventInv, NEW k \in Requests, call' = [call EXCEPT ![k] = Idle],
         UNCHANGED <<setup, event, registered, subscribed, draft, checkout, cancelled,
                     expired, overlap, changes>>,
         refused' \in SUBSET Checkouts, refused \subseteq refused',
         faults' \in 0..MaxFaults, faults > 0 => faults' > 0,
         \A t \in Checkouts :
            k = <<t, "return">> /\ Via(t) = "paypal" /\ checkout[t].state = "charged"
            => t \in refused' \/ faults' > 0 \/ ~Active(k)
  PROVE  EventInv'
<1>0. Typed /\ SetupOK /\ EventOK /\ DraftsOK /\ CallsOK /\ OthersOK
  BY Sorts DEF EventInv
<1>1. CallsOK' /\ Becomes(k, Idle)
  BY <1>0, IdleIsCall, CallStep
<1>2. Typed'
  BY <1>0, <1>1 DEF Typed, SetupOK, EventOK, DraftsOK, OthersOK
<1>3. Kept
  BY <1>0, KeptSame
<1>4. \A m \in Members : Once(m)' /\ DraftOf(m)'
  <2>1. \A j \in Requests : call'[j].stage = "save" => call'[j] = call[j]
    BY <1>1, IdleIsCall DEF Becomes
  <2> QED
    BY <1>0, <1>3, <2>1, OnceStays, DraftStays DEF EventInv
<1>5. \A t \in Checkouts : CheckoutOf(t)'
  <2> SUFFICES ASSUME NEW t \in Checkouts, Made(t) PROVE CheckoutOf(t)'
    BY DEF CheckoutOf, Made
  <2>1. <<t, "return">> \in Requests
    BY ConfirmationOf
  <2>2. <<t, "return">> # k => (Active(<<t, "return">>) => Active(<<t, "return">>)')
    BY <1>1, <2>1 DEF Becomes, Active
  <2> QED
    BY <1>0, <1>3, <2>1, <2>2, CheckoutStays DEF EventInv
<1>6. \A j \in Requests : CallOf(j)'
  <2>1. CallOf(k)'
    BY <1>1, IdleIsCall DEF CallOf, Active, Becomes
  <2>2. ASSUME NEW j \in Requests \ {k} PROVE CallOf(j)'
    BY <1>0, <1>1, <1>3, CallStays DEF EventInv, Becomes
  <2> QED
    BY <2>1, <2>2
<1>7. \A i \in DOMAIN registered : RoomOf(i)'
  BY <1>0, <1>3, RoomStays DEF EventInv
<1> QED
  BY <1>2, <1>3, <1>4, <1>5, <1>6, <1>7, OrderStays DEF EventInv

LEMMA RefuseEffect ==
  ASSUME Typed, NEW k \in Requests, UNCHANGED checkout, Refuse(k)
  PROVE  /\ call' = [call EXCEPT ![k] = Idle]
         /\ refused' \in SUBSET Checkouts /\ refused \subseteq refused'
         /\ \A t \in Checkouts :
              k = <<t, "return">> /\ checkout[t].state = "charged" => t \in refused'
         /\ \A t \in refused' \ refused :
              t \in Checkouts /\ ~IsFree(k) /\ k[1] = t /\ checkout[t].state = "charged"
  BY Sorts DEF Refuse, OthersOK, IsFree

LEMMA RefuseKeeps ==
  ASSUME EventInv, NEW k \in Requests, Refuse(k),
         UNCHANGED <<setup, event, registered, subscribed, draft, checkout, cancelled,
                     expired, overlap, changes, faults>>
  PROVE  EventInv'
<1>1. Typed /\ faults \in 0..MaxFaults
  BY Sorts DEF EventInv, OthersOK
<1>2. /\ call' = [call EXCEPT ![k] = Idle]
      /\ refused' \in SUBSET Checkouts /\ refused \subseteq refused'
      /\ \A t \in Checkouts :
           k = <<t, "return">> /\ checkout[t].state = "charged" => t \in refused'
  BY <1>1, RefuseEffect
<1> QED
  BY <1>1, <1>2, StopKeeps

LEMMA BreakOffKeeps ==
  ASSUME EventInv, NEW k \in Requests, BreakOff(k)
  PROVE  EventInv'
<1>1. /\ faults' \in 0..MaxFaults /\ faults' > 0 /\ refused \in SUBSET Checkouts
      /\ call' = [call EXCEPT ![k] = Idle]
      /\ UNCHANGED <<setup, event, registered, subscribed, draft, checkout, cancelled,
                     expired, refused, overlap, changes>>
  BY Sorts, EventAssumption DEF EventInv, OthersOK, BreakOff
<1> QED
  BY <1>1, StopKeeps

-----------------------------------------------------------------------------
(* A request goes on. *)

LEMMA GoOnKeeps ==
  ASSUME EventInv, NEW k \in Requests, NEW c \in Call, c.stage # "idle",
         call' = [call EXCEPT ![k] = c],
         UNCHANGED <<setup, event, registered, subscribed, draft, cancelled,
                     expired, refused, changes, faults>>,
         \/ checkout' = checkout
         \/ \E t \in Checkouts : /\ k = <<t, "return">> /\ checkout[t].state = "approved"
                                 /\ checkout' = [checkout EXCEPT ![t].state = "charged"],
         overlap' \in SUBSET Members, overlap \subseteq overlap',
         c.stage = "save" => \/ Who(k) \in overlap'
                             \/ /\ ~IsRegistered(Who(k))
                                /\ \A j \in Requests \ {k} :
                                     ~(Who(j) = Who(k) /\ call[j].stage = "save"),
         c.stage # "clean",
         ~IsFree(k) =>
            /\ Made(k[1]) /\ checkout[k[1]].state # "failed"
            /\ c.stage \in {"check", "save"} =>
                 /\ Chosen(k[1], Who(k), checkout[k[1]].gen, c.room)
                 /\ Only(k[1]) => c.form = checkout[k[1]].form
  PROVE  EventInv'
<1>0. Typed /\ SetupOK /\ EventOK /\ DraftsOK /\ CallsOK /\ OthersOK
  BY Sorts DEF EventInv
<1>1. CallsOK' /\ Becomes(k, c)
  BY <1>0, CallStep
<1>2. /\ checkout' \in [Checkouts -> Checkout]
      /\ \A t \in Checkouts :
           \/ checkout'[t] = checkout[t]
           \/ /\ k = <<t, "return">> /\ checkout[t].state = "approved"
              /\ checkout'[t] = [checkout[t] EXCEPT !.state = "charged"]
  <2>1. CASE checkout' = checkout
    BY <1>0, <2>1 DEF DraftsOK
  <2>2. ASSUME NEW t \in Checkouts, k = <<t, "return">>, checkout[t].state = "approved",
               checkout' = [checkout EXCEPT ![t].state = "charged"]
        PROVE  /\ checkout' \in [Checkouts -> Checkout]
               /\ checkout'[t] = [checkout[t] EXCEPT !.state = "charged"]
               /\ \A u \in Checkouts \ {t} : checkout'[u] = checkout[u]
    <3> DEFINE x == [checkout[t] EXCEPT !.state = "charged"]
    <3>1. checkout[t] \in Checkout
      BY <1>0 DEF DraftsOK
    <3>2. x \in Checkout
      BY <3>1 DEF Checkout
    <3>3. checkout' = [checkout EXCEPT ![t] = x]
      BY <2>2
    <3> HIDE DEF x
    <3>4. /\ checkout' \in [Checkouts -> Checkout] /\ checkout'[t] = x
          /\ \A u \in Checkouts \ {t} : checkout'[u] = checkout[u]
      BY <1>0, <3>2, <3>3 DEF DraftsOK
    <3> QED
      BY <3>4 DEF x
  <2> QED
    BY <2>1, <2>2
<1>3. \A t \in Checkouts :
        /\ checkout[t] \in Checkout
        /\ checkout'[t].gen = checkout[t].gen /\ checkout'[t].room = checkout[t].room
        /\ checkout'[t].form = checkout[t].form /\ checkout'[t].entitled = checkout[t].entitled
        /\ \/ checkout'[t].state = checkout[t].state
           \/ /\ k = <<t, "return">> /\ checkout[t].state = "approved"
              /\ checkout'[t].state = "charged"
  BY <1>0, <1>2 DEF DraftsOK, Checkout
<1>4. Typed'
  BY <1>0, <1>1, <1>2 DEF Typed, SetupOK, EventOK, DraftsOK, OthersOK
<1>5. Kept
  BY <1>3 DEF Kept, Made, IsRegistered
<1>6. \A m \in Members : DraftOf(m)'
  <2>1. \A u \in Checkouts : Made(u)' => Made(u)
    BY <1>3 DEF Made
  <2> QED
    BY <1>0, <1>5, <2>1, DraftStays DEF EventInv
<1>7. ASSUME NEW m \in Members PROVE Once(m)'
  <2>0. Once(m)
    BY DEF EventInv
  <2>1. CASE c.stage = "save" /\ Who(k) = m /\ m \notin overlap'
    <3>1. /\ ~IsRegistered(m)
          /\ \A j \in Requests \ {k} : ~(Who(j) = m /\ call[j].stage = "save")
      BY <2>1
    <3>2. \A j \in Requests : call'[j].stage = "save" /\ Who(j) = m => j = k
      BY <1>1, <3>1 DEF Becomes
    <3>3. ~IsRegistered(m)'
      BY <3>1 DEF IsRegistered
    <3>4. \A j \in Requests : Who(j)' = Who(j)
      BY DEF Who
    <3>5. m \notin overlap
      BY <2>1
    <3> QED
      BY <2>0, <3>2, <3>3, <3>4, <3>5 DEF Once
  <2>2. CASE ~(c.stage = "save" /\ Who(k) = m /\ m \notin overlap')
    <3>1. \A j \in Requests : call'[j].stage = "save" =>
             call'[j] = call[j] \/ (Who(j) = m => m \in overlap')
      BY <1>1, <2>2 DEF Becomes
    <3> QED
      BY <1>0, <1>5, <2>0, <3>1, OnceStays
  <2> QED
    BY <2>1, <2>2
<1>8. \A t \in Checkouts : CheckoutOf(t)'
  <2> SUFFICES ASSUME NEW t \in Checkouts PROVE CheckoutOf(t)'
    OBVIOUS
  <2>1. <<t, "return">> \in Requests
    BY ConfirmationOf
  <2>2. /\ Active(<<t, "return">>) => Active(<<t, "return">>)'
        /\ <<t, "return">> = k => Active(<<t, "return">>)'
    BY <1>1, <2>1 DEF Becomes, Active
  <2>3. CASE Made(t)
    BY <1>0, <1>3, <1>5, <2>2, <2>3, CheckoutStays DEF EventInv
  <2>4. CASE ~Made(t)
    BY <1>3, <2>4 DEF CheckoutOf, Made
  <2> QED
    BY <2>3, <2>4
<1>9. \A j \in Requests : CallOf(j)'
  <2>1. CallOf(k)'
    <3>0. call'[k] = c
      BY <1>1 DEF Becomes
    <3> SUFFICES ASSUME ~IsFree(k) PROVE CallOf(k)'
      BY <3>0 DEF CallOf, IsFree
    <3>1. k[1] \in Checkouts /\ Who(k) \in Members
      BY <1>0, RequestOf
    <3> SUFFICES ASSUME NEW t \in Checkouts, t = k[1], NEW m \in Members, m = Who(k)
                 PROVE  CallOf(k)'
      BY <3>1
    <3>2. Made(t)' /\ checkout'[t].state # "failed" /\ checkout'[t].gen = checkout[t].gen
          /\ checkout'[t].form = checkout[t].form
      BY <1>5 DEF Kept
    <3>3. Only(t)' => Only(t)
      BY <1>5, OnlyStays
    <3>4. c.stage \in {"check", "save"} =>
            ChosenNext(t, m, checkout[t].gen, c.room)
      <4>1. c.stage \in {"check", "save"} => Chosen(t, m, checkout[t].gen, c.room)
        OBVIOUS
      <4> QED
        BY <1>5, <4>1, ChosenStays
    <3>5. Who(k)' = m /\ call'[k] = c
      BY <1>1 DEF Who, Becomes
    <3> QED
      BY <3>1, <3>2, <3>3, <3>4, <3>5 DEF CallOf, Chosen, ChosenNext, LastChosen, Who
  <2>2. ASSUME NEW j \in Requests \ {k} PROVE CallOf(j)'
    BY <1>0, <1>1, <1>5, CallStays DEF EventInv, Becomes
  <2> QED
    BY <2>1, <2>2
<1>10. \A i \in DOMAIN registered : RoomOf(i)'
  BY <1>0, <1>5, RoomStays DEF EventInv
<1> QED
  BY <1>4, <1>5, <1>6, <1>7, <1>8, <1>9, <1>10, OrderStays DEF EventInv

-----------------------------------------------------------------------------
(* Confirmations, step by step. *)

LEMMA ConfirmKeeps ==
  ASSUME EventInv, NEW t \in Checkouts, ConfirmPayment(t)
  PROVE  EventInv'
<1> DEFINE k == <<t, "return">>
<1>0. Typed /\ OthersOK
  BY Sorts DEF EventInv
<1>1. k \in Requests /\ ~IsFree(k) /\ k[1] = t
  BY ConfirmationOf
<1>2. /\ Made(t) /\ checkout[t].state # "failed"
      /\ UNCHANGED <<setup, event, registered, subscribed, draft, cancelled, expired,
                     overlap, changes, faults>>
  BY DEF ConfirmPayment, Made
<1>3. CASE Refuse(k) /\ UNCHANGED checkout
  BY <1>1, <1>2, <1>3, RefuseKeeps
<1>4. CASE /\ GoTo(k, "draft") /\ UNCHANGED refused
           /\ \/ checkout' = checkout
              \/ /\ checkout[t].state = "approved"
                 /\ checkout' = [checkout EXCEPT ![t].state = "charged"]
  <2> DEFINE c == [call[k] EXCEPT !.stage = "draft"]
  <2>1. c \in Call /\ c.stage = "draft" /\ call' = [call EXCEPT ![k] = c]
    BY <1>0, <1>1, <1>4, GoToEffect DEF Stages
  <2> HIDE DEF c
  <2>2. overlap' \in SUBSET Members /\ overlap \subseteq overlap'
    BY <1>0, <1>2 DEF OthersOK
  <2> HIDE DEF k
  <2>3. \/ checkout' = checkout
        \/ \E u \in Checkouts : /\ k = <<u, "return">> /\ checkout[u].state = "approved"
                                /\ checkout' = [checkout EXCEPT ![u].state = "charged"]
    BY <1>4 DEF k
  <2> QED
    BY <1>1, <1>2, <1>4, <2>1, <2>2, <2>3, GoOnKeeps
<1>5. \/ Refuse(k) /\ UNCHANGED checkout
      \/ /\ GoTo(k, "draft") /\ UNCHANGED refused
         /\ \/ checkout' = checkout
            \/ /\ checkout[t].state = "approved"
               /\ checkout' = [checkout EXCEPT ![t].state = "charged"]
  BY DEF ConfirmPayment, VerifyPaypal, VerifyPaystack
<1> QED
  BY <1>3, <1>4, <1>5

LEMMA WebhookKeeps ==
  ASSUME EventInv, NEW t \in Checkouts, Webhook(t)
  PROVE  EventInv'
<1> DEFINE k == <<t, "webhook">>
           c == [call[k] EXCEPT !.stage = "draft"]
<1>0. Typed /\ OthersOK
  BY Sorts DEF EventInv
<1>1. k \in Requests /\ ~IsFree(k) /\ k[1] = t
  BY ConfirmationOf
<1>2. /\ Made(t) /\ checkout[t].state # "failed" /\ GoTo(k, "draft")
      /\ UNCHANGED <<setup, event, registered, subscribed, draft, checkout, cancelled,
                     expired, refused, overlap, changes, faults>>
  BY DEF Webhook, VerifyPaystack, Made
<1>3. c \in Call /\ c.stage = "draft" /\ call' = [call EXCEPT ![k] = c]
  BY <1>0, <1>1, <1>2, GoToEffect DEF Stages
<1>4. overlap' \in SUBSET Members /\ overlap \subseteq overlap'
  BY <1>0, <1>2 DEF OthersOK
<1> HIDE DEF k, c
<1> QED
  BY <1>1, <1>2, <1>3, <1>4, GoOnKeeps

LEMMA FindDraftKeeps ==
  ASSUME EventInv, NEW k \in Requests, FindDraft(k)
  PROVE  EventInv'
<1>0. Typed /\ OthersOK /\ DraftsOK
  BY Sorts DEF EventInv
<1>1. /\ UNCHANGED <<setup, event, registered, subscribed, draft, checkout, cancelled,
                     expired, overlap, changes, faults>>
      /\ call[k].stage = "draft"
  BY DEF FindDraft
<1> DEFINE d == draft[Who(k)]
           c == [stage |-> "check", room |-> d.room, form |-> d.form]
<1>2. CASE Refuse(k)
  BY <1>1, <1>2, RefuseKeeps
<1>3. CASE /\ d.live /\ d.gen = checkout[k[1]].gen
           /\ call' = [call EXCEPT ![k] = c] /\ UNCHANGED refused
  <2>1. Who(k) \in Members /\ d \in Draft
    BY <1>0, RequestOf DEF DraftsOK
  <2>2. c \in Call /\ c.stage = "check" /\ c.room = d.room /\ c.form = d.form
    BY <2>1 DEF Call, Stages, Draft
  <2>3. overlap' \in SUBSET Members /\ overlap \subseteq overlap'
    BY <1>0, <1>1 DEF OthersOK
  <2>4. ~IsFree(k) =>
          /\ Made(k[1]) /\ checkout[k[1]].state # "failed"
          /\ Chosen(k[1], Who(k), checkout[k[1]].gen, d.room)
          /\ Only(k[1]) => d.form = checkout[k[1]].form
    <3> SUFFICES ASSUME ~IsFree(k), NEW t \in Checkouts, t = k[1], NEW m \in Members,
                        m = Who(k), m = setup.owner[t]
                 PROVE  /\ Made(t) /\ checkout[t].state # "failed"
                        /\ Chosen(t, m, checkout[t].gen, draft[m].room)
                        /\ Only(t) => draft[m].form = checkout[t].form
      BY <1>0, RequestOf
    <3>1. CallOf(k) /\ DraftOf(m) /\ CheckoutOf(t)
      BY DEF EventInv
    <3>2. Made(t) /\ checkout[t].state # "failed"
      BY <1>1, <3>1 DEF CallOf, Active
    <3>3. Chosen(t, m, draft[m].gen, draft[m].room)
      <4>1. PICK u \in Checkouts : Latest(m, draft[m].gen, draft[m].room, u)
        BY <1>3, <3>1 DEF DraftOf
      <4>2. t <= u
        BY <1>3, <3>2, <4>1 DEF Latest
      <4> QED
        BY <4>1, <4>2 DEF Latest, Chosen
    <3> QED
      BY <1>3, <3>1, <3>2, <3>3 DEF CheckoutOf
  <2> HIDE DEF c
  <2> QED
    BY <1>1, <1>3, <2>2, <2>3, <2>4, GoOnKeeps
<1> QED
  BY <1>2, <1>3 DEF FindDraft

LEMMA RegisterFreeKeeps ==
  ASSUME EventInv, NEW m \in Members, NEW room \in RoomsOnOffer, RegisterFree(m, room)
  PROVE  EventInv'
<1> DEFINE k == <<m, "free">>
           c == [stage |-> "check", room |-> room, form |-> event.form]
<1>1. k \in Requests /\ IsFree(k)
  BY FreeRequestOf
<1>2. c \in Call /\ c.stage = "check"
  BY Sorts DEF EventInv, EventOK, Event, Call, Stages, RoomsOnOffer, Rooms
<1>3. /\ UNCHANGED <<setup, event, registered, subscribed, draft, checkout, cancelled,
                     expired, refused, overlap, changes, faults>>
      /\ call' = [call EXCEPT ![k] = c]
  BY DEF RegisterFree
<1>4. overlap' \in SUBSET Members /\ overlap \subseteq overlap'
  BY <1>3, Sorts DEF OthersOK, EventInv
<1> HIDE DEF k, c
<1> QED
  BY <1>1, <1>2, <1>3, <1>4, GoOnKeeps

LEMMA CheckKeeps ==
  ASSUME EventInv, NEW k \in Requests, CheckRegistration(k)
  PROVE  EventInv'
<1>0. Typed /\ OthersOK
  BY Sorts DEF EventInv
<1>1. /\ UNCHANGED <<setup, event, registered, subscribed, draft, checkout, cancelled,
                     expired, changes, faults>>
      /\ call[k].stage = "check"
  BY DEF CheckRegistration
<1>2. CASE Refuse(k) /\ UNCHANGED overlap
  BY <1>1, <1>2, RefuseKeeps
<1> DEFINE new == {m \in {Who(k)} : \E j \in Requests \ {k} :
                                       Who(j) = m /\ call[j].stage = "save"}
           c == [call[k] EXCEPT !.stage = "save"]
<1>3. CASE /\ MayRegister(k) /\ GoTo(k, "save") /\ UNCHANGED refused
           /\ overlap' = overlap \cup new
  <2>1. /\ c \in Call /\ c.stage = "save" /\ call' = [call EXCEPT ![k] = c]
        /\ c.room = call[k].room /\ c.form = call[k].form
    BY <1>0, <1>3, GoToEffect DEF Stages
  <2>2. overlap' \in SUBSET Members /\ overlap \subseteq overlap'
    BY <1>0, <1>3, RequestOf DEF OthersOK
  <2>3. \/ Who(k) \in overlap'
        \/ /\ ~IsRegistered(Who(k))
           /\ \A j \in Requests \ {k} : ~(Who(j) = Who(k) /\ call[j].stage = "save")
    BY <1>3 DEF MayRegister
  <2>4. ~IsFree(k) =>
          /\ Made(k[1]) /\ checkout[k[1]].state # "failed"
          /\ Chosen(k[1], Who(k), checkout[k[1]].gen, call[k].room)
          /\ Only(k[1]) => call[k].form = checkout[k[1]].form
    BY <1>1 DEF EventInv, CallOf, Active
  <2> HIDE DEF c
  <2> QED
    BY <1>1, <1>3, <2>1, <2>2, <2>3, <2>4, GoOnKeeps
<1> QED
  BY <1>2, <1>3 DEF CheckRegistration

LEMMA AddedAt ==
  ASSUME NEW D, NEW s \in Seq(D), NEW x \in D
  PROVE  /\ Append(s, x) \in Seq(D)
         /\ Len(s) \in Nat /\ DOMAIN s = 1..Len(s)
         /\ DOMAIN Append(s, x) = 1..(Len(s) + 1)
         /\ Append(s, x)[Len(s) + 1] = x
         /\ \A i \in 1..Len(s) : Append(s, x)[i] = s[i]
  OBVIOUS

\* The registration is saved: it is the last of the list.
LEMMA SavedKeeps ==
  ASSUME EventInv, NEW k \in Requests, call[k].stage = "save",
         NEW x \in Registration, x.user = Who(k),
         IF IsFree(k) THEN x.reference = 0
                      ELSE x.reference = k[1] /\ x.room = call[k].room,
         registered' = Append(registered, x),
         NEW c \in Call, call' = [call EXCEPT ![k] = c],
         c.stage = IF IsFree(k) THEN "idle" ELSE "clean",
         UNCHANGED <<setup, event, subscribed, draft, checkout, cancelled, expired,
                     refused, overlap, changes, faults>>
  PROVE  EventInv'
<1>0. Typed /\ SetupOK /\ EventOK /\ DraftsOK /\ CallsOK /\ OthersOK
  BY Sorts DEF EventInv
<1>1. CallsOK' /\ Becomes(k, c)
  BY <1>0, CallStep
<1> DEFINE n == Len(registered) + 1
<1>2. /\ registered' \in Seq(Registration) /\ Len(registered) \in Nat
      /\ DOMAIN registered = 1..Len(registered)
      /\ DOMAIN registered' = 1..n /\ registered'[n] = x
      /\ \A i \in DOMAIN registered : registered'[i] = registered[i]
  BY <1>0, AddedAt DEF EventOK
<1>3. /\ \A i \in DOMAIN registered' : i \in DOMAIN registered \/ i = n
      /\ \A i \in DOMAIN registered : i \in DOMAIN registered' /\ i # n
      /\ n \in DOMAIN registered'
  BY <1>2
<1> HIDE DEF n
<1>4. Typed'
  BY <1>0, <1>1, <1>2 DEF Typed, SetupOK, EventOK, DraftsOK, OthersOK
<1>5. /\ \A m \in Members : IsRegistered(m) => IsRegistered(m)'
      /\ \A m \in Members : m # Who(k) /\ IsRegistered(m)' => IsRegistered(m)
      /\ \E i \in DOMAIN registered' : registered'[i].user = Who(k)
  BY <1>2, <1>3 DEF IsRegistered
<1>6. Kept
  BY <1>5 DEF Kept, Made
<1>7. \A m \in Members : DraftOf(m)'
  BY <1>0, <1>6, DraftStays DEF EventInv
<1>8. ASSUME NEW m \in Members PROVE Once(m)'
  <2> SUFFICES ASSUME m \notin overlap PROVE Once(m)'
    BY DEF Once
  <2>1. /\ \A i, j \in DOMAIN registered :
             registered[i].user = m /\ registered[j].user = m => i = j
        /\ \A j \in Requests : call[j].stage = "save" /\ Who(j) = m => ~IsRegistered(m)
        /\ \A i, j \in Requests :
             /\ call[i].stage = "save" /\ call[j].stage = "save"
             /\ Who(i) = m /\ Who(j) = m
             => i = j
    BY DEF EventInv, Once
  <2>2. \A j \in Requests : Who(j)' = Who(j)
    BY DEF Who
  <2>3. \A j \in Requests : call'[j].stage = "save" => j # k /\ call[j].stage = "save"
    BY <1>1 DEF Becomes
  <2>4. \A i, j \in DOMAIN registered' :
          registered'[i].user = m /\ registered'[j].user = m => i = j
    <3>1. CASE m = Who(k)
      <4>1. \A i \in DOMAIN registered : registered'[i].user # m
        BY <1>2, <2>1, <3>1 DEF IsRegistered
      <4> QED
        BY <1>3, <4>1
    <3>2. CASE m # Who(k)
      <4>1. registered'[n].user # m
        BY <1>2, <3>2
      <4> QED
        BY <1>2, <1>3, <2>1, <4>1
    <3> QED
      BY <3>1, <3>2
  <2>5. \A j \in Requests : call'[j].stage = "save" /\ Who(j) = m => ~IsRegistered(m)'
    BY <1>5, <2>1, <2>3
  <2> QED
    BY <2>1, <2>2, <2>3, <2>4, <2>5 DEF Once
<1>9. \A t \in Checkouts : CheckoutOf(t)'
  <2> SUFFICES ASSUME NEW t \in Checkouts, Made(t) PROVE CheckoutOf(t)'
    BY DEF CheckoutOf, Made
  <2>1. <<t, "return">> \in Requests /\ ~IsFree(<<t, "return">>)
    BY ConfirmationOf
  <2>2. Active(<<t, "return">>) => Active(<<t, "return">>)'
    BY <1>1, <2>1 DEF Becomes, Active
  <2> QED
    BY <1>0, <1>6, <2>2, CheckoutStays DEF EventInv
<1>10. \A j \in Requests : CallOf(j)'
  <2>1. CallOf(k)'
    <3>1. call'[k] = c
      BY <1>1 DEF Becomes
    <3>2. CASE IsFree(k)
      BY <3>1, <3>2 DEF CallOf, Active, IsFree
    <3>3. CASE ~IsFree(k)
      BY <1>5, <3>1, <3>3 DEF CallOf, Active, IsFree, Who, IsRegistered, EventInv, Made
    <3> QED
      BY <3>2, <3>3
  <2>2. ASSUME NEW j \in Requests \ {k} PROVE CallOf(j)'
    BY <1>0, <1>1, <1>6, CallStays DEF EventInv, Becomes
  <2> QED
    BY <2>1, <2>2
<1>11. ASSUME NEW i \in DOMAIN registered' PROVE RoomOf(i)'
  <2>1. CASE i \in DOMAIN registered
    BY <1>0, <1>2, <1>6, <2>1, RoomStays DEF EventInv
  <2>2. CASE i = n /\ IsFree(k)
    BY <1>2, <2>2 DEF RoomOf
  <2>3. CASE i = n /\ ~IsFree(k)
    <3>1. Made(k[1]) /\ Chosen(k[1], Who(k), checkout[k[1]].gen, call[k].room)
      BY <2>3 DEF EventInv, CallOf, Active
    <3>2. registered'[i] = x /\ x.reference = k[1] /\ x.room = call[k].room
      BY <1>2, <2>3
    <3> QED
      BY <3>1, <3>2 DEF RoomOf, Made, Chosen, LastChosen, Chose
  <2> QED
    BY <1>3, <2>1, <2>2, <2>3
<1> QED
  BY <1>4, <1>6, <1>7, <1>8, <1>9, <1>10, <1>11, OrderStays DEF EventInv

LEMMA SaveKeeps ==
  ASSUME EventInv, NEW k \in Requests, SaveRegistration(k)
  PROVE  EventInv'
<1>0. Typed /\ EventOK /\ CallsOK
  BY Sorts DEF EventInv
<1>1. /\ UNCHANGED <<setup, event, subscribed, draft, checkout, cancelled, expired,
                     overlap, changes, faults>>
      /\ call[k].stage = "save"
  BY DEF SaveRegistration
<1>2. CASE Refuse(k) /\ UNCHANGED registered
  BY <1>1, <1>2, RefuseKeeps
<1> DEFINE x == [user |-> Who(k), reference |-> IF IsFree(k) THEN 0 ELSE k[1],
                 room |-> call[k].room, period |-> CurrentPeriod]
           c == IF IsFree(k) THEN Idle ELSE [call[k] EXCEPT !.stage = "clean"]
<1>3. CASE /\ registered' = Append(registered, x) /\ UNCHANGED refused
           /\ call' = [call EXCEPT ![k] = c]
  <2>1. call[k] \in Call /\ CurrentPeriod \in Periods
    BY <1>0 DEF CallsOK, EventOK, Event, CurrentPeriod, Periods
  <2>2. x \in Registration
    BY <1>0, <2>1, RequestOf DEF Registration, Call
  <2>3. c \in Call /\ c.stage = IF IsFree(k) THEN "idle" ELSE "clean"
    BY <2>1, IdleIsCall DEF Call, Stages
  <2>4. /\ x.user = Who(k)
        /\ IF IsFree(k) THEN x.reference = 0
                        ELSE x.reference = k[1] /\ x.room = call[k].room
    OBVIOUS
  <2> HIDE DEF x, c
  <2> QED
    BY <1>1, <1>3, <2>2, <2>3, <2>4, SavedKeeps
<1> QED
  BY <1>2, <1>3 DEF SaveRegistration

-----------------------------------------------------------------------------
(* Drafts end, by a confirmation that used them or after two hours. *)

LEMMA DraftGoneKeeps ==
  ASSUME EventInv, NEW m \in Members, NEW b \in BOOLEAN, b => draft[m].live,
         draft' = [draft EXCEPT ![m] = [draft[m] EXCEPT !.live = b]],
         UNCHANGED <<setup, event, registered, subscribed, checkout, cancelled, refused,
                     overlap, faults>>,
         changes' \in 0..MaxChanges, expired' \in SUBSET Checkouts, expired \subseteq expired',
         \/ IsRegistered(m)
         \/ \A t \in Checkouts :
               setup.owner[t] = m /\ checkout[t].gen = draft[m].gen => t \in expired',
         \/ call' = call
         \/ \E k \in Requests : /\ call[k].stage = "clean"
                                /\ call' = [call EXCEPT ![k] = Idle]
  PROVE  EventInv'
<1>0. Typed /\ SetupOK /\ EventOK /\ DraftsOK /\ CallsOK /\ OthersOK
  BY Sorts DEF EventInv
<1> DEFINE d == [draft[m] EXCEPT !.live = b]
<1>1. /\ d \in Draft /\ (d.live => draft[m].live) /\ d.gen = draft[m].gen
      /\ d.room = draft[m].room /\ d.form = draft[m].form
  BY <1>0 DEF DraftsOK, Draft
<1> HIDE DEF d
<1>2. DraftsOK' /\ draft'[m] = d /\ \A p \in Members \ {m} : draft'[p] = draft[p]
  <2>1. draft' = [draft EXCEPT ![m] = d]
    BY DEF d
  <2> QED
    BY <1>0, <1>1, <2>1 DEF DraftsOK
<1>3. /\ CallsOK'
      /\ \A k \in Requests : \/ call'[k] = call[k]
                             \/ call'[k] = Idle /\ call[k].stage = "clean"
  <2>1. CASE call' = call
    BY <1>0, <2>1 DEF CallsOK
  <2>2. ASSUME NEW k \in Requests, call[k].stage = "clean", call' = [call EXCEPT ![k] = Idle]
        PROVE  CallsOK' /\ Becomes(k, Idle)
    BY <1>0, <2>2, IdleIsCall, CallStep
  <2> QED
    BY <2>1, <2>2 DEF Becomes
<1>4. Typed'
  BY <1>0, <1>2, <1>3 DEF Typed, SetupOK, EventOK, OthersOK
<1>5. Kept
  BY <1>0, KeptSame
<1>6. \A p \in Members : DraftOf(p)'
  BY <1>0, <1>1, <1>2, <1>5, DraftStays DEF EventInv
<1>7. \A p \in Members : Once(p)'
  BY <1>0, <1>3, <1>5, IdleIsCall, OnceStays DEF EventInv
<1>8. ASSUME NEW t \in Checkouts, Made(t) PROVE CheckoutOf(t)'
  <2>0. setup.owner[t] \in Members
    BY <1>0 DEF SetupOK
  <2>1. draft'[setup.owner[t]].form = draft[setup.owner[t]].form
    BY <1>1, <1>2, <2>0
  <2>2. draft[setup.owner[t]].live =>
           \/ /\ draft'[setup.owner[t]].live
              /\ draft'[setup.owner[t]].gen = draft[setup.owner[t]].gen
           \/ draft[setup.owner[t]].gen # checkout[t].gen
           \/ t \in expired' \/ IsRegistered(setup.owner[t])
    BY <1>1, <1>2, <2>0
  <2>3. \/ Active(<<t, "return">>) => Active(<<t, "return">>)'
        \/ IsRegistered(setup.owner[t])
    <3> DEFINE k == <<t, "return">>
    <3>1. k \in Requests /\ k[1] = t /\ ~IsFree(k)
      BY ConfirmationOf
    <3>2. Who(k) = setup.owner[t]
      BY <3>1 DEF Who
    <3>3. call[k].stage = "clean" => IsRegistered(setup.owner[t])
      BY <3>1, <3>2 DEF EventInv, CallOf
    <3> HIDE DEF k
    <3>4. (Active(k) => Active(k)') \/ IsRegistered(setup.owner[t])
      BY <1>3, <3>1, <3>3 DEF Active
    <3> QED
      BY <3>4 DEF k
  <2>4. CheckoutOf(t)
    BY DEF EventInv
  <2> QED
    BY <1>0, <1>5, <1>8, <2>1, <2>2, <2>3, <2>4, CheckoutStays
<1>9. \A j \in Requests : CallOf(j)'
  <2> SUFFICES ASSUME NEW j \in Requests PROVE CallOf(j)'
    OBVIOUS
  <2>1. CASE call'[j] = call[j]
    BY <1>0, <1>5, <2>1, CallStays DEF EventInv
  <2>2. CASE call'[j] = Idle
    BY <2>2, IdleIsCall DEF CallOf, Active
  <2> QED
    BY <1>3, <2>1, <2>2
<1>10. \A i \in DOMAIN registered : RoomOf(i)'
  BY <1>0, <1>5, RoomStays DEF EventInv
<1>11. \A t \in Checkouts : CheckoutOf(t)'
  BY <1>8 DEF CheckoutOf, Made
<1> QED
  BY <1>4, <1>5, <1>6, <1>7, <1>9, <1>10, <1>11, OrderStays DEF EventInv

LEMMA DeleteKeeps ==
  ASSUME EventInv, NEW k \in Requests, DeleteDraft(k)
  PROVE  EventInv'
<1>0. Typed /\ DraftsOK /\ OthersOK
  BY Sorts DEF EventInv
<1>1. call[k].stage = "clean" /\ IsRegistered(Who(k)) /\ Who(k) \in Members
  BY <1>0, RequestOf DEF EventInv, CallOf, DeleteDraft
<1> SUFFICES ASSUME NEW m \in Members, m = Who(k) PROVE EventInv'
  BY <1>1
<1> DEFINE b == draft[m].live /\ draft[m].gen # checkout[k[1]].gen
<1>2. b \in BOOLEAN /\ (b => draft[m].live)
  BY <1>0 DEF DraftsOK, Draft
<1>3. draft' = [draft EXCEPT ![m] = [draft[m] EXCEPT !.live = b]]
  BY DEF DeleteDraft
<1>4. /\ UNCHANGED <<setup, event, registered, subscribed, checkout, cancelled, expired,
                     refused, overlap, changes, faults>>
      /\ call' = [call EXCEPT ![k] = Idle]
  BY DEF DeleteDraft
<1>5. changes' \in 0..MaxChanges /\ expired' \in SUBSET Checkouts /\ expired \subseteq expired'
  BY <1>0, <1>4 DEF OthersOK
<1> HIDE DEF b
<1> QED
  BY <1>1, <1>2, <1>3, <1>4, <1>5, DraftGoneKeeps

LEMMA ChangeEffect ==
  ASSUME Typed, Change
  PROVE  changes' \in 0..MaxChanges
  BY Sorts, EventAssumption DEF Change, OthersOK

LEMMA ExpireKeeps ==
  ASSUME EventInv, NEW m \in Members, ExpireDraft(m)
  PROVE  EventInv'
<1>0. Typed /\ DraftsOK /\ OthersOK
  BY Sorts DEF EventInv
<1>1. draft' = [draft EXCEPT ![m] = [draft[m] EXCEPT !.live = FALSE]]
  BY DEF ExpireDraft
<1>2. /\ UNCHANGED <<setup, event, registered, subscribed, checkout, call, cancelled,
                     refused, overlap, faults>>
      /\ changes' \in 0..MaxChanges
  BY <1>0, ChangeEffect DEF ExpireDraft
<1>3. /\ expired' \in SUBSET Checkouts /\ expired \subseteq expired'
      /\ \A t \in Checkouts :
            setup.owner[t] = m /\ checkout[t].gen = draft[m].gen => t \in expired'
  BY <1>0 DEF ExpireDraft, OthersOK
<1> QED
  BY <1>1, <1>2, <1>3, DraftGoneKeeps

-----------------------------------------------------------------------------
(* Meanwhile, with the event and the subscriptions. *)

LEMMA OtherKeeps ==
  ASSUME EventInv, event' \in Event, subscribed' \in SUBSET Members,
         changes' \in 0..MaxChanges,
         UNCHANGED <<setup, registered, draft, checkout, call, cancelled, expired, refused,
                     overlap, faults>>
  PROVE  EventInv'
<1>0. Typed /\ SetupOK /\ EventOK /\ DraftsOK /\ CallsOK /\ OthersOK
  BY Sorts DEF EventInv
<1>1. Typed'
  BY <1>0 DEF Typed, SetupOK, EventOK, DraftsOK, CallsOK, OthersOK
<1>2. Kept
  BY <1>0, KeptSame
<1>3. \A m \in Members : Once(m)' /\ DraftOf(m)'
  BY <1>0, <1>2, OnceStays, DraftStays DEF EventInv
<1>4. ASSUME NEW t \in Checkouts, Made(t) PROVE CheckoutOf(t)'
  BY <1>0, <1>2, <1>4, CheckoutStays DEF EventInv, Active
<1>5. \A t \in Checkouts : CheckoutOf(t)'
  BY <1>4 DEF CheckoutOf, Made
<1>6. \A j \in Requests : CallOf(j)'
  BY <1>0, <1>2, CallStays DEF EventInv
<1>7. \A i \in DOMAIN registered : RoomOf(i)'
  BY <1>0, <1>2, RoomStays DEF EventInv
<1> QED
  BY <1>1, <1>2, <1>3, <1>5, <1>6, <1>7, OrderStays DEF EventInv

LEMMA MeanwhileKeeps ==
  ASSUME EventInv,
         \/ ClosePeriod \/ UpdateOne \/ RemoveOne
         \/ \E m \in Members : Subscription(m)
  PROVE  EventInv'
<1>0. Typed /\ EventOK /\ changes' \in 0..MaxChanges
  BY Sorts, ChangeEffect DEF EventInv, ClosePeriod, UpdateOne, RemoveOne, Subscription
<1>1. event' \in Event
  <2>1. CASE ClosePeriod
    BY <1>0, <2>1 DEF ClosePeriod, EventOK, Event, Later, Periods
  <2>2. CASE UpdateOne
    BY <1>0, <2>2 DEF UpdateOne, EventOK, Event, Periods
  <2>3. CASE RemoveOne
    BY <1>0, <2>3 DEF RemoveOne, EventOK, Event
  <2>4. CASE \E m \in Members : Subscription(m)
    BY <1>0, <2>4 DEF Subscription, EventOK
  <2> QED
    BY <2>1, <2>2, <2>3, <2>4
<1>2. subscribed' \in SUBSET Members
  BY <1>0 DEF ClosePeriod, UpdateOne, RemoveOne, Subscription, EventOK
<1>3. UNCHANGED <<setup, registered, draft, checkout, call, cancelled, expired, refused,
                  overlap, faults>>
  BY DEF ClosePeriod, UpdateOne, RemoveOne, Subscription
<1> QED
  BY <1>0, <1>1, <1>2, <1>3, OtherKeeps

-----------------------------------------------------------------------------
(* A checkout is made and paid. *)

LEMMA CheckoutMade ==
  ASSUME Typed, NEW t \in Checkouts, NEW c \in Checkout,
         checkout' = [checkout EXCEPT ![t] = c]
  PROVE  /\ checkout' \in [Checkouts -> Checkout] /\ checkout'[t] = c
         /\ \A u \in Checkouts \ {t} : checkout'[u] = checkout[u]
  BY Sorts DEF DraftsOK

\* The room chosen with the new checkout is the last one; without one that of the draft
\* it shares stays the last.
LEMMA MadeDraft ==
  ASSUME Typed, InOrder, Kept, NEW t \in Checkouts, ~Made(t), NEW m \in Members,
         m = setup.owner[t], DraftOf(m), NEW c \in Checkout, NEW d \in Draft,
         checkout'[t] = c, \A u \in Checkouts \ {t} : checkout'[u] = checkout[u],
         draft'[m] = d, d.gen = c.gen, Made(t)',
         d.gen = IF draft[m].live THEN draft[m].gen ELSE draft[m].gen + 1,
         d.room = IF c.room = "none" /\ draft[m].live THEN draft[m].room ELSE c.room
  PROVE  DraftOf(m)'
<1>1. /\ setup' = setup /\ \A u \in Checkouts : u < t <=> Made(u)
      /\ \A u \in Checkouts : u # t => (Made(u)' <=> Made(u))
  BY DEF Kept, Made
<1>2. draft[m].gen \in Nat /\ d.gen \in Nat /\ Checkouts \subseteq Nat
  BY Sorts, EventAssumption DEF DraftsOK, Draft
<1>3. ASSUME NEW u \in Checkouts, Made(u)', setup'.owner[u] = m
      PROVE  checkout'[u].gen <= d.gen
  <2>1. CASE u = t
    <3>1. checkout'[u] = c
      BY <2>1
    <3>2. d.gen <= d.gen
      BY <1>2
    <3> QED
      BY <3>1, <3>2
  <2>2. CASE u # t
    <3>1. Made(u) /\ setup.owner[u] = m /\ checkout'[u] = checkout[u]
      BY <1>1, <1>3, <2>2
    <3>2. checkout[u].gen <= draft[m].gen
      BY <3>1 DEF DraftOf
    <3>3. checkout[u].gen \in Nat
      BY Sorts DEF DraftsOK, Checkout
    <3> QED
      BY <1>2, <2>2, <3>1, <3>2, <3>3
  <2> QED
    BY <2>1, <2>2
<1>4. \A u \in Checkouts : Made(u)' => u <= t
  BY <1>1, <1>2
<1> DEFINE mine == {u \in Checkouts : /\ Made(u) /\ checkout[u].room # "none"
                                     /\ setup.owner[u] = m /\ checkout[u].gen = d.gen}
<1>5. Chose(t)' = mine \cup (IF c.room = "none" THEN {} ELSE {t})
  <2>0. /\ setup'.owner = setup.owner /\ checkout'[t].gen = d.gen
        /\ checkout'[t].state # "none" /\ checkout'[t].room = c.room /\ t <= t
    BY <1>1, <1>2 DEF Made
  <2>1. ASSUME NEW u \in Checkouts \ {t} PROVE u \in Chose(t)' <=> u \in mine
    <3>1. checkout'[u] = checkout[u] /\ (Made(u) => u <= t)
      BY <1>1, <1>2
    <3> QED
      BY <2>0, <3>1 DEF Chose, Made
  <2>2. t \in Chose(t)' <=> c.room # "none"
    BY <2>0 DEF Chose
  <2>3. t \notin mine /\ \A u : u \in Chose(t)' => u \in Checkouts
    BY DEF Chose
  <2> QED
    BY <2>1, <2>2, <2>3
<1>6. LastChosen(t, d.room)'
  <2>1. CASE c.room # "none"
    <3>1. t \in Chose(t)' /\ \A v \in Chose(t)' : v <= t
      BY <1>1, <1>2, <1>5, <2>1
    <3> QED
      BY <2>1, <3>1 DEF LastChosen
  <2>2. CASE c.room = "none" /\ ~draft[m].live
    <3>1. \A u \in Checkouts : Made(u) /\ setup.owner[u] = m => checkout[u].gen # d.gen
      <4>1. \A u \in Checkouts : checkout[u].gen \in Nat
        BY Sorts DEF DraftsOK, Checkout
      <4> QED
        BY <1>2, <2>2, <4>1 DEF DraftOf
    <3>2. Chose(t)' = {}
      BY <1>5, <2>2, <3>1
    <3> QED
      BY <2>2, <3>2 DEF LastChosen
  <2>3. CASE c.room = "none" /\ draft[m].live
    <3>1. PICK w \in Checkouts : Latest(m, draft[m].gen, draft[m].room, w)
      BY <2>3 DEF DraftOf
    <3>2. Chose(w) = mine
      BY <2>3, <3>1 DEF Chose, Latest, Made
    <3>3. Chose(t)' = mine
      BY <1>5, <2>3
    <3>4. \A u \in mine : checkout'[u].room = checkout[u].room
      OBVIOUS
    <3> HIDE DEF mine
    <3> QED
      BY <2>3, <3>1, <3>2, <3>3, <3>4 DEF Latest, LastChosen
  <2> QED
    BY <2>1, <2>2, <2>3
<1>7. \E u \in Checkouts : Latest(m, draft[m].gen, draft[m].room, u)'
  BY <1>1, <1>4, <1>6 DEF Latest, LastChosen
<1> QED
  BY <1>3, <1>7 DEF DraftOf

\* The draft says what the new checkout says, and any other checkout of the member is
\* no longer the only one.
LEMMA MadeKeeps ==
  ASSUME EventInv, NEW t \in Checkouts, ~Made(t), \A u \in Checkouts : u < t => Made(u),
         NEW m \in Members, m = setup.owner[t],
         NEW c \in Checkout, c.state \in {"open", "failed"}, c.entitled,
         checkout' = [checkout EXCEPT ![t] = c],
         NEW d \in Draft, d.live, d.gen = c.gen, d.form = c.form,
         d.gen = IF draft[m].live THEN draft[m].gen ELSE draft[m].gen + 1,
         d.room = IF c.room = "none" /\ draft[m].live THEN draft[m].room ELSE c.room,
         draft' = [draft EXCEPT ![m] = d],
         cancelled' \in SUBSET Members,
         UNCHANGED <<setup, event, registered, subscribed, call, expired, refused,
                     overlap, changes, faults>>
  PROVE  EventInv'
<1>0. Typed /\ SetupOK /\ EventOK /\ DraftsOK /\ CallsOK /\ OthersOK
  BY Sorts DEF EventInv
<1>1. /\ checkout' \in [Checkouts -> Checkout] /\ checkout'[t] = c
      /\ \A u \in Checkouts \ {t} : checkout'[u] = checkout[u]
  BY <1>0, CheckoutMade
<1>2. /\ draft' \in [Members -> Draft] /\ draft'[m] = d
      /\ \A p \in Members \ {m} : draft'[p] = draft[p]
  BY <1>0 DEF DraftsOK
<1>3. Typed'
  BY <1>0, <1>1, <1>2 DEF Typed, SetupOK, EventOK, DraftsOK, CallsOK, OthersOK
<1>4. Kept
  <2>1. \A u \in Checkouts : u < t <=> Made(u)
    BY EventAssumption DEF EventInv, InOrder
  <2>2. \A u \in Checkouts : Made(u)' /\ ~Made(u) => u = t
    BY <1>1 DEF Made
  <2> QED
    BY <1>1, <2>1, <2>2 DEF Kept, Made, IsRegistered
<1>5. Made(t)' /\ setup'.owner[t] = m
  BY <1>1 DEF Made
<1>6. \A p \in Members : Once(p)'
  BY <1>0, <1>4, OnceStays DEF EventInv
<1>7. \A p \in Members : DraftOf(p)'
  <2>1. DraftOf(m)'
    BY <1>0, <1>1, <1>2, <1>4, <1>5, MadeDraft DEF EventInv
  <2>2. ASSUME NEW p \in Members \ {m} PROVE DraftOf(p)'
    <3>1. \A u \in Checkouts : setup.owner[u] = p /\ Made(u)' => Made(u)
      BY <1>1 DEF Made
    <3> QED
      BY <1>2, <1>4, <3>1, DraftStays DEF EventInv
  <2> QED
    BY <2>1, <2>2
<1>8. CheckoutOf(t)'
  BY <1>1, <1>2, <1>5 DEF CheckoutOf
<1>9. ASSUME NEW u \in Checkouts \ {t}, Made(u) PROVE CheckoutOf(u)'
  <2>0. CheckoutOf(u) /\ checkout'[u] = checkout[u] /\ setup.owner[u] \in Members
    BY <1>0, <1>1 DEF EventInv, SetupOK
  <2>1. CASE setup.owner[u] = m
    <3>1. ~Only(u)'
      BY <1>5, <2>1 DEF Only
    <3>2. /\ checkout[u].entitled
          /\ Via(u) = "paypal" /\ checkout[u].state = "charged" =>
               \/ Active(<<u, "return">>) \/ faults > 0 \/ u \in refused
               \/ IsRegistered(setup.owner[u])
      BY <1>9, <2>0 DEF CheckoutOf
    <3> QED
      BY <2>0, <3>1, <3>2 DEF CheckoutOf, Via, Active, IsRegistered
  <2>2. CASE setup.owner[u] # m
    BY <1>0, <1>2, <1>4, <1>9, <2>0, <2>2, CheckoutStays DEF Active
  <2> QED
    BY <2>1, <2>2
<1>10. \A u \in Checkouts : CheckoutOf(u)'
  <2>1. ASSUME NEW u \in Checkouts \ {t}, ~Made(u) PROVE CheckoutOf(u)'
    BY <1>1, <2>1 DEF CheckoutOf, Made
  <2> QED
    BY <1>8, <1>9, <2>1
<1>11. \A k \in Requests : CallOf(k)'
  BY <1>0, <1>4, CallStays DEF EventInv
<1>12. \A i \in DOMAIN registered : RoomOf(i)'
  BY <1>0, <1>4, RoomStays DEF EventInv
<1> QED
  BY <1>3, <1>4, <1>6, <1>7, <1>10, <1>11, <1>12, OrderStays DEF EventInv

LEMMA CheckoutRecord ==
  ASSUME NEW s \in {"open", "failed"}, NEW gen \in Nat, NEW room \in Rooms,
         NEW form \in {0, 1}, NEW e \in BOOLEAN
  PROVE  [state |-> s, gen |-> gen, room |-> room, form |-> form, entitled |-> e] \in Checkout
  BY DEF Checkout

LEMMA PayForEventKeeps ==
  ASSUME EventInv, NEW t \in Checkouts, NEW room \in RoomsOnOffer, PayForEvent(t, room)
  PROVE  EventInv'
<1>0. Typed /\ SetupOK /\ EventOK /\ DraftsOK /\ OthersOK
  BY Sorts DEF EventInv
<1>1. /\ setup.owner[t] \in Members /\ room \in Rooms /\ ~Made(t)
      /\ \A u \in Checkouts : u < t => Made(u)
  BY <1>0 DEF SetupOK, RoomsOnOffer, Rooms, PayForEvent, Made
<1> SUFFICES ASSUME NEW m \in Members, m = setup.owner[t] PROVE EventInv'
  BY <1>1
<1>e. PICK e \in BOOLEAN : e = Entitled(m) /\ e
  BY DEF PayForEvent, MayPay, Entitled
<1> DEFINE gen == IF draft[m].live THEN draft[m].gen ELSE draft[m].gen + 1
           kept == IF room = "none" /\ draft[m].live THEN draft[m].room ELSE room
           d == [live |-> TRUE, form |-> event.form, gen |-> gen, room |-> kept]
           made(s) == [state |-> s, gen |-> gen, room |-> room,
                       form |-> event.form, entitled |-> e]
<1>2. gen \in Nat /\ event.form \in {0, 1} /\ kept \in Rooms
  BY <1>0, <1>1 DEF DraftsOK, Draft, EventOK, Event
<1>3. d \in Draft
  BY <1>1, <1>2 DEF Draft
<1>4. draft' = [draft EXCEPT ![m] = d]
  BY DEF PayForEvent, UpsertDraft
<1>5. draft'[m].gen = gen
  BY <1>0, <1>4 DEF DraftsOK
<1>7. \E s \in {"open", "failed"} : checkout' = [checkout EXCEPT ![t] = made(s)]
  BY <1>5, <1>e DEF PayForEvent
<1>8. PICK s \in {"open", "failed"} : checkout' = [checkout EXCEPT ![t] = made(s)]
  BY <1>7
<1>9. made(s) \in Checkout
  BY <1>1, <1>2, CheckoutRecord
<1>10. cancelled' \in SUBSET Members
  <2>1. \A i \in DOMAIN registered : registered[i] \in Registration
    BY <1>0 DEF EventOK
  <2> QED
    BY <1>0, <2>1 DEF PayForEvent, NotifyCancelled, OthersOK, Registration
<1>11. UNCHANGED <<setup, event, registered, subscribed, call, expired, refused,
                   overlap, changes, faults>>
  BY DEF PayForEvent
<1>12. /\ made(s).state = s /\ made(s).entitled = e /\ made(s).gen = gen
       /\ made(s).room = room /\ made(s).form = event.form
       /\ d.live /\ d.room = kept /\ d.gen = gen /\ d.form = event.form
  OBVIOUS
<1>13. /\ d.gen = IF draft[m].live THEN draft[m].gen ELSE draft[m].gen + 1
       /\ d.room = IF made(s).room = "none" /\ draft[m].live THEN draft[m].room ELSE made(s).room
  OBVIOUS
<1> HIDE DEF gen, d, made, kept
<1> QED
  BY <1>1, <1>3, <1>4, <1>e, <1>8, <1>9, <1>10, <1>11, <1>12, <1>13, MadeKeeps

LEMMA PayKeeps ==
  ASSUME EventInv, NEW t \in Checkouts, Pay(t)
  PROVE  EventInv'
<1>0. Typed /\ SetupOK /\ EventOK /\ DraftsOK /\ CallsOK /\ OthersOK
  BY Sorts DEF EventInv
<1> DEFINE s == IF Via(t) = "paypal" THEN "approved" ELSE "charged"
           c == [checkout[t] EXCEPT !.state = s]
<1>1. /\ c \in Checkout /\ c.state = s /\ s \in {"approved", "charged"}
      /\ (s = "charged" => Via(t) # "paypal")
      /\ c.gen = checkout[t].gen /\ c.room = checkout[t].room
      /\ c.form = checkout[t].form /\ c.entitled = checkout[t].entitled
  BY <1>0 DEF DraftsOK, Checkout
<1>2. checkout' = [checkout EXCEPT ![t] = c] /\ checkout[t].state = "open"
  BY DEF Pay
<1>3. UNCHANGED <<setup, event, registered, subscribed, draft, call, cancelled, expired,
                  refused, overlap, changes, faults>>
  BY DEF Pay
<1> HIDE DEF s, c
<1>4. /\ checkout' \in [Checkouts -> Checkout] /\ checkout'[t] = c
      /\ \A u \in Checkouts \ {t} : checkout'[u] = checkout[u]
  BY <1>0, <1>1, <1>2, CheckoutMade
<1>5. Typed'
  BY <1>0, <1>3, <1>4 DEF Typed, SetupOK, EventOK, DraftsOK, CallsOK, OthersOK
<1>6. Kept
  BY <1>1, <1>2, <1>3, <1>4 DEF Kept, Made, IsRegistered
<1>7. \A m \in Members : Once(m)' /\ DraftOf(m)'
  <2>1. \A u \in Checkouts : Made(u)' => Made(u)
    BY <1>2, <1>4 DEF Made
  <2> QED
    BY <1>0, <1>3, <1>6, <2>1, OnceStays, DraftStays DEF EventInv
<1>8. ASSUME NEW u \in Checkouts, Made(u) PROVE CheckoutOf(u)'
  <2>1. Via(u) = "paypal" /\ checkout'[u].state = "charged" => checkout[u].state = "charged"
    BY <1>1, <1>2, <1>4
  <2>2. Active(<<u, "return">>) => Active(<<u, "return">>)'
    BY <1>3 DEF Active
  <2>3. setup.owner[u] \in Members
    BY <1>0 DEF SetupOK
  <2> QED
    BY <1>0, <1>3, <1>6, <1>8, <2>1, <2>2, <2>3, CheckoutStays DEF EventInv
<1>9. \A u \in Checkouts : CheckoutOf(u)'
  <2>1. ASSUME NEW u \in Checkouts, ~Made(u) PROVE CheckoutOf(u)'
    BY <1>2, <1>4, <2>1 DEF CheckoutOf, Made
  <2> QED
    BY <1>8, <2>1
<1>10. \A k \in Requests : CallOf(k)'
  BY <1>0, <1>3, <1>6, CallStays DEF EventInv
<1>11. \A i \in DOMAIN registered : RoomOf(i)'
  BY <1>0, <1>3, <1>6, RoomStays DEF EventInv
<1> QED
  BY <1>3, <1>5, <1>6, <1>7, <1>9, <1>10, <1>11, OrderStays DEF EventInv

-----------------------------------------------------------------------------
(* The theorems. *)

LEMMA EventStep ==
  ASSUME EventInv, [Next]_vars
  PROVE  EventInv'
<1>1. CASE UNCHANGED vars
  <2>1. Typed /\ EventOK /\ OthersOK
    BY Sorts DEF EventInv
  <2>2. UNCHANGED <<setup, event, registered, subscribed, draft, checkout, call, cancelled,
                    expired, refused, overlap, changes, faults>>
    BY <1>1 DEF vars
  <2> QED
    BY <2>1, <2>2, OtherKeeps DEF EventOK, OthersOK
<1>2. ASSUME NEW t \in Checkouts,
             \/ \E room \in RoomsOnOffer : PayForEvent(t, room)
             \/ Pay(t) \/ ConfirmPayment(t) \/ Webhook(t)
      PROVE  EventInv'
  BY <1>2, PayForEventKeeps, PayKeeps, ConfirmKeeps, WebhookKeeps
<1>3. ASSUME NEW k \in Requests, Confirm(k) \/ BreakOff(k)
      PROVE  EventInv'
  BY <1>3, FindDraftKeeps, CheckKeeps, SaveKeeps, DeleteKeeps, BreakOffKeeps DEF Confirm
<1>4. ASSUME NEW m \in Members,
             (\E room \in RoomsOnOffer : RegisterFree(m, room)) \/ ExpireDraft(m)
      PROVE  EventInv'
  BY <1>4, RegisterFreeKeeps, ExpireKeeps
<1>5. CASE ClosePeriod \/ UpdateOne \/ RemoveOne \/ \E m \in Members : Subscription(m)
  BY <1>5, MeanwhileKeeps
<1> QED
  BY <1>1, <1>2, <1>3, <1>4, <1>5 DEF Next

\* The inductive invariant holds in every reachable state: what a checkout says of the
\* draft, what a confirmation knows of its checkout, and what a registration was paid with.
THEOREM EventCorrect == Spec => []EventInv
<1>1. Init => EventInv
  BY InitEvents
<1>2. EventInv /\ [Next]_vars => EventInv'
  BY EventStep
<1> QED
  BY <1>1, <1>2, PTL DEF Spec

\* Every variable stays within its type.
THEOREM TypeCorrect == Spec => []TypeOK
<1>1. EventInv => TypeOK
  BY TypedIsTypeOK DEF EventInv
<1> QED
  BY <1>1, EventCorrect, PTL

LEMMA AtMostOne ==
  ASSUME NEW S, \A i, j \in S : i = j
  PROVE  Cardinality(S) <= 1
<1>1. CASE S = {}
  <2>1. Cardinality(S) = 0
    BY <1>1, FS_EmptySet
  <2> QED
    BY <2>1
<1>2. ASSUME NEW i \in S PROVE Cardinality(S) <= 1
  <2>1. S = {i}
    OBVIOUS
  <2>2. Cardinality(S) = 1
    BY <2>1, FS_Singleton
  <2> QED
    BY <2>2
<1> QED
  BY <1>1, <1>2

\* Whatever confirmations, webhooks and free registrations interleave, nobody is
\* registered twice but by two requests that both checked before either saved.
THEOREM MembersRegisteredOnce == Spec => []RegisteredOnce
<1>1. EventInv => RegisteredOnce
  <2> SUFFICES ASSUME EventInv, NEW m \in Members \ overlap
               PROVE  Cardinality({i \in DOMAIN registered : registered[i].user = m}) <= 1
    BY DEF RegisteredOnce
  <2> DEFINE Mine == {i \in DOMAIN registered : registered[i].user = m}
  <2>1. \A i, j \in Mine : i = j
    BY DEF EventInv, Once
  <2> HIDE DEF Mine
  <2>2. Cardinality(Mine) <= 1
    BY <2>1, AtMostOne
  <2> QED
    BY <2>2 DEF Mine
<1> QED
  BY <1>1, EventCorrect, PTL

\* A registration that names a payment has the room last chosen for the draft of that
\* payment, by then or in a later checkout, whichever drafts came and went meanwhile.
THEOREM RoomsAreChosen == Spec => []RoomIsChosen
<1>1. EventInv => RoomIsChosen
  BY DEF EventInv, RoomIsChosen, RoomOf, Chosen, Made
<1> QED
  BY <1>1, EventCorrect, PTL

LEMMA RefusedByVerifying ==
  ASSUME EventInv, NEW t \in Checkouts, ConfirmPayment(t), NEW u \in refused' \ refused
  PROVE  IsRegistered(setup.owner[u]) \/ ChangedSince(u)
<1> DEFINE k == <<t, "return">>
<1>1. k \in Requests /\ ~IsFree(k) /\ k[1] = t
  BY ConfirmationOf
<1>2. Refuse(k) /\ UNCHANGED checkout /\ Via(t) = "paypal" /\ ~Active(k)
  BY DEF ConfirmPayment, VerifyPaypal, VerifyPaystack, MayStart
<1>3. u = t /\ checkout[t].state = "charged" /\ u \notin refused
  <2> HIDE DEF k
  <2> QED
    BY <1>1, <1>2, RefuseEffect DEF EventInv
<1>4. CheckoutOf(t) /\ Made(t)
  BY <1>3 DEF EventInv, Made
<1> QED
  BY <1>2, <1>3, <1>4 DEF CheckoutOf, ChangedSince

\* The draft, the form and the entitlement of a member's only checkout still are what
\* they were, unless something has changed.
LEMMA RefusedLater ==
  ASSUME EventInv, NEW k \in Requests, Confirm(k), NEW t \in refused' \ refused
  PROVE  IsRegistered(setup.owner[t]) \/ ChangedSince(t)
<1>0. Typed
  BY DEF EventInv
<1>1. \/ /\ Refuse(k) /\ UNCHANGED checkout /\ call[k].stage = "draft"
         /\ ~(/\ event.exists /\ draft[Who(k)].live
              /\ draft[Who(k)].gen = checkout[k[1]].gen)
      \/ /\ Refuse(k) /\ UNCHANGED checkout /\ call[k].stage = "check"
         /\ ~MayRegister(k)
      \/ Refuse(k) /\ UNCHANGED checkout /\ call[k].stage = "save" /\ ~event.exists
  BY DEF Confirm, FindDraft, CheckRegistration, SaveRegistration, DeleteDraft
<1>2. t \in Checkouts /\ ~IsFree(k) /\ k[1] = t /\ checkout[t].state = "charged"
  BY <1>0, <1>1, RefuseEffect
<1>3. Who(k) = setup.owner[t]
  BY <1>2 DEF Who
<1> SUFFICES ASSUME Only(t), event.exists
             PROVE  IsRegistered(setup.owner[t]) \/ ChangedSince(t)
  BY <1>2 DEF ChangedSince, Only, Made
<1>4. Made(t) /\ CheckoutOf(t) /\ CallOf(k) /\ Active(k)
  BY <1>1, <1>2 DEF EventInv, Made, Active
<1>5. CASE ~(/\ event.exists /\ draft[Who(k)].live
             /\ draft[Who(k)].gen = checkout[k[1]].gen)
  BY <1>2, <1>3, <1>4, <1>5 DEF CheckoutOf, ChangedSince
<1>6. CASE call[k].stage = "check" /\ ~MayRegister(k)
  <2>1. call[k].form = checkout[t].form
    BY <1>2, <1>4, <1>6 DEF CallOf
  <2>2. checkout[t].entitled
    BY <1>4 DEF CheckoutOf
  <2> QED
    BY <1>2, <1>3, <1>6, <2>1, <2>2 DEF MayRegister, ResponsesPass, ChangedSince
<1> QED
  BY <1>1, <1>5, <1>6

\* A charged member who is not registered is refused only for what happened after the
\* checkout: whatever payForEvent takes money for, the confirmation would accept at once.
THEOREM RefusalsAreExplained == Spec => RefusedOnlyIfChanged
<1> DEFINE Explained ==
      \A t \in refused' \ refused : IsRegistered(setup.owner[t]) \/ ChangedSince(t)
<1>1. ASSUME EventInv, [Next]_vars PROVE [Explained]_vars
  <2>1. CASE UNCHANGED refused
    BY <2>1
  <2>2. ASSUME NEW t \in Checkouts, ConfirmPayment(t) PROVE Explained
    BY <1>1, <2>2, RefusedByVerifying
  <2>3. ASSUME NEW k \in Requests, Confirm(k) PROVE Explained
    BY <1>1, <2>3, RefusedLater
  <2>4. \/ UNCHANGED refused
        \/ \E t \in Checkouts : ConfirmPayment(t)
        \/ \E k \in Requests : Confirm(k)
    <3>1. CASE UNCHANGED vars
      BY <3>1 DEF vars
    <3>2. ASSUME NEW t \in Checkouts,
                 (\E room \in RoomsOnOffer : PayForEvent(t, room)) \/ Pay(t) \/ Webhook(t)
          PROVE  UNCHANGED refused
      BY <3>2 DEF PayForEvent, Pay, Webhook, VerifyPaystack
    <3>3. ASSUME NEW k \in Requests, BreakOff(k) PROVE UNCHANGED refused
      BY <3>3 DEF BreakOff
    <3>4. ASSUME NEW m \in Members,
                 \/ \E room \in RoomsOnOffer : RegisterFree(m, room)
                 \/ ExpireDraft(m) \/ Subscription(m)
          PROVE  UNCHANGED refused
      BY <3>4 DEF RegisterFree, ExpireDraft, Subscription
    <3>5. CASE ClosePeriod \/ UpdateOne \/ RemoveOne
      BY <3>5 DEF ClosePeriod, UpdateOne, RemoveOne
    <3> QED
      BY <1>1, <3>1, <3>2, <3>3, <3>4, <3>5 DEF Next
  <2> QED
    BY <2>1, <2>2, <2>3, <2>4
<1> QED
  BY <1>1, EventCorrect, PTL DEF Spec, RefusedOnlyIfChanged
=============================================================================

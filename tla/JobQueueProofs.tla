--------------------------- MODULE JobQueueProofs ---------------------------
(***************************************************************************)
(* Proofs about the two users of the job queue, for every finite set of    *)
(* handler calls, every set of jobs and any number of calls, tries,        *)
(* outages and faults: NotificationOutbox and BulkEmail, which put their   *)
(* entries and their logs into it.  Each theorem is about one of the two.  *)
(***************************************************************************)
EXTENDS NotificationOutbox, BulkEmail, FiniteSetTheorems, TLAPS

(* Type correctness, by groups of variables. *)

CallsOK ==
  /\ stage \in [Handlers -> Stages]
  /\ entry \in [Handlers -> Entries \union {NoJob}]
  /\ \A h \in Handlers : stage[h] # "idle" => entry[h] \in Entries
  /\ tries \in [Handlers -> Nat]

EntriesOK ==
  /\ status \in [Entries -> {"absent", "pending", "processing"} \union Settled]
  /\ attempts \in [Entries -> Nat]
  /\ due \in [Entries -> BOOLEAN]
  /\ stale \in [Entries -> BOOLEAN]
  /\ inbox \subseteq Entries

RecordsOK ==
  /\ failures \in [Entries -> Nat]
  /\ pushes \in [Entries -> Nat]
  /\ optedOut \subseteq Entries
  /\ overtaken \subseteq Entries
  /\ abandoned \subseteq Entries
  /\ calls \in 0 .. MaxNotify
  /\ outages \in 0 .. MaxOutages
  /\ faults \in 0 .. MaxFaults

LEMMA TypeParts == TypeOK <=> QueueTypeOK /\ CallsOK /\ EntriesOK /\ RecordsOK
  BY DEF TypeOK, CallsOK, EntriesOK, RecordsOK

\* What was not acknowledged is counted, and back in the queue.
LEMMA ConnectionKeepsQueueType ==
  ASSUME QueueTypeOK, ConnectionCloses \/ Reconnect
  PROVE  QueueTypeOK'
<1>1. CASE ConnectionCloses
  <2> DEFINE held(j) == Cardinality({g \in Handlers : unacked[g] = j})
  <2>1. ASSUME NEW j \in Jobs
        PROVE  held(j) \in Nat
    <3>1. IsFiniteSet({g \in Handlers : unacked[g] = j})
      BY QueueAssumption, FS_Subset
    <3> QED
      BY <3>1, FS_CardinalityType
  <2>2. ready' = [j \in Jobs |-> ready[j] + held(j)]
    BY <1>1 DEF ConnectionCloses
  <2>3. ready' \in [Jobs -> Nat]
    <3> HIDE DEF held
    <3> QED
      BY <2>1, <2>2 DEF QueueTypeOK
  <2> QED
    BY <1>1, <2>3 DEF ConnectionCloses, QueueTypeOK
<1>2. CASE Reconnect
  BY <1>2 DEF QueueTypeOK, Reconnect
<1> QED
  BY <1>1, <1>2

\* A handler call leaves the queue well typed, whatever it does with its job.
LEMMA QueueKeepsType ==
  ASSUME QueueTypeOK, NEW h \in Handlers,
         \/ \E j \in Jobs : Publish(j) \/ Receive(h, j)
         \/ Ack(h) \/ Nack(h) \/ Redeliver(h)
         \/ UNCHANGED queueVars
  PROVE  QueueTypeOK'
<1>1. CASE \E j \in Jobs : Publish(j) \/ Receive(h, j)
  BY <1>1 DEF QueueTypeOK, Publish, Receive
<1>2. CASE Ack(h) \/ Nack(h) \/ Redeliver(h)
  BY <1>2 DEF QueueTypeOK, Ack, Nack, Redeliver
<1>3. CASE UNCHANGED queueVars
  BY <1>3 DEF QueueTypeOK, queueVars
<1> QED
  BY <1>1, <1>2, <1>3

LEMMA BeginKeepsCalls ==
  ASSUME CallsOK, NEW h \in Handlers, NEW k \in Entries, NEW s \in Stages,
         Begin(h, k, s)
  PROVE  CallsOK'
  BY DEF CallsOK, Begin, Goto

LEMMA FinishKeepsCalls ==
  ASSUME CallsOK, NEW h \in Handlers, Finish(h)
  PROVE  CallsOK'
  BY DEF CallsOK, Finish, Goto, Stages

LEMMA GotoKeepsCalls ==
  ASSUME CallsOK, NEW h \in Handlers, NEW s \in Stages, stage[h] # "idle",
         Goto(h, s), UNCHANGED entry,
         tries' = tries \/ \E n \in Nat : tries' = [tries EXCEPT ![h] = n]
  PROVE  CallsOK'
  BY DEF CallsOK, Goto

\* Every step a call makes once it has begun.
LEMMA ProceedKeepsType ==
  ASSUME TypeOK, NEW h \in Handlers, Proceed(h)
  PROVE  TypeOK'
<1>0. QueueTypeOK /\ CallsOK /\ EntriesOK /\ RecordsOK
  BY TypeParts
<1>1. stage[h] # "idle" /\ entry[h] \in Entries /\ tries[h] \in Nat
  BY <1>0 DEF Proceed, PublishJob, ClaimEntry, CreateInApp, SendPush, DeliveryFails,
              SettleEntry, CountFailure, CallsOK
<1>2. entry[h] \in Jobs
  BY <1>1, OutboxAssumption
<1> SUFFICES QueueTypeOK' /\ CallsOK' /\ EntriesOK' /\ RecordsOK'
  BY DEF TypeOK, CallsOK, EntriesOK, RecordsOK
<1> USE <1>0, <1>1
<1>3. CASE PublishJob(h)
  <2>1. QueueTypeOK'
    BY <1>2, <1>3, QueueKeepsType DEF PublishJob, PublishLost, PublishRefused
  <2>2. CallsOK'
    BY <1>3, FinishKeepsCalls, GotoKeepsCalls DEF PublishJob, Stages
  <2> QED
    BY <1>3, <2>1, <2>2, OutboxAssumption
    DEF PublishJob, EntriesOK, RecordsOK, entryVars, historyVars
<1>4. CASE ClaimEntry(h)
  <2>1. QueueTypeOK'
    BY <1>4, QueueKeepsType DEF ClaimEntry
  <2>2. CallsOK'
    <3>1. attempts[entry[h]] \in Nat
      BY DEF EntriesOK
    <3> QED
      BY <1>4, <3>1, FinishKeepsCalls, GotoKeepsCalls DEF ClaimEntry, Stages, Working
  <2>3. EntriesOK'
    BY <1>4 DEF ClaimEntry, EntriesOK
  <2>4. RecordsOK'
    BY <1>4 DEF ClaimEntry, RecordsOK, boundVars
  <2> QED
    BY <2>1, <2>2, <2>3, <2>4
<1>5. CASE CreateInApp(h)
  <2>1. QueueTypeOK'
    BY <1>5, QueueKeepsType DEF CreateInApp
  <2>2. CallsOK'
    BY <1>5, GotoKeepsCalls DEF CreateInApp, Stages, Working
  <2> QED
    BY <1>5, <2>1, <2>2 DEF CreateInApp, EntriesOK, RecordsOK, entryVars, boundVars
<1>6. CASE SendPush(h)
  <2>1. QueueTypeOK'
    BY <1>6, QueueKeepsType DEF SendPush
  <2>2. CallsOK'
    BY <1>6, GotoKeepsCalls DEF SendPush, Stages, Working
  <2> QED
    BY <1>6, <2>1, <2>2 DEF SendPush, EntriesOK, RecordsOK, entryVars, boundVars
<1>7. CASE DeliveryFails(h)
  <2>1. QueueTypeOK'
    BY <1>7, QueueKeepsType DEF DeliveryFails
  <2>2. CallsOK'
    BY <1>7, GotoKeepsCalls DEF DeliveryFails, Stages, Working
  <2> QED
    BY <1>7, <2>1, <2>2 DEF DeliveryFails, EntriesOK, RecordsOK, entryVars, boundVars
<1>8. CASE SettleEntry(h)
  <2>1. QueueTypeOK'
    BY <1>8, QueueKeepsType DEF SettleEntry
  <2>2. CallsOK'
    BY <1>8, FinishKeepsCalls DEF SettleEntry
  <2> QED
    BY <1>8, <2>1, <2>2
    DEF SettleEntry, EntriesOK, RecordsOK, Settled, historyVars, boundVars
<1>9. CASE CountFailure(h)
  <2>1. QueueTypeOK'
    BY <1>9, QueueKeepsType DEF CountFailure
  <2>2. CallsOK'
    BY <1>9, FinishKeepsCalls DEF CountFailure
  <2> QED
    BY <1>9, <2>1, <2>2 DEF CountFailure, EntriesOK, RecordsOK, Settled, boundVars
<1> QED
  BY <1>3, <1>4, <1>5, <1>6, <1>7, <1>8, <1>9 DEF Proceed

\* Every variable keeps its type, and a busy call works on an entry.
THEOREM TypeCorrect == Spec => []TypeOK
<1>1. Init => TypeOK
  BY OutboxAssumption
  DEF Init, QueueInit, TypeOK, QueueTypeOK, Stages, Settled
<1>2. ASSUME TypeOK, [Next]_vars
      PROVE  TypeOK'
  <2>0. QueueTypeOK /\ CallsOK /\ EntriesOK /\ RecordsOK
    BY <1>2, TypeParts
  <2> USE <2>0
  <2>1. ASSUME NEW h \in Handlers, NEW k \in Entries, Notify(h, k)
        PROVE  TypeOK'
    <3>1. QueueTypeOK'
      BY <2>1, QueueKeepsType DEF Notify
    <3>2. CallsOK'
      BY <2>1, BeginKeepsCalls DEF Notify, Stages, callVars, CallsOK
    <3>3. EntriesOK'
      BY <2>1 DEF Notify, EntriesOK
    <3>4. RecordsOK'
      BY <2>1, OutboxAssumption DEF Notify, RecordsOK, historyVars
    <3> QED
      BY <3>1, <3>2, <3>3, <3>4 DEF TypeOK, CallsOK, EntriesOK, RecordsOK
  <2>2. ASSUME NEW h \in Handlers, NEW k \in Entries, ReceiveJob(h, k) \/ Sweep(h, k)
        PROVE  TypeOK'
    <3>1. QueueTypeOK'
      BY <2>2, QueueKeepsType, OutboxAssumption DEF ReceiveJob, Sweep
    <3>2. CallsOK'
      BY <2>2, BeginKeepsCalls DEF ReceiveJob, Sweep, Stages
    <3>3. EntriesOK' /\ RecordsOK'
      BY <2>2 DEF ReceiveJob, Sweep, EntriesOK, RecordsOK, entryVars, historyVars, boundVars
    <3> QED
      BY <3>1, <3>2, <3>3 DEF TypeOK, CallsOK, EntriesOK, RecordsOK
  <2>3. ASSUME NEW h \in Handlers, Proceed(h)
        PROVE  TypeOK'
    BY <1>2, <2>3, ProceedKeepsType
  <2>4. ASSUME NEW h \in Handlers, HandlerThrows(h) \/ HandlerDies(h)
        PROVE  TypeOK'
    <3>1. QueueTypeOK'
      BY <2>4, QueueKeepsType DEF HandlerThrows, HandlerDies
    <3>2. CallsOK'
      BY <2>4, FinishKeepsCalls DEF HandlerThrows, HandlerDies
    <3>3. EntriesOK'
      BY <2>4 DEF HandlerThrows, HandlerDies, CutOff, EntriesOK, entryVars
    <3>4. stage[h] # "idle"
      BY <2>4 DEF HandlerThrows, HandlerDies
    <3>5. RecordsOK'
      BY <2>4, <3>4, OutboxAssumption
      DEF HandlerThrows, HandlerDies, CutOff, RecordsOK, CallsOK
    <3> QED
      BY <3>1, <3>2, <3>3, <3>5 DEF TypeOK, CallsOK, EntriesOK, RecordsOK
  <2>5. CASE Outage \/ BrokerReturns
    <3>1. QueueTypeOK'
      BY <2>5, ConnectionKeepsQueueType DEF Outage, BrokerReturns
    <3> QED
      BY <2>5, <3>1, OutboxAssumption
      DEF Outage, BrokerReturns, TypeOK, CallsOK, EntriesOK, RecordsOK,
          entryVars, callVars, historyVars, boundVars
  <2>6. ASSUME NEW k \in Entries, Time(k)
        PROVE  TypeOK'
    BY <2>6 DEF Time, BecomesDue, ClaimGoesStale, TypeOK, QueueTypeOK, CallsOK, EntriesOK,
                RecordsOK, queueVars, callVars, historyVars, boundVars
  <2>7. CASE UNCHANGED vars
    BY <2>7 DEF vars, TypeOK, QueueTypeOK, CallsOK, EntriesOK, RecordsOK,
                queueVars, entryVars, callVars, historyVars, boundVars
  <2> QED
    BY <1>2, <2>1, <2>2, <2>3, <2>4, <2>5, <2>6, <2>7 DEF Next
<1> QED
  BY <1>1, <1>2, PTL DEF Spec

-----------------------------------------------------------------------------
(***************************************************************************)
(* The inductive invariant behind DeliveredOnce and the refinement.  What  *)
(* a delivery in progress knows has to be carried along: that its claim    *)
(* stands, that the count it read is the entry's, that its member has been *)
(* told, and that a push it has sent is not to be sent again.              *)
(***************************************************************************)

\* A delivery in progress holds the claim of its entry.
ClaimHeld ==
  \A h \in Handlers :
    stage[h] \in Working => status[entry[h]] = "processing" \/ entry[h] \in overtaken

\* The attempts it read are the entry's, and not more than the failures.
CountHeld ==
  \A h \in Handlers :
    stage[h] \in Working => /\ tries[h] <= failures[entry[h]]
                            /\ tries[h] = attempts[entry[h]] \/ entry[h] \in overtaken

\* Before the push and the last update, the member has been told.
MemberTold ==
  \A h \in Handlers : stage[h] \in {"push", "settle"} => entry[h] \in inbox \union optedOut

\* Nothing has gone wrong with the deliveries of entry k.
Undisturbed(k) == failures[k] = 0 /\ faults = 0 /\ k \notin overtaken

\* The push of an undisturbed entry was sent by the delivery that is about to
\* settle it, or by the one that has.
PushBehind ==
  \A k \in Entries :
    Undisturbed(k) =>
      \/ pushes[k] = 0
      \/ /\ pushes[k] = 1
         /\ \/ status[k] = "delivered"
            \/ \E h \in Handlers : entry[h] = k /\ stage[h] \in {"settle", "fail"}

Exclusive == ClaimHeld /\ OneDeliveryAtATime
Counted   == CountHeld /\ AttemptsAreFailures

DeliveryInv == Exclusive /\ Counted /\ MemberTold /\ PushBehind

\* A call that is publishing, looking at an entry or over does not count.
LEMMA BystanderKeepsInv ==
  ASSUME TypeOK, DeliveryInv,
         UNCHANGED <<attempts, inbox, failures, pushes, optedOut, overtaken, faults>>,
         \A h \in Handlers : stage'[h] \in Working =>
            /\ stage'[h] = stage[h] /\ entry'[h] = entry[h] /\ tries'[h] = tries[h],
         \A h \in Handlers : stage[h] \in Working =>
            stage'[h] = stage[h] /\ entry'[h] = entry[h],
         \A k \in Entries : status'[k] = status[k] \/ status[k] = "absent"
  PROVE  DeliveryInv'
<1>1. Exclusive'
  BY DEF TypeOK, DeliveryInv, Exclusive, ClaimHeld, OneDeliveryAtATime, Working
<1>2. Counted'
  BY DEF TypeOK, DeliveryInv, Counted, CountHeld, AttemptsAreFailures, Working
<1>3. MemberTold'
  BY DEF TypeOK, DeliveryInv, MemberTold, Working
<1>4. PushBehind'
  BY DEF TypeOK, DeliveryInv, PushBehind, Undisturbed, Working
<1> QED
  BY <1>1, <1>2, <1>3, <1>4 DEF DeliveryInv

\* A claim: whoever is at work on the entry already was too slow, and the entry
\* counts as overtaken from then on.
LEMMA ClaimKeepsInv ==
  ASSUME TypeOK, DeliveryInv, NEW h \in Handlers, ClaimEntry(h)
  PROVE  DeliveryInv'
<1> USE DEF ClaimEntry, Claimable, Finish, Goto, Working
<1>1. Exclusive'
  BY DEF TypeOK, DeliveryInv, Exclusive, ClaimHeld, OneDeliveryAtATime
<1>2. Counted'
  BY DEF TypeOK, DeliveryInv, Counted, CountHeld, AttemptsAreFailures
<1>3. MemberTold'
  BY DEF TypeOK, DeliveryInv, MemberTold
<1>4. PushBehind'
  BY DEF TypeOK, DeliveryInv, PushBehind, Undisturbed, boundVars
<1> QED
  BY <1>1, <1>2, <1>3, <1>4 DEF DeliveryInv

LEMMA InAppKeepsInv ==
  ASSUME TypeOK, DeliveryInv, NEW h \in Handlers, CreateInApp(h)
  PROVE  DeliveryInv'
<1> USE DEF CreateInApp, Goto, Working, entryVars
<1>1. Exclusive'
  BY DEF TypeOK, DeliveryInv, Exclusive, ClaimHeld, OneDeliveryAtATime
<1>2. Counted'
  BY DEF TypeOK, DeliveryInv, Counted, CountHeld, AttemptsAreFailures
<1>3. MemberTold'
  BY DEF TypeOK, DeliveryInv, MemberTold
<1>4. PushBehind'
  BY DEF TypeOK, DeliveryInv, PushBehind, Undisturbed, boundVars
<1> QED
  BY <1>1, <1>2, <1>3, <1>4 DEF DeliveryInv

\* A push, whether its call returns or throws.  An undisturbed entry has no
\* push so far: its deliverer would be another call, or would have settled it.
LEMMA PushKeepsInv ==
  ASSUME TypeOK, DeliveryInv, NEW h \in Handlers, SendPush(h) \/ DeliveryFails(h)
  PROVE  DeliveryInv'
<1> USE DEF SendPush, DeliveryFails, Goto, Working, entryVars
<1>1. Exclusive'
  BY DEF TypeOK, DeliveryInv, Exclusive, ClaimHeld, OneDeliveryAtATime
<1>2. Counted'
  BY DEF TypeOK, DeliveryInv, Counted, CountHeld, AttemptsAreFailures
<1>3. MemberTold'
  BY DEF TypeOK, DeliveryInv, MemberTold
<1>4. PushBehind'
  BY DEF TypeOK, DeliveryInv, Exclusive, ClaimHeld, OneDeliveryAtATime,
         PushBehind, Undisturbed, boundVars
<1> QED
  BY <1>1, <1>2, <1>3, <1>4 DEF DeliveryInv

\* The last update: no other delivery of the entry is at work that it could
\* take the claim from, unless the entry was overtaken.
LEMMA SettleKeepsInv ==
  ASSUME TypeOK, DeliveryInv, NEW h \in Handlers, SettleEntry(h)
  PROVE  DeliveryInv'
<1> USE DEF SettleEntry, Finish, Goto, Working, historyVars
<1>1. Exclusive'
  BY DEF TypeOK, DeliveryInv, Exclusive, ClaimHeld, OneDeliveryAtATime
<1>2. Counted'
  BY DEF TypeOK, DeliveryInv, Counted, CountHeld, AttemptsAreFailures
<1>3. MemberTold'
  BY DEF TypeOK, DeliveryInv, MemberTold
<1>4. PushBehind'
  BY DEF TypeOK, DeliveryInv, PushBehind, Undisturbed, boundVars
<1> QED
  BY <1>1, <1>2, <1>3, <1>4 DEF DeliveryInv

\* The catch block: what it read is what the entry holds, unless overtaken.
LEMMA CountKeepsInv ==
  ASSUME TypeOK, DeliveryInv, NEW h \in Handlers, CountFailure(h)
  PROVE  DeliveryInv'
<1> USE DEF CountFailure, Finish, Goto, Working
<1>1. Exclusive'
  BY DEF TypeOK, DeliveryInv, Exclusive, ClaimHeld, OneDeliveryAtATime
<1>2. Counted'
  BY DEF TypeOK, DeliveryInv, Exclusive, OneDeliveryAtATime,
         Counted, CountHeld, AttemptsAreFailures
<1>3. MemberTold'
  BY DEF TypeOK, DeliveryInv, MemberTold
<1>4. PushBehind'
  BY DEF TypeOK, DeliveryInv, PushBehind, Undisturbed, boundVars
<1> QED
  BY <1>1, <1>2, <1>3, <1>4 DEF DeliveryInv

\* A call that comes to nothing leaves no entry undisturbed.
LEMMA CutOffKeepsInv ==
  ASSUME TypeOK, DeliveryInv, NEW h \in Handlers, HandlerThrows(h) \/ HandlerDies(h)
  PROVE  DeliveryInv'
<1> USE DEF HandlerThrows, HandlerDies, CutOff, Finish, Goto, Working, entryVars
<1>1. Exclusive'
  BY DEF TypeOK, DeliveryInv, Exclusive, ClaimHeld, OneDeliveryAtATime
<1>2. Counted'
  BY DEF TypeOK, DeliveryInv, Counted, CountHeld, AttemptsAreFailures
<1>3. MemberTold'
  BY DEF TypeOK, DeliveryInv, MemberTold
<1>4. PushBehind'
  BY DEF TypeOK, PushBehind, Undisturbed
<1> QED
  BY <1>1, <1>2, <1>3, <1>4 DEF DeliveryInv

\* The inductive invariant holds in every reachable state.
THEOREM DeliveryCorrect == Spec => []DeliveryInv
<1>1. Init => DeliveryInv
  BY DEF Init, DeliveryInv, Exclusive, Counted, ClaimHeld, OneDeliveryAtATime, CountHeld,
         AttemptsAreFailures, MemberTold, PushBehind, Working
<1>2. ASSUME TypeOK, DeliveryInv, [Next]_vars
      PROVE  DeliveryInv'
  <2> USE <1>2
  <2>1. ASSUME NEW h \in Handlers, NEW k \in Entries,
               Notify(h, k) \/ ReceiveJob(h, k) \/ Sweep(h, k)
        PROVE  DeliveryInv'
    BY <2>1, BystanderKeepsInv
    DEF Notify, ReceiveJob, Sweep, Begin, Goto, Working, Stages, TypeOK,
        entryVars, callVars, historyVars, boundVars
  <2>2. ASSUME NEW h \in Handlers, Proceed(h)
        PROVE  DeliveryInv'
    <3>1. CASE PublishJob(h)
      BY <3>1, BystanderKeepsInv
      DEF PublishJob, Finish, Goto, Working, TypeOK, entryVars, historyVars
    <3> QED
      BY <2>2, <3>1, ClaimKeepsInv, InAppKeepsInv, PushKeepsInv, SettleKeepsInv,
         CountKeepsInv
      DEF Proceed
  <2>3. ASSUME NEW h \in Handlers, HandlerThrows(h) \/ HandlerDies(h)
        PROVE  DeliveryInv'
    BY <2>3, CutOffKeepsInv
  <2>4. CASE Outage \/ BrokerReturns \/ (\E k \in Entries : Time(k)) \/ UNCHANGED vars
    BY <2>4, BystanderKeepsInv
    DEF Outage, BrokerReturns, Time, BecomesDue, ClaimGoesStale, vars,
        entryVars, callVars, historyVars, boundVars
  <2> QED
    BY <2>1, <2>2, <2>3, <2>4 DEF Next
<1> QED
  BY <1>1, <1>2, TypeCorrect, PTL DEF Spec

\* Deliveries of an entry exclude each other, its failures are counted, and its
\* member is pushed once, but for failures, deaths and claims ten minutes old.
THEOREM DeliveriesAreSafe == Spec => []DeliveredOnce
<1>1. TypeOK /\ DeliveryInv => DeliveredOnce
  BY DEF DeliveryInv, Exclusive, Counted, PushBehind, Undisturbed, TypeOK,
         DeliveredOnce, PushesOnce
<1> QED
  BY <1>1, TypeCorrect, DeliveryCorrect, PTL

-----------------------------------------------------------------------------
\* What is settled stays as it is, but for an entry whose delivery was overtaken.
SettledIsFinal ==
  \A k \in Entries :
    status[k] \in Settled /\ k \notin overtaken' => status'[k] = status[k]

\* A settled entry is never taken up again: a call of notify finds it settled,
\* a late job or sweep does not win the claim.
THEOREM SettledStaysSettled == Spec => [][SettledIsFinal]_vars
<1>1. ASSUME TypeOK, DeliveryInv, [Next]_vars
      PROVE  [SettledIsFinal]_vars
  <2> SUFFICES ASSUME NEW k \in Entries, status[k] \in Settled, k \notin overtaken'
               PROVE  status'[k] = status[k]
    BY DEF SettledIsFinal
  <2>1. ASSUME NEW h \in Handlers, ClaimEntry(h) \/ SettleEntry(h) \/ CountFailure(h)
        PROVE  status'[k] = status[k]
    <3>1. CASE UNCHANGED status
      BY <3>1
    <3>2. CASE entry[h] = k /\ stage[h] = "claim" /\ Claimable(k)
      BY <3>2 DEF Claimable, Settled
    <3>3. CASE entry[h] = k /\ stage[h] \in Working
      BY <1>1, <2>1, <3>3
      DEF ClaimEntry, SettleEntry, CountFailure, Working, Settled, historyVars,
          DeliveryInv, Exclusive, ClaimHeld
    <3>4. CASE entry[h] # k
      BY <1>1, <2>1, <3>4 DEF ClaimEntry, SettleEntry, CountFailure, TypeOK
    <3> QED
      BY <2>1, <3>1, <3>2, <3>3, <3>4 DEF ClaimEntry, SettleEntry, CountFailure, Working
  <2>2. CASE \E h \in Handlers, j \in Entries : Notify(h, j)
    BY <1>1, <2>2 DEF Notify, TypeOK, Settled
  <2>3. CASE UNCHANGED status
    BY <2>3
  <2> QED
    BY <1>1, <2>1, <2>2, <2>3
    DEF Next, Proceed, Time, ReceiveJob, Sweep, PublishJob, CreateInApp, SendPush,
        DeliveryFails, HandlerThrows, HandlerDies, CutOff, Outage, BrokerReturns,
        BecomesDue, ClaimGoesStale, vars, entryVars
<1> QED
  BY <1>1, TypeCorrect, DeliveryCorrect, PTL DEF Spec

-----------------------------------------------------------------------------
(* The refinement of DeliveryLedger, step by step. *)

LedgerVars == <<LedgerState, (inbox \union optedOut) \ overtaken,
                [k \in Entries |-> IF k \in overtaken THEN 0 ELSE attempts[k]]>>

LEMMA LedgerNames ==
  /\ LedgerName["absent"] = "absent"
  /\ LedgerName["pending"] = "owed" /\ LedgerName["processing"] = "owed"
  /\ LedgerName["delivered"] = "done" /\ LedgerName["dead_letter"] = "dropped"
  BY DEF LedgerName

LEMMA LedgerUnchanged ==
  ASSUME UNCHANGED <<status, attempts, inbox, optedOut, overtaken>>
  PROVE  UNCHANGED LedgerVars
  BY DEF LedgerVars, LedgerState

\* notify records what is owed.
LEMMA NotifyIsRecord ==
  ASSUME TypeOK, NEW h \in Handlers, NEW k \in Entries, Notify(h, k)
  PROVE  Ledger!Record(k) \/ UNCHANGED LedgerVars
<1>1. CASE status[k] = "absent" /\ k \notin overtaken
  <2>1. /\ LedgerState[k] = "absent"
        /\ LedgerState' = [LedgerState EXCEPT ![k] = "owed"]
    <3>1. status' = [status EXCEPT ![k] = "pending"] /\ UNCHANGED overtaken
      BY <1>1 DEF Notify, Settled, historyVars
    <3> QED
      BY <1>1, <3>1, LedgerNames DEF LedgerState, TypeOK
  <2> QED
    BY <2>1 DEF Notify, Ledger!Record, LedgerVars, historyVars
<1>2. CASE status[k] # "absent" \/ k \in overtaken
  <2>1. LedgerState' = LedgerState
    BY <1>2, LedgerNames DEF Notify, LedgerState, TypeOK, Settled, historyVars
  <2> QED
    BY <2>1 DEF Notify, LedgerVars, historyVars
<1> QED
  BY <1>1, <1>2

\* A claim changes nothing for the ledger, unless it overtakes a delivery.
LEMMA ClaimIsDispute ==
  ASSUME TypeOK, DeliveryInv, NEW h \in Handlers, ClaimEntry(h)
  PROVE  Ledger!Next \/ UNCHANGED LedgerVars
<1> DEFINE k == entry[h]
<1>0. k \in Entries
  BY DEF ClaimEntry, TypeOK
<1>1. CASE overtaken' = overtaken
  <2>1. LedgerState' = LedgerState
    BY <1>0, <1>1, LedgerNames DEF ClaimEntry, Claimable, LedgerState, TypeOK, Settled
  <2> QED
    BY <1>1, <2>1 DEF ClaimEntry, LedgerVars
<1>2. CASE overtaken' = overtaken \union {k} /\ k \notin overtaken
  <2>1. LedgerState[k] = "owed" /\ LedgerState' = [LedgerState EXCEPT ![k] = "disputed"]
    BY <1>0, <1>2, LedgerNames DEF ClaimEntry, Claimable, LedgerState, TypeOK, Settled
  <2> QED
    BY <1>0, <1>2, <2>1 DEF ClaimEntry, Ledger!Next, Ledger!Dispute
<1> QED
  BY <1>1, <1>2 DEF ClaimEntry

\* Creating the in-app notification, or finding that it is not wanted, informs.
LEMMA InAppIsInform ==
  ASSUME TypeOK, DeliveryInv, NEW h \in Handlers,
         CreateInApp(h) \/ SendPush(h) \/ DeliveryFails(h)
  PROVE  Ledger!Next \/ UNCHANGED LedgerVars
<1> DEFINE k == entry[h]
<1>0. k \in Entries /\ stage[h] \in Working
  BY DEF CreateInApp, SendPush, DeliveryFails, TypeOK, Working
<1>1. UNCHANGED <<LedgerState, attempts, overtaken>>
  BY DEF CreateInApp, SendPush, DeliveryFails, LedgerState, entryVars
<1>2. \/ (inbox \union optedOut)' = inbox \union optedOut
      \/ (inbox \union optedOut)' = (inbox \union optedOut) \union {k}
  BY DEF CreateInApp, SendPush, DeliveryFails
<1>3. CASE k \in overtaken \/ (inbox \union optedOut)' = inbox \union optedOut
  BY <1>1, <1>2, <1>3 DEF LedgerVars
<1>4. CASE k \notin overtaken /\ (inbox \union optedOut)' = (inbox \union optedOut) \union {k}
  <2>1. LedgerState[k] = "owed"
    BY <1>0, <1>4, LedgerNames DEF LedgerState, DeliveryInv, Exclusive, ClaimHeld
  <2> QED
    BY <1>0, <1>1, <1>4, <2>1 DEF Ledger!Next, Ledger!Inform
<1> QED
  BY <1>2, <1>3, <1>4

\* The last update completes what its member has been told of.
LEMMA SettleIsComplete ==
  ASSUME TypeOK, DeliveryInv, NEW h \in Handlers, SettleEntry(h)
  PROVE  Ledger!Next \/ UNCHANGED LedgerVars
<1> DEFINE k == entry[h]
<1>0. k \in Entries
  BY DEF SettleEntry, TypeOK
<1>1. CASE k \in overtaken
  <2>1. LedgerState' = LedgerState
    BY <1>0, <1>1 DEF SettleEntry, LedgerState, TypeOK, historyVars
  <2> QED
    BY <2>1 DEF SettleEntry, LedgerVars, historyVars
<1>2. CASE k \notin overtaken
  <2>1. LedgerState[k] = "owed" /\ LedgerState' = [LedgerState EXCEPT ![k] = "done"]
    BY <1>0, <1>2, LedgerNames DEF SettleEntry, LedgerState, TypeOK, Working, historyVars,
                      DeliveryInv, Exclusive, ClaimHeld
  <2>2. k \in (inbox \union optedOut) \ overtaken
    BY <1>2 DEF SettleEntry, DeliveryInv, MemberTold
  <2> QED
    BY <1>0, <2>1, <2>2 DEF SettleEntry, Ledger!Next, Ledger!Complete, historyVars
<1> QED
  BY <1>1, <1>2

\* The catch block counts one failure, and drops what has failed too often.
LEMMA CountIsFail ==
  ASSUME TypeOK, DeliveryInv, NEW h \in Handlers, CountFailure(h)
  PROVE  Ledger!Next \/ UNCHANGED LedgerVars
<1> DEFINE k == entry[h]
           failed == [j \in Entries |-> IF j \in overtaken THEN 0 ELSE attempts[j]]
<1>0. k \in Entries
  BY DEF CountFailure, TypeOK
<1>1. CASE k \in overtaken
  <2>1. LedgerState' = LedgerState /\ failed' = failed
    BY <1>0, <1>1 DEF CountFailure, LedgerState, TypeOK
  <2> QED
    BY <2>1 DEF CountFailure, LedgerVars
<1>2. CASE k \notin overtaken
  <2>1. /\ status[k] = "processing"
        /\ tries[h] = attempts[k]
    BY <1>2 DEF CountFailure, Working, DeliveryInv, Exclusive, ClaimHeld, Counted, CountHeld
  <2>2. failed[k] = attempts[k] /\ failed' = [failed EXCEPT ![k] = @ + 1]
    BY <1>0, <1>2, <2>1 DEF CountFailure, TypeOK
  <2>3. /\ LedgerState[k] = "owed"
        /\ LedgerState' = [LedgerState EXCEPT
                             ![k] = IF failed[k] + 1 >= MaxAttempts THEN "dropped" ELSE @]
    BY <1>0, <1>2, <2>1, LedgerNames DEF CountFailure, LedgerState, TypeOK
  <2> QED
    BY <1>0, <2>2, <2>3 DEF CountFailure, Ledger!Next, Ledger!Fail
<1> QED
  BY <1>1, <1>2

\* Calls, jobs, sweeps, outages and deaths together keep the ledger: nothing is
\* dropped early, settled untold, reopened, or miscounted.
THEOREM OutboxImplementsLedger == Spec => ImplementsLedger
<1>1. Init => Ledger!Init
  BY LedgerNames DEF Init, Ledger!Init, LedgerState
<1>2. ASSUME TypeOK, DeliveryInv, [Next]_vars
      PROVE  Ledger!Next \/ UNCHANGED LedgerVars
  <2> USE <1>2
  <2>1. ASSUME NEW h \in Handlers, NEW k \in Entries, Notify(h, k)
        PROVE  Ledger!Next \/ UNCHANGED LedgerVars
    BY <2>1, NotifyIsRecord DEF Ledger!Next
  <2>2. ASSUME NEW h \in Handlers, Proceed(h)
        PROVE  Ledger!Next \/ UNCHANGED LedgerVars
    <3>1. CASE PublishJob(h)
      BY <3>1, LedgerUnchanged DEF PublishJob, entryVars, historyVars
    <3> QED
      BY <2>2, <3>1, ClaimIsDispute, InAppIsInform, SettleIsComplete, CountIsFail DEF Proceed
  <2>3. ASSUME NEW h \in Handlers, NEW k \in Entries, ReceiveJob(h, k) \/ Sweep(h, k)
        PROVE  UNCHANGED LedgerVars
    BY <2>3, LedgerUnchanged DEF ReceiveJob, Sweep, entryVars, historyVars
  <2>4. ASSUME NEW h \in Handlers, HandlerThrows(h) \/ HandlerDies(h)
        PROVE  UNCHANGED LedgerVars
    BY <2>4, LedgerUnchanged DEF HandlerThrows, HandlerDies, CutOff, entryVars
  <2>5. CASE Outage \/ BrokerReturns \/ (\E k \in Entries : Time(k)) \/ UNCHANGED vars
    BY <2>5, LedgerUnchanged
    DEF Outage, BrokerReturns, Time, BecomesDue, ClaimGoesStale, vars, entryVars, historyVars
  <2> QED
    BY <2>1, <2>2, <2>3, <2>4, <2>5 DEF Next
<1> QED
  BY <1>1, <1>2, TypeCorrect, DeliveryCorrect, PTL
  DEF Spec, ImplementsLedger, Ledger!Spec, LedgerVars

-----------------------------------------------------------------------------
(* The bulk e-mails: type correctness, by groups of variables. *)

MailCallsOK ==
  /\ mailStage \in [Handlers -> MailStages]
  /\ log \in [Handlers -> Logs \union {NoJob}]
  /\ \A h \in Handlers : mailStage[h] # "idle" => log[h] \in Logs

LogsOK ==
  /\ logStatus \in [Logs -> {"absent", "QUEUED", "SENDING", "SENT", "FAILED"}]
  /\ logAttempts \in [Logs -> 0 .. MaxTries]

MailRecordsOK ==
  /\ copies \in [Logs -> Nat]
  /\ doubts \in [Logs -> Nat]
  /\ lost \subseteq Logs
  /\ outages \in 0 .. MaxOutages
  /\ faults \in 0 .. MaxFaults

LEMMA MailTypeParts == MailTypeOK <=> QueueTypeOK /\ MailCallsOK /\ LogsOK /\ MailRecordsOK
  BY DEF MailTypeOK, MailCallsOK, LogsOK, MailRecordsOK

LEMMA CallKeepsMailQueue ==
  ASSUME QueueTypeOK, NEW h \in Handlers,
         \/ \E k \in Logs : Publish(k) \/ Receive(h, k)
         \/ Ack(h) \/ Nack(h) \/ Redeliver(h) \/ UNCHANGED queueVars
  PROVE  QueueTypeOK'
  BY QueueKeepsType, BulkEmailAssumption

LEMMA BeginKeepsMailCalls ==
  ASSUME MailCallsOK, NEW h \in Handlers, NEW k \in Logs, NEW s \in MailStages,
         BeginLog(h, k, s)
  PROVE  MailCallsOK'
  BY DEF MailCallsOK, BeginLog, MailGoto

LEMMA FinishKeepsMailCalls ==
  ASSUME MailCallsOK, NEW h \in Handlers, FinishLog(h)
  PROVE  MailCallsOK'
  BY DEF MailCallsOK, FinishLog, MailGoto, MailStages

LEMMA GotoKeepsMailCalls ==
  ASSUME MailCallsOK, NEW h \in Handlers, NEW s \in MailStages, mailStage[h] # "idle",
         MailGoto(h, s), UNCHANGED log
  PROVE  MailCallsOK'
  BY DEF MailCallsOK, MailGoto

\* Every variable keeps its type, a busy call works on a log, and no log is
\* claimed more than MaxTries times.
THEOREM MailTypeCorrect == MailSpec => []MailTypeOK
<1>1. MailInit => MailTypeOK
  BY BulkEmailAssumption DEF MailInit, QueueInit, MailTypeOK, QueueTypeOK, MailStages
<1>2. ASSUME MailTypeOK, [MailNext]_mailVars
      PROVE  MailTypeOK'
  <2>0. QueueTypeOK /\ MailCallsOK /\ LogsOK /\ MailRecordsOK
    BY <1>2, MailTypeParts
  <2> USE <2>0
  <2> SUFFICES QueueTypeOK' /\ MailCallsOK' /\ LogsOK' /\ MailRecordsOK'
    BY DEF MailTypeOK, MailCallsOK, LogsOK, MailRecordsOK
  <2>1. ASSUME NEW h \in Handlers, NEW k \in Logs,
               QueueEmail(h, k) \/ ReceiveLog(h, k) \/ SweepLog(h, k)
        PROVE  QueueTypeOK' /\ MailCallsOK' /\ LogsOK' /\ MailRecordsOK'
    <3>1. QueueTypeOK'
      BY <2>1, CallKeepsMailQueue DEF QueueEmail, ReceiveLog, SweepLog
    <3>2. MailCallsOK'
      BY <2>1, BeginKeepsMailCalls DEF QueueEmail, ReceiveLog, SweepLog, MailStages
    <3> QED
      BY <2>1, <3>1, <3>2
      DEF QueueEmail, ReceiveLog, SweepLog, LogsOK, MailRecordsOK, logVars, copyVars,
          mailBounds
  <2>2. ASSUME NEW h \in Handlers, ProceedMail(h) \/ RecordSentFails(h) \/ MailerDies(h)
        PROVE  QueueTypeOK' /\ MailCallsOK' /\ LogsOK' /\ MailRecordsOK'
    <3>0. log[h] \in Logs /\ mailStage[h] # "idle"
      BY <2>2 DEF ProceedMail, PublishLog, ClaimLog, TryResend, TrySmtp, RecordSent,
          RecordFailed, Rethrow, RecordSentFails, MailerDies, MailCallsOK
    <3>1. QueueTypeOK'
      BY <2>2, <3>0, CallKeepsMailQueue
      DEF ProceedMail, PublishLog, PublishLost, PublishRefused, ClaimLog, TryResend,
          TrySmtp, RecordSent, RecordFailed, Rethrow, RecordSentFails, MailerDies
    <3>2. MailCallsOK'
      <4>1. CASE PublishLog(h) \/ RecordSent(h) \/ Rethrow(h) \/ MailerDies(h)
        BY <4>1, FinishKeepsMailCalls DEF PublishLog, RecordSent, Rethrow, MailerDies
      <4>2. CASE ClaimLog(h)
        BY <3>0, <4>2, FinishKeepsMailCalls, GotoKeepsMailCalls DEF ClaimLog, MailStages
      <4>3. CASE TryResend(h) \/ TrySmtp(h) \/ RecordSentFails(h) \/ RecordFailed(h)
        BY <3>0, <4>3, GotoKeepsMailCalls
        DEF TryResend, TrySmtp, RecordSentFails, RecordFailed, MailStages
      <4> QED
        BY <2>2, <4>1, <4>2, <4>3 DEF ProceedMail
    <3>3. LogsOK'
      <4>1. CASE ClaimLog(h)
        <5>1. Unsent(log[h]) => logAttempts[log[h]] + 1 \in 0 .. MaxTries
          BY <3>0, BulkEmailAssumption DEF Unsent, LogsOK
        <5> QED
          BY <3>0, <4>1, <5>1 DEF ClaimLog, LogsOK, logVars
      <4>2. CASE RecordSent(h) \/ RecordFailed(h)
        BY <3>0, <4>2 DEF RecordSent, RecordFailed, LogsOK
      <4> QED
        BY <2>2, <4>1, <4>2
        DEF ProceedMail, PublishLog, TryResend, TrySmtp, Rethrow, RecordSentFails,
            MailerDies, LogsOK, logVars
    <3>4. MailRecordsOK'
      BY <2>2, <3>0, BulkEmailAssumption
      DEF ProceedMail, PublishLog, ClaimLog, TryResend, TrySmtp, Leaves, RecordSent,
          RecordFailed, Rethrow, RecordSentFails, MailerDies, MailRecordsOK, copyVars,
              mailBounds
    <3> QED
      BY <3>1, <3>2, <3>3, <3>4
  <2>3. CASE MailOutage \/ MailBrokerReturns
    <3>1. QueueTypeOK'
      BY <2>3, ConnectionKeepsQueueType DEF MailOutage, MailBrokerReturns, Reconnect,
          QueueTypeOK
    <3> QED
      BY <2>3, <3>1, BulkEmailAssumption
      DEF MailOutage, MailBrokerReturns, MailCallsOK, LogsOK, MailRecordsOK, logVars,
          mailCallVars, copyVars, mailBounds
  <2>4. CASE UNCHANGED mailVars
    BY <2>4 DEF mailVars, QueueTypeOK, MailCallsOK, LogsOK, MailRecordsOK, queueVars,
        logVars, mailCallVars, copyVars, mailBounds
  <2> QED
    BY <1>2, <2>1, <2>2, <2>3, <2>4 DEF MailNext
<1> QED
  BY <1>1, <1>2, PTL DEF MailSpec

-----------------------------------------------------------------------------
(***************************************************************************)
(* The inductive invariant behind SentOnce.  One sender per log is         *)
(* inductive by itself; that what is marked as sent has left, and left     *)
(* once, needs what the sender in between knows.                           *)
(***************************************************************************)

\* Whoever is about to record an e-mail as sent has seen one leave.
SenderHasSent == \A h \in Handlers : mailStage[h] = "sent" => copies[log[h]] > 0

\* A copy beyond the doubtful ones is the one recorded, or about to be.
CopyIsRecorded ==
  \A k \in Logs \ lost :
    \/ copies[k] <= doubts[k]
    \/ /\ copies[k] = 1 + doubts[k]
       /\ logStatus[k] = "SENT" \/ \E h \in Handlers : mailStage[h] = "sent" /\ log[h] = k

MailInv == OneSenderPerLog /\ SentHasLeft /\ SenderHasSent /\ CopyIsRecorded

\* Calls that do not deliver disturb nothing.
LEMMA BystanderKeepsMail ==
  ASSUME MailTypeOK, MailInv, UNCHANGED <<copyVars, lost>>,
         \A h \in Handlers : Delivering(h) \/ Delivering(h)' =>
                               mailStage'[h] = mailStage[h] /\ log'[h] = log[h],
         \A k \in Logs : logStatus'[k] = logStatus[k] \/ (logStatus[k] = "absent" /\ logStatus'[k] =
             "QUEUED")
  PROVE  MailInv'
<1>1. OneSenderPerLog'
  BY DEF MailTypeOK, MailInv, OneSenderPerLog, Delivering
<1>2. SentHasLeft' /\ SenderHasSent'
  BY DEF MailTypeOK, MailInv, SentHasLeft, SenderHasSent, Delivering, copyVars
<1>3. CopyIsRecorded'
  BY DEF MailTypeOK, MailInv, CopyIsRecorded, Delivering, copyVars
<1> QED
  BY <1>1, <1>2, <1>3 DEF MailInv

\* The claim's filter excludes a log that is being sent or has been.
LEMMA ClaimKeepsMail ==
  ASSUME MailTypeOK, MailInv, NEW h \in Handlers, ClaimLog(h)
  PROVE  MailInv'
<1> USE DEF ClaimLog, Unsent, FinishLog, MailGoto
<1>1. OneSenderPerLog'
  BY DEF MailTypeOK, MailInv, OneSenderPerLog, Delivering, logVars
<1>2. SentHasLeft' /\ SenderHasSent'
  BY DEF MailTypeOK, MailInv, SentHasLeft, SenderHasSent, copyVars, logVars
<1>3. CopyIsRecorded'
  BY DEF MailTypeOK, MailInv, CopyIsRecorded, copyVars, logVars
<1> QED
  BY <1>1, <1>2, <1>3 DEF MailInv

\* The e-mail is handed to a provider, by the only sender of its log: unless in
\* doubt, no copy has left before.
LEMMA SendKeepsMail ==
  ASSUME MailTypeOK, MailInv, NEW h \in Handlers, TryResend(h) \/ TrySmtp(h)
  PROVE  MailInv'
<1> USE DEF TryResend, TrySmtp, Leaves, MailGoto
<1>1. OneSenderPerLog'
  BY DEF MailTypeOK, MailInv, OneSenderPerLog, Delivering, logVars
<1>2. SentHasLeft' /\ SenderHasSent'
  BY DEF MailTypeOK, MailInv, SentHasLeft, SenderHasSent, copyVars, logVars
<1>3. CopyIsRecorded'
  <2>1. logStatus[log[h]] # "SENT" /\ ~ \E g \in Handlers : mailStage[g] = "sent" /\ log[g] = log[h]
    BY DEF MailInv, OneSenderPerLog, Delivering
  <2> QED
    BY <2>1 DEF MailTypeOK, MailInv, CopyIsRecorded, copyVars, logVars
<1> QED
  BY <1>1, <1>2, <1>3 DEF MailInv

\* The outcome is recorded, as sent or failed, or the recording fails.
LEMMA RecordKeepsMail ==
  ASSUME MailTypeOK, MailInv, NEW h \in Handlers,
         RecordSent(h) \/ RecordSentFails(h) \/ RecordFailed(h)
  PROVE  MailInv'
<1> USE DEF RecordSent, RecordSentFails, RecordFailed, FinishLog, MailGoto
<1>1. OneSenderPerLog'
  BY DEF MailTypeOK, MailInv, OneSenderPerLog, Delivering, logVars
<1>2. SentHasLeft' /\ SenderHasSent'
  BY DEF MailTypeOK, MailInv, SentHasLeft, SenderHasSent, copyVars, logVars
<1>3. CopyIsRecorded'
  BY DEF MailTypeOK, MailInv, OneSenderPerLog, Delivering, CopyIsRecorded, copyVars, logVars
<1> QED
  BY <1>1, <1>2, <1>3 DEF MailInv

LEMMA DeathKeepsMail ==
  ASSUME MailTypeOK, MailInv, NEW h \in Handlers, MailerDies(h)
  PROVE  MailInv'
<1> USE DEF MailerDies, FinishLog, MailGoto
<1>1. OneSenderPerLog'
  BY DEF MailTypeOK, MailInv, OneSenderPerLog, Delivering, logVars
<1>2. SentHasLeft' /\ SenderHasSent'
  BY DEF MailTypeOK, MailInv, SentHasLeft, SenderHasSent, copyVars, logVars
<1>3. CopyIsRecorded'
  BY DEF MailTypeOK, MailInv, CopyIsRecorded, copyVars, logVars
<1> QED
  BY <1>1, <1>2, <1>3 DEF MailInv

\* The inductive invariant holds in every reachable state.
THEOREM MailCorrect == MailSpec => []MailInv
<1>1. MailInit => MailInv
  BY DEF MailInit, MailInv, OneSenderPerLog, Delivering, SentHasLeft, SenderHasSent,
         CopyIsRecorded
<1>2. ASSUME MailTypeOK, MailInv, [MailNext]_mailVars
      PROVE  MailInv'
  <2> USE <1>2
  <2>1. ASSUME NEW h \in Handlers, NEW k \in Logs,
               QueueEmail(h, k) \/ ReceiveLog(h, k) \/ SweepLog(h, k)
        PROVE  MailInv'
    BY <2>1, BystanderKeepsMail
    DEF QueueEmail, ReceiveLog, SweepLog, BeginLog, MailGoto, Delivering, MailTypeOK,
        logVars
  <2>2. ASSUME NEW h \in Handlers, PublishLog(h) \/ Rethrow(h)
        PROVE  MailInv'
    BY <2>2, BystanderKeepsMail
    DEF PublishLog, Rethrow, FinishLog, MailGoto, Delivering, MailTypeOK, logVars
  <2>3. ASSUME NEW h \in Handlers, ProceedMail(h) \/ RecordSentFails(h) \/ MailerDies(h)
        PROVE  MailInv'
    BY <2>2, <2>3, ClaimKeepsMail, SendKeepsMail, RecordKeepsMail, DeathKeepsMail DEF
        ProceedMail
  <2>4. CASE MailOutage \/ MailBrokerReturns \/ UNCHANGED mailVars
    BY <2>4, BystanderKeepsMail
    DEF MailOutage, MailBrokerReturns, Delivering, mailVars, logVars, mailCallVars
  <2> QED
    BY <2>1, <2>3, <2>4 DEF MailNext
<1> QED
  BY <1>1, <1>2, MailTypeCorrect, PTL DEF MailSpec

\* No two calls send one log at a time, what is marked as sent has left, and a
\* recipient has two copies only after a doubtful send or a lost handler.
THEOREM MailIsSentOnce == MailSpec => []SentOnce
<1>1. MailTypeOK /\ MailInv => SentOnce
  BY DEF MailTypeOK, MailInv, CopyIsRecorded, SentOnce, SecondCopyOnlyInDoubt
<1> QED
  BY <1>1, MailTypeCorrect, MailCorrect, PTL

-----------------------------------------------------------------------------
\* A log marked SENT stays so: no job, sweep or late failure takes it up again.
SentIsFinal == \A k \in Logs : logStatus[k] = "SENT" => logStatus'[k] = "SENT"

\* Every claim is an attempt of its own, and a log that is not being claimed
\* keeps its count: attempts are neither lost nor given back.
AttemptsAreClaims ==
  \A k \in Logs :
    \/ logAttempts'[k] = logAttempts[k]
    \/ logAttempts'[k] = logAttempts[k] + 1 /\ logStatus'[k] = "SENDING" /\ logStatus[k] # "SENDING"

\* A recipient whose e-mail is recorded as sent is never written to again for
\* that log, and what was tried is counted.
THEOREM SentStaysSent == MailSpec => [][SentIsFinal /\ AttemptsAreClaims]_mailVars
<1>1. ASSUME MailTypeOK, MailInv, [MailNext]_mailVars
      PROVE  SentIsFinal /\ AttemptsAreClaims
  <2> USE <1>1
  <2>1. ASSUME NEW h \in Handlers, ClaimLog(h)
        PROVE  SentIsFinal /\ AttemptsAreClaims
    BY <2>1 DEF ClaimLog, Unsent, SentIsFinal, AttemptsAreClaims, MailTypeOK, logVars
  <2>2. ASSUME NEW h \in Handlers, RecordSent(h) \/ RecordFailed(h)
        PROVE  SentIsFinal /\ AttemptsAreClaims
    BY <2>2 DEF RecordSent, RecordFailed, SentIsFinal, AttemptsAreClaims, MailTypeOK,
                MailInv, OneSenderPerLog, Delivering
  <2>3. ASSUME NEW h \in Handlers, NEW k \in Logs, QueueEmail(h, k)
        PROVE  SentIsFinal /\ AttemptsAreClaims
    BY <2>3 DEF QueueEmail, SentIsFinal, AttemptsAreClaims, MailTypeOK
  <2>4. CASE UNCHANGED logVars
    BY <2>4 DEF logVars, SentIsFinal, AttemptsAreClaims
  <2> QED
    BY <2>1, <2>2, <2>3, <2>4
    DEF MailNext, ProceedMail, ReceiveLog, SweepLog, PublishLog, TryResend, TrySmtp,
        Rethrow, RecordSentFails, MailerDies, MailOutage, MailBrokerReturns, mailVars
<1> QED
  BY <1>1, MailTypeCorrect, MailCorrect, PTL DEF MailSpec
=============================================================================

----------------------- MODULE AdminNotificationProofs -----------------------
(***************************************************************************)
(* Proofs about AdminNotification for every set of notifications and       *)
(* senders, every finite set of members and any number of rounds, changes, *)
(* errors and stops.                                                       *)
(***************************************************************************)
EXTENDS AdminNotification, FiniteSetTheorems, TLAPS

(* Type correctness, by groups of variables. *)

Notification ==
  [made: BOOLEAN, scheduled: BOOLEAN, due: BOOLEAN, sent: BOOLEAN, processing: BOOLEAN,
   stale: BOOLEAN, accepted: Nat, delivered: Nat, failed: Nat, failedTokens: SUBSET Members]

Past == [ok: Replaced, bad: Replaced, last: [Members -> Nat]]
Old  == [left: Replaced, good: Replaced, bad: Replaced]

SendCall ==
  [stage: Stages, notice: Notices \union {NoNotice}, ticket: Tickets, users: SUBSET Members,
   left: SUBSET Members, ok: SUBSET Members, bad: SUBSET Members, past: Past,
   round: 1 .. MaxRounds]

ReceiptCheck ==
  [notice: Notices, ticket: Tickets, left: SUBSET Members, good: SUBSET Members,
   bad: SUBSET Members, old: Old]

\* What is typed, and that a busy sender works on a notification.
NoticesOK == notice \in [Notices -> Notification] /\ claims \in [Notices -> Nat]

CallsOK ==
  /\ call \in [Senders -> SendCall]
  /\ \A s \in Senders : call[s].stage # "idle" => call[s].notice \in Notices

RecordsOK ==
  /\ delivery \in [Notices \X Members -> [ticket: Tickets, status: Statuses]]
  /\ inbox \subseteq Notices \X Members
  /\ checks \subseteq ReceiptCheck
  /\ pushed \in [Notices \X Members -> Nat] /\ doubts \in [Notices \X Members -> Nat]

OthersOK ==
  /\ wants \subseteq Members /\ tokens \subseteq Members /\ changed \subseteq Members
  /\ disturbed \subseteq Notices /\ unlocked \subseteq Notices /\ lost \subseteq Notices
  /\ changes \in 0 .. MaxChanges /\ faults \in 0 .. MaxFaults /\ stops \in 0 .. MaxStops

Typed == NoticesOK /\ CallsOK /\ RecordsOK /\ OthersOK

LEMMA TypedIsTypeOK == Typed => TypeOK
  BY DEF Typed, NoticesOK, CallsOK, RecordsOK, OthersOK, TypeOK, Notification, SendCall,
         ReceiptCheck, Past, Old

\* Counting members gives a number, and adds up over disjoint sets.
LEMMA Counting ==
  /\ \A M \in SUBSET Members : Cardinality(M) \in Nat
  /\ \A M, N \in SUBSET Members :
        M \intersect N = {} => Cardinality(M \union N) = Cardinality(M) + Cardinality(N)
  /\ Cardinality({}) = 0
<1>1. \A M \in SUBSET Members : IsFiniteSet(M)
  BY AdminNotificationAssumption, FS_Subset
<1>2. ASSUME NEW M \in SUBSET Members, NEW N \in SUBSET Members, M \intersect N = {}
      PROVE  Cardinality(M \union N) = Cardinality(M) + Cardinality(N)
  <2>1. Cardinality(M \union N)
          = Cardinality(M) + Cardinality(N) - Cardinality(M \intersect N)
    BY <1>1, FS_Union
  <2> QED
    BY <1>1, <1>2, <2>1, FS_EmptySet, FS_CardinalityType
<1> QED
  BY <1>1, <1>2, FS_CardinalityType, FS_EmptySet

\* So does counting results that were replaced.
LEMMA CountingOld == \A R \in Replaced : Cardinality(R) \in Nat
<1>1. IsFiniteSet(1 .. MaxRounds)
  BY AdminNotificationAssumption, FS_Interval
<1>2. IsFiniteSet(Members \X (1 .. MaxRounds))
  BY <1>1, AdminNotificationAssumption, FS_Product
<1> QED
  BY <1>2, FS_Subset, FS_CardinalityType DEF Replaced

LEMMA Nothing ==
  /\ NoPast \in Past /\ NoPast.ok = {} /\ NoPast.bad = {}
  /\ NoOld \in Old /\ NoOld.left = {} /\ NoOld.good = {} /\ NoOld.bad = {}
  /\ NoTicket \in Tickets
  BY DEF NoPast, NoOld, NoTicket, Past, Old, Replaced, Tickets

LEMMA IdleIsCall ==
  Idle \in SendCall /\ Idle.stage = "idle" /\ Idle.notice = NoNotice /\ Idle.past = NoPast
  BY Nothing, AdminNotificationAssumption DEF SendCall, Idle, Stages

\* A sender goes on as c.
LEMMA CallStep ==
  ASSUME CallsOK, NEW s \in Senders, NEW c \in SendCall,
         c.stage # "idle" => c.notice \in Notices,
         call' = [call EXCEPT ![s] = c]
  PROVE  CallsOK' /\ call'[s] = c /\ \A q \in Senders \ {s} : call'[q] = call[q]
  BY DEF CallsOK

LEMMA NoticeStep ==
  ASSUME NoticesOK, NEW n \in Notices, NEW d \in Notification,
         notice' = [notice EXCEPT ![n] = d]
  PROVE  /\ notice' \in [Notices -> Notification]
         /\ notice'[n] = d /\ \A o \in Notices \ {n} : notice'[o] = notice[o]
  BY DEF NoticesOK

LEMMA BeginKeepsCalls ==
  ASSUME CallsOK, NEW s \in Senders, NEW n \in Notices, Begin(s, n)
  PROVE  /\ CallsOK' /\ \A q \in Senders \ {s} : call'[q] = call[q]
         /\ call[s].stage = "idle" /\ call'[s].stage = "claim" /\ call'[s].notice = n
<1> DEFINE c == [Idle EXCEPT !.stage = "claim", !.notice = n]
<1>1. c \in SendCall /\ c.stage = "claim" /\ c.notice = n
  BY IdleIsCall DEF SendCall, Stages
<1>2. call' = [call EXCEPT ![s] = c] /\ call[s].stage = "idle"
  BY DEF Begin
<1> HIDE DEF c
<1> QED
  BY <1>1, <1>2, CallStep

LEMMA FinishKeepsCalls ==
  ASSUME CallsOK, NEW s \in Senders, Finish(s)
  PROVE  CallsOK' /\ call'[s] = Idle /\ \A q \in Senders \ {s} : call'[q] = call[q]
  BY IdleIsCall, CallStep DEF Finish

LEMMA GotoKeepsCalls ==
  ASSUME CallsOK, NEW s \in Senders, NEW g \in Stages, call[s].stage # "idle", Goto(s, g)
  PROVE  /\ CallsOK' /\ \A q \in Senders \ {s} : call'[q] = call[q]
         /\ call'[s].stage = g /\ call'[s].notice = call[s].notice
         /\ call'[s].ticket = call[s].ticket /\ call'[s].users = call[s].users
         /\ call'[s].left = call[s].left /\ call'[s].ok = call[s].ok
         /\ call'[s].bad = call[s].bad /\ call'[s].past = call[s].past
  BY DEF CallsOK, Goto, SendCall

\* One more push for each member of M is a natural number more.
LEMMA TookKeepsType ==
  ASSUME RecordsOK, NEW s \in Senders, NEW M \in SUBSET Members, NEW known \in BOOLEAN,
         Took(s, M, known)
  PROVE  /\ pushed' \in [Notices \X Members -> Nat]
         /\ doubts' \in [Notices \X Members -> Nat]
  BY DEF RecordsOK, Took

\* The receipts of the tickets ok, and of those in past, are fetched by one more call.
NewCheck(s, ok, past) ==
  \E old \in Old :
    /\ past = NoPast => old = NoOld
    /\ checks' \in {checks, checks \union
                   {[notice |-> call[s].notice, ticket |-> call[s].ticket,
                     left |-> ok, good |-> {}, bad |-> {}, old |-> old]}}

\* Sender s begins another round.
Again(s, left, ok, bad, past) ==
  call' = [call EXCEPT ![s] = [@ EXCEPT !.left = left, !.ok = ok, !.bad = bad,
                                        !.past = past, !.round = call[s].round + 1]]

\* What the end of the pushes leaves: the sender at "record", and a receipt check.
LEMMA PushedEffect ==
  ASSUME Typed, NEW s \in Senders, call[s].stage = "push",
         NEW ok \in SUBSET Members, NEW bad \in SUBSET Members, NEW past \in Past,
         Pushed(s, ok, bad, past)
  PROVE  /\ CallsOK' /\ \A q \in Senders \ {s} : call'[q] = call[q]
         /\ call'[s].stage = "record" /\ call'[s].notice = call[s].notice
         /\ call'[s].ticket = call[s].ticket /\ call'[s].users = call[s].users
         /\ call'[s].left = {} /\ call'[s].ok = ok /\ call'[s].bad = bad
         /\ call'[s].past = past
         /\ checks' \subseteq ReceiptCheck
         /\ NewCheck(s, ok, past)
<1> DEFINE c == [call[s] EXCEPT !.stage = "record", !.left = {}, !.ok = ok, !.bad = bad,
                                !.past = past]
           old == [NoOld EXCEPT !.left = past.ok]
           k == [notice |-> call[s].notice, ticket |-> call[s].ticket,
                 left |-> ok, good |-> {}, bad |-> {}, old |-> old]
<1>1. call[s] \in SendCall /\ call[s].notice \in Notices
  BY DEF Typed, CallsOK
<1>2. /\ c \in SendCall /\ c.stage = "record" /\ c.notice = call[s].notice
      /\ c.ticket = call[s].ticket /\ c.users = call[s].users
      /\ c.left = {} /\ c.ok = ok /\ c.bad = bad /\ c.past = past
  BY <1>1 DEF SendCall, Stages
<1>3. call' = [call EXCEPT ![s] = c]
  BY DEF Pushed
<1>4. old \in Old /\ (past = NoPast => old = NoOld)
  BY DEF Old, Past, NoOld, NoPast, Replaced
<1>5. checks' \in {checks, checks \union {k}}
  BY DEF Pushed
<1>6. k \in ReceiptCheck
  <2> HIDE DEF old
  <2> QED
    BY <1>1, <1>4 DEF SendCall, ReceiptCheck
<1>7. checks' \subseteq ReceiptCheck
  <2> HIDE DEF k
  <2> QED
    BY <1>5, <1>6 DEF Typed, RecordsOK
<1>8. NewCheck(s, ok, past)
  BY <1>4, <1>5 DEF NewCheck
<1> HIDE DEF c, old
<1> QED
  BY <1>1, <1>2, <1>3, <1>7, <1>8, CallStep DEF Typed

-----------------------------------------------------------------------------
(* The inductive invariant.  A sender is described by its stage.  What is    *)
(* said of the statistics holds of a notification that is not in disturbed,  *)
(* which was claimed once at most.                                           *)

\* A notification whose claim did not end under its sender is claimed while it
\* is being sent.
ClaimHeld ==
  \A s \in Senders :
    Sending(s) /\ call[s].notice \notin unlocked
    => notice[call[s].notice].processing /\ ~notice[call[s].notice].stale

\* A sender's pushes are either still to be tried, or accepted, or failed.
Tidy ==
  \A s \in Senders :
    /\ call[s].stage \in {"claim", "users", "tokens"} => call[s].left = {}
    /\ call[s].stage \in {"claim", "users", "tokens", "items"}
         => call[s].ok = {} /\ call[s].bad = {}
    /\ call[s].ok \intersect call[s].bad = {}
    /\ call[s].left \intersect (call[s].ok \union call[s].bad) = {}

\* The users a sender has read have the members whose preferences did not
\* change, and whom it is to push to; the items are made before the pushes.
UsersAreRead ==
  \A s \in Senders :
    /\ call[s].stage \in {"tokens", "items", "push", "record", "save"}
         => wants \ changed \subseteq call[s].users
    /\ call[s].stage \in {"items", "push"} => call[s].left \ changed \subseteq call[s].users
    /\ call[s].stage \in {"push", "record", "save"}
         => \A m \in call[s].users : <<call[s].notice, m>> \in inbox

\* Until a notification is claimed again one sender sends it, and a member it
\* has still to push to has no push but those of calls that threw.
OnePushEach ==
  /\ \A s \in Senders : Sending(s) => claims[call[s].notice] > 0
  /\ \A s, q \in Senders :
       /\ s # q /\ Sending(s) /\ Sending(q) /\ call[s].notice = call[q].notice
       => claims[call[s].notice] > 1
  /\ \A n \in Notices, m \in Members :
       claims[n] = 0 => pushed[<<n, m>>] <= doubts[<<n, m>>]
  /\ \A s \in Senders, m \in Members :
       /\ \/ call[s].stage \in {"users", "tokens", "items"}
          \/ call[s].stage = "push" /\ m \in call[s].left
       /\ claims[call[s].notice] <= 1
       => pushed[<<call[s].notice, m>>] <= doubts[<<call[s].notice, m>>]

\* Only of disturbed notifications there are results that a later round replaced,
\* and receipts of their tickets.
Repeated ==
  /\ \A s \in Senders : call[s].past # NoPast => call[s].notice \in disturbed
  /\ \A k \in checks : k.old # NoOld => k.notice \in disturbed

\* The status of every delivery document of n is "none".
NoneRecorded(n) == \A m \in Members : delivery[<<n, m>>].status = "none"

With(n, status) == {m \in Members : delivery[<<n, m>>].status = status}

\* Before the claim there is nothing of a notification ...
Blank(n) ==
  claims[n] = 0 =>
    /\ ~notice[n].sent /\ notice[n].failedTokens = {}
    /\ NoneRecorded(n)
    /\ \A k \in checks : k.notice # n

\* ... while it is sent, what its sender s has recorded ...
Recorded(s) ==
  LET c == call[s]
      n == c.notice
  IN
  Sending(s) /\ n \notin disturbed =>
    /\ ~notice[n].sent /\ notice[n].failedTokens = {}
    /\ c.stage # "save" => NoneRecorded(n)
    /\ c.stage = "save" =>
         \A m \in Members :
           /\ delivery[<<n, m>>].status =
                IF m \in c.ok THEN "accepted" ELSE IF m \in c.bad THEN "failed" ELSE "none"
           /\ m \in c.ok => delivery[<<n, m>>].ticket = c.ticket
    /\ \A k \in checks :
         k.notice = n =>
           /\ c.stage \in {"record", "save"}
           /\ k.left = c.ok /\ k.ticket = c.ticket /\ k.good = {} /\ k.bad = {}

\* ... and once it is sent, what the statistics have and what the one receipt
\* check that is under way will add to them.
Settled(n) ==
  n \notin disturbed =>
    /\ claims[n] <= 1
    /\ \A k, j \in checks : k.notice = n /\ j.notice = n => k = j
    /\ notice[n].sent /\ (\A k \in checks : k.notice # n) =>
         /\ notice[n].delivered = Cardinality(With(n, "delivered"))
         /\ notice[n].failed = Cardinality(With(n, "failed"))
         /\ notice[n].failedTokens = With(n, "failed")
    /\ \A k \in checks :
         notice[n].sent /\ k.notice = n =>
           /\ notice[n].delivered = 0 /\ With(n, "delivered") = k.good
           /\ notice[n].failed = Cardinality(notice[n].failedTokens)
           /\ With(n, "failed") = notice[n].failedTokens \union k.bad
           /\ notice[n].failedTokens \intersect k.bad = {}
           /\ \A m \in k.left :
                /\ delivery[<<n, m>>].status = "accepted"
                /\ delivery[<<n, m>>].ticket = k.ticket

RecordInv ==
  /\ \A n \in Notices : Blank(n) /\ Settled(n)
  /\ \A s \in Senders : Recorded(s)

\* The inductive invariant, by what each part is about.
SendInv == Typed /\ OneSender /\ ClaimHeld

AppInv == SentIsInTheApp /\ PushesHaveItems /\ UsersAreRead

PushInv == SecondPushOnlyInDoubt /\ OnePushEach

SendingInv == SendInv /\ AppInv /\ PushInv /\ Tidy /\ Repeated /\ RecordInv

-----------------------------------------------------------------------------
(* What each step does to the types and to the calls, field by field.       *)

\* Nobody but s moves, and s stays with its notification and its claim.
Moves(s, g) ==
  /\ \A q \in Senders \ {s} : call'[q] = call[q]
  /\ call'[s].stage = g /\ call'[s].notice = call[s].notice

KeepsTicket(s) == call'[s].ticket = call[s].ticket

KeepsPushes(s) ==
  /\ call'[s].left = call[s].left /\ call'[s].ok = call[s].ok /\ call'[s].bad = call[s].bad
  /\ call'[s].past = call[s].past

Busy(s) == s \in Senders /\ call[s].notice \in Notices /\ call[s] \in SendCall

LEMMA Sorts ==
  ASSUME Typed
  PROVE  NoticesOK /\ CallsOK /\ RecordsOK /\ OthersOK
  BY DEF Typed

LEMMA BusySender ==
  ASSUME CallsOK, NEW s \in Senders, call[s].stage # "idle"
  PROVE  Busy(s)
  BY DEF CallsOK, Busy

\* Claim, where the notification can be claimed ...
LEMMA ClaimEffect ==
  ASSUME Typed, NEW s \in Senders, Claim(s), Claimable(call[s].notice)
  PROVE  /\ Typed' /\ Busy(s) /\ call[s].stage = "claim"
         /\ Moves(s, "users") /\ KeepsPushes(s)
         /\ call'[s].ticket = <<claims[call[s].notice] + 1, 0>>
         /\ \A n \in Notices :
              IF n = call[s].notice
              THEN /\ claims'[n] = claims[n] + 1
                   /\ notice'[n].processing /\ ~notice'[n].stale
                   /\ notice'[n].sent = notice[n].sent
                   /\ notice'[n].delivered = notice[n].delivered
                   /\ notice'[n].failed = notice[n].failed
                   /\ notice'[n].failedTokens = notice[n].failedTokens
              ELSE claims'[n] = claims[n] /\ notice'[n] = notice[n]
<1> DEFINE n == call[s].notice
           c == [call[s] EXCEPT !.stage = "users", !.ticket = <<claims[n] + 1, 0>>]
           d == [notice[n] EXCEPT !.processing = TRUE, !.stale = FALSE]
<1>1. Busy(s) /\ call[s].stage = "claim" /\ notice[n] \in Notification
      /\ claims[n] \in Nat /\ claims[n] + 1 \in Nat
  BY Sorts, BusySender DEF Claim, Busy, NoticesOK
<1>2. /\ c \in SendCall /\ c.stage = "users" /\ c.notice = n /\ c.ticket = <<claims[n] + 1, 0>>
      /\ c.left = call[s].left /\ c.ok = call[s].ok /\ c.bad = call[s].bad
      /\ c.past = call[s].past
  <2> DEFINE t == <<claims[n] + 1, 0>>
  <2>1. t \in Tickets
    BY <1>1 DEF Tickets
  <2> HIDE DEF t
  <2> SUFFICES LET e == [call[s] EXCEPT !.stage = "users", !.ticket = t] IN
               /\ e \in SendCall /\ e.stage = "users" /\ e.notice = n /\ e.ticket = t
               /\ e.left = call[s].left /\ e.ok = call[s].ok /\ e.bad = call[s].bad
               /\ e.past = call[s].past
    BY DEF t
  <2> QED
    BY <1>1, <2>1 DEF Busy, SendCall, Stages
<1>3. /\ d \in Notification /\ d.processing /\ ~d.stale /\ d.sent = notice[n].sent
      /\ d.delivered = notice[n].delivered /\ d.failed = notice[n].failed
      /\ d.failedTokens = notice[n].failedTokens
  BY <1>1 DEF Notification
<1>4. call' = [call EXCEPT ![s] = c] /\ notice' = [notice EXCEPT ![n] = d]
      /\ claims' = [claims EXCEPT ![n] = @ + 1]
  BY DEF Claim
<1>5. call'[s] = c /\ CallsOK' /\ \A q \in Senders \ {s} : call'[q] = call[q]
  <2> HIDE DEF c
  <2> QED
    BY <1>1, <1>2, <1>4, CallStep, Sorts DEF Busy
<1>6. /\ notice' \in [Notices -> Notification]
      /\ notice'[n] = d /\ \A o \in Notices \ {n} : notice'[o] = notice[o]
  <2> HIDE DEF d
  <2> QED
    BY <1>1, <1>3, <1>4, NoticeStep, Sorts DEF Busy
<1>7. /\ claims' \in [Notices -> Nat]
      /\ \A o \in Notices : claims'[o] = IF o = n THEN claims[o] + 1 ELSE claims[o]
  BY <1>1, <1>4, Sorts DEF Busy, NoticesOK
<1>8. RecordsOK' /\ OthersOK'
  BY <1>1, Sorts DEF Claim, Busy, RecordsOK, OthersOK, memberVars, pushVars, boundVars
<1> HIDE DEF c, d
<1> QED
  BY <1>1, <1>2, <1>3, <1>5, <1>6, <1>7, <1>8
  DEF Typed, NoticesOK, Moves, KeepsPushes

\* ... and where it is left to who has claimed it.
LEMMA ClaimNotEffect ==
  ASSUME Typed, NEW s \in Senders, Claim(s), ~Claimable(call[s].notice)
  PROVE  Typed' /\ Finish(s) /\ UNCHANGED <<noticeVars, disturbed>>
  BY FinishKeepsCalls DEF Claim, Typed, NoticesOK, RecordsOK, OthersOK, noticeVars,
                          memberVars, pushVars, boundVars

LEMMA ReadUsersEffect ==
  ASSUME Typed, NEW s \in Senders, ReadUsers(s)
  PROVE  /\ Typed' /\ Busy(s) /\ call[s].stage = "users"
         /\ Moves(s, "tokens") /\ KeepsTicket(s) /\ KeepsPushes(s)
         /\ call'[s].users = wants
<1> DEFINE c == [call[s] EXCEPT !.stage = "tokens", !.users = wants]
<1>1. Busy(s) /\ call[s].stage = "users"
  BY Sorts, BusySender DEF ReadUsers
<1>2. /\ c \in SendCall /\ c.stage = "tokens" /\ c.notice = call[s].notice
      /\ c.ticket = call[s].ticket /\ c.users = wants
      /\ c.left = call[s].left /\ c.ok = call[s].ok /\ c.bad = call[s].bad
      /\ c.past = call[s].past
  BY <1>1, Sorts DEF OthersOK, Busy, SendCall, Stages
<1>3. call' = [call EXCEPT ![s] = c]
  BY DEF ReadUsers
<1>4. NoticesOK' /\ RecordsOK' /\ OthersOK'
  BY Sorts DEF ReadUsers, NoticesOK, RecordsOK, OthersOK, noticeVars, memberVars,
               pushVars, historyVars, boundVars
<1> HIDE DEF c
<1> QED
  BY <1>1, <1>2, <1>3, <1>4, CallStep, Sorts DEF Typed, Busy, Moves, KeepsTicket, KeepsPushes

LEMMA ReadTokensEffect ==
  ASSUME Typed, NEW s \in Senders, ReadTokens(s)
  PROVE  /\ Typed' /\ Busy(s) /\ call[s].stage = "tokens"
         /\ Moves(s, "items") /\ KeepsTicket(s) /\ call'[s].users = call[s].users
         /\ call'[s].left = wants \intersect tokens
         /\ call'[s].ok = call[s].ok /\ call'[s].bad = call[s].bad
         /\ call'[s].past = call[s].past
<1> DEFINE c == [call[s] EXCEPT !.stage = "items", !.left = wants \intersect tokens]
<1>1. Busy(s) /\ call[s].stage = "tokens"
  BY Sorts, BusySender DEF ReadTokens
<1>2. /\ c \in SendCall /\ c.stage = "items" /\ c.notice = call[s].notice
      /\ c.ticket = call[s].ticket /\ c.users = call[s].users
      /\ c.left = wants \intersect tokens /\ c.ok = call[s].ok /\ c.bad = call[s].bad
      /\ c.past = call[s].past
  BY <1>1, Sorts DEF OthersOK, Busy, SendCall, Stages
<1>3. call' = [call EXCEPT ![s] = c]
  BY DEF ReadTokens
<1>4. NoticesOK' /\ RecordsOK' /\ OthersOK'
  BY Sorts DEF ReadTokens, NoticesOK, RecordsOK, OthersOK, noticeVars, memberVars,
               pushVars, historyVars, boundVars
<1> HIDE DEF c
<1> QED
  BY <1>1, <1>2, <1>3, <1>4, CallStep, Sorts DEF Typed, Busy, Moves, KeepsTicket

LEMMA CreateItemsEffect ==
  ASSUME Typed, NEW s \in Senders, CreateItems(s)
  PROVE  /\ Typed' /\ Busy(s) /\ call[s].stage = "items"
         /\ Moves(s, IF call[s].left = {} THEN "save" ELSE "push")
         /\ KeepsTicket(s) /\ call'[s].users = call[s].users /\ KeepsPushes(s)
<1>1. Busy(s) /\ call[s].stage = "items"
  BY Sorts, BusySender DEF CreateItems
<1>2. NoticesOK' /\ RecordsOK' /\ OthersOK'
  BY <1>1, Sorts DEF CreateItems, Busy, SendCall, NoticesOK, RecordsOK, OthersOK, noticeVars,
               memberVars, pushVars, historyVars, boundVars
<1>3. (IF call[s].left = {} THEN "save" ELSE "push") \in Stages
  BY DEF Stages
<1> QED
  BY <1>1, <1>2, <1>3, GotoKeepsCalls, Sorts
  DEF CreateItems, Typed, Moves, KeepsTicket, KeepsPushes

\* A round of pushes, or a call that throws: of those left, ok get a ticket, again
\* are tried again, and the others have failed; g is the stage that follows.
PushStep(s, ok, again, g) ==
  LET n == call[s].notice IN
  /\ ok \intersect again = {} /\ (g = "record" => again = {})
  /\ Moves(s, g) /\ KeepsTicket(s) /\ call'[s].users = call[s].users
  /\ call'[s].left = again /\ call'[s].ok = call[s].ok \union ok
  /\ call'[s].bad = call[s].bad \union (call[s].left \ (ok \union again))
  /\ \E old \in Old :
       /\ call'[s].past = NoPast => old = NoOld
       /\ checks' \in {checks, checks \union
                      {[notice |-> n, ticket |-> call[s].ticket,
                        left |-> call[s].ok \union ok, good |-> {}, bad |-> {}, old |-> old]}}
       /\ g = "push" => checks' = checks
  /\ \/ call'[s].past = call[s].past /\ disturbed' = disturbed
     \/ disturbed' = disturbed \union {n}
  /\ \A m \in Members :
       /\ pushed[<<n, m>>] <= doubts[<<n, m>>]
            => pushed'[<<n, m>>] <= doubts'[<<n, m>>] + (IF m \in ok THEN 1 ELSE 0)
       /\ m \notin ok /\ pushed[<<n, m>>] <= 1 + doubts[<<n, m>>]
            => pushed'[<<n, m>>] <= 1 + doubts'[<<n, m>>]
       /\ pushed'[<<n, m>>] > 0 => pushed[<<n, m>>] > 0 \/ m \in call[s].left
  /\ \A o \in Notices \ {n}, m \in Members :
       pushed'[<<o, m>>] = pushed[<<o, m>>] /\ doubts'[<<o, m>>] = doubts[<<o, m>>]
  /\ UNCHANGED <<noticeVars, delivery, inbox, wants, changed, unlocked, lost>>

\* What one more push for each member of took does to the history.
LEMMA TookEffect ==
  ASSUME Typed, NEW s \in Senders, Busy(s), NEW took \in SUBSET call[s].left,
         NEW known \in BOOLEAN, Took(s, took, known)
  PROVE  LET n == call[s].notice IN
         /\ pushed' \in [Notices \X Members -> Nat] /\ doubts' \in [Notices \X Members -> Nat]
         /\ \A m \in Members :
              /\ pushed[<<n, m>>] <= doubts[<<n, m>>]
                   => pushed'[<<n, m>>] <= doubts'[<<n, m>>]
                                             + (IF known /\ m \in took THEN 1 ELSE 0)
              /\ ~(known /\ m \in took) /\ pushed[<<n, m>>] <= 1 + doubts[<<n, m>>]
                   => pushed'[<<n, m>>] <= 1 + doubts'[<<n, m>>]
              /\ pushed'[<<n, m>>] > 0 => pushed[<<n, m>>] > 0 \/ m \in call[s].left
         /\ \A o \in Notices \ {n}, m \in Members :
              pushed'[<<o, m>>] = pushed[<<o, m>>] /\ doubts'[<<o, m>>] = doubts[<<o, m>>]
<1> DEFINE n == call[s].notice
<1>1. took \in SUBSET Members
  BY DEF Busy, SendCall
<1>2. pushed' \in [Notices \X Members -> Nat] /\ doubts' \in [Notices \X Members -> Nat]
  BY <1>1, TookKeepsType, Sorts
<1>3. \A k \in Notices \X Members :
        /\ pushed'[k] = IF k \in {n} \X took THEN pushed[k] + 1 ELSE pushed[k]
        /\ doubts'[k] = IF ~known /\ k \in {n} \X took THEN doubts[k] + 1 ELSE doubts[k]
  BY Sorts DEF Took, RecordsOK
<1> QED
  BY <1>1, <1>2, <1>3, Sorts DEF Busy, RecordsOK

\* The pushes go on with another round ...
LEMMA NextRound ==
  ASSUME Typed, NEW s \in Senders, Busy(s), call[s].stage = "push", call[s].round < MaxRounds,
         NEW again \in SUBSET Members, NEW ok \in SUBSET Members, NEW bad \in SUBSET Members,
         NEW past \in Past, Again(s, again, ok, bad, past)
  PROVE  /\ CallsOK' /\ Moves(s, "push") /\ KeepsTicket(s) /\ call'[s].users = call[s].users
         /\ call'[s].left = again /\ call'[s].ok = ok /\ call'[s].bad = bad
         /\ call'[s].past = past
<1> DEFINE r == call[s].round + 1
           c == [call[s] EXCEPT !.left = again, !.ok = ok, !.bad = bad, !.past = past, !.round = r]
<1>1. r \in 1 .. MaxRounds
  BY AdminNotificationAssumption DEF Busy, SendCall
<1>2. /\ c \in SendCall /\ c.stage = "push" /\ c.notice = call[s].notice
      /\ c.ticket = call[s].ticket /\ c.users = call[s].users /\ c.left = again
      /\ c.ok = ok /\ c.bad = bad /\ c.past = past
  <2> HIDE DEF r
  <2> QED
    BY <1>1 DEF Busy, SendCall, Stages
<1>3. call' = [call EXCEPT ![s] = c]
  BY DEF Again
<1> HIDE DEF c
<1> QED
  BY <1>2, <1>3, CallStep, Sorts DEF Busy, Moves, KeepsTicket

\* ... or have all been tried.
LEMMA LastRound ==
  ASSUME Typed, NEW s \in Senders, Busy(s), call[s].stage = "push",
         NEW ok \in SUBSET Members, NEW bad \in SUBSET Members, NEW past \in Past,
         Pushed(s, ok, bad, past)
  PROVE  /\ CallsOK' /\ Moves(s, "record") /\ KeepsTicket(s) /\ call'[s].users = call[s].users
         /\ call'[s].left = {} /\ call'[s].ok = ok /\ call'[s].bad = bad
         /\ call'[s].past = past /\ checks' \subseteq ReceiptCheck
         /\ NewCheck(s, ok, past)
  BY PushedEffect DEF Moves, KeepsTicket

LEMMA PushRoundEffect ==
  ASSUME Typed, NEW s \in Senders, PushRound(s)
  PROVE  /\ Typed' /\ Busy(s) /\ call[s].stage = "push"
         /\ \E ok, again \in SUBSET call[s].left, g \in {"push", "record"} :
              PushStep(s, ok, again, g)
<1> DEFINE n == call[s].notice
<1>1. Busy(s) /\ call[s].stage = "push"
  BY Sorts, BusySender DEF PushRound
<1>2. PICK ok \in SUBSET call[s].left, again \in SUBSET call[s].left,
           gone \in SUBSET call[s].left :
        LET bad == call[s].bad \union (call[s].left \ (ok \union again)) IN
        /\ ok \intersect again = {}
        /\ Took(s, ok, TRUE)
        /\ tokens' = tokens \ gone
        /\ \/ /\ again = {}
              /\ Pushed(s, call[s].ok \union ok, bad, call[s].past)
           \/ /\ again # {} /\ call[s].round < MaxRounds
              /\ call' = [call EXCEPT ![s] = [@ EXCEPT !.left = again, !.ok = call[s].ok \union ok,
                                                     !.bad = bad, !.round = call[s].round + 1]]
              /\ UNCHANGED checks
  BY DEF PushRound
<1> DEFINE bad == call[s].bad \union (call[s].left \ (ok \union again))
           oks == call[s].ok \union ok
<1>3. /\ ok \in SUBSET Members /\ again \in SUBSET Members /\ bad \in SUBSET Members
      /\ oks \in SUBSET Members /\ call[s].past \in Past
  BY <1>1 DEF Busy, SendCall
<1>4. /\ NoticesOK' /\ OthersOK'
      /\ UNCHANGED <<noticeVars, delivery, inbox, wants, changed, historyVars>>
  BY <1>2, Sorts DEF PushRound, NoticesOK, OthersOK, noticeVars, historyVars, boundVars
<1>5. /\ pushed' \in [Notices \X Members -> Nat] /\ doubts' \in [Notices \X Members -> Nat]
      /\ \A m \in Members :
           /\ pushed[<<n, m>>] <= doubts[<<n, m>>]
                => pushed'[<<n, m>>] <= doubts'[<<n, m>>] + (IF m \in ok THEN 1 ELSE 0)
           /\ m \notin ok /\ pushed[<<n, m>>] <= 1 + doubts[<<n, m>>]
                => pushed'[<<n, m>>] <= 1 + doubts'[<<n, m>>]
           /\ pushed'[<<n, m>>] > 0 => pushed[<<n, m>>] > 0 \/ m \in call[s].left
      /\ \A o \in Notices \ {n}, m \in Members :
           pushed'[<<o, m>>] = pushed[<<o, m>>] /\ doubts'[<<o, m>>] = doubts[<<o, m>>]
  BY <1>1, <1>2, TookEffect
<1>6. CASE again = {} /\ Pushed(s, oks, bad, call[s].past)
  <2>1. /\ CallsOK' /\ Moves(s, "record") /\ KeepsTicket(s) /\ call'[s].users = call[s].users
        /\ call'[s].left = {} /\ call'[s].ok = oks /\ call'[s].bad = bad
        /\ call'[s].past = call[s].past /\ checks' \subseteq ReceiptCheck
        /\ NewCheck(s, oks, call[s].past)
    <3> HIDE DEF oks, bad
    <3> QED
      BY <1>1, <1>3, <1>6, LastRound
  <2>2. Typed'
    BY <1>4, <1>5, <2>1, Sorts DEF Typed, RecordsOK
  <2>3. PushStep(s, ok, again, "record")
    BY <1>2, <1>4, <1>5, <1>6, <2>1 DEF PushStep, NewCheck, historyVars
  <2> QED
    BY <1>1, <2>2, <2>3
<1>7. CASE /\ again # {} /\ call[s].round < MaxRounds
           /\ call' = [call EXCEPT ![s] = [@ EXCEPT !.left = again, !.ok = call[s].ok \union ok,
                                                  !.bad = bad, !.round = call[s].round + 1]]
           /\ UNCHANGED checks
  <2> DEFINE past == call[s].past
  <2>1. Again(s, again, oks, bad, past)
    BY <1>1, <1>7 DEF Again, Busy, SendCall
  <2>2. /\ CallsOK' /\ Moves(s, "push") /\ KeepsTicket(s) /\ call'[s].users = call[s].users
        /\ call'[s].left = again /\ call'[s].ok = oks /\ call'[s].bad = bad
        /\ call'[s].past = past
    <3> HIDE DEF oks, bad, past
    <3>1. past \in Past
      BY <1>3 DEF past
    <3> QED
      BY <1>1, <1>3, <1>7, <2>1, <3>1, NextRound
  <2>3. Typed'
    BY <1>4, <1>5, <1>7, <2>2, Sorts DEF Typed, RecordsOK
  <2>4. PushStep(s, ok, again, "push")
    BY <1>2, <1>4, <1>5, <1>7, <2>2, Nothing DEF PushStep, historyVars
  <2> QED
    BY <1>1, <2>3, <2>4
<1> QED
  BY <1>2, <1>6, <1>7

\* A round that fails, by its call or after the answer: those left are tried again,
\* or have failed.
LEMMA FailedRound ==
  ASSUME Typed, NEW s \in Senders, Busy(s), call[s].stage = "push",
         NEW took \in SUBSET call[s].left, Took(s, took, FALSE), NEW past \in Past,
         \/ /\ call[s].round < MaxRounds
            /\ call' = [call EXCEPT ![s] = [@ EXCEPT !.past = past, !.round = call[s].round + 1]]
            /\ UNCHANGED checks
         \/ Pushed(s, call[s].ok, call[s].bad \union call[s].left, past),
         NoticesOK', OthersOK',
         UNCHANGED <<noticeVars, delivery, inbox, wants, changed, unlocked, lost>>,
         \/ past = call[s].past /\ disturbed' = disturbed
         \/ disturbed' = disturbed \union {call[s].notice}
  PROVE  /\ Typed'
         /\ \E ok, again \in SUBSET call[s].left, g \in {"push", "record"} :
              PushStep(s, ok, again, g)
<1> DEFINE n == call[s].notice
           left == call[s].left
           oks == call[s].ok
           bad == call[s].bad
           all == call[s].bad \union call[s].left
<1>1. /\ left \in SUBSET Members /\ oks \in SUBSET Members /\ bad \in SUBSET Members
      /\ all \in SUBSET Members
  BY DEF Busy, SendCall
<1>2. /\ pushed' \in [Notices \X Members -> Nat] /\ doubts' \in [Notices \X Members -> Nat]
      /\ \A m \in Members :
           /\ pushed[<<n, m>>] <= doubts[<<n, m>>]
                => pushed'[<<n, m>>] <= doubts'[<<n, m>>]
           /\ pushed[<<n, m>>] <= 1 + doubts[<<n, m>>]
                => pushed'[<<n, m>>] <= 1 + doubts'[<<n, m>>]
           /\ pushed'[<<n, m>>] > 0 => pushed[<<n, m>>] > 0 \/ m \in call[s].left
           /\ doubts'[<<n, m>>] + 0 = doubts'[<<n, m>>]
      /\ \A o \in Notices \ {n}, m \in Members :
           pushed'[<<o, m>>] = pushed[<<o, m>>] /\ doubts'[<<o, m>>] = doubts[<<o, m>>]
  <2>1. /\ pushed' \in [Notices \X Members -> Nat] /\ doubts' \in [Notices \X Members -> Nat]
        /\ \A m \in Members :
             /\ pushed[<<n, m>>] <= doubts[<<n, m>>]
                  => pushed'[<<n, m>>] <= doubts'[<<n, m>>]
                                            + (IF FALSE /\ m \in took THEN 1 ELSE 0)
             /\ ~(FALSE /\ m \in took) /\ pushed[<<n, m>>] <= 1 + doubts[<<n, m>>]
                  => pushed'[<<n, m>>] <= 1 + doubts'[<<n, m>>]
             /\ pushed'[<<n, m>>] > 0 => pushed[<<n, m>>] > 0 \/ m \in call[s].left
        /\ \A o \in Notices \ {n}, m \in Members :
             pushed'[<<o, m>>] = pushed[<<o, m>>] /\ doubts'[<<o, m>>] = doubts[<<o, m>>]
    BY TookEffect
  <2>2. n \in Notices
    BY DEF Busy
  <2> QED
    BY <2>1, <2>2
<1>3. CASE Pushed(s, oks, all, past)
  <2>1. /\ CallsOK' /\ Moves(s, "record") /\ KeepsTicket(s) /\ call'[s].users = call[s].users
        /\ call'[s].left = {} /\ call'[s].ok = oks /\ call'[s].bad = all
        /\ call'[s].past = past /\ checks' \subseteq ReceiptCheck
        /\ NewCheck(s, oks, past)
    <3> HIDE DEF oks, all
    <3> QED
      BY <1>1, <1>3, LastRound
  <2>2. Typed'
    BY <1>2, <2>1, Sorts DEF Typed, RecordsOK
  <2>3. oks \union {} = oks /\ bad \union (left \ ({} \union {})) = all
    OBVIOUS
  <2>4. PushStep(s, {}, {}, "record")
    BY <1>2, <2>1, <2>3 DEF PushStep, NewCheck
  <2> QED
    BY <2>2, <2>4
<1>4. CASE /\ call[s].round < MaxRounds
           /\ call' = [call EXCEPT ![s] = [@ EXCEPT !.past = past, !.round = call[s].round + 1]]
           /\ UNCHANGED checks
  <2>1. Again(s, left, oks, bad, past)
    BY <1>4 DEF Again, Busy, SendCall
  <2>2. /\ CallsOK' /\ Moves(s, "push") /\ KeepsTicket(s) /\ call'[s].users = call[s].users
        /\ call'[s].left = left /\ call'[s].ok = oks /\ call'[s].bad = bad
        /\ call'[s].past = past
    <3> HIDE DEF left, oks, bad
    <3> QED
      BY <1>1, <1>4, <2>1, NextRound
  <2>3. Typed'
    BY <1>2, <1>4, <2>2, Sorts DEF Typed, RecordsOK
  <2>4. oks \union {} = oks /\ bad \union (left \ ({} \union left)) = bad
    OBVIOUS
  <2>5. PushStep(s, {}, left, "push")
    BY <1>2, <1>4, <2>2, <2>4, Nothing DEF PushStep
  <2> QED
    BY <2>3, <2>5
<1> QED
  BY <1>3, <1>4

LEMMA PushThrowsEffect ==
  ASSUME Typed, NEW s \in Senders, PushThrows(s)
  PROVE  /\ Typed' /\ Busy(s) /\ call[s].stage = "push"
         /\ \E ok, again \in SUBSET call[s].left, g \in {"push", "record"} :
              PushStep(s, ok, again, g)
<1>1. Busy(s) /\ call[s].stage = "push"
  BY Sorts, BusySender DEF PushThrows
<1>2. PICK took \in SUBSET call[s].left : Took(s, took, FALSE)
  BY DEF PushThrows
<1>3. /\ NoticesOK' /\ OthersOK'
      /\ UNCHANGED <<noticeVars, delivery, inbox, wants, changed, unlocked, lost, disturbed>>
  BY Sorts DEF PushThrows, NoticesOK, OthersOK, noticeVars, memberVars, historyVars, boundVars
<1> DEFINE past == call[s].past
<1>4. \/ /\ call[s].round < MaxRounds
         /\ call' = [call EXCEPT ![s] = [@ EXCEPT !.past = past, !.round = call[s].round + 1]]
         /\ UNCHANGED checks
      \/ Pushed(s, call[s].ok, call[s].bad \union call[s].left, past)
  BY <1>1 DEF PushThrows, Busy, SendCall
<1>5. past \in Past /\ past = call[s].past
  BY <1>1 DEF Busy, SendCall
<1> HIDE DEF past
<1> QED
  BY <1>1, <1>2, <1>3, <1>4, <1>5, FailedRound

LEMMA DeactivationEffect ==
  ASSUME Typed, NEW s \in Senders, DeactivationThrows(s)
  PROVE  /\ Typed' /\ Busy(s) /\ call[s].stage = "push"
         /\ \E ok, again \in SUBSET call[s].left, g \in {"push", "record"} :
              PushStep(s, ok, again, g)
<1>1. Busy(s) /\ call[s].stage = "push"
  BY Sorts, BusySender DEF DeactivationThrows
<1>2. PICK took \in SUBSET call[s].left, ok \in SUBSET call[s].left,
           bad \in SUBSET call[s].left, gone \in SUBSET call[s].left :
        LET past == [ok   |-> call[s].past.ok \union (ok \X {call[s].round}),
                     bad  |-> call[s].past.bad \union (bad \X {call[s].round}),
                     last |-> [m \in Members |-> IF m \in ok THEN call[s].round
                                                 ELSE call[s].past.last[m]]] IN
        /\ Took(s, took, FALSE)
        /\ tokens' = tokens \ gone
        /\ \/ /\ call[s].round < MaxRounds
              /\ call' = [call EXCEPT ![s] = [@ EXCEPT !.past = past, !.round = call[s].round + 1]]
              /\ UNCHANGED checks
           \/ /\ call[s].round = MaxRounds
              /\ Pushed(s, call[s].ok, call[s].bad \union call[s].left, past)
  BY DEF DeactivationThrows
<1> DEFINE past == [ok   |-> call[s].past.ok \union (ok \X {call[s].round}),
                    bad  |-> call[s].past.bad \union (bad \X {call[s].round}),
                    last |-> [m \in Members |-> IF m \in ok THEN call[s].round
                                                ELSE call[s].past.last[m]]]
<1>3. past \in Past
  <2>1. /\ ok \X {call[s].round} \subseteq Members \X (1 .. MaxRounds)
        /\ bad \X {call[s].round} \subseteq Members \X (1 .. MaxRounds)
    BY <1>1 DEF Busy, SendCall
  <2>2. call[s].past \in Past /\ call[s].round \in Nat
    BY <1>1, AdminNotificationAssumption DEF Busy, SendCall
  <2>3. [m \in Members |-> IF m \in ok THEN call[s].round ELSE call[s].past.last[m]]
          \in [Members -> Nat]
    BY <2>2 DEF Past
  <2> QED
    BY <2>1, <2>2, <2>3 DEF Past, Replaced
<1>4. /\ NoticesOK' /\ OthersOK'
      /\ UNCHANGED <<noticeVars, delivery, inbox, wants, changed, unlocked, lost>>
      /\ disturbed' = disturbed \union {call[s].notice}
  BY <1>1, <1>2, Sorts, AdminNotificationAssumption
  DEF DeactivationThrows, Busy, NoticesOK, OthersOK, noticeVars
<1>5. \/ /\ call[s].round < MaxRounds
         /\ call' = [call EXCEPT ![s] = [@ EXCEPT !.past = past, !.round = call[s].round + 1]]
         /\ UNCHANGED checks
      \/ Pushed(s, call[s].ok, call[s].bad \union call[s].left, past)
  BY <1>2
<1> HIDE DEF past
<1> QED
  BY <1>1, <1>2, <1>3, <1>4, <1>5, FailedRound

LEMMA RecordEffect ==
  ASSUME Typed, NEW s \in Senders, RecordDeliveries(s)
  PROVE  /\ Typed' /\ Busy(s) /\ call[s].stage = "record"
         /\ Moves(s, "save") /\ KeepsTicket(s) /\ call'[s].users = call[s].users
         /\ KeepsPushes(s)
         /\ \A m \in Members :
              /\ delivery'[<<call[s].notice, m>>].status =
                   IF m \in call[s].ok THEN "accepted" ELSE IF m \in call[s].bad THEN "failed"
                   ELSE delivery[<<call[s].notice, m>>].status
              /\ m \in call[s].ok
                   => delivery'[<<call[s].notice, m>>].ticket = call[s].ticket
         /\ \A o \in Notices \ {call[s].notice}, m \in Members :
              delivery'[<<o, m>>] = delivery[<<o, m>>]
<1> DEFINE n == call[s].notice
<1> DEFINE U(k) == IF call[s].past.last[k[2]] = 0 THEN delivery[k].ticket
                   ELSE <<call[s].ticket[1], call[s].past.last[k[2]]>>
<1>1. /\ Busy(s) /\ call[s].stage = "record" /\ call[s].ticket \in Tickets
      /\ call[s].past.last \in [Members -> Nat]
  BY Sorts, BusySender DEF RecordDeliveries, Busy, SendCall, Past
<1>2. delivery' = [k \in Notices \X Members |->
        IF k \in {n} \X call[s].ok THEN [ticket |-> call[s].ticket, status |-> "accepted"]
        ELSE IF k \in {n} \X call[s].bad THEN [ticket |-> U(k), status |-> "failed"]
        ELSE delivery[k]]
  BY DEF RecordDeliveries
<1>3. \A k \in Notices \X Members :
        delivery[k] \in [ticket: Tickets, status: Statuses] /\ U(k) \in Tickets
  BY <1>1, Sorts DEF RecordsOK, Tickets
<1> HIDE DEF U
<1>4. delivery' \in [Notices \X Members -> [ticket: Tickets, status: Statuses]]
  BY <1>1, <1>2, <1>3 DEF Statuses
<1>5. CallsOK' /\ Moves(s, "save") /\ KeepsTicket(s) /\ call'[s].users = call[s].users
      /\ KeepsPushes(s)
  BY <1>1, GotoKeepsCalls, Sorts DEF RecordDeliveries, Stages, Moves, KeepsTicket, KeepsPushes
<1>6. NoticesOK' /\ RecordsOK' /\ OthersOK'
  BY <1>4, Sorts DEF RecordDeliveries, NoticesOK, RecordsOK, OthersOK, noticeVars, memberVars,
                     pushVars, historyVars, boundVars
<1> QED
  BY <1>1, <1>2, <1>3, <1>5, <1>6 DEF Typed, Busy

\* The sender is done, or has stopped.
Leaves(s) == call'[s] = Idle /\ \A q \in Senders \ {s} : call'[q] = call[q]

LEMMA SaveEffect ==
  ASSUME Typed, NEW s \in Senders, SaveNotice(s)
  PROVE  /\ Typed' /\ Busy(s) /\ call[s].stage = "save" /\ Leaves(s)
         /\ \A n \in Notices :
              IF n = call[s].notice
              THEN /\ notice'[n].sent
                   /\ notice'[n].delivered = 0
                   /\ call[s].past = NoPast =>
                        /\ notice'[n].failed = Cardinality(call[s].bad)
                        /\ notice'[n].failedTokens =
                             IF call[s].ok \union call[s].bad = {} THEN notice[n].failedTokens
                             ELSE call[s].bad
              ELSE notice'[n] = notice[n]
<1> DEFINE n == call[s].notice
           acc == Cardinality(call[s].ok) + Cardinality(call[s].past.ok)
           fail == Cardinality(call[s].bad) + Cardinality(call[s].past.bad)
           toks == IF call[s].ok \union call[s].bad = {} THEN notice[n].failedTokens
                   ELSE call[s].bad \union {p[1] : p \in call[s].past.bad}
           d == [notice[n] EXCEPT !.sent = TRUE, !.processing = FALSE, !.stale = FALSE,
                                  !.accepted = acc, !.delivered = 0,
                                  !.failed = fail, !.failedTokens = toks]
<1>1. Busy(s) /\ call[s].stage = "save" /\ notice[n] \in Notification
  BY Sorts, BusySender DEF SaveNotice, Busy, NoticesOK
<1>2. notice' = [notice EXCEPT ![n] = d]
  BY DEF SaveNotice
<1>3. acc \in Nat /\ fail \in Nat /\ toks \in SUBSET Members
  <2>1. /\ call[s].ok \in SUBSET Members /\ call[s].bad \in SUBSET Members
        /\ call[s].past.ok \in Replaced /\ call[s].past.bad \in Replaced
        /\ notice[n].failedTokens \in SUBSET Members
    BY <1>1 DEF Busy, SendCall, Past, Notification
  <2>2. {p[1] : p \in call[s].past.bad} \subseteq Members
    BY <2>1 DEF Replaced
  <2>3. /\ Cardinality(call[s].ok) \in Nat /\ Cardinality(call[s].bad) \in Nat
        /\ Cardinality(call[s].past.ok) \in Nat /\ Cardinality(call[s].past.bad) \in Nat
    BY <2>1, Counting, CountingOld
  <2> QED
    BY <2>1, <2>2, <2>3
<1>4. /\ d \in Notification /\ d.sent /\ d.delivered = 0 /\ d.failed = fail
      /\ d.failedTokens = toks
  <2> HIDE DEF acc, fail, toks
  <2> QED
    BY <1>1, <1>3 DEF Notification
<1>5. /\ notice' \in [Notices -> Notification]
      /\ notice'[n] = d /\ \A o \in Notices \ {n} : notice'[o] = notice[o]
  <2> HIDE DEF d
  <2> QED
    BY <1>1, <1>2, <1>4, NoticeStep, Sorts DEF Busy
<1>6. CallsOK' /\ Leaves(s)
  BY FinishKeepsCalls, Sorts DEF SaveNotice, Leaves
<1>7. claims' \in [Notices -> Nat] /\ RecordsOK' /\ OthersOK'
  BY Sorts DEF SaveNotice, NoticesOK, RecordsOK, OthersOK, memberVars, pushVars, historyVars,
               boundVars
<1>8. call[s].past = NoPast =>
        /\ fail = Cardinality(call[s].bad)
        /\ toks = IF call[s].ok \union call[s].bad = {} THEN notice[n].failedTokens
                  ELSE call[s].bad
  <2> SUFFICES ASSUME call[s].past = NoPast
               PROVE  /\ fail = Cardinality(call[s].bad)
                      /\ toks = IF call[s].ok \union call[s].bad = {}
                                THEN notice[n].failedTokens ELSE call[s].bad
    OBVIOUS
  <2>0. call[s].past.ok = {} /\ call[s].past.bad = {}
    BY Nothing
  <2>1. Cardinality(call[s].past.bad) = 0 /\ Cardinality(call[s].bad) \in Nat
    BY <1>1, <2>0, Counting DEF Busy, SendCall
  <2>2. {p[1] : p \in call[s].past.bad} = {}
    BY <2>0
  <2>3. fail = Cardinality(call[s].bad)
    BY <2>1
  <2>4. call[s].bad \union {} = call[s].bad
    OBVIOUS
  <2>5. toks = IF call[s].ok \union call[s].bad = {} THEN notice[n].failedTokens
               ELSE call[s].bad
    BY <2>2, <2>4, Zenon
  <2> QED
    BY <2>3, <2>5
<1> HIDE DEF d, fail, toks
<1> QED
  BY <1>1, <1>4, <1>5, <1>6, <1>7, <1>8 DEF Typed, NoticesOK

\* The statistics of a notification, and whether it is sent, stay as they are.
KeepsRecord(n) ==
  /\ notice'[n].sent = notice[n].sent
  /\ notice'[n].delivered = notice[n].delivered
  /\ notice'[n].failed = notice[n].failed
  /\ notice'[n].failedTokens = notice[n].failedTokens

LEMMA ResetEffect ==
  ASSUME Typed, NEW s \in Senders, ResetClaim(s)
  PROVE  /\ Typed' /\ Busy(s) /\ call[s].stage = "reset" /\ Leaves(s)
         /\ \A n \in Notices :
              /\ KeepsRecord(n)
              /\ n # call[s].notice => notice'[n] = notice[n]
<1> DEFINE n == call[s].notice
           d == [notice[n] EXCEPT !.processing = FALSE, !.stale = FALSE]
<1>1. Busy(s) /\ call[s].stage = "reset" /\ notice[n] \in Notification
  BY Sorts, BusySender DEF ResetClaim, Busy, NoticesOK
<1>2. notice' = [notice EXCEPT ![n] = d]
  BY DEF ResetClaim
<1>3. /\ d \in Notification /\ d.sent = notice[n].sent
      /\ d.delivered = notice[n].delivered /\ d.failed = notice[n].failed
      /\ d.failedTokens = notice[n].failedTokens
  BY <1>1 DEF Notification
<1>4. /\ notice' \in [Notices -> Notification]
      /\ notice'[n] = d /\ \A o \in Notices \ {n} : notice'[o] = notice[o]
  <2> HIDE DEF d
  <2> QED
    BY <1>1, <1>2, <1>3, NoticeStep, Sorts DEF Busy
<1>5. CallsOK' /\ Leaves(s)
  BY FinishKeepsCalls, Sorts DEF ResetClaim, Leaves
<1>6. claims' \in [Notices -> Nat] /\ RecordsOK' /\ OthersOK'
  BY <1>1, Sorts DEF ResetClaim, Busy, NoticesOK, RecordsOK, OthersOK, memberVars, pushVars,
                     boundVars
<1> HIDE DEF d
<1> QED
  BY <1>1, <1>3, <1>4, <1>5, <1>6 DEF Typed, NoticesOK, KeepsRecord

LEMMA SendThrowsEffect ==
  ASSUME Typed, NEW s \in Senders, SendThrows(s)
  PROVE  Typed' /\ Busy(s) /\ Moves(s, "reset") /\ KeepsPushes(s)
<1>1. Busy(s) /\ call[s].stage # "idle"
  BY Sorts, BusySender DEF SendThrows, Stages
<1>2. NoticesOK' /\ RecordsOK' /\ OthersOK'
  BY Sorts, AdminNotificationAssumption
  DEF SendThrows, NoticesOK, RecordsOK, OthersOK, noticeVars, memberVars, pushVars, historyVars
<1> QED
  BY <1>1, <1>2, GotoKeepsCalls, Sorts DEF SendThrows, Stages, Typed, Moves, KeepsPushes

LEMMA SenderStopsEffect ==
  ASSUME Typed, NEW s \in Senders, SenderStops(s)
  PROVE  Typed' /\ Busy(s) /\ Leaves(s)
<1>1. Busy(s)
  BY Sorts, BusySender DEF SenderStops
<1>2. NoticesOK' /\ RecordsOK' /\ OthersOK'
  BY <1>1, Sorts, AdminNotificationAssumption
  DEF SenderStops, Busy, NoticesOK, RecordsOK, OthersOK, noticeVars, memberVars, pushVars
<1> QED
  BY <1>1, <1>2, FinishKeepsCalls, Sorts DEF SenderStops, Typed, Leaves

\* The sender takes up n.
Starts(s, n) ==
  /\ call[s].stage = "idle"
  /\ call' = [call EXCEPT ![s] = [Idle EXCEPT !.stage = "claim", !.notice = n]]
  /\ call'[s].stage = "claim" /\ call'[s].notice = n
  /\ call'[s].left = {} /\ call'[s].ok = {} /\ call'[s].bad = {}
  /\ call'[s].past = NoPast
  /\ \A q \in Senders \ {s} : call'[q] = call[q]

LEMMA BeginStarts ==
  ASSUME CallsOK, NEW s \in Senders, NEW n \in Notices, Begin(s, n)
  PROVE  CallsOK' /\ Starts(s, n)
<1> DEFINE c == [Idle EXCEPT !.stage = "claim", !.notice = n]
<1>1. /\ c \in SendCall /\ c.stage = "claim" /\ c.notice = n
      /\ c.left = {} /\ c.ok = {} /\ c.bad = {} /\ c.past = NoPast
  BY IdleIsCall DEF SendCall, Stages, Idle
<1>2. call' = [call EXCEPT ![s] = c] /\ call[s].stage = "idle"
  BY DEF Begin
<1>3. CallsOK' /\ call'[s] = c /\ \A q \in Senders \ {s} : call'[q] = call[q]
  <2> HIDE DEF c
  <2> QED
    BY <1>1, <1>2, CallStep
<1> QED
  BY <1>1, <1>2, <1>3 DEF Starts

LEMMA CreateEffect ==
  ASSUME Typed, NEW s \in Senders, NEW n \in Notices, CreateNotification(s, n)
  PROVE  /\ Typed' /\ (UNCHANGED call \/ Starts(s, n))
         /\ \A o \in Notices :
              /\ KeepsRecord(o)
              /\ notice'[o].processing = notice[o].processing
              /\ notice'[o].stale = notice[o].stale
<1>1. CallsOK' /\ (UNCHANGED call \/ Starts(s, n))
  <2>1. CASE UNCHANGED call
    BY <2>1, Sorts DEF CallsOK
  <2>2. CASE Begin(s, n)
    BY <2>2, BeginStarts, Sorts
  <2> QED
    BY <2>1, <2>2 DEF CreateNotification
<1>2. PICK later, past \in BOOLEAN :
        notice' = [notice EXCEPT ![n] =
                     IF later THEN [@ EXCEPT !.made = TRUE, !.scheduled = TRUE]
                     ELSE [@ EXCEPT !.made = TRUE, !.scheduled = past, !.due = past]]
  BY DEF CreateNotification
<1> DEFINE d == IF later THEN [notice[n] EXCEPT !.made = TRUE, !.scheduled = TRUE]
                ELSE [notice[n] EXCEPT !.made = TRUE, !.scheduled = past, !.due = past]
<1>3. notice' = [notice EXCEPT ![n] = d]
  BY <1>2
<1>4. /\ d \in Notification /\ d.sent = notice[n].sent
      /\ d.delivered = notice[n].delivered /\ d.failed = notice[n].failed
      /\ d.failedTokens = notice[n].failedTokens
      /\ d.processing = notice[n].processing /\ d.stale = notice[n].stale
  <2>1. notice[n] \in Notification
    BY Sorts DEF NoticesOK
  <2>2. CASE later
    BY <2>1, <2>2 DEF Notification
  <2>3. CASE ~later
    BY <2>1, <2>3 DEF Notification
  <2> QED
    BY <2>2, <2>3
<1>5. /\ notice' \in [Notices -> Notification]
      /\ notice'[n] = d /\ \A o \in Notices \ {n} : notice'[o] = notice[o]
  <2> HIDE DEF d
  <2> QED
    BY <1>3, <1>4, NoticeStep, Sorts
<1>6. claims' \in [Notices -> Nat] /\ RecordsOK' /\ OthersOK'
  BY Sorts DEF CreateNotification, NoticesOK, RecordsOK, OthersOK, memberVars, pushVars,
               historyVars, boundVars
<1> HIDE DEF d
<1> QED
  BY <1>1, <1>4, <1>5, <1>6 DEF Typed, NoticesOK, KeepsRecord

LEMMA ProcessEffect ==
  ASSUME Typed, NEW s \in Senders, NEW n \in Notices, ProcessScheduled(s, n)
  PROVE  Typed' /\ Starts(s, n)
<1>1. NoticesOK' /\ RecordsOK' /\ OthersOK'
  BY Sorts DEF ProcessScheduled, NoticesOK, RecordsOK, OthersOK, noticeVars, memberVars,
               pushVars, historyVars, boundVars
<1> QED
  BY <1>1, BeginStarts, Sorts DEF ProcessScheduled, Typed

LEMMA TimeEffect ==
  ASSUME Typed, NEW n \in Notices, BecomesDue(n) \/ ClaimGoesStale(n)
  PROVE  /\ Typed'
         /\ \A o \in Notices :
              /\ KeepsRecord(o)
              /\ notice'[o].processing = notice[o].processing
              /\ \/ notice'[o].stale = notice[o].stale
                 \/ o = n /\ ClaimGoesStale(n)
<1>1. notice[n] \in Notification /\ NoticesOK /\ CallsOK /\ RecordsOK /\ OthersOK
  BY Sorts DEF NoticesOK
<1>2. CallsOK' /\ RecordsOK' /\ OthersOK' /\ claims' \in [Notices -> Nat]
  BY <1>1, AdminNotificationAssumption
  DEF BecomesDue, ClaimGoesStale, NoticesOK, CallsOK, RecordsOK, OthersOK,
               memberVars, pushVars, historyVars, boundVars
<1>3. CASE BecomesDue(n)
  <2> DEFINE d == [notice[n] EXCEPT !.due = TRUE]
  <2>1. notice' = [notice EXCEPT ![n] = d]
    BY <1>3 DEF BecomesDue
  <2>2. /\ d \in Notification /\ d.sent = notice[n].sent
        /\ d.delivered = notice[n].delivered /\ d.failed = notice[n].failed
        /\ d.failedTokens = notice[n].failedTokens
        /\ d.processing = notice[n].processing /\ d.stale = notice[n].stale
    BY <1>1 DEF Notification
  <2> HIDE DEF d
  <2>3. /\ notice' \in [Notices -> Notification]
        /\ notice'[n] = d /\ \A o \in Notices \ {n} : notice'[o] = notice[o]
    BY <1>1, <2>1, <2>2, NoticeStep
  <2> QED
    BY <1>2, <2>2, <2>3 DEF Typed, NoticesOK, KeepsRecord
<1>4. CASE ClaimGoesStale(n)
  <2> DEFINE d == [notice[n] EXCEPT !.stale = TRUE]
  <2>1. notice' = [notice EXCEPT ![n] = d]
    BY <1>4 DEF ClaimGoesStale
  <2>2. /\ d \in Notification /\ d.sent = notice[n].sent
        /\ d.delivered = notice[n].delivered /\ d.failed = notice[n].failed
        /\ d.failedTokens = notice[n].failedTokens
        /\ d.processing = notice[n].processing
    BY <1>1 DEF Notification
  <2> HIDE DEF d
  <2>3. /\ notice' \in [Notices -> Notification]
        /\ notice'[n] = d /\ \A o \in Notices \ {n} : notice'[o] = notice[o]
    BY <1>1, <2>1, <2>2, NoticeStep
  <2> QED
    BY <1>2, <1>4, <2>2, <2>3 DEF Typed, NoticesOK, KeepsRecord
<1> QED
  BY <1>3, <1>4

LEMMA MemberChangesKeepsType ==
  ASSUME Typed, NEW m \in Members, MemberChanges(m)
  PROVE  Typed'
  BY AdminNotificationAssumption
  DEF MemberChanges, Typed, NoticesOK, CallsOK, RecordsOK, OthersOK, noticeVars, pushVars,
      historyVars

LEMMA ReadReceiptEffect ==
  ASSUME Typed, NEW k \in checks, NEW m \in Members, ReadReceipt(k, m)
  PROVE  /\ Typed' /\ k \in ReceiptCheck /\ m \in k.left
         /\ \E j \in ReceiptCheck, good \in BOOLEAN :
              /\ checks' = (checks \ {k}) \union {j}
              /\ j.notice = k.notice /\ j.ticket = k.ticket /\ j.left = k.left \ {m}
              /\ j.old = k.old
              /\ j.good = IF good THEN k.good \union {m} ELSE k.good
              /\ j.bad = IF good THEN k.bad ELSE k.bad \union {m}
              /\ delivery[<<k.notice, m>>].ticket = k.ticket
                   => /\ delivery'[<<k.notice, m>>].status =
                           IF good THEN "delivered" ELSE "failed"
                      /\ delivery'[<<k.notice, m>>].ticket = k.ticket
              /\ \A o \in Notices, x \in Members :
                   o # k.notice \/ x # m => delivery'[<<o, x>>] = delivery[<<o, x>>]
<1>1. k \in ReceiptCheck /\ m \in k.left /\ k.notice \in Notices
  BY Sorts DEF ReadReceipt, RecordsOK, ReceiptCheck
<1>2. PICK good \in BOOLEAN :
        /\ checks' = (checks \ {k}) \union
             {[k EXCEPT !.left = @ \ {m}, !.good = IF good THEN @ \union {m} ELSE @,
                        !.bad = IF good THEN @ ELSE @ \union {m}]}
        /\ delivery' = IF delivery[<<k.notice, m>>].ticket # k.ticket THEN delivery
                       ELSE [delivery EXCEPT ![<<k.notice, m>>].status =
                               IF good THEN "delivered" ELSE "failed"]
        /\ tokens' \in {tokens} \union (IF good THEN {} ELSE {tokens \ {m}})
  BY DEF ReadReceipt
<1> DEFINE d == <<k.notice, m>>
           l == k.left \ {m}
           g == IF good THEN k.good \union {m} ELSE k.good
           b == IF good THEN k.bad ELSE k.bad \union {m}
           st == IF good THEN "delivered" ELSE "failed"
           j == [k EXCEPT !.left = l, !.good = g, !.bad = b]
<1>3. checks' = (checks \ {k}) \union {j}
  BY <1>2
<1>4. l \in SUBSET Members /\ g \in SUBSET Members /\ b \in SUBSET Members
  BY <1>1 DEF ReceiptCheck
<1>5. /\ j \in ReceiptCheck /\ j.notice = k.notice /\ j.ticket = k.ticket
      /\ j.left = l /\ j.good = g /\ j.bad = b /\ j.old = k.old
  <2> HIDE DEF l, g, b
  <2> QED
    BY <1>1, <1>4 DEF ReceiptCheck
<1>6. /\ delivery' \in [Notices \X Members -> [ticket: Tickets, status: Statuses]]
      /\ delivery[d].ticket = k.ticket => delivery'[d].status = st /\ delivery'[d].ticket = k.ticket
      /\ \A o \in Notices, x \in Members :
           o # k.notice \/ x # m => delivery'[<<o, x>>] = delivery[<<o, x>>]
  <2>1. d \in Notices \X Members /\ delivery \in [Notices \X Members -> [ticket: Tickets, status: Statuses]]
    BY <1>1, Sorts DEF RecordsOK
  <2>2. st \in Statuses
    BY DEF Statuses
  <2> DEFINE r == [delivery[d] EXCEPT !.status = st]
  <2>3. r \in [ticket: Tickets, status: Statuses] /\ r.status = st /\ r.ticket = delivery[d].ticket
    <3> HIDE DEF st
    <3> QED
      BY <2>1, <2>2
  <2>4. delivery' = IF delivery[d].ticket # k.ticket THEN delivery ELSE [delivery EXCEPT ![d] = r]
    BY <1>2
  <2> HIDE DEF r
  <2> QED
    BY <2>1, <2>3, <2>4
<1>7. NoticesOK' /\ CallsOK' /\ OthersOK' /\ inbox' \subseteq Notices \X Members
      /\ pushed' \in [Notices \X Members -> Nat] /\ doubts' \in [Notices \X Members -> Nat]
  BY <1>1, <1>2, Sorts DEF ReadReceipt, NoticesOK, CallsOK, RecordsOK, OthersOK, noticeVars,
                           pushVars, boundVars
<1>8. Typed'
  BY <1>3, <1>5, <1>6, <1>7, Sorts DEF Typed, RecordsOK
<1> HIDE DEF j
<1> QED
  BY <1>1, <1>3, <1>5, <1>6, <1>8

LEMMA ReadOldEffect ==
  ASSUME Typed, NEW k \in checks, NEW p \in k.old.left, ReadOldReceipt(k, p)
  PROVE  /\ Typed' /\ k \in ReceiptCheck /\ UNCHANGED <<noticeVars, call, disturbed>>
         /\ \E j \in ReceiptCheck :
              checks' = (checks \ {k}) \union {j} /\ j.notice = k.notice
         /\ \A o \in Notices, x \in Members :
              o # k.notice => delivery'[<<o, x>>] = delivery[<<o, x>>]
<1> DEFINE d == <<k.notice, p[1]>>
<1>1. /\ k \in ReceiptCheck /\ k.notice \in Notices /\ k.old \in Old
      /\ p \in Members \X (1 .. MaxRounds) /\ p[1] \in Members
  BY Sorts DEF RecordsOK, ReceiptCheck, Old, Replaced
<1>2. PICK good \in BOOLEAN :
        /\ checks' = (checks \ {k}) \union
             {[k EXCEPT !.old = [left |-> @.left \ {p},
                                 good |-> IF good THEN @.good \union {p} ELSE @.good,
                                 bad  |-> IF good THEN @.bad ELSE @.bad \union {p}]]}
        /\ delivery' = IF delivery[d].ticket # <<k.ticket[1], p[2]>> THEN delivery
                       ELSE [delivery EXCEPT ![d].status = IF good THEN "delivered" ELSE "failed"]
        /\ tokens' \in {tokens} \union (IF good THEN {} ELSE {tokens \ {p[1]}})
  BY DEF ReadOldReceipt
<1> DEFINE old == [left |-> k.old.left \ {p},
                   good |-> IF good THEN k.old.good \union {p} ELSE k.old.good,
                   bad  |-> IF good THEN k.old.bad ELSE k.old.bad \union {p}]
           j == [k EXCEPT !.old = old]
           st == IF good THEN "delivered" ELSE "failed"
           r == [delivery[d] EXCEPT !.status = st]
<1>3. checks' = (checks \ {k}) \union {j}
  BY <1>2
<1>4. old \in Old
  BY <1>1 DEF Old, Replaced
<1>5. j \in ReceiptCheck /\ j.notice = k.notice
  <2> HIDE DEF old
  <2> QED
    BY <1>1, <1>4 DEF ReceiptCheck
<1>6. d \in Notices \X Members /\ delivery \in [Notices \X Members -> [ticket: Tickets, status: Statuses]]
  BY <1>1, Sorts DEF RecordsOK
<1>7. r \in [ticket: Tickets, status: Statuses]
  <2>1. st \in Statuses
    BY DEF Statuses
  <2> HIDE DEF st
  <2> QED
    BY <1>6, <2>1
<1>8. delivery' \in {delivery, [delivery EXCEPT ![d] = r]}
  BY <1>2
<1>9. /\ delivery' \in [Notices \X Members -> [ticket: Tickets, status: Statuses]]
      /\ \A o \in Notices, x \in Members :
           o # k.notice => delivery'[<<o, x>>] = delivery[<<o, x>>]
  <2> HIDE DEF r
  <2> QED
    BY <1>6, <1>7, <1>8
<1>10. /\ NoticesOK' /\ CallsOK' /\ OthersOK' /\ inbox' \subseteq Notices \X Members
       /\ pushed' \in [Notices \X Members -> Nat] /\ doubts' \in [Notices \X Members -> Nat]
       /\ UNCHANGED <<noticeVars, call, disturbed>>
  BY <1>1, <1>2, Sorts DEF ReadOldReceipt, NoticesOK, CallsOK, RecordsOK, OthersOK, noticeVars,
                           pushVars, historyVars, boundVars
<1> HIDE DEF j
<1>11. Typed'
  BY <1>3, <1>5, <1>9, <1>10, Sorts DEF Typed, RecordsOK
<1> QED
  BY <1>1, <1>3, <1>5, <1>9, <1>10, <1>11

LEMMA CountEffect ==
  ASSUME Typed, NEW k \in checks, CountReceipts(k)
  PROVE  /\ Typed' /\ k \in ReceiptCheck
         /\ \A n \in Notices :
              /\ notice'[n].sent = notice[n].sent
              /\ notice'[n].processing = notice[n].processing
              /\ notice'[n].stale = notice[n].stale
              /\ n # k.notice => notice'[n] = notice[n]
              /\ n = k.notice /\ k.old = NoOld =>
                   /\ notice'[n].delivered = notice[n].delivered + Cardinality(k.good)
                   /\ notice'[n].failed = notice[n].failed + Cardinality(k.bad)
                   /\ notice'[n].failedTokens = notice[n].failedTokens \union k.bad
<1> DEFINE n == k.notice
           del == notice[n].delivered + Cardinality(k.good) + Cardinality(k.old.good)
           fail == notice[n].failed + Cardinality(k.bad) + Cardinality(k.old.bad)
           toks == notice[n].failedTokens \union k.bad \union {p[1] : p \in k.old.bad}
           d == [notice[n] EXCEPT !.delivered = del, !.failed = fail, !.failedTokens = toks]
<1>1. k \in ReceiptCheck /\ n \in Notices /\ notice[n] \in Notification
  BY Sorts DEF NoticesOK, RecordsOK, ReceiptCheck
<1>2. notice' = [notice EXCEPT ![n] = d]
  BY DEF CountReceipts
<1>3. del \in Nat /\ fail \in Nat /\ toks \in SUBSET Members
  <2>1. /\ k.good \in SUBSET Members /\ k.bad \in SUBSET Members
        /\ k.old.good \in Replaced /\ k.old.bad \in Replaced
        /\ notice[n].failedTokens \in SUBSET Members
        /\ notice[n].delivered \in Nat /\ notice[n].failed \in Nat
    BY <1>1 DEF ReceiptCheck, Old, Notification
  <2>2. {p[1] : p \in k.old.bad} \subseteq Members
    BY <2>1 DEF Replaced
  <2>3. /\ Cardinality(k.good) \in Nat /\ Cardinality(k.bad) \in Nat
        /\ Cardinality(k.old.good) \in Nat /\ Cardinality(k.old.bad) \in Nat
    BY <2>1, Counting, CountingOld
  <2> QED
    BY <2>1, <2>2, <2>3
<1>4. /\ d \in Notification /\ d.sent = notice[n].sent
      /\ d.processing = notice[n].processing /\ d.stale = notice[n].stale
      /\ d.delivered = del /\ d.failed = fail /\ d.failedTokens = toks
  <2> HIDE DEF del, fail, toks
  <2> QED
    BY <1>1, <1>3 DEF Notification
<1>5. /\ notice' \in [Notices -> Notification]
      /\ notice'[n] = d /\ \A o \in Notices \ {n} : notice'[o] = notice[o]
  <2> HIDE DEF d
  <2> QED
    BY <1>1, <1>2, <1>4, NoticeStep, Sorts
<1>6. claims' \in [Notices -> Nat] /\ CallsOK' /\ RecordsOK' /\ OthersOK'
  BY <1>1, Sorts DEF CountReceipts, NoticesOK, CallsOK, RecordsOK, OthersOK, memberVars, pushVars,
               boundVars
<1>7. k.old = NoOld => /\ del = notice[n].delivered + Cardinality(k.good)
                       /\ fail = notice[n].failed + Cardinality(k.bad)
                       /\ toks = notice[n].failedTokens \union k.bad
  <2>1. /\ Cardinality(k.good) \in Nat /\ Cardinality(k.bad) \in Nat
        /\ notice[n].delivered \in Nat /\ notice[n].failed \in Nat
    BY <1>1, Counting DEF ReceiptCheck, Notification
  <2>2. k.old = NoOld => Cardinality(k.old.good) = 0 /\ Cardinality(k.old.bad) = 0 /\ k.old.bad = {}
    BY Counting, Nothing
  <2> QED
    BY <2>1, <2>2
<1> HIDE DEF d, del, fail, toks
<1> QED
  BY <1>1, <1>4, <1>5, <1>6, <1>7 DEF Typed, NoticesOK

LEMMA CheckStopsKeepsType ==
  ASSUME Typed, NEW k \in checks, CheckStops(k)
  PROVE  Typed' /\ k \in ReceiptCheck
<1>1. k \in ReceiptCheck /\ k.notice \in Notices
  BY Sorts DEF RecordsOK, ReceiptCheck
<1> QED
  BY <1>1, Sorts, AdminNotificationAssumption
  DEF CheckStops, Typed, NoticesOK, CallsOK, RecordsOK, OthersOK, noticeVars, memberVars, pushVars

LEMMA StutterKeepsType ==
  ASSUME Typed, UNCHANGED vars
  PROVE  Typed'
  BY Sorts DEF Typed, NoticesOK, CallsOK, RecordsOK, OthersOK, vars, noticeVars, memberVars,
               pushVars, historyVars, boundVars

LEMMA InitIsTyped == Init => Typed
<1>1. NoDelivery \in [ticket: Tickets, status: Statuses]
  BY Nothing DEF Statuses, NoDelivery
<1> QED
  BY <1>1, IdleIsCall, AdminNotificationAssumption
  DEF Init, Typed, NoticesOK, CallsOK, RecordsOK, OthersOK, Notification

LEMMA StepKeepsType == Typed /\ [Next]_vars => Typed'
<1> SUFFICES ASSUME Typed, [Next]_vars PROVE Typed'
  OBVIOUS
<1>1. ASSUME NEW s \in Senders, Proceed(s) PROVE Typed'
  BY <1>1, ClaimEffect, ClaimNotEffect, ReadUsersEffect, ReadTokensEffect, CreateItemsEffect,
     PushRoundEffect, PushThrowsEffect, RecordEffect, SaveEffect, ResetEffect DEF Proceed
<1>2. ASSUME NEW s \in Senders, NEW n \in Notices,
             CreateNotification(s, n) \/ ProcessScheduled(s, n)
      PROVE  Typed'
  BY <1>2, CreateEffect, ProcessEffect
<1>3. ASSUME NEW s \in Senders, DeactivationThrows(s) \/ SendThrows(s) \/ SenderStops(s)
      PROVE  Typed'
  BY <1>3, DeactivationEffect, SendThrowsEffect, SenderStopsEffect
<1>4. ASSUME NEW k \in checks, CheckStep(k) PROVE Typed'
  BY <1>4, ReadReceiptEffect, ReadOldEffect, CountEffect, CheckStopsKeepsType DEF CheckStep
<1>5. ASSUME NEW n \in Notices, BecomesDue(n) \/ ClaimGoesStale(n) PROVE Typed'
  BY <1>5, TimeEffect
<1>6. ASSUME NEW m \in Members, MemberChanges(m) PROVE Typed'
  BY <1>6, MemberChangesKeepsType
<1> QED
  BY <1>1, <1>2, <1>3, <1>4, <1>5, <1>6, StutterKeepsType DEF Next

\* Every variable has its type in every reachable state, whatever the bounds.
THEOREM TypeCorrect == Spec => []TypeOK
<1>1. Spec => []Typed
  BY InitIsTyped, StepKeepsType, PTL DEF Spec
<1> QED
  BY <1>1, TypedIsTypeOK, PTL

-----------------------------------------------------------------------------
(* One sender for a notification.                                            *)

LEMMA InitSends == Init => SendInv
  BY InitIsTyped DEF Init, SendInv, OneSender, ClaimHeld, Sending, Idle

\* A sender that begins, or leaves, or throws, does not disturb the others.
LEMMA OthersKeepClaims ==
  ASSUME SendInv, Typed', NEW s \in Senders,
         \A q \in Senders \ {s} : call'[q] = call[q],
         ~Sending(s)',
         UNCHANGED unlocked,
         \A n \in Notices : /\ notice'[n].processing = notice[n].processing
                            /\ notice'[n].stale = notice[n].stale
  PROVE  SendInv'
<1>1. \A q \in Senders : Sending(q)' => q # s /\ Sending(q) /\ call'[q] = call[q]
  BY DEF Sending
<1>2. \A q \in Senders : Sending(q) => call[q].notice \in Notices
  BY Sorts DEF SendInv, CallsOK, Sending
<1> QED
  BY <1>1, <1>2 DEF SendInv, OneSender, ClaimHeld

\* A sender goes on to another stage of its sending.
LEMMA OwnStepKeepsClaims ==
  ASSUME SendInv, Typed', NEW s \in Senders, NEW g \in Stages, Moves(s, g), Sending(s),
         UNCHANGED <<notice, unlocked>>
  PROVE  SendInv'
<1>1. \A q \in Senders : Sending(q)' => Sending(q) /\ call'[q].notice = call[q].notice
  BY DEF Moves, Sending
<1> QED
  BY <1>1 DEF SendInv, OneSender, ClaimHeld

\* Nothing of the claims changes.
LEMMA RestKeepsClaims ==
  ASSUME SendInv, Typed', UNCHANGED <<call, unlocked>>,
         \A n \in Notices : /\ notice'[n].processing = notice[n].processing
                            /\ notice'[n].stale = notice[n].stale
  PROVE  SendInv'
<1>1. \A q \in Senders : Sending(q)' <=> Sending(q)
  BY DEF Sending
<1>2. \A q \in Senders : Sending(q) => call[q].notice \in Notices
  BY Sorts DEF SendInv, CallsOK, Sending
<1> QED
  BY <1>1, <1>2 DEF SendInv, OneSender, ClaimHeld

LEMMA ClaimKeepsClaims ==
  ASSUME SendInv, NEW s \in Senders, Claim(s)
  PROVE  SendInv'
<1>0. Typed
  BY DEF SendInv
<1>1. CASE Claimable(call[s].notice)
  <2> DEFINE n == call[s].notice
  <2>1. /\ Typed' /\ n \in Notices /\ Moves(s, "users") /\ call[s].stage = "claim"
        /\ notice'[n].processing /\ ~notice'[n].stale
        /\ \A o \in Notices \ {n} : notice'[o] = notice[o]
        /\ unlocked' = unlocked
    BY <1>0, <1>1, ClaimEffect DEF Busy, Claim
  <2>2. \A q \in Senders : Sending(q) => call[q].notice \in Notices
    BY <1>0, Sorts DEF CallsOK, Sending
  <2>3. \A q \in Senders \ {s} : Sending(q)' => Sending(q) /\ call'[q].notice = call[q].notice
    BY <2>1 DEF Moves, Sending
  <2>4. \A q \in Senders : Sending(q) /\ call[q].notice = n => n \in unlocked
    BY <1>1, <2>1 DEF SendInv, ClaimHeld, Claimable
  <2>5. call'[s].notice = n
    BY <2>1 DEF Moves
  <2>6. OneSender'
    BY <2>1, <2>3, <2>4, <2>5 DEF SendInv, OneSender
  <2>7. ClaimHeld'
    BY <2>1, <2>2, <2>3, <2>4, <2>5 DEF SendInv, ClaimHeld
  <2> QED
    BY <2>1, <2>6, <2>7 DEF SendInv
<1>2. CASE ~Claimable(call[s].notice)
  <2>1. /\ Typed' /\ \A q \in Senders \ {s} : call'[q] = call[q]
        /\ call'[s] = Idle /\ UNCHANGED <<notice, unlocked>>
    BY <1>0, <1>2, ClaimNotEffect, FinishKeepsCalls, Sorts DEF Claim, noticeVars
  <2>2. ~Sending(s)'
    BY <2>1 DEF Sending, Idle
  <2> QED
    BY <2>1, <2>2, OthersKeepClaims
<1> QED
  BY <1>1, <1>2

LEMMA SaveKeepsClaims ==
  ASSUME SendInv, NEW s \in Senders, SaveNotice(s) \/ ResetClaim(s)
  PROVE  SendInv'
<1> DEFINE n == call[s].notice
<1>1. /\ Typed' /\ n \in Notices /\ Leaves(s)
      /\ \A o \in Notices \ {n} : notice'[o] = notice[o]
  BY SaveEffect, ResetEffect DEF SendInv, Busy
<1>2. \A q \in Senders : Sending(q)' => q # s /\ Sending(q) /\ call'[q] = call[q]
  BY <1>1 DEF Leaves, Sending, Idle
<1>3. \A q \in Senders : Sending(q) => call[q].notice \in Notices
  BY Sorts DEF SendInv, CallsOK, Sending
<1>4. unlocked \subseteq unlocked'
  BY DEF SaveNotice, ResetClaim, historyVars
<1>5. \A q \in Senders \ {s} : Sending(q) /\ call[q].notice = n => n \in unlocked'
  <2>1. CASE SaveNotice(s)
    BY <1>4, <2>1 DEF SaveNotice, SendInv, OneSender, Sending, Stages
  <2>2. CASE ResetClaim(s)
    BY <2>2 DEF ResetClaim, Others
  <2> QED
    BY <2>1, <2>2
<1>6. OneSender'
  BY <1>2, <1>4 DEF SendInv, OneSender
<1>7. ClaimHeld'
  BY <1>1, <1>2, <1>3, <1>4, <1>5 DEF SendInv, ClaimHeld
<1> QED
  BY <1>1, <1>6, <1>7 DEF SendInv

LEMMA StaleKeepsClaims ==
  ASSUME SendInv, NEW n \in Notices, ClaimGoesStale(n)
  PROVE  SendInv'
<1>1. /\ Typed' /\ unlocked \subseteq unlocked' /\ UNCHANGED call
      /\ \A o \in Notices : notice'[o].processing = notice[o].processing
      /\ \A o \in Notices \ {n} : notice'[o].stale = notice[o].stale
      /\ \A q \in Senders : Sending(q) /\ call[q].notice = n => n \in unlocked'
  BY TimeEffect DEF SendInv, ClaimGoesStale
<1>2. \A q \in Senders : Sending(q) => call[q].notice \in Notices
  BY Sorts DEF SendInv, CallsOK, Sending
<1>3. \A q \in Senders : Sending(q)' <=> Sending(q)
  BY <1>1 DEF Sending
<1> QED
  BY <1>1, <1>2, <1>3 DEF SendInv, OneSender, ClaimHeld

LEMMA StepKeepsClaims == SendInv /\ [Next]_vars => SendInv'
<1> SUFFICES ASSUME SendInv, [Next]_vars PROVE SendInv'
  OBVIOUS
<1>0. Typed
  BY DEF SendInv
<1>1. ASSUME NEW s \in Senders, Proceed(s) PROVE SendInv'
  <2>1. CASE Claim(s) \/ SaveNotice(s) \/ ResetClaim(s)
    BY <2>1, ClaimKeepsClaims, SaveKeepsClaims
  <2>2. CASE \/ ReadUsers(s) \/ ReadTokens(s) \/ CreateItems(s) \/ PushRound(s) \/ PushThrows(s)
             \/ RecordDeliveries(s)
    <3>1. Typed' /\ \E g \in Stages : Moves(s, g)
      BY <1>0, <2>2, ReadUsersEffect, ReadTokensEffect, CreateItemsEffect,
         PushRoundEffect, PushThrowsEffect, RecordEffect DEF PushStep, Stages
    <3>2. Sending(s) /\ UNCHANGED <<notice, unlocked>>
      BY <2>2 DEF ReadUsers, ReadTokens, CreateItems, PushRound, PushThrows, RecordDeliveries,
                  Sending, Stages, noticeVars, historyVars
    <3> QED
      BY <3>1, <3>2, OwnStepKeepsClaims
  <2> QED
    BY <1>1, <2>1, <2>2 DEF Proceed
<1>2. ASSUME NEW s \in Senders, NEW n \in Notices,
             CreateNotification(s, n) \/ ProcessScheduled(s, n)
      PROVE  SendInv'
  <2>1. /\ Typed' /\ (UNCHANGED call \/ Starts(s, n)) /\ UNCHANGED unlocked
        /\ \A o \in Notices : /\ notice'[o].processing = notice[o].processing
                              /\ notice'[o].stale = notice[o].stale
    BY <1>0, <1>2, CreateEffect, ProcessEffect
    DEF CreateNotification, ProcessScheduled, historyVars, noticeVars
  <2>2. CASE UNCHANGED call
    BY <2>1, <2>2, RestKeepsClaims
  <2>3. CASE Starts(s, n)
    BY <2>1, <2>3, OthersKeepClaims DEF Starts, Sending
  <2> QED
    BY <2>1, <2>2, <2>3
<1>8. ASSUME NEW s \in Senders, DeactivationThrows(s) PROVE SendInv'
  <2>1. Typed' /\ \E g \in Stages : Moves(s, g)
    BY <1>0, <1>8, DeactivationEffect DEF PushStep, Stages
  <2>2. Sending(s) /\ UNCHANGED <<notice, unlocked>>
    BY <1>8 DEF DeactivationThrows, Sending, Stages, noticeVars
  <2> QED
    BY <2>1, <2>2, OwnStepKeepsClaims
<1>3. ASSUME NEW s \in Senders, SendThrows(s) \/ SenderStops(s) PROVE SendInv'
  <2>1. /\ Typed' /\ \A q \in Senders \ {s} : call'[q] = call[q]
        /\ call'[s].stage = "reset" \/ call'[s].stage = "idle"
        /\ UNCHANGED <<notice, unlocked>>
    BY <1>0, <1>3, SendThrowsEffect, SenderStopsEffect
    DEF SendThrows, SenderStops, Moves, Leaves, Idle, noticeVars, historyVars
  <2> QED
    BY <2>1, OthersKeepClaims DEF Sending
<1>4. ASSUME NEW k \in checks, CheckStep(k) PROVE SendInv'
  <2>1. /\ Typed' /\ UNCHANGED <<call, unlocked>>
        /\ \A o \in Notices : /\ notice'[o].processing = notice[o].processing
                              /\ notice'[o].stale = notice[o].stale
    BY <1>0, <1>4, ReadReceiptEffect, ReadOldEffect, CountEffect, CheckStopsKeepsType
    DEF CheckStep, ReadReceipt, ReadOldReceipt, CountReceipts, CheckStops, noticeVars, historyVars
  <2> QED
    BY <2>1, RestKeepsClaims
<1>5. ASSUME NEW n \in Notices, BecomesDue(n) PROVE SendInv'
  <2>1. /\ Typed' /\ UNCHANGED <<call, unlocked>>
        /\ \A o \in Notices : /\ notice'[o].processing = notice[o].processing
                              /\ notice'[o].stale = notice[o].stale
    BY <1>0, <1>5, Sorts, StepKeepsType DEF BecomesDue, historyVars, NoticesOK, Notification, Next
  <2> QED
    BY <2>1, RestKeepsClaims
<1>6. ASSUME NEW m \in Members, MemberChanges(m) PROVE SendInv'
  BY <1>0, <1>6, MemberChangesKeepsType, RestKeepsClaims DEF MemberChanges, noticeVars, historyVars
<1>7. CASE UNCHANGED vars
  BY <1>0, <1>7, StutterKeepsType, RestKeepsClaims DEF vars, noticeVars, historyVars
<1> QED
  BY <1>1, <1>2, <1>3, <1>4, <1>5, <1>6, <1>7, <1>8, StaleKeepsClaims DEF Next

\* Two calls send one notification only after its claim ended under its sender,
\* for any number of calls: OneSender holds in every reachable state.
THEOREM OneCallSends == Spec => []OneSender
<1>1. Spec => []SendInv
  BY InitSends, StepKeepsClaims, PTL DEF Spec
<1>2. SendInv => OneSender
  BY DEF SendInv
<1> QED
  BY <1>1, <1>2, PTL

-----------------------------------------------------------------------------
(* The items in the app, and the pushes that open them.                      *)

LEMMA InitApp == Init => AppInv
  BY DEF Init, AppInv, SentIsInTheApp, PushesHaveItems, UsersAreRead, Idle

\* A sender of no stage that matters here begins, leaves or throws.
LEMMA OthersKeepApp ==
  ASSUME Typed, AppInv, NEW s \in Senders,
         \A q \in Senders \ {s} : call'[q] = call[q],
         call'[s].stage \in {"idle", "claim", "users", "reset"},
         UNCHANGED <<inbox, wants, changed, pushed>>,
         \A n \in Notices : notice'[n].sent = notice[n].sent
  PROVE  AppInv'
<1>1. SentIsInTheApp' /\ PushesHaveItems'
  BY Sorts DEF AppInv, SentIsInTheApp, PushesHaveItems, OthersOK
<1>2. UsersAreRead'
  BY DEF AppInv, UsersAreRead
<1> QED
  BY <1>1, <1>2 DEF AppInv

\* The calls, the items and the members stay as they are.
LEMMA RestKeepsApp ==
  ASSUME Typed, AppInv, UNCHANGED <<call, inbox, wants, changed, pushed>>,
         \A n \in Notices : notice'[n].sent = notice[n].sent
  PROVE  AppInv'
<1>1. SentIsInTheApp' /\ PushesHaveItems'
  BY Sorts DEF AppInv, SentIsInTheApp, PushesHaveItems, OthersOK
<1>2. UsersAreRead'
  BY DEF AppInv, UsersAreRead
<1> QED
  BY <1>1, <1>2 DEF AppInv

LEMMA ReadsKeepApp ==
  ASSUME Typed, AppInv, NEW s \in Senders, ReadUsers(s) \/ ReadTokens(s)
  PROVE  AppInv'
<1>1. UNCHANGED <<notice, inbox, wants, changed, pushed>>
  BY DEF ReadUsers, ReadTokens, noticeVars, memberVars, pushVars
<1>2. SentIsInTheApp' /\ PushesHaveItems'
  BY <1>1 DEF AppInv, SentIsInTheApp, PushesHaveItems
<1>3. CASE ReadUsers(s)
  <2>1. Moves(s, "tokens") /\ call'[s].users = wants
    BY <1>3, ReadUsersEffect
  <2>2. UsersAreRead'
    BY <1>1, <2>1 DEF AppInv, UsersAreRead, Moves
  <2> QED
    BY <1>2, <2>2 DEF AppInv
<1>4. CASE ReadTokens(s)
  <2>1. /\ call[s].stage = "tokens" /\ Moves(s, "items") /\ call'[s].users = call[s].users
        /\ call'[s].left = wants \intersect tokens
    BY <1>4, ReadTokensEffect
  <2>2. UsersAreRead'
    BY <1>1, <2>1 DEF AppInv, UsersAreRead, Moves
  <2> QED
    BY <1>2, <2>2 DEF AppInv
<1> QED
  BY <1>3, <1>4

LEMMA ItemsKeepApp ==
  ASSUME Typed, AppInv, NEW s \in Senders, CreateItems(s)
  PROVE  AppInv'
<1>1. /\ Busy(s) /\ call[s].stage = "items"
      /\ Moves(s, IF call[s].left = {} THEN "save" ELSE "push")
      /\ call'[s].users = call[s].users /\ KeepsPushes(s)
      /\ UNCHANGED <<notice, wants, changed, pushed>>
      /\ inbox' = inbox \union ({call[s].notice} \X call[s].users)
  BY CreateItemsEffect DEF CreateItems, noticeVars, memberVars, pushVars
<1>2. SentIsInTheApp' /\ PushesHaveItems'
  BY <1>1 DEF AppInv, SentIsInTheApp, PushesHaveItems
<1>3. \A q \in Senders \ {s} : call'[q] = call[q]
  BY <1>1 DEF Moves
<1>4. call'[s].stage \in {"save", "push"} /\ call'[s].notice = call[s].notice
      /\ call'[s].left = call[s].left
  BY <1>1 DEF Moves, KeepsPushes
<1>5. UsersAreRead'
  BY <1>1, <1>3, <1>4 DEF AppInv, UsersAreRead
<1> QED
  BY <1>2, <1>5 DEF AppInv

LEMMA PushesKeepApp ==
  ASSUME Typed, AppInv, NEW s \in Senders,
         PushRound(s) \/ PushThrows(s) \/ DeactivationThrows(s)
  PROVE  AppInv'
<1>1. /\ Busy(s) /\ call[s].stage = "push"
      /\ \E ok, again \in SUBSET call[s].left, g \in {"push", "record"} :
           PushStep(s, ok, again, g)
  BY PushRoundEffect, PushThrowsEffect, DeactivationEffect
<1>2. PICK ok \in SUBSET call[s].left, again \in SUBSET call[s].left, g \in {"push", "record"} :
        PushStep(s, ok, again, g)
  BY <1>1
<1>3. /\ Moves(s, g) /\ call'[s].users = call[s].users /\ call'[s].left \subseteq call[s].left
      /\ UNCHANGED <<notice, inbox, wants, changed>>
  BY <1>2 DEF PushStep, noticeVars
<1>4. SentIsInTheApp'
  BY <1>3 DEF AppInv, SentIsInTheApp
<1>5. UsersAreRead'
  BY <1>1, <1>3 DEF AppInv, UsersAreRead, Moves
<1>6. PushesHaveItems'
  <2> SUFFICES ASSUME NEW n \in Notices, NEW m \in Members \ changed, pushed'[<<n, m>>] > 0
               PROVE  <<n, m>> \in inbox
    BY <1>3 DEF PushesHaveItems
  <2>1. CASE pushed[<<n, m>>] > 0
    BY <2>1 DEF AppInv, PushesHaveItems
  <2>2. CASE n = call[s].notice /\ m \in call[s].left
    BY <1>1, <2>2 DEF AppInv, UsersAreRead
  <2>3. n = call[s].notice \/ pushed'[<<n, m>>] = pushed[<<n, m>>]
    BY <1>2 DEF PushStep
  <2>4. n = call[s].notice => pushed[<<n, m>>] > 0 \/ m \in call[s].left
    BY <1>2 DEF PushStep
  <2> QED
    BY <2>1, <2>2, <2>3, <2>4
<1> QED
  BY <1>4, <1>5, <1>6 DEF AppInv

LEMMA RecordKeepsApp ==
  ASSUME Typed, AppInv, NEW s \in Senders, RecordDeliveries(s)
  PROVE  AppInv'
<1>1. /\ call[s].stage = "record" /\ Moves(s, "save") /\ call'[s].users = call[s].users
      /\ UNCHANGED <<notice, inbox, wants, changed, pushed>>
  BY RecordEffect DEF RecordDeliveries, noticeVars, memberVars, pushVars
<1> QED
  BY <1>1 DEF AppInv, SentIsInTheApp, PushesHaveItems, UsersAreRead, Moves

\* Saving is what makes a notification sent: its items are there by then.
LEMMA SaveKeepsApp ==
  ASSUME Typed, AppInv, NEW s \in Senders, SaveNotice(s)
  PROVE  AppInv'
<1>1. /\ Busy(s) /\ call[s].stage = "save" /\ Leaves(s)
      /\ \A n \in Notices : n # call[s].notice => notice'[n] = notice[n]
      /\ UNCHANGED <<inbox, wants, changed, pushed>>
  BY SaveEffect DEF SaveNotice, memberVars, pushVars
<1>2. \A m \in wants \ changed : <<call[s].notice, m>> \in inbox
  BY <1>1 DEF AppInv, UsersAreRead
<1>3. SentIsInTheApp'
  BY <1>1, <1>2 DEF AppInv, SentIsInTheApp
<1>4. PushesHaveItems' /\ UsersAreRead'
  BY <1>1 DEF AppInv, PushesHaveItems, UsersAreRead, Leaves, Idle
<1> QED
  BY <1>3, <1>4 DEF AppInv

LEMMA ChangesKeepApp ==
  ASSUME Typed, AppInv, NEW m \in Members, MemberChanges(m)
  PROVE  AppInv'
<1>1. /\ changed' = changed \union {m} /\ wants' \ {m} = wants \ {m}
      /\ UNCHANGED <<notice, inbox, call, pushed>>
  BY DEF MemberChanges, noticeVars, pushVars
<1>2. wants' \ changed' \subseteq wants \ changed
  BY <1>1
<1> QED
  BY <1>1, <1>2 DEF AppInv, SentIsInTheApp, PushesHaveItems, UsersAreRead

LEMMA StepKeepsApp == Typed /\ AppInv /\ [Next]_vars => AppInv'
<1> SUFFICES ASSUME Typed, AppInv, [Next]_vars PROVE AppInv'
  OBVIOUS
<1>1. ASSUME NEW s \in Senders, Proceed(s) PROVE AppInv'
  <2>1. CASE Claim(s)
    <3>1. UNCHANGED <<inbox, wants, changed, pushed>>
      BY <2>1 DEF Claim, memberVars, pushVars
    <3>2. CASE Claimable(call[s].notice)
      BY <2>1, <3>1, <3>2, ClaimEffect, OthersKeepApp DEF Moves
    <3>3. CASE ~Claimable(call[s].notice)
      <4>1. /\ \A q \in Senders \ {s} : call'[q] = call[q]
            /\ call'[s].stage = "idle" /\ UNCHANGED notice
        BY <2>1, <3>3, ClaimNotEffect, FinishKeepsCalls, Sorts DEF noticeVars, Idle
      <4> QED
        BY <3>1, <4>1, OthersKeepApp
    <3> QED
      BY <3>2, <3>3
  <2>2. CASE ResetClaim(s)
    <3>1. /\ Leaves(s) /\ UNCHANGED <<inbox, wants, changed, pushed>>
          /\ \A n \in Notices : notice'[n].sent = notice[n].sent
      BY <2>2, ResetEffect DEF ResetClaim, memberVars, pushVars, KeepsRecord
    <3> QED
      BY <3>1, OthersKeepApp DEF Leaves, Idle
  <2> QED
    BY <1>1, <2>1, <2>2, ReadsKeepApp, ItemsKeepApp, PushesKeepApp, RecordKeepsApp, SaveKeepsApp
    DEF Proceed
<1>2. ASSUME NEW s \in Senders, NEW n \in Notices,
             CreateNotification(s, n) \/ ProcessScheduled(s, n)
      PROVE  AppInv'
  <2>1. /\ UNCHANGED call \/ Starts(s, n)
        /\ UNCHANGED <<inbox, wants, changed, pushed>>
        /\ \A o \in Notices : notice'[o].sent = notice[o].sent
    BY <1>2, CreateEffect, ProcessEffect
    DEF CreateNotification, ProcessScheduled, noticeVars, memberVars, pushVars, KeepsRecord
  <2> QED
    BY <2>1, RestKeepsApp, OthersKeepApp DEF Starts
<1>3. ASSUME NEW s \in Senders, SendThrows(s) \/ SenderStops(s) PROVE AppInv'
  <2>1. /\ \A q \in Senders \ {s} : call'[q] = call[q]
        /\ call'[s].stage = "reset" \/ call'[s].stage = "idle"
        /\ UNCHANGED <<notice, inbox, wants, changed, pushed>>
    BY <1>3, SendThrowsEffect, SenderStopsEffect
    DEF SendThrows, SenderStops, Moves, Leaves, Idle, noticeVars, memberVars, pushVars
  <2> QED
    BY <2>1, OthersKeepApp
<1>4. ASSUME NEW k \in checks, CheckStep(k)
      PROVE  AppInv'
  <2>1. /\ UNCHANGED <<call, inbox, wants, changed, pushed>>
        /\ \A o \in Notices : notice'[o].sent = notice[o].sent
    BY <1>4, CountEffect
    DEF CheckStep, ReadReceipt, ReadOldReceipt, CountReceipts, CheckStops, noticeVars, memberVars, pushVars
  <2> QED
    BY <2>1, RestKeepsApp
<1>5. ASSUME NEW n \in Notices, BecomesDue(n) \/ ClaimGoesStale(n) PROVE AppInv'
  <2>1. /\ UNCHANGED <<call, inbox, wants, changed, pushed>>
        /\ \A o \in Notices : notice'[o].sent = notice[o].sent
    BY <1>5, TimeEffect DEF BecomesDue, ClaimGoesStale, memberVars, pushVars, KeepsRecord
  <2> QED
    BY <2>1, RestKeepsApp
<1>6. CASE UNCHANGED vars
  BY <1>6, RestKeepsApp DEF vars, noticeVars, memberVars, pushVars
<1> QED
  BY <1>1, <1>2, <1>3, <1>4, <1>5, <1>6, ChangesKeepApp, PushesKeepApp DEF Next

-----------------------------------------------------------------------------
(* Pushes of a notification that is claimed once.                            *)

LEMMA InitPushes == Init => PushInv
  BY DEF Init, PushInv, SecondPushOnlyInDoubt, OnePushEach, Sending, Idle

\* A sender that does not send after its step, and leaves no push behind.
LEMMA OthersKeepPushes ==
  ASSUME Typed, PushInv, NEW s \in Senders,
         \A q \in Senders \ {s} : call'[q] = call[q],
         call'[s].stage \in {"idle", "claim", "reset"},
         UNCHANGED <<claims, pushed, doubts>>
  PROVE  PushInv'
<1>1. \A q \in Senders : Sending(q)' => q # s /\ Sending(q) /\ call'[q] = call[q]
  BY DEF Sending
<1> QED
  BY <1>1 DEF PushInv, SecondPushOnlyInDoubt, OnePushEach

LEMMA RestKeepsPushes ==
  ASSUME Typed, PushInv, UNCHANGED <<call, claims, pushed, doubts>>
  PROVE  PushInv'
<1>1. \A q \in Senders : Sending(q)' <=> Sending(q)
  BY DEF Sending
<1> QED
  BY <1>1 DEF PushInv, SecondPushOnlyInDoubt, OnePushEach

\* A sender goes on without a push.
LEMMA OwnStepKeepsPushes ==
  ASSUME Typed, PushInv, NEW s \in Senders, NEW g \in Stages, Moves(s, g), Sending(s),
         g \in {"users", "tokens", "items", "push"}
           => call[s].stage \in {"users", "tokens", "items"},
         UNCHANGED <<claims, pushed, doubts>>
  PROVE  PushInv'
<1>1. \A q \in Senders : Sending(q)' => Sending(q)
  BY DEF Moves, Sending
<1>2. \A q \in Senders : call'[q].notice = call[q].notice
  BY DEF Moves
<1>3. SecondPushOnlyInDoubt'
  BY DEF PushInv, SecondPushOnlyInDoubt
<1>4. ASSUME NEW q \in Senders, NEW m \in Members,
             \/ call'[q].stage \in {"users", "tokens", "items"}
             \/ call'[q].stage = "push" /\ m \in call'[q].left
      PROVE  \/ call[q].stage \in {"users", "tokens", "items"}
             \/ call[q].stage = "push" /\ m \in call[q].left
  BY <1>4 DEF Moves
<1>5. OnePushEach'
  BY <1>1, <1>2, <1>4 DEF PushInv, OnePushEach
<1> QED
  BY <1>3, <1>5 DEF PushInv

\* The first claim of a notification finds it without pushes and without a sender.
LEMMA ClaimKeepsPushes ==
  ASSUME Typed, PushInv, NEW s \in Senders, Claim(s)
  PROVE  PushInv'
<1>1. CASE Claimable(call[s].notice)
  <2> DEFINE n == call[s].notice
  <2>1. /\ n \in Notices /\ Moves(s, "users") /\ call[s].stage = "claim"
        /\ claims'[n] = claims[n] + 1 /\ \A o \in Notices \ {n} : claims'[o] = claims[o]
        /\ UNCHANGED <<pushed, doubts>>
    BY <1>1, ClaimEffect DEF Busy, Claim, pushVars
  <2>2. \A o \in Notices : claims[o] \in Nat
    BY Sorts DEF NoticesOK
  <2>3. \A q \in Senders : Sending(q) => call[q].notice \in Notices
    BY Sorts DEF CallsOK, Sending
  <2>4. \A q \in Senders \ {s} : call'[q] = call[q]
    BY <2>1 DEF Moves
  <2>5. call'[s].stage = "users" /\ call'[s].notice = n /\ ~Sending(s)
    BY <2>1 DEF Moves, Sending
  <2>6. SecondPushOnlyInDoubt'
    BY <2>1, <2>2 DEF PushInv, SecondPushOnlyInDoubt
  <2>7. \A q \in Senders \ {s} : Sending(q)' <=> Sending(q)
    BY <2>4 DEF Sending
  <2>8. /\ \A q \in Senders : Sending(q)' => claims'[call'[q].notice] > 0
        /\ \A r, q \in Senders :
             /\ r # q /\ Sending(r)' /\ Sending(q)' /\ call'[r].notice = call'[q].notice
             => claims'[call'[r].notice] > 1
    BY <2>1, <2>2, <2>3, <2>4, <2>5, <2>7 DEF PushInv, OnePushEach
  <2>9. \A o \in Notices, m \in Members :
          claims'[o] = 0 => pushed'[<<o, m>>] <= doubts'[<<o, m>>]
    BY <2>1, <2>2 DEF PushInv, OnePushEach
  <2>10. ASSUME NEW q \in Senders, NEW m \in Members,
                \/ call'[q].stage \in {"users", "tokens", "items"}
                \/ call'[q].stage = "push" /\ m \in call'[q].left,
                claims'[call'[q].notice] <= 1
         PROVE  pushed'[<<call'[q].notice, m>>] <= doubts'[<<call'[q].notice, m>>]
    <3>1. CASE q = s
      BY <2>1, <2>2, <2>5, <2>10, <3>1 DEF PushInv, OnePushEach
    <3>2. CASE q # s
      <4>1. Sending(q) /\ call[q].notice \in Notices /\ call'[q] = call[q]
        BY <2>3, <2>4, <2>10, <3>2 DEF Sending, Stages
      <4>2. claims[call[q].notice] <= 1
        BY <2>1, <2>2, <2>10, <4>1
      <4> QED
        BY <2>1, <2>10, <4>1, <4>2 DEF PushInv, OnePushEach
    <3> QED
      BY <3>1, <3>2
  <2>11. OnePushEach'
    BY <2>8, <2>9, <2>10 DEF OnePushEach
  <2> QED
    BY <2>6, <2>11 DEF PushInv
<1>2. CASE ~Claimable(call[s].notice)
  <2>1. /\ \A q \in Senders \ {s} : call'[q] = call[q]
        /\ call'[s].stage = "idle" /\ UNCHANGED claims
    BY <1>2, ClaimNotEffect, FinishKeepsCalls, Sorts DEF noticeVars, Idle
  <2>2. UNCHANGED <<pushed, doubts>>
    BY DEF Claim, pushVars
  <2> QED
    BY <2>1, <2>2, OthersKeepPushes
<1> QED
  BY <1>1, <1>2

\* A push goes only to those who have none; the ones that got a ticket leave.
LEMMA PushesKeepPushes ==
  ASSUME Typed, PushInv, NEW s \in Senders,
         PushRound(s) \/ PushThrows(s) \/ DeactivationThrows(s)
  PROVE  PushInv'
<1> DEFINE n == call[s].notice
<1>1. /\ Busy(s) /\ call[s].stage = "push" /\ Typed'
      /\ \E ok, again \in SUBSET call[s].left, g \in {"push", "record"} :
           PushStep(s, ok, again, g)
  BY PushRoundEffect, PushThrowsEffect, DeactivationEffect
<1>2. PICK ok \in SUBSET call[s].left, again \in SUBSET call[s].left, g \in {"push", "record"} :
        PushStep(s, ok, again, g)
  BY <1>1
<1>3. /\ Moves(s, g) /\ call'[s].left = again /\ ok \intersect again = {}
      /\ UNCHANGED claims /\ n \in Notices /\ Sending(s)
  BY <1>1, <1>2 DEF PushStep, noticeVars, Busy, Sending, Stages
<1>4. /\ \A q \in Senders : Sending(q)' => Sending(q)
      /\ \A q \in Senders : call'[q].notice = call[q].notice
  BY <1>3 DEF Moves, Sending
<1>5. /\ \A k \in Notices \X Members : pushed[k] \in Nat /\ doubts[k] \in Nat
      /\ \A k \in Notices \X Members : pushed'[k] \in Nat /\ doubts'[k] \in Nat
      /\ \A o \in Notices : claims[o] \in Nat
  BY <1>1, Sorts DEF RecordsOK, NoticesOK, Typed
<1>6. \A m \in Members :
        /\ pushed[<<n, m>>] <= doubts[<<n, m>>]
             => pushed'[<<n, m>>] <= doubts'[<<n, m>>] + (IF m \in ok THEN 1 ELSE 0)
        /\ m \notin ok /\ pushed[<<n, m>>] <= 1 + doubts[<<n, m>>]
             => pushed'[<<n, m>>] <= 1 + doubts'[<<n, m>>]
  BY <1>2 DEF PushStep
<1>7. \A o \in Notices \ {n}, m \in Members :
        pushed'[<<o, m>>] = pushed[<<o, m>>] /\ doubts'[<<o, m>>] = doubts[<<o, m>>]
  BY <1>2 DEF PushStep
<1>8. claims[n] > 0 /\ \A m \in call[s].left : claims[n] <= 1 => pushed[<<n, m>>] <= doubts[<<n, m>>]
  BY <1>1, <1>3, Sorts DEF PushInv, OnePushEach, Busy, SendCall
<1>9. SecondPushOnlyInDoubt'
  <2> SUFFICES ASSUME NEW o \in Notices, NEW m \in Members, claims[o] <= 1
               PROVE  pushed'[<<o, m>>] <= 1 + doubts'[<<o, m>>]
    BY <1>3, <1>5 DEF SecondPushOnlyInDoubt
  <2>1. pushed[<<o, m>>] <= 1 + doubts[<<o, m>>]
    BY <1>5 DEF PushInv, SecondPushOnlyInDoubt
  <2>2. CASE o # n
    BY <1>7, <2>1, <2>2
  <2>3. CASE o = n /\ m \notin ok
    BY <1>6, <2>1, <2>3
  <2>4. CASE o = n /\ m \in ok
    <3>1. pushed[<<n, m>>] <= doubts[<<n, m>>]
      BY <1>8, <2>4
    <3>2. pushed'[<<n, m>>] <= doubts'[<<n, m>>] + 1
      BY <1>6, <2>4, <3>1
    <3>3. doubts'[<<n, m>>] \in Nat /\ pushed'[<<n, m>>] \in Nat
      BY <1>3, <1>5
    <3> QED
      BY <2>4, <3>2, <3>3
  <2> QED
    BY <2>2, <2>3, <2>4
<1>10. \A q \in Senders : q # s /\ Sending(q) /\ call[q].notice = n => claims[n] > 1
  BY <1>3 DEF PushInv, OnePushEach
<1>11. ASSUME NEW q \in Senders, NEW m \in Members,
              \/ call'[q].stage \in {"users", "tokens", "items"}
              \/ call'[q].stage = "push" /\ m \in call'[q].left,
              claims'[call'[q].notice] <= 1
       PROVE  pushed'[<<call'[q].notice, m>>] <= doubts'[<<call'[q].notice, m>>]
  <2>1. CASE q = s
    <3>1. g = "push" /\ m \in again /\ m \notin ok /\ call'[s].notice = n
      BY <1>3, <1>11, <2>1 DEF Moves
    <3>2. pushed[<<n, m>>] <= doubts[<<n, m>>]
      BY <1>3, <1>4, <1>8, <1>11, <2>1, <3>1
    <3>3. pushed'[<<n, m>>] <= doubts'[<<n, m>>] + 0
      BY <1>6, <3>1, <3>2
    <3> QED
      BY <1>3, <1>5, <2>1, <3>1, <3>3
  <2>2. CASE q # s
    <3>1. Sending(q) /\ call'[q] = call[q] /\ call[q].notice \in Notices
      BY <1>3, <1>11, <2>2, Sorts DEF Moves, Sending, Stages, CallsOK
    <3>2. call[q].notice # n
      BY <1>3, <1>5, <1>10, <1>11, <2>2, <3>1
    <3>3. pushed[<<call[q].notice, m>>] <= doubts[<<call[q].notice, m>>]
      BY <1>3, <1>11, <3>1 DEF PushInv, OnePushEach
    <3> QED
      BY <1>7, <3>1, <3>2, <3>3
  <2> QED
    BY <2>1, <2>2
<1>12. \A o \in Notices, m \in Members :
         claims'[o] = 0 => pushed'[<<o, m>>] <= doubts'[<<o, m>>]
  BY <1>3, <1>5, <1>7, <1>8 DEF PushInv, OnePushEach
<1>13. /\ \A q \in Senders : Sending(q)' => claims'[call'[q].notice] > 0
       /\ \A r, q \in Senders :
            /\ r # q /\ Sending(r)' /\ Sending(q)' /\ call'[r].notice = call'[q].notice
            => claims'[call'[r].notice] > 1
  BY <1>3, <1>4 DEF PushInv, OnePushEach
<1>14. OnePushEach'
  BY <1>11, <1>12, <1>13 DEF OnePushEach
<1> QED
  BY <1>9, <1>14 DEF PushInv

LEMMA StepKeepsPushes == Typed /\ PushInv /\ [Next]_vars => PushInv'
<1> SUFFICES ASSUME Typed, PushInv, [Next]_vars PROVE PushInv'
  OBVIOUS
<1>1. ASSUME NEW s \in Senders, Proceed(s) PROVE PushInv'
  <2>1. CASE ReadUsers(s) \/ ReadTokens(s) \/ CreateItems(s) \/ RecordDeliveries(s)
    <3>1. PICK g \in Stages :
            /\ Moves(s, g)
            /\ g \in {"users", "tokens", "items", "push"}
                 => call[s].stage \in {"users", "tokens", "items"}
      BY <2>1, ReadUsersEffect, ReadTokensEffect, CreateItemsEffect, RecordEffect DEF Stages
    <3>2. Sending(s) /\ UNCHANGED <<claims, pushed, doubts>>
      BY <2>1 DEF ReadUsers, ReadTokens, CreateItems, RecordDeliveries, Sending, Stages,
                  noticeVars, pushVars
    <3> QED
      BY <3>1, <3>2, OwnStepKeepsPushes
  <2>2. CASE SaveNotice(s) \/ ResetClaim(s)
    <3>1. Leaves(s) /\ UNCHANGED <<claims, pushed, doubts>>
      BY <2>2, SaveEffect, ResetEffect DEF SaveNotice, ResetClaim, pushVars
    <3> QED
      BY <3>1, OthersKeepPushes DEF Leaves, Idle
  <2> QED
    BY <1>1, <2>1, <2>2, ClaimKeepsPushes, PushesKeepPushes DEF Proceed
<1>2. ASSUME NEW s \in Senders, NEW n \in Notices,
             CreateNotification(s, n) \/ ProcessScheduled(s, n)
      PROVE  PushInv'
  <2>1. /\ UNCHANGED call \/ Starts(s, n)
        /\ UNCHANGED <<claims, pushed, doubts>>
    BY <1>2, CreateEffect, ProcessEffect
    DEF CreateNotification, ProcessScheduled, noticeVars, pushVars
  <2> QED
    BY <2>1, RestKeepsPushes, OthersKeepPushes DEF Starts
<1>3. ASSUME NEW s \in Senders, SendThrows(s) \/ SenderStops(s) PROVE PushInv'
  <2>1. /\ \A q \in Senders \ {s} : call'[q] = call[q]
        /\ call'[s].stage = "reset" \/ call'[s].stage = "idle"
        /\ UNCHANGED <<claims, pushed, doubts>>
    BY <1>3, SendThrowsEffect, SenderStopsEffect
    DEF SendThrows, SenderStops, Moves, Leaves, Idle, noticeVars, pushVars
  <2> QED
    BY <2>1, OthersKeepPushes
<1>4. CASE \/ \E k \in checks : CheckStep(k)
           \/ \E n \in Notices : BecomesDue(n) \/ ClaimGoesStale(n)
           \/ \E m \in Members : MemberChanges(m)
           \/ UNCHANGED vars
  <2>1. UNCHANGED <<call, claims, pushed, doubts>>
    BY <1>4 DEF CheckStep, ReadReceipt, ReadOldReceipt, CountReceipts, CheckStops, BecomesDue, ClaimGoesStale, MemberChanges,
                vars, noticeVars, pushVars
  <2> QED
    BY <2>1, RestKeepsPushes
<1> QED
  BY <1>1, <1>2, <1>3, <1>4, PushesKeepPushes DEF Next

-----------------------------------------------------------------------------
(* The delivery documents and the statistics.                                *)

LEMMA StepKeepsTidy == Typed /\ Tidy /\ [Next]_vars => Tidy'
<1> SUFFICES ASSUME Typed, Tidy, [Next]_vars PROVE Tidy'
  OBVIOUS
<1>0. ASSUME NEW s \in Senders, \A q \in Senders \ {s} : call'[q] = call[q],
             /\ call'[s].stage \in {"claim", "users", "tokens"} => call'[s].left = {}
             /\ call'[s].stage \in {"claim", "users", "tokens", "items"}
                  => call'[s].ok = {} /\ call'[s].bad = {}
             /\ call'[s].ok \intersect call'[s].bad = {}
             /\ call'[s].left \intersect (call'[s].ok \union call'[s].bad) = {}
      PROVE  Tidy'
  BY <1>0 DEF Tidy
<1>9. ASSUME NEW s \in Senders, PushRound(s) \/ PushThrows(s) \/ DeactivationThrows(s)
      PROVE  Tidy'
  <2>1. PICK ok \in SUBSET call[s].left, again \in SUBSET call[s].left,
             g \in {"push", "record"} : PushStep(s, ok, again, g)
    BY <1>9, PushRoundEffect, PushThrowsEffect, DeactivationEffect
  <2>2. /\ ok \intersect again = {} /\ Moves(s, g)
        /\ call'[s].left = again /\ call'[s].ok = call[s].ok \union ok
        /\ call'[s].bad = call[s].bad \union (call[s].left \ (ok \union again))
    BY <2>1 DEF PushStep
  <2>3. /\ call[s].ok \intersect call[s].bad = {}
        /\ call[s].left \intersect (call[s].ok \union call[s].bad) = {}
    BY DEF Tidy
  <2>4. /\ call'[s].ok \intersect call'[s].bad = {}
        /\ call'[s].left \intersect (call'[s].ok \union call'[s].bad) = {}
    BY <2>2, <2>3
  <2> QED
    BY <1>0, <2>2, <2>4 DEF Moves
<1>1. ASSUME NEW s \in Senders, Proceed(s) PROVE Tidy'
  <2>1. CASE Claim(s)
    <3>1. CASE Claimable(call[s].notice)
      <4>1. call[s].stage = "claim" /\ Moves(s, "users") /\ KeepsPushes(s)
        BY <2>1, <3>1, ClaimEffect
      <4> QED
        BY <1>0, <4>1 DEF Tidy, Moves, KeepsPushes
    <3>2. CASE ~Claimable(call[s].notice)
      <4>1. call'[s] = Idle /\ \A q \in Senders \ {s} : call'[q] = call[q]
        BY <2>1, <3>2, ClaimNotEffect, FinishKeepsCalls, Sorts
      <4> QED
        BY <1>0, <4>1 DEF Idle
    <3> QED
      BY <3>1, <3>2
  <2>2. CASE ReadUsers(s)
    <3>1. call[s].stage = "users" /\ Moves(s, "tokens") /\ KeepsPushes(s)
      BY <2>2, ReadUsersEffect
    <3> QED
      BY <1>0, <3>1 DEF Tidy, Moves, KeepsPushes
  <2>3. CASE ReadTokens(s)
    <3>1. /\ call[s].stage = "tokens" /\ Moves(s, "items")
          /\ call'[s].ok = call[s].ok /\ call'[s].bad = call[s].bad
      BY <2>3, ReadTokensEffect
    <3> QED
      BY <1>0, <3>1 DEF Tidy, Moves
  <2>4. CASE CreateItems(s) \/ RecordDeliveries(s)
    <3>1. PICK g \in {"save", "push"} : Moves(s, g) /\ KeepsPushes(s)
      BY <2>4, CreateItemsEffect, RecordEffect
    <3> QED
      BY <1>0, <3>1 DEF Tidy, Moves, KeepsPushes
  <2>5. CASE PushRound(s) \/ PushThrows(s)
    BY <2>5, <1>9
  <2>6. CASE SaveNotice(s) \/ ResetClaim(s)
    <3>1. Leaves(s)
      BY <2>6, SaveEffect, ResetEffect
    <3> QED
      BY <1>0, <3>1 DEF Leaves, Idle
  <2> QED
    BY <1>1, <2>1, <2>2, <2>3, <2>4, <2>5, <2>6 DEF Proceed
<1>2. ASSUME NEW s \in Senders, NEW n \in Notices,
             CreateNotification(s, n) \/ ProcessScheduled(s, n)
      PROVE  Tidy'
  <2>1. UNCHANGED call \/ Starts(s, n)
    BY <1>2, CreateEffect, ProcessEffect
  <2> QED
    BY <1>0, <2>1 DEF Tidy, Starts
<1>3. ASSUME NEW s \in Senders, SendThrows(s) PROVE Tidy'
  <2>1. Moves(s, "reset") /\ KeepsPushes(s)
    BY <1>3, SendThrowsEffect
  <2> QED
    BY <1>0, <2>1 DEF Tidy, Moves, KeepsPushes
<1>4. ASSUME NEW s \in Senders, SenderStops(s) PROVE Tidy'
  <2>1. Leaves(s)
    BY <1>4, SenderStopsEffect
  <2> QED
    BY <1>0, <2>1 DEF Leaves, Idle
<1>5. CASE \/ \E k \in checks : CheckStep(k)
           \/ \E n \in Notices : BecomesDue(n) \/ ClaimGoesStale(n)
           \/ \E m \in Members : MemberChanges(m)
           \/ UNCHANGED vars
  <2>1. UNCHANGED call
    BY <1>5 DEF CheckStep, ReadReceipt, ReadOldReceipt, CountReceipts, CheckStops, BecomesDue, ClaimGoesStale, MemberChanges,
                vars
  <2> QED
    BY <2>1 DEF Tidy
<1> QED
  BY <1>1, <1>2, <1>3, <1>4, <1>5, <1>9 DEF Next

\* Results and receipts of a repeated round are those of a disturbed notification.
LEMMA StepKeepsRepeated == Typed /\ Repeated /\ [Next]_vars => Repeated'
<1> SUFFICES ASSUME Typed, Repeated, [Next]_vars PROVE Repeated'
  OBVIOUS
<1>0. disturbed \subseteq disturbed'
  BY DEF Next, Proceed, CheckStep, CreateNotification, ProcessScheduled, Claim, ReadUsers,
         ReadTokens, CreateItems, PushRound, PushThrows, DeactivationThrows, RecordDeliveries,
         SaveNotice, ResetClaim, SendThrows, SenderStops, ReadReceipt, ReadOldReceipt,
         CountReceipts, CheckStops, BecomesDue, ClaimGoesStale, MemberChanges, historyVars, vars
<1>1. ASSUME NEW s \in Senders, \A q \in Senders \ {s} : call'[q] = call[q],
             \/ call'[s].past = call[s].past /\ call'[s].notice = call[s].notice
             \/ call'[s].past = NoPast,
             checks' \subseteq checks
      PROVE  Repeated'
  BY <1>0, <1>1 DEF Repeated
<1>2. ASSUME NEW s \in Senders, PushRound(s) \/ PushThrows(s) \/ DeactivationThrows(s)
      PROVE  Repeated'
  <2>1. PICK ok \in SUBSET call[s].left, again \in SUBSET call[s].left,
             g \in {"push", "record"} : PushStep(s, ok, again, g)
    BY <1>2, PushRoundEffect, PushThrowsEffect, DeactivationEffect
  <2>2. /\ Moves(s, g)
        /\ call'[s].past = NoPast \/ call[s].notice \in disturbed'
    BY <1>0, <2>1 DEF PushStep, Repeated
  <2>3. \A k \in checks' \ checks :
          k.notice = call[s].notice /\ (call'[s].past = NoPast => k.old = NoOld)
    BY <2>1 DEF PushStep
  <2> QED
    BY <1>0, <2>2, <2>3 DEF Repeated, Moves
<1>3. ASSUME NEW s \in Senders, Proceed(s) PROVE Repeated'
  <2>1. CASE Claim(s)
    <3>1. CASE Claimable(call[s].notice)
      BY <1>1, <2>1, <3>1, ClaimEffect DEF Claim, Moves, KeepsPushes
    <3>2. CASE ~Claimable(call[s].notice)
      <4>1. call'[s] = Idle /\ \A q \in Senders \ {s} : call'[q] = call[q]
        BY <2>1, <3>2, ClaimNotEffect, FinishKeepsCalls, Sorts
      <4> QED
        BY <1>1, <2>1, <4>1, IdleIsCall DEF Claim
    <3> QED
      BY <3>1, <3>2
  <2>2. CASE ReadUsers(s) \/ ReadTokens(s) \/ CreateItems(s) \/ RecordDeliveries(s)
    <3>1. (\E g \in Stages : Moves(s, g)) /\ call'[s].past = call[s].past
      BY <2>2, ReadUsersEffect, ReadTokensEffect, CreateItemsEffect, RecordEffect
      DEF KeepsPushes, Stages
    <3>2. checks' = checks
      BY <2>2 DEF ReadUsers, ReadTokens, CreateItems, RecordDeliveries
    <3> QED
      BY <1>1, <3>1, <3>2 DEF Moves
  <2>3. CASE SaveNotice(s) \/ ResetClaim(s)
    <3>1. Leaves(s) /\ checks' = checks
      BY <2>3, SaveEffect, ResetEffect DEF SaveNotice, ResetClaim
    <3> QED
      BY <1>1, <3>1, IdleIsCall DEF Leaves
  <2> QED
    BY <1>2, <1>3, <2>1, <2>2, <2>3 DEF Proceed
<1>4. ASSUME NEW s \in Senders, NEW n \in Notices,
             CreateNotification(s, n) \/ ProcessScheduled(s, n)
      PROVE  Repeated'
  <2>1. (UNCHANGED call \/ Starts(s, n)) /\ checks' = checks
    BY <1>4, CreateEffect, ProcessEffect DEF CreateNotification, ProcessScheduled
  <2> QED
    BY <1>1, <2>1 DEF Starts
<1>5. ASSUME NEW s \in Senders, SendThrows(s) \/ SenderStops(s) PROVE Repeated'
  <2>1. /\ \/ Moves(s, "reset") /\ KeepsPushes(s)
           \/ Leaves(s)
        /\ checks' = checks
    BY <1>5, SendThrowsEffect, SenderStopsEffect DEF SendThrows, SenderStops
  <2> QED
    BY <1>1, <2>1, IdleIsCall DEF Leaves, Moves, KeepsPushes
<1>6. ASSUME NEW k \in checks, CheckStep(k) PROVE Repeated'
  <2>1. CASE \E m \in Members : ReadReceipt(k, m)
    <3>1. PICK j \in ReceiptCheck :
            checks' = (checks \ {k}) \union {j} /\ j.notice = k.notice /\ j.old = k.old
      BY <2>1, ReadReceiptEffect
    <3> QED
      BY <1>0, <2>1, <3>1 DEF Repeated, ReadReceipt
  <2>2. CASE \E p \in k.old.left : ReadOldReceipt(k, p)
    <3>1. PICK j \in ReceiptCheck : checks' = (checks \ {k}) \union {j} /\ j.notice = k.notice
      BY <2>2, ReadOldEffect
    <3>2. k.old # NoOld /\ UNCHANGED call
      BY <2>2, Nothing DEF ReadOldReceipt
    <3> QED
      BY <1>0, <3>1, <3>2 DEF Repeated
  <2>3. CASE CountReceipts(k) \/ CheckStops(k)
    BY <1>0, <2>3 DEF Repeated, CountReceipts, CheckStops
  <2> QED
    BY <1>6, <2>1, <2>2, <2>3 DEF CheckStep
<1>7. CASE \/ \E n \in Notices : BecomesDue(n) \/ ClaimGoesStale(n)
           \/ \E m \in Members : MemberChanges(m)
           \/ UNCHANGED vars
  <2>1. UNCHANGED <<call, checks>>
    BY <1>7 DEF BecomesDue, ClaimGoesStale, MemberChanges, vars
  <2> QED
    BY <1>0, <2>1 DEF Repeated
<1> QED
  BY <1>2, <1>3, <1>4, <1>5, <1>6, <1>7 DEF Next

\* Nothing that concerns n changes, unless n is disturbed.
Same(n) ==
  /\ n \in disturbed => n \in disturbed'
  /\ claims'[n] = claims[n] /\ KeepsRecord(n)
  /\ \A m \in Members : delivery'[<<n, m>>] = delivery[<<n, m>>]
  /\ \A k \in checks \union checks' : k.notice = n => (k \in checks <=> k \in checks')

LEMMA SameNotice ==
  ASSUME Typed, NEW n \in Notices, Same(n), Blank(n), Settled(n)
  PROVE  Blank(n)' /\ Settled(n)'
<1>1. With(n, "delivered")' = With(n, "delivered") /\ With(n, "failed")' = With(n, "failed")
  BY DEF Same, With
<1>2. Blank(n)'
  BY DEF Same, Blank, NoneRecorded, KeepsRecord
<1>3. /\ notice'[n].sent = notice[n].sent
      /\ notice'[n].delivered = notice[n].delivered
      /\ notice'[n].failed = notice[n].failed
      /\ notice'[n].failedTokens = notice[n].failedTokens
      /\ claims'[n] = claims[n]
      /\ n \notin disturbed' => n \notin disturbed
  BY DEF Same, KeepsRecord
<1>4. \A k \in checks' : k.notice = n => k \in checks
  BY DEF Same
<1>5. (\A k \in checks' : k.notice # n) => \A k \in checks : k.notice # n
  BY DEF Same
<1>6. \A m \in Members : delivery'[<<n, m>>] = delivery[<<n, m>>]
  BY DEF Same
<1>7. ASSUME n \notin disturbed', notice'[n].sent, \A k \in checks' : k.notice # n
      PROVE  /\ notice'[n].delivered = Cardinality(With(n, "delivered")')
             /\ notice'[n].failed = Cardinality(With(n, "failed")')
             /\ notice'[n].failedTokens = With(n, "failed")'
  BY <1>1, <1>3, <1>5, <1>7 DEF Settled
<1>8. ASSUME n \notin disturbed', NEW k \in checks', notice'[n].sent, k.notice = n
      PROVE  /\ notice'[n].delivered = 0 /\ With(n, "delivered")' = k.good
             /\ notice'[n].failed = Cardinality(notice'[n].failedTokens)
             /\ With(n, "failed")' = notice'[n].failedTokens \union k.bad
             /\ notice'[n].failedTokens \intersect k.bad = {}
             /\ \A m \in k.left : delivery[<<n, m>>].status = "accepted"
                                /\ delivery[<<n, m>>].ticket = k.ticket
  BY <1>1, <1>3, <1>4, <1>8 DEF Settled
<1>9. n \notin disturbed' =>
        /\ claims'[n] <= 1
        /\ \A k, j \in checks' : k.notice = n /\ j.notice = n => k = j
  BY <1>3, <1>4 DEF Settled
<1>10. n \notin disturbed' => \A k \in checks' : k.notice = n => k.left \subseteq Members
  BY <1>4, Sorts DEF RecordsOK, ReceiptCheck
<1>11. Settled(n)'
  BY <1>6, <1>7, <1>8, <1>9, <1>10 DEF Settled
<1> QED
  BY <1>2, <1>11

LEMMA SameSender ==
  ASSUME NEW q \in Senders, call'[q] = call[q], Sending(q) => Same(call[q].notice), Recorded(q)
  PROVE  Recorded(q)'
  BY DEF Same, Recorded, NoneRecorded, KeepsRecord, Sending

\* What a step must do when it concerns one notification n, and nothing else.
LEMMA OnlyOne ==
  ASSUME Typed, RecordInv, NEW n \in Notices,
         \A o \in Notices \ {n} : Same(o),
         Blank(n)', Settled(n)',
         \A q \in Senders : \/ Recorded(q)'
                            \/ call'[q] = call[q] /\ call[q].notice # n
  PROVE  RecordInv'
<1>1. \A o \in Notices : Blank(o)' /\ Settled(o)'
  BY SameNotice DEF RecordInv
<1>2. ASSUME NEW q \in Senders PROVE Recorded(q)'
  <2>1. CASE call'[q] = call[q] /\ call[q].notice # n
    <3>1. Sending(q) => call[q].notice \in Notices
      BY Sorts DEF CallsOK, Sending
    <3> QED
      BY <2>1, <3>1, SameSender DEF RecordInv
  <2> QED
    BY <2>1
<1> QED
  BY <1>1, <1>2 DEF RecordInv

\* A step that concerns none.
LEMMA NothingOfNotices ==
  ASSUME Typed, RecordInv, NEW s \in Senders,
         \A q \in Senders \ {s} : call'[q] = call[q],
         call'[s] = call[s] \/ ~Sending(s)',
         UNCHANGED <<claims, delivery, checks>>, disturbed \subseteq disturbed',
         \A n \in Notices : KeepsRecord(n)
  PROVE  RecordInv'
<1>1. \A n \in Notices : Same(n)
  BY DEF Same
<1>2. \A n \in Notices : Blank(n)' /\ Settled(n)'
  BY <1>1, SameNotice DEF RecordInv
<1>3. ASSUME NEW q \in Senders PROVE Recorded(q)'
  <2>1. CASE call'[q] = call[q]
    <3>1. Sending(q) => call[q].notice \in Notices
      BY Sorts DEF CallsOK, Sending
    <3> QED
      BY <1>1, <2>1, <3>1, SameSender DEF RecordInv
  <2>2. CASE ~Sending(q)'
    BY <2>2 DEF Recorded, Sending
  <2> QED
    BY <2>1, <2>2
<1> QED
  BY <1>2, <1>3 DEF RecordInv

\* The one sender of a notification that was claimed once.
LEMMA OnlySender ==
  ASSUME Typed, PushInv, RecordInv, NEW s \in Senders, NEW q \in Senders,
         Sending(s), Sending(q), call[s].notice = call[q].notice,
         call[s].notice \notin disturbed
  PROVE  s = q
<1>1. call[s].notice \in Notices /\ claims[call[s].notice] <= 1
      /\ claims[call[s].notice] \in Nat
  BY Sorts DEF CallsOK, NoticesOK, Sending, RecordInv, Settled
<1> QED
  BY <1>1 DEF PushInv, OnePushEach

LEMMA InitRecords == Init => RecordInv
  BY DEF Init, RecordInv, Blank, Recorded, Settled, NoneRecorded, NoDelivery, Sending, Idle

\* The first claim starts from nothing; another one disturbs the notification.
LEMMA ClaimKeepsRecords ==
  ASSUME Typed, PushInv, Tidy, RecordInv, NEW s \in Senders, Claim(s)
  PROVE  RecordInv'
<1>1. CASE Claimable(call[s].notice)
  <2>0. call[s].notice \in Notices
    BY <1>1, ClaimEffect DEF Busy
  <2> SUFFICES ASSUME NEW n \in Notices, n = call[s].notice PROVE RecordInv'
    BY <2>0
  <2>1. /\ n \in Notices /\ Moves(s, "users") /\ KeepsPushes(s) /\ call[s].stage = "claim"
        /\ claims'[n] = claims[n] + 1 /\ KeepsRecord(n)
        /\ \A o \in Notices \ {n} : claims'[o] = claims[o] /\ notice'[o] = notice[o]
        /\ UNCHANGED <<delivery, checks>>
        /\ disturbed' = IF claims[n] > 0 THEN disturbed \union {n} ELSE disturbed
    BY <1>1, ClaimEffect DEF Busy, Claim, KeepsRecord
  <2>2. claims[n] \in Nat
    BY <2>1, Sorts DEF NoticesOK
  <2>3. \A o \in Notices \ {n} : Same(o)
    BY <2>1 DEF Same, KeepsRecord
  <2>4. Blank(n)'
    BY <2>1, <2>2 DEF Blank
  <2>5. claims[n] = 0 => /\ ~notice[n].sent /\ notice[n].failedTokens = {}
                         /\ NoneRecorded(n) /\ \A k \in checks : k.notice # n
    BY <2>1 DEF RecordInv, Blank
  <2>6. n \notin disturbed' => claims[n] = 0
    BY <2>1, <2>2
  <2>7. Settled(n)'
    BY <2>1, <2>5, <2>6 DEF Settled, KeepsRecord
  <2>8. \A q \in Senders \ {s} : call'[q] = call[q]
    BY <2>1 DEF Moves
  <2>9. Recorded(s)'
    BY <2>1, <2>5, <2>6 DEF Recorded, NoneRecorded, KeepsRecord, Moves
  <2>10. ASSUME NEW q \in Senders \ {s} PROVE Recorded(q)' \/ call[q].notice # n
    <3>1. CASE ~Sending(q)
      BY <2>8, <3>1 DEF Recorded, Sending
    <3>2. CASE Sending(q) /\ call[q].notice = n
      <4>1. n \in disturbed'
        BY <2>1, <2>2, <3>2 DEF PushInv, OnePushEach
      <4> QED
        BY <2>8, <3>2, <4>1 DEF Recorded
    <3> QED
      BY <3>1, <3>2
  <2> QED
    BY <2>1, <2>3, <2>4, <2>7, <2>8, <2>9, <2>10, OnlyOne
<1>2. CASE ~Claimable(call[s].notice)
  <2>1. /\ \A q \in Senders \ {s} : call'[q] = call[q]
        /\ call'[s].stage = "idle" /\ UNCHANGED <<claims, notice, disturbed>>
    BY <1>2, ClaimNotEffect, FinishKeepsCalls, Sorts DEF noticeVars, Idle
  <2>2. UNCHANGED <<delivery, checks>>
    BY DEF Claim
  <2>3. ~Sending(s)' /\ \A n \in Notices : KeepsRecord(n)
    BY <2>1 DEF Sending, KeepsRecord
  <2> QED
    BY <2>1, <2>2, <2>3, NothingOfNotices
<1> QED
  BY <1>1, <1>2

\* Before the pushes nothing is recorded; nor is there anything to record if
\* there are none.
LEMMA ReadsKeepRecords ==
  ASSUME Typed, PushInv, Tidy, RecordInv, NEW s \in Senders,
         ReadUsers(s) \/ ReadTokens(s) \/ CreateItems(s)
  PROVE  RecordInv'
<1>0. call[s].notice \in Notices
  BY Sorts DEF CallsOK, ReadUsers, ReadTokens, CreateItems
<1> SUFFICES ASSUME NEW n \in Notices, n = call[s].notice PROVE RecordInv'
  BY <1>0
<1>1. /\ n \in Notices /\ Sending(s) /\ call[s].stage \notin {"record", "save"}
      /\ UNCHANGED <<noticeVars, delivery, checks, disturbed>>
      /\ \E g \in Stages : Moves(s, g) /\ g \notin {"idle", "claim", "reset", "record"}
      /\ call'[s].stage = "save" => call'[s].ok = {} /\ call'[s].bad = {}
  <2>1. CASE ReadUsers(s) \/ ReadTokens(s)
    BY <2>1, ReadUsersEffect, ReadTokensEffect
    DEF ReadUsers, ReadTokens, Busy, Sending, Stages, historyVars, Moves
  <2>2. CASE CreateItems(s)
    BY <2>2, CreateItemsEffect
    DEF CreateItems, Busy, Sending, Stages, historyVars, Moves, Tidy, KeepsPushes
  <2> QED
    BY <2>1, <2>2
<1>2. \A o \in Notices : Same(o)
  BY <1>1 DEF Same, KeepsRecord, noticeVars
<1>3. \A q \in Senders \ {s} : call'[q] = call[q] /\ call'[s].notice = n
  BY <1>1 DEF Moves
<1>4. Blank(n)' /\ Settled(n)'
  BY <1>1, <1>2, SameNotice DEF RecordInv
<1>5. n \notin disturbed => /\ ~notice[n].sent /\ notice[n].failedTokens = {}
                           /\ NoneRecorded(n) /\ \A k \in checks : k.notice # n
  BY <1>1 DEF RecordInv, Recorded
<1>6. Recorded(s)'
  BY <1>1, <1>5 DEF Recorded, NoneRecorded, noticeVars, Moves
<1>7. ASSUME NEW q \in Senders \ {s} PROVE Recorded(q)'
  <2>1. Sending(q) => call[q].notice \in Notices
    BY Sorts DEF CallsOK, Sending
  <2> QED
    BY <1>2, <1>3, <2>1, SameSender DEF RecordInv
<1> QED
  BY <1>1, <1>2, <1>4, <1>6, <1>7, OnlyOne

\* The pushes leave one receipt check, of those that got a ticket.
LEMMA PushesKeepRecords ==
  ASSUME Typed, PushInv, Tidy, RecordInv, NEW s \in Senders,
         PushRound(s) \/ PushThrows(s) \/ DeactivationThrows(s)
  PROVE  RecordInv'
<1>0. call[s].notice \in Notices
  BY Sorts DEF CallsOK, PushRound, PushThrows, DeactivationThrows
<1> SUFFICES ASSUME NEW n \in Notices, n = call[s].notice PROVE RecordInv'
  BY <1>0
<1>1. /\ Busy(s) /\ call[s].stage = "push" /\ Typed'
      /\ \E ok, again \in SUBSET call[s].left, g \in {"push", "record"} :
           PushStep(s, ok, again, g)
  BY PushRoundEffect, PushThrowsEffect, DeactivationEffect
<1>2. PICK ok \in SUBSET call[s].left, again \in SUBSET call[s].left, g \in {"push", "record"} :
        PushStep(s, ok, again, g)
  BY <1>1
<1>15. PICK old \in Old :
          /\ checks' \in {checks, checks \union
                         {[notice |-> n, ticket |-> call[s].ticket,
                           left |-> call[s].ok \union ok, good |-> {}, bad |-> {},
                           old |-> old]}}
          /\ g = "push" => checks' = checks
  BY <1>2 DEF PushStep
<1> DEFINE new == [notice |-> n, ticket |-> call[s].ticket,
                   left |-> call[s].ok \union ok, good |-> {}, bad |-> {}, old |-> old]
<1>3. /\ Moves(s, g) /\ KeepsTicket(s) /\ call'[s].ok = call[s].ok \union ok
      /\ checks' \in {checks, checks \union {new}} /\ (g = "push" => checks' = checks)
      /\ UNCHANGED <<noticeVars, delivery>> /\ n \in Notices /\ Sending(s)
      /\ disturbed' \in {disturbed, disturbed \union {n}}
  BY <1>15, <1>1, <1>2 DEF PushStep, Busy, Sending, Stages
<1>4. /\ new.notice = n /\ new.ticket = call'[s].ticket /\ new.left = call'[s].ok
      /\ new.good = {} /\ new.bad = {}
  BY <1>3 DEF KeepsTicket
<1> HIDE DEF new
<1>5. \A k \in checks' : k \in checks \/ (g = "record" /\ k = new)
  BY <1>3
<1>6. \A o \in Notices \ {n} : Same(o)
  BY <1>3, <1>4 DEF Same, KeepsRecord, noticeVars
<1>7. claims[n] > 0 /\ claims[n] \in Nat
  BY <1>3, Sorts DEF PushInv, OnePushEach, NoticesOK
<1>8. Blank(n)'
  BY <1>3, <1>7 DEF Blank, noticeVars
<1>9. n \notin disturbed' => /\ ~notice[n].sent /\ notice[n].failedTokens = {}
                           /\ NoneRecorded(n) /\ \A k \in checks : k.notice # n
  BY <1>1, <1>3 DEF RecordInv, Recorded
<1>10. n \notin disturbed' => claims[n] <= 1
  BY <1>3 DEF RecordInv, Settled
<1>11. Settled(n)'
  BY <1>3, <1>5, <1>9, <1>10 DEF Settled, noticeVars
<1>12. Recorded(s)'
  BY <1>3, <1>4, <1>5, <1>9 DEF Recorded, NoneRecorded, noticeVars, Moves
<1>13. \A q \in Senders \ {s} : call'[q] = call[q]
  BY <1>3 DEF Moves
<1>14. ASSUME NEW q \in Senders \ {s}, call[q].notice = n PROVE Recorded(q)'
  <2>1. Sending(q) => n \in disturbed'
    BY <1>3, <1>14, OnlySender
  <2> QED
    BY <1>3, <1>13, <1>14, <2>1 DEF Recorded, Sending
<1> QED
  BY <1>3, <1>6, <1>8, <1>11, <1>12, <1>13, <1>14, OnlyOne

LEMMA RecordKeepsRecords ==
  ASSUME Typed, PushInv, Tidy, RecordInv, NEW s \in Senders, RecordDeliveries(s)
  PROVE  RecordInv'
<1>0. call[s].notice \in Notices
  BY Sorts DEF CallsOK, RecordDeliveries
<1> SUFFICES ASSUME NEW n \in Notices, n = call[s].notice PROVE RecordInv'
  BY <1>0
<1>1. /\ Busy(s) /\ call[s].stage = "record" /\ Moves(s, "save") /\ KeepsTicket(s)
      /\ KeepsPushes(s) /\ n \in Notices /\ Sending(s)
      /\ UNCHANGED <<noticeVars, checks, disturbed>>
      /\ \A o \in Notices \ {n}, m \in Members : delivery'[<<o, m>>] = delivery[<<o, m>>]
  BY RecordEffect DEF RecordDeliveries, Busy, Sending, Stages, historyVars
<1>2. \A m \in Members :
        /\ delivery'[<<n, m>>].status =
             IF m \in call[s].ok THEN "accepted" ELSE IF m \in call[s].bad THEN "failed"
             ELSE delivery[<<n, m>>].status
        /\ m \in call[s].ok => delivery'[<<n, m>>].ticket = call[s].ticket
  BY RecordEffect
<1>3. \A o \in Notices \ {n} : Same(o)
  BY <1>1 DEF Same, KeepsRecord, noticeVars
<1>4. claims[n] > 0 /\ claims[n] \in Nat
  BY <1>1, Sorts DEF PushInv, OnePushEach, NoticesOK
<1>5. Blank(n)'
  BY <1>1, <1>4 DEF Blank, noticeVars
<1>6. n \notin disturbed =>
        /\ ~notice[n].sent /\ notice[n].failedTokens = {} /\ NoneRecorded(n)
        /\ \A k \in checks :
             k.notice = n => /\ k.left = call[s].ok /\ k.ticket = call[s].ticket
                             /\ k.good = {} /\ k.bad = {}
  BY <1>1 DEF RecordInv, Recorded
<1>7. Settled(n)'
  <2>1. n \notin disturbed =>
          claims[n] <= 1 /\ \A k, j \in checks : k.notice = n /\ j.notice = n => k = j
    BY <1>1 DEF RecordInv, Settled
  <2> QED
    BY <1>1, <1>6, <2>1 DEF Settled, noticeVars
<1>8. /\ \A q \in Senders \ {s} : call'[q] = call[q]
      /\ call'[s].stage = "save" /\ call'[s].notice = n /\ call'[s].ok = call[s].ok
      /\ call'[s].bad = call[s].bad /\ call'[s].ticket = call[s].ticket
  BY <1>1 DEF Moves, KeepsPushes, KeepsTicket
<1>9. Recorded(s)'
  BY <1>1, <1>2, <1>6, <1>8 DEF Recorded, NoneRecorded, noticeVars
<1>10. ASSUME NEW q \in Senders \ {s}, call[q].notice = n PROVE Recorded(q)'
  <2>1. Sending(q) => n \in disturbed
    BY <1>1, <1>10, OnlySender
  <2> QED
    BY <1>1, <1>8, <1>10, <2>1 DEF Recorded, Sending
<1> QED
  BY <1>1, <1>3, <1>5, <1>7, <1>8, <1>9, <1>10, OnlyOne

\* Saving gives the statistics what the delivery documents have by then.
LEMMA SaveKeepsRecords ==
  ASSUME Typed, PushInv, Tidy, Repeated, RecordInv, NEW s \in Senders, SaveNotice(s)
  PROVE  RecordInv'
<1>0. call[s].notice \in Notices
  BY Sorts DEF CallsOK, SaveNotice
<1> SUFFICES ASSUME NEW n \in Notices, n = call[s].notice PROVE RecordInv'
  BY <1>0
<1>1. /\ Busy(s) /\ call[s].stage = "save" /\ Leaves(s) /\ Sending(s)
      /\ UNCHANGED <<claims, delivery, checks, disturbed>>
      /\ \A o \in Notices \ {n} : notice'[o] = notice[o]
  BY SaveEffect DEF SaveNotice, Sending, Stages, historyVars
<1>2. n \notin disturbed =>
        /\ notice'[n].delivered = 0
        /\ notice'[n].failed = Cardinality(call[s].bad)
        /\ notice'[n].failedTokens =
             IF call[s].ok \union call[s].bad = {} THEN notice[n].failedTokens ELSE call[s].bad
  BY SaveEffect DEF Repeated
<1>3. \A o \in Notices \ {n} : Same(o)
  BY <1>1 DEF Same, KeepsRecord
<1>4. claims[n] > 0 /\ claims[n] \in Nat
  BY <1>1, Sorts DEF PushInv, OnePushEach, NoticesOK
<1>5. Blank(n)'
  BY <1>1, <1>4 DEF Blank
<1>6. Settled(n)'
  <2> SUFFICES ASSUME n \notin disturbed PROVE Settled(n)'
    BY <1>1 DEF Settled
  <2>1. /\ claims[n] <= 1
        /\ \A k, j \in checks : k.notice = n /\ j.notice = n => k = j
    BY DEF RecordInv, Settled
  <2>2. /\ notice[n].failedTokens = {}
        /\ \A m \in Members :
             /\ delivery[<<n, m>>].status =
                  IF m \in call[s].ok THEN "accepted"
                  ELSE IF m \in call[s].bad THEN "failed" ELSE "none"
             /\ m \in call[s].ok => delivery[<<n, m>>].ticket = call[s].ticket
        /\ \A k \in checks :
             k.notice = n => /\ k.left = call[s].ok /\ k.ticket = call[s].ticket
                             /\ k.good = {} /\ k.bad = {}
    BY <1>1 DEF RecordInv, Recorded
  <2>3. /\ call[s].ok \subseteq Members /\ call[s].bad \subseteq Members
        /\ call[s].ok \intersect call[s].bad = {}
    BY <1>1 DEF Busy, SendCall, Tidy
  <2>4. notice'[n].failedTokens = call[s].bad
    BY <1>2, <2>2
  <2>5. With(n, "delivered")' = {} /\ With(n, "failed")' = call[s].bad
    BY <1>1, <2>2, <2>3 DEF With
  <2>6. /\ notice'[n].delivered = Cardinality(With(n, "delivered")')
        /\ notice'[n].failed = Cardinality(With(n, "failed")')
        /\ notice'[n].failedTokens = With(n, "failed")'
    BY <1>2, <2>4, <2>5, Counting
  <2>7. ASSUME NEW k \in checks, k.notice = n
        PROVE  /\ notice'[n].delivered = 0 /\ With(n, "delivered")' = k.good
               /\ notice'[n].failed = Cardinality(notice'[n].failedTokens)
               /\ With(n, "failed")' = notice'[n].failedTokens \union k.bad
               /\ notice'[n].failedTokens \intersect k.bad = {}
               /\ \A m \in k.left : delivery[<<n, m>>].status = "accepted"
                                  /\ delivery[<<n, m>>].ticket = k.ticket
    BY <1>2, <2>2, <2>3, <2>4, <2>5, <2>7
  <2> QED
    BY <1>1, <2>1, <2>6, <2>7 DEF Settled
<1>7. /\ \A q \in Senders \ {s} : call'[q] = call[q]
      /\ Recorded(s)'
  BY <1>1 DEF Leaves, Recorded, Sending, Idle
<1>8. ASSUME NEW q \in Senders \ {s}, call[q].notice = n PROVE Recorded(q)'
  <2>1. Sending(q) => n \in disturbed
    BY <1>1, <1>8, OnlySender
  <2> QED
    BY <1>1, <1>7, <1>8, <2>1 DEF Recorded, Sending
<1> QED
  BY <1>3, <1>5, <1>6, <1>7, <1>8, OnlyOne

\* A receipt that comes while the notification is being sent disturbs it ...
LEMMA CheckOfSent ==
  ASSUME Typed, RecordInv, NEW n \in Notices, NEW k \in checks, k.notice = n,
         UNCHANGED <<claims, call>>,
         disturbed' = IF \E s \in Senders : Sending(s) /\ call[s].notice = n
                      THEN disturbed \union {n} ELSE disturbed
  PROVE  /\ Blank(n)'
         /\ \A q \in Senders : Recorded(q)' \/ call[q].notice # n
         /\ \A o \in Notices \ {n} : o \in disturbed <=> o \in disturbed'
         /\ n \in disturbed => n \in disturbed'
<1>1. claims[n] # 0
  BY DEF RecordInv, Blank
<1>2. \A q \in Senders : Sending(q) /\ call[q].notice = n => n \in disturbed'
  OBVIOUS
<1>3. \A q \in Senders : Sending(q)' <=> Sending(q)
  BY DEF Sending
<1> QED
  BY <1>1, <1>2, <1>3 DEF Blank, Recorded

\* ... and later it moves a member from those left to the good or the bad ones.
LEMMA ReadReceiptKeepsRecords ==
  ASSUME Typed, PushInv, Tidy, RecordInv, NEW k \in checks, NEW m \in Members,
         ReadReceipt(k, m)
  PROVE  RecordInv'
<1>0. k \in ReceiptCheck /\ k.notice \in Notices /\ m \in k.left
  BY ReadReceiptEffect DEF ReceiptCheck
<1> SUFFICES ASSUME NEW n \in Notices, n = k.notice PROVE RecordInv'
  BY <1>0
<1>1. /\ UNCHANGED <<claims, call, notice>>
      /\ disturbed' = IF \E s \in Senders : Sending(s) /\ call[s].notice = n
                      THEN disturbed \union {n} ELSE disturbed
  BY DEF ReadReceipt, noticeVars
<1>2. PICK j \in ReceiptCheck, good \in BOOLEAN :
        /\ checks' = (checks \ {k}) \union {j}
        /\ j.notice = k.notice /\ j.ticket = k.ticket /\ j.left = k.left \ {m}
        /\ j.old = k.old
        /\ j.good = IF good THEN k.good \union {m} ELSE k.good
        /\ j.bad = IF good THEN k.bad ELSE k.bad \union {m}
        /\ delivery[<<k.notice, m>>].ticket = k.ticket
             => /\ delivery'[<<k.notice, m>>].status = IF good THEN "delivered" ELSE "failed"
                /\ delivery'[<<k.notice, m>>].ticket = k.ticket
        /\ \A o \in Notices, x \in Members :
             o # k.notice \/ x # m => delivery'[<<o, x>>] = delivery[<<o, x>>]
  BY ReadReceiptEffect
<1>3. /\ Blank(n)'
      /\ \A q \in Senders : Recorded(q)' \/ call[q].notice # n
      /\ \A o \in Notices \ {n} : o \in disturbed <=> o \in disturbed'
      /\ n \in disturbed => n \in disturbed'
  BY <1>1, CheckOfSent
<1>4. \A o \in Notices \ {n} : Same(o)
  BY <1>1, <1>2, <1>3 DEF Same, KeepsRecord
<1>5. Settled(n)'
  <2> SUFFICES ASSUME n \notin disturbed' PROVE Settled(n)'
    BY DEF Settled
  <2>1. /\ n \notin disturbed /\ claims[n] <= 1
        /\ \A i \in checks : i.notice = n => i = k
    BY <1>3 DEF RecordInv, Settled
  <2>2. \A i \in checks' : i.notice = n => i = j
    BY <1>2, <2>1
  <2>3. ASSUME notice[n].sent
        PROVE  /\ notice[n].delivered = 0 /\ With(n, "delivered")' = j.good
               /\ notice[n].failed = Cardinality(notice[n].failedTokens)
               /\ With(n, "failed")' = notice[n].failedTokens \union j.bad
               /\ notice[n].failedTokens \intersect j.bad = {}
               /\ \A x \in j.left : delivery'[<<n, x>>].status = "accepted"
                                  /\ delivery'[<<n, x>>].ticket = j.ticket
    <3>1. /\ notice[n].delivered = 0 /\ With(n, "delivered") = k.good
          /\ notice[n].failed = Cardinality(notice[n].failedTokens)
          /\ With(n, "failed") = notice[n].failedTokens \union k.bad
          /\ notice[n].failedTokens \intersect k.bad = {}
          /\ \A x \in k.left : delivery[<<n, x>>].status = "accepted"
                             /\ delivery[<<n, x>>].ticket = k.ticket
      BY <2>1, <2>3 DEF RecordInv, Settled
    <3>2. /\ delivery'[<<n, m>>].status = IF good THEN "delivered" ELSE "failed"
          /\ \A x \in Members \ {m} : delivery'[<<n, x>>] = delivery[<<n, x>>]
          /\ delivery[<<n, m>>].status = "accepted"
      BY <1>0, <1>2, <3>1
    <3>3. m \notin With(n, "failed") /\ m \notin With(n, "delivered")
      BY <3>2 DEF With
    <3>4. With(n, "delivered")' = j.good
      <4>1. With(n, "delivered")' = IF good THEN With(n, "delivered") \union {m}
                                    ELSE With(n, "delivered")
        BY <3>2 DEF With
      <4> QED
        BY <1>2, <3>1, <4>1
    <3>5. With(n, "failed")' = notice[n].failedTokens \union j.bad
      <4>1. With(n, "failed")' = IF good THEN With(n, "failed") ELSE With(n, "failed") \union {m}
        BY <3>2 DEF With
      <4> QED
        BY <1>2, <3>1, <4>1
    <3>6. notice[n].failedTokens \intersect j.bad = {}
      BY <1>2, <3>1, <3>3
    <3>7. \A x \in j.left : x \in Members \ {m} /\ x \in k.left
      BY <1>0, <1>2 DEF ReceiptCheck
    <3> QED
      BY <1>2, <3>1, <3>2, <3>4, <3>5, <3>6, <3>7
  <2>4. j \in checks' /\ j.notice = n
    BY <1>2
  <2> QED
    BY <1>1, <2>1, <2>2, <2>3, <2>4 DEF Settled
<1> QED
  BY <1>1, <1>3, <1>4, <1>5, OnlyOne

\* A receipt of a replaced ticket is one of a disturbed notification.
LEMMA ReadOldKeepsRecords ==
  ASSUME Typed, PushInv, Repeated, RecordInv, NEW k \in checks, NEW p \in k.old.left,
         ReadOldReceipt(k, p)
  PROVE  RecordInv'
<1>0. k \in ReceiptCheck /\ k.notice \in Notices
  BY ReadOldEffect DEF ReceiptCheck
<1> SUFFICES ASSUME NEW n \in Notices, n = k.notice PROVE RecordInv'
  BY <1>0
<1>1. n \in disturbed /\ UNCHANGED <<noticeVars, call, disturbed>>
  BY ReadOldEffect, Nothing DEF Repeated
<1>2. PICK j \in ReceiptCheck : checks' = (checks \ {k}) \union {j} /\ j.notice = n
  BY ReadOldEffect
<1>3. \A o \in Notices \ {n}, m \in Members : delivery'[<<o, m>>] = delivery[<<o, m>>]
  BY ReadOldEffect
<1>4. \A o \in Notices \ {n} : Same(o)
  BY <1>1, <1>2, <1>3 DEF Same, KeepsRecord, noticeVars
<1>5. claims[n] # 0
  BY DEF RecordInv, Blank
<1>6. Blank(n)' /\ Settled(n)'
  BY <1>1, <1>5 DEF Blank, Settled, noticeVars
<1>7. \A q \in Senders : Recorded(q)' \/ call[q].notice # n
  BY <1>1 DEF Recorded
<1> QED
  BY <1>1, <1>4, <1>6, <1>7, OnlyOne

\* Once they are counted, the statistics have what the documents have.
LEMMA CountKeepsRecords ==
  ASSUME Typed, PushInv, Tidy, Repeated, RecordInv, NEW k \in checks, CountReceipts(k)
  PROVE  RecordInv'
<1>0. k \in ReceiptCheck /\ k.notice \in Notices
  BY CountEffect DEF ReceiptCheck
<1> SUFFICES ASSUME NEW n \in Notices, n = k.notice PROVE RecordInv'
  BY <1>0
<1>1. /\ UNCHANGED <<claims, call, delivery>> /\ checks' = checks \ {k}
      /\ disturbed' = IF \E s \in Senders : Sending(s) /\ call[s].notice = n
                      THEN disturbed \union {n} ELSE disturbed
  BY DEF CountReceipts
<1>2. /\ \A o \in Notices \ {n} : notice'[o] = notice[o]
      /\ notice'[n].sent = notice[n].sent
      /\ n \notin disturbed =>
           /\ notice'[n].delivered = notice[n].delivered + Cardinality(k.good)
           /\ notice'[n].failed = notice[n].failed + Cardinality(k.bad)
           /\ notice'[n].failedTokens = notice[n].failedTokens \union k.bad
  BY CountEffect DEF Repeated
<1>3. /\ Blank(n)'
      /\ \A q \in Senders : Recorded(q)' \/ call[q].notice # n
      /\ \A o \in Notices \ {n} : o \in disturbed <=> o \in disturbed'
      /\ n \in disturbed => n \in disturbed'
  BY <1>1, CheckOfSent
<1>4. \A o \in Notices \ {n} : Same(o)
  BY <1>1, <1>2, <1>3 DEF Same, KeepsRecord
<1>5. Settled(n)'
  <2> SUFFICES ASSUME n \notin disturbed' PROVE Settled(n)'
    BY DEF Settled
  <2>1. /\ n \notin disturbed /\ claims[n] <= 1
        /\ \A i \in checks : i.notice = n => i = k
    BY <1>3 DEF RecordInv, Settled
  <2>2. \A i \in checks' : i.notice # n
    BY <1>1, <2>1
  <2>3. ASSUME notice[n].sent
        PROVE  /\ notice'[n].delivered = Cardinality(With(n, "delivered")')
               /\ notice'[n].failed = Cardinality(With(n, "failed")')
               /\ notice'[n].failedTokens = With(n, "failed")'
    <3>1. /\ notice[n].delivered = 0 /\ With(n, "delivered") = k.good
          /\ notice[n].failed = Cardinality(notice[n].failedTokens)
          /\ With(n, "failed") = notice[n].failedTokens \union k.bad
          /\ notice[n].failedTokens \intersect k.bad = {}
      BY <2>1, <2>3 DEF RecordInv, Settled
    <3>2. /\ With(n, "delivered")' = With(n, "delivered")
          /\ With(n, "failed")' = With(n, "failed")
      BY <1>1 DEF With
    <3>3. /\ k.good \in SUBSET Members /\ k.bad \in SUBSET Members
          /\ notice[n].failedTokens \in SUBSET Members
      BY <1>0, Sorts DEF ReceiptCheck, NoticesOK, Notification
    <3>4. /\ Cardinality(k.good) \in Nat
          /\ Cardinality(notice[n].failedTokens \union k.bad)
               = Cardinality(notice[n].failedTokens) + Cardinality(k.bad)
      <4> DEFINE F == notice[n].failedTokens
                 B == k.bad
      <4>1. F \in SUBSET Members /\ B \in SUBSET Members /\ F \intersect B = {}
        BY <3>1, <3>3
      <4>2. Cardinality(F \union B) = Cardinality(F) + Cardinality(B)
        <5> HIDE DEF F, B
        <5> QED
          BY <4>1, Counting
      <4> QED
        BY <3>3, <4>2, Counting
    <3>5. /\ Cardinality(With(n, "delivered")') = Cardinality(k.good)
          /\ Cardinality(With(n, "failed")') = Cardinality(notice[n].failedTokens \union k.bad)
      BY <3>1, <3>2, Zenon
    <3>6. notice'[n].delivered = Cardinality(k.good)
      BY <1>2, <2>1, <3>1, <3>4
    <3>7. notice'[n].failed = Cardinality(notice[n].failedTokens \union k.bad)
      BY <1>2, <2>1, <3>1, <3>4
    <3>8. notice'[n].failedTokens = With(n, "failed")'
      BY <1>2, <2>1, <3>1, <3>2
    <3> QED
      BY <3>5, <3>6, <3>7, <3>8, Zenon
  <2> QED
    BY <1>1, <1>2, <2>1, <2>2, <2>3 DEF Settled
<1> QED
  BY <1>1, <1>3, <1>4, <1>5, OnlyOne

LEMMA CheckStopsKeepsRecords ==
  ASSUME Typed, PushInv, Tidy, RecordInv, NEW k \in checks, CheckStops(k)
  PROVE  RecordInv'
<1>0. k \in ReceiptCheck /\ k.notice \in Notices
  BY CheckStopsKeepsType DEF ReceiptCheck
<1> SUFFICES ASSUME NEW n \in Notices, n = k.notice PROVE RecordInv'
  BY <1>0
<1>1. /\ UNCHANGED <<claims, call, delivery, notice>> /\ checks' = checks \ {k}
      /\ disturbed' = disturbed \union {n}
  BY DEF CheckStops, noticeVars
<1>2. \A o \in Notices \ {n} : Same(o)
  BY <1>1 DEF Same, KeepsRecord
<1>3. claims[n] # 0
  BY DEF RecordInv, Blank
<1>4. Blank(n)' /\ Settled(n)'
  BY <1>1, <1>3 DEF Blank, Settled
<1>5. \A q \in Senders : Recorded(q)' \/ call[q].notice # n
  BY <1>1 DEF Recorded
<1> QED
  BY <1>1, <1>2, <1>4, <1>5, OnlyOne

LEMMA StepKeepsRecords ==
  Typed /\ PushInv /\ Tidy /\ Repeated /\ RecordInv /\ [Next]_vars => RecordInv'
<1> SUFFICES ASSUME Typed, PushInv, Tidy, Repeated, RecordInv, [Next]_vars PROVE RecordInv'
  OBVIOUS
<1>1. ASSUME NEW s \in Senders, Proceed(s) PROVE RecordInv'
  <2>1. CASE ResetClaim(s)
    <3>1. Leaves(s) /\ \A n \in Notices : KeepsRecord(n)
      BY <2>1, ResetEffect
    <3>2. UNCHANGED <<claims, delivery, checks, disturbed>>
      BY <2>1 DEF ResetClaim
    <3> QED
      BY <3>1, <3>2, NothingOfNotices DEF Leaves, Sending, Idle
  <2> QED
    BY <1>1, <2>1, ClaimKeepsRecords, ReadsKeepRecords, PushesKeepRecords, RecordKeepsRecords,
       SaveKeepsRecords DEF Proceed
<1>2. ASSUME NEW s \in Senders, NEW n \in Notices,
             CreateNotification(s, n) \/ ProcessScheduled(s, n)
      PROVE  RecordInv'
  <2>1. /\ UNCHANGED call \/ Starts(s, n)
        /\ \A o \in Notices : KeepsRecord(o)
    BY <1>2, CreateEffect, ProcessEffect DEF ProcessScheduled, noticeVars, KeepsRecord
  <2>2. UNCHANGED <<claims, delivery, checks, disturbed>>
    BY <1>2 DEF CreateNotification, ProcessScheduled, noticeVars, historyVars
  <2> QED
    BY <2>1, <2>2, NothingOfNotices DEF Starts, Sending
<1>3. ASSUME NEW s \in Senders, SendThrows(s) \/ SenderStops(s) PROVE RecordInv'
  <2>1. /\ \A q \in Senders \ {s} : call'[q] = call[q]
        /\ call'[s].stage = "reset" \/ call'[s].stage = "idle"
    BY <1>3, SendThrowsEffect, SenderStopsEffect DEF Moves, Leaves, Idle
  <2>2. UNCHANGED <<claims, delivery, checks, disturbed, notice>>
    BY <1>3 DEF SendThrows, SenderStops, noticeVars, historyVars
  <2> QED
    BY <2>1, <2>2, NothingOfNotices DEF Sending, KeepsRecord
<1>4. ASSUME NEW n \in Notices, BecomesDue(n) \/ ClaimGoesStale(n) PROVE RecordInv'
  <2>1. \A o \in Notices : KeepsRecord(o)
    BY <1>4, TimeEffect
  <2>2. UNCHANGED <<claims, delivery, checks, disturbed, call>>
    BY <1>4 DEF BecomesDue, ClaimGoesStale, historyVars
  <2>3. \A o \in Notices : Same(o)
    BY <2>1, <2>2 DEF Same
  <2>4. \A o \in Notices : Blank(o)' /\ Settled(o)'
    BY <2>3, SameNotice DEF RecordInv
  <2>5. ASSUME NEW q \in Senders PROVE Recorded(q)'
    <3>1. Sending(q) => call[q].notice \in Notices
      BY Sorts DEF CallsOK, Sending
    <3> QED
      BY <2>2, <2>3, <3>1, SameSender DEF RecordInv
  <2> QED
    BY <2>4, <2>5 DEF RecordInv
<1>5. CASE (\E m \in Members : MemberChanges(m)) \/ UNCHANGED vars
  <2>1. UNCHANGED <<claims, delivery, checks, disturbed, call, notice>>
    BY <1>5 DEF MemberChanges, vars, noticeVars, historyVars
  <2>2. \A o \in Notices : Blank(o)' /\ Settled(o)'
    BY <2>1, SameNotice DEF RecordInv, Same, KeepsRecord
  <2>3. \A q \in Senders : Recorded(q)'
    BY <2>1, SameSender DEF RecordInv, Same, KeepsRecord
  <2> QED
    BY <2>2, <2>3 DEF RecordInv
<1> QED
  BY <1>1, <1>2, <1>3, <1>4, <1>5, PushesKeepRecords, ReadReceiptKeepsRecords,
     ReadOldKeepsRecords, CountKeepsRecords, CheckStopsKeepsRecords DEF Next, CheckStep

-----------------------------------------------------------------------------
LEMMA InitSendingInv == Init => SendingInv
<1>1. Init => Tidy /\ Repeated
  BY IdleIsCall DEF Init, Tidy, Repeated, Idle
<1> QED
  BY <1>1, InitSends, InitApp, InitPushes, InitRecords DEF SendingInv

LEMMA StepSendingInv == SendingInv /\ [Next]_vars => SendingInv'
  BY StepKeepsClaims, StepKeepsApp, StepKeepsPushes, StepKeepsTidy, StepKeepsRepeated,
     StepKeepsRecords
  DEF SendingInv, SendInv

\* The inductive invariant: who sends, what each sender has read and recorded,
\* and what the records of a notification have at each point of its sending.
THEOREM SendingCorrect == Spec => []SendingInv
  BY InitSendingInv, StepSendingInv, PTL DEF Spec

\* The items in the app, the pushes, the delivery documents and the statistics
\* agree with one another, whatever the interleaving of the calls that send a
\* notification, the receipts, and the errors: RecordsAgree in every state.
THEOREM RecordsAlwaysAgree == Spec => []RecordsAgree
<1>1. SendingInv => StatisticsAgree
  BY DEF SendingInv, RecordInv, Settled, StatisticsAgree, With
<1>2. SendingInv => RecordsAgree
  BY <1>1, TypedIsTypeOK DEF SendingInv, SendInv, AppInv, PushInv, RecordsAgree
<1> QED
  BY <1>2, SendingCorrect, PTL
=============================================================================

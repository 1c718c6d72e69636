-------------------------- MODULE AdminNotification --------------------------
(***************************************************************************)
(* Notifications that administrators send, at once or scheduled, to many   *)
(* members: an in-app item for each and a push for those with a token.     *)
(* Senders (the request that creates a notification, and the cron job of   *)
(* the worker) claim a notification first; Expo's receipts are fetched     *)
(* five seconds after the pushes, by a call nobody waits for, and counted  *)
(* in the notification's delivery statistics.                              *)
(***************************************************************************)
EXTENDS Naturals, FiniteSets

CONSTANTS
  Notices,    \* notifications
  Members,    \* members whose records are followed; each has one phone
  Senders,    \* calls of sendNotification that may be under way
  NoNotice,   \* what an idle sender works on
  MaxRounds,  \* times a chunk of pushes is sent (3)
  MaxChanges, \* bound: changes of preferences and tokens
  MaxFaults,  \* bound: errors, and claims that go stale
  MaxStops    \* bound: senders and receipt checks that stop with their process

ASSUME AdminNotificationAssumption ==
  /\ NoNotice \notin Notices
  /\ MaxRounds \in Nat \ {0}
  /\ MaxChanges \in Nat /\ MaxFaults \in Nat /\ MaxStops \in Nat
  /\ IsFiniteSet(Members)

VARIABLES
  notice,    \* the notification documents
  delivery,  \* the delivery documents: ticket and status
  inbox,     \* in-app items <<n, m>>
  wants,     \* members whose preferences admit the notifications
  tokens,    \* members with an active push token
  call,      \* where each sender is, and its local variables
  checks,    \* receipt checks under way
  claims,    \* claims of each notification so far; tickets are named by them
  pushed,    \* history: pushes Expo took for each <<n, m>>
  doubts,    \* history: those of them in a round that failed, by its call of
             \* Expo or by what the sender did with the answer
  changed,   \* history: members whose preferences have changed
  disturbed, \* history: notifications claimed again, or with a round that was
             \* answered and repeated, or whose receipts came before they were
             \* saved, or were not counted
  unlocked,  \* history: notifications whose claim ended under its sender
  lost,      \* history: notifications whose sender stopped
  changes, faults, stops  \* counters for the bounds

memberVars  == <<wants, tokens, changed>>
noticeVars  == <<notice, claims>>
pushVars    == <<pushed, doubts>>
historyVars == <<disturbed, unlocked, lost>>
boundVars   == <<changes, faults, stops>>
vars == <<noticeVars, delivery, inbox, memberVars, call, checks, pushVars,
          historyVars, boundVars>>

-----------------------------------------------------------------------------
Stages == {"idle", "claim", "users", "tokens", "items", "push", "record",
           "save", "reset"}

\* Results a later round replaced, by member and round, with the last round in
\* which each member got such a ticket; and their receipts.
NoPast == [ok |-> {}, bad |-> {}, last |-> [m \in Members |-> 0]]
NoOld  == [left |-> {}, good |-> {}, bad |-> {}]

\* A ticket is named by the claim, and by the round if a later one replaced it.
NoTicket == <<0, 0>>

Idle == [stage |-> "idle", notice |-> NoNotice, ticket |-> NoTicket, users |-> {},
         left |-> {}, ok |-> {}, bad |-> {}, past |-> NoPast, round |-> 1]

\* Sender s has claimed its notification and not saved it yet.
Sending(s) == call[s].stage \in Stages \ {"idle", "claim", "reset"}

Goto(s, g) == call' = [call EXCEPT ![s].stage = g]
Begin(s, n) ==
  /\ call[s].stage = "idle"
  /\ call' = [call EXCEPT ![s] = [Idle EXCEPT !.stage = "claim", !.notice = n]]
Finish(s) == call' = [call EXCEPT ![s] = Idle]

NoDelivery == [ticket |-> NoTicket, status |-> "none"]

Init ==
  /\ notice = [n \in Notices |->
                 [made |-> FALSE, scheduled |-> FALSE, due |-> FALSE, sent |-> FALSE,
                  processing |-> FALSE, stale |-> FALSE,
                  accepted |-> 0, delivered |-> 0, failed |-> 0, failedTokens |-> {}]]
  /\ delivery = [k \in Notices \X Members |-> NoDelivery]
  /\ inbox = {}
  /\ wants = Members
  /\ tokens \in SUBSET Members
  /\ call = [s \in Senders |-> Idle]
  /\ checks = {}
  /\ claims = [n \in Notices |-> 0]
  /\ pushed = [k \in Notices \X Members |-> 0]
  /\ doubts = [k \in Notices \X Members |-> 0]
  /\ changed = {} /\ disturbed = {} /\ unlocked = {} /\ lost = {}
  /\ changes = 0 /\ faults = 0 /\ stops = 0

-----------------------------------------------------------------------------
\* createNotification: saved for later, or sent at once, which includes one
\* scheduled for a time already past; the cron job may find that one as well.
CreateNotification(s, n) ==
  /\ ~notice[n].made
  /\ \/ /\ notice' = [notice EXCEPT ![n] = [@ EXCEPT !.made = TRUE, !.scheduled = TRUE]]
        /\ UNCHANGED call
     \/ /\ \E past \in BOOLEAN :
             notice' = [notice EXCEPT
                          ![n] = [@ EXCEPT !.made = TRUE, !.scheduled = past, !.due = past]]
        /\ Begin(s, n)
  /\ UNCHANGED <<claims, delivery, inbox, memberVars, checks, pushVars, historyVars, boundVars>>

BecomesDue(n) ==
  /\ notice[n].scheduled /\ ~notice[n].due
  /\ notice' = [notice EXCEPT ![n].due = TRUE]
  /\ UNCHANGED <<claims, delivery, inbox, memberVars, call, checks, pushVars, historyVars, boundVars>>

\* What processScheduledNotifications selects.
Listed(n) == notice[n].due /\ ~notice[n].sent /\ ~notice[n].processing

\* A notification of the cron job's list, when its turn comes.
ProcessScheduled(s, n) ==
  /\ Listed(n)
  /\ Begin(s, n)
  /\ UNCHANGED <<noticeVars, delivery, inbox, memberVars, checks, pushVars, historyVars, boundVars>>

\* Mutant of Claimable: a notification is only checked for having been sent.
ClaimableUnsent(n) == ~notice[n].sent

\* The filter of sendNotification's claim.
Claimable(n) == ~notice[n].sent /\ (~notice[n].processing \/ notice[n].stale)

\* sendNotification claims the notification, or leaves it to who has claimed it.
Claim(s) ==
  LET n == call[s].notice IN
  /\ call[s].stage = "claim"
  /\ \/ /\ Claimable(n)
        /\ notice' = [notice EXCEPT ![n] = [@ EXCEPT !.processing = TRUE, !.stale = FALSE]]
        /\ claims' = [claims EXCEPT ![n] = @ + 1]
        /\ call' = [call EXCEPT ![s] = [@ EXCEPT !.stage = "users",
                                               !.ticket = <<claims[n] + 1, 0>>]]
        /\ disturbed' = IF claims[n] > 0 THEN disturbed \union {n} ELSE disturbed
     \/ /\ ~Claimable(n)
        /\ Finish(s)
        /\ UNCHANGED <<noticeVars, disturbed>>
  /\ UNCHANGED <<delivery, inbox, memberVars, checks, pushVars, unlocked, lost, boundVars>>

\* The first read: everyone who is to find an item in the app ...
ReadUsers(s) ==
  /\ call[s].stage = "users"
  /\ call' = [call EXCEPT ![s] = [@ EXCEPT !.stage = "tokens", !.users = wants]]
  /\ UNCHANGED <<noticeVars, delivery, inbox, memberVars, checks, pushVars, historyVars, boundVars>>

\* ... and the second: everyone who is to get a push.
ReadTokens(s) ==
  /\ call[s].stage = "tokens"
  /\ call' = [call EXCEPT ![s] = [@ EXCEPT !.stage = "items", !.left = wants \intersect tokens]]
  /\ UNCHANGED <<noticeVars, delivery, inbox, memberVars, checks, pushVars, historyVars, boundVars>>

\* Mutant of CreateItems: items only for those who get a push.
CreateItemsForPushed(s) ==
  /\ call[s].stage = "items"
  /\ inbox' = inbox \union ({call[s].notice} \X call[s].left)
  /\ Goto(s, IF call[s].left = {} THEN "save" ELSE "push")
  /\ UNCHANGED <<noticeVars, delivery, memberVars, checks, pushVars, historyVars, boundVars>>

\* Mutant of CreateItems: the items are left for after the pushes.
CreateItemsLater(s) ==
  /\ call[s].stage = "items"
  /\ inbox' = IF call[s].left = {} THEN inbox \union ({call[s].notice} \X call[s].users)
              ELSE inbox
  /\ Goto(s, IF call[s].left = {} THEN "save" ELSE "push")
  /\ UNCHANGED <<noticeVars, delivery, memberVars, checks, pushVars, historyVars, boundVars>>

\* createForUsers upserts the items; without tokens there is nothing to push.
CreateItems(s) ==
  /\ call[s].stage = "items"
  /\ inbox' = inbox \union ({call[s].notice} \X call[s].users)
  /\ Goto(s, IF call[s].left = {} THEN "save" ELSE "push")
  /\ UNCHANGED <<noticeVars, delivery, memberVars, checks, pushVars, historyVars, boundVars>>

-----------------------------------------------------------------------------
\* The history with one more push of sender s taken for each member of M.
Took(s, M, known) ==
  LET more(f) == [k \in DOMAIN f |-> IF k \in {call[s].notice} \X M THEN f[k] + 1 ELSE f[k]]
  IN pushed' = more(pushed) /\ doubts' = IF known THEN doubts ELSE more(doubts)

\* The pushes of sender s have all been tried: those of `ok` got a ticket, those
\* of `bad` did not, and `past` are results of theirs from rounds that were
\* repeated.  The receipts of all tickets are fetched by a call of their own.
Pushed(s, ok, bad, past) ==
  /\ call' = [call EXCEPT ![s] = [@ EXCEPT !.stage = "record", !.left = {}, !.ok = ok,
                                          !.bad = bad, !.past = past]]
  /\ checks' = IF ok = {} /\ past.ok = {} THEN checks
               ELSE checks \union {[notice |-> call[s].notice, ticket |-> call[s].ticket,
                                    left |-> ok, good |-> {}, bad |-> {},
                                    old |-> [NoOld EXCEPT !.left = past.ok]]}

\* Mutant of PushRound: a push may be tried again although Expo took it.
PushRoundAll(s) ==
  /\ call[s].stage = "push"
  /\ \E ok, again \in SUBSET call[s].left :
       /\ Took(s, ok, TRUE)
       /\ \/ again = {} /\ Pushed(s, call[s].ok \union ok, call[s].left \ ok, call[s].past)
          \/ /\ again # {} /\ call[s].round < MaxRounds
             /\ call' = [call EXCEPT ![s] = [@ EXCEPT !.left = again, !.ok = call[s].ok \union ok,
                                                   !.round = call[s].round + 1]]
             /\ UNCHANGED checks
  /\ UNCHANGED <<noticeVars, delivery, inbox, memberVars, historyVars, boundVars>>

\* sendChunkWithRetry: Expo answers with a ticket for each push.  Some are tried
\* again, up to MaxRounds times; tokens of unknown devices are deactivated.
PushRound(s) ==
  /\ call[s].stage = "push"
  /\ \E ok, again, gone \in SUBSET call[s].left :
       LET bad == call[s].bad \union (call[s].left \ (ok \union again)) IN
       /\ ok \intersect again = {}
       /\ gone \subseteq call[s].left \ (ok \union again)
       /\ Took(s, ok, TRUE)
       /\ tokens' = tokens \ gone
       /\ \/ /\ again = {}
             /\ Pushed(s, call[s].ok \union ok, bad, call[s].past)
          \/ /\ again # {} /\ call[s].round < MaxRounds
             /\ call' = [call EXCEPT ![s] = [@ EXCEPT !.left = again, !.ok = call[s].ok \union ok,
                                                   !.bad = bad, !.round = call[s].round + 1]]
             /\ UNCHANGED checks
  /\ UNCHANGED <<noticeVars, delivery, inbox, wants, changed, historyVars, boundVars>>

\* The call to Expo throws, perhaps after Expo took some of the pushes.
PushThrows(s) ==
  /\ call[s].stage = "push"
  /\ \E took \in SUBSET call[s].left : Took(s, took, FALSE)
  /\ \/ /\ call[s].round < MaxRounds
        /\ call' = [call EXCEPT ![s].round = @ + 1]
        /\ UNCHANGED checks
     \/ /\ call[s].round = MaxRounds
        /\ Pushed(s, call[s].ok, call[s].bad \union call[s].left, call[s].past)
  /\ UNCHANGED <<noticeVars, delivery, inbox, memberVars, historyVars, boundVars>>

\* The round was answered, and the deactivation of a token throws: the results up
\* to that of its device stay, and everything is sent again that the round was to
\* send, what Expo took of it included; after the last round it has all failed.  A
\* round has up to a hundred pushes: the device may be nobody's of Members.
DeactivationThrows(s) ==
  /\ call[s].stage = "push"
  /\ faults < MaxFaults
  /\ faults' = faults + 1
  /\ \E took, ok, bad, gone \in SUBSET call[s].left :
       LET past == [ok   |-> call[s].past.ok \union (ok \X {call[s].round}),
                    bad  |-> call[s].past.bad \union (bad \X {call[s].round}),
                    last |-> [m \in Members |-> IF m \in ok THEN call[s].round
                                                ELSE call[s].past.last[m]]] IN
       /\ ok \subseteq took /\ bad \intersect took = {} /\ gone \subseteq bad
       /\ Took(s, took, FALSE)
       /\ tokens' = tokens \ gone
       /\ \/ /\ call[s].round < MaxRounds
             /\ call' = [call EXCEPT ![s] = [@ EXCEPT !.past = past, !.round = call[s].round + 1]]
             /\ UNCHANGED checks
          \/ /\ call[s].round = MaxRounds
             /\ Pushed(s, call[s].ok, call[s].bad \union call[s].left, past)
  /\ disturbed' = disturbed \union {call[s].notice}
  /\ UNCHANGED <<noticeVars, delivery, inbox, wants, changed, unlocked, lost, changes, stops>>

\* The delivery documents are upserted, in the order of the results; a failed push
\* has no ticket and leaves the one the document may have by then.
RecordDeliveries(s) ==
  LET n == call[s].notice IN
  /\ call[s].stage = "record"
  /\ delivery' = [k \in Notices \X Members |->
       IF k \in {n} \X call[s].ok THEN [ticket |-> call[s].ticket, status |-> "accepted"]
       ELSE IF k \in {n} \X call[s].bad
       THEN [ticket |-> IF call[s].past.last[k[2]] = 0 THEN delivery[k].ticket
                        ELSE <<call[s].ticket[1], call[s].past.last[k[2]]>>,
             status |-> "failed"]
       ELSE delivery[k]]
  /\ Goto(s, "save")
  /\ UNCHANGED <<noticeVars, inbox, memberVars, checks, pushVars, historyVars, boundVars>>

\* save() writes the document's fields, whatever became of the claim; without
\* tokens it leaves the failed ones alone.
SaveNotice(s) ==
  LET n == call[s].notice IN
  /\ call[s].stage = "save"
  /\ notice' = [notice EXCEPT ![n] = [@ EXCEPT
       !.sent = TRUE, !.processing = FALSE, !.stale = FALSE,
       !.accepted = Cardinality(call[s].ok) + Cardinality(call[s].past.ok), !.delivered = 0,
       !.failed = Cardinality(call[s].bad) + Cardinality(call[s].past.bad),
       !.failedTokens = IF call[s].ok \union call[s].bad = {} THEN notice[n].failedTokens
                       ELSE call[s].bad \union {p[1] : p \in call[s].past.bad}]]
  /\ Finish(s)
  /\ UNCHANGED <<claims, delivery, inbox, memberVars, checks, pushVars, historyVars, boundVars>>

\* A store call throws: before the pushes, that which deactivates a token Expo would
\* not know; the pushes themselves never do.
SendThrows(s) ==
  /\ call[s].stage \in Stages \ {"idle", "reset"}
  /\ call[s].stage = "push" => call[s].round = 1
  /\ faults < MaxFaults
  /\ faults' = faults + 1
  /\ Goto(s, "reset")
  /\ UNCHANGED <<noticeVars, delivery, inbox, memberVars, checks, pushVars, historyVars,
                 changes, stops>>

Others(s, n) == \E q \in Senders \ {s} : Sending(q) /\ call[q].notice = n

\* Mutant of ResetClaim: the error is only logged.
ResetClaimNot(s) ==
  /\ call[s].stage = "reset"
  /\ Finish(s)
  /\ UNCHANGED <<noticeVars, delivery, inbox, memberVars, checks, pushVars, historyVars, boundVars>>

\* The catch block of the caller resets the claim, whoever holds it.
ResetClaim(s) ==
  LET n == call[s].notice IN
  /\ call[s].stage = "reset"
  /\ notice' = [notice EXCEPT ![n] = [@ EXCEPT !.processing = FALSE, !.stale = FALSE]]
  /\ unlocked' = IF Others(s, n) THEN unlocked \union {n} ELSE unlocked
  /\ Finish(s)
  /\ UNCHANGED <<claims, delivery, inbox, memberVars, checks, pushVars, disturbed, lost,
                 boundVars>>

-----------------------------------------------------------------------------
\* A receipt has come: the document with its ticket is brought up to date, and
\* the token deactivated if the device is not registered any more.
ReadReceipt(k, m) ==
  LET d == <<k.notice, m>> IN
  /\ m \in k.left
  /\ \E good \in BOOLEAN :
       /\ checks' = (checks \ {k}) \union
            {[k EXCEPT !.left = @ \ {m}, !.good = IF good THEN @ \union {m} ELSE @,
                       !.bad = IF good THEN @ ELSE @ \union {m}]}
       /\ delivery' = IF delivery[d].ticket # k.ticket THEN delivery
                      ELSE [delivery EXCEPT ![d].status = IF good THEN "delivered" ELSE "failed"]
       /\ tokens' \in {tokens} \union (IF good THEN {} ELSE {tokens \ {m}})
  /\ disturbed' = IF \E s \in Senders : Sending(s) /\ call[s].notice = k.notice
                  THEN disturbed \union {k.notice} ELSE disturbed
  /\ UNCHANGED <<noticeVars, inbox, wants, changed, call, pushVars, unlocked, lost, boundVars>>

\* The same for a ticket that a later push replaced.
ReadOldReceipt(k, p) ==
  LET d == <<k.notice, p[1]>> IN
  /\ p \in k.old.left
  /\ \E good \in BOOLEAN :
       /\ checks' = (checks \ {k}) \union
            {[k EXCEPT !.old = [left |-> @.left \ {p},
                                good |-> IF good THEN @.good \union {p} ELSE @.good,
                                bad  |-> IF good THEN @.bad ELSE @.bad \union {p}]]}
       /\ delivery' = IF delivery[d].ticket # <<k.ticket[1], p[2]>> THEN delivery
                      ELSE [delivery EXCEPT ![d].status = IF good THEN "delivered" ELSE "failed"]
       /\ tokens' \in {tokens} \union (IF good THEN {} ELSE {tokens \ {p[1]}})
  /\ UNCHANGED <<noticeVars, inbox, wants, changed, call, pushVars, historyVars, boundVars>>

\* Mutant of CountReceipts: failures are not counted.
CountReceiptsGood(k) ==
  LET n == k.notice IN
  /\ notice' = [notice EXCEPT ![n].delivered = @ + Cardinality(k.good)]
  /\ checks' = checks \ {k}
  /\ UNCHANGED <<claims, delivery, inbox, memberVars, call, pushVars, historyVars, boundVars>>

\* The receipts there are have been read, and are added to the statistics.
CountReceipts(k) ==
  LET n == k.notice IN
  /\ notice' = [notice EXCEPT ![n] = [@ EXCEPT
       !.delivered = notice[n].delivered + Cardinality(k.good) + Cardinality(k.old.good),
       !.failed = notice[n].failed + Cardinality(k.bad) + Cardinality(k.old.bad),
       !.failedTokens = notice[n].failedTokens \union k.bad \union {p[1] : p \in k.old.bad}]]
  /\ checks' = checks \ {k}
  /\ disturbed' = IF \E s \in Senders : Sending(s) /\ call[s].notice = n
                  THEN disturbed \union {n} ELSE disturbed
  /\ UNCHANGED <<claims, delivery, inbox, memberVars, call, pushVars, unlocked, lost, boundVars>>

-----------------------------------------------------------------------------
\* A sender stops with its process ...
SenderStops(s) ==
  /\ call[s].stage # "idle"
  /\ stops < MaxStops
  /\ stops' = stops + 1
  /\ lost' = lost \union {call[s].notice}
  /\ Finish(s)
  /\ UNCHANGED <<noticeVars, delivery, inbox, memberVars, checks, pushVars, disturbed,
                 unlocked, changes, faults>>

\* ... or a receipt check, which may also throw between its two updates.
CheckStops(k) ==
  /\ stops < MaxStops
  /\ stops' = stops + 1
  /\ checks' = checks \ {k}
  /\ disturbed' = disturbed \union {k.notice}
  /\ UNCHANGED <<noticeVars, delivery, inbox, memberVars, call, pushVars, unlocked, lost,
                 changes, faults>>

\* Ten minutes have passed since the claim.
ClaimGoesStale(n) ==
  /\ notice[n].processing /\ ~notice[n].stale
  /\ faults < MaxFaults
  /\ faults' = faults + 1
  /\ notice' = [notice EXCEPT ![n].stale = TRUE]
  /\ unlocked' = IF \E s \in Senders : Sending(s) /\ call[s].notice = n
                 THEN unlocked \union {n} ELSE unlocked
  /\ UNCHANGED <<claims, delivery, inbox, memberVars, call, checks, pushVars, disturbed,
                 lost, changes, stops>>

\* A member changes his preferences, or registers or removes his phone.
MemberChanges(m) ==
  /\ changes < MaxChanges
  /\ changes' = changes + 1
  /\ changed' = changed \union {m}
  /\ \/ /\ wants' \in {wants \union {m}, wants \ {m}} \ {wants}
        /\ UNCHANGED tokens
     \/ /\ tokens' \in {tokens \union {m}, tokens \ {m}} \ {tokens}
        /\ UNCHANGED wants
  /\ UNCHANGED <<noticeVars, delivery, inbox, call, checks, pushVars, historyVars, faults, stops>>

-----------------------------------------------------------------------------
Proceed(s) ==
  \/ Claim(s) \/ ReadUsers(s) \/ ReadTokens(s) \/ CreateItems(s)
  \/ PushRound(s) \/ PushThrows(s)
  \/ RecordDeliveries(s) \/ SaveNotice(s) \/ ResetClaim(s)

CheckStep(k) ==
  \/ \E m \in Members : ReadReceipt(k, m)
  \/ \E p \in k.old.left : ReadOldReceipt(k, p)
  \/ CountReceipts(k) \/ CheckStops(k)

Next ==
  \/ \E s \in Senders, n \in Notices : CreateNotification(s, n) \/ ProcessScheduled(s, n)
  \/ \E s \in Senders :
       Proceed(s) \/ DeactivationThrows(s) \/ SendThrows(s) \/ SenderStops(s)
  \/ \E k \in checks : CheckStep(k)
  \/ \E n \in Notices : BecomesDue(n) \/ ClaimGoesStale(n)
  \/ \E m \in Members : MemberChanges(m)

Spec == Init /\ [][Next]_vars

\* Senders go on, time passes, and the cron job runs every five minutes.
Fairness ==
  /\ \A s \in Senders : WF_vars(Proceed(s))
  /\ \A n \in Notices : /\ WF_vars(BecomesDue(n))
                        /\ WF_vars(\E s \in Senders : ProcessScheduled(s, n))

FairSpec == Spec /\ Fairness

-----------------------------------------------------------------------------
Statuses == {"none", "accepted", "delivered", "failed"}
Tickets  == Nat \X Nat
Replaced == SUBSET (Members \X (1 .. MaxRounds))

TypeOK ==
  /\ notice \in [Notices -> [made: BOOLEAN, scheduled: BOOLEAN, due: BOOLEAN, sent: BOOLEAN,
                             processing: BOOLEAN, stale: BOOLEAN, accepted: Nat,
                             delivered: Nat, failed: Nat, failedTokens: SUBSET Members]]
  /\ delivery \in [Notices \X Members -> [ticket: Tickets, status: Statuses]]
  /\ inbox \subseteq Notices \X Members
  /\ wants \subseteq Members /\ tokens \subseteq Members /\ changed \subseteq Members
  /\ call \in [Senders -> [stage: Stages, notice: Notices \union {NoNotice}, ticket: Tickets,
                           users: SUBSET Members, left: SUBSET Members, ok: SUBSET Members,
                           bad: SUBSET Members, past: [ok: Replaced, bad: Replaced,
                                                            last: [Members -> Nat]],
                           round: 1 .. MaxRounds]]
  /\ checks \subseteq [notice: Notices, ticket: Tickets, left: SUBSET Members,
                       good: SUBSET Members, bad: SUBSET Members,
                       old: [left: Replaced, good: Replaced, bad: Replaced]]
  /\ claims \in [Notices -> Nat]
  /\ pushed \in [Notices \X Members -> Nat] /\ doubts \in [Notices \X Members -> Nat]
  /\ disturbed \subseteq Notices /\ unlocked \subseteq Notices /\ lost \subseteq Notices
  /\ changes \in 0 .. MaxChanges /\ faults \in 0 .. MaxFaults /\ stops \in 0 .. MaxStops

\* Two calls send one notification only after its claim went stale, or was reset
\* by a third call that never held it, while the first was sending.
OneSender ==
  \A s, q \in Senders :
    s # q /\ Sending(s) /\ Sending(q) /\ call[s].notice = call[q].notice
    => call[s].notice \in unlocked

\* Once a notification is sent, everyone it was meant for all the time finds it
\* in the app, with or without a token for pushes.
SentIsInTheApp ==
  \A n \in Notices, m \in wants \ changed : notice[n].sent => <<n, m>> \in inbox

\* Who gets a push finds the item it opens, unless his preferences changed
\* between the two reads of the members.
PushesHaveItems ==
  \A n \in Notices, m \in Members \ changed : pushed[<<n, m>>] > 0 => <<n, m>> \in inbox

\* A member's phone rings twice only if Expo took a push in a round that failed (its
\* call threw, or the deactivation of some token did after the answer),
\* or the notification was claimed again after an error or a stale claim.
SecondPushOnlyInDoubt ==
  \A n \in Notices, m \in Members :
    pushed[<<n, m>>] > 1 + doubts[<<n, m>>] => claims[n] > 1

\* The statistics agree with the delivery documents once a notification is sent
\* and its receipts are counted, if it was claimed once, no round of it was repeated
\* after its answer, and it was saved before the receipts came.
StatisticsAgree ==
  \A n \in Notices :
    /\ notice[n].sent /\ n \notin disturbed
    /\ \A k \in checks : k.notice # n
    => LET with(status) == {m \in Members : delivery[<<n, m>>].status = status} IN
       /\ notice[n].delivered = Cardinality(with("delivered"))
       /\ notice[n].failed = Cardinality(with("failed"))
       /\ notice[n].failedTokens = with("failed")

\* The four records of a notification, its items, pushes, delivery documents and
\* statistics, agree with one another.
RecordsAgree ==
  TypeOK /\ SentIsInTheApp /\ PushesHaveItems /\ SecondPushOnlyInDoubt /\ StatisticsAgree

\* Every scheduled notification is sent, unless its sender stopped: errors are
\* tried again with the next run of the cron job, which looks for notifications
\* that nobody has claimed.
ScheduledAreSent ==
  \A n \in Notices : notice[n].scheduled ~> (notice[n].sent \/ n \in lost)
=============================================================================

------------------------- MODULE NotificationOutbox -------------------------
(***************************************************************************)
(* Member notifications.  notify writes an outbox entry under its          *)
(* idempotency key and publishes a job for it; deliver claims the entry,   *)
(* creates the in-app notification, sends the push and settles the entry.  *)
(* deliver runs in the worker (for a job, or for the sweeper's cron) and,  *)
(* when the broker cannot be reached, in the process that called notify.   *)
(*                                                                         *)
(* Time: nextAttemptAt is abstracted to whether an entry is due, claimedAt *)
(* to whether the claim is more than ten minutes old.                      *)
(***************************************************************************)
EXTENDS JobQueue

CONSTANTS
  Entries,       \* outbox entries, one for each idempotency key
  MaxAttempts,   \* failed deliveries before an entry is given up (5)
  SlowDelivery,  \* may a delivery take longer than ten minutes?
  MaxNotify      \* bound: calls of notify

ASSUME OutboxAssumption ==
  /\ Jobs = Entries
  /\ NoJob \notin Entries
  /\ MaxAttempts \in Nat \ {0}
  /\ SlowDelivery \in BOOLEAN
  /\ MaxNotify \in Nat /\ MaxOutages \in Nat /\ MaxFaults \in Nat

VARIABLES
  status,     \* the entry's status, "absent" before its first notify
  attempts,   \* the entry's attempts field
  due,        \* is nextAttemptAt in the past?
  stale,      \* is claimedAt more than ten minutes ago?
  inbox,      \* entries whose in-app notification exists
  stage,      \* what each handler call does next
  entry,      \* the entry each handler call works on
  tries,      \* the attempts field as the handler call read it
  failures,   \* history: deliveries that failed
  pushes,     \* history: pushes sent
  optedOut,   \* history: entries delivered to a member who wants none
  overtaken,  \* history: entries whose old claim was taken from a slow call
  abandoned,  \* history: entries with a delivery that was cut off
  calls       \* counter for the bound

entryVars   == <<status, attempts, due, stale>>
callVars    == <<stage, entry, tries>>
historyVars == <<failures, pushes, optedOut, overtaken, abandoned>>
boundVars   == <<calls, outages, faults>>
vars == <<queueVars, entryVars, inbox, callVars, historyVars, boundVars>>

-----------------------------------------------------------------------------
Working == {"inapp", "push", "settle", "fail"}
Stages  == {"idle", "publish", "claim"} \union Working
Settled == {"delivered", "dead_letter"}

Goto(h, s) == stage' = [stage EXCEPT ![h] = s]

\* An idle handler call takes up entry k at stage s.
Begin(h, k, s) ==
  /\ stage[h] = "idle"
  /\ Goto(h, s)
  /\ entry' = [entry EXCEPT ![h] = k]
  /\ UNCHANGED tries

\* The handler call comes to nothing: a claim it has taken is left behind.
CutOff(h) ==
  /\ faults < MaxFaults
  /\ faults' = faults + 1
  /\ abandoned' = IF stage[h] \in Working THEN abandoned \union {entry[h]} ELSE abandoned
  /\ UNCHANGED <<entryVars, inbox, failures, pushes, optedOut, overtaken, calls, outages>>

\* The handler call is over.
Finish(h) ==
  /\ Goto(h, "idle")
  /\ entry' = [entry EXCEPT ![h] = NoJob]
  /\ tries' = [tries EXCEPT ![h] = 0]

\* Mutant of Claimable: the filter lacks the age of the claim.
ClaimableAnyAge(k) == due[k] /\ status[k] \in {"pending", "processing"}

\* The filter of deliver's claim.
Claimable(k) ==
  /\ due[k]
  /\ status[k] = "pending" \/ (status[k] = "processing" /\ stale[k])

\* The sweeper's query.
Sweepable(k) == status[k] = "pending" /\ due[k]

-----------------------------------------------------------------------------
Init ==
  /\ QueueInit
  /\ status = [k \in Entries |-> "absent"]
  /\ attempts = [k \in Entries |-> 0]
  /\ due = [k \in Entries |-> FALSE]
  /\ stale = [k \in Entries |-> FALSE]
  /\ inbox = {}
  /\ stage = [h \in Handlers |-> "idle"]
  /\ entry = [h \in Handlers |-> NoJob]
  /\ tries = [h \in Handlers |-> 0]
  /\ failures = [k \in Entries |-> 0]
  /\ pushes = [k \in Entries |-> 0]
  /\ optedOut = {}
  /\ overtaken = {}
  /\ abandoned = {}
  /\ calls = 0 /\ outages = 0 /\ faults = 0

\* Mutant of Notify: $set instead of $setOnInsert.
NotifyOverwrites(h, k) ==
  /\ calls < MaxNotify
  /\ calls' = calls + 1
  /\ status' = [status EXCEPT ![k] = "pending"]
  /\ due' = [due EXCEPT ![k] = TRUE]
  /\ Begin(h, k, "publish")
  /\ UNCHANGED <<queueVars, attempts, stale, inbox, historyVars, outages, faults>>

\* notify, first call: $setOnInsert creates the entry; a later call of the same
\* key finds it, and leaves it alone when it is settled.
Notify(h, k) ==
  /\ calls < MaxNotify
  /\ calls' = calls + 1
  /\ \/ /\ status[k] = "absent"
        /\ status' = [status EXCEPT ![k] = "pending"]
        /\ due' = [due EXCEPT ![k] = TRUE]
        /\ Begin(h, k, "publish")
     \/ /\ status[k] \in {"pending", "processing"}
        /\ Begin(h, k, "publish")
        /\ UNCHANGED <<status, due>>
     \/ /\ status[k] \in Settled
        /\ UNCHANGED <<callVars, status, due>>
  /\ UNCHANGED <<queueVars, attempts, stale, inbox, historyVars, outages, faults>>

\* notify, second call: publish the job, or deliver here.
PublishJob(h) ==
  /\ stage[h] = "publish"
  /\ \/ Publish(entry[h]) /\ Finish(h) /\ UNCHANGED outages
     \/ /\ PublishLost /\ outages < MaxOutages /\ outages' = outages + 1
        /\ Finish(h)
     \/ PublishRefused /\ Goto(h, "claim") /\ UNCHANGED <<entry, tries, outages>>
  /\ UNCHANGED <<entryVars, inbox, historyVars, calls, faults>>

\* The worker takes a job from the queue.
ReceiveJob(h, k) ==
  /\ Receive(h, k)
  /\ Begin(h, k, "claim")
  /\ UNCHANGED <<entryVars, inbox, historyVars, boundVars>>

\* Every minute processPending delivers the entries it finds pending and due.
Sweep(h, k) ==
  /\ Sweepable(k)
  /\ Begin(h, k, "claim")
  /\ UNCHANGED <<queueVars, entryVars, inbox, historyVars, boundVars>>

\* deliver's conditional update; a call that does not win it just returns.
ClaimEntry(h) ==
  LET k == entry[h] IN
  /\ stage[h] = "claim"
  /\ \/ /\ Claimable(k)
        /\ status' = [status EXCEPT ![k] = "processing"]
        /\ stale' = [stale EXCEPT ![k] = FALSE]
        /\ tries' = [tries EXCEPT ![h] = attempts[k]]
        /\ Goto(h, "inapp")
        /\ overtaken' =
             IF stale[k] /\ \E g \in Handlers : entry[g] = k /\ stage[g] \in Working
             THEN overtaken \union {k} ELSE overtaken
        /\ UNCHANGED <<queueVars, entry>>
     \/ /\ ~Claimable(k)
        /\ Ack(h)
        /\ Finish(h)
        /\ UNCHANGED <<status, stale, overtaken>>
  /\ UNCHANGED <<attempts, due, inbox, failures, pushes, optedOut, abandoned,
                 boundVars>>

\* The preference is read and the in-app notification upserted under the key.
CreateInApp(h) ==
  /\ stage[h] = "inapp"
  /\ \/ /\ inbox' = inbox \union {entry[h]}
        /\ Goto(h, "push")
        /\ UNCHANGED optedOut
     \/ /\ optedOut' = optedOut \union {entry[h]}
        /\ Goto(h, "settle")
        /\ UNCHANGED inbox
  /\ UNCHANGED <<queueVars, entryVars, entry, tries, failures, pushes,
                 overtaken, abandoned, boundVars>>

\* sendToUser: one request to Expo, unless no token or preference asks for it.
SendPush(h) ==
  /\ stage[h] = "push"
  /\ \/ pushes' = [pushes EXCEPT ![entry[h]] = @ + 1]
     \/ UNCHANGED pushes
  /\ Goto(h, "settle")
  /\ UNCHANGED <<queueVars, entryVars, inbox, entry, tries, failures, optedOut,
                 overtaken, abandoned, boundVars>>

\* A call in deliver's try block throws, after what it did took effect or not;
\* the last one only without effect, as the driver retries such an update.
DeliveryFails(h) ==
  /\ \/ stage[h] \in {"inapp", "push", "settle"} /\ UNCHANGED <<inbox, pushes>>
     \/ stage[h] = "inapp" /\ inbox' = inbox \union {entry[h]} /\ UNCHANGED pushes
     \/ /\ stage[h] = "push"
        /\ pushes' = [pushes EXCEPT ![entry[h]] = @ + 1]
        /\ UNCHANGED inbox
  /\ Goto(h, "fail")
  /\ UNCHANGED <<queueVars, entryVars, entry, tries, failures, optedOut,
                 overtaken, abandoned, boundVars>>

\* The last update of the try block.  Its filter is the entry's id alone.
SettleEntry(h) ==
  /\ stage[h] = "settle"
  /\ status' = [status EXCEPT ![entry[h]] = "delivered"]
  /\ stale' = [stale EXCEPT ![entry[h]] = FALSE]
  /\ Ack(h)
  /\ Finish(h)
  /\ UNCHANGED <<attempts, due, inbox, historyVars, boundVars>>

\* Mutant of CountFailure: the failure is counted twice.
CountFailureTwice(h) ==
  /\ stage[h] = "fail"
  /\ attempts' = [attempts EXCEPT ![entry[h]] = tries[h] + 2]
  /\ status' = [status EXCEPT ![entry[h]] =
                  IF tries[h] + 2 >= MaxAttempts THEN "dead_letter" ELSE "pending"]
  /\ failures' = [failures EXCEPT ![entry[h]] = @ + 1]
  /\ Ack(h)
  /\ Finish(h)
  /\ UNCHANGED <<due, stale, inbox, pushes, optedOut, overtaken, abandoned,
                 boundVars>>

\* Mutant of CountFailure: the catch block only logs.
CountFailureLogs(h) ==
  /\ stage[h] = "fail"
  /\ Ack(h)
  /\ Finish(h)
  /\ UNCHANGED <<entryVars, inbox, historyVars, boundVars>>

\* The catch block counts from the attempts it read when it claimed the entry
\* and puts the next attempt off, or gives the entry up.
CountFailure(h) ==
  LET k == entry[h] IN
  /\ stage[h] = "fail"
  /\ attempts' = [attempts EXCEPT ![k] = tries[h] + 1]
  /\ status' = [status EXCEPT ![k] = IF tries[h] + 1 >= MaxAttempts
                                     THEN "dead_letter" ELSE "pending"]
  /\ due' = [due EXCEPT ![k] = FALSE]
  /\ stale' = [stale EXCEPT ![k] = FALSE]
  /\ failures' = [failures EXCEPT ![k] = @ + 1]
  /\ Ack(h)
  /\ Finish(h)
  /\ UNCHANGED <<inbox, pushes, optedOut, overtaken, abandoned, boundVars>>

-----------------------------------------------------------------------------
\* The claim itself, or the catch block's update, throws: deliver rejects.
HandlerThrows(h) ==
  /\ stage[h] \in {"claim", "fail"}
  /\ CutOff(h)
  /\ Nack(h)
  /\ Finish(h)

\* The process is restarted between two store calls.
HandlerDies(h) ==
  /\ stage[h] # "idle"
  /\ CutOff(h)
  /\ Redeliver(h)
  /\ Finish(h)

Outage ==
  /\ outages < MaxOutages
  /\ outages' = outages + 1
  /\ ConnectionCloses
  /\ UNCHANGED <<entryVars, inbox, callVars, historyVars, calls, faults>>

BrokerReturns ==
  /\ Reconnect
  /\ UNCHANGED <<entryVars, inbox, callVars, historyVars, boundVars>>

\* nextAttemptAt passes.
BecomesDue(k) ==
  /\ status[k] = "pending"
  /\ ~due[k]
  /\ due' = [due EXCEPT ![k] = TRUE]
  /\ UNCHANGED <<queueVars, status, attempts, stale, inbox, callVars,
                 historyVars, boundVars>>

\* Ten minutes pass after a claim: its holder is gone, or slow.
ClaimGoesStale(k) ==
  /\ status[k] = "processing"
  /\ ~stale[k]
  /\ SlowDelivery \/ \A h \in Handlers : entry[h] = k => stage[h] \notin Working
  /\ stale' = [stale EXCEPT ![k] = TRUE]
  /\ UNCHANGED <<queueVars, status, attempts, due, inbox, callVars,
                 historyVars, boundVars>>

-----------------------------------------------------------------------------
\* The steps a handler call makes once it has begun.
Proceed(h) ==
  \/ PublishJob(h)
  \/ ClaimEntry(h)
  \/ CreateInApp(h)
  \/ SendPush(h)
  \/ DeliveryFails(h)
  \/ SettleEntry(h)
  \/ CountFailure(h)

Time(k) == BecomesDue(k) \/ ClaimGoesStale(k)

Next ==
  \/ \E h \in Handlers, k \in Entries : \/ Notify(h, k)
                                        \/ ReceiveJob(h, k)
                                        \/ Sweep(h, k)
  \/ \E h \in Handlers : Proceed(h) \/ HandlerThrows(h) \/ HandlerDies(h)
  \/ Outage
  \/ BrokerReturns
  \/ \E k \in Entries : Time(k)

Spec == Init /\ [][Next]_vars

\* Calls in progress go on, time passes, and the cron fires every minute.
\* The broker promises nothing: not even that it comes back.
Fairness ==
  /\ \A h \in Handlers : WF_vars(Proceed(h))
  /\ \A k \in Entries : /\ WF_vars(BecomesDue(k))
                        /\ WF_vars(\E h \in Handlers : Sweep(h, k))

FairSpec == Spec /\ Fairness
-----------------------------------------------------------------------------
TypeOK ==
  /\ QueueTypeOK
  /\ status \in [Entries -> {"absent", "pending", "processing"} \union Settled]
  /\ attempts \in [Entries -> Nat]
  /\ due \in [Entries -> BOOLEAN]
  /\ stale \in [Entries -> BOOLEAN]
  /\ inbox \subseteq Entries
  /\ stage \in [Handlers -> Stages]
  /\ entry \in [Handlers -> Entries \union {NoJob}]
  /\ \A h \in Handlers : stage[h] # "idle" => entry[h] \in Entries
  /\ tries \in [Handlers -> Nat]
  /\ failures \in [Entries -> Nat]
  /\ pushes \in [Entries -> Nat]
  /\ optedOut \subseteq Entries
  /\ overtaken \subseteq Entries
  /\ abandoned \subseteq Entries
  /\ calls \in 0 .. MaxNotify
  /\ outages \in 0 .. MaxOutages
  /\ faults \in 0 .. MaxFaults

\* Two calls deliver one entry at the same time only when the second found the
\* first one's claim ten minutes old (the claim of deliver).
OneDeliveryAtATime ==
  \A g, h \in Handlers :
    /\ g # h
    /\ stage[g] \in Working /\ stage[h] \in Working
    /\ entry[g] = entry[h]
    => entry[g] \in overtaken

\* attempts never runs ahead of the failures it counts, and loses one only to
\* a second delivery of the same entry (attempts is written from a value read
\* at the claim).
AttemptsAreFailures ==
  \A k \in Entries : /\ attempts[k] <= failures[k]
                     /\ attempts[k] = failures[k] \/ k \in overtaken

\* A member is pushed the same notification twice only after a failed or a
\* broken delivery, or a delivery that took more than ten minutes.  Calling
\* notify again, broker redeliveries and the sweeper never do it.
PushesOnce ==
  \A k \in Entries : pushes[k] > 1 => failures[k] > 0 \/ faults > 0 \/ k \in overtaken

\* A delivery is exclusive, counted, and made once, unless it fails, is cut off
\* or takes too long.
DeliveredOnce == TypeOK /\ OneDeliveryAtATime /\ AttemptsAreFailures /\ PushesOnce

\* Every notification is delivered or given up in the end, although jobs are
\* lost and the broker may be gone for good.
EntriesAreSettled ==
  \A k \in Entries : status[k] # "absent" ~> status[k] \in Settled

\* Only a delivery that is cut off can leave its notification behind: lost
\* jobs, a broker that is gone for good, failures and slow deliveries cannot.
SettledUnlessAbandoned ==
  \A k \in Entries :
    status[k] # "absent" ~> (status[k] \in Settled \/ k \in abandoned)

\* The ledger the outbox keeps.  An entry whose old claim was taken over from
\* a slow delivery is out of it.
LedgerName ==
  [absent |-> "absent", pending |-> "owed", processing |-> "owed",
   delivered |-> "done", dead_letter |-> "dropped"]

LedgerState ==
  [k \in Entries |-> IF k \in overtaken THEN "disputed" ELSE LedgerName[status[k]]]

Ledger == INSTANCE DeliveryLedger
            WITH Limit <- MaxAttempts, state <- LedgerState,
                 informed <- (inbox \union optedOut) \ overtaken,
                 failed <- [k \in Entries |-> IF k \in overtaken THEN 0 ELSE attempts[k]]

\* Repeated calls, redelivered jobs, sweeps, outages and crashes never drop a
\* notification early, settle one its member has not been told of, reopen a
\* settled one, or lose count of a failure.
ImplementsLedger == Ledger!Spec
=============================================================================

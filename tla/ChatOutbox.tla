----------------------------- MODULE ChatOutbox -----------------------------
(***************************************************************************)
(* The notifications of chat messages.  Every stored message leaves an     *)
(* outbox entry; a run of the processor claims entries one by one, oldest  *)
(* first, creates the in-app notification, sends the push and settles the  *)
(* entry.  A process has at most one run at a time (the flag `processing`);*)
(* the interval and the chat-outbox jobs start one.  Without a broker both *)
(* the web and the worker process run it, with it only the worker does.    *)
(*                                                                         *)
(* Time: nextAttemptAt is abstracted to whether an entry is due, lockedAt  *)
(* to whether the lock is more than two minutes old.                       *)
(***************************************************************************)
EXTENDS Naturals, Sequences

CONSTANTS
  Entries,       \* outbox entries, one for each message to a member
  NoEntry,       \* a run that holds no entry
  Processors,    \* the processes that run the processor
  RunLength,     \* entries one run takes at most (25)
  MaxAttempts,   \* failed deliveries before an entry is given up (5)
  SlowDelivery,  \* may a delivery take longer than two minutes?
  MaxBreaks      \* bound: runs that break off

ChatOutboxAssumption ==
  /\ NoEntry \notin Entries
  /\ RunLength \in Nat \ {0}
  /\ MaxAttempts \in Nat \ {0}
  /\ SlowDelivery \in BOOLEAN
  /\ MaxBreaks \in Nat

VARIABLES
  created,    \* the entries in the order of createdAt
  status,     \* the entry's status, "absent" before its message
  attempts,   \* the entry's attempts field
  due,        \* is nextAttemptAt in the past?
  stale,      \* is lockedAt more than two minutes ago?
  inbox,      \* entries whose in-app notification exists
  step,       \* what each run does next, "off" between runs
  held,       \* the entry each run works on
  tries,      \* the attempts field as the run read it
  turns,      \* entries each run has taken
  claimed,    \* history: entries that a run has taken up
  optedOut,   \* history: entries of members who want no notification
  overtaken,  \* history: entries whose old lock was taken from a slow run
  breaks      \* runs that broke off

entryVars == <<created, status, attempts, due, stale>>
runVars   == <<step, held, tries, turns>>
ghostVars == <<claimed, optedOut, overtaken>>
outboxVars == <<entryVars, inbox, runVars, ghostVars, breaks>>

-----------------------------------------------------------------------------
Working == {"inapp", "push", "settle", "fail"}
Steps   == {"off", "claim"} \union Working
Settled == {"processed", "failed"}

Advance(p, s) == step' = [step EXCEPT ![p] = s]

\* The run has dealt with its entry and looks for the next one.
Release(p) ==
  /\ Advance(p, "claim")
  /\ held' = [held EXCEPT ![p] = NoEntry]
  /\ tries' = [tries EXCEPT ![p] = 0]
  /\ UNCHANGED turns

\* The run is over: the finally block clears the flag.
StopRun(p) ==
  /\ Advance(p, "off")
  /\ held' = [held EXCEPT ![p] = NoEntry]
  /\ tries' = [tries EXCEPT ![p] = 0]
  /\ turns' = [turns EXCEPT ![p] = 0]

\* Mutant of Claimable: the age of the lock is not looked at.
ClaimableAnyAge(k) == status[k] = "processing" \/ (status[k] = "pending" /\ due[k])

\* The filter of the claim.
Claimable(k) ==
  \/ status[k] = "pending" /\ due[k]
  \/ status[k] = "processing" /\ stale[k]

\* Mutant of Oldest: the query is not sorted.
OldestAny(k) == \E i \in DOMAIN created : created[i] = k

\* No claimable entry was created before entry k.
Oldest(k) ==
  \E i \in DOMAIN created :
    created[i] = k /\ \A j \in 1 .. (i - 1) : ~Claimable(created[j])

-----------------------------------------------------------------------------
Init ==
  /\ created = <<>>
  /\ status = [k \in Entries |-> "absent"]
  /\ attempts = [k \in Entries |-> 0]
  /\ due = [k \in Entries |-> FALSE]
  /\ stale = [k \in Entries |-> FALSE]
  /\ inbox = {}
  /\ step = [p \in Processors |-> "off"]
  /\ held = [p \in Processors |-> NoEntry]
  /\ tries = [p \in Processors |-> 0]
  /\ turns = [p \in Processors |-> 0]
  /\ claimed = {}
  /\ optedOut = {}
  /\ overtaken = {}
  /\ breaks = 0

\* The transaction of sendMessage creates the entry of its message.
CreateEntry(k) ==
  /\ status[k] = "absent"
  /\ created' = Append(created, k)
  /\ status' = [status EXCEPT ![k] = "pending"]
  /\ due' = [due EXCEPT ![k] = TRUE]
  /\ UNCHANGED <<attempts, stale, inbox, runVars, ghostVars, breaks>>

\* processPendingMessages is called while the process has no run.
StartRun(p) ==
  /\ step[p] = "off"
  /\ Advance(p, "claim")
  /\ UNCHANGED <<entryVars, inbox, held, tries, turns, ghostVars, breaks>>

\* Mutant of ClaimOldest: no break when nothing was claimed.
ClaimOldestGoesOn(p) ==
  /\ step[p] = "claim"
  /\ \A k \in Entries : ~Claimable(k)
  /\ Advance(p, "inapp")
  /\ UNCHANGED <<entryVars, inbox, held, tries, turns, ghostVars, breaks>>

\* One atomic update takes the oldest entry that can be claimed; the run ends
\* when there is none or when it has taken RunLength of them.
ClaimOldest(p) ==
  /\ step[p] = "claim"
  /\ \/ \E k \in Entries :
          /\ turns[p] < RunLength
          /\ Claimable(k) /\ Oldest(k)
          /\ status' = [status EXCEPT ![k] = "processing"]
          /\ stale' = [stale EXCEPT ![k] = FALSE]
          /\ held' = [held EXCEPT ![p] = k]
          /\ tries' = [tries EXCEPT ![p] = attempts[k]]
          /\ turns' = [turns EXCEPT ![p] = @ + 1]
          /\ claimed' = claimed \union {k}
          /\ overtaken' = IF stale[k] /\ \E q \in Processors : held[q] = k
                          THEN overtaken \union {k} ELSE overtaken
          /\ Advance(p, "inapp")
     \/ /\ turns[p] = RunLength \/ \A k \in Entries : ~Claimable(k)
        /\ StopRun(p)
        /\ UNCHANGED <<status, stale, claimed, overtaken>>
  /\ UNCHANGED <<created, attempts, due, inbox, optedOut, breaks>>

\* Message, sender and preference are read; the in-app notification is upserted
\* under the message's id unless the member wants none.
CreateInApp(p) ==
  /\ step[p] = "inapp"
  /\ \/ inbox' = inbox \union {held[p]} /\ Advance(p, "push") /\ UNCHANGED optedOut
     \/ optedOut' = optedOut \union {held[p]} /\ Advance(p, "settle") /\ UNCHANGED inbox
  /\ UNCHANGED <<entryVars, held, tries, turns, claimed, overtaken, breaks>>

\* sendChatMessagePush retries by itself and reports what Expo refused only in
\* its result, which the processor does not look at.
SendPush(p) ==
  /\ step[p] = "push"
  /\ Advance(p, "settle")
  /\ UNCHANGED <<entryVars, inbox, held, tries, turns, ghostVars, breaks>>

\* Mutant of Throws: the error is swallowed and the entry settled.
ThrowsSwallowed(p) ==
  /\ step[p] = "inapp"
  /\ Advance(p, "settle")
  /\ UNCHANGED <<entryVars, inbox, held, tries, turns, ghostVars, breaks>>

\* A call in the inner try block throws, after it took effect or not; the last
\* one only without effect, as the driver retries the update of a document.
Throws(p) ==
  /\ \/ step[p] \in {"inapp", "push", "settle"} /\ UNCHANGED inbox
     \/ step[p] = "inapp" /\ inbox' = inbox \union {held[p]}
  /\ Advance(p, "fail")
  /\ UNCHANGED <<entryVars, held, tries, turns, ghostVars, breaks>>

\* The last update of the try block.  Its filter is the entry's id alone.
SettleEntry(p) ==
  /\ step[p] = "settle"
  /\ status' = [status EXCEPT ![held[p]] = "processed"]
  /\ stale' = [stale EXCEPT ![held[p]] = FALSE]
  /\ Release(p)
  /\ UNCHANGED <<created, attempts, due, inbox, ghostVars, breaks>>

\* The catch block counts from the attempts it read with its claim and puts the
\* next attempt off, or gives the entry up.
CountFailure(p) ==
  LET k == held[p] IN
  /\ step[p] = "fail"
  /\ attempts' = [attempts EXCEPT ![k] = tries[p] + 1]
  /\ status' = [status EXCEPT ![k] = IF tries[p] + 1 >= MaxAttempts
                                     THEN "failed" ELSE "pending"]
  /\ due' = [due EXCEPT ![k] = FALSE]
  /\ stale' = [stale EXCEPT ![k] = FALSE]
  /\ Release(p)
  /\ UNCHANGED <<created, inbox, claimed, optedOut, overtaken, breaks>>

-----------------------------------------------------------------------------
\* The process stops at any point, or the claim or the catch block's update
\* throws out of the loop: the entry keeps its lock.
RunBreaksOff(p) ==
  /\ step[p] # "off"
  /\ breaks < MaxBreaks
  /\ breaks' = breaks + 1
  /\ StopRun(p)
  /\ UNCHANGED <<entryVars, inbox, ghostVars>>

BecomesDue(k) ==
  /\ status[k] = "pending"
  /\ ~due[k]
  /\ due' = [due EXCEPT ![k] = TRUE]
  /\ UNCHANGED <<created, status, attempts, stale, inbox, runVars, ghostVars, breaks>>

\* Two minutes pass after a claim: its run is gone, or slow.
LockGoesStale(k) ==
  /\ status[k] = "processing"
  /\ ~stale[k]
  /\ SlowDelivery \/ \A p \in Processors : held[p] # k
  /\ stale' = [stale EXCEPT ![k] = TRUE]
  /\ UNCHANGED <<created, status, attempts, due, inbox, runVars, ghostVars, breaks>>

-----------------------------------------------------------------------------
Proceed(p) ==
  \/ ClaimOldest(p)
  \/ CreateInApp(p)
  \/ SendPush(p)
  \/ Throws(p)
  \/ SettleEntry(p)
  \/ CountFailure(p)

Time(k) == BecomesDue(k) \/ LockGoesStale(k)

Process ==
  \/ \E p \in Processors : StartRun(p) \/ Proceed(p) \/ RunBreaksOff(p)
  \/ \E k \in Entries : Time(k)

Next == Process \/ \E k \in Entries : CreateEntry(k)

Spec == Init /\ [][Next]_outboxVars

\* The interval fires every five seconds, a run goes on, and time passes.
Fairness ==
  /\ \A p \in Processors : WF_outboxVars(StartRun(p)) /\ WF_outboxVars(Proceed(p))
  /\ \A k \in Entries : WF_outboxVars(Time(k))

FairSpec == Spec /\ Fairness
-----------------------------------------------------------------------------
TypeOK ==
  /\ created \in Seq(Entries)
  /\ status \in [Entries -> {"absent", "pending", "processing"} \union Settled]
  /\ attempts \in [Entries -> Nat]
  /\ due \in [Entries -> BOOLEAN]
  /\ stale \in [Entries -> BOOLEAN]
  /\ inbox \subseteq Entries
  /\ step \in [Processors -> Steps]
  /\ held \in [Processors -> Entries \union {NoEntry}]
  /\ \A p \in Processors : step[p] \in Working <=> held[p] \in Entries
  /\ tries \in [Processors -> Nat]
  /\ turns \in [Processors -> 0 .. RunLength]
  /\ claimed \subseteq Entries
  /\ optedOut \subseteq Entries
  /\ overtaken \subseteq Entries
  /\ breaks \in 0 .. MaxBreaks

\* Messages are taken up in the order in which they were written: no entry is
\* claimed while an older one has never been.  A failing or abandoned entry
\* holds up nobody behind it, but no new one is passed over either.
OldestFirst ==
  \A i, j \in DOMAIN created :
    i < j /\ created[j] \in claimed => created[i] \in claimed

\* Two runs work on one entry only when the second found the first one's lock
\* two minutes old.
OneRunPerEntry ==
  \A p, q \in Processors :
    p # q /\ held[p] # NoEntry /\ held[p] = held[q] => held[p] \in overtaken

\* The ledger the outbox keeps.  An entry whose old lock was taken over from a
\* slow run is out of it: the final updates do not ask whether their run still
\* holds the lock.
LedgerName ==
  [absent |-> "absent", pending |-> "owed", processing |-> "owed",
   processed |-> "done", failed |-> "dropped"]

LedgerState ==
  [k \in Entries |-> IF k \in overtaken THEN "disputed" ELSE LedgerName[status[k]]]

LedgerInformed == (inbox \union optedOut) \ overtaken
LedgerFailed   == [k \in Entries |-> IF k \in overtaken THEN 0 ELSE attempts[k]]

Ledger == INSTANCE DeliveryLedger
            WITH Limit <- MaxAttempts, state <- LedgerState,
                 informed <- LedgerInformed, failed <- LedgerFailed

\* Breaking off, retrying and taking over never drop a message early, settle
\* one its member has not been told of, reopen a settled one, or lose count of
\* a failure.
LedgerStep == [Ledger!Next]_<<LedgerState, LedgerInformed, LedgerFailed>>

ImplementsLedger == Ledger!Init /\ [][LedgerStep]_outboxVars
=============================================================================

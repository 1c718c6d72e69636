---------------------------- MODULE ChatDelivery ----------------------------
(***************************************************************************)
(* Chat from end to end: the calls that store messages (ChatSend) and the  *)
(* runs that notify them (ChatOutbox), joined by the transaction that      *)
(* stores a message together with its outbox entry.                        *)
(***************************************************************************)
EXTENDS Naturals, FiniteSets

CONSTANTS
  Members, Admin, Letters, NoLetter, Sender, Receiver, Key, NoKey, Calls,
  MaxSends, MaxChanges, MaxFaults,
  NoEntry, Processors, RunLength, MaxAttempts, SlowDelivery, MaxBreaks

VARIABLES
  stored, lastMessage, blocks, unavailable, stage, letter, emitted, acked, late,
  sends, changes, faults,
  created, status, attempts, due, stale, inbox, step, held, tries, turns,
  claimed, optedOut, overtaken, breaks

\* The n-th message of a letter to a member has the entry <<l, n>>.
Entries == {l \in Letters : Receiver[l] # Admin} \X (1 .. MaxSends)

Send   == INSTANCE ChatSend
Outbox == INSTANCE ChatOutbox

ASSUME ChatDeliveryAssumption ==
  /\ Send!ChatAssumption
  /\ Outbox!ChatOutboxAssumption
  /\ IsFiniteSet(Calls)

sendVars   == <<stored, lastMessage, blocks, unavailable, stage, letter, emitted,
                acked, late, sends, changes, faults>>
outboxVars == <<created, status, attempts, due, stale, inbox, step, held, tries,
                turns, claimed, optedOut, overtaken, breaks>>
vars == <<sendVars, outboxVars>>
-----------------------------------------------------------------------------
Init == Send!Init /\ Outbox!Init

\* Mutant of StoreMessage: the entry is not written with the message.
StoreMessageOnly(c) == Send!Store(c) /\ UNCHANGED outboxVars

\* One transaction for a new message and its entry.  Nobody is notified of a
\* message to the administrators, nor of a message that was there before.
StoreMessage(c) ==
  LET l == letter[c] IN
  /\ Send!Store(c)
  /\ \/ /\ ~Send!Exists(l) /\ Receiver[l] # Admin
        /\ Outbox!CreateEntry(<<l, stored[l] + 1>>)
     \/ /\ Send!Exists(l) \/ Receiver[l] = Admin
        /\ UNCHANGED outboxVars

\* Every other step of a call, of the members and of the administrators.
SendOnly ==
  /\ \/ \E c \in Calls : \/ \E l \in Letters : Send!SendMessage(c, l)
                         \/ Send!CheckRecipient(c)
                         \/ Send!CheckBlock(c)
                         \/ Send!Dedupe(c)
                         \/ Send!Emit(c)
                         \/ Send!PublishHint(c)
                         \/ Send!CallBreaksOff(c)
     \/ Send!Standing
  /\ UNCHANGED outboxVars

Notify == Outbox!Process /\ UNCHANGED sendVars

Next == SendOnly \/ (\E c \in Calls : StoreMessage(c)) \/ Notify

Spec == Init /\ [][Next]_vars

\* Only the outbox needs to make progress: clients may go away at any point.
Fairness ==
  /\ \A p \in Processors :
       /\ WF_vars(Outbox!StartRun(p) /\ UNCHANGED sendVars)
       /\ WF_vars(Outbox!Proceed(p) /\ UNCHANGED sendVars)
  /\ \A k \in Entries : WF_vars(Outbox!Time(k) /\ UNCHANGED sendVars)

FairSpec == Spec /\ Fairness
-----------------------------------------------------------------------------
\* Each message to a member is notified or given up in the end, even if its
\* sender's call, or a run of the processor, breaks off right after a commit.
MessagesAreNotified ==
  \A k \in Entries : stored[k[1]] >= k[2] ~> status[k] \in Outbox!Settled

\* A retried letter is notified once: the inbox never holds more entries of a
\* letter than messages were stored for it, and so only one if it has a key.
RetriesNotifyOnce ==
  \A k \in Entries : k \in inbox => k[2] <= stored[k[1]] /\ (Key[k[1]] # NoKey => k[2] = 1)
=============================================================================

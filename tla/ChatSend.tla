------------------------------ MODULE ChatSend ------------------------------
(***************************************************************************)
(* Sending a chat message.  sendMessage looks at the receiver, at the      *)
(* blocks between the two members and for an earlier message with the same *)
(* clientMessageId, and then stores the message in one transaction with    *)
(* both sides' chat logs.  A client that got no answer sends again, so     *)
(* several calls may be sending one letter, and members block each other   *)
(* or are banned while calls are in progress.                              *)
(***************************************************************************)
EXTENDS Naturals

CONSTANTS
  Members,     \* member ids
  Admin,       \* the identity all administrators share
  Letters,     \* what clients mean to send
  NoLetter,    \* no letter: an idle call, an empty conversation
  Sender,      \* Sender[l], a member or Admin
  Receiver,    \* Receiver[l], a member or Admin
  Key,         \* Key[l], the client's clientMessageId ...
  NoKey,       \* ... if it sends one
  Calls,       \* concurrent calls of sendMessage
  MaxSends,    \* bound: calls of sendMessage
  MaxChanges,  \* bound: blocks, bans and their reversals
  MaxFaults    \* bound: calls that break off

People == Members \union {Admin}

ChatAssumption ==
  /\ Admin \notin Members
  /\ NoLetter \notin Letters
  /\ Sender \in [Letters -> People]
  /\ Receiver \in [Letters -> People]
  \* A client makes up a new key, a UUID, for each letter.
  /\ \A l, m \in Letters :
       l # m /\ Sender[l] = Sender[m] /\ Key[l] # NoKey => Key[l] # Key[m]
  /\ MaxSends \in Nat /\ MaxChanges \in Nat /\ MaxFaults \in Nat

VARIABLES
  stored,       \* stored[l]: messages in the database for letter l
  lastMessage,  \* the chat logs: lastMessage[<<user, chatWith>>]
  blocks,       \* pairs <<blocker, blocked>>
  unavailable,  \* members that are banned or not active
  stage,        \* what each call does next
  letter,       \* the letter each call sends
  emitted,      \* history: live messages sent to both sockets
  acked,        \* history: letters whose client was told of success
  late,         \* history: calls during which the letter became unwelcome
  sends, changes, faults  \* counters for the bounds

callVars    == <<stage, letter>>
historyVars == <<emitted, acked, late>>
boundVars   == <<sends, changes, faults>>
sendVars == <<stored, lastMessage, blocks, unavailable, callVars, historyVars,
              boundVars>>

-----------------------------------------------------------------------------
Stages == {"idle", "recipient", "block", "dedupe", "store", "emit", "publish"}

Keyed(l) == Key[l] # NoKey

\* Mutant of Blocked: only the sender's own blocks are looked for.
BlockedOneWay(l) ==
  /\ Admin \notin {Sender[l], Receiver[l]}
  /\ <<Sender[l], Receiver[l]>> \in blocks

\* A block in either direction; nobody blocks an administrator.
Blocked(l) ==
  /\ Admin \notin {Sender[l], Receiver[l]}
  /\ \/ <<Sender[l], Receiver[l]>> \in blocks
     \/ <<Receiver[l], Sender[l]>> \in blocks

\* Mutant of Exists: the sender is not part of the query.
ExistsAnySender(l) == Keyed(l) /\ \E m \in Letters : Key[m] = Key[l] /\ stored[m] > 0

\* Mutant of Exists: the message is stored without its clientMessageId.
ExistsNever(l) == FALSE

\* There is a message with the sender and clientMessageId of letter l: what the
\* look-up finds and what the unique index on the two refuses to insert again.
Exists(l) ==
  /\ Keyed(l)
  /\ \E m \in Letters : Sender[m] = Sender[l] /\ Key[m] = Key[l] /\ stored[m] > 0

Goto(c, s) == stage' = [stage EXCEPT ![c] = s]

\* The call is over.
Finish(c) ==
  /\ Goto(c, "idle")
  /\ letter' = [letter EXCEPT ![c] = NoLetter]
  /\ late' = late \ {c}

\* The client gets the message: the call ends well.
Answer(c) == Finish(c) /\ acked' = acked \union {letter[c]}

-----------------------------------------------------------------------------
Init ==
  /\ stored = [l \in Letters |-> 0]
  /\ lastMessage = [p \in People \X People |-> NoLetter]
  /\ blocks = {}
  /\ unavailable = {}
  /\ stage = [c \in Calls |-> "idle"]
  /\ letter = [c \in Calls |-> NoLetter]
  /\ emitted = [l \in Letters |-> 0]
  /\ acked = {}
  /\ late = {}
  /\ sends = 0 /\ changes = 0 /\ faults = 0

\* sendMessage is called: over HTTP, over the socket, or for one receiver of a
\* broadcast.  The admin is always there.
SendMessage(c, l) ==
  /\ stage[c] = "idle"
  /\ sends < MaxSends
  /\ sends' = sends + 1
  /\ Goto(c, IF Receiver[l] = Admin THEN "block" ELSE "recipient")
  /\ letter' = [letter EXCEPT ![c] = l]
  /\ UNCHANGED <<stored, lastMessage, blocks, unavailable, historyVars, changes,
                 faults>>

\* Is the receiver there, active and not banned?
CheckRecipient(c) ==
  /\ stage[c] = "recipient"
  /\ \/ Receiver[letter[c]] \notin unavailable
        /\ Goto(c, "block")
        /\ UNCHANGED <<letter, late>>
     \/ Receiver[letter[c]] \in unavailable /\ Finish(c)
  /\ UNCHANGED <<stored, lastMessage, blocks, unavailable, emitted, acked, boundVars>>

CheckBlock(c) ==
  /\ stage[c] = "block"
  /\ \/ /\ ~Blocked(letter[c])
        /\ Goto(c, IF Keyed(letter[c]) THEN "dedupe" ELSE "store")
        /\ UNCHANGED <<letter, late>>
     \/ Blocked(letter[c]) /\ Finish(c)
  /\ UNCHANGED <<stored, lastMessage, blocks, unavailable, emitted, acked, boundVars>>

\* A retry that finds its message answers with it.
Dedupe(c) ==
  /\ stage[c] = "dedupe"
  /\ \/ Exists(letter[c]) /\ Answer(c)
     \/ ~Exists(letter[c]) /\ Goto(c, "store") /\ UNCHANGED <<letter, late, acked>>
  /\ UNCHANGED <<stored, lastMessage, blocks, unavailable, emitted, boundVars>>

\* Mutant of Store: no unique index on sender and clientMessageId.
StoreTwice(c) ==
  LET l == letter[c] IN
  /\ stage[c] = "store"
  /\ stored' = [stored EXCEPT ![l] = @ + 1]
  /\ Goto(c, "emit")
  /\ UNCHANGED <<lastMessage, blocks, unavailable, letter, historyVars, boundVars>>

\* Mutant of Store: the receiver's chat log is not part of the transaction.
StoreOneLog(c) ==
  LET l == letter[c] IN
  /\ stage[c] = "store"
  /\ ~Exists(l)
  /\ stored' = [stored EXCEPT ![l] = @ + 1]
  /\ lastMessage' = [lastMessage EXCEPT ![<<Sender[l], Receiver[l]>>] = l]
  /\ Goto(c, "emit")
  /\ UNCHANGED <<blocks, unavailable, letter, historyVars, boundVars>>

\* Mutant of Store: after a duplicate key error the call goes on.
StoreGoesOn(c) ==
  /\ stage[c] = "store"
  /\ stored' = IF Exists(letter[c]) THEN stored
               ELSE [stored EXCEPT ![letter[c]] = @ + 1]
  /\ Goto(c, "emit")
  /\ UNCHANGED <<lastMessage, blocks, unavailable, letter, historyVars, boundVars>>

(***************************************************************************)
(* The transaction commits the message and both chat logs (and the outbox  *)
(* entry, see ChatDelivery), or the index refuses a message that another   *)
(* call has stored in the meantime and the call answers with that one.     *)
(* A transaction that meets another one is run again by the driver.        *)
(***************************************************************************)
Store(c) ==
  LET l == letter[c] IN
  /\ stage[c] = "store"
  /\ \/ /\ ~Exists(l)
        /\ stored' = [stored EXCEPT ![l] = @ + 1]
        /\ lastMessage' = [lastMessage EXCEPT ![<<Sender[l], Receiver[l]>>] = l,
                                              ![<<Receiver[l], Sender[l]>>] = l]
        /\ Goto(c, "emit")
        /\ UNCHANGED <<letter, late, acked>>
     \/ Exists(l) /\ Answer(c) /\ UNCHANGED <<stored, lastMessage>>
  /\ UNCHANGED <<blocks, unavailable, emitted, boundVars>>

\* emitToConversation, to the rooms of both.
Emit(c) ==
  /\ stage[c] = "emit"
  /\ emitted' = [emitted EXCEPT ![letter[c]] = @ + 1]
  /\ \/ Receiver[letter[c]] # Admin
        /\ Goto(c, "publish")
        /\ UNCHANGED <<letter, late, acked>>
     \/ Receiver[letter[c]] = Admin /\ Answer(c)
  /\ UNCHANGED <<stored, lastMessage, blocks, unavailable, boundVars>>

\* The chat-outbox job only wakes the processor, which its interval does too.
PublishHint(c) ==
  /\ stage[c] = "publish"
  /\ Answer(c)
  /\ UNCHANGED <<stored, lastMessage, blocks, unavailable, emitted, boundVars>>

\* A store call, the transaction or the publish throws, or the process stops.
CallBreaksOff(c) ==
  /\ stage[c] # "idle"
  /\ faults < MaxFaults
  /\ faults' = faults + 1
  /\ Finish(c)
  /\ UNCHANGED <<stored, lastMessage, blocks, unavailable, emitted, acked, sends,
                 changes>>

-----------------------------------------------------------------------------
\* The calls in progress with a letter that satisfies P.
InProgress(P(_)) == {c \in Calls : stage[c] # "idle" /\ P(letter[c])}

BlockUser(a, b) ==
  /\ a # b
  /\ <<a, b>> \notin blocks
  /\ changes < MaxChanges
  /\ changes' = changes + 1
  /\ blocks' = blocks \union {<<a, b>>}
  /\ late' = late \union InProgress(LAMBDA l : {Sender[l], Receiver[l]} = {a, b})
  /\ UNCHANGED <<stored, lastMessage, unavailable, callVars, emitted, acked, sends,
                 faults>>

UnblockUser(a, b) ==
  /\ <<a, b>> \in blocks
  /\ changes < MaxChanges
  /\ changes' = changes + 1
  /\ blocks' = blocks \ {<<a, b>>}
  /\ UNCHANGED <<stored, lastMessage, unavailable, callVars, historyVars, sends,
                 faults>>

\* An administrator bans or deactivates a member ...
BanMember(m) ==
  /\ m \notin unavailable
  /\ changes < MaxChanges
  /\ changes' = changes + 1
  /\ unavailable' = unavailable \union {m}
  /\ late' = late \union InProgress(LAMBDA l : Receiver[l] = m)
  /\ UNCHANGED <<stored, lastMessage, blocks, callVars, emitted, acked, sends,
                 faults>>

\* ... or lets a member back in.
UnbanMember(m) ==
  /\ m \in unavailable
  /\ changes < MaxChanges
  /\ changes' = changes + 1
  /\ unavailable' = unavailable \ {m}
  /\ UNCHANGED <<stored, lastMessage, blocks, callVars, historyVars, sends, faults>>

-----------------------------------------------------------------------------
Proceed(c) ==
  \/ CheckRecipient(c)
  \/ CheckBlock(c)
  \/ Dedupe(c)
  \/ Store(c)
  \/ Emit(c)
  \/ PublishHint(c)

Standing ==
  \/ \E a, b \in Members : BlockUser(a, b) \/ UnblockUser(a, b)
  \/ \E m \in Members : BanMember(m) \/ UnbanMember(m)

Next ==
  \/ \E c \in Calls, l \in Letters : SendMessage(c, l)
  \/ \E c \in Calls : Proceed(c)
  \/ \E c \in Calls : CallBreaksOff(c)
  \/ Standing

Spec == Init /\ [][Next]_sendVars
-----------------------------------------------------------------------------
TypeOK ==
  /\ stored \in [Letters -> Nat]
  /\ lastMessage \in [People \X People -> Letters \union {NoLetter}]
  /\ blocks \subseteq Members \X Members
  /\ unavailable \subseteq Members
  /\ stage \in [Calls -> Stages]
  /\ letter \in [Calls -> Letters \union {NoLetter}]
  /\ \A c \in Calls : stage[c] # "idle" => letter[c] \in Letters
  /\ emitted \in [Letters -> Nat]
  /\ acked \subseteq Letters
  /\ late \subseteq Calls
  /\ sends \in 0 .. MaxSends
  /\ changes \in 0 .. MaxChanges
  /\ faults \in 0 .. MaxFaults

\* A letter with a clientMessageId is stored at most once, however many calls
\* send it at the same time (the look-up alone would not do: two calls may both
\* find nothing).
OneMessagePerKey == \A l \in Letters : Keyed(l) => stored[l] <= 1

\* A client that is told of success has its letter in the database: no retry is
\* answered with a message of somebody else or with nothing.
AckedMeansStored == \A l \in acked : stored[l] > 0

\* Both members of a conversation see the same last message, even when calls
\* break off or messages cross (the transaction in sendMessage).
ConversationsAgree ==
  \A a, b \in People : lastMessage[<<a, b>>] = lastMessage[<<b, a>>]

\* Every live message is one that has been stored, and no retry shows a message
\* a second time on the receiver's screen.
EmittedOnce == \A l \in Letters : emitted[l] <= stored[l]

\* One of the two has blocked the other.
Estranged(l) == \E p \in blocks : {p[1], p[2]} = {Sender[l], Receiver[l]}

\* Only a call that had begun before can still store a letter to a member who
\* blocks its sender, is blocked by it, or is banned: the checks are not part
\* of the transaction, so such a call gets through.
UnwelcomeOnlyIfLate ==
  \A c \in Calls :
    /\ stage[c] \in {"dedupe", "store"}
    /\ Estranged(letter[c]) \/ Receiver[letter[c]] \in unavailable
    => c \in late
=============================================================================

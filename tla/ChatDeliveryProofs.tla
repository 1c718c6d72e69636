-------------------------- MODULE ChatDeliveryProofs --------------------------
(***************************************************************************)
(* Proofs about the chat: for any members, letters, calls and processors,  *)
(* and any bounds, what ChatSend and ChatOutbox promise each, and what the *)
(* two promise together.                                                   *)
(***************************************************************************)
EXTENDS ChatDelivery, Sequences, FiniteSetTheorems, SequenceTheorems, TLAPS

-----------------------------------------------------------------------------
(* Sending: the inductive invariant. *)

\* Calls that may still store letter l, and calls that have, and now tell the sockets.
ToStore(l) == {c \in Calls : /\ stage[c] \in {"recipient", "block", "dedupe", "store"}
                             /\ letter[c] = l}
ToEmit(l)  == {c \in Calls : stage[c] = "emit" /\ letter[c] = l}

\* What a call knows of its letter, and that it is late if it should not go on.
CallKnows(c) ==
    /\ stage[c] = "dedupe" => Send!Keyed(letter[c])
    /\ stage[c] \in {"emit", "publish"} => stored[letter[c]] > 0
    /\ /\ stage[c] \in {"block", "dedupe", "store"}
       /\ Receiver[letter[c]] \in unavailable
       => c \in late
    /\ stage[c] \in {"dedupe", "store"} /\ Send!Estranged(letter[c]) => c \in late

\* Every message comes from a call, and is told to the sockets at most once.
Counted(l) ==
    /\ Cardinality(ToStore(l)) + stored[l] <= sends
    /\ Cardinality(ToEmit(l)) + emitted[l] <= stored[l]

SendInv ==
    /\ Send!TypeOK
    /\ Send!OneMessagePerKey
    /\ Send!AckedMeansStored
    /\ Send!ConversationsAgree
    /\ \A c \in Calls : CallKnows(c)
    /\ \A l \in Letters : Counted(l)

-----------------------------------------------------------------------------
(* Running: the inductive invariant. *)

\* The list of entries: each once, and only those that are there.
Listed ==
    /\ \A i, j \in DOMAIN created : created[i] = created[j] => i = j
    /\ \A i \in DOMAIN created : status[created[i]] # "absent"

\* An entry that no run has taken up is still as its message left it.
Untouched(k) ==
    /\ status[k] # "absent" /\ k \notin claimed => status[k] = "pending" /\ due[k]
    /\ k \in claimed \/ k \in inbox => status[k] # "absent"

\* A run that nobody overtook holds its entry alone, knows how often it has failed, and
\* has told the member before it settles.
RunOf(p) ==
    held[p] # NoEntry =>
        /\ held[p] \in claimed
        /\ held[p] \notin overtaken =>
             /\ status[held[p]] = "processing"
             /\ tries[p] = attempts[held[p]]
             /\ \A q \in Processors \ {p} : held[q] # held[p]
             /\ step[p] = "push" => held[p] \in inbox
             /\ step[p] = "settle" => held[p] \in inbox \cup optedOut

OutboxInv ==
    /\ Outbox!TypeOK
    /\ Listed
    /\ \A k \in Entries : Untouched(k)
    /\ \A p \in Processors : RunOf(p)
    /\ Outbox!OldestFirst
    /\ overtaken \subseteq claimed

-----------------------------------------------------------------------------
(* Both together. *)

\* An entry is there only for a message that is.
Backed(k) == status[k] # "absent" => k[2] <= stored[k[1]]

ChatInv == SendInv /\ OutboxInv /\ \A k \in Entries : Backed(k)

-----------------------------------------------------------------------------
(* Counting the calls of a letter. *)

LEMMA CountNat ==
  ASSUME NEW C, IsFiniteSet(C), NEW S \in SUBSET C
  PROVE  IsFiniteSet(S) /\ Cardinality(S) \in Nat
<1>1. IsFiniteSet(S)
  BY FS_Subset
<1> QED
  BY <1>1, FS_CardinalityType

LEMMA CountFewer ==
  ASSUME NEW C, IsFiniteSet(C), NEW S \in SUBSET C, NEW T \in SUBSET S
  PROVE  Cardinality(T) \in Nat /\ Cardinality(T) <= Cardinality(S)
<1>1. IsFiniteSet(S) /\ T \in SUBSET C
  BY CountNat
<1>2. Cardinality(T) \in Nat
  BY <1>1, CountNat
<1>3. Cardinality(T) <= Cardinality(S)
  BY <1>1, FS_Subset
<1> QED
  BY <1>2, <1>3

LEMMA CountOneMore ==
  ASSUME NEW C, IsFiniteSet(C), NEW S \in SUBSET C, NEW c \in C, NEW T \in SUBSET (S \cup {c})
  PROVE  /\ Cardinality(S) \in Nat /\ Cardinality(T) \in Nat
         /\ Cardinality(T) <= Cardinality(S) + 1
<1>1. IsFiniteSet(S) /\ Cardinality(S) \in Nat
  BY CountNat
<1>2. IsFiniteSet(S \cup {c}) /\ Cardinality(S \cup {c}) \in Nat
  <2>1. S \cup {c} \in SUBSET C
    OBVIOUS
  <2> QED
    BY <2>1, CountNat
<1>3. Cardinality(S \cup {c}) <= Cardinality(S) + 1
  <2>1. Cardinality(S \cup {c}) = IF c \in S THEN Cardinality(S) ELSE Cardinality(S) + 1
    BY <1>1, FS_AddElement
  <2> QED
    BY <1>1, <2>1
<1>4. Cardinality(T) \in Nat
  <2>1. T \in SUBSET C
    OBVIOUS
  <2> QED
    BY <2>1, CountNat
<1>5. Cardinality(T) <= Cardinality(S \cup {c})
  BY <1>2, FS_Subset
<1> QED
  BY <1>1, <1>2, <1>3, <1>4, <1>5

LEMMA CountOneFewer ==
  ASSUME NEW C, IsFiniteSet(C), NEW S \in SUBSET C, NEW c \in S, NEW T \in SUBSET (S \ {c})
  PROVE  /\ Cardinality(S) \in Nat /\ Cardinality(T) \in Nat
         /\ Cardinality(T) + 1 <= Cardinality(S)
<1>1. IsFiniteSet(S) /\ Cardinality(S) \in Nat
  BY CountNat
<1>2. IsFiniteSet(S \ {c}) /\ Cardinality(S \ {c}) \in Nat
  <2>1. S \ {c} \in SUBSET C
    OBVIOUS
  <2> QED
    BY <2>1, CountNat
<1>3. Cardinality(S \ {c}) = Cardinality(S) - 1
  BY <1>1, FS_RemoveElement
<1>4. Cardinality(T) \in Nat
  <2>1. T \in SUBSET C
    OBVIOUS
  <2> QED
    BY <2>1, CountNat
<1>5. Cardinality(T) <= Cardinality(S \ {c})
  BY <1>2, FS_Subset
<1> QED
  BY <1>1, <1>2, <1>3, <1>4, <1>5

-----------------------------------------------------------------------------
(* The steps of a call. *)

\* Call c goes on with stage s and letter l, the others stay.
Moves(c, s, l) ==
    /\ stage' = [stage EXCEPT ![c] = s]
    /\ letter' = [letter EXCEPT ![c] = l]

LEMMA SendSorts ==
  ASSUME Send!ChatAssumption
  PROVE  /\ Admin \notin Members /\ NoLetter \notin Letters
         /\ MaxSends \in Nat /\ MaxChanges \in Nat /\ MaxFaults \in Nat
         /\ Sender \in [Letters -> Members \cup {Admin}]
         /\ Receiver \in [Letters -> Members \cup {Admin}]
  BY DEF Send!ChatAssumption, Send!People

\* With one key per letter of a sender, a message with the letter's sender and key is
\* the letter's.
LEMMA ExistsIsStored ==
  ASSUME Send!ChatAssumption, NEW l \in Letters
  PROVE  Send!Exists(l) <=> Send!Keyed(l) /\ stored[l] > 0
  BY DEF Send!ChatAssumption, Send!Exists, Send!Keyed

LEMMA MovesEffect ==
  ASSUME Send!TypeOK, NEW c \in Calls, NEW s \in Send!Stages,
         NEW l \in Letters \cup {NoLetter}, s # "idle" => l \in Letters, Moves(c, s, l)
  PROVE  /\ stage' \in [Calls -> Send!Stages]
         /\ letter' \in [Calls -> Letters \cup {NoLetter}]
         /\ \A d \in Calls : stage'[d] # "idle" => letter'[d] \in Letters
         /\ stage'[c] = s /\ letter'[c] = l
         /\ \A d \in Calls \ {c} : stage'[d] = stage[d] /\ letter'[d] = letter[d]
  BY DEF Send!TypeOK, Moves

\* A call that goes on without storing or telling: the counts do not grow.
LEMMA CountedStays ==
  ASSUME Send!ChatAssumption, IsFiniteSet(Calls), SendInv, NEW l \in Letters,
         UNCHANGED <<stored, emitted>>, sends' \in Nat, sends <= sends',
         ToStore(l)' \subseteq ToStore(l), ToEmit(l)' \subseteq ToEmit(l)
  PROVE  Counted(l)'
<1>1. stored[l] \in Nat /\ emitted[l] \in Nat /\ sends \in Nat
  BY SendSorts DEF SendInv, Send!TypeOK, Send!ChatAssumption
<1>2. ToStore(l) \in SUBSET Calls /\ ToEmit(l) \in SUBSET Calls
  BY DEF ToStore, ToEmit
<1>3. /\ Cardinality(ToStore(l)') \in Nat /\ Cardinality(ToStore(l)) \in Nat
      /\ Cardinality(ToStore(l)') <= Cardinality(ToStore(l))
  BY <1>1, <1>2, CountFewer, CountNat
<1>4. /\ Cardinality(ToEmit(l)') \in Nat /\ Cardinality(ToEmit(l)) \in Nat
      /\ Cardinality(ToEmit(l)') <= Cardinality(ToEmit(l))
  BY <1>1, <1>2, CountFewer, CountNat
<1>5. Cardinality(ToStore(l)) + stored[l] <= sends /\ Cardinality(ToEmit(l)) + emitted[l] <= stored[l]
  BY DEF SendInv, Counted
<1> QED
  BY <1>1, <1>3, <1>4, <1>5 DEF Counted

LEMMA CountedGrows ==
  ASSUME Send!ChatAssumption, IsFiniteSet(Calls), SendInv, NEW l \in Letters, NEW c \in Calls,
         UNCHANGED <<stored, emitted>>, sends' = sends + 1,
         ToStore(l)' \subseteq ToStore(l) \cup {c}, ToEmit(l)' \subseteq ToEmit(l)
  PROVE  Counted(l)'
<1>1. stored[l] \in Nat /\ emitted[l] \in Nat /\ sends \in Nat
  BY SendSorts DEF SendInv, Send!TypeOK
<1>2. ToStore(l) \in SUBSET Calls /\ ToEmit(l) \in SUBSET Calls
  BY DEF ToStore, ToEmit
<1>3. /\ Cardinality(ToStore(l)') \in Nat /\ Cardinality(ToStore(l)) \in Nat
      /\ Cardinality(ToStore(l)') <= Cardinality(ToStore(l)) + 1
  BY <1>2, CountOneMore
<1>4. /\ Cardinality(ToEmit(l)') \in Nat /\ Cardinality(ToEmit(l)) \in Nat
      /\ Cardinality(ToEmit(l)') <= Cardinality(ToEmit(l))
  BY <1>2, CountFewer, CountNat
<1>5. Cardinality(ToStore(l)) + stored[l] <= sends /\ Cardinality(ToEmit(l)) + emitted[l] <= stored[l]
  BY DEF SendInv, Counted
<1> QED
  BY <1>1, <1>3, <1>4, <1>5 DEF Counted

\* A step of call c that stores and tells nothing keeps the invariant, if c then knows
\* what it should.
LEMMA QuietKeeps ==
  ASSUME Send!ChatAssumption, IsFiniteSet(Calls), SendInv,
         NEW c \in Calls, NEW s \in Send!Stages \ {"emit"}, NEW l \in Letters \cup {NoLetter},
         Moves(c, s, l), s # "idle" => l \in Letters,
         UNCHANGED <<stored, lastMessage, blocks, unavailable, emitted>>,
         acked' \in SUBSET Letters, \A m \in acked' : stored[m] > 0,
         late' \in SUBSET Calls, late \ {c} \subseteq late',
         sends' \in 0 .. MaxSends, changes' \in 0 .. MaxChanges, faults' \in 0 .. MaxFaults,
         \/ sends' = sends + 1
         \/ /\ sends' = sends
            /\ s \in {"recipient", "block", "dedupe", "store"} =>
                 /\ stage[c] \in {"recipient", "block", "dedupe", "store"}
                 /\ letter[c] = l,
         CallKnows(c)'
  PROVE  SendInv'
<1>1. /\ stage' \in [Calls -> Send!Stages]
      /\ letter' \in [Calls -> Letters \cup {NoLetter}]
      /\ \A d \in Calls : stage'[d] # "idle" => letter'[d] \in Letters
      /\ stage'[c] = s /\ letter'[c] = l
      /\ \A d \in Calls \ {c} : stage'[d] = stage[d] /\ letter'[d] = letter[d]
  BY MovesEffect DEF SendInv
<1>2. Send!TypeOK'
  BY <1>1 DEF SendInv, Send!TypeOK, Send!Stages, Send!People
<1>3. Send!OneMessagePerKey' /\ Send!AckedMeansStored' /\ Send!ConversationsAgree'
  BY DEF SendInv, Send!OneMessagePerKey, Send!Keyed, Send!AckedMeansStored,
         Send!ConversationsAgree, Send!People
<1>4. ASSUME NEW d \in Calls \ {c} PROVE CallKnows(d)'
  <2>1. CallKnows(d) /\ stage'[d] = stage[d] /\ letter'[d] = letter[d]
        /\ (d \in late => d \in late')
    BY <1>1 DEF SendInv
  <2> QED
    BY <2>1 DEF CallKnows, Send!Keyed, Send!Estranged
<1>5. ASSUME NEW m \in Letters PROVE Counted(m)'
  <2>1. ToEmit(m)' \subseteq ToEmit(m)
    BY <1>1 DEF ToEmit
  <2>2. CASE sends' = sends + 1
    <3>1. ToStore(m)' \subseteq ToStore(m) \cup {c}
      BY <1>1 DEF ToStore
    <3> QED
      BY <2>1, <2>2, <3>1, CountedGrows
  <2>3. CASE /\ sends' = sends
             /\ s \in {"recipient", "block", "dedupe", "store"} =>
                  /\ stage[c] \in {"recipient", "block", "dedupe", "store"}
                  /\ letter[c] = l
    <3>1. ToStore(m)' \subseteq ToStore(m)
      BY <1>1, <2>3 DEF ToStore
    <3>2. sends' \in Nat /\ sends <= sends'
      BY <2>3, SendSorts DEF SendInv, Send!TypeOK
    <3> QED
      BY <2>1, <3>1, <3>2, CountedStays
  <2> QED
    BY <2>2, <2>3
<1> QED
  BY <1>2, <1>3, <1>4, <1>5 DEF SendInv

LEMMA FinishKeeps ==
  ASSUME Send!ChatAssumption, IsFiniteSet(Calls), SendInv, NEW c \in Calls, Send!Finish(c),
         UNCHANGED <<stored, lastMessage, blocks, unavailable, emitted, sends, changes>>,
         acked' \in SUBSET Letters, \A m \in acked' : stored[m] > 0,
         faults' \in 0 .. MaxFaults
  PROVE  SendInv'
<1>1. Moves(c, "idle", NoLetter) /\ late' = late \ {c}
  BY DEF Send!Finish, Send!Goto, Moves
<1>2. stage'[c] = "idle"
  BY <1>1 DEF SendInv, Send!TypeOK, Moves
<1>3. CallKnows(c)'
  BY <1>2 DEF CallKnows
<1>4. "idle" \in Send!Stages \ {"emit"}
  BY DEF Send!Stages
<1>5. /\ late' \in SUBSET Calls /\ late \ {c} \subseteq late'
      /\ sends' \in 0 .. MaxSends /\ changes' \in 0 .. MaxChanges
  BY <1>1 DEF SendInv, Send!TypeOK
<1> QED
  BY <1>1, <1>3, <1>4, <1>5, QuietKeeps

\* The client gets a message that is there.
LEMMA AnswerKeeps ==
  ASSUME Send!ChatAssumption, IsFiniteSet(Calls), SendInv, NEW c \in Calls, Send!Answer(c),
         letter[c] \in Letters, stored[letter[c]] > 0,
         UNCHANGED <<stored, lastMessage, blocks, unavailable, emitted, sends, changes, faults>>
  PROVE  SendInv'
<1>1. Send!Finish(c) /\ acked' = acked \cup {letter[c]}
  BY DEF Send!Answer
<1>2. acked' \in SUBSET Letters /\ \A m \in acked' : stored[m] > 0
  BY <1>1 DEF SendInv, Send!TypeOK, Send!AckedMeansStored
<1>3. faults' \in 0 .. MaxFaults
  BY DEF SendInv, Send!TypeOK
<1> QED
  BY <1>1, <1>2, <1>3, FinishKeeps

\* A call goes on with its letter to a stage before the storing, or to the publishing.
LEMMA GotoKeeps ==
  ASSUME Send!ChatAssumption, IsFiniteSet(Calls), SendInv, NEW c \in Calls,
         NEW s \in Send!Stages \ {"emit", "idle"}, Send!Goto(c, s), stage[c] # "idle",
         s # "publish" => stage[c] \in {"recipient", "block", "dedupe", "store"},
         UNCHANGED <<stored, lastMessage, blocks, unavailable, emitted, letter, acked, late,
                     sends, changes, faults>>,
         s = "dedupe" => Send!Keyed(letter[c]),
         s = "publish" => stored[letter[c]] > 0,
         s \in {"block", "dedupe", "store"} /\ Receiver[letter[c]] \in unavailable => c \in late,
         s \in {"dedupe", "store"} /\ Send!Estranged(letter[c]) => c \in late
  PROVE  SendInv'
<1> DEFINE l == letter[c]
<1>1. l \in Letters /\ Moves(c, s, l)
  BY DEF SendInv, Send!TypeOK, Send!Goto, Moves
<1>2. stage'[c] = s /\ letter'[c] = l
  BY <1>1 DEF SendInv, Send!TypeOK, Moves
<1>3. CallKnows(c)'
  BY <1>2 DEF CallKnows, Send!Keyed, Send!Estranged
<1>4. /\ late' \in SUBSET Calls /\ late \ {c} \subseteq late'
      /\ acked' \in SUBSET Letters /\ \A m \in acked' : stored[m] > 0
      /\ sends' \in 0 .. MaxSends /\ changes' \in 0 .. MaxChanges /\ faults' \in 0 .. MaxFaults
  BY DEF SendInv, Send!TypeOK, Send!AckedMeansStored
<1> QED
  BY <1>1, <1>3, <1>4, QuietKeeps

LEMMA SendMessageKeeps ==
  ASSUME Send!ChatAssumption, IsFiniteSet(Calls), SendInv, NEW c \in Calls, NEW l \in Letters,
         Send!SendMessage(c, l)
  PROVE  SendInv'
<1> DEFINE s == IF Receiver[l] = Admin THEN "block" ELSE "recipient"
<1>1. /\ Moves(c, s, l) /\ sends' = sends + 1
      /\ UNCHANGED <<stored, lastMessage, blocks, unavailable, emitted, acked, late,
                     changes, faults>>
  BY DEF Send!SendMessage, Send!Goto, Moves, Send!historyVars
<1>2. s \in Send!Stages \ {"emit"} /\ s \in {"block", "recipient"}
  BY DEF Send!Stages
<1>3. stage'[c] = s /\ letter'[c] = l
  BY <1>1 DEF SendInv, Send!TypeOK, Moves
<1>4. s = "block" => Receiver[l] \notin unavailable
  BY SendSorts DEF SendInv, Send!TypeOK
<1> HIDE DEF s
<1>5. CallKnows(c)'
  BY <1>1, <1>2, <1>3, <1>4 DEF CallKnows
<1>6. sends' \in 0 .. MaxSends
  BY <1>1, SendSorts DEF SendInv, Send!TypeOK, Send!SendMessage
<1>7. /\ late' \in SUBSET Calls /\ late \ {c} \subseteq late'
      /\ acked' \in SUBSET Letters /\ \A m \in acked' : stored[m] > 0
      /\ changes' \in 0 .. MaxChanges /\ faults' \in 0 .. MaxFaults
  BY <1>1 DEF SendInv, Send!TypeOK, Send!AckedMeansStored
<1> QED
  BY <1>1, <1>2, <1>5, <1>6, <1>7, QuietKeeps

LEMMA Acknowledged ==
  ASSUME SendInv
  PROVE  /\ acked \in SUBSET Letters /\ \A m \in acked : stored[m] > 0
         /\ faults \in 0 .. MaxFaults
  BY DEF SendInv, Send!TypeOK, Send!AckedMeansStored

\* The checks of the receiver and of the blocks.
LEMMA ChecksKeep ==
  ASSUME Send!ChatAssumption, IsFiniteSet(Calls), SendInv, NEW c \in Calls,
         Send!CheckRecipient(c) \/ Send!CheckBlock(c)
  PROVE  SendInv'
<1>0. UNCHANGED <<stored, lastMessage, blocks, unavailable, emitted, acked, sends, changes,
                  faults>>
  BY DEF Send!CheckRecipient, Send!CheckBlock, Send!boundVars
<1>1. CASE Send!Finish(c)
  BY <1>0, <1>1, FinishKeeps, Acknowledged
<1>2. CASE /\ stage[c] = "recipient" /\ Send!Goto(c, "block") /\ UNCHANGED <<letter, late>>
           /\ Receiver[letter[c]] \notin unavailable
  <2>1. "block" \in Send!Stages \ {"emit", "idle"}
    BY DEF Send!Stages
  <2> QED
    BY <1>0, <1>2, <2>1, GotoKeeps
<1>3. CASE /\ stage[c] = "block" /\ ~Send!Blocked(letter[c]) /\ UNCHANGED <<letter, late>>
           /\ Send!Goto(c, IF Send!Keyed(letter[c]) THEN "dedupe" ELSE "store")
  <2> DEFINE s == IF Send!Keyed(letter[c]) THEN "dedupe" ELSE "store"
  <2>1. s \in Send!Stages \ {"emit", "idle"} /\ s \in {"dedupe", "store"}
        /\ (s = "dedupe" => Send!Keyed(letter[c]))
    BY DEF Send!Stages
  <2>2. Receiver[letter[c]] \in unavailable => c \in late
    BY <1>3 DEF SendInv, CallKnows
  <2>3. ~Send!Estranged(letter[c])
    <3>1. \A p \in blocks : p \in Members \X Members
      BY DEF SendInv, Send!TypeOK
    <3>2. Admin \notin Members
      BY SendSorts
    <3>3. ASSUME NEW p \in blocks, {p[1], p[2]} = {Sender[letter[c]], Receiver[letter[c]]}
          PROVE  FALSE
      <4>1. p = <<p[1], p[2]>> /\ p[1] \in Members /\ p[2] \in Members
        BY <3>1
      <4>2. \/ p[1] = Sender[letter[c]] /\ p[2] = Receiver[letter[c]]
            \/ p[2] = Sender[letter[c]] /\ p[1] = Receiver[letter[c]]
        BY <3>3
      <4>3. Admin \notin {Sender[letter[c]], Receiver[letter[c]]}
        BY <3>2, <4>1, <4>2
      <4>4. \/ <<Sender[letter[c]], Receiver[letter[c]]>> \in blocks
            \/ <<Receiver[letter[c]], Sender[letter[c]]>> \in blocks
        BY <4>1, <4>2
      <4> QED
        BY <1>3, <4>3, <4>4 DEF Send!Blocked
    <3> QED
      BY <3>3 DEF Send!Estranged
  <2> HIDE DEF s
  <2>4. Send!Goto(c, s)
    BY <1>3 DEF s
  <2> QED
    BY <1>0, <1>3, <2>1, <2>2, <2>3, <2>4, GotoKeeps
<1> QED
  BY <1>1, <1>2, <1>3 DEF Send!CheckRecipient, Send!CheckBlock

LEMMA DedupeKeeps ==
  ASSUME Send!ChatAssumption, IsFiniteSet(Calls), SendInv, NEW c \in Calls, Send!Dedupe(c)
  PROVE  SendInv'
<1>0. /\ stage[c] = "dedupe" /\ letter[c] \in Letters
      /\ UNCHANGED <<stored, lastMessage, blocks, unavailable, emitted, sends, changes,
                     faults>>
  BY DEF Send!Dedupe, Send!boundVars, SendInv, Send!TypeOK
<1>1. CASE Send!Exists(letter[c]) /\ Send!Answer(c)
  BY <1>0, <1>1, ExistsIsStored, AnswerKeeps
<1>2. CASE Send!Goto(c, "store") /\ UNCHANGED <<letter, late, acked>>
  <2>1. "store" \in Send!Stages \ {"emit", "idle"}
    BY DEF Send!Stages
  <2>2. CallKnows(c)
    BY DEF SendInv
  <2> QED
    BY <1>0, <1>2, <2>1, <2>2, GotoKeeps DEF CallKnows
<1> QED
  BY <1>1, <1>2 DEF Send!Dedupe

LEMMA PublishKeeps ==
  ASSUME Send!ChatAssumption, IsFiniteSet(Calls), SendInv, NEW c \in Calls, Send!PublishHint(c)
  PROVE  SendInv'
<1>1. /\ stage[c] = "publish" /\ letter[c] \in Letters /\ Send!Answer(c)
      /\ UNCHANGED <<stored, lastMessage, blocks, unavailable, emitted, sends, changes,
                     faults>>
  BY DEF Send!PublishHint, Send!boundVars, SendInv, Send!TypeOK
<1>2. stored[letter[c]] > 0
  BY <1>1 DEF SendInv, CallKnows
<1> QED
  BY <1>1, <1>2, AnswerKeeps

LEMMA CallBreaksOffKeeps ==
  ASSUME Send!ChatAssumption, IsFiniteSet(Calls), SendInv, NEW c \in Calls,
         Send!CallBreaksOff(c)
  PROVE  SendInv'
<1>1. /\ Send!Finish(c)
      /\ UNCHANGED <<stored, lastMessage, blocks, unavailable, emitted, acked, sends, changes>>
  BY DEF Send!CallBreaksOff
<1>2. faults' \in 0 .. MaxFaults
  BY SendSorts DEF Send!CallBreaksOff, SendInv, Send!TypeOK
<1> QED
  BY <1>1, <1>2, FinishKeeps, Acknowledged

\* The sockets are told: the call is no longer counted, its emission is.
LEMMA EmitKeeps ==
  ASSUME Send!ChatAssumption, IsFiniteSet(Calls), SendInv, NEW c \in Calls, Send!Emit(c)
  PROVE  SendInv'
<1> DEFINE l == letter[c]
<1>0. /\ stage[c] = "emit" /\ l \in Letters /\ stored[l] > 0
      /\ emitted' = [emitted EXCEPT ![l] = @ + 1]
      /\ UNCHANGED <<stored, lastMessage, blocks, unavailable, sends, changes, faults>>
  BY DEF Send!Emit, Send!boundVars, SendInv, Send!TypeOK, CallKnows
<1>1. PICK s \in {"publish", "idle"}, m \in {l, NoLetter} :
        /\ Moves(c, s, m) /\ (s = "publish" => m = l)
        /\ acked' \in {acked, acked \cup {l}} /\ late' \in {late, late \ {c}}
  <2>1. CASE Send!Goto(c, "publish") /\ UNCHANGED <<letter, late, acked>>
    <3>1. Moves(c, "publish", l)
      BY <2>1 DEF Send!Goto, Moves, SendInv, Send!TypeOK
    <3> QED
      BY <2>1, <3>1
  <2>2. CASE Send!Answer(c)
    BY <2>2 DEF Send!Answer, Send!Finish, Send!Goto, Moves
  <2> QED
    BY <2>1, <2>2 DEF Send!Emit
<1>2. s \in Send!Stages /\ m \in Letters \cup {NoLetter} /\ (s # "idle" => m \in Letters)
  BY <1>0, <1>1 DEF Send!Stages
<1>3. /\ stage' \in [Calls -> Send!Stages]
      /\ letter' \in [Calls -> Letters \cup {NoLetter}]
      /\ \A d \in Calls : stage'[d] # "idle" => letter'[d] \in Letters
      /\ stage'[c] = s /\ letter'[c] = m
      /\ \A d \in Calls \ {c} : stage'[d] = stage[d] /\ letter'[d] = letter[d]
  BY <1>1, <1>2, MovesEffect DEF SendInv
<1>4. emitted' \in [Letters -> Nat] /\ emitted'[l] = emitted[l] + 1 /\ emitted[l] \in Nat
      /\ \A n \in Letters \ {l} : emitted'[n] = emitted[n]
  BY <1>0 DEF SendInv, Send!TypeOK
<1>5. acked' \in SUBSET Letters /\ \A n \in acked' : stored[n] > 0
  BY <1>0, <1>1, Acknowledged
<1>6. late' \in SUBSET Calls /\ \A d \in Calls \ {c} : d \in late => d \in late'
  BY <1>1 DEF SendInv, Send!TypeOK
<1>7. Send!TypeOK'
  BY <1>0, <1>3, <1>4, <1>5, <1>6 DEF SendInv, Send!TypeOK, Send!Stages, Send!People
<1>8. Send!OneMessagePerKey' /\ Send!AckedMeansStored' /\ Send!ConversationsAgree'
  BY <1>0, <1>5 DEF SendInv, Send!OneMessagePerKey, Send!Keyed, Send!AckedMeansStored,
         Send!ConversationsAgree, Send!People
<1>9. ASSUME NEW d \in Calls PROVE CallKnows(d)'
  <2>1. CASE d = c
    BY <1>0, <1>1, <1>3, <2>1 DEF CallKnows
  <2>2. CASE d # c
    <3>1. CallKnows(d) /\ stage'[d] = stage[d] /\ letter'[d] = letter[d]
          /\ (d \in late => d \in late')
      BY <1>3, <1>6, <2>2 DEF SendInv
    <3> QED
      BY <1>0, <3>1 DEF CallKnows, Send!Keyed, Send!Estranged
  <2> QED
    BY <2>1, <2>2
<1>10. ASSUME NEW n \in Letters PROVE Counted(n)'
  <2>1. /\ stored[n] \in Nat /\ sends \in Nat /\ stored' = stored /\ sends' = sends
        /\ Cardinality(ToStore(n)) + stored[n] <= sends
        /\ Cardinality(ToEmit(n)) + emitted[n] <= stored[n]
    BY <1>0, SendSorts DEF SendInv, Send!TypeOK, Counted
  <2>2. ToStore(n) \in SUBSET Calls /\ ToEmit(n) \in SUBSET Calls
    BY DEF ToStore, ToEmit
  <2>3. ToStore(n)' \subseteq ToStore(n)
    BY <1>1, <1>3 DEF ToStore
  <2>4. /\ Cardinality(ToStore(n)') \in Nat /\ Cardinality(ToStore(n)) \in Nat
        /\ Cardinality(ToStore(n)') <= Cardinality(ToStore(n))
    BY <2>2, <2>3, CountFewer, CountNat
  <2>5. CASE n = l
    <3>1. c \in ToEmit(n) /\ ToEmit(n)' \subseteq ToEmit(n) \ {c}
      BY <1>0, <1>1, <1>3, <2>5 DEF ToEmit
    <3>2. /\ Cardinality(ToEmit(n)') \in Nat /\ Cardinality(ToEmit(n)) \in Nat
          /\ Cardinality(ToEmit(n)') + 1 <= Cardinality(ToEmit(n))
      BY <2>2, <3>1, CountOneFewer
    <3> QED
      BY <1>4, <2>1, <2>4, <2>5, <3>2 DEF Counted
  <2>6. CASE n # l
    <3>1. ToEmit(n)' \subseteq ToEmit(n)
      BY <1>1, <1>3 DEF ToEmit
    <3>2. /\ Cardinality(ToEmit(n)') \in Nat /\ Cardinality(ToEmit(n)) \in Nat
          /\ Cardinality(ToEmit(n)') <= Cardinality(ToEmit(n))
      BY <2>2, <3>1, CountFewer, CountNat
    <3>3. emitted'[n] = emitted[n] /\ emitted[n] \in Nat
      BY <1>4, <2>6 DEF SendInv, Send!TypeOK
    <3> QED
      BY <2>1, <2>4, <3>2, <3>3 DEF Counted
  <2> QED
    BY <2>5, <2>6
<1> QED
  BY <1>7, <1>8, <1>9, <1>10 DEF SendInv

\* A call that may still store has been counted: its message has a number.
LEMMA RoomForOne ==
  ASSUME Send!ChatAssumption, IsFiniteSet(Calls), SendInv, NEW c \in Calls,
         stage[c] = "store"
  PROVE  /\ letter[c] \in Letters /\ stored[letter[c]] \in Nat
         /\ stored[letter[c]] + 1 \in 1 .. MaxSends
<1> DEFINE l == letter[c]
<1>1. l \in Letters /\ stored[l] \in Nat /\ sends \in 0 .. MaxSends /\ MaxSends \in Nat
  BY SendSorts DEF SendInv, Send!TypeOK
<1>2. c \in ToStore(l) /\ ToStore(l) \in SUBSET Calls /\ {} \in SUBSET (ToStore(l) \ {c})
  BY DEF ToStore
<1>3. Cardinality(ToStore(l)) \in Nat /\ Cardinality({}) \in Nat
      /\ Cardinality({}) + 1 <= Cardinality(ToStore(l))
  BY <1>2, CountOneFewer
<1>4. Cardinality(ToStore(l)) + stored[l] <= sends
  BY <1>1 DEF SendInv, Counted
<1> QED
  BY <1>1, <1>3, <1>4

LEMMA BothLogs ==
  ASSUME NEW P, NEW V, NEW f \in [P \X P -> V], NEW x \in P, NEW y \in P, NEW v,
         NEW g, g = [f EXCEPT ![<<x, y>>] = v, ![<<y, x>>] = v],
         NEW a \in P, NEW b \in P, f[<<a, b>>] = f[<<b, a>>]
  PROVE  g[<<a, b>>] = g[<<b, a>>]
<1>1. <<a, b>> \in P \X P /\ <<b, a>> \in P \X P
  OBVIOUS
<1>2. CASE a = x /\ b = y
  BY <1>1, <1>2
<1>3. CASE a = y /\ b = x
  BY <1>1, <1>3
<1>4. CASE ~(a = x /\ b = y) /\ ~(a = y /\ b = x)
  <2>1. /\ <<a, b>> # <<x, y>> /\ <<a, b>> # <<y, x>>
        /\ <<b, a>> # <<x, y>> /\ <<b, a>> # <<y, x>>
    BY <1>4
  <2>2. \A p \in P \X P : p # <<x, y>> /\ p # <<y, x>> => g[p] = f[p]
    OBVIOUS
  <2> QED
    BY <1>1, <2>1, <2>2
<1> QED
  BY <1>2, <1>3, <1>4

\* One more message of letter l, stored by call c, in both logs.
LEMMA StoredKeeps ==
  ASSUME Send!ChatAssumption, IsFiniteSet(Calls), SendInv, NEW c \in Calls, NEW l \in Letters,
         stage[c] = "store", letter[c] = l, Moves(c, "emit", l),
         Send!Keyed(l) => stored[l] = 0,
         stored' = [stored EXCEPT ![l] = @ + 1],
         lastMessage' = [lastMessage EXCEPT ![<<Sender[l], Receiver[l]>>] = l,
                                            ![<<Receiver[l], Sender[l]>>] = l],
         UNCHANGED <<blocks, unavailable, emitted, acked, late, sends, changes, faults>>
  PROVE  SendInv'
<1>1. "emit" \in Send!Stages
  BY DEF Send!Stages
<1>2. /\ stage' \in [Calls -> Send!Stages]
      /\ letter' \in [Calls -> Letters \cup {NoLetter}]
      /\ \A d \in Calls : stage'[d] # "idle" => letter'[d] \in Letters
      /\ stage'[c] = "emit" /\ letter'[c] = l
      /\ \A d \in Calls \ {c} : stage'[d] = stage[d] /\ letter'[d] = letter[d]
  BY <1>1, MovesEffect DEF SendInv
<1>3. /\ stored' \in [Letters -> Nat] /\ stored[l] \in Nat /\ stored'[l] = stored[l] + 1
      /\ \A n \in Letters \ {l} : stored'[n] = stored[n]
      /\ \A n \in Letters : stored[n] \in Nat /\ (stored[n] > 0 => stored'[n] > 0)
  BY DEF SendInv, Send!TypeOK
<1>4. lastMessage' \in [Send!People \X Send!People -> Letters \cup {NoLetter}]
  BY DEF SendInv, Send!TypeOK
<1>5. Send!TypeOK'
  BY <1>2, <1>3, <1>4 DEF SendInv, Send!TypeOK, Send!Stages, Send!People
<1>6. Send!OneMessagePerKey' /\ Send!AckedMeansStored'
  <2>1. Send!OneMessagePerKey /\ Send!AckedMeansStored /\ acked \subseteq Letters
    BY DEF SendInv, Send!TypeOK
  <2> QED
    BY <1>3, <2>1 DEF Send!OneMessagePerKey, Send!Keyed, Send!AckedMeansStored
<1>7. Send!ConversationsAgree'
  <2> SUFFICES ASSUME NEW a \in Send!People, NEW b \in Send!People
               PROVE  lastMessage'[<<a, b>>] = lastMessage'[<<b, a>>]
    BY DEF Send!ConversationsAgree, Send!People
  <2>1. lastMessage[<<a, b>>] = lastMessage[<<b, a>>]
    BY DEF SendInv, Send!ConversationsAgree
  <2>2. lastMessage \in [Send!People \X Send!People -> Letters \cup {NoLetter}]
        /\ Sender[l] \in Send!People /\ Receiver[l] \in Send!People
    BY SendSorts DEF SendInv, Send!TypeOK, Send!People
  <2> QED
    BY <2>1, <2>2, BothLogs
<1>8. ASSUME NEW d \in Calls PROVE CallKnows(d)'
  <2>1. CASE d = c
    BY <1>2, <1>3, <2>1 DEF CallKnows
  <2>2. CASE d # c
    <3>1. CallKnows(d) /\ stage'[d] = stage[d] /\ letter'[d] = letter[d]
          /\ (stage[d] # "idle" => letter[d] \in Letters)
      BY <1>2, <2>2 DEF SendInv, Send!TypeOK
    <3> QED
      BY <1>3, <3>1 DEF CallKnows, Send!Keyed, Send!Estranged
  <2> QED
    BY <2>1, <2>2
<1>9. ASSUME NEW n \in Letters PROVE Counted(n)'
  <2>1. /\ stored[n] \in Nat /\ emitted[n] \in Nat /\ sends \in Nat
        /\ emitted' = emitted /\ sends' = sends
        /\ Cardinality(ToStore(n)) + stored[n] <= sends
        /\ Cardinality(ToEmit(n)) + emitted[n] <= stored[n]
    BY SendSorts DEF SendInv, Send!TypeOK, Counted
  <2>2. ToStore(n) \in SUBSET Calls /\ ToEmit(n) \in SUBSET Calls
    BY DEF ToStore, ToEmit
  <2>3. CASE n = l
    <3>1. c \in ToStore(n) /\ ToStore(n)' \subseteq ToStore(n) \ {c}
      BY <1>2, <2>3 DEF ToStore
    <3>2. /\ Cardinality(ToStore(n)') \in Nat /\ Cardinality(ToStore(n)) \in Nat
          /\ Cardinality(ToStore(n)') + 1 <= Cardinality(ToStore(n))
      BY <2>2, <3>1, CountOneFewer
    <3>3. ToEmit(n)' \subseteq ToEmit(n) \cup {c}
      BY <1>2 DEF ToEmit
    <3>4. /\ Cardinality(ToEmit(n)') \in Nat /\ Cardinality(ToEmit(n)) \in Nat
          /\ Cardinality(ToEmit(n)') <= Cardinality(ToEmit(n)) + 1
      BY <2>2, <3>3, CountOneMore
    <3> QED
      BY <1>3, <2>1, <2>3, <3>2, <3>4 DEF Counted
  <2>4. CASE n # l
    <3>1. ToStore(n)' \subseteq ToStore(n) /\ ToEmit(n)' \subseteq ToEmit(n)
      BY <1>2, <2>4 DEF ToStore, ToEmit
    <3>2. /\ Cardinality(ToStore(n)') \in Nat /\ Cardinality(ToStore(n)) \in Nat
          /\ Cardinality(ToStore(n)') <= Cardinality(ToStore(n))
      BY <2>2, <3>1, CountFewer, CountNat
    <3>3. /\ Cardinality(ToEmit(n)') \in Nat /\ Cardinality(ToEmit(n)) \in Nat
          /\ Cardinality(ToEmit(n)') <= Cardinality(ToEmit(n))
      BY <2>2, <3>1, CountFewer, CountNat
    <3>4. stored'[n] = stored[n]
      BY <1>3, <2>4
    <3> QED
      BY <2>1, <3>2, <3>3, <3>4 DEF Counted
  <2> QED
    BY <2>3, <2>4
<1> QED
  BY <1>5, <1>6, <1>7, <1>8, <1>9 DEF SendInv

LEMMA StoreKeeps ==
  ASSUME Send!ChatAssumption, IsFiniteSet(Calls), SendInv, NEW c \in Calls, Send!Store(c)
  PROVE  SendInv'
<1>0. /\ stage[c] = "store" /\ letter[c] \in Letters /\ stored[letter[c]] \in Nat
      /\ UNCHANGED <<blocks, unavailable, emitted, sends, changes, faults>>
  BY DEF Send!Store, Send!boundVars, SendInv, Send!TypeOK
<1>1. CASE Send!Exists(letter[c]) /\ Send!Answer(c) /\ UNCHANGED <<stored, lastMessage>>
  BY <1>0, <1>1, ExistsIsStored, AnswerKeeps
<1> SUFFICES ASSUME NEW l \in Letters, l = letter[c], ~Send!Exists(l),
                    stored' = [stored EXCEPT ![l] = @ + 1],
                    lastMessage' = [lastMessage EXCEPT ![<<Sender[l], Receiver[l]>>] = l,
                                                       ![<<Receiver[l], Sender[l]>>] = l],
                    Send!Goto(c, "emit"), UNCHANGED <<letter, late, acked>>
             PROVE  SendInv'
  BY <1>0, <1>1 DEF Send!Store
<1>2. Moves(c, "emit", l)
  BY DEF Send!Goto, Moves, SendInv, Send!TypeOK
<1>3. Send!Keyed(l) => stored[l] = 0
  BY <1>0, ExistsIsStored
<1> QED
  BY <1>0, <1>2, <1>3, StoredKeeps

\* Members block each other, are banned or come back: a call under way becomes late.
LEMMA StandingKeeps ==
  ASSUME Send!ChatAssumption, IsFiniteSet(Calls), SendInv, Send!Standing
  PROVE  SendInv'
<1>0. UNCHANGED <<stored, lastMessage, stage, letter, emitted, acked, sends, faults>>
  BY DEF Send!Standing, Send!BlockUser, Send!UnblockUser, Send!BanMember, Send!UnbanMember,
         Send!callVars, Send!historyVars
<1>1. blocks' \subseteq Members \X Members /\ unavailable' \subseteq Members
  <2>1. blocks \subseteq Members \X Members /\ unavailable \subseteq Members
    BY DEF SendInv, Send!TypeOK
  <2>2. ASSUME NEW a \in Members, NEW b \in Members, Send!BlockUser(a, b) \/ Send!UnblockUser(a, b)
        PROVE  blocks' \subseteq Members \X Members /\ unavailable' \subseteq Members
    <3>1. <<a, b>> \in Members \X Members
      OBVIOUS
    <3> QED
      BY <2>1, <2>2, <3>1 DEF Send!BlockUser, Send!UnblockUser
  <2>3. ASSUME NEW m \in Members, Send!BanMember(m) \/ Send!UnbanMember(m)
        PROVE  blocks' \subseteq Members \X Members /\ unavailable' \subseteq Members
    BY <2>1, <2>3 DEF Send!BanMember, Send!UnbanMember
  <2> QED
    BY <2>2, <2>3 DEF Send!Standing
<1>2. changes' \in 0 .. MaxChanges
  <2>1. changes < MaxChanges /\ changes' = changes + 1
    BY DEF Send!Standing, Send!BlockUser, Send!UnblockUser, Send!BanMember, Send!UnbanMember
  <2> QED
    BY <2>1, SendSorts DEF SendInv, Send!TypeOK
<1>3. late' \in SUBSET Calls /\ late \subseteq late'
  BY DEF Send!Standing, Send!BlockUser, Send!UnblockUser, Send!BanMember, Send!UnbanMember,
         Send!historyVars, Send!InProgress, SendInv, Send!TypeOK
<1>4. Send!TypeOK'
  BY <1>0, <1>1, <1>2, <1>3 DEF SendInv, Send!TypeOK, Send!Stages, Send!People
<1>5. Send!OneMessagePerKey' /\ Send!AckedMeansStored' /\ Send!ConversationsAgree'
  BY <1>0 DEF SendInv, Send!OneMessagePerKey, Send!Keyed, Send!AckedMeansStored,
         Send!ConversationsAgree, Send!People
<1>6. ASSUME NEW d \in Calls PROVE CallKnows(d)'
  <2>1. CallKnows(d)
    BY DEF SendInv
  <2>2. stage[d] # "idle" /\ Receiver[letter[d]] \in unavailable' \ unavailable => d \in late'
    BY DEF Send!Standing, Send!BlockUser, Send!UnblockUser, Send!BanMember, Send!UnbanMember,
           Send!InProgress
  <2>3. stage[d] # "idle" /\ Send!Estranged(letter[d])' /\ ~Send!Estranged(letter[d])
          => d \in late'
    <3>1. CASE \E a, b \in Members : Send!BlockUser(a, b)
      BY <1>0, <3>1 DEF Send!BlockUser, Send!InProgress, Send!Estranged
    <3>2. CASE ~\E a, b \in Members : Send!BlockUser(a, b)
      BY <1>0, <3>2 DEF Send!Standing, Send!UnblockUser, Send!BanMember, Send!UnbanMember,
                        Send!Estranged
    <3> QED
      BY <3>1, <3>2
  <2> QED
    BY <1>0, <1>3, <2>1, <2>2, <2>3 DEF CallKnows, Send!Keyed, Send!Estranged
<1>7. ASSUME NEW n \in Letters PROVE Counted(n)'
  BY <1>0 DEF SendInv, Counted, ToStore, ToEmit
<1> QED
  BY <1>4, <1>5, <1>6, <1>7 DEF SendInv

-----------------------------------------------------------------------------
(* The runs of the outbox. *)

LEMMA OutboxSorts ==
  ASSUME Outbox!ChatOutboxAssumption
  PROVE  /\ NoEntry \notin Entries /\ RunLength \in Nat \ {0} /\ MaxAttempts \in Nat \ {0}
         /\ MaxBreaks \in Nat
  BY DEF Outbox!ChatOutboxAssumption

\* A run works on an entry just while it holds one.
LEMMA RunSorts ==
  ASSUME Outbox!ChatOutboxAssumption, OutboxInv, NEW p \in Processors
  PROVE  /\ held[p] \in Entries \cup {NoEntry}
         /\ step[p] \in {"inapp", "push", "settle", "fail"} => held[p] \in Entries
         /\ step[p] \in {"off", "claim"} => held[p] = NoEntry
         /\ held[p] # NoEntry => held[p] \in Entries
  BY OutboxSorts DEF OutboxInv, Outbox!TypeOK, Outbox!Working

LEMMA StepNames ==
  /\ \A s \in {"off", "claim", "inapp", "push", "settle", "fail"} : s \in Outbox!Steps
  /\ \A s \in {"inapp", "push", "settle", "fail"} : s \in Outbox!Working
  /\ \A s \in {"off", "claim"} : s \notin Outbox!Working
  BY DEF Outbox!Steps, Outbox!Working

\* Run p goes on with step s, entry e, and the failures n it read; the others stay.
RunMoves(p, s, e, n) ==
    /\ step' = [step EXCEPT ![p] = s]
    /\ held' = [held EXCEPT ![p] = e]
    /\ tries' = [tries EXCEPT ![p] = n]

LEMMA RunMovesEffect ==
  ASSUME Outbox!ChatOutboxAssumption, OutboxInv, NEW p \in Processors,
         NEW s \in Outbox!Steps, NEW e \in Entries \cup {NoEntry}, NEW n \in Nat,
         s \in Outbox!Working <=> e \in Entries, RunMoves(p, s, e, n)
  PROVE  /\ step' \in [Processors -> Outbox!Steps]
         /\ held' \in [Processors -> Entries \cup {NoEntry}]
         /\ tries' \in [Processors -> Nat]
         /\ \A q \in Processors : step'[q] \in Outbox!Working <=> held'[q] \in Entries
         /\ step'[p] = s /\ held'[p] = e /\ tries'[p] = n
         /\ \A q \in Processors \ {p} :
              step'[q] = step[q] /\ held'[q] = held[q] /\ tries'[q] = tries[q]
  BY DEF OutboxInv, Outbox!TypeOK, RunMoves

\* What a run knows stays true while others work on other entries, or overtake it.
LEMMA RunStays ==
  ASSUME Outbox!ChatOutboxAssumption, OutboxInv, NEW q \in Processors,
         step'[q] = step[q], held'[q] = held[q], tries'[q] = tries[q],
         claimed \subseteq claimed', overtaken \subseteq overtaken',
         inbox \subseteq inbox', optedOut \subseteq optedOut',
         held[q] # NoEntry /\ held[q] \notin overtaken' =>
            /\ status'[held[q]] = status[held[q]] /\ attempts'[held[q]] = attempts[held[q]]
            /\ \A r \in Processors \ {q} : held'[r] = held[r] \/ held'[r] # held[q]
  PROVE  RunOf(q)'
<1>1. RunOf(q)
  BY DEF OutboxInv
<1> QED
  BY <1>1 DEF RunOf

\* The list and the order stay while no entry is added or taken up.
LEMMA ListStays ==
  ASSUME OutboxInv, created' = created, claimed' = claimed, overtaken' = overtaken,
         \A k \in Entries : status[k] # "absent" => status'[k] # "absent"
  PROVE  Listed' /\ Outbox!OldestFirst' /\ (overtaken \subseteq claimed)'
<1>1. \A i \in DOMAIN created : created[i] \in Entries
  BY DEF OutboxInv, Outbox!TypeOK
<1> QED
  BY <1>1 DEF OutboxInv, Listed, Outbox!OldestFirst

\* A step of run p that touches no entry.
LEMMA RunKeeps ==
  ASSUME Outbox!ChatOutboxAssumption, OutboxInv, NEW p \in Processors,
         NEW s \in Outbox!Steps, NEW e \in Entries \cup {NoEntry}, NEW n \in Nat,
         s \in Outbox!Working <=> e \in Entries, RunMoves(p, s, e, n),
         UNCHANGED <<created, status, attempts, due, stale, claimed, overtaken>>,
         inbox \subseteq inbox', optedOut \subseteq optedOut',
         inbox' \subseteq Entries, optedOut' \subseteq Entries,
         \A k \in Entries : k \in inbox' => k \in inbox \/ k = held[p],
         turns' \in [Processors -> 0 .. RunLength], breaks' \in 0 .. MaxBreaks,
         e \in Entries => e = held[p] /\ n = tries[p],
         s = "push" /\ e \notin overtaken => e \in inbox',
         s = "settle" /\ e \notin overtaken => e \in inbox' \cup optedOut'
  PROVE  OutboxInv'
<1>1. /\ step' \in [Processors -> Outbox!Steps]
      /\ held' \in [Processors -> Entries \cup {NoEntry}]
      /\ tries' \in [Processors -> Nat]
      /\ \A q \in Processors : step'[q] \in Outbox!Working <=> held'[q] \in Entries
      /\ step'[p] = s /\ held'[p] = e /\ tries'[p] = n
      /\ \A q \in Processors \ {p} :
           step'[q] = step[q] /\ held'[q] = held[q] /\ tries'[q] = tries[q]
  BY RunMovesEffect
<1>2. Outbox!TypeOK'
  BY <1>1 DEF OutboxInv, Outbox!TypeOK, Outbox!Settled, Outbox!Steps, Outbox!Working
<1>3. Listed' /\ Outbox!OldestFirst' /\ (overtaken \subseteq claimed)'
  BY ListStays
<1>4. ASSUME NEW k \in Entries PROVE Untouched(k)'
  <2>1. Untouched(k)
    BY DEF OutboxInv
  <2>2. k = held[p] => status[k] # "absent"
    <3>1. RunOf(p) /\ (k \in claimed => status[k] # "absent")
      BY <2>1 DEF OutboxInv, Untouched
    <3> QED
      BY <3>1, OutboxSorts DEF RunOf
  <2> QED
    BY <2>1, <2>2 DEF Untouched
<1>5. ASSUME NEW q \in Processors PROVE RunOf(q)'
  <2>1. CASE q = p
    <3>1. RunOf(p)
      BY DEF OutboxInv
    <3> QED
      BY <1>1, <2>1, <3>1, OutboxSorts DEF RunOf
  <2>2. CASE q # p
    <3>1. held[q] # NoEntry /\ held[q] \notin overtaken =>
            \A r \in Processors \ {q} : held'[r] # held[q]
      <4>1. RunOf(q)
        BY DEF OutboxInv
      <4> QED
        BY <1>1, <2>2, <4>1, RunSorts DEF RunOf
    <3> QED
      BY <1>1, <2>2, <3>1, RunStays
  <2> QED
    BY <2>1, <2>2
<1> QED
  BY <1>2, <1>3, <1>4, <1>5 DEF OutboxInv

LEMMA AdvanceIsMove ==
  ASSUME OutboxInv, NEW p \in Processors, NEW s, Outbox!Advance(p, s), UNCHANGED <<held, tries>>
  PROVE  RunMoves(p, s, held[p], tries[p]) /\ tries[p] \in Nat
  BY DEF Outbox!Advance, RunMoves, OutboxInv, Outbox!TypeOK

LEMMA StopIsMove ==
  ASSUME Outbox!ChatOutboxAssumption, OutboxInv, NEW p \in Processors, Outbox!StopRun(p)
  PROVE  RunMoves(p, "off", NoEntry, 0) /\ turns' \in [Processors -> 0 .. RunLength]
  BY OutboxSorts DEF Outbox!StopRun, Outbox!Advance, RunMoves, OutboxInv, Outbox!TypeOK

\* Runs start, go on with their entry, meet an exception, or end without one.
LEMMA StartRunKeeps ==
  ASSUME Outbox!ChatOutboxAssumption, OutboxInv, NEW p \in Processors, Outbox!StartRun(p)
  PROVE  OutboxInv'
<1>1. /\ step[p] = "off"
      /\ UNCHANGED <<created, status, attempts, due, stale, inbox, held, tries, turns,
                     claimed, optedOut, overtaken, breaks>>
      /\ Outbox!Advance(p, "claim")
  BY DEF Outbox!StartRun, Outbox!entryVars, Outbox!ghostVars
<1>2. held[p] = NoEntry /\ NoEntry \notin Entries
  BY <1>1, RunSorts, OutboxSorts
<1>3. RunMoves(p, "claim", NoEntry, tries[p]) /\ tries[p] \in Nat
  BY <1>1, <1>2, AdvanceIsMove
<1>4. turns' \in [Processors -> 0 .. RunLength] /\ breaks' \in 0 .. MaxBreaks
      /\ inbox' \subseteq Entries /\ optedOut' \subseteq Entries
  BY <1>1 DEF OutboxInv, Outbox!TypeOK
<1> QED
  BY <1>1, <1>2, <1>3, <1>4, RunKeeps, StepNames

LEMMA StopRunKeeps ==
  ASSUME Outbox!ChatOutboxAssumption, OutboxInv, NEW p \in Processors, Outbox!StopRun(p),
         UNCHANGED <<created, status, attempts, due, stale, inbox, claimed, optedOut, overtaken>>,
         breaks' \in 0 .. MaxBreaks
  PROVE  OutboxInv'
<1>1. RunMoves(p, "off", NoEntry, 0) /\ turns' \in [Processors -> 0 .. RunLength]
      /\ NoEntry \notin Entries /\ inbox' \subseteq Entries /\ optedOut' \subseteq Entries
  BY StopIsMove, OutboxSorts DEF OutboxInv, Outbox!TypeOK
<1> QED
  BY <1>1, RunKeeps, StepNames

LEMMA RunBreaksOffKeeps ==
  ASSUME Outbox!ChatOutboxAssumption, OutboxInv, NEW p \in Processors, Outbox!RunBreaksOff(p)
  PROVE  OutboxInv'
<1>1. /\ UNCHANGED <<created, status, attempts, due, stale, inbox, claimed, optedOut, overtaken>>
      /\ Outbox!StopRun(p)
  BY DEF Outbox!RunBreaksOff, Outbox!entryVars, Outbox!ghostVars
<1>2. breaks' \in 0 .. MaxBreaks
  BY OutboxSorts DEF Outbox!RunBreaksOff, OutboxInv, Outbox!TypeOK
<1> QED
  BY <1>1, <1>2, StopRunKeeps

LEMMA WorkKeeps ==
  ASSUME Outbox!ChatOutboxAssumption, OutboxInv, NEW p \in Processors,
         Outbox!CreateInApp(p) \/ Outbox!SendPush(p) \/ Outbox!Throws(p)
  PROVE  OutboxInv'
<1>1. /\ step[p] \in {"inapp", "push", "settle"} /\ held[p] \in Entries
      /\ UNCHANGED <<created, status, attempts, due, stale, held, tries, turns,
                     claimed, overtaken, breaks>>
  <2>1. /\ step[p] \in {"inapp", "push", "settle"}
        /\ UNCHANGED <<created, status, attempts, due, stale, held, tries, turns,
                       claimed, overtaken, breaks>>
    BY DEF Outbox!CreateInApp, Outbox!SendPush, Outbox!Throws, Outbox!entryVars,
           Outbox!ghostVars
  <2> QED
    BY <2>1, RunSorts
<1>2. /\ inbox \subseteq inbox' /\ optedOut \subseteq optedOut'
      /\ inbox' \subseteq Entries /\ optedOut' \subseteq Entries
      /\ \A k \in Entries : k \in inbox' => k \in inbox \/ k = held[p]
  BY <1>1 DEF Outbox!CreateInApp, Outbox!SendPush, Outbox!Throws, Outbox!ghostVars,
              OutboxInv, Outbox!TypeOK
<1>3. turns' \in [Processors -> 0 .. RunLength] /\ breaks' \in 0 .. MaxBreaks
  BY <1>1 DEF OutboxInv, Outbox!TypeOK
<1>4. PICK s \in {"push", "settle", "fail"} :
        /\ Outbox!Advance(p, s)
        /\ s = "push" => held[p] \in inbox'
        /\ s = "settle" /\ held[p] \notin overtaken => held[p] \in inbox' \cup optedOut'
  <2>1. CASE Outbox!CreateInApp(p)
    BY <2>1 DEF Outbox!CreateInApp
  <2>2. CASE Outbox!SendPush(p)
    <3>1. held[p] \notin overtaken => held[p] \in inbox
      BY <1>1, <2>2, OutboxSorts DEF Outbox!SendPush, OutboxInv, RunOf
    <3> QED
      BY <1>2, <2>2, <3>1 DEF Outbox!SendPush
  <2>3. CASE Outbox!Throws(p)
    BY <2>3 DEF Outbox!Throws
  <2> QED
    BY <2>1, <2>2, <2>3
<1>5. RunMoves(p, s, held[p], tries[p]) /\ tries[p] \in Nat
  BY <1>1, <1>4, AdvanceIsMove
<1>6. s \in Outbox!Steps /\ s \in Outbox!Working
  BY StepNames
<1> QED
  BY <1>1, <1>2, <1>3, <1>4, <1>5, <1>6, RunKeeps

\* Time: an entry is due, or its lock is old.
LEMMA TimeKeeps ==
  ASSUME Outbox!ChatOutboxAssumption, OutboxInv, NEW k \in Entries, Outbox!Time(k)
  PROVE  OutboxInv'
<1>1. /\ UNCHANGED <<created, status, attempts, inbox, step, held, tries, turns, claimed,
                     optedOut, overtaken, breaks>>
      /\ \/ due' = [due EXCEPT ![k] = TRUE] /\ stale' = stale
         \/ due' = due /\ stale' = [stale EXCEPT ![k] = TRUE]
  BY DEF Outbox!Time, Outbox!BecomesDue, Outbox!LockGoesStale, Outbox!runVars,
         Outbox!ghostVars
<1>2. due' \in [Entries -> BOOLEAN] /\ stale' \in [Entries -> BOOLEAN]
      /\ \A j \in Entries : due[j] => due'[j]
  BY <1>1 DEF OutboxInv, Outbox!TypeOK
<1>3. Outbox!TypeOK'
  BY <1>1, <1>2 DEF OutboxInv, Outbox!TypeOK, Outbox!Settled, Outbox!Steps, Outbox!Working
<1>4. Listed' /\ Outbox!OldestFirst' /\ (overtaken \subseteq claimed)'
  BY <1>1, ListStays
<1>5. \A j \in Entries : Untouched(j)'
  BY <1>1, <1>2 DEF OutboxInv, Untouched
<1>6. \A p \in Processors : RunOf(p)'
  BY <1>1 DEF OutboxInv, RunOf
<1> QED
  BY <1>3, <1>4, <1>5, <1>6 DEF OutboxInv

LEMMA AppendedAt ==
  ASSUME NEW D, NEW s \in Seq(D), NEW x \in D
  PROVE  /\ Append(s, x) \in Seq(D)
         /\ Len(s) \in Nat /\ DOMAIN s = 1 .. Len(s)
         /\ DOMAIN Append(s, x) = 1 .. (Len(s) + 1)
         /\ Append(s, x)[Len(s) + 1] = x
         /\ \A i \in 1 .. Len(s) : Append(s, x)[i] = s[i]
  OBVIOUS

\* A new entry is the youngest, and nobody has it.
LEMMA CreateEntryKeeps ==
  ASSUME Outbox!ChatOutboxAssumption, OutboxInv, NEW k \in Entries, Outbox!CreateEntry(k)
  PROVE  OutboxInv'
<1>1. /\ status[k] = "absent" /\ created' = Append(created, k)
      /\ status' = [status EXCEPT ![k] = "pending"] /\ due' = [due EXCEPT ![k] = TRUE]
      /\ UNCHANGED <<attempts, stale, inbox, step, held, tries, turns, claimed, optedOut,
                     overtaken, breaks>>
  BY DEF Outbox!CreateEntry, Outbox!runVars, Outbox!ghostVars
<1>2. /\ status' \in [Entries -> {"absent", "pending", "processing"} \cup Outbox!Settled]
      /\ due' \in [Entries -> BOOLEAN]
      /\ status'[k] = "pending" /\ due'[k]
      /\ \A j \in Entries \ {k} : status'[j] = status[j] /\ due'[j] = due[j]
  BY <1>1 DEF OutboxInv, Outbox!TypeOK
<1> DEFINE n == Len(created) + 1
<1>3. /\ created' \in Seq(Entries) /\ Len(created) \in Nat
      /\ DOMAIN created = 1 .. Len(created)
      /\ DOMAIN created' = 1 .. n /\ created'[n] = k
      /\ \A i \in DOMAIN created : created'[i] = created[i]
  BY <1>1, AppendedAt DEF OutboxInv, Outbox!TypeOK
<1>4. /\ \A i \in DOMAIN created' : i \in DOMAIN created \/ i = n
      /\ \A i \in DOMAIN created : i < n
      /\ \A i \in DOMAIN created' : ~(n < i)
      /\ \A i \in DOMAIN created : created[i] \in Entries
  BY <1>3 DEF OutboxInv, Outbox!TypeOK
<1> HIDE DEF n
<1>5. Outbox!TypeOK'
  BY <1>1, <1>2, <1>3 DEF OutboxInv, Outbox!TypeOK, Outbox!Settled, Outbox!Steps,
                          Outbox!Working
<1>6. \A i \in DOMAIN created : created[i] # k
  BY <1>1 DEF OutboxInv, Listed
<1>7. Listed'
  <2>1. \A i, j \in DOMAIN created : created[i] = created[j] => i = j
    BY DEF OutboxInv, Listed
  <2>2. \A i, j \in DOMAIN created' : created'[i] = created'[j] => i = j
    BY <1>3, <1>4, <1>6, <2>1
  <2>3. \A i \in DOMAIN created' : status'[created'[i]] # "absent"
    BY <1>2, <1>3, <1>4, <1>6 DEF OutboxInv, Listed
  <2> QED
    BY <2>2, <2>3 DEF Listed
<1>8. k \notin claimed
  BY <1>1 DEF OutboxInv, Untouched
<1>9. Outbox!OldestFirst'
  BY <1>1, <1>3, <1>4, <1>8 DEF OutboxInv, Outbox!OldestFirst
<1>10. ASSUME NEW j \in Entries PROVE Untouched(j)'
  BY <1>1, <1>2 DEF OutboxInv, Untouched
<1>11. ASSUME NEW p \in Processors PROVE RunOf(p)'
  <2>1. RunOf(p) /\ (held[p] # NoEntry => held[p] \in Entries)
    BY RunSorts DEF OutboxInv
  <2> QED
    BY <1>1, <1>2, <1>8, <2>1 DEF RunOf
<1>12. (overtaken \subseteq claimed)'
  BY <1>1 DEF OutboxInv
<1> QED
  BY <1>5, <1>7, <1>9, <1>10, <1>11, <1>12 DEF OutboxInv

\* Whoever takes an entry up finds everything older taken up already, and takes it from
\* another run only when its lock is old.
LEMMA TakenKeeps ==
  ASSUME Outbox!ChatOutboxAssumption, OutboxInv, NEW p \in Processors, NEW k \in Entries,
         step[p] = "claim", turns[p] < RunLength, Outbox!Claimable(k), Outbox!Oldest(k),
         status' = [status EXCEPT ![k] = "processing"],
         stale' = [stale EXCEPT ![k] = FALSE],
         RunMoves(p, "inapp", k, attempts[k]),
         turns' = [turns EXCEPT ![p] = @ + 1],
         claimed' = claimed \cup {k},
         overtaken' = IF stale[k] /\ \E q \in Processors : held[q] = k
                      THEN overtaken \cup {k} ELSE overtaken,
         UNCHANGED <<created, attempts, due, inbox, optedOut, breaks>>
  PROVE  OutboxInv'
<1>1. /\ status' \in [Entries -> {"absent", "pending", "processing"} \cup Outbox!Settled]
      /\ stale' \in [Entries -> BOOLEAN]
      /\ status'[k] = "processing" /\ \A j \in Entries \ {k} : status'[j] = status[j]
      /\ attempts[k] \in Nat
      /\ claimed' \subseteq Entries /\ overtaken' \subseteq Entries
  BY DEF OutboxInv, Outbox!TypeOK
<1>2. turns' \in [Processors -> 0 .. RunLength]
  BY OutboxSorts DEF OutboxInv, Outbox!TypeOK
<1>3. /\ step' \in [Processors -> Outbox!Steps]
      /\ held' \in [Processors -> Entries \cup {NoEntry}]
      /\ tries' \in [Processors -> Nat]
      /\ \A q \in Processors : step'[q] \in Outbox!Working <=> held'[q] \in Entries
      /\ step'[p] = "inapp" /\ held'[p] = k /\ tries'[p] = attempts[k]
      /\ \A q \in Processors \ {p} :
           step'[q] = step[q] /\ held'[q] = held[q] /\ tries'[q] = tries[q]
  BY <1>1, RunMovesEffect, StepNames
<1>4. Outbox!TypeOK'
  BY <1>1, <1>2, <1>3 DEF OutboxInv, Outbox!TypeOK, Outbox!Settled, Outbox!Steps,
                          Outbox!Working
<1>5. status[k] # "absent"
  BY DEF Outbox!Claimable
<1>6. Listed'
  <2>1. \A i \in DOMAIN created : created[i] \in Entries
    BY DEF OutboxInv, Outbox!TypeOK
  <2> QED
    BY <1>1, <2>1 DEF OutboxInv, Listed
<1>7. Outbox!OldestFirst'
  <2> SUFFICES ASSUME NEW i \in DOMAIN created, NEW j \in DOMAIN created, i < j,
                      created[j] \in claimed'
               PROVE  created[i] \in claimed'
    BY DEF Outbox!OldestFirst
  <2>1. CASE created[j] \in claimed
    BY <2>1 DEF OutboxInv, Outbox!OldestFirst
  <2>2. CASE created[j] = k
    <3>1. PICK n \in DOMAIN created :
             created[n] = k /\ \A m \in 1 .. (n - 1) : ~Outbox!Claimable(created[m])
      BY DEF Outbox!Oldest
    <3>2. n = j
      BY <2>2, <3>1 DEF OutboxInv, Listed
    <3>3. i \in 1 .. (n - 1) /\ created[i] \in Entries
      BY <3>2 DEF OutboxInv, Outbox!TypeOK
    <3>4. ~Outbox!Claimable(created[i]) /\ status[created[i]] # "absent"
      BY <3>1, <3>3 DEF OutboxInv, Listed
    <3> QED
      BY <3>3, <3>4 DEF OutboxInv, Untouched, Outbox!Claimable
  <2> QED
    BY <2>1, <2>2
<1>8. ASSUME NEW j \in Entries PROVE Untouched(j)'
  BY <1>1, <1>5 DEF OutboxInv, Untouched
<1>9. k \notin overtaken' => \A q \in Processors \ {p} : held[q] # k
  <2> SUFFICES ASSUME k \notin overtaken', NEW q \in Processors \ {p}, held[q] = k
               PROVE  FALSE
    OBVIOUS
  <2>1. k \notin overtaken
    OBVIOUS
  <2>2. status[k] = "processing"
    BY <2>1, OutboxSorts DEF OutboxInv, RunOf
  <2>3. stale[k]
    BY <2>2 DEF Outbox!Claimable
  <2> QED
    BY <2>3
<1>10. ASSUME NEW q \in Processors PROVE RunOf(q)'
  <2>1. CASE q = p
    BY <1>1, <1>3, <1>9, <2>1, OutboxSorts DEF RunOf
  <2>2. CASE q # p
    <3>1. RunOf(q) /\ (held[q] # NoEntry => held[q] \in Entries)
      BY RunSorts DEF OutboxInv
    <3>2. held[q] # NoEntry /\ held[q] \notin overtaken' => held[q] # k
      BY <1>9, <2>2
    <3>3. held[q] # NoEntry /\ held[q] \notin overtaken' =>
            \A r \in Processors \ {q} : held'[r] = held[r] \/ held'[r] # held[q]
      BY <1>3, <2>2, <3>2
    <3> QED
      BY <1>1, <1>3, <2>2, <3>1, <3>2, <3>3, RunStays
  <2> QED
    BY <2>1, <2>2
<1>11. (overtaken \subseteq claimed)'
  BY DEF OutboxInv
<1> QED
  BY <1>4, <1>6, <1>7, <1>8, <1>10, <1>11 DEF OutboxInv

LEMMA ClaimKeeps ==
  ASSUME Outbox!ChatOutboxAssumption, OutboxInv, NEW p \in Processors, Outbox!ClaimOldest(p)
  PROVE  OutboxInv'
<1>0. step[p] = "claim" /\ UNCHANGED <<created, attempts, due, inbox, optedOut, breaks>>
  BY DEF Outbox!ClaimOldest
<1>1. CASE Outbox!StopRun(p) /\ UNCHANGED <<status, stale, claimed, overtaken>>
  <2>1. breaks' \in 0 .. MaxBreaks
    BY <1>0 DEF OutboxInv, Outbox!TypeOK
  <2> QED
    BY <1>0, <1>1, <2>1, StopRunKeeps
<1>2. ASSUME NEW k \in Entries,
             /\ turns[p] < RunLength
             /\ Outbox!Claimable(k) /\ Outbox!Oldest(k)
             /\ status' = [status EXCEPT ![k] = "processing"]
             /\ stale' = [stale EXCEPT ![k] = FALSE]
             /\ held' = [held EXCEPT ![p] = k]
             /\ tries' = [tries EXCEPT ![p] = attempts[k]]
             /\ turns' = [turns EXCEPT ![p] = @ + 1]
             /\ claimed' = claimed \union {k}
             /\ overtaken' = IF stale[k] /\ \E q \in Processors : held[q] = k
                             THEN overtaken \union {k} ELSE overtaken
             /\ Outbox!Advance(p, "inapp")
      PROVE  OutboxInv'
  <2>1. RunMoves(p, "inapp", k, attempts[k])
    BY <1>2 DEF RunMoves, Outbox!Advance
  <2> QED
    BY <1>0, <1>2, <2>1, TakenKeeps
<1> QED
  BY <1>1, <1>2 DEF Outbox!ClaimOldest

\* Run p lets go of entry k with its status changed: only overtakers still hold it.
LEMMA LetGoKeeps ==
  ASSUME Outbox!ChatOutboxAssumption, OutboxInv, NEW p \in Processors, NEW k \in Entries,
         held[p] = k, NEW st \in {"pending", "processed", "failed"},
         RunMoves(p, "claim", NoEntry, 0),
         status' = [status EXCEPT ![k] = st],
         attempts' \in [Entries -> Nat], due' \in [Entries -> BOOLEAN],
         stale' \in [Entries -> BOOLEAN],
         \A j \in Entries \ {k} : attempts'[j] = attempts[j] /\ due'[j] = due[j],
         UNCHANGED <<created, inbox, turns, claimed, optedOut, overtaken, breaks>>
  PROVE  OutboxInv'
<1>1. /\ status' \in [Entries -> {"absent", "pending", "processing"} \cup Outbox!Settled]
      /\ status'[k] = st /\ \A j \in Entries \ {k} : status'[j] = status[j]
  BY DEF OutboxInv, Outbox!TypeOK, Outbox!Settled
<1>2. /\ step' \in [Processors -> Outbox!Steps]
      /\ held' \in [Processors -> Entries \cup {NoEntry}]
      /\ tries' \in [Processors -> Nat]
      /\ \A q \in Processors : step'[q] \in Outbox!Working <=> held'[q] \in Entries
      /\ step'[p] = "claim" /\ held'[p] = NoEntry /\ tries'[p] = 0
      /\ \A q \in Processors \ {p} :
           step'[q] = step[q] /\ held'[q] = held[q] /\ tries'[q] = tries[q]
  BY RunMovesEffect, StepNames, OutboxSorts
<1>3. Outbox!TypeOK'
  BY <1>1, <1>2 DEF OutboxInv, Outbox!TypeOK, Outbox!Settled, Outbox!Steps, Outbox!Working
<1>4. Listed' /\ Outbox!OldestFirst' /\ (overtaken \subseteq claimed)'
  BY <1>1, ListStays
<1>5. k \in claimed
  BY OutboxSorts DEF OutboxInv, RunOf
<1>6. ASSUME NEW j \in Entries PROVE Untouched(j)'
  BY <1>1, <1>5 DEF OutboxInv, Untouched
<1>7. ASSUME NEW q \in Processors PROVE RunOf(q)'
  <2>1. CASE q = p
    BY <1>2, <2>1 DEF RunOf
  <2>2. CASE q # p
    <3>1. RunOf(q) /\ RunOf(p) /\ (held[q] # NoEntry => held[q] \in Entries)
      BY RunSorts DEF OutboxInv
    <3>2. held[q] # NoEntry /\ held[q] \notin overtaken => held[q] # k
      BY <2>2, <3>1 DEF RunOf
    <3>3. held[q] # NoEntry /\ held[q] \notin overtaken =>
            \A r \in Processors \ {q} : held'[r] = held[r] \/ held'[r] # held[q]
      BY <1>2
    <3> QED
      BY <1>1, <1>2, <2>2, <3>1, <3>2, <3>3, RunStays
  <2> QED
    BY <2>1, <2>2
<1> QED
  BY <1>3, <1>4, <1>6, <1>7 DEF OutboxInv

LEMMA SettleKeeps ==
  ASSUME Outbox!ChatOutboxAssumption, OutboxInv, NEW p \in Processors, Outbox!SettleEntry(p)
  PROVE  OutboxInv'
<1>1. /\ step[p] = "settle" /\ Outbox!Release(p)
      /\ status' = [status EXCEPT ![held[p]] = "processed"]
      /\ stale' = [stale EXCEPT ![held[p]] = FALSE]
      /\ UNCHANGED <<created, attempts, due, inbox, claimed, optedOut, overtaken, breaks>>
  BY DEF Outbox!SettleEntry, Outbox!ghostVars
<1>2. held[p] \in Entries
  BY <1>1, RunSorts
<1>3. RunMoves(p, "claim", NoEntry, 0) /\ turns' = turns
  BY <1>1 DEF Outbox!Release, Outbox!Advance, RunMoves
<1>4. /\ attempts' \in [Entries -> Nat] /\ due' \in [Entries -> BOOLEAN]
      /\ stale' \in [Entries -> BOOLEAN]
  BY <1>1, <1>2 DEF OutboxInv, Outbox!TypeOK
<1> QED
  BY <1>1, <1>2, <1>3, <1>4, LetGoKeeps

LEMMA CountKeeps ==
  ASSUME Outbox!ChatOutboxAssumption, OutboxInv, NEW p \in Processors, Outbox!CountFailure(p)
  PROVE  OutboxInv'
<1> DEFINE st == IF tries[p] + 1 >= MaxAttempts THEN "failed" ELSE "pending"
<1>1. /\ step[p] = "fail" /\ Outbox!Release(p)
      /\ attempts' = [attempts EXCEPT ![held[p]] = tries[p] + 1]
      /\ status' = [status EXCEPT ![held[p]] = st]
      /\ due' = [due EXCEPT ![held[p]] = FALSE]
      /\ stale' = [stale EXCEPT ![held[p]] = FALSE]
      /\ UNCHANGED <<created, inbox, claimed, optedOut, overtaken, breaks>>
  BY DEF Outbox!CountFailure
<1>2. held[p] \in Entries
  BY <1>1, RunSorts
<1>3. RunMoves(p, "claim", NoEntry, 0) /\ turns' = turns
  BY <1>1 DEF Outbox!Release, Outbox!Advance, RunMoves
<1>4. st \in {"pending", "processed", "failed"}
  OBVIOUS
<1> HIDE DEF st
<1>5. /\ attempts' \in [Entries -> Nat] /\ due' \in [Entries -> BOOLEAN]
      /\ stale' \in [Entries -> BOOLEAN]
      /\ \A j \in Entries \ {held[p]} : attempts'[j] = attempts[j] /\ due'[j] = due[j]
  BY <1>1, <1>2 DEF OutboxInv, Outbox!TypeOK
<1> QED
  BY <1>1, <1>2, <1>3, <1>4, <1>5, LetGoKeeps

LEMMA ProcessKeeps ==
  ASSUME Outbox!ChatOutboxAssumption, OutboxInv, Outbox!Process
  PROVE  OutboxInv'
<1>1. ASSUME NEW p \in Processors,
             Outbox!StartRun(p) \/ Outbox!Proceed(p) \/ Outbox!RunBreaksOff(p)
      PROVE  OutboxInv'
  BY <1>1, StartRunKeeps, ClaimKeeps, WorkKeeps, SettleKeeps, CountKeeps, RunBreaksOffKeeps
  DEF Outbox!Proceed
<1> QED
  BY <1>1, TimeKeeps DEF Outbox!Process

-----------------------------------------------------------------------------
(* Both together. *)

LEMMA SendStarts ==
  ASSUME Send!ChatAssumption, IsFiniteSet(Calls), Send!Init
  PROVE  SendInv
<1>1. Send!TypeOK
  BY SendSorts DEF Send!Init, Send!TypeOK, Send!Stages, Send!People
<1>2. Send!OneMessagePerKey /\ Send!AckedMeansStored /\ Send!ConversationsAgree
  BY DEF Send!Init, Send!OneMessagePerKey, Send!AckedMeansStored, Send!ConversationsAgree,
         Send!People
<1>3. \A c \in Calls : CallKnows(c)
  BY DEF Send!Init, CallKnows
<1>4. ASSUME NEW l \in Letters PROVE Counted(l)
  <2>1. ToStore(l) = {} /\ ToEmit(l) = {}
    BY DEF Send!Init, ToStore, ToEmit
  <2>2. Cardinality({}) = 0
    BY FS_EmptySet
  <2> QED
    BY <2>1, <2>2 DEF Send!Init, Counted
<1> QED
  BY <1>1, <1>2, <1>3, <1>4 DEF SendInv

LEMMA OutboxStarts ==
  ASSUME Outbox!ChatOutboxAssumption, Outbox!Init
  PROVE  OutboxInv
<1>1. Outbox!TypeOK
  BY OutboxSorts DEF Outbox!Init, Outbox!TypeOK, Outbox!Settled, Outbox!Steps, Outbox!Working
<1>2. Listed /\ Outbox!OldestFirst
  BY DEF Outbox!Init, Listed, Outbox!OldestFirst
<1>3. \A k \in Entries : Untouched(k)
  BY DEF Outbox!Init, Untouched
<1>4. \A p \in Processors : RunOf(p)
  BY DEF Outbox!Init, RunOf
<1> QED
  BY <1>1, <1>2, <1>3, <1>4 DEF OutboxInv, Outbox!Init

LEMMA SendFrame ==
  ASSUME SendInv, UNCHANGED sendVars
  PROVE  SendInv'
BY DEF SendInv, sendVars, Send!TypeOK, Send!Stages, Send!People, Send!OneMessagePerKey,
       Send!Keyed, Send!AckedMeansStored, Send!ConversationsAgree, CallKnows, Send!Estranged,
       Counted, ToStore, ToEmit

LEMMA OutboxFrame ==
  ASSUME OutboxInv, UNCHANGED outboxVars
  PROVE  OutboxInv'
BY DEF OutboxInv, outboxVars, Outbox!TypeOK, Outbox!Settled, Outbox!Steps, Outbox!Working,
       Listed, Untouched, RunOf, Outbox!OldestFirst

LEMMA SendOnlyKeeps ==
  ASSUME Send!ChatAssumption, IsFiniteSet(Calls), SendInv, SendOnly
  PROVE  SendInv' /\ stored' = stored
<1>1. SendInv'
  BY SendMessageKeeps, ChecksKeep, DedupeKeeps, EmitKeeps, PublishKeeps, CallBreaksOffKeeps,
     StandingKeeps DEF SendOnly
<1>2. stored' = stored
  BY DEF SendOnly, Send!SendMessage, Send!CheckRecipient, Send!CheckBlock, Send!Dedupe,
         Send!Emit, Send!PublishHint, Send!CallBreaksOff, Send!Standing, Send!BlockUser,
         Send!UnblockUser, Send!BanMember, Send!UnbanMember
<1> QED
  BY <1>1, <1>2

\* A run makes no entry.
LEMMA ProcessMakesNone ==
  ASSUME Outbox!ChatOutboxAssumption, OutboxInv, Outbox!Process, NEW k \in Entries,
         status[k] = "absent"
  PROVE  status'[k] = "absent"
<1>1. CASE UNCHANGED status
  BY <1>1
<1>2. ASSUME NEW p \in Processors, Outbox!ClaimOldest(p)
      PROVE  status'[k] = "absent"
  BY <1>2 DEF Outbox!ClaimOldest, Outbox!Claimable, OutboxInv, Outbox!TypeOK
<1>3. ASSUME NEW p \in Processors, Outbox!SettleEntry(p) \/ Outbox!CountFailure(p)
      PROVE  status'[k] = "absent"
  <2>1. step[p] \in {"settle", "fail"} /\ \A j \in Entries : j # held[p] => status'[j] = status[j]
    BY <1>3 DEF Outbox!SettleEntry, Outbox!CountFailure, OutboxInv, Outbox!TypeOK
  <2>2. held[p] \in Entries /\ held[p] # NoEntry
    BY <2>1, RunSorts, OutboxSorts
  <2>3. status[held[p]] # "absent"
    BY <2>2 DEF OutboxInv, RunOf, Untouched
  <2> QED
    BY <2>1, <2>3
<1> QED
  BY <1>1, <1>2, <1>3 DEF Outbox!Process, Outbox!Proceed, Outbox!StartRun,
     Outbox!CreateInApp, Outbox!SendPush, Outbox!Throws, Outbox!RunBreaksOff, Outbox!Time,
     Outbox!BecomesDue, Outbox!LockGoesStale, Outbox!entryVars

\* The transaction writes the message and its entry, or neither.
LEMMA StoreMessageKeeps ==
  ASSUME ChatDeliveryAssumption, ChatInv, NEW c \in Calls, StoreMessage(c)
  PROVE  ChatInv'
<1> DEFINE l == letter[c]
<1>0. /\ Send!ChatAssumption /\ Outbox!ChatOutboxAssumption /\ IsFiniteSet(Calls)
      /\ SendInv /\ OutboxInv /\ Send!Store(c)
  BY DEF ChatDeliveryAssumption, ChatInv, StoreMessage
<1>1. SendInv'
  BY <1>0, StoreKeeps
<1>2. /\ l \in Letters /\ stored[l] \in Nat /\ stored[l] + 1 \in 1 .. MaxSends
  BY <1>0, RoomForOne DEF Send!Store
<1>3. stored \in [Letters -> Nat]
      /\ (stored' = [stored EXCEPT ![l] = @ + 1] \/ (Send!Exists(l) /\ stored' = stored))
  BY <1>0 DEF Send!Store, SendInv, Send!TypeOK
<1>4. \A m \in Letters : stored[m] \in Nat /\ stored'[m] \in Nat /\ stored[m] <= stored'[m]
  BY <1>2, <1>3
<1>5. \A k \in Entries : k[1] \in Letters /\ k[2] \in Nat
  BY DEF Entries
<1>6. \A k \in Entries : status[k] # "absent" => k[2] <= stored'[k[1]]
  <2> TAKE k \in Entries
  <2>1. Backed(k)
    BY DEF ChatInv
  <2> QED
    BY <1>4, <1>5, <2>1 DEF Backed
<1>7. CASE UNCHANGED outboxVars
  <2>1. status' = status
    BY <1>7 DEF outboxVars
  <2> QED
    BY <1>0, <1>1, <1>6, <1>7, <2>1, OutboxFrame DEF ChatInv, Backed
<1>8. CASE /\ ~Send!Exists(l) /\ Receiver[l] # Admin
           /\ Outbox!CreateEntry(<<l, stored[l] + 1>>)
  <2> DEFINE e == <<l, stored[l] + 1>>
  <2>1. e \in Entries /\ e[1] = l /\ e[2] = stored[l] + 1
    BY <1>2, <1>8 DEF Entries
  <2>2. OutboxInv'
    BY <1>0, <1>8, <2>1, CreateEntryKeeps
  <2>3. \A k \in Entries : k # e => status'[k] = status[k]
    BY <1>0, <1>8 DEF Outbox!CreateEntry, OutboxInv, Outbox!TypeOK
  <2>4. e[2] <= stored'[l]
    BY <1>2, <1>3, <1>8, <2>1
  <2>5. \A k \in Entries : Backed(k)'
    BY <1>6, <2>1, <2>3, <2>4 DEF Backed
  <2> QED
    BY <1>1, <2>2, <2>5 DEF ChatInv
<1> QED
  BY <1>7, <1>8 DEF StoreMessage

LEMMA ChatStep ==
  ASSUME ChatDeliveryAssumption, ChatInv, [Next]_vars
  PROVE  ChatInv'
<1>0. /\ Send!ChatAssumption /\ Outbox!ChatOutboxAssumption /\ IsFiniteSet(Calls)
      /\ SendInv /\ OutboxInv
  BY DEF ChatDeliveryAssumption, ChatInv
<1>1. CASE SendOnly
  <2>1. SendInv' /\ stored' = stored
    BY <1>0, <1>1, SendOnlyKeeps
  <2>2. UNCHANGED outboxVars
    BY <1>1 DEF SendOnly
  <2>3. OutboxInv' /\ status' = status
    BY <1>0, <2>2, OutboxFrame DEF outboxVars
  <2> QED
    BY <2>1, <2>3 DEF ChatInv, Backed
<1>2. ASSUME NEW c \in Calls, StoreMessage(c)
      PROVE  ChatInv'
  BY <1>2, StoreMessageKeeps
<1>3. CASE Notify
  <2>1. Outbox!Process /\ UNCHANGED sendVars /\ stored' = stored
    BY <1>3 DEF Notify, sendVars
  <2>2. SendInv' /\ OutboxInv'
    BY <1>0, <2>1, SendFrame, ProcessKeeps
  <2>3. ASSUME NEW k \in Entries PROVE Backed(k)'
    <3>1. status[k] = "absent" => status'[k] = "absent"
      BY <1>0, <2>1, ProcessMakesNone
    <3>2. Backed(k)
      BY DEF ChatInv
    <3> QED
      BY <2>1, <3>1, <3>2 DEF Backed
  <2> QED
    BY <2>2, <2>3 DEF ChatInv
<1>4. CASE UNCHANGED vars
  <2>1. UNCHANGED sendVars /\ UNCHANGED outboxVars /\ stored' = stored /\ status' = status
    BY <1>4 DEF vars, sendVars, outboxVars
  <2> QED
    BY <1>0, <2>1, SendFrame, OutboxFrame DEF ChatInv, Backed
<1> QED
  BY <1>1, <1>2, <1>3, <1>4 DEF Next

-----------------------------------------------------------------------------
\* The inductive invariant: calls and runs know what they should, every entry has its
\* message, and every message and entry is accounted for.
THEOREM ChatCorrect == Spec => []ChatInv
<1>1. Init => ChatInv
  <2> SUFFICES ASSUME Init PROVE ChatInv
    OBVIOUS
  <2>1. SendInv /\ OutboxInv
    BY ChatDeliveryAssumption, SendStarts, OutboxStarts DEF Init, ChatDeliveryAssumption
  <2>2. \A k \in Entries : status[k] = "absent"
    BY DEF Init, Outbox!Init
  <2> QED
    BY <2>1, <2>2 DEF ChatInv, Backed
<1>2. ChatInv /\ [Next]_vars => ChatInv'
  BY ChatDeliveryAssumption, ChatStep
<1> QED
  BY <1>1, <1>2, PTL DEF Spec

\* Every variable of the two halves keeps its type.
THEOREM TypeCorrect == Spec => [](Send!TypeOK /\ Outbox!TypeOK)
<1>1. ChatInv => Send!TypeOK /\ Outbox!TypeOK
  BY DEF ChatInv, SendInv, OutboxInv
<1> QED
  BY <1>1, ChatCorrect, PTL

\* A retried letter is notified once: calls that store the same letter at the same time,
\* and runs that break off between the notification and the settling, add nothing to
\* the member's inbox.
THEOREM NotifiedOncePerMessage == Spec => []RetriesNotifyOnce
<1>1. ChatInv => RetriesNotifyOnce
  <2> SUFFICES ASSUME ChatInv, NEW k \in Entries, k \in inbox
               PROVE  k[2] <= stored[k[1]] /\ (Key[k[1]] # NoKey => k[2] = 1)
    BY DEF RetriesNotifyOnce
  <2>1. Untouched(k) /\ Backed(k)
    BY DEF ChatInv, OutboxInv
  <2>2. k[2] <= stored[k[1]]
    BY <2>1 DEF Untouched, Backed
  <2>3. k[1] \in Letters /\ k[2] \in 1 .. MaxSends
    BY DEF Entries
  <2>4. stored[k[1]] \in Nat /\ (Key[k[1]] # NoKey => stored[k[1]] <= 1)
    BY <2>3 DEF ChatInv, SendInv, Send!TypeOK, Send!OneMessagePerKey, Send!Keyed
  <2> QED
    BY <2>2, <2>3, <2>4
<1> QED
  BY <1>1, ChatCorrect, PTL

\* Every call that is still to emit a letter stands for a stored message of it.
LEMMA EmittedIsStored ==
  ASSUME IsFiniteSet(Calls), SendInv
  PROVE  Send!EmittedOnce
<1> SUFFICES ASSUME NEW l \in Letters
             PROVE  emitted[l] <= stored[l]
  BY DEF Send!EmittedOnce
<1>1. /\ emitted[l] \in Nat /\ stored[l] \in Nat
      /\ Cardinality(ToEmit(l)) + emitted[l] <= stored[l]
  BY DEF SendInv, Send!TypeOK, Counted
<1>2. ToEmit(l) \in SUBSET Calls
  BY DEF ToEmit
<1>3. Cardinality(ToEmit(l)) \in Nat
  BY <1>2, CountNat
<1> QED
  BY <1>1, <1>3

\* A letter with a key is stored once, whoever is told of success has it stored, both
\* members see the same last message, and no message appears twice on a screen.
THEOREM MessagesAreStoredOnce ==
  Spec => [](/\ Send!OneMessagePerKey /\ Send!AckedMeansStored
             /\ Send!ConversationsAgree /\ Send!EmittedOnce)
<1>1. ChatInv => Send!EmittedOnce
  BY ChatDeliveryAssumption, EmittedIsStored DEF ChatDeliveryAssumption, ChatInv
<1>2. ChatInv => Send!OneMessagePerKey /\ Send!AckedMeansStored /\ Send!ConversationsAgree
  BY DEF ChatInv, SendInv
<1> QED
  BY <1>1, <1>2, ChatCorrect, PTL

\* A message that its receiver's block or ban should have stopped comes only from a call
\* that had begun before.
THEOREM UnwelcomeMessagesAreLate == Spec => []Send!UnwelcomeOnlyIfLate
<1>1. ChatInv => Send!UnwelcomeOnlyIfLate
  BY DEF ChatInv, SendInv, CallKnows, Send!UnwelcomeOnlyIfLate
<1> QED
  BY <1>1, ChatCorrect, PTL

\* Two runs work on one entry only after a lock of two minutes, and entries are taken up
\* in the order of their messages.
THEOREM RunsKeepOrder == Spec => [](Outbox!OneRunPerEntry /\ Outbox!OldestFirst)
<1>1. ChatInv => Outbox!OneRunPerEntry /\ Outbox!OldestFirst
  BY DEF ChatInv, OutboxInv, RunOf, Outbox!OneRunPerEntry
<1> QED
  BY <1>1, ChatCorrect, PTL

-----------------------------------------------------------------------------
(* The refinement of DeliveryLedger, step by step. *)

LedgerVars == <<Outbox!LedgerState, Outbox!LedgerInformed, Outbox!LedgerFailed>>

LEMMA LedgerNames ==
  /\ Outbox!LedgerName["absent"] = "absent"
  /\ Outbox!LedgerName["pending"] = "owed" /\ Outbox!LedgerName["processing"] = "owed"
  /\ Outbox!LedgerName["processed"] = "done" /\ Outbox!LedgerName["failed"] = "dropped"
  BY DEF Outbox!LedgerName

\* What the ledger says of an entry that no run has taken from another one.
LEMMA LedgerOf ==
  ASSUME NEW k \in Entries
  PROVE  /\ k \notin overtaken => /\ Outbox!LedgerState[k] = Outbox!LedgerName[status[k]]
                                  /\ Outbox!LedgerFailed[k] = attempts[k]
         /\ k \in overtaken => /\ Outbox!LedgerState[k] = "disputed"
                               /\ Outbox!LedgerFailed[k] = 0
  BY DEF Outbox!LedgerState, Outbox!LedgerFailed

LEMMA LedgerUnchanged ==
  ASSUME UNCHANGED <<status, attempts, inbox, optedOut, overtaken>>
  PROVE  UNCHANGED LedgerVars
  BY DEF LedgerVars, Outbox!LedgerState, Outbox!LedgerInformed, Outbox!LedgerFailed

\* A message's entry is a record of what is owed.
LEMMA CreateIsRecord ==
  ASSUME Outbox!ChatOutboxAssumption, OutboxInv, NEW k \in Entries, Outbox!CreateEntry(k)
  PROVE  Outbox!Ledger!Next
<1>1. /\ status[k] = "absent" /\ status' = [status EXCEPT ![k] = "pending"]
      /\ UNCHANGED <<attempts, inbox, optedOut, overtaken>>
  BY DEF Outbox!CreateEntry, Outbox!ghostVars
<1>2. k \notin overtaken
  BY <1>1 DEF OutboxInv, Untouched
<1>3. /\ Outbox!LedgerState[k] = "absent"
      /\ Outbox!LedgerState' = [Outbox!LedgerState EXCEPT ![k] = "owed"]
  BY <1>1, <1>2, LedgerNames DEF Outbox!LedgerState, OutboxInv, Outbox!TypeOK
<1>4. UNCHANGED <<Outbox!LedgerInformed, Outbox!LedgerFailed>>
  BY <1>1 DEF Outbox!LedgerInformed, Outbox!LedgerFailed
<1> QED
  BY <1>3, <1>4 DEF Outbox!Ledger!Next, Outbox!Ledger!Record

\* A claim changes nothing for the ledger, unless it overtakes a run.
LEMMA ClaimIsDispute ==
  ASSUME Outbox!ChatOutboxAssumption, OutboxInv, NEW p \in Processors, Outbox!ClaimOldest(p)
  PROVE  Outbox!Ledger!Next \/ UNCHANGED LedgerVars
<1>0. UNCHANGED <<attempts, inbox, optedOut>>
  BY DEF Outbox!ClaimOldest
<1>1. CASE UNCHANGED <<status, overtaken>>
  BY <1>0, <1>1, LedgerUnchanged
<1>2. ASSUME NEW k \in Entries, Outbox!Claimable(k),
             status' = [status EXCEPT ![k] = "processing"],
             overtaken' \in {overtaken, overtaken \cup {k}}
      PROVE  Outbox!Ledger!Next \/ UNCHANGED LedgerVars
  <2>1. status[k] \in {"pending", "processing"} /\ Outbox!LedgerName[status[k]] = "owed"
    BY <1>2, LedgerNames DEF Outbox!Claimable
  <2>2. CASE overtaken' = overtaken
    <3>1. Outbox!LedgerState' = Outbox!LedgerState
      BY <1>2, <2>1, <2>2, LedgerNames DEF Outbox!LedgerState, OutboxInv, Outbox!TypeOK
    <3> QED
      BY <1>0, <2>2, <3>1 DEF LedgerVars, Outbox!LedgerInformed, Outbox!LedgerFailed
  <2>3. CASE overtaken' = overtaken \cup {k} /\ k \notin overtaken
    <3>1. /\ Outbox!LedgerState[k] = "owed"
          /\ Outbox!LedgerState' = [Outbox!LedgerState EXCEPT ![k] = "disputed"]
      BY <1>2, <2>1, <2>3, LedgerNames DEF Outbox!LedgerState, OutboxInv, Outbox!TypeOK
    <3>2. Outbox!LedgerInformed' = Outbox!LedgerInformed \ {k}
      BY <1>0, <2>3 DEF Outbox!LedgerInformed
    <3>3. Outbox!LedgerFailed' = [Outbox!LedgerFailed EXCEPT ![k] = 0]
      BY <1>0, <2>3 DEF Outbox!LedgerFailed
    <3> QED
      BY <3>1, <3>2, <3>3 DEF Outbox!Ledger!Next, Outbox!Ledger!Dispute
  <2> QED
    BY <1>2, <2>2, <2>3
<1> QED
  BY <1>1, <1>2 DEF Outbox!ClaimOldest

\* Creating the in-app notification, or finding that it is not wanted, informs.
LEMMA InAppIsInform ==
  ASSUME Outbox!ChatOutboxAssumption, OutboxInv, NEW p \in Processors,
         Outbox!CreateInApp(p) \/ Outbox!SendPush(p) \/ Outbox!Throws(p)
  PROVE  Outbox!Ledger!Next \/ UNCHANGED LedgerVars
<1> DEFINE k == held[p]
<1>0. /\ step[p] \in {"inapp", "push", "settle"}
      /\ UNCHANGED <<status, attempts, overtaken>>
      /\ \/ (inbox \cup optedOut)' = inbox \cup optedOut
         \/ (inbox \cup optedOut)' = (inbox \cup optedOut) \cup {k}
  BY DEF Outbox!CreateInApp, Outbox!SendPush, Outbox!Throws, Outbox!entryVars,
         Outbox!ghostVars
<1>1. k \in Entries /\ NoEntry \notin Entries
  BY <1>0, RunSorts, OutboxSorts
<1>2. UNCHANGED <<Outbox!LedgerState, Outbox!LedgerFailed>>
  BY <1>0 DEF Outbox!LedgerState, Outbox!LedgerFailed
<1>3. CASE k \in overtaken \/ (inbox \cup optedOut)' = inbox \cup optedOut
  BY <1>0, <1>2, <1>3 DEF LedgerVars, Outbox!LedgerInformed
<1>4. CASE k \notin overtaken /\ (inbox \cup optedOut)' = (inbox \cup optedOut) \cup {k}
  <2>1. status[k] = "processing"
    BY <1>1, <1>4 DEF OutboxInv, RunOf
  <2>2. Outbox!LedgerState[k] = "owed"
    BY <1>1, <1>4, <2>1, LedgerNames, LedgerOf
  <2>3. Outbox!LedgerInformed' = Outbox!LedgerInformed \cup {k}
    BY <1>0, <1>4 DEF Outbox!LedgerInformed
  <2> QED
    BY <1>1, <1>2, <2>2, <2>3 DEF Outbox!Ledger!Next, Outbox!Ledger!Inform
<1> QED
  BY <1>0, <1>3, <1>4

\* The last update completes what its member has been told of.
LEMMA SettleIsComplete ==
  ASSUME Outbox!ChatOutboxAssumption, OutboxInv, NEW p \in Processors, Outbox!SettleEntry(p)
  PROVE  Outbox!Ledger!Next \/ UNCHANGED LedgerVars
<1> DEFINE k == held[p]
<1>0. /\ step[p] = "settle" /\ status' = [status EXCEPT ![k] = "processed"]
      /\ UNCHANGED <<attempts, inbox, optedOut, overtaken>>
  BY DEF Outbox!SettleEntry, Outbox!ghostVars
<1>1. k \in Entries /\ NoEntry \notin Entries
  BY <1>0, RunSorts, OutboxSorts
<1>2. UNCHANGED <<Outbox!LedgerInformed, Outbox!LedgerFailed>>
  BY <1>0 DEF Outbox!LedgerInformed, Outbox!LedgerFailed
<1>3. CASE k \in overtaken
  <2>1. Outbox!LedgerState' = Outbox!LedgerState
    BY <1>0, <1>3 DEF Outbox!LedgerState, OutboxInv, Outbox!TypeOK
  <2> QED
    BY <1>2, <2>1 DEF LedgerVars
<1>4. CASE k \notin overtaken
  <2>1. status[k] = "processing" /\ k \in Outbox!LedgerInformed
    BY <1>0, <1>1, <1>4 DEF OutboxInv, RunOf, Outbox!LedgerInformed
  <2>2. /\ Outbox!LedgerState[k] = "owed"
        /\ Outbox!LedgerState' = [Outbox!LedgerState EXCEPT ![k] = "done"]
    BY <1>0, <1>1, <1>4, <2>1, LedgerNames DEF Outbox!LedgerState, OutboxInv, Outbox!TypeOK
  <2> QED
    BY <1>1, <1>2, <2>1, <2>2 DEF Outbox!Ledger!Next, Outbox!Ledger!Complete
<1> QED
  BY <1>3, <1>4

\* The catch block counts one failure, and drops what has failed too often.
LEMMA CountIsFail ==
  ASSUME Outbox!ChatOutboxAssumption, OutboxInv, NEW p \in Processors, Outbox!CountFailure(p)
  PROVE  Outbox!Ledger!Next \/ UNCHANGED LedgerVars
<1> DEFINE k == held[p]
<1>0. /\ step[p] = "fail" /\ attempts' = [attempts EXCEPT ![k] = tries[p] + 1]
      /\ status' = [status EXCEPT ![k] = IF tries[p] + 1 >= MaxAttempts
                                         THEN "failed" ELSE "pending"]
      /\ UNCHANGED <<inbox, optedOut, overtaken>>
  BY DEF Outbox!CountFailure
<1>1. k \in Entries /\ NoEntry \notin Entries
  BY <1>0, RunSorts, OutboxSorts
<1>2. UNCHANGED Outbox!LedgerInformed
  BY <1>0 DEF Outbox!LedgerInformed
<1>3. CASE k \in overtaken
  <2>1. Outbox!LedgerState' = Outbox!LedgerState /\ Outbox!LedgerFailed' = Outbox!LedgerFailed
    BY <1>0, <1>3 DEF Outbox!LedgerState, Outbox!LedgerFailed, OutboxInv, Outbox!TypeOK
  <2> QED
    BY <1>2, <2>1 DEF LedgerVars
<1>4. CASE k \notin overtaken
  <2>1. status[k] = "processing" /\ tries[p] = attempts[k]
    BY <1>1, <1>4 DEF OutboxInv, RunOf
  <2>2. /\ Outbox!LedgerFailed[k] = attempts[k]
        /\ Outbox!LedgerFailed' = [Outbox!LedgerFailed EXCEPT ![k] = @ + 1]
    <3>1. attempts \in [Entries -> Nat] /\ attempts'[k] = attempts[k] + 1
          /\ \A j \in Entries \ {k} : attempts'[j] = attempts[j]
      BY <1>0, <1>1, <2>1 DEF OutboxInv, Outbox!TypeOK
    <3>2. Outbox!LedgerFailed[k] = attempts[k]
      BY <1>1, <1>4, LedgerOf
    <3> QED
      BY <1>0, <1>1, <1>4, <3>1, <3>2 DEF Outbox!LedgerFailed
  <2>3. /\ Outbox!LedgerState[k] = "owed"
        /\ Outbox!LedgerState' = [Outbox!LedgerState EXCEPT
             ![k] = IF Outbox!LedgerFailed[k] + 1 >= MaxAttempts THEN "dropped" ELSE @]
    BY <1>0, <1>1, <1>4, <2>1, <2>2, LedgerNames
    DEF Outbox!LedgerState, OutboxInv, Outbox!TypeOK
  <2> QED
    BY <1>1, <1>2, <2>2, <2>3 DEF Outbox!Ledger!Next, Outbox!Ledger!Fail
<1> QED
  BY <1>3, <1>4

LEMMA ProcessKeepsLedger ==
  ASSUME Outbox!ChatOutboxAssumption, OutboxInv, Outbox!Process
  PROVE  Outbox!Ledger!Next \/ UNCHANGED LedgerVars
<1>1. ASSUME NEW p \in Processors, Outbox!Proceed(p)
      PROVE  Outbox!Ledger!Next \/ UNCHANGED LedgerVars
  BY <1>1, ClaimIsDispute, InAppIsInform, SettleIsComplete, CountIsFail DEF Outbox!Proceed
<1>2. ASSUME NEW p \in Processors, Outbox!StartRun(p) \/ Outbox!RunBreaksOff(p)
      PROVE  UNCHANGED LedgerVars
  BY <1>2, LedgerUnchanged DEF Outbox!StartRun, Outbox!RunBreaksOff, Outbox!entryVars,
                               Outbox!ghostVars
<1>3. ASSUME NEW k \in Entries, Outbox!Time(k)
      PROVE  UNCHANGED LedgerVars
  BY <1>3, LedgerUnchanged DEF Outbox!Time, Outbox!BecomesDue, Outbox!LockGoesStale,
                               Outbox!ghostVars
<1> QED
  BY <1>1, <1>2, <1>3 DEF Outbox!Process

LEMMA LedgerStarts ==
  ASSUME Outbox!Init
  PROVE  Outbox!Ledger!Init
  BY LedgerNames DEF Outbox!Init, Outbox!Ledger!Init, Outbox!LedgerState,
                     Outbox!LedgerInformed, Outbox!LedgerFailed

\* The outbox keeps the ledger, with the entries the transactions write: nothing is
\* dropped early, settled untold, reopened, or miscounted.
THEOREM OutboxImplementsLedger == Spec => Outbox!ImplementsLedger
<1>1. Init => Outbox!Ledger!Init
  BY LedgerStarts DEF Init
<1>2. ASSUME ChatInv, [Next]_vars
      PROVE  Outbox!LedgerStep
  <2>0. /\ Send!ChatAssumption /\ Outbox!ChatOutboxAssumption /\ IsFiniteSet(Calls)
        /\ SendInv /\ OutboxInv
    BY <1>2, ChatDeliveryAssumption DEF ChatDeliveryAssumption, ChatInv
  <2>1. CASE UNCHANGED outboxVars
    BY <2>1, LedgerUnchanged DEF outboxVars, LedgerVars, Outbox!LedgerStep
  <2>2. ASSUME NEW c \in Calls, StoreMessage(c)
        PROVE  Outbox!LedgerStep
    <3>1. CASE UNCHANGED outboxVars
      BY <2>1, <3>1
    <3>2. CASE /\ Receiver[letter[c]] # Admin
               /\ Outbox!CreateEntry(<<letter[c], stored[letter[c]] + 1>>)
      <4>1. <<letter[c], stored[letter[c]] + 1>> \in Entries
        BY <2>0, <2>2, <3>2, RoomForOne DEF Entries, StoreMessage, Send!Store
      <4> QED
        BY <2>0, <3>2, <4>1, CreateIsRecord DEF Outbox!LedgerStep
    <3> QED
      BY <2>2, <3>1, <3>2 DEF StoreMessage
  <2>3. CASE Notify
    BY <2>0, <2>3, ProcessKeepsLedger DEF Notify, LedgerVars, Outbox!LedgerStep
  <2> QED
    BY <1>2, <2>1, <2>2, <2>3 DEF Next, SendOnly, vars
<1> QED
  BY <1>1, <1>2, ChatCorrect, PTL DEF Spec, Outbox!ImplementsLedger
=============================================================================

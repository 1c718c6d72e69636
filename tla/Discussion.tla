------------------------------ MODULE Discussion ------------------------------
(***************************************************************************)
(* Reactions, comments, feedback and the members' own calendar entries.    *)
(* Every call reads first and writes afterwards; what keeps the collections *)
(* right between the two is the unique index on reactions, the upsert of   *)
(* feedback, and the owner that no call changes.                           *)
(***************************************************************************)
EXTENDS Integers, FiniteSets

CONSTANTS Members,
          Calls,     \* calls under way at a time
          MaxCalls

DiscussionAssumption ==
    /\ Members # {} /\ IsFiniteSet(Members)
    /\ Calls # {} /\ MaxCalls \in Nat

VARIABLES reaction,   \* members with a reaction, of one type to one comment
          entry,      \* comments and personal events that are there, with their owner
          attending,  \* registeredUsers of the event
          accounts,   \* members whose account is there
          feedback,   \* members with feedback
          call,       \* what each call read
          taps,       \* taps on the reaction that were answered, modulo 2
          crossed,    \* members whose taps overlapped
          attended,   \* members who were registered when their feedback was checked
          calls

vars == <<reaction, entry, attending, accounts, feedback, call, taps, crossed,
          attended, calls>>
-----------------------------------------------------------------------------
Kinds == {"comment", "personalEvent"}
Entries == [kind : Kinds, owner : Members]
Idle == [op |-> "idle"]
Steps == {Idle} \cup [op : {"react", "unreact", "rate"}, who : Members]
                \cup [op : {"delete", "update"}, who : Members, entry : Entries]
Doing(c, op) == call[c].op = op
GoTo(c, step) == call' = [call EXCEPT ![c] = step]

TypeOK ==
    /\ reaction \subseteq Members /\ feedback \subseteq Members
    /\ entry \subseteq Entries
    /\ attending \subseteq Members /\ accounts \subseteq Members
    /\ call \in [Calls -> Steps]
    /\ taps \in [Members -> 0..1] /\ crossed \subseteq Members
    /\ attended \subseteq Members
    /\ calls \in 0..MaxCalls

Init ==
    /\ reaction = {} /\ entry = {} /\ feedback = {}
    /\ attending \in SUBSET Members /\ accounts = Members
    /\ call = [c \in Calls |-> Idle]
    /\ taps = [m \in Members |-> 0] /\ crossed = {}
    /\ attended = {} /\ calls = 0

Arrive(c) == call[c] = Idle /\ calls < MaxCalls /\ calls' = calls + 1
-----------------------------------------------------------------------------
(* Reactions *)

Tapping(m) == {c \in Calls : call[c].op \in {"react", "unreact"} /\ call[c].who = m}
Answered(m) == taps' = [taps EXCEPT ![m] = 1 - @]

FindReaction(c, m) ==
    /\ Arrive(c)
    /\ GoTo(c, [op |-> IF m \in reaction THEN "unreact" ELSE "react", who |-> m])
    /\ crossed' = IF Tapping(m) # {} THEN crossed \cup {m} ELSE crossed
    /\ UNCHANGED <<reaction, entry, attending, accounts, feedback, taps, attended>>

\* Mutant of ToggleReaction: the one that was found is left where it is.
ToggleReactionKept(c) ==
    /\ Doing(c, "react") \/ Doing(c, "unreact")
    /\ GoTo(c, Idle) /\ Answered(call[c].who)
    /\ reaction' = reaction \cup {call[c].who}
    /\ UNCHANGED <<entry, attending, accounts, feedback, crossed, attended, calls>>

\* The one that was found is deleted, or one is made.
ToggleReaction(c) ==
    /\ \/ /\ Doing(c, "unreact")
          /\ reaction' = reaction \ {call[c].who}
       \/ /\ Doing(c, "react") /\ call[c].who \notin reaction
          /\ reaction' = reaction \cup {call[c].who}
    /\ GoTo(c, Idle) /\ Answered(call[c].who)
    /\ UNCHANGED <<entry, attending, accounts, feedback, crossed, attended, calls>>

\* The unique index refuses the second of two.
ReactionRefused(c) ==
    /\ Doing(c, "react") /\ call[c].who \in reaction
    /\ GoTo(c, Idle)
    /\ UNCHANGED <<reaction, entry, attending, accounts, feedback, taps, crossed,
                   attended, calls>>
-----------------------------------------------------------------------------
(* Comments and personal events *)

Create(e) ==
    /\ calls < MaxCalls /\ calls' = calls + 1
    /\ e \notin entry
    /\ entry' = entry \cup {e}
    /\ UNCHANGED <<reaction, attending, accounts, feedback, call, taps, crossed, attended>>

CreateComment(m) == Create([kind |-> "comment", owner |-> m])
CreatePersonalEvent(m) == Create([kind |-> "personalEvent", owner |-> m])

\* findById and the comparison with the member who asks.
FindEntry(c, m, e, op) ==
    /\ Arrive(c)
    /\ e \in entry /\ e.owner = m
    /\ GoTo(c, [op |-> op, who |-> m, entry |-> e])
    /\ UNCHANGED <<reaction, entry, attending, accounts, feedback, taps, crossed, attended>>

FindComment(c, m, e) == e.kind = "comment" /\ FindEntry(c, m, e, "delete")
FindPersonalEvent(c, m, e) ==
    e.kind = "personalEvent" /\ \E op \in {"delete", "update"} : FindEntry(c, m, e, op)

Write(c, kind) ==
    /\ call[c].entry.kind = kind
    /\ GoTo(c, Idle)
    /\ UNCHANGED <<reaction, attending, accounts, feedback, taps, crossed, attended, calls>>

DeleteComment(c) ==
    /\ Doing(c, "delete") /\ Write(c, "comment")
    /\ entry' = entry \ {call[c].entry}

DeletePersonalEvent(c) ==
    /\ Doing(c, "delete") /\ Write(c, "personalEvent")
    /\ entry' = entry \ {call[c].entry}

\* An entry deleted since is not made again.
UpdatePersonalEvent(c) ==
    /\ Doing(c, "update") /\ Write(c, "personalEvent")
    /\ UNCHANGED entry
-----------------------------------------------------------------------------
(* Feedback *)

CheckAttendance(c, m) ==
    /\ Arrive(c)
    /\ m \in attending
    /\ GoTo(c, [op |-> "rate", who |-> m])
    /\ attended' = attended \cup {m}
    /\ UNCHANGED <<reaction, entry, attending, accounts, feedback, taps, crossed>>

SubmitEventFeedback(c) ==
    /\ Doing(c, "rate")
    /\ GoTo(c, Idle)
    /\ feedback' = feedback \cup {call[c].who}
    /\ UNCHANGED <<reaction, entry, attending, accounts, taps, crossed, attended, calls>>

\* Registration, which an edit of the event may take back, and removal of the account.
Register(m) ==
    /\ calls < MaxCalls /\ calls' = calls + 1
    /\ attending' = (attending \ {m}) \cup ({m} \ attending)
    /\ UNCHANGED <<reaction, entry, accounts, feedback, call, taps, crossed, attended>>

RemoveAccount(m) ==
    /\ calls < MaxCalls /\ calls' = calls + 1
    /\ accounts' = accounts \ {m}
    /\ UNCHANGED <<reaction, entry, attending, feedback, call, taps, crossed, attended>>

CallBreaksOff(c) ==
    /\ call[c] # Idle
    /\ GoTo(c, Idle)
    /\ UNCHANGED <<reaction, entry, attending, accounts, feedback, taps, crossed,
                   attended, calls>>

Next ==
    \/ \E c \in Calls :
         \/ ToggleReaction(c) \/ ReactionRefused(c) \/ DeleteComment(c) \/ DeletePersonalEvent(c)
         \/ UpdatePersonalEvent(c) \/ SubmitEventFeedback(c) \/ CallBreaksOff(c)
         \/ \E m \in accounts :
              \/ FindReaction(c, m) \/ CheckAttendance(c, m)
              \/ \E e \in entry : FindComment(c, m, e) \/ FindPersonalEvent(c, m, e)
    \/ \E m \in accounts :
         CreateComment(m) \/ CreatePersonalEvent(m) \/ Register(m) \/ RemoveAccount(m)

Spec == Init /\ [][Next]_vars
-----------------------------------------------------------------------------
(* What the reads return. *)

GetReactions == Cardinality(reaction)
GetEventAverageRating == Cardinality(feedback)

\* getEventAttendees pages the registrations and then looks the accounts up: items of
\* removed members are missing while the total counts them.
GetEventAttendees == [items |-> attending \cap accounts, total |-> Cardinality(attending)]

(* A reaction is there after an odd number of taps, unless the member's    *)
(* taps overlapped; feedback comes from members who were registered; and   *)
(* the pages of attendees fall short of their total by the removed         *)
(* accounts and by nobody else.                                            *)
TapsAlternate ==
    /\ \A m \in Members \ crossed : (m \in reaction) <=> (taps[m] = 1)
    /\ feedback \subseteq attended
    /\ Cardinality(GetEventAttendees.items) < GetEventAttendees.total <=> attending \ accounts # {}
-----------------------------------------------------------------------------
(* The one tap of a member that is being answered found the reaction as it *)
(* is, and who rates was registered.                                       *)
TapsFoundIt ==
    \A c \in Calls : call[c].op \in {"react", "unreact"} /\ call[c].who \notin crossed =>
        /\ (call[c].op = "react") <=> (call[c].who \notin reaction)
        /\ \A d \in Calls : call[d].op \in {"react", "unreact"} /\ d # c =>
               call[d].who # call[c].who

RatersAttended == \A c \in Calls : call[c].op = "rate" => call[c].who \in attended

DiscussionInv == TypeOK /\ TapsAlternate /\ TapsFoundIt /\ RatersAttended
===============================================================================

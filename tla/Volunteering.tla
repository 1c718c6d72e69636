----------------------------- MODULE Volunteering -----------------------------
(***************************************************************************)
(* Volunteer jobs, their shifts, and the older vacancies: every call reads *)
(* the document, checks it and writes with a second call.  The statuses of *)
(* a shift are written by position.                                        *)
(***************************************************************************)
EXTENDS Naturals, Sequences, FiniteSets

CONSTANTS Members,
          Calls,          \* calls under way at a time
          MaxVolunteers,  \* places of the shift
          MaxCalls

VolunteeringAssumption ==
    /\ Members # {} /\ Calls # {}
    /\ MaxVolunteers \in Nat \ {0} /\ MaxCalls \in Nat

VARIABLES shift,        \* volunteers of the shift, in order
          applicants,   \* of the job
          candidates,   \* applicants of the vacancy, a set by $addToSet
          closing,      \* the closing date is over
          active,       \* isActive of the job and the vacancy
          call,         \* what each call has read
          marked,       \* members an administrator marked
          crowded,      \* sign-ups overlapped
          shifted,      \* a withdrawal overlapped the marking of somebody
          twice,        \* members whose applications overlapped
          calls

vars == <<shift, applicants, candidates, closing, active, call, marked, crowded, shifted,
          twice, calls>>
-----------------------------------------------------------------------------
\* $set on a position behind the end makes an entry with a status and no user.
Nobody == "nobody"
Statuses == {"signed_up", "completed"}
Kinds == {"apply", "withdrawJob", "signUp", "withdrawShift", "mark", "register"}
IdleCall == [kind |-> "idle", member |-> Nobody, index |-> 0]

TypeOK ==
    /\ shift \in Seq([user : Members \cup {Nobody}, status : Statuses])
    /\ applicants \in Seq(Members)
    /\ candidates \subseteq Members
    /\ closing \in BOOLEAN /\ active \in BOOLEAN
    /\ call \in [Calls -> [kind : Kinds, member : Members, index : Nat] \cup {IdleCall}]
    /\ marked \subseteq Members /\ twice \subseteq Members
    /\ crowded \in BOOLEAN /\ shifted \in BOOLEAN
    /\ calls \in 0..MaxCalls

Init ==
    /\ shift = <<>> /\ applicants = <<>> /\ candidates = {}
    /\ closing = FALSE /\ active = TRUE
    /\ call = [c \in Calls |-> IdleCall]
    /\ marked = {} /\ twice = {}
    /\ crowded = FALSE /\ shifted = FALSE
    /\ calls = 0

SignedUp(m) == \E i \in DOMAIN shift : shift[i].user = m
Applied(m) == \E i \in DOMAIN applicants : applicants[i] = m
Doing(kind) == \E c \in Calls : call[c].kind = kind

\* Searching the volunteers for a user fails at an entry that has none.
Readable == \A i \in DOMAIN shift : shift[i].user # Nobody

Start(c, kind, m, index) ==
    /\ call[c].kind = "idle"
    /\ calls < MaxCalls
    /\ calls' = calls + 1
    /\ call' = [call EXCEPT ![c] = [kind |-> kind, member |-> m, index |-> index]]

\* What is left of a sequence at the positions S, in order.
Kept(q, S) ==
    [n \in 1..Cardinality(S) |-> q[CHOOSE i \in S : Cardinality({j \in S : j <= i}) = n]]

End(c) == call' = [call EXCEPT ![c] = IdleCall]
Ghosts == <<marked, crowded, shifted, twice>>
Dates == <<closing, active>>
-----------------------------------------------------------------------------
(* Shifts. *)

\* Mutant of HasRoom: one volunteer more than there are places.
HasRoomForOneMore == Len(shift) <= MaxVolunteers

HasRoom == Len(shift) < MaxVolunteers

ReadForSignUp(c, m) ==
    /\ Readable /\ ~SignedUp(m) /\ HasRoom
    /\ Start(c, "signUp", m, 0)
    /\ crowded' = (crowded \/ Doing("signUp"))
    /\ UNCHANGED <<shift, applicants, candidates, Dates, marked, shifted, twice>>

\* save() pushes the volunteer.
SignUpForShift(c) ==
    /\ call[c].kind = "signUp"
    /\ shift' = Append(shift, [user |-> call[c].member, status |-> "signed_up"])
    /\ End(c)
    /\ UNCHANGED <<applicants, candidates, Dates, Ghosts, calls>>

ReadForWithdrawal(c, m) ==
    /\ Readable /\ SignedUp(m)
    /\ Start(c, "withdrawShift", m, 0)
    /\ UNCHANGED <<shift, applicants, candidates, Dates, Ghosts>>

\* $pull takes every entry of the member.
WithdrawFromShift(c) ==
    /\ call[c].kind = "withdrawShift"
    /\ shift' = Kept(shift, {i \in DOMAIN shift : shift[i].user # call[c].member})
    /\ marked' = marked \ {call[c].member}
    /\ shifted' = (shifted \/ Doing("mark"))
    /\ End(c)
    /\ UNCHANGED <<applicants, candidates, Dates, crowded, twice, calls>>

\* Mutant of Position: counted from zero for an array that counts from one.
PositionBefore(m) == LET i == CHOOSE i \in DOMAIN shift : shift[i].user = m
                     IN IF i = 1 THEN 1 ELSE i - 1

\* findIndex: the first entry of the member.
Position(m) == CHOOSE i \in DOMAIN shift :
                 /\ shift[i].user = m
                 /\ \A j \in 1..i - 1 : shift[j].user # m

ReadForStatus(c, m) ==
    /\ Readable /\ SignedUp(m)
    /\ Start(c, "mark", m, Position(m))
    /\ UNCHANGED <<shift, applicants, candidates, Dates, Ghosts>>

\* save() sets "volunteers.<index>.status"; the schema keeps no version.
UpdateShiftStatus(c) ==
    LET i == call[c].index IN
    /\ call[c].kind = "mark"
    /\ shift' = IF i \in DOMAIN shift
                THEN [shift EXCEPT ![i].status = "completed"]
                ELSE Append(shift, [user |-> Nobody, status |-> "completed"])
    /\ marked' = marked \cup {call[c].member}
    /\ End(c)
    /\ UNCHANGED <<applicants, candidates, Dates, crowded, shifted, twice, calls>>
-----------------------------------------------------------------------------
(* Jobs and vacancies. *)

ReadForApplication(c, m) ==
    /\ ~closing /\ ~Applied(m)
    /\ Start(c, "apply", m, 0)
    /\ twice' = IF \E d \in Calls : call[d].kind = "apply" /\ call[d].member = m
                THEN twice \cup {m} ELSE twice
    /\ UNCHANGED <<shift, applicants, candidates, Dates, marked, crowded, shifted>>

ApplyForJob(c) ==
    /\ call[c].kind = "apply"
    /\ applicants' = Append(applicants, call[c].member)
    /\ End(c)
    /\ UNCHANGED <<shift, candidates, Dates, Ghosts, calls>>

ReadApplication(c, m) ==
    /\ Applied(m)
    /\ Start(c, "withdrawJob", m, 0)
    /\ UNCHANGED <<shift, applicants, candidates, Dates, Ghosts>>

WithdrawApplication(c) ==
    /\ call[c].kind = "withdrawJob"
    /\ applicants' = Kept(applicants, {i \in DOMAIN applicants : applicants[i] # call[c].member})
    /\ End(c)
    /\ UNCHANGED <<shift, candidates, Dates, Ghosts, calls>>

\* registerForJob looks at neither the closing date nor isActive.
ReadVacancy(c, m) ==
    /\ m \notin candidates
    /\ Start(c, "register", m, 0)
    /\ UNCHANGED <<shift, applicants, candidates, Dates, Ghosts>>

RegisterForJob(c) ==
    /\ call[c].kind = "register"
    /\ candidates' = candidates \cup {call[c].member}
    /\ End(c)
    /\ UNCHANGED <<shift, applicants, Dates, Ghosts, calls>>

\* A call fails between its two steps.
CallBreaksOff(c) ==
    /\ call[c].kind # "idle"
    /\ End(c)
    /\ UNCHANGED <<shift, applicants, candidates, Dates, Ghosts, calls>>

DatePasses ==
    /\ ~closing
    /\ closing' = TRUE
    /\ UNCHANGED <<shift, applicants, candidates, active, call, Ghosts, calls>>

\* updateJob moves the closing date.
ExtendDate ==
    /\ closing
    /\ closing' = FALSE
    /\ UNCHANGED <<shift, applicants, candidates, active, call, Ghosts, calls>>

\* Listing closes what is over and opens what is not.
FindAll ==
    /\ active = closing
    /\ active' = ~closing
    /\ UNCHANGED <<shift, applicants, candidates, closing, call, Ghosts, calls>>
-----------------------------------------------------------------------------
Next ==
    \/ \E c \in Calls :
         \/ \E m \in Members :
              \/ ReadForSignUp(c, m) \/ ReadForWithdrawal(c, m) \/ ReadForStatus(c, m)
              \/ ReadForApplication(c, m) \/ ReadApplication(c, m) \/ ReadVacancy(c, m)
         \/ SignUpForShift(c) \/ WithdrawFromShift(c) \/ UpdateShiftStatus(c)
         \/ ApplyForJob(c) \/ WithdrawApplication(c) \/ RegisterForJob(c) \/ CallBreaksOff(c)
    \/ DatePasses \/ ExtendDate \/ FindAll

Spec == Init /\ [][Next]_vars
-----------------------------------------------------------------------------
(* A shift has no more volunteers than places, unless sign-ups overlapped  *)
(* or an entry without a user was made.                                    *)
ShiftsAreNotOverbooked ==
    Len(shift) > MaxVolunteers => crowded \/ shifted

(* A volunteer is marked only by a call that named that volunteer, unless  *)
(* another left the shift between the call's reading and its writing: the  *)
(* position then belongs to somebody else, or to nobody.                   *)
StatusesAreTheirOwn ==
    \A i \in DOMAIN shift :
        shift[i].status # "signed_up" => shift[i].user \in marked \/ shifted

(* Nobody is among the applicants of a job twice, unless two applications  *)
(* of that member overlapped.                                              *)
AppliedOnce ==
    \A i, j \in DOMAIN applicants :
        applicants[i] = applicants[j] => i = j \/ applicants[i] \in twice
-----------------------------------------------------------------------------
(* One sign-up at a time, and it found a place that is still there.        *)
SignUpsHavePlaces ==
    /\ ~crowded =>
         \A c, d \in Calls : call[c].kind = "signUp" /\ call[d].kind = "signUp" => c = d
    /\ ~crowded /\ ~shifted /\ Doing("signUp") => Len(shift) < MaxVolunteers

(* The position an administrator's call has read is still its member's.    *)
MarksAreAimed ==
    ~shifted => \A c \in Calls : call[c].kind = "mark" =>
        /\ call[c].index \in DOMAIN shift
        /\ shift[call[c].index].user = call[c].member

(* One application of a member at a time, and the member has not applied.  *)
ApplicationsAreNew ==
    \A c \in Calls : call[c].kind = "apply" /\ call[c].member \notin twice =>
        /\ ~Applied(call[c].member)
        /\ \A d \in Calls : call[d].kind = "apply" /\ call[d].member = call[c].member => c = d

VolunteeringInv ==
    /\ TypeOK
    /\ ShiftsAreNotOverbooked /\ StatusesAreTheirOwn /\ AppliedOnce
    /\ SignUpsHavePlaces /\ MarksAreAimed /\ ApplicationsAreNew
=============================================================================

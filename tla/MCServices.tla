------------------------------ MODULE MCServices ------------------------------
(***************************************************************************)
(* Two of everything that is interchangeable; the letters, rows, dates and *)
(* addresses of the services that tell theirs apart.                       *)
(***************************************************************************)
EXTENDS Services, TLC

CONSTANTS ben, hello, reply, question, uuid, phone, c1, c2, web, worker, r1, r2

Symmetry == Permutations(A) \cup Permutations(B)

\* Two members who write to each other under one clientMessageId, and a letter
\* to the administrators that has none.
MCSender   == hello :> ann @@ reply :> ben @@ question :> ann
MCReceiver == hello :> ben @@ reply :> ann @@ question :> admin
MCKey      == hello :> uuid @@ reply :> uuid @@ question :> none

\* Months of three and of two days, so that a day may be missing.
MCMonthStart == 0 :> 0 @@ 1 :> 3 @@ 2 :> 5 @@ 3 :> 8 @@ 4 :> 10 @@ 5 :> 13

\* A birthday of today, subscriptions that end today or tomorrow, events of
\* tomorrow, and members who came yesterday.
MCLeads == [birthday |-> {0}, subscription |-> {1, 0}, event |-> {1}, followUp |-> {-1}]

\* A row with the address of ann and no category, and one with a phone that has.
MCSheets ==
  {r1 :> [email |-> ann, phone |-> none, name |-> "ada", category |-> FALSE]
     @@ r2 :> [email |-> none, phone |-> "p1", name |-> "ada", category |-> TRUE]}
=============================================================================

--------------------------- MODULE DeliveryLedger ---------------------------
(***************************************************************************)
(* What an outbox promises about the notifications put into it, without    *)
(* saying who delivers them: a notification is owed once it is recorded;   *)
(* it is done only when its member knows of it (or wants to know nothing); *)
(* it is dropped only after Limit failed deliveries, all of them counted;  *)
(* and what is done or dropped is never taken up again.  Only of an entry  *)
(* that two deliveries work on at once nothing more is promised.           *)
(***************************************************************************)
EXTENDS Naturals

CONSTANTS
  Entries,
  Limit      \* failed deliveries after which a notification is dropped

VARIABLES
  state,     \* "absent", "owed", "done", "dropped" or "disputed"
  informed,  \* entries whose member knows, or wants to know nothing
  failed     \* failed[k]: counted failures

-----------------------------------------------------------------------------
Init ==
  /\ state = [k \in Entries |-> "absent"]
  /\ informed = {}
  /\ failed = [k \in Entries |-> 0]

Record(k) ==
  /\ state[k] = "absent"
  /\ state' = [state EXCEPT ![k] = "owed"]
  /\ UNCHANGED <<informed, failed>>

Inform(k) ==
  /\ state[k] = "owed"
  /\ informed' = informed \union {k}
  /\ UNCHANGED <<state, failed>>

Fail(k) ==
  /\ state[k] = "owed"
  /\ failed' = [failed EXCEPT ![k] = @ + 1]
  /\ state' = [state EXCEPT ![k] = IF failed[k] + 1 >= Limit THEN "dropped" ELSE @]
  /\ UNCHANGED informed

Complete(k) ==
  /\ state[k] = "owed"
  /\ k \in informed
  /\ state' = [state EXCEPT ![k] = "done"]
  /\ UNCHANGED <<informed, failed>>

\* A second delivery takes entry k over while the first is still at work: the
\* ledger strikes it out.
Dispute(k) ==
  /\ state[k] = "owed"
  /\ state' = [state EXCEPT ![k] = "disputed"]
  /\ informed' = informed \ {k}
  /\ failed' = [failed EXCEPT ![k] = 0]

Next ==
  \E k \in Entries : Record(k) \/ Inform(k) \/ Fail(k) \/ Complete(k) \/ Dispute(k)

Spec == Init /\ [][Next]_<<state, informed, failed>>
=============================================================================

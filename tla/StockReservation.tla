-------------------------- MODULE StockReservation --------------------------
(***************************************************************************)
(* What OrdersService promises about the stock of an order, without saying *)
(* how many requests work on it: the order is open, claimed or sold; its   *)
(* lines move between the shelf and the order only while it is claimed; it *)
(* is open only with none of its lines and sold only with all of them; and *)
(* what is sold stays sold.                                                *)
(***************************************************************************)
EXTENDS Naturals

CONSTANTS
  Orders,
  Size       \* Size[o]: how many lines order o has

VARIABLES
  state,     \* "open", "claimed" or "sold"
  held       \* held[o]: the lines order o has taken off the shelf

-----------------------------------------------------------------------------
Init ==
  /\ state = [o \in Orders |-> "open"]
  /\ held = [o \in Orders |-> {}]

Reserve(o) ==
  /\ state[o] = "open"
  /\ state' = [state EXCEPT ![o] = "claimed"]
  /\ UNCHANGED held

Take(o, i) ==
  /\ state[o] = "claimed"
  /\ i \in (1 .. Size[o]) \ held[o]
  /\ held' = [held EXCEPT ![o] = @ \union {i}]
  /\ UNCHANGED state

Return(o, i) ==
  /\ state[o] = "claimed"
  /\ i \in held[o]
  /\ held' = [held EXCEPT ![o] = @ \ {i}]
  /\ UNCHANGED state

Reopen(o) ==
  /\ state[o] = "claimed"
  /\ held[o] = {}
  /\ state' = [state EXCEPT ![o] = "open"]
  /\ UNCHANGED held

Sell(o) ==
  /\ state[o] = "claimed"
  /\ held[o] = 1 .. Size[o]
  /\ state' = [state EXCEPT ![o] = "sold"]
  /\ UNCHANGED held

Next ==
  \E o \in Orders :
    \/ Reserve(o)
    \/ \E i \in 1 .. Size[o] : Take(o, i) \/ Return(o, i)
    \/ Reopen(o)
    \/ Sell(o)

Spec == Init /\ [][Next]_<<state, held>>
=============================================================================

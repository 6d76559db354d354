--------------------------- MODULE OrderLifecycle ---------------------------
(***************************************************************************)
(* What the order management system promises of its orders, whatever the   *)
(* venue, the clock and the strategy do: an order is tracked at most once, *)
(* is filled only while it works and never beyond its quantity, closes at  *)
(* the moment it is full, and once closed never changes.                   *)
(***************************************************************************)
EXTENDS Integers

CONSTANT Ids

VARIABLES
  phase,      \* "absent", "working" or "closed", per order
  quantity,
  filled

vars == <<phase, quantity, filled>>

Init ==
  /\ phase = [c \in Ids |-> "absent"]
  /\ quantity = [c \in Ids |-> 0]
  /\ filled = [c \in Ids |-> 0]

\* The order is taken for routing, or denied on the spot.
Track(c) ==
  /\ phase[c] = "absent"
  /\ \E p \in {"working", "closed"} : phase' = [phase EXCEPT ![c] = p]
  /\ quantity'[c] \in Nat \ {0}
  /\ quantity' = [quantity EXCEPT ![c] = quantity'[c]]
  /\ UNCHANGED filled

Fill(c) ==
  /\ phase[c] = "working"
  /\ \E f \in (filled[c] + 1)..quantity[c] :
       /\ filled' = [filled EXCEPT ![c] = f]
       /\ phase' = [phase EXCEPT ![c] = IF f = quantity[c] THEN "closed"
                                        ELSE "working"]
  /\ UNCHANGED quantity

\* Cancelled, rejected or expired with something left.
Close(c) ==
  /\ phase[c] = "working"
  /\ filled[c] < quantity[c]
  /\ phase' = [phase EXCEPT ![c] = "closed"]
  /\ UNCHANGED <<quantity, filled>>

Next == \E c \in Ids : Track(c) \/ Fill(c) \/ Close(c)

Spec == Init /\ [][Next]_vars
=============================================================================

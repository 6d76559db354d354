------------------------------ MODULE OrderFsm ------------------------------
(***************************************************************************)
(* The event-sourced order of coinext-model/src/order.rs: its statuses,    *)
(* the transition table of Order::apply and the effect of each event.      *)
(*                                                                         *)
(* An order is a record; an event is a record with an "event" field.  The  *)
(* event log, the venue order id and the timestamps are left out: no       *)
(* guard of the table reads them.                                          *)
(***************************************************************************)
EXTENDS Integers

\* OrderStatus::is_terminal
TerminalStatus == {"Denied", "Rejected", "Canceled", "Expired", "Filled"}

OpenStatus == {"Initialized", "Submitted", "Accepted", "PartiallyFilled",
               "PendingUpdate", "PendingCancel"}

OrderStatus == OpenStatus \cup TerminalStatus

\* Variant: an order takes one fill only.
FillableOnce == {"Accepted", "PendingUpdate"}

\* The fill guard of the table: the statuses a fill may be applied from.
Fillable == {"Accepted", "PartiallyFilled", "PendingUpdate"}

\* The first argument of Order::ensure in each arm of Order::apply.
Allowed(event) ==
  CASE event \in {"Submitted", "Denied"} -> {"Initialized"}
    [] event = "Accepted"      -> {"Submitted"}
    [] event = "PendingUpdate" -> {"Accepted", "PartiallyFilled"}
    [] event = "Updated"       -> {"PendingUpdate"}
    [] event = "PendingCancel" -> {"Accepted", "PartiallyFilled", "PendingUpdate"}
    [] event = "Fill"          -> Fillable
    [] event = "Rejected"      -> {"Submitted", "PendingUpdate"}
    [] event = "Canceled"      -> {"Accepted", "PartiallyFilled", "PendingCancel"}
    [] event = "Expired"       -> {"Accepted", "PartiallyFilled"}
    [] OTHER                   -> {}

Monus(a, b) == IF a >= b THEN a - b ELSE 0

\* Order::leaves_qty: the subtraction saturates at zero.
LeavesQty(o) == Monus(o.quantity, o.filled)

IsTerminal(o) == o.status \in TerminalStatus

\* Order::apply succeeds.
CanApply(o, event) == o.status \in Allowed(event)

\* Variant: the last fill replaces the cumulated quantity.
ApplyFillLastOnly(o, qty) ==
  [o EXCEPT !.filled = qty,
            !.status = IF Monus(o.quantity, qty) = 0 THEN "Filled"
                       ELSE "PartiallyFilled"]

\* Order::apply_fill and the status it leads to.
ApplyFill(o, qty) ==
  LET filled == o.filled + qty
  IN  [o EXCEPT !.filled = filled,
                !.status = IF Monus(o.quantity, filled) = 0 THEN "Filled"
                           ELSE "PartiallyFilled"]

\* The Updated event: an absent quantity is the current one.
ApplyUpdate(o, quantity) ==
  [o EXCEPT !.quantity = quantity,
            !.status = IF o.filled > 0 THEN "PartiallyFilled" ELSE "Accepted"]

\* Order::apply for every event that carries no quantity: the event names the
\* status it leads to.
ApplyStatus(o, event) == [o EXCEPT !.status = event]
=============================================================================

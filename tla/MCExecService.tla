--------------------------- MODULE MCExecService ---------------------------
(***************************************************************************)
(* The execution service with two minted ids and one order placed by hand. *)
(***************************************************************************)
EXTENDS ExecService

CONSTANTS hand

MCOrders == {1, 2, hand}
MCStrategies == {"strategy", "venue", "reconcile"}

MCCommands ==
  {[field |-> "e", type |-> 7, kind |-> "submit", id |-> None],
   [field |-> "data", type |-> 7, kind |-> "cancel", id |-> 1],
   [field |-> "e", type |-> 7, kind |-> "other", id |-> None]}

MCControlMessages ==
  {[field |-> "e", type |-> 8, kind |-> "CtrlKillSwitch", engaged |-> FALSE],
   [field |-> "e", type |-> 8, kind |-> "other", engaged |-> TRUE]}

MCControlRequests ==
  {[line |-> "POST /killswitch", disengage |-> FALSE],
   [line |-> "other", disengage |-> FALSE]}
=============================================================================

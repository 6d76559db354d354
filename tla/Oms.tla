-------------------------------- MODULE Oms ---------------------------------
(***************************************************************************)
(* The order management half of ExecutionEngine (coinext-exec-engine):     *)
(* the cached orders and positions and the fold of an execution report     *)
(* into them.  Backtest and live kernels share it.                         *)
(*                                                                         *)
(* A position is its signed quantity; average price and PnL are left out.  *)
(* A quantity is its amount; the precision it is represented at matters    *)
(* only where a fill comes from another program (RefuseFill): the          *)
(* simulator fills in the precision of the order.                          *)
(* The ledgers keyed by (instrument, session day) are sets of records.     *)
(***************************************************************************)
EXTENDS OrderFsm, RiskGate

CONSTANTS
  AShares,       \* the SSE / SZSE equities among the instruments
  DayLength,     \* 86 400 s
  ShanghaiShift  \* 8 h

ASSUME SessionDayAssumption ==
  /\ AShares \subseteq Instruments
  /\ DayLength \in Nat \ {0}
  /\ ShanghaiShift \in Nat

\* A cached order.
TrackedType ==
  [inst : Instruments, side : Sides, quantity : Nat \ {0}, filled : Nat,
   status : OrderStatus]

ASSUME OrderAssumption == None \notin TrackedType

VARIABLES
  orders,          \* Cache::orders
  positions,       \* Cache::positions
  seen_trade_ids,  \* ExecutionEngine::seen_trade_ids
  bought_today     \* ExecutionEngine::bought_today, one record per fill

omsVars == <<orders, positions, seen_trade_ids, bought_today>>

OmsInit ==
  /\ orders = [c \in Coids |-> None]
  /\ positions = [i \in Instruments |-> 0]
  /\ seen_trade_ids = {}
  /\ bought_today = {}

\* day_key_for_inst
DayKey(inst, t) ==
  IF inst \in AShares THEN (t + ShanghaiShift) \div DayLength
  ELSE t \div DayLength

\* The event a report becomes.
EventOf(rep) == IF rep.kind = "Modified" THEN "Updated" ELSE rep.kind

\* Variant: a trade id seen before is folded again.
AppliesRepeated(rep) ==
  /\ orders[rep.coid] # None
  /\ CanApply(orders[rep.coid], EventOf(rep))

\* The report changes its order: apply_report returns an event.  A trade id
\* seen before is dropped whatever became of the first.
Applies(rep) ==
  /\ orders[rep.coid] # None
  /\ rep.kind = "Fill" => rep.trade_id \notin seen_trade_ids
  /\ CanApply(orders[rep.coid], EventOf(rep))

Folded(o, rep) ==
  CASE rep.kind = "Fill" -> ApplyFill(o, rep.qty)
    [] rep.kind = "Modified" ->
         ApplyUpdate(o, IF rep.quantity = None THEN o.quantity ELSE rep.quantity)
    [] OTHER -> ApplyStatus(o, rep.kind)

\* Variant: the position moves whether or not the order took the fill.
ApplyReportUnguarded(rep) ==
  /\ seen_trade_ids' = IF rep.kind = "Fill"
                       THEN seen_trade_ids \cup {rep.trade_id}
                       ELSE seen_trade_ids
  /\ orders' = IF Applies(rep)
               THEN [orders EXCEPT ![rep.coid] = Folded(@, rep)]
               ELSE orders
  /\ positions' = IF rep.kind = "Fill"
                  THEN [positions EXCEPT ![rep.inst] = @ + Sign(rep.side) * rep.qty]
                  ELSE positions
  /\ UNCHANGED bought_today

\* apply_report: the trade id is recorded first; the position moves, and the
\* T+1 ledger with it, only if the order accepted the fill.
ApplyReport(rep) ==
  /\ seen_trade_ids' = IF rep.kind = "Fill"
                       THEN seen_trade_ids \cup {rep.trade_id}
                       ELSE seen_trade_ids
  /\ orders' = IF Applies(rep)
               THEN [orders EXCEPT ![rep.coid] = Folded(@, rep)]
               ELSE orders
  /\ positions' = IF Applies(rep) /\ rep.kind = "Fill"
                  THEN [positions EXCEPT ![rep.inst] = @ + Sign(rep.side) * rep.qty]
                  ELSE positions
  /\ bought_today' = IF /\ Applies(rep)
                        /\ rep.kind = "Fill"
                        /\ rep.side = "Buy"
                        /\ rep.inst \in AShares
                     THEN bought_today \cup
                            {[inst |-> rep.inst, day |-> DayKey(rep.inst, rep.due),
                              trade_id |-> rep.trade_id, qty |-> rep.qty]}
                     ELSE bought_today

\* apply_report of a fill whose quantity has another precision than its order:
\* apply_fill errs, so neither order nor position changes and no event is
\* raised, but the trade id has been recorded.
RefuseFill(rep) ==
  /\ seen_trade_ids' = seen_trade_ids \cup {rep.trade_id}
  /\ UNCHANGED <<orders, positions, bought_today>>

\* sellable_qty: the long position less what this session day bought.
SellableQty(inst, t) ==
  LET bought == {b \in bought_today : b.inst = inst /\ b.day = DayKey(inst, t)}
  IN  Monus(IF positions[inst] > 0 THEN positions[inst] ELSE 0,
            MapThenSumSet(LAMBDA b : b.qty, bought))

----------------------------------------------------------------------------
\* Commands

\* The cached order of a new ticket.
Tracked(o, status) ==
  [inst |-> o.inst, side |-> o.side, quantity |-> o.quantity, filled |-> 0,
   status |-> status]

\* Variant: no idempotency check.
SubmitAppliesAgain(o) == o.coid \in Coids

\* A re-submit of a tracked id does nothing and raises no event.
SubmitApplies(o) == orders[o.coid] = None

\* The order takes PendingCancel: cancel returns an event.
CancelApplies(c) == orders[c] # None /\ CanApply(orders[c], "PendingCancel")

----------------------------------------------------------------------------
PhaseOf(c) ==
  IF orders[c] = None THEN "absent"
  ELSE IF IsTerminal(orders[c]) THEN "closed" ELSE "working"

Lifecycle == INSTANCE OrderLifecycle WITH
  Ids <- Coids,
  phase <- [c \in Coids |-> PhaseOf(c)],
  quantity <- [c \in Coids |-> IF orders[c] = None THEN 0 ELSE orders[c].quantity],
  filled <- [c \in Coids |-> IF orders[c] = None THEN 0 ELSE orders[c].filled]

\* The cached orders implement the abstract life of orders: never tracked
\* twice, never overfilled, closed exactly when full, and frozen once closed.
OrdersLiveOnce == Lifecycle!Spec
=============================================================================

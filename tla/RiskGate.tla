------------------------------ MODULE RiskGate ------------------------------
(***************************************************************************)
(* The pre-trade gate RiskGate::check (coinext-risk-engine/src/lib.rs).    *)
(* Positions are signed lots, marks are ticks, multipliers are one.  The   *)
(* verdict of the initial-margin test depends on account equity, which is  *)
(* abstracted: when the test applies, "funded" stands for its outcome.     *)
(***************************************************************************)
EXTENDS Domain, FiniteSetsExt

CONSTANTS
  MinNotional,        \* Instrument::min_notional, or None
  MaxOrderNotional,   \* RiskLimits::max_order_notional, or None
  MaxPositionQty,     \* RiskLimits::max_position_qty, or None
  MaxGrossExposure,   \* RiskLimits::max_gross_exposure, or None
  Leveraged           \* RiskLimits::leverage is set

ASSUME RiskAssumption == Leveraged \in BOOLEAN

Sign(side) == IF side = "Buy" THEN 1 ELSE -1

Magnitude(x) == IF x >= 0 THEN x ELSE -x

\* Portfolio::gross_exposure: positions without a mark are skipped.
GrossExposure(positions, mark) ==
  MapThenSumSet(LAMBDA i : Magnitude(positions[i]) * mark[i],
                {i \in DOMAIN positions : mark[i] # None})

\* The reference price: the limit price, else the mark.
RefPrice(order, mark) ==
  IF order.price # None THEN order.price ELSE mark[order.inst]

NotionalOk(order, mark) ==
  LET px == RefPrice(order, mark) IN
  \/ px = None
  \/ /\ MinNotional = None \/ px * order.quantity >= MinNotional
     /\ MaxOrderNotional = None \/ px * order.quantity <= MaxOrderNotional

Prospective(order, positions) ==
  Magnitude(positions[order.inst] + Sign(order.side) * order.quantity)

PositionOk(order, positions) ==
  MaxPositionQty = None \/ Prospective(order, positions) <= MaxPositionQty

\* The gate reads the exposure held before the order.
ExposureOk(positions, mark) ==
  MaxGrossExposure = None \/ GrossExposure(positions, mark) <= MaxGrossExposure

\* Only an order that adds exposure, and has a reference price, needs margin.
MarginOk(order, positions, mark, funded) ==
  \/ ~Leveraged
  \/ RefPrice(order, mark) = None
  \/ Prospective(order, positions) <= Magnitude(positions[order.inst])
  \/ funded

\* RiskGate::check: RiskDecision::Approved
Approved(order, positions, mark, killed, funded) ==
  /\ ~killed
  /\ NotionalOk(order, mark)
  /\ PositionOk(order, positions)
  /\ ExposureOk(positions, mark)
  /\ MarginOk(order, positions, mark, funded)
=============================================================================

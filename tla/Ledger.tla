------------------------------- MODULE Ledger -------------------------------
(***************************************************************************)
(* Position (coinext-model/src/position.rs), the equity PortfolioState     *)
(* (coinext-portfolio) computes from the positions, and the snapshot the   *)
(* kernels export (coinext-kernel/src/types.rs), for linear instruments    *)
(* that settle in the currency of the account.  Prices are counted in      *)
(* ticks and quantities in lots, so an amount of money is a whole number.  *)
(* The side of a position is the sign of its quantity.  Fees, which        *)
(* apply_fill subtracts from the realized profit, are left out.            *)
(***************************************************************************)
EXTENDS Brokerage, Domain, Functions

CONSTANT
  Multiplier  \* Instrument::multiplier

ASSUME LedgerAssumption == Multiplier \in Nat \ {0}

\* OrderSide::sign times the quantity of a fill.
SignedQty(f) == IF f.side = "Buy" THEN f.qty ELSE 0 - f.qty

Size(qty) == IF qty < 0 THEN 0 - qty ELSE qty

\* Position::flat
Flat == [qty |-> 0, avg |-> 0, realized |-> 0]

\* pnl_per_qty; an entry of zero yields nothing.
PnlPerQty(entry, exit) == IF entry = 0 THEN 0 ELSE Multiplier * (exit - entry)

SameSide(a, b) == (a > 0 /\ b > 0) \/ (a < 0 /\ b < 0)

\* apply_fill: the average entry.  It is rounded to the tick.
NewAvg(pos, f) ==
  CASE pos.qty = 0 -> f.px
    [] SameSide(pos.qty, SignedQty(f)) ->
         RoundHalfEven(pos.avg * Size(pos.qty) + f.px * f.qty, Size(pos.qty) + f.qty)
    [] pos.qty # 0 /\ ~SameSide(pos.qty, SignedQty(f)) ->
         IF f.qty > Size(pos.qty) THEN f.px ELSE pos.avg

\* apply_fill: the profit on the part of the position that the fill closes.
Realized(pos, f) ==
  IF pos.qty = 0 \/ SameSide(pos.qty, SignedQty(f)) THEN 0
  ELSE (IF pos.qty > 0 THEN 1 ELSE 0 - 1) * Lo(Size(pos.qty), f.qty) * PnlPerQty(pos.avg, f.px)

\* Variant: a fill through zero keeps the old average.
ApplyFillToKeepsAverage(pos, f) ==
  LET qty == pos.qty + SignedQty(f) IN
  [qty      |-> qty,
   avg      |-> IF pos.qty # 0 /\ ~SameSide(pos.qty, SignedQty(f)) THEN pos.avg ELSE NewAvg(pos, f),
   realized |-> pos.realized + Realized(pos, f)]

\* Position::apply_fill
ApplyFillTo(pos, f) ==
  LET qty == pos.qty + SignedQty(f) IN
  [qty      |-> qty,
   avg      |-> IF qty = 0 THEN 0 ELSE NewAvg(pos, f),
   realized |-> pos.realized + Realized(pos, f)]

\* Position::unrealized_pnl
UnrealizedPnl(pos, mark) == pos.qty * PnlPerQty(pos.avg, mark)

\* Position::notional
Notional(pos, mark) == Size(pos.qty) * mark * Multiplier

\* The instruments whose position has a value.
Marked(mark) == {i \in Instruments : mark[i] # None}

\* PortfolioState::equity; without a mark a position counts as realized only.
Equity(balance, pos, mark) ==
  balance + SumFunction([i \in Instruments |-> pos[i].realized])
          + SumFunction([i \in Marked(mark) |-> UnrealizedPnl(pos[i], mark[i])])

\* snapshot_portfolio
SnapshotPortfolio(balance, pos, mark) ==
  LET gross      == [i \in Marked(mark) |-> Notional(pos[i], mark[i])]
      net        == [i \in Marked(mark) |-> (IF pos[i].qty < 0 THEN 0 - 1 ELSE 1) * gross[i]]
      realized   == SumFunction([i \in Instruments |-> pos[i].realized])
      unrealized == SumFunction([i \in Marked(mark) |-> UnrealizedPnl(pos[i], mark[i])])
  IN  [cash_balance   |-> balance,
       realized_pnl   |-> realized,
       unrealized_pnl |-> unrealized,
       equity         |-> balance + realized + unrealized,
       gross_exposure |-> SumFunction(gross),
       net_exposure   |-> SumFunction(net)]
=============================================================================

----------------------------- MODULE MCAShares ------------------------------
(***************************************************************************)
(* The backtest kernel on one A share over two session days.               *)
(***************************************************************************)
EXTENDS BacktestKernel, TLC

CONSTANTS c1, c2, c3, c4, sse

MCCoids == {c1, c2, c3, c4}
Symmetry == Permutations(MCCoids)
MCInstruments == {sse}
MCNoExpiry == [i \in {sse} |-> None]
MCBoard == [i \in {sse} |-> "Main"]

Market(side) ==
  [inst |-> sse, side |-> side, type |-> "Market", price |-> None,
   stop |-> None, quantity |-> 1]

MCTickets == {Market("Buy"), Market("Sell")}

MCMarketEvents == {[kind |-> "Trade", inst |-> sse, price |-> 10]}

MCTimerDelays == {0}
=============================================================================

----------------------------- MODULE MCBacktest -----------------------------
(***************************************************************************)
(* The backtest kernel on one instrument: two orders that may cross, be    *)
(* filled in parts, and be cancelled at any handler call.                  *)
(***************************************************************************)
EXTENDS BacktestKernel, TLC

CONSTANTS c1, c2, btc

MCCoids == {c1, c2}
Symmetry == Permutations(MCCoids)
MCInstruments == {btc}
MCNoExpiry == [i \in {btc} |-> None]
MCNoBoard == [i \in {} |-> "Main"]

Ticket(side, type, price, stop, quantity) ==
  [inst |-> btc, side |-> side, type |-> type, price |-> price, stop |-> stop,
   quantity |-> quantity]

MCTickets ==
  {Ticket("Buy", "Market", None, None, 3), Ticket("Sell", "Limit", 10, None, 2)}

Bar(open_, low, high, close, volume) ==
  [kind |-> "Bar", inst |-> btc, open |-> open_, low |-> low, high |-> high,
   close |-> close, volume |-> volume]

MCMarketEvents ==
  {Bar(10, 9, 11, 10, 4), [kind |-> "Trade", inst |-> btc, price |-> 10]}

MCTimerDelays == {0}
=============================================================================

---------------------------- MODULE MCContracts -----------------------------
(***************************************************************************)
(* The backtest kernel on a coin and a dated option on it: expiry,         *)
(* liquidation, timers (one set in the past) and the pre-trade limits.     *)
(***************************************************************************)
EXTENDS BacktestKernel, TLC

CONSTANTS c1, c2, btc, opt

MCCoids == {c1, c2}
MCInstruments == {btc, opt}
MCExpiry == (btc :> None) @@ (opt :> 2)
MCUnderlying == (btc :> None) @@ (opt :> btc)
MCNoBoard == [i \in {} |-> "Main"]

Market(inst, side, quantity) ==
  [inst |-> inst, side |-> side, type |-> "Market", price |-> None,
   stop |-> None, quantity |-> quantity]

MCTickets == {Market(opt, "Buy", 2), Market(btc, "Sell", 1)}

Trade(inst, price) == [kind |-> "Trade", inst |-> inst, price |-> price]

MCMarketEvents == {Trade(btc, 10), Trade(opt, 2)}

MCTimerDelays == {-1}
=============================================================================

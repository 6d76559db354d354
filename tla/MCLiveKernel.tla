---------------------------- MODULE MCLiveKernel ----------------------------
(***************************************************************************)
(* The live kernel and one order, with the paper client and with a         *)
(* venue that fills in parts, loses reports and repeats executions.  The   *)
(* sizes of btc have the precision of the wire, those of eth have not.     *)
(***************************************************************************)
EXTENDS LiveKernel

CONSTANTS btc, eth, unlisted

MCCoids == 1..2
MCNativeCoids == {1}
MCInstruments == {btc, eth}

\* The venue's fills of one instrument have its precision, those of the other
\* have not.
MCSizePrecision == [i \in MCInstruments |-> IF i = btc THEN 8 ELSE 4]

\* What a handler queues does not depend on the client.
MCSetups == {<<"native", "paper">>, <<"native", "venue">>, <<"python", "paper">>}

Ticket ==
  [inst |-> btc, side |-> "Buy", type |-> "Market", price |-> None,
   stop |-> None, quantity |-> 2]

\* Two the venue adapter can send, and one it cannot.
MCTickets ==
  {Ticket,
   [Ticket EXCEPT !.inst = eth, !.quantity = 1],
   [Ticket EXCEPT !.type = "TrailingStopMarket", !.stop = 3]}

\* One that is queued, and three that are refused.
MCPyTickets ==
  {Ticket,
   [Ticket EXCEPT !.inst = unlisted],
   [Ticket EXCEPT !.type = "Limit", !.price = 0 - 1],
   [Ticket EXCEPT !.type = "TrailingStopMarket", !.stop = 0]}

MCMarketEvents == {[kind |-> "Trade", inst |-> btc, price |-> 10]}
=============================================================================

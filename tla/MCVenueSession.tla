--------------------------- MODULE MCVenueSession ---------------------------
(***************************************************************************)
(* One instrument, two orders out of one ticket of every type and side,    *)
(* and events on both sides of every price the tickets name.               *)
(***************************************************************************)
EXTENDS VenueSession, TLC

CONSTANTS c1, c2, btc

MCCoids == {c1, c2}
Symmetry == Permutations(MCCoids)
MCInstruments == {btc}

Ticket(side, type, price, stop, quantity) ==
  [inst |-> btc, side |-> side, type |-> type, price |-> price, stop |-> stop,
   quantity |-> quantity]

MCTickets ==
  {Ticket("Buy", "Market", None, None, 3),
   Ticket("Buy", "Limit", 10, None, 3),
   Ticket("Sell", "Limit", 11, None, 2),
   Ticket("Buy", "StopMarket", None, 12, 2),
   Ticket("Sell", "StopLimit", 8, 9, 2),
   Ticket("Sell", "TrailingStopMarket", None, 2, 2),
   Ticket("Buy", "TrailingStopMarket", None, 1, 1)}

Bar(open, low, high, close, volume) ==
  [kind |-> "Bar", inst |-> btc, open |-> open, low |-> low, high |-> high,
   close |-> close, volume |-> volume]

MCMarketEvents ==
  {Bar(10, 9, 12, 11, 4), Bar(11, 10, 11, 10, 2), Bar(8, 7, 9, 8, 4),
   [kind |-> "Trade", inst |-> btc, price |-> 11],
   [kind |-> "Quote", inst |-> btc, bid |-> 9, ask |-> 12],
   [kind |-> "Delta", inst |-> btc]}
=============================================================================

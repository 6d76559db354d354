---------------------------- MODULE MarketCache -----------------------------
(***************************************************************************)
(* What both kernels hold of the market: DataEngine::process folds market  *)
(* events into the Cache's marks and quotes, and StrategyContext turns a   *)
(* strategy's ticket into an order against them.                           *)
(***************************************************************************)
EXTENDS Domain

VARIABLES
  mark,        \* Cache::mark, or None
  quote        \* Cache::quote: [bid, ask], or None

cacheVars == <<mark, quote>>

CacheInit ==
  /\ mark = [i \in Instruments |-> None]
  /\ quote = [i \in Instruments |-> None]

----------------------------------------------------------------------------
\* Types

MaybePrice == Int \cup {None}

OrderTypes ==
  {"Market", "Limit", "StopMarket", "StopLimit", "TrailingStopMarket"}

\* A ticket is what a strategy asks for.  The methods of OrderFactory take a
\* price for limits and stop-limits only, and a stop for stops only: the
\* trigger, or the distance that a trailing stop keeps.
TicketType ==
  {t \in [inst : Instruments, side : Sides, type : OrderTypes,
          price : MaybePrice, stop : MaybePrice, quantity : Nat \ {0}] :
     /\ t.price # None <=> t.type \in {"Limit", "StopLimit"}
     /\ t.stop # None <=> t.type \in {"StopMarket", "StopLimit", "TrailingStopMarket"}}

EventType ==
  [kind : {"Bar"}, inst : Instruments, open : Int, low : Int, high : Int,
   close : Int, volume : Nat]
    \cup [kind : {"Trade"}, inst : Instruments, price : Int]
    \cup [kind : {"Quote"}, inst : Instruments, bid : Int, ask : Int]
    \cup [kind : {"Delta"}, inst : Instruments]

OrderType ==
  [coid : Coids, inst : Instruments, side : Sides, type : OrderTypes,
   price : MaybePrice, quantity : Nat \ {0}, trigger : MaybePrice]

----------------------------------------------------------------------------
\* Market data

\* The prices of an event: a trade is its own range, a quote spans bid to ask
\* and opens and closes at the mid; only a bar carries volume.
View(ev) ==
  CASE ev.kind = "Bar" ->
         [open |-> ev.open, low |-> ev.low, high |-> ev.high,
          close |-> ev.close, volume |-> ev.volume]
    [] ev.kind = "Trade" ->
         [open |-> ev.price, low |-> ev.price, high |-> ev.price,
          close |-> ev.price, volume |-> None]
    [] ev.kind = "Quote" ->
         LET mid == (ev.bid + ev.ask) \div 2
         IN  [open |-> mid, low |-> ev.bid, high |-> ev.ask,
              close |-> mid, volume |-> None]

\* DataEngine::process: fold the event into the cache.  A depth delta touches
\* the order book only.
DataProcess(ev) ==
  /\ mark' = IF ev.kind = "Delta" THEN mark
             ELSE [mark EXCEPT ![ev.inst] = View(ev).close]
  /\ quote' = IF ev.kind = "Quote"
              THEN [quote EXCEPT ![ev.inst] = [bid |-> ev.bid, ask |-> ev.ask]]
              ELSE quote

----------------------------------------------------------------------------
\* Orders

\* StrategyContext::submit_*: an order from its ticket [inst, side, type, price,
\* stop, quantity].  The stop of a trailing order is a distance from the mark,
\* and is itself the trigger while there is no mark.
NewOrder(c, t) ==
  LET m == mark[t.inst] IN
  [coid |-> c, inst |-> t.inst, side |-> t.side, type |-> t.type,
   price |-> t.price, quantity |-> t.quantity,
   trigger |-> IF t.type # "TrailingStopMarket" \/ m = None THEN t.stop
               ELSE IF t.side = "Sell" THEN m - t.stop ELSE m + t.stop]
=============================================================================

------------------------------ MODULE SimVenue ------------------------------
(***************************************************************************)
(* SimulatedExecutionClient (coinext-sim/src/lib.rs): the simulated venue, *)
(* its resting orders and the delayed queue through which every execution  *)
(* report reaches the order management system.                             *)
(*                                                                         *)
(* The BinaryHeap of Scheduled reports is a set ordered by (due, seq); the *)
(* Vec of resting orders is a set ordered by venue_order_id, which is      *)
(* allocated in the order of the pushes.  A fill report also carries       *)
(* "cum", the quantity the venue has filled of the order up to and         *)
(* including this fill: an auxiliary field no action reads.                *)
(***************************************************************************)
EXTENDS MarketCache, Brokerage, OrderFsm, FiniteSets

VARIABLES
  now,         \* HistoricalClock::now
  queue,       \* DelayedEventQueue::heap
  queue_seq,   \* DelayedEventQueue::seq
  resting,     \* SimState::resting
  venue_seq,   \* SimState::venue_seq
  trade_seq    \* SimState::trade_seq

venueVars == <<queue, queue_seq, resting, venue_seq, trade_seq>>

VenueInit ==
  /\ now = 0
  /\ CacheInit
  /\ queue = {}
  /\ queue_seq = 0
  /\ resting = {}
  /\ venue_seq = 0
  /\ trade_seq = 0

\* Scheduled::cmp: earliest due first, ties broken by insertion.
Before(a, b) == a.due < b.due \/ (a.due = b.due /\ a.seq < b.seq)

----------------------------------------------------------------------------
\* Types

RestingType ==
  [venue_order_id : Nat, coid : Coids, inst : Instruments, side : Sides,
   type : OrderTypes, price : MaybePrice, trigger : MaybePrice,
   quantity : Nat \ {0}, remaining : Nat \ {0}, queue_ahead : Nat \cup {None},
   offset : MaybePrice, extreme : MaybePrice, pending_open : BOOLEAN]

FillType ==
  [due : Nat, seq : Nat, kind : {"Fill"}, coid : Coids, inst : Instruments,
   side : Sides, qty : Nat \ {0}, px : Int, trade_id : Nat, cum : Nat]

StatusReportType ==
  [due : Nat, seq : Nat, kind : {"Accepted", "Canceled"}, coid : Coids]

ReportType == FillType \cup StatusReportType

----------------------------------------------------------------------------
\* Orders entering and leaving the venue

\* reference_price: the quote's side, however old it is, before the mark.
ReferencePrice(inst, side) ==
  IF quote[inst] # None
  THEN IF side = "Buy" THEN quote[inst].ask ELSE quote[inst].bid
  ELSE mark[inst]

Crosses(side, px, limit) == IF side = "Buy" THEN px <= limit ELSE px >= limit

Marketable(o) ==
  \/ o.type = "Market"
  \/ /\ o.type = "Limit"
     /\ o.price # None
     /\ ReferencePrice(o.inst, o.side) # None
     /\ Crosses(o.side, ReferencePrice(o.inst, o.side), o.price)

\* The trailing distance, positive or the stop rests inert.
TrailOffset(o) ==
  IF o.type # "TrailingStopMarket" \/ mark[o.inst] = None \/ o.trigger = None
  THEN None
  ELSE LET d == IF o.side = "Sell" THEN mark[o.inst] - o.trigger
                                   ELSE o.trigger - mark[o.inst]
       IN  IF d > 0 THEN d ELSE None

Resting(o) ==
  [venue_order_id |-> venue_seq + 1, coid |-> o.coid, inst |-> o.inst,
   side |-> o.side, type |-> o.type, price |-> o.price, trigger |-> o.trigger,
   quantity |-> o.quantity, remaining |-> o.quantity, queue_ahead |-> None,
   offset |-> TrailOffset(o), extreme |-> mark[o.inst],
   pending_open |-> Marketable(o)]

Report(due, seq, kind, coid) ==
  [due |-> due, seq |-> seq, kind |-> kind, coid |-> coid]

\* Variant: the acceptance is never scheduled.
OnSubmitUnacknowledged(o) ==
  /\ venue_seq' = venue_seq + 1
  /\ resting' = resting \cup {Resting(o)}
  /\ UNCHANGED <<queue, queue_seq, trade_seq>>

\* on_submit
OnSubmit(o) ==
  /\ venue_seq' = venue_seq + 1
  /\ queue_seq' = queue_seq + 1
  /\ queue' = queue \cup
       {Report(now + SubmitLatency, queue_seq + 1, "Accepted", o.coid)}
  /\ resting' = resting \cup {Resting(o)}
  /\ UNCHANGED trade_seq

\* Variant: the cancellation is due at once instead of after its latency.
OnCancelAtOnce(c) ==
  LET mine == {r \in resting : r.coid = c} IN
  IF mine = {} THEN UNCHANGED venueVars
  ELSE /\ resting' = resting \ mine
       /\ queue_seq' = queue_seq + 1
       /\ queue' = queue \cup {Report(now, queue_seq + 1, "Canceled", c)}
       /\ UNCHANGED <<venue_seq, trade_seq>>

\* Variant: the order is dropped and no report follows.
OnCancelSilently(c) ==
  /\ resting' = {r \in resting : r.coid # c}
  /\ UNCHANGED <<queue, queue_seq, venue_seq, trade_seq>>

\* on_cancel: only an order still resting is cancelled; for any other the call
\* does nothing and no report follows.
OnCancel(c) ==
  LET mine == {r \in resting : r.coid = c} IN
  IF mine = {} THEN UNCHANGED venueVars
  ELSE /\ resting' = resting \
            {CHOOSE r \in mine :
               \A x \in mine : r.venue_order_id <= x.venue_order_id}
       /\ queue_seq' = queue_seq + 1
       /\ queue' = queue \cup
            {Report(now + CancelLatency, queue_seq + 1, "Canceled", c)}
       /\ UNCHANGED <<venue_seq, trade_seq>>

----------------------------------------------------------------------------
\* Matching: what one event does to one resting order, as the record of the
\* filled quantity, its price, and the order as it rests afterwards.

\* Variant: "remaining" is not written back.
TakeUnbooked(r, qty, px) == [qty |-> qty, px |-> px, rest |-> r]

Take(r, qty, px) ==
  [qty |-> qty, px |-> px,
   rest |-> [r EXCEPT !.remaining = Monus(@, qty)]]

Leave(r) == [qty |-> 0, px |-> None, rest |-> r]

\* A bar caps the fill by participation; a tick fills everything left.
Budget(r, p) ==
  IF p.volume = None THEN r.remaining ELSE FillableQty(r.remaining, p.volume)

\* Variant: slippage is not capped at the limit.
MatchPendingOpenUncapped(r, p) ==
  LET cleared == [r EXCEPT !.pending_open = FALSE]
  IN  IF r.price = None \/ Crosses(r.side, p.open, r.price)
      THEN Take(cleared, Budget(r, p), FillPrice(r.side, p.open, p.low, p.high))
      ELSE Leave(cleared)

\* A marketable order is priced at the open of the first event after it was
\* submitted; a limit the open has gapped through goes back to resting.
MatchPendingOpen(r, p) ==
  LET cleared == [r EXCEPT !.pending_open = FALSE]
      raw == FillPrice(r.side, p.open, p.low, p.high)
      capped == IF r.price = None THEN raw
                ELSE IF r.side = "Buy" THEN Lo(raw, r.price) ELSE Hi(raw, r.price)
  IN  IF r.price = None \/ Crosses(r.side, p.open, r.price)
      THEN Take(cleared, Budget(r, p), capped)
      ELSE Leave(cleared)

Triggered(r, p) ==
  IF r.side = "Buy" THEN p.high >= r.trigger ELSE p.low <= r.trigger

\* Variant: the extreme follows the market both ways.
RatchetBothWays(r, p) ==
  LET extreme == IF r.side = "Sell" THEN p.high ELSE p.low
  IN  [r EXCEPT !.extreme = extreme,
                !.trigger = IF r.side = "Sell" THEN extreme - r.offset
                                               ELSE extreme + r.offset]

\* The trailing trigger follows the favourable extreme.
Ratchet(r, p) ==
  LET extreme == IF r.side = "Sell" THEN Hi(r.extreme, p.high)
                                    ELSE Lo(r.extreme, p.low)
  IN  [r EXCEPT !.extreme = extreme,
                !.trigger = IF r.side = "Sell" THEN extreme - r.offset
                                               ELSE extreme + r.offset]

MatchStop(r, p) ==
  CASE \/ r.trigger = None
       \/ r.type = "TrailingStopMarket" /\ r.offset = None -> Leave(r)
    [] OTHER ->
         IF Triggered(r, p)
         THEN IF r.type = "StopLimit" THEN Leave([r EXCEPT !.type = "Limit"])
              ELSE Take(r, Budget(r, p),
                        FillPrice(r.side,
                                  IF r.side = "Buy" THEN Hi(r.trigger, p.low)
                                                    ELSE Lo(r.trigger, p.high),
                                  p.low, p.high))
         ELSE IF r.type = "TrailingStopMarket" THEN Leave(Ratchet(r, p))
              ELSE Leave(r)

\* The rest of a market order takes the close, on bars only.
MatchRemainder(r, p) ==
  IF p.volume = None THEN Leave(r)
  ELSE Take(r, Budget(r, p), FillPrice(r.side, p.close, p.low, p.high))

\* A passive limit: a price through it sweeps the level; a touch first pays
\* the queue ahead out of the order's share of the volume.
MatchLimit(r, p) ==
  LET through == IF r.side = "Buy" THEN p.low < r.price ELSE p.high > r.price
      touch   == IF r.side = "Buy" THEN p.low = r.price ELSE p.high = r.price
      share   == Budget(r, p)
      ahead   == IF r.queue_ahead = None THEN InitialQueueAhead(p.volume)
                                         ELSE r.queue_ahead
      paid    == IF through THEN 0 ELSE Lo(share, ahead)
  IN  IF ~(through \/ touch) THEN Leave(r)
      ELSE IF p.volume = None THEN Take(r, share, r.price)
      ELSE Take([r EXCEPT !.queue_ahead = IF through THEN 0 ELSE ahead - paid],
                share - paid, r.price)

Match(r, p) ==
  IF r.pending_open THEN MatchPendingOpen(r, p)
  ELSE IF r.type \notin {"Market", "Limit"} THEN MatchStop(r, p)
  ELSE IF r.price = None THEN MatchRemainder(r, p)
  ELSE MatchLimit(r, p)

\* make_fill and its place in the queue: the k-th fill of this event.
FillReport(r, m, k) ==
  [due |-> now + SubmitLatency, seq |-> queue_seq + k, kind |-> "Fill",
   coid |-> r.coid, inst |-> r.inst, side |-> r.side, qty |-> m.qty,
   px |-> m.px, trade_id |-> trade_seq + k,
   cum |-> r.quantity - m.rest.remaining]

\* The resting orders of the event's instrument that it fills, and the place
\* of one of them among the fills of the event.
Hits(ev) ==
  {r \in resting : r.inst = ev.inst /\ Match(r, View(ev)).qty > 0}

Rank(r, hits) ==
  Cardinality({h \in hits : h.venue_order_id <= r.venue_order_id})

\* A resting order after the event.
Rested(r, ev) == IF r.inst = ev.inst THEN Match(r, View(ev)).rest ELSE r

\* Variant: an order left with nothing keeps resting.
OnMarketKeepsFilled(ev) ==
  IF ev.kind = "Delta" THEN UNCHANGED venueVars
  ELSE LET hits == Hits(ev) IN
       /\ queue' = queue \cup
            {FillReport(r, Match(r, View(ev)), Rank(r, hits)) : r \in hits}
       /\ queue_seq' = queue_seq + Cardinality(hits)
       /\ trade_seq' = trade_seq + Cardinality(hits)
       /\ resting' = {Rested(r, ev) : r \in resting}
       /\ UNCHANGED venue_seq

\* on_market: decide for every resting order of the instrument, then schedule
\* the fills in resting order and drop the orders left with nothing.
OnMarket(ev) ==
  IF ev.kind = "Delta" THEN UNCHANGED venueVars
  ELSE LET hits == Hits(ev) IN
       /\ queue' = queue \cup
            {FillReport(r, Match(r, View(ev)), Rank(r, hits)) : r \in hits}
       /\ queue_seq' = queue_seq + Cardinality(hits)
       /\ trade_seq' = trade_seq + Cardinality(hits)
       /\ resting' = {x \in {Rested(r, ev) : r \in resting} : x.remaining > 0}
       /\ UNCHANGED venue_seq

\* drain_due
DueBy(frontier) == {s \in queue : s.due <= frontier}
=============================================================================

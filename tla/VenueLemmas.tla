---------------------------- MODULE VenueLemmas -----------------------------
(***************************************************************************)
(* The simulated venue on its own: what the brokerage model returns, what  *)
(* an event fills of a resting order and, from that, what on_cancel and    *)
(* on_market do to the book and to the queue of reports.  The session of   *)
(* the venue and the backtest kernel both rest on these lemmas.            *)
(***************************************************************************)
EXTENDS SimVenue, FiniteSetTheorems, TLAPS

USE NoneAssumption

\* Banker's rounding of an integer ratio is an integer.
LEMMA RoundHalfEvenType ==
  ASSUME NEW n \in Int, NEW d \in Nat \ {0}
  PROVE  RoundHalfEven(n, d) \in Int
BY DEF RoundHalfEven

\* fill_price keeps prices integral.
LEMMA FillPriceType ==
  ASSUME NEW side, NEW ref \in Int, NEW low \in Int, NEW high \in Int
  PROVE  FillPrice(side, ref, low, high) \in Int
<1>1. PICK unit \in Nat \ {0} : unit = SlipDen * ImpactDen
  BY RateAssumption
<1>2. PICK impact \in Nat : impact = ImpactNum * SlipDen
  BY RateAssumption
<1>3. PICK u \in Int, d \in Int : /\ u = (SlipDen + SlipNum) * ImpactDen
                                  /\ d = (SlipDen - SlipNum) * ImpactDen
  BY RateAssumption
<1>4. PICK range \in Int : range = Hi(high - low, 0) * impact
  BY <1>2 DEF Hi
<1>5. PICK up \in Int, down \in Int : up = ref * u /\ down = ref * d
  BY <1>3
<1>6. PICK top \in Int, bottom \in Int : top = high * unit /\ bottom = low * unit
  BY <1>1
<1>7. /\ Hi(Lo(up + range, top), up) \in Int
      /\ Lo(Hi(down - range, bottom), down) \in Int
  BY <1>4, <1>5, <1>6 DEF Lo, Hi
<1>8. /\ RoundHalfEven(Hi(Lo(up + range, top), up), unit) \in Int
      /\ RoundHalfEven(Lo(Hi(down - range, bottom), down), unit) \in Int
  BY <1>1, <1>7, RoundHalfEvenType
<1> QED
  BY Zenon, <1>1, <1>2, <1>3, <1>4, <1>5, <1>6, <1>8 DEF FillPrice

\* "MUST return <= leaves (never over-fill)": the share of the volume is a
\* positive number of lots and at most what is left.
LEMMA FillableQtyBounds ==
  ASSUME NEW leaves \in Nat \ {0}, NEW volume \in Nat
  PROVE  FillableQty(leaves, volume) \in 1..leaves
<1>1. (PartNum * volume) \div PartDen \in Int
  BY RateAssumption
<1> QED
  BY <1>1 DEF FillableQty, Lo, Hi

\* initial_queue_ahead is a number of lots.
LEMMA InitialQueueAheadType ==
  ASSUME NEW volume \in Nat
  PROVE  InitialQueueAhead(volume) \in Nat
BY RateAssumption DEF InitialQueueAhead

PriceView ==
  [open : Int, low : Int, high : Int, close : Int, volume : Nat \cup {None}]

\* Every priced event has a view; only a bar has volume.
LEMMA ViewType ==
  ASSUME NEW ev \in EventType, ev.kind # "Delta"
  PROVE  View(ev) \in PriceView
<1>1. CASE ev.kind = "Bar"
  BY Zenon, <1>1 DEF EventType, View, PriceView
<1>2. CASE ev.kind = "Trade"
  BY Zenon, <1>2 DEF EventType, View, PriceView
<1>3. CASE ev.kind = "Quote"
  <2>1. ev.bid \in Int /\ ev.ask \in Int
    BY Zenon, <1>3 DEF EventType
  <2>2. (ev.bid + ev.ask) \div 2 \in Int
    BY <2>1
  <2> QED
    BY Zenon, <1>3, <2>1, <2>2 DEF View, PriceView
<1> QED
  BY Zenon, <1>1, <1>2, <1>3 DEF EventType

\* The result of matching one resting order against one event.
MatchOk(r, m) ==
  /\ m.qty \in Nat
  /\ m.qty <= r.remaining
  /\ m.qty > 0 => m.px \in Int
  /\ m.rest \in [venue_order_id : Nat, coid : Coids, inst : Instruments,
        side : Sides, type : OrderTypes, price : MaybePrice,
        trigger : MaybePrice, quantity : Nat \ {0}, remaining : Nat,
        queue_ahead : Nat \cup {None}, offset : MaybePrice,
        extreme : MaybePrice, pending_open : BOOLEAN]
  /\ m.rest.venue_order_id = r.venue_order_id
  /\ m.rest.coid = r.coid /\ m.rest.inst = r.inst /\ m.rest.side = r.side
  /\ m.rest.price = r.price
  /\ m.rest.quantity = r.quantity
  /\ m.rest.remaining = r.remaining - m.qty
  /\ m.rest.offset # None => m.rest.extreme # None

\* An order that is not hit keeps its place and its quantity.
LEMMA LeaveOk ==
  ASSUME NEW r \in RestingType, r.offset # None => r.extreme # None
  PROVE  MatchOk(r, Leave(r))
BY DEF MatchOk, Leave, RestingType

\* A fill takes from what is left, never more.
LEMMA TakeOk ==
  ASSUME NEW r \in RestingType, r.offset # None => r.extreme # None,
         NEW qty \in 0..r.remaining, NEW px \in Int
  PROVE  MatchOk(r, Take(r, qty, px))
<1>1. Monus(r.remaining, qty) = r.remaining - qty
  BY DEF Monus, RestingType
<1> QED
  BY <1>1 DEF MatchOk, Take, RestingType

\* The volume a bar grants an order is positive and at most what is left.
LEMMA BudgetBounds ==
  ASSUME NEW r \in RestingType, NEW p \in PriceView
  PROVE  Budget(r, p) \in 1..r.remaining
<1>1. r.remaining \in Nat \ {0}
  BY Zenon DEF RestingType
<1>2. p.volume = None \/ p.volume \in Nat
  BY Zenon DEF PriceView
<1>3. CASE p.volume = None
  BY <1>1, <1>3 DEF Budget
<1>4. CASE p.volume \in Nat
  <2>1. FillableQty(r.remaining, p.volume) \in 1..r.remaining
    BY Zenon, <1>1, <1>4, FillableQtyBounds
  <2> QED
    BY <1>4, <2>1 DEF Budget
<1> QED
  BY Zenon, <1>2, <1>3, <1>4

\* The fill of a marketable order at the next open obeys MatchOk.
LEMMA MatchPendingOpenOk ==
  ASSUME NEW r \in RestingType, r.offset # None => r.extreme # None,
         NEW p \in PriceView
  PROVE  MatchOk(r, MatchPendingOpen(r, p))
<1> DEFINE c == [r EXCEPT !.pending_open = FALSE]
<1>1. c \in RestingType /\ (c.offset # None => c.extreme # None)
      /\ c.venue_order_id = r.venue_order_id /\ c.coid = r.coid
      /\ c.quantity = r.quantity /\ c.remaining = r.remaining
      /\ c.inst = r.inst /\ c.side = r.side /\ c.price = r.price
  BY Zenon DEF RestingType
<1>2. \A m : MatchOk(c, m) => MatchOk(r, m)
  BY Zenon, <1>1 DEF MatchOk
<1>3. FillPrice(r.side, p.open, p.low, p.high) \in Int
  BY Zenon, FillPriceType DEF PriceView
<1>4. r.price = None \/ r.price \in Int
  BY Zenon DEF RestingType, MaybePrice
<1>5. Budget(r, p) \in 0..c.remaining
  BY <1>1, BudgetBounds DEF RestingType
<1> HIDE DEF c
<1>6. MatchOk(c, Leave(c))
  BY Zenon, <1>1, LeaveOk
<1>7. \A px \in Int : MatchOk(c, Take(c, Budget(r, p), px))
  BY Zenon, <1>1, <1>5, TakeOk
<1> QED
  BY Zenon, <1>2, <1>3, <1>4, <1>6, <1>7 DEF MatchPendingOpen, Lo, Hi, c

\* So does the fill of its remainder on later bars.
LEMMA MatchRemainderOk ==
  ASSUME NEW r \in RestingType, r.offset # None => r.extreme # None,
         NEW p \in PriceView
  PROVE  MatchOk(r, MatchRemainder(r, p))
<1>1. FillPrice(r.side, p.close, p.low, p.high) \in Int
  BY Zenon, FillPriceType DEF PriceView
<1>2. Budget(r, p) \in 0..r.remaining
  BY BudgetBounds DEF RestingType
<1> QED
  BY Zenon, <1>1, <1>2, LeaveOk, TakeOk DEF MatchRemainder

\* So does a passive limit order behind its queue.
LEMMA MatchLimitOk ==
  ASSUME NEW r \in RestingType, r.offset # None => r.extreme # None,
         NEW p \in PriceView, r.price # None
  PROVE  MatchOk(r, MatchLimit(r, p))
<1>1. r.price \in Int
  BY Zenon DEF RestingType, MaybePrice
<1>2. Budget(r, p) \in 1..r.remaining /\ r.remaining \in Nat
  BY Zenon, BudgetBounds DEF RestingType
<1>3. CASE p.volume = None
  BY <1>1, <1>2, <1>3, LeaveOk, TakeOk DEF MatchLimit
<1>4. CASE p.volume # None
  <2> DEFINE through == IF r.side = "Buy" THEN p.low < r.price ELSE p.high > r.price
             ahead == IF r.queue_ahead = None THEN InitialQueueAhead(p.volume)
                                              ELSE r.queue_ahead
             paid == IF through THEN 0 ELSE Lo(Budget(r, p), ahead)
             q == IF through THEN 0 ELSE ahead - paid
             s == [r EXCEPT !.queue_ahead = q]
  <2>1. ahead \in Nat
    <3>1. p.volume \in Nat
      BY Zenon, <1>4 DEF PriceView
    <3> QED
      BY Zenon, <3>1, InitialQueueAheadType DEF RestingType
  <2>2. paid \in 0..Budget(r, p) /\ q \in Nat
    BY <1>2, <2>1 DEF Lo
  <2> HIDE DEF q, paid
  <2>3. s \in RestingType /\ (s.offset # None => s.extreme # None)
        /\ s.venue_order_id = r.venue_order_id /\ s.coid = r.coid
        /\ s.quantity = r.quantity /\ s.remaining = r.remaining
        /\ s.inst = r.inst /\ s.side = r.side /\ s.price = r.price
    BY Zenon, <2>2 DEF RestingType
  <2> HIDE DEF s
  <2>4. \A m : MatchOk(s, m) => MatchOk(r, m)
    BY Zenon, <2>3 DEF MatchOk
  <2>5. Budget(r, p) - paid \in 0..s.remaining
    BY <1>2, <2>2, <2>3
  <2>6. MatchOk(r, Take(s, Budget(r, p) - paid, r.price))
    BY Zenon, <1>1, <2>3, <2>4, <2>5, TakeOk
  <2>7. MatchLimit(r, p) \in {Leave(r), Take(s, Budget(r, p) - paid, r.price)}
    BY Zenon, <1>4 DEF MatchLimit, s, q, paid
  <2> QED
    BY Zenon, <2>6, <2>7, LeaveOk
<1> QED
  BY Zenon, <1>3, <1>4

\* So does a stop, triggered or trailing.
LEMMA MatchStopOk ==
  ASSUME NEW r \in RestingType, r.offset # None => r.extreme # None,
         NEW p \in PriceView
  PROVE  MatchOk(r, MatchStop(r, p))
<1>1. Budget(r, p) \in 0..r.remaining
  BY BudgetBounds DEF RestingType
<1>2. CASE r.trigger = None \/ (r.type = "TrailingStopMarket" /\ r.offset = None)
  BY Zenon, <1>2, LeaveOk DEF MatchStop
<1>3. CASE ~(r.trigger = None \/ (r.type = "TrailingStopMarket" /\ r.offset = None))
  <2>1. r.trigger \in Int
    BY Zenon, <1>3 DEF RestingType, MaybePrice
  <2>2. CASE Triggered(r, p) /\ r.type = "StopLimit"
    <3> DEFINE s == [r EXCEPT !.type = "Limit"]
    <3>1. s \in RestingType /\ (s.offset # None => s.extreme # None)
          /\ s.venue_order_id = r.venue_order_id /\ s.coid = r.coid
          /\ s.quantity = r.quantity /\ s.remaining = r.remaining
          /\ s.inst = r.inst /\ s.side = r.side /\ s.price = r.price
      BY Zenon DEF RestingType, OrderTypes
    <3> HIDE DEF s
    <3>2. MatchOk(r, Leave(s))
      BY Zenon, <3>1, LeaveOk DEF MatchOk
    <3> QED
      BY Zenon, <1>3, <2>2, <3>2 DEF MatchStop, s
  <2>3. CASE Triggered(r, p) /\ r.type # "StopLimit"
    <3> DEFINE ref == IF r.side = "Buy" THEN Hi(r.trigger, p.low)
                                        ELSE Lo(r.trigger, p.high)
    <3>1. ref \in Int
      BY Zenon, <2>1 DEF Hi, Lo, PriceView
    <3> HIDE DEF ref
    <3>2. FillPrice(r.side, ref, p.low, p.high) \in Int
      BY Zenon, <3>1, FillPriceType DEF PriceView
    <3>3. MatchOk(r, Take(r, Budget(r, p), FillPrice(r.side, ref, p.low, p.high)))
      BY Zenon, <1>1, <3>2, TakeOk
    <3> QED
      BY Zenon, <1>3, <2>3, <3>3 DEF MatchStop, ref
  <2>4. CASE ~Triggered(r, p) /\ r.type = "TrailingStopMarket"
    <3> DEFINE s == Ratchet(r, p)
    <3>1. r.offset \in Int /\ r.extreme \in Int
      BY Zenon, <1>3, <2>4 DEF RestingType, MaybePrice
    <3>2. s \in RestingType /\ s.extreme # None
          /\ s.venue_order_id = r.venue_order_id /\ s.coid = r.coid
          /\ s.quantity = r.quantity /\ s.remaining = r.remaining
          /\ s.inst = r.inst /\ s.side = r.side /\ s.price = r.price
      <4> DEFINE e == IF r.side = "Sell" THEN Hi(r.extreme, p.high)
                                         ELSE Lo(r.extreme, p.low)
                 t == IF r.side = "Sell" THEN e - r.offset ELSE e + r.offset
      <4>1. e \in Int
        BY Zenon, <3>1 DEF Hi, Lo, PriceView
      <4>2. t \in Int
        BY <3>1, <4>1
      <4>3. s = [r EXCEPT !.extreme = e, !.trigger = t]
        BY Zenon DEF Ratchet
      <4> HIDE DEF e, t, s
      <4> QED
        BY Zenon, <4>1, <4>2, <4>3 DEF RestingType, MaybePrice
    <3> HIDE DEF s
    <3>3. MatchOk(r, Leave(s))
      BY Zenon, <3>2, LeaveOk DEF MatchOk
    <3> QED
      BY Zenon, <1>3, <2>4, <3>3 DEF MatchStop, s
  <2>5. CASE ~Triggered(r, p) /\ r.type # "TrailingStopMarket"
    BY Zenon, <1>3, <2>5, LeaveOk DEF MatchStop
  <2> QED
    BY Zenon, <2>2, <2>3, <2>4, <2>5
<1> QED
  BY Zenon, <1>2, <1>3

\* Whatever the event and the order, matching fills at most what is left, and
\* what rests afterwards is the same order with exactly that much less.
LEMMA MatchIsOk ==
  ASSUME NEW r \in RestingType, r.offset # None => r.extreme # None,
         NEW p \in PriceView
  PROVE  MatchOk(r, Match(r, p))
BY Zenon, MatchPendingOpenOk, MatchStopOk, MatchRemainderOk, MatchLimitOk DEF Match

-----------------------------------------------------------------------------
\* The reports of an event, and its effect on the book

\* The places of the fills of one event are distinct and run up to their number
\* ("the seq assigned by the queue is stable").
LEMMA RankFacts ==
  ASSUME NEW H, IsFiniteSet(H), \A h \in H : h.venue_order_id \in Nat,
         \A g, h \in H : g # h => g.venue_order_id # h.venue_order_id
  PROVE  /\ Cardinality(H) \in Nat
         /\ \A g \in H : Rank(g, H) \in 1..Cardinality(H)
         /\ \A g, h \in H : g # h => Rank(g, H) # Rank(h, H)
<1> DEFINE upto(g) == {h \in H : h.venue_order_id <= g.venue_order_id}
<1>1. Cardinality(H) \in Nat
  BY Zenon, FS_CardinalityType
<1>2. \A g \in H : /\ IsFiniteSet(upto(g))
                   /\ Cardinality(upto(g)) \in Nat
                   /\ Cardinality(upto(g)) <= Cardinality(H)
  <2> SUFFICES ASSUME NEW g \in H
               PROVE  /\ IsFiniteSet(upto(g))
                      /\ Cardinality(upto(g)) \in Nat
                      /\ Cardinality(upto(g)) <= Cardinality(H)
    OBVIOUS
  <2>1. upto(g) \in SUBSET H
    OBVIOUS
  <2>2. IsFiniteSet(upto(g)) /\ Cardinality(upto(g)) <= Cardinality(H)
    BY Zenon, <2>1, FS_Subset
  <2> QED
    BY Zenon, <2>2, FS_CardinalityType
<1>3. \A g \in H : Cardinality(upto(g)) # 0
  <2> SUFFICES ASSUME NEW g \in H, Cardinality(upto(g)) = 0 PROVE FALSE
    OBVIOUS
  <2>1. upto(g) = {}
    BY Zenon, <1>2, FS_EmptySet
  <2>2. g \in upto(g)
    OBVIOUS
  <2> QED
    BY Zenon, <2>1, <2>2
<1>4. \A g, h \in H : g.venue_order_id < h.venue_order_id =>
                        Cardinality(upto(g)) # Cardinality(upto(h))
  <2> SUFFICES ASSUME NEW g \in H, NEW h \in H,
                      g.venue_order_id < h.venue_order_id,
                      Cardinality(upto(g)) = Cardinality(upto(h))
               PROVE  FALSE
    OBVIOUS
  <2>1. upto(g) \in SUBSET upto(h)
    OBVIOUS
  <2>2. upto(h) = upto(g)
    BY Zenon, <1>2, <2>1, FS_Subset
  <2>3. h \in upto(h) /\ h \notin upto(g)
    OBVIOUS
  <2> QED
    BY Zenon, <2>2, <2>3
<1>5. \A g : Rank(g, H) = Cardinality(upto(g))
  BY Zenon DEF Rank
<1> HIDE DEF upto
<1>6. \A g, h \in H : g # h => Cardinality(upto(g)) # Cardinality(upto(h))
  <2> SUFFICES ASSUME NEW g \in H, NEW h \in H, g # h
               PROVE  Cardinality(upto(g)) # Cardinality(upto(h))
    OBVIOUS
  <2>1. g.venue_order_id < h.venue_order_id \/ h.venue_order_id < g.venue_order_id
    OBVIOUS
  <2> QED
    BY Zenon, <1>4, <2>1
<1> QED
  BY <1>1, <1>2, <1>3, <1>5, <1>6

\* The image of a finite set is finite.
LEMMA FiniteImage ==
  ASSUME NEW S, IsFiniteSet(S), NEW f, f = [x \in S |-> f[x]]
  PROVE  IsFiniteSet({f[x] : x \in S})
<1> DEFINE T == {f[x] : x \in S}
<1>1. f \in Surjection(S, T)
  BY Zenon DEF Surjection
<1> QED
  BY Zenon, <1>1, FS_Surjection

-----------------------------------------------------------------------------
\* The book and the queue

\* The book as on_cancel and on_market find it: an order rests once, with no
\* more left than it was placed with.
BookOk ==
  /\ now \in Nat /\ queue_seq \in Nat /\ trade_seq \in Nat
  /\ resting \subseteq RestingType
  /\ IsFiniteSet(resting)
  /\ \A r \in resting : /\ r.remaining <= r.quantity
                        /\ r.offset # None => r.extreme # None
  /\ \A r, s \in resting : r # s => r.coid # s.coid /\ r.venue_order_id # s.venue_order_id

\* What on_cancel does: the order leaves the book and its cancellation is
\* queued behind everything else, or nothing rests and nothing happens.
LEMMA OnCancelEffect ==
  ASSUME BookOk, NEW c \in Coids, OnCancel(c)
  PROVE  /\ UNCHANGED <<venue_seq, trade_seq>>
         /\ \/ UNCHANGED venueVars /\ \A r \in resting : r.coid # c
            \/ \E r \in resting :
                 /\ r.coid = c
                 /\ resting' = resting \ {r}
                 /\ \A s \in resting : s # r => s.coid # c
                 /\ queue_seq' = queue_seq + 1
                 /\ queue' = queue \cup
                      {Report(now + CancelLatency, queue_seq + 1, "Canceled", c)}
<1> DEFINE mine == {r \in resting : r.coid = c}
           old(r) == \A x \in mine : r.venue_order_id <= x.venue_order_id
<1>1. CASE mine = {}
  BY Zenon, <1>1 DEF OnCancel, venueVars
<1>2. CASE mine # {}
  <2>1. PICK r \in resting : r.coid = c
    BY Zenon, <1>2
  <2>2. \A s \in resting : s.coid = c => s = r
    BY Zenon, <2>1 DEF BookOk
  <2>3. mine = {r}
    BY Zenon, <2>1, <2>2
  <2>4. old(r)
    BY <2>3 DEF BookOk, RestingType
  <2>5. (CHOOSE s \in mine : old(s)) = r
    BY Zenon, <2>3, <2>4
  <2>6. /\ resting' = resting \ {CHOOSE s \in mine : old(s)}
        /\ queue_seq' = queue_seq + 1
        /\ queue' = queue \cup
             {Report(now + CancelLatency, queue_seq + 1, "Canceled", c)}
        /\ UNCHANGED <<venue_seq, trade_seq>>
    BY Zenon, <1>2 DEF OnCancel
  <2> HIDE DEF mine, old
  <2> QED
    BY Zenon, <2>1, <2>2, <2>5, <2>6
<1> QED
  BY Zenon, <1>1, <1>2

\* f is the k-th fill of the event ev, for the resting order r, of quantity q.
NewFill(f, r, ev, q, k) ==
  /\ f = FillReport(r, Match(r, View(ev)), k)
  /\ f \in FillType
  /\ f.kind = "Fill"
  /\ f.coid = r.coid /\ f.inst = r.inst /\ f.side = r.side
  /\ f.due = now + SubmitLatency
  /\ f.seq = queue_seq + k
  /\ f.trade_id = trade_seq + k
  /\ f.qty = q
  /\ f.cum = r.quantity - r.remaining + q

\* What on_market does, order by order: an order r of H is filled by q[r] at its
\* own place k[r] of the n new ones, and rests with that much less, unless that
\* is nothing; every other order rests as it did.
MarketEffect(ev, H, q, k, n) ==
  /\ \A r \in resting : q[r] <= r.remaining
  /\ \A r \in H : r.inst = ev.inst /\ q[r] > 0 /\ k[r] \in 1..n
  /\ \A r, s \in H : r # s => k[r] # k[s]
  /\ \A r \in resting \ H : q[r] = 0
  /\ queue_seq' = queue_seq + n /\ trade_seq' = trade_seq + n
  /\ venue_seq' = venue_seq
  /\ IsFiniteSet(resting') /\ IsFiniteSet(H)
  /\ \A f \in queue' : f \in queue \/ \E r \in H : NewFill(f, r, ev, q[r], k[r])
  /\ \A r \in H : \E f \in queue' : NewFill(f, r, ev, q[r], k[r])
  /\ queue \subseteq queue'
  /\ IsFiniteSet(queue) => IsFiniteSet(queue')
  /\ \A y \in resting' : \E r \in resting :
       /\ y = Rested(r, ev) /\ y \in RestingType
       /\ y.coid = r.coid /\ y.venue_order_id = r.venue_order_id
       /\ y.inst = r.inst /\ y.side = r.side
       /\ y.quantity = r.quantity /\ y.remaining = r.remaining - q[r]
       /\ y.offset # None => y.extreme # None
  /\ \A r \in resting : r.remaining > q[r] => \E y \in resting' : y.coid = r.coid
  /\ \A x, y \in resting' : x.coid = y.coid => x = y

\* on_market has that effect.
LEMMA OnMarketEffect ==
  ASSUME BookOk, NEW ev \in EventType, OnMarket(ev), ev.kind # "Delta"
  PROVE  \E H \in SUBSET resting, q \in [resting -> Nat], k \in [resting -> Nat],
            n \in Nat : MarketEffect(ev, H, q, k, n)
<1> DEFINE v == View(ev)
           H == Hits(ev)
           n == Cardinality(H)
           q == [r \in resting |-> IF r \in H THEN Match(r, v).qty ELSE 0]
           k == [r \in resting |-> IF r \in H THEN Rank(r, H) ELSE 0]
           rested == [r \in resting |-> Rested(r, ev)]
<1>1. v \in PriceView
  BY Zenon, ViewType
<1>2. \A r \in resting : r \in RestingType /\ MatchOk(r, Match(r, v))
  BY Zenon, <1>1, MatchIsOk DEF BookOk
<1>3. H \subseteq resting /\ IsFiniteSet(H)
  BY Zenon, FS_Subset DEF Hits, BookOk
<1>4. /\ n \in Nat
      /\ \A r \in H : Rank(r, H) \in 1..n
      /\ \A r, s \in H : r # s => Rank(r, H) # Rank(s, H)
  BY Zenon, <1>2, <1>3, RankFacts DEF BookOk, RestingType
<1>5. /\ queue' = queue \cup {FillReport(r, Match(r, v), Rank(r, H)) : r \in H}
      /\ queue_seq' = queue_seq + n /\ trade_seq' = trade_seq + n
      /\ venue_seq' = venue_seq
      /\ resting' = {x \in {Rested(r, ev) : r \in resting} : x.remaining > 0}
  BY Zenon DEF OnMarket
<1>6. \A r \in resting : r \in H <=> r.inst = ev.inst /\ Match(r, v).qty > 0
  BY Zenon DEF Hits
<1> HIDE DEF v, H, n
<1>7. \A r \in resting : q[r] \in Nat /\ q[r] <= r.remaining
  BY <1>2, <1>3 DEF MatchOk, RestingType
<1>8. \A r \in resting :
        /\ Rested(r, ev).coid = r.coid
        /\ Rested(r, ev).venue_order_id = r.venue_order_id
        /\ Rested(r, ev).inst = r.inst /\ Rested(r, ev).side = r.side
        /\ Rested(r, ev).quantity = r.quantity
        /\ Rested(r, ev).remaining = r.remaining - q[r]
        /\ Rested(r, ev).offset # None => Rested(r, ev).extreme # None
        /\ Rested(r, ev).remaining > 0 => Rested(r, ev) \in RestingType
  <2> SUFFICES ASSUME NEW r \in resting
               PROVE  /\ Rested(r, ev).coid = r.coid
                      /\ Rested(r, ev).venue_order_id = r.venue_order_id
                      /\ Rested(r, ev).inst = r.inst /\ Rested(r, ev).side = r.side
                      /\ Rested(r, ev).quantity = r.quantity
                      /\ Rested(r, ev).remaining = r.remaining - q[r]
                      /\ Rested(r, ev).offset # None => Rested(r, ev).extreme # None
                      /\ Rested(r, ev).remaining > 0 => Rested(r, ev) \in RestingType
    OBVIOUS
  <2>1. r \in RestingType /\ (r.offset # None => r.extreme # None)
    BY Zenon, <1>2 DEF BookOk
  <2>2. CASE r.inst # ev.inst
    BY <1>6, <2>1, <2>2 DEF Rested, RestingType
  <2>3. CASE r.inst = ev.inst
    <3>1. MatchOk(r, Match(r, v)) /\ Rested(r, ev) = Match(r, v).rest
      BY Zenon, <1>2, <2>3 DEF Rested, v
    <3>2. q[r] = Match(r, v).qty
      BY <1>6, <2>3, <3>1 DEF MatchOk
    <3> HIDE DEF q
    <3> QED
      BY <3>1, <3>2 DEF MatchOk, RestingType
  <2> QED
    BY Zenon, <2>2, <2>3
<1>9. IsFiniteSet(resting')
  <2>1. IsFiniteSet({rested[r] : r \in resting})
    BY Zenon, FiniteImage DEF BookOk
  <2>2. resting' \subseteq {rested[r] : r \in resting}
    BY Zenon, <1>5
  <2> QED
    BY Zenon, <2>1, <2>2, FS_Subset
<1>10. ASSUME NEW r \in H
       PROVE  NewFill(FillReport(r, Match(r, v), Rank(r, H)), r, ev, q[r], k[r])
  <2>1. /\ MatchOk(r, Match(r, v)) /\ r \in RestingType /\ Match(r, v).qty > 0
        /\ q[r] = Match(r, v).qty /\ k[r] = Rank(r, H) /\ Rank(r, H) \in Nat
    BY <1>2, <1>3, <1>4, <1>6
  <2> HIDE DEF q, k
  <2> PICK m : m = Match(r, v)
    OBVIOUS
  <2> PICK j : j = Rank(r, H)
    OBVIOUS
  <2>2. /\ m.qty \in Nat \ {0} /\ m.px \in Int /\ m.rest.remaining \in Nat
        /\ m.rest.remaining = r.remaining - m.qty /\ m.qty <= r.remaining
    BY <2>1 DEF MatchOk
  <2>3. /\ r.quantity \in Nat /\ r.remaining \in Nat /\ r.remaining <= r.quantity
        /\ r.coid \in Coids /\ r.inst \in Instruments /\ r.side \in Sides
    BY <1>3, <2>1 DEF RestingType, BookOk
  <2>4. now \in Nat /\ queue_seq \in Nat /\ trade_seq \in Nat /\ j \in Nat
    BY Zenon, <2>1 DEF BookOk
  <2>5. r.quantity - m.rest.remaining \in Nat
        /\ r.quantity - m.rest.remaining = r.quantity - r.remaining + m.qty
    BY <2>2, <2>3
  <2>6. FillReport(r, m, j) \in FillType
    BY <2>2, <2>3, <2>4, <2>5, LatencyAssumption DEF FillReport, FillType
  <2> QED
    BY Zenon, <2>1, <2>5, <2>6 DEF NewFill, FillReport, v
<1>11. /\ \A f \in queue' : f \in queue \/ \E r \in H : NewFill(f, r, ev, q[r], k[r])
       /\ \A r \in H : \E f \in queue' : NewFill(f, r, ev, q[r], k[r])
  BY Zenon, <1>5, <1>10
<1>12. \A y \in resting' : \E r \in resting : y = Rested(r, ev) /\ y.remaining > 0
  BY Zenon, <1>5
<1>13. \A x, y \in resting' : x.coid = y.coid => x = y
  BY <1>8, <1>12 DEF BookOk
<1>14. /\ q \in [resting -> Nat] /\ k \in [resting -> Nat]
       /\ \A r \in resting \ H : q[r] = 0
       /\ \A r \in H : r.inst = ev.inst /\ q[r] > 0 /\ k[r] \in 1..n
       /\ \A r, s \in H : r # s => k[r] # k[s]
  BY <1>3, <1>4, <1>6, <1>7
<1> HIDE DEF q, k, rested
<1>15. \A y \in resting' : \E r \in resting :
          /\ y = Rested(r, ev) /\ y \in RestingType
          /\ y.coid = r.coid /\ y.venue_order_id = r.venue_order_id
          /\ y.inst = r.inst /\ y.side = r.side
          /\ y.quantity = r.quantity /\ y.remaining = r.remaining - q[r]
          /\ y.offset # None => y.extreme # None
  BY <1>8, <1>12
<1>17. \A r \in resting : r.remaining > q[r] => \E y \in resting' : y.coid = r.coid
  <2> SUFFICES ASSUME NEW r \in resting, r.remaining > q[r]
               PROVE  \E y \in resting' : y.coid = r.coid
    OBVIOUS
  <2>1. Rested(r, ev).remaining > 0
    BY <1>2, <1>8, <1>14 DEF RestingType
  <2> QED
    BY Zenon, <1>5, <1>8, <2>1
<1>16. queue \subseteq queue'
  BY Zenon, <1>5
<1>18. IsFiniteSet(queue) => IsFiniteSet(queue')
  <2> DEFINE fill == [r \in H |-> FillReport(r, Match(r, v), Rank(r, H))]
  <2>1. IsFiniteSet({fill[r] : r \in H})
    BY Zenon, <1>3, FiniteImage
  <2>2. queue' = queue \cup {fill[r] : r \in H}
    BY Zenon, <1>5
  <2> QED
    BY Zenon, <2>1, <2>2, FS_Union
<1> H \in SUBSET resting /\ n \in Nat
  BY Zenon, <1>3, <1>4
<1> q \in [resting -> Nat] /\ k \in [resting -> Nat]
  BY Zenon, <1>14
<1> WITNESS H \in SUBSET resting, q \in [resting -> Nat], k \in [resting -> Nat],
            n \in Nat
<1> QED
  BY Zenon, <1>3, <1>5, <1>7, <1>9, <1>11, <1>13, <1>14, <1>15, <1>16, <1>17,
     <1>18
     DEF MarketEffect
=============================================================================

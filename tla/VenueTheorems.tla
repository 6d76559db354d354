--------------------------- MODULE VenueTheorems ----------------------------
(***************************************************************************)
(* The theorems of the simulated venue, for every set of tickets and       *)
(* events and every sequence of them: the types, the conservation of lots, *)
(* the order of the reports, the limit prices and the trailing triggers;   *)
(* and the balance of the books kept of its fills.                         *)
(*                                                                         *)
(* They follow from SessionInv.  It adds to them what they rest on: an     *)
(* order rests once and as it was placed; a report concerns a placed order *)
(* and is due within a latency; and nothing rests behind a cancellation,   *)
(* so that no later event can fill the order.                              *)
(***************************************************************************)
EXTENDS VenueSession, VenueLemmas, DataLemmas

USE NoneAssumption

-----------------------------------------------------------------------------
\* The terms of an order: its limit price and its trigger

\* The form the factory gives an order, and Ratchet keeps: only a limit or a
\* stop-limit has a price, and a stop that trails keeps its distance from the
\* extreme.
WellFormed(r) ==
  /\ r.price # None => r.type \in {"Limit", "StopLimit"}
  /\ r.type = "TrailingStopMarket" /\ r.offset # None =>
       r.trigger = IF r.side = "Sell" THEN r.extreme - r.offset ELSE r.extreme + r.offset

\* The price of a fill is within the limit, and the trigger moves one way only.
TermsKept(r, m) ==
  /\ WellFormed(m.rest)
  /\ m.qty > 0 /\ r.price # None => Crosses(r.side, m.px, r.price)
  /\ r.trigger # None => IF r.side = "Sell" THEN m.rest.trigger >= r.trigger
                                             ELSE m.rest.trigger <= r.trigger

SameTerms(r, s) ==
  /\ s.type = r.type /\ s.price = r.price /\ s.side = r.side
  /\ s.trigger = r.trigger /\ s.offset = r.offset /\ s.extreme = r.extreme

\* An order that is not hit keeps its terms.
LEMMA LeaveKeepsTerms ==
  ASSUME NEW r \in RestingType, WellFormed(r), NEW s, SameTerms(r, s)
  PROVE  TermsKept(r, Leave(s))
<1>1. WellFormed(s)
  BY Zenon DEF WellFormed, SameTerms
<1>2. r.trigger # None => r.trigger \in Int
  BY Zenon DEF RestingType, MaybePrice
<1>3. Leave(s).rest = s /\ Leave(s).qty = 0
  BY Zenon DEF Leave
<1> QED
  BY <1>1, <1>2, <1>3 DEF TermsKept, SameTerms

\* So does one that is filled within its limit.
LEMMA TakeKeepsTerms ==
  ASSUME NEW r \in RestingType, WellFormed(r), NEW s \in RestingType, SameTerms(r, s),
         NEW qty, NEW px, r.price # None => Crosses(r.side, px, r.price)
  PROVE  TermsKept(r, Take(s, qty, px))
<1> DEFINE t == [s EXCEPT !.remaining = Monus(@, qty)]
<1>1. SameTerms(r, t)
  BY Zenon DEF SameTerms, RestingType
<1>2. Take(s, qty, px).rest = t /\ Take(s, qty, px).px = px
  BY Zenon DEF Take
<1> HIDE DEF t
<1>3. WellFormed(t)
  BY Zenon, <1>1 DEF WellFormed, SameTerms
<1>4. r.trigger # None => r.trigger \in Int
  BY Zenon DEF RestingType, MaybePrice
<1> QED
  BY <1>1, <1>2, <1>3, <1>4 DEF TermsKept, SameTerms

\* "A marketable LIMIT must never fill WORSE than its limit."
LEMMA PendingOpenKeepsTerms ==
  ASSUME NEW r \in RestingType, WellFormed(r), NEW p \in PriceView
  PROVE  TermsKept(r, MatchPendingOpen(r, p))
<1> DEFINE c == [r EXCEPT !.pending_open = FALSE]
           raw == FillPrice(r.side, p.open, p.low, p.high)
           capped == IF r.price = None THEN raw
                     ELSE IF r.side = "Buy" THEN Lo(raw, r.price) ELSE Hi(raw, r.price)
<1>1. c \in RestingType /\ SameTerms(r, c)
  BY Zenon DEF RestingType, SameTerms
<1>2. raw \in Int
  BY Zenon, FillPriceType DEF PriceView
<1> HIDE DEF c, raw
<1>3. ASSUME r.price # None PROVE Crosses(r.side, capped, r.price)
  <2>1. r.price \in Int
    BY Zenon, <1>3 DEF RestingType, MaybePrice
  <2> QED
    BY <1>2, <1>3, <2>1 DEF Crosses, Lo, Hi
<1> HIDE DEF capped
<1>4. TermsKept(r, Leave(c)) /\ TermsKept(r, Take(c, Budget(r, p), capped))
  BY Zenon, <1>1, <1>3, LeaveKeepsTerms, TakeKeepsTerms
<1> QED
  BY Zenon, <1>4 DEF MatchPendingOpen, c, raw, capped

\* A passive limit fills at its own price.
LEMMA LimitKeepsTerms ==
  ASSUME NEW r \in RestingType, WellFormed(r), NEW p \in PriceView, r.price # None
  PROVE  TermsKept(r, MatchLimit(r, p))
<1>1. Crosses(r.side, r.price, r.price)
  BY DEF Crosses, RestingType, MaybePrice
<1>2. SameTerms(r, r)
  BY Zenon DEF SameTerms
<1>3. ASSUME p.volume # None
      PROVE  \E ahead \in Nat, paid \in Nat :
               MatchLimit(r, p) \in
                 {Leave(r),
                  Take([r EXCEPT !.queue_ahead = 0], Budget(r, p), r.price),
                  Take([r EXCEPT !.queue_ahead = ahead - paid], Budget(r, p) - paid, r.price)}
                 /\ ahead - paid \in Nat
  <2>1. p.volume \in Nat /\ Budget(r, p) \in Nat
    BY <1>3, BudgetBounds DEF PriceView, RestingType
  <2>2. PICK ahead \in Nat : ahead = IF r.queue_ahead = None THEN InitialQueueAhead(p.volume)
                                                             ELSE r.queue_ahead
    BY Zenon, <2>1, InitialQueueAheadType DEF RestingType
  <2>3. PICK paid \in Nat : paid = Lo(Budget(r, p), ahead) /\ ahead - paid \in Nat
    BY <2>1, <2>2 DEF Lo
  <2>4. Budget(r, p) - 0 = Budget(r, p)
    BY <2>1
  <2> QED
    BY Zenon, <1>3, <2>2, <2>3, <2>4 DEF MatchLimit
<1>4. CASE p.volume = None
  BY Zenon, <1>1, <1>2, <1>4, LeaveKeepsTerms, TakeKeepsTerms DEF MatchLimit
<1>5. CASE p.volume # None
  <2>1. ASSUME NEW n \in Nat, NEW q PROVE TermsKept(r, Take([r EXCEPT !.queue_ahead = n], q, r.price))
    <3>1. [r EXCEPT !.queue_ahead = n] \in RestingType /\ SameTerms(r, [r EXCEPT !.queue_ahead = n])
      BY Zenon DEF RestingType, SameTerms
    <3> QED
      BY Zenon, <1>1, <3>1, TakeKeepsTerms
  <2> QED
    BY Zenon, <1>2, <1>3, <1>5, <2>1, LeaveKeepsTerms
<1> QED
  BY Zenon, <1>4, <1>5

\* "the trigger only tightens, never loosens"; a stop that takes the market has
\* no limit.
LEMMA StopKeepsTerms ==
  ASSUME NEW r \in RestingType, r.offset # None => r.extreme # None, WellFormed(r),
         NEW p \in PriceView, r.type \notin {"Market", "Limit"}
  PROVE  TermsKept(r, MatchStop(r, p))
<1>1. SameTerms(r, r)
  BY Zenon DEF SameTerms
<1>2. TermsKept(r, Leave(r))
  BY Zenon, <1>1, LeaveKeepsTerms
<1>3. CASE r.trigger = None \/ (r.type = "TrailingStopMarket" /\ r.offset = None)
  BY Zenon, <1>2, <1>3 DEF MatchStop
<1>4. CASE ~(r.trigger = None \/ (r.type = "TrailingStopMarket" /\ r.offset = None))
  <2>1. r.trigger \in Int
    BY Zenon, <1>4 DEF RestingType, MaybePrice
  <2>2. CASE Triggered(r, p) /\ r.type = "StopLimit"
    <3> DEFINE s == [r EXCEPT !.type = "Limit"]
    <3>1. /\ s.price = r.price /\ s.type = "Limit" /\ s.trigger = r.trigger
      BY Zenon DEF RestingType
    <3>2. MatchStop(r, p) = Leave(s)
      BY Zenon, <1>4, <2>2 DEF MatchStop
    <3> HIDE DEF s
    <3>3. WellFormed(s)
      BY Zenon, <3>1 DEF WellFormed
    <3>4. MatchStop(r, p).rest = s /\ MatchStop(r, p).qty = 0
      BY <3>2 DEF Leave
    <3> QED
      BY <2>1, <3>1, <3>3, <3>4 DEF TermsKept
  <2>3. CASE Triggered(r, p) /\ r.type # "StopLimit"
    <3>1. r.price = None
      BY Zenon, <2>3 DEF WellFormed
    <3> QED
      BY Zenon, <1>1, <1>4, <2>3, <3>1, TakeKeepsTerms DEF MatchStop
  <2>4. CASE ~Triggered(r, p) /\ r.type = "TrailingStopMarket"
    <3> DEFINE e == IF r.side = "Sell" THEN Hi(r.extreme, p.high)
                                       ELSE Lo(r.extreme, p.low)
               t == IF r.side = "Sell" THEN e - r.offset ELSE e + r.offset
               s == [r EXCEPT !.extreme = e, !.trigger = t]
    <3>1. MatchStop(r, p) = Leave(s)
      BY Zenon, <1>4, <2>4 DEF MatchStop, Ratchet
    <3>2. r.offset \in Int /\ r.extreme \in Int /\ p.high \in Int /\ p.low \in Int
      BY Zenon, <1>4, <2>4 DEF RestingType, MaybePrice, PriceView
    <3>3. /\ s.price = r.price /\ s.type = r.type /\ s.side = r.side
          /\ s.offset = r.offset /\ s.extreme = e /\ s.trigger = t
      BY Zenon DEF RestingType
    <3>4. r.trigger = IF r.side = "Sell" THEN r.extreme - r.offset ELSE r.extreme + r.offset
      BY Zenon, <1>4, <2>4 DEF WellFormed
    <3>5. IF r.side = "Sell" THEN t >= r.trigger ELSE t <= r.trigger
      BY <3>2, <3>4 DEF Hi, Lo
    <3>6. t = IF r.side = "Sell" THEN e - r.offset ELSE e + r.offset
      OBVIOUS
    <3> HIDE DEF e, t, s
    <3>7. WellFormed(s)
      BY Zenon, <3>3, <3>6 DEF WellFormed
    <3>8. MatchStop(r, p).rest = s /\ MatchStop(r, p).qty = 0
      BY <3>1 DEF Leave
    <3> QED
      BY <3>3, <3>5, <3>7, <3>8 DEF TermsKept
  <2>5. CASE ~Triggered(r, p) /\ r.type # "TrailingStopMarket"
    BY Zenon, <1>2, <1>4, <2>5 DEF MatchStop
  <2> QED
    BY Zenon, <2>2, <2>3, <2>4, <2>5
<1> QED
  BY Zenon, <1>3, <1>4

\* Whatever the event and the order: no fill beyond the limit, no trigger moved
\* against its owner.
LEMMA MatchKeepsTerms ==
  ASSUME NEW r \in RestingType, r.offset # None => r.extreme # None, WellFormed(r),
         NEW p \in PriceView
  PROVE  TermsKept(r, Match(r, p))
<1>1. CASE r.pending_open
  BY Zenon, <1>1, PendingOpenKeepsTerms DEF Match
<1>2. CASE ~r.pending_open /\ r.type \notin {"Market", "Limit"}
  BY Zenon, <1>2, StopKeepsTerms DEF Match
<1>3. CASE ~r.pending_open /\ r.type \in {"Market", "Limit"} /\ r.price = None
  <2>1. SameTerms(r, r)
    BY Zenon DEF SameTerms
  <2> QED
    BY Zenon, <1>3, <2>1, LeaveKeepsTerms, TakeKeepsTerms DEF Match, MatchRemainder
<1>4. CASE ~r.pending_open /\ r.type \in {"Market", "Limit"} /\ r.price # None
  BY Zenon, <1>4, LimitKeepsTerms DEF Match
<1> QED
  BY Zenon, <1>1, <1>2, <1>3, <1>4

-----------------------------------------------------------------------------
\* The session

\* The book, and the orders its entries were placed with.
BookInv ==
  /\ BookOk
  /\ venue_seq \in Nat
  /\ mark \in [Instruments -> MaybePrice]
  /\ \A r \in resting :
       /\ r.venue_order_id <= venue_seq
       /\ WellFormed(r)
       /\ placed[r.coid] # None
       /\ r.quantity = placed[r.coid].quantity
       /\ r.price = placed[r.coid].price

\* The reports scheduled or released so far.
ReportInv ==
  /\ IsFiniteSet(Reports)
  /\ \A x \in Reports :
       /\ placed[x.coid] # None
       /\ x.seq <= queue_seq
       /\ x.due <= now + CancelLatency
       /\ x.kind # "Canceled" => x.due <= now + SubmitLatency
       /\ x.kind = "Canceled" => RestingOf(x.coid) = {}

SessionInv ==
  /\ VenueTypeOK
  /\ BookInv
  /\ ReportInv
  /\ LotsConserved
  /\ ReportsInOrder
  /\ NeverWorseThanLimit
-----------------------------------------------------------------------------
\* Lots

\* The fills F of an order o cover it up to its resting entry R, as in
\* LotsConserved.
Covered(F, R, canceled, o) ==
  /\ \A f \in F : f.cum = QtyOf({g \in F : ~Before(f, g)})
  /\ \A r \in R : QtyOf(F) + r.remaining = r.quantity
  /\ o # None /\ R = {} /\ ~canceled => QtyOf(F) = o.quantity

Lots(c) == Covered(Of(c, "Fill"), RestingOf(c), Of(c, "Canceled") # {}, placed[c])

\* The fills of an order are a finite set of fills.
LEMMA FillFacts ==
  ASSUME VenueTypeOK, IsFiniteSet(Reports), NEW c
  PROVE  /\ IsFiniteSet(Of(c, "Fill"))
         /\ \A f \in Of(c, "Fill") : f \in FillType /\ f.qty \in Nat \ {0} /\ f.qty \in Int
<1>1. Of(c, "Fill") \subseteq Reports
  BY Zenon DEF Of
<1>2. IsFiniteSet(Of(c, "Fill"))
  BY Zenon, <1>1, FS_Subset
<1>3. \A f \in Of(c, "Fill") : f \in FillType /\ f.qty \in Nat \ {0}
  BY Zenon DEF Of, VenueTypeOK, ReportType, FillType, StatusReportType
<1> QED
  BY <1>2, <1>3

\* Total is the sum that DataLemmas knows.
LEMMA TotalIsQty ==
  ASSUME NEW F, IsFiniteSet(F), \A f \in F : f.qty \in Int
  PROVE  Total(F) = QtyOf(F)
BY Zenon, SumOfQty DEF Total, QtyOf

\* So LotsConserved is Lots for every order.
LEMMA LotsMeaning ==
  VenueTypeOK /\ IsFiniteSet(Reports) => (LotsConserved <=> \A c \in Coids : Lots(c))
<1> SUFFICES ASSUME VenueTypeOK, IsFiniteSet(Reports), NEW c \in Coids
             PROVE  Lots(c) <=>
                      LET fills == Of(c, "Fill")
                      IN  /\ \A f \in fills : f.qty > 0 /\ f.cum = Total({g \in fills : ~Before(f, g)})
                          /\ \A r \in RestingOf(c) : Total(fills) + r.remaining = r.quantity
                          /\ placed[c] # None /\ RestingOf(c) = {} /\ Of(c, "Canceled") = {} =>
                               Total(fills) = placed[c].quantity
  BY Zenon DEF LotsConserved
<1> DEFINE F == Of(c, "Fill")
           upto(f) == {g \in F : ~Before(f, g)}
<1>1. IsFiniteSet(F) /\ \A f \in F : f.qty \in Int
  BY Zenon, FillFacts
<1>2. \A f \in F : f.qty > 0
  BY FillFacts
<1>3. Total(F) = QtyOf(F)
  BY Zenon, <1>1, TotalIsQty
<1>4. \A f : IsFiniteSet(upto(f)) /\ \A g \in upto(f) : g.qty \in Int
  BY Zenon, <1>1, FS_Subset
<1>5. \A f : Total(upto(f)) = QtyOf(upto(f))
  BY Zenon, <1>4, TotalIsQty
<1> QED
  BY Zenon, <1>2, <1>3, <1>5 DEF Lots, Covered

\* A fill behind the others takes up where they ended.
LEMMA CoveredByFill ==
  ASSUME NEW F, IsFiniteSet(F), \A g \in F : g.qty \in Nat,
         NEW r, NEW o, NEW canceled, Covered(F, {r}, canceled, o), o.quantity = r.quantity,
         r.quantity \in Nat, r.remaining \in Nat,
         NEW f, f.qty \in Nat \ {0}, f.cum = r.quantity - r.remaining + f.qty,
         ~Before(f, f), \A g \in F : Before(g, f) /\ ~Before(f, g),
         NEW R, \A y \in R : y.quantity = r.quantity /\ y.remaining = r.remaining - f.qty,
         R = {} => f.qty = r.remaining
  PROVE  Covered(F \cup {f}, R, canceled, o)
<1>1. f \notin F
  BY Zenon
<1>2. QtyOf(F \cup {f}) = QtyOf(F) + f.qty
  BY <1>1, QtyAdd
<1>3. QtyOf(F) \in Nat /\ QtyOf(F) + r.remaining = r.quantity
  BY Zenon, QtyMonotone, F \in SUBSET F DEF Covered
<1>4. QtyOf(F \cup {f}) = f.cum
  BY <1>2, <1>3
<1>5. {g \in F \cup {f} : ~Before(f, g)} = F \cup {f}
  BY Zenon
<1>6. \A h \in F : {g \in F \cup {f} : ~Before(h, g)} = {g \in F : ~Before(h, g)}
  BY Zenon
<1>7. \A h \in F \cup {f} : h.cum = QtyOf({g \in F \cup {f} : ~Before(h, g)})
  BY Zenon, <1>4, <1>5, <1>6 DEF Covered
<1>8. \A y \in R : QtyOf(F \cup {f}) + y.remaining = y.quantity
  BY <1>2, <1>3
<1>9. R = {} => QtyOf(F \cup {f}) = o.quantity
  BY <1>2, <1>3
<1> QED
  BY Zenon, <1>7, <1>8, <1>9 DEF Covered
-----------------------------------------------------------------------------
\* The steps of a session

\* The session starts empty.
LEMMA InitSession == Init => SessionInv
<1> SUFFICES ASSUME Init PROVE SessionInv
  OBVIOUS
<1>1. /\ resting = {} /\ Reports = {} /\ now = 0 /\ queue_seq = 0 /\ venue_seq = 0
      /\ trade_seq = 0 /\ mark = [i \in Instruments |-> None]
      /\ placed = [c \in Coids |-> None]
  BY Zenon DEF Init, VenueInit, CacheInit, Reports
<1>2. IsFiniteSet(Reports) /\ IsFiniteSet(resting)
  BY Zenon, <1>1, FS_EmptySet
<1>3. VenueTypeOK
  BY Zenon, <1>1 DEF VenueTypeOK
<1>4. BookInv
  BY <1>1, <1>2 DEF BookInv, BookOk, MaybePrice
<1>5. ReportInv /\ ReportsInOrder /\ NeverWorseThanLimit
  BY Zenon, <1>1, <1>2 DEF ReportInv, ReportsInOrder, NeverWorseThanLimit
<1>6. ASSUME NEW c \in Coids PROVE Lots(c)
  <2>1. Of(c, "Fill") = {} /\ RestingOf(c) = {} /\ placed[c] = None
    BY Zenon, <1>1, <1>6 DEF Of, RestingOf
  <2> QED
    BY Zenon, <2>1 DEF Lots, Covered
<1> QED
  BY Zenon, <1>2, <1>3, <1>4, <1>5, <1>6, LotsMeaning DEF SessionInv

\* What is known of the reports and of the book in any state.
LEMMA SessionFacts ==
  ASSUME SessionInv
  PROVE  /\ \A x \in Reports : /\ x \in ReportType /\ x.coid \in Coids
                               /\ x.due \in Nat /\ x.seq \in Nat
         /\ \A r \in resting : r \in RestingType /\ r.coid \in Coids
         /\ now \in Nat /\ queue_seq \in Nat /\ venue_seq \in Nat /\ trade_seq \in Nat
         /\ \A c \in Coids : Lots(c)
<1>1. \A x \in Reports : x \in ReportType /\ x.coid \in Coids /\ x.due \in Nat /\ x.seq \in Nat
  BY Zenon DEF SessionInv, VenueTypeOK, ReportType, FillType, StatusReportType
<1>2. \A r \in resting : r \in RestingType /\ r.coid \in Coids
  BY Zenon DEF SessionInv, VenueTypeOK, RestingType
<1>3. now \in Nat /\ queue_seq \in Nat /\ venue_seq \in Nat /\ trade_seq \in Nat
  BY Zenon DEF SessionInv, BookInv, BookOk
<1>4. \A c \in Coids : Lots(c)
  BY Zenon, LotsMeaning DEF SessionInv, ReportInv
<1> QED
  BY Zenon, <1>1, <1>2, <1>3, <1>4

\* What a step has to establish.
LEMMA SessionAfter ==
  ASSUME VenueTypeOK', BookInv', ReportInv', \A c \in Coids : Lots(c)',
         ReportsInOrder', NeverWorseThanLimit'
  PROVE  SessionInv'
<1>1. (VenueTypeOK /\ IsFiniteSet(Reports) => (LotsConserved <=> \A c \in Coids : Lots(c)))'
  BY LotsMeaning, PTL
<1> QED
  BY Zenon, <1>1 DEF SessionInv, ReportInv

\* Orders of which a step touches nothing stay covered.
LEMMA LotsUntouched ==
  ASSUME NEW c, Lots(c), placed'[c] = placed[c], Of(c, "Fill")' = Of(c, "Fill"),
         RestingOf(c)' = RestingOf(c), Of(c, "Canceled") \subseteq Of(c, "Canceled")'
  PROVE  Lots(c)'
<1>1. Covered(Of(c, "Fill"), RestingOf(c), Of(c, "Canceled")' # {}, placed[c])
  BY Zenon DEF Lots, Covered
<1> QED
  BY Zenon, <1>1 DEF Lots
\* An order as it is placed, and as it comes to rest.
LEMMA PlacedOrder ==
  ASSUME SessionInv, NEW c \in Coids, NEW t \in Tickets, NEW o, o = NewOrder(c, t)
  PROVE  /\ o \in OrderType /\ o # None /\ o.coid = c
         /\ Resting(o) \in RestingType
         /\ Resting(o).venue_order_id = venue_seq + 1 /\ Resting(o).coid = c
         /\ Resting(o).quantity = o.quantity /\ Resting(o).remaining = o.quantity
         /\ Resting(o).price = o.price
         /\ Resting(o).offset # None => Resting(o).extreme # None
         /\ WellFormed(Resting(o))
<1>1. t \in TicketType /\ venue_seq \in Nat /\ mark \in [Instruments -> MaybePrice]
  BY Zenon, SessionAssumption DEF SessionInv, BookInv
<1>2. /\ t.inst \in Instruments /\ t.side \in Sides /\ t.type \in OrderTypes
      /\ t.price \in MaybePrice /\ t.stop \in MaybePrice /\ t.quantity \in Nat \ {0}
      /\ t.price # None => t.type \in {"Limit", "StopLimit"}
      /\ t.type = "TrailingStopMarket" => t.stop # None
  BY Zenon, <1>1 DEF TicketType
<1>3. PICK m \in MaybePrice : m = mark[t.inst]
  BY Zenon, <1>1, <1>2
<1>4. PICK g : g = IF t.type # "TrailingStopMarket" \/ m = None THEN t.stop
                   ELSE IF t.side = "Sell" THEN m - t.stop ELSE m + t.stop
  OBVIOUS
<1>5. g \in MaybePrice
  BY <1>2, <1>3, <1>4 DEF MaybePrice
<1>6. o = [coid |-> c, inst |-> t.inst, side |-> t.side, type |-> t.type,
           price |-> t.price, quantity |-> t.quantity, trigger |-> g]
  BY <1>3, <1>4 DEF NewOrder
<1>7. o \in OrderType /\ o.coid = c
  BY <1>2, <1>5, <1>6 DEF OrderType
<1>8. o.trigger = g /\ o.type = t.type /\ o.side = t.side /\ o.inst = t.inst
      /\ o.price = t.price /\ o.quantity = t.quantity
  BY <1>6
<1>9. PICK d : d = TrailOffset(o)
  OBVIOUS
<1>10. /\ d \in MaybePrice
       /\ d # None => /\ m \in Int /\ g \in Int
                      /\ d = IF t.side = "Sell" THEN m - g ELSE g - m
  BY <1>3, <1>5, <1>8, <1>9 DEF TrailOffset, MaybePrice
<1>11. PICK b \in BOOLEAN : b = Marketable(o)
  BY Zenon DEF Marketable
<1>12. PICK n : n = Resting(o)
  OBVIOUS
<1>13. n = [venue_order_id |-> venue_seq + 1, coid |-> c, inst |-> t.inst,
            side |-> t.side, type |-> t.type, price |-> t.price, trigger |-> g,
            quantity |-> t.quantity, remaining |-> t.quantity, queue_ahead |-> None,
            offset |-> d, extreme |-> m, pending_open |-> b]
  BY Zenon, <1>3, <1>7, <1>8, <1>9, <1>11, <1>12 DEF Resting
<1>14. venue_seq + 1 \in Nat
  BY <1>1
<1>15. n \in RestingType
  BY Zenon, <1>2, <1>3, <1>5, <1>10, <1>11, <1>13, <1>14 DEF RestingType
<1>16. /\ n.type = t.type /\ n.offset = d /\ n.extreme = m /\ n.trigger = g
       /\ n.side = t.side /\ n.price = t.price /\ n.quantity = t.quantity
       /\ n.remaining = t.quantity /\ n.venue_order_id = venue_seq + 1 /\ n.coid = c
  BY Zenon, <1>13
<1>17. d # None => g = IF t.side = "Sell" THEN m - d ELSE m + d
  BY <1>10
<1>18. n.offset # None => n.extreme # None
  BY <1>10, <1>16
<1>19. WellFormed(n)
  BY Zenon, <1>2, <1>16, <1>17 DEF WellFormed
<1>20. o # None
  BY Zenon, <1>7, SessionAssumption
<1> QED
  BY Zenon, <1>7, <1>8, <1>12, <1>15, <1>16, <1>18, <1>19, <1>20
\* on_submit: an acceptance and a resting order, for an id that no report and
\* no order of the book can mention.
LEMMA PlaceStep ==
  ASSUME SessionInv, NEW c \in Coids, NEW t \in Tickets, Place(c, t)
  PROVE  SessionInv'
<1> PICK o : o = NewOrder(c, t)
  OBVIOUS
<1> PICK n : n = Resting(o)
  OBVIOUS
<1> PICK a : a = Report(now + SubmitLatency, queue_seq + 1, "Accepted", c)
  OBVIOUS
<1>1. /\ o \in OrderType /\ o # None /\ o.coid = c
      /\ n \in RestingType /\ n.venue_order_id = venue_seq + 1 /\ n.coid = c
      /\ n.quantity = o.quantity /\ n.remaining = o.quantity /\ n.price = o.price
      /\ n.offset # None => n.extreme # None
      /\ WellFormed(n)
  BY PlacedOrder
<1>2. /\ placed[c] = None /\ placed' = [placed EXCEPT ![c] = o]
      /\ queue' = queue \cup {a} /\ queue_seq' = queue_seq + 1
      /\ resting' = resting \cup {n} /\ venue_seq' = venue_seq + 1
      /\ trade_seq' = trade_seq /\ now' = now /\ mark' = mark /\ log' = log
  BY Zenon, <1>1 DEF Place, OnSubmit, cacheVars
<1>3. /\ a \in ReportType /\ a.kind = "Accepted" /\ a.coid = c
      /\ a.due = now + SubmitLatency /\ a.seq = queue_seq + 1
  BY SessionFacts, LatencyAssumption DEF Report, ReportType, StatusReportType
<1>4. Reports' = Reports \cup {a}
  BY Zenon, <1>2 DEF Reports
<1>5. /\ placed'[c] = o /\ \A d \in Coids : d # c => placed'[d] = placed[d]
      /\ placed' \in [Coids -> OrderType \cup {None}]
  BY Zenon, <1>1, <1>2 DEF SessionInv, VenueTypeOK
<1>6. /\ \A x \in Reports : x.coid # c
      /\ \A r \in resting : r.coid # c
  BY Zenon, <1>2 DEF SessionInv, ReportInv, BookInv
<1>7. VenueTypeOK'
  BY Zenon, <1>1, <1>2, <1>3, <1>4, <1>5 DEF SessionInv, VenueTypeOK
<1>8. BookInv'
  <2>1. IsFiniteSet(resting')
    BY Zenon, <1>2, FS_AddElement DEF SessionInv, BookInv, BookOk
  <2>2. \A r \in resting : r.venue_order_id \in Nat /\ r.venue_order_id <= venue_seq
    BY Zenon DEF SessionInv, BookInv, BookOk, RestingType
  <2>3. now' \in Nat /\ queue_seq' \in Nat /\ trade_seq' \in Nat /\ venue_seq' \in Nat
    BY SMTT(30), <1>2, SessionFacts
  <2>4. n.remaining <= n.quantity
    BY <1>1 DEF OrderType
  <2>5. \A r \in resting : /\ r.venue_order_id # n.venue_order_id
                           /\ r.venue_order_id <= venue_seq'
    BY SMTT(30), <1>1, <1>2, <2>2, SessionFacts
  <2>6. n.venue_order_id <= venue_seq'
    BY <1>1, <1>2, SessionFacts
  <2>7. BookOk'
    <3>1. \A r \in resting' : /\ r.remaining <= r.quantity
                              /\ r.offset # None => r.extreme # None
      BY Zenon, <1>1, <1>2, <2>4 DEF SessionInv, BookInv, BookOk
    <3>2. \A r, s \in resting' : r # s => r.coid # s.coid /\ r.venue_order_id # s.venue_order_id
      BY SMTT(30), <1>1, <1>2, <1>6, <2>5 DEF SessionInv, BookInv, BookOk
    <3> QED
      BY Zenon, <1>7, <2>1, <2>3, <3>1, <3>2 DEF BookOk, VenueTypeOK
  <2>8. ASSUME NEW r \in resting
        PROVE  /\ WellFormed(r) /\ placed'[r.coid] # None
               /\ r.quantity = placed'[r.coid].quantity /\ r.price = placed'[r.coid].price
    <3>1. placed'[r.coid] = placed[r.coid]
      BY Zenon, <1>5, <1>6, <2>8, SessionFacts
    <3> QED
      BY <2>8, <3>1 DEF SessionInv, BookInv
  <2>9. /\ WellFormed(n) /\ placed'[n.coid] # None
        /\ n.quantity = placed'[n.coid].quantity /\ n.price = placed'[n.coid].price
    BY <1>1, <1>5
  <2>10. mark' \in [Instruments -> MaybePrice]
    BY Zenon, <1>2 DEF SessionInv, BookInv
  <2>11. \A r \in resting' : r \in resting \/ r = n
    BY Zenon, <1>2
  <2> QED
    BY Zenon, <2>3, <2>5, <2>6, <2>7, <2>8, <2>9, <2>10, <2>11 DEF BookInv
<1>9. ReportInv'
  <2>1. IsFiniteSet(Reports')
    BY Zenon, <1>4, FS_AddElement DEF SessionInv, ReportInv
  <2>2. ASSUME NEW x \in Reports
        PROVE  /\ placed'[x.coid] # None /\ x.seq <= queue_seq' /\ x.due <= now' + CancelLatency
               /\ x.kind # "Canceled" => x.due <= now' + SubmitLatency
               /\ x.kind = "Canceled" => RestingOf(x.coid)' = {}
    <3>1. x.coid # c /\ x.coid \in Coids /\ x.seq \in Nat
      BY Zenon, <1>6, <2>2, SessionFacts
    <3>2. RestingOf(x.coid)' = RestingOf(x.coid)
      BY Zenon, <1>1, <1>2, <3>1 DEF RestingOf
    <3>3. x.seq <= queue_seq'
      BY <1>2, <2>2, <3>1, SessionFacts DEF SessionInv, ReportInv
    <3>4. placed'[x.coid] # None
      BY Zenon, <1>5, <3>1 DEF SessionInv, ReportInv
    <3> QED
      BY <1>2, <3>2, <3>3, <3>4 DEF SessionInv, ReportInv
  <2>3. /\ placed'[a.coid] # None /\ a.seq <= queue_seq' /\ a.due <= now' + CancelLatency
        /\ a.kind # "Canceled" => a.due <= now' + SubmitLatency
        /\ a.kind = "Canceled" => RestingOf(a.coid)' = {}
    BY <1>1, <1>2, <1>3, <1>5, SessionFacts, LatencyAssumption
  <2> QED
    BY Zenon, <1>4, <2>1, <2>2, <2>3 DEF ReportInv
<1>10. ASSUME NEW d \in Coids PROVE Lots(d)'
  <2>1. CASE d # c
    <3>1. /\ RestingOf(d)' = RestingOf(d) /\ Of(d, "Fill")' = Of(d, "Fill")
          /\ Of(d, "Canceled")' = Of(d, "Canceled")
      BY Zenon, <1>1, <1>2, <1>3, <1>4, <2>1 DEF RestingOf, Of
    <3> QED
      BY Zenon, <1>5, <2>1, <3>1, LotsUntouched, SessionFacts
  <2>2. CASE d = c
    <3>1. Of(d, "Fill")' = {} /\ RestingOf(d)' = {n}
      BY Zenon, <1>1, <1>2, <1>3, <1>4, <1>6, <2>2 DEF RestingOf, Of
    <3>2. QtyOf({}) + n.remaining = n.quantity
      BY <1>1, QtyEmpty DEF OrderType
    <3> QED
      BY Zenon, <3>1, <3>2 DEF Lots, Covered
  <2> QED
    BY Zenon, <2>1, <2>2
<1>11. ReportsInOrder'
  <2>1. \A x, y \in Reports' : x.coid = y.coid /\ x # y => x \in Reports /\ y \in Reports
    BY Zenon, <1>3, <1>4, <1>6
  <2> QED
    BY Zenon, <2>1 DEF SessionInv, ReportsInOrder, Before
<1>12. NeverWorseThanLimit'
  <2> SUFFICES ASSUME NEW f \in Reports', f.kind = "Fill", placed'[f.coid].price # None
               PROVE  Crosses(f.side, f.px, placed'[f.coid].price)
    BY Zenon DEF NeverWorseThanLimit
  <2>1. f \in Reports
    BY Zenon, <1>3, <1>4
  <2>2. placed'[f.coid] = placed[f.coid]
    BY Zenon, <1>5, <1>6, <2>1, SessionFacts
  <2> QED
    BY <2>1, <2>2 DEF SessionInv, NeverWorseThanLimit
<1> QED
  BY Zenon, <1>7, <1>8, <1>9, <1>10, <1>11, <1>12, SessionAfter
\* on_cancel: the order leaves the book, and its cancellation is due after every
\* report of it that is scheduled already.
LEMMA CancelStep ==
  ASSUME SessionInv, NEW c \in Coids, Cancel(c)
  PROVE  SessionInv'
<1>1. /\ OnCancel(c) /\ BookOk
      /\ now' = now /\ mark' = mark /\ placed' = placed /\ log' = log
  BY Zenon DEF Cancel, cacheVars, sessionVars, SessionInv, BookInv
<1>2. venue_seq' = venue_seq /\ trade_seq' = trade_seq
  BY Zenon, <1>1, OnCancelEffect
<1>3. CASE UNCHANGED venueVars
  <2>1. resting' = resting /\ Reports' = Reports /\ queue_seq' = queue_seq
    BY Zenon, <1>1, <1>3 DEF venueVars, Reports
  <2>2. VenueTypeOK' /\ BookInv'
    BY Zenon, <1>1, <1>2, <2>1 DEF SessionInv, VenueTypeOK, BookInv, BookOk
  <2>3. ReportInv' /\ ReportsInOrder' /\ NeverWorseThanLimit'
    BY <1>1, <2>1 DEF SessionInv, ReportInv, ReportsInOrder, NeverWorseThanLimit, RestingOf, Before
  <2>4. ASSUME NEW d \in Coids PROVE Lots(d)'
    <3>1. /\ Of(d, "Fill")' = Of(d, "Fill") /\ RestingOf(d)' = RestingOf(d)
          /\ Of(d, "Canceled")' = Of(d, "Canceled")
      BY Zenon, <2>1 DEF Of, RestingOf
    <3> QED
      BY Zenon, <1>1, <3>1, LotsUntouched, SessionFacts
  <2> QED
    BY Zenon, <2>2, <2>3, <2>4, SessionAfter
<1>4. CASE ~UNCHANGED venueVars
  <2>1. PICK r \in resting :
           /\ r.coid = c /\ resting' = resting \ {r}
           /\ \A s \in resting : s # r => s.coid # c
           /\ queue_seq' = queue_seq + 1
           /\ queue' = queue \cup {Report(now + CancelLatency, queue_seq + 1, "Canceled", c)}
    BY Zenon, <1>1, <1>4, OnCancelEffect
  <2> PICK a : a = Report(now + CancelLatency, queue_seq + 1, "Canceled", c)
    OBVIOUS
  <2>2. /\ a \in ReportType /\ a.kind = "Canceled" /\ a.coid = c
        /\ a.due = now + CancelLatency /\ a.seq = queue_seq + 1
    BY SessionFacts, LatencyAssumption DEF Report, ReportType, StatusReportType
  <2>3. Reports' = Reports \cup {a}
    BY Zenon, <1>1, <2>1 DEF Reports
  <2>4. resting' \subseteq resting /\ RestingOf(c)' = {}
    BY Zenon, <2>1 DEF RestingOf
  <2>5. \A x \in Reports : x.coid = c => x.kind # "Canceled"
    BY Zenon, <2>1 DEF SessionInv, ReportInv, RestingOf
  <2>6. VenueTypeOK'
    BY Zenon, <1>1, <2>2, <2>3, <2>4 DEF SessionInv, VenueTypeOK
  <2>7. BookInv'
    <3>1. IsFiniteSet(resting')
      BY Zenon, <2>4, FS_Subset DEF SessionInv, BookInv, BookOk
    <3>2. queue_seq' \in Nat
      BY <2>1, SessionFacts
    <3> QED
      BY Zenon, <1>1, <1>2, <2>4, <3>1, <3>2 DEF SessionInv, BookInv, BookOk
  <2>8. ReportInv'
    <3>1. IsFiniteSet(Reports')
      BY Zenon, <2>3, FS_AddElement DEF SessionInv, ReportInv
    <3>2. ASSUME NEW x \in Reports
          PROVE  /\ placed'[x.coid] # None /\ x.seq <= queue_seq' /\ x.due <= now' + CancelLatency
                 /\ x.kind # "Canceled" => x.due <= now' + SubmitLatency
                 /\ x.kind = "Canceled" => RestingOf(x.coid)' = {}
      <4>1. x.seq <= queue_seq'
        BY <2>1, <3>2, SessionFacts DEF SessionInv, ReportInv
      <4>2. RestingOf(x.coid)' \subseteq RestingOf(x.coid)
        BY Zenon, <2>4 DEF RestingOf
      <4> QED
        BY <1>1, <4>1, <4>2 DEF SessionInv, ReportInv
    <3>3. /\ placed'[a.coid] # None /\ a.seq <= queue_seq' /\ a.due <= now' + CancelLatency
          /\ RestingOf(a.coid)' = {}
      BY <1>1, <2>1, <2>2, <2>4, SessionFacts, LatencyAssumption DEF SessionInv, BookInv
    <3> QED
      BY Zenon, <2>2, <2>3, <3>1, <3>2, <3>3 DEF ReportInv
  <2>9. ASSUME NEW d \in Coids PROVE Lots(d)'
    <3>1. Of(d, "Fill")' = Of(d, "Fill")
      BY Zenon, <2>2, <2>3 DEF Of
    <3>2. CASE d # c
      <4>1. RestingOf(d)' = RestingOf(d) /\ Of(d, "Canceled")' = Of(d, "Canceled")
        BY Zenon, <2>1, <2>2, <2>3, <3>2 DEF Of, RestingOf
      <4> QED
        BY Zenon, <1>1, <3>1, <4>1, LotsUntouched, SessionFacts
    <3>3. CASE d = c
      <4>1. a \in Of(d, "Canceled")'
        BY Zenon, <2>2, <2>3, <3>3 DEF Of
      <4>2. Covered(Of(d, "Fill"), {}, TRUE, placed[d])
        BY Zenon, SessionFacts DEF Lots, Covered
      <4>3. Of(d, "Canceled")' # {} /\ RestingOf(d)' = {}
        BY Zenon, <2>4, <3>3, <4>1
      <4> QED
        BY Zenon, <1>1, <3>1, <4>2, <4>3 DEF Lots, Covered
    <3> QED
      BY Zenon, <3>2, <3>3
  <2>10. ReportsInOrder'
    <3>1. ASSUME NEW x \in Reports, x.coid = c PROVE Before(x, a)
      <4>1. x.due <= now + CancelLatency /\ x.seq <= queue_seq
        BY Zenon DEF SessionInv, ReportInv
      <4> QED
        BY <2>2, <4>1, SessionFacts, LatencyAssumption DEF Before
    <3>2. \A x, y \in Reports' : x.coid = y.coid /\ x # y =>
             \/ x \in Reports /\ y \in Reports
             \/ x = a /\ y \in Reports /\ y.coid = c
             \/ y = a /\ x \in Reports /\ x.coid = c
      BY <2>2, <2>3
    <3> SUFFICES ASSUME NEW x \in Reports', NEW y \in Reports', x.coid = y.coid, x # y
                 PROVE  /\ x.kind = "Accepted" => Before(x, y)
                        /\ x.kind = "Canceled" => Before(y, x)
      BY Zenon DEF ReportsInOrder, Before
    <3>3. CASE x \in Reports /\ y \in Reports
      BY Zenon, <3>3 DEF SessionInv, ReportsInOrder
    <3>4. CASE x = a /\ y \in Reports /\ y.coid = c
      BY Zenon, <2>2, <3>1, <3>4
    <3>5. CASE y = a /\ x \in Reports /\ x.coid = c
      BY Zenon, <2>5, <3>1, <3>5
    <3> QED
      BY Zenon, <3>2, <3>3, <3>4, <3>5
  <2>11. NeverWorseThanLimit'
    BY <1>1, <2>2, <2>3 DEF SessionInv, NeverWorseThanLimit
  <2> QED
    BY Zenon, <2>6, <2>7, <2>8, <2>9, <2>10, <2>11, SessionAfter
<1> QED
  BY Zenon, <1>3, <1>4

\* The clock moves and the reports that are due are released; all of them are
\* still there.
LEMMA AdvanceStep ==
  ASSUME SessionInv, Advance
  PROVE  SessionInv'
<1>1. /\ now' = now + 1 /\ resting' = resting /\ placed' = placed /\ mark' = mark
      /\ queue_seq' = queue_seq /\ venue_seq' = venue_seq /\ trade_seq' = trade_seq
  BY Zenon DEF Advance, cacheVars
<1>2. Reports' = Reports
  BY Zenon DEF Advance, Reports, DueBy
<1>3. now' \in Nat
  BY <1>1, SessionFacts
<1>4. VenueTypeOK' /\ BookInv'
  BY Zenon, <1>1, <1>2, <1>3 DEF SessionInv, VenueTypeOK, BookInv, BookOk
<1>5. ReportInv'
  <2>1. ASSUME NEW x \in Reports
        PROVE  /\ x.due <= now' + CancelLatency
               /\ x.kind # "Canceled" => x.due <= now' + SubmitLatency
    <3>1. /\ x.due <= now + CancelLatency
          /\ x.kind # "Canceled" => x.due <= now + SubmitLatency
      BY Zenon DEF SessionInv, ReportInv
    <3> QED
      BY <1>1, <2>1, <3>1, SessionFacts, LatencyAssumption
  <2>2. \A d : RestingOf(d)' = RestingOf(d)
    BY Zenon, <1>1 DEF RestingOf
  <2> QED
    BY Zenon, <1>1, <1>2, <2>1, <2>2 DEF SessionInv, ReportInv
<1>6. ASSUME NEW d \in Coids PROVE Lots(d)'
  <2>1. /\ Of(d, "Fill")' = Of(d, "Fill") /\ RestingOf(d)' = RestingOf(d)
        /\ Of(d, "Canceled")' = Of(d, "Canceled")
    BY Zenon, <1>1, <1>2 DEF Of, RestingOf
  <2> QED
    BY Zenon, <1>1, <2>1, LotsUntouched, SessionFacts
<1>7. ReportsInOrder' /\ NeverWorseThanLimit'
  BY <1>1, <1>2 DEF SessionInv, ReportsInOrder, NeverWorseThanLimit, Before
<1> QED
  BY Zenon, <1>4, <1>5, <1>6, <1>7, SessionAfter
\* What an event does to the terms of a resting order.
LEMMA RestedTerms ==
  ASSUME SessionInv, NEW ev \in EventType, ev.kind # "Delta", NEW r \in resting
  PROVE  /\ WellFormed(Rested(r, ev)) /\ Rested(r, ev).price = r.price
         /\ r.trigger # None => IF r.side = "Sell" THEN Rested(r, ev).trigger >= r.trigger
                                                   ELSE Rested(r, ev).trigger <= r.trigger
         /\ \A f, q, k : NewFill(f, r, ev, q, k) /\ q > 0 /\ r.price # None =>
              Crosses(f.side, f.px, r.price)
<1> PICK m : m = Match(r, View(ev))
  OBVIOUS
<1>1. r \in RestingType /\ WellFormed(r) /\ (r.offset # None => r.extreme # None)
  BY Zenon DEF SessionInv, BookInv, BookOk
<1>2. MatchOk(r, m) /\ TermsKept(r, m)
  BY <1>1, ViewType, MatchIsOk, MatchKeepsTerms
<1>3. r.trigger # None => r.trigger \in Int
  BY Zenon, <1>1 DEF RestingType, MaybePrice
<1>4. \A f, q, k : NewFill(f, r, ev, q, k) /\ q > 0 /\ r.price # None =>
        Crosses(f.side, f.px, r.price)
  <2> SUFFICES ASSUME NEW f, NEW q, NEW k, NewFill(f, r, ev, q, k), q > 0, r.price # None
               PROVE  Crosses(f.side, f.px, r.price)
    BY Zenon
  <2>1. f = FillReport(r, m, k) /\ f.qty = q /\ f.side = r.side
    BY Zenon DEF NewFill
  <2>2. f.px = m.px /\ f.qty = m.qty
    BY <2>1 DEF FillReport
  <2>3. m.qty > 0
    BY <2>1, <2>2
  <2> QED
    BY <1>2, <2>1, <2>2, <2>3 DEF TermsKept
<1>5. CASE r.inst = ev.inst
  <2>1. Rested(r, ev) = m.rest
    BY Zenon, <1>5 DEF Rested
  <2>2. WellFormed(m.rest) /\ m.rest.price = r.price
    BY Zenon, <1>2 DEF TermsKept, MatchOk
  <2>3. r.trigger # None => IF r.side = "Sell" THEN m.rest.trigger >= r.trigger
                                               ELSE m.rest.trigger <= r.trigger
    BY Zenon, <1>2 DEF TermsKept
  <2> QED
    BY <1>4, <2>1, <2>2, <2>3
<1>6. CASE r.inst # ev.inst
  <2>1. Rested(r, ev) = r
    BY Zenon, <1>6 DEF Rested
  <2> QED
    BY <1>1, <1>3, <1>4, <2>1
<1> QED
  BY Zenon, <1>5, <1>6

\* on_market: the new fills come after every report of their orders, continue
\* what was filled exactly where it ended, and respect the limits.
LEMMA MarketStep ==
  ASSUME SessionInv, NEW ev \in MarketEvents, Market(ev)
  PROVE  SessionInv'
<1>1. /\ ev \in EventType /\ BookOk /\ DataProcess(ev) /\ OnMarket(ev)
      /\ now' = now /\ placed' = placed /\ log' = log
  BY Zenon, SessionAssumption DEF Market, SessionInv, BookInv
<1>2. mark' \in [Instruments -> MaybePrice]
  <2>1. mark \in [Instruments -> MaybePrice]
    BY Zenon DEF SessionInv, BookInv
  <2>2. CASE ev.kind = "Delta"
    BY Zenon, <1>1, <2>1, <2>2 DEF DataProcess
  <2>3. CASE ev.kind # "Delta"
    <3>1. View(ev).close \in MaybePrice
      BY Zenon, <1>1, <2>3, ViewType DEF PriceView, MaybePrice
    <3> QED
      BY Zenon, <1>1, <2>1, <2>3, <3>1 DEF DataProcess
  <2> QED
    BY Zenon, <2>2, <2>3
<1>3. CASE ev.kind = "Delta"
  <2>1. /\ resting' = resting /\ Reports' = Reports /\ queue_seq' = queue_seq
        /\ venue_seq' = venue_seq /\ trade_seq' = trade_seq
    BY Zenon, <1>1, <1>3 DEF OnMarket, venueVars, Reports
  <2>2. VenueTypeOK' /\ BookInv'
    BY Zenon, <1>1, <1>2, <2>1 DEF SessionInv, VenueTypeOK, BookInv, BookOk
  <2>3. ReportInv' /\ ReportsInOrder' /\ NeverWorseThanLimit'
    BY <1>1, <2>1 DEF SessionInv, ReportInv, ReportsInOrder, NeverWorseThanLimit, RestingOf, Before
  <2>4. ASSUME NEW d \in Coids PROVE Lots(d)'
    <3>1. /\ Of(d, "Fill")' = Of(d, "Fill") /\ RestingOf(d)' = RestingOf(d)
          /\ Of(d, "Canceled")' = Of(d, "Canceled")
      BY Zenon, <2>1 DEF Of, RestingOf
    <3> QED
      BY Zenon, <1>1, <3>1, LotsUntouched, SessionFacts
  <2> QED
    BY Zenon, <2>2, <2>3, <2>4, SessionAfter
<1>4. CASE ev.kind # "Delta"
  <2>1. PICK H \in SUBSET resting, q \in [resting -> Nat], k \in [resting -> Nat],
             n \in Nat : MarketEffect(ev, H, q, k, n)
    BY Zenon, <1>1, <1>4, OnMarketEffect
  <2> DEFINE New(f, r) == NewFill(f, r, ev, q[r], k[r])
  <2>2. /\ queue_seq' = queue_seq + n /\ trade_seq' = trade_seq + n /\ venue_seq' = venue_seq
        /\ queue_seq' \in Nat /\ trade_seq' \in Nat /\ queue_seq <= queue_seq'
    <3>1. queue_seq' = queue_seq + n /\ trade_seq' = trade_seq + n /\ venue_seq' = venue_seq
      BY Zenon, <2>1 DEF MarketEffect
    <3> QED
      BY <3>1, SessionFacts
  <2>3. /\ \A f \in Reports' : f \in Reports \/ \E r \in H : New(f, r)
        /\ \A r \in H : \E f \in Reports' : New(f, r)
        /\ Reports \subseteq Reports'
    BY Zenon, <1>1, <2>1 DEF MarketEffect, Reports
  <2>4. ASSUME NEW r \in H, NEW f, New(f, r)
        PROVE  /\ f \in FillType /\ f.kind = "Fill" /\ f.coid = r.coid
               /\ f.due = now + SubmitLatency /\ f.seq = queue_seq + k[r]
               /\ f.qty = q[r] /\ f.cum = r.quantity - r.remaining + q[r]
               /\ k[r] \in 1..n /\ q[r] \in Nat \ {0} /\ q[r] > 0
    <3>1. /\ f \in FillType /\ f.kind = "Fill" /\ f.coid = r.coid
          /\ f.due = now + SubmitLatency /\ f.seq = queue_seq + k[r]
          /\ f.qty = q[r] /\ f.cum = r.quantity - r.remaining + q[r]
      BY Zenon, <2>4 DEF NewFill
    <3>2. k[r] \in 1..n /\ q[r] > 0 /\ q[r] \in Nat
      BY Zenon, <2>1 DEF MarketEffect
    <3> QED
      BY <3>1, <3>2
  <2>5. \A y \in resting' : \E r \in resting :
          /\ y = Rested(r, ev) /\ y \in RestingType
          /\ y.coid = r.coid /\ y.venue_order_id = r.venue_order_id
          /\ y.quantity = r.quantity /\ y.remaining = r.remaining - q[r]
          /\ y.offset # None => y.extreme # None
    BY Zenon, <2>1 DEF MarketEffect
  <2>6. \A r, s \in resting : r # s => r.coid # s.coid /\ r.venue_order_id # s.venue_order_id
    BY Zenon, <1>1 DEF BookOk
  <2>7. VenueTypeOK'
    <3>1. Reports' \subseteq ReportType
      BY Zenon, <2>3, <2>4, SessionFacts DEF ReportType
    <3> QED
      BY Zenon, <1>1, <2>5, <3>1 DEF SessionInv, VenueTypeOK
  <2>8. BookInv'
    <3>1. /\ IsFiniteSet(resting')
          /\ \A x, y \in resting' : x.coid = y.coid => x = y
      BY Zenon, <2>1 DEF MarketEffect
    <3>2. \A x, y \in resting' : x # y => x.coid # y.coid /\ x.venue_order_id # y.venue_order_id
      <4> SUFFICES ASSUME NEW x \in resting', NEW y \in resting', x # y
                   PROVE  x.coid # y.coid /\ x.venue_order_id # y.venue_order_id
        BY Zenon
      <4>1. PICK r \in resting : x.coid = r.coid /\ x.venue_order_id = r.venue_order_id
        BY Zenon, <2>5
      <4>2. PICK s \in resting : y.coid = s.coid /\ y.venue_order_id = s.venue_order_id
        BY Zenon, <2>5
      <4>3. x.coid # y.coid
        BY Zenon, <3>1
      <4> QED
        BY Zenon, <2>6, <4>1, <4>2, <4>3
    <3>3. ASSUME NEW y \in resting'
          PROVE  /\ y.remaining <= y.quantity /\ (y.offset # None => y.extreme # None)
                 /\ y.venue_order_id <= venue_seq' /\ WellFormed(y)
                 /\ placed'[y.coid] # None
                 /\ y.quantity = placed'[y.coid].quantity /\ y.price = placed'[y.coid].price
      <4>1. PICK r \in resting :
               /\ y = Rested(r, ev)
               /\ y.coid = r.coid /\ y.venue_order_id = r.venue_order_id
               /\ y.quantity = r.quantity /\ y.remaining = r.remaining - q[r]
               /\ y.offset # None => y.extreme # None
        BY Zenon, <2>5
      <4>2. WellFormed(y) /\ y.price = r.price
        BY Zenon, <1>1, <1>4, <4>1, RestedTerms
      <4>3. y.remaining <= y.quantity
        BY <4>1 DEF SessionInv, BookInv, BookOk, RestingType
      <4>4. /\ placed[r.coid] # None /\ r.venue_order_id <= venue_seq
            /\ r.quantity = placed[r.coid].quantity /\ r.price = placed[r.coid].price
        BY Zenon DEF SessionInv, BookInv
      <4> QED
        BY <1>1, <2>2, <4>1, <4>2, <4>3, <4>4
    <3>4. now' \in Nat /\ venue_seq' \in Nat
      BY Zenon, <1>1, <2>2, SessionFacts
    <3>5. BookOk'
      BY Zenon, <2>2, <2>7, <3>1, <3>2, <3>3, <3>4 DEF BookOk, VenueTypeOK
    <3> QED
      BY Zenon, <1>2, <3>3, <3>4, <3>5 DEF BookInv
  <2>9. ASSUME NEW r \in H, NEW f, New(f, r), NEW x \in Reports, x.coid = f.coid
        PROVE  x.kind # "Canceled" /\ Before(x, f) /\ ~Before(f, x)
    <3>1. x.kind # "Canceled"
      <4>1. x.coid = r.coid
        BY Zenon, <2>4, <2>9
      <4>2. r \in RestingOf(x.coid)
        BY Zenon, <4>1 DEF RestingOf
      <4> QED
        BY Zenon, <2>9, <4>2 DEF SessionInv, ReportInv
    <3>2. x.due <= now + SubmitLatency /\ x.seq <= queue_seq
      BY Zenon, <2>9, <3>1 DEF SessionInv, ReportInv
    <3>3. f.due = now + SubmitLatency /\ f.seq = queue_seq + k[r] /\ k[r] \in 1..n
      BY Zenon, <2>4, <2>9
    <3>4. Before(x, f) /\ ~Before(f, x)
      BY <2>9, <3>2, <3>3, SessionFacts, LatencyAssumption DEF Before
    <3> QED
      BY Zenon, <3>1, <3>4
  <2>10. ASSUME NEW r \in H, NEW f, New(f, r), NEW s \in H, NEW g, New(g, s), f.coid = g.coid
         PROVE  f = g
    <3>1. r = s
      BY <2>4, <2>6, <2>10
    <3> QED
      BY Zenon, <2>10, <3>1 DEF NewFill
  <2>11. ReportInv'
    <3>1. IsFiniteSet(Reports')
      <4>1. Reports = queue \cup log /\ Reports' = queue' \cup log
        BY Zenon, <1>1 DEF Reports
      <4>2. IsFiniteSet(queue) /\ IsFiniteSet(log)
        <5>1. queue \in SUBSET Reports /\ log \in SUBSET Reports /\ IsFiniteSet(Reports)
          BY Zenon, <4>1 DEF SessionInv, ReportInv
        <5> QED
          BY Zenon, <5>1, FS_Subset
      <4>3. IsFiniteSet(queue')
        BY Zenon, <2>1, <4>2 DEF MarketEffect
      <4> QED
        BY Zenon, <4>1, <4>2, <4>3, FS_Union
    <3>2. ASSUME NEW x \in Reports
          PROVE  /\ placed'[x.coid] # None /\ x.seq <= queue_seq' /\ x.due <= now' + CancelLatency
                 /\ x.kind # "Canceled" => x.due <= now' + SubmitLatency
                 /\ x.kind = "Canceled" => RestingOf(x.coid)' = {}
      <4>1. x.seq <= queue_seq'
        BY SMTT(30), <2>2, <3>2, SessionFacts DEF SessionInv, ReportInv
      <4>2. RestingOf(x.coid) = {} => RestingOf(x.coid)' = {}
        BY SMTT(30), <2>5 DEF RestingOf
      <4> QED
        BY Zenon, <1>1, <4>1, <4>2 DEF SessionInv, ReportInv
    <3>3. ASSUME NEW r \in H, NEW x, New(x, r)
          PROVE  /\ placed'[x.coid] # None /\ x.seq <= queue_seq' /\ x.due <= now' + CancelLatency
                 /\ x.due <= now' + SubmitLatency /\ x.kind # "Canceled"
      <4>1. /\ x.kind = "Fill" /\ x.coid = r.coid /\ x.due = now + SubmitLatency
            /\ x.seq = queue_seq + k[r] /\ k[r] \in 1..n
        BY Zenon, <2>4, <3>3
      <4>2. placed[r.coid] # None
        BY Zenon DEF SessionInv, BookInv
      <4> QED
        BY SMTT(30), <1>1, <2>2, <4>1, <4>2, SessionFacts, LatencyAssumption
    <3> QED
      BY Zenon, <2>3, <3>1, <3>2, <3>3 DEF ReportInv
  <2>12. ASSUME NEW d \in Coids PROVE Lots(d)'
    <3>1. Of(d, "Canceled") = Of(d, "Canceled")'
      BY Zenon, <2>3, <2>4 DEF Of
    <3>2. /\ \A y \in resting' : y.coid = d => \E r \in resting :
               /\ r.coid = d /\ y.quantity = r.quantity /\ y.remaining = r.remaining - q[r]
          /\ \A r \in resting : r.coid = d /\ r.remaining > q[r] =>
               \E y \in resting' : y.coid = d
      <4>1. \A r \in resting : r.remaining > q[r] => \E y \in resting' : y.coid = r.coid
        BY Zenon, <2>1 DEF MarketEffect
      <4> QED
        BY <2>5, <4>1
    <3>3. CASE \A r \in H : r.coid # d
      <4>1. Of(d, "Fill")' = Of(d, "Fill")
        <5>1. \A f \in Reports' : f.coid = d => f \in Reports
          BY <2>3, <2>4, <3>3
        <5> QED
          BY Zenon, <2>3, <5>1 DEF Of
      <4>2. \A r \in resting : r.coid = d => q[r] = 0 /\ r.remaining \in Nat \ {0}
        <5>1. \A r \in resting \ H : q[r] = 0
          BY Zenon, <2>1 DEF MarketEffect
        <5>2. \A r \in resting : r.remaining \in Nat \ {0}
          BY Zenon, SessionFacts DEF RestingType
        <5> QED
          BY Zenon, <3>3, <5>1, <5>2
      <4>3. \A y \in RestingOf(d)' : \E r \in RestingOf(d) :
               y.quantity = r.quantity /\ y.remaining = r.remaining
        BY <3>2, <4>2 DEF RestingOf
      <4>4. RestingOf(d)' = {} => RestingOf(d) = {}
        BY <3>2, <4>2 DEF RestingOf
      <4>5. Covered(Of(d, "Fill"), RestingOf(d)', Of(d, "Canceled") # {}, placed[d])
        <5>1. Covered(Of(d, "Fill"), RestingOf(d), Of(d, "Canceled") # {}, placed[d])
          BY Zenon, SessionFacts DEF Lots
        <5>2. \A y \in RestingOf(d)' : QtyOf(Of(d, "Fill")) + y.remaining = y.quantity
          BY <4>3, <5>1 DEF Covered
        <5> QED
          BY Zenon, <4>4, <5>1, <5>2 DEF Covered
      <4> QED
        BY Zenon, <1>1, <3>1, <4>1, <4>5 DEF Lots
    <3>4. ASSUME NEW r \in H, r.coid = d PROVE Lots(d)'
      <4>1. PICK f \in Reports' : New(f, r)
        BY Zenon, <2>3
      <4> PICK F : F = Of(d, "Fill")
        OBVIOUS
      <4>2. /\ f.kind = "Fill" /\ f.coid = d /\ f.qty = q[r]
            /\ f.cum = r.quantity - r.remaining + q[r] /\ q[r] \in Nat \ {0}
            /\ f.due = now + SubmitLatency /\ f.seq = queue_seq + k[r] /\ k[r] \in 1..n
        BY <2>4, <3>4, <4>1
      <4>3. Of(d, "Fill")' = F \cup {f}
        <5>1. \A g \in Reports' : g.coid = d => g \in Reports \/ g = f
          BY <2>3, <2>4, <2>10, <4>1, <4>2
        <5> QED
          BY Zenon, <2>3, <4>1, <4>2, <5>1 DEF Of
      <4>4. RestingOf(d) = {r}
        BY Zenon, <2>6, <3>4 DEF RestingOf
      <4>5. /\ IsFiniteSet(F) /\ \A g \in F : g.qty \in Nat
        BY Zenon, FillFacts DEF SessionInv, ReportInv
      <4>6. /\ Covered(F, {r}, Of(d, "Canceled") # {}, placed[d])
            /\ placed[d].quantity = r.quantity
            /\ r.quantity \in Nat /\ r.remaining \in Nat
        <5>1. Lots(d) /\ r \in RestingType
          BY Zenon, SessionFacts
        <5>2. placed[r.coid].quantity = r.quantity
          BY Zenon DEF SessionInv, BookInv
        <5>3. r.quantity \in Nat /\ r.remaining \in Nat
          BY Zenon, <5>1 DEF RestingType
        <5> QED
          BY <3>4, <4>4, <5>1, <5>2, <5>3 DEF Lots
      <4>7. ~Before(f, f) /\ \A g \in F : Before(g, f) /\ ~Before(f, g)
        <5>1. ~Before(f, f)
          BY <4>2, SessionFacts, LatencyAssumption DEF Before
        <5>2. \A g \in F : g \in Reports /\ g.coid = f.coid
          BY Zenon, <4>2 DEF Of
        <5> QED
          BY Zenon, <2>9, <4>1, <5>1, <5>2
      <4>8. \A y \in RestingOf(d)' : y.quantity = r.quantity /\ y.remaining = r.remaining - f.qty
        BY SMTT(30), <2>6, <3>2, <3>4, <4>2 DEF RestingOf
      <4>9. RestingOf(d)' = {} => f.qty = r.remaining
        <5>1. q[r] <= r.remaining
          BY ZenonT(40), <2>1 DEF MarketEffect
        <5> QED
          BY <3>2, <3>4, <4>2, <4>6, <5>1 DEF RestingOf
      <4>10. Covered(F \cup {f}, RestingOf(d)', Of(d, "Canceled") # {}, placed[d])
        BY Zenon, <4>2, <4>5, <4>6, <4>7, <4>8, <4>9, CoveredByFill
      <4> QED
        BY Zenon, <1>1, <3>1, <4>3, <4>10 DEF Lots
    <3> QED
      BY Zenon, <3>3, <3>4
  <2>13. ReportsInOrder'
    <3> SUFFICES ASSUME NEW x \in Reports', NEW y \in Reports', x.coid = y.coid, x # y
                 PROVE  /\ x.kind = "Accepted" => Before(x, y)
                        /\ x.kind = "Canceled" => Before(y, x)
      BY Zenon DEF ReportsInOrder, Before
    <3>1. CASE x \in Reports /\ y \in Reports
      BY Zenon, <3>1 DEF SessionInv, ReportsInOrder
    <3>2. ASSUME NEW r \in H, New(x, r) PROVE x.kind \notin {"Accepted", "Canceled"}
      BY Zenon, <2>4, <3>2
    <3>3. ASSUME x \in Reports, NEW r \in H, New(y, r)
          PROVE  x.kind # "Canceled" /\ Before(x, y)
      BY Zenon, <2>9, <3>3
    <3> QED
      BY Zenon, <2>3, <3>1, <3>2, <3>3
  <2>14. NeverWorseThanLimit'
    <3> SUFFICES ASSUME NEW f \in Reports', f.kind = "Fill", placed[f.coid].price # None
                 PROVE  Crosses(f.side, f.px, placed[f.coid].price)
      BY Zenon, <1>1 DEF NeverWorseThanLimit
    <3>1. CASE f \in Reports
      BY ZenonT(40), <3>1 DEF SessionInv, NeverWorseThanLimit
    <3>2. ASSUME NEW r \in H, New(f, r) PROVE Crosses(f.side, f.px, placed[f.coid].price)
      <4>1. f.coid = r.coid /\ q[r] > 0
        BY ZenonT(40), <2>4, <3>2
      <4>2. r.price = placed[f.coid].price
        BY <4>1 DEF SessionInv, BookInv
      <4> QED
        BY Zenon, <1>1, <1>4, <3>2, <4>1, <4>2, RestedTerms
    <3> QED
      BY Zenon, <2>3, <3>1, <3>2
  <2> QED
    BY Zenon, <2>7, <2>8, <2>11, <2>12, <2>13, <2>14, SessionAfter
<1> QED
  BY Zenon, <1>3, <1>4
-----------------------------------------------------------------------------
\* The theorems

\* SessionInv holds in every state of a session.
LEMMA SessionInvariance == Spec => []SessionInv
<1>1. ASSUME SessionInv, [Next]_vars PROVE SessionInv'
  <2>1. ASSUME NEW c \in Coids, NEW t \in Tickets, Place(c, t) PROVE SessionInv'
    BY Zenon, <1>1, <2>1, PlaceStep
  <2>2. ASSUME NEW c \in Coids, Cancel(c) PROVE SessionInv'
    BY Zenon, <1>1, <2>2, CancelStep
  <2>3. ASSUME NEW ev \in MarketEvents, Market(ev) PROVE SessionInv'
    BY Zenon, <1>1, <2>3, MarketStep
  <2>4. CASE Advance
    BY Zenon, <1>1, <2>4, AdvanceStep
  <2>5. CASE UNCHANGED vars
    <3>1. /\ resting' = resting /\ placed' = placed /\ mark' = mark /\ now' = now
          /\ queue_seq' = queue_seq /\ venue_seq' = venue_seq /\ trade_seq' = trade_seq
          /\ Reports' = Reports
      BY Zenon, <2>5 DEF vars, venueVars, sessionVars, cacheVars, Reports
    <3>2. VenueTypeOK' /\ BookInv'
      BY ZenonT(40), <1>1, <3>1 DEF SessionInv, VenueTypeOK, BookInv, BookOk
    <3>3. ReportInv' /\ ReportsInOrder' /\ NeverWorseThanLimit'
      BY ZenonT(40), <1>1, <3>1 DEF SessionInv, ReportInv, ReportsInOrder, NeverWorseThanLimit, RestingOf, Before
    <3>4. ASSUME NEW d \in Coids PROVE Lots(d)'
      <4>1. /\ Of(d, "Fill")' = Of(d, "Fill") /\ RestingOf(d)' = RestingOf(d)
            /\ Of(d, "Canceled")' = Of(d, "Canceled")
        BY Zenon, <3>1 DEF Of, RestingOf
      <4> QED
        BY Zenon, <1>1, <3>1, <4>1, LotsUntouched, SessionFacts
    <3> QED
      BY Zenon, <3>2, <3>3, <3>4, SessionAfter
  <2> QED
    BY Zenon, <1>1, <2>1, <2>2, <2>3, <2>4, <2>5 DEF Next
<1> QED
  BY <1>1, InitSession, PTL DEF Spec

\* Resting orders and reports keep their types, through every sequence of
\* on_submit, on_cancel and on_market.
THEOREM VenueTypeCorrect == Spec => []VenueTypeOK
<1>1. SessionInv => VenueTypeOK
  BY Zenon DEF SessionInv
<1> QED
  BY <1>1, SessionInvariance, PTL

\* The fills that on_market schedules for an order, and what still rests of it,
\* make up its quantity, without gap and without overlap, whatever bars, ticks
\* and cancels it meets.
THEOREM LotsAreConserved == Spec => []LotsConserved
<1>1. SessionInv => LotsConserved
  BY Zenon DEF SessionInv
<1> QED
  BY <1>1, SessionInvariance, PTL

\* The due times that on_submit, on_cancel and on_market choose put the
\* acceptance of an order before, and its cancellation behind, every other
\* report of it.
THEOREM ReportsComeInOrder == Spec => []ReportsInOrder
<1>1. SessionInv => ReportsInOrder
  BY Zenon DEF SessionInv
<1> QED
  BY <1>1, SessionInvariance, PTL

\* on_market fills no order beyond the limit price it was placed with.
THEOREM LimitsAreKept == Spec => []NeverWorseThanLimit
<1>1. SessionInv => NeverWorseThanLimit
  BY Zenon DEF SessionInv
<1> QED
  BY <1>1, SessionInvariance, PTL

\* The entry that an order has in the book moves its trigger one way only: up
\* for a sell stop and down for a buy stop (the ratchet of on_market).
THEOREM TriggersTighten == Spec => TriggerOnlyTightens
<1> DEFINE Tightens ==
      \A r \in resting, s \in resting' :
        r.coid = s.coid /\ r.trigger # None =>
          IF r.side = "Sell" THEN s.trigger >= r.trigger ELSE s.trigger <= r.trigger
<1>1. ASSUME SessionInv, [Next]_vars PROVE Tightens
  <2> SUFFICES ASSUME NEW r \in resting, NEW s \in resting', r.coid = s.coid, r.trigger # None
               PROVE  IF r.side = "Sell" THEN s.trigger >= r.trigger ELSE s.trigger <= r.trigger
    BY Zenon
  <2>1. r.trigger \in Int
    BY Zenon, <1>1, SessionFacts DEF RestingType, MaybePrice
  <2>2. \A x, y \in resting : x.coid = y.coid => x = y
    BY Zenon, <1>1 DEF SessionInv, BookInv, BookOk
  <2>3. CASE s \in resting
    <3>1. s = r
      BY Zenon, <2>2, <2>3
    <3> QED
      BY <2>1, <3>1
  <2>4. ASSUME NEW c \in Coids, NEW t \in Tickets, Place(c, t) PROVE s \in resting
    <3>1. /\ placed[c] = None
          /\ s \in resting \/ s = Resting(NewOrder(c, t))
      BY Zenon, <2>4 DEF Place, OnSubmit
    <3>2. Resting(NewOrder(c, t)).coid = c
      BY Zenon DEF Resting, NewOrder
    <3>3. r.coid # c
      BY Zenon, <1>1, <3>1 DEF SessionInv, BookInv
    <3> QED
      BY <3>1, <3>2, <3>3
  <2>5. ASSUME NEW c \in Coids, Cancel(c) PROVE s \in resting
    BY ZenonT(40), <2>5 DEF Cancel, OnCancel, venueVars
  <2>6. ASSUME NEW ev \in MarketEvents, Market(ev), ev.kind # "Delta"
        PROVE  IF r.side = "Sell" THEN s.trigger >= r.trigger ELSE s.trigger <= r.trigger
    <3>1. ev \in EventType /\ BookOk /\ OnMarket(ev)
      BY Zenon, <1>1, <2>6, SessionAssumption DEF Market, SessionInv, BookInv
    <3>2. PICK H \in SUBSET resting, q \in [resting -> Nat], k \in [resting -> Nat],
               n \in Nat : MarketEffect(ev, H, q, k, n)
      BY Zenon, <2>6, <3>1, OnMarketEffect
    <3>3. PICK x \in resting : s = Rested(x, ev) /\ s.coid = x.coid
      BY Zenon, <3>2 DEF MarketEffect
    <3>4. x = r
      BY <2>2, <3>3
    <3> QED
      BY ZenonT(40), <1>1, <2>6, <3>1, <3>3, <3>4, RestedTerms
  <2>7. ASSUME NEW ev \in MarketEvents, Market(ev), ev.kind = "Delta" PROVE s \in resting
    BY Zenon, <2>7 DEF Market, OnMarket, venueVars
  <2>8. ASSUME Advance \/ UNCHANGED vars PROVE s \in resting
    BY Zenon, <2>8 DEF Advance, vars, venueVars
  <2> QED
    BY Zenon, <1>1, <2>3, <2>4, <2>5, <2>6, <2>7, <2>8 DEF Next
<1> QED
  BY <1>1, SessionInvariance, PTL DEF Spec, TriggerOnlyTightens

-----------------------------------------------------------------------------
\* The books: what a position keeps of the fills behind it, and the sums over
\* the instruments

\* Banker's rounding is off by at most one half.
LEMMA RoundingError ==
  ASSUME NEW n \in Int, NEW d \in Nat \ {0}
  PROVE  /\ 2 * (n - d * RoundHalfEven(n, d)) <= d
         /\ 0 - d <= 2 * (n - d * RoundHalfEven(n, d))
<1>1. PICK q \in Int, r \in Int : q = n \div d /\ r = n % d /\ n = d * q + r /\ 0 <= r /\ r < d
  OBVIOUS
<1>2. d * (q + 1) = d * q + d
  OBVIOUS
<1>3. CASE RoundHalfEven(n, d) = q /\ 2 * r <= d
  BY SMTT(30), <1>1, <1>3
<1>4. CASE RoundHalfEven(n, d) = q + 1 /\ 2 * r >= d
  <2>1. PICK z \in Int : z = d * q
    OBVIOUS
  <2>2. n - d * RoundHalfEven(n, d) = r - d
    BY SMTT(30), <1>1, <1>2, <1>4, <2>1
  <2> QED
    BY <1>1, <1>4, <2>2
<1> QED
  BY SMTT(30), <1>1, <1>3, <1>4 DEF RoundHalfEven

PositionType == [qty : Int, avg : Int, realized : Int]

\* An open position has an entry: pnl_per_qty takes an entry of zero for none.
Sound(pos) == pos \in PositionType /\ (pos.qty = 0 \/ pos.avg > 0)

\* The money a position stands for, apart from its exposure.
Booked(pos) == pos.realized - Multiplier * (pos.qty * pos.avg)

\* A fill that neither slippage nor rounding has brought down to a price of zero.
PositiveFill == {f \in FillType : f.px > 0}

\* The signed quantity of a fill.
LEMMA SignedFacts ==
  ASSUME NEW f \in PositiveFill
  PROVE  /\ f.qty \in Nat \ {0} /\ f.px \in Nat \ {0} /\ f.side \in Sides
         /\ SignedQty(f) \in Int /\ SignedQty(f) # 0 /\ Size(SignedQty(f)) = f.qty
BY DEF PositiveFill, FillType, SignedQty, Size, Sides

\* An average of positive prices, rounded, is positive.
LEMMA AverageFacts ==
  ASSUME NEW a \in Nat \ {0}, NEW b \in Nat \ {0}, NEW x \in Nat \ {0}, NEW y \in Nat \ {0},
         NEW r, r = RoundHalfEven(a * x + b * y, x + y)
  PROVE  /\ r \in Nat \ {0}
         /\ 2 * ((a * x + b * y) - (x + y) * r) <= x + y
         /\ 0 - (x + y) <= 2 * ((a * x + b * y) - (x + y) * r)
<1>1. PICK n \in Int, d \in Nat \ {0} : n = a * x + b * y /\ d = x + y
  OBVIOUS
<1>2. a * x >= x /\ b * y >= y
  OBVIOUS
<1>3. n >= d
  BY SMTT(30), <1>1, <1>2
<1>4. r \in Int /\ 2 * (n - d * r) <= d /\ 0 - d <= 2 * (n - d * r)
  BY Zenon, <1>1, RoundHalfEvenType, RoundingError
<1>5. r > 0
  <2> SUFFICES ASSUME r <= 0 PROVE FALSE
    BY <1>4
  <2>1. d * r <= 0
    BY SMTT(30), <1>4
  <2> QED
    BY SMTT(30), <1>3, <1>4, <2>1
<1> QED
  BY SMTT(30), <1>1, <1>4, <1>5

\* Position::apply_fill books a fill for its price: what it adds to Booked is
\* what the fill brought or cost, but for the rounding of an average.
LEMMA FillIsBooked ==
  ASSUME NEW pos, Sound(pos), NEW f \in PositiveFill, NEW new, new = ApplyFillTo(pos, f)
  PROVE  /\ Sound(new)
         /\ new.qty = pos.qty + SignedQty(f)
         /\ \E e \in Int :
              /\ Booked(new) = Booked(pos) + Multiplier * (e - SignedQty(f) * f.px)
              /\ 2 * Size(e) <= IF SameSide(pos.qty, SignedQty(f)) THEN Size(new.qty) ELSE 0
<1>1. PICK Q \in Int, a \in Int, R \in Int : Q = pos.qty /\ a = pos.avg /\ R = pos.realized
  BY DEF Sound, PositionType
<1>2. PICK s \in Int, q \in Nat \ {0}, p \in Nat \ {0} :
         s = SignedQty(f) /\ q = f.qty /\ p = f.px /\ s # 0 /\ Size(s) = q
  BY SignedFacts
<1>m. PICK M \in Nat \ {0} : M = Multiplier
  BY Zenon, LedgerAssumption
<1>3. Q = 0 \/ a > 0
  BY Zenon, <1>1 DEF Sound
<1>4. /\ new.qty = Q + s
      /\ new.avg = IF Q + s = 0 THEN 0 ELSE NewAvg(pos, f)
      /\ new.realized = R + Realized(pos, f)
      /\ new \in PositionType <=> new.avg \in Int /\ new.realized \in Int
  BY SMTT(30), <1>1, <1>2 DEF ApplyFillTo, PositionType
<1>5. CASE Q = 0
  <2>1. new.qty = s /\ new.avg = p /\ new.realized = R
    BY SMTT(30), <1>1, <1>2, <1>4, <1>5 DEF NewAvg, Realized, SameSide
  <2>2. Booked(new) = R - M * (s * p) /\ Booked(pos) = R
    BY SMTT(30), <1>1, <1>5, <1>m, <2>1 DEF Booked
  <2>3. Booked(new) = Booked(pos) + M * (0 - s * p)
    BY <2>2
  <2>4. Size(0) = 0 /\ ~SameSide(pos.qty, SignedQty(f))
    BY SMTT(30), <1>1, <1>5 DEF Size, SameSide
  <2> QED
    BY SMTT(30), <1>1, <1>2, <1>4, <1>m, <2>1, <2>3, <2>4 DEF Sound
<1>6. CASE SameSide(Q, s)
  <2>1. PICK x \in Nat \ {0} : x = Size(Q)
    BY <1>6 DEF SameSide, Size
  <2>2. PICK r : r = RoundHalfEven(a * x + p * q, x + q)
    OBVIOUS
  <2>3. /\ Q # 0 /\ Q + s # 0 /\ Size(Q + s) = x + q /\ a \in Nat \ {0}
        /\ (Q = x /\ s = q) \/ (Q = 0 - x /\ s = 0 - q)
    BY SMTT(30), <1>2, <1>3, <1>6, <2>1 DEF SameSide, Size
  <2>4. new.avg = r /\ new.realized = R
    BY SMTT(30), <1>1, <1>2, <1>4, <1>6, <2>1, <2>2, <2>3 DEF NewAvg, Realized
  <2>5. /\ r \in Nat \ {0}
        /\ 2 * ((a * x + p * q) - (x + q) * r) <= x + q
        /\ 0 - (x + q) <= 2 * ((a * x + p * q) - (x + q) * r)
    BY ZenonT(40), <2>1, <2>2, <2>3, AverageFacts
  <2>6. PICK e \in Int : e = (Q * a + s * p) - (Q + s) * r
    BY <2>5
  <2>7. 2 * Size(e) <= Size(Q + s)
    <3>1. PICK d \in Int : d = (a * x + p * q) - (x + q) * r
      BY <2>5
    <3>2. e = d \/ e = 0 - d
      BY SMTT(30), <2>3, <2>5, <2>6, <3>1
    <3> QED
      BY <2>3, <2>5, <3>1, <3>2 DEF Size
  <2>8. Booked(new) = R - M * ((Q + s) * r) /\ Booked(pos) = R - M * (Q * a)
    BY Zenon, <1>1, <1>4, <1>m, <2>4 DEF Booked
  <2>9. Booked(new) = Booked(pos) + M * (e - s * p)
    <3>1. PICK u \in Int, v \in Int, w \in Int : u = Q * a /\ v = s * p /\ w = (Q + s) * r
      BY <2>5
    <3>2. e - v = u - w
      BY <2>6, <3>1
    <3>3. R - M * w = R - M * u + M * (u - w)
      BY SMTT(30), <3>1
    <3> QED
      BY Zenon, <2>8, <3>1, <3>2, <3>3
  <2> QED
    BY SMTT(30), <1>1, <1>2, <1>4, <1>6, <1>m, <2>3, <2>4, <2>5, <2>7, <2>9 DEF Sound
<1>7. CASE Q # 0 /\ ~SameSide(Q, s)
  <2>1. PICK x \in Nat \ {0} : x = Size(Q)
    BY <1>7 DEF Size
  <2>2. /\ a \in Nat \ {0}
        /\ (Q = x /\ s = 0 - q) \/ (Q = 0 - x /\ s = q)
    BY SMTT(30), <1>2, <1>3, <1>7, <2>1 DEF SameSide, Size
  <2>3. PICK sign \in Int : sign = IF Q > 0 THEN 1 ELSE 0 - 1
    OBVIOUS
  <2>4. new.realized = R + sign * Lo(x, q) * (M * (p - a))
    BY Zenon, <1>1, <1>2, <1>4, <1>7, <1>m, <2>1, <2>2, <2>3 DEF Realized, PnlPerQty
  <2>5. Size(0) = 0 /\ ~SameSide(pos.qty, SignedQty(f))
    BY SMTT(30), <1>1, <1>2, <1>7 DEF Size
  <2>6. CASE q > x
    <3>1. new.avg = p /\ Q + s # 0
      BY SMTT(30), <1>1, <1>2, <1>4, <1>7, <2>1, <2>2, <2>6 DEF NewAvg
    <3>2. new.realized = R + Q * (M * (p - a))
      BY SMTT(30), <2>2, <2>3, <2>4, <2>6 DEF Lo
    <3>3. Booked(new) = R + Q * (M * (p - a)) - M * ((Q + s) * p) /\ Booked(pos) = R - M * (Q * a)
      BY SMTT(30), <1>1, <1>4, <1>m, <3>1, <3>2 DEF Booked
    <3>4. Booked(new) = Booked(pos) + M * (0 - s * p)
      BY SMTT(30), <3>3
    <3> QED
      BY SMTT(30), <1>1, <1>2, <1>4, <1>m, <2>2, <2>5, <3>1, <3>2, <3>4 DEF Sound
  <2>7. CASE q = x
    <3>1. new.avg = 0 /\ Q + s = 0
      BY SMTT(30), <1>4, <2>2, <2>7
    <3>2. new.realized = R + Q * (M * (p - a))
      BY SMTT(30), <2>2, <2>3, <2>4, <2>7 DEF Lo
    <3>3. Booked(new) = R + Q * (M * (p - a)) /\ Booked(pos) = R - M * (Q * a)
      <4>1. PICK z \in Int : z = new.realized
        BY <3>2
      <4>2. new.qty = 0 /\ M * (0 * 0) = 0
        BY SMTT(30), <1>4, <3>1
      <4>3. Booked(new) = z
        BY SMTT(30), <1>m, <3>1, <4>1, <4>2 DEF Booked
      <4>4. Booked(pos) = R - M * (Q * a)
        BY Zenon, <1>1, <1>m DEF Booked
      <4> QED
        BY Zenon, <3>2, <4>1, <4>3, <4>4
    <3>4. Booked(new) = Booked(pos) + M * (0 - s * p)
      BY SMTT(30), <3>1, <3>3
    <3> QED
      BY SMTT(30), <1>1, <1>2, <1>4, <1>m, <2>2, <2>5, <3>1, <3>2, <3>4 DEF Sound
  <2>8. CASE q < x
    <3>1. new.avg = a /\ Q + s # 0
      BY SMTT(30), <1>1, <1>2, <1>4, <1>7, <2>1, <2>2, <2>8 DEF NewAvg
    <3>2. new.realized = R + (0 - s) * (M * (p - a))
      BY SMTT(30), <2>2, <2>3, <2>4, <2>8 DEF Lo
    <3>3. /\ Booked(new) = R + (0 - s) * (M * (p - a)) - M * ((Q + s) * a)
          /\ Booked(pos) = R - M * (Q * a)
      BY SMTT(30), <1>1, <1>4, <1>m, <3>1, <3>2 DEF Booked
    <3>4. Booked(new) = Booked(pos) + M * (0 - s * p)
      BY <3>3
    <3> QED
      BY SMTT(30), <1>1, <1>2, <1>4, <1>m, <2>2, <2>5, <3>1, <3>2, <3>4 DEF Sound
  <2> QED
    BY <2>6, <2>7, <2>8
<1> QED
  BY Zenon, <1>5, <1>6, <1>7

\* The positions behind a sequence of fills, one fill after the other.
LEMMA PositionsSteps ==
  ASSUME NEW n \in Nat, NEW fills \in [1..n -> PositiveFill],
         NEW after, after = Positions(fills)
  PROVE  /\ after[0] = Flat
         /\ \A k \in 1..n : after[k] = ApplyFillTo(after[k - 1], fills[k])
         /\ \A k \in 0..n : Sound(after[k])
<1> DEFINE V == {p \in PositionType : Sound(p)}
           F == [x \in V \X (1..n) |-> ApplyFillTo(x[1], fills[x[2]])]
           Eq(h) == h = [k \in {0} \cup DOMAIN fills |->
                           IF k = 0 THEN Flat ELSE ApplyFillTo(h[k - 1], fills[k])]
<1>1. Flat \in V
  BY DEF Flat, Sound, PositionType
<1>2. \A p \in V, k \in 1..n : ApplyFillTo(p, fills[k]) \in V
  BY FillIsBooked DEF Sound
<1>3. F \in [V \X (1..n) -> V]
  BY <1>2
<1>4. \A p \in V, k \in 1..n : F[<<p, k>>] = ApplyFillTo(p, fills[k])
  OBVIOUS
<1>5. after = CHOOSE h : Eq(h)
  BY Zenon DEF Positions
<1>6. {0} \cup DOMAIN fills = 0..n
  OBVIOUS
<1> HIDE DEF V, F
<1>7. PICK g \in [0..n -> V] : Recursive(g, Flat, F, n)
  BY Zenon, <1>1, <1>3, Recursion
<1>8. Eq(g)
  <2>1. ASSUME NEW k \in 0..n, k # 0 PROVE g[k] = ApplyFillTo(g[k - 1], fills[k])
    <3>1. k \in 1..n /\ k - 1 \in 0..n
      BY <2>1
    <3> QED
      BY Zenon, <3>1, <1>4, <1>7 DEF Recursive
  <2> QED
    BY <1>6, <1>7, <2>1 DEF Recursive
<1>9. Eq(after)
  <2> HIDE DEF Eq
  <2> QED
    BY Zenon, <1>5, <1>8
<1>10. \A k \in 0..n : after[k] = IF k = 0 THEN Flat ELSE ApplyFillTo(after[k - 1], fills[k])
  BY Zenon, <1>6, <1>9
<1>11. 0 \in 0..n /\ \A k \in 1..n : k \in 0..n /\ k # 0 /\ k - 1 \in 0..n
  OBVIOUS
<1>12. after[0] = Flat /\ \A k \in 1..n : after[k] = ApplyFillTo(after[k - 1], fills[k])
  BY Zenon, <1>10, <1>11
<1> HIDE DEF Eq
<1>13. \A k \in 0..n : after[k] \in V
  <2> DEFINE T == {k \in Nat : k <= n => after[k] \in V}
  <2>1. 0 \in T
    BY <1>1, <1>12
  <2>2. ASSUME NEW k \in Nat, k \in T PROVE k + 1 \in T
    <3> SUFFICES ASSUME k + 1 <= n PROVE after[k + 1] \in V
      OBVIOUS
    <3>1. k + 1 \in 1..n /\ (k + 1) - 1 = k /\ after[k] \in V
      BY <2>2
    <3>2. after[k + 1] = ApplyFillTo(after[k], fills[k + 1])
      BY Zenon, <3>1, <1>12
    <3> QED
      BY Zenon, <3>1, <3>2, <1>2
  <2> HIDE DEF T
  <2>3. \A k \in Nat : k \in T
    BY Zenon, <2>1, <2>2, SetInduction
  <2> QED
    BY <2>3 DEF T
<1> QED
  BY Zenon, <1>12, <1>13 DEF V

\* One more fill: what its rounding takes the books off the money moved adds up.
LEMMA BookedAdd ==
  ASSUME NEW M \in Nat \ {0}, NEW B \in Int, NEW C \in Int, NEW L \in Nat,
         NEW e \in Int, NEW x \in Int, NEW l \in Nat,
         2 * Size(e) <= l, 2 * Size(B - M * C) <= M * L
  PROVE  2 * Size(B + M * (e - x) - M * (C - x)) <= M * (L + l)
<1>1. B + M * (e - x) - M * (C - x) = (B - M * C) + M * e
  OBVIOUS
<1>2. PICK d \in Int, y \in Int, u \in Nat, v \in Nat :
        d = B - M * C /\ y = M * e /\ u = M * L /\ v = M * l
  OBVIOUS
<1>3. M * (2 * Size(e)) <= M * l
  BY DEF Size
<1>4. 2 * Size(y) <= v
  BY <1>2, <1>3 DEF Size
<1>5. 2 * Size(d) <= u
  BY Zenon, <1>2
<1>6. 2 * Size(d + y) <= u + v
  BY <1>4, <1>5 DEF Size
<1>7. M * (L + l) = u + v
  BY <1>2
<1> QED
  BY Zenon, <1>1, <1>2, <1>6, <1>7

\* Whatever the fills of an instrument, the position behind them accounts for
\* the money they moved, up to the rounding of its average entry.
LEMMA FillsAreBooked ==
  ASSUME NEW n \in Nat, NEW fills \in [1..n -> PositiveFill],
         NEW after, after = Positions(fills)
  PROVE  /\ Sound(after[n])
         /\ n = 0 => after[n] = Flat /\ Cash(fills) = 0
         /\ Cash(fills) \in Int /\ Rounding(fills, after) \in Nat
         /\ 2 * Size(Booked(after[n]) - Multiplier * Cash(fills))
              <= Multiplier * Rounding(fills, after)
<1> DEFINE c == [k \in DOMAIN fills |-> 0 - SignedQty(fills[k]) * fills[k].px]
           z == [k \in DOMAIN fills |-> Size(after[k].qty)]
           grown == {k \in DOMAIN fills : SameSide(after[k - 1].qty, SignedQty(fills[k]))}
           upto(k) == {j \in grown : j <= k}
           Near(k) == 2 * Size(Booked(after[k]) - Multiplier * SumOf(c, 1..k))
                        <= Multiplier * SumOf(z, upto(k))
           T == {k \in Nat : k <= n => Near(k)}
<1>m. PICK M \in Nat \ {0} : M = Multiplier
  BY LedgerAssumption
<1>1. /\ after[0] = Flat
      /\ \A k \in 1..n : after[k] = ApplyFillTo(after[k - 1], fills[k])
      /\ \A k \in 0..n : Sound(after[k])
  BY Zenon, PositionsSteps
<1>2. DOMAIN fills = 1..n /\ \A k \in 1..n : k - 1 \in 0..n /\ k \in 0..n
  OBVIOUS
<1>3. \A k \in 0..n : Booked(after[k]) \in Int /\ after[k].qty \in Int
  BY SMTT(30), <1>1, LedgerAssumption DEF Booked, Sound, PositionType
<1>4. \A k \in 1..n : /\ c[k] = 0 - SignedQty(fills[k]) * fills[k].px /\ c[k] \in Int
                      /\ z[k] = Size(after[k].qty) /\ z[k] \in Nat
                      /\ k \in grown <=> SameSide(after[k - 1].qty, SignedQty(fills[k]))
  <2> SUFFICES ASSUME NEW k \in 1..n
               PROVE  SignedQty(fills[k]) * fills[k].px \in Int /\ Size(after[k].qty) \in Nat
    BY <1>2
  <2>1. SignedQty(fills[k]) \in Int /\ fills[k].px \in Nat \ {0}
    BY SignedFacts
  <2> QED
    BY SMTT(30), <1>2, <1>3, <2>1 DEF Size
<1>5. ASSUME NEW k \in 0..n
      PROVE  /\ IsFiniteSet(1..k) /\ \A j \in 1..k : j \in 1..n
             /\ upto(k) \in SUBSET (1..k) /\ IsFiniteSet(upto(k))
             /\ SumOf(c, 1..k) \in Int /\ SumOf(z, upto(k)) \in Nat
  <2>1. IsFiniteSet(1..k) /\ \A j \in 1..k : j \in 1..n
    BY FS_Interval
  <2>2. upto(k) \in SUBSET (1..k)
    BY <1>2
  <2>3. IsFiniteSet(upto(k))
    BY Zenon, <2>1, <2>2, FS_Subset
  <2> HIDE DEF c, z, upto
  <2>4. SumOf(c, 1..k) \in Int
    BY Zenon, <1>4, <2>1, SumType
  <2>5. SumOf(z, upto(k)) \in Nat
    BY Zenon, <1>4, <2>1, <2>2, SumMonotone
  <2> QED
    BY Zenon, <2>1, <2>2, <2>3, <2>4, <2>5
<1> HIDE DEF c, z
<1>6. 0 \in T
  <2>1. upto(0) = {} /\ 1..0 = {}
    BY SMTT(30), <1>2
  <2>2. Booked(after[0]) = 0
    BY <1>1, LedgerAssumption DEF Booked, Flat
  <2>3. 2 * Size(0 - Multiplier * 0) <= Multiplier * 0
    BY LedgerAssumption DEF Size
  <2>4. SumOf(c, {}) = 0 /\ SumOf(z, {}) = 0
    BY Zenon, SumEmpty
  <2>5. Near(0)
    BY Zenon, <2>1, <2>2, <2>3, <2>4
  <2> QED
    BY Zenon, <2>5
<1>7. ASSUME NEW k \in Nat, k \in T PROVE k + 1 \in T
  <2> SUFFICES ASSUME k + 1 <= n PROVE Near(k + 1)
    OBVIOUS
  <2>1. k \in 0..n /\ k + 1 \in 0..n /\ k + 1 \in 1..n /\ (k + 1) - 1 = k /\ Near(k)
    BY <1>7
  <2>2. /\ Sound(after[k]) /\ fills[k + 1] \in PositiveFill
        /\ after[k + 1] = ApplyFillTo(after[k], fills[k + 1])
    BY Zenon, <1>1, <2>1
  <2>p. PICK pos, new, f : pos = after[k] /\ new = after[k + 1] /\ f = fills[k + 1]
    OBVIOUS
  <2>3. PICK e \in Int :
          /\ Booked(new) = Booked(pos) + Multiplier * (e - SignedQty(f) * f.px)
          /\ 2 * Size(e) <= IF SameSide(pos.qty, SignedQty(f)) THEN Size(new.qty) ELSE 0
    <3>1. Sound(pos) /\ f \in PositiveFill /\ new = ApplyFillTo(pos, f)
      BY Zenon, <2>2, <2>p
    <3>2. \E e \in Int :
            /\ Booked(new) = Booked(pos) + Multiplier * (e - SignedQty(f) * f.px)
            /\ 2 * Size(e) <= IF SameSide(pos.qty, SignedQty(f)) THEN Size(new.qty) ELSE 0
      BY Zenon, <3>1, FillIsBooked
    <3> QED
      BY Zenon, <3>2
  <2>4. SumOf(c, 1..(k + 1)) = c[k + 1] + SumOf(c, 1..k)
    <3>1. 1..(k + 1) = (1..k) \cup {k + 1} /\ k + 1 \notin 1..k
      OBVIOUS
    <3> QED
      BY Zenon, <1>4, <1>5, <2>1, <3>1, SumAdd
  <2>5. SumOf(z, upto(k + 1)) = SumOf(z, upto(k))
          + (IF SameSide(after[k].qty, SignedQty(fills[k + 1])) THEN z[k + 1] ELSE 0)
    <3>1. CASE k + 1 \in grown
      <4>1. upto(k + 1) = upto(k) \cup {k + 1} /\ k + 1 \notin upto(k)
        BY <1>2, <3>1
      <4>2. SumOf(z, upto(k + 1)) = z[k + 1] + SumOf(z, upto(k))
        <5> HIDE DEF upto
        <5>2. \A j \in upto(k) : j \in 1..n
          BY Zenon, <1>5, <2>1
        <5> HIDE DEF grown
        <5>1. (\A j \in upto(k) : z[j] \in Int) /\ z[k + 1] \in Int
          BY <1>4, <2>1, <5>2
        <5> QED
          BY Zenon, <1>5, <2>1, <4>1, <5>1, SumAdd
      <4>3. SameSide(after[k].qty, SignedQty(fills[k + 1])) /\ z[k + 1] \in Nat
        BY Zenon, <1>4, <2>1, <3>1
      <4> HIDE DEF upto, grown
      <4> QED
        BY SMTT(30), <1>5, <2>1, <4>2, <4>3
    <3>2. CASE k + 1 \notin grown
      <4>1. upto(k + 1) = upto(k)
        BY <1>2, <3>2
      <4>2. ~SameSide(after[k].qty, SignedQty(fills[k + 1]))
        BY Zenon, <1>4, <2>1, <3>2
      <4> HIDE DEF upto, grown
      <4> QED
        BY SMTT(30), <1>5, <2>1, <4>1, <4>2
    <3> QED
      BY Zenon, <3>1, <3>2
  <2>6. PICK C \in Int, L \in Nat, B \in Int, x \in Int, l \in Nat :
          /\ C = SumOf(c, 1..k) /\ L = SumOf(z, upto(k)) /\ B = Booked(after[k])
          /\ x = SignedQty(fills[k + 1]) * fills[k + 1].px
          /\ l = IF SameSide(after[k].qty, SignedQty(fills[k + 1])) THEN z[k + 1] ELSE 0
    <3>1. SignedQty(fills[k + 1]) * fills[k + 1].px \in Int
      BY <2>2, SignedFacts
    <3> HIDE DEF upto, grown
    <3> QED
      BY Zenon, <1>3, <1>4, <1>5, <2>1, <3>1
  <2>7. /\ SumOf(c, 1..(k + 1)) = C - x /\ SumOf(z, upto(k + 1)) = L + l
        /\ Booked(after[k + 1]) = B + M * (e - x) /\ 2 * Size(e) <= l
        /\ 2 * Size(B - M * C) <= M * L
    <3> HIDE DEF upto, grown
    <3>1. c[k + 1] = 0 - x
      BY Zenon, <1>4, <2>1, <2>6
    <3>2. SumOf(c, 1..(k + 1)) = C - x
      BY <2>4, <2>6, <3>1
    <3>3. SumOf(z, upto(k + 1)) = L + l
      BY Zenon, <2>5, <2>6
    <3>4. Booked(after[k + 1]) = B + M * (e - x)
      BY Zenon, <1>m, <2>3, <2>6, <2>p
    <3>5. 2 * Size(e) <= l
      BY Zenon, <1>4, <2>1, <2>3, <2>6, <2>p
    <3>6. 2 * Size(B - M * C) <= M * L
      BY Zenon, <1>m, <2>1, <2>6
    <3> QED
      BY Zenon, <3>2, <3>3, <3>4, <3>5, <3>6
  <2>8. 2 * Size(B + M * (e - x) - M * (C - x)) <= M * (L + l)
    BY ZenonT(40), <2>7, BookedAdd
  <2> HIDE DEF upto
  <2> QED
    BY SMTT(30), <1>m, <2>7, <2>8
<1>8. \A k \in Nat : k \in T
  <2> HIDE DEF T
  <2> QED
    BY Zenon, <1>6, <1>7, SetInduction
<1>9. Near(n) /\ upto(n) = grown /\ n \in 0..n
  BY <1>2, <1>8
<1>10. Cash(fills) = SumOf(c, 1..n)
  <2>1. Cash(fills) = SumFunctionOnSet(c, 1..n)
    BY Zenon, <1>2 DEF Cash, SumFunction, c
  <2> QED
    BY Zenon, <1>4, <1>5, <1>9, <2>1, SumOfFunction
<1>11. Rounding(fills, after) = SumOf(z, grown)
  <2>1. Rounding(fills, after) = SumFunctionOnSet(z, grown)
    BY Zenon DEF Rounding, z
  <2>2. IsFiniteSet(grown) /\ \A k \in grown : z[k] \in Int
    <3>1. grown \in SUBSET (1..n) /\ IsFiniteSet(grown)
      BY Zenon, <1>5, <1>9
    <3> HIDE DEF grown
    <3>2. \A k \in 1..n : z[k] \in Int
      BY <1>4
    <3> QED
      BY Zenon, <3>1, <3>2
  <2> HIDE DEF grown
  <2> QED
    BY Zenon, <2>1, <2>2, SumOfFunction
<1>12. n = 0 => after[n] = Flat /\ Cash(fills) = 0
  <2> SUFFICES ASSUME n = 0 PROVE after[n] = Flat /\ Cash(fills) = 0
    OBVIOUS
  <2>1. 1..n = {}
    OBVIOUS
  <2>2. SumOf(c, {}) = 0
    BY Zenon, SumEmpty
  <2> QED
    BY Zenon, <1>1, <1>10, <2>1, <2>2
<1> HIDE DEF upto, grown
<1> QED
  BY Zenon, <1>1, <1>5, <1>9, <1>10, <1>11, <1>12

\* A set of reports with places of their own has an order.
LEMMA InOrderType ==
  ASSUME NEW R \in SUBSET ReportType, IsFiniteSet(R),
         \A x, y \in R : x # y => x.seq # y.seq
  PROVE  Cardinality(R) \in Nat /\ InOrder(R) \in [1..Cardinality(R) -> R]
<1> DEFINE n == Cardinality(R)
           below(x) == {y \in R : Before(y, x)}
           rank == [x \in R |-> Cardinality(below(x))]
<1>1. n \in Nat
  BY Zenon, FS_CardinalityType
<1>2. \A x \in R : x.due \in Nat /\ x.seq \in Nat
  BY DEF ReportType, FillType, StatusReportType
<1>3. ASSUME NEW x \in R
      PROVE  IsFiniteSet(below(x)) /\ Cardinality(below(x)) \in 0..(n - 1)
  <2>1. below(x) \in SUBSET R /\ x \notin below(x)
    BY <1>2 DEF Before
  <2>2. IsFiniteSet(below(x)) /\ Cardinality(below(x)) <= n /\ Cardinality(below(x)) # n
    BY Zenon, <2>1, FS_Subset
  <2>3. Cardinality(below(x)) \in Nat
    BY Zenon, <2>2, FS_CardinalityType
  <2> HIDE DEF below, n
  <2> QED
    BY <1>1, <2>2, <2>3
<1>4. ASSUME NEW x \in R, NEW y \in R, Before(x, y)
      PROVE  Cardinality(below(x)) # Cardinality(below(y))
  <2>1. below(x) \in SUBSET below(y) /\ x \in below(y) /\ x \notin below(x)
    BY <1>2, <1>4 DEF Before
  <2> QED
    BY Zenon, <1>3, <2>1, FS_Subset
<1>5. \A x, y \in R : x # y => Before(x, y) \/ Before(y, x)
  BY <1>2 DEF Before
<1>6. rank \in [R -> 0..(n - 1)] /\ \A x, y \in R : rank[x] = rank[y] => x = y
  <2> HIDE DEF below, n
  <2> QED
    BY Zenon, <1>3, <1>4, <1>5
<1>7. rank \in Injection(R, 0..(n - 1))
  <2> HIDE DEF rank, n
  <2> QED
    BY Zenon, <1>6 DEF Injection, IsInjective
<1>8. IsFiniteSet(0..(n - 1)) /\ Cardinality(0..(n - 1)) = n
  <2> HIDE DEF n
  <2>1. 0 \in Int /\ n - 1 \in Int /\ (IF 0 > n - 1 THEN 0 ELSE (n - 1) - 0 + 1) = n
    BY <1>1
  <2> QED
    BY Zenon, <2>1, FS_Interval
<1>9. rank \in Surjection(R, 0..(n - 1))
  BY Zenon, <1>7, <1>8, FS_Injection
<1>10. \A j \in 0..(n - 1) : \E x \in R : Cardinality(below(x)) = j
  BY Zenon, <1>9 DEF Surjection
<1>11. \A k \in 1..n : \E x \in R : Cardinality(below(x)) = k - 1
  <2> HIDE DEF below, n
  <2>1. \A k \in 1..n : k - 1 \in 0..(n - 1)
    BY <1>1
  <2> QED
    BY Zenon, <1>10, <2>1
<1> QED
  BY Zenon, <1>1, <1>11 DEF InOrder

\* Every report has its own place in the queue, and an instrument with fills has
\* a mark.
Numbered ==
  /\ \A x, y \in Reports : x # y => x.seq # y.seq
  /\ \A f \in Reports : f.kind = "Fill" => mark[f.inst] # None

\* A new report with the next place.
LEMMA NumberedNext ==
  ASSUME SessionInv, Numbered, UNCHANGED mark, NEW x, x.seq = queue_seq + 1, x.kind # "Fill",
         \A y \in Reports' : y \in Reports \/ y = x
  PROVE  Numbered'
<1>1. \A y \in Reports : y.seq \in Nat /\ y.seq <= queue_seq
  BY DEF SessionInv, VenueTypeOK, ReportInv, ReportType, FillType, StatusReportType
<1>2. queue_seq \in Nat
  BY Zenon DEF SessionInv, BookInv, BookOk
<1>3. \A y \in Reports : y.seq # x.seq
  BY <1>1, <1>2
<1> QED
  BY Zenon, <1>3 DEF Numbered

\* Numbered holds in every reachable state.
LEMMA NumberedInvariance == Spec => []Numbered
<1>1. Init => Numbered
  BY Zenon DEF Init, VenueInit, Numbered, Reports
<1>2. ASSUME SessionInv, Numbered, [Next]_vars PROVE Numbered'
  <2>1. ASSUME NEW c \in Coids, NEW t \in Tickets, Place(c, t) PROVE Numbered'
    <3>1. PICK o : OnSubmit(o) /\ log' = log /\ mark' = mark
      BY Zenon, <2>1 DEF Place, cacheVars
    <3>2. PICK x : x = Report(now + SubmitLatency, queue_seq + 1, "Accepted", o.coid)
      OBVIOUS
    <3>3. x.seq = queue_seq + 1 /\ x.kind # "Fill"
      BY <3>2 DEF Report
    <3>4. \A y \in Reports' : y \in Reports \/ y = x
      BY Zenon, <3>1, <3>2 DEF OnSubmit, Reports
    <3> QED
      BY Zenon, <1>2, <3>1, <3>3, <3>4, NumberedNext
  <2>2. ASSUME NEW c \in Coids, Cancel(c) PROVE Numbered'
    <3>1. OnCancel(c) /\ log' = log /\ mark' = mark /\ BookOk
      BY Zenon, <1>2, <2>2 DEF Cancel, cacheVars, sessionVars, SessionInv, BookInv
    <3>2. PICK x : x = Report(now + CancelLatency, queue_seq + 1, "Canceled", c)
      OBVIOUS
    <3>3. x.seq = queue_seq + 1 /\ x.kind # "Fill"
      BY <3>2 DEF Report
    <3>4. queue' = queue \/ queue' = queue \cup {x}
      BY Zenon, <3>1, <3>2, OnCancelEffect DEF venueVars
    <3>5. \A y \in Reports' : y \in Reports \/ y = x
      BY Zenon, <3>1, <3>4 DEF Reports
    <3> QED
      BY Zenon, <1>2, <3>1, <3>3, <3>5, NumberedNext
  <2>3. ASSUME NEW ev \in MarketEvents, Market(ev) PROVE Numbered'
    <3>1. /\ ev \in EventType /\ OnMarket(ev) /\ DataProcess(ev) /\ log' = log /\ BookOk
          /\ mark \in [Instruments -> MaybePrice]
      BY Zenon, <1>2, <2>3, SessionAssumption DEF Market, SessionInv, BookInv
    <3>2. CASE ev.kind = "Delta"
      <4>1. Reports' = Reports /\ mark' = mark
        BY Zenon, <3>1, <3>2 DEF OnMarket, DataProcess, venueVars, Reports
      <4> QED
        BY Zenon, <1>2, <4>1 DEF Numbered
    <3>3. CASE ev.kind # "Delta"
      <4>1. PICK H \in SUBSET resting, q \in [resting -> Nat], k \in [resting -> Nat],
                 n \in Nat : MarketEffect(ev, H, q, k, n)
        BY Zenon, <3>1, <3>3, OnMarketEffect
      <4>2. \A f \in Reports' : f \in Reports \/ \E r \in H : NewFill(f, r, ev, q[r], k[r])
        BY Zenon, <3>1, <4>1 DEF MarketEffect, Reports
      <4>3. /\ queue_seq \in Nat /\ \A y \in Reports : y.seq \in Nat /\ y.seq <= queue_seq
            /\ \A f \in Reports : f.kind = "Fill" => f.inst \in Instruments
        BY ZenonT(40), <1>2 DEF SessionInv, BookInv, BookOk, VenueTypeOK, ReportInv, ReportType, FillType,
           StatusReportType
      <4>4. \A r \in H : k[r] \in Nat \ {0} /\ r.inst = ev.inst
        BY ZenonT(40), <4>1, PastLast DEF MarketEffect
      <4>5. ASSUME NEW f, NEW r \in H, NewFill(f, r, ev, q[r], k[r])
            PROVE  /\ f.seq \in Nat /\ f.seq > queue_seq /\ f.seq = queue_seq + k[r]
                   /\ f.inst = ev.inst
        <5>1. f.seq = queue_seq + k[r] /\ f.inst = r.inst
          BY Zenon, <4>5 DEF NewFill
        <5> QED
          BY ZenonT(40), <4>3, <4>4, <5>1, PastLast
      <4>6. ASSUME NEW f, NEW g, NEW r \in H, NEW s \in H, f # g,
                   NewFill(f, r, ev, q[r], k[r]), NewFill(g, s, ev, q[s], k[s])
            PROVE  f.seq # g.seq
        <5>1. r # s
          BY Zenon, <4>6 DEF NewFill
        <5>2. k[r] # k[s]
          BY Zenon, <4>1, <5>1 DEF MarketEffect
        <5> QED
          BY SMTT(30), <4>3, <4>4, <4>5, <4>6, <5>2
      <4>7. /\ mark'[ev.inst] # None
            /\ \A i \in Instruments : mark[i] # None => mark'[i] # None
        <5>1. ev.inst \in Instruments /\ View(ev).close # None
          BY <3>1, <3>3, ViewType DEF EventType, PriceView
        <5>2. mark' = [mark EXCEPT ![ev.inst] = View(ev).close]
          BY Zenon, <3>1, <3>3 DEF DataProcess
        <5> QED
          BY Zenon, <3>1, <5>1, <5>2
      <4>8. ASSUME NEW x \in Reports', NEW y \in Reports', x # y PROVE x.seq # y.seq
        <5>1. CASE x \in Reports /\ y \in Reports
          BY Zenon, <1>2, <4>8, <5>1 DEF Numbered
        <5>2. CASE x \in Reports /\ y \notin Reports
          <6>1. x.seq \in Nat /\ x.seq <= queue_seq /\ y.seq \in Nat /\ y.seq > queue_seq
            BY Zenon, <4>2, <4>3, <4>5, <5>2
          <6> QED
            BY Zenon, <4>3, <6>1, PastLast
        <5>3. CASE x \notin Reports /\ y \in Reports
          <6>1. y.seq \in Nat /\ y.seq <= queue_seq /\ x.seq \in Nat /\ x.seq > queue_seq
            BY Zenon, <4>2, <4>3, <4>5, <5>3
          <6> QED
            BY Zenon, <4>3, <6>1, PastLast
        <5>4. CASE x \notin Reports /\ y \notin Reports
          BY Zenon, <4>2, <4>6, <4>8, <5>4
        <5> QED
          BY Zenon, <5>1, <5>2, <5>3, <5>4
      <4>9. ASSUME NEW f \in Reports', f.kind = "Fill" PROVE mark'[f.inst] # None
        <5>1. CASE f \in Reports
          BY Zenon, <1>2, <4>3, <4>7, <4>9, <5>1 DEF Numbered
        <5>2. CASE f \notin Reports
          <6>1. f.inst = ev.inst
            BY Zenon, <4>2, <4>5, <5>2
          <6> QED
            BY <4>7, <6>1
        <5> QED
          BY Zenon, <5>1, <5>2
      <4> QED
        BY Zenon, <4>8, <4>9 DEF Numbered
    <3> QED
      BY Zenon, <3>2, <3>3
  <2>4. CASE Advance \/ UNCHANGED vars
    <3>1. Reports' = Reports /\ mark' = mark
      BY <2>4 DEF Advance, vars, venueVars, sessionVars, cacheVars, Reports, DueBy
    <3> QED
      BY Zenon, <1>2, <3>1 DEF Numbered
  <2> QED
    BY Zenon, <1>2, <2>1, <2>2, <2>3, <2>4 DEF Next
<1> QED
  BY <1>1, <1>2, SessionInvariance, PTL DEF Spec

\* Prices are positive, after slippage and rounding too.
PositivePrices ==
  /\ \A f \in Reports : f.kind = "Fill" => f.px > 0
  /\ \A i \in Instruments : mark[i] # None => mark[i] > 0

\* The signed exposure of a position at a mark, as snapshot_portfolio adds it up.
Exposure(p, m) == (IF p.qty < 0 THEN 0 - 1 ELSE 1) * Notional(p, m)

\* What a sound position is worth at a mark: its exposure on top of Booked.
LEMMA WorthAtMark ==
  ASSUME NEW p, Sound(p), NEW m \in Nat \ {0}
  PROVE  /\ UnrealizedPnl(p, m) \in Int /\ Notional(p, m) \in Nat /\ Exposure(p, m) \in Int
         /\ Size(Exposure(p, m)) <= Notional(p, m)
         /\ p.realized + UnrealizedPnl(p, m) - Exposure(p, m) = Booked(p)
<1>1. PICK Q \in Int, a \in Int, R \in Int : Q = p.qty /\ a = p.avg /\ R = p.realized
  BY DEF Sound, PositionType
<1>2. PICK M \in Nat \ {0} : M = Multiplier
  BY LedgerAssumption
<1>3. PICK y \in Nat : y = Size(Q)
  BY DEF Size
<1>4. PICK g \in Nat : g = y * m * M
  OBVIOUS
<1>5. Notional(p, m) = g
  BY Zenon, <1>1, <1>2, <1>3, <1>4 DEF Notional
<1>6. PICK x \in Int : x = (IF Q < 0 THEN 0 - 1 ELSE 1) * g
  OBVIOUS
<1>7. x = Q * m * M /\ Size(x) <= g
  <2>1. CASE Q < 0
    <3>1. y = 0 - Q /\ x = 0 - g
      BY <1>3, <1>6, <2>1 DEF Size
    <3> QED
      BY <1>4, <3>1 DEF Size
  <2>2. CASE Q >= 0
    <3>1. y = Q /\ x = g
      BY <1>3, <1>6, <2>2 DEF Size
    <3> QED
      BY <1>4, <3>1 DEF Size
  <2> QED
    BY SMTT(30), <2>1, <2>2
<1>8. PICK u \in Int : u = Q * m * M - M * (Q * a)
  OBVIOUS
<1>9. UnrealizedPnl(p, m) = u
  <2>1. CASE Q = 0
    <3>1. PnlPerQty(a, m) \in Int
      BY <1>2 DEF PnlPerQty
    <3> QED
      BY SMTT(30), <1>1, <1>8, <2>1, <3>1 DEF UnrealizedPnl
  <2>2. CASE Q # 0
    <3>1. PnlPerQty(a, m) = M * (m - a)
      BY <1>1, <1>2, <2>2 DEF Sound, PnlPerQty
    <3>2. Q * (M * (m - a)) = u
      BY <1>8
    <3> QED
      BY <1>1, <3>1, <3>2 DEF UnrealizedPnl
  <2> QED
    BY Zenon, <2>1, <2>2
<1>10. Booked(p) = R + u - x
  BY <1>1, <1>2, <1>7, <1>8 DEF Booked
<1>11. Exposure(p, m) = x
  BY Zenon, <1>1, <1>5, <1>6 DEF Exposure
<1> QED
  BY Zenon, <1>1, <1>5, <1>7, <1>9, <1>10, <1>11

\* The books of one instrument.
LEMMA InstrumentBalance ==
  ASSUME SessionInv, Numbered, PositivePrices, NEW i \in Instruments,
         NEW fills, fills = FillsOn(i), NEW after, after = Positions(fills),
         NEW p, p = after[Cardinality(DOMAIN fills)]
  PROVE  /\ p.realized \in Int /\ Cash(fills) \in Int /\ Rounding(fills, after) \in Nat
         /\ mark[i] = None => p.realized = 0 /\ Cash(fills) = 0
         /\ mark[i] # None =>
              /\ UnrealizedPnl(p, mark[i]) \in Int /\ Notional(p, mark[i]) \in Nat
              /\ Exposure(p, mark[i]) \in Int
              /\ Size(Exposure(p, mark[i])) <= Notional(p, mark[i])
              /\ 2 * Size((p.realized + UnrealizedPnl(p, mark[i]))
                            - (Multiplier * Cash(fills) + Exposure(p, mark[i])))
                   <= Multiplier * Rounding(fills, after)
<1> DEFINE F == {x \in Reports : x.kind = "Fill" /\ x.inst = i}
           n == Cardinality(F)
<1>1. F \in SUBSET ReportType /\ IsFiniteSet(F) /\ \A x, y \in F : x # y => x.seq # y.seq
  <2>1. F \in SUBSET Reports
    OBVIOUS
  <2>2. IsFiniteSet(F)
    BY Zenon, <2>1, FS_Subset DEF SessionInv, ReportInv
  <2> QED
    BY Zenon, <2>1, <2>2 DEF SessionInv, VenueTypeOK, Numbered
<1>2. F \in SUBSET PositiveFill
  BY <1>1 DEF PositivePrices, PositiveFill, ReportType, StatusReportType
<1>3. n \in Nat /\ fills \in [1..n -> F]
  BY Zenon, <1>1, InOrderType DEF FillsOn
<1>4. fills \in [1..n -> PositiveFill] /\ DOMAIN fills = 1..n
  <2> HIDE DEF F, n
  <2> QED
    BY Zenon, <1>2, <1>3
<1>5. Cardinality(DOMAIN fills) = n
  <2> HIDE DEF F, n
  <2>1. 1 \in Int /\ n \in Int /\ (IF 1 > n THEN 0 ELSE n - 1 + 1) = n
    BY <1>3
  <2> QED
    BY Zenon, <1>4, <2>1, FS_Interval
<1>6. /\ Sound(p) /\ Cash(fills) \in Int /\ Rounding(fills, after) \in Nat
      /\ n = 0 => p = Flat /\ Cash(fills) = 0
      /\ 2 * Size(Booked(p) - Multiplier * Cash(fills)) <= Multiplier * Rounding(fills, after)
  <2> HIDE DEF F, n
  <2> QED
    BY ZenonT(40), <1>3, <1>4, <1>5, FillsAreBooked
<1>7. mark[i] = None => p.realized = 0 /\ Cash(fills) = 0
  <2> SUFFICES ASSUME mark[i] = None PROVE p.realized = 0 /\ Cash(fills) = 0
    OBVIOUS
  <2>1. F = {}
    BY Zenon DEF Numbered
  <2>2. n = 0
    BY Zenon, <2>1, FS_EmptySet
  <2> HIDE DEF F, n
  <2> QED
    BY SMTT(30), <1>6, <2>2 DEF Flat
<1>8. ASSUME mark[i] # None
      PROVE  /\ UnrealizedPnl(p, mark[i]) \in Int /\ Notional(p, mark[i]) \in Nat
             /\ Exposure(p, mark[i]) \in Int
             /\ Size(Exposure(p, mark[i])) <= Notional(p, mark[i])
             /\ 2 * Size((p.realized + UnrealizedPnl(p, mark[i]))
                           - (Multiplier * Cash(fills) + Exposure(p, mark[i])))
                  <= Multiplier * Rounding(fills, after)
  <2> HIDE DEF F, n
  <2>1. mark[i] \in Nat \ {0}
    BY <1>8 DEF SessionInv, BookInv, MaybePrice, PositivePrices
  <2>2. /\ UnrealizedPnl(p, mark[i]) \in Int /\ Notional(p, mark[i]) \in Nat
        /\ Exposure(p, mark[i]) \in Int
        /\ Size(Exposure(p, mark[i])) <= Notional(p, mark[i])
        /\ p.realized + UnrealizedPnl(p, mark[i]) - Exposure(p, mark[i]) = Booked(p)
    BY ZenonT(40), <1>6, <2>1, WorthAtMark
  <2>3. p.realized \in Int /\ Multiplier * Cash(fills) \in Int
    <3>1. p.realized \in Int /\ Cash(fills) \in Int /\ Multiplier \in Nat
      BY Zenon, <1>6, LedgerAssumption DEF Sound, PositionType
    <3>2. \A x \in Nat, y \in Int : x * y \in Int
      OBVIOUS
    <3> QED
      BY Zenon, <3>1, <3>2
  <2>4. (p.realized + UnrealizedPnl(p, mark[i])) - (Multiplier * Cash(fills) + Exposure(p, mark[i]))
          = Booked(p) - Multiplier * Cash(fills)
    BY <2>2, <2>3
  <2> QED
    BY Zenon, <1>6, <2>2, <2>4
<1>9. p.realized \in Int
  BY Zenon, <1>6 DEF Sound, PositionType
<1> QED
  BY Zenon, <1>6, <1>7, <1>8, <1>9

\* The books of two instruments together: what each is off the balance adds up, and so do
\* the exposures and what bounds them.
LEMMA BalanceAdd ==
  ASSUME NEW M \in Nat \ {0}, NEW r \in Int, NEW c \in Int, NEW l \in Nat, NEW o \in Int, NEW x \in Int,
         NEW R \in Int, NEW C \in Int, NEW L \in Nat, NEW O \in Int, NEW N \in Int,
         2 * Size((r + o) - (M * c + x)) <= M * l,
         2 * Size((R + O) - (M * C + N)) <= M * L
  PROVE  2 * Size(((r + R) + (o + O)) - (M * (c + C) + (x + N))) <= M * (l + L)
<1>1. M * (c + C) = M * c + M * C /\ M * (l + L) = M * l + M * L
  OBVIOUS
<1>2. PICK d \in Int, D \in Int, v \in Int, V \in Int :
        d = M * c /\ D = M * C /\ v = M * l /\ V = M * L
  OBVIOUS
<1>3. PICK y \in Int, Y \in Int : y = (r + o) - (d + x) /\ Y = (R + O) - (D + N)
  OBVIOUS
<1>4. 2 * Size(y) <= v /\ 2 * Size(Y) <= V
  BY Zenon, <1>2, <1>3
<1>5. ((r + R) + (o + O)) - ((d + D) + (x + N)) = y + Y
  BY <1>3
<1>6. 2 * Size(y + Y) <= v + V
  BY <1>4 DEF Size
<1> QED
  BY Zenon, <1>1, <1>2, <1>5, <1>6

\* An instrument with no books of its own leaves the balance as it is.
LEMMA BalanceKept ==
  ASSUME NEW M \in Nat \ {0}, NEW l \in Nat,
         NEW R \in Int, NEW C \in Int, NEW L \in Nat, NEW O \in Int, NEW N \in Int,
         2 * Size((R + O) - (M * C + N)) <= M * L
  PROVE  2 * Size((R + O) - (M * C + N)) <= M * (l + L)
<1>1. M * (l + L) = M * l + M * L /\ M * l \in Nat /\ M * L \in Nat
  OBVIOUS
<1>2. PICK y \in Int : y = (R + O) - (M * C + N)
  OBVIOUS
<1>3. PICK v \in Nat, V \in Nat, z \in Int : v = M * l /\ V = M * L /\ z = 2 * Size(y)
  BY <1>1 DEF Size
<1>4. z <= V => z <= v + V
  OBVIOUS
<1> QED
  BY Zenon, <1>1, <1>2, <1>3, <1>4

\* Sizes add up to no less than the size of the sum.
LEMMA SizeAdd ==
  ASSUME NEW x \in Int, NEW N \in Int, NEW g \in Nat, NEW G \in Nat, Size(x) <= g, Size(N) <= G
  PROVE  Size(x + N) <= g + G
BY DEF Size

\* The books of all instruments: per instrument, the profit realized and open, the
\* money moved, the exposure and the rounding, each summed up.
LEMMA BalanceOfSums ==
  ASSUME NEW S, IsFiniteSet(S), NEW K \in SUBSET S, NEW M \in Nat \ {0},
         NEW real, NEW cash, NEW slack, NEW open, NEW gross, NEW net,
         \A i \in S : real[i] \in Int /\ cash[i] \in Int /\ slack[i] \in Nat,
         \A i \in K : open[i] \in Int /\ gross[i] \in Nat /\ net[i] \in Int /\ Size(net[i]) <= gross[i],
         \A i \in S \ K : real[i] = 0 /\ cash[i] = 0,
         \A i \in K : 2 * Size((real[i] + open[i]) - (M * cash[i] + net[i])) <= M * slack[i]
  PROVE  /\ SumOf(real, S) \in Int /\ SumOf(open, K) \in Int
         /\ 2 * Size((SumOf(real, S) + SumOf(open, K)) - (M * SumOf(cash, S) + SumOf(net, K)))
              <= M * SumOf(slack, S)
         /\ Size(SumOf(net, K)) <= SumOf(gross, K)
<1> DEFINE Sums(s) ==
             /\ SumOf(real, s) \in Int /\ SumOf(cash, s) \in Int /\ SumOf(slack, s) \in Nat
             /\ SumOf(open, s \cap K) \in Int /\ SumOf(gross, s \cap K) \in Nat
             /\ SumOf(net, s \cap K) \in Int
           Near(s) ==
             2 * Size((SumOf(real, s) + SumOf(open, s \cap K))
                        - (M * SumOf(cash, s) + SumOf(net, s \cap K)))
               <= M * SumOf(slack, s)
           T == {s \in SUBSET S : Sums(s) /\ Near(s) /\ Size(SumOf(net, s \cap K)) <= SumOf(gross, s \cap K)}
<1>1. {} \in T
  <2>1. /\ {} \cap K = {} /\ 0 \in Nat /\ 0 \in Int /\ Size(0) <= 0
        /\ 2 * Size((0 + 0) - (M * 0 + 0)) <= M * 0
    BY DEF Size
  <2> QED
    BY ZenonT(40), <2>1, SumEmpty
<1>2. ASSUME NEW s \in SUBSET S, NEW i \in S \ s, s \in T PROVE s \cup {i} \in T
  <2> DEFINE t == s \cup {i}
  <2>1. IsFiniteSet(s) /\ IsFiniteSet(s \cap K) /\ s \cap K \in SUBSET K /\ i \notin s \cap K
    <3>1. s \cap K \subseteq S /\ s \cap K \in SUBSET K /\ i \notin s \cap K /\ s \subseteq S
      BY Zenon
    <3> QED
      BY ZenonT(40), <3>1, FS_Subset
  <2>2. /\ SumOf(real, t) = real[i] + SumOf(real, s)
        /\ SumOf(cash, t) = cash[i] + SumOf(cash, s)
        /\ SumOf(slack, t) = slack[i] + SumOf(slack, s)
    BY <2>1, SumAdd
  <2>3. PICK R \in Int, C \in Int, L \in Nat, O \in Int, G \in Nat, N \in Int :
          /\ R = SumOf(real, s) /\ C = SumOf(cash, s) /\ L = SumOf(slack, s)
          /\ O = SumOf(open, s \cap K) /\ G = SumOf(gross, s \cap K) /\ N = SumOf(net, s \cap K)
          /\ 2 * Size((R + O) - (M * C + N)) <= M * L /\ Size(N) <= G
    BY Zenon, <1>2
  <2>4. CASE i \in K
    <3>1. t \cap K = (s \cap K) \cup {i}
      BY Zenon, <2>4
    <3>2. /\ SumOf(open, t \cap K) = open[i] + O
          /\ SumOf(gross, t \cap K) = gross[i] + G
          /\ SumOf(net, t \cap K) = net[i] + N
      <4>1. /\ open[i] \in Int /\ \A j \in s \cap K : open[j] \in Int
            /\ gross[i] \in Int /\ \A j \in s \cap K : gross[j] \in Int
            /\ net[i] \in Int /\ \A j \in s \cap K : net[j] \in Int
        BY Zenon, <2>1, <2>4, AddFacts
      <4>2. SumOf(open, t \cap K) = open[i] + SumOf(open, s \cap K)
        BY Zenon, <2>1, <3>1, <4>1, SumAdd
      <4>3. SumOf(gross, t \cap K) = gross[i] + SumOf(gross, s \cap K)
        BY Zenon, <2>1, <3>1, <4>1, SumAdd
      <4>4. SumOf(net, t \cap K) = net[i] + SumOf(net, s \cap K)
        BY Zenon, <2>1, <3>1, <4>1, SumAdd
      <4> QED
        BY Zenon, <2>3, <4>2, <4>3, <4>4
    <3>3. PICK r \in Int, c \in Int, l \in Nat, o \in Int, g \in Nat, x \in Int :
            /\ r = real[i] /\ c = cash[i] /\ l = slack[i] /\ o = open[i] /\ g = gross[i] /\ x = net[i]
            /\ 2 * Size((r + o) - (M * c + x)) <= M * l /\ Size(x) <= g
      BY Zenon, <2>4
    <3>4. 2 * Size(((r + R) + (o + O)) - (M * (c + C) + (x + N))) <= M * (l + L)
      <4>1. 2 * Size((R + O) - (M * C + N)) <= M * L /\ 2 * Size((r + o) - (M * c + x)) <= M * l
        BY Zenon, <2>3, <3>3
      <4> QED
        BY ZenonT(40), <4>1, BalanceAdd
    <3>5. Size(x + N) <= g + G
      BY Zenon, <2>3, <3>3, SizeAdd
    <3>6. Near(t) /\ Size(SumOf(net, t \cap K)) <= SumOf(gross, t \cap K)
      BY Zenon, <2>2, <2>3, <3>2, <3>3, <3>4, <3>5
    <3>7. Sums(t)
      <4>1. /\ r + R \in Int /\ c + C \in Int /\ l + L \in Nat
            /\ o + O \in Int /\ g + G \in Nat /\ x + N \in Int
        BY Zenon, AddFacts, NatSum
      <4> QED
        BY Zenon, <2>2, <2>3, <3>2, <3>3, <4>1
    <3> QED
      BY ZenonT(40), <3>6, <3>7
  <2>5. CASE i \notin K
    <3>1. t \cap K = s \cap K /\ real[i] = 0 /\ cash[i] = 0
      BY Zenon, <2>5
    <3>2. PICK l \in Nat : l = slack[i]
      BY Zenon
    <3>3. 2 * Size((R + O) - (M * C + N)) <= M * (l + L)
      BY Zenon, <2>3, BalanceKept
    <3>4. SumOf(real, t) = R /\ SumOf(cash, t) = C /\ SumOf(slack, t) = l + L
      BY ZenonT(40), <2>2, <2>3, <3>1, <3>2, AddFacts
    <3>5. Near(t) /\ Size(SumOf(net, t \cap K)) <= SumOf(gross, t \cap K)
      BY Zenon, <2>3, <3>1, <3>3, <3>4
    <3>6. l + L \in Nat
      BY Zenon, NatSum
    <3>7. Sums(t)
      BY Zenon, <2>3, <3>1, <3>4, <3>6
    <3> QED
      BY ZenonT(40), <3>5, <3>7
  <2> QED
    BY ZenonT(40), <2>4, <2>5
<1>3. S \in T
  <2> HIDE DEF T
  <2> QED
    BY ZenonT(40), <1>1, <1>2, SubsetInduction
<1>4. S \cap K = K
  OBVIOUS
<1> QED
  BY ZenonT(40), <1>3, <1>4

\* Where prices are positive, the client's equity is the money its fills moved
\* plus its exposure at the mark, up to the rounding of the average entries, and
\* the exported snapshot shows it (Position::apply_fill, PortfolioState::equity,
\* snapshot_portfolio).  pnl_per_qty takes an entry of zero for none, so a price
\* of zero would go unaccounted.
THEOREM BooksAreBalanced == Spec => [](PositivePrices => BooksBalance)
<1>1. SessionInv /\ Numbered => (PositivePrices => BooksBalance)
  <2> SUFFICES ASSUME SessionInv, Numbered, PositivePrices PROVE BooksBalance
    OBVIOUS
  <2> DEFINE fills == [i \in Instruments |-> FillsOn(i)]
             after == [i \in Instruments |-> Positions(fills[i])]
             last == [i \in Instruments |-> after[i][Cardinality(DOMAIN fills[i])]]
             K == Marked(mark)
             real == [i \in Instruments |-> last[i].realized]
             cash == [i \in Instruments |-> Cash(fills[i])]
             slack == [i \in Instruments |-> Rounding(fills[i], after[i])]
             open == [i \in K |-> UnrealizedPnl(last[i], mark[i])]
             gross == [i \in K |-> Notional(last[i], mark[i])]
             net == [i \in K |-> (IF last[i].qty < 0 THEN 0 - 1 ELSE 1) * gross[i]]
             shown == SnapshotPortfolio(0, last, mark)
  <2>1. IsFiniteSet(Instruments) /\ K \in SUBSET Instruments /\ Multiplier \in Nat \ {0}
    BY Zenon, SessionAssumption, LedgerAssumption DEF Marked
  <2>2. IsFiniteSet(K)
    BY Zenon, <2>1, FS_Subset
  <2>3. ASSUME NEW i \in Instruments
        PROVE  /\ real[i] \in Int /\ cash[i] \in Int /\ slack[i] \in Nat
               /\ i \notin K => real[i] = 0 /\ cash[i] = 0
               /\ i \in K =>
                    /\ open[i] \in Int /\ gross[i] \in Nat /\ net[i] \in Int
                    /\ Size(net[i]) <= gross[i]
                    /\ 2 * Size((real[i] + open[i]) - (Multiplier * cash[i] + net[i]))
                         <= Multiplier * slack[i]
    <3>1. PICK f, a, p : f = FillsOn(i) /\ a = Positions(f) /\ p = a[Cardinality(DOMAIN f)]
      OBVIOUS
    <3>2. fills[i] = f /\ after[i] = a /\ last[i] = p
      BY Zenon, <3>1
    <3>3. real[i] = p.realized /\ cash[i] = Cash(f) /\ slack[i] = Rounding(f, a)
      BY Zenon, <3>2
    <3>4. i \in K <=> mark[i] # None
      BY Zenon DEF Marked
    <3>5. i \in K => /\ open[i] = UnrealizedPnl(p, mark[i]) /\ gross[i] = Notional(p, mark[i])
                     /\ net[i] = Exposure(p, mark[i])
      BY Zenon, <3>2 DEF Exposure
    <3> HIDE DEF fills, after, last, K, real, cash, slack, open, gross, net
    <3>6. /\ p.realized \in Int /\ Cash(f) \in Int /\ Rounding(f, a) \in Nat
          /\ mark[i] = None => p.realized = 0 /\ Cash(f) = 0
          /\ mark[i] # None =>
               /\ UnrealizedPnl(p, mark[i]) \in Int /\ Notional(p, mark[i]) \in Nat
               /\ Exposure(p, mark[i]) \in Int
               /\ Size(Exposure(p, mark[i])) <= Notional(p, mark[i])
               /\ 2 * Size((p.realized + UnrealizedPnl(p, mark[i]))
                             - (Multiplier * Cash(f) + Exposure(p, mark[i])))
                    <= Multiplier * Rounding(f, a)
      BY Zenon, <3>1, InstrumentBalance
    <3> QED
      BY Zenon, <3>3, <3>4, <3>5, <3>6
  <2>4. /\ SumFunction(real) = SumFunctionOnSet(real, Instruments)
        /\ SumFunction(cash) = SumFunctionOnSet(cash, Instruments)
        /\ SumFunction(slack) = SumFunctionOnSet(slack, Instruments)
        /\ SumFunction(open) = SumFunctionOnSet(open, K)
        /\ SumFunction(gross) = SumFunctionOnSet(gross, K)
        /\ SumFunction(net) = SumFunctionOnSet(net, K)
    BY Zenon DEF SumFunction
  <2>5. /\ shown.equity = 0 + SumFunction(real) + SumFunction(open)
        /\ Equity(0, last, mark) = 0 + SumFunction(real) + SumFunction(open)
        /\ shown.gross_exposure = SumFunction(gross)
        /\ shown.net_exposure = SumFunction(net)
    BY Zenon DEF SnapshotPortfolio, Equity
  <2>6. BooksBalance <=>
          /\ shown.equity = Equity(0, last, mark)
          /\ 2 * Size(shown.equity - (Multiplier * SumFunction(cash) + shown.net_exposure))
               <= Multiplier * SumFunction(slack)
          /\ Size(shown.net_exposure) <= shown.gross_exposure
    BY Zenon DEF BooksBalance
  <2> HIDE DEF fills, after, last, K, real, cash, slack, open, gross, net, shown
  <2>7. /\ SumFunction(real) = SumOf(real, Instruments)
        /\ SumFunction(cash) = SumOf(cash, Instruments)
        /\ SumFunction(slack) = SumOf(slack, Instruments)
    <3>1. \A i \in Instruments : real[i] \in Int /\ cash[i] \in Int /\ slack[i] \in Int
      BY <2>3
    <3> QED
      BY Zenon, <2>1, <2>4, <3>1, SumOfFunction
  <2>8. /\ SumFunction(open) = SumOf(open, K)
        /\ SumFunction(gross) = SumOf(gross, K)
        /\ SumFunction(net) = SumOf(net, K)
    <3>1. \A i \in K : open[i] \in Int /\ gross[i] \in Int /\ net[i] \in Int
      BY <2>1, <2>3
    <3> QED
      BY ZenonT(40), <2>2, <2>4, <3>1, SumOfFunction
  <2>9. /\ SumOf(real, Instruments) \in Int /\ SumOf(open, K) \in Int
        /\ 2 * Size((SumOf(real, Instruments) + SumOf(open, K))
                      - (Multiplier * SumOf(cash, Instruments) + SumOf(net, K)))
             <= Multiplier * SumOf(slack, Instruments)
        /\ Size(SumOf(net, K)) <= SumOf(gross, K)
    <3>1. \A i \in Instruments : real[i] \in Int /\ cash[i] \in Int /\ slack[i] \in Nat
      BY Zenon, <2>3
    <3>2. \A i \in K : /\ open[i] \in Int /\ gross[i] \in Nat /\ net[i] \in Int
                       /\ Size(net[i]) <= gross[i]
      BY Zenon, <2>1, <2>3
    <3>3. \A i \in Instruments \ K : real[i] = 0 /\ cash[i] = 0
      BY Zenon, <2>3
    <3>4. \A i \in K : 2 * Size((real[i] + open[i]) - (Multiplier * cash[i] + net[i]))
                        <= Multiplier * slack[i]
      BY Zenon, <2>1, <2>3
    <3> QED
      BY Zenon, <2>1, <3>1, <3>2, <3>3, <3>4, BalanceOfSums
  <2>10. 0 + SumOf(real, Instruments) + SumOf(open, K) = SumOf(real, Instruments) + SumOf(open, K)
    BY <2>9
  <2> QED
    BY Zenon, <2>5, <2>6, <2>7, <2>8, <2>9, <2>10
<1> QED
  BY <1>1, SessionInvariance, NumberedInvariance, PTL
=============================================================================

---------------------------- MODULE VenueSession ----------------------------
(***************************************************************************)
(* The simulated venue alone, driven by any client that never reuses a     *)
(* ClientOrderId: orders of every type, cancels at any moment, and bars,   *)
(* trades and quotes in any sequence.  "log" collects the reports the      *)
(* venue has released.  The account of the client is what Ledger makes of  *)
(* the fills.                                                              *)
(***************************************************************************)
EXTENDS SimVenue, Ledger, FiniteSetsExt

CONSTANTS
  Tickets,      \* the orders a client may place
  MarketEvents, \* the events the feed may carry
  MaxEvents,    \* bound on the events of a session
  MaxTime       \* bound on the clock

ASSUME SessionAssumption ==
  /\ Tickets \subseteq TicketType
  /\ MarketEvents \subseteq EventType
  /\ None \notin OrderType
  /\ IsFiniteSet(Instruments)

VARIABLES
  placed,       \* the order each client order id was placed with, or None
  log,          \* every report drained so far
  events        \* the number of market events so far

sessionVars == <<placed, log, events>>
vars == <<now, cacheVars, venueVars, sessionVars>>

Init ==
  /\ VenueInit
  /\ placed = [c \in Coids |-> None]
  /\ log = {}
  /\ events = 0

Place(c, t) ==
  /\ placed[c] = None
  /\ OnSubmit(NewOrder(c, t))
  /\ placed' = [placed EXCEPT ![c] = NewOrder(c, t)]
  /\ UNCHANGED <<now, cacheVars, log, events>>

Cancel(c) ==
  /\ OnCancel(c)
  /\ UNCHANGED <<now, cacheVars, sessionVars>>

Market(ev) ==
  /\ events < MaxEvents
  /\ DataProcess(ev)
  /\ OnMarket(ev)
  /\ events' = events + 1
  /\ UNCHANGED <<now, placed, log>>

\* The kernel moves the clock to a later frontier and drains what is due.
Advance ==
  /\ now < MaxTime
  /\ now' = now + 1
  /\ queue' = queue \ DueBy(now + 1)
  /\ log' = log \cup DueBy(now + 1)
  /\ UNCHANGED <<cacheVars, queue_seq, resting, venue_seq, trade_seq,
                 placed, events>>

Next ==
  \/ \E c \in Coids : \/ \E t \in Tickets : Place(c, t)
                      \/ Cancel(c)
  \/ \E ev \in MarketEvents : Market(ev)
  \/ Advance

Spec == Init /\ [][Next]_vars

----------------------------------------------------------------------------
Reports == queue \cup log

Of(c, kind) == {x \in Reports : x.coid = c /\ x.kind = kind}

RestingOf(c) == {r \in resting : r.coid = c}

Total(fills) == MapThenSumSet(LAMBDA f : f.qty, fills)

\* Reports and resting orders keep their types, and an order rests with
\* something left.
VenueTypeOK ==
  /\ resting \subseteq RestingType
  /\ Reports \subseteq ReportType
  /\ placed \in [Coids -> OrderType \cup {None}]

\* No order is executed for more than it was placed with, and every lot is
\* accounted for exactly once: the fills of an order, in the order they are
\* released, cover it without gap or overlap up to what still rests
\* (on_market's write-back of "remaining" against the scheduled fill).
LotsConserved ==
  \A c \in Coids :
    LET fills == Of(c, "Fill")
    IN  /\ \A f \in fills : f.qty > 0 /\ f.cum = Total({g \in fills : ~Before(f, g)})
        /\ \A r \in RestingOf(c) : Total(fills) + r.remaining = r.quantity
        /\ placed[c] # None /\ RestingOf(c) = {} /\ Of(c, "Canceled") = {} =>
             Total(fills) = placed[c].quantity

\* What the order management system relies on: an order's acceptance is
\* released before anything else about it, and a cancellation after
\* everything else, whatever the interleaving of cancels and fills and their
\* latencies (the due times pushed by on_submit, on_cancel and on_market).
ReportsInOrder ==
  \A x, y \in Reports :
    x.coid = y.coid /\ x # y =>
      /\ x.kind = "Accepted" => Before(x, y)
      /\ x.kind = "Canceled" => Before(y, x)

\* "A marketable LIMIT must never fill WORSE than its limit" (on_market): no
\* order placed with a limit price, stop-limits included, is filled beyond it,
\* whatever the open, the slippage and the kind of event.
NeverWorseThanLimit ==
  \A f \in Reports :
    f.kind = "Fill" /\ placed[f.coid].price # None =>
      Crosses(f.side, f.px, placed[f.coid].price)

\* "the trigger only tightens, never loosens" (on_market): no step moves the
\* trigger of a resting order against its owner.
TriggerOnlyTightens ==
  [][\A r \in resting, s \in resting' :
       r.coid = s.coid /\ r.trigger # None =>
         IF r.side = "Sell" THEN s.trigger >= r.trigger
                            ELSE s.trigger <= r.trigger]_vars

\* Reports in the order the venue releases them.
InOrder(reports) ==
  [k \in 1..Cardinality(reports) |->
     CHOOSE x \in reports : Cardinality({y \in reports : Before(y, x)}) = k - 1]

\* The client's position in an instrument behind each of its fills.
Positions(fills) ==
  LET after[k \in {0} \cup DOMAIN fills] ==
        IF k = 0 THEN Flat ELSE ApplyFillTo(after[k - 1], fills[k])
  IN  after

FillsOn(i) == InOrder({x \in Reports : x.kind = "Fill" /\ x.inst = i})

\* What the fills brought less what they cost, in ticks.
Cash(fills) == SumFunction([k \in DOMAIN fills |-> 0 - SignedQty(fills[k]) * fills[k].px])

\* The rounding of the average entry: half a tick for each lot of a position
\* that a fill increased, in units of half a tick.
Rounding(fills, after) ==
  SumFunctionOnSet([k \in DOMAIN fills |-> Size(after[k].qty)],
                   {k \in DOMAIN fills : SameSide(after[k - 1].qty, SignedQty(fills[k]))})

\* The client's equity is the money paid and received plus its net exposure at
\* the mark, but for the rounding of the average entry, through increases,
\* reductions, closings and flips; and the snapshot the kernels export shows
\* the equity the risk checks use (Position::apply_fill,
\* PortfolioState::equity, snapshot_portfolio).
BooksBalance ==
  LET fills == [i \in Instruments |-> FillsOn(i)]
      after == [i \in Instruments |-> Positions(fills[i])]
      last  == [i \in Instruments |-> after[i][Cardinality(DOMAIN fills[i])]]
      cash  == SumFunction([i \in Instruments |-> Cash(fills[i])])
      slack == SumFunction([i \in Instruments |-> Rounding(fills[i], after[i])])
      shown == SnapshotPortfolio(0, last, mark)
  IN  /\ shown.equity = Equity(0, last, mark)
      /\ 2 * Size(shown.equity - (Multiplier * cash + shown.net_exposure)) <= Multiplier * slack
      /\ Size(shown.net_exposure) <= shown.gross_exposure

\* A trailing stop placed before the first mark "rests inert until one exists"
\* (on_submit): once the instrument has a mark, the stop trails it.
TrailArmsOnceMarked ==
  \A r \in resting :
    r.type = "TrailingStopMarket" /\ mark[r.inst] # None => r.offset # None
=============================================================================

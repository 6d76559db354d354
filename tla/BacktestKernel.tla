--------------------------- MODULE BacktestKernel ---------------------------
(***************************************************************************)
(* BacktestKernel::run (coinext-kernel/src/backtest.rs): the event loop    *)
(* that merges market data, delayed reports, timers and expiries on one    *)
(* time frontier, around an arbitrary strategy.                            *)
(*                                                                         *)
(* The loop is a program counter.  A strategy handler may queue any short  *)
(* sequence of commands and set or cancel a timer; a command that the      *)
(* kernel ignores (Modify) is left out.  The feed is chosen event by event *)
(* because nothing reads ahead of its cursor.  Whether equity is below the *)
(* maintenance requirement is a free choice.                               *)
(***************************************************************************)
EXTENDS ExecEngine, Sequences

CONSTANTS
  Tickets,            \* the orders a strategy may submit
  MarketEvents,       \* the events the feed may carry
  Underlying,         \* Instrument::underlying of an option, or None
  MaintenanceMargin,  \* a maintenance margin rate is configured
  TimerDelays,        \* how far from now a strategy sets its timers
  MaxEvents,          \* bound on the length of the feed
  MaxGap,             \* bound on the time between two events
  MaxCommands,        \* bound on the commands of a run
  MaxPerCall,         \* bound on the commands of one handler call
  MaxTimers           \* bound on the timers of a run

ASSUME KernelAssumption ==
  /\ Tickets \subseteq TicketType
  /\ MarketEvents \subseteq EventType
  /\ Expiry \in [Instruments -> Nat \cup {None}]
  /\ TimerDelays \subseteq Int
  /\ MaxGap \in Nat

VARIABLES
  pc,         \* where the loop is
  ret,        \* where it continues once the outbox is processed
  frontier,   \* the frontier of this iteration
  feed,       \* the event at the cursor with its time, or None
  events,     \* the number of events dealt by the feed
  batch,      \* the drained reports not yet applied
  outbox,     \* StrategyContext::outbox
  cmds,       \* the drained commands not yet processed
  commands,   \* the number of commands queued so far
  timers,     \* HistoricalClock::heap
  next_id,    \* HistoricalClock::next_id
  cancelled,  \* HistoricalClock::cancelled
  fired,      \* the popped timers whose handler has not run
  unsettled,  \* the dated contracts from the expiry cursor on
  settling,   \* the contract being settled, or None
  open,       \* its orders still to be cancelled
  flatten,    \* the positions still to be liquidated
  closed_out  \* lots moved by SETTLE and LIQ fills (auxiliary)

strategyVars == <<outbox, commands, timers, next_id, cancelled>>
marketVars == <<now, cacheVars, frontier, feed, events>>
closeVars == <<unsettled, settling, open, flatten, closed_out>>
vars == <<marketVars, engineVars, strategyVars, closeVars, pc, ret, batch,
          cmds, fired>>

----------------------------------------------------------------------------
\* The feed and the strategy

\* The next event of the sorted feed, at or after the time of the last one.
NextEvent(last, dealt) ==
  {None} \cup
  IF dealt = MaxEvents THEN {}
  ELSE {[ts |-> last + gap, ev |-> ev] : gap \in 0..MaxGap, ev \in MarketEvents}

Commands ==
  {[cmd |-> "Submit", order |-> NewOrder(c, t)] : c \in Coids, t \in Tickets}
    \cup {[cmd |-> "Cancel", coid |-> c] : c \in Coids}

SetTimer ==
  /\ next_id <= MaxTimers
  /\ \E d \in TimerDelays :
       timers' = timers \cup {[at |-> now + d, id |-> next_id]}
  /\ next_id' = next_id + 1
  /\ UNCHANGED cancelled

CancelTimer ==
  /\ \E id \in 1..(next_id - 1) :
       id \notin cancelled /\ cancelled' = cancelled \cup {id}
  /\ UNCHANGED <<timers, next_id>>

\* One call of a strategy handler: its commands wait in the outbox.
Handler ==
  /\ \E n \in 0..MaxPerCall :
       /\ commands + n <= MaxCommands
       /\ commands' = commands + n
       /\ \E s \in [1..n -> Commands] : outbox' = outbox \o s
  /\ \/ SetTimer
     \/ CancelTimer
     \/ UNCHANGED <<timers, next_id, cancelled>>

\* notify_event, for an operation that may raise no event.
Notify(raised) == IF raised THEN Handler ELSE UNCHANGED strategyVars

----------------------------------------------------------------------------
Init ==
  /\ EngineInit
  /\ pc = "start"
  /\ ret = "loop"
  /\ frontier = 0
  /\ events = 0
  /\ feed \in NextEvent(0, 0)
  /\ batch = {}
  /\ outbox = <<>>
  /\ cmds = <<>>
  /\ commands = 0
  /\ timers = {}
  /\ next_id = 1
  /\ cancelled = {}
  /\ fired = {}
  /\ unsettled = {i \in Instruments : Expiry[i] # None}
  /\ settling = None
  /\ open = {}
  /\ flatten = {}
  /\ closed_out = [i \in Instruments |-> 0]

Goto(label) == pc' = label /\ UNCHANGED ret

\* process_outbox, then continue at label.
ProcessOutboxThen(label) == pc' = "drain" /\ ret' = label

OnStart ==
  /\ pc = "start"
  /\ Handler
  /\ ProcessOutboxThen("loop")
  /\ UNCHANGED <<marketVars, engineVars, closeVars, batch, cmds, fired>>

\* process_outbox takes the outbox once: what handlers queue while it runs
\* waits for the next call.
DrainOutbox ==
  /\ pc = "drain"
  /\ cmds' = outbox
  /\ outbox' = <<>>
  /\ pc' = IF outbox = <<>> THEN ret ELSE "outbox"
  /\ UNCHANGED <<marketVars, engineVars, closeVars, commands, timers, next_id,
                 cancelled, ret, batch, fired>>

AfterCommand ==
  /\ cmds' = Tail(cmds)
  /\ pc' = IF Tail(cmds) = <<>> THEN ret ELSE "outbox"
  /\ UNCHANGED <<marketVars, closeVars, ret, batch, fired>>

ProcessSubmit ==
  /\ pc = "outbox"
  /\ Head(cmds).cmd = "Submit"
  /\ \E funded \in BOOLEAN : Submit(Head(cmds).order, funded)
  /\ Notify(SubmitApplies(Head(cmds).order))
  /\ AfterCommand

ProcessCancel ==
  /\ pc = "outbox"
  /\ Head(cmds).cmd = "Cancel"
  /\ Cancel(Head(cmds).coid)
  /\ Notify(CancelApplies(Head(cmds).coid))
  /\ AfterCommand

----------------------------------------------------------------------------
\* The loop

\* next_market, next_sim, next_timer and next_expiry.
Pending ==
  {x.ts : x \in {feed} \ {None}}
    \cup {s.due : s \in queue}
    \cup {t.at : t \in {u \in timers : u.id \notin cancelled}}
    \cup {Expiry[i] : i \in unsettled}

\* The frontier moves to the earliest of them; the clock never moves back.
Advance ==
  /\ pc = "loop"
  /\ \E f \in Pending :
       /\ \A x \in Pending : f <= x
       /\ frontier' = f
       /\ now' = Hi(now, f)
       /\ batch' = DueBy(f)
       /\ queue' = queue \ DueBy(f)
  /\ Goto("reports")
  /\ UNCHANGED <<cacheVars, omsVars, close_by_day, queue_seq, resting,
                 venue_seq, trade_seq, strategyVars, closeVars, feed, events,
                 cmds, fired>>

\* No frontier: the loop ends, and on_stop has the last word.
OnStop ==
  /\ pc = "loop"
  /\ Pending = {}
  /\ Handler
  /\ ProcessOutboxThen("done")
  /\ UNCHANGED <<marketVars, engineVars, closeVars, batch, cmds, fired>>

\* Step 1: apply the drained reports in (due, seq) order.
Deliver(rep) ==
  /\ pc = "reports"
  /\ rep \in batch
  /\ \A x \in batch \ {rep} : Before(rep, x)
  /\ ApplyReport(rep)
  /\ Notify(Applies(rep))
  /\ batch' = batch \ {rep}
  /\ UNCHANGED <<marketVars, venueVars, close_by_day, closeVars, pc, ret, cmds,
                 fired>>

ReportsDone ==
  /\ pc = "reports"
  /\ batch = {}
  /\ ProcessOutboxThen("timers")
  /\ UNCHANGED <<marketVars, engineVars, strategyVars, closeVars, batch, cmds,
                 fired>>

\* Variant: a fired timer stays in the heap.
PopTimersKept ==
  /\ pc = "timers"
  /\ fired' = {t \in timers : t.at <= frontier /\ t.id \notin cancelled}
  /\ Goto("fire")
  /\ UNCHANGED <<marketVars, engineVars, closeVars, strategyVars, batch, cmds>>

\* Step 2: pop_due takes every due timer before the first handler runs.
PopTimers ==
  LET due == {t \in timers : t.at <= frontier} IN
  /\ pc = "timers"
  /\ fired' = {t \in due : t.id \notin cancelled}
  /\ timers' = timers \ due
  /\ cancelled' = cancelled \ {t.id : t \in due}
  /\ Goto("fire")
  /\ UNCHANGED <<marketVars, engineVars, closeVars, outbox, commands, next_id,
                 batch, cmds>>

OnTimer(t) ==
  /\ pc = "fire"
  /\ t \in fired
  /\ \A u \in fired : t.at < u.at \/ (t.at = u.at /\ t.id <= u.id)
  /\ fired' = fired \ {t}
  /\ Handler
  /\ ProcessOutboxThen("fire")
  /\ UNCHANGED <<marketVars, engineVars, closeVars, batch, cmds>>

TimersDone ==
  /\ pc = "fire"
  /\ fired = {}
  /\ Goto("market")
  /\ UNCHANGED <<marketVars, engineVars, strategyVars, closeVars, batch, cmds,
                 fired>>

\* Step 3: the market event at the frontier updates the cache, is matched by
\* the venue, and then reaches the strategy.
ProcessMarket ==
  /\ pc = "market"
  /\ feed # None
  /\ feed.ts = frontier
  /\ DataProcess(feed.ev)
  /\ OnMarket(feed.ev)
  /\ feed' \in NextEvent(feed.ts, events + 1)
  /\ events' = events + 1
  /\ Goto("dispatch")
  /\ UNCHANGED <<now, frontier, omsVars, close_by_day, strategyVars, closeVars,
                 batch, cmds, fired>>

DispatchMarket ==
  /\ pc = "dispatch"
  /\ Handler
  /\ ProcessOutboxThen("settle")
  /\ UNCHANGED <<marketVars, engineVars, closeVars, batch, cmds, fired>>

NoMarket ==
  /\ pc = "market"
  /\ ~(feed # None /\ feed.ts = frontier)
  /\ Goto("settle")
  /\ UNCHANGED <<marketVars, engineVars, strategyVars, closeVars, batch, cmds,
                 fired>>

----------------------------------------------------------------------------
\* Step 4: expiries

\* settle_contract has a settlement price: an option's underlying spot (never
\* the option itself), else the contract's own mark.
SettlePriceKnown(i) ==
  \/ Underlying[i] \notin {None, i} /\ mark[Underlying[i]] # None
  \/ mark[i] # None

\* close_position_at: a synthetic fill of the whole position, straight into the
\* cache; the strategy is notified and its outbox processed.
ClosePosition(i, label) ==
  /\ positions[i] # 0
  /\ positions' = [positions EXCEPT ![i] = 0]
  /\ closed_out' = [closed_out EXCEPT ![i] = @ - positions[i]]
  /\ Handler
  /\ ProcessOutboxThen(label)
  /\ UNCHANGED <<orders, seen_trade_ids, bought_today>>

LeavePosition(label) ==
  /\ Goto(label)
  /\ UNCHANGED <<omsVars, closed_out, strategyVars>>

\* settle_expiries takes the contracts in expiry order.
SettleContract(i) ==
  /\ pc = "settle"
  /\ i \in unsettled
  /\ Expiry[i] <= frontier
  /\ \A j \in unsettled : Expiry[i] <= Expiry[j]
  /\ unsettled' = unsettled \ {i}
  /\ settling' = i
  /\ IF SettlePriceKnown(i) /\ positions[i] # 0
     THEN ClosePosition(i, "settled") ELSE LeavePosition("settled")
  /\ UNCHANGED <<marketVars, venueVars, close_by_day, open, flatten, batch,
                 cmds, fired>>

\* Variant: the orders on the dead contract are forgotten.
CollectNothing ==
  /\ pc = "settled"
  /\ open' = {}
  /\ Goto("cancels")
  /\ UNCHANGED <<marketVars, engineVars, strategyVars, unsettled, settling,
                 flatten, closed_out, batch, cmds, fired>>

\* The orders on the dead contract, as they are once its position is closed.
CollectOpen ==
  /\ pc = "settled"
  /\ open' = {c \in Coids : /\ orders[c] # None
                            /\ orders[c].inst = settling
                            /\ ~IsTerminal(orders[c])}
  /\ Goto("cancels")
  /\ UNCHANGED <<marketVars, engineVars, strategyVars, unsettled, settling,
                 flatten, closed_out, batch, cmds, fired>>

\* Cancelled in the cache's hash order; the outbox is not processed here.
CancelOpen(c) ==
  /\ pc = "cancels"
  /\ c \in open
  /\ Cancel(c)
  /\ Notify(CancelApplies(c))
  /\ open' = open \ {c}
  /\ UNCHANGED <<marketVars, unsettled, settling, flatten, closed_out, pc, ret,
                 batch, cmds, fired>>

ContractSettled ==
  /\ pc = "cancels"
  /\ open = {}
  /\ settling' = None
  /\ Goto("settle")
  /\ UNCHANGED <<marketVars, engineVars, strategyVars, unsettled, open, flatten,
                 closed_out, batch, cmds, fired>>

\* Step 5: check_liquidation.  A margin call needs exposure; it takes every
\* open position, marked or not.
CheckLiquidation ==
  /\ pc = "settle"
  /\ \A i \in unsettled : Expiry[i] > frontier
  /\ \/ /\ MaintenanceMargin
        /\ GrossExposure(positions, mark) > 0
        /\ flatten' = {i \in Instruments : positions[i] # 0}
        /\ Goto("flatten")
     \/ /\ UNCHANGED flatten
        /\ Goto("loop")
  /\ UNCHANGED <<marketVars, engineVars, strategyVars, unsettled, settling,
                 open, closed_out, batch, cmds, fired>>

Liquidate(i) ==
  /\ pc = "flatten"
  /\ i \in flatten
  /\ flatten' = flatten \ {i}
  /\ IF mark[i] # None /\ positions[i] # 0
     THEN ClosePosition(i, "flatten") ELSE LeavePosition("flatten")
  /\ UNCHANGED <<marketVars, venueVars, close_by_day, unsettled, settling, open,
                 batch, cmds, fired>>

LiquidationDone ==
  /\ pc = "flatten"
  /\ flatten = {}
  /\ Goto("loop")
  /\ UNCHANGED <<marketVars, engineVars, strategyVars, closeVars, batch, cmds,
                 fired>>

----------------------------------------------------------------------------
Step ==
  \/ OnStart \/ Advance \/ OnStop
  \/ DrainOutbox \/ ProcessSubmit \/ ProcessCancel
  \/ (\E rep \in batch : Deliver(rep)) \/ ReportsDone
  \/ PopTimers \/ (\E t \in fired : OnTimer(t)) \/ TimersDone
  \/ ProcessMarket \/ DispatchMarket \/ NoMarket
  \/ (\E i \in unsettled : SettleContract(i)) \/ CollectOpen
  \/ (\E c \in open : CancelOpen(c)) \/ ContractSettled
  \/ CheckLiquidation \/ (\E i \in flatten : Liquidate(i)) \/ LiquidationDone

\* run has returned.
Done == pc = "done" /\ UNCHANGED vars

Next == Step \/ Done

Spec == Init /\ [][Next]_vars

\* The kernel is one thread that never waits.
FairSpec == Spec /\ WF_vars(Step)

----------------------------------------------------------------------------
\* Properties

InFlight == queue \cup batch

FillsOf(c) == {f \in InFlight : f.kind = "Fill" /\ f.coid = c}

RestingOf(c) == {r \in resting : r.coid = c}

CommandType ==
  [cmd : {"Submit"}, order : OrderType] \cup [cmd : {"Cancel"}, coid : Coids]

EngineType ==
  /\ now \in Nat
  /\ queue \subseteq ReportType /\ batch \subseteq ReportType
  /\ queue_seq \in Nat /\ venue_seq \in Nat /\ trade_seq \in Nat
  /\ resting \subseteq RestingType
  /\ orders \in [Coids -> TrackedType \cup {None}]
  /\ positions \in [Instruments -> Int]

\* Where the loop continues once an outbox is processed.
Resume == {"loop", "timers", "fire", "settle", "settled", "flatten", "done"}

LoopType ==
  /\ pc \in Resume \cup {"start", "drain", "outbox", "reports", "market",
                         "dispatch", "cancels"}
  /\ ret \in Resume
  /\ pc = "outbox" => cmds # <<>>
  /\ mark \in [Instruments -> MaybePrice]
  /\ feed \in [ts : Nat, ev : EventType] \cup {None}
  /\ outbox \in Seq(CommandType) /\ cmds \in Seq(CommandType)
  /\ timers \subseteq [at : Int, id : Nat] /\ next_id \in Nat
  /\ unsettled \subseteq {i \in Instruments : Expiry[i] # None}
  /\ open \subseteq Coids /\ flatten \subseteq Instruments

\* What the engine and the loop hold is well formed; in particular no order is
\* ever cached without an instrument and no report is queued for an unknown id.
TypeOK == EngineType /\ LoopType

\* The order state machine never refuses a report for coming too early: while
\* an order is Submitted its acceptance is under way and ahead of every fill
\* and cancellation (the due times of on_submit, on_cancel and on_market).
AcceptedFirst ==
  \A c \in Coids :
    orders[c] # None /\ orders[c].status = "Submitted" =>
      \E a \in InFlight :
        /\ a.coid = c
        /\ a.kind = "Accepted"
        /\ \A x \in InFlight \ {a} : x.coid = c => Before(a, x)

\* Statuses of an order the venue may still act on.
Working == {"Submitted", "Accepted", "PartiallyFilled"}

BatchInv ==
  /\ batch # {} => pc = "reports"
  /\ \A x \in batch, y \in queue : Before(x, y)

RestOk(r) ==
  /\ r.venue_order_id <= venue_seq
  /\ r.offset # None => r.extreme # None
  /\ orders[r.coid] # None
  /\ orders[r.coid].status \in Working
  /\ orders[r.coid].quantity = r.quantity
  /\ orders[r.coid].filled + r.remaining <= r.quantity

RestingInv ==
  /\ IsFiniteSet(resting)
  /\ \A r \in resting : RestOk(r)
  /\ \A r, s \in resting :
       r # s => r.coid # s.coid /\ r.venue_order_id # s.venue_order_id

FillOk(f) ==
  /\ orders[f.coid].filled + f.qty <= f.cum
  /\ f.cum <= orders[f.coid].quantity
  /\ f.trade_id <= trade_seq
  /\ f.trade_id \notin seen_trade_ids
  /\ \A r \in resting : r.coid = f.coid => f.cum + r.remaining <= r.quantity

ReportOk(x) ==
  /\ x.seq <= queue_seq
  /\ x.due <= now + CancelLatency
  /\ x.kind # "Canceled" => x.due <= now + SubmitLatency
  /\ orders[x.coid] # None
  /\ orders[x.coid].status \in Working \cup {"PendingCancel"}
  /\ x.kind = "Accepted" => orders[x.coid].status = "Submitted"
  /\ x.kind = "Canceled" => \A r \in resting : r.coid # x.coid
  /\ x.kind = "Fill" => FillOk(x)

\* Two reports in flight, in the order of the queue.
PairOk(x, y) ==
  /\ x.kind = "Fill" /\ y.kind = "Fill" => x.trade_id # y.trade_id
  /\ x.coid = y.coid =>
       /\ Before(x, y) \/ Before(y, x)
       /\ x.kind = "Accepted" => Before(x, y)
       /\ x.kind = "Canceled" =>
            /\ Before(y, x)
            /\ y.kind = "Fill" => y.cum < orders[y.coid].quantity
       /\ x.kind = "Fill" /\ y.kind = "Fill" /\ Before(x, y) =>
            x.cum + y.qty <= y.cum

PairInv == \A x, y \in InFlight : x # y => PairOk(x, y)

OrderOk(c) ==
  /\ orders[c].filled <= orders[c].quantity
  /\ orders[c].filled = orders[c].quantity <=> orders[c].status = "Filled"
  /\ orders[c].status \in
       Working \cup {"PendingCancel", "Filled", "Canceled", "Denied"}
  /\ orders[c].status = "Submitted" =>
       \E a \in InFlight : a.coid = c /\ a.kind = "Accepted"

OrderInv ==
  /\ \A c \in Coids : orders[c] # None => OrderOk(c)
  /\ \A t \in seen_trade_ids : t \in Nat /\ t <= trade_seq

\* The inductive invariant behind the proofs: how the cached orders, what rests
\* at the venue and what is in flight fit together.  The reports of an order
\* are totally ordered, acceptance first and cancellation last; its fills tile
\* its quantity from what the cache shows up to what rests; a trade id in
\* flight is new; the drained batch is ahead of the queue.
OrderFlow ==
  /\ BatchInv
  /\ RestingInv
  /\ \A x \in InFlight : ReportOk(x)
  /\ PairInv
  /\ OrderInv

Total(S) == MapThenSumSet(LAMBDA f : f.qty, S)

Left(c) == MapThenSumSet(LAMBDA r : r.remaining, RestingOf(c))

\* No lot is filled twice, invented or lost: an order's quantity is split
\* between what the cache shows as filled, the fills still under way and what
\* rests at the venue.  Only a cancel request may make it less.
LotsAccounted ==
  \A c \in Coids :
    orders[c] # None =>
      LET o == orders[c]
          lots == o.filled + Total(FillsOf(c)) + Left(c)
      IN  IF o.status = "Denied" THEN lots = 0
          ELSE /\ lots <= o.quantity
               /\ \/ lots = o.quantity
                  \/ o.status \in {"PendingCancel", "Canceled"}
                  \/ \E x \in InFlight : x.coid = c /\ x.kind = "Canceled"

\* A fill that the venue executed is refused by the order state machine only
\* while a cancel is pending (apply_report: "dropped by the FSM").
FillLostOnlyToCancel ==
  [][\A f \in batch \ batch' :
       f.kind = "Fill" /\ orders'[f.coid] = orders[f.coid] =>
         orders[f.coid].status = "PendingCancel"]_vars

\* The position of an instrument is the sum of the fills its orders accepted
\* and of the settlement and liquidation fills (apply_report folds a fill into
\* the position only if the order took it).
PositionsFollowOrders ==
  \A i \in Instruments :
    positions[i] = closed_out[i] +
      MapThenSumSet(LAMBDA c : Sign(orders[c].side) * orders[c].filled,
                    {c \in Coids : orders[c] # None /\ orders[c].inst = i})

\* Once a contract has been settled nothing rests on it any more, and the gate
\* lets nothing new reach the venue (settle_contract: "The contract is dead").
DeadContractsHaveNoOrders ==
  \A r \in resting :
    r.inst \in unsettled \/ r.inst = settling \/ Expiry[r.inst] = None

\* Submitting on an expired contract is denied "so a post-expiry position can't
\* be opened that the kernel's expiry settlement would then miss" (submit).
NoPostExpiryPosition ==
  \A i \in Instruments :
    /\ Expiry[i] # None
    /\ i \notin unsettled
    /\ SettlePriceKnown(i)
    => positions[i] = 0

\* "shares bought on calendar day D (UTC date of the fill) cannot be sold until
\* day D+1": on its day, what was bought stays in the position.
TPlusOne ==
  \A i \in AShares :
    LET bought == Total({b \in bought_today :
                           b.inst = i /\ b.day = DayKey(i, now)})
    IN  bought > 0 => positions[i] >= bought

StatusOf(c) == IF orders[c] = None THEN None ELSE orders[c].status

\* Every order sent to the venue is acknowledged, whatever else happens, except
\* one sent from the outbox of on_stop, when the loop is over.
Acknowledged ==
  \A c \in Coids :
    (pc \notin {"drain", "outbox", "done"} /\ StatusOf(c) = "Submitted")
    ~> (StatusOf(c) # "Submitted")

\* A strategy that stops sending commands and setting timers lets the run come
\* to its end: the cursors of the feed, the heap and the expiries all move.
RunEnds == <>(pc = "done")
=============================================================================

----------------------------- MODULE LiveKernel -----------------------------
(***************************************************************************)
(* LiveKernel::run (coinext-kernel/src/live.rs), as the handle PyKernel    *)
(* runs it: one task that selects between a stop signal, the channel of    *)
(* execution reports and the channel of market events, and awaits the      *)
(* ExecutionClient while it routes the strategy's commands.  Its           *)
(* surroundings run concurrently: the data client, a thread that requests  *)
(* the stop, and the execution client, which is PaperFillExec or a venue   *)
(* adapter.  The strategy is native and sends any commands, or it is       *)
(* written in Python (StrategyAdapter).                                    *)
(*                                                                         *)
(* Neither client ever closes the report channel, because it keeps a       *)
(* sender; reconcile runs before any order is cached, so its Accepted      *)
(* reports find nothing.  Timers are left out: this loop fires none.       *)
(***************************************************************************)
EXTENDS Oms, MarketCache, StrategyAdapter

CONSTANTS
  Setups,          \* pairs of a strategy, "native" or "python", and a client
  NativeCoids,     \* the ids a native strategy uses
  Tickets,         \* the orders a strategy may submit
  PyTickets,       \* what a strategy in Python may ask for
  MarketEvents,    \* the events the feed may carry
  SizePrecision,   \* the decimals of a quantity of each instrument
  WirePrecision,   \* WIRE_PRECISION, the decimals of a fill of the venue: 8
  Killed,          \* RiskGate's kill switch
  ReportCapacity,  \* the capacity of the report channel
  MaxEvents,       \* bound on the length of the feed
  MaxCommands,     \* bound on the commands of a run
  MaxPerCall,      \* bound on the commands of one handler call
  MaxRepeats       \* bound on the fills delivered twice

ASSUME LiveAssumption ==
  /\ Setups \subseteq {"native", "python"} \X {"paper", "venue"}
  /\ NativeCoids \subseteq Coids
  /\ Tickets \subseteq TicketType
  /\ MarketEvents \subseteq EventType
  /\ ReportCapacity \in Nat \ {0}
  /\ MaxCommands \in Nat

ASSUME PrecisionAssumption ==
  /\ SizePrecision \in [Instruments -> Nat]
  /\ WirePrecision \in Nat

\* What Python passes may be out of range, but its size is not zero, and the ids
\* that the OrderFactory mints are client order ids.
ASSUME PythonAssumption ==
  /\ \A t \in PyTickets :
       /\ t.side \in Sides
       /\ t.type \in OrderTypes
       /\ t.price \in MaybePrice
       /\ t.type \in {"StopMarket", "StopLimit", "TrailingStopMarket"} => t.stop \in Int
       /\ t.quantity \in Int \ {0}
  /\ \A s \in Setups : s[1] = "python" => 1..MaxCommands \subseteq Coids

\* What a client holds of an order: how much is left to execute, and whether its
\* cancellation was requested.
HeldType == [left : Nat, state : {"sent", "open", "closed"}, cancel : BOOLEAN]

ASSUME HeldAssumption == None \notin HeldType

VARIABLES
  strategy,    \* "native" or "python"
  client,      \* "paper" or "venue"
  pc, ret,     \* where the task is; where it continues after route_outbox
  outbox,      \* StrategyContext::outbox
  seq,         \* OrderFactory::seq
  cmds,        \* the drained commands from the one being routed on
  commands,    \* the number of commands queued so far
  reports,     \* the channel of execution reports
  market,      \* the channel of market events
  feed_open,   \* the data client still holds its sender
  events,      \* the number of market events sent
  requested,   \* LiveKernelStopHandle::requested
  stopper,     \* where request_stop is: "idle", "stored" or "returned"
  waiting,     \* the select holds a Notified future
  woken,       \* notify_waiters has reached it
  late,        \* messages handled since the stop was requested (auxiliary)
  exchange,    \* what the client holds of each order, or None
  trades,      \* the fills executed so far
  repeats      \* the number of fills delivered twice

strategyVars == <<strategy, outbox, seq, commands>>
loopVars == <<pc, ret, cmds>>
feedVars == <<market, feed_open, events>>
stopVars == <<requested, stopper, waiting, woken, late>>
clientVars == <<client, exchange, trades, repeats>>
vars == <<omsVars, cacheVars, strategyVars, loopVars, feedVars, reports,
          stopVars, clientVars>>

----------------------------------------------------------------------------
\* An order without its trigger, which only the client reads.
LiveOrder(c, t) ==
  [coid |-> c, inst |-> t.inst, side |-> t.side, price |-> t.price,
   quantity |-> t.quantity]

\* promised is the id the strategy was given for its order.
SubmitCommand(c, t, promised) ==
  [cmd |-> "Submit", order |-> LiveOrder(c, t), type |-> t.type,
   promised |-> promised]

Commands ==
  {SubmitCommand(c, t, c) : c \in NativeCoids, t \in Tickets}
    \cup {[cmd |-> kind, coid |-> c] : kind \in {"Cancel", "Modify"}, c \in NativeCoids}

\* A handler of a native strategy.
NativeHandler ==
  /\ strategy = "native"
  /\ \E n \in 0..MaxPerCall :
       /\ commands + n <= MaxCommands
       /\ commands' = commands + n
       /\ \E s \in [1..n -> Commands] : outbox' = outbox \o s
  /\ UNCHANGED <<strategy, seq>>

\* What a handler in Python may call.
PyCalls ==
  [cmd : {"Submit"}, ticket : PyTickets] \cup [cmd : {"Cancel"}, coid : Coids]

\* A replayed command as the router takes it.
Routed(c) ==
  IF c.cmd = "Submit" THEN SubmitCommand(c.coid, c.ticket, c.promised) ELSE c

\* on_start, on_bar, on_order_event and the other hooks of PyStrategyAdapter:
\* each runs the method of that name.
PythonHandler ==
  /\ strategy = "python"
  /\ \E n \in 0..MaxPerCall : \E calls \in [1..n -> PyCalls] :
       LET replayed == Replay(seq, Intents(seq, calls))
           made == replayed.commands IN
       /\ commands + Len(made) <= MaxCommands
       /\ commands' = commands + Len(made)
       /\ seq' = replayed.seq
       /\ outbox' = outbox \o [k \in DOMAIN made |-> Routed(made[k])]
  /\ UNCHANGED strategy

\* One call of a strategy handler: its commands wait in the outbox.
Handler == NativeHandler \/ PythonHandler

\* notify_event, for an operation that may raise no event.
Notify(raised) == IF raised THEN Handler ELSE UNCHANGED strategyVars

Init ==
  /\ OmsInit
  /\ CacheInit
  /\ \E s \in Setups : strategy = s[1] /\ client = s[2]
  /\ pc = "built"
  /\ ret = "top"
  /\ outbox = <<>>
  /\ seq = 0
  /\ cmds = <<>>
  /\ commands = 0
  /\ reports = <<>>
  /\ market = <<>>
  /\ feed_open = TRUE
  /\ events = 0
  /\ requested = FALSE
  /\ stopper = "idle"
  /\ waiting = FALSE
  /\ woken = FALSE
  /\ late = 0
  /\ exchange = [c \in Coids |-> None]
  /\ trades = {}
  /\ repeats = 0

Goto(label) == pc' = label /\ UNCHANGED <<ret, cmds>>

\* route_outbox, then continue at label.
RouteOutboxThen(label) == pc' = "drain" /\ ret' = label /\ UNCHANGED cmds

\* Variant: the end of the commands goes unnoticed.
NextCommandUnbounded ==
  /\ cmds' = Tail(cmds)
  /\ pc' = "outbox"
  /\ UNCHANGED ret

\* The next drained command, if any.
NextCommand ==
  /\ cmds' = Tail(cmds)
  /\ pc' = IF Tail(cmds) = <<>> THEN ret ELSE "outbox"
  /\ UNCHANGED ret

\* The kernel is in its handle; its data client can connect.
Run ==
  /\ pc = "built"
  /\ feed_open
  /\ Goto("connect")
  /\ UNCHANGED <<omsVars, cacheVars, strategyVars, feedVars, reports, stopVars,
                 clientVars>>

\* The handle gets the kernel back however a run ends, but its streams are
\* taken: a second run panics, and the kernel is gone with its stack.  From
\* then on the handle is empty, and run returns an error.
RunAgain ==
  /\ pc \in {"done", "failed", "lost"} \/ (pc = "built" /\ ~feed_open)
  /\ Goto("lost")
  /\ UNCHANGED <<omsVars, cacheVars, strategyVars, feedVars, reports, stopVars,
                 clientVars>>

\* A kernel whose venue could not be reached has taken no stream yet.
Connect ==
  /\ pc = "connect"
  /\ Goto("start") \/ (client = "venue" /\ Goto("built"))
  /\ UNCHANGED <<omsVars, cacheVars, strategyVars, feedVars, reports, stopVars,
                 clientVars>>

OnStart ==
  /\ pc = "start"
  /\ Handler
  /\ RouteOutboxThen("top")
  /\ UNCHANGED <<omsVars, cacheVars, feedVars, reports, stopVars, clientVars>>

----------------------------------------------------------------------------
\* route_outbox

DrainOutbox ==
  /\ pc = "drain"
  /\ cmds' = outbox
  /\ outbox' = <<>>
  /\ pc' = IF outbox = <<>> THEN ret ELSE "outbox"
  /\ UNCHANGED <<omsVars, cacheVars, strategy, seq, commands, ret, feedVars, reports,
                 stopVars, clientVars>>

VenueType ==
  [Market |-> "MARKET", Limit |-> "LIMIT", StopLimit |-> "STOP_LOSS_LIMIT",
   StopMarket |-> "STOP_LOSS", MarketIfTouched |-> "TAKE_PROFIT"]

\* The order as the venue takes it, or None: its price, its trigger and its time
\* in force are left out.
BuildOrderParams(cmd) ==
  LET o == cmd.order IN
  IF \/ cmd.type \notin DOMAIN VenueType
     \/ cmd.type \in {"Limit", "StopLimit"} /\ o.price = None
  THEN None
  ELSE [symbol |-> o.inst, side |-> o.side, type |-> VenueType[cmd.type],
        quantity |-> o.quantity, newClientOrderId |-> o.coid]

\* The venue adapter gives a command up before it sends anything.
Unsendable(cmd) == client = "venue" /\ BuildOrderParams(cmd) = None

\* The client has an order, all of it still to be executed.
Sent(o) == [left |-> o.quantity, state |-> "sent", cancel |-> FALSE]

\* Variant: an approved order is cached only when its reports come in.
CacheOrderLater(o, routed) ==
  orders' = IF routed THEN orders
            ELSE [orders EXCEPT ![o.coid] = Tracked(o, "Denied")]

CacheOrder(o, routed) ==
  orders' = [orders EXCEPT ![o.coid] =
               Tracked(o, IF routed THEN "Submitted" ELSE "Denied")]

\* An order is cached as Submitted, and the strategy told, before the client is
\* called: its reports may be there before the call returns.
RouteSubmit ==
  LET o == Head(cmds).order IN
  /\ pc = "outbox"
  /\ Head(cmds).cmd = "Submit"
  /\ IF ~SubmitApplies(o)
     THEN NextCommand /\ UNCHANGED <<omsVars, strategyVars, exchange>>
     ELSE \E funded \in BOOLEAN :
            LET routed == Approved(o, positions, mark, Killed, funded) IN
            /\ CacheOrder(o, routed)
            /\ Handler
            /\ IF routed
               THEN /\ Goto("submit")
                    /\ exchange' = IF Unsendable(Head(cmds)) THEN exchange
                                   ELSE [exchange EXCEPT ![o.coid] = Sent(o)]
               ELSE NextCommand /\ UNCHANGED exchange
            /\ UNCHANGED <<positions, seen_trade_ids, bought_today>>
  /\ UNCHANGED <<cacheVars, feedVars, reports, stopVars, client, trades,
                 repeats>>

\* A cancel is sent to the client whatever the state of the order.
RouteCancel ==
  LET c == Head(cmds).coid IN
  /\ pc = "outbox"
  /\ Head(cmds).cmd = "Cancel"
  /\ IF orders[c] = None
     THEN NextCommand /\ UNCHANGED <<orders, exchange>>
     ELSE /\ orders' = IF CancelApplies(c)
                       THEN [orders EXCEPT ![c] = ApplyStatus(@, "PendingCancel")]
                       ELSE orders
          /\ exchange' = IF exchange[c] = None THEN exchange
                         ELSE [exchange EXCEPT ![c].cancel = TRUE]
          /\ Goto("cancel")
  /\ Notify(CancelApplies(c))
  /\ UNCHANGED <<positions, seen_trade_ids, bought_today, cacheVars, feedVars,
                 reports, stopVars, client, trades, repeats>>

\* StrategyCommand::Modify is ignored.
RouteModify ==
  /\ pc = "outbox"
  /\ Head(cmds).cmd = "Modify"
  /\ NextCommand
  /\ UNCHANGED <<omsVars, cacheVars, strategyVars, feedVars, reports, stopVars,
                 clientVars>>

Report(kind, c) == [kind |-> kind, coid |-> c]

\* The precision of a fill: PaperFillExec returns the quantity of the order,
\* build_fill makes one of its own.
FillPrecision(inst) == IF client = "venue" THEN WirePrecision ELSE SizePrecision[inst]

\* The next execution of an order: a trade id is never used twice.
FillReport(c, qty) ==
  [kind |-> "Fill", coid |-> c, inst |-> orders[c].inst,
   side |-> orders[c].side, qty |-> qty,
   precision |-> FillPrecision(orders[c].inst), due |-> 0,
   trade_id |-> Cardinality(trades) + 1]

\* Quantity::checked_add refuses the fill: the quantity of an order has the
\* precision of its instrument.
PrecisionMismatch(rep) ==
  rep.kind = "Fill" /\ rep.precision # SizePrecision[rep.inst]

Room == Len(reports) < ReportCapacity

\* PaperFillExec::submit_order awaits room in the channel twice ...
PaperAccept ==
  LET c == Head(cmds).order.coid IN
  /\ pc = "submit" /\ client = "paper" /\ Room
  /\ reports' = Append(reports, Report("Accepted", c))
  /\ Goto("fill")
  /\ UNCHANGED <<omsVars, cacheVars, strategyVars, feedVars, stopVars,
                 clientVars>>

\* ... and fills the whole order at once.
PaperFill ==
  LET c == Head(cmds).order.coid
      f == FillReport(c, exchange[c].left) IN
  /\ pc = "fill" /\ Room
  /\ reports' = Append(reports, f)
  /\ trades' = trades \cup {f}
  /\ exchange' = [exchange EXCEPT ![c].left = 0, ![c].state = "closed"]
  /\ NextCommand
  /\ UNCHANGED <<omsVars, cacheVars, strategyVars, feedVars, stopVars, client,
                 repeats>>

\* PaperFillExec::cancel_order confirms every cancel, of a filled order too.
PaperCancel ==
  /\ pc = "cancel" /\ client = "paper" /\ Room
  /\ reports' = Append(reports, Report("Canceled", Head(cmds).coid))
  /\ NextCommand
  /\ UNCHANGED <<omsVars, cacheVars, strategyVars, feedVars, stopVars,
                 clientVars>>

\* The venue's answer to the request.
CallReturns ==
  /\ pc \in {"submit", "cancel"} /\ client = "venue"
  /\ pc = "submit" => ~Unsendable(Head(cmds))
  /\ NextCommand
  /\ UNCHANGED <<omsVars, cacheVars, strategyVars, feedVars, reports, stopVars,
                 clientVars>>

\* Reconciling or a request fails, a rejection by the venue included, and "?"
\* leaves run at once: no on_stop, no disconnect.
Fail ==
  /\ client = "venue" /\ pc \in {"start", "submit", "cancel"}
  /\ Goto("failed")
  /\ UNCHANGED <<omsVars, cacheVars, strategyVars, feedVars, reports, stopVars,
                 clientVars>>

----------------------------------------------------------------------------
\* The select loop

\* Variant: the flag is not read at the top of the loop.
TopUnchecked ==
  /\ pc = "top"
  /\ Goto("arm")
  /\ UNCHANGED <<omsVars, cacheVars, strategyVars, feedVars, reports, stopVars,
                 clientVars>>

\* is_stop_requested, at the top of the loop and again in cancelled.
CheckStop ==
  /\ pc \in {"top", "check"}
  /\ Goto(IF requested THEN "stop" ELSE IF pc = "top" THEN "check" ELSE "arm")
  /\ UNCHANGED <<omsVars, cacheVars, strategyVars, feedVars, reports, stopVars,
                 clientVars>>

\* notify.notified(): only a notification from now on is received.
Arm ==
  /\ pc = "arm"
  /\ waiting' = TRUE
  /\ woken' = FALSE
  /\ Goto("armed")
  /\ UNCHANGED <<omsVars, cacheVars, strategyVars, feedVars, reports, requested,
                 stopper, late, clientVars>>

\* The select is biased: every time the task runs, the signal is polled first.
PollStop ==
  /\ pc = "armed"
  /\ Goto(IF woken THEN "stop" ELSE "poll")
  /\ UNCHANGED <<omsVars, cacheVars, strategyVars, feedVars, reports, stopVars,
                 clientVars>>

\* A branch is taken: the Notified future is dropped.
Taken ==
  /\ waiting' = FALSE
  /\ woken' = FALSE
  /\ late' = IF requested THEN late + 1 ELSE late
  /\ UNCHANGED <<requested, stopper>>

\* Reports come before market events.
TakeReport ==
  /\ pc = "poll"
  /\ reports # <<>>
  /\ IF PrecisionMismatch(Head(reports))
     THEN RefuseFill(Head(reports)) /\ UNCHANGED strategyVars
     ELSE ApplyReport(Head(reports)) /\ Notify(Applies(Head(reports)))
  /\ reports' = Tail(reports)
  /\ Taken
  /\ RouteOutboxThen("emit")
  /\ UNCHANGED <<cacheVars, feedVars, clientVars>>

TakeMarket ==
  /\ pc = "poll"
  /\ reports = <<>>
  /\ market # <<>>
  /\ DataProcess(Head(market))
  /\ Handler
  /\ market' = Tail(market)
  /\ Taken
  /\ RouteOutboxThen("emit")
  /\ UNCHANGED <<omsVars, reports, feed_open, events, clientVars>>

\* emit_portfolio
Emit ==
  /\ pc = "emit"
  /\ Goto("top")
  /\ UNCHANGED <<omsVars, cacheVars, strategyVars, feedVars, reports, stopVars,
                 clientVars>>

\* The callback of try_run_with_portfolio_callback returns an error; a run
\* without a callback, or with one that returns nothing, goes on.
CallbackFails ==
  /\ pc = "emit"
  /\ Goto("failed")
  /\ UNCHANGED <<omsVars, cacheVars, strategyVars, feedVars, reports, stopVars,
                 clientVars>>

\* Variant: the end of the market channel goes unnoticed.
IdleForever ==
  /\ pc = "poll"
  /\ reports = <<>>
  /\ market = <<>>
  /\ Goto("parked")
  /\ UNCHANGED <<omsVars, cacheVars, strategyVars, feedVars, reports, stopVars,
                 clientVars>>

\* The market channel is closed and empty, or the task goes to sleep.
Idle ==
  /\ pc = "poll"
  /\ reports = <<>>
  /\ market = <<>>
  /\ Goto(IF feed_open THEN "parked" ELSE "stop")
  /\ UNCHANGED <<omsVars, cacheVars, strategyVars, feedVars, reports, stopVars,
                 clientVars>>

\* Any of the three wakes the task.
Wake ==
  /\ pc = "parked"
  /\ woken \/ reports # <<>> \/ market # <<>> \/ ~feed_open
  /\ Goto("armed")
  /\ UNCHANGED <<omsVars, cacheVars, strategyVars, feedVars, reports, stopVars,
                 clientVars>>

OnStop ==
  /\ pc = "stop"
  /\ Handler
  /\ RouteOutboxThen("disconnect")
  /\ waiting' = FALSE
  /\ woken' = FALSE
  /\ UNCHANGED <<omsVars, cacheVars, feedVars, reports, requested, stopper, late,
                 clientVars>>

Disconnect ==
  /\ pc = "disconnect"
  /\ Goto("done")
  /\ UNCHANGED <<omsVars, cacheVars, strategyVars, feedVars, reports, stopVars,
                 clientVars>>

Kernel ==
  \/ Connect \/ OnStart \/ DrainOutbox \/ RouteSubmit \/ RouteCancel \/ RouteModify
  \/ PaperAccept \/ PaperFill \/ PaperCancel \/ CallReturns
  \/ CheckStop \/ Arm \/ PollStop \/ TakeReport \/ TakeMarket \/ Emit \/ Idle \/ Wake
  \/ OnStop \/ Disconnect
  \/ Fail \/ CallbackFails

----------------------------------------------------------------------------
\* The surroundings of the task

Running == pc \notin {"built", "done", "failed", "lost"}

\* LiveKernelStopHandle::request_stop: the flag first, then notify_waiters,
\* which reaches only a Notified future that exists.
StoreStop ==
  /\ Running \/ pc = "built"
  /\ stopper = "idle"
  /\ stopper' = "stored"
  /\ requested' = TRUE
  /\ UNCHANGED <<omsVars, cacheVars, strategyVars, loopVars, feedVars, reports,
                 waiting, woken, late, clientVars>>

NotifyWaiters ==
  /\ stopper = "stored"
  /\ stopper' = "returned"
  /\ woken' = waiting
  /\ UNCHANGED <<omsVars, cacheVars, strategyVars, loopVars, feedVars, reports,
                 requested, waiting, late, clientVars>>

\* The data client sends its events and drops its sender.
FeedSend ==
  /\ Running /\ feed_open /\ events < MaxEvents
  /\ \E ev \in MarketEvents : market' = Append(market, ev)
  /\ events' = events + 1
  /\ UNCHANGED <<omsVars, cacheVars, strategyVars, loopVars, feed_open, reports,
                 stopVars, clientVars>>

FeedClose ==
  /\ Running /\ feed_open
  /\ feed_open' = FALSE
  /\ UNCHANGED <<omsVars, cacheVars, strategyVars, loopVars, market, events,
                 reports, stopVars, clientVars>>

\* The pump of the user-data stream sends a report on, or the report falls into
\* a gap of the connection: the pump ignores WsMessage::Reconnected.
Pump(rep) == reports' = reports \/ (Room /\ reports' = Append(reports, rep))

\* What the venue does with an order; map_execution_report turns NEW, REJECTED,
\* TRADE, CANCELED and EXPIRED into reports.
VenueHas(c, state) ==
  /\ Running
  /\ client = "venue"
  /\ exchange[c] # None
  /\ exchange[c].state = state

VenueMoves(c, state, kind) ==
  /\ exchange' = [exchange EXCEPT ![c].state = state]
  /\ Pump(Report(kind, c))
  /\ UNCHANGED <<omsVars, cacheVars, strategyVars, loopVars, feedVars, stopVars,
                 client, trades, repeats>>

VenueAnswers(c) ==
  /\ VenueHas(c, "sent")
  /\ \/ VenueMoves(c, "open", "Accepted")
     \/ VenueMoves(c, "closed", "Rejected")

VenueCloses(c) ==
  /\ VenueHas(c, "open")
  /\ \/ exchange[c].cancel /\ VenueMoves(c, "closed", "Canceled")
     \/ VenueMoves(c, "closed", "Expired")

VenueTrades(c) ==
  /\ VenueHas(c, "open")
  /\ \E qty \in 1..exchange[c].left :
       LET f == FillReport(c, qty) IN
       /\ trades' = trades \cup {f}
       /\ exchange' = [exchange EXCEPT
            ![c].left = @ - qty,
            ![c].state = IF qty = exchange[c].left THEN "closed" ELSE "open"]
       /\ Pump(f)
  /\ UNCHANGED <<omsVars, cacheVars, strategyVars, loopVars, feedVars, stopVars,
                 client, repeats>>

\* The stream repeats an execution.
VenueRepeats ==
  /\ Running /\ client = "venue" /\ repeats < MaxRepeats /\ Room
  /\ \E f \in trades : reports' = Append(reports, f)
  /\ repeats' = repeats + 1
  /\ UNCHANGED <<omsVars, cacheVars, strategyVars, loopVars, feedVars, stopVars,
                 client, exchange, trades>>

Surroundings ==
  \/ StoreStop \/ NotifyWaiters \/ FeedSend \/ FeedClose \/ VenueRepeats
  \/ \E c \in Coids : VenueAnswers(c) \/ VenueCloses(c) \/ VenueTrades(c)

Next == Kernel \/ Surroundings \/ Run \/ RunAgain

Spec == Init /\ [][Next]_vars

\* The runtime polls a task that can proceed, every request is answered or
\* fails, and the thread in request_stop runs on.  Nobody has to send, close
\* the feed, trade, or request a stop.
FairSpec == Spec /\ WF_vars(Kernel) /\ WF_vars(NotifyWaiters)

----------------------------------------------------------------------------
\* Properties

\* What the live loop holds is well formed, and the router never runs out of
\* commands.
LiveTypeOK ==
  /\ client \in {"paper", "venue"}
  /\ pc \in {"built", "connect", "start", "drain", "outbox", "submit", "fill", "cancel", "top",
             "check", "arm", "armed", "poll", "parked", "emit", "stop",
             "disconnect", "done", "failed", "lost"}
  /\ ret \in {"top", "emit", "disconnect"}
  /\ seq \in 0..MaxCommands
  /\ pc \in {"outbox", "submit", "fill", "cancel"} => cmds # <<>>
  /\ Len(reports) <= ReportCapacity
  /\ orders \in [Coids -> TrackedType \cup {None}]
  /\ positions \in [Instruments -> Int]
  /\ mark \in [Instruments -> MaybePrice]
  /\ stopper \in {"idle", "stored", "returned"}
  /\ woken => waiting

\* A report never comes before its order is in the cache, where apply_report
\* would drop it: route_outbox caches the order before it calls the client,
\* whose reports may be queued before the call returns.
ReportsFindTheirOrders ==
  \A k \in DOMAIN reports : orders[reports[k].coid] # None

\* Every order has the id its strategy was promised: "the predicted id always
\* matches the one the order actually gets" (PyCtx::submit_market), whatever
\* was refused in the same handler, however many handlers ran since the last
\* order was routed.
PromisedIds ==
  \A queued \in {outbox, cmds} : \A k \in DOMAIN queued :
    queued[k].cmd = "Submit" => queued[k].order.coid = queued[k].promised

\* The executions of an order, and those in its precision.
TradesOf(c) == {f \in trades : f.coid = c}
Bookable(c) == {f \in TradesOf(c) : f.precision = SizePrecision[f.inst]}

\* However often the stream repeats an execution and whatever it loses, an
\* order never shows more filled than the client executed in the precision of
\* the order (the trade id guard of apply_report: "a duplicate / replayed
\* Fill").  So nothing a venue fills is ever booked on an instrument whose
\* precision is not the wire's 8, as that of Binance's BTCUSDT, 5, is not.
FillsAreTrades ==
  \A c \in Coids :
    orders[c] # None =>
      orders[c].filled <= MapThenSumSet(LAMBDA f : f.qty, Bookable(c))

\* After a stop is requested the loop handles at most one more message, even if
\* the notification is lost: the flag is read again before the next select.
StopLag == late <= 1

\* When the data client closes the market stream the run comes to an end,
\* though the report stream stays open (run_inner breaks on either).
LoopEnds == (~feed_open) ~> ~Running

\* "The run loop wakes promptly and disconnects both ports" (request_stop): a
\* requested stop is followed by the end of the run.
StopHonoured == requested ~> ~Running
=============================================================================

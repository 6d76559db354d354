--------------------------- MODULE BooksTheorems ----------------------------
(***************************************************************************)
(* The books of the backtest kernel: nothing rests on a dead contract, the *)
(* net positions are those of the filled orders, and no lot is lost        *)
(* between submit and apply_report.  Books strengthens the three into an   *)
(* invariant that a step preserves, on top of Inv.                         *)
(***************************************************************************)
EXTENDS OrderFlowTheorems, DataLemmas

-----------------------------------------------------------------------------
\* What rests and what is in flight belongs to its order; the tracked orders and
\* the reports are finitely many.
Belonging ==
  /\ \A r \in resting :
       orders[r.coid].inst = r.inst /\ orders[r.coid].side = r.side
  /\ \A f \in InFlight :
       f.kind = "Fill" => orders[f.coid].inst = f.inst /\ orders[f.coid].side = f.side
  /\ IsFiniteSet({c \in Coids : orders[c] # None})
  /\ IsFiniteSet(InFlight)

\* The loop is inside settle_contract.
Settling ==
  pc \in {"settled", "cancels"} \/ (pc \in {"drain", "outbox"} /\ ret = "settled")

\* A contract leaves the expiry cursor once its time has come; from then on the
\* orders on it are those settle_contract is about to cancel.
SettleInv ==
  /\ frontier \in Int /\ frontier <= now
  /\ \A i \in Instruments : Expiry[i] # None /\ i \notin unsettled => Expiry[i] <= now
  /\ \A r \in resting :
       r.inst \in unsettled \/ Expiry[r.inst] = None \/ (Settling /\ r.inst = settling)
  /\ pc = "cancels" => \A r \in resting : r.inst = settling => r.coid \in open

-----------------------------------------------------------------------------
\* The kinds of steps, as orders, positions, the book and the reports see them.

SubmitKind ==
  \E o \in OrderType, funded \in BOOLEAN :
    Submit(o, funded) /\ UNCHANGED <<batch, closed_out>>

CancelKind == \E c \in Coids : Cancel(c) /\ UNCHANGED <<batch, closed_out>>

ReportKind ==
  \E rep \in batch :
    /\ \A x \in batch \ {rep} : Before(rep, x)
    /\ ApplyReport(rep)
    /\ batch' = batch \ {rep}
    /\ UNCHANGED <<venueVars, closed_out>>

MarketKind ==
  \E ev \in EventType :
    /\ ev.kind # "Delta"
    /\ OnMarket(ev)
    /\ UNCHANGED <<orders, positions, batch, closed_out>>

CloseKind ==
  \E i \in Instruments :
    /\ positions' = [positions EXCEPT ![i] = 0]
    /\ closed_out' = [closed_out EXCEPT ![i] = @ - positions[i]]
    /\ InFlight' = InFlight
    /\ UNCHANGED <<orders, resting>>

QuietKind ==
  InFlight' = InFlight /\ UNCHANGED <<orders, positions, resting, closed_out>>

\* Every step of the loop is of one of them.
LEMMA StepKinds ==
  ASSUME Inv, [Next]_vars
  PROVE  SubmitKind \/ CancelKind \/ ReportKind \/ MarketKind \/ CloseKind \/ QuietKind
<1>t. EngineOk /\ LoopType
  BY Zenon DEF Inv
<1>1. CASE ProcessSubmit
  <2>1. /\ cmds # <<>> /\ cmds \in Seq(CommandType)
        /\ UNCHANGED <<batch, closed_out>>
    BY Zenon, <1>t, <1>1 DEF ProcessSubmit, AfterCommand, LoopType, closeVars
  <2> PICK o : o = Head(cmds).order
    BY Zenon
  <2>2. Head(cmds) \in CommandType
    BY Zenon, <2>1, QueueFacts
  <2>3. o \in OrderType
    BY Zenon, <1>1, <2>2 DEF ProcessSubmit, CommandType
  <2>4. \E funded \in BOOLEAN : Submit(o, funded)
    BY Zenon, <1>1 DEF ProcessSubmit
  <2> QED
    BY Zenon, <2>1, <2>3, <2>4 DEF SubmitKind
<1>2. CASE ProcessCancel
  <2>1. /\ cmds # <<>> /\ cmds \in Seq(CommandType)
        /\ UNCHANGED <<batch, closed_out>>
    BY Zenon, <1>t, <1>2 DEF ProcessCancel, AfterCommand, LoopType, closeVars
  <2> PICK c : c = Head(cmds).coid
    BY Zenon
  <2>2. Head(cmds) \in CommandType
    BY Zenon, <2>1, QueueFacts
  <2>3. c \in Coids
    BY Zenon, <1>2, <2>2 DEF ProcessCancel, CommandType
  <2>4. Cancel(c)
    BY Zenon, <1>2 DEF ProcessCancel
  <2> QED
    BY Zenon, <2>1, <2>3, <2>4 DEF CancelKind
<1>3. CASE \E c \in open : CancelOpen(c)
  BY Zenon, <1>t, <1>3 DEF CancelOpen, CancelKind, LoopType
<1>4. CASE \E rep \in batch : Deliver(rep)
  BY Zenon, <1>4 DEF Deliver, ReportKind, closeVars
<1>5. CASE Advance
  <2>1. batch = {} /\ queue = queue' \cup batch'
    BY Zenon, <1>t, <1>5, BatchEmpty DEF Advance, DueBy
  <2> QED
    BY Zenon, <1>5, <2>1 DEF Advance, omsVars, closeVars, InFlight, QuietKind
<1>6. CASE OnStart \/ OnStop \/ DispatchMarket \/ DrainOutbox \/ ReportsDone \/ PopTimers
           \/ TimersDone \/ NoMarket \/ LiquidationDone \/ (\E t \in fired : OnTimer(t))
  <2>1. UNCHANGED <<engineVars, batch, closeVars>>
    BY Zenon, <1>6 DEF OnStart, OnStop, DispatchMarket, DrainOutbox, ReportsDone,
       PopTimers, TimersDone, NoMarket, LiquidationDone, OnTimer
  <2> QED
    BY Zenon, <2>1 DEF engineVars, omsVars, venueVars, closeVars, InFlight, QuietKind
<1>7. CASE CollectOpen \/ ContractSettled \/ CheckLiquidation \/ Done \/ UNCHANGED vars
  <2>1. UNCHANGED <<engineVars, batch, closed_out>>
    BY Zenon, <1>7 DEF CollectOpen, ContractSettled, CheckLiquidation, Done, vars, closeVars
  <2> QED
    BY Zenon, <2>1 DEF engineVars, omsVars, venueVars, InFlight, QuietKind
<1>8. CASE ProcessMarket
  <2> PICK ev : ev = feed.ev
    BY Zenon
  <2>1. /\ ev \in EventType /\ OnMarket(ev)
        /\ UNCHANGED <<orders, positions, batch, closed_out>>
    BY Zenon, <1>t, <1>8 DEF ProcessMarket, LoopType, omsVars, closeVars
  <2>2. ev.kind = "Delta" => UNCHANGED venueVars
    BY Zenon, <2>1 DEF OnMarket
  <2> QED
    BY Zenon, <2>1, <2>2 DEF MarketKind, QuietKind, InFlight, venueVars
<1>9. CASE (\E i \in unsettled : SettleContract(i)) \/ (\E i \in flatten : Liquidate(i))
  <2>1. PICK i \in Instruments, label \in {"settled", "flatten"} :
           ClosePosition(i, label) \/ LeavePosition(label)
    BY Zenon, <1>t, <1>9 DEF SettleContract, Liquidate, LoopType
  <2>2. UNCHANGED <<venueVars, batch>>
    BY Zenon, <1>9 DEF SettleContract, Liquidate
  <2> QED
    BY Zenon, <2>1, <2>2 DEF ClosePosition, LeavePosition, omsVars, venueVars, InFlight,
       CloseKind, QuietKind
<1> QED
  BY Zenon, <1>1, <1>2, <1>3, <1>4, <1>5, <1>6, <1>7, <1>8, <1>9 DEF Next, Step

\* A tracked order stays tracked, on its instrument and side.
LEMMA Identity ==
  ASSUME Inv, [Next]_vars, NEW c \in Coids, orders[c] # None
  PROVE  /\ orders'[c] # None
         /\ orders'[c].inst = orders[c].inst
         /\ orders'[c].side = orders[c].side
         /\ orders'[c].quantity = orders[c].quantity
<1>1. CASE orders' = orders
  BY Zenon, <1>1
<1>2. ASSUME NEW d \in Coids, OnlyOrder(d)
      PROVE  /\ orders'[c] # None
             /\ orders'[c].inst = orders[c].inst
             /\ orders'[c].side = orders[c].side
             /\ orders'[c].quantity = orders[c].quantity
  BY Zenon, <1>2 DEF OnlyOrder, Tracks, Fills, Moves
<1> QED
  BY Zenon, <1>1, <1>2, StepOrders

\* What submit brings into flight and to rest.
LEMMA SubmitEffect ==
  ASSUME EngineOk, NEW o \in OrderType, NEW funded, Submit(o, funded), batch' = batch
  PROVE  \/ UNCHANGED <<orders, resting>> /\ InFlight' = InFlight
         \/ /\ orders[o.coid] = None
            /\ \A d \in Coids \ {o.coid} : orders'[d] = orders[d]
            /\ \/ /\ ~Expired(o.inst, now)
                  /\ resting' = resting \cup {Resting(o)}
                  /\ \E a : /\ InFlight' = InFlight \cup {a}
                            /\ a.kind = "Accepted" /\ a.coid = o.coid
                  /\ orders'[o.coid] = Tracked(o, "Submitted")
               \/ /\ InFlight' = InFlight /\ UNCHANGED resting
                  /\ orders'[o.coid] = Tracked(o, "Denied")
<1>1. CASE ~SubmitApplies(o)
  BY Zenon, <1>1 DEF Submit, engineVars, omsVars, venueVars, InFlight
<1>2. CASE SubmitApplies(o)
  <2>1. /\ orders[o.coid] = None /\ o.coid \in Coids
        /\ orders \in [Coids -> TrackedType \cup {None}]
    BY Zenon, <1>2 DEF SubmitApplies, OrderType, EngineOk, EngineType
  <2>2. \/ /\ ~Expired(o.inst, now) /\ OnSubmit(o)
           /\ orders' = [orders EXCEPT ![o.coid] = Tracked(o, "Submitted")]
        \/ /\ UNCHANGED venueVars
           /\ orders' = [orders EXCEPT ![o.coid] = Tracked(o, "Denied")]
    BY Zenon, <1>2 DEF Submit
  <2>3. CASE /\ ~Expired(o.inst, now) /\ OnSubmit(o)
             /\ orders' = [orders EXCEPT ![o.coid] = Tracked(o, "Submitted")]
    <3> PICK a : a = Report(now + SubmitLatency, queue_seq + 1, "Accepted", o.coid)
      BY Zenon
    <3>1. a.kind = "Accepted" /\ a.coid = o.coid
      BY Zenon DEF Report
    <3>2. queue' = queue \cup {a} /\ resting' = resting \cup {Resting(o)}
      BY Zenon, <2>3 DEF OnSubmit
    <3>3. InFlight' = InFlight \cup {a}
      BY Zenon, <3>2 DEF InFlight
    <3>4. /\ orders'[o.coid] = Tracked(o, "Submitted")
          /\ \A d \in Coids \ {o.coid} : orders'[d] = orders[d]
      BY Zenon, <2>1, <2>3
    <3> QED
      BY Zenon, <2>1, <2>3, <3>1, <3>2, <3>3, <3>4
  <2>4. CASE /\ UNCHANGED venueVars
             /\ orders' = [orders EXCEPT ![o.coid] = Tracked(o, "Denied")]
    <3>1. InFlight' = InFlight /\ UNCHANGED resting
      BY Zenon, <2>4 DEF InFlight, venueVars
    <3> QED
      BY Zenon, <2>1, <2>4, <3>1
  <2> QED
    BY Zenon, <2>2, <2>3, <2>4
<1> QED
  BY Zenon, <1>1, <1>2

\* What cancel takes from the book and brings into flight.
LEMMA CancelEffect ==
  ASSUME EngineOk, NEW c \in Coids, Cancel(c), batch' = batch
  PROVE  /\ \A d \in Coids \ {c} : orders'[d] = orders[d]
         /\ \A r \in resting' : r \in resting /\ r.coid # c
         /\ \A r \in resting : r.coid # c => r \in resting'
         /\ \/ InFlight' = InFlight /\ UNCHANGED resting
            \/ \E a : /\ InFlight' = InFlight \cup {a}
                      /\ a.kind = "Canceled" /\ a.coid = c
<1>1. OnCancel(c) /\ \A d \in Coids \ {c} : orders'[d] = orders[d]
  BY Zenon DEF Cancel, EngineOk, EngineType
<1>2. CASE UNCHANGED venueVars /\ \A r \in resting : r.coid # c
  BY Zenon, <1>1, <1>2 DEF venueVars, InFlight
<1>3. ASSUME NEW r \in resting, r.coid = c, resting' = resting \ {r},
             \A s \in resting : s # r => s.coid # c,
             queue' = queue \cup
               {Report(now + CancelLatency, queue_seq + 1, "Canceled", c)}
      PROVE  /\ \A s \in resting' : s \in resting /\ s.coid # c
             /\ \A s \in resting : s.coid # c => s \in resting'
             /\ \E a : /\ InFlight' = InFlight \cup {a}
                       /\ a.kind = "Canceled" /\ a.coid = c
  <2> PICK a : a = Report(now + CancelLatency, queue_seq + 1, "Canceled", c)
    BY Zenon
  <2>1. a.kind = "Canceled" /\ a.coid = c
    BY Zenon DEF Report
  <2>2. InFlight' = InFlight \cup {a}
    BY Zenon, <1>3 DEF InFlight
  <2> QED
    BY Zenon, <1>3, <2>1, <2>2
<1> QED
  BY Zenon, <1>1, <1>2, <1>3, EngineBook, OnCancelEffect

\* The reports in flight stay finitely many.
LEMMA FiniteFlight ==
  ASSUME EngineOk, IsFiniteSet(InFlight), NEW ev \in EventType, ev.kind # "Delta",
         OnMarket(ev), batch' = batch
  PROVE  IsFiniteSet(InFlight')
<1>1. PICK H \in SUBSET resting, q \in [resting -> Nat], k \in [resting -> Nat],
           n \in Nat : MarketEffect(ev, H, q, k, n)
  BY Zenon, EngineBook, OnMarketEffect
<1> DEFINE fill == [r \in H |-> FillReport(r, Match(r, View(ev)), k[r])]
<1>2. fill = [r \in H |-> fill[r]] /\ IsFiniteSet(H)
  BY Zenon, <1>1 DEF MarketEffect
<1>3. \A f \in queue' : f \in queue \/ \E r \in H : f = fill[r]
  BY ZenonT(40), <1>1 DEF MarketEffect, NewFill
<1> HIDE DEF fill
<1>4. InFlight' \subseteq InFlight \cup {fill[r] : r \in H}
  BY Zenon, <1>3 DEF InFlight
<1>5. IsFiniteSet({fill[r] : r \in H})
  BY Zenon, <1>2, FiniteImage
<1>6. IsFiniteSet(InFlight \cup {fill[r] : r \in H})
  BY Zenon, <1>5, FS_Union
<1> QED
  BY Zenon, <1>4, <1>6, FS_Subset

\* Belonging holds initially and is kept.
LEMMA BelongingInit == Init => Belonging
<1> SUFFICES ASSUME Init PROVE Belonging
  OBVIOUS
<1>1. resting = {} /\ InFlight = {} /\ {c \in Coids : orders[c] # None} = {}
  BY Zenon DEF Init, EngineInit, OmsInit, VenueInit, InFlight
<1> QED
  BY Zenon, <1>1, FS_EmptySet DEF Belonging

\* Every step of the loop keeps what rests and what is in flight with its
\* order.
LEMMA BelongingStep ==
  ASSUME Inv, Inv', Belonging, [Next]_vars
  PROVE  Belonging'
<1>t. EngineOk /\ EngineOk'
  BY Zenon DEF Inv
<1>o. /\ \A r \in resting : r.coid \in Coids /\ orders[r.coid] # None
      /\ \A x \in InFlight : x.coid \in Coids /\ orders[x.coid] # None
  BY Zenon, <1>t DEF EngineOk, EngineType, OrderFlow, RestingInv, RestOk, ReportOk,
     InFlight, ReportType, FillType, StatusReportType, RestingType
<1>k. \A c \in Coids : orders[c] # None =>
        orders'[c].inst = orders[c].inst /\ orders'[c].side = orders[c].side
  BY Zenon, Identity
<1>r. \A r \in resting :
        orders'[r.coid].inst = r.inst /\ orders'[r.coid].side = r.side
  BY Zenon, <1>o, <1>k DEF Belonging
<1>f. \A x \in InFlight : x.kind = "Fill" =>
        orders'[x.coid].inst = x.inst /\ orders'[x.coid].side = x.side
  BY Zenon, <1>o, <1>k DEF Belonging
<1>1. IsFiniteSet({c \in Coids : orders[c] # None}')
  <2> DEFINE S == {c \in Coids : orders[c] # None}
  <2>1. CASE orders' = orders
    BY Zenon, <2>1 DEF Belonging
  <2>2. ASSUME NEW c \in Coids, OnlyOrder(c) PROVE IsFiniteSet(S')
    <3>1. S' \subseteq S \cup {c}
      BY Zenon, <2>2 DEF OnlyOrder
    <3>2. IsFiniteSet(S \cup {c})
      BY Zenon, FS_AddElement DEF Belonging
    <3> HIDE DEF S
    <3> QED
      BY Zenon, <3>1, <3>2, FS_Subset
  <2> QED
    BY Zenon, <2>1, <2>2, StepOrders
<1>2. CASE SubmitKind
  <2>1. PICK o \in OrderType, funded \in BOOLEAN : Submit(o, funded) /\ batch' = batch
    BY Zenon, <1>2 DEF SubmitKind
  <2>2. CASE UNCHANGED resting /\ InFlight' = InFlight
    BY Zenon, <1>1, <1>r, <1>f, <2>2 DEF Belonging
  <2>3. ASSUME resting' = resting \cup {Resting(o)}, NEW a,
               InFlight' = InFlight \cup {a}, a.kind = "Accepted",
               orders'[o.coid] = Tracked(o, "Submitted")
        PROVE  Belonging'
    <3>1. /\ Resting(o).coid = o.coid
          /\ orders'[o.coid].inst = Resting(o).inst
          /\ orders'[o.coid].side = Resting(o).side
      <4>1. /\ Resting(o).coid = o.coid
            /\ Resting(o).inst = o.inst /\ Resting(o).side = o.side
        BY Zenon DEF Resting
      <4>2. Tracked(o, "Submitted").inst = o.inst /\ Tracked(o, "Submitted").side = o.side
        BY Zenon DEF Tracked
      <4> QED
        BY Zenon, <2>3, <4>1, <4>2
    <3>2. IsFiniteSet(InFlight')
      BY Zenon, <2>3, FS_AddElement DEF Belonging
    <3>3. a.kind # "Fill"
      BY Zenon, <2>3
    <3> QED
      BY Zenon, <1>1, <1>r, <1>f, <2>3, <3>1, <3>2, <3>3 DEF Belonging
  <2> QED
    BY Zenon, <1>t, <2>1, <2>2, <2>3, SubmitEffect
<1>3. CASE CancelKind
  <2>1. PICK c \in Coids : Cancel(c) /\ batch' = batch
    BY Zenon, <1>3 DEF CancelKind
  <2>2. \A r \in resting' : r \in resting
    BY Zenon, <1>t, <2>1, CancelEffect
  <2>3. CASE InFlight' = InFlight
    BY Zenon, <1>1, <1>r, <1>f, <2>2, <2>3 DEF Belonging
  <2>4. ASSUME NEW a, InFlight' = InFlight \cup {a}, a.kind = "Canceled"
        PROVE  Belonging'
    <3>1. IsFiniteSet(InFlight')
      BY Zenon, <2>4, FS_AddElement DEF Belonging
    <3>2. a.kind # "Fill"
      BY Zenon, <2>4
    <3> QED
      BY Zenon, <1>1, <1>r, <1>f, <2>2, <2>4, <3>1, <3>2 DEF Belonging
  <2> QED
    BY Zenon, <1>t, <2>1, <2>3, <2>4, CancelEffect
<1>4. CASE ReportKind
  <2>1. InFlight' \subseteq InFlight /\ resting' = resting
    BY Zenon, <1>4 DEF ReportKind, InFlight, venueVars
  <2>2. IsFiniteSet(InFlight')
    BY Zenon, <2>1, FS_Subset DEF Belonging
  <2> QED
    BY Zenon, <1>1, <1>r, <1>f, <2>1, <2>2 DEF Belonging
<1>5. CASE MarketKind
  <2>1. PICK ev \in EventType :
           ev.kind # "Delta" /\ OnMarket(ev) /\ UNCHANGED <<orders, batch>>
    BY Zenon, <1>5 DEF MarketKind
  <2>2. PICK H \in SUBSET resting, q \in [resting -> Nat], k \in [resting -> Nat],
             n \in Nat : MarketEffect(ev, H, q, k, n)
    BY Zenon, <1>t, <2>1, EngineBook, OnMarketEffect
  <2>3. \A y \in resting' :
          orders'[y.coid].inst = y.inst /\ orders'[y.coid].side = y.side
    <3>1. \A y \in resting' : \E r \in resting :
            y.coid = r.coid /\ y.inst = r.inst /\ y.side = r.side
      BY Zenon, <2>2 DEF MarketEffect
    <3> QED
      BY <1>r, <3>1
  <2>4. \A x \in InFlight' : x.kind = "Fill" =>
          orders'[x.coid].inst = x.inst /\ orders'[x.coid].side = x.side
    <3>1. \A x \in queue' : x \in queue \/ \E r \in resting :
            x.coid = r.coid /\ x.inst = r.inst /\ x.side = r.side
      BY <2>2 DEF MarketEffect, NewFill
    <3>2. \A x \in InFlight' : x \in InFlight \/ \E r \in resting :
            x.coid = r.coid /\ x.inst = r.inst /\ x.side = r.side
      BY Zenon, <2>1, <3>1 DEF InFlight
    <3>3. ASSUME NEW x \in InFlight', x.kind = "Fill", NEW r \in resting,
                 x.coid = r.coid /\ x.inst = r.inst /\ x.side = r.side
          PROVE  orders'[x.coid].inst = x.inst /\ orders'[x.coid].side = x.side
      BY Zenon, <1>r, <3>3
    <3> QED
      BY Zenon, <1>f, <3>2, <3>3
  <2>5. IsFiniteSet(InFlight')
    BY Zenon, <1>t, <2>1, FiniteFlight DEF Belonging
  <2> QED
    BY Zenon, <1>1, <2>3, <2>4, <2>5 DEF Belonging
<1>6. CASE CloseKind \/ QuietKind
  <2>1. resting' = resting /\ InFlight' = InFlight
    BY Zenon, <1>6 DEF CloseKind, QuietKind
  <2> QED
    BY Zenon, <1>1, <1>r, <1>f, <2>1 DEF Belonging
<1> QED
  BY Zenon, <1>2, <1>3, <1>4, <1>5, <1>6, StepKinds

-----------------------------------------------------------------------------
\* A step that leaves the expiries alone and puts nothing new to rest.
LEMMA SettleQuiet ==
  ASSUME SettleInv, UNCHANGED <<frontier, now, unsettled>>,
         \A y \in resting' : \E r \in resting : y.inst = r.inst,
         Settling => Settling' /\ settling' = settling, pc' # "cancels"
  PROVE  SettleInv'
<1>1. /\ (frontier \in Int /\ frontier <= now)'
      /\ (\A i \in Instruments : Expiry[i] # None /\ i \notin unsettled => Expiry[i] <= now)'
  BY Zenon DEF SettleInv
<1>2. \A y \in resting' : \/ y.inst \in unsettled' \/ Expiry[y.inst] = None
                          \/ Settling' /\ y.inst = settling'
  <2> SUFFICES ASSUME NEW y \in resting'
               PROVE  \/ y.inst \in unsettled' \/ Expiry[y.inst] = None
                      \/ Settling' /\ y.inst = settling'
    OBVIOUS
  <2>1. PICK r \in resting : y.inst = r.inst
    BY Zenon
  <2>2. r.inst \in unsettled \/ Expiry[r.inst] = None \/ (Settling /\ r.inst = settling)
    BY Zenon DEF SettleInv
  <2> QED
    BY <2>1, <2>2
<1> QED
  BY Zenon, <1>1, <1>2 DEF SettleInv

\* The commands of a strategy, while a contract is being settled or not: the
\* gate of submit lets no order on a dead contract reach the venue.
LEMMA SettleCommand ==
  ASSUME Inv, SettleInv, ProcessSubmit \/ ProcessCancel
  PROVE  SettleInv'
<1>1. /\ EngineOk /\ now \in Nat /\ pc = "outbox" /\ ret \in Resume
      /\ cmds # <<>> /\ cmds \in Seq(CommandType)
  BY Zenon DEF Inv, EngineOk, EngineType, LoopType, ProcessSubmit, ProcessCancel
<1>2. /\ UNCHANGED <<frontier, now, unsettled, settling, ret, batch>>
      /\ pc' \in {ret, "outbox"}
  BY Zenon DEF ProcessSubmit, ProcessCancel, AfterCommand, marketVars, closeVars
<1>3. pc' # "cancels" /\ (Settling => Settling' /\ settling' = settling)
  BY Zenon, <1>1, <1>2 DEF Settling, Resume
<1>4. Head(cmds) \in CommandType
  BY Zenon, <1>1, QueueFacts
<1>5. CASE ProcessCancel
  <2> PICK c : c = Head(cmds).coid
    BY Zenon
  <2>1. c \in Coids /\ Cancel(c)
    BY Zenon, <1>4, <1>5 DEF ProcessCancel, CommandType
  <2>2. \A y \in resting' : y \in resting
    BY Zenon, <1>1, <1>2, <2>1, CancelEffect
  <2> QED
    BY Zenon, <1>2, <1>3, <2>2, SettleQuiet
<1>6. CASE ProcessSubmit
  <2> PICK o : o = Head(cmds).order
    BY Zenon
  <2>1. o \in OrderType /\ \E funded \in BOOLEAN : Submit(o, funded)
    BY Zenon, <1>4, <1>6 DEF ProcessSubmit, CommandType
  <2>2. CASE UNCHANGED resting
    BY Zenon, <1>2, <1>3, <2>2, SettleQuiet
  <2>3. CASE ~Expired(o.inst, now) /\ resting' = resting \cup {Resting(o)}
    <3>1. Resting(o).inst = o.inst /\ o.inst \in Instruments
      BY Zenon, <2>1 DEF Resting, OrderType
    <3>2. Expiry[o.inst] = None \/ o.inst \in unsettled
      <4>1. Expiry[o.inst] = None \/ Expiry[o.inst] \in Nat
        BY Zenon, <3>1, KernelAssumption
      <4> QED
        BY <1>1, <2>3, <3>1, <4>1 DEF SettleInv, Expired
    <3>3. \A y \in resting' : \/ y.inst \in unsettled' \/ Expiry[y.inst] = None
                              \/ Settling' /\ y.inst = settling'
      <4> SUFFICES ASSUME NEW y \in resting'
                   PROVE  \/ y.inst \in unsettled' \/ Expiry[y.inst] = None
                          \/ Settling' /\ y.inst = settling'
        OBVIOUS
      <4>1. CASE y = Resting(o)
        BY Zenon, <1>2, <3>1, <3>2, <4>1
      <4>2. CASE y \in resting
        BY Zenon, <1>2, <1>3, <4>2 DEF SettleInv
      <4> QED
        BY Zenon, <2>3, <4>1, <4>2
    <3> QED
      BY Zenon, <1>2, <1>3, <3>3 DEF SettleInv
  <2> QED
    BY Zenon, <1>1, <1>2, <2>1, <2>2, <2>3, SubmitEffect
<1> QED
  BY Zenon, <1>5, <1>6

\* settle_contract: the contract leaves the cursor, its open orders are
\* collected, cancelled one by one, and then nothing rests on it.
LEMMA SettleContractStep ==
  ASSUME Inv, SettleInv, NEW i \in unsettled, SettleContract(i)
  PROVE  SettleInv'
<1>1. /\ pc = "settle" /\ UNCHANGED <<frontier, now, resting>>
      /\ unsettled' = unsettled \ {i} /\ settling' = i /\ Expiry[i] <= frontier
  BY Zenon DEF SettleContract, marketVars, venueVars
<1>2. pc' = "settled" \/ (pc' = "drain" /\ ret' = "settled")
  BY Zenon DEF SettleContract, ClosePosition, LeavePosition, Goto, ProcessOutboxThen
<1>3. ~Settling /\ Settling' /\ pc' # "cancels"
  BY Zenon, <1>1, <1>2 DEF Settling
<1>4. Expiry[i] <= now
  <2>1. i \in Instruments /\ Expiry[i] # None /\ now \in Nat
    BY Zenon DEF Inv, EngineOk, EngineType, LoopType
  <2>2. Expiry[i] \in Nat
    BY Zenon, <2>1, KernelAssumption
  <2> QED
    BY Zenon, <1>1, <2>1, <2>2, AddFacts, LeqTransitive DEF SettleInv
<1>5. \A j \in Instruments : Expiry[j] # None /\ j \notin unsettled' => Expiry[j] <= now'
  BY Zenon, <1>1, <1>4 DEF SettleInv
<1>6. \A r \in resting' : \/ r.inst \in unsettled' \/ Expiry[r.inst] = None
                          \/ Settling' /\ r.inst = settling'
  BY Zenon, <1>1, <1>3 DEF SettleInv
<1> QED
  BY Zenon, <1>1, <1>3, <1>5, <1>6 DEF SettleInv

\* settle_contract collects every order that rests on the contract.
LEMMA CollectStep ==
  ASSUME Inv, Belonging, SettleInv, CollectOpen
  PROVE  SettleInv'
<1>1. /\ UNCHANGED <<frontier, now, resting, unsettled, settling>>
      /\ pc = "settled" /\ pc' = "cancels"
      /\ open' = {c \in Coids : /\ orders[c] # None
                                /\ orders[c].inst = settling
                                /\ ~IsTerminal(orders[c])}
  BY Zenon DEF CollectOpen, Goto, marketVars, engineVars, venueVars
<1>2. Settling /\ Settling'
  BY Zenon, <1>1 DEF Settling
<1>3. ASSUME NEW r \in resting, r.inst = settling PROVE r.coid \in open'
  <2>1. /\ r.coid \in Coids /\ orders[r.coid] # None
        /\ orders[r.coid].status \in Working
    BY Zenon DEF Inv, EngineOk, EngineType, OrderFlow, RestingInv, RestOk, RestingType
  <2>2. ~IsTerminal(orders[r.coid])
    BY <2>1 DEF IsTerminal, TerminalStatus, Working
  <2>3. orders[r.coid].inst = settling
    BY Zenon, <1>3 DEF Belonging
  <2> QED
    BY Zenon, <1>1, <2>1, <2>2, <2>3
<1> QED
  BY Zenon, <1>1, <1>2, <1>3 DEF SettleInv

\* Cancelling a collected order takes it off the book.
LEMMA CancelOpenSettle ==
  ASSUME Inv, SettleInv, NEW c \in open, CancelOpen(c)
  PROVE  SettleInv'
<1>1. /\ UNCHANGED <<frontier, now, unsettled, settling, pc, ret, batch>>
      /\ pc = "cancels" /\ open' = open \ {c} /\ Cancel(c) /\ c \in Coids /\ EngineOk
  BY Zenon DEF CancelOpen, marketVars, Inv, LoopType
<1>2. \A r \in resting' : r \in resting /\ r.coid # c
  BY Zenon, <1>1, CancelEffect
<1>3. Settling /\ Settling'
  BY Zenon, <1>1 DEF Settling
<1> QED
  BY Zenon, <1>1, <1>2, <1>3 DEF SettleInv

\* Once settle_contract is through, nothing rests on the contract.
LEMMA SettledStep ==
  ASSUME SettleInv, ContractSettled
  PROVE  SettleInv'
<1>1. /\ UNCHANGED <<frontier, now, resting, unsettled>>
      /\ pc = "cancels" /\ open = {} /\ pc' = "settle"
  BY Zenon DEF ContractSettled, Goto, marketVars, engineVars, venueVars
<1>2. \A r \in resting : r.inst \in unsettled \/ Expiry[r.inst] = None
  BY Zenon, <1>1 DEF SettleInv
<1>3. pc' # "cancels"
  BY Zenon, <1>1
<1> QED
  BY Zenon, <1>1, <1>2, <1>3 DEF SettleInv

\* The frontier moves; the clock follows it and never goes back.
LEMMA SettleAdvance ==
  ASSUME Inv, SettleInv, Advance
  PROVE  SettleInv'
<1>1. /\ pc = "loop" /\ pc' = "reports"
      /\ UNCHANGED <<resting, unsettled>> /\ now \in Nat
  BY Zenon DEF Advance, Goto, closeVars, Inv, EngineOk, EngineType
<1>2. PICK f \in Pending : frontier' = f /\ now' = Hi(now, f)
  BY Zenon DEF Advance
<1>3. f \in Int
  BY Zenon, <1>2, PendingType
<1>4. now <= now' /\ f <= now' /\ now' \in Int
  <2>1. Hi(now, f) \in Int /\ now <= Hi(now, f) /\ f <= Hi(now, f)
    BY <1>1, <1>3 DEF Hi
  <2> QED
    BY Zenon, <1>2, <2>1
<1>5. \A i \in Instruments : Expiry[i] # None /\ i \notin unsettled => Expiry[i] <= now'
  <2> SUFFICES ASSUME NEW i \in Instruments, Expiry[i] # None, i \notin unsettled
               PROVE  Expiry[i] <= now'
    OBVIOUS
  <2>1. Expiry[i] \in Nat /\ Expiry[i] <= now
    BY Zenon, KernelAssumption DEF SettleInv
  <2> QED
    BY Zenon, <1>1, <1>4, <2>1, AddFacts, LeqTransitive
<1>6. ~Settling /\ pc' # "cancels"
  BY Zenon, <1>1 DEF Settling
<1> QED
  BY Zenon, <1>1, <1>2, <1>3, <1>4, <1>5, <1>6 DEF SettleInv

\* SettleInv holds initially and is kept.
LEMMA SettleInit == Init => SettleInv
BY DEF Init, EngineInit, VenueInit, SettleInv

\* Every step of the loop preserves SettleInv.
LEMMA SettleStep ==
  ASSUME Inv, Belonging, SettleInv, [Next]_vars
  PROVE  SettleInv'
<1>t. EngineOk /\ LoopType
  BY Zenon DEF Inv
<1>1. CASE OnStart \/ OnStop \/ DispatchMarket \/ ReportsDone \/ PopTimers \/ TimersDone
           \/ NoMarket \/ LiquidationDone \/ CheckLiquidation
           \/ (\E t \in fired : OnTimer(t)) \/ (\E rep \in batch : Deliver(rep))
  <2>1. /\ UNCHANGED <<frontier, now, unsettled, resting>>
        /\ pc \in {"start", "loop", "dispatch", "reports", "timers", "fire", "market",
                   "flatten", "settle"}
        /\ pc' # "cancels"
    BY Zenon, <1>1 DEF OnStart, OnStop, DispatchMarket, ReportsDone, PopTimers, TimersDone,
       NoMarket, LiquidationDone, CheckLiquidation, OnTimer, Deliver, marketVars,
       engineVars, venueVars, closeVars, Goto, ProcessOutboxThen
  <2>2. ~Settling
    BY Zenon, <2>1 DEF Settling
  <2> QED
    BY Zenon, <2>1, <2>2, SettleQuiet
<1>2. CASE DrainOutbox
  <2>1. /\ UNCHANGED <<frontier, now, unsettled, resting, settling, ret>>
        /\ pc = "drain" /\ pc' \in {ret, "outbox"} /\ ret \in Resume
    BY Zenon, <1>t, <1>2 DEF DrainOutbox, marketVars, engineVars, venueVars, closeVars,
       LoopType
  <2>2. pc' # "cancels" /\ (Settling => Settling')
    BY Zenon, <2>1 DEF Settling, Resume
  <2> QED
    BY Zenon, <2>1, <2>2, SettleQuiet
<1>3. CASE ProcessMarket
  <2> PICK ev : ev = feed.ev
    BY Zenon
  <2>1. /\ ev \in EventType /\ OnMarket(ev) /\ pc = "market" /\ pc' = "dispatch"
        /\ UNCHANGED <<frontier, now, unsettled>>
    BY Zenon, <1>t, <1>3 DEF ProcessMarket, LoopType, closeVars, Goto
  <2>2. ~Settling /\ pc' # "cancels"
    BY Zenon, <2>1 DEF Settling
  <2>3. \A y \in resting' : \E r \in resting : y.inst = r.inst
    <3>1. CASE ev.kind = "Delta"
      BY Zenon, <2>1, <3>1 DEF OnMarket, venueVars
    <3>2. CASE ev.kind # "Delta"
      <4>1. PICK H \in SUBSET resting, q \in [resting -> Nat], k \in [resting -> Nat],
                 n \in Nat : MarketEffect(ev, H, q, k, n)
        BY Zenon, <1>t, <2>1, <3>2, EngineBook, OnMarketEffect
      <4> QED
        BY <4>1 DEF MarketEffect
    <3> QED
      BY Zenon, <3>1, <3>2
  <2> QED
    BY Zenon, <2>1, <2>2, <2>3, SettleQuiet
<1>4. CASE \E i \in flatten : Liquidate(i)
  <2>1. /\ UNCHANGED <<frontier, now, unsettled, resting>>
        /\ pc = "flatten" /\ pc' \in {"flatten", "drain"}
    BY Zenon, <1>4 DEF Liquidate, ClosePosition, LeavePosition, Goto, ProcessOutboxThen,
       marketVars, venueVars
  <2>2. ~Settling /\ pc' # "cancels"
    BY Zenon, <2>1 DEF Settling
  <2> QED
    BY Zenon, <2>1, <2>2, SettleQuiet
<1>5. CASE Done \/ UNCHANGED vars
  <2>1. UNCHANGED <<frontier, now, unsettled, resting, settling, pc, ret, open>>
    BY Zenon, <1>5 DEF Done, vars, marketVars, engineVars, venueVars, closeVars
  <2> QED
    BY Zenon, <2>1 DEF SettleInv, Settling
<1> QED
  BY Zenon, <1>1, <1>2, <1>3, <1>4, <1>5, SettleCommand, SettleContractStep, CollectStep,
     CancelOpenSettle, SettledStep, SettleAdvance DEF Next, Step

-----------------------------------------------------------------------------
\* Positions.  The sum of PositionsFollowOrders, for a cache ord of orders.

Worth(ord) == [c \in Coids |-> Sign(ord[c].side) * ord[c].filled]

OrdersOn(ord, i) == {c \in Coids : ord[c] # None /\ ord[c].inst = i}

NetOf(ord, i) == SumOf(Worth(ord), OrdersOn(ord, i))

\* It is the sum the property states.
LEMMA NetIsSum ==
  ASSUME NEW ord, NEW S \in SUBSET Coids, IsFiniteSet(S), \A c \in S : Worth(ord)[c] \in Int
  PROVE  MapThenSumSet(LAMBDA c : Sign(ord[c].side) * ord[c].filled, S)
           = SumOf(Worth(ord), S)
<1> DEFINE Eq(h) ==
             h = [s \in SUBSET S |-> IF s = {} THEN 0
                    ELSE LET c == CHOOSE c \in s : TRUE
                         IN  Sign(ord[c].side) * ord[c].filled + h[s \ {c}]]
           w == Worth(ord)
<1>1. ASSUME NEW h PROVE Eq(h) <=> IsSum(h, w, S)
  <2>1. \A s \in SUBSET S : s # {} => First(s) \in Coids
    BY DEF First
  <2>2. \A c \in Coids : w[c] = Sign(ord[c].side) * ord[c].filled
    BY Zenon DEF Worth
  <2> HIDE DEF w
  <2>3. \A s \in SUBSET S : s # {} =>
          w[First(s)] = Sign(ord[First(s)].side) * ord[First(s)].filled
    BY Zenon, <2>1, <2>2
  <2>4. [s \in SUBSET S |-> IF s = {} THEN 0
           ELSE Sign(ord[First(s)].side) * ord[First(s)].filled + h[s \ {First(s)}]]
          = [s \in SUBSET S |-> IF s = {} THEN 0 ELSE w[First(s)] + h[s \ {First(s)}]]
    BY Zenon, <2>3
  <2> QED
    BY Zenon, <2>4 DEF IsSum, First
<1>2. MapThenSumSet(LAMBDA c : Sign(ord[c].side) * ord[c].filled, S)
        = (CHOOSE h : Eq(h))[S]
  BY DEF MapThenSumSet, MapThenFoldSet
<1> HIDE DEF w, Eq
<1>3. \A c \in S : w[c] \in Int
  BY Zenon DEF w
<1>4. \E h : Eq(h)
  BY Zenon, <1>1, <1>3, SumExists
<1> DEFINE g == CHOOSE h : Eq(h)
<1>5. IsSum(g, w, S)
  BY Zenon, <1>1, <1>4
<1> HIDE DEF g
<1>6. SumOf(w, S) = g[S]
  BY Zenon, <1>3, <1>5, SumValue
<1> QED
  BY Zenon, <1>2, <1>6 DEF w, g

\* A change of one order moves the net of its instrument by the difference.
LEMMA NetChange ==
  ASSUME NEW a \in [Coids -> TrackedType \cup {None}],
         NEW b \in [Coids -> TrackedType \cup {None}],
         IsFiniteSet({c \in Coids : a[c] # None}),
         NEW c \in Coids, \A d \in Coids \ {c} : b[d] = a[d], b[c] # None,
         a[c] # None => a[c].inst = b[c].inst,
         NEW i \in Instruments
  PROVE  /\ NetOf(a, i) \in Int /\ NetOf(b, i) \in Int
         /\ b[c].inst # i => NetOf(b, i) = NetOf(a, i)
         /\ b[c].inst = i /\ a[c] = None => NetOf(b, i) = NetOf(a, i) + Worth(b)[c]
         /\ b[c].inst = i /\ a[c] # None =>
              NetOf(b, i) = NetOf(a, i) - Worth(a)[c] + Worth(b)[c]
<1> DEFINE R == OrdersOn(a, i) \ {c}
<1>1. R \in SUBSET Coids /\ R = OrdersOn(b, i) \ {c} /\ c \notin R
  BY Zenon DEF OrdersOn
<1>2. IsFiniteSet(R) /\ IsFiniteSet(R \cup {c})
  <2>1. R \subseteq {d \in Coids : a[d] # None}
    BY Zenon DEF OrdersOn
  <2> QED
    BY ZenonT(40), <2>1, FS_Subset, FS_AddElement
<1>3. \A d \in Coids : /\ a[d] # None => Worth(a)[d] \in Int
                       /\ b[d] # None => Worth(b)[d] \in Int
  <2>1. ASSUME NEW o \in TrackedType PROVE Sign(o.side) * o.filled \in Int
    BY DEF Sign, TrackedType
  <2> QED
    BY Zenon, <2>1 DEF Worth
<1>4. \A d \in R : /\ Worth(a)[d] \in Int /\ Worth(b)[d] \in Int
                   /\ Worth(a)[d] = Worth(b)[d]
  <2>1. \A d \in R : d \in Coids /\ a[d] # None /\ b[d] = a[d]
    BY Zenon DEF OrdersOn
  <2>2. \A d \in R : Worth(a)[d] = Worth(b)[d]
    BY Zenon, <2>1 DEF Worth
  <2> QED
    BY Zenon, <1>3, <2>1, <2>2
<1> HIDE DEF R
<1>5. SumOf(Worth(a), R) = SumOf(Worth(b), R) /\ SumOf(Worth(a), R) \in Int
  BY Zenon, <1>2, <1>4, SumSame, SumType
<1>6. a[c] # None => SumOf(Worth(a), R \cup {c}) = Worth(a)[c] + SumOf(Worth(a), R)
  BY Zenon, <1>1, <1>2, <1>3, <1>4, SumAdd
<1>7. SumOf(Worth(b), R \cup {c}) = Worth(b)[c] + SumOf(Worth(b), R)
  BY Zenon, <1>1, <1>2, <1>3, <1>4, SumAdd
<1>8. /\ b[c].inst # i => OrdersOn(a, i) = R /\ OrdersOn(b, i) = R
      /\ b[c].inst = i => OrdersOn(b, i) = R \cup {c}
      /\ b[c].inst = i /\ a[c] = None => OrdersOn(a, i) = R
      /\ b[c].inst = i /\ a[c] # None => OrdersOn(a, i) = R \cup {c}
  BY Zenon, <1>1 DEF OrdersOn, R
<1>9. CASE b[c].inst # i
  BY Zenon, <1>5, <1>8, <1>9 DEF NetOf
<1>10. CASE b[c].inst = i /\ a[c] = None
  <2>1. NetOf(a, i) = SumOf(Worth(a), R) /\ NetOf(b, i) = Worth(b)[c] + SumOf(Worth(a), R)
    BY ZenonT(40), <1>5, <1>7, <1>8, <1>10 DEF NetOf
  <2>2. PICK S \in Int, W \in Int : S = SumOf(Worth(a), R) /\ W = Worth(b)[c]
    BY Zenon, <1>3, <1>5
  <2>3. W + S \in Int /\ W + S = S + W
    OBVIOUS
  <2> QED
    BY Zenon, <1>10, <2>1, <2>2, <2>3
<1>11. CASE b[c].inst = i /\ a[c] # None
  <2>1. /\ NetOf(a, i) = Worth(a)[c] + SumOf(Worth(a), R)
        /\ NetOf(b, i) = Worth(b)[c] + SumOf(Worth(a), R)
    BY Zenon, <1>5, <1>6, <1>7, <1>8, <1>11 DEF NetOf
  <2>2. PICK S \in Int, V \in Int, W \in Int :
          S = SumOf(Worth(a), R) /\ V = Worth(a)[c] /\ W = Worth(b)[c]
    BY Zenon, <1>3, <1>5, <1>11
  <2>3. V + S \in Int /\ W + S \in Int /\ W + S = (V + S) - V + W
    OBVIOUS
  <2> QED
    BY Zenon, <1>11, <2>1, <2>2, <2>3
<1> QED
  BY Zenon, <1>9, <1>10, <1>11

\* PositionsFollowOrders in terms of NetOf.
Positions ==
  /\ closed_out \in [Instruments -> Int]
  /\ \A i \in Instruments : positions[i] = closed_out[i] + NetOf(orders, i)

\* Nothing has been traded at the start.
LEMMA PositionsInit == Init => Positions
<1> SUFFICES ASSUME Init PROVE Positions
  OBVIOUS
<1>1. /\ closed_out = [i \in Instruments |-> 0] /\ positions = [i \in Instruments |-> 0]
      /\ orders = [c \in Coids |-> None]
  BY Zenon DEF Init, EngineInit, OmsInit
<1>2. ASSUME NEW i \in Instruments PROVE NetOf(orders, i) = 0
  <2>1. OrdersOn(orders, i) = {}
    BY Zenon, <1>1 DEF OrdersOn
  <2> QED
    BY Zenon, <2>1, SumEmpty DEF NetOf
<1> QED
  BY <1>1, <1>2 DEF Positions

\* A side is a sign.
LEMMA SignType == \A side : Sign(side) \in Int
BY DEF Sign

\* An order that keeps what it has filled, or is tracked with nothing filled,
\* moves no net; one that takes a fill moves the net of its instrument by it.
LEMMA NetStep ==
  ASSUME Inv, Inv', Belonging, NEW c \in Coids,
         \A d \in Coids \ {c} : orders'[d] = orders[d], orders'[c] # None,
         orders[c] # None => /\ orders'[c].inst = orders[c].inst
                             /\ orders'[c].side = orders[c].side,
         NEW i \in Instruments
  PROVE  /\ NetOf(orders, i) \in Int
         /\ orders[c] = None /\ orders'[c].filled = 0 =>
              NetOf(orders', i) = NetOf(orders, i)
         /\ orders[c] # None /\ orders'[c].filled = orders[c].filled =>
              NetOf(orders', i) = NetOf(orders, i)
         /\ \A q \in Nat : orders[c] # None /\ orders'[c].filled = orders[c].filled + q =>
              NetOf(orders', i) = NetOf(orders, i) +
                (IF i = orders[c].inst THEN Sign(orders[c].side) * q ELSE 0)
<1>a. PICK a : a = orders
  BY Zenon
<1>b. PICK b : b = orders'
  BY Zenon
<1>1. /\ a \in [Coids -> TrackedType \cup {None}] /\ b \in [Coids -> TrackedType \cup {None}]
      /\ IsFiniteSet({d \in Coids : a[d] # None})
  BY Zenon, <1>a, <1>b DEF Inv, EngineOk, EngineType, Belonging
<1>2. /\ \A d \in Coids \ {c} : b[d] = a[d]
      /\ b[c] # None
      /\ a[c] # None => a[c].inst = b[c].inst /\ a[c].side = b[c].side
  BY Zenon, <1>a, <1>b
<1>3. /\ NetOf(a, i) \in Int /\ NetOf(b, i) \in Int
      /\ b[c].inst # i => NetOf(b, i) = NetOf(a, i)
      /\ b[c].inst = i /\ a[c] = None => NetOf(b, i) = NetOf(a, i) + Worth(b)[c]
      /\ b[c].inst = i /\ a[c] # None =>
           NetOf(b, i) = NetOf(a, i) - Worth(a)[c] + Worth(b)[c]
  BY ZenonT(40), <1>1, <1>2, NetChange
<1>4. /\ Worth(a)[c] = Sign(a[c].side) * a[c].filled
      /\ Worth(b)[c] = Sign(b[c].side) * b[c].filled
  BY Zenon DEF Worth
<1>5. a[c] # None => a[c].filled \in Nat
  BY Zenon, <1>1 DEF TrackedType
<1>6. a[c] = None /\ b[c].filled = 0 => NetOf(b, i) = NetOf(a, i)
  <2>1. Worth(b)[c] = 0 \/ b[c].filled # 0
    BY <1>4 DEF Sign
  <2> QED
    BY Zenon, <1>3, <2>1, AddFacts
<1>7. ASSUME NEW q \in Nat, a[c] # None, b[c].filled = a[c].filled + q
      PROVE  NetOf(b, i) = NetOf(a, i) + (IF i = a[c].inst THEN Sign(a[c].side) * q ELSE 0)
  <2>1. PICK S \in Int, f \in Nat, g \in Int :
          S = NetOf(a, i) /\ f = a[c].filled /\ g = Sign(a[c].side)
    BY Zenon, <1>3, <1>5, <1>7, SignType
  <2>2. S + 0 = S /\ S - g * f + g * (f + q) = S + g * q
    OBVIOUS
  <2> QED
    BY Zenon, <1>2, <1>3, <1>4, <1>7, <2>1, <2>2
<1>8. a[c] # None /\ b[c].filled = a[c].filled => NetOf(b, i) = NetOf(a, i)
  <2>1. PICK S \in Int, f \in Nat, g \in Int :
          S = NetOf(a, i) /\ (a[c] # None => f = a[c].filled) /\ g = Sign(a[c].side)
    BY Zenon, <1>3, <1>5, SignType
  <2>2. S - g * f + g * f = S
    OBVIOUS
  <2> QED
    BY Zenon, <1>2, <1>3, <1>4, <2>1, <2>2
<1> QED
  BY Zenon, <1>a, <1>b, <1>3, <1>6, <1>7, <1>8

\* A net is a number of lots.
LEMMA NetType ==
  ASSUME Inv, Belonging, NEW i \in Instruments
  PROVE  /\ NetOf(orders, i) \in Int /\ IsFiniteSet(OrdersOn(orders, i))
         /\ \A c \in OrdersOn(orders, i) : Worth(orders)[c] \in Int
<1>1. OrdersOn(orders, i) \subseteq {c \in Coids : orders[c] # None}
  BY Zenon DEF OrdersOn
<1>2. IsFiniteSet(OrdersOn(orders, i))
  BY Zenon, <1>1, FS_Subset DEF Belonging
<1>3. ASSUME NEW o \in TrackedType PROVE Sign(o.side) * o.filled \in Int
  BY DEF Sign, TrackedType
<1>4. \A c \in OrdersOn(orders, i) : Worth(orders)[c] \in Int
  BY Zenon, <1>3 DEF OrdersOn, Worth, Inv, EngineOk, EngineType
<1> QED
  BY Zenon, <1>2, <1>4, SumType DEF NetOf

\* Positions is kept: submit and cancel fill nothing, apply_report moves the
\* order and the position together, and a close-out is entered on both sides.
LEMMA PositionsStep ==
  ASSUME Inv, Inv', Belonging, Positions, [Next]_vars
  PROVE  Positions'
<1>1. /\ EngineOk /\ positions \in [Instruments -> Int]
      /\ closed_out \in [Instruments -> Int]
      /\ orders \in [Coids -> TrackedType \cup {None}]
  BY Zenon DEF Inv, EngineOk, EngineType, Positions
<1>2. SUFFICES /\ closed_out' \in [Instruments -> Int]
               /\ \A i \in Instruments : positions'[i] = closed_out'[i] + NetOf(orders', i)
  BY Zenon, <1>2 DEF Positions, NetOf, SumOf, IsSum, First, Worth, OrdersOn
<1>3. ASSUME /\ \A i \in Instruments : NetOf(orders', i) = NetOf(orders, i)
             /\ UNCHANGED <<positions, closed_out>>
      PROVE  /\ closed_out' \in [Instruments -> Int]
             /\ \A i \in Instruments : positions'[i] = closed_out'[i] + NetOf(orders', i)
  BY Zenon, <1>3 DEF Positions
<1>4. ASSUME NEW c \in Coids, \A d \in Coids \ {c} : orders'[d] = orders[d],
             orders'[c] # None,
             IF orders[c] = None THEN orders'[c].filled = 0
             ELSE orders'[c].filled = orders[c].filled
      PROVE  \A i \in Instruments : NetOf(orders', i) = NetOf(orders, i)
  BY Zenon, <1>4, Identity, NetStep
<1>5. CASE SubmitKind
  <2>1. PICK o \in OrderType, funded \in BOOLEAN :
          Submit(o, funded) /\ UNCHANGED <<batch, closed_out>>
    BY Zenon, <1>5 DEF SubmitKind
  <2>2. UNCHANGED <<positions, closed_out>> /\ o.coid \in Coids
    BY Zenon, <2>1 DEF Submit, engineVars, omsVars, OrderType
  <2>3. \/ orders' = orders
        \/ /\ orders[o.coid] = None
           /\ \A d \in Coids \ {o.coid} : orders'[d] = orders[d]
           /\ \E s : orders'[o.coid] = Tracked(o, s)
    BY Zenon, <1>1, <2>1, SubmitEffect
  <2>4. CASE orders' = orders
    BY Zenon, <1>3, <2>2, <2>4
  <2>5. ASSUME orders[o.coid] = None,
               \A d \in Coids \ {o.coid} : orders'[d] = orders[d],
               NEW s, orders'[o.coid] = Tracked(o, s)
        PROVE  \A i \in Instruments : NetOf(orders', i) = NetOf(orders, i)
    <3>1. orders'[o.coid].filled = 0 /\ orders'[o.coid] # None
      <4>1. SubmitApplies(o)
        BY Zenon, <2>5 DEF SubmitApplies
      <4>2. \E t \in {"Submitted", "Denied"} :
              orders' = [orders EXCEPT ![o.coid] = Tracked(o, t)]
        BY Zenon, <2>1, <4>1 DEF Submit
      <4>3. \A t \in {"Submitted", "Denied"} :
              Tracked(o, t) \in TrackedType /\ Tracked(o, t).filled = 0
        BY DEF Tracked, TrackedType, OrderType, OrderStatus, OpenStatus, TerminalStatus
      <4> QED
        BY Zenon, <1>1, <2>2, <4>2, <4>3, OrderAssumption
    <3> QED
      BY Zenon, <1>4, <2>2, <2>5, <3>1
  <2> QED
    BY Zenon, <1>3, <2>2, <2>3, <2>4, <2>5
<1>6. CASE CancelKind
  <2>1. PICK c \in Coids : Cancel(c) /\ UNCHANGED <<batch, closed_out>>
    BY Zenon, <1>6 DEF CancelKind
  <2>2. UNCHANGED <<positions, closed_out>>
    BY Zenon, <2>1 DEF Cancel
  <2>3. orders' = orders \/ /\ orders[c] # None
                            /\ orders' = [orders EXCEPT ![c] = ApplyStatus(@, "PendingCancel")]
    BY Zenon, <2>1 DEF Cancel, CancelApplies
  <2>4. CASE orders' = orders
    BY Zenon, <1>3, <2>2, <2>4
  <2>5. CASE /\ orders[c] # None
             /\ orders' = [orders EXCEPT ![c] = ApplyStatus(@, "PendingCancel")]
    <3>1. orders'[c] = ApplyStatus(orders[c], "PendingCancel")
      BY Zenon, <1>1, <2>5
    <3>2. orders[c] \in TrackedType
      BY Zenon, <1>1, <2>5
    <3>3. /\ ApplyStatus(orders[c], "PendingCancel") \in TrackedType
          /\ ApplyStatus(orders[c], "PendingCancel").filled = orders[c].filled
      BY Zenon, <3>2 DEF ApplyStatus, TrackedType, OrderStatus, OpenStatus, TerminalStatus
    <3>4. orders'[c] # None /\ orders'[c].filled = orders[c].filled
      BY Zenon, <3>1, <3>3, OrderAssumption
    <3>5. \A d \in Coids \ {c} : orders'[d] = orders[d]
      BY Zenon, <1>1, <2>5
    <3> QED
      BY Zenon, <1>3, <1>4, <2>2, <2>5, <3>4, <3>5
  <2> QED
    BY Zenon, <2>3, <2>4, <2>5
<1>7. CASE ReportKind
  <2>1. PICK rep \in batch :
          /\ \A x \in batch \ {rep} : Before(rep, x)
          /\ ApplyReport(rep)
          /\ UNCHANGED closed_out
    BY Zenon, <1>7 DEF ReportKind
  <2> PICK c : c = rep.coid
    BY Zenon
  <2>2. /\ rep \in InFlight /\ rep \in ReportType /\ c \in Coids /\ orders[c] # None
        /\ rep.kind = "Fill" => orders[c].inst = rep.inst /\ orders[c].side = rep.side
    BY Zenon, <1>1, <2>1, FirstReport, ReportEffect DEF Belonging, InFlight, ReportOk
  <2>3. /\ \A d \in Coids \ {c} : orders'[d] = orders[d]
        /\ orders'[c] # None
    BY Zenon, <1>1, <2>1, ReportEffect
  <2>4. CASE UNCHANGED positions /\ orders'[c].filled = orders[c].filled
    BY Zenon, <1>3, <1>4, <2>1, <2>2, <2>3, <2>4
  <2>5. CASE /\ rep.kind = "Fill"
             /\ positions' = [positions EXCEPT ![rep.inst] = @ + Sign(rep.side) * rep.qty]
             /\ orders'[c].filled = orders[c].filled + rep.qty
    <3>1. rep.inst \in Instruments /\ rep.qty \in Nat /\ Sign(rep.side) * rep.qty \in Int
      <4>1. rep.inst \in Instruments /\ rep.qty \in Nat
        BY ZenonT(40), <2>2, <2>5 DEF ReportType, FillType, StatusReportType
      <4>2. \A x \in Int, y \in Nat : x * y \in Int
        OBVIOUS
      <4> QED
        BY Zenon, <4>1, <4>2, SignType
    <3>2. ASSUME NEW i \in Instruments
          PROVE  positions'[i] = closed_out[i] + NetOf(orders', i)
      <4>1. /\ NetOf(orders, i) \in Int
            /\ NetOf(orders', i) = NetOf(orders, i) +
                 (IF i = rep.inst THEN Sign(rep.side) * rep.qty ELSE 0)
        <5>1. /\ NetOf(orders, i) \in Int
              /\ NetOf(orders', i) = NetOf(orders, i) +
                   (IF i = orders[c].inst THEN Sign(orders[c].side) * rep.qty ELSE 0)
          BY Zenon, <2>2, <2>3, <2>5, <3>1, Identity, NetStep
        <5>2. orders[c].inst = rep.inst /\ orders[c].side = rep.side
          BY Zenon, <2>2, <2>5
        <5> QED
          BY Zenon, <5>1, <5>2
      <4>2. positions[i] = closed_out[i] + NetOf(orders, i) /\ closed_out[i] \in Int
        BY Zenon DEF Positions
      <4>3. positions'[i] = positions[i] +
              (IF i = rep.inst THEN Sign(rep.side) * rep.qty ELSE 0)
        BY SMTT(30), <1>1, <2>5, <3>1, <4>2, <4>1
      <4> QED
        BY SMTT(30), <3>1, <4>1, <4>2, <4>3
    <3> QED
      BY Zenon, <1>1, <2>1, <3>2
  <2> QED
    BY Zenon, <1>1, <2>1, <2>4, <2>5, ReportEffect
<1>8. CASE MarketKind
  BY Zenon, <1>3, <1>8 DEF MarketKind
<1>9. CASE CloseKind
  <2>1. PICK i \in Instruments :
          /\ positions' = [positions EXCEPT ![i] = 0]
          /\ closed_out' = [closed_out EXCEPT ![i] = @ - positions[i]]
          /\ UNCHANGED orders
    BY Zenon, <1>9 DEF CloseKind
  <2>2. ASSUME NEW j \in Instruments
        PROVE  positions'[j] = closed_out'[j] + NetOf(orders, j)
    <3>1. /\ positions[j] = closed_out[j] + NetOf(orders, j)
          /\ closed_out[j] \in Int /\ NetOf(orders, j) \in Int
      BY Zenon, NetType DEF Positions
    <3> QED
      BY SMTT(30), <1>1, <2>1, <3>1
  <2>3. closed_out' \in [Instruments -> Int]
    BY <1>1, <2>1
  <2> QED
    BY Zenon, <2>1, <2>2, <2>3
<1>10. CASE QuietKind
  BY Zenon, <1>3, <1>10 DEF QuietKind
<1> QED
  BY Zenon, <1>5, <1>6, <1>7, <1>8, <1>9, <1>10, StepKinds

-----------------------------------------------------------------------------
\* Lots.  What rests of an order, and what LotsAccounted says of its n lots when
\* the cancellation is, or is not, on its way.

RemainingIn(R) == IF R = {} THEN 0 ELSE (CHOOSE r \in R : TRUE).remaining

CancelComing(c) == \E x \in InFlight : x.coid = c /\ x.kind = "Canceled"

Accounted(o, n, coming) ==
  IF o.status = "Denied" THEN n = 0
  ELSE /\ n <= o.quantity
       /\ n = o.quantity \/ o.status \in {"PendingCancel", "Canceled"} \/ coming

LotsOf(c) == orders[c].filled + QtyOf(FillsOf(c)) + RemainingIn(RestingOf(c))

Lots ==
  \A c \in Coids : orders[c] # None => Accounted(orders[c], LotsOf(c), CancelComing(c))

\* The sum of Left, which has at most one term.
LEMMA LeftValue ==
  ASSUME NEW S, S = {} \/ \E r : S = {r} /\ r.remaining \in Int
  PROVE  MapThenSumSet(LAMBDA r : r.remaining, S) = RemainingIn(S)
<1> DEFINE w == [x \in S |-> x.remaining]
           Eq(h) == h = [s \in SUBSET S |-> IF s = {} THEN 0
                           ELSE LET x == CHOOSE x \in s : TRUE IN x.remaining + h[s \ {x}]]
<1>1. ASSUME NEW h PROVE Eq(h) <=> IsSum(h, w, S)
  <2>1. \A s \in SUBSET S : s # {} => First(s) \in S
    BY DEF First
  <2> QED
    BY Zenon, <2>1 DEF IsSum, First
<1>2. MapThenSumSet(LAMBDA r : r.remaining, S) = (CHOOSE h : Eq(h))[S]
  BY DEF MapThenSumSet, MapThenFoldSet
<1>3. (\A x \in S : w[x] \in Int) /\ IsFiniteSet(S)
  BY Zenon, FS_EmptySet, FS_Singleton
<1> HIDE DEF w, Eq
<1>4. \E h : Eq(h)
  BY Zenon, <1>1, <1>3, SumExists
<1> DEFINE g == CHOOSE h : Eq(h)
<1>5. IsSum(g, w, S)
  BY Zenon, <1>1, <1>4
<1> HIDE DEF g
<1>6. SumOf(w, S) = g[S]
  BY Zenon, <1>3, <1>5, SumValue
<1>7. CASE S = {}
  <2>1. SumOf(w, S) = 0
    BY Zenon, <1>7, SumEmpty
  <2> QED
    BY Zenon, <1>2, <1>6, <1>7, <2>1 DEF g, RemainingIn
<1>8. ASSUME NEW r, S = {r}, r.remaining \in Int
      PROVE  MapThenSumSet(LAMBDA s : s.remaining, S) = RemainingIn(S)
  <2>1. SumOf(w, S) = w[r] + SumOf(w, S \ {r})
    BY Zenon, <1>3, <1>8, SumRemove
  <2>2. S \ {r} = {} /\ SumOf(w, {}) = 0
    BY Zenon, <1>8, SumEmpty
  <2>3. w[r] = r.remaining
    BY Zenon, <1>8 DEF w
  <2>4. SumOf(w, S) = r.remaining
    <3>1. SumOf(w, S) = r.remaining + 0
      BY Zenon, <2>1, <2>2, <2>3
    <3> QED
      BY SMTT(30), <1>8, <3>1
  <2>5. RemainingIn(S) = r.remaining
    BY <1>8 DEF RemainingIn
  <2> QED
    BY Zenon, <1>2, <1>6, <2>4, <2>5 DEF g
<1> QED
  BY Zenon, <1>7, <1>8

\* The fills of an order are finitely many positive quantities, and it rests at
\* most once.
LEMMA LotFacts ==
  ASSUME Inv, Belonging, NEW c \in Coids
  PROVE  /\ IsFiniteSet(FillsOf(c)) /\ \A f \in FillsOf(c) : f.qty \in Nat
         /\ QtyOf(FillsOf(c)) \in Nat
         /\ RemainingIn(RestingOf(c)) \in Nat
         /\ \A r \in RestingOf(c) : /\ RestingOf(c) = {r} /\ r.remaining \in Nat \ {0}
                                    /\ RemainingIn(RestingOf(c)) = r.remaining
<1>1. FillsOf(c) \subseteq InFlight /\ IsFiniteSet(InFlight)
  BY Zenon DEF FillsOf, Belonging
<1>2. \A f \in FillsOf(c) : f.qty \in Nat
  <2>1. \A f \in FillsOf(c) : f \in ReportType /\ f.kind = "Fill"
    BY Zenon DEF FillsOf, InFlight, Inv, EngineOk, EngineType
  <2> QED
    BY Zenon, <2>1 DEF ReportType, FillType, StatusReportType
<1>3. IsFiniteSet(FillsOf(c))
  BY Zenon, <1>1, FS_Subset
<1>4. QtyOf(FillsOf(c)) \in Nat
  BY Zenon, <1>2, <1>3, QtyMonotone
<1>5. \A r \in RestingOf(c) : RestingOf(c) = {r} /\ r.remaining \in Nat \ {0}
  BY Zenon DEF RestingOf, Inv, EngineOk, EngineType, OrderFlow, RestingInv, RestingType
<1>6. \A r \in RestingOf(c) : RemainingIn(RestingOf(c)) = r.remaining
  <2>1. ASSUME NEW r PROVE RemainingIn({r}) = r.remaining
    BY DEF RemainingIn
  <2> QED
    BY Zenon, <1>5, <2>1
<1>7. RemainingIn({}) = 0 /\ 0 \in Nat
  BY DEF RemainingIn
<1>8. RemainingIn(RestingOf(c)) \in Nat
  BY Zenon, <1>5, <1>6, <1>7
<1> QED
  BY Zenon, <1>2, <1>3, <1>4, <1>5, <1>6, <1>8

\* So Lots is LotsAccounted.
LEMMA LotsMeaning ==
  ASSUME Inv, Belonging, Lots
  PROVE  LotsAccounted
<1> SUFFICES ASSUME NEW c \in Coids, orders[c] # None
             PROVE  Accounted(orders[c], orders[c].filled + Total(FillsOf(c)) + Left(c),
                              CancelComing(c))
  BY Zenon DEF LotsAccounted, Accounted, CancelComing
<1>1. \A f \in FillsOf(c) : f.qty \in Int
  BY LotFacts
<1>2. Total(FillsOf(c)) = QtyOf(FillsOf(c))
  BY Zenon, <1>1, LotFacts, SumOfQty DEF Total, QtyOf
<1>3. RestingOf(c) = {} \/ \E r : RestingOf(c) = {r} /\ r.remaining \in Int
  BY LotFacts
<1>4. Left(c) = RemainingIn(RestingOf(c))
  BY Zenon, <1>3, LeftValue DEF Left
<1> QED
  BY Zenon, <1>2, <1>4 DEF Lots, LotsOf

\* What a step has to leave behind for order c.
LotsAfter(c) ==
  orders'[c] # None =>
    Accounted(orders'[c],
              orders'[c].filled + QtyOf(FillsOf(c)') + RemainingIn(RestingOf(c)'),
              CancelComing(c)')

\* A step that touches nothing of an order keeps its lots accounted.
LEMMA LotsUntouched ==
  ASSUME Lots, NEW c \in Coids, orders'[c] = orders[c], FillsOf(c)' = FillsOf(c),
         RestingOf(c)' = RestingOf(c), CancelComing(c) => CancelComing(c)'
  PROVE  LotsAfter(c)
<1> SUFFICES ASSUME orders[c] # None
             PROVE  Accounted(orders[c],
                      orders[c].filled + QtyOf(FillsOf(c)) + RemainingIn(RestingOf(c)),
                      CancelComing(c)')
  BY Zenon DEF LotsAfter
<1> QED
  BY Zenon DEF Lots, LotsOf, Accounted

\* submit: the whole quantity comes to rest, or the order is denied.
LEMMA LotsSubmit ==
  ASSUME Inv, Belonging, Lots, NEW o \in OrderType, NEW funded, Submit(o, funded),
         batch' = batch, NEW c \in Coids
  PROVE  LotsAfter(c)
<1>1. EngineOk /\ o.coid \in Coids
  BY Zenon DEF Inv, OrderType
<1>2. CASE UNCHANGED <<orders, resting>> /\ InFlight' = InFlight
  <2>1. /\ FillsOf(c)' = FillsOf(c) /\ RestingOf(c)' = RestingOf(c)
        /\ CancelComing(c)' = CancelComing(c)
    BY Zenon, <1>2 DEF FillsOf, RestingOf, CancelComing
  <2> QED
    BY Zenon, <1>2, <2>1, LotsUntouched
<1>3. ASSUME orders[o.coid] = None
      PROVE  \A x \in InFlight : x.coid # o.coid
  BY Zenon, <1>1, <1>3 DEF EngineOk, OrderFlow, ReportOk
<1>4. ASSUME orders[o.coid] = None
      PROVE  \A r \in resting : r.coid # o.coid
  BY Zenon, <1>1, <1>4 DEF EngineOk, OrderFlow, RestingInv, RestOk
<1>5. ASSUME orders[o.coid] = None, \A d \in Coids \ {o.coid} : orders'[d] = orders[d],
             resting' = resting \cup {Resting(o)},
             NEW a, InFlight' = InFlight \cup {a}, a.kind = "Accepted", a.coid = o.coid,
             orders'[o.coid] = Tracked(o, "Submitted")
      PROVE  LotsAfter(c)
  <2>1. a.kind # "Fill"
    BY <1>5
  <2>2. FillsOf(c)' = FillsOf(c) /\ (CancelComing(c) => CancelComing(c)')
    BY Zenon, <1>5, <2>1 DEF FillsOf, CancelComing
  <2>3. Resting(o).coid = o.coid /\ Resting(o).remaining = o.quantity
    BY Zenon DEF Resting
  <2>4. CASE c # o.coid
    <3>1. RestingOf(c)' = RestingOf(c) /\ orders'[c] = orders[c]
      BY Zenon, <1>5, <2>3, <2>4 DEF RestingOf
    <3> QED
      BY Zenon, <2>2, <3>1, LotsUntouched
  <2>5. CASE c = o.coid
    <3>1. FillsOf(c)' = {} /\ RestingOf(c)' = {Resting(o)}
      BY Zenon, <1>3, <1>4, <1>5, <2>2, <2>3, <2>5 DEF FillsOf, RestingOf
    <3>2. RemainingIn({Resting(o)}) = o.quantity
      <4>1. \A r : RemainingIn({r}) = r.remaining
        BY DEF RemainingIn
      <4> QED
        BY Zenon, <2>3, <4>1
    <3>3. o.quantity \in Nat
      BY Zenon DEF OrderType
    <3>4. /\ Tracked(o, "Submitted").filled = 0
          /\ Tracked(o, "Submitted").quantity = o.quantity
          /\ Tracked(o, "Submitted").status = "Submitted"
      BY Zenon DEF Tracked
    <3>5. Accounted(Tracked(o, "Submitted"), 0 + 0 + o.quantity, CancelComing(c)')
      BY SMTT(30), <3>3, <3>4 DEF Accounted
    <3> QED
      BY Zenon, <1>5, <2>5, <3>1, <3>2, <3>4, <3>5, QtyEmpty DEF LotsAfter
  <2> QED
    BY ZenonT(40), <2>4, <2>5
<1>6. ASSUME orders[o.coid] = None, \A d \in Coids \ {o.coid} : orders'[d] = orders[d],
             InFlight' = InFlight, UNCHANGED resting,
             orders'[o.coid] = Tracked(o, "Denied")
      PROVE  LotsAfter(c)
  <2>1. /\ FillsOf(c)' = FillsOf(c) /\ RestingOf(c)' = RestingOf(c)
        /\ CancelComing(c)' = CancelComing(c)
    BY Zenon, <1>6 DEF FillsOf, RestingOf, CancelComing
  <2>2. CASE c # o.coid
    BY Zenon, <1>6, <2>1, <2>2, LotsUntouched
  <2>3. CASE c = o.coid
    <3>1. FillsOf(c)' = {} /\ RestingOf(c)' = {}
      BY Zenon, <1>3, <1>4, <1>6, <2>1, <2>3 DEF FillsOf, RestingOf
    <3>2. Tracked(o, "Denied").filled = 0 /\ Tracked(o, "Denied").status = "Denied"
      BY Zenon DEF Tracked
    <3>3. RemainingIn({}) = 0
      BY DEF RemainingIn
    <3>4. Accounted(Tracked(o, "Denied"), 0 + 0 + 0, CancelComing(c)')
      BY SMTT(30), <3>2 DEF Accounted
    <3> QED
      BY Zenon, <1>6, <2>3, <3>1, <3>2, <3>3, <3>4, QtyEmpty DEF LotsAfter
  <2> QED
    BY Zenon, <2>2, <2>3
<1> QED
  BY Zenon, <1>1, <1>2, <1>5, <1>6, SubmitEffect

\* cancel: what rested is given up, and the cancellation is on its way.
LEMMA LotsCancel ==
  ASSUME Inv, Belonging, Lots, NEW d \in Coids, Cancel(d), batch' = batch, NEW c \in Coids
  PROVE  LotsAfter(c)
<1>1. EngineOk
  BY Zenon DEF Inv
<1>2. FillsOf(c)' = FillsOf(c) /\ (CancelComing(c) => CancelComing(c)')
  <2>1. ASSUME NEW a, InFlight' = InFlight \cup {a}, a.kind = "Canceled"
        PROVE  FillsOf(c)' = FillsOf(c) /\ (CancelComing(c) => CancelComing(c)')
    BY Zenon, <2>1 DEF FillsOf, CancelComing
  <2>2. CASE InFlight' = InFlight
    BY Zenon, <2>2 DEF FillsOf, CancelComing
  <2> QED
    BY Zenon, <1>1, <2>1, <2>2, CancelEffect
<1>3. CASE c # d
  <2>1. RestingOf(c)' = RestingOf(c) /\ orders'[c] = orders[c]
    <3>1. /\ orders'[c] = orders[c]
          /\ \A r \in resting' : r \in resting
          /\ \A r \in resting : r.coid # d => r \in resting'
      BY Zenon, <1>1, <1>3, CancelEffect
    <3> QED
      BY Zenon, <1>3, <3>1 DEF RestingOf
  <2> QED
    BY Zenon, <1>2, <2>1, LotsUntouched
<1>4. CASE c = d
  <2> SUFFICES ASSUME orders'[c] # None PROVE LotsAfter(c)
    BY Zenon DEF LotsAfter
  <2>1. orders \in [Coids -> TrackedType \cup {None}]
    BY Zenon, <1>1 DEF EngineOk, EngineType
  <2> PICK o : o = orders[c]
    BY Zenon
  <2> PICK p : p = orders'[c]
    BY Zenon
  <2>2. o \in TrackedType /\ o # None
    BY Zenon, <1>4, <2>1 DEF Cancel, CancelApplies
  <2>3. \/ p = o
        \/ /\ p.status = "PendingCancel" /\ p.filled = o.filled
           /\ p.quantity = o.quantity /\ o.status # "Denied"
    <3>1. CASE CancelApplies(c)
      <4>1. p = ApplyStatus(o, "PendingCancel") /\ o.status # "Denied"
        BY Zenon, <1>4, <2>1, <2>2, <3>1
           DEF Cancel, CancelApplies, CanApply, Allowed, OpenStatus, TerminalStatus
      <4> QED
        BY Zenon, <2>2, <4>1 DEF ApplyStatus, TrackedType
    <3>2. CASE ~CancelApplies(c)
      BY Zenon, <1>4, <3>2 DEF Cancel
    <3> QED
      BY Zenon, <3>1, <3>2
  <2> PICK n : n = RemainingIn(RestingOf(c))
    BY Zenon
  <2> PICK m : m = RemainingIn(RestingOf(c)')
    BY Zenon
  <2>4. n \in Nat /\ QtyOf(FillsOf(c)) \in Nat /\ o.filled \in Nat /\ o.quantity \in Nat
    BY Zenon, <2>2, LotFacts DEF TrackedType
  <2>5. RestingOf(c)' = {} /\ m = 0
    BY Zenon, <1>1, <1>4, CancelEffect DEF RestingOf, RemainingIn
  <2>6. n = 0 \/ (CancelComing(c)' /\ o.status \in Working)
    <3>1. CASE UNCHANGED resting
      BY Zenon, <2>5, <3>1 DEF RestingOf, RemainingIn
    <3>2. ASSUME NEW a, InFlight' = InFlight \cup {a}, a.kind = "Canceled", a.coid = d
          PROVE  CancelComing(c)'
      BY Zenon, <1>4, <3>2 DEF CancelComing
    <3>3. RestingOf(c) = {} => n = 0
      BY Zenon DEF RemainingIn
    <3>4. \A r \in RestingOf(c) : orders[r.coid].status \in Working /\ r.coid = c
      BY ZenonT(40), <1>1 DEF RestingOf, EngineOk, OrderFlow, RestingInv, RestOk
    <3>5. RestingOf(c) # {} => o.status \in Working
      BY <3>4
    <3> QED
      BY Zenon, <1>1, <3>1, <3>2, <3>3, <3>5, CancelEffect
  <2>7. Accounted(o, o.filled + QtyOf(FillsOf(c)) + n, CancelComing(c))
    BY Zenon, <2>2 DEF Lots, LotsOf
  <2>8. Accounted(p, p.filled + QtyOf(FillsOf(c)) + 0, CancelComing(c)')
    <3> PICK t : t = o.filled + QtyOf(FillsOf(c)) + n
      BY Zenon
    <3> PICK u : u = p.filled + QtyOf(FillsOf(c)) + 0
      BY Zenon
    <3>1. /\ n = 0 => u = t
          /\ t <= o.quantity => u <= o.quantity
          /\ p.quantity = o.quantity
      <4>1. p.filled = o.filled /\ p.quantity = o.quantity
        BY Zenon, <2>3
      <4> QED
        BY ZenonT(40), <2>4, <4>1, FewerLots
    <3>2. p.status = "Denied" <=> o.status = "Denied"
      BY Zenon, <2>3
    <3>3. o.status = "Denied" => t = u
      BY Zenon, <2>6, <3>1 DEF Working
    <3>4. Accounted(o, t, CancelComing(c))
      BY Zenon, <2>7
    <3>5. CASE o.status = "Denied"
      BY Zenon, <3>2, <3>3, <3>4, <3>5 DEF Accounted
    <3>6. CASE o.status # "Denied"
      <4>1. t <= o.quantity /\ u <= p.quantity
        BY Zenon, <3>1, <3>4, <3>6 DEF Accounted
      <4>2. u = p.quantity \/ p.status \in {"PendingCancel", "Canceled"} \/ CancelComing(c)'
        BY Zenon, <1>2, <2>3, <2>6, <3>1, <3>4, <3>6 DEF Accounted
      <4> QED
        BY Zenon, <3>2, <3>6, <4>1, <4>2 DEF Accounted
    <3> QED
      BY ZenonT(40), <3>5, <3>6
  <2> QED
    BY Zenon, <1>2, <2>5, <2>8 DEF LotsAfter
<1> QED
  BY Zenon, <1>3, <1>4

\* apply_report: the lots of a fill move from flight to the order, unless the
\* order awaits its cancellation.
LEMMA LotsReport ==
  ASSUME Inv, Belonging, Lots, NEW rep \in batch, \A x \in batch \ {rep} : Before(rep, x),
         ApplyReport(rep), batch' = batch \ {rep}, UNCHANGED venueVars, NEW c \in Coids
  PROVE  LotsAfter(c)
<1>1. EngineOk /\ rep \in ReportType /\ rep \in InFlight /\ ReportOk(rep) /\ rep \notin queue
  BY Zenon, FirstReport DEF Inv, InFlight
<1>2. InFlight' = InFlight \ {rep} /\ RestingOf(c)' = RestingOf(c)
  BY Zenon, <1>1 DEF InFlight, RestingOf, venueVars
<1>3. CASE c # rep.coid
  <2>1. FillsOf(c)' = FillsOf(c) /\ (CancelComing(c) => CancelComing(c)')
    BY Zenon, <1>2, <1>3 DEF FillsOf, CancelComing
  <2>2. orders'[c] = orders[c]
    BY Zenon, <1>1, <1>3, ReportEffect
  <2> QED
    BY Zenon, <1>2, <2>1, <2>2, LotsUntouched
<1>4. CASE c = rep.coid
  <2> PICK o : o = orders[c]
    BY Zenon
  <2> PICK p : p = orders'[c]
    BY Zenon
  <2> PICK F : F = FillsOf(c)
    BY Zenon
  <2> PICK n : n = RemainingIn(RestingOf(c))
    BY Zenon
  <2>1. /\ o \in TrackedType /\ o # None /\ p.quantity = o.quantity /\ p # None
        /\ o.status # "Denied" /\ o.status # "Canceled"
        /\ rep.kind = "Accepted" => o.status = "Submitted"
    BY Zenon, <1>1, <1>4, FirstReport, ReportEffect DEF ReportOk, Working
  <2>2. /\ n \in Nat /\ QtyOf(F) \in Nat /\ o.filled \in Nat /\ o.quantity \in Nat
        /\ IsFiniteSet(F) /\ \A f \in F : f.qty \in Nat
    BY Zenon, <2>1, LotFacts DEF TrackedType
  <2>3. /\ o.filled + QtyOf(F) + n <= o.quantity
        /\ \/ o.filled + QtyOf(F) + n = o.quantity
           \/ o.status = "PendingCancel"
           \/ CancelComing(c)
    <3>1. Accounted(o, o.filled + QtyOf(F) + n, CancelComing(c))
      BY Zenon, <2>1 DEF Lots, LotsOf
    <3> QED
      BY Zenon, <2>1, <3>1 DEF Accounted
  <2>4. FillsOf(c)' = F \ {rep}
    BY Zenon, <1>2 DEF FillsOf
  <2>5. rep.kind # "Canceled" => (CancelComing(c) => CancelComing(c)')
    BY Zenon, <1>2 DEF CancelComing
  <2>6. SUFFICES Accounted(p, p.filled + QtyOf(F \ {rep}) + n, CancelComing(c)')
    BY Zenon, <1>2, <2>4 DEF LotsAfter
  <2>7. CASE rep.kind # "Fill"
    <3>1. p.status = rep.kind /\ p.filled = o.filled
      BY Zenon, <1>1, <1>4, <2>7, ReportEffect
    <3>2. F \ {rep} = F
      BY Zenon, <2>7 DEF FillsOf
    <3>3. rep.kind \in {"Accepted", "Canceled"}
      BY ZenonT(40), <1>1, <2>7 DEF ReportType, FillType, StatusReportType
    <3>4. p.status # "Denied"
      BY Zenon, <3>1, <3>3
    <3>5. CASE rep.kind = "Canceled"
      BY Zenon, <2>1, <2>3, <3>1, <3>2, <3>4, <3>5 DEF Accounted
    <3>6. CASE rep.kind = "Accepted"
      <4>1. rep.kind # "Canceled" /\ o.status # "PendingCancel"
        BY Zenon, <2>1, <3>6
      <4> QED
        BY Zenon, <2>1, <2>3, <2>5, <3>1, <3>2, <3>4, <4>1 DEF Accounted
    <3> QED
      BY Zenon, <3>3, <3>5, <3>6
  <2>8. CASE rep.kind = "Fill"
    <3>1. rep \in F /\ rep.qty \in Nat
      BY Zenon, <1>1, <1>4, <2>2, <2>8 DEF FillsOf
    <3>2. QtyOf(F) = QtyOf(F \ {rep}) + rep.qty /\ QtyOf(F \ {rep}) \in Nat
      <4>1. F = (F \ {rep}) \cup {rep} /\ IsFiniteSet(F \ {rep})
        BY Zenon, <2>2, <3>1, FS_Subset
      <4>2. QtyOf((F \ {rep}) \cup {rep}) = QtyOf(F \ {rep}) + rep.qty
        BY Zenon, <2>2, <3>1, <4>1, QtyAdd
      <4>3. QtyOf(F \ {rep}) \in Nat
        BY Zenon, <2>2, <4>1, QtyMonotone
      <4> QED
        BY Zenon, <4>1, <4>2, <4>3
    <3>3. rep.kind # "Canceled"
      BY <2>8
    <3>4. CASE o.status = "PendingCancel" /\ p = o
      <4>1. p.filled + QtyOf(F \ {rep}) + n <= p.quantity
        <5>1. PICK g \in Nat, a \in Nat, l \in Nat, z \in Nat, k \in Nat :
                g = o.filled /\ a = QtyOf(F \ {rep}) /\ l = rep.qty /\ z = n /\ k = o.quantity
          BY Zenon, <2>2, <3>1, <3>2
        <5>2. g + (a + l) + z <= k => g + a + z <= k
          OBVIOUS
        <5> QED
          BY Zenon, <2>3, <3>2, <3>4, <5>1, <5>2
      <4>2. p.status # "Denied"
        BY Zenon, <3>4
      <4> QED
        BY Zenon, <3>4, <4>1, <4>2 DEF Accounted
    <3>5. CASE /\ o.status # "PendingCancel"
               /\ p.filled = o.filled + rep.qty
               /\ p.status \in {"Filled", "PartiallyFilled"}
      <4>1. p.filled + QtyOf(F \ {rep}) + n = o.filled + QtyOf(F) + n
        <5>1. PICK a \in Nat : a = QtyOf(F \ {rep})
          BY Zenon, <3>2
        <5>2. QtyOf(F) = a + rep.qty
          BY ZenonT(40), <3>2, <5>1
        <5>3. p.filled + a + n = o.filled + (a + rep.qty) + n
          BY SMTT(30), <2>2, <3>1, <3>5
        <5> QED
          BY Zenon, <5>1, <5>2, <5>3
      <4>2. p.status # "Denied"
        BY <3>5
      <4> QED
        BY Zenon, <2>1, <2>3, <2>5, <3>3, <3>5, <4>1, <4>2 DEF Accounted
    <3> QED
      BY Zenon, <1>1, <1>4, <2>8, <3>4, <3>5, ReportEffect
  <2> QED
    BY Zenon, <2>7, <2>8
<1> QED
  BY Zenon, <1>3, <1>4

\* on_market: what an order loses of its rest it has in one new fill.
LEMMA LotsMarket ==
  ASSUME Inv, Belonging, Lots, Inv', Belonging',
         NEW ev \in EventType, ev.kind # "Delta", OnMarket(ev),
         UNCHANGED <<orders, batch>>, NEW c \in Coids
  PROVE  LotsAfter(c)
<1>1. EngineOk
  BY Zenon DEF Inv
<1>2. PICK H \in SUBSET resting, q \in [resting -> Nat], k \in [resting -> Nat],
           n \in Nat : MarketEffect(ev, H, q, k, n)
  BY Zenon, <1>1, EngineBook, OnMarketEffect
<1>3. /\ InFlight \subseteq InFlight'
      /\ \A f \in InFlight' : f \in InFlight \/ \E r \in H : NewFill(f, r, ev, q[r], k[r])
      /\ \A r \in H : \E f \in InFlight' : NewFill(f, r, ev, q[r], k[r])
  BY Zenon, <1>2 DEF MarketEffect, InFlight
<1>4. CancelComing(c) => CancelComing(c)'
  BY Zenon, <1>3 DEF CancelComing
<1>5. ASSUME \A r \in H : r.coid # c
      PROVE  FillsOf(c)' = FillsOf(c)
  <2>1. \A f \in InFlight' : f.coid = c => f \in InFlight
    <3>1. \A f \in InFlight' : f \in InFlight \/ \E r \in H : f.coid = r.coid
      BY Zenon, <1>3 DEF NewFill
    <3> QED
      BY Zenon, <1>5, <3>1
  <2> QED
    BY ZenonT(40), <1>3, <2>1 DEF FillsOf
<1> SUFFICES ASSUME orders[c] # None PROVE LotsAfter(c)
  BY Zenon DEF LotsAfter
<1>6. CASE RestingOf(c) = {}
  <2>1. RestingOf(c)' = {}
    <3>1. \A y \in resting' : \E r \in resting : y.coid = r.coid
      BY Zenon, <1>2 DEF MarketEffect
    <3>2. \A y \in resting' : y.coid # c
      BY Zenon, <1>6, <3>1 DEF RestingOf
    <3> QED
      BY Zenon, <3>2 DEF RestingOf
  <2>2. FillsOf(c)' = FillsOf(c)
    BY Zenon, <1>5, <1>6 DEF RestingOf
  <2> QED
    BY Zenon, <1>4, <1>6, <2>1, <2>2, LotsUntouched
<1>7. ASSUME NEW r \in RestingOf(c)
      PROVE  LotsAfter(c)
  <2>1. /\ RestingOf(c) = {r} /\ r.remaining \in Nat /\ r \in resting /\ r.coid = c
        /\ RemainingIn(RestingOf(c)) = r.remaining
        /\ q[r] \in Nat /\ q[r] <= r.remaining
    BY ZenonT(40), <1>2, <1>7, LotFacts DEF RestingOf, MarketEffect
  <2>2. RemainingIn(RestingOf(c)') = r.remaining - q[r]
    <3>1. \A y \in RestingOf(c)' : /\ RestingOf(c)' = {y}
                                   /\ y.remaining \in Nat \ {0}
                                   /\ RemainingIn(RestingOf(c)') = y.remaining
      <4>1. /\ resting' \subseteq RestingType
            /\ \A x, y \in resting' : x.coid = y.coid => x = y
        BY Zenon, <1>2 DEF MarketEffect, Inv, EngineOk, EngineType
      <4>2. \A y \in RestingOf(c)' : RestingOf(c)' = {y} /\ y.remaining \in Nat \ {0}
        BY Zenon, <4>1 DEF RestingOf, RestingType
      <4>3. ASSUME NEW y PROVE RemainingIn({y}) = y.remaining
        BY DEF RemainingIn
      <4> QED
        BY Zenon, <4>2, <4>3
    <3>2. ASSUME NEW y \in RestingOf(c)' PROVE y.remaining = r.remaining - q[r]
      <4>1. y \in resting' /\ y.coid = c
        BY Zenon, <3>2 DEF RestingOf
      <4>2. PICK s \in resting : y.coid = s.coid /\ y.remaining = s.remaining - q[s]
        BY Zenon, <1>2, <4>1 DEF MarketEffect
      <4>3. s = r
        BY Zenon, <2>1, <4>1, <4>2 DEF RestingOf
      <4> QED
        BY Zenon, <4>2, <4>3
    <3>3. CASE RestingOf(c)' = {}
      <4>1. ~(r.remaining > q[r])
        BY ZenonT(40), <1>2, <2>1, <3>3 DEF MarketEffect, RestingOf
      <4>2. RemainingIn({}) = 0
        BY Zenon DEF RemainingIn
      <4>3. r.remaining - q[r] = 0
        BY SMTT(30), <2>1, <4>1
      <4> QED
        BY Zenon, <3>3, <4>2, <4>3
    <3> QED
      BY Zenon, <3>1, <3>2, <3>3
  <2>3. QtyOf(FillsOf(c)') = QtyOf(FillsOf(c)) + q[r] /\ QtyOf(FillsOf(c)) \in Nat
    <3>1. /\ QtyOf(FillsOf(c)) \in Nat /\ IsFiniteSet(FillsOf(c))
          /\ \A f \in FillsOf(c) : f.qty \in Nat
      BY Zenon, LotFacts
    <3>2. CASE r \notin H
      <4>1. \A s \in H : s.coid # c
        BY Zenon, <2>1, <3>2 DEF RestingOf
      <4>2. FillsOf(c)' = FillsOf(c)
        BY Zenon, <1>5, <4>1
      <4>3. q[r] = 0
        BY Zenon, <1>2, <2>1, <3>2 DEF MarketEffect
      <4> QED
        BY Zenon, <3>1, <4>2, <4>3, AddFacts
    <3>3. CASE r \in H
      <4>1. PICK f \in InFlight' : NewFill(f, r, ev, q[r], k[r])
        BY Zenon, <1>3, <3>3
      <4>2. f.kind = "Fill" /\ f.coid = c /\ f.qty = q[r] /\ f.seq = queue_seq + k[r]
        BY Zenon, <2>1, <4>1 DEF NewFill
      <4>3. f \notin InFlight
        <5>1. \A x \in InFlight : x.seq <= queue_seq
          BY Zenon, <1>1 DEF EngineOk, OrderFlow, ReportOk
        <5>2. k[r] \in 1..n /\ queue_seq \in Nat
          BY Zenon, <1>1, <1>2, <3>3 DEF MarketEffect, EngineOk, EngineType
        <5> QED
          BY ZenonT(40), <4>2, <5>1, <5>2, PastLast
      <4>4. ASSUME NEW g \in InFlight', g \notin InFlight, g.coid = c PROVE g = f
        <5>1. PICK s \in H : NewFill(g, s, ev, q[s], k[s])
          BY Zenon, <1>3, <4>4
        <5>2. s = r
          BY Zenon, <2>1, <4>4, <5>1 DEF NewFill, RestingOf
        <5> QED
          BY Zenon, <4>1, <5>1, <5>2 DEF NewFill
      <4>5. FillsOf(c)' = FillsOf(c) \cup {f} /\ f \notin FillsOf(c)
        BY Zenon, <1>3, <4>2, <4>3, <4>4 DEF FillsOf
      <4>6. QtyOf(FillsOf(c) \cup {f}) = QtyOf(FillsOf(c)) + f.qty
        BY Zenon, <2>1, <3>1, <4>2, <4>5, QtyAdd
      <4> QED
        BY Zenon, <3>1, <4>2, <4>5, <4>6
    <3> QED
      BY Zenon, <3>2, <3>3
  <2>4. orders[c].filled \in Nat
    BY Zenon, <1>1 DEF EngineOk, EngineType, TrackedType
  <2>5. orders[c].filled + QtyOf(FillsOf(c)') + RemainingIn(RestingOf(c)')
          = orders[c].filled + QtyOf(FillsOf(c)) + RemainingIn(RestingOf(c))
    <3> PICK a : a = QtyOf(FillsOf(c))
      BY Zenon
    <3> PICK b : b = QtyOf(FillsOf(c)')
      BY Zenon
    <3> PICK d : d = RemainingIn(RestingOf(c)')
      BY Zenon
    <3>1. b = a + q[r] /\ a \in Nat /\ d = r.remaining - q[r]
      BY Zenon, <2>2, <2>3
    <3>2. orders[c].filled + b + d = orders[c].filled + a + r.remaining
      BY SMTT(30), <2>1, <2>4, <3>1
    <3> QED
      BY Zenon, <2>1, <3>2
  <2>6. Accounted(orders[c],
          orders[c].filled + QtyOf(FillsOf(c)) + RemainingIn(RestingOf(c)), CancelComing(c))
    BY Zenon DEF Lots, LotsOf
  <2> QED
    BY Zenon, <1>4, <2>5, <2>6 DEF LotsAfter, Accounted
<1> QED
  BY Zenon, <1>6, <1>7

\* Lots holds initially, when nothing is tracked, and every step keeps it.
LEMMA LotsInit == Init => Lots
BY Zenon DEF Init, EngineInit, OmsInit, Lots

\* Every step of the loop accounts for all lots.
LEMMA LotsStep ==
  ASSUME Inv, Inv', Belonging, Belonging', Lots, [Next]_vars
  PROVE  Lots'
<1> SUFFICES ASSUME NEW c \in Coids PROVE LotsAfter(c)
  BY Zenon DEF Lots, LotsOf, LotsAfter, QtyOf, SumOf, IsSum, First, RemainingIn
<1>1. CASE SubmitKind
  BY Zenon, <1>1, LotsSubmit DEF SubmitKind
<1>2. CASE CancelKind
  BY Zenon, <1>2, LotsCancel DEF CancelKind
<1>3. CASE ReportKind
  BY Zenon, <1>3, LotsReport DEF ReportKind
<1>4. CASE MarketKind
  BY Zenon, <1>4, LotsMarket DEF MarketKind
<1>5. CASE CloseKind \/ QuietKind
  <2>1. UNCHANGED <<orders, resting>> /\ InFlight' = InFlight
    BY Zenon, <1>5 DEF CloseKind, QuietKind
  <2>2. /\ FillsOf(c)' = FillsOf(c) /\ RestingOf(c)' = RestingOf(c)
        /\ CancelComing(c)' = CancelComing(c)
    BY Zenon, <2>1 DEF FillsOf, RestingOf, CancelComing
  <2> QED
    BY Zenon, <2>1, <2>2, LotsUntouched
<1> QED
  BY Zenon, <1>1, <1>2, <1>3, <1>4, <1>5, StepKinds

-----------------------------------------------------------------------------
\* The four invariants together.
Books == Belonging /\ SettleInv /\ Positions /\ Lots

\* The four invariants hold in every reachable state.
LEMMA BooksInvariance == Spec => []Books
<1>1. Init => Books
  BY Zenon, BelongingInit, SettleInit, PositionsInit, LotsInit DEF Books
<1>2. Inv /\ Inv' /\ Books /\ [Next]_vars => Books'
  <2> SUFFICES ASSUME Inv, Inv', Books, [Next]_vars PROVE Books'
    OBVIOUS
  <2>1. Belonging'
    BY Zenon, BelongingStep DEF Books
  <2>2. SettleInv'
    BY Zenon, SettleStep DEF Books
  <2>3. Positions'
    BY Zenon, PositionsStep DEF Books
  <2>4. Lots'
    BY Zenon, <2>1, LotsStep DEF Books
  <2> QED
    BY Zenon, <2>1, <2>2, <2>3, <2>4 DEF Books
<1> QED
  BY <1>1, <1>2, Invariance, PTL DEF Spec

\* Once a contract has been settled nothing rests on it: settle_contract takes
\* every order on it off the venue, and the expiry gate of submit lets no new
\* one through.
THEOREM NothingRestsOnDeadContracts == Spec => []DeadContractsHaveNoOrders
<1>1. Books => DeadContractsHaveNoOrders
  BY Zenon DEF Books, SettleInv, DeadContractsHaveNoOrders
<1> QED
  BY <1>1, BooksInvariance, PTL

\* An instrument's position is the sum of what its orders have taken and of the
\* settlement and liquidation fills: apply_report moves the order and the
\* position together or not at all.
THEOREM PositionsAreFilledOrders == Spec => []PositionsFollowOrders
<1>1. Inv /\ Books => PositionsFollowOrders
  <2> SUFFICES ASSUME Inv, Books, NEW i \in Instruments
               PROVE  positions[i] = closed_out[i] +
                        MapThenSumSet(LAMBDA c : Sign(orders[c].side) * orders[c].filled,
                                      OrdersOn(orders, i))
    BY Zenon DEF PositionsFollowOrders, OrdersOn
  <2> PICK S : S = OrdersOn(orders, i)
    BY Zenon
  <2>1. S \in SUBSET Coids /\ IsFiniteSet(S)
    BY Zenon, NetType DEF OrdersOn, Books
  <2>2. \A c \in S : Worth(orders)[c] \in Int
    BY Zenon, NetType DEF Books
  <2>3. MapThenSumSet(LAMBDA c : Sign(orders[c].side) * orders[c].filled, S)
          = SumOf(Worth(orders), S)
    BY Zenon, <2>1, <2>2, NetIsSum
  <2> QED
    BY Zenon, <2>3 DEF Books, Positions, NetOf
<1> QED
  BY <1>1, BooksInvariance, Invariance, PTL

\* No lot is filled twice, invented or lost on the way from on_submit through
\* on_market and drain_due to apply_report; only a cancel may give lots up.
THEOREM NoLotIsLost == Spec => []LotsAccounted
<1>1. Inv /\ Books => LotsAccounted
  BY Zenon, LotsMeaning DEF Books
<1> QED
  BY <1>1, BooksInvariance, Invariance, PTL
=============================================================================

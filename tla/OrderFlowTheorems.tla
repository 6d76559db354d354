------------------------- MODULE OrderFlowTheorems --------------------------
(***************************************************************************)
(* The engine of the backtest kernel, for every strategy, feed, latency    *)
(* and limit.  EngineOk, the engine's types together with OrderFlow, is    *)
(* preserved by submit and cancel, by on_market, which schedules the fills *)
(* of an event, and by the delivery of a report: drain_due hands them to   *)
(* the loop in the order of the queue and apply_report takes each of them, *)
(* unless a fill meets a pending cancel.  Inv adds the types of the loop's *)
(* own variables; the types, the order flow and the refinement of          *)
(* OrderLifecycle by the cached orders follow from it.                     *)
(***************************************************************************)
EXTENDS BacktestKernel, VenueLemmas

USE NoneAssumption

-----------------------------------------------------------------------------
\* The queue of commands: the empty one, the next command and the rest, the
\* outbox appended to what waits, and the commands numbered one by one.
LEMMA QueueFacts ==
  ASSUME NEW S
  PROVE  /\ <<>> \in Seq(S)
         /\ \A s \in Seq(S) : s # <<>> => Head(s) \in S /\ Tail(s) \in Seq(S)
         /\ \A s, t \in Seq(S) : s \o t \in Seq(S)
         /\ \A n \in Nat : \A s \in [1..n -> S] : s \in Seq(S)
<1>1. \A s \in Seq(S) : s # <<>> => Head(s) \in S /\ Tail(s) \in Seq(S)
  OBVIOUS
<1>2. \A s, t \in Seq(S) : s \o t \in Seq(S)
  OBVIOUS
<1>3. \A n \in Nat : \A s \in [1..n -> S] : s \in Seq(S)
  OBVIOUS
<1>4. <<>> \in Seq(S)
  OBVIOUS
<1> QED
  BY Zenon, <1>1, <1>2, <1>3, <1>4

-----------------------------------------------------------------------------
\* submit and cancel

EngineOk == EngineType /\ OrderFlow

flowVars == <<now, queue, batch, queue_seq, venue_seq, trade_seq, resting,
              orders, seen_trade_ids>>

\* A step that leaves orders, reports and the book alone preserves EngineOk.
LEMMA FlowUnchanged ==
  ASSUME EngineOk, UNCHANGED flowVars, positions' \in [Instruments -> Int],
         batch = {} \/ pc' = pc
  PROVE  EngineOk'
<1>1. EngineType'
  BY Zenon DEF EngineOk, EngineType, flowVars
<1>2. BatchInv'
  BY Zenon DEF EngineOk, OrderFlow, BatchInv, flowVars
<1>3. RestingInv'
  BY Zenon DEF EngineOk, OrderFlow, RestingInv, RestOk, flowVars
<1>4. (\A x \in InFlight : ReportOk(x))'
  BY DEF EngineOk, OrderFlow, ReportOk, FillOk, InFlight, flowVars
<1>5. PairInv'
  BY DEF EngineOk, OrderFlow, PairInv, PairOk, InFlight, flowVars
<1>6. OrderInv'
  BY Zenon DEF EngineOk, OrderFlow, OrderInv, OrderOk, InFlight, flowVars
<1> QED
  BY Zenon, <1>1, <1>2, <1>3, <1>4, <1>5, <1>6 DEF EngineOk, OrderFlow

\* The kernel starts with nothing tracked, resting or in flight.
LEMMA InitEngine == Init => EngineOk
<1> SUFFICES ASSUME Init PROVE EngineOk
  OBVIOUS
<1>1. EngineType
  BY DEF Init, EngineInit, OmsInit, VenueInit, CacheInit, EngineType
<1>2. IsFiniteSet(resting)
  BY Zenon, FS_EmptySet DEF Init, EngineInit, VenueInit, CacheInit
<1>3. OrderFlow
  BY Zenon, <1>2 DEF Init, EngineInit, OmsInit, VenueInit, CacheInit, OrderFlow, BatchInv,
     RestingInv, InFlight, PairInv, OrderInv
<1> QED
  BY Zenon, <1>1, <1>3 DEF EngineOk

\* The engine's book is one that VenueLemmas speaks of.
LEMMA EngineBook ==
  ASSUME EngineOk
  PROVE  BookOk
<1>1. now \in Nat /\ queue_seq \in Nat /\ trade_seq \in Nat /\ resting \subseteq RestingType
  BY Zenon DEF EngineOk, EngineType
<1>2. IsFiniteSet(resting)
  BY Zenon DEF EngineOk, OrderFlow, RestingInv
<1>3. \A r \in resting : /\ r.remaining <= r.quantity
                         /\ r.offset # None => r.extreme # None
  <2> SUFFICES ASSUME NEW r \in resting
               PROVE  /\ r.remaining <= r.quantity
                      /\ r.offset # None => r.extreme # None
    BY Zenon
  <2>1. RestOk(r)
    BY Zenon DEF EngineOk, OrderFlow, RestingInv
  <2>2. r.coid \in Coids /\ r.remaining \in Nat /\ r.quantity \in Nat
    BY <1>1 DEF RestingType
  <2>3. orders[r.coid].filled \in Nat
    BY Zenon, <2>1, <2>2 DEF EngineOk, EngineType, RestOk, TrackedType
  <2> QED
    BY <2>1, <2>2, <2>3 DEF RestOk
<1>4. \A r, s \in resting : r # s => r.coid # s.coid /\ r.venue_order_id # s.venue_order_id
  BY Zenon DEF EngineOk, OrderFlow, RestingInv
<1> QED
  BY Zenon, <1>1, <1>2, <1>3, <1>4 DEF BookOk

----------------------------------------------------------------------------
\* submit: a new acceptance and a new resting order, for an id nothing in
\* flight and nothing resting can mention.
LEMMA SubmitRouted ==
  ASSUME EngineOk, batch = {}, mark \in [Instruments -> MaybePrice],
         NEW o \in OrderType, orders[o.coid] = None, OnSubmit(o),
         orders' = [orders EXCEPT ![o.coid] = Tracked(o, "Submitted")],
         UNCHANGED <<now, batch, positions, seen_trade_ids>>
  PROVE  EngineOk'
<1> PICK a : a = Report(now + SubmitLatency, queue_seq + 1, "Accepted", o.coid)
  OBVIOUS
<1> PICK n : n = Resting(o)
  OBVIOUS
<1> PICK t : t = Tracked(o, "Submitted")
  OBVIOUS
<1>1. /\ a \in StatusReportType
      /\ a.due = now + SubmitLatency /\ a.seq = queue_seq + 1
      /\ a.kind = "Accepted" /\ a.coid = o.coid
  BY LatencyAssumption DEF Report, StatusReportType, EngineOk, EngineType, OrderType
<1>2. TrailOffset(o) \in MaybePrice /\ (TrailOffset(o) # None => mark[o.inst] # None)
  BY DEF TrailOffset, MaybePrice, OrderType
<1>3. Marketable(o) \in BOOLEAN
  BY Zenon DEF Marketable
<1>4. /\ n \in RestingType /\ n.venue_order_id = venue_seq + 1 /\ n.coid = o.coid
      /\ n.quantity = o.quantity /\ n.remaining = o.quantity
      /\ n.offset # None => n.extreme # None
  BY SMTT(30), <1>2, <1>3 DEF Resting, RestingType, EngineOk, EngineType, OrderType
<1>5. /\ t \in TrackedType /\ t # None /\ t.quantity = o.quantity /\ t.filled = 0
      /\ t.status = "Submitted"
  BY OrderAssumption DEF Tracked, TrackedType, OrderType, OrderStatus, OpenStatus
<1>6. /\ queue' = queue \cup {a} /\ queue_seq' = queue_seq + 1
      /\ resting' = resting \cup {n} /\ venue_seq' = venue_seq + 1
      /\ trade_seq' = trade_seq /\ batch' = {}
      /\ orders' = [orders EXCEPT ![o.coid] = t]
  BY Zenon DEF OnSubmit
<1>7. EngineType'
  BY <1>1, <1>4, <1>5, <1>6 DEF EngineOk, EngineType, ReportType, OrderType
<1>8. /\ \A x \in InFlight : x.coid # o.coid
      /\ \A r \in resting : r.coid # o.coid
      /\ InFlight' = InFlight \cup {a}
  BY Zenon, <1>6 DEF EngineOk, OrderFlow, RestingInv, RestOk, ReportOk, InFlight
<1>9. \A c \in Coids : c # o.coid => orders'[c] = orders[c]
  BY Zenon, <1>6 DEF EngineOk, EngineType
<1>10. orders'[o.coid] = t
  BY Zenon, <1>6 DEF EngineOk, EngineType, OrderType
<1>11. /\ \A x \in InFlight : x \in ReportType /\ x.coid \in Coids
       /\ \A r \in resting : r \in RestingType /\ r.coid \in Coids
  BY Zenon DEF EngineOk, EngineType, InFlight, ReportType, FillType, StatusReportType,
     RestingType
<1>12. RestingInv'
  <2>1. IsFiniteSet(resting')
    BY Zenon, <1>6, FS_AddElement DEF EngineOk, OrderFlow, RestingInv
  <2>2. \A r \in resting : RestOk(r)' /\ r.venue_order_id <= venue_seq
    <3>1. \A i \in Nat : i <= venue_seq => i <= venue_seq'
      BY <1>6 DEF EngineOk, EngineType
    <3> QED
      BY Zenon, <1>8, <1>9, <1>11, <3>1 DEF EngineOk, OrderFlow, RestingInv, RestOk, RestingType
  <2>3. RestOk(n)'
    <3> PICK Q \in Nat : Q = o.quantity
      BY Zenon DEF OrderType
    <3>1. 0 + Q <= Q /\ venue_seq + 1 <= venue_seq + 1
      BY DEF EngineOk, EngineType
    <3> QED
      BY Zenon, <1>4, <1>5, <1>6, <1>10, <3>1 DEF RestOk, Working
  <2>4. \A r \in resting : r.coid # n.coid /\ r.venue_order_id # n.venue_order_id
    BY <1>4, <1>8, <1>11, <2>2 DEF EngineOk, EngineType, RestingType
  <2> QED
    BY <1>6, <2>1, <2>2, <2>3, <2>4 DEF EngineOk, OrderFlow, RestingInv
<1>13. \A x \in InFlight' : ReportOk(x)'
  <2>1. ASSUME NEW x \in InFlight PROVE ReportOk(x)'
    <3>1. orders'[x.coid] = orders[x.coid]
      BY Zenon, <1>8, <1>9, <1>11
    <3>2. x.kind = "Fill" => FillOk(x)'
      BY Zenon, <1>4, <1>6, <1>8, <3>1 DEF EngineOk, OrderFlow, ReportOk, FillOk
    <3>3. x.seq <= queue_seq'
      <4>1. PICK e \in Nat : e = x.seq /\ e <= queue_seq
        BY Zenon, <1>11 DEF EngineOk, OrderFlow, ReportOk, ReportType, FillType, StatusReportType
      <4>2. e <= queue_seq'
        BY <1>6, <4>1 DEF EngineOk, EngineType
      <4> QED
        BY Zenon, <4>1, <4>2
    <3> QED
      BY Zenon, <1>4, <1>6, <1>8, <3>1, <3>2, <3>3 DEF EngineOk, OrderFlow, ReportOk
  <2>2. ReportOk(a)'
    <3>1. /\ queue_seq + 1 <= queue_seq + 1 /\ now + SubmitLatency <= now + CancelLatency
          /\ now + SubmitLatency <= now + SubmitLatency
      BY LatencyAssumption DEF EngineOk, EngineType
    <3> QED
      BY Zenon, <1>1, <1>5, <1>6, <1>10, <3>1 DEF ReportOk, Working
  <2> QED
    BY Zenon, <1>8, <2>1, <2>2
<1>14. PairInv'
  <2>1. ASSUME NEW x \in InFlight, NEW y \in InFlight, x # y PROVE PairOk(x, y)'
    BY Zenon, <1>8, <1>9, <1>11, <2>1 DEF EngineOk, OrderFlow, PairInv, PairOk, Before
  <2>2. ASSUME NEW x \in InFlight PROVE PairOk(x, a)' /\ PairOk(a, x)'
    BY Zenon, <1>1, <1>8 DEF PairOk
  <2> QED
    BY <1>8, <2>1, <2>2 DEF PairInv
<1>15. OrderInv'
  <2>1. ASSUME NEW c \in Coids, c # o.coid, orders'[c] # None PROVE OrderOk(c)'
    <3>1. orders'[c] = orders[c] /\ OrderOk(c) /\ InFlight \subseteq InFlight'
      BY Zenon, <1>8, <1>9, <2>1 DEF EngineOk, OrderFlow, OrderInv
    <3> QED
      BY Zenon, <3>1 DEF OrderOk
  <2>2. OrderOk(o.coid)'
    BY <1>1, <1>5, <1>8, <1>10 DEF OrderOk, Working, OrderType
  <2> QED
    BY Zenon, <1>6, <2>1, <2>2 DEF EngineOk, OrderFlow, OrderInv
<1>16. BatchInv'
  BY Zenon, <1>6 DEF BatchInv
<1> QED
  BY Zenon, <1>7, <1>12, <1>13, <1>14, <1>15, <1>16 DEF EngineOk, OrderFlow
\* submit, denied by a gate: only the new id changes, straight to a terminal
\* status, and the venue hears nothing.
LEMMA SubmitDenied ==
  ASSUME EngineOk, batch = {}, NEW o \in OrderType, orders[o.coid] = None,
         orders' = [orders EXCEPT ![o.coid] = Tracked(o, "Denied")],
         UNCHANGED <<venueVars, now, batch, positions, seen_trade_ids>>
  PROVE  EngineOk'
<1> PICK t : t = Tracked(o, "Denied")
  OBVIOUS
<1>1. /\ t \in TrackedType /\ t # None /\ t.quantity \in Nat \ {0} /\ t.filled = 0
      /\ t.status = "Denied"
  BY OrderAssumption DEF Tracked, TrackedType, OrderType, OrderStatus, TerminalStatus
<1>2. /\ \A x \in InFlight : x.coid # o.coid /\ x.coid \in Coids
      /\ \A r \in resting : r.coid # o.coid /\ r.coid \in Coids
      /\ InFlight' = InFlight
  BY Zenon DEF EngineOk, EngineType, OrderFlow, RestingInv, RestOk, ReportOk, InFlight,
     venueVars, ReportType, FillType, StatusReportType, RestingType
<1>3. /\ \A c \in Coids : c # o.coid => orders'[c] = orders[c]
      /\ orders'[o.coid] = t
      /\ orders' \in [Coids -> TrackedType \cup {None}]
  BY Zenon, <1>1 DEF EngineOk, EngineType, OrderType
<1>4. EngineType'
  BY Zenon, <1>3 DEF EngineOk, EngineType, venueVars
<1>5. RestingInv'
  BY Zenon, <1>2, <1>3 DEF EngineOk, OrderFlow, RestingInv, RestOk, venueVars
<1>6. \A x \in InFlight' : ReportOk(x)'
  BY Zenon, <1>2, <1>3 DEF EngineOk, OrderFlow, ReportOk, FillOk, venueVars
<1>7. PairInv'
  BY <1>2, <1>3 DEF EngineOk, OrderFlow, PairInv, PairOk, Before
<1>8. OrderInv'
  <2>1. ASSUME NEW c \in Coids, c # o.coid, orders'[c] # None PROVE OrderOk(c)'
    BY ZenonT(40), <1>2, <1>3, <2>1 DEF EngineOk, OrderFlow, OrderInv, OrderOk
  <2>2. OrderOk(o.coid)'
    BY <1>1, <1>3 DEF OrderOk
  <2> QED
    BY Zenon, <2>1, <2>2 DEF EngineOk, OrderFlow, OrderInv, venueVars
<1>9. BatchInv'
  BY Zenon DEF BatchInv
<1> QED
  BY Zenon, <1>4, <1>5, <1>6, <1>7, <1>8, <1>9 DEF EngineOk, OrderFlow

\* ExecutionEngine::submit, whatever the gates decide.
LEMMA SubmitFlow ==
  ASSUME EngineOk, batch = {}, mark \in [Instruments -> MaybePrice],
         NEW o \in OrderType, NEW funded, Submit(o, funded), UNCHANGED <<now, batch>>
  PROVE  EngineOk'
<1>1. CASE ~SubmitApplies(o)
  <2>1. UNCHANGED flowVars /\ positions' = positions
    BY Zenon, <1>1 DEF Submit, engineVars, omsVars, venueVars, flowVars
  <2> QED
    BY Zenon, <2>1, FlowUnchanged DEF EngineOk, EngineType
<1>2. CASE SubmitApplies(o)
  <2>1. UNCHANGED <<positions, seen_trade_ids>>
    BY Zenon, <1>2 DEF Submit
  <2>2. \/ /\ OnSubmit(o)
           /\ orders' = [orders EXCEPT ![o.coid] = Tracked(o, "Submitted")]
        \/ /\ UNCHANGED venueVars
           /\ orders' = [orders EXCEPT ![o.coid] = Tracked(o, "Denied")]
    BY Zenon, <1>2 DEF Submit
  <2> QED
    BY Zenon, <1>2, <2>1, <2>2, SubmitRouted, SubmitDenied DEF SubmitApplies
<1> QED
  BY Zenon, <1>1, <1>2

-----------------------------------------------------------------------------
\* ExecutionEngine::cancel: the order may go PendingCancel, never from
\* Submitted; nothing of it rests afterwards; its cancellation, if one is due,
\* comes after every fill, and those fills leave something unfilled.
LEMMA CancelFlow ==
  ASSUME EngineOk, batch = {}, NEW c \in Coids, Cancel(c), UNCHANGED <<now, batch>>
  PROVE  EngineOk'
<1>1. /\ \A d \in Coids : d # c => orders'[d] = orders[d]
      /\ orders' \in [Coids -> TrackedType \cup {None}]
      /\ orders[c] # None <=> orders'[c] # None
      /\ orders[c] # None =>
           /\ orders'[c].quantity = orders[c].quantity
           /\ orders'[c].filled = orders[c].filled
           /\ \/ orders'[c].status = orders[c].status
              \/ /\ orders'[c].status = "PendingCancel"
                 /\ orders[c].status \in {"Accepted", "PartiallyFilled", "PendingUpdate"}
  <2>1. CASE CancelApplies(c)
    <3> PICK o : o = ApplyStatus(orders[c], "PendingCancel")
      OBVIOUS
    <3>1. orders[c] \in TrackedType /\ orders[c] # None
      BY Zenon, <2>1 DEF CancelApplies, EngineOk, EngineType
    <3>2. /\ o \in TrackedType /\ o # None /\ o.status = "PendingCancel"
          /\ o.quantity = orders[c].quantity /\ o.filled = orders[c].filled
      BY Zenon, <3>1, OrderAssumption
         DEF ApplyStatus, TrackedType, OrderStatus, OpenStatus
    <3>3. orders' = [orders EXCEPT ![c] = o]
      BY Zenon, <2>1 DEF Cancel
    <3>4. orders[c].status \in {"Accepted", "PartiallyFilled", "PendingUpdate"}
      BY Zenon, <2>1 DEF CancelApplies, CanApply, Allowed
    <3> QED
      BY Zenon, <3>1, <3>2, <3>3, <3>4 DEF EngineOk, EngineType
  <2>2. CASE ~CancelApplies(c)
    BY Zenon, <2>2 DEF Cancel, EngineOk, EngineType
  <2> QED
    BY Zenon, <2>1, <2>2
<1>2. /\ UNCHANGED <<venue_seq, trade_seq, positions, seen_trade_ids>>
      /\ OnCancel(c)
  BY Zenon, EngineBook, OnCancelEffect DEF Cancel
<1>3. /\ resting' \subseteq resting
      /\ \A r \in resting' : r.coid # c
      /\ queue_seq' \in Nat /\ queue_seq <= queue_seq'
  BY <1>2, EngineBook, OnCancelEffect DEF EngineOk, EngineType, venueVars
<1>4. /\ \A x \in InFlight : x \in ReportType /\ x.coid \in Coids
      /\ \A r \in resting : r \in RestingType /\ r.coid \in Coids
  BY Zenon DEF EngineOk, EngineType, InFlight, ReportType, FillType, StatusReportType,
     RestingType
<1>5. RestingInv'
  <2>1. IsFiniteSet(resting')
    <3>1. IsFiniteSet(resting)
      BY Zenon DEF EngineOk, OrderFlow, RestingInv
    <3> QED
      BY Zenon, <1>3, <3>1, FS_Subset
  <2>2. \A r \in resting' : RestOk(r)'
    BY <1>1, <1>2, <1>3, <1>4 DEF EngineOk, OrderFlow, RestingInv, RestOk
  <2> QED
    BY Zenon, <1>3, <2>1, <2>2 DEF EngineOk, OrderFlow, RestingInv
<1>6. ASSUME NEW x \in InFlight PROVE ReportOk(x)'
  <2>1. orders'[x.coid] # None /\ orders[x.coid] # None
    BY Zenon, <1>1, <1>4 DEF EngineOk, OrderFlow, ReportOk
  <2>2. /\ orders'[x.coid].status \in Working \cup {"PendingCancel"}
        /\ x.kind = "Accepted" => orders'[x.coid].status = "Submitted"
    BY Zenon, <1>1, <1>4 DEF EngineOk, OrderFlow, ReportOk
  <2>3. x.kind = "Fill" => FillOk(x)'
    BY Zenon, <1>1, <1>2, <1>3, <1>4, <2>1 DEF EngineOk, OrderFlow, ReportOk, FillOk
  <2>4. x.seq <= queue_seq'
    BY <1>3, <1>4 DEF EngineOk, EngineType, OrderFlow, ReportOk, ReportType,
       FillType, StatusReportType
  <2> QED
    BY Zenon, <1>3, <2>1, <2>2, <2>3, <2>4 DEF EngineOk, OrderFlow, ReportOk
<1>7. ASSUME NEW x \in InFlight, NEW y \in InFlight, x # y PROVE PairOk(x, y)'
  <2>1. orders'[y.coid].quantity = orders[y.coid].quantity
    BY Zenon, <1>1, <1>4 DEF EngineOk, OrderFlow, ReportOk
  <2> QED
    BY Zenon, <1>7, <2>1 DEF EngineOk, OrderFlow, PairInv, PairOk, Before
<1>8. ASSUME NEW d \in Coids, orders'[d] # None, InFlight \subseteq InFlight'
      PROVE  OrderOk(d)'
  BY <1>1, <1>8 DEF EngineOk, OrderFlow, OrderInv, OrderOk, Working
<1>9. BatchInv'
  BY Zenon DEF BatchInv
<1>10. CASE UNCHANGED venueVars
  <2>1. InFlight' = InFlight /\ EngineType'
    BY Zenon, <1>1, <1>2, <1>10 DEF InFlight, venueVars, EngineOk, EngineType
  <2> QED
    BY Zenon, <1>2, <1>5, <1>6, <1>7, <1>8, <1>9, <2>1
       DEF EngineOk, OrderFlow, PairInv, OrderInv
<1>11. CASE ~UNCHANGED venueVars
  <2>1. PICK r \in resting :
           /\ r.coid = c
           /\ queue_seq' = queue_seq + 1
           /\ queue' = queue \cup
                {Report(now + CancelLatency, queue_seq + 1, "Canceled", c)}
    BY Zenon, <1>2, <1>11, EngineBook, OnCancelEffect
  <2> PICK a : a = Report(now + CancelLatency, queue_seq + 1, "Canceled", c)
    OBVIOUS
  <2>2. /\ a \in StatusReportType
        /\ a.due = now + CancelLatency /\ a.seq = queue_seq + 1
        /\ a.kind = "Canceled" /\ a.coid = c
    BY LatencyAssumption DEF Report, StatusReportType, EngineOk, EngineType
  <2>3. InFlight' = InFlight \cup {a}
    BY Zenon, <2>1 DEF InFlight
  <2>4. EngineType'
    BY Zenon, <1>1, <1>2, <1>3, <2>1, <2>2 DEF EngineOk, EngineType, ReportType
  <2>5. /\ r \in RestingType /\ orders[c] # None /\ orders[c].status \in Working
        /\ orders[c].quantity = r.quantity
    BY Zenon, <1>4, <2>1 DEF EngineOk, OrderFlow, RestingInv, RestOk
  <2>6. ReportOk(a)'
    <3>1. a.seq <= queue_seq' /\ a.due <= now + CancelLatency
      BY <2>1, <2>2, LatencyAssumption DEF EngineOk, EngineType
    <3>2. /\ orders'[c] # None /\ orders'[c].status \in Working \cup {"PendingCancel"}
          /\ \A r1 \in resting' : r1.coid # c
      BY Zenon, <1>1, <1>3, <2>5
    <3> QED
      BY Zenon, <2>2, <3>1, <3>2 DEF ReportOk
  <2>7. ASSUME NEW x \in InFlight PROVE PairOk(a, x)' /\ PairOk(x, a)'
    <3>1. /\ x.seq \in Nat /\ x.due \in Nat /\ x.seq <= queue_seq
          /\ x.due <= now + CancelLatency
      BY Zenon, <1>4 DEF EngineOk, OrderFlow, ReportOk, ReportType, FillType, StatusReportType
    <3>2. Before(x, a)
      <4>1. PICK xd \in Nat, xs \in Nat, at \in Nat, qs \in Nat :
              xd = x.due /\ xs = x.seq /\ at = now + CancelLatency /\ qs = queue_seq
        BY <3>1, LatencyAssumption DEF EngineOk, EngineType
      <4>2. xd <= at /\ xs <= qs => xd < at \/ (xd = at /\ xs < qs + 1)
        OBVIOUS
      <4> QED
        BY Zenon, <2>2, <3>1, <4>1, <4>2 DEF Before
    <3>3. x.coid = c /\ x.kind = "Fill" => x.cum < orders'[c].quantity
      <4> SUFFICES ASSUME x.coid = c, x.kind = "Fill" PROVE x.cum < orders'[c].quantity
        OBVIOUS
      <4>1. x \in FillType /\ FillOk(x)
        BY Zenon, <1>4 DEF EngineOk, OrderFlow, ReportOk, ReportType, StatusReportType
      <4>2. /\ x.cum + r.remaining <= r.quantity /\ orders'[c].quantity = r.quantity
            /\ x.cum \in Nat /\ r.remaining \in Nat \ {0} /\ r.quantity \in Nat
        BY Zenon, <1>1, <2>1, <2>5, <4>1 DEF FillOk, FillType, RestingType
      <4> QED
        BY <4>2
    <3>4. x.coid = c => x.kind # "Canceled"
      BY Zenon, <2>1 DEF EngineOk, OrderFlow, ReportOk
    <3> QED
      BY Zenon, <2>2, <3>2, <3>3, <3>4 DEF PairOk, Before
  <2>8. \A x \in InFlight' : ReportOk(x)'
    BY Zenon, <1>6, <2>3, <2>6
  <2>9. ASSUME NEW x \in InFlight', NEW y \in InFlight', x # y PROVE PairOk(x, y)'
    BY Zenon, <1>7, <2>3, <2>7, <2>9
  <2>10. OrderInv'
    BY Zenon, <1>2, <1>8, <2>3 DEF EngineOk, OrderFlow, OrderInv
  <2> QED
    BY Zenon, <1>5, <1>9, <2>4, <2>8, <2>9, <2>10 DEF EngineOk, OrderFlow, PairInv
<1> QED
  BY Zenon, <1>10, <1>11

-----------------------------------------------------------------------------
\* The life of a report

\* on_market: the new fills come after every report in flight and continue the
\* tiling of each order's quantity exactly where the last fill ended.
LEMMA MarketFlow ==
  ASSUME EngineOk, batch = {}, NEW ev \in EventType, OnMarket(ev),
         UNCHANGED <<now, batch, orders, positions, seen_trade_ids>>
  PROVE  EngineOk'
<1>1. CASE ev.kind = "Delta"
  <2>1. UNCHANGED flowVars
    BY <1>1 DEF OnMarket, venueVars, flowVars
  <2> QED
    BY Zenon, <2>1, FlowUnchanged DEF EngineOk, EngineType
<1>2. CASE ev.kind # "Delta"
  <2> PICK H \in SUBSET resting, q \in [resting -> Nat], k \in [resting -> Nat],
           n \in Nat : MarketEffect(ev, H, q, k, n)
    BY Zenon, <1>2, EngineBook, OnMarketEffect
  <2>1. /\ \A r \in resting : q[r] \in Nat /\ q[r] <= r.remaining
        /\ \A r \in H : r \in resting /\ q[r] > 0 /\ k[r] \in 1..n
        /\ \A r, s \in H : r # s => k[r] # k[s]
    BY Zenon DEF MarketEffect
  <2>2. /\ now \in Nat /\ queue_seq \in Nat /\ trade_seq \in Nat
        /\ queue_seq' = queue_seq + n /\ trade_seq' = trade_seq + n
        /\ venue_seq \in Nat /\ venue_seq' = venue_seq
    BY Zenon DEF MarketEffect, EngineOk, EngineType
  <2>3. /\ queue_seq' \in Nat /\ trade_seq' \in Nat
        /\ queue_seq <= queue_seq' /\ trade_seq <= trade_seq'
    BY <2>2
  <2>4. /\ \A y \in resting' : /\ y \in RestingType /\ (y.offset # None => y.extreme # None)
                               /\ \E r \in resting :
                                    /\ y.coid = r.coid /\ y.venue_order_id = r.venue_order_id
                                    /\ y.quantity = r.quantity
                                    /\ y.remaining = r.remaining - q[r]
        /\ \A x, y \in resting' : x.coid = y.coid => x = y
        /\ IsFiniteSet(resting')
    BY Zenon DEF MarketEffect
  <2>5. /\ queue \subseteq queue'
        /\ \A f \in queue' : f \in queue \/ \E r \in H : NewFill(f, r, ev, q[r], k[r])
    BY Zenon DEF MarketEffect
  <2>6. \A r \in resting :
          /\ r.remaining \in Nat \ {0} /\ r.quantity \in Nat /\ r.coid \in Coids
          /\ RestOk(r) /\ orders[r.coid].filled \in Nat
    BY Zenon DEF EngineOk, EngineType, OrderFlow, RestingInv, RestOk, RestingType, TrackedType
  <2>7. \A r, s \in resting :
          (r.coid = s.coid => r = s) /\ (r # s => r.venue_order_id # s.venue_order_id)
    BY Zenon DEF EngineOk, OrderFlow, RestingInv
  <2>8. /\ InFlight = queue /\ InFlight' = queue'
        /\ \A x \in queue : x \in ReportType /\ ReportOk(x) /\ x.seq \in Nat /\ x.due \in Nat
    BY Zenon DEF InFlight, EngineOk, EngineType, OrderFlow, ReportType, FillType, StatusReportType
  <2>9. EngineType'
    BY Zenon, <2>2, <2>3, <2>4, <2>5 DEF EngineOk, EngineType, NewFill, ReportType
  <2>10. RestingInv'
    <3>1. ASSUME NEW y \in resting' PROVE RestOk(y)'
      <4>1. PICK r \in resting :
               /\ y.coid = r.coid /\ y.venue_order_id = r.venue_order_id
               /\ y.quantity = r.quantity /\ y.remaining = r.remaining - q[r]
        BY Zenon, <2>4
      <4>2. PICK w, m, a, Q \in Nat :
               /\ w = orders[r.coid].filled /\ m = r.remaining /\ a = q[r] /\ Q = r.quantity
               /\ a <= m /\ w + m <= Q
        BY Zenon, <2>1, <2>6 DEF RestOk
      <4>3. w + (m - a) <= Q
        BY <4>2
      <4> QED
        BY Zenon, <2>2, <2>4, <2>6, <4>1, <4>2, <4>3 DEF RestOk
    <3>2. \A x, y \in resting' : x # y =>
             x.coid # y.coid /\ x.venue_order_id # y.venue_order_id
      <4> SUFFICES ASSUME NEW x \in resting', NEW y \in resting', x # y
                   PROVE  x.coid # y.coid /\ x.venue_order_id # y.venue_order_id
        OBVIOUS
      <4>1. PICK r \in resting : x.coid = r.coid /\ x.venue_order_id = r.venue_order_id
        BY Zenon, <2>4
      <4>2. PICK s \in resting : y.coid = s.coid /\ y.venue_order_id = s.venue_order_id
        BY Zenon, <2>4
      <4>3. x.coid # y.coid
        BY Zenon, <2>4
      <4> QED
        BY Zenon, <2>7, <4>1, <4>2, <4>3
    <3> QED
      BY Zenon, <2>4, <3>1, <3>2 DEF RestingInv
  <2>11. ASSUME NEW x \in queue PROVE ReportOk(x)'
    <3>1. x.seq <= queue_seq'
      <4>1. PICK e \in Nat : e = x.seq /\ e <= queue_seq
        BY Zenon, <2>8 DEF ReportOk
      <4>2. e <= queue_seq'
        BY <2>2, <2>3, <4>1
      <4> QED
        BY Zenon, <4>1, <4>2
    <3>2. ASSUME x.kind = "Canceled", NEW y \in resting' PROVE y.coid # x.coid
      <4>1. PICK r \in resting : y.coid = r.coid
        BY Zenon, <2>4
      <4> QED
        BY Zenon, <2>8, <3>2, <4>1 DEF ReportOk
    <3>3. ASSUME x.kind = "Fill" PROVE FillOk(x)'
      <4>1. x \in FillType /\ FillOk(x)
        BY Zenon, <2>8, <3>3 DEF ReportOk, ReportType, StatusReportType
      <4>2. x.trade_id <= trade_seq'
        <5>1. PICK t \in Nat : t = x.trade_id /\ t <= trade_seq
          BY Zenon, <4>1 DEF FillOk, FillType
        <5>2. t <= trade_seq'
          BY <2>2, <2>3, <5>1
        <5> QED
          BY Zenon, <5>1, <5>2
      <4>3. ASSUME NEW y \in resting', y.coid = x.coid
            PROVE  x.cum + y.remaining <= y.quantity
        <5>1. PICK r \in resting :
                 /\ y.coid = r.coid /\ y.quantity = r.quantity
                 /\ y.remaining = r.remaining - q[r]
          BY Zenon, <2>4
        <5>2. PICK u, m, a, Q \in Nat :
                 /\ u = x.cum /\ m = r.remaining /\ a = q[r] /\ Q = r.quantity
                 /\ u + m <= Q
          BY Zenon, <2>1, <2>6, <4>1, <4>3, <5>1 DEF FillOk, FillType
        <5>3. u + (m - a) <= Q
          BY <5>2
        <5> QED
          BY Zenon, <5>1, <5>2, <5>3
      <4> QED
        BY Zenon, <4>1, <4>2, <4>3 DEF FillOk
    <3> QED
      BY Zenon, <2>8, <3>1, <3>2, <3>3 DEF ReportOk
  <2>12. ASSUME NEW f, NEW r \in H, NewFill(f, r, ev, q[r], k[r])
         PROVE  /\ r \in resting /\ q[r] \in Nat /\ q[r] <= r.remaining /\ k[r] \in 1..n
                /\ orders[r.coid].filled \in Nat /\ r.remaining \in Nat /\ r.quantity \in Nat
                /\ r.quantity = orders[r.coid].quantity
                /\ orders[r.coid].filled + r.remaining <= r.quantity
                /\ f.kind = "Fill" /\ f.coid = r.coid /\ f.due = now + SubmitLatency
                /\ f.seq = queue_seq + k[r] /\ f.trade_id = trade_seq + k[r]
                /\ f.qty = q[r] /\ f.cum = r.quantity - r.remaining + q[r]
    <3>1. /\ r \in resting /\ q[r] \in Nat /\ q[r] <= r.remaining /\ k[r] \in 1..n
      BY Zenon, <2>1
    <3>2. /\ orders[r.coid].filled \in Nat /\ r.remaining \in Nat /\ r.quantity \in Nat
          /\ r.quantity = orders[r.coid].quantity
          /\ orders[r.coid].filled + r.remaining <= r.quantity
      BY Zenon, <2>6, <3>1 DEF RestOk
    <3>3. /\ f.kind = "Fill" /\ f.coid = r.coid /\ f.due = now + SubmitLatency
          /\ f.seq = queue_seq + k[r] /\ f.trade_id = trade_seq + k[r]
          /\ f.qty = q[r] /\ f.cum = r.quantity - r.remaining + q[r]
      BY Zenon, <2>12 DEF NewFill
    <3> QED
      BY Zenon, <3>1, <3>2, <3>3
  <2>13. ASSUME NEW f, NEW r \in H, NewFill(f, r, ev, q[r], k[r]) PROVE ReportOk(f)'
    <3>1. /\ r \in resting /\ q[r] \in Nat /\ q[r] <= r.remaining /\ k[r] \in 1..n
          /\ orders[r.coid].filled \in Nat /\ r.remaining \in Nat /\ r.quantity \in Nat
          /\ r.quantity = orders[r.coid].quantity
          /\ orders[r.coid].filled + r.remaining <= r.quantity
          /\ f.kind = "Fill" /\ f.coid = r.coid /\ f.due = now + SubmitLatency
          /\ f.seq = queue_seq + k[r] /\ f.trade_id = trade_seq + k[r]
          /\ f.qty = q[r] /\ f.cum = r.quantity - r.remaining + q[r]
      BY Zenon, <2>12, <2>13
    <3>2. PICK w, m, a, Q \in Nat, j \in 1..n :
             /\ w = orders[r.coid].filled /\ m = r.remaining /\ a = q[r]
             /\ Q = r.quantity /\ Q = orders[r.coid].quantity
             /\ a <= m /\ w + m <= Q
             /\ f.qty = a /\ f.cum = Q - m + a /\ f.due = now + SubmitLatency
             /\ f.seq = queue_seq + j /\ f.trade_id = trade_seq + j
      BY Zenon, <3>1
    <3>3. /\ w + a <= Q - m + a /\ Q - m + a <= Q /\ Q - m + a + (m - a) <= Q
          /\ queue_seq + j <= queue_seq' /\ trade_seq + j <= trade_seq'
          /\ \A t \in Nat : t <= trade_seq => t # trade_seq + j
          /\ now + SubmitLatency <= now + CancelLatency
          /\ now + SubmitLatency <= now + SubmitLatency
      BY <2>2, <3>2, LatencyAssumption
    <3>4. f.trade_id \notin seen_trade_ids
      <4>1. \A t \in seen_trade_ids : t \in Nat /\ t <= trade_seq
        BY Zenon DEF EngineOk, OrderFlow, OrderInv
      <4> QED
        BY Zenon, <3>2, <3>3, <4>1
    <3>5. ASSUME NEW y \in resting', y.coid = f.coid
          PROVE  f.cum + y.remaining <= y.quantity
      <4>1. PICK s \in resting :
               /\ y.coid = s.coid /\ y.quantity = s.quantity
               /\ y.remaining = s.remaining - q[s]
        BY Zenon, <2>4
      <4>2. s = r
        BY Zenon, <2>7, <3>1, <3>5, <4>1
      <4>3. y.quantity = Q /\ y.remaining = m - a
        BY Zenon, <3>2, <4>1, <4>2
      <4> QED
        BY Zenon, <3>2, <3>3, <4>3
    <3>6. FillOk(f)'
      BY Zenon, <3>1, <3>2, <3>3, <3>4, <3>5 DEF FillOk
    <3>7. f.seq <= queue_seq' /\ f.due <= now + CancelLatency /\ f.due <= now + SubmitLatency
      BY Zenon, <3>2, <3>3
    <3> QED
      BY Zenon, <2>6, <3>1, <3>6, <3>7 DEF ReportOk, RestOk
  <2>14. ASSUME NEW x \in queue, NEW y \in queue, x # y PROVE PairOk(x, y)'
    BY Zenon, <2>8, <2>14 DEF EngineOk, OrderFlow, PairInv, PairOk, Before
  <2>15. ASSUME NEW x \in queue, NEW f, NEW r \in H, NewFill(f, r, ev, q[r], k[r])
         PROVE  PairOk(x, f)' /\ PairOk(f, x)'
    <3>1. /\ r \in resting /\ q[r] \in Nat /\ q[r] <= r.remaining /\ k[r] \in 1..n
          /\ orders[r.coid].filled \in Nat /\ r.remaining \in Nat /\ r.quantity \in Nat
          /\ r.quantity = orders[r.coid].quantity
          /\ orders[r.coid].filled + r.remaining <= r.quantity
          /\ f.kind = "Fill" /\ f.coid = r.coid /\ f.due = now + SubmitLatency
          /\ f.seq = queue_seq + k[r] /\ f.trade_id = trade_seq + k[r]
          /\ f.qty = q[r] /\ f.cum = r.quantity - r.remaining + q[r]
      BY Zenon, <2>12, <2>15
    <3>2. PICK m, a, Q \in Nat, j \in 1..n :
             /\ m = r.remaining /\ Q = r.quantity
             /\ f.qty = a /\ f.cum = Q - m + a /\ f.due = now + SubmitLatency
             /\ f.seq = queue_seq + j /\ f.trade_id = trade_seq + j
      BY Zenon, <3>1
    <3>3. x.kind = "Fill" => x.trade_id # f.trade_id
      <4> SUFFICES ASSUME x.kind = "Fill" PROVE x.trade_id # f.trade_id
        OBVIOUS
      <4>1. PICK t \in Nat : t = x.trade_id /\ t <= trade_seq
        BY Zenon, <2>8 DEF ReportOk, FillOk, ReportType, FillType, StatusReportType
      <4>2. t # trade_seq + j
        BY <2>2, <3>2, <4>1
      <4> QED
        BY Zenon, <3>2, <4>1, <4>2
    <3>4. ASSUME x.coid = f.coid
          PROVE  /\ x.kind # "Canceled" /\ Before(x, f) /\ ~Before(f, x)
                 /\ x.kind = "Fill" => x.cum + f.qty <= f.cum
      <4>1. x.kind # "Canceled"
        BY Zenon, <2>8, <3>1, <3>4 DEF ReportOk
      <4>2. PICK e, d \in Nat :
               /\ e = x.seq /\ d = x.due /\ e <= queue_seq /\ d <= now + SubmitLatency
        BY Zenon, <2>8, <4>1 DEF ReportOk
      <4>3. /\ e < queue_seq + j /\ ~(queue_seq + j < e)
            /\ d < now + SubmitLatency \/ d = now + SubmitLatency
            /\ ~(now + SubmitLatency < d)
        BY <2>2, <3>2, <4>2, LatencyAssumption
      <4>4. Before(x, f) /\ ~Before(f, x)
        BY Zenon, <3>2, <4>2, <4>3 DEF Before
      <4>5. ASSUME x.kind = "Fill" PROVE x.cum + f.qty <= f.cum
        <5>1. PICK u \in Nat : u = x.cum /\ u + m <= Q
          <6>1. x \in FillType /\ FillOk(x)
            BY Zenon, <2>8, <4>5 DEF ReportOk, ReportType, StatusReportType
          <6> QED
            BY Zenon, <3>1, <3>2, <3>4, <6>1 DEF FillOk, FillType
        <5>2. u + a <= Q - m + a
          BY <3>2, <5>1
        <5> QED
          BY Zenon, <3>2, <5>1, <5>2
      <4> QED
        BY Zenon, <4>1, <4>4, <4>5
    <3> QED
      BY Zenon, <3>1, <3>3, <3>4 DEF PairOk, Before
  <2>16. ASSUME NEW f, NEW r \in H, NewFill(f, r, ev, q[r], k[r]),
                NEW g, NEW s \in H, NewFill(g, s, ev, q[s], k[s]), f # g
         PROVE  PairOk(f, g)'
    <3>1. r # s
      \* One order has one fill per event, and the queue holds it once.
      BY Zenon, <2>16 DEF NewFill
    <3>2. /\ r \in resting /\ f.coid = r.coid /\ k[r] \in 1..n /\ f.trade_id = trade_seq + k[r]
          /\ s \in resting /\ g.coid = s.coid /\ k[s] \in 1..n /\ g.trade_id = trade_seq + k[s]
      BY Zenon, <2>12, <2>16
    <3>3. PICK j, l \in 1..n :
             j = k[r] /\ l = k[s] /\ f.trade_id = trade_seq + j /\ g.trade_id = trade_seq + l
      BY Zenon, <3>2
    <3>4. j # l
      BY Zenon, <2>1, <3>1, <3>3
    <3>5. trade_seq + j # trade_seq + l
      BY <2>2, <3>3, <3>4
    <3> QED
      BY Zenon, <2>7, <3>1, <3>2, <3>3, <3>5 DEF PairOk
  <2>17. PairInv'
    BY Zenon, <2>5, <2>8, <2>14, <2>15, <2>16 DEF PairInv
  <2>18. OrderInv'
    <3>1. ASSUME NEW c \in Coids, orders[c] # None PROVE OrderOk(c)'
      BY Zenon, <2>5, <2>8, <3>1 DEF EngineOk, OrderFlow, OrderInv, OrderOk
    <3>2. \A t \in seen_trade_ids : t \in Nat /\ t <= trade_seq
      BY Zenon DEF EngineOk, OrderFlow, OrderInv
    <3>3. \A t \in Nat : t <= trade_seq => t <= trade_seq'
      BY <2>2, <2>3
    <3> QED
      BY Zenon, <3>1, <3>2, <3>3 DEF OrderInv
  <2>19. BatchInv'
    BY Zenon DEF BatchInv
  <2>20. \A x \in InFlight' : ReportOk(x)'
    BY Zenon, <2>5, <2>8, <2>11, <2>13
  <2> QED
    BY Zenon, <2>9, <2>10, <2>17, <2>18, <2>19, <2>20 DEF EngineOk, OrderFlow
<1> QED
  BY Zenon, <1>1, <1>2

-----------------------------------------------------------------------------
\* drain_due and apply_report

\* drain_due moves the earliest reports to the batch; what stays is due later.
LEMMA AdvanceFlow ==
  ASSUME EngineOk, batch = {}, NEW f \in Int, pc' = "reports",
         now' = Hi(now, f), batch' = DueBy(f), queue' = queue \ DueBy(f),
         UNCHANGED <<queue_seq, venue_seq, trade_seq, resting, orders, positions,
                     seen_trade_ids>>
  PROVE  EngineOk'
<1>1. now' \in Nat /\ now \in Nat /\ now <= now'
  BY DEF Hi, EngineOk, EngineType
<1>2. /\ InFlight' = InFlight
      /\ \A x \in InFlight : x.due \in Nat /\ x.seq \in Nat
  BY Zenon DEF InFlight, DueBy, EngineOk, EngineType, ReportType, FillType, StatusReportType
<1>3. EngineType'
  BY Zenon, <1>1 DEF EngineOk, EngineType, DueBy
<1>4. BatchInv'
  BY <1>2 DEF BatchInv, DueBy, Before, InFlight
<1>5. RestingInv'
  BY Zenon DEF EngineOk, OrderFlow, RestingInv, RestOk
<1>6. \A x \in InFlight : ReportOk(x)'
  <2> SUFFICES ASSUME NEW x \in InFlight PROVE ReportOk(x)'
    OBVIOUS
  <2>1. /\ x.due <= now' + CancelLatency
        /\ x.kind # "Canceled" => x.due <= now' + SubmitLatency
    <3>1. /\ x.due <= now + CancelLatency /\ x.due \in Nat
          /\ x.kind # "Canceled" => x.due <= now + SubmitLatency
      BY Zenon, <1>2 DEF EngineOk, OrderFlow, ReportOk
    <3> QED
      BY <1>1, <3>1, LatencyAssumption
  <2> QED
    BY Zenon, <2>1 DEF EngineOk, OrderFlow, ReportOk, FillOk
<1>7. PairInv' /\ OrderInv'
  BY <1>2 DEF EngineOk, OrderFlow, PairInv, PairOk, Before, OrderInv, OrderOk
<1> QED
  BY Zenon, <1>2, <1>3, <1>4, <1>5, <1>6, <1>7 DEF EngineOk, OrderFlow

----------------------------------------------------------------------------
\* The report delivered next is the first of all in flight.  So an acceptance
\* finds its order Submitted, any other report finds it past Submitted, a
\* cancellation is the last report of its order, and so is a fill that
\* completes it.
LEMMA FirstReport ==
  ASSUME EngineOk, NEW rep \in batch, \A x \in batch \ {rep} : Before(rep, x)
  PROVE  /\ rep \in ReportType /\ ReportOk(rep) /\ rep \notin queue
         /\ \A x \in InFlight \ {rep} : Before(rep, x) /\ ~Before(x, rep)
         /\ orders[rep.coid] \in TrackedType
         /\ rep.kind = "Accepted" =>
              /\ orders[rep.coid].status = "Submitted"
              /\ \A x \in InFlight \ {rep} : x.coid = rep.coid => x.kind # "Accepted"
         /\ rep.kind # "Accepted" =>
              /\ orders[rep.coid].status \in {"Accepted", "PartiallyFilled", "PendingCancel"}
              /\ \A x \in InFlight : x.coid = rep.coid => x.kind # "Accepted"
         /\ rep.kind = "Canceled" => \A x \in InFlight \ {rep} : x.coid # rep.coid
         /\ rep.kind = "Fill" /\ rep.cum = orders[rep.coid].quantity =>
              /\ \A x \in InFlight \ {rep} : x.coid # rep.coid
              /\ \A r \in resting : r.coid # rep.coid
<1>1. /\ rep \in InFlight /\ rep \in ReportType /\ ReportOk(rep)
      /\ \A x \in InFlight : x \in ReportType /\ x.due \in Nat /\ x.seq \in Nat
  BY Zenon DEF EngineOk, EngineType, OrderFlow, InFlight, ReportType, FillType,
     StatusReportType
<1>2. rep \notin queue
  BY <1>1 DEF EngineOk, OrderFlow, BatchInv, Before
<1>3. \A x \in InFlight \ {rep} : Before(rep, x) /\ ~Before(x, rep)
  BY <1>1 DEF EngineOk, OrderFlow, BatchInv, Before, InFlight
<1>4. \A x \in InFlight \ {rep} : PairOk(x, rep) /\ PairOk(rep, x)
  BY Zenon, <1>1 DEF EngineOk, OrderFlow, PairInv
<1>5. orders[rep.coid] \in TrackedType /\ orders[rep.coid] # None /\ rep.coid \in Coids
  BY Zenon, <1>1 DEF ReportOk, EngineOk, EngineType, ReportType, FillType, StatusReportType
<1>6. \A x \in InFlight \ {rep} : x.coid = rep.coid => x.kind # "Accepted"
  BY Zenon, <1>3, <1>4 DEF PairOk
<1>7. rep.kind # "Accepted" =>
        orders[rep.coid].status \in {"Accepted", "PartiallyFilled", "PendingCancel"}
  <2>1. rep.kind # "Accepted" => orders[rep.coid].status # "Submitted"
    BY Zenon, <1>5, <1>6 DEF EngineOk, OrderFlow, OrderInv, OrderOk
  <2> QED
    BY Zenon, <1>1, <2>1 DEF ReportOk, Working
<1>8. rep.kind = "Canceled" => \A x \in InFlight \ {rep} : x.coid # rep.coid
  BY Zenon, <1>3, <1>4 DEF PairOk
<1>9. ASSUME rep.kind = "Fill", rep.cum = orders[rep.coid].quantity
      PROVE  /\ \A x \in InFlight \ {rep} : x.coid # rep.coid
             /\ \A r \in resting : r.coid # rep.coid
  <2>1. rep \in FillType /\ FillOk(rep) /\ rep.cum \in Nat
    BY ZenonT(40), <1>1, <1>9 DEF ReportOk, ReportType, FillType, StatusReportType
  <2>2. ASSUME NEW r \in resting, r.coid = rep.coid PROVE FALSE
    <3>1. PICK m \in Nat \ {0}, Q \in Nat :
             /\ m = r.remaining /\ Q = r.quantity /\ Q = orders[rep.coid].quantity
             /\ rep.cum + m <= Q
      BY Zenon, <2>1, <2>2
         DEF FillOk, EngineOk, EngineType, OrderFlow, RestingInv, RestOk, RestingType
    <3>2. ~(Q + m <= Q)
      OBVIOUS
    <3> QED
      BY Zenon, <1>9, <3>1, <3>2
  <2>3. ASSUME NEW x \in InFlight \ {rep}, x.coid = rep.coid PROVE FALSE
    <3>1. x.kind # "Canceled"
      <4>1. x.kind = "Canceled" => rep.cum < orders[rep.coid].quantity
        BY Zenon, <1>4, <1>9, <2>3 DEF PairOk
      <4> PICK m \in Nat : m = rep.cum
        BY Zenon, <2>1
      <4>2. ~(m < m)
        OBVIOUS
      <4> QED
        BY Zenon, <1>9, <4>1, <4>2
    <3>2. x \in FillType /\ x.kind = "Fill" /\ FillOk(x)
      BY Zenon, <1>1, <1>6, <2>3, <3>1
         DEF ReportType, StatusReportType, FillType, EngineOk, OrderFlow, ReportOk
    <3>3. rep.cum + x.qty <= x.cum
      BY Zenon, <1>3, <1>4, <1>9, <2>3, <3>2 DEF PairOk
    <3> QED
      BY SMTT(30), <1>9, <2>1, <2>3, <3>2, <3>3 DEF FillOk, FillType
  <2> QED
    BY Zenon, <2>2, <2>3
<1> QED
  BY Zenon, <1>1, <1>2, <1>3, <1>5, <1>6, <1>7, <1>8, <1>9 DEF ReportOk

\* What apply_report makes of the first report: every report is taken, except
\* a fill that meets a pending cancel.
LEMMA ReportEffect ==
  ASSUME EngineOk, NEW rep \in batch, \A x \in batch \ {rep} : Before(rep, x),
         ApplyReport(rep)
  PROVE  /\ rep.coid \in Coids
         /\ orders' \in [Coids -> TrackedType \cup {None}]
         /\ positions' \in [Instruments -> Int]
         /\ \A d \in Coids : d # rep.coid => orders'[d] = orders[d]
         /\ orders'[rep.coid] # None
         /\ orders'[rep.coid].quantity = orders[rep.coid].quantity
         /\ orders'[rep.coid].inst = orders[rep.coid].inst
         /\ orders'[rep.coid].side = orders[rep.coid].side
         /\ rep.kind # "Fill" =>
              /\ orders'[rep.coid].status = rep.kind
              /\ orders'[rep.coid].filled = orders[rep.coid].filled
              /\ UNCHANGED <<seen_trade_ids, positions>>
         /\ rep.kind = "Fill" =>
              /\ seen_trade_ids' = seen_trade_ids \cup {rep.trade_id}
              /\ \/ /\ orders[rep.coid].status = "PendingCancel"
                    /\ orders'[rep.coid] = orders[rep.coid]
                    /\ positions' = positions
                 \/ /\ orders[rep.coid].status # "PendingCancel"
                    /\ positions' = [positions EXCEPT
                                     ![rep.inst] = @ + Sign(rep.side) * rep.qty]
                    /\ orders'[rep.coid].filled = orders[rep.coid].filled + rep.qty
                    /\ orders'[rep.coid].filled <= rep.cum
                    /\ orders'[rep.coid].status =
                         IF orders'[rep.coid].filled = orders[rep.coid].quantity
                         THEN "Filled" ELSE "PartiallyFilled"
<1> PICK c : c = rep.coid
  OBVIOUS
<1> PICK o : o = orders[c]
  OBVIOUS
<1>1. /\ rep \in ReportType /\ ReportOk(rep) /\ c \in Coids
      /\ o \in TrackedType /\ orders[c] # None
      /\ rep.kind \in {"Accepted", "Canceled", "Fill"}
  BY Zenon, FirstReport DEF ReportOk, ReportType, FillType, StatusReportType
<1>2. CASE rep.kind # "Fill"
  <2> PICK p : p = ApplyStatus(o, rep.kind)
    OBVIOUS
  <2>1. Applies(rep)
    BY Zenon, <1>1, <1>2, FirstReport DEF Applies, CanApply, Allowed, EventOf
  <2>2. /\ p \in TrackedType /\ p # None /\ p.status = rep.kind
        /\ p.filled = o.filled /\ p.quantity = o.quantity
        /\ p.inst = o.inst /\ p.side = o.side
    BY Zenon, <1>1, <1>2, OrderAssumption
       DEF ApplyStatus, TrackedType, OrderStatus, OpenStatus, TerminalStatus
  <2>3. Folded(o, rep) = p
    BY Zenon, <1>1, <1>2 DEF Folded
  <2>4. /\ orders' = [orders EXCEPT ![c] = p] /\ positions' = positions
        /\ seen_trade_ids' = seen_trade_ids
    BY Zenon, <1>2, <2>1, <2>3 DEF ApplyReport
  <2> QED
    BY ZenonT(40), <1>1, <1>2, <2>2, <2>4 DEF EngineOk, EngineType
<1>3. CASE rep.kind = "Fill"
  <2>1. /\ rep \in FillType /\ FillOk(rep) /\ rep.qty \in Nat \ {0} /\ rep.cum \in Nat
        /\ o.filled + rep.qty <= rep.cum /\ rep.cum <= o.quantity
        /\ o.filled \in Nat /\ o.quantity \in Nat
    BY Zenon, <1>1, <1>3 DEF ReportOk, ReportType, StatusReportType, FillType, FillOk,
       TrackedType
  <2>2. CASE o.status = "PendingCancel"
    <3>1. ~Applies(rep)
      BY Zenon, <1>3, <2>2 DEF Applies, CanApply, Allowed, EventOf, Fillable
    <3> QED
      BY Zenon, <1>1, <1>3, <2>2, <3>1 DEF ApplyReport, EngineOk, EngineType
  <2>3. CASE o.status # "PendingCancel"
    <3> PICK p : p = ApplyFill(o, rep.qty)
      OBVIOUS
    <3>1. Applies(rep)
      BY Zenon, <1>1, <1>3, <2>1, <2>3, FirstReport
         DEF Applies, CanApply, Allowed, EventOf, Fillable, FillOk
    <3>2. /\ p \in TrackedType /\ p # None /\ p.filled = o.filled + rep.qty
          /\ p.quantity = o.quantity /\ p.inst = o.inst /\ p.side = o.side
          /\ p.status = IF p.filled = o.quantity THEN "Filled" ELSE "PartiallyFilled"
      <4> PICK st : st = IF o.filled + rep.qty = o.quantity THEN "Filled"
                         ELSE "PartiallyFilled"
        OBVIOUS
      <4>1. st \in OrderStatus
        BY ZenonT(40) DEF OrderStatus, OpenStatus, TerminalStatus
      <4>2. Monus(o.quantity, o.filled + rep.qty) = 0 <=>
              o.filled + rep.qty = o.quantity
        BY <2>1 DEF Monus
      <4>3. p = [o EXCEPT !.filled = o.filled + rep.qty, !.status = st]
        BY Zenon, <4>2 DEF ApplyFill
      <4>4. o.filled + rep.qty \in Nat
        BY <2>1
      <4>5. p \in TrackedType /\ p.filled = o.filled + rep.qty /\ p.status = st
            /\ p.quantity = o.quantity /\ p.inst = o.inst /\ p.side = o.side
        BY Zenon, <1>1, <4>1, <4>3, <4>4 DEF TrackedType
      <4> QED
        BY ZenonT(40), <4>5, OrderAssumption
    <3>3. Folded(o, rep) = p
      BY Zenon, <1>3 DEF Folded
    <3>4. /\ orders' = [orders EXCEPT ![c] = p]
          /\ seen_trade_ids' = seen_trade_ids \cup {rep.trade_id}
          /\ positions' = [positions EXCEPT ![rep.inst] = @ + Sign(rep.side) * rep.qty]
      BY ZenonT(40), <1>3, <3>1, <3>3 DEF ApplyReport
    <3>5. positions' \in [Instruments -> Int]
      <4> PICK n \in Nat : n = rep.qty
        BY Zenon, <2>1
      <4> PICK d : d = Sign(rep.side) * n
        BY SMTT(30)
      <4>1. d \in Int
        BY DEF Sign
      <4>2. positions \in [Instruments -> Int] /\ rep.inst \in Instruments
        BY Zenon, <2>1 DEF EngineOk, EngineType, FillType
      <4>3. positions' = [positions EXCEPT ![rep.inst] = @ + d]
        BY Zenon, <3>4
      <4> QED
        BY SMTT(30), <4>1, <4>2, <4>3
    <3> QED
      BY Zenon, <1>1, <1>3, <2>1, <2>3, <3>2, <3>4, <3>5 DEF EngineOk, EngineType
  <2> QED
    BY Zenon, <2>2, <2>3
<1> QED
  BY Zenon, <1>2, <1>3

\* apply_report preserves EngineOk: delivering the first report leaves every
\* later one deliverable.
LEMMA DeliverFlow ==
  ASSUME EngineOk, NEW rep \in batch, \A x \in batch \ {rep} : Before(rep, x),
         ApplyReport(rep), batch' = batch \ {rep},
         UNCHANGED <<now, venueVars, pc>>
  PROVE  EngineOk'
<1> PICK c : c = rep.coid
  OBVIOUS
<1> PICK o : o = orders[c]
  BY SMTT(30)
<1> PICK p : p = orders'[c]
  OBVIOUS
<1> DEFINE Rest == InFlight \ {rep}
<1>1. /\ c \in Coids /\ o \in TrackedType /\ p \in TrackedType /\ p # None
      /\ \A d \in Coids : d # c => orders'[d] = orders[d]
      /\ orders' \in [Coids -> TrackedType \cup {None}]
      /\ positions' \in [Instruments -> Int] /\ p.quantity = o.quantity
  <2>1. /\ c \in Coids /\ p # None
        /\ \A d \in Coids : d # c => orders'[d] = orders[d]
        /\ orders' \in [Coids -> TrackedType \cup {None}]
        /\ positions' \in [Instruments -> Int] /\ p.quantity = o.quantity
    BY Zenon, ReportEffect
  <2>2. o \in TrackedType
    BY Zenon, FirstReport
  <2>3. p \in TrackedType
    BY Zenon, <2>1
  <2> QED
    BY Zenon, <2>1, <2>2, <2>3
<1>2. UNCHANGED <<queue, queue_seq, resting, venue_seq, trade_seq>>
  BY Zenon DEF venueVars
<1>3. InFlight' = Rest
  <2>1. rep \notin queue
    BY Zenon, FirstReport
  <2> QED
    BY Zenon, <1>2, <2>1 DEF InFlight
<1>4. /\ \A x \in InFlight : /\ x \in ReportType /\ ReportOk(x) /\ x.coid \in Coids
                             /\ x.kind \in {"Accepted", "Canceled", "Fill"}
      /\ \A r \in resting : /\ r \in RestingType /\ RestOk(r) /\ r.coid \in Coids
                            /\ r.remaining \in Nat \ {0}
      /\ rep \in InFlight
  BY Zenon DEF EngineOk, EngineType, OrderFlow, InFlight, ReportType, FillType,
     StatusReportType, RestingInv, RestingType
<1>5. OrderOk(c)
  BY Zenon, <1>1, <1>4 DEF EngineOk, OrderFlow, OrderInv, ReportOk
<1>6. /\ rep.kind = "Accepted" => o.status = "Submitted" /\ p.status = "Accepted"
      /\ rep.kind = "Canceled" => p.status = "Canceled"
      /\ rep.kind # "Fill" => p.filled = o.filled /\ seen_trade_ids' = seen_trade_ids
      /\ rep.kind = "Fill" =>
           /\ seen_trade_ids' = seen_trade_ids \cup {rep.trade_id}
           /\ \/ p = o /\ o.status = "PendingCancel"
              \/ /\ p.filled = o.filled + rep.qty
                 /\ p.filled <= rep.cum
                 /\ p.status = IF p.filled = o.quantity THEN "Filled"
                               ELSE "PartiallyFilled"
  BY Zenon, FirstReport, ReportEffect
<1>7. /\ rep.kind = "Fill" => /\ rep.cum \in Nat /\ rep.cum <= o.quantity
                              /\ rep.qty \in Nat \ {0} /\ rep.trade_id \in Nat
                              /\ rep.trade_id <= trade_seq
      /\ o.filled \in Nat /\ p.filled \in Nat /\ o.quantity \in Nat
  BY Zenon, <1>1, <1>4 DEF ReportOk, FillOk, ReportType, FillType, StatusReportType, TrackedType
<1>8. /\ \A x \in Rest : x.coid = c => x.kind # "Accepted"
      /\ rep.kind = "Canceled" \/ p.status = "Filled" =>
           /\ \A x \in Rest : x.coid # c
           /\ \A r \in resting : r.coid # c
  <2>1. rep.kind = "Fill" /\ p.status = "Filled" => rep.cum = o.quantity
    <3>1. rep.kind = "Fill" /\ p.status = "Filled" =>
            /\ p.filled = o.quantity /\ p.filled <= rep.cum /\ rep.cum <= o.quantity
            /\ rep.cum \in Nat /\ o.quantity \in Nat
      <4>1. p.status = "Filled" => ~(p = o /\ o.status = "PendingCancel")
        OBVIOUS
      <4> QED
        BY Zenon, <1>6, <1>7, <4>1
    <3> QED
      BY <3>1
  <2>2. rep.kind # "Fill" => p.status # "Filled"
    BY Zenon, <1>4, <1>6
  <2>3. rep.kind = "Canceled" => \A r \in resting : r.coid # c
    BY Zenon, <1>4 DEF ReportOk
  <2> QED
    BY ZenonT(40), <1>4, <2>1, <2>2, <2>3, FirstReport
<1>9. p.status \in {"Accepted", "PartiallyFilled", "PendingCancel", "Filled", "Canceled"}
  BY Zenon, <1>4, <1>6
<1> HIDE DEF Rest
<1>10. EngineType'
  BY Zenon, <1>1, <1>2 DEF EngineOk, EngineType
<1>11. BatchInv'
  BY Zenon, <1>2 DEF EngineOk, OrderFlow, BatchInv
<1>12. ASSUME NEW r \in resting PROVE RestOk(r)'
  <2>1. CASE r.coid # c
    BY Zenon, <1>1, <1>2, <1>4, <2>1 DEF RestOk
  <2>2. CASE r.coid = c
    <3>1. rep.kind = "Fill" => rep.cum + r.remaining <= r.quantity
      BY ZenonT(40), <1>4, <2>2 DEF ReportOk, FillOk
    <3>2. p.filled + r.remaining <= r.quantity
      <4> PICK m \in Nat : m = r.remaining
        BY Zenon, <1>4
      <4> PICK Q \in Nat : Q = r.quantity
        BY Zenon, <1>4 DEF RestingType
      <4>1. o.filled + m <= Q
        BY Zenon, <1>4, <2>2 DEF RestOk
      <4>2. p.filled = o.filled \/ (p.filled <= rep.cum /\ rep.kind = "Fill")
        BY Zenon, <1>6
      <4>3. rep.kind = "Fill" => rep.cum \in Nat /\ rep.cum + m <= Q
        BY Zenon, <1>7, <3>1
      <4> QED
        BY SMTT(30), <1>7, <4>1, <4>2, <4>3
    <3>3. p.status \in {"Accepted", "PartiallyFilled"}
      BY Zenon, <1>4, <1>6, <1>8, <1>9, <2>2 DEF RestOk, Working
    <3> QED
      BY Zenon, <1>1, <1>2, <1>4, <2>2, <3>2, <3>3 DEF RestOk, Working
  <2> QED
    BY Zenon, <2>1, <2>2
<1>13. RestingInv'
  BY Zenon, <1>2, <1>12 DEF EngineOk, OrderFlow, RestingInv
<1>14. ASSUME NEW x \in Rest PROVE ReportOk(x)'
  <2>1. x \in InFlight /\ x # rep /\ PairOk(rep, x) /\ Before(rep, x)
    BY Zenon, <1>4, FirstReport DEF Rest, EngineOk, OrderFlow, PairInv
  <2>2. CASE x.coid # c
    <3>1. orders'[x.coid] = orders[x.coid]
      BY Zenon, <1>1, <1>4, <2>1, <2>2
    <3>2. ASSUME x.kind = "Fill" PROVE FillOk(x)'
      <4>1. x.trade_id \notin seen_trade_ids'
        BY Zenon, <1>4, <1>6, <2>1, <3>2 DEF ReportOk, FillOk, PairOk
      <4> QED
        BY Zenon, <1>2, <1>4, <2>1, <3>1, <3>2, <4>1 DEF ReportOk, FillOk
    <3> QED
      BY Zenon, <1>2, <1>4, <2>1, <3>1, <3>2 DEF ReportOk
  <2>3. CASE x.coid = c
    <3>1. x.kind # "Accepted" /\ p.status \in {"Accepted", "PartiallyFilled", "PendingCancel"}
      BY Zenon, <1>4, <1>6, <1>8, <1>9, <2>3
    <3>2. ASSUME x.kind = "Fill" PROVE FillOk(x)'
      <4>1. x.trade_id \notin seen_trade_ids'
        BY Zenon, <1>4, <1>6, <2>1, <3>2 DEF ReportOk, FillOk, PairOk
      <4>2. /\ x.qty \in Nat /\ x.cum \in Nat /\ o.filled + x.qty <= x.cum
            /\ x.cum <= o.quantity
        BY Zenon, <1>4, <2>1, <2>3, <3>2
           DEF ReportOk, FillOk, ReportType, FillType, StatusReportType
      <4>3. rep.kind = "Fill" => rep.cum + x.qty <= x.cum
        BY Zenon, <2>1, <2>3, <3>2 DEF PairOk
      <4>4. p.filled + x.qty <= x.cum
        <5>1. p.filled = o.filled \/ (p.filled <= rep.cum /\ rep.kind = "Fill")
          BY Zenon, <1>6
        <5> QED
          BY <1>7, <4>2, <4>3, <5>1
      <4>5. /\ x.trade_id <= trade_seq
            /\ \A r \in resting : r.coid = x.coid => x.cum + r.remaining <= r.quantity
        BY Zenon, <1>4, <2>1, <3>2 DEF ReportOk, FillOk
      <4> QED
        BY Zenon, <1>1, <1>2, <2>3, <4>1, <4>2, <4>4, <4>5 DEF FillOk
    <3>3. /\ x.seq <= queue_seq /\ x.due <= now + CancelLatency
          /\ x.kind # "Canceled" => x.due <= now + SubmitLatency
          /\ x.kind = "Canceled" => \A r \in resting : r.coid # x.coid
      BY Zenon, <1>4, <2>1 DEF ReportOk
    <3> QED
      BY Zenon, <1>1, <1>2, <2>3, <3>1, <3>2, <3>3 DEF ReportOk, Working
  <2> QED
    BY Zenon, <2>2, <2>3
<1>15. PairInv'
  <2> SUFFICES ASSUME NEW x \in Rest, NEW y \in Rest, x # y PROVE PairOk(x, y)'
    BY Zenon, <1>3 DEF PairInv
  <2>1. x \in InFlight /\ y \in InFlight
    BY Zenon DEF Rest
  <2>2. PairOk(x, y)
    BY Zenon, <2>1 DEF EngineOk, OrderFlow, PairInv
  <2>3. orders'[y.coid].quantity = orders[y.coid].quantity
    BY Zenon, <1>1, <1>4, <2>1
  <2> QED
    BY Zenon, <2>2, <2>3 DEF PairOk, Before
<1>16. OrderInv'
  <2>1. ASSUME NEW d \in Coids, d # c, orders'[d] # None PROVE OrderOk(d)'
    <3>1. OrderOk(d) /\ orders'[d] = orders[d]
      BY Zenon, <1>1, <2>1 DEF EngineOk, OrderFlow, OrderInv
    <3>2. orders[d].status = "Submitted" =>
            \E a \in InFlight' : a.coid = d /\ a.kind = "Accepted"
      BY Zenon, <1>3, <2>1, <3>1 DEF OrderOk, Rest
    <3> QED
      BY Zenon, <3>1, <3>2 DEF OrderOk
  <2>2. OrderOk(c)'
    <3>1. p.filled <= p.quantity /\ (p.filled = p.quantity <=> p.status = "Filled")
      <4>1. CASE p.filled = o.filled /\ (p.status # "Filled" \/ p = o)
        <5>1. o.status # "Filled" /\ o.filled <= o.quantity /\ o.filled # o.quantity
          BY ZenonT(40), <1>4, <1>5, <1>7 DEF OrderOk, ReportOk, Working
        <5> QED
          BY Zenon, <1>1, <4>1, <5>1
      <4>2. CASE rep.kind = "Fill" /\ p.filled <= rep.cum
                 /\ p.status = IF p.filled = o.quantity THEN "Filled"
                               ELSE "PartiallyFilled"
        BY <1>1, <1>7, <4>2
      <4> QED
        BY Zenon, <1>4, <1>6, <4>1, <4>2
    <3> QED
      BY Zenon, <1>9, <3>1 DEF OrderOk, Working
  <2>3. \A t \in seen_trade_ids' : t \in Nat /\ t <= trade_seq'
    BY Zenon, <1>2, <1>6, <1>7 DEF EngineOk, OrderFlow, OrderInv
  <2> QED
    BY Zenon, <2>1, <2>2, <2>3 DEF OrderInv
<1> QED
  BY Zenon, <1>3, <1>10, <1>11, <1>13, <1>14, <1>15, <1>16 DEF EngineOk, OrderFlow

-----------------------------------------------------------------------------
\* The loop

Inv == EngineOk /\ LoopType

\* The strategy variables keep their types.
OutboxOk == outbox \in Seq(CommandType) /\ timers \subseteq [at : Int, id : Nat]
            /\ next_id \in Nat

\* Every command a strategy can queue is well formed.
LEMMA CommandsType ==
  ASSUME mark \in [Instruments -> MaybePrice]
  PROVE  Commands \subseteq CommandType
<1>1. ASSUME NEW c \in Coids, NEW t \in Tickets PROVE NewOrder(c, t) \in OrderType
  <2>1. t \in TicketType
    BY Zenon, KernelAssumption
  <2>2. /\ t.inst \in Instruments /\ t.side \in Sides /\ t.type \in OrderTypes
        /\ t.price \in MaybePrice /\ t.stop \in MaybePrice
        /\ t.quantity \in Nat \ {0}
        /\ t.type = "TrailingStopMarket" => t.stop # None
    BY Zenon, <2>1 DEF TicketType
  <2> PICK g : g = IF t.type # "TrailingStopMarket" \/ mark[t.inst] = None THEN t.stop
                   ELSE IF t.side = "Sell" THEN mark[t.inst] - t.stop
                   ELSE mark[t.inst] + t.stop
    OBVIOUS
  <2>3. g \in MaybePrice
    BY <2>2 DEF MaybePrice
  <2>4. NewOrder(c, t) =
          [coid |-> c, inst |-> t.inst, side |-> t.side, type |-> t.type,
           price |-> t.price, quantity |-> t.quantity, trigger |-> g]
    BY Zenon DEF NewOrder
  <2> QED
    BY <2>2, <2>3, <2>4 DEF OrderType
<1> QED
  <2>1. \A c \in Coids : \A t \in Tickets :
          [cmd |-> "Submit", order |-> NewOrder(c, t)] \in CommandType
    BY <1>1 DEF CommandType
  <2>2. \A c \in Coids : [cmd |-> "Cancel", coid |-> c] \in CommandType
    BY Zenon DEF CommandType
  <2> QED
    BY <2>1, <2>2 DEF Commands

\* A handler call leaves the outbox and the timers well formed.
LEMMA HandlerType ==
  ASSUME LoopType, now \in Nat, Handler
  PROVE  OutboxOk'
<1>1. outbox' \in Seq(CommandType)
  <2>1. PICK n \in 0..MaxPerCall : \E s \in [1..n -> Commands] : outbox' = outbox \o s
    BY Zenon DEF Handler
  <2>2. PICK s \in [1..n -> Commands] : outbox' = outbox \o s
    BY Zenon, <2>1
  <2>3. n \in Nat
    BY <2>1
  <2>4. s \in [1..n -> CommandType]
    BY Zenon, <2>2, CommandsType DEF LoopType
  <2>5. s \in Seq(CommandType)
    BY <2>3, <2>4, QueueFacts
  <2> QED
    BY Zenon, <2>2, <2>5, QueueFacts DEF LoopType
<1>2. timers' \subseteq [at : Int, id : Nat] /\ next_id' \in Nat
  <2>1. CASE SetTimer
    <3>1. PICK d \in TimerDelays :
             timers' = timers \cup {[at |-> now + d, id |-> next_id]}
      BY Zenon, <2>1 DEF SetTimer
    <3>2. now + d \in Int
      BY KernelAssumption
    <3> QED
      BY <2>1, <3>1, <3>2 DEF SetTimer, LoopType
  <2>2. CASE UNCHANGED <<timers, next_id>>
    BY Zenon, <2>2 DEF LoopType
  <2> QED
    BY Zenon, <2>1, <2>2 DEF Handler, CancelTimer
<1> QED
  BY Zenon, <1>1, <1>2 DEF OutboxOk

\* The same for an operation that may raise no event.
LEMMA NotifyType ==
  ASSUME LoopType, now \in Nat, NEW raised, Notify(raised)
  PROVE  OutboxOk'
<1>1. CASE Handler
  BY Zenon, <1>1, HandlerType
<1>2. CASE UNCHANGED strategyVars
  BY Zenon, <1>2 DEF strategyVars, LoopType, OutboxOk
<1> QED
  BY Zenon, <1>1, <1>2 DEF Notify

\* Outside of the report step the batch is empty.
LEMMA BatchEmpty == ASSUME EngineOk, pc # "reports" PROVE batch = {}
BY Zenon DEF EngineOk, OrderFlow, BatchInv

\* A step of the loop that touches neither the engine nor the clock.
LEMMA Quiet ==
  ASSUME EngineOk, batch = {}, UNCHANGED <<engineVars, now, batch>>
  PROVE  EngineOk'
<1>1. UNCHANGED flowVars /\ positions' = positions
  BY Zenon DEF engineVars, omsVars, venueVars, flowVars
<1>2. positions' \in [Instruments -> Int]
  BY Zenon, <1>1 DEF EngineOk, EngineType
<1> QED
  BY Zenon, <1>1, <1>2, FlowUnchanged
----------------------------------------------------------------------------
\* Inv holds initially.
LEMMA InitInv == Init => Inv
<1> SUFFICES ASSUME Init PROVE Inv
  OBVIOUS
<1>1. feed \in [ts : Nat, ev : EventType] \cup {None}
  <2>1. feed \in NextEvent(0, 0)
    BY Zenon DEF Init
  <2>2. CASE feed = None
    BY Zenon, <2>2
  <2>3. CASE feed # None
    <3>1. PICK gap \in 0..MaxGap, e \in MarketEvents : feed = [ts |-> 0 + gap, ev |-> e]
      BY <2>1, <2>3 DEF NextEvent
    <3>2. 0 + gap \in Nat
      BY <3>1, KernelAssumption
    <3> QED
      BY Zenon, <3>1, <3>2, KernelAssumption
  <2> QED
    BY Zenon, <2>2, <2>3
<1>2. LoopType
  BY Zenon, <1>1, QueueFacts DEF Init, EngineInit, VenueInit, CacheInit, LoopType, Resume, MaybePrice
<1> QED
  BY Zenon, <1>2, InitEngine DEF Inv

\* The commands drained from the outbox, one by one.
LEMMA CommandStep ==
  ASSUME Inv, ProcessSubmit \/ ProcessCancel
  PROVE  Inv'
<1>1. /\ EngineOk /\ LoopType /\ now \in Nat /\ mark \in [Instruments -> MaybePrice]
      /\ pc = "outbox" /\ cmds # <<>> /\ cmds \in Seq(CommandType)
  BY Zenon DEF Inv, EngineOk, EngineType, LoopType, ProcessSubmit, ProcessCancel
<1>2. batch = {}
  BY Zenon, <1>1, BatchEmpty
<1>3. Head(cmds) \in CommandType /\ Tail(cmds) \in Seq(CommandType)
  BY Zenon, <1>1, QueueFacts
<1>4. AfterCommand /\ UNCHANGED <<now, batch>>
  BY Zenon DEF ProcessSubmit, ProcessCancel, AfterCommand, marketVars
<1>5. OutboxOk'
  BY Zenon, <1>1, NotifyType DEF ProcessSubmit, ProcessCancel
<1>6. LoopType'
  <2>1. UNCHANGED <<mark, feed, unsettled, open, flatten, ret>>
    BY Zenon, <1>4 DEF AfterCommand, marketVars, cacheVars, closeVars
  <2> QED
    BY Zenon, <1>1, <1>3, <1>4, <1>5, <2>1 DEF LoopType, OutboxOk, AfterCommand, Resume
<1>7. EngineOk'
  <2> PICK cmd : cmd = Head(cmds)
    OBVIOUS
  <2>1. CASE ProcessSubmit
    <3>1. cmd.order \in OrderType
      BY Zenon, <1>3, <2>1 DEF ProcessSubmit, CommandType
    <3> PICK o : o = cmd.order
      OBVIOUS
    <3>2. PICK funded \in BOOLEAN : Submit(o, funded)
      BY Zenon, <2>1 DEF ProcessSubmit
    <3> QED
      BY Zenon, <1>1, <1>2, <1>4, <3>1, <3>2, SubmitFlow
  <2>2. CASE ProcessCancel
    <3>1. cmd.coid \in Coids
      BY Zenon, <1>3, <2>2 DEF ProcessCancel, CommandType
    <3> PICK c : c = cmd.coid
      OBVIOUS
    <3>2. Cancel(c)
      BY Zenon, <2>2 DEF ProcessCancel
    <3> QED
      BY Zenon, <1>1, <1>2, <1>4, <3>1, <3>2, CancelFlow
  <2> QED
    BY Zenon, <2>1, <2>2
<1> QED
  BY Zenon, <1>6, <1>7 DEF Inv

\* The reports, the timers and the market event of one iteration.
LEMMA DeliverStep ==
  ASSUME Inv, NEW rep \in batch, Deliver(rep)
  PROVE  Inv'
<1>1. EngineOk /\ LoopType /\ now \in Nat
  BY Zenon DEF Inv, EngineOk, EngineType
<1>2. OutboxOk'
  BY Zenon, <1>1, NotifyType DEF Deliver
<1>3. LoopType'
  BY Zenon, <1>1, <1>2 DEF Deliver, LoopType, OutboxOk, marketVars, cacheVars, closeVars
<1>4. EngineOk'
  <2>1. UNCHANGED <<now, venueVars, pc>>
    BY Zenon DEF Deliver, marketVars
  <2>2. /\ \A x \in batch \ {rep} : Before(rep, x)
        /\ ApplyReport(rep) /\ batch' = batch \ {rep}
    BY Zenon DEF Deliver
  <2> QED
    BY Zenon, <1>1, <2>1, <2>2, DeliverFlow
<1> QED
  BY Zenon, <1>3, <1>4 DEF Inv

\* The frontier is a time: every pending event carries an integer.
LEMMA PendingType ==
  ASSUME Inv
  PROVE  Pending \subseteq Int
<1> EngineOk /\ LoopType
  BY Zenon DEF Inv
<1>1. {x.ts : x \in {feed} \ {None}} \subseteq Int
  <2>1. feed # None => feed.ts \in Nat
    BY Zenon DEF LoopType
  <2> QED
    BY <2>1
<1>2. {s.due : s \in queue} \subseteq Int
  BY DEF EngineOk, EngineType, ReportType, FillType, StatusReportType
<1>3. {t.at : t \in {u \in timers : u.id \notin cancelled}} \subseteq Int
  BY Zenon DEF LoopType
<1>4. {Expiry[i] : i \in unsettled} \subseteq Int
  BY KernelAssumption DEF LoopType
<1> QED
  BY Zenon, <1>1, <1>2, <1>3, <1>4 DEF Pending

\* The frontier moves to the earliest pending time.
LEMMA AdvanceStep ==
  ASSUME Inv, Advance
  PROVE  Inv'
<1>1. EngineOk /\ LoopType /\ pc = "loop"
  BY Zenon DEF Inv, Advance
<1>2. Pending \subseteq Int
  BY Zenon, PendingType
<1>3. PICK f \in Pending :
         /\ now' = Hi(now, f) /\ batch' = DueBy(f) /\ queue' = queue \ DueBy(f)
  BY Zenon DEF Advance
<1>4. /\ pc' = "reports" /\ ret' = ret
      /\ UNCHANGED <<queue_seq, venue_seq, trade_seq, resting, orders, positions,
                     seen_trade_ids>>
      /\ UNCHANGED <<mark, feed, outbox, cmds, timers, next_id, unsettled, open,
                     flatten>>
  BY Zenon DEF Advance, Goto, omsVars, strategyVars, closeVars, cacheVars
<1>5. LoopType'
  BY Zenon, <1>1, <1>4 DEF LoopType
<1>6. batch = {} /\ f \in Int
  BY <1>1, <1>2, BatchEmpty
<1>7. EngineOk'
  BY Zenon, <1>1, <1>3, <1>4, <1>6, AdvanceFlow
<1> QED
  BY Zenon, <1>5, <1>7 DEF Inv

\* A market event reaches the cache and the venue.
LEMMA MarketStep ==
  ASSUME Inv, ProcessMarket
  PROVE  Inv'
<1>1. EngineOk /\ LoopType /\ pc = "market" /\ feed # None
  BY Zenon DEF Inv, ProcessMarket
<1>2. feed.ev \in EventType /\ feed.ts \in Nat
  BY Zenon, <1>1 DEF LoopType
<1>3. feed' \in [ts : Nat, ev : EventType] \cup {None}
  <2>1. feed' \in NextEvent(feed.ts, events + 1)
    BY Zenon DEF ProcessMarket
  <2>2. CASE feed' = None
    BY Zenon, <2>2
  <2>3. CASE feed' # None
    <3>1. PICK gap \in 0..MaxGap, e \in MarketEvents :
             feed' = [ts |-> feed.ts + gap, ev |-> e]
      BY <2>1, <2>3 DEF NextEvent
    <3>2. feed.ts + gap \in Nat
      BY <1>2, <3>1, KernelAssumption
    <3> QED
      BY Zenon, <3>1, <3>2, KernelAssumption
  <2> QED
    BY Zenon, <2>2, <2>3
<1>4. mark' \in [Instruments -> MaybePrice]
  <2> PICK ev : ev = feed.ev
    OBVIOUS
  <2>1. mark' = IF ev.kind = "Delta" THEN mark
                ELSE [mark EXCEPT ![ev.inst] = View(ev).close]
    BY Zenon DEF ProcessMarket, DataProcess
  <2>2. CASE ev.kind = "Delta"
    BY Zenon, <1>1, <2>1, <2>2 DEF LoopType
  <2>3. CASE ev.kind # "Delta"
    <3>1. View(ev).close \in MaybePrice
      BY Zenon, <1>2, <2>3, ViewType DEF PriceView, MaybePrice
    <3> QED
      BY Zenon, <1>1, <2>1, <2>3, <3>1 DEF LoopType
  <2> QED
    BY Zenon, <2>2, <2>3
<1>5. LoopType'
  <2>1. /\ pc' = "dispatch"
        /\ UNCHANGED <<ret, outbox, cmds, timers, next_id, unsettled, open, flatten>>
    BY Zenon DEF ProcessMarket, Goto, strategyVars, closeVars
  <2> QED
    BY Zenon, <1>1, <1>3, <1>4, <2>1 DEF LoopType
<1>6. EngineOk'
  <2>1. OnMarket(feed.ev) /\ UNCHANGED <<now, batch, orders, positions, seen_trade_ids>>
    BY Zenon DEF ProcessMarket, omsVars
  <2>2. batch = {}
    BY Zenon, <1>1, BatchEmpty
  <2> PICK ev : ev = feed.ev
    OBVIOUS
  <2> QED
    BY Zenon, <1>1, <1>2, <2>1, <2>2, MarketFlow
<1> QED
  BY Zenon, <1>5, <1>6 DEF Inv

\* A position is closed by a synthetic fill, or left alone.
LEMMA CloseStep ==
  ASSUME Inv, NEW i \in Instruments, NEW label \in Resume,
         ClosePosition(i, label) \/ LeavePosition(label),
         pc # "reports", pc \in Resume,
         UNCHANGED <<marketVars, venueVars, open, batch, cmds>>,
         unsettled' \subseteq unsettled, flatten' \subseteq flatten
  PROVE  Inv'
<1>1. EngineOk /\ LoopType /\ now \in Nat
  BY Zenon DEF Inv, EngineOk, EngineType
<1>2. batch = {}
  BY <1>1, BatchEmpty
<1>3. OutboxOk'
  <2>1. CASE ClosePosition(i, label)
    BY Zenon, <1>1, <2>1, HandlerType DEF ClosePosition
  <2>2. CASE LeavePosition(label)
    BY Zenon, <1>1, <2>2 DEF LeavePosition, strategyVars, LoopType, OutboxOk
  <2> QED
    BY Zenon, <2>1, <2>2
<1>4. pc' \in Resume \cup {"drain"} /\ ret' \in Resume
  BY Zenon, <1>1 DEF ClosePosition, LeavePosition, Goto, ProcessOutboxThen, LoopType
<1>5. positions' \in [Instruments -> Int] /\ UNCHANGED <<orders, seen_trade_ids>>
  BY <1>1 DEF ClosePosition, LeavePosition, omsVars, EngineOk, EngineType
<1>6. LoopType'
  <2>1. UNCHANGED <<mark, feed, open, cmds>>
    BY Zenon DEF marketVars, cacheVars
  <2>2. pc' # "outbox"
    BY Zenon, <1>4 DEF Resume
  <2> QED
    BY Zenon, <1>1, <1>3, <1>4, <2>1, <2>2 DEF LoopType, OutboxOk
<1>7. EngineOk'
  <2>1. UNCHANGED flowVars
    BY Zenon, <1>5 DEF marketVars, venueVars, flowVars
  <2> QED
    BY Zenon, <1>1, <1>2, <1>5, <2>1, FlowUnchanged
<1> QED
  BY Zenon, <1>6, <1>7 DEF Inv

\* The orders on a dead contract are cancelled one by one.
LEMMA CancelOpenStep ==
  ASSUME Inv, NEW c \in open, CancelOpen(c)
  PROVE  Inv'
<1>1. EngineOk /\ LoopType /\ now \in Nat /\ pc = "cancels" /\ c \in Coids
  BY Zenon DEF Inv, EngineOk, EngineType, LoopType, CancelOpen
<1>2. batch = {}
  BY Zenon, <1>1, BatchEmpty
<1>3. OutboxOk'
  BY Zenon, <1>1, NotifyType DEF CancelOpen
<1>4. /\ UNCHANGED <<mark, feed, unsettled, flatten, pc, ret, batch, cmds, now>>
      /\ open' = open \ {c} /\ Cancel(c)
  BY Zenon DEF CancelOpen, marketVars, cacheVars
<1>5. LoopType'
  BY Zenon, <1>1, <1>3, <1>4 DEF LoopType, OutboxOk
<1>6. EngineOk'
  BY Zenon, <1>1, <1>2, <1>4, CancelFlow
<1> QED
  BY Zenon, <1>5, <1>6 DEF Inv

\* A handler runs, and its commands are drained next.
LEMMA HandlerStep ==
  ASSUME Inv, pc # "reports", Handler, NEW label \in Resume, ProcessOutboxThen(label),
         UNCHANGED <<marketVars, engineVars, closeVars, batch, cmds>>
  PROVE  Inv'
<1>1. EngineOk /\ LoopType /\ now \in Nat
  BY Zenon DEF Inv, EngineOk, EngineType
<1>2. OutboxOk'
  BY Zenon, <1>1, HandlerType
<1>3. /\ UNCHANGED <<mark, feed, unsettled, open, flatten, cmds>>
      /\ UNCHANGED <<engineVars, now, batch>>
      /\ pc' = "drain" /\ ret' = label
  BY Zenon DEF marketVars, cacheVars, closeVars, ProcessOutboxThen
<1>4. LoopType'
  BY Zenon, <1>1, <1>2, <1>3 DEF LoopType, OutboxOk
<1>5. EngineOk'
  BY Zenon, <1>1, <1>3, BatchEmpty, Quiet
<1> QED
  BY Zenon, <1>4, <1>5 DEF Inv

\* Steps that only move the loop.
LEMMA ControlStep ==
  ASSUME Inv, batch = {}, UNCHANGED <<marketVars, engineVars, batch>>,
         UNCHANGED <<outbox, next_id, cmds, unsettled>>, timers' \subseteq timers,
         open' \subseteq Coids, flatten' \subseteq Instruments,
         pc' \in Resume \cup {"drain", "market", "cancels"}, ret' \in Resume
  PROVE  Inv'
<1>1. EngineOk /\ LoopType
  BY Zenon DEF Inv
<1>2. UNCHANGED <<mark, feed, now>>
  BY Zenon DEF marketVars, cacheVars
<1>3. LoopType'
  BY <1>1, <1>2 DEF LoopType, Resume
<1>4. EngineOk'
  BY Zenon, <1>1, <1>2, Quiet
<1> QED
  BY Zenon, <1>3, <1>4 DEF Inv

-----------------------------------------------------------------------------
\* Every step of the loop preserves Inv.
LEMMA StepInv == Inv /\ [Next]_vars => Inv'
<1> SUFFICES ASSUME Inv, [Next]_vars PROVE Inv'
  OBVIOUS
<1>t. EngineOk /\ LoopType
  BY Zenon DEF Inv
<1>u. pc # "reports" => batch = {}
  BY Zenon, <1>t, BatchEmpty
<1>l. /\ open \subseteq Coids /\ flatten \subseteq Instruments /\ ret \in Resume
      /\ unsettled \subseteq Instruments
  BY Zenon, <1>t DEF LoopType
<1>1. CASE OnStart \/ OnStop \/ DispatchMarket
  <2>1. \E label \in Resume : ProcessOutboxThen(label)
    BY Zenon, <1>1 DEF OnStart, OnStop, DispatchMarket, Resume
  <2>2. /\ Handler /\ pc # "reports"
        /\ UNCHANGED <<marketVars, engineVars, closeVars, batch, cmds>>
    BY Zenon, <1>1 DEF OnStart, OnStop, DispatchMarket
  <2> QED
    BY Zenon, <2>1, <2>2, HandlerStep
<1>2. CASE Advance
  BY Zenon, <1>2, AdvanceStep
<1>3. CASE DrainOutbox
  <2>1. /\ cmds' = outbox /\ outbox' = <<>> /\ ret' = ret /\ pc # "reports"
        /\ pc' = IF outbox = <<>> THEN ret ELSE "outbox"
        /\ UNCHANGED <<timers, next_id, engineVars, batch>>
        /\ UNCHANGED <<mark, feed, now, unsettled, open, flatten>>
    BY Zenon, <1>3 DEF DrainOutbox, marketVars, closeVars, cacheVars
  <2>2. <<>> \in Seq(CommandType)
    BY Zenon, QueueFacts
  <2>3. ret # "outbox"
    BY ZenonT(40), <1>l DEF Resume
  <2>4. LoopType'
    BY Zenon, <1>t, <2>1, <2>2, <2>3 DEF LoopType, Resume
  <2>5. EngineOk'
    BY Zenon, <1>t, <1>u, <2>1, Quiet
  <2> QED
    BY Zenon, <2>4, <2>5 DEF Inv
<1>4. CASE ProcessSubmit \/ ProcessCancel
  BY Zenon, <1>4, CommandStep
<1>5. CASE \E rep \in batch : Deliver(rep)
  BY Zenon, <1>5, DeliverStep
<1>6. CASE ReportsDone \/ PopTimers \/ TimersDone \/ NoMarket \/ LiquidationDone
  <2>1. batch = {} /\ UNCHANGED batch
    BY Zenon, <1>6, <1>u DEF ReportsDone, PopTimers, TimersDone, NoMarket, LiquidationDone
  <2>2. /\ UNCHANGED <<marketVars, engineVars, closeVars>>
        /\ UNCHANGED <<outbox, next_id, cmds>> /\ timers' \subseteq timers
    BY <1>6 DEF ReportsDone, PopTimers, TimersDone, NoMarket, LiquidationDone,
                strategyVars
  <2>3. pc' \in Resume \cup {"drain", "market", "cancels"} /\ ret' \in Resume
    BY Zenon, <1>6, <1>l DEF ReportsDone, PopTimers, TimersDone, NoMarket, LiquidationDone,
                Goto, ProcessOutboxThen, Resume
  <2>4. /\ UNCHANGED unsettled
        /\ open' \subseteq Coids /\ flatten' \subseteq Instruments
    BY <1>l, <2>2 DEF closeVars
  <2> QED
    BY Zenon, <2>1, <2>2, <2>3, <2>4, ControlStep
<1>7. CASE \E t \in fired : OnTimer(t)
  <2>1. ProcessOutboxThen("fire") /\ "fire" \in Resume
    BY Zenon, <1>7 DEF OnTimer, Resume
  <2>2. /\ Handler /\ pc # "reports"
        /\ UNCHANGED <<marketVars, engineVars, closeVars, batch, cmds>>
    BY Zenon, <1>7 DEF OnTimer
  <2> QED
    BY Zenon, <2>1, <2>2, HandlerStep
<1>8. CASE ProcessMarket
  BY Zenon, <1>8, MarketStep
<1>9. CASE \E i \in unsettled : SettleContract(i)
  <2> PICK i \in unsettled : SettleContract(i)
    BY Zenon, <1>9
  <2>1. ClosePosition(i, "settled") \/ LeavePosition("settled")
    BY Zenon DEF SettleContract
  <2>2. /\ UNCHANGED <<marketVars, venueVars, open, batch, cmds>>
        /\ unsettled' \subseteq unsettled /\ flatten' \subseteq flatten
        /\ pc = "settle"
    BY Zenon DEF SettleContract
  <2>3. "settled" \in Resume /\ pc \in Resume /\ pc # "reports" /\ i \in Instruments
    BY <2>2, <1>l DEF Resume
  <2> QED
    BY Zenon, <2>1, <2>2, <2>3, CloseStep
<1>10. CASE CollectOpen \/ ContractSettled \/ CheckLiquidation
  <2>1. batch = {} /\ UNCHANGED batch
    BY Zenon, <1>10, <1>u DEF CollectOpen, ContractSettled, CheckLiquidation
  <2>2. /\ UNCHANGED <<marketVars, engineVars>>
        /\ UNCHANGED <<outbox, next_id, cmds, unsettled>> /\ timers' \subseteq timers
    BY Zenon, <1>10 DEF CollectOpen, ContractSettled, CheckLiquidation, strategyVars
  <2>3. pc' \in Resume \cup {"drain", "market", "cancels"} /\ ret' \in Resume
    BY Zenon, <1>10, <1>l DEF CollectOpen, ContractSettled, CheckLiquidation, Goto, Resume
  <2>4. open' \subseteq Coids /\ flatten' \subseteq Instruments
    BY Zenon, <1>10, <1>l DEF CollectOpen, ContractSettled, CheckLiquidation
  <2> QED
    BY Zenon, <2>1, <2>2, <2>3, <2>4, ControlStep
<1>11. CASE \E c \in open : CancelOpen(c)
  BY Zenon, <1>11, CancelOpenStep
<1>12. CASE \E i \in flatten : Liquidate(i)
  <2> PICK i \in flatten : Liquidate(i)
    BY Zenon, <1>12
  <2>1. ClosePosition(i, "flatten") \/ LeavePosition("flatten")
    BY Zenon DEF Liquidate
  <2>2. /\ UNCHANGED <<marketVars, venueVars, open, batch, cmds>>
        /\ unsettled' \subseteq unsettled /\ flatten' \subseteq flatten
        /\ pc = "flatten"
    BY Zenon DEF Liquidate
  <2>3. "flatten" \in Resume /\ pc \in Resume /\ pc # "reports" /\ i \in Instruments
    BY Zenon, <2>2, <1>l DEF Resume
  <2> QED
    BY Zenon, <2>1, <2>2, <2>3, CloseStep
<1>13. CASE Done \/ UNCHANGED vars
  <2>1. /\ UNCHANGED <<engineVars, marketVars, closeVars, strategyVars>>
        /\ UNCHANGED <<batch, pc, ret, cmds>>
    BY <1>13 DEF Done, vars
  <2>2. LoopType'
    BY Zenon, <1>t, <2>1 DEF LoopType, marketVars, closeVars, strategyVars, cacheVars
  <2>3. UNCHANGED flowVars /\ positions' \in [Instruments -> Int]
    BY <1>t, <2>1 DEF engineVars, omsVars, venueVars, marketVars, flowVars, EngineOk,
                      EngineType
  <2>4. EngineOk'
    BY Zenon, <1>t, <2>1, <2>3, FlowUnchanged
  <2> QED
    BY Zenon, <2>2, <2>4 DEF Inv
<1> QED
  BY Zenon, <1>1, <1>2, <1>3, <1>4, <1>5, <1>6, <1>7, <1>8, <1>9, <1>10, <1>11, <1>12,
     <1>13 DEF Next, Step
----------------------------------------------------------------------------
\* Every run of the kernel keeps Inv.
LEMMA Invariance == Spec => []Inv
BY InitInv, StepInv, PTL DEF Spec

\* The types are kept: the event loop never caches, queues or rests anything
\* malformed, whatever commands the strategy sends.
THEOREM TypeCorrectness == Spec => []TypeOK
<1>1. Inv => TypeOK
  BY Zenon DEF Inv, EngineOk, TypeOK
<1> QED
  BY <1>1, Invariance, PTL

\* Orders, the book and the reports in flight fit together at every moment of
\* every run.
THEOREM OrderFlowInvariance == Spec => []OrderFlow
<1>1. Inv => OrderFlow
  BY Zenon DEF Inv, EngineOk
<1> QED
  BY <1>1, Invariance, PTL

\* The acceptance of a submitted order is always ahead of its fills and of its
\* cancellation, for any latencies with submission no slower than cancellation.
THEOREM AcceptanceComesFirst == Spec => []AcceptedFirst
<1>1. Inv => AcceptedFirst
  <2> SUFFICES ASSUME OrderFlow, NEW c \in Coids, orders[c] # None,
                      orders[c].status = "Submitted"
               PROVE  \E a \in InFlight :
                        /\ a.coid = c
                        /\ a.kind = "Accepted"
                        /\ \A x \in InFlight \ {a} : x.coid = c => Before(a, x)
    BY Zenon DEF Inv, EngineOk, AcceptedFirst
  <2>1. PICK a \in InFlight : a.coid = c /\ a.kind = "Accepted"
    BY Zenon DEF OrderFlow, OrderInv, OrderOk
  <2>2. ASSUME NEW x \in InFlight \ {a}, x.coid = c PROVE Before(a, x)
    BY Zenon, <2>1, <2>2 DEF OrderFlow, PairInv, PairOk
  <2> QED
    BY Zenon, <2>1, <2>2
<1> QED
  BY <1>1, Invariance, PTL

-----------------------------------------------------------------------------
\* The refinement: a step changes at most one order, and in one of three ways:
\* it is tracked, filled or moved to another status.

\* c is tracked for the first time.
Tracks(c) == orders[c] = None /\ orders'[c] # None /\ orders'[c].filled = 0

\* c takes a fill.
Fills(c) ==
  /\ orders[c] # None /\ orders'[c] # None
  /\ ~IsTerminal(orders[c])
  /\ orders'[c].inst = orders[c].inst /\ orders'[c].side = orders[c].side
  /\ orders'[c].quantity = orders[c].quantity
  /\ orders'[c].filled \in (orders[c].filled + 1)..orders[c].quantity
  /\ orders'[c].status \in {"Filled", "PartiallyFilled"}

\* c moves to another status.
Moves(c) ==
  /\ orders[c] # None /\ orders'[c] # None
  /\ ~IsTerminal(orders[c])
  /\ orders'[c].inst = orders[c].inst /\ orders'[c].side = orders[c].side
  /\ orders'[c].quantity = orders[c].quantity
  /\ orders'[c].filled = orders[c].filled

OnlyOrder(c) ==
  /\ \A d \in Coids \ {c} : orders'[d] = orders[d]
  /\ Tracks(c) \/ Fills(c) \/ Moves(c)

\* Submitting tracks a new order or does nothing.
LEMMA SubmitOrders ==
  ASSUME EngineOk, NEW o \in OrderType, NEW funded, Submit(o, funded)
  PROVE  orders' = orders \/ \E c \in Coids : OnlyOrder(c)
<1>1. CASE ~SubmitApplies(o)
  BY Zenon, <1>1 DEF Submit, engineVars, omsVars
<1>2. CASE SubmitApplies(o)
  <2> PICK c : c = o.coid
    OBVIOUS
  <2>1. PICK st \in {"Submitted", "Denied"} :
           orders' = [orders EXCEPT ![c] = Tracked(o, st)]
    BY Zenon, <1>2 DEF Submit
  <2>2. c \in Coids /\ orders \in [Coids -> TrackedType \cup {None}]
    BY Zenon DEF OrderType, EngineOk, EngineType
  <2> PICK t : t = Tracked(o, st)
    OBVIOUS
  <2>3. t # None /\ t.filled = 0
    <3>1. st \in OrderStatus
      BY Zenon DEF OrderStatus, OpenStatus, TerminalStatus
    <3>2. t \in TrackedType /\ t.filled = 0
      BY <3>1 DEF Tracked, TrackedType, OrderType
    <3> QED
      BY Zenon, <3>2, OrderAssumption
  <2>4. orders'[c] = t /\ \A d \in Coids \ {c} : orders'[d] = orders[d]
    BY Zenon, <2>1, <2>2
  <2> QED
    BY Zenon, <1>2, <2>2, <2>3, <2>4 DEF OnlyOrder, Tracks, SubmitApplies
<1> QED
  BY Zenon, <1>1, <1>2

\* Cancelling moves a working order to PendingCancel or does nothing.
LEMMA CancelOrders ==
  ASSUME EngineOk, NEW c \in Coids, Cancel(c)
  PROVE  orders' = orders \/ OnlyOrder(c)
<1>1. CASE ~CancelApplies(c)
  BY Zenon, <1>1 DEF Cancel
<1>2. CASE CancelApplies(c)
  <2> PICK t : t = ApplyStatus(orders[c], "PendingCancel")
    OBVIOUS
  <2>1. /\ orders[c] \in TrackedType /\ orders[c] # None
        /\ orders[c].status \in {"Accepted", "PartiallyFilled", "PendingUpdate"}
    BY Zenon, <1>2 DEF CancelApplies, CanApply, Allowed, EngineOk, EngineType
  <2>2. /\ t # None /\ t.quantity = orders[c].quantity /\ t.filled = orders[c].filled
        /\ t.inst = orders[c].inst /\ t.side = orders[c].side
    BY Zenon, <2>1, OrderAssumption DEF ApplyStatus, TrackedType, OrderStatus, OpenStatus
  <2>3. orders'[c] = t /\ \A d \in Coids \ {c} : orders'[d] = orders[d]
    BY Zenon, <1>2 DEF Cancel, EngineOk, EngineType
  <2>4. ~IsTerminal(orders[c])
    BY Zenon, <2>1 DEF IsTerminal, TerminalStatus
  <2> QED
    BY Zenon, <2>1, <2>2, <2>3, <2>4 DEF OnlyOrder, Moves
<1> QED
  BY Zenon, <1>1, <1>2

\* A delivered report fills or moves its order, unless it is a fill that meets
\* a pending cancel.
LEMMA ReportOrders ==
  ASSUME EngineOk, NEW rep \in batch, \A x \in batch \ {rep} : Before(rep, x),
         ApplyReport(rep)
  PROVE  /\ \/ orders' = orders
            \/ \E c \in Coids : OnlyOrder(c)
         /\ rep.kind = "Fill" /\ orders'[rep.coid] = orders[rep.coid] =>
              orders[rep.coid].status = "PendingCancel"
<1> PICK c : c = rep.coid
  OBVIOUS
<1>1. /\ c \in Coids /\ \A d \in Coids \ {c} : orders'[d] = orders[d]
      /\ orders[c] \in TrackedType /\ orders[c] # None /\ orders'[c] # None
      /\ orders'[c].quantity = orders[c].quantity
      /\ orders'[c].inst = orders[c].inst /\ orders'[c].side = orders[c].side
  <2>1. /\ c \in Coids /\ \A d \in Coids \ {c} : orders'[d] = orders[d]
        /\ orders'[c] # None /\ orders'[c].quantity = orders[c].quantity
        /\ orders'[c].inst = orders[c].inst /\ orders'[c].side = orders[c].side
    BY Zenon, ReportEffect
  <2>2. orders[c] \in TrackedType
    BY Zenon, FirstReport
  <2>3. orders[c] # None
    BY Zenon, <2>2, OrderAssumption
  <2> QED
    BY Zenon, <2>1, <2>2, <2>3
<1>2. ~IsTerminal(orders[c])
  BY Zenon, FirstReport DEF IsTerminal, TerminalStatus
<1>3. CASE rep.kind # "Fill"
  <2>1. orders'[c].filled = orders[c].filled
    BY Zenon, <1>3, ReportEffect
  <2> QED
    BY Zenon, <1>1, <1>2, <1>3, <2>1 DEF OnlyOrder, Moves
<1>4. CASE rep.kind = "Fill"
  <2>1. CASE orders'[c] = orders[c]
    <3>1. orders[c].status = "PendingCancel"
      <4>1. rep.qty \in Nat \ {0} /\ orders[c].filled \in Nat
        BY Zenon, <1>1, <1>4, FirstReport DEF ReportType, FillType, StatusReportType, TrackedType
      <4>2. orders[c].filled # orders[c].filled + rep.qty
        BY <4>1
      <4> QED
        BY ZenonT(40), <1>4, <2>1, <4>2, ReportEffect
    <3>2. OnlyOrder(c)
      BY Zenon, <1>1, <1>2, <2>1 DEF OnlyOrder, Moves
    <3> QED
      BY Zenon, <1>1, <3>1, <3>2
  <2>2. CASE orders'[c] # orders[c]
    <3>1. orders'[c].filled = orders[c].filled + rep.qty
      BY Zenon, <1>4, <2>2, ReportEffect
    <3>2. FillOk(rep) /\ rep.qty \in Nat \ {0} /\ rep.cum \in Nat
      BY Zenon, <1>4, FirstReport DEF ReportOk, ReportType, FillType, StatusReportType
    <3>3. orders'[c].filled \in (orders[c].filled + 1)..orders[c].quantity
      <4>1. PICK w, Q \in Nat : w = orders[c].filled /\ Q = orders[c].quantity
        BY Zenon, <1>1 DEF TrackedType
      <4>2. w + rep.qty <= rep.cum /\ rep.cum <= Q
        BY Zenon, <3>2, <4>1 DEF FillOk
      <4>3. w + rep.qty \in (w + 1)..Q
        BY <3>2, <4>2
      <4> QED
        BY Zenon, <3>1, <4>1, <4>3
    <3>4. orders'[c].status \in {"Filled", "PartiallyFilled"}
      BY Zenon, <1>4, <2>2, ReportEffect
    <3> QED
      BY Zenon, <1>1, <1>2, <2>2, <3>3, <3>4 DEF OnlyOrder, Fills
  <2> QED
    BY Zenon, <2>1, <2>2
<1> QED
  BY Zenon, <1>3, <1>4

\* Every step leaves the cached orders alone or changes exactly one of them.
LEMMA StepOrders ==
  ASSUME Inv, [Next]_vars
  PROVE  /\ orders' = orders \/ \E c \in Coids : OnlyOrder(c)
         /\ \A f \in batch \ batch' :
              f.kind = "Fill" /\ orders'[f.coid] = orders[f.coid] =>
                orders[f.coid].status = "PendingCancel"
<1>t. EngineOk /\ LoopType
  BY Zenon DEF Inv
<1>1. CASE ProcessSubmit
  <2>1. pc = "outbox" /\ cmds # <<>> /\ cmds \in Seq(CommandType) /\ batch' = batch
    BY Zenon, <1>t, <1>1 DEF ProcessSubmit, AfterCommand, LoopType
  <2> PICK o : o = Head(cmds).order
    OBVIOUS
  <2>2. o \in OrderType
    <3>1. Head(cmds) \in CommandType
      BY Zenon, <2>1, QueueFacts
    <3> QED
      BY Zenon, <1>1, <3>1 DEF ProcessSubmit, CommandType
  <2>3. PICK funded \in BOOLEAN : Submit(o, funded)
    BY Zenon, <1>1 DEF ProcessSubmit
  <2> QED
    BY Zenon, <1>t, <2>1, <2>2, <2>3, SubmitOrders
<1>2. CASE ProcessCancel
  <2>1. pc = "outbox" /\ cmds # <<>> /\ cmds \in Seq(CommandType) /\ batch' = batch
    BY Zenon, <1>t, <1>2 DEF ProcessCancel, AfterCommand, LoopType
  <2> PICK c : c = Head(cmds).coid
    OBVIOUS
  <2>2. c \in Coids
    <3>1. Head(cmds) \in CommandType
      BY Zenon, <2>1, QueueFacts
    <3> QED
      BY Zenon, <1>2, <3>1 DEF ProcessCancel, CommandType
  <2> QED
    BY Zenon, <1>t, <1>2, <2>1, <2>2, CancelOrders DEF ProcessCancel
<1>3. CASE \E c \in open : CancelOpen(c)
  <2> PICK c \in open : CancelOpen(c)
    BY Zenon, <1>3
  <2>1. c \in Coids /\ Cancel(c) /\ batch' = batch
    BY Zenon, <1>t DEF CancelOpen, LoopType
  <2> QED
    BY Zenon, <1>t, <2>1, CancelOrders
<1>4. CASE \E rep \in batch : Deliver(rep)
  <2> PICK rep \in batch : Deliver(rep)
    BY Zenon, <1>4
  <2>1. /\ \A x \in batch \ {rep} : Before(rep, x)
        /\ ApplyReport(rep) /\ batch' = batch \ {rep}
    BY Zenon DEF Deliver
  <2>2. \A f \in batch \ batch' : f = rep
    BY Zenon, <2>1
  <2> QED
    BY Zenon, <1>t, <2>1, <2>2, ReportOrders
<1>5. CASE Advance
  <2>1. batch = {}
    BY Zenon, <1>t, <1>5, BatchEmpty DEF Advance
  <2> QED
    BY Zenon, <1>5, <2>1 DEF Advance, omsVars
<1>6. CASE OnStart \/ OnStop \/ DispatchMarket \/ DrainOutbox \/ ReportsDone \/ PopTimers
  <2>1. UNCHANGED <<engineVars, batch>>
    BY Zenon, <1>6 DEF OnStart, OnStop, DispatchMarket, DrainOutbox, ReportsDone, PopTimers
  <2> QED
    BY Zenon, <2>1 DEF engineVars, omsVars
<1>7. CASE TimersDone \/ NoMarket \/ LiquidationDone \/ CollectOpen \/ ContractSettled
           \/ CheckLiquidation \/ Done \/ UNCHANGED vars
  <2>1. UNCHANGED <<engineVars, batch>>
    BY Zenon, <1>7 DEF TimersDone, NoMarket, LiquidationDone, CollectOpen, ContractSettled,
       CheckLiquidation, Done, vars
  <2> QED
    BY Zenon, <2>1 DEF engineVars, omsVars
<1>8. CASE ProcessMarket \/ (\E t \in fired : OnTimer(t))
  <2>1. UNCHANGED <<omsVars, batch>>
    BY Zenon, <1>8 DEF ProcessMarket, OnTimer, engineVars
  <2> QED
    BY Zenon, <2>1 DEF omsVars
<1>9. CASE (\E i \in unsettled : SettleContract(i)) \/ (\E i \in flatten : Liquidate(i))
  BY Zenon, <1>9
     DEF SettleContract, Liquidate, ClosePosition, LeavePosition, omsVars
<1> QED
  BY Zenon, <1>1, <1>2, <1>3, <1>4, <1>5, <1>6, <1>7, <1>8, <1>9 DEF Next, Step

----------------------------------------------------------------------------
\* A function changed at one point to the value it has there is not changed.
LEMMA SameAt ==
  ASSUME NEW S, NEW c \in S, NEW f, NEW g, f = [d \in S |-> f[d]],
         g = [f EXCEPT ![c] = g[c]], g[c] = f[c]
  PROVE  g = f
BY Zenon

\* A change of one order is a step of its life.
LEMMA LifecycleStep ==
  ASSUME Inv, Inv', NEW c \in Coids, OnlyOrder(c)
  PROVE  [Lifecycle!Next]_(Lifecycle!vars)
<1> DEFINE phase == [d \in Coids |-> PhaseOf(d)]
           quantity == [d \in Coids |-> IF orders[d] = None THEN 0 ELSE orders[d].quantity]
           filled == [d \in Coids |-> IF orders[d] = None THEN 0 ELSE orders[d].filled]
<1> PICK p : p = phase'[c]
  OBVIOUS
<1>1. /\ orders \in [Coids -> TrackedType \cup {None}]
      /\ orders' \in [Coids -> TrackedType \cup {None}]
      /\ \A d \in Coids \ {c} : orders'[d] = orders[d]
  BY Zenon DEF Inv, EngineOk, EngineType, OnlyOrder
<1>2. /\ phase' = [phase EXCEPT ![c] = phase'[c]]
      /\ quantity' = [quantity EXCEPT ![c] = quantity'[c]]
      /\ filled' = [filled EXCEPT ![c] = filled'[c]]
  BY Zenon, <1>1 DEF PhaseOf
<1>3. orders'[c] # None
  BY Zenon DEF OnlyOrder, Tracks, Fills, Moves
<1>4. /\ OrderOk(c)'
      /\ orders'[c] \in TrackedType
      /\ phase'[c] = IF IsTerminal(orders'[c]) THEN "closed" ELSE "working"
      /\ quantity'[c] = orders'[c].quantity /\ filled'[c] = orders'[c].filled
  BY Zenon, <1>1, <1>3 DEF Inv, EngineOk, OrderFlow, OrderInv, PhaseOf
<1>5. CASE Tracks(c)
  <2>1. phase[c] = "absent" /\ filled'[c] = filled[c]
    BY Zenon, <1>4, <1>5 DEF Tracks, PhaseOf
  <2>2. filled' = filled
    BY Zenon, <1>2, <2>1, SameAt
  <2>3. quantity'[c] \in Nat \ {0}
    BY Zenon, <1>4 DEF TrackedType
  <2>4. Lifecycle!Track(c)
    BY Zenon, <1>2, <1>4, <2>1, <2>2, <2>3 DEF Lifecycle!Track
  <2> QED
    BY Zenon, <2>4 DEF Lifecycle!Next
<1>6. ASSUME Fills(c) \/ Moves(c)
      PROVE  /\ phase[c] = "working" /\ orders[c] # None
             /\ quantity[c] = orders[c].quantity /\ filled[c] = orders[c].filled
             /\ quantity' = quantity
             /\ OrderOk(c) /\ orders[c] \in TrackedType
  <2>1. orders[c] # None /\ orders'[c].quantity = orders[c].quantity
        /\ ~IsTerminal(orders[c])
    BY Zenon, <1>6 DEF Fills, Moves
  <2>2. quantity'[c] = quantity[c]
    BY Zenon, <1>4, <2>1
  <2>3. quantity' = quantity
    BY Zenon, <1>2, <2>2, SameAt
  <2>4. OrderOk(c)
    BY Zenon, <2>1 DEF Inv, EngineOk, OrderFlow, OrderInv
  <2> QED
    BY Zenon, <1>1, <2>1, <2>3, <2>4 DEF PhaseOf
<1>7. CASE Fills(c)
  <2>1. filled'[c] \in (filled[c] + 1)..quantity[c]
    BY Zenon, <1>4, <1>6, <1>7 DEF Fills
  <2>2. orders'[c].filled = orders[c].quantity <=> IsTerminal(orders'[c])
    BY Zenon, <1>4, <1>6, <1>7 DEF Fills, OrderOk, IsTerminal, TerminalStatus
  <2>3. phase'[c] = IF filled'[c] = quantity[c] THEN "closed" ELSE "working"
    BY Zenon, <1>4, <1>6, <1>7, <2>2
  <2>4. Lifecycle!Fill(c)
    BY Zenon, <1>2, <1>6, <1>7, <2>1, <2>3 DEF Lifecycle!Fill
  <2> QED
    BY Zenon, <2>4 DEF Lifecycle!Next
<1>8. CASE Moves(c)
  <2>1. filled'[c] = filled[c]
    BY Zenon, <1>4, <1>6, <1>8 DEF Moves
  <2>2. filled' = filled
    BY Zenon, <1>2, <2>1, SameAt
  <2>3. filled[c] < quantity[c]
    <3>1. PICK w, Q \in Nat : w = orders[c].filled /\ Q = orders[c].quantity
      BY Zenon, <1>6, <1>8 DEF TrackedType
    <3>2. orders[c].status # "Filled"
      BY Zenon, <1>8 DEF Moves, IsTerminal, TerminalStatus
    <3>3. w <= Q /\ w # Q
      BY Zenon, <1>6, <1>8, <3>1, <3>2 DEF OrderOk
    <3>4. w < Q
      BY <3>3
    <3> QED
      BY Zenon, <1>6, <1>8, <3>1, <3>4
  <2>4. CASE phase'[c] = "working"
    <3>0. phase'[c] = phase[c]
      BY Zenon, <1>6, <1>8, <2>4
    <3>1. phase' = phase
      BY Zenon, <1>2, <3>0, SameAt
    <3> QED
      BY Zenon, <1>6, <1>8, <2>2, <3>1 DEF Lifecycle!vars
  <2>5. CASE phase'[c] = "closed"
    <3>1. Lifecycle!Close(c)
      BY Zenon, <1>2, <1>6, <1>8, <2>2, <2>3, <2>5 DEF Lifecycle!Close
    <3> QED
      BY Zenon, <3>1 DEF Lifecycle!Next
  <2> QED
    BY Zenon, <1>4, <2>4, <2>5
<1> QED
  BY Zenon, <1>5, <1>7, <1>8 DEF OnlyOrder

\* A fill that the venue executed is applied to its order unless a cancel of
\* the order is pending.
THEOREM OnlyCancelLosesFills == Spec => FillLostOnlyToCancel
<1>1. Inv /\ [Next]_vars =>
        [\A f \in batch \ batch' :
           f.kind = "Fill" /\ orders'[f.coid] = orders[f.coid] =>
             orders[f.coid].status = "PendingCancel"]_vars
  BY Zenon, StepOrders
<1> QED
  BY <1>1, Invariance, PTL DEF Spec, FillLostOnlyToCancel

\* The kernel implements the abstract life of orders.
THEOREM OrdersRefineLifecycle == Spec => OrdersLiveOnce
<1>1. Init => Lifecycle!Init
  BY Zenon DEF Init, EngineInit, OmsInit, Lifecycle!Init, PhaseOf
<1>2. Inv /\ Inv' /\ [Next]_vars => [Lifecycle!Next]_(Lifecycle!vars)
  <2> SUFFICES ASSUME Inv, Inv', [Next]_vars PROVE [Lifecycle!Next]_(Lifecycle!vars)
    OBVIOUS
  <2>1. CASE orders' = orders
    BY Zenon, <2>1 DEF Lifecycle!vars, PhaseOf
  <2>2. CASE \E c \in Coids : OnlyOrder(c)
    BY Zenon, <2>2, LifecycleStep
  <2> QED
    BY Zenon, <2>1, <2>2, StepOrders
<1> QED
  BY <1>1, <1>2, Invariance, PTL DEF Spec, OrdersLiveOnce, Lifecycle!Spec
=============================================================================

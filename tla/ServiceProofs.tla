---------------------------- MODULE ServiceProofs ----------------------------
(***************************************************************************)
(* What the execution service keeps for any number of ids, commands,       *)
(* retries, crashes, errors of the cursor and venue moves: no command is   *)
(* handled twice, a minted id other than the first is new, an order is     *)
(* logged before the venue can have it, the kill switch lets at most one   *)
(* order through, and the log knows the open orders of the venue that      *)
(* neither traded nor were refused, up to reports that were lost.          *)
(***************************************************************************)
EXTENDS ExecService, FiniteSetTheorems, TLAPS

-----------------------------------------------------------------------------
\* The command loop.

\* What was handled lies behind the place of the loop in its stream, and a
\* batch does not reach beyond the stream; "$" is beyond every command.
LoopInv ==
  /\ cmds \in Seq(Commands)
  /\ Len(cmds) <= MaxCommands
  /\ loop \in Consumers
  /\ handled \subseteq 1..Len(cmds)
  /\ loop.at = "blocked" =>
       /\ handled \subseteq 1..loop.upto
       /\ loop.upto <= Len(cmds)
       /\ loop.last \in {loop.upto, Dollar}
  /\ loop.at = "batch" =>
       /\ handled \subseteq 1..loop.last
       /\ loop.last <= loop.upto
       /\ loop.upto <= Len(cmds) \/ loop.last = Dollar

\* Only five actions touch the stream, the loop or what was handled.
LEMMA LoopSteps ==
  ASSUME [Next]_vars
  PROVE  \/ Poll \/ Deliver \/ HandleNext \/ Crash
         \/ \E cmd \in Commands : SendCommand(cmd)
         \/ UNCHANGED <<cmds, loop, handled>>
<1>1. CASE UNCHANGED vars
  BY Zenon, <1>1 DEF vars
<1>2. CASE Boot
  BY Zenon, <1>2 DEF Boot, Start, FallBack, Connect, List, Seed, PublishSeed, Run
<1>3. CASE Consume
  BY Zenon, <1>3 DEF Consume, ControlMessage, ControlRequest
<1>4. CASE HandlerStep
  BY Zenon, <1>4 DEF HandlerStep, Mint, MintFirst, Gate, PaperAccept, Posted, Strike,
              Deleted, Publish, Post, Delete, handlerRest
<1>5. CASE Pump
  BY Zenon, <1>5 DEF Pump, pumpRest
<1>6. CASE Outside
  BY Zenon, <1>6 DEF Outside, VenueMove, Reconnect, Disconnect, outsideRest
<1>7. QED
  BY Zenon, <1>1, <1>2, <1>3, <1>4, <1>5, <1>6 DEF Next

\* The id "$", where a new consumer starts, lies beyond every command.
LEMMA AtTheEnd ==
  /\ MaxCommands \in Nat
  /\ Dollar \in Nat
  /\ Dollar > MaxCommands
  /\ NewConsumer \in Consumers
  /\ NewConsumer = [at |-> "batch", last |-> Dollar, upto |-> Dollar]
<1>1. MaxCommands \in Nat
  BY Zenon, ServiceAssumption
<1>2. QED
  BY <1>1 DEF Dollar, NewConsumer, Consumers

\* Every step preserves LoopInv: reading, skipping, an error of Redis, a crash.
LEMMA LoopInductive ==
  ASSUME LoopInv, [Next]_vars
  PROVE  LoopInv'
<1> USE AtTheEnd
<1>0. /\ Len(cmds) \in Nat
      /\ loop.last \in 0..Dollar /\ loop.upto \in 0..Dollar
      /\ loop.at \in {"blocked", "batch"}
      /\ loop = [at |-> loop.at, last |-> loop.last, upto |-> loop.upto]
  BY DEF LoopInv, Consumers
<1>1. CASE UNCHANGED <<cmds, loop, handled>>
  BY Zenon, <1>1 DEF LoopInv
<1>2. CASE Poll
  <2>1. loop' = [at |-> "blocked", last |-> loop.last,
                 upto |-> IF loop.last = Dollar THEN Len(cmds) ELSE loop.last]
    BY Zenon, <1>0, <1>2 DEF Poll, Polled
  <2>2. UNCHANGED <<cmds, handled>> /\ loop.at = "batch" /\ loop.last = loop.upto
    BY Zenon, <1>2 DEF Poll
  <2>3. QED
    BY <1>0, <2>1, <2>2 DEF LoopInv, Consumers
<1>3. CASE Deliver
  <2>1. UNCHANGED <<cmds, handled>> /\ loop.at = "blocked"
    BY Zenon, <1>3 DEF Deliver
  <2>2. CASE loop' = NewConsumer
    BY <1>0, <2>1, <2>2 DEF LoopInv
  <2>3. CASE loop' = Delivered(loop)
    <3>1. CASE Len(cmds) > loop.upto
      <4>1. loop' = [at |-> "batch", last |-> loop.upto, upto |-> Len(cmds)]
        BY Zenon, <2>3, <3>1 DEF Delivered
      <4>2. QED
        BY <1>0, <2>1, <4>1 DEF LoopInv, Consumers
    <3>2. CASE ~(Len(cmds) > loop.upto)
      <4>1. loop' = [at |-> "batch", last |-> loop.last, upto |-> loop.last]
        <5>1. loop' = [loop EXCEPT !.at = "batch", !.upto = loop.last]
          BY Zenon, <2>3, <3>2 DEF Delivered
        <5>2. QED
          BY Zenon, <1>0, <5>1
      <4>2. handled \subseteq 1..loop.last
        BY <1>0, <2>1 DEF LoopInv
      <4>3. QED
        BY <1>0, <2>1, <4>1, <4>2 DEF LoopInv, Consumers
    <3>3. QED
      BY Zenon, <3>1, <3>2
  <2>4. QED
    BY Zenon, <1>3, <2>2, <2>3 DEF Deliver
<1>4. CASE HandleNext
  <2>1. loop' = [at |-> "batch", last |-> loop.last + 1, upto |-> loop.upto]
    BY Zenon, <1>0, <1>4 DEF HandleNext
  <2>2. UNCHANGED cmds /\ handled' = handled \cup {loop.last + 1}
    BY Zenon, <1>4 DEF HandleNext
  <2>3. loop.at = "batch" /\ loop.last < loop.upto /\ loop.upto <= Len(cmds)
    BY <1>0, <1>4 DEF HandleNext, LoopInv
  <2>4. loop' \in Consumers
    BY <1>0, <2>1, <2>3 DEF Consumers
  <2>5. handled \subseteq 1..loop.last
    BY Zenon, <2>3 DEF LoopInv
  <2>6. handled' \subseteq 1..(loop.last + 1)
    BY <1>0, <2>2, <2>5
  <2>7. handled' \subseteq 1..Len(cmds)
    BY <1>0, <2>3, <2>6
  <2>8. QED
    BY <1>0, <2>1, <2>2, <2>3, <2>4, <2>6, <2>7 DEF LoopInv
<1>5. CASE Crash
  <2>1. UNCHANGED <<cmds, handled>> /\ loop' = NewConsumer
    BY Zenon, <1>5 DEF Crash
  <2>2. QED
    BY <1>0, <2>1 DEF LoopInv
<1>6. ASSUME NEW cmd \in Commands, SendCommand(cmd) PROVE LoopInv'
  <2>1. /\ UNCHANGED <<loop, handled>>
        /\ cmds' = Append(cmds, cmd) /\ Len(cmds) < MaxCommands
    BY Zenon, <1>6 DEF SendCommand, outsideRest
  <2>2. cmds' \in Seq(Commands) /\ Len(cmds') = Len(cmds) + 1
    BY <2>1 DEF LoopInv
  <2>3. QED
    BY <1>0, <2>1, <2>2 DEF LoopInv
<1>7. QED
  BY Zenon, <1>1, <1>2, <1>3, <1>4, <1>5, <1>6, LoopSteps

\* LoopInv holds in every reachable state.
LEMMA LoopInvariance == Spec => []LoopInv
<1>1. Init => LoopInv
  BY AtTheEnd DEF Init, LoopInv
<1>2. LoopInv /\ [Next]_vars => LoopInv'
  BY Zenon, LoopInductive
<1>3. QED
  BY <1>1, <1>2, PTL DEF Spec

\* An idle handler starts only in HandleNext.
LEMMA HandlingBegins ==
  ASSUME [Next]_vars, handler = Idle, handler' # Idle
  PROVE  HandleNext
<1>0. handler.at = "idle"
  BY Zenon DEF Idle
<1>1. CASE UNCHANGED vars
  BY Zenon, <1>1 DEF vars
<1>2. CASE Boot
  BY Zenon, <1>2 DEF Boot, Start, FallBack, Connect, List, Seed, PublishSeed, Run
<1>3. CASE Consume
  BY Zenon, <1>3 DEF Consume, Poll, Deliver, ControlMessage, ControlRequest
<1>4. CASE HandlerStep
  BY Zenon, <1>0, <1>4 DEF HandlerStep, Mint, MintFirst, Gate, PaperAccept, Posted,
                    Strike, Deleted, Publish, Post, Delete
<1>5. CASE Pump
  BY Zenon, <1>5 DEF Pump, pumpRest
<1>6. CASE Outside
  BY Zenon, <1>6 DEF Outside, SendCommand, VenueMove, Reconnect, Disconnect, outsideRest
<1>7. CASE Crash
  BY Zenon, <1>7 DEF Crash
<1>8. QED
  BY Zenon, <1>1, <1>2, <1>3, <1>4, <1>5, <1>6, <1>7 DEF Next

\* No command of coinext.exec.cmd is handled twice, over any number of restarts
\* and Redis errors: redis_cmd_loop moves last_id before it handles a command
\* and begins a new life behind the end of the stream.
THEOREM NoCommandTwice == Spec => HandledAtMostOnce
<1>1. ASSUME LoopInv, [Next]_vars, handler = Idle, handler' # Idle
      PROVE  loop'.last \notin handled
  <2>1. HandleNext
    BY Zenon, <1>1, HandlingBegins
  <2>2. loop.at = "batch" /\ loop'.last = loop.last + 1 /\ loop.last \in Nat
    BY <1>1, <2>1, AtTheEnd DEF HandleNext, LoopInv, Consumers
  <2>3. handled \subseteq 1..loop.last
    BY Zenon, <1>1, <2>2 DEF LoopInv
  <2>4. QED
    BY <2>2, <2>3
<1>2. LoopInv /\ [Next]_vars
        => [handler = Idle /\ handler' # Idle => loop'.last \notin handled]_vars
  BY Zenon, <1>1
<1>3. QED
  BY <1>2, LoopInvariance, PTL DEF Spec, HandledAtMostOnce

-----------------------------------------------------------------------------
\* The log, the venue and the handler.

Acting == {"gate", "accept", "post", "posted", "strike", "delete", "deleted"}

ReportType == [order : Orders, kind : Kinds]

\* The types the arguments below rest on; a handler at work has an id.
FlowType ==
  /\ log \in [Orders -> Seq(Entries)]
  /\ cursor \in Nat
  /\ cursor_failed \in BOOLEAN
  /\ exchange \in [Orders -> {"none", "open", "done"}]
  /\ reports \in Seq(ReportType)
  /\ handler \in Handlers
  /\ handler.at \in Acting => handler.id \in Orders

EventsOf(l, o) == {l[o][k].event : k \in DOMAIN l[o]}
ReportOrders == {reports[k].order : k \in DOMAIN reports}

\* An id is not the service's, or the cursor c has passed it, or it is the first
\* one and the cursor has failed.
Minted(id, c, failed) == id \in 1..MaxMinted => id <= c \/ (id = 1 /\ failed)

\* An order that may have been sent or submitted.
Used(o) == Minted(o, cursor, cursor_failed)

\* The log holds Submitted before the handler posts, hence before the venue has
\* the order; and whatever the log, the venue, the reports or the handler know
\* of an order, its id is used.
IdInv ==
  /\ LoggedBeforeSent
  /\ handler.at = "post" => "Submitted" \in Logged(handler.id)
  /\ handler.at \in {"gate", "accept", "post", "posted"} => Used(handler.id)
  /\ \A o \in Orders :
       exchange[o] # "none" \/ "Submitted" \in Logged(o) \/ o \in ReportOrders
         => Used(o)

\* Once the switch is engaged only the handler that is past the gate can send,
\* and after the venue took its order a retry is refused.
KillInv ==
  kill => /\ late \in {0, 1}
          /\ late = 1 /\ handler.at = "post" => exchange[handler.id] # "none"

FlowInv == FlowType /\ IdInv /\ KillInv

\* append adds its event to its order, and changes nothing else.
LEMMA AppendedEvents ==
  ASSUME NEW l \in [Orders -> Seq(Entries)], NEW s \in Strategies,
         NEW o \in Orders, NEW e \in Events
  PROVE  /\ Appended(l, s, o, e) \in [Orders -> Seq(Entries)]
         /\ EventsOf(Appended(l, s, o, e), o) = EventsOf(l, o) \cup {e}
         /\ \A p \in Orders \ {o} : EventsOf(Appended(l, s, o, e), p) = EventsOf(l, p)
<1> DEFINE entry == [strategy |-> s, event |-> e]
           m == Appended(l, s, o, e)
<1>1. entry \in Entries /\ entry.event = e
  BY Zenon DEF Entries
<1>2. l[o] \in Seq(Entries)
  BY Zenon
<1> HIDE DEF entry
<1>3. Append(l[o], entry) \in Seq(Entries)
  BY <1>1, <1>2
<1>4. m = [l EXCEPT ![o] = Append(l[o], entry)]
  BY Zenon DEF Appended, entry
<1>5. m[o] = Append(l[o], entry) /\ \A p \in Orders \ {o} : m[p] = l[p]
  BY Zenon, <1>4
<1>6. m \in [Orders -> Seq(Entries)]
  BY Zenon, <1>3, <1>4
<1> HIDE DEF m
<1>7. /\ DOMAIN m[o] = 1..(Len(l[o]) + 1) /\ DOMAIN l[o] = 1..Len(l[o])
      /\ Len(l[o]) \in Nat
      /\ m[o][Len(l[o]) + 1] = entry
      /\ \A k \in 1..Len(l[o]) : m[o][k] = l[o][k]
  BY <1>1, <1>2, <1>5
<1>8. EventsOf(m, o) = EventsOf(l, o) \cup {e}
  <2>1. EventsOf(m, o) \subseteq EventsOf(l, o) \cup {e}
    <3>1. ASSUME NEW k \in DOMAIN m[o] PROVE m[o][k].event \in EventsOf(l, o) \cup {e}
      BY <1>1, <1>7 DEF EventsOf
    <3>2. QED
      BY Zenon, <3>1 DEF EventsOf
  <2>2. e \in EventsOf(m, o)
    <3>1. Len(l[o]) + 1 \in DOMAIN m[o] /\ m[o][Len(l[o]) + 1].event = e
      BY <1>1, <1>7
    <3>2. QED
      BY Zenon, <3>1 DEF EventsOf
  <2>3. EventsOf(l, o) \subseteq EventsOf(m, o)
    <3>1. ASSUME NEW k \in DOMAIN l[o] PROVE l[o][k].event \in EventsOf(m, o)
      BY <1>7 DEF EventsOf
    <3>2. QED
      BY Zenon, <3>1 DEF EventsOf
  <2>4. QED
    BY Zenon, <2>1, <2>2, <2>3
<1>9. QED
  BY Zenon, <1>5, <1>6, <1>8 DEF EventsOf, m

\* A report that the venue sends is of the order it moves.
LEMMA SendReports ==
  ASSUME reports \in Seq(ReportType), NEW o \in Orders,
         NEW x \in {"NEW", "TRADE", "CANCELED", "REJECTED", "EXPIRED"}, Send(o, x)
  PROVE  reports' \in Seq(ReportType) /\ ReportOrders' \subseteq ReportOrders \cup {o}
<1>1. Report(o, x) \in ReportType /\ Report(o, x).order = o
  BY Zenon DEF Report, ReportType, Kinds
<1>2. CASE ~socket
  BY Zenon, <1>2 DEF Send, ReportOrders
<1>3. CASE socket
  <2>1. reports' = Append(reports, Report(o, x))
    BY Zenon, <1>3 DEF Send
  <2>2. reports' \in Seq(ReportType)
    BY <1>1, <2>1
  <2>3. ASSUME NEW k \in DOMAIN reports' PROVE reports'[k].order \in ReportOrders \cup {o}
    BY <1>1, <2>1, <2>3 DEF ReportOrders
  <2>4. QED
    BY Zenon, <2>2, <2>3 DEF ReportOrders
<1>4. QED
  BY Zenon, <1>2, <1>3

\* How a step may change what IdInv speaks of.
LEMMA IdStep ==
  ASSUME IdInv, cursor \in Nat, cursor' \in Nat, cursor <= cursor',
         cursor_failed => cursor_failed',
         \A p \in Orders : "Submitted" \in Logged(p) => "Submitted" \in Logged(p)',
         \A p \in Orders : "Submitted" \in Logged(p)' =>
                            "Submitted" \in Logged(p) \/ Used(p),
         \A p \in Orders : exchange'[p] # "none" =>
            exchange[p] # "none" \/ p = ByHand \/ (handler.at = "post" /\ p = handler.id),
         \A p \in ReportOrders' : p \in ReportOrders \/ Used(p),
         handler'.at \in Acting => handler'.id \in Orders,
         handler'.at = "post" => \/ handler.at = "post" /\ handler'.id = handler.id
                                \/ "Submitted" \in Logged(handler.id)',
         handler'.at \in {"gate", "accept", "post", "posted"} =>
           Minted(handler'.id, cursor', cursor_failed')
  PROVE  IdInv'
<1>0. MaxMinted \in Nat /\ ByHand \notin 1..MaxMinted
  BY Zenon, ServiceAssumption
<1>1. ASSUME NEW p \in Orders, Used(p) PROVE Used(p)'
  BY <1>0, <1>1 DEF Used, Minted
<1>2. LoggedBeforeSent'
  BY Zenon DEF IdInv, LoggedBeforeSent
<1>3. handler'.at = "post" => "Submitted" \in Logged(handler.id)'
  BY Zenon DEF IdInv, Acting
<1>4. ASSUME NEW p \in Orders,
             exchange'[p] # "none" \/ "Submitted" \in Logged(p)' \/ p \in ReportOrders'
      PROVE  Used(p)'
  <2>1. CASE p = ByHand
    BY Zenon, <1>0, <2>1 DEF Used, Minted
  <2>2. CASE p # ByHand
    BY Zenon, <1>1, <1>4, <2>2 DEF IdInv
  <2>3. QED
    BY Zenon, <2>1, <2>2
<1>5. QED
  BY Zenon, <1>2, <1>3, <1>4 DEF IdInv, Used

\* A step that touches none of it, or only releases or engages the switch.
LEMMA QuietStep ==
  ASSUME FlowInv, UNCHANGED <<log, cursor, cursor_failed, exchange, reports, handler>>,
         \/ UNCHANGED <<kill, late>>
         \/ ~kill'
         \/ late' = IF kill THEN late ELSE 0
  PROVE  FlowInv'
<1>1. FlowType'
  BY Zenon DEF FlowInv, FlowType
<1>2. IdInv'
  BY Zenon DEF FlowInv, IdInv, LoggedBeforeSent, Logged, Used, ReportOrders
<1>3. KillInv'
  <2> SUFFICES ASSUME kill'
               PROVE  /\ late' \in {0, 1}
                      /\ late' = 1 /\ handler'.at = "post" => exchange'[handler'.id] # "none"
    BY Zenon DEF KillInv
  <2>1. late' = 0 \/ (kill /\ late' = late)
    BY Zenon
  <2>2. QED
    BY <2>1 DEF FlowInv, KillInv
<1>4. QED
  BY Zenon, <1>1, <1>2, <1>3 DEF FlowInv

\* A step that drops the reports, and may drop the handler.
LEMMA DropStep ==
  ASSUME FlowInv, UNCHANGED <<log, cursor, cursor_failed, exchange>>, reports' = <<>>,
         \/ UNCHANGED <<handler, kill, late>>
         \/ handler' = Idle /\ kill' = FALSE
  PROVE  FlowInv'
<1>0. Idle \in Handlers /\ Idle.at = "idle"
  <2>1. MaxRetries \in Nat
    BY Zenon, RestAssumption
  <2>2. QED
    BY <2>1 DEF Idle, Handlers, Replies
<1>1. FlowType'
  BY <1>0 DEF FlowInv, FlowType, Acting
<1>2. ReportOrders' = {}
  BY DEF ReportOrders
<1>3. IdInv'
  BY Zenon, <1>0, <1>2 DEF FlowInv, IdInv, LoggedBeforeSent, Logged, Used
<1>4. KillInv'
  BY Zenon DEF FlowInv, KillInv
<1>5. QED
  BY Zenon, <1>1, <1>3, <1>4 DEF FlowInv

\* The events logged for an order, in this state and in the next.
LEMMA LoggedIs == \A p : Logged(p) = EventsOf(log, p) /\ Logged(p)' = EventsOf(log', p)
BY Zenon DEF Logged, EventsOf

\* An append adds its event to its order, and to no other.
LEMMA LogGrows ==
  ASSUME log \in [Orders -> Seq(Entries)], NEW s \in Strategies, NEW o \in Orders,
         NEW e \in Events, log' = Appended(log, s, o, e)
  PROVE  /\ log' \in [Orders -> Seq(Entries)]
         /\ Logged(o)' = Logged(o) \cup {e}
         /\ \A p \in Orders \ {o} : Logged(p)' = Logged(p)
<1>1. /\ Appended(log, s, o, e) \in [Orders -> Seq(Entries)]
      /\ EventsOf(Appended(log, s, o, e), o) = EventsOf(log, o) \cup {e}
      /\ \A p \in Orders \ {o} : EventsOf(Appended(log, s, o, e), p) = EventsOf(log, p)
  BY AppendedEvents
<1>2. QED
  BY Zenon, <1>1, LoggedIs

\* A step that appends an event to the log of its order.
LEMMA LogStep ==
  ASSUME FlowInv, NEW s \in Strategies, NEW o \in Orders, NEW e \in Events,
         log' = Appended(log, s, o, e),
         UNCHANGED <<cursor, cursor_failed, exchange, kill, late>>,
         e = "Submitted" => Used(o),
         reports' \in Seq(ReportType), ReportOrders' \subseteq ReportOrders,
         handler' \in Handlers,
         handler'.at \in Acting => handler.at \in Acting /\ handler'.id = handler.id,
         handler'.at \in {"gate", "accept", "post", "posted"} =>
           handler.at \in {"gate", "accept", "post", "posted"},
         handler'.at = "post" =>
           \/ handler.at = "post"
           \/ o = handler.id /\ e = "Submitted" /\ ~kill
  PROVE  FlowInv'
<1>1. /\ log' \in [Orders -> Seq(Entries)]
      /\ Logged(o)' = Logged(o) \cup {e}
      /\ \A p \in Orders \ {o} : Logged(p)' = Logged(p)
  <2>1. log \in [Orders -> Seq(Entries)]
    BY Zenon DEF FlowInv, FlowType
  <2>2. QED
    BY Zenon, <2>1, LogGrows
<1>2. FlowType'
  BY Zenon, <1>1 DEF FlowInv, FlowType
<1>3. IdInv'
  <2>1. IdInv /\ FlowType
    BY Zenon DEF FlowInv
  <2>2. handler'.at \in {"gate", "accept", "post", "posted"} =>
          Minted(handler'.id, cursor', cursor_failed')
    BY Zenon, <2>1 DEF IdInv, Used, Acting
  <2>3. \A p \in Orders : "Submitted" \in Logged(p)' =>
                            "Submitted" \in Logged(p) \/ Used(p)
    <3>1. "Submitted" \in Logged(o)' => "Submitted" \in Logged(o) \/ Used(o)
      BY Zenon, <1>1
    <3> QED
      BY Zenon, <1>1, <3>1
  <2>4. \A p \in Orders : "Submitted" \in Logged(p) => "Submitted" \in Logged(p)'
    BY Zenon, <1>1
  <2>5. handler'.at = "post" => \/ handler.at = "post" /\ handler'.id = handler.id
                               \/ "Submitted" \in Logged(handler.id)'
    BY Zenon, <1>1 DEF Acting
  <2>6. cursor \in Nat /\ cursor' \in Nat /\ cursor <= cursor'
    BY <2>1 DEF FlowType
  <2>7. handler'.at \in Acting => handler'.id \in Orders
    BY Zenon, <2>1 DEF FlowType
  <2>8. QED
    BY Zenon, <2>1, <2>2, <2>3, <2>4, <2>5, <2>6, <2>7, IdStep
<1>4. KillInv'
  BY Zenon DEF FlowInv, KillInv, Acting
<1>5. QED
  BY Zenon, <1>2, <1>3, <1>4 DEF FlowInv

Steps == {"idle", "mint", "gate", "accept", "post", "posted", "strike", "delete",
          "deleted", "publish"}

\* The handler moves on with the same id.
LEMMA GotoStep ==
  ASSUME handler \in Handlers, NEW at \in Steps, Goto(at)
  PROVE  handler' \in Handlers /\ handler'.at = at /\ handler'.id = handler.id
BY Zenon DEF Handlers, Goto, Steps

\* A handler that is done with the venue and the log.
LEMMA RestStep ==
  ASSUME FlowInv, UNCHANGED <<log, cursor, cursor_failed, exchange, reports, kill, late>>,
         handler' \in Handlers, handler'.at \in {"idle", "publish"}
  PROVE  FlowInv'
<1>1. FlowType'
  BY Zenon DEF FlowInv, FlowType, Acting
<1>2. IdInv'
  BY Zenon DEF FlowInv, IdInv, LoggedBeforeSent, Logged, Used, ReportOrders
<1>3. KillInv'
  BY Zenon DEF FlowInv, KillInv
<1>4. QED
  BY Zenon, <1>1, <1>2, <1>3 DEF FlowInv

\* What the assumptions say about names and bounds.
LEMMA Names ==
  /\ "strategy" \in Strategies /\ "venue" \in Strategies /\ "reconcile" \in Strategies
  /\ MaxMinted \in Nat \ {0} /\ 1..MaxMinted \subseteq Orders
  /\ ByHand \in Orders /\ ByHand \notin 1..MaxMinted
  /\ MaxRetries \in Nat
BY Zenon, ServiceAssumption, RestAssumption

\* The check of the kill switch preserves FlowInv.
LEMMA GateStep ==
  ASSUME FlowInv, Gate
  PROVE  FlowInv'
<1>0. /\ FlowType /\ handler \in Handlers /\ handler.at = "gate"
      /\ handler.id \in Orders /\ Used(handler.id)
  BY Zenon DEF Gate, FlowInv, FlowType, IdInv, Acting
<1>1. UNCHANGED <<cursor, cursor_failed, exchange, reports, kill, late>>
  BY Zenon DEF Gate, venueVars, handlerRest
<1>2. reports' \in Seq(ReportType) /\ ReportOrders' \subseteq ReportOrders
  BY Zenon, <1>0, <1>1 DEF FlowType, ReportOrders
<1>3. PICK at \in {"publish", "post", "accept"}, e \in {"Denied", "Submitted"} :
        /\ log' = Appended(log, "strategy", handler.id, e) /\ Goto(at)
        /\ at = "post" => e = "Submitted" /\ ~kill
  BY Zenon DEF Gate
<1>4. handler' \in Handlers /\ handler'.at = at /\ handler'.id = handler.id
  BY Zenon, <1>0, <1>3, GotoStep DEF Steps
<1>5. e \in Events
  BY Zenon DEF Events
<1>6. QED
  BY Zenon, <1>0, <1>1, <1>2, <1>3, <1>4, <1>5, Names, LogStep DEF Acting

\* The steps of a handler that only log preserve FlowInv.
LEMMA HandlerLogs ==
  ASSUME FlowInv, PaperAccept \/ Posted \/ Strike \/ Deleted
  PROVE  FlowInv'
<1>0. /\ FlowType /\ handler \in Handlers /\ handler.at \in Acting
      /\ handler.id \in Orders
  BY Zenon DEF PaperAccept, Posted, Strike, Deleted, FlowInv, FlowType, Acting
<1>1. UNCHANGED <<cursor, cursor_failed, exchange, reports, kill, late>> /\ Goto("publish")
  BY Zenon DEF PaperAccept, Posted, Strike, Deleted, venueVars, handlerRest
<1>2. reports' \in Seq(ReportType) /\ ReportOrders' \subseteq ReportOrders
  BY Zenon, <1>0, <1>1 DEF FlowType, ReportOrders
<1>3. handler' \in Handlers /\ handler'.at = "publish"
  BY Zenon, <1>0, <1>1, GotoStep DEF Steps
<1>4. CASE UNCHANGED log
  BY Zenon, <1>1, <1>3, <1>4, RestStep
<1>5. CASE \E e \in {"Accepted", "Rejected", "Canceled", "PendingCancel"} :
             log' = Appended(log, "strategy", handler.id, e)
  <2>1. PICK e \in {"Accepted", "Rejected", "Canceled", "PendingCancel"} :
               log' = Appended(log, "strategy", handler.id, e)
    BY Zenon, <1>5
  <2>2. e \in Events /\ e # "Submitted"
    BY SMTT(30) DEF Events
  <2>3. QED
    BY Zenon, <1>0, <1>1, <1>2, <1>3, <2>1, <2>2, Names, LogStep DEF Acting
<1>6. QED
  BY Zenon, <1>4, <1>5 DEF PaperAccept, Posted, Strike, Deleted

\* Logging a venue report preserves FlowInv.
LEMMA PumpStep ==
  ASSUME FlowInv, Pump
  PROVE  FlowInv'
<1> DEFINE report == Head(reports)
<1>1. /\ UNCHANGED <<cursor, cursor_failed, exchange, kill, late, handler>>
      /\ reports # <<>>
      /\ reports' = Tail(reports)
      /\ log' = Appended(log, "venue", report.order, EventOf(report.kind))
  BY Zenon DEF Pump, pumpRest, Published
<1>2. FlowType /\ reports \in Seq(ReportType)
  BY Zenon DEF FlowInv, FlowType
<1>3. report = reports[1] /\ 1 \in DOMAIN reports /\ report \in ReportType
  BY <1>1, <1>2
<1>4. report.order \in Orders /\ report.order \in ReportOrders /\ report.kind \in Kinds
  BY Zenon, <1>3 DEF ReportType, ReportOrders
<1>5. EventOf(report.kind) \in Events
  BY Zenon, <1>4 DEF EventOf, Events, Kinds
<1>6. Used(report.order)
  BY Zenon, <1>4 DEF FlowInv, IdInv
<1>7. reports' \in Seq(ReportType) /\ ReportOrders' \subseteq ReportOrders
  <2>1. reports' \in Seq(ReportType)
    BY <1>1, <1>2
  <2>2. ASSUME NEW k \in DOMAIN reports'
        PROVE  k + 1 \in DOMAIN reports /\ reports'[k] = reports[k + 1]
    BY <1>1, <1>2
  <2>3. QED
    BY Zenon, <2>1, <2>2 DEF ReportOrders
<1>8. handler' \in Handlers
  BY Zenon, <1>1, <1>2 DEF FlowType
<1>9. QED
  BY Zenon, <1>1, <1>4, <1>5, <1>6, <1>7, <1>8, Names, LogStep

\* Either append for an order that the venue has and the log lacks preserves
\* FlowInv.
LEMMA SeedStep ==
  ASSUME FlowInv, NEW o \in Orders, Seed(o) \/ PublishSeed(o)
  PROVE  FlowInv'
<1>1. /\ UNCHANGED <<cursor, cursor_failed, exchange, reports, kill, late, handler>>
      /\ \E s \in {"reconcile", "venue"} : log' = Appended(log, s, o, "Accepted")
  BY Zenon DEF Seed, PublishSeed, venueVars, Published, MapOpenOrder, EventOf
<1>2. PICK s \in Strategies, e \in Events : log' = Appended(log, s, o, e) /\ e # "Submitted"
  <2>1. "Accepted" \in Events /\ "Accepted" # "Submitted"
    BY Zenon DEF Events
  <2> QED
    BY Zenon, <1>1, <2>1, Names
<1>3. /\ reports' \in Seq(ReportType) /\ ReportOrders' \subseteq ReportOrders
      /\ handler' \in Handlers
  BY Zenon, <1>1 DEF FlowInv, FlowType, ReportOrders
<1>4. QED
  BY Zenon, <1>1, <1>2, <1>3, LogStep

\* Minting an id preserves FlowInv: the cursor moves before the id is used.
LEMMA MintStep ==
  ASSUME FlowInv, Mint
  PROVE  FlowInv'
<1>1. /\ UNCHANGED <<log, cursor_failed, exchange, reports, kill, late>>
      /\ cursor < MaxMinted
      /\ handler' = [handler EXCEPT !.at = "gate", !.id = cursor + 1]
      /\ cursor' = cursor + 1
  BY Zenon DEF Mint, NextSeq, venueVars, handlerRest
<1>2. FlowType /\ IdInv /\ cursor \in Nat /\ handler \in Handlers
  BY Zenon DEF FlowInv, FlowType
<1>3. cursor + 1 \in Orders
  BY <1>1, <1>2, Names
<1>4. handler' \in Handlers /\ handler'.at = "gate" /\ handler'.id = cursor + 1
  BY Zenon, <1>1, <1>2, <1>3 DEF Handlers
<1>5. FlowType'
  BY <1>1, <1>2, <1>3, <1>4 DEF FlowType
<1>6. \A p : Logged(p)' = Logged(p)
  BY Zenon, <1>1 DEF Logged
<1>7. ReportOrders' = ReportOrders
  BY Zenon, <1>1 DEF ReportOrders
<1>8. IdInv'
  <2>1. Minted(handler'.id, cursor', cursor_failed') /\ cursor' \in Nat /\ cursor <= cursor'
    BY <1>1, <1>2, <1>4 DEF Minted
  <2> QED
    BY Zenon, <1>1, <1>2, <1>3, <1>4, <1>6, <1>7, <2>1, IdStep
<1>9. KillInv'
  BY Zenon, <1>1, <1>4 DEF FlowInv, KillInv
<1>10. QED
  BY Zenon, <1>5, <1>8, <1>9 DEF FlowInv

\* So does handing out the first id when the cursor fails.
LEMMA MintFirstStep ==
  ASSUME FlowInv, MintFirst
  PROVE  FlowInv'
<1>1. /\ UNCHANGED <<log, cursor, exchange, reports, kill, late>> /\ cursor_failed' = TRUE
      /\ handler' = [handler EXCEPT !.at = "gate", !.id = 1]
  BY Zenon DEF MintFirst, NextSeqFails, venueVars
<1>2. FlowType /\ IdInv /\ cursor \in Nat /\ handler \in Handlers
  BY Zenon DEF FlowInv, FlowType
<1>3. 1 \in Orders /\ cursor <= cursor
  BY <1>2, Names
<1>4. handler' \in Handlers /\ handler'.at = "gate" /\ handler'.id = 1
  BY Zenon, <1>1, <1>2, <1>3 DEF Handlers
<1>5. FlowType'
  BY Zenon, <1>1, <1>2, <1>3, <1>4 DEF FlowType
<1>6. (\A p : Logged(p)' = Logged(p)) /\ ReportOrders' = ReportOrders
  BY Zenon, <1>1 DEF Logged, ReportOrders
<1>7. Minted(handler'.id, cursor', cursor_failed')
  BY Zenon, <1>1, <1>4 DEF Minted
<1>8. IdInv'
  BY Zenon, <1>1, <1>2, <1>3, <1>4, <1>6, <1>7, IdStep
<1>9. KillInv'
  BY Zenon, <1>1, <1>4 DEF FlowInv, KillInv
<1>10. QED
  BY Zenon, <1>5, <1>8, <1>9 DEF FlowInv

\* A command that is taken up: the client names no id that the service mints.
LEMMA HandleNextStep ==
  ASSUME FlowInv, LoopInv, HandleNext
  PROVE  FlowInv'
<1> DEFINE m == cmds[loop.last + 1]
<1>1. /\ UNCHANGED <<log, cursor, cursor_failed, exchange, reports, kill, late>>
      /\ handler' = IF HasField(m) /\ DecodeCmd(m)
                    THEN [Idle EXCEPT !.id = m.id, !.at = FirstStep(m)] ELSE Idle
  BY Zenon DEF HandleNext, storeVars, venueVars
<1>2. loop.last + 1 \in 1..Len(cmds) /\ cmds \in Seq(Commands)
  BY AtTheEnd DEF HandleNext, LoopInv, Consumers
<1>3. m \in Commands
  BY <1>2
<1> HIDE DEF m
<1>4. /\ m.id \in Orders \cup {None}
      /\ m.kind = "submit" => m.id \notin 1..MaxMinted
  <2>1. /\ Commands \subseteq [field : Fields, type : MsgTypes,
                               kind : {"submit", "cancel", "other"}, id : Orders \cup {None}]
        /\ \A cmd \in Commands : cmd.kind = "submit" => cmd.id \notin 1..MaxMinted
    BY Zenon, ServiceAssumption
  <2>2. QED
    BY Zenon, <1>3, <2>1
<1>5. /\ FirstStep(m) \in {"mint", "gate", "publish", "delete", "strike"}
      /\ FirstStep(m) \in {"gate", "delete", "strike"} => m.id # None
      /\ FirstStep(m) = "gate" => m.kind = "submit"
  BY Zenon DEF FirstStep, CancelStep
<1>6. Idle \in Handlers /\ Idle.at = "idle"
  BY Names DEF Idle, Handlers, Replies
<1>7. CASE handler' = Idle
  BY Zenon, <1>1, <1>6, <1>7, RestStep
<1>8. CASE handler' = [Idle EXCEPT !.id = m.id, !.at = FirstStep(m)]
  <2>1. /\ handler' \in Handlers /\ handler'.at = FirstStep(m)
        /\ handler'.id = m.id
    BY Zenon, <1>4, <1>5, <1>6, <1>8, Names DEF Idle, Handlers, Replies
  <2>2. FlowType /\ IdInv /\ cursor \in Nat
    BY Zenon DEF FlowInv, FlowType
  <2>3. FlowType'
    BY Zenon, <1>1, <1>4, <1>5, <2>1, <2>2 DEF FlowType, Acting
  <2>4. (\A p : Logged(p)' = Logged(p)) /\ ReportOrders' = ReportOrders
    BY Zenon, <1>1 DEF Logged, ReportOrders
  <2>5. handler'.at # "post" /\ (handler'.at \in Acting => handler'.id \in Orders)
    BY Zenon, <1>4, <1>5, <2>1 DEF Acting
  <2>6. handler'.at \in {"gate", "accept", "post", "posted"} =>
          Minted(handler'.id, cursor', cursor_failed')
    BY Zenon, <1>4, <1>5, <2>1 DEF Minted
  <2>7. IdInv'
    BY <1>1, <2>2, <2>4, <2>5, <2>6, IdStep
  <2>8. KillInv'
    BY Zenon, <1>1, <2>5 DEF FlowInv, KillInv
  <2>9. QED
    BY Zenon, <2>3, <2>7, <2>8 DEF FlowInv
<1>9. QED
  BY Zenon, <1>1, <1>7, <1>8

\* What the venue does to an order it knows, or takes.
LEMMA VenueEffect ==
  ASSUME FlowType, NEW o \in Orders, NEW st \in {"open", "done"},
         NEW x \in {"NEW", "TRADE", "CANCELED", "REJECTED", "EXPIRED"}, Send(o, x),
         \/ exchange' = [exchange EXCEPT ![o] = st]
         \/ UNCHANGED exchange /\ exchange[o] = "open"
  PROVE  /\ exchange' \in [Orders -> {"none", "open", "done"}]
         /\ exchange'[o] # "none"
         /\ \A p \in Orders \ {o} : exchange'[p] = exchange[p]
         /\ reports' \in Seq(ReportType)
         /\ ReportOrders' \subseteq ReportOrders \cup {o}
<1>1. reports \in Seq(ReportType) /\ exchange \in [Orders -> {"none", "open", "done"}]
  BY Zenon DEF FlowType
<1>2. reports' \in Seq(ReportType) /\ ReportOrders' \subseteq ReportOrders \cup {o}
  BY Zenon, <1>1, SendReports
<1>3. QED
  BY Zenon, <1>1, <1>2

\* RestClient::send keeps the order, and counts its attempts.
LEMMA AnswerStep ==
  ASSUME handler \in Handlers, NEW req, NEW a \in Attempts, NEW done \in Steps,
         Answer(req, a, done)
  PROVE  /\ handler' \in Handlers /\ handler'.id = handler.id
         /\ handler'.at \in {handler.at, done}
<1>1. /\ handler.attempt \in 0..MaxRetries /\ a.reply \in Replies /\ MaxRetries \in Nat
      /\ handler.at \in Steps
  BY Zenon, Names DEF Handlers, Attempts, Steps
<1>2. CASE a.reply # "ok" /\ ShouldRetry(req, a.reply, handler.attempt)
  <2>1. handler' = [handler EXCEPT !.attempt = handler.attempt + 1]
    BY Zenon, <1>2 DEF Answer
  <2>2. handler.attempt + 1 \in 0..MaxRetries
    BY <1>1, <1>2 DEF ShouldRetry
  <2>3. QED
    BY Zenon, <1>1, <2>1, <2>2 DEF Handlers, Steps
<1>3. CASE ~(a.reply # "ok" /\ ShouldRetry(req, a.reply, handler.attempt))
  <2>1. handler' = [handler EXCEPT !.at = done, !.reply = a.reply]
    BY Zenon, <1>3 DEF Answer
  <2>2. QED
    BY Zenon, <1>1, <2>1 DEF Handlers, Steps
<1>4. QED
  BY Zenon, <1>2, <1>3

\* A POST reaches the venue at most once: a retry of what it took is refused.
LEMMA PostStep ==
  ASSUME FlowInv, NEW a \in Attempts, Post(a)
  PROVE  FlowInv'
<1> DEFINE o == handler.id
<1>1. /\ UNCHANGED <<log, cursor, cursor_failed, kill>>
      /\ handler.at = "post" /\ PostOrder(o, a)
      /\ late' = IF kill /\ a.applied THEN late + 1 ELSE late
  BY Zenon DEF Post, storeVars, handlerRest
<1>2. FlowType /\ IdInv /\ cursor \in Nat /\ handler \in Handlers
  BY Zenon DEF FlowInv, FlowType
<1>3. o \in Orders /\ Used(o) /\ "Submitted" \in Logged(o)
  BY Zenon, <1>1, <1>2 DEF FlowType, IdInv, Acting
<1>4. handler' \in Handlers /\ handler'.id = o /\ handler'.at \in {"post", "posted"}
  BY Zenon, <1>1, <1>2, AnswerStep DEF Post, Steps
<1>5. CASE a.applied
  <2>1. exchange[o] = "none" /\ Take(o)
    BY Zenon, <1>1, <1>5 DEF PostOrder
  <2>2. /\ exchange' \in [Orders -> {"none", "open", "done"}]
        /\ exchange'[o] # "none"
        /\ \A p \in Orders \ {o} : exchange'[p] = exchange[p]
        /\ reports' \in Seq(ReportType)
        /\ ReportOrders' \subseteq ReportOrders \cup {o}
    BY Zenon, <1>2, <1>3, <2>1, VenueEffect DEF Take
  <2>3. FlowType'
    BY Zenon, <1>1, <1>2, <1>3, <1>4, <2>2 DEF FlowType
  <2>4. \A p : Logged(p)' = Logged(p)
    BY Zenon, <1>1 DEF Logged
  <2>5. IdInv'
    BY SMTT(30), <1>1, <1>2, <1>3, <1>4, <2>2, <2>4, IdStep DEF Used
  <2>6. KillInv'
    <3>1. ASSUME kill PROVE late' = 1
      BY SMTT(30), <1>1, <1>5, <2>1, <3>1 DEF FlowInv, KillInv
    <3>2. QED
      BY Zenon, <1>1, <1>4, <2>2, <3>1 DEF KillInv
  <2>7. QED
    BY Zenon, <2>3, <2>5, <2>6 DEF FlowInv
<1>6. CASE ~a.applied
  <2>1. UNCHANGED <<exchange, reports, late>>
    BY Zenon, <1>1, <1>6 DEF PostOrder, venueVars
  <2>2. FlowType'
    BY Zenon, <1>1, <1>2, <1>3, <1>4, <2>1 DEF FlowType
  <2>3. (\A p : Logged(p)' = Logged(p)) /\ ReportOrders' = ReportOrders
    BY Zenon, <1>1, <2>1 DEF Logged, ReportOrders
  <2>4. IdInv'
    BY <1>1, <1>2, <1>3, <1>4, <2>1, <2>3, IdStep DEF Used
  <2>5. KillInv'
    BY Zenon, <1>1, <1>4, <2>1 DEF FlowInv, KillInv
  <2>6. QED
    BY Zenon, <2>2, <2>4, <2>5 DEF FlowInv
<1>7. QED
  BY Zenon, <1>5, <1>6

\* An attempt to cancel at the venue preserves FlowInv.
LEMMA DeleteStep ==
  ASSUME FlowInv, NEW a \in Attempts, Delete(a)
  PROVE  FlowInv'
<1> DEFINE o == handler.id
<1>1. /\ UNCHANGED <<log, cursor, cursor_failed, kill, late>> /\ handler.at = "delete"
      /\ DeleteOrder(o, a)
  BY Zenon DEF Delete, storeVars, handlerRest
<1>2. /\ FlowType /\ IdInv /\ cursor \in Nat /\ handler \in Handlers
      /\ o \in Orders
  BY Zenon, <1>1 DEF FlowInv, FlowType, Acting
<1>3. handler' \in Handlers /\ handler'.id = o /\ handler'.at \in {"delete", "deleted"}
  BY Zenon, <1>1, <1>2, AnswerStep DEF Delete, Steps
<1>4. /\ exchange' \in [Orders -> {"none", "open", "done"}]
      /\ \A p \in Orders : exchange'[p] # "none" => exchange[p] # "none"
      /\ reports' \in Seq(ReportType)
      /\ \A p \in ReportOrders' : p \in ReportOrders \/ Used(p)
  <2>1. CASE a.applied
    <3>1. /\ exchange[o] = "open" /\ Send(o, "CANCELED")
          /\ exchange' = [exchange EXCEPT ![o] = "done"]
      BY Zenon, <1>1, <2>1 DEF DeleteOrder
    <3>2. Used(o)
      BY Zenon, <1>2, <3>1 DEF IdInv
    <3>3. QED
      BY Zenon, <1>2, <3>1, <3>2, VenueEffect
  <2>2. CASE ~a.applied
    BY Zenon, <1>1, <1>2, <2>2 DEF DeleteOrder, venueVars, FlowType, ReportOrders
  <2>3. QED
    BY Zenon, <2>1, <2>2
<1>5. \A p : Logged(p)' = Logged(p)
  BY Zenon, <1>1 DEF Logged
<1>6. FlowType'
  BY Zenon, <1>1, <1>2, <1>3, <1>4 DEF FlowType
<1>7. IdInv'
  BY SMTT(30), <1>1, <1>2, <1>3, <1>4, <1>5, IdStep
<1>8. KillInv'
  BY Zenon, <1>1, <1>3 DEF FlowInv, KillInv
<1>9. QED
  BY Zenon, <1>6, <1>7, <1>8 DEF FlowInv

\* What the venue does by itself preserves FlowInv.
LEMMA VenueMoveStep ==
  ASSUME FlowInv, VenueMove
  PROVE  FlowInv'
<1>1. UNCHANGED <<log, cursor, cursor_failed, kill, late, handler>>
  BY Zenon DEF VenueMove, outsideRest, storeVars
<1>2. FlowType /\ IdInv /\ cursor \in Nat
  BY Zenon DEF FlowInv, FlowType
<1>3. PICK o \in Orders, st \in {"open", "done"}, x \in {"NEW", "TRADE", "EXPIRED"} :
        /\ exchange[o] # "none" \/ o = ByHand
        /\ Send(o, x)
        /\ \/ exchange' = [exchange EXCEPT ![o] = st]
           \/ UNCHANGED exchange /\ exchange[o] = "open"
  <2>1. CASE PlaceByHand(ByHand)
    BY Zenon, <2>1, Names DEF PlaceByHand
  <2>2. ASSUME NEW o \in Orders, Trade(o) \/ Expire(o)
        PROVE  \E st \in {"open", "done"}, x \in {"NEW", "TRADE", "EXPIRED"} :
                 /\ exchange[o] # "none" \/ o = ByHand
                 /\ Send(o, x)
                 /\ \/ exchange' = [exchange EXCEPT ![o] = st]
                    \/ UNCHANGED exchange /\ exchange[o] = "open"
    BY Zenon, <2>2 DEF Trade, Expire
  <2>3. QED
    BY Zenon, <2>1, <2>2 DEF VenueMove
<1>4. /\ exchange' \in [Orders -> {"none", "open", "done"}]
      /\ exchange'[o] # "none"
      /\ \A p \in Orders \ {o} : exchange'[p] = exchange[p]
      /\ reports' \in Seq(ReportType)
      /\ ReportOrders' \subseteq ReportOrders \cup {o}
  BY Zenon, <1>2, <1>3, VenueEffect
<1>5. Used(o)
  BY Zenon, <1>2, <1>3, Names DEF IdInv, Used, Minted
<1>6. FlowType'
  BY Zenon, <1>1, <1>2, <1>4 DEF FlowType
<1>7. \A p : Logged(p)' = Logged(p)
  BY Zenon, <1>1 DEF Logged
<1>8. IdInv'
  <2>1. handler'.at \in {"gate", "accept", "post", "posted"} =>
          Minted(handler'.id, cursor', cursor_failed')
    BY Zenon, <1>1, <1>2 DEF IdInv, Used
  <2>2. \A p \in Orders : exchange'[p] # "none" => exchange[p] # "none" \/ p = ByHand
    BY Zenon, <1>3, <1>4
  <2>3. handler'.at \in Acting => handler'.id \in Orders
    BY Zenon, <1>6 DEF FlowType
  <2>4. QED
    BY <1>1, <1>2, <1>4, <1>5, <1>7, <2>1, <2>2, <2>3, IdStep
<1>9. KillInv'
  BY Zenon, <1>1, <1>2, <1>4 DEF FlowInv, KillInv, FlowType, Acting
<1>10. QED
  BY Zenon, <1>6, <1>8, <1>9 DEF FlowInv

\* Every step preserves FlowInv.
LEMMA FlowInductive ==
  ASSUME FlowInv, LoopInv, [Next]_vars
  PROVE  FlowInv'
<1>1. CASE UNCHANGED vars
  BY Zenon, <1>1, QuietStep DEF vars, storeVars, venueVars
<1>2. CASE Boot
  <2>1. CASE Start
    BY Zenon, <2>1, QuietStep DEF Start, storeVars, venueVars
  <2>2. CASE FallBack
    BY Zenon, <2>2, DropStep DEF FallBack, storeVars
  <2>3. CASE Connect \/ List \/ Run
    BY Zenon, <2>3, QuietStep DEF Connect, List, Run, storeVars, venueVars
  <2>4. QED
    BY Zenon, <1>2, <2>1, <2>2, <2>3, SeedStep DEF Boot
<1>3. CASE Consume
  <2>1. CASE Poll \/ Deliver
    BY Zenon, <2>1, QuietStep DEF Poll, Deliver, storeVars, venueVars
  <2>2. ASSUME NEW m \in ControlMessages, ControlMessage(m) PROVE FlowInv'
    BY Zenon, <2>2, QuietStep DEF ControlMessage, StoreKill, storeVars, venueVars
  <2>3. ASSUME NEW req \in ControlRequests, ControlRequest(req) PROVE FlowInv'
    BY Zenon, <2>3, QuietStep DEF ControlRequest, StoreKill, storeVars, venueVars
  <2>4. QED
    BY Zenon, <1>3, <2>1, <2>2, <2>3, HandleNextStep DEF Consume
<1>4. CASE HandlerStep
  <2>1. CASE Publish
    <3>1. /\ UNCHANGED <<log, cursor, cursor_failed, exchange, reports, kill, late>>
          /\ handler' = Idle
      BY Zenon, <2>1 DEF Publish, storeVars, venueVars, handlerRest
    <3>2. Idle \in Handlers /\ Idle.at = "idle"
      BY Names DEF Idle, Handlers, Replies
    <3>3. QED
      BY Zenon, <3>1, <3>2, RestStep
  <2>2. QED
    BY Zenon, <1>4, <2>1, MintStep, MintFirstStep, GateStep, HandlerLogs, PostStep,
       DeleteStep DEF HandlerStep
<1>5. CASE Outside
  <2>1. CASE Reconnect \/ Disconnect \/ \E cmd \in Commands : SendCommand(cmd)
    BY SMTT(30), <2>1, QuietStep DEF Reconnect, SocketUp, Disconnect, SocketDown,
                           KeyExpires, SendCommand, outsideRest, storeVars, venueVars
  <2>2. QED
    BY Zenon, <1>5, <2>1, VenueMoveStep DEF Outside
<1>6. CASE Crash
  BY Zenon, <1>6, DropStep DEF Crash, storeVars
<1>7. QED
  BY Zenon, <1>1, <1>2, <1>3, <1>4, <1>5, <1>6, PumpStep DEF Next

\* FlowInv holds in every reachable state.
LEMMA FlowInvariance == Spec => []FlowInv
<1>1. Init => FlowInv
  <2> SUFFICES ASSUME Init PROVE FlowInv
    BY Zenon
  <2>1. Idle \in Handlers /\ Idle.at = "idle"
    BY Names DEF Idle, Handlers, Replies
  <2>2. /\ log = [o \in Orders |-> <<>>] /\ cursor = 0 /\ kill = FALSE
        /\ cursor_failed = FALSE
        /\ exchange = [o \in Orders |-> "none"] /\ reports = <<>> /\ handler = Idle
    BY Zenon DEF Init, StoreInit, VenueInit
  <2>3. FlowType
    <3>1. /\ log \in [Orders -> Seq(Entries)] /\ cursor \in Nat
          /\ reports \in Seq(ReportType) /\ handler.at \notin Acting
      BY <2>1, <2>2 DEF Acting
    <3>2. cursor_failed \in BOOLEAN
      BY Zenon, <2>2
    <3> QED
      BY Zenon, <2>1, <2>2, <3>1, <3>2 DEF FlowType
  <2>4. ReportOrders = {} /\ \A o \in Orders : Logged(o) = {}
    BY <2>2 DEF ReportOrders, Logged
  <2>5. IdInv /\ KillInv
    BY Zenon, <2>1, <2>2, <2>4 DEF IdInv, KillInv, LoggedBeforeSent
  <2>6. QED
    BY Zenon, <2>3, <2>5 DEF FlowInv
<1>2. FlowInv /\ LoopInv /\ [Next]_vars => FlowInv'
  BY Zenon, FlowInductive
<1>3. QED
  BY <1>1, <1>2, LoopInvariance, PTL DEF Spec

\* Wherever the process crashed and however its requests were lost or retried,
\* every order of the service at the venue has Submitted in the event log:
\* handle_submit appends before it sends.
THEOREM IntentIsLogged == Spec => []LoggedBeforeSent
<1>1. FlowInv => LoggedBeforeSent
  BY Zenon DEF FlowInv, IdInv
<1>2. QED
  BY <1>1, FlowInvariance, PTL

\* Over any number of restarts and errors of the cursor, an id that handle_submit
\* mints is new to the venue and to the log: the counter is bumped durably before
\* the id is used.  Excepted is the first id once the cursor has failed, which
\* unwrap_or(1) hands out each time, and the cursor may hand out again.
THEOREM MintedIdsAreNew == Spec => FreshIds
<1>1. ASSUME FlowInv, [Next]_vars, handler.at = "mint", handler'.at = "gate",
             handler'.id = 1 => ~cursor_failed'
      PROVE  exchange[handler'.id] = "none" /\ "Submitted" \notin Logged(handler'.id)
  <2>1. handler \in Handlers /\ cursor \in Nat /\ IdInv
    BY Zenon, <1>1 DEF FlowInv, FlowType
  <2>2. Mint
    <3>1. handler # Idle
      BY <1>1 DEF Idle
    <3>2. handler' # Idle /\ handler' # handler
      BY <1>1 DEF Idle
    <3>3. CASE HandlerStep
      <4>1. ~MintFirst
        BY Zenon, <1>1, <2>1 DEF MintFirst, NextSeqFails, Handlers
      <4> QED
        BY <1>1, <3>3, <4>1, SMTT(30) DEF HandlerStep, Gate, PaperAccept, Posted, Strike,
                                          Deleted, Publish, Post, Delete
    <3>4. CASE Boot \/ Pump \/ Crash
      BY Zenon, <3>2, <3>4 DEF Boot, Start, FallBack, Connect, List, Seed, PublishSeed, Run,
                               Pump, pumpRest, Crash
    <3>5. CASE Consume
      BY Zenon, <3>1, <3>2, <3>5 DEF Consume, Poll, Deliver, HandleNext, ControlMessage,
                              ControlRequest
    <3>6. CASE Outside \/ UNCHANGED vars
      BY Zenon, <3>2, <3>6 DEF Outside, SendCommand, VenueMove, Reconnect, Disconnect,
                        outsideRest, vars
    <3>7. QED
      BY Zenon, <1>1, <3>3, <3>4, <3>5, <3>6 DEF Next
  <2>3. handler'.id = cursor + 1 /\ cursor < MaxMinted /\ UNCHANGED cursor_failed
    BY Zenon, <2>1, <2>2 DEF Mint, NextSeq, Handlers
  <2>4. handler'.id \in Orders /\ ~Used(handler'.id)
    BY <1>1, <2>1, <2>3, Names DEF Used, Minted
  <2>5. QED
    BY Zenon, <2>1, <2>4 DEF IdInv
<1>2. FlowInv /\ [Next]_vars =>
        [/\ handler.at = "mint"
         /\ handler'.at = "gate"
         /\ handler'.id = 1 => ~cursor_failed'
         => /\ exchange[handler'.id] = "none"
            /\ "Submitted" \notin Logged(handler'.id)]_vars
  BY Zenon, <1>1
<1>3. QED
  BY <1>2, FlowInvariance, PTL DEF Spec, FreshIds

\* Once the kill switch is engaged the venue takes at most one more order of
\* the service, whatever is queued and however often its POST is retried.
THEOREM KillStopsSubmission == Spec => []KillStops
<1>1. FlowInv => KillStops
  BY DEF FlowInv, KillInv, KillStops
<1>2. QED
  BY <1>1, FlowInvariance, PTL

-----------------------------------------------------------------------------
\* The tasks of the process.

\* Outside of "up" the command loop is at its start, so that a command is handled
\* only while the process runs; and only on paper is an order struck.
TaskInv ==
  /\ state \in {"down", "starting", "connected", "seeding", "up"}
  /\ mode \in {"venue", "paper"}
  /\ state # "up" => loop = NewConsumer
  /\ handler.at # "idle" =>
       state = "up" /\ loop.at = "batch" /\ loop.last \in DOMAIN cmds
  /\ handler.at = "strike" => mode = "paper"

\* What reconcile_on_start still has to seed was counted by it, and nothing is
\* left to seed once it is over.
ReconcileInv ==
  /\ missing \subseteq Orders
  /\ summary.missing_local \in Nat
  /\ Cardinality(missing) <= summary.missing_local
  /\ summary.ok <=> summary.orphans = 0 /\ summary.missing_local = 0
  /\ missing # {} => state = "seeding"

\* The rest of the venue's and the kill switch's types.
SwitchInv ==
  /\ trades \in [Orders -> 0..MaxTrades]
  /\ key \in BOOLEAN
  /\ socket \in BOOLEAN
  /\ missed \subseteq Orders
  /\ kill \in BOOLEAN
  /\ late \in Nat

-----------------------------------------------------------------------------
\* The log against the venue.

VenueAccepted == [strategy |-> "venue", event |-> "Accepted"]

EndsWith(l, o, entry) == l[o] # <<>> /\ l[o][Len(l[o])] = entry

Refused(o) == log[o] # <<>> /\ log[o][Len(log[o])].event \in {"Rejected", "Denied"}

\* An order whose Accepted is current, or will be corrected, or was lost.
Covered(o) == exchange[o] = "open" \/ o \in missed \/ o \in ReportOrders

\* An untraded open order of which nothing is under way and nothing was lost.
Settled(o) ==
  /\ exchange[o] = "open"
  /\ trades[o] = 0
  /\ o \notin missed
  /\ o \notin ReportOrders

\* The times at which the log follows the venue: from the venue's list of open
\* orders on, as long as the service runs on the venue.
Following == state = "seeding" \/ (state = "up" /\ mode = "venue")

\* A queued report is true of its order, but for an Accepted that a later report
\* corrects or whose correction was lost.
ReportsInv ==
  \A k \in DOMAIN reports :
    /\ reports[k].kind = "Fill" => trades[reports[k].order] > 0
    /\ reports[k].kind \in {"Canceled", "Rejected", "Expired"} =>
         exchange[reports[k].order] = "done"
    /\ reports[k].kind = "Accepted" =>
         \/ exchange[reports[k].order] = "open"
         \/ reports[k].order \in missed
         \/ \E j \in DOMAIN reports : j > k /\ reports[j].order = reports[k].order

\* The order's log is current, and complete while the log follows the venue: an
\* order that is not open in the log is still to be seeded, or was refused.
OrderSync(o) ==
  /\ EndsWith(log, o, VenueAccepted) => Covered(o)
  /\ o \in missing => Covered(o)
  /\ Following /\ Settled(o) =>
       \/ o \in LocalOpen
       \/ state = "seeding" /\ o \in missing
       \/ state = "up" /\ Refused(o)

SyncInv == ReportsInv /\ \A o \in Orders : OrderSync(o)

ServiceInv == LoopInv /\ FlowInv /\ TaskInv /\ ReconcileInv /\ SwitchInv /\ SyncInv

\* The idle handler is well formed.
LEMMA IdleHandler == Idle \in Handlers /\ Idle.at = "idle"
BY Names DEF Idle, Handlers, Replies

\* A step of the handler: it is at work, and does not come to a strike.
LEMMA HandlerMoves ==
  ASSUME handler \in Handlers, HandlerStep
  PROVE  /\ handler.at # "idle" /\ handler'.at # "strike"
         /\ UNCHANGED <<cmds, processVars, loop>>
<1>1. CASE Mint \/ MintFirst \/ Gate \/ PaperAccept \/ Posted \/ Strike \/ Deleted
  <2>1. /\ handler.at # "idle" /\ UNCHANGED <<cmds, processVars, loop>>
        /\ \/ \E id : handler' = [handler EXCEPT !.at = "gate", !.id = id]
           \/ \E at \in {"publish", "post", "accept"} :
                handler' = [handler EXCEPT !.at = at]
    BY Zenon, <1>1 DEF Mint, MintFirst, Gate, PaperAccept, Posted, Strike, Deleted, Goto,
                       handlerRest
  <2>2. handler'.at # "strike"
    BY Zenon, <2>1 DEF Handlers
  <2> QED
    BY Zenon, <2>1, <2>2
<1>2. CASE Publish
  BY Zenon, <1>2, IdleHandler DEF Publish, handlerRest
<1>3. ASSUME NEW a \in Attempts, Post(a) \/ Delete(a)
      PROVE  /\ handler.at # "idle" /\ handler'.at # "strike"
             /\ UNCHANGED <<cmds, processVars, loop>>
  <2>1. handler.at \in {"post", "delete"} /\ UNCHANGED <<cmds, processVars, loop>>
    BY Zenon, <1>3 DEF Post, Delete, handlerRest
  <2>2. \/ Answer(SubmitRequest, a, "posted")
        \/ Answer(CancelRequest, a, "deleted")
    BY Zenon, <1>3 DEF Post, Delete
  <2>3. handler'.at \in {handler.at, "posted", "deleted"}
    BY Zenon, <2>2, AnswerStep DEF Steps
  <2> QED
    BY Zenon, <2>1, <2>3
<1> QED
  BY Zenon, <1>1, <1>2, <1>3 DEF HandlerStep

\* Every step preserves TaskInv.
LEMMA TaskInductive ==
  ASSUME TaskInv, LoopInv, FlowInv, [Next]_vars
  PROVE  TaskInv'
<1>0. NewConsumer.at = "batch" /\ NewConsumer.last = NewConsumer.upto
  BY Zenon DEF NewConsumer
<1>1. CASE UNCHANGED <<state, mode, loop, handler, cmds>>
  BY Zenon, <1>1 DEF TaskInv
<1>2. CASE Boot
  <2>1. /\ UNCHANGED <<loop, handler, cmds>> /\ state # "up"
        /\ state' \in {"starting", "connected", "seeding", "up"}
        /\ mode' \in {mode, "venue", "paper"}
    BY Zenon, <1>2 DEF Boot, Start, FallBack, Connect, List, Seed, PublishSeed, Run,
                       processVars
  <2>2. handler'.at = "idle" /\ loop' = NewConsumer
    BY Zenon, <2>1 DEF TaskInv
  <2> QED
    BY Zenon, <2>1, <2>2 DEF TaskInv
<1>3. CASE Poll
  <2>1. UNCHANGED <<state, mode, handler, cmds>> /\ state = "up" /\ handler'.at = "idle"
    BY Zenon, <1>3, IdleHandler DEF Poll, processVars
  <2> QED
    BY Zenon, <2>1 DEF TaskInv
<1>4. CASE Deliver
  <2>1. UNCHANGED <<state, mode, handler, cmds>> /\ loop.at = "blocked"
    BY Zenon, <1>4 DEF Deliver, processVars
  <2>2. state = "up" /\ handler.at = "idle"
    BY Zenon, <1>0, <2>1 DEF TaskInv
  <2> QED
    BY Zenon, <2>1, <2>2 DEF TaskInv
<1>5. CASE HandleNext
  <2>1. /\ UNCHANGED <<state, mode, cmds>> /\ loop.at = "batch" /\ loop.last < loop.upto
        /\ loop' = [loop EXCEPT !.last = loop.last + 1]
    BY Zenon, <1>5 DEF HandleNext, processVars
  <2>3. loop'.at = "batch" /\ loop'.last \in DOMAIN cmds
    BY <2>1, AtTheEnd DEF LoopInv, Consumers
  <2>4. loop # NewConsumer
    BY <2>1, AtTheEnd DEF NewConsumer
  <2>5. state = "up"
    BY Zenon, <2>4 DEF TaskInv
  <2>6. handler'.at = "strike" => mode = "paper"
    <3>1. handler' = Idle \/ \E m : handler' = [Idle EXCEPT !.id = m.id, !.at = FirstStep(m)]
      BY Zenon, <1>5 DEF HandleNext
    <3>2. ASSUME NEW m, handler' = [Idle EXCEPT !.id = m.id, !.at = FirstStep(m)]
          PROVE  handler'.at = FirstStep(m)
      BY Zenon, <3>2 DEF Idle
    <3>3. ASSUME NEW m, FirstStep(m) = "strike" PROVE mode # "venue"
      BY Zenon, <3>3 DEF FirstStep, CancelStep
    <3>4. ASSUME handler'.at = "strike" PROVE mode # "venue"
      <4>1. handler' # Idle
        BY Zenon, <3>4, IdleHandler
      <4>2. PICK m : handler' = [Idle EXCEPT !.id = m.id, !.at = FirstStep(m)]
        BY Zenon, <3>1, <4>1
      <4>3. FirstStep(m) = "strike"
        BY Zenon, <3>2, <3>4, <4>2
      <4> QED
        BY Zenon, <3>3, <4>3
    <3> QED
      BY Zenon, <3>4 DEF TaskInv
  <2> QED
    BY Zenon, <2>1, <2>3, <2>5, <2>6 DEF TaskInv
<1>6. CASE HandlerStep
  <2>1. handler.at # "idle" /\ handler'.at # "strike" /\ UNCHANGED <<state, mode, loop, cmds>>
    BY Zenon, <1>6, HandlerMoves DEF FlowInv, FlowType, processVars
  <2> QED
    BY Zenon, <2>1 DEF TaskInv
<1>7. ASSUME NEW cmd \in Commands, SendCommand(cmd) PROVE TaskInv'
  <2>1. UNCHANGED <<state, mode, loop, handler>> /\ cmds' = Append(cmds, cmd)
    BY Zenon, <1>7 DEF SendCommand, outsideRest, processVars
  <2>2. DOMAIN cmds \subseteq DOMAIN cmds'
    BY <2>1 DEF LoopInv
  <2> QED
    BY Zenon, <2>1, <2>2 DEF TaskInv
<1>8. CASE Crash
  BY Zenon, <1>8, IdleHandler DEF Crash, TaskInv
<1>9. CASE Pump \/ VenueMove \/ Reconnect \/ Disconnect \/ UNCHANGED vars
  BY Zenon, <1>1, <1>9 DEF Pump, pumpRest, VenueMove, Reconnect, Disconnect, outsideRest,
                           processVars, vars
<1>10. ASSUME NEW m \in ControlMessages, ControlMessage(m) PROVE TaskInv'
  BY Zenon, <1>1, <1>10 DEF ControlMessage, processVars
<1>11. ASSUME NEW req \in ControlRequests, ControlRequest(req) PROVE TaskInv'
  BY Zenon, <1>1, <1>11 DEF ControlRequest, processVars
<1> QED
  BY Zenon, <1>2, <1>3, <1>4, <1>5, <1>6, <1>7, <1>8, <1>9, <1>10, <1>11
     DEF Next, Consume, Outside

\* The summary before a reconciliation counts nothing.
LEMMA NothingMissing ==
  /\ NoSummary.missing_local = 0 /\ NoSummary.orphans = 0 /\ NoSummary.ok
  /\ Cardinality({}) = 0
BY Zenon, FS_EmptySet DEF NoSummary, Summary

\* Sets of orders can be counted.
LEMMA FiniteOrders ==
  ASSUME NEW S \in SUBSET Orders
  PROVE  IsFiniteSet(S) /\ Cardinality(S) \in Nat /\ (Cardinality(S) = 0 <=> S = {})
<1>1. IsFiniteSet(S)
  BY Zenon, ServiceAssumption, FS_Subset
<1> QED
  BY Zenon, <1>1, FS_CardinalityType, FS_EmptySet

\* Only the steps of reconcile_on_start touch what is to be seeded.
LEMMA ReconcileSteps ==
  ASSUME [Next]_vars
  PROVE  \/ List \/ Run \/ (\E o \in Orders : PublishSeed(o)) \/ Crash
         \/ UNCHANGED <<missing, summary>> /\ (state = "seeding" => UNCHANGED state)
<1>1. CASE UNCHANGED vars
  BY Zenon, <1>1 DEF vars, processVars
<1>2. CASE Start \/ FallBack \/ Connect \/ \E o \in Orders : Seed(o)
  BY Zenon, <1>2 DEF Start, FallBack, Connect, Seed, processVars
<1>3. CASE Consume
  BY Zenon, <1>3 DEF Consume, Poll, Deliver, HandleNext, ControlMessage, ControlRequest,
                     processVars
<1>4. CASE HandlerStep
  BY Zenon, <1>4 DEF HandlerStep, Mint, MintFirst, Gate, PaperAccept, Posted, Strike,
              Deleted, Publish, Post, Delete, handlerRest, processVars
<1>5. CASE Pump \/ Outside
  BY Zenon, <1>5 DEF Pump, pumpRest, Outside, SendCommand, VenueMove, Reconnect, Disconnect,
                     outsideRest, processVars
<1> QED
  BY Zenon, <1>1, <1>2, <1>3, <1>4, <1>5 DEF Next, Boot

\* Every step preserves ReconcileInv: seeding stops when all that was counted
\* is seeded.
LEMMA ReconcileInductive ==
  ASSUME ReconcileInv, [Next]_vars
  PROVE  ReconcileInv'
<1>1. CASE UNCHANGED <<missing, summary>> /\ (state = "seeding" => UNCHANGED state)
  BY Zenon, <1>1 DEF ReconcileInv
<1>2. CASE List
  <2> DEFINE venue == OpenOrders
             local == LocalOpen
  <2>1. venue \in SUBSET Orders /\ local \in SUBSET Orders
    BY Zenon DEF OpenOrders, LocalOpen, ListOrders
  <2>2. /\ missing' = venue \ local /\ summary' = Summary(venue, local)
        /\ state' = "seeding"
    BY Zenon, <1>2 DEF List
  <2> HIDE DEF venue, local
  <2>3. /\ Cardinality(venue \ local) \in Nat
        /\ Cardinality(venue \ local) = 0 <=> venue \ local = {}
        /\ Cardinality(local \ venue) = 0 <=> local \ venue = {}
    <3>1. venue \ local \in SUBSET Orders /\ local \ venue \in SUBSET Orders
      BY Zenon, <2>1
    <3> QED
      BY Zenon, <3>1, FiniteOrders
  <2>4. /\ summary'.missing_local = Cardinality(venue \ local)
        /\ summary'.orphans = Cardinality(local \ venue)
        /\ summary'.ok <=> local = venue
    BY Zenon, <2>2 DEF Summary
  <2>5. local = venue <=> local \ venue = {} /\ venue \ local = {}
    BY Zenon, <2>1
  <2>6. missing' \subseteq Orders
    BY Zenon, <2>1, <2>2
  <2>7. Cardinality(missing') <= summary'.missing_local
    BY <2>2, <2>3, <2>4
  <2>8. summary'.ok <=> summary'.orphans = 0 /\ summary'.missing_local = 0
    BY Zenon, <2>3, <2>4, <2>5
  <2> QED
    BY Zenon, <2>2, <2>3, <2>4, <2>6, <2>7, <2>8 DEF ReconcileInv
<1>3. ASSUME NEW o \in Orders, PublishSeed(o) PROVE ReconcileInv'
  <2>1. /\ UNCHANGED <<summary, state>> /\ o \in missing /\ missing' = missing \ {o}
        /\ state = "seeding"
    BY Zenon, <1>3 DEF PublishSeed
  <2>2. missing \in SUBSET Orders
    BY Zenon DEF ReconcileInv
  <2>3. IsFiniteSet(missing) /\ Cardinality(missing) \in Nat
    BY Zenon, <2>2, FiniteOrders
  <2>4. Cardinality(missing \ {o}) = Cardinality(missing) - 1
    BY Zenon, <2>1, <2>3, FS_RemoveElement
  <2>5. Cardinality(missing') <= summary'.missing_local
    BY <2>1, <2>3, <2>4 DEF ReconcileInv
  <2> QED
    BY Zenon, <2>1, <2>5 DEF ReconcileInv
<1>4. CASE Run \/ Crash
  <2>1. missing' = {} /\ summary' = NoSummary
    BY Zenon, <1>4 DEF Run, Crash
  <2> QED
    BY <2>1, NothingMissing DEF ReconcileInv
<1> QED
  BY Zenon, <1>1, <1>2, <1>3, <1>4, ReconcileSteps

\* The venue's step on one order, as far as the types go.
LEMMA SendTypes ==
  ASSUME missed \subseteq Orders, NEW o \in Orders, NEW x, Send(o, x)
  PROVE  missed' \subseteq Orders
BY Zenon DEF Send

\* A queued report is well formed.
LEMMA QueuedOrders ==
  ASSUME FlowInv, NEW k \in DOMAIN reports
  PROVE  reports[k] \in ReportType /\ reports[k].order \in Orders /\ reports[k].kind \in Kinds
<1>1. reports \in Seq(ReportType)
  BY Zenon DEF FlowInv, FlowType
<1>2. reports[k] \in ReportType
  BY <1>1
<1> QED
  BY Zenon, <1>2 DEF ReportType

\* Every step preserves SwitchInv.
LEMMA SwitchInductive ==
  ASSUME SwitchInv, FlowInv, [Next]_vars
  PROVE  SwitchInv'
<1>1. CASE UNCHANGED <<venueVars, kill, late>>
  BY Zenon, <1>1 DEF SwitchInv, venueVars
<1>2. CASE UNCHANGED vars
  BY Zenon, <1>1, <1>2 DEF vars
<1>3. CASE Boot
  <2>1. CASE Start
    BY Zenon, <2>1 DEF Start, venueVars, SwitchInv
  <2>2. CASE FallBack
    <3>1. \A k \in DOMAIN reports : reports[k].order \in Orders
      BY Zenon, QueuedOrders
    <3>2. UNCHANGED <<trades, kill, late>> /\ key' = FALSE /\ socket' = FALSE
      BY Zenon, <2>2 DEF FallBack
    <3>3. missed' \subseteq Orders
      BY Zenon, <2>2, <3>1 DEF FallBack, SwitchInv
    <3> QED
      BY Zenon, <3>2, <3>3 DEF SwitchInv
  <2>3. CASE Connect \/ List
    BY Zenon, <2>3 DEF Connect, List, SwitchInv
  <2>4. CASE Run \/ \E o \in Orders : Seed(o) \/ PublishSeed(o)
    BY Zenon, <1>1, <2>4 DEF Run, Seed, PublishSeed
  <2> QED
    BY Zenon, <1>3, <2>1, <2>2, <2>3, <2>4 DEF Boot
<1>4. CASE Consume
  <2>1. CASE Poll \/ Deliver \/ HandleNext
    BY Zenon, <1>1, <2>1 DEF Poll, Deliver, HandleNext
  <2>2. ASSUME NEW engaged \in BOOLEAN, StoreKill(engaged), UNCHANGED venueVars
        PROVE  SwitchInv'
    <3>1. kill' \in BOOLEAN /\ late' \in Nat
      BY Zenon, <2>2 DEF StoreKill, SwitchInv
    <3> QED
      BY Zenon, <2>2, <3>1 DEF SwitchInv, venueVars
  <2>3. ASSUME NEW m \in ControlMessages, ControlMessage(m) PROVE SwitchInv'
    <3>1. m.engaged \in BOOLEAN
      BY Zenon, ServiceAssumption
    <3> QED
      BY Zenon, <1>1, <2>2, <2>3, <3>1 DEF ControlMessage
  <2>4. ASSUME NEW req \in ControlRequests, ControlRequest(req) PROVE SwitchInv'
    <3>1. (~req.disengage) \in BOOLEAN
      BY Zenon
    <3> QED
      BY Zenon, <1>1, <2>2, <2>4, <3>1 DEF ControlRequest
  <2> QED
    BY Zenon, <1>4, <2>1, <2>3, <2>4 DEF Consume
<1>5. CASE HandlerStep
  <2>1. CASE Mint \/ MintFirst \/ Gate \/ PaperAccept \/ Posted \/ Strike \/ Deleted
             \/ Publish
    BY Zenon, <1>1, <2>1 DEF Mint, MintFirst, Gate, PaperAccept, Posted, Strike, Deleted,
                             Publish, handlerRest
  <2>2. ASSUME NEW a \in Attempts, Post(a) \/ Delete(a) PROVE SwitchInv'
    <3>1. UNCHANGED <<trades, key, socket, kill>> /\ handler.id \in Orders
      BY Zenon, <2>2 DEF Post, Delete, PostOrder, DeleteOrder, venueVars, handlerRest,
                         FlowInv, FlowType, Acting
    <3>2. UNCHANGED missed \/ \E x : Send(handler.id, x)
      BY Zenon, <2>2 DEF Post, Delete, PostOrder, DeleteOrder, Take, venueVars
    <3>3. missed' \subseteq Orders
      BY Zenon, <3>1, <3>2, SendTypes DEF SwitchInv
    <3>4. late' \in {late, late + 1}
      BY Zenon, <2>2 DEF Post, Delete
    <3>5. late' \in Nat
      BY <3>4 DEF SwitchInv
    <3> QED
      BY Zenon, <3>1, <3>3, <3>5 DEF SwitchInv
  <2> QED
    BY Zenon, <1>5, <2>1, <2>2 DEF HandlerStep
<1>6. CASE Pump
  BY Zenon, <1>6 DEF Pump, pumpRest, SwitchInv
<1>7. CASE VenueMove
  <2>1. UNCHANGED <<key, socket, kill, late>> /\ \E o \in Orders : \E x : Send(o, x)
    BY Zenon, <1>7, Names DEF VenueMove, Trade, Expire, PlaceByHand, outsideRest
  <2>2. \/ UNCHANGED trades
        \/ \E o \in Orders : /\ trades[o] < MaxTrades
                             /\ trades' = [trades EXCEPT ![o] = trades[o] + 1]
    BY Zenon, <1>7 DEF VenueMove, Trade, Expire, PlaceByHand
  <2>3. trades' \in [Orders -> 0..MaxTrades]
    BY <2>2, TradesAssumption DEF SwitchInv
  <2>4. missed' \subseteq Orders
    BY Zenon, <2>1, SendTypes DEF SwitchInv
  <2> QED
    BY Zenon, <2>1, <2>3, <2>4 DEF SwitchInv
<1>8. CASE Reconnect \/ Disconnect \/ \E cmd \in Commands : SendCommand(cmd)
  BY Zenon, <1>8 DEF Reconnect, SocketUp, Disconnect, SocketDown, KeyExpires, SendCommand,
                     outsideRest, venueVars, SwitchInv
<1>9. CASE Crash
  <2>1. \A k \in DOMAIN reports : reports[k].order \in Orders
    BY Zenon, QueuedOrders
  <2>2. UNCHANGED trades /\ kill' = FALSE /\ late' = 0 /\ key' = FALSE /\ socket' = FALSE
    BY Zenon, <1>9 DEF Crash
  <2>3. missed' \subseteq Orders
    BY Zenon, <1>9, <2>1 DEF Crash, SwitchInv
  <2>4. late' \in Nat
    BY Zenon, <2>2
  <2> QED
    BY Zenon, <2>2, <2>3, <2>4 DEF SwitchInv
<1> QED
  BY Zenon, <1>2, <1>3, <1>4, <1>5, <1>6, <1>7, <1>8, <1>9 DEF Next, Outside

\* The log of an order ends behind its last opening event without a closing one.
OpenIn(l, o) ==
  \E k \in DOMAIN l[o] :
    /\ l[o][k].event \in Opening
    /\ \A j \in DOMAIN l[o] : j > k => l[o][j].event \notin Closing

\* local_open_client_ids, order by order, in this state and in the next.
LEMMA LocalOpenIs ==
  ASSUME NEW o \in Orders
  PROVE  /\ o \in LocalOpen <=> log[o] # <<>> /\ OpenIn(log, o)
         /\ o \in LocalOpen' <=> log'[o] # <<>> /\ OpenIn(log', o)
BY Zenon DEF LocalOpen, ListOrders, Replay, OpenIn

\* append puts its event last, and an opening event opens the order.
LEMMA AppendedLast ==
  ASSUME NEW l \in [Orders -> Seq(Entries)], NEW s \in Strategies,
         NEW o \in Orders, NEW e \in Events
  PROVE  /\ Appended(l, s, o, e) \in [Orders -> Seq(Entries)]
         /\ EndsWith(Appended(l, s, o, e), o, [strategy |-> s, event |-> e])
         /\ \A p \in Orders \ {o} : Appended(l, s, o, e)[p] = l[p]
         /\ e \in Opening => OpenIn(Appended(l, s, o, e), o)
<1> DEFINE entry == [strategy |-> s, event |-> e]
           m == Appended(l, s, o, e)
<1>1. entry \in Entries /\ entry.event = e
  BY Zenon DEF Entries
<1>2. l[o] \in Seq(Entries) /\ Len(l[o]) \in Nat
  OBVIOUS
<1>3. m = [l EXCEPT ![o] = Append(l[o], entry)]
  BY Zenon DEF Appended
<1> HIDE DEF entry
<1>4. m[o] = Append(l[o], entry) /\ \A p \in Orders \ {o} : m[p] = l[p]
  BY Zenon, <1>3
<1>5. m \in [Orders -> Seq(Entries)]
  BY <1>1, <1>2, <1>3
<1> HIDE DEF m
<1>6. /\ m[o] # <<>> /\ Len(m[o]) = Len(l[o]) + 1 /\ m[o][Len(m[o])] = entry
      /\ DOMAIN m[o] = 1..Len(m[o])
  BY <1>1, <1>2, <1>4
<1>7. e \in Opening => OpenIn(m, o)
  <2> SUFFICES ASSUME e \in Opening PROVE OpenIn(m, o)
    BY Zenon
  <2>1. Len(m[o]) \in DOMAIN m[o] /\ \A j \in DOMAIN m[o] : ~(j > Len(m[o]))
    BY <1>2, <1>6
  <2> QED
    BY Zenon, <1>1, <1>6, <2>1 DEF OpenIn
<1>8. EndsWith(m, o, entry)
  BY Zenon, <1>6 DEF EndsWith
<1> QED
  BY Zenon, <1>4, <1>5, <1>7, <1>8 DEF entry, m

\* An append ends the log of its order, and leaves the others alone.
LEMMA LogEnds ==
  ASSUME log \in [Orders -> Seq(Entries)], NEW s \in Strategies, NEW o \in Orders,
         NEW e \in Events, log' = Appended(log, s, o, e)
  PROVE  /\ EndsWith(log', o, [strategy |-> s, event |-> e])
         /\ \A p \in Orders \ {o} : log'[p] = log[p]
         /\ e \in Opening => OpenIn(log', o)
<1>1. /\ EndsWith(Appended(log, s, o, e), o, [strategy |-> s, event |-> e])
      /\ \A p \in Orders \ {o} : Appended(log, s, o, e)[p] = log[p]
      /\ e \in Opening => OpenIn(Appended(log, s, o, e), o)
  BY Zenon, AppendedLast
<1>2. QED
  BY SMT, <1>1

\* An order that a step leaves alone, whatever it loses or adds of reports.
LEMMA OtherOrder ==
  ASSUME NEW p \in Orders, OrderSync(p), UNCHANGED <<state, mode>>,
         log'[p] = log[p], exchange'[p] = exchange[p], trades'[p] = trades[p],
         p \in missed => p \in missed', p \in ReportOrders => p \in ReportOrders',
         p \in missing <=> p \in missing'
  PROVE  OrderSync(p)'
<1>1. /\ EndsWith(log, p, VenueAccepted) => Covered(p)
      /\ p \in missing => Covered(p)
      /\ Following /\ Settled(p) =>
           \/ p \in LocalOpen
           \/ state = "seeding" /\ p \in missing
           \/ state = "up" /\ Refused(p)
  BY Zenon DEF OrderSync
<1>2. Covered(p) => Covered(p)'
  BY Zenon DEF Covered
<1>3. Settled(p)' => Settled(p)
  BY Zenon DEF Settled
<1>4. (Following' <=> Following) /\ (Refused(p)' <=> Refused(p))
  BY Zenon DEF Following, Refused
<1>5. p \in LocalOpen' <=> p \in LocalOpen
  BY Zenon, LocalOpenIs DEF OpenIn
<1>6. EndsWith(log', p, VenueAccepted) => EndsWith(log, p, VenueAccepted)
  BY Zenon DEF EndsWith
<1> QED
  BY Zenon, <1>1, <1>2, <1>3, <1>4, <1>5, <1>6 DEF OrderSync, VenueAccepted

\* A step that touches neither log nor venue preserves SyncInv.
LEMMA QuietSync ==
  ASSUME SyncInv,
         UNCHANGED <<log, exchange, trades, reports, missed, missing, state, mode>>
  PROVE  SyncInv'
<1>1. ReportsInv' /\ ReportOrders' = ReportOrders
  BY Zenon DEF SyncInv, ReportsInv, ReportOrders
<1>2. ASSUME NEW p \in Orders PROVE OrderSync(p)'
  BY Zenon, <1>1, OtherOrder DEF SyncInv
<1> QED
  BY Zenon, <1>1, <1>2 DEF SyncInv

\* A step of the handler that logs: the order is open in the log, or refused, or
\* the service is on paper.
LEMMA HandlerLogSync ==
  ASSUME SyncInv, FlowInv, NEW o \in Orders, NEW e \in Events,
         log' = Appended(log, "strategy", o, e), state = "up",
         UNCHANGED <<exchange, trades, reports, missed, missing, state, mode>>,
         e \in Opening \cup {"Rejected", "Denied"} \/ mode = "paper"
  PROVE  SyncInv'
<1>1. ReportsInv' /\ ReportOrders' = ReportOrders
  BY Zenon DEF SyncInv, ReportsInv, ReportOrders
<1>2. /\ EndsWith(log', o, [strategy |-> "strategy", event |-> e])
      /\ \A p \in Orders \ {o} : log'[p] = log[p]
      /\ e \in Opening => OpenIn(log', o)
  BY Zenon, LogEnds, Names DEF FlowInv, FlowType
<1>3. ASSUME NEW p \in Orders \ {o} PROVE OrderSync(p)'
  BY Zenon, <1>1, <1>2, OtherOrder DEF SyncInv
<1>4. OrderSync(o)'
  <2>1. log'[o] # <<>> /\ log'[o][Len(log'[o])] = [strategy |-> "strategy", event |-> e]
    BY Zenon, <1>2 DEF EndsWith
  <2>2. ~EndsWith(log', o, VenueAccepted)
    BY <2>1 DEF EndsWith, VenueAccepted
  <2>3. o \in missing' => Covered(o)'
    BY Zenon, <1>1 DEF SyncInv, OrderSync, Covered
  <2>4. e \in Opening => o \in LocalOpen'
    BY Zenon, <1>2, <2>1, LocalOpenIs
  <2>5. e \in {"Rejected", "Denied"} => Refused(o)'
    BY <2>1 DEF Refused
  <2>6. Following' => e \in Opening \cup {"Rejected", "Denied"}
    BY Zenon DEF Following
  <2>7. state' = "up"
    BY Zenon
  <2> QED
    BY Zenon, <2>2, <2>3, <2>4, <2>5, <2>6, <2>7 DEF OrderSync, VenueAccepted
<1> QED
  BY Zenon, <1>1, <1>3, <1>4 DEF SyncInv

\* publish_venue_report: what the report says of its order is true, or is
\* corrected by a later one.
LEMMA PumpSync ==
  ASSUME SyncInv, FlowInv, ReconcileInv, Pump
  PROVE  SyncInv'
<1>1. /\ UNCHANGED <<exchange, trades, missed, missing, state, mode>> /\ reports # <<>>
      /\ state = "up" /\ reports' = Tail(reports)
      /\ log' = Appended(log, "venue", Head(reports).order, EventOf(Head(reports).kind))
  BY Zenon DEF Pump, pumpRest, processVars, Published
<1>2. /\ reports \in Seq(ReportType) /\ log \in [Orders -> Seq(Entries)]
      /\ missing = {}
  BY Zenon, <1>1 DEF FlowInv, FlowType, ReconcileInv
<1>3. Head(reports) = reports[1] /\ 1 \in DOMAIN reports
  BY <1>1, <1>2
<1>4. PICK o \in Orders, kind \in Kinds : reports[1].order = o /\ reports[1].kind = kind
  BY Zenon, <1>3, QueuedOrders
<1>5. /\ \A k \in DOMAIN reports' : k + 1 \in DOMAIN reports /\ reports'[k] = reports[k + 1]
      /\ \A k \in DOMAIN reports :
           k > 1 => k - 1 \in DOMAIN reports' /\ reports'[k - 1] = reports[k]
  BY <1>1, <1>2
<1>6. ReportsInv'
  <2> SUFFICES ASSUME NEW k \in DOMAIN reports'
               PROVE  /\ reports'[k].kind = "Fill" => trades'[reports'[k].order] > 0
                      /\ reports'[k].kind \in {"Canceled", "Rejected", "Expired"} =>
                           exchange'[reports'[k].order] = "done"
                      /\ reports'[k].kind = "Accepted" =>
                           \/ exchange'[reports'[k].order] = "open"
                           \/ reports'[k].order \in missed'
                           \/ \E j \in DOMAIN reports' :
                                j > k /\ reports'[j].order = reports'[k].order
    BY Zenon DEF ReportsInv
  <2>1. k + 1 \in DOMAIN reports /\ reports'[k] = reports[k + 1] /\ k \in Nat
    BY <1>1, <1>2, <1>5
  <2>2. ASSUME NEW j \in DOMAIN reports, j > k + 1
        PROVE  j - 1 \in DOMAIN reports' /\ reports'[j - 1] = reports[j] /\ j - 1 > k
    <3>1. j \in Nat /\ j > 1 /\ j - 1 > k
      BY <1>2, <2>1, <2>2
    <3> QED
      BY Zenon, <1>5, <3>1
  <2>3. /\ reports[k + 1].kind = "Fill" => trades[reports[k + 1].order] > 0
        /\ reports[k + 1].kind \in {"Canceled", "Rejected", "Expired"} =>
             exchange[reports[k + 1].order] = "done"
        /\ reports[k + 1].kind = "Accepted" =>
             \/ exchange[reports[k + 1].order] = "open"
             \/ reports[k + 1].order \in missed
             \/ \E j \in DOMAIN reports : j > k + 1 /\ reports[j].order = reports[k + 1].order
    BY Zenon, <2>1 DEF SyncInv, ReportsInv
  <2>4. (\E j \in DOMAIN reports : j > k + 1 /\ reports[j].order = reports[k + 1].order)
          => \E j \in DOMAIN reports' : j > k /\ reports'[j].order = reports[k + 1].order
    BY Zenon, <2>2
  <2> QED
    BY SMT, <1>1, <2>1, <2>3, <2>4
<1>7. \A p \in Orders \ {o} : p \in ReportOrders => p \in ReportOrders'
  <2> SUFFICES ASSUME NEW k \in DOMAIN reports, reports[k].order # o
               PROVE  reports[k].order \in ReportOrders'
    BY Zenon DEF ReportOrders
  <2>1. k > 1
    BY <1>2, <1>4
  <2> QED
    BY Zenon, <1>5, <2>1 DEF ReportOrders
<1>8. EventOf(kind) \in Events
  BY Zenon, <1>4 DEF EventOf, Events, Kinds
<1>9. /\ EndsWith(log', o, [strategy |-> "venue", event |-> EventOf(kind)])
      /\ \A p \in Orders \ {o} : log'[p] = log[p]
      /\ EventOf(kind) \in Opening => OpenIn(log', o)
  <2>1. log' = Appended(log, "venue", o, EventOf(kind))
    BY Zenon, <1>1, <1>3, <1>4
  <2> QED
    BY Zenon, <1>2, <1>8, <2>1, LogEnds, Names
<1>10. ASSUME NEW p \in Orders \ {o} PROVE OrderSync(p)'
  BY Zenon, <1>1, <1>7, <1>9, OtherOrder DEF SyncInv
<1>11. OrderSync(o)'
  <2>1. EndsWith(log', o, VenueAccepted) => kind = "Accepted"
    <3>1. log'[o][Len(log'[o])] = [strategy |-> "venue", event |-> EventOf(kind)]
      BY Zenon, <1>9 DEF EndsWith
    <3> QED
      BY <1>4, <3>1 DEF EndsWith, VenueAccepted, EventOf, Kinds
  <2>2. kind = "Accepted" => Covered(o)'
    <3>1. ASSUME NEW j \in DOMAIN reports, j > 1, reports[j].order = o
          PROVE  o \in ReportOrders'
      BY Zenon, <1>5, <3>1 DEF ReportOrders
    <3>2. kind = "Accepted" =>
            \/ exchange[o] = "open" \/ o \in missed
            \/ \E j \in DOMAIN reports : j > 1 /\ reports[j].order = o
      BY Zenon, <1>3, <1>4 DEF SyncInv, ReportsInv
    <3> QED
      BY Zenon, <1>1, <3>1, <3>2 DEF Covered
  <2>3. o \notin missing'
    BY Zenon, <1>1, <1>2
  <2>4. Settled(o)' => o \in LocalOpen'
    <3>1. Settled(o)' => kind \notin {"Fill", "Canceled", "Rejected", "Expired"}
      <4>1. kind = "Fill" => trades[o] > 0
        BY Zenon, <1>3, <1>4 DEF SyncInv, ReportsInv
      <4>2. kind \in {"Canceled", "Rejected", "Expired"} => exchange[o] = "done"
        BY Zenon, <1>3, <1>4 DEF SyncInv, ReportsInv
      <4> QED
        BY <1>1, <4>1, <4>2 DEF Settled
    <3>2. kind = "Accepted" => EventOf(kind) \in Opening
      BY Zenon DEF EventOf, Opening
    <3>3. log'[o] # <<>>
      BY Zenon, <1>9 DEF EndsWith
    <3> QED
      BY Zenon, <1>4, <1>9, <3>1, <3>2, <3>3, LocalOpenIs DEF Kinds
  <2> QED
    BY Zenon, <2>1, <2>2, <2>3, <2>4 DEF OrderSync, VenueAccepted
<1> QED
  BY Zenon, <1>6, <1>10, <1>11 DEF SyncInv

\* What the venue does to an order is reported, or its report is lost.
LEMMA VenueSync ==
  ASSUME SyncInv, FlowInv, NEW o \in Orders,
         NEW x \in {"NEW", "TRADE", "CANCELED", "REJECTED", "EXPIRED"}, Send(o, x),
         UNCHANGED <<log, missing, state, mode>>, exchange[o] # "done",
         \A p \in Orders \ {o} : exchange'[p] = exchange[p] /\ trades'[p] = trades[p],
         x = "NEW" => exchange'[o] = "open",
         trades[o] > 0 \/ x = "TRADE" => trades'[o] > 0,
         x \in {"CANCELED", "REJECTED", "EXPIRED"} => exchange'[o] = "done"
  PROVE  SyncInv'
<1>1. /\ reports \in Seq(ReportType) /\ Len(reports) \in Nat
      /\ DOMAIN reports = 1..Len(reports)
  BY DEF FlowInv, FlowType
<1>2. /\ missed \subseteq missed' /\ DOMAIN reports \subseteq DOMAIN reports'
      /\ \A k \in DOMAIN reports : reports'[k] = reports[k]
      /\ socket => /\ Len(reports) + 1 \in DOMAIN reports'
                   /\ reports'[Len(reports) + 1] = Report(o, x)
                   /\ DOMAIN reports' = DOMAIN reports \cup {Len(reports) + 1}
      /\ ~socket => o \in missed' /\ DOMAIN reports' = DOMAIN reports
  <2>1. CASE ~socket
    BY Zenon, <2>1 DEF Send
  <2>2. CASE socket
    <3>1. Report(o, x) \in ReportType
      BY Zenon DEF Report, ReportType, Kinds
    <3>2. reports' = Append(reports, Report(o, x)) /\ missed' = missed
      BY Zenon, <2>2 DEF Send
    <3> QED
      BY <1>1, <2>2, <3>1, <3>2
  <2> QED
    BY Zenon, <2>1, <2>2
<1>3. /\ Report(o, x).order = o
      /\ Report(o, x).kind = "Accepted" => x = "NEW"
      /\ Report(o, x).kind = "Fill" => x = "TRADE"
      /\ Report(o, x).kind \in {"Canceled", "Rejected", "Expired"} =>
           x \in {"CANCELED", "REJECTED", "EXPIRED"}
  BY Zenon DEF Report
<1>4. ReportOrders \subseteq ReportOrders' /\ (o \in missed' \/ o \in ReportOrders')
  <2>1. ReportOrders \subseteq ReportOrders'
    BY Zenon, <1>2 DEF ReportOrders
  <2>2. socket => o \in ReportOrders'
    <3> SUFFICES ASSUME socket PROVE o \in ReportOrders'
      BY Zenon
    <3>1. Len(reports) + 1 \in DOMAIN reports' /\ reports'[Len(reports) + 1].order = o
      BY Zenon, <1>2, <1>3
    <3> QED
      BY Zenon, <3>1 DEF ReportOrders
  <2> QED
    BY Zenon, <1>2, <2>1, <2>2
<1>5. ReportsInv'
  <2> DEFINE Fits(k) ==
        /\ reports'[k].kind = "Fill" => trades'[reports'[k].order] > 0
        /\ reports'[k].kind \in {"Canceled", "Rejected", "Expired"} =>
             exchange'[reports'[k].order] = "done"
        /\ reports'[k].kind = "Accepted" =>
             \/ exchange'[reports'[k].order] = "open"
             \/ reports'[k].order \in missed'
             \/ \E j \in DOMAIN reports' : j > k /\ reports'[j].order = reports'[k].order
  <2>1. ASSUME NEW k \in DOMAIN reports PROVE Fits(k)
    <3>1. /\ reports[k].kind = "Fill" => trades[reports[k].order] > 0
          /\ reports[k].kind \in {"Canceled", "Rejected", "Expired"} =>
               exchange[reports[k].order] = "done"
          /\ reports[k].kind = "Accepted" =>
               \/ exchange[reports[k].order] = "open"
               \/ reports[k].order \in missed
               \/ \E j \in DOMAIN reports : j > k /\ reports[j].order = reports[k].order
      BY Zenon DEF SyncInv, ReportsInv
    <3>2. reports'[k] = reports[k] /\ reports[k].order \in Orders
      BY Zenon, <1>2, QueuedOrders
    <3>3. CASE reports[k].order = o
      <4>1. o \in missed' \/ \E j \in DOMAIN reports' : j > k /\ reports'[j].order = o
        <5>1. Len(reports) + 1 > k
          BY <1>1
        <5> QED
          BY Zenon, <1>2, <1>3, <5>1
      <4>2. reports[k].kind \notin {"Canceled", "Rejected", "Expired"}
        BY Zenon, <3>1, <3>3
      <4> QED
        BY Zenon, <3>1, <3>2, <3>3, <4>1, <4>2
    <3>4. CASE reports[k].order # o
      <4>1. /\ exchange'[reports[k].order] = exchange[reports[k].order]
            /\ trades'[reports[k].order] = trades[reports[k].order]
        BY Zenon, <3>2, <3>4
      <4>2. (\E j \in DOMAIN reports : j > k /\ reports[j].order = reports[k].order)
              => \E j \in DOMAIN reports' : j > k /\ reports'[j].order = reports[k].order
        BY Zenon, <1>2
      <4> QED
        BY SMT, <1>2, <3>1, <3>2, <4>1, <4>2
    <3> QED
      BY Zenon, <3>3, <3>4
  <2>2. ASSUME NEW k \in DOMAIN reports', k \notin DOMAIN reports PROVE Fits(k)
    <3>1. reports'[k] = Report(o, x)
      BY Zenon, <1>2, <2>2
    <3> QED
      BY Zenon, <1>3, <3>1
  <2> QED
    BY Zenon, <2>1, <2>2 DEF ReportsInv
<1>6. ASSUME NEW p \in Orders \ {o} PROVE OrderSync(p)'
  BY Zenon, <1>2, <1>4, OtherOrder DEF SyncInv
<1>7. OrderSync(o)'
  BY Zenon, <1>4 DEF OrderSync, Covered, Settled
<1> QED
  BY Zenon, <1>5, <1>6, <1>7 DEF SyncInv

\* reconcile_on_start asks the venue: what is open there is open in the log, or
\* is to be seeded.
LEMMA ListSync ==
  ASSUME SyncInv, List
  PROVE  SyncInv'
<1>1. /\ UNCHANGED <<log, exchange, trades, reports, mode>> /\ state' = "seeding"
      /\ missing' = OpenOrders \ LocalOpen /\ missed' = missed \ OpenOrders
  BY Zenon DEF List, storeVars
<1>2. ReportOrders' = ReportOrders /\ LocalOpen' = LocalOpen
  BY Zenon, <1>1 DEF ReportOrders, LocalOpen, ListOrders, Replay
<1>3. \A p \in missed : p \in missed' \/ exchange[p] = "open"
  BY Zenon, <1>1 DEF OpenOrders
<1>4. ReportsInv'
  BY Zenon, <1>1, <1>3 DEF SyncInv, ReportsInv
<1>5. ASSUME NEW p \in Orders PROVE OrderSync(p)'
  <2>1. Covered(p) => Covered(p)'
    BY Zenon, <1>1, <1>2, <1>3 DEF Covered
  <2>2. EndsWith(log', p, VenueAccepted) => Covered(p)
    BY Zenon, <1>1, <1>5 DEF SyncInv, OrderSync
  <2>3. p \in missing' => exchange'[p] = "open"
    BY Zenon, <1>1 DEF OpenOrders
  <2>4. Settled(p)' => p \in LocalOpen' \/ p \in missing'
    BY Zenon, <1>1, <1>2, <1>5 DEF Settled, OpenOrders
  <2> QED
    BY Zenon, <1>1, <2>1, <2>2, <2>3, <2>4 DEF OrderSync, Covered, VenueAccepted
<1> QED
  BY Zenon, <1>4, <1>5 DEF SyncInv

\* An order that is seeded is open in the log from the first append on, and
\* current or to be corrected.
LEMMA SeedSync ==
  ASSUME SyncInv, FlowInv, NEW o \in Orders, Seed(o) \/ PublishSeed(o)
  PROVE  SyncInv'
<1>1. /\ UNCHANGED <<exchange, trades, reports, missed, state, mode>> /\ o \in missing
      /\ missing' \in {missing, missing \ {o}}
      /\ \E s \in {"reconcile", "venue"} : log' = Appended(log, s, o, "Accepted")
  BY Zenon DEF Seed, PublishSeed, venueVars, processVars, Published, MapOpenOrder, EventOf
<1>2. ReportsInv' /\ ReportOrders' = ReportOrders
  BY Zenon, <1>1 DEF SyncInv, ReportsInv, ReportOrders
<1>3. PICK s \in Strategies, e \in Events : log' = Appended(log, s, o, e) /\ e \in Opening
  <2>1. "Accepted" \in Events /\ "Accepted" \in Opening
    BY Zenon DEF Events, Opening
  <2> QED
    BY Zenon, <1>1, <2>1, Names
<1>4. /\ EndsWith(log', o, [strategy |-> s, event |-> e])
      /\ OpenIn(log', o)
      /\ \A p \in Orders \ {o} : log'[p] = log[p]
  <2>1. log \in [Orders -> Seq(Entries)]
    BY Zenon DEF FlowInv, FlowType
  <2> QED
    BY Zenon, <1>3, <2>1, LogEnds
<1>5. ASSUME NEW p \in Orders \ {o} PROVE OrderSync(p)'
  BY Zenon, <1>1, <1>2, <1>4, OtherOrder DEF SyncInv
<1>6. OrderSync(o)'
  <2>1. Covered(o)'
    BY Zenon, <1>1, <1>2 DEF SyncInv, OrderSync, Covered
  <2>2. o \in LocalOpen'
    BY Zenon, <1>4, LocalOpenIs DEF EndsWith
  <2> QED
    BY Zenon, <2>1, <2>2 DEF OrderSync
<1> QED
  BY Zenon, <1>2, <1>5, <1>6 DEF SyncInv

\* A process that ends, or falls back on paper, drops its reports.
LEMMA DropSync ==
  ASSUME SyncInv, ReconcileInv, FallBack \/ Crash
  PROVE  SyncInv'
<1>1. /\ UNCHANGED <<log, exchange, trades>> /\ reports' = <<>>
      /\ missed' = missed \cup ReportOrders
      /\ state' = "down" \/ mode' = "paper"
      /\ state' # "seeding"
  BY Zenon DEF FallBack, Crash, storeVars, ReportOrders
<1>2. missing' = {}
  BY Zenon DEF FallBack, Crash, ReconcileInv
<1>3. ReportsInv' /\ ReportOrders' = {}
  BY <1>1 DEF ReportsInv, ReportOrders
<1>4. ASSUME NEW p \in Orders PROVE OrderSync(p)'
  <2>1. Covered(p) => Covered(p)'
    BY Zenon, <1>1 DEF Covered
  <2>2. EndsWith(log', p, VenueAccepted) => Covered(p)
    BY Zenon, <1>1, <1>4 DEF SyncInv, OrderSync
  <2>3. p \notin missing' /\ ~Following'
    BY Zenon, <1>1, <1>2 DEF Following
  <2> QED
    BY Zenon, <2>1, <2>2, <2>3 DEF OrderSync, VenueAccepted
<1> QED
  BY Zenon, <1>3, <1>4 DEF SyncInv

\* A change of state alone: before the list nothing is promised, and at its end
\* nothing is left to seed.
LEMMA StateSync ==
  ASSUME SyncInv, Start \/ Connect \/ Run
  PROVE  SyncInv'
<1>1. /\ UNCHANGED <<log, exchange, trades, reports, missed, missing>>
      /\ state' \in {"starting", "connected"} \/ (Run /\ state = "seeding" /\ missing = {})
  BY Zenon DEF Start, Connect, Run, storeVars, venueVars
<1>2. ReportsInv' /\ ReportOrders' = ReportOrders /\ LocalOpen' = LocalOpen
  BY Zenon, <1>1 DEF SyncInv, ReportsInv, ReportOrders, LocalOpen, ListOrders, Replay
<1>3. ASSUME NEW p \in Orders PROVE OrderSync(p)'
  <2>1. /\ EndsWith(log, p, VenueAccepted) => Covered(p)
        /\ p \in missing => Covered(p)
        /\ Following /\ Settled(p) =>
             \/ p \in LocalOpen
             \/ state = "seeding" /\ p \in missing
             \/ state = "up" /\ Refused(p)
    BY Zenon, <1>3 DEF SyncInv, OrderSync
  <2>2. (Covered(p)' <=> Covered(p)) /\ (Settled(p)' <=> Settled(p))
    BY Zenon, <1>1, <1>2 DEF Covered, Settled
  <2>3. ~Following' \/ (Following /\ state = "seeding" /\ missing = {})
    BY Zenon, <1>1 DEF Following
  <2>4. Following' /\ Settled(p)' => p \in LocalOpen'
    BY Zenon, <1>2, <2>1, <2>2, <2>3
  <2>5. EndsWith(log', p, VenueAccepted) => Covered(p)
    BY Zenon, <1>1, <2>1
  <2>6. p \in missing' => Covered(p)
    BY Zenon, <1>1, <2>1
  <2> QED
    BY Zenon, <2>2, <2>4, <2>5, <2>6 DEF OrderSync, VenueAccepted
<1> QED
  BY Zenon, <1>2, <1>3 DEF SyncInv

\* Every step of a command handler preserves SyncInv.
LEMMA HandlerSync ==
  ASSUME SyncInv, FlowInv, TaskInv, HandlerStep
  PROVE  SyncInv'
<1>0. /\ handler.at \in Acting => handler.id \in Orders
      /\ exchange \in [Orders -> {"none", "open", "done"}]
  BY Zenon DEF FlowInv, FlowType
<1>1. UNCHANGED <<missing, state, mode>> /\ state = "up"
  BY Zenon, HandlerMoves DEF FlowInv, FlowType, TaskInv, processVars
<1>2. CASE Mint \/ MintFirst \/ Publish
  <2>1. UNCHANGED <<log, exchange, trades, reports, missed>>
    BY Zenon, <1>2 DEF Mint, MintFirst, NextSeqFails, Publish, storeVars, venueVars
  <2> QED
    BY Zenon, <1>1, <2>1, QuietSync
<1>3. CASE Gate \/ PaperAccept \/ Posted \/ Strike \/ Deleted
  <2>1. UNCHANGED <<exchange, trades, reports, missed>> /\ handler.id \in Orders
    BY Zenon, <1>0, <1>3 DEF Gate, PaperAccept, Posted, Strike, Deleted, venueVars, Acting
  <2>2. \/ UNCHANGED log
        \/ \E e \in {"Denied", "Submitted", "Accepted", "Rejected", "PendingCancel"} :
             log' = Appended(log, "strategy", handler.id, e)
        \/ mode = "paper" /\ log' = Appended(log, "strategy", handler.id, "Canceled")
    BY Zenon, <1>3 DEF Gate, PaperAccept, Posted, Strike, Deleted, TaskInv
  <2>3. CASE UNCHANGED log
    BY Zenon, <1>1, <2>1, <2>3, QuietSync
  <2>4. ASSUME NEW e \in Events, log' = Appended(log, "strategy", handler.id, e),
               e \in Opening \cup {"Rejected", "Denied"} \/ mode = "paper"
        PROVE  SyncInv'
    BY Zenon, <1>1, <2>1, <2>4, HandlerLogSync
  <2>5. /\ {"Denied", "Submitted", "Accepted", "Rejected", "PendingCancel", "Canceled"}
             \subseteq Events
        /\ {"Denied", "Submitted", "Accepted", "Rejected", "PendingCancel"}
             \subseteq Opening \cup {"Rejected", "Denied"}
    BY Zenon DEF Events, Opening
  <2> QED
    BY Zenon, <2>2, <2>3, <2>4, <2>5
<1>4. ASSUME NEW a \in Attempts, Post(a) \/ Delete(a) PROVE SyncInv'
  <2>1. PICK o \in Orders : o = handler.id
    BY Zenon, <1>0, <1>4 DEF Post, Delete, Acting
  <2>2. UNCHANGED log /\ (PostOrder(o, a) \/ DeleteOrder(o, a))
    BY Zenon, <1>4, <2>1 DEF Post, Delete, storeVars
  <2>3. CASE ~a.applied
    <3>1. UNCHANGED <<exchange, trades, reports, missed>>
      BY Zenon, <2>2, <2>3 DEF PostOrder, DeleteOrder, venueVars
    <3> QED
      BY Zenon, <1>1, <2>2, <3>1, QuietSync
  <2>4. CASE a.applied
    <3>1. PICK st \in {"open", "done"}, x \in {"NEW", "REJECTED", "CANCELED"} :
            /\ Send(o, x) /\ exchange' = [exchange EXCEPT ![o] = st]
            /\ x = "NEW" <=> st = "open"
      <4>1. PostOrder(o, a) => Take(o)
        BY Zenon, <2>4 DEF PostOrder
      <4>2. DeleteOrder(o, a) =>
              Send(o, "CANCELED") /\ exchange' = [exchange EXCEPT ![o] = "done"]
        BY Zenon, <2>4 DEF DeleteOrder
      <4>3. "NEW" # "CANCELED" /\ "NEW" # "REJECTED" /\ "done" # "open"
        BY Zenon
      <4> QED
        BY Zenon, <2>2, <4>1, <4>2, <4>3 DEF Take
    <3>2. exchange[o] # "done" /\ UNCHANGED trades
      BY Zenon, <2>2, <2>4 DEF PostOrder, DeleteOrder
    <3>3. exchange'[o] = st /\ \A p \in Orders \ {o} : exchange'[p] = exchange[p]
      BY Zenon, <1>0, <3>1
    <3> QED
      BY Zenon, <1>1, <2>2, <3>1, <3>2, <3>3, VenueSync
  <2> QED
    BY Zenon, <2>3, <2>4
<1> QED
  BY Zenon, <1>2, <1>3, <1>4 DEF HandlerStep

\* What the venue does by itself preserves SyncInv: it reports it, or the
\* report is lost.
LEMMA VenueMoveSync ==
  ASSUME SyncInv, FlowInv, SwitchInv, VenueMove
  PROVE  SyncInv'
<1>0. /\ exchange \in [Orders -> {"none", "open", "done"}]
      /\ trades \in [Orders -> 0..MaxTrades]
  BY Zenon DEF FlowInv, FlowType, SwitchInv
<1>1. UNCHANGED <<log, missing, state, mode>>
  BY Zenon DEF VenueMove, outsideRest, storeVars, processVars
<1>2. ASSUME NEW o \in Orders, Trade(o) PROVE SyncInv'
  <2>1. /\ Send(o, "TRADE") /\ exchange[o] = "open"
        /\ trades' = [trades EXCEPT ![o] = trades[o] + 1]
        /\ UNCHANGED exchange \/ exchange' = [exchange EXCEPT ![o] = "done"]
    BY Zenon, <1>2 DEF Trade
  <2>2. /\ trades'[o] > 0
        /\ \A p \in Orders \ {o} : exchange'[p] = exchange[p] /\ trades'[p] = trades[p]
    BY <1>0, <2>1, TradesAssumption
  <2> QED
    BY Zenon, <1>1, <2>1, <2>2, VenueSync
<1>3. ASSUME NEW o \in Orders, Expire(o) PROVE SyncInv'
  <2>1. /\ Send(o, "EXPIRED") /\ exchange[o] = "open" /\ UNCHANGED trades
        /\ exchange' = [exchange EXCEPT ![o] = "done"]
    BY Zenon, <1>3 DEF Expire
  <2>2. exchange'[o] = "done" /\ \A p \in Orders \ {o} : exchange'[p] = exchange[p]
    BY Zenon, <1>0, <2>1
  <2> QED
    BY Zenon, <1>1, <2>1, <2>2, VenueSync
<1>4. CASE PlaceByHand(ByHand)
  <2>1. /\ Send(ByHand, "NEW") /\ exchange[ByHand] = "none" /\ UNCHANGED trades
        /\ exchange' = [exchange EXCEPT ![ByHand] = "open"]
    BY Zenon, <1>4 DEF PlaceByHand
  <2>2. /\ exchange'[ByHand] = "open" /\ ByHand \in Orders
        /\ \A p \in Orders \ {ByHand} : exchange'[p] = exchange[p]
    BY Zenon, <1>0, <2>1, Names
  <2> QED
    BY Zenon, <1>1, <2>1, <2>2, VenueSync
<1> QED
  BY Zenon, <1>2, <1>3, <1>4 DEF VenueMove

\* Every step preserves SyncInv.
LEMMA SyncInductive ==
  ASSUME SyncInv, FlowInv, TaskInv, ReconcileInv, SwitchInv, [Next]_vars
  PROVE  SyncInv'
<1>1. CASE Consume \/ UNCHANGED vars
  <2>1. UNCHANGED <<log, exchange, trades, reports, missed, missing, state, mode>>
    BY Zenon, <1>1 DEF Consume, Poll, Deliver, HandleNext, ControlMessage, ControlRequest,
                       processVars, storeVars, venueVars, vars
  <2> QED
    BY Zenon, <2>1, QuietSync
<1>2. CASE Reconnect \/ Disconnect \/ \E cmd \in Commands : SendCommand(cmd)
  <2>1. UNCHANGED <<log, exchange, trades, reports, missed, missing, state, mode>>
    BY Zenon, <1>2 DEF Reconnect, SocketUp, Disconnect, SocketDown, KeyExpires, SendCommand,
                       outsideRest, processVars, storeVars, venueVars
  <2> QED
    BY Zenon, <2>1, QuietSync
<1> QED
  BY Zenon, <1>1, <1>2, ListSync, SeedSync, DropSync, StateSync, HandlerSync, PumpSync,
     VenueMoveSync DEF Next, Boot, Outside

\* Loop, flow, tasks, reconciliation, switch and log hold together: a command is
\* at work only while the process is up, so that what a handler logs is logged
\* while the log follows the venue, or on paper.
LEMMA ServiceInvariance == Spec => []ServiceInv
<1>1. Init => TaskInv /\ ReconcileInv /\ SwitchInv /\ SyncInv
  <2> SUFFICES ASSUME Init PROVE TaskInv /\ ReconcileInv /\ SwitchInv /\ SyncInv
    BY Zenon
  <2>1. TaskInv
    BY Zenon, IdleHandler DEF Init, TaskInv
  <2>2. ReconcileInv
    BY NothingMissing DEF Init, ReconcileInv
  <2>3. SwitchInv
    <3>1. 0 \in 0..MaxTrades /\ 0 \in Nat
      BY TradesAssumption
    <3>2. trades = [o \in Orders |-> 0] /\ late = 0
      BY Zenon DEF Init, VenueInit
    <3>3. trades \in [Orders -> 0..MaxTrades] /\ late \in Nat
      BY Zenon, <3>1, <3>2
    <3> QED
      BY Zenon, <3>3 DEF Init, VenueInit, SwitchInv
  <2>4. /\ reports = <<>> /\ missing = {} /\ state = "down"
        /\ \A o \in Orders : log[o] = <<>>
    BY Zenon DEF Init, VenueInit, StoreInit
  <2>5. ReportsInv
    BY <2>4 DEF ReportsInv
  <2>6. SyncInv
    BY Zenon, <2>4, <2>5 DEF SyncInv, OrderSync, EndsWith, Following
  <2> QED
    BY Zenon, <2>1, <2>2, <2>3, <2>6
<1>2. ServiceInv /\ [Next]_vars => (TaskInv /\ ReconcileInv /\ SwitchInv /\ SyncInv)'
  BY Zenon, TaskInductive, ReconcileInductive, SwitchInductive, SyncInductive DEF ServiceInv
<1>3. ServiceInv <=> LoopInv /\ FlowInv /\ TaskInv /\ ReconcileInv /\ SwitchInv /\ SyncInv
  BY Zenon DEF ServiceInv
<1>4. QED
  BY <1>1, <1>2, <1>3, LoopInvariance, FlowInvariance, PTL DEF Spec

\* The service is well formed in every state, over any number of crashes: what is
\* to be seeded was counted in the summary, and a command is handled only by a
\* running process, inside the batch that brought it (main, redis_cmd_loop).
THEOREM ServiceTypeCorrect == Spec => []ExecTypeOK
<1>1. ServiceInv => ExecTypeOK
  <2> SUFFICES ASSUME ServiceInv PROVE ExecTypeOK
    BY Zenon
  <2>1. LoopInv /\ FlowInv /\ TaskInv /\ ReconcileInv /\ SwitchInv
    BY Zenon DEF ServiceInv
  <2>2. StoreTypeOK /\ handler \in Handlers
    BY Zenon, <2>1 DEF FlowInv, FlowType, StoreTypeOK
  <2>3. VenueTypeOK
    BY Zenon, <2>1 DEF FlowInv, FlowType, SwitchInv, VenueTypeOK, ReportType
  <2>4. cmds \in Seq(Commands) /\ loop \in Consumers /\ handled \subseteq DOMAIN cmds
    BY <2>1 DEF LoopInv
  <2> QED
    BY Zenon, <2>1, <2>2, <2>3, <2>4 DEF ExecTypeOK, TaskInv, ReconcileInv, SwitchInv
<1>2. QED
  BY <1>1, ServiceInvariance, PTL

\* An Accepted that ends the log of an order under "venue" is current: the order
\* is open at the venue, or the report that corrects the log is queued, or was
\* lost.  Seeds come before the reports are taken, and reports keep their order.
THEOREM AcceptedStaysCurrent == Spec => []AcceptedIsCurrent
<1>1. ServiceInv => AcceptedIsCurrent
  BY Zenon DEF ServiceInv, SyncInv, OrderSync, AcceptedIsCurrent, EndsWith, VenueAccepted,
               Covered, ReportOrders
<1>2. QED
  BY <1>1, ServiceInvariance, PTL

\* On the venue the log misses no open order: one that never traded, of which
\* nothing is queued or lost and which the service did not refuse itself, is open
\* in the log, wherever an earlier life of the process was cut off.
THEOREM OpenOrdersAreLogged == Spec => []OpenIsLoggedOpen
<1>1. ServiceInv => OpenIsLoggedOpen
  <2> SUFFICES ASSUME ServiceInv, NEW o \in Orders, state = "up", mode = "venue",
                      exchange[o] = "open", trades[o] = 0, o \notin missed,
                      \A k \in DOMAIN reports : reports[k].order # o,
                      log[o] # <<>> => log[o][Len(log[o])].event \notin {"Rejected", "Denied"}
               PROVE  o \in LocalOpen
    BY Zenon DEF OpenIsLoggedOpen
  <2>1. Following /\ Settled(o) /\ ~Refused(o)
    BY Zenon DEF Following, Settled, Refused, ReportOrders
  <2>2. o \in LocalOpen \/ state = "seeding"
    BY Zenon, <2>1 DEF ServiceInv, SyncInv, OrderSync
  <2> QED
    BY Zenon, <2>2
<1>2. QED
  BY <1>1, ServiceInvariance, PTL
=============================================================================

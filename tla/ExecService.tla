----------------------------- MODULE ExecService -----------------------------
(***************************************************************************)
(* The execution service, coinext-exec-svc: a process that reads commands  *)
(* from a Redis stream, keeps every order event in a durable log, sends    *)
(* orders to the venue, or fills them on paper when it could not connect,  *)
(* obeys a kill switch, and may crash at any moment.                       *)
(*                                                                         *)
(* Three tasks share the log and the kill switch: the command loop, with   *)
(* the handler it awaits; the pump of venue reports; and the consumers of  *)
(* kill-switch messages, whose timing is arbitrary.  A step reaches from   *)
(* one await, or one durable write, to the next.  The command stream is a  *)
(* sequence and a stream id a position.  The stream coinext.exec is an     *)
(* output that nothing here reads: adding to it is a step without effect.  *)
(***************************************************************************)
EXTENDS EventStore, BinanceVenue, FiniteSets

\* A message of a Redis stream has one field, an envelope with a MsgType.
Fields == {"e", "data", "other"}
MsgTypes == {7, 8}

CONSTANTS
  None,         \* no client order id
  Commands,     \* the messages a client may add to the command stream
  ControlMessages,  \* what may be on the stream coinext.control
  ControlRequests,  \* what the control port may be asked
  ByHand,       \* the order that is placed outside the service
  MaxMinted,    \* bound on the ids the service mints
  MaxCommands,  \* bound on the length of the command stream
  MaxIncidents  \* bound on the crashes, the drops of the socket, the errors of
                \* the cursor, the uses of the kill switch and the venue's own
                \* moves, taken together

ASSUME ServiceAssumption ==
  /\ IsFiniteSet(Orders)
  /\ MaxMinted \in Nat \ {0}
  /\ 1..MaxMinted \subseteq Orders
  /\ ByHand \in Orders \ (1..MaxMinted)
  /\ None \notin Orders
  /\ Commands \subseteq [field : Fields, type : MsgTypes,
                          kind : {"submit", "cancel", "other"}, id : Orders \cup {None}]
  /\ \A cmd \in Commands : cmd.kind = "submit" => cmd.id \notin 1..MaxMinted
  /\ ControlMessages \subseteq [field : Fields, type : MsgTypes,
                                 kind : {"CtrlKillSwitch", "other"}, engaged : BOOLEAN]
  /\ ControlRequests \subseteq [line : {"POST /killswitch", "other"}, disengage : BOOLEAN]
  /\ {"strategy", "venue", "reconcile"} \subseteq Strategies
  /\ MaxCommands \in Nat

VARIABLES
  cmds,        \* the stream coinext.exec.cmd
  state,       \* "down", "starting", "connected", "seeding" or "up"
  mode,        \* "venue" or "paper"
  missing,     \* missing_local: open orders that are still to be seeded
  summary,     \* the ReconcileSummary on its way to the operators
  kill,        \* the kill switch
  loop,        \* the command loop's place in its stream
  handler,     \* the command being handled
  handled,     \* the commands whose handling has begun (auxiliary)
  late,        \* orders the venue took since the kill switch (auxiliary)
  incidents    \* what MaxIncidents bounds

processVars == <<state, mode, missing, summary>>
vars == <<storeVars, venueVars, cmds, processVars, kill, loop,
          handler, handled, late, incidents>>

\* The stream id "$": only what is added after the read is issued.
Dollar == MaxCommands + 1

\* A consumer is blocked in XREAD behind position "upto", or works through a
\* batch that ends there; "last" is its last_id.
Consumers == [at : {"blocked", "batch"}, last : 0..Dollar, upto : 0..Dollar]

\* Variant: a consumer starts at the beginning of its stream.
NewConsumerFromZero == [at |-> "batch", last |-> 0, upto |-> 0]

NewConsumer == [at |-> "batch", last |-> Dollar, upto |-> Dollar]

Idle == [at |-> "idle", id |-> None, attempt |-> 0, reply |-> "ok"]

\* reconcile_on_start: what the venue and the log disagree on.
Summary(venue, local) ==
  [venue_open |-> Cardinality(venue), local_open |-> Cardinality(local),
   orphans |-> Cardinality(local \ venue),
   missing_local |-> Cardinality(venue \ local),
   ok |-> local = venue]

NoSummary == Summary({}, {})

Handlers ==
  [at : {"idle", "mint", "gate", "accept", "post", "posted", "strike",
         "delete", "deleted", "publish"},
   id : Orders \cup {None}, attempt : 0..MaxRetries, reply : Replies]

\* What is well formed in every state of the service; a command is handled
\* only inside the batch that brought it.
ExecTypeOK ==
  /\ StoreTypeOK
  /\ VenueTypeOK
  /\ cmds \in Seq(Commands)
  /\ state \in {"down", "starting", "connected", "seeding", "up"}
  /\ mode \in {"venue", "paper"}
  /\ missing \subseteq Orders
  /\ Cardinality(missing) <= summary.missing_local
  /\ summary.ok <=> summary.orphans = 0 /\ summary.missing_local = 0
  /\ kill \in BOOLEAN
  /\ loop \in Consumers
  /\ handler \in Handlers
  /\ handled \subseteq DOMAIN cmds
  /\ late \in Nat
  /\ handler.at # "idle" =>
       state = "up" /\ loop.at = "batch" /\ loop.last \in DOMAIN cmds

Init ==
  /\ StoreInit
  /\ VenueInit
  /\ cmds = <<>>
  /\ state = "down"
  /\ mode = "paper"
  /\ missing = {}
  /\ summary = NoSummary
  /\ kill = FALSE
  /\ loop = NewConsumer
  /\ handler = Idle
  /\ handled = {}
  /\ late = 0
  /\ incidents = 0

-----------------------------------------------------------------------------
\* Start and reconcile.

Opening == {"Submitted", "Accepted", "PendingCancel"}
Closing == {"Filled", "Canceled", "Rejected", "Denied"}

\* local_open_client_ids: the last opening event has no closing one behind it.
LocalOpen ==
  {o \in ListOrders :
     \E k \in DOMAIN Replay(o) :
       /\ Replay(o)[k].event \in Opening
       /\ \A j \in DOMAIN Replay(o) : j > k => Replay(o)[j].event \notin Closing}

\* main up to the bridge: the kill switch starts released.
Start ==
  /\ state = "down"
  /\ state' = "starting"
  /\ kill' = FALSE
  /\ late' = 0
  /\ UNCHANGED <<storeVars, venueVars, cmds, mode, missing, summary, loop, handler, handled,
                 incidents>>

\* Without a bridge the service runs on paper; what the client held is dropped.
FallBack ==
  /\ state \in {"starting", "connected"}
  /\ state' = "up"
  /\ mode' = "paper"
  /\ key' = FALSE
  /\ socket' = FALSE
  /\ reports' = <<>>
  /\ missed' = missed \cup {reports[k].order : k \in DOMAIN reports}
  /\ UNCHANGED <<storeVars, exchange, trades, cmds, missing, summary, kill, loop,
                 handler, handled, late, incidents>>

\* try_from_env up to connect: the key is there, the socket is coming.
Connect ==
  /\ state = "starting"
  /\ Admitted(ListenKeyRequest)
  /\ state' = "connected"
  /\ key' = TRUE
  /\ UNCHANGED <<storeVars, exchange, trades, socket, reports, missed, cmds,
                 mode, missing, summary, kill, loop, handler, handled, late,
                 incidents>>

\* reconcile_on_start up to the loop: the venue answers, and what it has open
\* and the log has not is missing.  Orphans are counted and left as they are.
List ==
  /\ state = "connected"
  /\ Admitted(OpenOrdersRequest)
  /\ state' = "seeding"
  /\ missing' = OpenOrders \ LocalOpen
  /\ summary' = Summary(OpenOrders, LocalOpen)
  /\ missed' = missed \ OpenOrders
  /\ UNCHANGED <<storeVars, exchange, trades, key, socket, reports, cmds,
                 mode, kill, loop, handler, handled, late, incidents>>

\* Variant: reconcile only counts.
SeedCounts(o) ==
  /\ state = "seeding"
  /\ o \in missing
  /\ missing' = missing \ {o}
  /\ UNCHANGED <<storeVars, venueVars, cmds, state, mode, summary, kill, loop,
                 handler, handled, late, incidents>>

\* publish_venue_report: every fill is logged as Filled, and a report of any
\* other kind as Submitted.
EventOf(kind) ==
  CASE kind = "Fill"    -> "Filled"
    [] kind = "Expired" -> "Submitted"
    [] OTHER            -> kind

\* publish_venue_report: the event goes to the log under "venue", whatever
\* strategy the order has, and to coinext.exec.
Published(l, report) == Appended(l, "venue", report.order, EventOf(report.kind))

\* The order that the loop of reconcile_on_start is at.
Seeded(o) ==
  /\ log[o] # <<>>
  /\ log[o][Len(log[o])] = [strategy |-> "reconcile", event |-> "Accepted"]

\* The loop of reconcile_on_start: Accepted goes to the log twice, once under
\* "reconcile" ...
Seed(o) ==
  /\ state = "seeding"
  /\ o \in missing
  /\ \A p \in missing : ~Seeded(p)
  /\ log' = Appended(log, "reconcile", o, "Accepted")
  /\ UNCHANGED <<cursor, cursor_failed, venueVars, cmds, processVars, kill, loop,
                 handler, handled, late, incidents>>

\* ... and once in publish_venue_report.
PublishSeed(o) ==
  /\ state = "seeding"
  /\ o \in missing
  /\ Seeded(o)
  /\ log' = Published(log, MapOpenOrder(o))
  /\ missing' = missing \ {o}
  /\ UNCHANGED <<cursor, cursor_failed, venueVars, cmds, state, mode, summary, kill, loop,
                 handler, handled, late, incidents>>

\* The summary goes to coinext.exec and the metrics, the report stream is taken
\* and the tasks of main are spawned.
Run ==
  /\ state = "seeding"
  /\ missing = {}
  /\ state' = "up"
  /\ mode' = "venue"
  /\ summary' = NoSummary
  /\ UNCHANGED <<storeVars, venueVars, cmds, missing, kill, loop, handler, handled,
                 late, incidents>>

Incident ==
  /\ incidents < MaxIncidents
  /\ incidents' = incidents + 1

\* Variant: the counter lives in memory.
CrashResetsCursor ==
  /\ state # "down"
  /\ Incident
  /\ state' = "down"
  /\ mode' = "paper"
  /\ missing' = {}
  /\ summary' = NoSummary
  /\ kill' = FALSE
  /\ late' = 0
  /\ loop' = NewConsumer
  /\ handler' = Idle
  /\ key' = FALSE
  /\ socket' = FALSE
  /\ reports' = <<>>
  /\ missed' = missed \cup {reports[k].order : k \in DOMAIN reports}
  /\ cursor' = 0
  /\ UNCHANGED <<log, cursor_failed, exchange, trades, cmds, handled>>

\* A crash, or a shutdown: tokio drops every task where it waits.
Crash ==
  /\ state # "down"
  /\ Incident
  /\ state' = "down"
  /\ mode' = "paper"
  /\ missing' = {}
  /\ summary' = NoSummary
  /\ kill' = FALSE
  /\ late' = 0
  /\ loop' = NewConsumer
  /\ handler' = Idle
  /\ key' = FALSE
  /\ socket' = FALSE
  /\ reports' = <<>>
  /\ missed' = missed \cup {reports[k].order : k \in DOMAIN reports}
  /\ UNCHANGED <<storeVars, exchange, trades, cmds, handled>>

-----------------------------------------------------------------------------
\* The consumers of Redis and of the control port.

\* XREAD is issued: "$" stands for the end of the stream at this moment.
Polled(c) ==
  [c EXCEPT !.at = "blocked", !.upto = IF c.last = Dollar THEN Len(cmds) ELSE c.last]

\* XREAD returns what lies behind the position, or nothing after five seconds.
Delivered(c) ==
  IF Len(cmds) > c.upto
  THEN [at |-> "batch", last |-> c.upto, upto |-> Len(cmds)]
  ELSE [c EXCEPT !.at = "batch", !.upto = c.last]

\* Variant: the loop does not wait for the handler.
PollAhead ==
  /\ state = "up"
  /\ loop.at = "batch"
  /\ loop.last = loop.upto
  /\ loop' = Polled(loop)
  /\ UNCHANGED <<storeVars, venueVars, cmds, processVars, kill, handler, handled,
                 late, incidents>>

\* redis_cmd_loop, once the batch is done with.
Poll ==
  /\ state = "up"
  /\ handler = Idle
  /\ loop.at = "batch"
  /\ loop.last = loop.upto
  /\ loop' = Polled(loop)
  /\ UNCHANGED <<storeVars, venueVars, cmds, processVars, kill, handler, handled,
                 late, incidents>>

\* XREAD returns, or Redis fails, which ends the loop: main begins it anew.
Deliver ==
  /\ loop.at = "blocked"
  /\ loop' \in {Delivered(loop), NewConsumer}
  /\ UNCHANGED <<storeVars, venueVars, cmds, processVars, kill, handler, handled,
                 late, incidents>>

\* stream_field_bytes: the first of the two fields.
HasField(m) == m.field \in {"e", "data"}

\* The kill switch is stored; orders are counted from when it is engaged.
StoreKill(engaged) ==
  /\ Incident
  /\ kill' = engaged
  /\ late' = IF kill /\ engaged THEN late ELSE 0

\* parse_kill_switch
ParseKillSwitch(m) == m.type = 8 /\ m.kind = "CtrlKillSwitch"

\* redis_control_loop: a message that is no kill switch is passed over.
ControlMessage(m) ==
  /\ state = "up"
  /\ IF HasField(m) /\ ParseKillSwitch(m)
     THEN StoreKill(m.engaged)
     ELSE UNCHANGED <<kill, late, incidents>>
  /\ UNCHANGED <<storeVars, venueVars, cmds, processVars, loop, handler, handled>>

\* handle_control: a POST engages the switch unless its body says otherwise;
\* every other request only reads.
ControlRequest(req) ==
  /\ state = "up"
  /\ IF req.line = "POST /killswitch"
     THEN StoreKill(~req.disengage)
     ELSE UNCHANGED <<kill, late, incidents>>
  /\ UNCHANGED <<storeVars, venueVars, cmds, processVars, loop, handler, handled>>

-----------------------------------------------------------------------------
\* The handler of a command.

Goto(at) == handler' = [handler EXCEPT !.at = at]

handlerRest == <<cmds, processVars, kill, loop, handled, incidents>>

\* decode_cmd_envelope
DecodeCmd(m) == m.type = 7

\* handle_cancel up to the venue: without an id there is only an error.
CancelStep(cmd) ==
  IF cmd.id = None THEN "publish" ELSE IF mode = "venue" THEN "delete" ELSE "strike"

\* handle_async: a submit without an id mints one, an unknown kind is answered
\* with an error.
FirstStep(cmd) ==
  CASE cmd.kind = "submit" -> IF cmd.id = None THEN "mint" ELSE "gate"
    [] cmd.kind = "cancel" -> CancelStep(cmd)
    [] OTHER               -> "publish"

\* The next message of the batch: last_id moves first, and a message that is
\* no command is passed over.
HandleNext ==
  /\ loop.at = "batch"
  /\ loop.last < loop.upto
  /\ handler = Idle
  /\ loop' = [loop EXCEPT !.last = @ + 1]
  /\ handled' = handled \cup {loop.last + 1}
  /\ LET m == cmds[loop.last + 1] IN
       handler' = IF HasField(m) /\ DecodeCmd(m)
                  THEN [Idle EXCEPT !.id = m.id, !.at = FirstStep(m)] ELSE Idle
  /\ UNCHANGED <<storeVars, venueVars, cmds, processVars, kill, late,
                 incidents>>

\* handle_submit: the id of the order.
Mint ==
  /\ handler.at = "mint"
  /\ cursor < MaxMinted
  /\ handler' = [handler EXCEPT !.at = "gate", !.id = NextSeq]
  /\ cursor' = NextSeq
  /\ UNCHANGED <<log, cursor_failed, venueVars, handlerRest, late>>

\* handle_submit: the cursor fails, and the order gets the first id, whoever
\* has it already.
MintFirst ==
  /\ handler.at = "mint"
  /\ Incident
  /\ NextSeqFails
  /\ handler' = [handler EXCEPT !.at = "gate", !.id = 1]
  /\ UNCHANGED <<venueVars, cmds, processVars, kill, loop, handled, late>>

\* Variant: with a venue the switch is not looked at.
GatePaper ==
  /\ handler.at = "gate"
  /\ IF kill /\ mode = "paper"
     THEN /\ log' = Appended(log, "strategy", handler.id, "Denied")
          /\ Goto("publish")
     ELSE /\ log' = Appended(log, "strategy", handler.id, "Submitted")
          /\ Goto(IF mode = "venue" THEN "post" ELSE "accept")
  /\ UNCHANGED <<cursor, cursor_failed, venueVars, handlerRest, late>>

\* Variant: the intent is logged when the venue has answered.
GateUnlogged ==
  /\ handler.at = "gate"
  /\ IF kill
     THEN /\ log' = Appended(log, "strategy", handler.id, "Denied")
          /\ Goto("publish")
     ELSE /\ UNCHANGED log
          /\ Goto(IF mode = "venue" THEN "post" ELSE "accept")
  /\ UNCHANGED <<cursor, cursor_failed, venueVars, handlerRest, late>>

\* handle_submit: the kill switch, and the durable Denied or Submitted.
Gate ==
  /\ handler.at = "gate"
  /\ IF kill
     THEN /\ log' = Appended(log, "strategy", handler.id, "Denied")
          /\ Goto("publish")
     ELSE /\ log' = Appended(log, "strategy", handler.id, "Submitted")
          /\ Goto(IF mode = "venue" THEN "post" ELSE "accept")
  /\ UNCHANGED <<cursor, cursor_failed, venueVars, handlerRest, late>>

\* handle_submit on paper: the fill is published and never logged.
PaperAccept ==
  /\ handler.at = "accept"
  /\ log' = Appended(log, "strategy", handler.id, "Accepted")
  /\ Goto("publish")
  /\ UNCHANGED <<cursor, cursor_failed, venueVars, handlerRest, late>>

\* Variant: the count of attempts starts over.
AnswerForever(req, a, done) ==
  handler' =
    IF a.reply # "ok" /\ ShouldRetry(req, a.reply, 0)
    THEN [handler EXCEPT !.attempt = (@ + 1) % (MaxRetries + 1)]
    ELSE [handler EXCEPT !.at = done, !.reply = a.reply]

\* RestClient::send: a failure is retried, or ends the call.
Answer(req, a, done) ==
  handler' =
    IF a.reply # "ok" /\ ShouldRetry(req, a.reply, handler.attempt)
    THEN [handler EXCEPT !.attempt = @ + 1]
    ELSE [handler EXCEPT !.at = done, !.reply = a.reply]

\* submit_market: one attempt of the POST.  An order that cannot be built, and
\* an id that the venue knows, end like a refusal.
Post(a) ==
  /\ handler.at = "post"
  /\ PostOrder(handler.id, a)
  /\ late' = IF kill /\ a.applied THEN late + 1 ELSE late
  /\ Answer(SubmitRequest, a, "posted")
  /\ UNCHANGED <<storeVars, handlerRest>>

\* handle_submit behind the await.
Posted ==
  /\ handler.at = "posted"
  /\ log' = IF handler.reply = "ok" THEN log
            ELSE Appended(log, "strategy", handler.id, "Rejected")
  /\ Goto("publish")
  /\ UNCHANGED <<cursor, cursor_failed, venueVars, handlerRest, late>>

\* handle_cancel on paper: whatever the order is, it is Canceled.
Strike ==
  /\ handler.at = "strike"
  /\ log' = Appended(log, "strategy", handler.id, "Canceled")
  /\ Goto("publish")
  /\ UNCHANGED <<cursor, cursor_failed, venueVars, handlerRest, late>>

\* VenueBridge::cancel: one attempt of the DELETE.
Delete(a) ==
  /\ handler.at = "delete"
  /\ DeleteOrder(handler.id, a)
  /\ Answer(CancelRequest, a, "deleted")
  /\ UNCHANGED <<storeVars, handlerRest, late>>

\* handle_cancel behind the await: only a success is logged.
Deleted ==
  /\ handler.at = "deleted"
  /\ log' = IF handler.reply = "ok"
            THEN Appended(log, "strategy", handler.id, "PendingCancel") ELSE log
  /\ Goto("publish")
  /\ UNCHANGED <<cursor, cursor_failed, venueVars, handlerRest, late>>

\* The events of the command are added to coinext.exec, or that fails.
Publish ==
  /\ handler.at = "publish"
  /\ handler' = Idle
  /\ UNCHANGED <<storeVars, venueVars, handlerRest, late>>

-----------------------------------------------------------------------------
\* The pump of venue reports.

pumpRest == <<cursor, cursor_failed, exchange, trades, key, socket, missed, cmds,
              processVars, kill, loop, handler, handled, late, incidents>>

\* Variant: the reports are taken before the orders are reconciled.
PumpEarly ==
  /\ state \in {"connected", "seeding"} \/ (state = "up" /\ mode = "venue")
  /\ reports # <<>>
  /\ log' = Published(log, Head(reports))
  /\ reports' = Tail(reports)
  /\ UNCHANGED pumpRest

Pump ==
  /\ state = "up"
  /\ mode = "venue"
  /\ reports # <<>>
  /\ log' = Published(log, Head(reports))
  /\ reports' = Tail(reports)
  /\ UNCHANGED pumpRest

-----------------------------------------------------------------------------
\* What the service does not control.

outsideRest == <<storeVars, processVars, kill, loop, handler, handled, late>>

\* A client adds a command.
SendCommand(cmd) ==
  /\ Len(cmds) < MaxCommands
  /\ cmds' = Append(cmds, cmd)
  /\ UNCHANGED <<venueVars, outsideRest, incidents>>

\* The venue works on its orders.
VenueMove ==
  /\ Incident
  /\ \/ \E o \in Orders : Trade(o) \/ Expire(o)
     \/ PlaceByHand(ByHand)
  /\ UNCHANGED <<cmds, outsideRest>>

\* The socket opens, drops or loses its key.
Reconnect ==
  /\ SocketUp
  /\ UNCHANGED <<cmds, outsideRest, incidents>>

Disconnect ==
  /\ Incident
  /\ SocketDown \/ KeyExpires
  /\ UNCHANGED <<cmds, outsideRest>>

\* The steps of a handler: between two of them it awaits a bounded time.
HandlerStep ==
  \/ Mint \/ MintFirst \/ Gate \/ PaperAccept \/ Posted \/ Strike \/ Deleted \/ Publish
  \/ \E a \in Attempts : Post(a) \/ Delete(a)

Boot ==
  \/ Start \/ FallBack \/ Connect \/ List \/ Run
  \/ \E o \in Orders : Seed(o) \/ PublishSeed(o)

Consume ==
  \/ Poll \/ Deliver \/ HandleNext
  \/ \E m \in ControlMessages : ControlMessage(m)
  \/ \E req \in ControlRequests : ControlRequest(req)

Outside ==
  \/ \E cmd \in Commands : SendCommand(cmd)
  \/ VenueMove \/ Reconnect \/ Disconnect

Next == Boot \/ Crash \/ Consume \/ HandlerStep \/ Pump \/ Outside

Spec == Init /\ [][Next]_vars

\* Fairness: the runtime resumes a handler whose await is over, and every call
\* it awaits ends, a request because RestConfig bounds it by a timeout.
FairSpec == Spec /\ WF_vars(HandlerStep)

-----------------------------------------------------------------------------
\* Properties.

\* An id that the service mints was never sent to the venue and never submitted
\* before, in this life of the process or an earlier one (SqliteSeqCursor); only
\* the first id, which every order gets while the cursor fails, may be given
\* away again, by a later failure or by the cursor itself.
FreshIds ==
  [][/\ handler.at = "mint"
     /\ handler'.at = "gate"
     /\ handler'.id = 1 => ~cursor_failed'
     => /\ exchange[handler'.id] = "none"
        /\ "Submitted" \notin Logged(handler'.id)]_vars

\* The venue holds no order of the service whose Submitted is not in the log,
\* wherever the process crashed (handle_submit appends before it sends).
LoggedBeforeSent ==
  \A o \in Orders \ {ByHand} :
    exchange[o] # "none" => "Submitted" \in Logged(o)

\* Once the kill switch is engaged, the venue takes at most the one order that
\* was already past the gate, however often its POST is retried.
KillStops == kill => late <= 1

\* No command is handled twice: neither a restart nor an error of Redis reads
\* what was read before (last_id moves before the command is handled).
HandledAtMostOnce ==
  [][handler = Idle /\ handler' # Idle => loop'.last \notin handled]_vars

\* An order whose last word in the log is the venue's Accepted is open at the
\* venue, or the report that corrects the log is queued, or was lost
\* (reconcile_on_start seeds before the report stream is taken).
AcceptedIsCurrent ==
  \A o \in Orders :
    /\ log[o] # <<>>
    /\ log[o][Len(log[o])] = [strategy |-> "venue", event |-> "Accepted"]
    => \/ exchange[o] = "open"
       \/ o \in missed
       \/ \E k \in DOMAIN reports : reports[k].order = o

\* While the service runs on the venue, an untraded order that is open there is
\* open in the log, unless a report of it was lost, is queued, or the log ends
\* with a refusal the service gave itself (reconcile_on_start, the pump).
OpenIsLoggedOpen ==
  \A o \in Orders :
    /\ state = "up"
    /\ mode = "venue"
    /\ exchange[o] = "open"
    /\ trades[o] = 0
    /\ o \notin missed
    /\ \A k \in DOMAIN reports : reports[k].order # o
    /\ log[o] # <<>> => log[o][Len(log[o])].event \notin {"Rejected", "Denied"}
    => o \in LocalOpen

\* A command that is being handled is done with, through retries and lost
\* answers, so that the next one gets its turn (RestClient::send).
Answered == handler # Idle ~> handler = Idle
=============================================================================

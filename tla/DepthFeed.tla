------------------------------ MODULE DepthFeed ------------------------------
(***************************************************************************)
(* BinanceDataClient (coinext-adapters-binance/src/data.rs and book.rs) up *)
(* to the core's OrderBook: frames come over a socket that may drop, depth *)
(* diffs go through a resyncer that bridges every gap with a REST snapshot *)
(* and decides which deltas reach the core, and trades and quotes of the   *)
(* same socket are sent on by the same task.                               *)
(*                                                                         *)
(* One instrument.  The venue numbers its updates 1, 2, ...; the content   *)
(* of a price level is the number of the update that set it, and 0 is no   *)
(* level.  A removal is a content like any other.  Sides, prices and sizes *)
(* are left out.                                                           *)
(***************************************************************************)
EXTENDS Naturals, Sequences, FiniteSetsExt

CONSTANTS
  Levels,       \* the price levels
  Touched,      \* the level that each update of the venue sets
  Streams,      \* the other streams the client subscribes to
  MaxLag,       \* bound on the updates by which a snapshot is behind
  MaxBuffer,    \* bound on the frames between the socket and the pump
  MaxFaults,    \* bound on drops of the socket, bad frames and failed fetches
  Reconnected,  \* WsMessage::Reconnected
  None

ASSUME FeedAssumption ==
  /\ Touched \in Seq(Levels)
  /\ Streams \subseteq {"trade", "bookTicker", "kline"}
  /\ MaxLag \in Nat
  /\ MaxBuffer \in Nat
  /\ MaxFaults \in Nat

Ids == 0..Len(Touched)

VARIABLES
  now, sent,  \* the venue: its last update, and the last one it put in a frame
  socket,     \* the socket is open
  inbox,      \* the messages of WsClient that wait for the pump
  book,       \* LocalOrderBook: last_update_id and synced
  buffer,     \* diffs that wait for a snapshot
  awaiting,   \* awaiting_snapshot
  frame,      \* the diff whose handling waits for a snapshot, or None
  core,       \* the core's OrderBook: its levels and last_sequence
  tape,       \* the last event of another stream that the core got
  fetches,    \* snapshots fetched for the frame up to 3 (auxiliary)
  base,       \* the snapshot the book was last installed from (auxiliary)
  covered,    \* updates of the diffs applied since then (auxiliary)
  whole,      \* the core got the snapshot and every diff since (auxiliary)
  faults

venueVars == <<now, sent, socket>>
syncVars == <<book, buffer, awaiting>>
auxVars == <<fetches, base, covered, whole>>
vars == <<venueVars, inbox, syncVars, frame, core, tape, auxVars, faults>>

\* DepthUpdate: the updates first..last.
Diffs == [first : Ids, last : Ids]

\* A frame of another stream.
Ticks == [stream : Streams]

ASSUME MessageAssumption ==
  /\ None \notin Ids \cup Diffs
  /\ Reconnected \notin Diffs \cup Ticks

\* What is well formed in every state; a frame waits only while the resyncer
\* awaits a snapshot.
DepthTypeOK ==
  /\ now \in Ids /\ sent \in Ids /\ sent <= now
  /\ socket \in BOOLEAN
  /\ inbox \in Seq(Diffs \cup Ticks \cup {Reconnected})
  /\ book \in [last : Ids, synced : BOOLEAN]
  /\ buffer \in Seq(Diffs)
  /\ awaiting \in BOOLEAN
  /\ frame \in Diffs \cup {None}
  /\ core \in [level : [Levels -> Ids], sequence : Ids]
  /\ tape \in {"None", "Trade", "Quote"}
  /\ base \in Ids
  /\ covered \subseteq Ids
  /\ whole \in BOOLEAN
  /\ frame # None => awaiting /\ ~book.synced
  /\ buffer # <<>> => awaiting

NewBook == [last |-> 0, synced |-> FALSE]
NoLevels == [l \in Levels |-> 0]

Init ==
  /\ now = 0 /\ sent = 0
  /\ socket = TRUE
  /\ inbox = <<>>
  /\ book = NewBook
  /\ buffer = <<>>
  /\ awaiting = FALSE
  /\ frame = None
  /\ core = [level |-> NoLevels, sequence |-> 0]
  /\ tape = "None"
  /\ fetches = 0
  /\ base = 0
  /\ covered = {}
  /\ whole = FALSE
  /\ faults = 0

-----------------------------------------------------------------------------
\* The venue and the socket.

\* The venue's book after update n.
BookAt(n) ==
  [l \in Levels |-> Max({0} \cup {i \in 1..n : Touched[i] = l})]

Fault ==
  /\ faults < MaxFaults
  /\ faults' = faults + 1

pumpVars == <<syncVars, frame, core, tape, auxVars>>

Update ==
  /\ now < Len(Touched)
  /\ now' = now + 1
  /\ UNCHANGED <<sent, socket, inbox, pumpVars, faults>>

\* The stream sends what has changed; without a socket it is lost.
SendFrame ==
  /\ sent < now
  /\ Len(inbox) < MaxBuffer
  /\ sent' = now
  /\ inbox' = IF socket THEN Append(inbox, [first |-> sent + 1, last |-> now]) ELSE inbox
  /\ UNCHANGED <<now, socket, pumpVars, faults>>

\* A frame of another stream: one of them waits at a time.
Waiting(tick) == \E k \in DOMAIN inbox : inbox[k] = tick

SendTick(tick) ==
  /\ socket
  /\ Len(inbox) < MaxBuffer
  /\ \A t \in Ticks : ~Waiting(t)
  /\ inbox' = Append(inbox, tick)
  /\ UNCHANGED <<venueVars, pumpVars, faults>>

\* WsClient::run_loop: a drop is announced before the next connect.
Drop ==
  /\ socket
  /\ Fault
  /\ socket' = FALSE
  /\ inbox' = Append(inbox, Reconnected)
  /\ UNCHANGED <<now, sent, pumpVars>>

Connect ==
  /\ ~socket
  /\ socket' = TRUE
  /\ UNCHANGED <<now, sent, inbox, pumpVars, faults>>

-----------------------------------------------------------------------------
\* LocalOrderBook.

\* check_first
CheckFirst(d, snapshot) == d.first <= snapshot + 1 /\ snapshot + 1 <= d.last

\* Variant: a later diff need not follow the one before.
CheckNextLoose(d, previous) == d.last > previous

\* check_next; where the stream carries pu it says the same.
CheckNext(d, previous) == d.first = previous + 1

\* apply_diff: the outcome, and the book behind it.
Outcome(b, d) ==
  IF d.last <= b.last THEN "Skipped"
  ELSE IF b.synced THEN IF CheckNext(d, b.last) THEN "Applied" ELSE "Resync"
  ELSE IF CheckFirst(d, b.last) THEN "Applied" ELSE "Resync"

\* Variant: a gap leaves the book synced.
ApplyDiffSynced(b, d) ==
  IF Outcome(b, d) = "Applied" THEN [last |-> d.last, synced |-> TRUE] ELSE b

ApplyDiff(b, d) ==
  CASE Outcome(b, d) = "Applied" -> [last |-> d.last, synced |-> TRUE]
    [] Outcome(b, d) = "Resync"  -> [b EXCEPT !.synced = FALSE]
    [] Outcome(b, d) = "Skipped" -> b

-----------------------------------------------------------------------------
\* The core: OrderBook::apply over the deltas of a diff or a snapshot.

\* normalize_depth: a delta for every level the diff touches, all of them with
\* the diff's last id.
Deltas(d) ==
  [level |-> [l \in {Touched[i] : i \in d.first..d.last} |-> BookAt(d.last)[l]],
   sequence |-> d.last]

\* OrderBook::apply: what is older than the book is stale.
Folded(c, d) ==
  IF Deltas(d).sequence < c.sequence THEN c
  ELSE [level |-> [l \in Levels |-> IF l \in DOMAIN Deltas(d).level THEN Deltas(d).level[l]
                                    ELSE c.level[l]],
        sequence |-> Deltas(d).sequence]

\* normalize_depth_snapshot: a Clear, which always applies, and its Adds.
Rebuilt(snapshot) == [level |-> BookAt(snapshot), sequence |-> snapshot]

\* Variant: the diff is sent before the snapshot.
EmittedFirst(c, snapshot, d) ==
  IF snapshot = None THEN Folded(c, d) ELSE Rebuilt(snapshot)

\* What process_frame sends once the book is synced: the deltas of the last
\* snapshot it fetched for this frame, if any, then those of the frame.
Emitted(c, snapshot, d) ==
  IF snapshot = None THEN Folded(c, d) ELSE Folded(Rebuilt(snapshot), d)

-----------------------------------------------------------------------------
\* DepthResyncer and the pump.

\* mark_all_for_resync
Resync ==
  /\ frame = None
  /\ inbox # <<>>
  /\ Head(inbox) = Reconnected
  /\ inbox' = Tail(inbox)
  /\ book' = NewBook
  /\ buffer' = <<>>
  /\ awaiting' = FALSE
  /\ whole' = FALSE
  /\ UNCHANGED <<venueVars, frame, core, tape, fetches, base, covered, faults>>

\* A frame that does not parse is skipped.
SkipFrame ==
  /\ frame = None
  /\ inbox # <<>>
  /\ Head(inbox) # Reconnected
  /\ Fault
  /\ inbox' = Tail(inbox)
  /\ UNCHANGED <<venueVars, pumpVars>>

\* normalize_combined_frame, normalize_trade and normalize_book_ticker: a frame
\* of any other stream, a kline among them, comes to nothing.
Normalized(tick) ==
  CASE tick.stream = "trade"      -> <<"Trade">>
    [] tick.stream = "bookTicker" -> <<"Quote">>
    [] OTHER                      -> <<>>

\* Variant: ticks are held back until the book is synced.
ForwardSynced ==
  /\ frame = None
  /\ inbox # <<>>
  /\ Head(inbox) \in Ticks
  /\ book.synced
  /\ inbox' = Tail(inbox)
  /\ tape' = IF Normalized(Head(inbox)) = <<>> THEN tape ELSE Head(Normalized(Head(inbox)))
  /\ UNCHANGED <<venueVars, syncVars, frame, core, auxVars, faults>>

\* process_frame on another stream: what the frame comes to is sent on.
Forward ==
  /\ frame = None
  /\ inbox # <<>>
  /\ Head(inbox) \in Ticks
  /\ inbox' = Tail(inbox)
  /\ tape' = IF Normalized(Head(inbox)) = <<>> THEN tape ELSE Head(Normalized(Head(inbox)))
  /\ UNCHANGED <<venueVars, syncVars, frame, core, auxVars, faults>>

Fresh == ~book.synced /\ book.last = 0

\* on_diff asks for a snapshot: it is awaited, the book is new, or there is a
\* gap, which empties the buffer.
Ask(d) ==
  /\ awaiting \/ Fresh \/ Outcome(book, d) = "Resync"
  /\ buffer' = IF awaiting \/ Fresh THEN Append(buffer, d) ELSE <<d>>
  /\ book' = IF awaiting \/ Fresh THEN book ELSE ApplyDiff(book, d)
  /\ awaiting' = TRUE
  /\ frame' = d
  /\ fetches' = 0
  /\ whole' = FALSE
  /\ UNCHANGED <<core, base, covered>>

\* on_diff goes on: process_frame sends the deltas if the book is synced.
Go(d) ==
  /\ ~awaiting /\ ~Fresh /\ Outcome(book, d) # "Resync"
  /\ book' = ApplyDiff(book, d)
  /\ core' = IF book'.synced THEN Emitted(core, None, d) ELSE core
  /\ covered' = IF Outcome(book, d) = "Applied" THEN covered \cup d.first..d.last ELSE covered
  /\ whole' = (whole /\ book.synced)
  /\ UNCHANGED <<buffer, awaiting, frame, fetches, base>>

Receive ==
  /\ frame = None
  /\ inbox # <<>>
  /\ Head(inbox) \in Diffs
  /\ inbox' = Tail(inbox)
  /\ Ask(Head(inbox)) \/ Go(Head(inbox))
  /\ UNCHANGED <<venueVars, tape, faults>>

\* The loop of on_snapshot over the buffer: the book behind it, and whether it
\* met a diff that does not follow, which makes the snapshot stale.
Replayed(snapshot) ==
  LET step(r, d) ==
        IF r.stale \/ d.last <= snapshot THEN r
        ELSE [book |-> ApplyDiff(r.book, d), stale |-> Outcome(r.book, d) = "Resync"]
      after[n \in 0..Len(buffer)] ==
        IF n = 0 THEN [book |-> [last |-> snapshot, synced |-> FALSE], stale |-> FALSE]
        ELSE step(after[n - 1], buffer[n])
  IN  after[Len(buffer)]

\* The places of the buffered diffs that the snapshot does not contain.
Behind(snapshot) == {k \in DOMAIN buffer : buffer[k].last > snapshot}

\* Variant: a stale snapshot leaves the buffer as it is.
StaleKeepsBuffer(snapshot) ==
  /\ Replayed(snapshot).stale
  /\ book' = Replayed(snapshot).book
  /\ UNCHANGED <<buffer, awaiting, frame, core, whole>>

\* on_snapshot, stale: the buffer is emptied and process_frame fetches again.
Stale(snapshot) ==
  /\ Replayed(snapshot).stale
  /\ book' = Replayed(snapshot).book
  /\ buffer' = <<>>
  /\ UNCHANGED <<awaiting, frame, core, whole>>

\* on_snapshot, and what process_frame sends then.
Bridge(snapshot) ==
  /\ ~Replayed(snapshot).stale
  /\ book' = Replayed(snapshot).book
  /\ buffer' = <<>>
  /\ awaiting' = FALSE
  /\ frame' = None
  /\ core' = IF book'.synced THEN Emitted(core, snapshot, frame) ELSE core
  /\ whole' = (book'.synced /\ \E k \in DOMAIN buffer : Behind(snapshot) = {k} /\ buffer[k] = frame)

\* fetch_depth_snapshot answers, with a book that may lag.
Fetch(snapshot) ==
  /\ frame # None
  /\ snapshot <= now /\ now <= snapshot + MaxLag
  /\ Stale(snapshot) \/ Bridge(snapshot)
  /\ fetches' = Min({fetches + 1, 3})
  /\ base' = snapshot
  /\ covered' = UNION {buffer[k].first..buffer[k].last : k \in Behind(snapshot)}
  /\ UNCHANGED <<venueVars, inbox, tape, faults>>

\* The fetch fails: the buffer waits for the next diff.
FetchFails ==
  /\ frame # None
  /\ Fault
  /\ frame' = None
  /\ UNCHANGED <<venueVars, inbox, syncVars, core, tape, auxVars>>

-----------------------------------------------------------------------------
FetchStep == FetchFails \/ \E snapshot \in Ids : Fetch(snapshot)

\* The task that connect spawns takes one message after the other.
Pump == Resync \/ SkipFrame \/ Receive \/ Forward \/ FetchStep

Next ==
  \/ Update \/ SendFrame \/ Drop \/ Connect
  \/ \E tick \in Ticks : SendTick(tick)
  \/ Pump

Spec == Init /\ [][Next]_vars

\* Fairness: the runtime resumes the task when a message or an answer is there,
\* and a fetch ends, because RestConfig bounds a request by a timeout.
FairSpec == Spec /\ WF_vars(Pump)

-----------------------------------------------------------------------------
\* Properties.

\* A synced book has applied every update between the snapshot it was installed
\* from and its last_update_id, over skipped frames, drops and stale snapshots
\* (apply_diff).
SyncedIsContiguous == book.synced => (base + 1)..book.last \subseteq covered

\* Where the frame that bridged the book also carried the snapshot, and no
\* earlier frame was replayed, the core's book is the venue's at last_update_id
\* for as long as the book stays synced (process_frame, OrderBook::apply).
RebuiltBookIsExact == book.synced /\ whole => core.level = BookAt(book.last)

\* A frame costs at most two snapshots, of weight 50 each, however far the
\* snapshots lag (on_snapshot empties the buffer).
TwoFetches == fetches <= 2

\* A frame that waits for a snapshot is done with: the pump, which serves every
\* stream of the client, does not hang in process_frame.
RefetchEnds == frame # None ~> frame = None

\* A trade or a quote does not wait for the book: it gets its turn, whatever
\* gaps, stale snapshots and failed fetches the diffs before it run into
\* (process_frame: "stateless, emit directly").
TicksGetThrough == \A tick \in Ticks : Waiting(tick) ~> ~Waiting(tick)

\* When the book is synced, the core's book is the venue's book at
\* last_update_id (the comment of process_frame: "Emit the snapshot rebuild
\* (Clear + Adds) first so the core book matches the snapshot").
CoreMatches == book.synced => core.level = BookAt(book.last)
=============================================================================

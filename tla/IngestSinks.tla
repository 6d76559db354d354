----------------------------- MODULE IngestSinks -----------------------------
(***************************************************************************)
(* The ingest daemon, coinext-ingest.  A live build reads trades, quotes   *)
(* and book deltas until max_events, over reconnects; an offline build     *)
(* feeds quotes, trades and bars of its own.  IngestSinks logs each event, *)
(* publishes it, watches the sequence of the deltas and writes bars, a     *)
(* batch at a time, into the monthly Parquet files of the lake.            *)
(*                                                                         *)
(* A lake and Redis are configured.  One instrument and one series: series *)
(* share only the loop of flush.  A bar is its minute since the epoch, so  *)
(* that rows of the same ts_event are one row; of any other event only the *)
(* kind is kept, and of a delta its sequence.  A file operation that fails *)
(* in a flush is a member of a set "disk"; "read" and "part" are the reads *)
(* of the monthly file and of the leftover part.                           *)
(***************************************************************************)
EXTENDS Integers, Sequences, FiniteSets, SequencesExt

CONSTANTS
  DeltaSeqs,      \* the sequence numbers a book delta may carry
  Leftover,       \* the rows of YYYYMM-ingest parts that lie in the lake
  FlushEvery,     \* bar_flush_every
  SmokeN,         \* COINEXT__INGEST__SMOKE_N, the bars of the offline build
  MaxEvents,      \* max_events
  MaxConnects,    \* bound on the connection attempts
  Broken,         \* a file that cannot be read as Parquet
  None

VARIABLES
  live,       \* the build: with the feature "live", or offline
  state,      \* "connecting", "streaming", "stopping" or "stopped"
  connects,   \* attempt
  count,      \* the events handled
  bar_buf,    \* the buffered bars of the series
  monthly,    \* the rows of each month's file, {} when there is none, or Broken
  part,       \* the rows of each month's leftover part
  event_log,  \* the lines of the event log
  stream,     \* the envelopes of coinext.market
  last_seq,   \* BookGapTracker
  metrics     \* IngestMetrics

runVars == <<live, state, connects, count>>
lakeVars == <<monthly, part>>
vars == <<runVars, bar_buf, lakeVars, event_log, stream, last_seq, metrics>>

DiskFaults == {"dir", "read", "part", "remove", "create", "write"}

\* yyyymm_of: the month of a minute, by the civil calendar.
YyyyMmOf(minute) ==
  LET z   == minute \div 1440 + 719468
      era == z \div 146097
      doe == z - era * 146097
      yoe == (doe - doe \div 1460 + doe \div 36524 - doe \div 146096) \div 365
      doy == doe - (365 * yoe + yoe \div 4 - yoe \div 100)
      mp  == (5 * doy + 2) \div 153
      m   == IF mp < 10 THEN mp + 3 ELSE mp - 9
      y   == yoe + era * 400 + IF m <= 2 THEN 1 ELSE 0
  IN  y * 100 + m

\* process_offline_smoke: the bar that comes behind the n-th one.
BarAt(n) == 28333333 + n

Months == {YyyyMmOf(bar) : bar \in {BarAt(n) : n \in 0..SmokeN} \cup Leftover}

Init ==
  /\ live \in BOOLEAN
  /\ state = IF live THEN "connecting" ELSE "streaming"
  /\ connects = 0
  /\ count = 0
  /\ bar_buf = <<>>
  /\ monthly = [m \in Months |-> {}]
  /\ part = [m \in Months |-> {bar \in Leftover : YyyyMmOf(bar) = m}]
  /\ event_log = <<>>
  /\ stream = <<>>
  /\ last_seq = None
  /\ metrics = [flushed |-> 0, errors |-> 0, gaps |-> 0]

-----------------------------------------------------------------------------
\* The lake.

\* read_ohlcv: a missing file has no rows, and an unreadable one counts as one
\* without rows, because flush_bar_batch takes the default on an error.
ReadOhlcv(rows, fails) == IF fails \/ rows = Broken THEN {} ELSE rows

\* flush_bar_batch fails: the batch goes back into the buffer.
FlushFails(bars, disk) == bars # <<>> /\ disk \cap {"dir", "create", "write"} # {}

\* flush_bar_batch on monthly and part.  The month is that of the first bar.
\* The part is read, or not, and removed; write_ohlcv_rows truncates the file
\* before it writes.
FlushBarBatch(bars, disk) ==
  IF bars = <<>> \/ "dir" \in disk THEN UNCHANGED lakeVars
  ELSE LET m      == YyyyMmOf(bars[1])
           merged == ReadOhlcv(monthly[m], "read" \in disk)
                       \cup ReadOhlcv(part[m], "part" \in disk)
                       \cup ToSet(bars)
       IN  /\ part' = IF "remove" \in disk THEN part ELSE [part EXCEPT ![m] = {}]
           /\ monthly' = CASE "create" \in disk -> monthly
                           [] "create" \notin disk /\ "write" \in disk ->
                                [monthly EXCEPT ![m] = Broken]
                           [] OTHER -> [monthly EXCEPT ![m] = merged]

\* flush, and the end of buffer_bar.
Flush(bars, disk) ==
  /\ FlushBarBatch(bars, disk)
  /\ bar_buf' = IF FlushFails(bars, disk) THEN bars ELSE <<>>

\* What flush_bar_batch adds to flushed_bars.
Written(bars, disk) == IF FlushFails(bars, disk) THEN 0 ELSE Len(bars)

-----------------------------------------------------------------------------
\* The sinks.

\* BookGapTracker::observe
IsGap(seq) == last_seq # None /\ seq > last_seq + 1
Observed(seq) == IF last_seq = None \/ seq >= last_seq THEN seq ELSE last_seq

\* event_to_json_line and event_payload: the line and the MsgType of an event.
JsonLine(kind) == [kind |-> kind]
MsgTypeOf(kind) ==
  CASE kind = "quote" -> 0 [] kind = "trade" -> 1 [] kind = "bar" -> 2 [] kind = "delta" -> 3

\* append_event_log: a line that cannot be written is forgotten.
AppendEventLog(kind, ok) ==
  event_log' = IF ok THEN Append(event_log, JsonLine(kind)) ELSE event_log

\* publish_redis: so is an envelope, which is counted as an error.
PublishRedis(kind, ok) ==
  stream' = IF ok THEN Append(stream, MsgTypeOf(kind)) ELSE stream

\* The counters after an event.
Counted(published, bars, gap) ==
  [errors  |-> metrics.errors + IF published THEN 0 ELSE 1,
   flushed |-> metrics.flushed + bars,
   gaps    |-> metrics.gaps + IF gap THEN 1 ELSE 0]

\* What is handled next: run_live has subscribed to trades, quotes and the
\* book, process_offline_smoke repeats a quote, a trade and a bar.
Arrives(kind) ==
  IF live THEN kind \in {"trade", "quote", "delta"}
  ELSE kind = <<"quote", "trade", "bar">>[(count % 3) + 1]

\* After n events the build stops; with max_events at 0 the live one never does.
Limited(n) == IF live THEN MaxEvents # 0 /\ n >= MaxEvents ELSE n >= 3 * SmokeN

\* An event is taken; the last one, of max_events or of the loop, is followed
\* by Stop.
Take(kind, logged, published) ==
  /\ state = "streaming"
  /\ Arrives(kind)
  /\ AppendEventLog(kind, logged)
  /\ PublishRedis(kind, published)
  /\ count' = count + 1
  /\ state' = IF Limited(count + 1) THEN "stopping" ELSE "streaming"
  /\ UNCHANGED <<live, connects>>

\* handle of a quote or a trade.
HandleTick(kind, logged, published) ==
  /\ Take(kind, logged, published)
  /\ metrics' = Counted(published, 0, FALSE)
  /\ UNCHANGED <<bar_buf, lakeVars, last_seq>>

\* handle of a bar: buffer_bar, which writes the buffer once it is full.
HandleBar(disk, logged, published) ==
  /\ Take("bar", logged, published)
  /\ LET bars == Append(bar_buf, BarAt(count \div 3)) IN
       IF Len(bars) < FlushEvery
       THEN /\ bar_buf' = bars
            /\ metrics' = Counted(published, 0, FALSE)
            /\ UNCHANGED lakeVars
       ELSE /\ Flush(bars, disk)
            /\ metrics' = Counted(published, Written(bars, disk), FALSE)
  /\ UNCHANGED last_seq

\* handle of a book delta: BookGapTracker::observe.
HandleDelta(seq, logged, published) ==
  /\ Take("delta", logged, published)
  /\ last_seq' = Observed(seq)
  /\ metrics' = Counted(published, 0, IsGap(seq))
  /\ UNCHANGED <<bar_buf, lakeVars>>

-----------------------------------------------------------------------------
\* run_live.

\* A client is built, subscribed and connected, or fails and is tried again.
Connect(ok) ==
  /\ state = "connecting"
  /\ connects < MaxConnects
  /\ connects' = connects + 1
  /\ state' = IF ok THEN "streaming" ELSE "connecting"
  /\ UNCHANGED <<live, count, bar_buf, lakeVars, event_log, stream, last_seq, metrics>>

\* The market stream closes; the sinks live on.
StreamCloses ==
  /\ live
  /\ state = "streaming"
  /\ state' = "connecting"
  /\ UNCHANGED <<live, connects, count, bar_buf, lakeVars, event_log, stream,
                 last_seq, metrics>>

\* flush, and the end of run_live or process_offline_smoke.
Stop(disk) ==
  /\ state = "stopping"
  /\ state' = "stopped"
  /\ Flush(bar_buf, disk)
  /\ metrics' = [metrics EXCEPT !.flushed = @ + Written(bar_buf, disk)]
  /\ UNCHANGED <<live, connects, count, event_log, stream, last_seq>>

Handle ==
  \E logged, published \in BOOLEAN :
    \/ \E kind \in {"quote", "trade"} : HandleTick(kind, logged, published)
    \/ \E disk \in SUBSET DiskFaults : HandleBar(disk, logged, published)
    \/ \E seq \in DeltaSeqs : HandleDelta(seq, logged, published)

Next ==
  \/ Handle
  \/ StreamCloses
  \/ \E ok \in BOOLEAN : Connect(ok)
  \/ \E disk \in SUBSET DiskFaults : Stop(disk)

Spec == Init /\ [][Next]_vars

-----------------------------------------------------------------------------
\* Every bar that arrived, and every row of the lake, is in the buffer or in a
\* readable file, whatever file operations fail ("put back so we don't lose
\* data on transient IO errors", flush).
NoBarLost ==
  (IF live THEN {} ELSE {BarAt(n) : n \in 0..(count \div 3) - 1}) \cup Leftover
    \subseteq ToSet(bar_buf)
                \cup UNION {ReadOhlcv(monthly[m], FALSE) \cup part[m] : m \in Months}
=============================================================================

----------------------------- MODULE DepthProofs -----------------------------
(***************************************************************************)
(* The safety properties of the depth feed, for every venue, every number  *)
(* of price levels, every lag of the snapshots and any drops, bad frames   *)
(* and failed fetches.                                                     *)
(***************************************************************************)
EXTENDS DepthFeed, DataLemmas

USE FeedAssumption DEF Ids

\* The diffs the venue sends: its updates are numbered from 1.
Sent == {d \in Diffs : 1 <= d.first}

Books == [last : Ids, synced : BOOLEAN]

-----------------------------------------------------------------------------
\* The books of venue and core

\* The venue's book holds update numbers.
LEMMA BookAtType ==
  ASSUME NEW n \in Ids
  PROVE  BookAt(n) \in [Levels -> Ids]
<1> SUFFICES ASSUME NEW l \in Levels
             PROVE  Max({0} \cup {i \in 1..n : Touched[i] = l}) \in Ids
  BY DEF BookAt
<1> DEFINE S == {0} \cup {i \in 1..n : Touched[i] = l}
<1>1. S \in SUBSET Nat /\ S # {} /\ n \in Nat /\ \A x \in S : x <= n
  OBVIOUS
<1>2. S \subseteq Ids
  OBVIOUS
<1>3. Max(S) \in S
  <2> HIDE DEF S
  <2> QED
    BY Zenon, <1>1, MaxOfBounded
<1> QED
  BY <1>2, <1>3

\* A level that no update in between sets is the same in both books.
LEMMA BookAtSame ==
  ASSUME NEW p \in Ids, NEW d \in Sent, p <= d.last, d.first <= p + 1,
         NEW l \in Levels, l \notin {Touched[i] : i \in d.first..d.last}
  PROVE  BookAt(d.last)[l] = BookAt(p)[l]
<1>1. d.first \in Nat /\ d.last \in Nat /\ p \in Nat
  BY DEF Sent, Diffs
<1>2. {i \in 1..d.last : Touched[i] = l} = {i \in 1..p : Touched[i] = l}
  BY <1>1
<1> QED
  BY Zenon, <1>2 DEF BookAt

\* The deltas of a diff that follows turn a book that is the venue's into the
\* venue's next one.
LEMMA FoldedExact ==
  ASSUME NEW p \in Ids, NEW d \in Sent, p <= d.last, d.first <= p + 1,
         NEW c, c.level = BookAt(p), c.sequence = p
  PROVE  Folded(c, d) = [level |-> BookAt(d.last), sequence |-> d.last]
<1>1. d.first \in Nat /\ d.last \in Ids /\ p \in Nat /\ 1 <= d.first
  BY DEF Sent, Diffs
<1> DEFINE T == {Touched[i] : i \in d.first..d.last}
<1>2. T \subseteq Levels
  BY <1>1
<1>3. Deltas(d) = [level |-> [l \in T |-> BookAt(d.last)[l]], sequence |-> d.last]
  BY DEF Deltas
<1> HIDE DEF T
<1>4. \A l \in Levels \ T : BookAt(d.last)[l] = BookAt(p)[l]
  BY BookAtSame DEF T
<1>5. BookAt(d.last) = [l \in Levels |-> BookAt(d.last)[l]]
  BY DEF BookAt
<1>6. [l \in Levels |-> IF l \in T THEN BookAt(d.last)[l] ELSE c.level[l]] = BookAt(d.last)
  BY <1>2, <1>4, <1>5
<1> QED
  BY <1>1, <1>3, <1>6 DEF Folded

-----------------------------------------------------------------------------
\* The loop of on_snapshot

Replays == [book : Books, stale : BOOLEAN]

Installed(snapshot) == [book |-> [last |-> snapshot, synced |-> FALSE], stale |-> FALSE]

\* One pass of the loop.
ReplayStep(snapshot, r, d) ==
  IF r.stale \/ d.last <= snapshot THEN r
  ELSE [book |-> ApplyDiff(r.book, d), stale |-> Outcome(r.book, d) = "Resync"]

\* apply_diff, case by case.
LEMMA ApplyDiffCases ==
  ASSUME NEW b \in Books, NEW d \in Diffs
  PROVE  /\ ApplyDiff(b, d) \in Books
         /\ Outcome(b, d) \in {"Applied", "Resync", "Skipped"}
         /\ Outcome(b, d) = "Skipped" => ApplyDiff(b, d) = b /\ d.last <= b.last
         /\ Outcome(b, d) = "Resync" => ApplyDiff(b, d) = [last |-> b.last, synced |-> FALSE]
         /\ Outcome(b, d) = "Applied" =>
              /\ ApplyDiff(b, d) = [last |-> d.last, synced |-> TRUE]
              /\ b.last < d.last /\ d.first <= b.last + 1
              /\ b.synced => d.first = b.last + 1
<1>1. /\ b.last \in Nat /\ b.last \in Ids /\ b.synced \in BOOLEAN
      /\ b = [last |-> b.last, synced |-> b.synced]
      /\ d.first \in Nat /\ d.last \in Nat /\ d.last \in Ids
  BY DEF Books, Diffs
<1>2. CASE Outcome(b, d) = "Skipped"
  BY <1>1, <1>2 DEF ApplyDiff, Outcome
<1>3. CASE Outcome(b, d) = "Resync"
  BY Zenon, <1>1, <1>3 DEF ApplyDiff, Books
<1>4. CASE Outcome(b, d) = "Applied"
  <2>1. ApplyDiff(b, d) = [last |-> d.last, synced |-> TRUE]
    BY <1>4 DEF ApplyDiff
  <2>2. b.last < d.last /\ d.first <= b.last + 1 /\ (b.synced => d.first = b.last + 1)
    BY <1>1, <1>4 DEF Outcome, CheckFirst, CheckNext
  <2> QED
    BY <1>1, <1>4, <2>1, <2>2 DEF Books
<1>5. Outcome(b, d) \in {"Applied", "Resync", "Skipped"}
  BY DEF Outcome
<1> QED
  BY <1>2, <1>3, <1>4, <1>5

\* A step of the loop in on_snapshot yields a book and a flag.
LEMMA ReplayStepType ==
  ASSUME NEW snapshot, NEW r \in Replays, NEW d \in Diffs
  PROVE  ReplayStep(snapshot, r, d) \in Replays
<1>1. r.book \in Books
  BY DEF Replays
<1>2. ApplyDiff(r.book, d) \in Books
  BY <1>1, ApplyDiffCases
<1> QED
  BY <1>2 DEF ReplayStep, Replays

\* The loop goes through the buffer diff by diff.
LEMMA ReplayedSteps ==
  ASSUME NEW snapshot \in Ids, buffer \in Seq(Sent)
  PROVE  \E a \in [0..Len(buffer) -> Replays] :
           /\ a[0] = Installed(snapshot)
           /\ \A n \in 1..Len(buffer) : a[n] = ReplayStep(snapshot, a[n - 1], buffer[n])
           /\ Replayed(snapshot) = a[Len(buffer)]
<1> DEFINE N == Len(buffer)
           Eq(h) == h = [n \in 0..N |-> IF n = 0 THEN Installed(snapshot)
                                         ELSE ReplayStep(snapshot, h[n - 1], buffer[n])]
           F == [p \in Replays \X (1..N) |-> ReplayStep(snapshot, p[1], buffer[p[2]])]
<1>1. N \in Nat /\ \A n \in 1..N : buffer[n] \in Diffs
  BY DEF Sent
<1>2. Installed(snapshot) \in Replays
  BY DEF Installed, Replays, Books
<1>3. F \in [Replays \X (1..N) -> Replays]
  BY <1>1, ReplayStepType
<1>4. \A r \in Replays, n \in 1..N : F[<<r, n>>] = ReplayStep(snapshot, r, buffer[n])
  OBVIOUS
<1>5. Replayed(snapshot) = (CHOOSE h : Eq(h))[N]
  BY DEF Replayed, Installed, ReplayStep
<1> HIDE DEF F, N
<1>6. PICK g \in [0..N -> Replays] : Recursive(g, Installed(snapshot), F, N)
  BY <1>1, <1>2, <1>3, Recursion, Zenon
<1>7. Eq(g)
  <2>1. ASSUME NEW n \in 0..N, n # 0
        PROVE  g[n] = ReplayStep(snapshot, g[n - 1], buffer[n])
    <3>1. n \in 1..N /\ n - 1 \in 0..N
      BY <1>1, <2>1
    <3> QED
      BY Zenon, <3>1, <1>4, <1>6 DEF Recursive
  <2> QED
    BY <1>6, <2>1 DEF Recursive
<1> DEFINE a == CHOOSE h : Eq(h)
<1>8. Eq(a)
  <2> HIDE DEF Eq
  <2> QED
    BY <1>7
<1> HIDE DEF a
<1>9. /\ DOMAIN a = 0..N /\ a[0] = Installed(snapshot)
      /\ \A n \in 1..N : a[n] = ReplayStep(snapshot, a[n - 1], buffer[n])
      /\ a = [n \in 0..N |-> a[n]]
  <2>1. DOMAIN a = 0..N
    BY <1>8, Zenon
  <2>2. \A n \in 0..N : a[n] = IF n = 0 THEN Installed(snapshot)
                                ELSE ReplayStep(snapshot, a[n - 1], buffer[n])
    BY <1>8, Zenon
  <2>3. 0 \in 0..N /\ \A n \in 1..N : n \in 0..N /\ n # 0
    BY <1>1
  <2>4. a = [n \in 0..N |-> a[n]]
    BY <1>8, Zenon
  <2> HIDE DEF Eq
  <2> QED
    BY <2>1, <2>2, <2>3, <2>4, Zenon
<1>10. a \in [0..N -> Replays]
  <2> DEFINE T == {n \in Nat : n <= N => a[n] \in Replays}
  <2>1. 0 \in T
    BY <1>2, <1>9
  <2>2. ASSUME NEW n \in Nat, n \in T PROVE n + 1 \in T
    <3> SUFFICES ASSUME n + 1 <= N PROVE a[n + 1] \in Replays
      OBVIOUS
    <3>1. n + 1 \in 1..N /\ (n + 1) - 1 = n /\ a[n] \in Replays
      BY <1>1, <2>2
    <3>2. a[n + 1] = ReplayStep(snapshot, a[n], buffer[n + 1])
      BY Zenon, <3>1, <1>9
    <3> QED
      BY <3>1, <3>2, <1>1, ReplayStepType
  <2> HIDE DEF T
  <2>3. \A n \in Nat : n \in T
    BY <2>1, <2>2, SetInduction, Zenon
  <2>4. \A n \in 0..N : a[n] \in Replays
    BY <1>1, <2>3 DEF T
  <2> QED
    BY <1>9, <2>4
<1> QED
  BY Zenon, <1>5, <1>9, <1>10 DEF N, a

\* The updates of the diffs that are replayed.
Bridged(snapshot) == UNION {buffer[k].first..buffer[k].last : k \in Behind(snapshot)}

\* What is known of the book during the loop.
ReplayOk(snapshot, r) ==
  IF r.stale THEN ~r.book.synced
  ELSE /\ snapshot <= r.book.last
       /\ IF r.book.synced THEN (snapshot + 1)..r.book.last \subseteq Bridged(snapshot)
          ELSE r.book.last = snapshot

\* A step of the loop in on_snapshot leaves no hole behind the snapshot.
LEMMA ReplayStepOk ==
  ASSUME NEW snapshot \in Ids, buffer \in Seq(Sent), NEW n \in 1..Len(buffer),
         NEW r \in Replays, ReplayOk(snapshot, r)
  PROVE  ReplayOk(snapshot, ReplayStep(snapshot, r, buffer[n]))
<1> DEFINE d == buffer[n]
           b == r.book
           s == ReplayStep(snapshot, r, d)
<1>1. /\ d \in Diffs /\ d.first \in Nat /\ d.last \in Nat
      /\ b \in Books /\ b.last \in Nat /\ b.synced \in BOOLEAN /\ r.stale \in BOOLEAN
  BY DEF Sent, Diffs, Replays, Books
<1>2. CASE r.stale \/ d.last <= snapshot
  BY <1>2 DEF ReplayStep
<1>3. CASE ~r.stale /\ snapshot < d.last
  <2>0. s = [book |-> ApplyDiff(b, d), stale |-> Outcome(b, d) = "Resync"]
    BY <1>1, <1>3 DEF ReplayStep
  <2>1. s.book = ApplyDiff(b, d) /\ (s.stale <=> Outcome(b, d) = "Resync")
    <3> HIDE DEF s, b, d
    <3> QED
      BY Zenon, <2>0
  <2>2. d.first..d.last \subseteq Bridged(snapshot)
    <3>1. n \in DOMAIN buffer
      OBVIOUS
    <3>2. n \in Behind(snapshot)
      BY <1>1, <1>3, <3>1 DEF Behind
    <3> QED
      BY <3>2 DEF Bridged
  <2>q. /\ r.book = b
        /\ ReplayOk(snapshot, s) => ReplayOk(snapshot, ReplayStep(snapshot, r, buffer[n]))
    OBVIOUS
  <2> HIDE DEF b, d, s
  <2>3. CASE Outcome(b, d) = "Skipped"
    <3>1. s.book = b /\ ~s.stale
      BY <2>1, <2>3, <1>1, ApplyDiffCases
    <3> QED
      BY <3>1, <1>3, <2>q DEF ReplayOk
  <2>4. CASE Outcome(b, d) = "Resync"
    <3>0. ApplyDiff(b, d) = [last |-> b.last, synced |-> FALSE]
      BY <2>4, <1>1, ApplyDiffCases, Zenon
    <3>1. s.book.synced = FALSE /\ s.stale
      BY <2>1, <2>4, <3>0
    <3> QED
      BY <3>1, <2>q DEF ReplayOk
  <2>5. CASE Outcome(b, d) = "Applied"
    <3>0. /\ ApplyDiff(b, d) = [last |-> d.last, synced |-> TRUE]
          /\ d.first <= b.last + 1 /\ b.last < d.last
      BY <2>5, <1>1, ApplyDiffCases, Zenon
    <3>1. /\ s.book.last = d.last /\ s.book.synced = TRUE /\ ~s.stale
          /\ d.first <= b.last + 1 /\ b.last < d.last
      BY <2>1, <2>5, <3>0
    <3>2. IF b.synced THEN (snapshot + 1)..b.last \subseteq Bridged(snapshot)
          ELSE b.last = snapshot
      BY <1>3, <2>q DEF ReplayOk
    <3>3. (snapshot + 1)..d.last \subseteq Bridged(snapshot)
      <4> SUFFICES ASSUME NEW i \in (snapshot + 1)..d.last PROVE i \in Bridged(snapshot)
        OBVIOUS
      <4>1. CASE i \in d.first..d.last
        BY <4>1, <2>2
      <4>2. CASE i < d.first
        <5>1. i \in (snapshot + 1)..b.last
          BY <1>1, <4>2, <3>1
        <5>2. b.synced
          BY <5>1, <3>2, <1>1
        <5> QED
          BY <5>1, <5>2, <3>2
      <4> QED
        BY <4>1, <4>2, <1>1
    <3> QED
      BY <1>1, <1>3, <3>1, <3>3, <2>q DEF ReplayOk
  <2> QED
    BY <2>3, <2>4, <2>5, <1>1, ApplyDiffCases
<1> QED
  BY <1>1, <1>2, <1>3

\* A book that comes out of the loop synced has every update behind the
\* snapshot; one that does not is at the snapshot.
LEMMA ReplayCovers ==
  ASSUME NEW snapshot \in Ids, buffer \in Seq(Sent)
  PROVE  Replayed(snapshot) \in Replays /\ ReplayOk(snapshot, Replayed(snapshot))
<1>1. PICK a \in [0..Len(buffer) -> Replays] :
        /\ a[0] = Installed(snapshot)
        /\ \A n \in 1..Len(buffer) : a[n] = ReplayStep(snapshot, a[n - 1], buffer[n])
        /\ Replayed(snapshot) = a[Len(buffer)]
  BY ReplayedSteps
<1> DEFINE T == {n \in Nat : n <= Len(buffer) => ReplayOk(snapshot, a[n])}
<1>2. Len(buffer) \in Nat
  OBVIOUS
<1>3. 0 \in T
  BY <1>1 DEF ReplayOk, Installed
<1>4. ASSUME NEW n \in Nat, n \in T PROVE n + 1 \in T
  <2> SUFFICES ASSUME n + 1 <= Len(buffer) PROVE ReplayOk(snapshot, a[n + 1])
    OBVIOUS
  <2>1. n + 1 \in 1..Len(buffer) /\ (n + 1) - 1 = n /\ ReplayOk(snapshot, a[n])
        /\ a[n] \in Replays
    BY <1>2, <1>4
  <2>2. a[n + 1] = ReplayStep(snapshot, a[n], buffer[n + 1])
    BY <1>1, <2>1
  <2> QED
    BY <2>1, <2>2, ReplayStepOk
<1> HIDE DEF T
<1>5. \A n \in Nat : n \in T
  BY <1>3, <1>4, SetInduction, Zenon
<1> QED
  BY <1>1, <1>2, <1>5 DEF T

\* A stale snapshot leaves nothing to replay over the next one.
LEMMA ReplayEmpty ==
  ASSUME NEW snapshot \in Ids, buffer = <<>>
  PROVE  Replayed(snapshot) = Installed(snapshot)
<1>1. buffer \in Seq(Sent) /\ Len(buffer) = 0
  OBVIOUS
<1> QED
  BY <1>1, ReplayedSteps

\* Where the snapshot contains every buffered diff but one, the loop applies
\* that one.
LEMMA ReplayOne ==
  ASSUME NEW snapshot \in Ids, buffer \in Seq(Sent), NEW k \in DOMAIN buffer,
         Behind(snapshot) = {k}
  PROVE  Replayed(snapshot) = ReplayStep(snapshot, Installed(snapshot), buffer[k])
<1>1. PICK a \in [0..Len(buffer) -> Replays] :
        /\ a[0] = Installed(snapshot)
        /\ \A n \in 1..Len(buffer) : a[n] = ReplayStep(snapshot, a[n - 1], buffer[n])
        /\ Replayed(snapshot) = a[Len(buffer)]
  BY ReplayedSteps
<1> DEFINE one == ReplayStep(snapshot, Installed(snapshot), buffer[k])
           T == {n \in Nat : n <= Len(buffer) =>
                               a[n] = IF n < k THEN Installed(snapshot) ELSE one}
<1>2. Len(buffer) \in Nat /\ k \in 1..Len(buffer)
  OBVIOUS
<1>3. 0 \in T
  BY <1>1, <1>2
<1>4. ASSUME NEW n \in Nat, n \in T PROVE n + 1 \in T
  <2> SUFFICES ASSUME n + 1 <= Len(buffer)
               PROVE  a[n + 1] = IF n + 1 < k THEN Installed(snapshot) ELSE one
    OBVIOUS
  <2>1. n + 1 \in 1..Len(buffer) /\ (n + 1) - 1 = n
        /\ a[n] = IF n < k THEN Installed(snapshot) ELSE one
    BY <1>2, <1>4
  <2>2. a[n + 1] = ReplayStep(snapshot, a[n], buffer[n + 1])
    BY <1>1, <2>1
  <2>3. CASE n + 1 = k
    BY <1>2, <2>1, <2>2, <2>3
  <2>4. CASE n + 1 # k
    <3>1. n + 1 \notin Behind(snapshot) /\ n + 1 \in DOMAIN buffer
      BY <2>1, <2>4
    <3>2. buffer[n + 1].last <= snapshot
      BY <3>1 DEF Behind, Sent, Diffs
    <3>3. a[n + 1] = a[n]
      BY <2>2, <3>2 DEF ReplayStep
    <3> HIDE DEF one
    <3> QED
      BY <1>2, <2>1, <2>4, <3>3
  <2> QED
    BY <2>3, <2>4
<1> HIDE DEF T
<1>5. \A n \in Nat : n \in T
  BY <1>3, <1>4, SetInduction, Zenon
<1> HIDE DEF one
<1>6. a[Len(buffer)] = one
  BY <1>2, <1>5 DEF T
<1> QED
  BY <1>1, <1>6 DEF one

-----------------------------------------------------------------------------
\* The inductive invariant

Messages == Sent \cup Ticks \cup {Reconnected}

\* What holds in every state: the type invariant; where the book stands when no
\* snapshot is awaited; that the core has followed a book that is whole; and
\* that a second fetch for a frame meets an empty buffer.
DepthInv ==
  /\ DepthTypeOK
  /\ inbox \in Seq(Messages) /\ buffer \in Seq(Sent) /\ frame \in Sent \cup {None}
  /\ awaiting => ~book.synced
  /\ ~awaiting /\ ~book.synced => book.last \in {0, base}
  /\ SyncedIsContiguous
  /\ book.synced /\ whole => core = [level |-> BookAt(book.last), sequence |-> book.last]
  /\ fetches \in 0..2
  /\ frame # None => fetches <= 1
  /\ frame # None /\ fetches = 1 => buffer = <<>>

\* Deltas leave the core with a book of update numbers.
LEMMA FoldedType ==
  ASSUME NEW c \in [level : [Levels -> Ids], sequence : Ids], NEW d \in Sent
  PROVE  Folded(c, d) \in [level : [Levels -> Ids], sequence : Ids]
<1>1. d.last \in Ids /\ BookAt(d.last) \in [Levels -> Ids]
  BY BookAtType DEF Sent, Diffs
<1> DEFINE T == {Touched[i] : i \in d.first..d.last}
<1>2. Deltas(d) = [level |-> [l \in T |-> BookAt(d.last)[l]], sequence |-> d.last]
  BY DEF Deltas
<1> HIDE DEF T
<1>3. [l \in Levels |-> IF l \in T THEN BookAt(d.last)[l] ELSE c.level[l]] \in [Levels -> Ids]
  BY <1>1
<1> QED
  BY <1>1, <1>2, <1>3 DEF Folded

\* The deltas of a diff that the book has already change nothing.
LEMMA FoldedAgain ==
  ASSUME NEW p \in Ids, NEW d \in Sent, d.last <= p,
         NEW c, c = [level |-> BookAt(p), sequence |-> p]
  PROVE  Folded(c, d) = c
<1>1. d.last \in Nat /\ p \in Nat
  BY DEF Sent, Diffs
<1>2. CASE d.last < p
  BY <1>2 DEF Folded, Deltas
<1>3. CASE d.last = p
  <2> DEFINE T == {Touched[i] : i \in d.first..d.last}
  <2>1. Deltas(d) = [level |-> [l \in T |-> BookAt(p)[l]], sequence |-> p]
    BY <1>3 DEF Deltas
  <2> HIDE DEF T
  <2>2. [l \in Levels |-> IF l \in T THEN BookAt(p)[l] ELSE BookAt(p)[l]] = BookAt(p)
    BY DEF BookAt
  <2> QED
    BY <1>1, <2>1, <2>2 DEF Folded
<1> QED
  BY <1>1, <1>2, <1>3

\* A message is of one kind.
LEMMA MessageKinds ==
  /\ Messages \subseteq Diffs \cup Ticks \cup {Reconnected}
  /\ Messages \cap Diffs = Sent
  /\ None \notin Sent
<1>1. Ticks \cap Diffs = {}
  <2> SUFFICES ASSUME NEW x \in Ticks, x \in Diffs PROVE FALSE
    OBVIOUS
  <2>1. DOMAIN x = {"stream"}
    BY DEF Ticks
  <2>2. DOMAIN x = {"first", "last"}
    BY DEF Diffs
  <2> QED
    BY <2>1, <2>2
<1> QED
  BY <1>1, MessageAssumption DEF Messages, Sent

\* The pump starts without a book, a frame or a buffer.
LEMMA DepthInit == Init => DepthInv
<1> SUFFICES ASSUME Init PROVE DepthInv
  OBVIOUS
<1>1. NoLevels \in [Levels -> Ids]
  BY DEF NoLevels
<1>2. inbox \in Seq(Diffs \cup Ticks \cup {Reconnected}) /\ buffer \in Seq(Diffs)
  BY DEF Init
<1>3. core \in [level : [Levels -> Ids], sequence : Ids] /\ book \in [last : Ids, synced : BOOLEAN]
  BY <1>1 DEF Init, NewBook
<1>4. now \in Ids /\ sent \in Ids /\ sent <= now /\ base \in Ids /\ covered \subseteq Ids
  BY DEF Init
<1>5. DepthTypeOK
  BY Zenon, <1>2, <1>3, <1>4 DEF Init, DepthTypeOK
<1> QED
  BY <1>5 DEF Init, DepthInv, NewBook, SyncedIsContiguous

\* The venue and the socket leave the pump's state alone.
LEMMA VenueSteps ==
  ASSUME DepthInv, Update \/ SendFrame \/ Drop \/ Connect \/ \E tick \in Ticks : SendTick(tick)
  PROVE  DepthInv'
<1>1. UNCHANGED pumpVars
  BY DEF Update, SendFrame, Drop, Connect, SendTick
<1>2. /\ inbox \in Seq(Messages) /\ now \in Ids /\ sent \in Ids /\ sent <= now
      /\ socket \in BOOLEAN
  BY DEF DepthInv, DepthTypeOK
<1>3. /\ now' \in Ids /\ sent' \in Ids /\ sent' <= now' /\ socket' \in BOOLEAN
      /\ inbox' \in Seq(Messages)
  <2>1. CASE Update
    BY <1>2, <2>1 DEF Update
  <2>2. CASE SendFrame
    <3>1. sent < now => [first |-> sent + 1, last |-> now] \in Messages
      BY <1>2 DEF Messages, Sent, Diffs
    <3> QED
      BY <1>2, <2>2, <3>1 DEF SendFrame
  <2>3. CASE Drop
    <3>1. Reconnected \in Messages
      BY DEF Messages
    <3>2. Append(inbox, Reconnected) \in Seq(Messages)
      BY <1>2, <3>1
    <3> QED
      BY Zenon, <1>2, <2>3, <3>2 DEF Drop
  <2>4. CASE Connect
    BY <1>2, <2>4 DEF Connect
  <2>5. CASE \E tick \in Ticks : SendTick(tick)
    BY <1>2, <2>5 DEF SendTick, venueVars, Messages
  <2> QED
    BY <2>1, <2>2, <2>3, <2>4, <2>5
<1>4. inbox' \in Seq(Diffs \cup Ticks \cup {Reconnected})
  BY <1>3, MessageKinds
<1>5. UNCHANGED <<book, buffer, awaiting, frame, core, tape, fetches, base, covered, whole>>
  BY <1>1 DEF pumpVars, syncVars, auxVars
<1>6. DepthTypeOK'
  BY <1>3, <1>4, <1>5 DEF DepthInv, DepthTypeOK
<1> QED
  BY <1>3, <1>5, <1>6 DEF DepthInv, SyncedIsContiguous, BookAt

\* What the pump takes from its inbox.
LEMMA TakeMessage ==
  ASSUME DepthInv, inbox # <<>>
  PROVE  /\ Head(inbox) \in Messages
         /\ Tail(inbox) \in Seq(Messages)
         /\ Tail(inbox) \in Seq(Diffs \cup Ticks \cup {Reconnected})
<1>1. inbox \in Seq(Messages)
  BY DEF DepthInv
<1>2. Head(inbox) \in Messages /\ Tail(inbox) \in Seq(Messages)
  BY <1>1
<1> QED
  BY <1>2, MessageKinds

\* mark_all_for_resync
LEMMA ResyncStep ==
  ASSUME DepthInv, Resync
  PROVE  DepthInv'
<1>1. /\ inbox' \in Seq(Messages)
      /\ inbox' \in Seq(Diffs \cup Ticks \cup {Reconnected})
  BY TakeMessage DEF Resync
<1>2. /\ book' = [last |-> 0, synced |-> FALSE] /\ buffer' = <<>>
      /\ awaiting' = FALSE /\ whole' = FALSE
      /\ UNCHANGED <<now, sent, socket, frame, core, tape, fetches, base, covered>>
      /\ frame = None
  BY DEF Resync, venueVars, NewBook
<1>3. book' \in [last : Ids, synced : BOOLEAN] /\ ~book'.synced /\ book'.last = 0
      /\ buffer' \in Seq(Diffs) /\ buffer' \in Seq(Sent)
  BY <1>2
<1>4. DepthTypeOK'
  BY Zenon, <1>1, <1>2, <1>3 DEF DepthInv, DepthTypeOK
<1> QED
  BY <1>1, <1>2, <1>3, <1>4 DEF DepthInv, SyncedIsContiguous

\* A frame of another stream, a bad frame and a failed fetch leave the books and
\* the buffer alone.
LEMMA PassingSteps ==
  ASSUME DepthInv, SkipFrame \/ Forward \/ FetchFails
  PROVE  DepthInv'
<1>1. /\ inbox' \in Seq(Messages)
      /\ inbox' \in Seq(Diffs \cup Ticks \cup {Reconnected})
  BY Zenon, TakeMessage DEF SkipFrame, Forward, FetchFails, DepthInv, DepthTypeOK
<1>2. UNCHANGED <<now, sent, socket, book, buffer, awaiting, core, fetches, base, covered, whole>>
  BY DEF SkipFrame, Forward, FetchFails, venueVars, pumpVars, syncVars, auxVars
<1>3. frame' \in {frame, None}
  BY DEF SkipFrame, Forward, FetchFails, pumpVars
<1>4. tape' \in {"None", "Trade", "Quote"}
  <2>1. tape \in {"None", "Trade", "Quote"}
    BY DEF DepthInv, DepthTypeOK
  <2>2. CASE Forward
    <3>1. Normalized(Head(inbox)) \in {<<>>, <<"Trade">>, <<"Quote">>}
      BY DEF Normalized
    <3> QED
      BY <2>1, <2>2, <3>1 DEF Forward
  <2> QED
    BY <2>1, <2>2 DEF SkipFrame, FetchFails, pumpVars
<1>5. DepthTypeOK'
  BY <1>1, <1>2, <1>3, <1>4 DEF DepthInv, DepthTypeOK
<1> QED
  BY <1>1, <1>2, <1>3, <1>5 DEF DepthInv, SyncedIsContiguous, BookAt

\* on_diff asks for a snapshot: the book is no longer synced.
LEMMA AskStep ==
  ASSUME DepthInv, Receive, Ask(Head(inbox))
  PROVE  DepthInv'
<1> DEFINE d == Head(inbox)
<1>1. d \in Sent /\ d \in Diffs /\ d # None
  BY TakeMessage, MessageKinds DEF Receive, Sent
<1>2. /\ inbox' \in Seq(Messages)
      /\ inbox' \in Seq(Diffs \cup Ticks \cup {Reconnected})
  BY TakeMessage DEF Receive
<1>3. /\ UNCHANGED <<now, sent, socket, tape, core, base, covered>>
      /\ awaiting' = TRUE /\ frame' = d /\ fetches' = 0 /\ whole' = FALSE
  BY DEF Receive, Ask, venueVars
<1>4. /\ buffer \in Seq(Sent) /\ book \in Books /\ awaiting \in BOOLEAN
      /\ (awaiting => ~book.synced)
  BY DEF DepthInv, DepthTypeOK, Books
<1>5. /\ buffer' = IF awaiting \/ Fresh THEN Append(buffer, d) ELSE <<d>>
      /\ book' = IF awaiting \/ Fresh THEN book ELSE ApplyDiff(book, d)
      /\ awaiting \/ Fresh \/ Outcome(book, d) = "Resync"
  BY DEF Ask
<1> HIDE DEF d
<1>6. buffer' \in Seq(Sent) /\ buffer' \in Seq(Diffs)
  <2>1. buffer' \in Seq(Sent)
    BY <1>1, <1>4, <1>5
  <2>2. Sent \subseteq Diffs
    BY DEF Sent
  <2> QED
    BY <2>1, <2>2
<1>7. book' \in Books /\ ~book'.synced
  <2>1. CASE awaiting \/ Fresh
    BY <1>4, <1>5, <2>1 DEF Fresh
  <2>2. CASE ~(awaiting \/ Fresh)
    <3>1. ApplyDiff(book, d) = [last |-> book.last, synced |-> FALSE]
      BY <1>1, <1>4, <1>5, <2>2, ApplyDiffCases
    <3> QED
      BY <1>4, <1>5, <2>2, <3>1 DEF Books
  <2> QED
    BY <2>1, <2>2
<1>8. DepthTypeOK'
  BY Zenon, <1>1, <1>2, <1>3, <1>6, <1>7 DEF DepthInv, DepthTypeOK, Books
<1> QED
  BY <1>1, <1>2, <1>3, <1>6, <1>7, <1>8 DEF DepthInv, SyncedIsContiguous

\* on_diff goes on: the book either has the diff already or follows it, and the
\* core's book with it.
LEMMA GoStep ==
  ASSUME DepthInv, Receive, Go(Head(inbox))
  PROVE  DepthInv'
<1> DEFINE d == Head(inbox)
<1>1. d \in Sent /\ d \in Diffs
  BY TakeMessage, MessageKinds DEF Receive, Sent
<1>2. /\ inbox' \in Seq(Messages)
      /\ inbox' \in Seq(Diffs \cup Ticks \cup {Reconnected})
  BY TakeMessage DEF Receive
<1>3. /\ UNCHANGED <<now, sent, socket, tape, buffer, awaiting, frame, fetches, base>>
      /\ frame = None /\ ~awaiting /\ ~Fresh /\ Outcome(book, d) # "Resync"
  BY DEF Receive, Go, venueVars
<1>4. /\ book' = ApplyDiff(book, d)
      /\ core' = IF book'.synced THEN Folded(core, d) ELSE core
      /\ covered' = IF Outcome(book, d) = "Applied" THEN covered \cup d.first..d.last ELSE covered
      /\ whole' = (whole /\ book.synced)
  BY DEF Go, Emitted
<1>5. /\ book \in Books /\ book.last \in Nat /\ core \in [level : [Levels -> Ids], sequence : Ids]
      /\ base \in Nat /\ covered \subseteq Ids /\ whole \in BOOLEAN
      /\ ~awaiting /\ ~book.synced => book.last \in {0, base}
      /\ book.synced => (base + 1)..book.last \subseteq covered
      /\ book.synced /\ whole => core = [level |-> BookAt(book.last), sequence |-> book.last]
  BY DEF DepthInv, DepthTypeOK, Books, SyncedIsContiguous
<1>6. d.first \in Nat /\ d.last \in Ids /\ d.last \in Nat
  BY <1>1 DEF Diffs
<1> HIDE DEF d
<1>7. core' \in [level : [Levels -> Ids], sequence : Ids]
  BY <1>1, <1>4, <1>5, FoldedType
<1>8. covered' \subseteq Ids
  <2>1. d.first..d.last \subseteq Ids
    BY <1>6
  <2> HIDE DEF Ids
  <2> QED
    BY <1>4, <1>5, <2>1, Zenon
<1>9. /\ book' \in Books
      /\ ~book'.synced => book'.last \in {0, base}
      /\ book'.synced => (base + 1)..book'.last \subseteq covered'
      /\ book'.synced /\ whole' => core' = [level |-> BookAt(book'.last), sequence |-> book'.last]
  <2>1. CASE Outcome(book, d) = "Skipped"
    <3>1. book' = book /\ d.last <= book.last /\ covered' = covered
      BY <1>1, <1>4, <1>5, <2>1, ApplyDiffCases
    <3>2. ASSUME book.synced, whole
          PROVE  Folded(core, d) = core
      BY <1>1, <1>5, <3>1, <3>2, FoldedAgain DEF Books
    <3> QED
      BY <1>3, <1>4, <1>5, <3>1, <3>2
  <2>2. CASE Outcome(book, d) = "Applied"
    <3>1. /\ book' = [last |-> d.last, synced |-> TRUE] /\ covered' = covered \cup d.first..d.last
          /\ book.last < d.last /\ d.first <= book.last + 1
      BY <1>1, <1>4, <1>5, <2>2, ApplyDiffCases
    <3>2. (base + 1)..d.last \subseteq covered'
      <4>1. book.synced \/ book.last = base
        BY <1>3, <1>5 DEF Fresh
      <4> SUFFICES ASSUME NEW i \in (base + 1)..d.last, i < d.first
                   PROVE  i \in covered
        BY <1>5, <1>6, <3>1
      <4>2. i \in (base + 1)..book.last
        BY <1>5, <1>6, <3>1
      <4>3. book.synced
        BY <1>5, <4>1, <4>2
      <4> QED
        BY <1>5, <4>2, <4>3
    <3>3. ASSUME book.synced, whole
          PROVE  Folded(core, d) = [level |-> BookAt(d.last), sequence |-> d.last]
      <4>1. core.level = BookAt(book.last) /\ core.sequence = book.last /\ book.last \in Ids
        BY <1>5, <3>3 DEF Books
      <4> QED
        BY <1>1, <1>6, <3>1, <4>1, FoldedExact
    <3>4. book' \in Books /\ book'.synced /\ book'.last = d.last
      BY <1>6, <3>1 DEF Books
    <3> QED
      BY Zenon, <1>4, <1>5, <3>2, <3>3, <3>4
  <2> QED
    <3>1. Outcome(book, d) \in {"Applied", "Resync", "Skipped"}
      BY Zenon, <1>1, <1>5, ApplyDiffCases
    <3> QED
      BY Zenon, <1>3, <2>1, <2>2, <3>1
<1>10. DepthTypeOK'
  BY <1>2, <1>3, <1>4, <1>5, <1>7, <1>8, <1>9 DEF DepthInv, DepthTypeOK, Books
<1> QED
  BY <1>2, <1>3, <1>9, <1>10 DEF DepthInv, SyncedIsContiguous

\* What Stale and Bridge have in common.
LEMMA FetchFacts ==
  ASSUME DepthInv, NEW snapshot \in Ids, Fetch(snapshot)
  PROVE  /\ UNCHANGED <<now, sent, socket, inbox, tape>>
         /\ frame \in Sent /\ frame # None /\ awaiting
         /\ buffer \in Seq(Sent) /\ buffer' = <<>>
         /\ base' = snapshot /\ covered' = Bridged(snapshot) /\ covered' \subseteq Ids
         /\ Replayed(snapshot) \in Replays /\ ReplayOk(snapshot, Replayed(snapshot))
         /\ book' = Replayed(snapshot).book /\ book' \in Books
         /\ fetches \in 0..1 /\ fetches' = fetches + 1
<1>1. /\ UNCHANGED <<now, sent, socket, inbox, tape>>
      /\ frame \in Sent /\ frame # None /\ awaiting
      /\ buffer \in Seq(Sent) /\ buffer' = <<>>
      /\ base' = snapshot /\ covered' = Bridged(snapshot)
      /\ book' = Replayed(snapshot).book
  BY Zenon DEF DepthInv, DepthTypeOK, Fetch, Stale, Bridge, venueVars, Bridged
<1>2. Bridged(snapshot) \subseteq Ids
  <2> SUFFICES ASSUME NEW k \in DOMAIN buffer
               PROVE  buffer[k].first..buffer[k].last \subseteq Ids
    BY DEF Bridged, Behind
  <2>1. buffer[k] \in Diffs
    BY <1>1 DEF Sent
  <2> QED
    BY <2>1 DEF Diffs
<1>3. Replayed(snapshot) \in Replays /\ ReplayOk(snapshot, Replayed(snapshot))
  BY <1>1, ReplayCovers
<1>4. book' \in Books
  BY <1>1, <1>3 DEF Replays
<1>5. fetches \in 0..1 /\ fetches' = fetches + 1
  <2>1. fetches \in 0..1 /\ fetches' = Min({fetches + 1, 3})
    BY <1>1 DEF DepthInv, Fetch
  <2>2. PICK f \in {1, 2} : f = fetches + 1
    BY <2>1
  <2>3. Min({f, 3}) = f
    BY DEF Min
  <2> QED
    BY Zenon, <2>1, <2>2, <2>3
<1> QED
  BY <1>1, <1>2, <1>3, <1>4, <1>5

\* A stale snapshot: it was the first, for one behind an empty buffer is not
\* stale.
LEMMA StaleStep ==
  ASSUME DepthInv, NEW snapshot \in Ids, Fetch(snapshot), Stale(snapshot)
  PROVE  DepthInv'
<1>1. UNCHANGED <<awaiting, frame, core, whole>> /\ Replayed(snapshot).stale
  BY DEF Stale
<1>2. ~book'.synced
  BY <1>1, FetchFacts DEF ReplayOk
<1>3. fetches = 0
  <2>1. fetches = 1 => buffer = <<>>
    BY FetchFacts DEF DepthInv
  <2>2. buffer # <<>>
    BY <1>1, ReplayEmpty DEF Installed
  <2> QED
    BY <2>1, <2>2, FetchFacts
<1>4. buffer' \in Seq(Diffs) /\ buffer' \in Seq(Sent)
  <2>1. buffer' = <<>>
    BY FetchFacts
  <2> QED
    BY <2>1
<1>5. DepthTypeOK'
  BY Zenon, <1>1, <1>2, <1>4, FetchFacts DEF DepthInv, DepthTypeOK, Books
<1> QED
  BY <1>1, <1>2, <1>3, <1>4, <1>5, FetchFacts DEF DepthInv, SyncedIsContiguous

\* A snapshot that bridges: the book is synced over the diffs behind it or stays
\* at the snapshot.
LEMMA BridgeStep ==
  ASSUME DepthInv, NEW snapshot \in Ids, Fetch(snapshot), Bridge(snapshot)
  PROVE  DepthInv'
<1>1. /\ ~Replayed(snapshot).stale /\ awaiting' = FALSE /\ frame' = None
      /\ core' = IF book'.synced THEN Folded(Rebuilt(snapshot), frame) ELSE core
      /\ whole' = (book'.synced /\ \E k \in DOMAIN buffer :
                                      Behind(snapshot) = {k} /\ buffer[k] = frame)
  <2>1. snapshot # None
    BY MessageAssumption
  <2> QED
    BY Zenon, <2>1 DEF Bridge, Emitted
<1>2. IF book'.synced THEN (base' + 1)..book'.last \subseteq covered' ELSE book'.last = base'
  BY <1>1, FetchFacts DEF ReplayOk
<1>3. core' \in [level : [Levels -> Ids], sequence : Ids]
  <2>1. Rebuilt(snapshot) \in [level : [Levels -> Ids], sequence : Ids]
    BY BookAtType DEF Rebuilt
  <2>2. core \in [level : [Levels -> Ids], sequence : Ids]
    BY Zenon DEF DepthInv, DepthTypeOK
  <2> QED
    BY Zenon, <1>1, <2>1, <2>2, FetchFacts, FoldedType
<1>4. ASSUME book'.synced, whole'
      PROVE  core' = [level |-> BookAt(book'.last), sequence |-> book'.last]
  <2>1. PICK k \in DOMAIN buffer : Behind(snapshot) = {k} /\ buffer[k] = frame
    BY Zenon, <1>1, <1>4
  <2> DEFINE b == [last |-> snapshot, synced |-> FALSE]
  <2>2. Replayed(snapshot) = ReplayStep(snapshot, Installed(snapshot), frame)
    BY <2>1, ReplayOne, FetchFacts
  <2>3. frame \in Diffs /\ snapshot < frame.last
    BY Zenon, <2>1, FetchFacts DEF Behind, Sent, Diffs
  <2>4. ~(frame.last <= snapshot)
    BY <2>3 DEF Diffs
  <2>5. Replayed(snapshot) = [book |-> ApplyDiff(b, frame), stale |-> Outcome(b, frame) = "Resync"]
    BY <2>2, <2>4 DEF ReplayStep, Installed
  <2>6. book' = ApplyDiff(b, frame) /\ Outcome(b, frame) # "Resync"
    <3> HIDE DEF b
    <3>1. Replayed(snapshot).book = ApplyDiff(b, frame)
          /\ (Replayed(snapshot).stale <=> Outcome(b, frame) = "Resync")
      <4> DEFINE A == ApplyDiff(b, frame)
                 O == Outcome(b, frame)
                 r == Replayed(snapshot)
      <4>1. r = [book |-> A, stale |-> O = "Resync"]
        BY <2>5
      <4> HIDE DEF A, O, r
      <4>2. r.book = A /\ (r.stale <=> O = "Resync")
        BY Zenon, <4>1
      <4> QED
        BY <4>2 DEF A, O, r
    <3>2. book' = Replayed(snapshot).book
      BY FetchFacts
    <3> QED
      BY <1>1, <3>1, <3>2
  <2>b. b \in Books
    BY DEF Books
  <2>7. Outcome(b, frame) # "Skipped"
    BY <2>3 DEF Outcome, Diffs
  <2>8. book'.last = frame.last /\ frame.first <= snapshot + 1
    BY <2>3, <2>6, <2>b, <2>7, ApplyDiffCases
  <2>9. Folded(Rebuilt(snapshot), frame) = [level |-> BookAt(frame.last), sequence |-> frame.last]
    <3>1. snapshot <= frame.last /\ frame \in Sent
      BY <2>3, FetchFacts DEF Diffs
    <3>2. Rebuilt(snapshot).level = BookAt(snapshot) /\ Rebuilt(snapshot).sequence = snapshot
      BY DEF Rebuilt
    <3> QED
      BY <2>8, <3>1, <3>2, FoldedExact
  <2> QED
    BY <1>1, <1>4, <2>8, <2>9
<1>5. buffer' \in Seq(Diffs) /\ buffer' \in Seq(Sent) /\ whole' \in BOOLEAN
  <2>1. buffer' = <<>>
    BY FetchFacts
  <2> QED
    BY <1>1, <2>1
<1>6. DepthTypeOK'
  BY Zenon, <1>1, <1>3, <1>5, FetchFacts DEF DepthInv, DepthTypeOK, Books
<1> QED
  BY <1>1, <1>2, <1>4, <1>5, <1>6, FetchFacts DEF DepthInv, SyncedIsContiguous

\* Every step keeps the invariant.
LEMMA DepthStep == DepthInv /\ [Next]_vars => DepthInv'
<1> SUFFICES ASSUME DepthInv, [Next]_vars PROVE DepthInv'
  OBVIOUS
<1>1. CASE Update \/ SendFrame \/ Drop \/ Connect \/ \E tick \in Ticks : SendTick(tick)
  BY <1>1, VenueSteps
<1>2. CASE Resync
  BY <1>2, ResyncStep
<1>3. CASE SkipFrame \/ Forward \/ FetchFails
  BY <1>3, PassingSteps
<1>4. CASE Receive
  BY Zenon, <1>4, AskStep, GoStep DEF Receive
<1>5. ASSUME NEW snapshot \in Ids, Fetch(snapshot)
      PROVE  DepthInv'
  BY <1>5, StaleStep, BridgeStep DEF Fetch
<1>6. CASE UNCHANGED vars
  BY <1>6 DEF vars, venueVars, syncVars, auxVars, DepthInv, DepthTypeOK, SyncedIsContiguous, BookAt
<1> QED
  BY <1>1, <1>2, <1>3, <1>4, <1>5, <1>6 DEF Next, Pump, FetchStep

\* The invariant holds in every state of the feed.
LEMMA DepthInvariance == Spec => []DepthInv
BY DepthInit, DepthStep, PTL DEF Spec

-----------------------------------------------------------------------------
\* The theorems

\* The state of client, resyncer and pump is well formed, and a frame waits only
\* while the resyncer awaits a snapshot and the book is not synced.
THEOREM DepthTypeCorrect == Spec => []DepthTypeOK
<1>1. DepthInv => DepthTypeOK
  BY DEF DepthInv
<1> QED
  BY <1>1, DepthInvariance, PTL

\* A synced LocalOrderBook has applied every update between its snapshot and its
\* last_update_id: no drop, bad frame, stale snapshot or failed fetch leaves a
\* hole behind (apply_diff, on_snapshot).
THEOREM SyncedBooksHaveNoHoles == Spec => []SyncedIsContiguous
<1>1. DepthInv => SyncedIsContiguous
  BY DEF DepthInv
<1> QED
  BY <1>1, DepthInvariance, PTL

\* Where the frame that bridged the book was the only diff behind its snapshot,
\* the core's book is the venue's at last_update_id for as long as the book
\* stays synced (process_frame, OrderBook::apply).
THEOREM CoreFollowsTheVenue == Spec => []RebuiltBookIsExact
<1>1. DepthInv => RebuiltBookIsExact
  BY DEF DepthInv, RebuiltBookIsExact
<1> QED
  BY <1>1, DepthInvariance, PTL

\* A frame costs at most two snapshots, however far the snapshots lag and
\* whatever the buffer holds (process_frame, on_snapshot).
THEOREM TwoFetchesAreEnough == Spec => []TwoFetches
<1>1. DepthInv => TwoFetches
  BY DEF DepthInv, TwoFetches
<1> QED
  BY <1>1, DepthInvariance, PTL

=============================================================================

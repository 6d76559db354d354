---------------------------- MODULE LiveTheorems ----------------------------
(***************************************************************************)
(* The safety properties of the live kernel, for every strategy, client    *)
(* and feed, any number of orders and any schedule of kernel, venue and    *)
(* stopping thread; and that its orders implement OrderLifecycle.          *)
(* LiveInv, the inductive invariant, has a part about the strategy, the    *)
(* stop signal and the market (the order ids that PyCtx promises, and      *)
(* where the task stands when a stop is requested) and a part about the    *)
(* executions that client and venue report.                                *)
(***************************************************************************)
EXTENDS LiveKernel, DataLemmas

USE NoneAssumption, LiveAssumption

-----------------------------------------------------------------------------
\* The strategy adapter

Replayable == {t \in PyTickets : Replays(t)}

Cancels == [cmd : {"Cancel"}, coid : Coids]

\* What a handler in Python may have queued, and what replay makes of it.
IntentType == Cancels \cup [cmd : {"Submit"}, ticket : Replayable, promised : Nat]

MintedType ==
  Cancels \cup [cmd : {"Submit"}, coid : Nat, ticket : Replayable, promised : Nat]

\* The OrderFactory's number, and the commands so far.
Factory == [seq : Nat, commands : Seq(MintedType)]

\* Every order so far has the id it was promised, one of those behind base.
Fulfilled(base, r) ==
  /\ r \in Factory
  /\ base <= r.seq /\ r.seq <= base + Len(r.commands)
  /\ \A k \in DOMAIN r.commands :
       r.commands[k].cmd = "Submit" =>
         r.commands[k].coid = r.commands[k].promised /\ r.commands[k].coid \in 1..r.seq

\* A submission that PyCtx queues passes the checks of replay.
LEMMA QueuedIsReplayed ==
  ASSUME NEW t \in PyTickets, Queues(t)
  PROVE  Replays(t)
<1>1. t.type \in {"Market", "Limit", "StopMarket", "StopLimit", "TrailingStopMarket"}
  BY Zenon, PythonAssumption DEF OrderTypes
<1>2. CASE t.type = "Market"
  BY Zenon, <1>2 DEF Queues, Replays, SubmitMarketOK
<1>3. CASE t.type = "Limit"
  BY Zenon, <1>3 DEF Queues, Replays, SubmitLimitOK
<1>4. CASE t.type = "StopMarket"
  BY Zenon, <1>4 DEF Queues, Replays, SubmitStopOK
<1>5. CASE t.type = "StopLimit"
  BY Zenon, <1>5 DEF Queues, Replays, SubmitStopLimitOK
<1>6. CASE t.type = "TrailingStopMarket"
  <2>1. Resolves(t) /\ Representable(t.quantity) /\ t.stop > 0
    BY Zenon, <1>6 DEF Queues, SubmitTrailingOK
  <2>2. t.stop >= 0
    BY <1>6, <2>1, PythonAssumption
  <2> QED
    BY Zenon, <1>6, <2>1, <2>2 DEF Replays, Representable
<1> QED
  BY Zenon, <1>1, <1>2, <1>3, <1>4, <1>5, <1>6

\* Replaying one intent keeps the state of the factory well formed.
LEMMA ReplayOneType ==
  ASSUME NEW r \in Factory, NEW intent \in IntentType
  PROVE  ReplayOne(r, intent) \in Factory
<1>1. /\ r.seq \in Nat /\ r.commands \in Seq(MintedType)
      /\ r = [seq |-> r.seq, commands |-> r.commands]
  BY Zenon DEF Factory
<1>2. CASE intent \in Cancels
  <2>1. intent.cmd = "Cancel" /\ intent \in MintedType
    BY Zenon, <1>2 DEF Cancels, MintedType
  <2>2. ReplayOne(r, intent) = [seq |-> r.seq, commands |-> Append(r.commands, intent)]
    BY Zenon, <1>1, <2>1 DEF ReplayOne
  <2> QED
    BY <1>1, <2>1, <2>2 DEF Factory
<1>3. CASE intent \notin Cancels
  <2>1. intent.cmd = "Submit" /\ intent.ticket \in Replayable /\ intent.promised \in Nat
    BY Zenon, <1>3 DEF IntentType
  <2> DEFINE m == [cmd |-> "Submit", coid |-> r.seq + 1, ticket |-> intent.ticket,
                   promised |-> intent.promised]
  <2>2. m \in MintedType
    BY <1>1, <2>1 DEF MintedType
  <2>3. ReplayOne(r, intent) = [seq |-> r.seq + 1, commands |-> Append(r.commands, m)]
    BY Zenon, <2>1 DEF ReplayOne, Replayable
  <2> HIDE DEF m
  <2>4. Append(r.commands, m) \in Seq(MintedType)
    BY <1>1, <2>2
  <2> QED
    BY <1>1, <2>3, <2>4 DEF Factory
<1> QED
  BY Zenon, <1>2, <1>3

\* The steps of replay.
Steps(seq0, intents, a) ==
  /\ a \in [0..Len(intents) -> Factory]
  /\ a[0] = [seq |-> seq0, commands |-> <<>>]
  /\ \A n \in 1..Len(intents) : a[n] = ReplayOne(a[n - 1], intents[n])

\* Replay is the last of the states that its steps run through.
LEMMA ReplaySteps ==
  ASSUME NEW seq0 \in Nat, NEW intents \in Seq(IntentType)
  PROVE  \E a : Steps(seq0, intents, a) /\ Replay(seq0, intents) = a[Len(intents)]
<1> DEFINE N == Len(intents)
           start == [seq |-> seq0, commands |-> <<>>]
           Eq(h) == h = [k \in 0..N |-> IF k = 0 THEN start ELSE ReplayOne(h[k - 1], intents[k])]
           F == [p \in Factory \X (1..N) |-> ReplayOne(p[1], intents[p[2]])]
<1>1. N \in Nat /\ \A n \in 1..N : intents[n] \in IntentType
  OBVIOUS
<1>2. start \in Factory
  BY DEF Factory
<1>3. F \in [Factory \X (1..N) -> Factory]
  BY Zenon, <1>1, ReplayOneType
<1>4. \A r \in Factory, n \in 1..N : F[<<r, n>>] = ReplayOne(r, intents[n])
  BY Zenon
<1>5. Replay(seq0, intents) = (CHOOSE h : Eq(h))[N]
  BY Zenon DEF Replay
<1> HIDE DEF F, N, start
<1>6. PICK g \in [0..N -> Factory] : Recursive(g, start, F, N)
  BY <1>1, <1>2, <1>3, Recursion, Zenon
<1>7. Eq(g)
  <2>1. ASSUME NEW n \in 0..N, n # 0
        PROVE  g[n] = ReplayOne(g[n - 1], intents[n])
    <3>1. n \in 1..N /\ n - 1 \in 0..N
      BY <1>1, <2>1
    <3> QED
      BY Zenon, <3>1, <1>4, <1>6 DEF Recursive
  <2> QED
    BY Zenon, <1>6, <2>1 DEF Recursive
<1> DEFINE a == CHOOSE h : Eq(h)
<1>8. Eq(a)
  <2> HIDE DEF Eq
  <2> QED
    BY Zenon, <1>7
<1> HIDE DEF a
<1>9. /\ DOMAIN a = 0..N /\ a[0] = start
      /\ \A n \in 1..N : a[n] = ReplayOne(a[n - 1], intents[n])
      /\ a = [n \in 0..N |-> a[n]]
  <2>1. DOMAIN a = 0..N
    BY <1>8, Zenon
  <2>2. \A n \in 0..N : a[n] = IF n = 0 THEN start ELSE ReplayOne(a[n - 1], intents[n])
    BY <1>8, Zenon
  <2>3. 0 \in 0..N /\ \A n \in 1..N : n \in 0..N /\ n # 0
    BY <1>1
  <2>4. a = [n \in 0..N |-> a[n]]
    BY <1>8, Zenon
  <2> HIDE DEF Eq
  <2> QED
    BY <2>1, <2>2, <2>3, <2>4, Zenon
<1>10. a \in [0..N -> Factory]
  <2> DEFINE T == {n \in Nat : n <= N => a[n] \in Factory}
  <2>1. 0 \in T
    BY Zenon, <1>2, <1>9
  <2>2. ASSUME NEW n \in Nat, n \in T PROVE n + 1 \in T
    <3> SUFFICES ASSUME n + 1 <= N PROVE a[n + 1] \in Factory
      OBVIOUS
    <3>1. n + 1 \in 1..N /\ (n + 1) - 1 = n /\ a[n] \in Factory
      BY <1>1, <2>2
    <3>2. a[n + 1] = ReplayOne(a[n], intents[n + 1])
      BY Zenon, <3>1, <1>9
    <3> QED
      BY Zenon, <3>1, <3>2, <1>1, ReplayOneType
  <2> HIDE DEF T
  <2>3. \A n \in Nat : n \in T
    BY <2>1, <2>2, SetInduction, Zenon
  <2>4. \A n \in 0..N : a[n] \in Factory
    BY <1>1, <2>3 DEF T
  <2> QED
    BY Zenon, <1>9, <2>4
<1> QED
  BY Zenon, <1>5, <1>9, <1>10 DEF N, a, start, Steps

\* A handler that queued nothing changes nothing.
LEMMA ReplayNothing ==
  ASSUME NEW seq0 \in Nat
  PROVE  Replay(seq0, <<>>) = [seq |-> seq0, commands |-> <<>>]
<1>1. <<>> \in Seq(IntentType) /\ Len(<<>>) = 0
  OBVIOUS
<1>2. PICK a : Steps(seq0, <<>>, a) /\ Replay(seq0, <<>>) = a[Len(<<>>)]
  BY Zenon, <1>1, ReplaySteps
<1> QED
  BY Zenon, <1>1, <1>2 DEF Steps

\* One intent more.
LEMMA ReplayAppend ==
  ASSUME NEW seq0 \in Nat, NEW intents \in Seq(IntentType), NEW intent \in IntentType
  PROVE  /\ Replay(seq0, intents) \in Factory
         /\ Replay(seq0, Append(intents, intent)) = ReplayOne(Replay(seq0, intents), intent)
<1> DEFINE longer == Append(intents, intent)
           N == Len(intents)
<1>1. /\ longer \in Seq(IntentType) /\ N \in Nat /\ Len(longer) = N + 1
      /\ longer[N + 1] = intent /\ \A n \in 1..N : longer[n] = intents[n]
  OBVIOUS
<1> HIDE DEF longer
<1>2. PICK a : Steps(seq0, intents, a) /\ Replay(seq0, intents) = a[Len(intents)]
  BY Zenon, ReplaySteps
<1>3. PICK b : Steps(seq0, longer, b) /\ Replay(seq0, longer) = b[Len(longer)]
  BY Zenon, <1>1, ReplaySteps
<1> DEFINE T == {n \in Nat : n <= N => b[n] = a[n]}
<1>4. 0 \in T
  BY Zenon, <1>2, <1>3 DEF Steps
<1>5. ASSUME NEW n \in Nat, n \in T PROVE n + 1 \in T
  <2> SUFFICES ASSUME n + 1 <= N PROVE b[n + 1] = a[n + 1]
    OBVIOUS
  <2>1. n + 1 \in 1..N /\ n + 1 \in 1..Len(longer) /\ (n + 1) - 1 = n /\ b[n] = a[n]
    BY <1>1, <1>5
  <2>2. a[n + 1] = ReplayOne(a[n], intents[n + 1]) /\ b[n + 1] = ReplayOne(b[n], longer[n + 1])
    BY Zenon, <1>2, <1>3, <2>1 DEF Steps
  <2> QED
    BY Zenon, <1>1, <2>1, <2>2
<1> HIDE DEF T
<1>6. \A n \in Nat : n \in T
  BY <1>4, <1>5, SetInduction, Zenon
<1>7. b[N] = a[N]
  BY <1>1, <1>6 DEF T
<1>8. b[N + 1] = ReplayOne(b[N], longer[N + 1])
  <2>1. N + 1 \in 1..Len(longer) /\ (N + 1) - 1 = N
    BY <1>1
  <2> QED
    BY Zenon, <1>3, <2>1 DEF Steps
<1>9. a[N] \in Factory
  BY <1>1, <1>2 DEF Steps
<1> QED
  BY Zenon, <1>1, <1>2, <1>3, <1>7, <1>8, <1>9 DEF longer

\* Replay keeps the promise of an intent that was promised the next id.
LEMMA PromiseKept ==
  ASSUME NEW base0 \in Nat, NEW r, Fulfilled(base0, r), NEW intent \in IntentType,
         intent.cmd = "Submit" => intent.promised = r.seq + 1
  PROVE  /\ Fulfilled(base0, ReplayOne(r, intent))
         /\ ReplayOne(r, intent).seq = IF intent.cmd = "Submit" THEN r.seq + 1 ELSE r.seq
<1>1. /\ r.seq \in Nat /\ r.commands \in Seq(MintedType)
      /\ r = [seq |-> r.seq, commands |-> r.commands]
      /\ r \in Factory /\ base0 <= r.seq /\ r.seq <= base0 + Len(r.commands)
  BY Zenon DEF Factory, Fulfilled
<1>2. ReplayOne(r, intent) \in Factory
  BY Zenon, <1>1, ReplayOneType
<1>3. CASE intent.cmd = "Cancel"
  <2>1. ReplayOne(r, intent) = [seq |-> r.seq, commands |-> Append(r.commands, intent)]
    BY Zenon, <1>1, <1>3 DEF ReplayOne
  <2>2. /\ Len(Append(r.commands, intent)) = Len(r.commands) + 1 /\ Len(r.commands) \in Nat
        /\ \A k \in DOMAIN Append(r.commands, intent) :
             Append(r.commands, intent)[k] =
               IF k \in DOMAIN r.commands THEN r.commands[k] ELSE intent
    BY <1>1
  <2> QED
    BY SMTT(30), <1>1, <1>2, <1>3, <2>1, <2>2 DEF Fulfilled
<1>4. CASE intent.cmd # "Cancel"
  <2>1. intent.cmd = "Submit" /\ Replays(intent.ticket)
    BY Zenon, <1>4 DEF IntentType, Cancels, Replayable
  <2> DEFINE m == [cmd |-> "Submit", coid |-> r.seq + 1, ticket |-> intent.ticket,
                   promised |-> intent.promised]
  <2>2. ReplayOne(r, intent) = [seq |-> r.seq + 1, commands |-> Append(r.commands, m)]
    BY Zenon, <2>1 DEF ReplayOne
  <2>3. m.coid = m.promised /\ m.coid \in 1..(r.seq + 1)
    BY <1>1, <2>1
  <2> HIDE DEF m
  <2>4. /\ Len(Append(r.commands, m)) = Len(r.commands) + 1 /\ Len(r.commands) \in Nat
        /\ \A k \in DOMAIN Append(r.commands, m) :
             Append(r.commands, m)[k] = IF k \in DOMAIN r.commands THEN r.commands[k] ELSE m
    BY <1>1
  <2>5. \A k \in DOMAIN r.commands : r.commands[k].cmd = "Submit" =>
          r.commands[k].coid = r.commands[k].promised /\ r.commands[k].coid \in 1..(r.seq + 1)
    BY <1>1 DEF Fulfilled
  <2> QED
    <3>1. PICK n0 \in Nat, s0 \in Nat : n0 = Len(r.commands) /\ s0 = r.seq
      BY Zenon, <1>1, <2>4
    <3>2. base0 <= s0 /\ s0 <= base0 + n0 => base0 <= s0 + 1 /\ s0 + 1 <= base0 + (n0 + 1)
      OBVIOUS
    <3>3. /\ ReplayOne(r, intent).seq = r.seq + 1
          /\ ReplayOne(r, intent).commands = Append(r.commands, m)
      BY <2>2
    <3>4. base0 <= r.seq + 1 /\ r.seq + 1 <= base0 + Len(Append(r.commands, m))
      BY Zenon, <1>1, <2>4, <3>1, <3>2
    <3>5. ASSUME NEW k \in DOMAIN Append(r.commands, m), Append(r.commands, m)[k].cmd = "Submit"
          PROVE  /\ Append(r.commands, m)[k].coid = Append(r.commands, m)[k].promised
                 /\ Append(r.commands, m)[k].coid \in 1..(r.seq + 1)
      BY Zenon, <2>3, <2>4, <2>5, <3>5
    <3> QED
      BY Zenon, <1>2, <2>1, <3>3, <3>4, <3>5 DEF Fulfilled
<1> QED
  BY Zenon, <1>3, <1>4

\* A PyCtx whose submit_count is the number of orders replay will mint.
Contexts(seq0) ==
  {x \in [base_seq : {seq0}, submit_count : Nat, outbox : Seq(IntentType)] :
     /\ Fulfilled(seq0, Replay(seq0, x.outbox))
     /\ Replay(seq0, x.outbox).seq = seq0 + x.submit_count}

\* A handler starts with the context of an empty queue.
LEMMA FreshContext ==
  ASSUME NEW seq0 \in Nat
  PROVE  FreshCtx(seq0) \in Contexts(seq0)
<1>1. Replay(seq0, <<>>) = [seq |-> seq0, commands |-> <<>>]
  BY Zenon, ReplayNothing
<1>2. Fulfilled(seq0, [seq |-> seq0, commands |-> <<>>])
  <2>1. [seq |-> seq0, commands |-> <<>>] \in Factory
    BY DEF Factory
  <2> QED
    BY <2>1 DEF Fulfilled
<1>3. FreshCtx(seq0) \in [base_seq : {seq0}, submit_count : Nat, outbox : Seq(IntentType)]
  BY DEF FreshCtx
<1>4. FreshCtx(seq0).outbox = <<>> /\ FreshCtx(seq0).submit_count = 0
  BY Zenon DEF FreshCtx
<1> QED
  BY <1>1, <1>2, <1>3, <1>4 DEF Contexts

\* A call queues an intent with the next id, or raises and leaves the context.
LEMMA CallKeepsCount ==
  ASSUME NEW seq0 \in Nat, NEW x \in Contexts(seq0), NEW call \in PyCalls
  PROVE  PyCall(x, call) \in Contexts(seq0)
<1>1. /\ x.base_seq = seq0 /\ x.submit_count \in Nat /\ x.outbox \in Seq(IntentType)
      /\ x = [base_seq |-> seq0, submit_count |-> x.submit_count, outbox |-> x.outbox]
      /\ Fulfilled(seq0, Replay(seq0, x.outbox))
      /\ Replay(seq0, x.outbox).seq = seq0 + x.submit_count
  BY Zenon DEF Contexts
<1> DEFINE Longer(intent, n) ==
             [base_seq |-> seq0, submit_count |-> n, outbox |-> Append(x.outbox, intent)]
<1>2. ASSUME NEW intent \in IntentType, NEW n \in Nat,
             intent.cmd = "Submit" => intent.promised = Replay(seq0, x.outbox).seq + 1,
             n = IF intent.cmd = "Submit" THEN x.submit_count + 1 ELSE x.submit_count
      PROVE  Longer(intent, n) \in Contexts(seq0)
  <2>1. Append(x.outbox, intent) \in Seq(IntentType)
    BY <1>1, <1>2
  <2>2. Replay(seq0, Append(x.outbox, intent)) = ReplayOne(Replay(seq0, x.outbox), intent)
    BY Zenon, <1>1, <1>2, ReplayAppend
  <2>3. /\ Fulfilled(seq0, Replay(seq0, Append(x.outbox, intent)))
        /\ Replay(seq0, Append(x.outbox, intent)).seq
             = IF intent.cmd = "Submit" THEN Replay(seq0, x.outbox).seq + 1
               ELSE Replay(seq0, x.outbox).seq
    <3> DEFINE r == Replay(seq0, x.outbox)
    <3>1. Fulfilled(seq0, r) /\ (intent.cmd = "Submit" => intent.promised = r.seq + 1)
      BY Zenon, <1>1, <1>2
    <3> HIDE DEF r
    <3>2. /\ Fulfilled(seq0, ReplayOne(r, intent))
          /\ ReplayOne(r, intent).seq = IF intent.cmd = "Submit" THEN r.seq + 1 ELSE r.seq
      BY Zenon, <1>2, <3>1, PromiseKept
    <3> QED
      BY Zenon, <2>2, <3>2 DEF r
  <2>4. Replay(seq0, Append(x.outbox, intent)).seq = seq0 + n
    BY <1>1, <1>2, <2>3
  <2>5. Longer(intent, n).outbox = Append(x.outbox, intent) /\ Longer(intent, n).submit_count = n
    BY Zenon
  <2>6. Longer(intent, n) \in [base_seq : {seq0}, submit_count : Nat, outbox : Seq(IntentType)]
    BY Zenon, <1>2, <2>1
  <2> HIDE DEF Longer
  <2> QED
    BY Zenon, <2>3, <2>4, <2>5, <2>6 DEF Contexts
<1>3. CASE call.cmd = "Cancel"
  <2>1. call.coid \in Coids
    BY Zenon, <1>3 DEF PyCalls
  <2> DEFINE intent == [cmd |-> "Cancel", coid |-> call.coid]
  <2>2. intent \in IntentType /\ intent.cmd = "Cancel"
    BY Zenon, <2>1 DEF IntentType, Cancels
  <2>3. PyCall(x, call) = Longer(intent, x.submit_count)
    BY Zenon, <1>1, <1>3 DEF PyCall, PyCancel
  <2> HIDE DEF intent, Longer
  <2> QED
    BY Zenon, <1>1, <1>2, <2>2, <2>3
<1>4. CASE call.cmd # "Cancel"
  <2>1. call.ticket \in PyTickets
    BY Zenon, <1>4 DEF PyCalls
  <2>2. CASE ~Queues(call.ticket)
    BY Zenon, <1>4, <2>2 DEF PyCall, PySubmit
  <2>3. CASE Queues(call.ticket)
    <3> DEFINE intent == [cmd |-> "Submit", ticket |-> call.ticket, promised |-> NextCoid(x)]
    <3>1. NextCoid(x) = Replay(seq0, x.outbox).seq + 1 /\ NextCoid(x) \in Nat
      BY <1>1 DEF NextCoid
    <3>2. intent \in IntentType /\ intent.cmd = "Submit"
          /\ intent.promised = Replay(seq0, x.outbox).seq + 1
      BY Zenon, <2>1, <2>3, <3>1, QueuedIsReplayed DEF IntentType, Replayable
    <3>3. PyCall(x, call) = Longer(intent, x.submit_count + 1)
      BY Zenon, <1>1, <1>4, <2>3 DEF PyCall, PySubmit, Queued
    <3> HIDE DEF intent, Longer
    <3>4. x.submit_count + 1 \in Nat
      BY <1>1
    <3> QED
      BY Zenon, <1>2, <3>2, <3>3, <3>4
  <2> QED
    BY Zenon, <2>2, <2>3
<1> QED
  BY Zenon, <1>3, <1>4

\* However many calls a handler makes and whatever raises, replay gives every
\* order the id that the strategy was promised.
LEMMA HandlerIsReplayed ==
  ASSUME NEW seq0 \in Nat, NEW calls \in Seq(PyCalls)
  PROVE  Fulfilled(seq0, Replay(seq0, Intents(seq0, calls)))
<1> DEFINE N == Len(calls)
           V == Contexts(seq0)
           start == FreshCtx(seq0)
           Eq(h) == h = [k \in 0..N |-> IF k = 0 THEN start ELSE PyCall(h[k - 1], calls[k])]
           F == [p \in V \X (1..N) |-> PyCall(p[1], calls[p[2]])]
<1>1. N \in Nat /\ \A n \in 1..N : calls[n] \in PyCalls
  OBVIOUS
<1>2. start \in V
  BY Zenon, FreshContext
<1>3. F \in [V \X (1..N) -> V]
  BY Zenon, <1>1, CallKeepsCount
<1>4. \A r \in V, n \in 1..N : F[<<r, n>>] = PyCall(r, calls[n])
  BY Zenon
<1>5. Intents(seq0, calls) = (CHOOSE h : Eq(h))[N].outbox
  BY Zenon DEF Intents
<1> HIDE DEF F, N, start, V
<1>6. PICK g \in [0..N -> V] : Recursive(g, start, F, N)
  BY <1>1, <1>2, <1>3, Recursion, Zenon
<1>7. Eq(g)
  <2>1. ASSUME NEW n \in 0..N, n # 0
        PROVE  g[n] = PyCall(g[n - 1], calls[n])
    <3>1. n \in 1..N /\ n - 1 \in 0..N
      BY <1>1, <2>1
    <3> QED
      BY Zenon, <3>1, <1>4, <1>6 DEF Recursive
  <2> QED
    BY Zenon, <1>6, <2>1 DEF Recursive
<1> DEFINE a == CHOOSE h : Eq(h)
<1>8. Eq(a)
  <2> HIDE DEF Eq
  <2> QED
    BY Zenon, <1>7
<1> HIDE DEF a
<1>9. a[0] = start /\ \A n \in 1..N : a[n] = PyCall(a[n - 1], calls[n])
  <2>1. \A n \in 0..N : a[n] = IF n = 0 THEN start ELSE PyCall(a[n - 1], calls[n])
    BY <1>8, Zenon
  <2>2. 0 \in 0..N /\ \A n \in 1..N : n \in 0..N /\ n # 0
    BY <1>1
  <2> HIDE DEF Eq
  <2> QED
    BY <2>1, <2>2, Zenon
<1> DEFINE T == {n \in Nat : n <= N => a[n] \in V}
<1>10. 0 \in T
  BY Zenon, <1>2, <1>9
<1>11. ASSUME NEW n \in Nat, n \in T PROVE n + 1 \in T
  <2> SUFFICES ASSUME n + 1 <= N PROVE a[n + 1] \in V
    OBVIOUS
  <2>1. n + 1 \in 1..N /\ (n + 1) - 1 = n /\ a[n] \in V
    BY <1>1, <1>11
  <2>2. a[n + 1] = PyCall(a[n], calls[n + 1])
    BY Zenon, <2>1, <1>9
  <2> QED
    BY Zenon, <2>1, <2>2, <1>1, CallKeepsCount DEF V
<1> HIDE DEF T
<1>12. \A n \in Nat : n \in T
  BY <1>10, <1>11, SetInduction, Zenon
<1>13. a[N] \in Contexts(seq0)
  BY <1>1, <1>12 DEF T, V
<1> QED
  BY Zenon, <1>5, <1>13 DEF a, Contexts

-----------------------------------------------------------------------------
\* The inductive invariant

LiveOrders ==
  [coid : Coids, inst : Instruments, side : Sides, price : MaybePrice, quantity : Nat \ {0}]

\* The commands on their way to the router: an order has the promised id.
CommandType ==
  {m \in [cmd : {"Submit"}, order : LiveOrders, type : OrderTypes, promised : Coids] :
     m.promised = m.order.coid}
    \cup [cmd : {"Cancel", "Modify"}, coid : Coids]

\* The strategy and its commands; the OrderFactory counts no more orders than
\* there were commands.
StrategyInv ==
  /\ <<strategy, client>> \in Setups
  /\ seq \in Nat /\ commands \in Nat /\ seq <= commands /\ commands <= MaxCommands
  /\ outbox \in Seq(CommandType) /\ cmds \in Seq(CommandType)

Labels ==
  {"built", "connect", "start", "drain", "outbox", "submit", "fill", "cancel", "top",
   "check", "arm", "armed", "poll", "parked", "emit", "stop", "disconnect", "done",
   "failed", "lost"}

\* A message handled after the stop was requested is the last: from there the
\* task comes to the flag before it comes to the select.
StopInv ==
  /\ pc \in Labels /\ ret \in {"top", "emit", "disconnect"}
  /\ stopper \in {"idle", "stored", "returned"} /\ requested \in BOOLEAN
  /\ waiting \in BOOLEAN /\ woken \in BOOLEAN /\ (woken => waiting)
  /\ late \in {0, 1}
  /\ late = 1 => /\ requested
                 /\ pc \notin {"built", "connect", "start", "check", "arm", "armed", "poll",
                               "parked"}

\* The market's part of the cache.
MarketInv ==
  /\ market \in Seq(EventType)
  /\ mark \in [Instruments -> MaybePrice]

FillType ==
  [kind : {"Fill"}, coid : Coids, inst : Instruments, side : Sides, qty : Nat \ {0},
   precision : Nat, due : {0}, trade_id : Nat]

StatusType == [kind : {"Accepted", "Rejected", "Canceled", "Expired"}, coid : Coids]

SeenOf(c) == {f \in Bookable(c) : f.trade_id \in seen_trade_ids}

\* An order and the client: what is executed and what is left make up the
\* order, and the cache shows at most what it has seen of it in its precision.
OrderInv(c) ==
  /\ exchange[c] = None => TradesOf(c) = {}
  /\ exchange[c] # None =>
       orders[c] # None /\ QtyOf(TradesOf(c)) + exchange[c].left = orders[c].quantity
  /\ orders[c] # None =>
       /\ orders[c].filled <= QtyOf(SeenOf(c))
       /\ ~IsTerminal(orders[c]) => orders[c].filled < orders[c].quantity

\* The executions: no two have the same id, and the next id is new.
TradesInv ==
  /\ IsFiniteSet(trades) /\ trades \subseteq FillType
  /\ \A f, g \in trades : f.trade_id = g.trade_id => f = g
  /\ \A f \in trades : f.trade_id <= Cardinality(trades)

\* A report on its way is of a cached order, and a fill is an execution.
ReportInv ==
  /\ reports \in Seq(FillType \cup StatusType)
  /\ \A k \in DOMAIN reports :
       /\ orders[reports[k].coid] # None
       /\ reports[k] \in FillType => reports[k] \in trades

TradeInv ==
  /\ orders \in [Coids -> TrackedType \cup {None}]
  /\ positions \in [Instruments -> Int]
  /\ exchange \in [Coids -> HeldType \cup {None}]
  /\ TradesInv
  /\ ReportInv
  /\ \A c \in Coids : OrderInv(c)

\* While the client is called the command is at the head, and its order cached.
RouteInv ==
  /\ pc \in {"outbox", "submit", "fill", "cancel"} => cmds # <<>>
  /\ pc = "fill" => client = "paper"
  /\ pc \in {"submit", "fill"} =>
       /\ Head(cmds).cmd = "Submit"
       /\ orders[Head(cmds).order.coid] # None
       /\ client = "paper" => /\ exchange[Head(cmds).order.coid] # None
                              /\ exchange[Head(cmds).order.coid].left > 0
  /\ pc = "cancel" => Head(cmds).cmd = "Cancel" /\ orders[Head(cmds).coid] # None
  /\ Len(reports) <= ReportCapacity

LiveInv == StrategyInv /\ StopInv /\ MarketInv /\ TradeInv /\ RouteInv

-----------------------------------------------------------------------------
\* The strategy and the router's commands

\* A handler's commands are well formed, whatever the handler does.
LEMMA HandlerStep ==
  ASSUME StrategyInv, Handler \/ UNCHANGED strategyVars
  PROVE  /\ strategy' = strategy /\ outbox' \in Seq(CommandType)
         /\ seq' \in Nat /\ commands' \in Nat /\ seq' <= commands' /\ commands' <= MaxCommands
<1>1. /\ seq \in Nat /\ commands \in Nat /\ seq <= commands /\ commands <= MaxCommands
      /\ outbox \in Seq(CommandType) /\ <<strategy, client>> \in Setups
  BY Zenon DEF StrategyInv
<1>2. CASE NativeHandler
  <2>1. PICK n \in 0..MaxPerCall :
          /\ commands + n <= MaxCommands /\ commands' = commands + n
          /\ \E q \in [1..n -> Commands] : outbox' = outbox \o q
    BY Zenon, <1>2 DEF NativeHandler
  <2>2. PICK q \in [1..n -> Commands] : outbox' = outbox \o q
    BY Zenon, <2>1
  <2>3. Commands \subseteq CommandType
    <3>1. ASSUME NEW c \in NativeCoids, NEW t \in Tickets
          PROVE  SubmitCommand(c, t, c) \in CommandType
      <4>1. c \in Coids /\ t \in TicketType
        BY Zenon
      <4>2. LiveOrder(c, t) \in LiveOrders /\ LiveOrder(c, t).coid = c /\ t.type \in OrderTypes
        BY Zenon, <4>1 DEF LiveOrder, LiveOrders, TicketType
      <4> QED
        BY Zenon, <4>1, <4>2 DEF SubmitCommand, CommandType
    <3>2. [cmd : {"Cancel", "Modify"}, coid : Coids] \subseteq CommandType
      BY Zenon DEF CommandType
    <3>3. {[cmd |-> kind, coid |-> c] : kind \in {"Cancel", "Modify"}, c \in NativeCoids}
            \subseteq [cmd : {"Cancel", "Modify"}, coid : Coids]
      OBVIOUS
    <3> QED
      BY <3>1, <3>2, <3>3 DEF Commands
  <2>4. n \in Nat
    BY <2>1
  <2>5. q \in Seq(CommandType)
    BY SMTT(30), <2>2, <2>3, <2>4
  <2> QED
    BY SMTT(30), <1>1, <1>2, <2>1, <2>2, <2>4, <2>5 DEF NativeHandler
<1>3. CASE PythonHandler
  <2> DEFINE Ran(calls) ==
               LET made == Replay(seq, Intents(seq, calls)).commands IN
               /\ commands + Len(made) <= MaxCommands
               /\ commands' = commands + Len(made)
               /\ seq' = Replay(seq, Intents(seq, calls)).seq
               /\ outbox' = outbox \o [k \in DOMAIN made |-> Routed(made[k])]
  <2>0. PICK n \in 0..MaxPerCall : \E calls \in [1..n -> PyCalls] : Ran(calls)
    BY Zenon, <1>3 DEF PythonHandler
  <2>1. PICK calls \in [1..n -> PyCalls] : Ran(calls)
    BY Zenon, <2>0
  <2> DEFINE r == Replay(seq, Intents(seq, calls))
             routed == [k \in DOMAIN r.commands |-> Routed(r.commands[k])]
  <2>2. calls \in Seq(PyCalls)
    BY <2>0, <2>1
  <2>3. Fulfilled(seq, r)
    BY Zenon, <1>1, <2>2, HandlerIsReplayed
  <2>4. /\ commands + Len(r.commands) <= MaxCommands
        /\ commands' = commands + Len(r.commands)
        /\ seq' = r.seq /\ outbox' = outbox \o routed
    BY Zenon, <2>1
  <2>5. /\ r.seq \in Nat /\ r.commands \in Seq(MintedType) /\ Len(r.commands) \in Nat
        /\ seq <= r.seq /\ r.seq <= seq + Len(r.commands)
        /\ \A k \in DOMAIN r.commands :
             r.commands[k].cmd = "Submit" =>
               r.commands[k].coid = r.commands[k].promised /\ r.commands[k].coid \in 1..r.seq
    BY <2>3 DEF Fulfilled, Factory
  <2> HIDE DEF r
  <2>6. \A c \in 1..r.seq : c \in Coids
    <3>1. r.seq <= MaxCommands
      BY SMTT(30), <1>1, <2>4, <2>5
    <3>2. 1..MaxCommands \subseteq Coids
      BY Zenon, <1>1, <1>3, PythonAssumption DEF PythonHandler
    <3> QED
      BY SMTT(30), <2>5, <3>1, <3>2
  <2>7. ASSUME NEW k \in DOMAIN r.commands
        PROVE  Routed(r.commands[k]) \in CommandType
    <3> DEFINE m == r.commands[k]
    <3>0. m \in MintedType /\ (m.cmd = "Submit" => m.coid = m.promised /\ m.coid \in Coids)
      BY <2>5, <2>6
    <3> SUFFICES Routed(m) \in CommandType
      BY Zenon
    <3> HIDE DEF m
    <3>1. CASE m \in Cancels
      BY Zenon, <3>1 DEF Cancels, Routed, CommandType
    <3>2. CASE m \notin Cancels
      <4>1. m.cmd = "Submit" /\ m.ticket \in PyTickets /\ Replays(m.ticket)
        BY Zenon, <3>0, <3>2 DEF MintedType, Replayable
      <4>2. m.coid \in Coids /\ m.promised = m.coid
        BY Zenon, <3>0, <4>1
      <4> DEFINE t == m.ticket
      <4>3. /\ t.side \in Sides /\ t.type \in OrderTypes /\ t.price \in MaybePrice
            /\ t.quantity \in Int \ {0}
        BY Zenon, <4>1, PythonAssumption
      <4>4. t.inst \in Instruments /\ t.quantity >= 0
        BY Zenon, <4>1 DEF Replays, Resolves, Representable
      <4> HIDE DEF t
      <4>5. LiveOrder(m.coid, t) \in LiveOrders /\ LiveOrder(m.coid, t).coid = m.coid
        BY SMTT(30), <4>2, <4>3, <4>4 DEF LiveOrder, LiveOrders
      <4>6. Routed(m) = SubmitCommand(m.coid, t, m.coid)
        BY Zenon, <4>1, <4>2 DEF Routed, t
      <4> QED
        BY SMTT(30), <4>2, <4>3, <4>5, <4>6 DEF SubmitCommand, CommandType
    <3> QED
      BY Zenon, <3>1, <3>2
  <2>8. routed \in Seq(CommandType)
    BY <2>5, <2>7
  <2> HIDE DEF routed
  <2>9. outbox' \in Seq(CommandType)
    BY <1>1, <2>4, <2>8
  <2>10. strategy' = strategy
    BY Zenon, <1>3 DEF PythonHandler
  <2>11. PICK n0 \in Nat, m0 \in Nat, s0 \in Nat, s1 \in Nat :
           n0 = Len(r.commands) /\ m0 = commands /\ s0 = seq /\ s1 = r.seq
    BY Zenon, <1>1, <2>5
  <2>12. s0 <= m0 /\ s1 <= s0 + n0 => s1 <= m0 + n0 /\ m0 + n0 \in Nat
    OBVIOUS
  <2> QED
    BY Zenon, <1>1, <2>4, <2>5, <2>9, <2>10, <2>11, <2>12
<1>4. CASE UNCHANGED strategyVars
  BY Zenon, <1>1, <1>4 DEF strategyVars
<1> QED
  BY Zenon, <1>2, <1>3, <1>4 DEF Handler

\* The steps by what they change.

\* Steps of the loop that move only the task.
Moves ==
  \/ Run \/ RunAgain \/ Connect \/ CheckStop \/ Arm \/ PollStop \/ Emit \/ CallbackFails
  \/ Idle \/ Wake \/ Disconnect \/ Fail

\* Steps that end with the next command, or with none.
Nexts == RouteModify \/ CallReturns

\* Steps in which the strategy has its turn.
Turns == OnStart \/ OnStop \/ TakeMarket

\* Steps that touch orders, executions or reports.
Trading ==
  \/ RouteSubmit \/ RouteCancel \/ PaperAccept \/ PaperFill \/ PaperCancel \/ TakeReport
  \/ VenueRepeats
  \/ \E c \in Coids : VenueAnswers(c) \/ VenueCloses(c) \/ VenueTrades(c)

tradeVars == <<orders, positions, seen_trade_ids, exchange, trades, reports>>

\* The actions of the live kernel, by what they touch.
LEMMA NextKinds ==
  ASSUME Next
  PROVE  \/ Moves \/ Nexts \/ Turns \/ Trading \/ DrainOutbox
         \/ StoreStop \/ NotifyWaiters \/ FeedSend \/ FeedClose
BY Zenon DEF Next, Kernel, Surroundings, Moves, Nexts, Turns, Trading

\* The steps that only move the program counter leave orders, commands and the
\* stop request alone.
LEMMA MovesFrame ==
  ASSUME Moves
  PROVE  UNCHANGED <<tradeVars, strategyVars, cmds, ret, client, mark, market, requested, stopper,
                     late>>
<1> USE DEF Goto, omsVars, cacheVars, feedVars, clientVars, stopVars, tradeVars, strategyVars
<1>1. CASE Run
  BY Zenon, <1>1 DEF Run
<1>2. CASE RunAgain
  BY Zenon, <1>2 DEF RunAgain
<1>3. CASE Connect
  BY Zenon, <1>3 DEF Connect
<1>4. CASE CheckStop
  BY Zenon, <1>4 DEF CheckStop
<1>5. CASE Arm
  BY Zenon, <1>5 DEF Arm
<1>6. CASE PollStop
  BY Zenon, <1>6 DEF PollStop
<1>7. CASE Emit
  BY Zenon, <1>7 DEF Emit
<1>8. CASE CallbackFails
  BY Zenon, <1>8 DEF CallbackFails
<1>9. CASE Idle
  BY Zenon, <1>9 DEF Idle
<1>10. CASE Wake
  BY Zenon, <1>10 DEF Wake
<1>11. CASE Disconnect
  BY Zenon, <1>11 DEF Disconnect
<1>12. CASE Fail
  BY Zenon, <1>12 DEF Fail
<1> QED
  BY Zenon, <1>1, <1>2, <1>3, <1>4, <1>5, <1>6, <1>7, <1>8, <1>9, <1>10, <1>11, <1>12 DEF Moves

\* No step changes the client, and the strategy changes in a handler only.
LEMMA StrategyFrame ==
  ASSUME Next
  PROVE  /\ client' = client
         /\ DrainOutbox \/ Handler \/ UNCHANGED strategyVars
         /\ \/ DrainOutbox
            \/ cmds' = cmds
            \/ cmds' = Tail(cmds) /\ pc \in {"outbox", "submit", "fill", "cancel"}
<1> USE DEF Goto, RouteOutboxThen, NextCommand, Notify, omsVars, clientVars, loopVars
<1>1. CASE Moves
  BY Zenon, <1>1, MovesFrame
<1>2. CASE Nexts
  BY Zenon, <1>2 DEF Nexts, RouteModify, CallReturns
<1>3. CASE Turns
  BY Zenon, <1>3 DEF Turns, OnStart, OnStop, TakeMarket
<1>4. CASE RouteSubmit
  <2>1. client' = client /\ pc = "outbox"
    BY Zenon, <1>4 DEF RouteSubmit
  <2>2. CASE SubmitApplies(Head(cmds).order)
    BY Zenon, <1>4, <2>1, <2>2 DEF RouteSubmit
  <2>3. CASE ~SubmitApplies(Head(cmds).order)
    BY Zenon, <1>4, <2>1, <2>3 DEF RouteSubmit
  <2> QED
    BY Zenon, <2>2, <2>3
<1>5. CASE RouteCancel
  BY Zenon, <1>5 DEF RouteCancel
<1>6. CASE PaperAccept \/ PaperFill \/ PaperCancel
  BY Zenon, <1>6 DEF PaperAccept, PaperFill, PaperCancel
<1>7. CASE TakeReport
  BY Zenon, <1>7 DEF TakeReport
<1>8. CASE VenueRepeats \/ \E c \in Coids : VenueAnswers(c) \/ VenueCloses(c) \/ VenueTrades(c)
  BY Zenon, <1>8 DEF VenueRepeats, VenueAnswers, VenueCloses, VenueTrades, VenueMoves
<1>9. CASE StoreStop \/ NotifyWaiters \/ FeedSend \/ FeedClose
  BY Zenon, <1>9 DEF StoreStop, NotifyWaiters, FeedSend, FeedClose
<1>10. CASE DrainOutbox
  BY Zenon, <1>10 DEF DrainOutbox
<1> QED
  BY Zenon, <1>1, <1>2, <1>3, <1>4, <1>5, <1>6, <1>7, <1>8, <1>9, <1>10, NextKinds DEF Trading

\* Every step preserves StrategyInv.
LEMMA StrategyStep ==
  ASSUME StrategyInv, RouteInv, Next
  PROVE  StrategyInv'
<1>1. client' = client
  BY Zenon, StrategyFrame
<1>2. CASE DrainOutbox
  <2>1. UNCHANGED <<strategy, seq, commands>> /\ outbox' = <<>> /\ cmds' = outbox
    BY Zenon, <1>2 DEF DrainOutbox
  <2> QED
    BY <1>1, <2>1 DEF StrategyInv
<1>3. CASE ~DrainOutbox
  <2>1. /\ strategy' = strategy /\ outbox' \in Seq(CommandType)
        /\ seq' \in Nat /\ commands' \in Nat /\ seq' <= commands' /\ commands' <= MaxCommands
    BY Zenon, <1>3, StrategyFrame, HandlerStep
  <2>2. cmds' \in Seq(CommandType)
    <3>1. cmds \in Seq(CommandType)
      BY Zenon DEF StrategyInv
    <3>2. cmds # <<>> => Tail(cmds) \in Seq(CommandType)
      BY <3>1
    <3>3. pc \in {"outbox", "submit", "fill", "cancel"} => cmds # <<>>
      BY Zenon DEF RouteInv
    <3> QED
      BY Zenon, <1>3, <3>1, <3>2, <3>3, StrategyFrame
  <2> QED
    BY Zenon, <1>1, <2>1, <2>2 DEF StrategyInv
<1> QED
  BY Zenon, <1>2, <1>3

-----------------------------------------------------------------------------
\* The stop signal

\* The steps that route a command leave the stop signal alone and end at the
\* next command, in a call of the client or where route_outbox was called.
LEMMA RoutingFrame ==
  ASSUME \/ Nexts \/ DrainOutbox \/ RouteSubmit \/ RouteCancel
         \/ PaperAccept \/ PaperFill \/ PaperCancel
  PROVE  /\ UNCHANGED <<ret, stopVars>>
         /\ pc' \in {"outbox", "submit", "fill", "cancel", ret}
<1> USE DEF Goto, NextCommand
<1>1. CASE RouteSubmit
  <2>1. UNCHANGED stopVars
    BY Zenon, <1>1 DEF RouteSubmit
  <2>2. CASE SubmitApplies(Head(cmds).order)
    BY Zenon, <1>1, <2>1, <2>2 DEF RouteSubmit
  <2>3. CASE ~SubmitApplies(Head(cmds).order)
    BY Zenon, <1>1, <2>1, <2>3 DEF RouteSubmit
  <2> QED
    BY Zenon, <2>2, <2>3
<1>2. CASE RouteCancel
  BY Zenon, <1>2 DEF RouteCancel
<1>3. CASE PaperAccept \/ PaperFill \/ PaperCancel
  BY Zenon, <1>3 DEF PaperAccept, PaperFill, PaperCancel
<1>4. CASE Nexts
  BY Zenon, <1>4 DEF Nexts, RouteModify, CallReturns
<1>5. CASE DrainOutbox
  BY Zenon, <1>5 DEF DrainOutbox
<1> QED
  BY Zenon, <1>1, <1>2, <1>3, <1>4, <1>5

\* What the venue does leaves the task alone.
LEMMA VenueFrame ==
  ASSUME VenueRepeats \/ \E c \in Coids : VenueAnswers(c) \/ VenueCloses(c) \/ VenueTrades(c)
  PROVE  UNCHANGED <<pc, ret, cmds, stopVars, strategyVars, client, omsVars, mark, market>>
         /\ client = "venue"
<1> USE DEF loopVars, cacheVars, feedVars
<1>1. CASE VenueRepeats
  BY Zenon, <1>1 DEF VenueRepeats
<1>2. ASSUME NEW c \in Coids, VenueAnswers(c) \/ VenueCloses(c) \/ VenueTrades(c)
      PROVE  UNCHANGED <<pc, ret, cmds, stopVars, strategyVars, client, omsVars, mark, market>>
             /\ client = "venue"
  BY Zenon, <1>2 DEF VenueAnswers, VenueCloses, VenueTrades, VenueMoves, VenueHas
<1> QED
  BY Zenon, <1>1, <1>2

\* Every step preserves StopInv: none handles a second message behind the stop.
LEMMA StopStep ==
  ASSUME StopInv, Next
  PROVE  StopInv'
<1> USE DEF StopInv, Labels, Goto, RouteOutboxThen, Taken, stopVars
<1>1. CASE Arm
  BY Zenon, <1>1 DEF Arm
<1>2. CASE Run \/ RunAgain \/ Connect
  BY <1>2 DEF Run, RunAgain, Connect
<1>3. CASE CheckStop
  BY Zenon, <1>3 DEF CheckStop
<1>4. CASE PollStop \/ Emit \/ CallbackFails
  BY <1>4 DEF PollStop, Emit, CallbackFails
<1>5. CASE Idle \/ Wake
  BY <1>5 DEF Idle, Wake
<1>6. CASE Disconnect \/ Fail
  BY <1>6 DEF Disconnect, Fail
<1>7. CASE OnStart
  BY Zenon, <1>7 DEF OnStart
<1>8. CASE OnStop
  BY Zenon, <1>8 DEF OnStop
<1>9. CASE TakeMarket \/ TakeReport
  <2>1. /\ pc = "poll" /\ pc' = "drain" /\ ret' = "emit"
        /\ waiting' = FALSE /\ woken' = FALSE /\ requested' = requested /\ stopper' = stopper
        /\ late' = IF requested THEN late + 1 ELSE late
    BY Zenon, <1>9 DEF TakeMarket, TakeReport
  <2>2. late = 0
    BY Zenon, <2>1
  <2>3. late' \in {0, 1} /\ (late' = 1 => requested')
    BY <2>1, <2>2
  <2> QED
    BY Zenon, <2>1, <2>3
<1>11. CASE \/ Nexts \/ DrainOutbox \/ RouteSubmit \/ RouteCancel
            \/ PaperAccept \/ PaperFill \/ PaperCancel
  BY <1>11, RoutingFrame
<1>12. CASE VenueRepeats \/ \E c \in Coids : VenueAnswers(c) \/ VenueCloses(c) \/ VenueTrades(c)
  BY <1>12, VenueFrame
<1>13. CASE StoreStop
  BY Zenon, <1>13 DEF StoreStop, loopVars
<1>14. CASE NotifyWaiters
  BY Zenon, <1>14 DEF NotifyWaiters, loopVars
<1>15. CASE FeedSend \/ FeedClose
  BY <1>15 DEF FeedSend, FeedClose, loopVars
<1> QED
  BY <1>1, <1>2, <1>3, <1>4, <1>5, <1>6, <1>7, <1>8, <1>9, <1>11, <1>12, <1>13,
     <1>14, <1>15, NextKinds, Zenon DEF Moves, Turns, Trading

-----------------------------------------------------------------------------
\* The market's part of the cache

\* Every step preserves MarketInv.
LEMMA MarketStep ==
  ASSUME MarketInv, Next
  PROVE  MarketInv'
<1>1. CASE TakeMarket
  <2> DEFINE ev == Head(market)
  <2>1. ev \in EventType /\ market' \in Seq(EventType)
    BY <1>1 DEF TakeMarket, MarketInv
  <2>2. mark' = IF ev.kind = "Delta" THEN mark ELSE [mark EXCEPT ![ev.inst] = View(ev).close]
    BY Zenon, <1>1 DEF TakeMarket, DataProcess
  <2> HIDE DEF ev
  <2>3. ev.inst \in Instruments /\ (ev.kind # "Delta" => View(ev).close \in Int)
    BY <2>1 DEF EventType, View
  <2> QED
    BY Zenon, <2>1, <2>2, <2>3 DEF MarketInv, MaybePrice
<1>2. CASE FeedSend
  <2>1. PICK ev \in MarketEvents : market' = Append(market, ev)
    BY Zenon, <1>2 DEF FeedSend
  <2>2. market' \in Seq(EventType)
    BY <2>1 DEF MarketInv
  <2>3. mark' = mark
    BY Zenon, <1>2 DEF FeedSend, cacheVars
  <2> QED
    BY Zenon, <2>2, <2>3 DEF MarketInv
<1>3. ASSUME UNCHANGED <<mark, market>>
      PROVE  MarketInv'
  BY Zenon, <1>3 DEF MarketInv
<1> USE DEF cacheVars, feedVars
<1>4. CASE OnStart \/ OnStop
  BY Zenon, <1>3, <1>4 DEF OnStart, OnStop
<1>5. CASE DrainOutbox \/ RouteSubmit \/ RouteCancel \/ TakeReport
  BY Zenon, <1>3, <1>5 DEF DrainOutbox, RouteSubmit, RouteCancel, TakeReport
<1>6. CASE PaperAccept \/ PaperFill \/ PaperCancel \/ Nexts
  BY Zenon, <1>3, <1>6 DEF PaperAccept, PaperFill, PaperCancel, Nexts, RouteModify, CallReturns
<1>7. CASE StoreStop \/ NotifyWaiters \/ FeedClose
  BY Zenon, <1>3, <1>7 DEF StoreStop, NotifyWaiters, FeedClose
<1>8. CASE VenueRepeats \/ \E c \in Coids : VenueAnswers(c) \/ VenueCloses(c) \/ VenueTrades(c)
  BY Zenon, <1>3, <1>8, VenueFrame
<1>9. CASE Moves
  BY Zenon, <1>3, <1>9, MovesFrame
<1> QED
  BY <1>1, <1>2, <1>4, <1>5, <1>6, <1>7, <1>8, <1>9, NextKinds, Zenon DEF Turns, Trading

-----------------------------------------------------------------------------
\* The command being routed

\* Where a command is routed there is one.
LEMMA HeadCommand ==
  ASSUME StrategyInv, RouteInv, pc \in {"outbox", "submit", "fill", "cancel"}
  PROVE  cmds # <<>> /\ Head(cmds) \in CommandType
<1>1. cmds \in Seq(CommandType) /\ cmds # <<>>
  BY Zenon DEF StrategyInv, RouteInv
<1> QED
  BY <1>1

\* A submission names a well-formed order.
LEMMA SubmittedOrder ==
  ASSUME StrategyInv, RouteInv, pc \in {"outbox", "submit", "fill"}, Head(cmds).cmd = "Submit"
  PROVE  Head(cmds).order \in LiveOrders /\ Head(cmds).order.coid \in Coids
<1>1. Head(cmds) \in CommandType
  BY Zenon, HeadCommand
<1> QED
  BY Zenon, <1>1 DEF CommandType, LiveOrders

\* A cancellation names an order id.
LEMMA CanceledId ==
  ASSUME StrategyInv, RouteInv, pc \in {"outbox", "cancel"}, Head(cmds).cmd = "Cancel"
  PROVE  Head(cmds).coid \in Coids
<1>1. Head(cmds) \in CommandType
  BY Zenon, HeadCommand
<1> QED
  BY Zenon, <1>1 DEF CommandType

-----------------------------------------------------------------------------
\* Orders and executions

\* Lots of fills are natural numbers, and more fills have no fewer lots.
LEMMA QtyOfFills ==
  ASSUME NEW T, IsFiniteSet(T), T \subseteq FillType, NEW R \in SUBSET T, NEW S \in SUBSET R
  PROVE  /\ IsFiniteSet(R) /\ IsFiniteSet(S)
         /\ QtyOf(S) \in Nat /\ QtyOf(R) \in Nat /\ QtyOf(S) <= QtyOf(R)
<1>1. IsFiniteSet(R) /\ IsFiniteSet(S)
  BY Zenon, FS_Subset
<1>2. \A x \in R : x.qty \in Nat
  BY Zenon DEF FillType
<1> QED
  BY Zenon, <1>1, <1>2, QtyMonotone

\* An order moves to another status, at the client or in the cache, while trade
\* ids are recorded: quantities stay as they are, and a closed order closed.
LEMMA OrderMoved ==
  ASSUME TradesInv, NEW c \in Coids, OrderInv(c),
         orders[c] # None => orders[c] \in TrackedType,
         orders[c] = None <=> orders'[c] = None,
         orders[c] # None => /\ orders'[c].filled = orders[c].filled
                             /\ orders'[c].quantity = orders[c].quantity
                             /\ IsTerminal(orders[c]) => IsTerminal(orders'[c]),
         exchange[c] = None <=> exchange'[c] = None,
         exchange[c] # None => exchange'[c].left = exchange[c].left,
         TradesOf(c)' = TradesOf(c), seen_trade_ids \subseteq seen_trade_ids'
  PROVE  OrderInv(c)'
<1>1. TradesOf(c) \in SUBSET trades /\ SeenOf(c) \in SUBSET SeenOf(c)'
      /\ SeenOf(c)' \in SUBSET TradesOf(c)
  BY Zenon DEF TradesOf, Bookable, SeenOf
<1>2. QtyOf(SeenOf(c)) \in Nat /\ QtyOf(SeenOf(c)') \in Nat
      /\ QtyOf(SeenOf(c)) <= QtyOf(SeenOf(c)')
  <2>1. SeenOf(c)' \in SUBSET trades
    BY Zenon, <1>1
  <2> QED
    BY Zenon, <1>1, <2>1, QtyOfFills DEF TradesInv
<1>3. QtyOf(SeenOf(c))' = QtyOf(SeenOf(c)') /\ QtyOf(TradesOf(c))' = QtyOf(TradesOf(c)')
  BY Zenon DEF QtyOf, SumOf, IsSum, First
<1>4. orders[c] # None => orders[c].filled \in Nat
  BY Zenon DEF TrackedType
<1>5. QtyOf(TradesOf(c)') = QtyOf(TradesOf(c))
  BY Zenon
<1> QED
  BY SMTT(30), <1>2, <1>3, <1>4, <1>5 DEF OrderInv, IsTerminal

\* An order that neither client nor cache touches.
LEMMA OrderKept ==
  ASSUME TradesInv, NEW c \in Coids, OrderInv(c), orders'[c] = orders[c],
         exchange'[c] = exchange[c],
         TradesOf(c)' = TradesOf(c), seen_trade_ids \subseteq seen_trade_ids',
         orders[c] # None => orders[c] \in TrackedType
  PROVE  OrderInv(c)'
<1>1. IsTerminal(orders[c]) => IsTerminal(orders'[c])
  BY Zenon DEF IsTerminal
<1> QED
  BY Zenon, <1>1, OrderMoved

\* An execution of an order takes its quantity from what is left, and its id is
\* new.
LEMMA NewExecution ==
  ASSUME TradeInv, NEW c \in Coids, orders[c] # None, exchange[c] # None,
         NEW qty \in 1..exchange[c].left, trades' = trades \cup {FillReport(c, qty)},
         NEW h \in HeldType, h.left = exchange[c].left - qty,
         exchange' = [exchange EXCEPT ![c] = h],
         UNCHANGED <<orders, seen_trade_ids>>
  PROVE  /\ TradesInv'
         /\ FillReport(c, qty) \in FillType
         /\ exchange' \in [Coids -> HeldType \cup {None}]
         /\ \A d \in Coids : OrderInv(d)'
<1> DEFINE f == FillReport(c, qty)
<1>0. /\ exchange[c] \in HeldType /\ exchange[c].left \in Nat /\ orders[c] \in TrackedType
      /\ qty \in Nat \ {0}
  BY DEF TradeInv, HeldType
<1>1. /\ IsFiniteSet(trades) /\ trades \subseteq FillType /\ Cardinality(trades) \in Nat
      /\ \A x, y \in trades : x.trade_id = y.trade_id => x = y
      /\ \A x \in trades : x.trade_id <= Cardinality(trades)
  BY Zenon, FS_CardinalityType DEF TradeInv, TradesInv
<1>2. /\ f \in FillType /\ f.trade_id = Cardinality(trades) + 1 /\ f.coid = c /\ f.qty = qty
  <2>1. Cardinality(trades) + 1 \in Nat /\ qty \in Nat \ {0}
    BY <1>0, <1>1
  <2>2. orders[c].inst \in Instruments /\ orders[c].side \in Sides
    BY Zenon, <1>0 DEF TrackedType
  <2>3. FillPrecision(orders[c].inst) \in Nat
    BY Zenon, <2>2, PrecisionAssumption DEF FillPrecision
  <2> QED
    BY <2>1, <2>2, <2>3, Zenon DEF FillReport, FillType
<1> HIDE DEF f
<1>3. f \notin trades /\ \A x \in trades : x.trade_id \in Nat /\ x.trade_id # f.trade_id
  <2>1. \A x \in trades : x.trade_id \in Nat
    BY Zenon, <1>1 DEF FillType
  <2> QED
    BY <1>1, <1>2, <2>1
<1>4. /\ IsFiniteSet(trades') /\ trades' \subseteq FillType
      /\ Cardinality(trades') = Cardinality(trades) + 1
  <2>1. trades' = trades \cup {f}
    BY Zenon DEF f
  <2>2. IsFiniteSet(trades \cup {f}) /\ Cardinality(trades \cup {f}) = Cardinality(trades) + 1
    BY Zenon, <1>1, <1>3, FS_AddElement
  <2> QED
    BY Zenon, <1>1, <1>2, <2>1, <2>2
<1>5. TradesInv'
  <2>1. \A x \in trades' : x \in trades \/ x = f
    BY Zenon DEF f
  <2>2. \A x \in trades' : x.trade_id <= Cardinality(trades')
    BY SMTT(30), <1>1, <1>2, <1>3, <1>4, <2>1
  <2>3. \A x, y \in trades' : x.trade_id = y.trade_id => x = y
    BY Zenon, <1>1, <1>3, <2>1
  <2> QED
    BY Zenon, <1>4, <2>2, <2>3 DEF TradesInv
<1>6. exchange' \in [Coids -> HeldType \cup {None}] /\ exchange'[c] = h /\ h # None
      /\ \A d \in Coids \ {c} : exchange'[d] = exchange[d]
  BY Zenon, HeldAssumption DEF TradeInv
<1>7. ASSUME NEW d \in Coids, d # c
      PROVE  OrderInv(d)'
  <2>1. TradesOf(d)' = TradesOf(d)
    BY Zenon, <1>2, <1>7 DEF TradesOf, f
  <2>2. OrderInv(d) /\ TradesInv /\ (orders[d] # None => orders[d] \in TrackedType)
    BY Zenon DEF TradeInv
  <2> QED
    BY Zenon, <1>6, <1>7, <2>1, <2>2, OrderKept
<1>8. OrderInv(c)'
  <2>1. TradesOf(c)' = TradesOf(c) \cup {f} /\ f \notin TradesOf(c)
    BY Zenon, <1>2, <1>3 DEF TradesOf, f
  <2>2. TradesOf(c) \in SUBSET trades /\ SeenOf(c) \in SUBSET TradesOf(c)
        /\ TradesOf(c)' \in SUBSET trades'
        /\ SeenOf(c)' \in SUBSET TradesOf(c)' /\ SeenOf(c) \in SUBSET SeenOf(c)'
    BY Zenon, <2>1 DEF TradesOf, Bookable, SeenOf
  <2>3. /\ IsFiniteSet(TradesOf(c)) /\ QtyOf(TradesOf(c)) \in Nat /\ QtyOf(SeenOf(c)) \in Nat
    BY Zenon, <1>1, <2>2, QtyOfFills
  <2>4. QtyOf(TradesOf(c) \cup {f}) = QtyOf(TradesOf(c)) + qty
    <3>1. \A x \in TradesOf(c) : x.qty \in Nat
      BY Zenon, <1>1, <2>2 DEF FillType
    <3> QED
      BY Zenon, <1>0, <1>2, <2>1, <2>3, <3>1, QtyAdd
  <2>5. QtyOf(SeenOf(c)') \in Nat /\ QtyOf(SeenOf(c)) <= QtyOf(SeenOf(c)')
    <3>1. SeenOf(c)' \in SUBSET trades'
      BY Zenon, <2>2
    <3> QED
      BY Zenon, <1>4, <2>2, <3>1, QtyOfFills
  <2>6. QtyOf(SeenOf(c))' = QtyOf(SeenOf(c)') /\ QtyOf(TradesOf(c))' = QtyOf(TradesOf(c)')
    BY Zenon DEF QtyOf, SumOf, IsSum, First
  <2>7. QtyOf(TradesOf(c)') = QtyOf(TradesOf(c)) + qty
    BY Zenon, <2>1, <2>4
  <2>8. /\ QtyOf(TradesOf(c)) + exchange[c].left = orders[c].quantity
        /\ orders[c].filled <= QtyOf(SeenOf(c))
        /\ ~IsTerminal(orders[c]) => orders[c].filled < orders[c].quantity
    BY Zenon DEF TradeInv, OrderInv
  <2>9. orders[c].filled \in Nat
    BY Zenon, <1>0 DEF TrackedType
  <2>10. QtyOf(TradesOf(c)') + h.left = orders[c].quantity
    <3>1. PICK t \in Nat, l \in Nat, q \in Nat :
            t = QtyOf(TradesOf(c)) /\ l = exchange[c].left /\ q = qty
      BY Zenon, <1>0, <2>3
    <3>2. (t + q) + (l - q) = t + l
      OBVIOUS
    <3> QED
      BY Zenon, <2>7, <2>8, <3>1, <3>2
  <2>11. orders[c].filled <= QtyOf(SeenOf(c)')
    <3>1. PICK t \in Nat, u \in Nat, g \in Nat :
            t = QtyOf(SeenOf(c)) /\ u = QtyOf(SeenOf(c)') /\ g = orders[c].filled
      BY Zenon, <2>3, <2>5, <2>9
    <3>2. g <= t /\ t <= u => g <= u
      OBVIOUS
    <3> QED
      BY Zenon, <2>5, <2>8, <3>1, <3>2
  <2> QED
    BY Zenon, <1>6, <2>6, <2>8, <2>10, <2>11 DEF OrderInv, IsTerminal
<1> QED
  BY Zenon, <1>2, <1>5, <1>6, <1>7, <1>8 DEF f

\* The reports on their way, and one more.
LEMMA ReportsKept ==
  ASSUME ReportInv, trades \subseteq trades',
         \A d \in Coids : orders[d] # None => orders'[d] # None,
         \/ reports' = reports
         \/ reports # <<>> /\ reports' = Tail(reports)
         \/ \E rep \in FillType \cup StatusType :
              /\ reports' = Append(reports, rep)
              /\ orders'[rep.coid] # None
              /\ rep \in FillType => rep \in trades'
  PROVE  ReportInv'
<1>1. reports \in Seq(FillType \cup StatusType)
  BY Zenon DEF ReportInv
<1>2. ASSUME NEW k \in DOMAIN reports
      PROVE  orders'[reports[k].coid] # None /\ (reports[k] \in FillType => reports[k] \in trades')
  <2>1. reports[k] \in FillType \cup StatusType
    BY <1>1
  <2>2. reports[k].coid \in Coids
    BY Zenon, <2>1 DEF FillType, StatusType
  <2> QED
    BY Zenon, <2>2 DEF ReportInv
<1>3. CASE reports' = reports
  BY Zenon, <1>1, <1>2, <1>3 DEF ReportInv
<1>4. CASE reports # <<>> /\ reports' = Tail(reports)
  <2>1. /\ reports' \in Seq(FillType \cup StatusType)
        /\ \A k \in DOMAIN reports' : k + 1 \in DOMAIN reports /\ reports'[k] = reports[k + 1]
    BY <1>1, <1>4
  <2> QED
    BY <1>2, <2>1 DEF ReportInv
<1>5. ASSUME NEW rep \in FillType \cup StatusType, reports' = Append(reports, rep),
             orders'[rep.coid] # None, rep \in FillType => rep \in trades'
      PROVE  ReportInv'
  <2>1. /\ reports' \in Seq(FillType \cup StatusType)
        /\ \A k \in DOMAIN reports' : IF k \in DOMAIN reports THEN reports'[k] = reports[k]
                                      ELSE reports'[k] = rep
    BY <1>1, <1>5
  <2> QED
    BY Zenon, <1>2, <1>5, <2>1 DEF ReportInv
<1> QED
  BY Zenon, <1>3, <1>4, <1>5

\* A step that touches reports alone need only keep ReportInv.
LEMMA OnlyReports ==
  ASSUME TradeInv, UNCHANGED <<orders, positions, seen_trade_ids, exchange, trades>>, ReportInv'
  PROVE  TradeInv'
<1>1. TradesInv'
  BY Zenon DEF TradeInv, TradesInv
<1>2. ASSUME NEW d \in Coids PROVE OrderInv(d)'
  <2>1. TradesOf(d)' = TradesOf(d)
    BY Zenon DEF TradesOf
  <2>2. OrderInv(d) /\ TradesInv /\ (orders[d] # None => orders[d] \in TrackedType)
    BY Zenon DEF TradeInv
  <2> QED
    BY Zenon, <2>1, <2>2, OrderKept
<1> QED
  BY Zenon, <1>1, <1>2 DEF TradeInv

\* The client confirms: nothing but the report is new.
LEMMA PaperReports ==
  ASSUME TradeInv, StrategyInv, RouteInv, PaperAccept \/ PaperCancel
  PROVE  TradeInv'
<1>1. UNCHANGED <<orders, positions, seen_trade_ids, exchange, trades>>
  BY Zenon DEF PaperAccept, PaperCancel, omsVars, clientVars
<1>2. \E rep \in FillType \cup StatusType :
        /\ reports' = Append(reports, rep)
        /\ orders'[rep.coid] # None
        /\ rep \in FillType => rep \in trades'
  <2>0. cmds # <<>> /\ Head(cmds) \in CommandType
    BY Zenon, HeadCommand DEF PaperAccept, PaperCancel
  <2>1. CASE PaperAccept
    <3> DEFINE c == Head(cmds).order.coid
               rep == Report("Accepted", c)
    <3>1. Head(cmds).cmd = "Submit" /\ orders[c] # None
      BY Zenon, <2>1 DEF PaperAccept, RouteInv
    <3>2. c \in Coids
      BY Zenon, <2>0, <3>1 DEF CommandType, LiveOrders
    <3>3. rep \in StatusType /\ rep.kind = "Accepted" /\ rep.coid = c
      BY Zenon, <3>2 DEF Report, StatusType
    <3>4. reports' = Append(reports, rep)
      BY Zenon, <2>1 DEF PaperAccept
    <3> HIDE DEF rep, c
    <3>5. rep \notin FillType
      BY Zenon, <3>3 DEF FillType
    <3> QED
      BY Zenon, <1>1, <3>1, <3>3, <3>4, <3>5
  <2>2. CASE PaperCancel
    <3> DEFINE c == Head(cmds).coid
               rep == Report("Canceled", c)
    <3>1. Head(cmds).cmd = "Cancel" /\ orders[c] # None
      BY Zenon, <2>2 DEF PaperCancel, RouteInv
    <3>2. c \in Coids
      BY Zenon, <2>0, <3>1 DEF CommandType
    <3>3. rep \in StatusType /\ rep.kind = "Canceled" /\ rep.coid = c
      BY Zenon, <3>2 DEF Report, StatusType
    <3>4. reports' = Append(reports, rep)
      BY Zenon, <2>2 DEF PaperCancel
    <3> HIDE DEF rep, c
    <3>5. rep \notin FillType
      BY Zenon, <3>3 DEF FillType
    <3> QED
      BY Zenon, <1>1, <3>1, <3>3, <3>4, <3>5
  <2> QED
    BY Zenon, <2>1, <2>2
<1>3. ReportInv'
  BY Zenon, <1>1, <1>2, ReportsKept DEF TradeInv
<1> QED
  BY Zenon, <1>1, <1>3, OnlyReports

-----------------------------------------------------------------------------
\* What the client and the venue report

\* The stream repeats an execution, and its order is cached.
LEMMA RepeatStep ==
  ASSUME TradeInv, VenueRepeats
  PROVE  TradeInv'
<1>1. UNCHANGED <<orders, positions, seen_trade_ids, exchange, trades>>
  BY Zenon DEF VenueRepeats, omsVars
<1>2. PICK f \in trades : reports' = Append(reports, f)
  BY Zenon DEF VenueRepeats
<1>3. f \in FillType /\ f.coid \in Coids
  BY Zenon DEF TradeInv, TradesInv, FillType
<1>4. orders[f.coid] # None
  <2>1. OrderInv(f.coid) /\ f \in TradesOf(f.coid)
    BY Zenon, <1>3 DEF TradeInv, TradesOf
  <2> QED
    BY Zenon, <2>1 DEF OrderInv
<1>5. ReportInv'
  BY Zenon, <1>1, <1>2, <1>3, <1>4, ReportsKept DEF TradeInv
<1> QED
  BY Zenon, <1>1, <1>5, OnlyReports

\* PaperFillExec executes all of the order at once.
LEMMA PaperFillStep ==
  ASSUME TradeInv, StrategyInv, RouteInv, PaperFill
  PROVE  TradeInv'
<1> DEFINE c == Head(cmds).order.coid
           f == FillReport(c, exchange[c].left)
           h == [exchange[c] EXCEPT !.left = 0, !.state = "closed"]
<1>1. /\ pc = "fill" /\ reports' = Append(reports, f) /\ trades' = trades \cup {f}
      /\ exchange' = [exchange EXCEPT ![c].left = 0, ![c].state = "closed"]
      /\ UNCHANGED <<orders, positions, seen_trade_ids>>
  BY Zenon DEF PaperFill, omsVars
<1>2. /\ Head(cmds).cmd = "Submit" /\ orders[c] # None /\ exchange[c] # None
      /\ exchange[c].left > 0 /\ cmds # <<>>
  BY Zenon, <1>1 DEF RouteInv
<1>3. c \in Coids
  BY Zenon, <1>1, <1>2, SubmittedOrder
<1> HIDE DEF c
<1>4. exchange[c] \in HeldType /\ exchange[c].left \in Nat
  BY Zenon, <1>2, <1>3 DEF TradeInv, HeldType
<1>5. h \in HeldType /\ h.left = exchange[c].left - exchange[c].left
  <2>1. h.left = 0
    BY Zenon, <1>4 DEF HeldType
  <2>2. h \in HeldType
    BY Zenon, <1>4 DEF HeldType
  <2> QED
    BY SMTT(30), <1>4, <2>1, <2>2
<1>6. exchange' = [exchange EXCEPT ![c] = h]
  BY Zenon, <1>1, <1>3, <1>4 DEF TradeInv, HeldType
<1>7. exchange[c].left \in 1..exchange[c].left
  BY <1>2, <1>4
<1> HIDE DEF h
<1>8. /\ TradesInv' /\ f \in FillType
      /\ exchange' \in [Coids -> HeldType \cup {None}]
      /\ \A d \in Coids : OrderInv(d)'
  BY Zenon, <1>1, <1>2, <1>3, <1>5, <1>6, <1>7, NewExecution
<1>9. f.coid = c
  BY Zenon DEF FillReport
<1> HIDE DEF f
<1>10. ReportInv'
  BY Zenon, <1>1, <1>2, <1>8, <1>9, ReportsKept DEF TradeInv
<1> QED
  BY Zenon, <1>1, <1>8, <1>10 DEF TradeInv

\* The venue executes a part of an open order, and reports it or loses the
\* report.
LEMMA VenueTradeStep ==
  ASSUME TradeInv, NEW c \in Coids, VenueTrades(c)
  PROVE  TradeInv'
<1>1. exchange[c] # None
  BY Zenon DEF VenueTrades, VenueHas
<1>2. orders[c] # None
  BY Zenon, <1>1 DEF TradeInv, OrderInv
<1>3. PICK qty \in 1..exchange[c].left :
        /\ trades' = trades \cup {FillReport(c, qty)}
        /\ exchange' = [exchange EXCEPT
             ![c].left = @ - qty,
             ![c].state = IF qty = exchange[c].left THEN "closed" ELSE "open"]
        /\ Pump(FillReport(c, qty))
  BY Zenon DEF VenueTrades
<1>4. UNCHANGED <<orders, positions, seen_trade_ids>>
  BY Zenon DEF VenueTrades, omsVars
<1> DEFINE f == FillReport(c, qty)
           h == [exchange[c] EXCEPT
                   !.left = @ - qty,
                   !.state = IF qty = exchange[c].left THEN "closed" ELSE "open"]
<1>5. exchange[c] \in HeldType /\ exchange[c].left \in Nat
  BY Zenon, <1>1 DEF TradeInv, HeldType
<1>6. h \in HeldType /\ h.left = exchange[c].left - qty
  <2>1. h.left = exchange[c].left - qty
    BY Zenon, <1>5 DEF HeldType
  <2>2. exchange[c].left - qty \in Nat
    BY <1>5
  <2>3. h \in HeldType
    BY Zenon, <1>5, <2>2 DEF HeldType
  <2> QED
    BY Zenon, <2>1, <2>3
<1>7. exchange' = [exchange EXCEPT ![c] = h]
  BY Zenon, <1>3, <1>5 DEF TradeInv, HeldType
<1> HIDE DEF h
<1>8. /\ TradesInv' /\ f \in FillType
      /\ exchange' \in [Coids -> HeldType \cup {None}]
      /\ \A d \in Coids : OrderInv(d)'
  BY Zenon, <1>1, <1>2, <1>3, <1>4, <1>6, <1>7, NewExecution
<1>9. f.coid = c /\ f \in trades'
  BY Zenon, <1>3 DEF FillReport
<1>10. reports' = reports \/ reports' = Append(reports, f)
  BY Zenon, <1>3 DEF Pump
<1> HIDE DEF f
<1>11. ReportInv'
  BY Zenon, <1>2, <1>3, <1>4, <1>8, <1>9, <1>10, ReportsKept DEF TradeInv
<1> QED
  BY Zenon, <1>4, <1>8, <1>11 DEF TradeInv

\* The venue accepts, rejects, cancels or expires an order.
LEMMA VenueMoveStep ==
  ASSUME TradeInv, NEW c \in Coids, exchange[c] # None,
         NEW state \in {"open", "closed"},
         NEW kind \in {"Accepted", "Rejected", "Canceled", "Expired"},
         VenueMoves(c, state, kind)
  PROVE  TradeInv'
<1>1. /\ exchange' = [exchange EXCEPT ![c].state = state]
      /\ Pump(Report(kind, c))
      /\ UNCHANGED <<orders, positions, seen_trade_ids, trades>>
  BY Zenon DEF VenueMoves, omsVars
<1>2. orders[c] # None /\ exchange[c] \in HeldType
  BY Zenon DEF TradeInv, OrderInv
<1>3. /\ exchange' \in [Coids -> HeldType \cup {None}] /\ exchange'[c] # None
      /\ exchange'[c].left = exchange[c].left
      /\ \A d \in Coids \ {c} : exchange'[d] = exchange[d]
  <2>1. exchange'[c] \in HeldType /\ exchange'[c].left = exchange[c].left
    BY Zenon, <1>1, <1>2 DEF TradeInv, HeldType
  <2> QED
    BY Zenon, <1>1, <2>1, HeldAssumption DEF TradeInv
<1> DEFINE rep == Report(kind, c)
<1>4. rep \in StatusType /\ rep.coid = c /\ rep.kind # "Fill"
  BY Zenon DEF Report, StatusType
<1>5. reports' = reports \/ reports' = Append(reports, rep)
  BY Zenon, <1>1 DEF Pump
<1> HIDE DEF rep
<1>6. ReportInv'
  <2>1. rep \notin FillType
    BY Zenon, <1>4 DEF FillType
  <2> QED
    BY Zenon, <1>1, <1>2, <1>4, <1>5, <2>1, ReportsKept DEF TradeInv
<1>7. TradesInv'
  BY Zenon, <1>1 DEF TradeInv, TradesInv
<1>8. ASSUME NEW d \in Coids PROVE OrderInv(d)'
  <2>1. TradesOf(d)' = TradesOf(d)
    BY Zenon, <1>1 DEF TradesOf
  <2>2. OrderInv(d) /\ TradesInv /\ (orders[d] # None => orders[d] \in TrackedType)
    BY Zenon DEF TradeInv
  <2>3. exchange[d] = None <=> exchange'[d] = None
    BY Zenon, <1>3
  <2>4. exchange[d] # None => exchange'[d].left = exchange[d].left
    BY Zenon, <1>3
  <2>5. IsTerminal(orders[d]) => IsTerminal(orders'[d])
    BY Zenon, <1>1 DEF IsTerminal
  <2> QED
    BY Zenon, <1>1, <2>1, <2>2, <2>3, <2>4, <2>5, OrderMoved
<1> QED
  BY Zenon, <1>1, <1>3, <1>6, <1>7, <1>8 DEF TradeInv

\* A new order: nothing of it is executed, and a denied one the client never sees.
LEMMA SubmitStep ==
  ASSUME TradeInv, StrategyInv, RouteInv, RouteSubmit
  PROVE  TradeInv'
<1>0. PICK o \in LiveOrders : o = Head(cmds).order
  BY Zenon, SubmittedOrder DEF RouteSubmit
<1>1. PICK c \in Coids : c = o.coid
  BY Zenon DEF LiveOrders
<1>2. UNCHANGED <<trades, reports>>
  BY Zenon DEF RouteSubmit
<1>3. CASE ~SubmitApplies(o)
  <2>1. UNCHANGED <<orders, positions, seen_trade_ids, exchange>>
    BY Zenon, <1>0, <1>3 DEF RouteSubmit, omsVars
  <2>2. ReportInv'
    BY Zenon, <1>2, <2>1 DEF TradeInv, ReportInv
  <2> QED
    BY Zenon, <1>2, <2>1, <2>2, OnlyReports
<1>4. CASE SubmitApplies(o)
  <2>1. PICK status \in {"Submitted", "Denied"} :
          /\ orders' = [orders EXCEPT ![c] = Tracked(o, status)]
          /\ \/ exchange' = exchange
             \/ status = "Submitted" /\ exchange' = [exchange EXCEPT ![c] = Sent(o)]
          /\ UNCHANGED <<positions, seen_trade_ids>>
    BY Zenon, <1>0, <1>1, <1>4 DEF RouteSubmit, CacheOrder
  <2> DEFINE t == Tracked(o, status)
             h == Sent(o)
  <2>2. /\ t \in TrackedType /\ t.filled = 0 /\ t.quantity = o.quantity /\ t.status = status
        /\ h \in HeldType /\ h.left = o.quantity /\ o.quantity \in Nat \ {0}
    BY Zenon, <1>1 DEF Tracked, Sent, TrackedType, HeldType, LiveOrders, OrderStatus,
       OpenStatus, TerminalStatus
  <2>3. orders[c] = None
    BY Zenon, <1>1, <1>4 DEF SubmitApplies
  <2>4. exchange[c] = None /\ TradesOf(c) = {}
    BY Zenon, <1>1, <2>3 DEF TradeInv, OrderInv
  <2> HIDE DEF t, h
  <2>5. /\ orders' \in [Coids -> TrackedType \cup {None}] /\ orders'[c] = t /\ t # None
        /\ \A d \in Coids \ {c} : orders'[d] = orders[d] /\ exchange'[d] = exchange[d]
        /\ exchange' \in [Coids -> HeldType \cup {None}]
        /\ exchange'[c] = None \/ exchange'[c] = h
    BY SMTT(30), <1>1, <2>1, <2>2, <2>4, OrderAssumption DEF TradeInv, t, h
  <2>6. TradesInv'
    BY Zenon, <1>2 DEF TradeInv, TradesInv
  <2>7. ReportInv'
    <3>1. \A d \in Coids : orders[d] # None => orders'[d] # None
      BY Zenon, <2>3, <2>5
    <3> QED
      BY Zenon, <1>2, <3>1, ReportsKept DEF TradeInv
  <2>8. OrderInv(c)'
    <3>1. TradesOf(c)' = {} /\ SeenOf(c)' = {}
      BY Zenon, <1>2, <2>4 DEF TradesOf, Bookable, SeenOf
    <3>2. QtyOf(TradesOf(c))' = 0 /\ QtyOf(SeenOf(c))' = 0
      <4>1. /\ QtyOf(SeenOf(c))' = QtyOf(SeenOf(c)')
            /\ QtyOf(TradesOf(c))' = QtyOf(TradesOf(c)')
        BY Zenon, <2>1 DEF QtyOf, SumOf, IsSum, First
      <4> QED
        BY Zenon, <3>1, <4>1, QtyEmpty
    <3>3. exchange'[c] # None =>
            orders'[c] # None /\ QtyOf(TradesOf(c))' + exchange'[c].left = orders'[c].quantity
      BY SMTT(30), <2>2, <2>5, <3>2
    <3>4. /\ orders'[c].filled <= QtyOf(SeenOf(c))'
          /\ orders'[c].filled < orders'[c].quantity
      BY SMTT(30), <2>2, <2>5, <3>2
    <3> QED
      BY Zenon, <1>2, <3>1, <3>3, <3>4 DEF OrderInv
  <2>9. ASSUME NEW d \in Coids, d # c PROVE OrderInv(d)'
    <3>1. TradesOf(d)' = TradesOf(d)
      BY Zenon, <1>2 DEF TradesOf
    <3>2. OrderInv(d) /\ TradesInv /\ (orders[d] # None => orders[d] \in TrackedType)
      BY Zenon DEF TradeInv
    <3> QED
      BY Zenon, <2>1, <2>5, <2>9, <3>1, <3>2, OrderKept
  <2> QED
    BY Zenon, <2>1, <2>5, <2>6, <2>7, <2>8, <2>9 DEF TradeInv
<1> QED
  BY Zenon, <1>3, <1>4

\* A cancel moves the status of its order, and the client notes the request.
LEMMA CancelStep ==
  ASSUME TradeInv, StrategyInv, RouteInv, RouteCancel
  PROVE  TradeInv'
<1> DEFINE c == Head(cmds).coid
<1>1. c \in Coids
  BY Zenon, CanceledId DEF RouteCancel
<1>2. UNCHANGED <<trades, reports, positions, seen_trade_ids>>
  BY Zenon DEF RouteCancel
<1>3. /\ \/ orders' = orders
         \/ /\ CancelApplies(c)
            /\ orders' = [orders EXCEPT ![c] = ApplyStatus(@, "PendingCancel")]
      /\ \/ exchange' = exchange
         \/ exchange[c] # None /\ exchange' = [exchange EXCEPT ![c].cancel = TRUE]
  BY Zenon DEF RouteCancel
<1> HIDE DEF c
<1>4. ASSUME NEW d \in Coids
      PROVE  /\ orders'[d] \in TrackedType \cup {None}
             /\ orders[d] = None <=> orders'[d] = None
             /\ orders[d] # None => /\ orders'[d].filled = orders[d].filled
                                    /\ orders'[d].quantity = orders[d].quantity
                                    /\ IsTerminal(orders[d]) => IsTerminal(orders'[d])
  <2>1. CASE orders'[d] = orders[d]
    BY Zenon, <2>1 DEF IsTerminal, TradeInv
  <2>2. CASE orders'[d] # orders[d]
    <3>1. d = c /\ CancelApplies(c) /\ orders'[d] = ApplyStatus(orders[d], "PendingCancel")
      BY Zenon, <1>1, <1>3, <2>2 DEF TradeInv
    <3>2. orders[d] # None /\ orders[d] \in TrackedType
      BY Zenon, <3>1 DEF CancelApplies, TradeInv
    <3>3. ~IsTerminal(orders[d])
      BY Zenon, <3>1 DEF CancelApplies, CanApply, Allowed, IsTerminal, TerminalStatus
    <3>4. /\ orders'[d] \in TrackedType
          /\ orders'[d].filled = orders[d].filled /\ orders'[d].quantity = orders[d].quantity
      BY Zenon, <3>1, <3>2 DEF ApplyStatus, TrackedType, OrderStatus, OpenStatus, TerminalStatus
    <3> QED
      BY Zenon, <3>2, <3>3, <3>4, OrderAssumption
  <2> QED
    BY Zenon, <2>1, <2>2
<1>5. ASSUME NEW d \in Coids
      PROVE  /\ exchange'[d] \in HeldType \cup {None}
             /\ exchange[d] = None <=> exchange'[d] = None
             /\ exchange[d] # None => exchange'[d].left = exchange[d].left
  <2>1. CASE exchange'[d] = exchange[d]
    BY Zenon, <2>1 DEF TradeInv
  <2>2. CASE exchange'[d] # exchange[d]
    <3>1. d = c /\ exchange[c] # None /\ exchange'[d] = [exchange[d] EXCEPT !.cancel = TRUE]
      BY Zenon, <1>1, <1>3, <2>2 DEF TradeInv
    <3>2. exchange[d] \in HeldType
      BY Zenon, <3>1 DEF TradeInv
    <3>3. exchange'[d] \in HeldType /\ exchange'[d].left = exchange[d].left
      BY Zenon, <3>1, <3>2 DEF HeldType
    <3> QED
      BY Zenon, <3>1, <3>3, HeldAssumption
  <2> QED
    BY Zenon, <2>1, <2>2
<1>6. /\ orders' \in [Coids -> TrackedType \cup {None}]
      /\ exchange' \in [Coids -> HeldType \cup {None}]
  <2>1. orders' = [d \in Coids |-> orders'[d]] /\ exchange' = [d \in Coids |-> exchange'[d]]
    BY Zenon, <1>3 DEF TradeInv
  <2> QED
    BY Zenon, <1>4, <1>5, <2>1
<1>7. TradesInv'
  BY Zenon, <1>2 DEF TradeInv, TradesInv
<1>8. ReportInv'
  BY Zenon, <1>2, <1>4, ReportsKept DEF TradeInv
<1>9. ASSUME NEW d \in Coids PROVE OrderInv(d)'
  <2>1. TradesOf(d)' = TradesOf(d)
    BY Zenon, <1>2 DEF TradesOf
  <2>2. OrderInv(d) /\ TradesInv /\ (orders[d] # None => orders[d] \in TrackedType)
    BY Zenon DEF TradeInv
  <2> QED
    BY Zenon, <1>2, <1>4, <1>5, <2>1, <2>2, OrderMoved
<1> QED
  BY Zenon, <1>2, <1>6, <1>7, <1>8, <1>9 DEF TradeInv

\* apply_report: a status leaves the quantities alone, and a fill that is taken
\* is an execution in the order's precision that was not seen before.
LEMMA ReportStep ==
  ASSUME TradeInv, TakeReport
  PROVE  TradeInv'
<1>0. reports # <<>> /\ reports' = Tail(reports) /\ UNCHANGED <<exchange, trades>>
  BY Zenon DEF TakeReport, clientVars
<1>1. PICK rep \in FillType \cup StatusType : rep = Head(reports)
  BY <1>0 DEF TradeInv, ReportInv
<1>2. PICK c \in Coids : c = rep.coid
  BY Zenon DEF FillType, StatusType
<1>3. orders[c] # None /\ orders[c] \in TrackedType /\ (rep \in FillType => rep \in TradesOf(c))
  <2>1. 1 \in DOMAIN reports /\ rep = reports[1]
    BY SMTT(30), <1>0, <1>1 DEF TradeInv, ReportInv
  <2> QED
    BY Zenon, <1>2, <2>1 DEF TradeInv, ReportInv, TradesOf
<1>4. RefuseFill(rep) \/ (ApplyReport(rep) /\ ~PrecisionMismatch(rep))
  BY Zenon, <1>1 DEF TakeReport
<1>5. TradesInv'
  BY Zenon, <1>0 DEF TradeInv, TradesInv
<1>6. ASSUME NEW d \in Coids PROVE TradesOf(d)' = TradesOf(d)
  BY Zenon, <1>0 DEF TradesOf
<1>7. \A d \in Coids : /\ OrderInv(d) /\ TradesInv
                       /\ orders[d] # None => orders[d] \in TrackedType
  BY Zenon DEF TradeInv
<1>8. seen_trade_ids \subseteq seen_trade_ids'
  BY Zenon, <1>4 DEF ApplyReport, RefuseFill
<1>9. CASE RefuseFill(rep) \/ ~Applies(rep)
  <2>1. UNCHANGED <<orders, positions>>
    BY Zenon, <1>4, <1>9 DEF ApplyReport, RefuseFill
  <2>2. \A d \in Coids : OrderInv(d)'
    BY Zenon, <1>0, <1>6, <1>7, <1>8, <2>1, OrderKept
  <2>3. ReportInv'
    BY Zenon, <1>0, <2>1, ReportsKept DEF TradeInv
  <2> QED
    BY Zenon, <1>0, <1>5, <2>1, <2>2, <2>3 DEF TradeInv
<1>10. CASE Applies(rep) /\ ApplyReport(rep) /\ ~PrecisionMismatch(rep)
  <2> DEFINE o == orders[c]
             p == Folded(o, rep)
  <2>1. orders' = [orders EXCEPT ![c] = p]
    BY Zenon, <1>2, <1>10 DEF ApplyReport
  <2>2. SUFFICES /\ p \in TrackedType
                 /\ positions' \in [Instruments -> Int]
                 /\ OrderInv(c)'
    <3> HIDE DEF p
    <3>1. /\ orders' \in [Coids -> TrackedType \cup {None}]
          /\ \A d \in Coids : orders[d] # None => orders'[d] # None
          /\ \A d \in Coids \ {c} : orders'[d] = orders[d]
      BY Zenon, <2>1, <2>2, OrderAssumption DEF TradeInv
    <3>2. ASSUME NEW d \in Coids, d # c PROVE OrderInv(d)'
      BY Zenon, <1>0, <1>6, <1>7, <1>8, <3>1, <3>2, OrderKept
    <3>3. ReportInv'
      BY Zenon, <1>0, <3>1, ReportsKept DEF TradeInv
    <3> QED
      BY Zenon, <1>0, <1>5, <2>2, <3>1, <3>2, <3>3 DEF TradeInv
  <2>3. orders'[c] = p
    BY Zenon, <2>1 DEF TradeInv
  <2>4. ~IsTerminal(o)
    <3>1. CanApply(o, EventOf(rep)) /\ rep.kind # "Modified"
      BY Zenon, <1>2, <1>10 DEF Applies, FillType, StatusType
    <3> QED
      BY Zenon, <3>1 DEF CanApply, Allowed, Fillable, IsTerminal, TerminalStatus, EventOf
  <2>5. CASE rep \in StatusType
    <3>1. /\ rep.kind \in {"Accepted", "Rejected", "Canceled", "Expired"}
          /\ p = ApplyStatus(o, rep.kind)
      BY Zenon, <2>5 DEF StatusType, Folded
    <3>2. p \in TrackedType /\ p.filled = o.filled /\ p.quantity = o.quantity
      BY Zenon, <1>3, <3>1 DEF ApplyStatus, TrackedType, OrderStatus, OpenStatus, TerminalStatus
    <3>3. positions' = positions
      BY Zenon, <1>10, <3>1 DEF ApplyReport
    <3> HIDE DEF p
    <3>4. OrderInv(c)'
      BY Zenon, <1>0, <1>3, <1>6, <1>7, <1>8, <2>3, <2>4, <3>2, OrderAssumption, OrderMoved
    <3> QED
      BY Zenon, <3>2, <3>3, <3>4 DEF TradeInv
  <2>6. CASE rep \in FillType
    <3>1. /\ rep.kind = "Fill" /\ rep.qty \in Nat \ {0} /\ rep.side \in Sides
          /\ rep.inst \in Instruments /\ p = ApplyFill(o, rep.qty)
      BY Zenon, <2>6 DEF FillType, Folded
    <3>2. o.filled \in Nat /\ o.quantity \in Nat
      BY Zenon, <1>3 DEF TrackedType
    <3>3. /\ p \in TrackedType /\ p.filled = o.filled + rep.qty /\ p.quantity = o.quantity
          /\ p.status # "Filled" => p.filled < p.quantity
      <4> DEFINE f == o.filled + rep.qty
                 st == IF Monus(o.quantity, f) = 0 THEN "Filled" ELSE "PartiallyFilled"
      <4>1. p = [o EXCEPT !.filled = f, !.status = st] /\ f \in Nat
        BY SMTT(30), <3>1, <3>2 DEF ApplyFill
      <4>2. st \in OrderStatus /\ (st # "Filled" => f < o.quantity)
        BY SMTT(30), <3>2, <4>1 DEF Monus, OrderStatus, OpenStatus, TerminalStatus
      <4> HIDE DEF f, st, p, o
      <4>3. p \in TrackedType /\ p.filled = f /\ p.quantity = o.quantity /\ p.status = st
        BY ZenonT(40), <1>3, <4>1, <4>2 DEF TrackedType, o
      <4> QED
        BY Zenon, <4>2, <4>3 DEF f
    <3>4. positions' \in [Instruments -> Int]
      BY SMTT(30), <1>10, <3>1 DEF ApplyReport, TradeInv, Sign
    <3>5. rep \in Bookable(c) /\ rep.trade_id \notin seen_trade_ids
          /\ seen_trade_ids' = seen_trade_ids \cup {rep.trade_id}
      BY Zenon, <1>3, <1>10, <2>6, <3>1
         DEF ApplyReport, Applies, PrecisionMismatch, Bookable
    <3>6. SeenOf(c)' = SeenOf(c) \cup {rep} /\ rep \notin SeenOf(c) /\ SeenOf(c) \in SUBSET trades
      <4>1. Bookable(c) \subseteq trades /\ Bookable(c)' = Bookable(c)
        BY Zenon, <1>6 DEF TradesOf, Bookable
      <4>2. \A f \in Bookable(c) : f.trade_id = rep.trade_id => f = rep
        BY Zenon, <1>7, <3>5, <4>1 DEF TradesInv
      <4> QED
        BY Zenon, <3>5, <4>1, <4>2 DEF SeenOf
    <3>7. /\ IsFiniteSet(SeenOf(c)) /\ QtyOf(SeenOf(c)) \in Nat
          /\ \A x \in SeenOf(c) : x.qty \in Nat
      BY Zenon, <1>7, <3>6, QtyOfFills DEF TradesInv, FillType
    <3>8. QtyOf(SeenOf(c)') = QtyOf(SeenOf(c)) + rep.qty
      BY Zenon, <3>1, <3>6, <3>7, QtyAdd
    <3>9. QtyOf(SeenOf(c))' = QtyOf(SeenOf(c)') /\ QtyOf(TradesOf(c))' = QtyOf(TradesOf(c))
      <4>1. /\ QtyOf(SeenOf(c))' = QtyOf(SeenOf(c)')
            /\ QtyOf(TradesOf(c))' = QtyOf(TradesOf(c)')
        BY Zenon DEF QtyOf, SumOf, IsSum, First
      <4> QED
        BY Zenon, <1>6, <4>1
    <3>10. /\ p.filled <= QtyOf(SeenOf(c)) + rep.qty
           /\ p.status \notin TerminalStatus => p.filled < p.quantity
      <4>1. o.filled <= QtyOf(SeenOf(c))
        BY Zenon, <1>3, <1>7 DEF OrderInv
      <4>2. p.status \notin TerminalStatus => p.status # "Filled"
        BY Zenon DEF TerminalStatus
      <4>3. p.filled = o.filled + rep.qty /\ rep.qty \in Nat
        BY Zenon, <3>1, <3>3
      <4> HIDE DEF p, o
      <4> QED
        BY SMTT(30), <3>2, <3>3, <3>7, <4>1, <4>2, <4>3
    <3> HIDE DEF p
    <3>11. OrderInv(c)'
      <4>1. exchange[c] = None => TradesOf(c)' = {}
        BY Zenon, <1>6, <1>7 DEF OrderInv
      <4>2. exchange[c] # None => QtyOf(TradesOf(c))' + exchange[c].left = p.quantity
        BY Zenon, <1>7, <3>3, <3>9 DEF OrderInv
      <4>3. p # None
        BY Zenon, <3>3, OrderAssumption
      <4> QED
        BY Zenon, <1>0, <2>3, <3>8, <3>9, <3>10, <4>1, <4>2, <4>3 DEF OrderInv, IsTerminal
    <3> QED
      BY Zenon, <3>3, <3>4, <3>11
  <2> QED
    BY Zenon, <2>5, <2>6
<1> QED
  BY Zenon, <1>4, <1>9, <1>10

\* Every step preserves TradeInv.
LEMMA TradeStep ==
  ASSUME TradeInv, StrategyInv, RouteInv, Next
  PROVE  TradeInv'
<1>1. ASSUME UNCHANGED tradeVars PROVE TradeInv'
  <2>1. ReportInv'
    BY Zenon, <1>1 DEF TradeInv, ReportInv, tradeVars
  <2> QED
    BY Zenon, <1>1, <2>1, OnlyReports DEF tradeVars
<1> USE DEF tradeVars, omsVars, clientVars
<1>2. CASE Moves
  BY Zenon, <1>1, <1>2, MovesFrame
<1>3. CASE Nexts
  BY Zenon, <1>1, <1>3 DEF Nexts, RouteModify, CallReturns
<1>4. CASE Turns
  BY Zenon, <1>1, <1>4 DEF Turns, OnStart, OnStop, TakeMarket
<1>5. CASE DrainOutbox
  BY Zenon, <1>1, <1>5 DEF DrainOutbox
<1>6. CASE StoreStop \/ NotifyWaiters \/ FeedSend \/ FeedClose
  BY Zenon, <1>1, <1>6 DEF StoreStop, NotifyWaiters, FeedSend, FeedClose
<1>7. ASSUME NEW c \in Coids, VenueAnswers(c) \/ VenueCloses(c) PROVE TradeInv'
  BY Zenon, <1>7, VenueMoveStep DEF VenueAnswers, VenueCloses, VenueHas
<1>8. CASE Trading
  BY <1>7, <1>8, SubmitStep, CancelStep, PaperReports, PaperFillStep, ReportStep, RepeatStep,
     VenueTradeStep, Zenon DEF Trading
<1> QED
  BY Zenon, <1>2, <1>3, <1>4, <1>5, <1>6, <1>8, NextKinds

-----------------------------------------------------------------------------
\* The router

\* No report is sent into a full channel.
LEMMA ReportsFit ==
  ASSUME ReportInv, Len(reports) <= ReportCapacity,
         \/ reports' = reports
         \/ reports # <<>> /\ reports' = Tail(reports)
         \/ Room /\ \E rep : reports' = Append(reports, rep)
  PROVE  Len(reports') <= ReportCapacity
<1> DEFINE R == FillType \cup StatusType
<1>0. reports \in Seq(R)
  BY Zenon DEF ReportInv
<1> HIDE DEF R
<1>1. reports \in Seq(R) /\ Len(reports) \in Nat /\ ReportCapacity \in Nat
  BY <1>0
<1>2. CASE reports # <<>> /\ reports' = Tail(reports)
  BY SMTT(30), <1>1, <1>2
<1>3. CASE Room /\ \E rep : reports' = Append(reports, rep)
  <2>1. PICK rep : reports' = Append(reports, rep)
    BY Zenon, <1>3
  <2> DEFINE Q == R \cup {rep}
  <2>2. reports \in Seq(Q) /\ rep \in Q
    BY <1>1
  <2> HIDE DEF Q
  <2>3. Len(reports') = Len(reports) + 1
    BY <2>1, <2>2
  <2> QED
    BY SMTT(30), <1>1, <1>3, <2>3 DEF Room
<1> QED
  BY Zenon, <1>2, <1>3

\* A step that does not go on to call the client.
LEMMA NotServing ==
  ASSUME StopInv, Len(reports') <= ReportCapacity,
         \/ NextCommand
         \/ pc' \notin {"outbox", "submit", "fill", "cancel"}
  PROVE  RouteInv'
<1>1. CASE pc' \notin {"outbox", "submit", "fill", "cancel"}
  BY Zenon, <1>1 DEF RouteInv
<1>2. CASE NextCommand
  <2>1. /\ pc' \notin {"submit", "fill", "cancel"}
        /\ pc' = "outbox" => cmds' # <<>>
    BY Zenon, <1>2 DEF NextCommand, StopInv
  <2> QED
    BY Zenon, <2>1 DEF RouteInv
<1> QED
  BY Zenon, <1>1, <1>2

\* What happens around the task while it serves a command.
LEMMA StillServing ==
  ASSUME RouteInv, Len(reports') <= ReportCapacity, UNCHANGED <<pc, cmds, client, orders>>,
         client = "venue" \/ UNCHANGED exchange
  PROVE  RouteInv'
BY Zenon DEF RouteInv

\* A report is sent only where there is room.
LEMMA RoomFor ==
  ASSUME TradeInv, RouteInv, Next
  PROVE  Len(reports') <= ReportCapacity
<1> USE DEF tradeVars, omsVars, clientVars
<1>1. Len(reports) <= ReportCapacity /\ ReportInv
  BY Zenon DEF TradeInv, RouteInv
<1>2. \/ reports' = reports
      \/ reports # <<>> /\ reports' = Tail(reports)
      \/ Room /\ \E rep : reports' = Append(reports, rep)
  <2>1. CASE Moves
    BY Zenon, <2>1, MovesFrame
  <2>2. CASE Nexts
    BY Zenon, <2>2 DEF Nexts, RouteModify, CallReturns
  <2>3. CASE Turns
    BY Zenon, <2>3 DEF Turns, OnStart, OnStop, TakeMarket
  <2>4. CASE DrainOutbox
    BY Zenon, <2>4 DEF DrainOutbox
  <2>5. CASE StoreStop \/ NotifyWaiters \/ FeedSend \/ FeedClose
    BY Zenon, <2>5 DEF StoreStop, NotifyWaiters, FeedSend, FeedClose
  <2>6. CASE PaperAccept \/ PaperFill \/ PaperCancel
    BY Zenon, <2>6 DEF PaperAccept, PaperFill, PaperCancel
  <2>7. CASE RouteSubmit \/ RouteCancel \/ TakeReport
    BY Zenon, <2>7 DEF RouteSubmit, RouteCancel, TakeReport
  <2>8. CASE VenueRepeats
    BY Zenon, <2>8 DEF VenueRepeats
  <2>9. ASSUME NEW c \in Coids, VenueAnswers(c) \/ VenueCloses(c)
        PROVE  reports' = reports \/ (Room /\ \E rep : reports' = Append(reports, rep))
    BY Zenon, <2>9 DEF VenueAnswers, VenueCloses, VenueMoves, Pump
  <2>10. ASSUME NEW c \in Coids, VenueTrades(c)
         PROVE  reports' = reports \/ (Room /\ \E rep : reports' = Append(reports, rep))
    BY Zenon, <2>10 DEF VenueTrades, Pump
  <2> QED
    BY <2>1, <2>2, <2>3, <2>4, <2>5, <2>6, <2>7, <2>8, <2>9, <2>10, NextKinds, Zenon DEF Trading
<1> QED
  BY Zenon, <1>1, <1>2, ReportsFit

\* Every step preserves RouteInv.
LEMMA RouteStep ==
  ASSUME StrategyInv, StopInv, TradeInv, RouteInv, Next
  PROVE  RouteInv'
<1>1. Len(reports') <= ReportCapacity
  BY Zenon, RoomFor
<1> USE DEF Goto, RouteOutboxThen
<1>2. CASE Moves
  <2>1. pc' \notin {"outbox", "submit", "fill", "cancel"}
    BY Zenon, <1>2 DEF Moves, Run, RunAgain, Connect, CheckStop, Arm, PollStop, Emit,
       CallbackFails, Idle, Wake, Disconnect, Fail
  <2> QED
    BY Zenon, <1>1, <2>1, NotServing
<1>3. CASE Nexts
  BY Zenon, <1>1, <1>3, NotServing DEF Nexts, RouteModify, CallReturns
<1>4. CASE Turns \/ TakeReport
  BY Zenon, <1>1, <1>4, NotServing DEF Turns, OnStart, OnStop, TakeMarket, TakeReport
<1>5. CASE DrainOutbox
  <2>1. /\ cmds' = outbox /\ pc' = IF outbox = <<>> THEN ret ELSE "outbox"
    BY Zenon, <1>5 DEF DrainOutbox
  <2>2. ret \notin {"outbox", "submit", "fill", "cancel"}
    BY Zenon DEF StopInv
  <2> QED
    BY Zenon, <1>1, <2>1, <2>2 DEF RouteInv
<1>6. CASE PaperFill \/ PaperCancel
  BY Zenon, <1>1, <1>6, NotServing DEF PaperFill, PaperCancel
<1>7. CASE PaperAccept
  <2>1. /\ pc = "submit" /\ client = "paper" /\ pc' = "fill"
        /\ UNCHANGED <<cmds, orders, exchange, client>>
    BY Zenon, <1>7 DEF PaperAccept, omsVars, clientVars
  <2> QED
    BY Zenon, <1>1, <2>1 DEF RouteInv
<1>8. CASE VenueRepeats \/ \E c \in Coids : VenueAnswers(c) \/ VenueCloses(c) \/ VenueTrades(c)
  BY Zenon, <1>1, <1>8, VenueFrame, StillServing DEF omsVars
<1>9. CASE StoreStop \/ NotifyWaiters \/ FeedSend \/ FeedClose
  <2>1. UNCHANGED <<pc, cmds, client, orders, exchange>>
    BY Zenon, <1>9 DEF StoreStop, NotifyWaiters, FeedSend, FeedClose, loopVars, clientVars, omsVars
  <2> QED
    BY Zenon, <1>1, <2>1, StillServing
<1>10. CASE RouteSubmit
  <2>1. PICK o \in LiveOrders : o = Head(cmds).order
    BY Zenon, <1>10, SubmittedOrder DEF RouteSubmit
  <2>2. PICK c \in Coids : c = o.coid
    BY Zenon DEF LiveOrders
  <2>3. CASE ~NextCommand
    <3>1. /\ pc = "outbox" /\ pc' = "submit" /\ cmds' = cmds /\ client' = client
          /\ Head(cmds).cmd = "Submit"
          /\ \E st \in {"Submitted", "Denied"} : orders' = [orders EXCEPT ![c] = Tracked(o, st)]
          /\ client = "paper" => exchange' = [exchange EXCEPT ![c] = Sent(o)]
      <4>1. SubmitApplies(o)
        BY Zenon, <1>10, <2>1, <2>3 DEF RouteSubmit
      <4> QED
        BY Zenon, <1>10, <2>1, <2>2, <2>3, <4>1 DEF RouteSubmit, CacheOrder, Unsendable
    <3>2. PICK st \in {"Submitted", "Denied"} : orders' = [orders EXCEPT ![c] = Tracked(o, st)]
      BY Zenon, <3>1
    <3> DEFINE t == Tracked(o, st)
               h == Sent(o)
    <3>3. t \in TrackedType /\ h \in HeldType /\ h.left > 0
      BY DEF Tracked, Sent, TrackedType, HeldType, LiveOrders, OrderStatus, OpenStatus,
         TerminalStatus
    <3>4. t # None /\ h # None
      BY Zenon, <3>3, OrderAssumption, HeldAssumption
    <3> HIDE DEF t, h
    <3>5. orders'[c] = t /\ (client = "paper" => exchange'[c] = h)
      BY Zenon, <3>1, <3>2 DEF TradeInv, t, h
    <3>6. cmds # <<>>
      BY Zenon, <3>1 DEF RouteInv
    <3> QED
      BY Zenon, <1>1, <2>1, <2>2, <3>1, <3>3, <3>4, <3>5, <3>6 DEF RouteInv
  <2> QED
    BY Zenon, <1>1, <2>3, NotServing
<1>11. CASE RouteCancel
  <2>1. PICK c \in Coids : c = Head(cmds).coid
    BY Zenon, <1>11, CanceledId DEF RouteCancel
  <2>2. CASE ~NextCommand
    <3>1. /\ pc = "outbox" /\ pc' = "cancel" /\ cmds' = cmds /\ Head(cmds).cmd = "Cancel"
          /\ orders[c] # None
          /\ \/ orders' = orders
             \/ orders' = [orders EXCEPT ![c] = ApplyStatus(@, "PendingCancel")]
      BY Zenon, <1>11, <2>1, <2>2 DEF RouteCancel
    <3> DEFINE t == ApplyStatus(orders[c], "PendingCancel")
    <3>2. t # None
      <4>1. orders[c] \in TrackedType
        BY Zenon, <3>1 DEF TradeInv
      <4>2. t \in TrackedType
        BY Zenon, <4>1 DEF ApplyStatus, TrackedType, OrderStatus, OpenStatus, TerminalStatus
      <4> QED
        BY Zenon, <4>2, OrderAssumption
    <3> HIDE DEF t
    <3>3. orders'[c] # None
      BY Zenon, <3>1, <3>2 DEF TradeInv, t
    <3>4. cmds # <<>>
      BY Zenon, <3>1 DEF RouteInv
    <3> QED
      BY Zenon, <1>1, <2>1, <3>1, <3>3, <3>4 DEF RouteInv
  <2> QED
    BY Zenon, <1>1, <2>2, NotServing
<1> QED
  BY <1>2, <1>3, <1>4, <1>5, <1>6, <1>7, <1>8, <1>9, <1>10, <1>11, NextKinds, Zenon DEF Trading

-----------------------------------------------------------------------------
\* The theorems

\* A kernel that was just built satisfies the invariant.
LEMMA LiveInit ==
  ASSUME Init
  PROVE  LiveInv
<1> USE DEF Init, OmsInit, CacheInit
<1>1. StrategyInv
  BY DEF StrategyInv
<1>2. StopInv
  BY Zenon DEF StopInv, Labels
<1>3. MarketInv
  BY DEF MarketInv, MaybePrice
<1>4. TradeInv
  <2>1. /\ orders \in [Coids -> TrackedType \cup {None}] /\ positions \in [Instruments -> Int]
        /\ exchange \in [Coids -> HeldType \cup {None}]
    OBVIOUS
  <2>2. TradesInv
    BY Zenon, FS_EmptySet DEF TradesInv
  <2>3. ReportInv
    BY DEF ReportInv
  <2>4. \A c \in Coids : OrderInv(c)
    BY Zenon DEF OrderInv, TradesOf
  <2> QED
    BY Zenon, <2>1, <2>2, <2>3, <2>4 DEF TradeInv
<1>5. RouteInv
  BY DEF RouteInv
<1> QED
  BY Zenon, <1>1, <1>2, <1>3, <1>4, <1>5 DEF LiveInv

\* Every step preserves the invariant.
LEMMA LiveStep ==
  ASSUME LiveInv, [Next]_vars
  PROVE  LiveInv'
<1>1. CASE Next
  BY Zenon, <1>1, StrategyStep, StopStep, MarketStep, TradeStep, RouteStep DEF LiveInv
<1>2. CASE UNCHANGED vars
  <2>1. ReportInv'
    BY Zenon, <1>2 DEF LiveInv, TradeInv, ReportInv, vars, omsVars, clientVars
  <2>2. TradeInv'
    BY Zenon, <1>2, <2>1, OnlyReports DEF LiveInv, vars, omsVars, clientVars
  <2>3. StrategyInv' /\ StopInv' /\ MarketInv'
    BY Zenon, <1>2 DEF LiveInv, StrategyInv, StopInv, MarketInv, vars, strategyVars, loopVars,
       stopVars, clientVars, feedVars, cacheVars
  <2>4. RouteInv'
    BY Zenon, <1>2, StillServing DEF LiveInv, RouteInv, vars, loopVars, clientVars, omsVars
  <2> QED
    BY Zenon, <2>2, <2>3, <2>4 DEF LiveInv
<1> QED
  BY Zenon, <1>1, <1>2

\* LiveInv holds throughout every run of the live kernel.
THEOREM LiveInvariance == Spec => []LiveInv
<1>1. Init => LiveInv
  BY Zenon, LiveInit
<1>2. LiveInv /\ [Next]_vars => LiveInv'
  BY Zenon, LiveStep
<1> QED
  BY <1>1, <1>2, PTL DEF Spec

\* What the live kernel holds is well formed, and route_outbox never runs out of
\* commands.
THEOREM LiveTypeCorrect == Spec => []LiveTypeOK
<1>1. ASSUME LiveInv PROVE LiveTypeOK
  <2>1. client \in {"paper", "venue"}
    BY Zenon, <1>1 DEF LiveInv, StrategyInv
  <2>2. seq \in 0..MaxCommands
    BY <1>1 DEF LiveInv, StrategyInv
  <2>3. /\ pc \in Labels /\ ret \in {"top", "emit", "disconnect"}
        /\ stopper \in {"idle", "stored", "returned"} /\ (woken => waiting)
    BY Zenon, <1>1 DEF LiveInv, StopInv
  <2>4. /\ pc \in {"outbox", "submit", "fill", "cancel"} => cmds # <<>>
        /\ Len(reports) <= ReportCapacity
    BY Zenon, <1>1 DEF LiveInv, RouteInv
  <2>5. /\ orders \in [Coids -> TrackedType \cup {None}] /\ positions \in [Instruments -> Int]
        /\ mark \in [Instruments -> MaybePrice]
    BY Zenon, <1>1 DEF LiveInv, TradeInv, MarketInv
  <2> QED
    BY Zenon, <2>1, <2>2, <2>3, <2>4, <2>5 DEF LiveTypeOK, Labels
<1> QED
  BY <1>1, LiveInvariance, PTL

\* No report reaches apply_report before its order is cached, though the client
\* may send it before submit_order returns.
THEOREM NoReportComesEarly == Spec => []ReportsFindTheirOrders
<1>1. LiveInv => ReportsFindTheirOrders
  BY Zenon DEF LiveInv, TradeInv, ReportInv, ReportsFindTheirOrders
<1> QED
  BY <1>1, LiveInvariance, PTL

\* No order shows more filled than the client executed in the precision of the
\* order, whatever the stream repeats or loses.
THEOREM FillsAreExecuted == Spec => []FillsAreTrades
<1>1. ASSUME LiveInv PROVE FillsAreTrades
  <2>1. ASSUME NEW c \in Coids, orders[c] # None
        PROVE  orders[c].filled <= MapThenSumSet(LAMBDA f : f.qty, Bookable(c))
    <3>1. TradesInv /\ OrderInv(c) /\ orders[c] \in TrackedType
      BY Zenon, <1>1, <2>1 DEF LiveInv, TradeInv
    <3>2. Bookable(c) \in SUBSET trades /\ SeenOf(c) \in SUBSET Bookable(c)
      BY Zenon DEF TradesOf, Bookable, SeenOf
    <3>3. /\ IsFiniteSet(Bookable(c))
          /\ QtyOf(SeenOf(c)) \in Nat /\ QtyOf(Bookable(c)) \in Nat
          /\ QtyOf(SeenOf(c)) <= QtyOf(Bookable(c))
      BY Zenon, <3>1, <3>2, QtyOfFills DEF TradesInv
    <3>4. \A f \in Bookable(c) : f.qty \in Nat
      BY Zenon, <3>1, <3>2 DEF TradesInv, FillType
    <3>5. MapThenSumSet(LAMBDA f : f.qty, Bookable(c)) = QtyOf(Bookable(c))
      BY SMTT(30), <3>3, <3>4, SumOfQty DEF QtyOf
    <3>6. orders[c].filled <= QtyOf(SeenOf(c)) /\ orders[c].filled \in Nat
      BY Zenon, <2>1, <3>1 DEF OrderInv, TrackedType
    <3> QED
      BY SMTT(30), <3>3, <3>5, <3>6
  <2> QED
    BY Zenon, <2>1 DEF FillsAreTrades
<1> QED
  BY <1>1, LiveInvariance, PTL

\* A stop request is followed by at most one more message, wherever the task was
\* and whether or not the notification found it waiting.
THEOREM StopLagsOneMessage == Spec => []StopLag
<1>1. LiveInv => StopLag
  BY SMTT(30) DEF LiveInv, StopInv, StopLag
<1> QED
  BY <1>1, LiveInvariance, PTL

\* Every order a strategy in Python submits gets the id PyCtx promised it.
THEOREM PromisesAreKept == Spec => []PromisedIds
<1>1. ASSUME LiveInv PROVE PromisedIds
  <2>1. outbox \in Seq(CommandType) /\ cmds \in Seq(CommandType)
    BY Zenon, <1>1 DEF LiveInv, StrategyInv
  <2>2. ASSUME NEW q \in Seq(CommandType), NEW k \in DOMAIN q, q[k].cmd = "Submit"
        PROVE  q[k].order.coid = q[k].promised
    <3>1. q[k] \in CommandType
      OBVIOUS
    <3> QED
      BY Zenon, <2>2, <3>1 DEF CommandType
  <2> QED
    BY Zenon, <2>1, <2>2 DEF PromisedIds
<1> QED
  BY <1>1, LiveInvariance, PTL

-----------------------------------------------------------------------------
\* The refinement: a step changes at most one order, and in one of three ways:
\* it is tracked, filled or moved to another status.

TracksOrder(c) == orders[c] = None /\ orders'[c] # None /\ orders'[c].filled = 0

FillsOrder(c) ==
  /\ orders[c] # None /\ orders'[c] # None
  /\ ~IsTerminal(orders[c])
  /\ orders'[c].quantity = orders[c].quantity
  /\ orders'[c].filled > orders[c].filled
  /\ IsTerminal(orders'[c]) <=> orders'[c].filled >= orders'[c].quantity

MovesOrder(c) ==
  /\ orders[c] # None /\ orders'[c] # None
  /\ ~IsTerminal(orders[c])
  /\ orders'[c].quantity = orders[c].quantity
  /\ orders'[c].filled = orders[c].filled

ChangesOnly(c) ==
  /\ \A d \in Coids \ {c} : orders'[d] = orders[d]
  /\ TracksOrder(c) \/ FillsOrder(c) \/ MovesOrder(c)

\* What is filled was executed, and no more is executed than was ordered.
WithinQuantity == \A c \in Coids : orders[c] # None => orders[c].filled <= orders[c].quantity

\* No order is filled beyond its quantity.
LEMMA NeverOverfilled == TradeInv => WithinQuantity
<1> SUFFICES ASSUME TradeInv, NEW c \in Coids, orders[c] # None
             PROVE  orders[c].filled <= orders[c].quantity
  BY Zenon DEF WithinQuantity
<1>1. /\ TradesInv /\ OrderInv(c) /\ orders[c].filled \in Nat /\ orders[c].quantity \in Nat
      /\ exchange[c] # None => exchange[c].left \in Nat
  BY Zenon DEF TradeInv, TrackedType, HeldType
<1>2. TradesOf(c) \in SUBSET trades /\ SeenOf(c) \in SUBSET TradesOf(c)
  BY Zenon DEF TradesOf, Bookable, SeenOf
<1>3. /\ QtyOf(SeenOf(c)) \in Nat /\ QtyOf(TradesOf(c)) \in Nat
      /\ QtyOf(SeenOf(c)) <= QtyOf(TradesOf(c))
  BY Zenon, <1>1, <1>2, QtyOfFills DEF TradesInv
<1>4. orders[c].filled <= QtyOf(SeenOf(c))
  BY ZenonT(40), <1>1 DEF OrderInv
<1>5. CASE exchange[c] = None
  <2>1. QtyOf(TradesOf(c)) = 0
    BY Zenon, <1>1, <1>5, QtyEmpty DEF OrderInv
  <2> QED
    BY SMTT(30), <1>1, <1>3, <1>4, <2>1
<1>6. CASE exchange[c] # None
  <2>1. QtyOf(TradesOf(c)) + exchange[c].left = orders[c].quantity
    BY Zenon, <1>1, <1>6 DEF OrderInv
  <2> QED
    BY SMTT(30), <1>1, <1>3, <1>4, <1>6, <2>1
<1> QED
  BY Zenon, <1>5, <1>6

\* The same in the next state.
LEMMA NeverOverfilledNext == TradeInv' => WithinQuantity'
BY NeverOverfilled, PTL

\* Routing a submission tracks at most one order.
LEMMA SubmitTracks ==
  ASSUME LiveInv, RouteSubmit
  PROVE  orders' = orders \/ \E c \in Coids : ChangesOnly(c)
<1>1. PICK o \in LiveOrders : o = Head(cmds).order
  BY Zenon, SubmittedOrder DEF LiveInv, RouteSubmit
<1>2. PICK c \in Coids : c = o.coid
  BY Zenon DEF LiveOrders
<1>3. CASE SubmitApplies(o)
  <2>1. PICK st \in {"Submitted", "Denied"} : orders' = [orders EXCEPT ![c] = Tracked(o, st)]
    BY Zenon, <1>1, <1>2, <1>3 DEF RouteSubmit, CacheOrder
  <2> DEFINE t == Tracked(o, st)
  <2>2. t \in TrackedType /\ t.filled = 0
    BY Zenon DEF Tracked, TrackedType, LiveOrders, OrderStatus, OpenStatus, TerminalStatus
  <2>3. t # None
    BY Zenon, <2>2, OrderAssumption
  <2> HIDE DEF t
  <2>4. orders'[c] = t /\ \A d \in Coids \ {c} : orders'[d] = orders[d]
    BY Zenon, <2>1 DEF LiveInv, TradeInv, t
  <2>5. orders[c] = None
    BY Zenon, <1>2, <1>3 DEF SubmitApplies
  <2> QED
    BY Zenon, <2>2, <2>3, <2>4, <2>5 DEF ChangesOnly, TracksOrder
<1>4. CASE ~SubmitApplies(o)
  BY Zenon, <1>1, <1>4 DEF RouteSubmit, omsVars
<1> QED
  BY Zenon, <1>3, <1>4

\* Routing a cancellation moves at most one order.
LEMMA CancelMoves ==
  ASSUME LiveInv, RouteCancel
  PROVE  orders' = orders \/ \E c \in Coids : ChangesOnly(c)
<1>1. PICK c \in Coids : c = Head(cmds).coid
  BY Zenon, CanceledId DEF LiveInv, RouteCancel
<1>2. SUFFICES ASSUME orders' # orders PROVE ChangesOnly(c)
  BY Zenon
<1>3. CancelApplies(c) /\ orders' = [orders EXCEPT ![c] = ApplyStatus(@, "PendingCancel")]
  BY Zenon, <1>1, <1>2 DEF RouteCancel
<1> DEFINE t == ApplyStatus(orders[c], "PendingCancel")
<1>4. orders[c] # None /\ orders[c] \in TrackedType
  BY Zenon, <1>3 DEF CancelApplies, LiveInv, TradeInv
<1>5. ~IsTerminal(orders[c])
  BY Zenon, <1>3 DEF CancelApplies, CanApply, Allowed, IsTerminal, TerminalStatus
<1>6. t \in TrackedType /\ t.filled = orders[c].filled /\ t.quantity = orders[c].quantity
  BY Zenon, <1>4 DEF ApplyStatus, TrackedType, OrderStatus, OpenStatus, TerminalStatus
<1>7. t # None
  BY Zenon, <1>6, OrderAssumption
<1>8. orders'[c] = t /\ \A d \in Coids \ {c} : orders'[d] = orders[d]
  BY Zenon, <1>3 DEF LiveInv, TradeInv
<1> HIDE DEF t
<1> QED
  BY Zenon, <1>4, <1>5, <1>6, <1>7, <1>8 DEF ChangesOnly, MovesOrder

\* Taking a report fills or moves at most one order.
LEMMA ReportMoves ==
  ASSUME LiveInv, TakeReport
  PROVE  orders' = orders \/ \E c \in Coids : ChangesOnly(c)
<1>0. reports # <<>> /\ TradeInv
  BY Zenon DEF TakeReport, LiveInv
<1>1. PICK rep \in FillType \cup StatusType : rep = Head(reports)
  BY SMTT(30), <1>0 DEF TradeInv, ReportInv
<1>2. PICK c \in Coids : c = rep.coid
  BY Zenon DEF FillType, StatusType
<1>3. RefuseFill(rep) \/ ApplyReport(rep)
  BY Zenon, <1>1 DEF TakeReport
<1>4. SUFFICES ASSUME orders' # orders PROVE ChangesOnly(c)
  BY Zenon
<1> DEFINE o == orders[c]
           p == Folded(o, rep)
<1>5. Applies(rep) /\ orders' = [orders EXCEPT ![c] = p]
  BY Zenon, <1>2, <1>3, <1>4 DEF ApplyReport, RefuseFill
<1>6. o # None /\ o \in TrackedType
  BY Zenon, <1>0, <1>2, <1>5 DEF Applies, TradeInv
<1>7. ~IsTerminal(o)
  <2>1. CanApply(o, EventOf(rep)) /\ rep.kind # "Modified"
    BY Zenon, <1>2, <1>5 DEF Applies, FillType, StatusType
  <2> QED
    BY Zenon, <2>1 DEF CanApply, Allowed, Fillable, IsTerminal, TerminalStatus, EventOf
<1>8. orders'[c] = p /\ \A d \in Coids \ {c} : orders'[d] = orders[d]
  BY Zenon, <1>0, <1>5 DEF TradeInv
<1>9. CASE rep \in StatusType
  <2>1. /\ rep.kind \in {"Accepted", "Rejected", "Canceled", "Expired"}
        /\ p = ApplyStatus(o, rep.kind)
    BY Zenon, <1>9 DEF StatusType, Folded
  <2>2. p \in TrackedType /\ p.filled = o.filled /\ p.quantity = o.quantity
    BY Zenon, <1>6, <2>1 DEF ApplyStatus, TrackedType, OrderStatus, OpenStatus, TerminalStatus
  <2>3. p # None
    BY Zenon, <2>2, OrderAssumption
  <2> HIDE DEF p
  <2> QED
    BY Zenon, <1>6, <1>7, <1>8, <2>2, <2>3 DEF ChangesOnly, MovesOrder
<1>10. CASE rep \in FillType
  <2>1. rep.qty \in Nat \ {0} /\ p = ApplyFill(o, rep.qty)
    BY Zenon, <1>10 DEF FillType, Folded
  <2>2. o.filled \in Nat /\ o.quantity \in Nat
    BY Zenon, <1>6 DEF TrackedType
  <2> DEFINE f == o.filled + rep.qty
             st == IF Monus(o.quantity, f) = 0 THEN "Filled" ELSE "PartiallyFilled"
  <2>3. p = [o EXCEPT !.filled = f, !.status = st] /\ f \in Nat /\ f > o.filled
    BY SMTT(30), <2>1, <2>2 DEF ApplyFill
  <2>4. st \in OrderStatus /\ (st \in TerminalStatus <=> f >= o.quantity)
    BY SMTT(30), <2>2, <2>3 DEF Monus, OrderStatus, OpenStatus, TerminalStatus
  <2> HIDE DEF f, st, p, o
  <2>5. p \in TrackedType /\ p.filled = f /\ p.quantity = o.quantity /\ p.status = st
    BY Zenon, <1>6, <2>3, <2>4 DEF TrackedType
  <2>6. p # None
    BY Zenon, <2>5, OrderAssumption
  <2>7. IsTerminal(p) <=> p.filled >= p.quantity
    BY Zenon, <2>4, <2>5 DEF IsTerminal
  <2> QED
    BY Zenon, <1>6, <1>7, <1>8, <2>3, <2>5, <2>6, <2>7 DEF ChangesOnly, FillsOrder, o
<1> QED
  BY Zenon, <1>9, <1>10

\* Every step changes at most one order.
LEMMA OrdersStep ==
  ASSUME LiveInv, [Next]_vars
  PROVE  orders' = orders \/ \E c \in Coids : ChangesOnly(c)
<1> USE DEF omsVars
<1>1. CASE Moves
  BY Zenon, <1>1, MovesFrame DEF tradeVars
<1>2. CASE Nexts \/ Turns
  BY Zenon, <1>2 DEF Nexts, RouteModify, CallReturns, Turns, OnStart, OnStop, TakeMarket
<1>3. CASE DrainOutbox \/ StoreStop \/ NotifyWaiters \/ FeedSend \/ FeedClose \/ UNCHANGED vars
  BY Zenon, <1>3 DEF DrainOutbox, StoreStop, NotifyWaiters, FeedSend, FeedClose, vars
<1>4. CASE PaperAccept \/ PaperFill \/ PaperCancel
  BY Zenon, <1>4 DEF PaperAccept, PaperFill, PaperCancel
<1>5. CASE VenueRepeats \/ \E c \in Coids : VenueAnswers(c) \/ VenueCloses(c) \/ VenueTrades(c)
  BY Zenon, <1>5, VenueFrame
<1> QED
  BY Zenon, <1>1, <1>2, <1>3, <1>4, <1>5, NextKinds, SubmitTracks, CancelMoves, ReportMoves
     DEF Trading

\* A change of one order is a step of its life.
LEMMA LiveLifecycleStep ==
  ASSUME LiveInv, LiveInv', WithinQuantity', NEW c \in Coids, ChangesOnly(c)
  PROVE  [Lifecycle!Next]_(Lifecycle!vars)
<1> DEFINE phase == [d \in Coids |-> PhaseOf(d)]
           quantity == [d \in Coids |-> IF orders[d] = None THEN 0 ELSE orders[d].quantity]
           filled == [d \in Coids |-> IF orders[d] = None THEN 0 ELSE orders[d].filled]
<1>1. /\ orders \in [Coids -> TrackedType \cup {None}]
      /\ orders' \in [Coids -> TrackedType \cup {None}]
      /\ \A d \in Coids \ {c} : orders'[d] = orders[d]
  BY Zenon DEF LiveInv, TradeInv, ChangesOnly
<1>2. /\ phase' = [phase EXCEPT ![c] = phase'[c]]
      /\ quantity' = [quantity EXCEPT ![c] = quantity'[c]]
      /\ filled' = [filled EXCEPT ![c] = filled'[c]]
  BY Zenon, <1>1 DEF PhaseOf
<1>3. orders'[c] # None
  BY Zenon DEF ChangesOnly, TracksOrder, FillsOrder, MovesOrder
<1>4. /\ orders'[c] \in TrackedType
      /\ phase'[c] = IF IsTerminal(orders'[c]) THEN "closed" ELSE "working"
      /\ quantity'[c] = orders'[c].quantity /\ filled'[c] = orders'[c].filled
  BY Zenon, <1>1, <1>3 DEF PhaseOf
<1>5. ASSUME NEW f, NEW g, f = [d \in Coids |-> f[d]], g = [f EXCEPT ![c] = g[c]], g[c] = f[c]
      PROVE  g = f
  BY Zenon, <1>5
<1>6. CASE TracksOrder(c)
  <2>1. phase[c] = "absent" /\ filled'[c] = filled[c]
    BY Zenon, <1>4, <1>6 DEF TracksOrder, PhaseOf
  <2>2. filled' = filled
    BY Zenon, <1>2, <1>5, <2>1
  <2>3. quantity'[c] \in Nat \ {0}
    BY Zenon, <1>4 DEF TrackedType
  <2>4. Lifecycle!Track(c)
    BY Zenon, <1>2, <1>4, <2>1, <2>2, <2>3 DEF Lifecycle!Track
  <2> QED
    BY Zenon, <2>4 DEF Lifecycle!Next
<1>7. ASSUME FillsOrder(c) \/ MovesOrder(c)
      PROVE  /\ phase[c] = "working" /\ orders[c] # None /\ ~IsTerminal(orders[c])
             /\ quantity[c] = orders[c].quantity /\ filled[c] = orders[c].filled
             /\ quantity' = quantity
             /\ orders[c] \in TrackedType
  <2>1. orders[c] # None /\ orders'[c].quantity = orders[c].quantity
        /\ ~IsTerminal(orders[c])
    BY Zenon, <1>7 DEF FillsOrder, MovesOrder
  <2>2. quantity'[c] = quantity[c]
    BY Zenon, <1>4, <2>1
  <2>3. quantity' = quantity
    BY Zenon, <1>2, <1>5, <2>2
  <2> QED
    BY Zenon, <1>1, <2>1, <2>3 DEF PhaseOf
<1>8. CASE FillsOrder(c)
  <2>1. /\ orders[c].filled \in Nat /\ orders[c].quantity \in Nat /\ orders'[c].filled \in Nat
        /\ orders'[c].filled > orders[c].filled /\ orders'[c].quantity = orders[c].quantity
        /\ orders'[c].filled <= orders'[c].quantity
        /\ IsTerminal(orders'[c]) <=> orders'[c].filled >= orders'[c].quantity
    BY Zenon, <1>3, <1>4, <1>7, <1>8 DEF FillsOrder, TrackedType, WithinQuantity
  <2>2. /\ orders'[c].filled \in (orders[c].filled + 1)..orders[c].quantity
        /\ IsTerminal(orders'[c]) <=> orders'[c].filled = orders[c].quantity
    BY <2>1
  <2>3. filled'[c] \in (filled[c] + 1)..quantity[c]
    BY Zenon, <1>4, <1>7, <1>8, <2>2
  <2>4. phase'[c] = IF filled'[c] = quantity[c] THEN "closed" ELSE "working"
    BY Zenon, <1>4, <1>7, <1>8, <2>2
  <2>5. Lifecycle!Fill(c)
    BY Zenon, <1>2, <1>7, <1>8, <2>3, <2>4 DEF Lifecycle!Fill
  <2> QED
    BY Zenon, <2>5 DEF Lifecycle!Next
<1>9. CASE MovesOrder(c)
  <2>1. filled'[c] = filled[c]
    BY Zenon, <1>4, <1>7, <1>9 DEF MovesOrder
  <2>2. filled' = filled
    BY Zenon, <1>2, <1>5, <2>1
  <2>3. filled[c] < quantity[c]
    BY Zenon, <1>7, <1>9 DEF LiveInv, TradeInv, OrderInv
  <2>4. CASE phase'[c] = "working"
    <3>0. phase'[c] = phase[c]
      BY Zenon, <1>7, <1>9, <2>4
    <3>1. phase' = phase
      BY Zenon, <1>2, <1>5, <3>0
    <3> QED
      BY Zenon, <1>7, <1>9, <2>2, <3>1 DEF Lifecycle!vars
  <2>5. CASE phase'[c] = "closed"
    <3>1. Lifecycle!Close(c)
      BY Zenon, <1>2, <1>7, <1>9, <2>2, <2>3, <2>5 DEF Lifecycle!Close
    <3> QED
      BY Zenon, <3>1 DEF Lifecycle!Next
  <2> QED
    BY Zenon, <1>4, <2>4, <2>5
<1> QED
  BY Zenon, <1>6, <1>8, <1>9 DEF ChangesOnly

\* The live kernel implements the abstract life of orders, whatever the venue
\* repeats, loses or answers late.
THEOREM LiveOrdersRefineLifecycle == Spec => OrdersLiveOnce
<1>1. Init => Lifecycle!Init
  BY Zenon DEF Init, OmsInit, Lifecycle!Init, PhaseOf
<1>2. LiveInv /\ LiveInv' /\ [Next]_vars => [Lifecycle!Next]_(Lifecycle!vars)
  <2> SUFFICES ASSUME LiveInv, LiveInv', [Next]_vars PROVE [Lifecycle!Next]_(Lifecycle!vars)
    BY Zenon
  <2>1. CASE orders' = orders
    BY Zenon, <2>1 DEF Lifecycle!vars, PhaseOf
  <2>2. CASE \E c \in Coids : ChangesOnly(c)
    <3>1. WithinQuantity'
      BY Zenon, NeverOverfilledNext DEF LiveInv
    <3> QED
      BY Zenon, <2>2, <3>1, LiveLifecycleStep
  <2> QED
    BY Zenon, <2>1, <2>2, OrdersStep
<1> QED
  BY <1>1, <1>2, LiveInvariance, PTL DEF Spec, OrdersLiveOnce, Lifecycle!Spec
=============================================================================

-------------------------- MODULE StrategyAdapter ---------------------------
(***************************************************************************)
(* PyStrategyAdapter (coinext-py/src/lib.rs): a strategy written in        *)
(* Python.  While one of its handlers runs, its calls are only queued on a *)
(* PyCtx, and a submission returns the id its order is going to have; when *)
(* the handler has returned or raised, what it queued is replayed onto the *)
(* StrategyContext, whose OrderFactory mints the ids.                      *)
(*                                                                         *)
(* The id "{strategy_id}-{seq:020}" is its sequence number.  A ticket is   *)
(* what Python passes: the symbol may be unknown and a number may have no  *)
(* representation at the precision of the instrument (NaN, negative, too   *)
(* large), for which any negative number stands.  Timers are left out.     *)
(***************************************************************************)
EXTENDS Domain, Sequences

\* Quantity::from_f64 and Price::from_f64 succeed.
Representable(v) == v >= 0

----------------------------------------------------------------------------
\* PyCtx

\* The context a handler starts with: base_seq, submit_count and outbox.
FreshCtx(seq) == [base_seq |-> seq, submit_count |-> 0, outbox |-> <<>>]

\* next_coid, without the increment.
NextCoid(ctx) == ctx.base_seq + ctx.submit_count + 1

\* resolve: the symbol is one of the adapter's.
Resolves(t) == t.inst \in Instruments

SubmitMarketOK(t) == Resolves(t) /\ Representable(t.quantity)

SubmitLimitOK(t) == Resolves(t) /\ Representable(t.quantity) /\ Representable(t.price)

SubmitStopOK(t) == Resolves(t) /\ Representable(t.quantity) /\ Representable(t.stop)

SubmitStopLimitOK(t) ==
  /\ Resolves(t)
  /\ Representable(t.quantity)
  /\ Representable(t.stop)
  /\ Representable(t.price)

SubmitTrailingOK(t) == Resolves(t) /\ Representable(t.quantity) /\ t.stop > 0

\* The call for the type of the order queues it; otherwise it raises.
Queues(t) ==
  CASE t.type = "Market" -> SubmitMarketOK(t)
    [] t.type = "Limit" -> SubmitLimitOK(t)
    [] t.type = "StopMarket" -> SubmitStopOK(t)
    [] t.type = "StopLimit" -> SubmitStopLimitOK(t)
    [] t.type = "TrailingStopMarket" -> SubmitTrailingOK(t)

Queued(ctx, t) ==
  [ctx EXCEPT
     !.submit_count = @ + 1,
     !.outbox = Append(@, [cmd |-> "Submit", ticket |-> t, promised |-> NextCoid(ctx)])]

\* Variant: a refused submission has already counted.
PySubmitCounted(ctx, t) ==
  IF Queues(t) THEN Queued(ctx, t) ELSE [ctx EXCEPT !.submit_count = @ + 1]

\* A submission queues an order and counts it, or raises and does neither.
PySubmit(ctx, t) == IF Queues(t) THEN Queued(ctx, t) ELSE ctx

\* cancel
PyCancel(ctx, c) ==
  [ctx EXCEPT !.outbox = Append(@, [cmd |-> "Cancel", coid |-> c])]

PyCall(ctx, call) ==
  IF call.cmd = "Cancel" THEN PyCancel(ctx, call.coid) ELSE PySubmit(ctx, call.ticket)

\* run_handler: what the handler queued.  One that raises midway made fewer
\* calls.
Intents(seq, calls) ==
  LET ctx[k \in 0..Len(calls)] ==
        IF k = 0 THEN FreshCtx(seq) ELSE PyCall(ctx[k - 1], calls[k])
  IN  ctx[Len(calls)].outbox

----------------------------------------------------------------------------
\* replay

\* replay submits the order: the checks once more, without the sign of an
\* offset.
Replays(t) ==
  /\ Resolves(t)
  /\ Representable(t.quantity)
  /\ t.type \in {"Limit", "StopLimit"} => Representable(t.price)
  /\ t.type \in {"StopMarket", "StopLimit", "TrailingStopMarket"} => Representable(t.stop)

\* One intent: a submission that passes gets the factory's next id.
ReplayOne(state, intent) ==
  CASE intent.cmd = "Cancel" -> [state EXCEPT !.commands = Append(@, intent)]
    [] intent.cmd = "Submit" /\ Replays(intent.ticket) ->
         [seq |-> state.seq + 1,
          commands |-> Append(state.commands,
                              [cmd |-> "Submit", coid |-> state.seq + 1,
                               ticket |-> intent.ticket, promised |-> intent.promised])]
    [] intent.cmd = "Submit" /\ ~Replays(intent.ticket) -> state

\* The commands of the intents, and the factory's seq behind them.
Replay(seq, intents) ==
  LET state[k \in 0..Len(intents)] ==
        IF k = 0 THEN [seq |-> seq, commands |-> <<>>]
        ELSE ReplayOne(state[k - 1], intents[k])
  IN  state[Len(intents)]
=============================================================================

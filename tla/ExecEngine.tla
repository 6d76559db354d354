----------------------------- MODULE ExecEngine -----------------------------
(***************************************************************************)
(* ExecutionEngine::submit and ::cancel over the simulated venue: the      *)
(* idempotency check, the expiry, T+1 and price-limit gates, the risk      *)
(* gate, and the hand-over to the venue.                                   *)
(***************************************************************************)
EXTENDS Oms, SimVenue

CONSTANTS
  Expiry,           \* Instrument::expiry_ns per instrument, or None
  Board,            \* "ST", "Growth" (ChiNext, STAR) or "Main" per A share
  Killed            \* RiskGate's kill switch; only set between runs

VARIABLE
  close_by_day      \* ExecutionEngine::close_by_day

engineVars == <<omsVars, venueVars, close_by_day>>

EngineInit ==
  /\ OmsInit
  /\ VenueInit
  /\ close_by_day = {}

Expired(inst, t) == Expiry[inst] # None /\ t >= Expiry[inst]

TPlusOneOk(o) ==
  \/ o.side # "Sell" \/ o.inst \notin AShares
  \/ o.quantity <= SellableQty(o.inst, now)

----------------------------------------------------------------------------
\* Daily price limits

\* observe_mark: overwrite today's entry with the current mark.
Observed(inst) ==
  IF mark[inst] = None THEN close_by_day
  ELSE {k \in close_by_day : ~(k.inst = inst /\ k.day = DayKey(inst, now))}
         \cup {[inst |-> inst, day |-> DayKey(inst, now), px |-> mark[inst]]}

\* prev_close_for: the latest entry of an earlier session day, at most 40 back,
\* with a positive price; None without one.
PrevClose(closes, inst, day) ==
  LET past == {k \in closes : /\ k.inst = inst
                              /\ k.day \in (day - 40)..(day - 1)
                              /\ k.px > 0}
  IN  IF past = {} THEN None
      ELSE (CHOOSE k \in past : \A x \in past : x.day <= k.day).px

\* price_limit_pct, in percent
LimitPct(inst) ==
  CASE Board[inst] = "ST" -> 5
    [] Board[inst] = "Growth" -> 20
    [] OTHER -> 10

\* price_limit_violation, on the ledger that already holds today's mark.  The
\* band is rounded to a tick.
PriceLimitOk(o, closes) ==
  LET prev == PrevClose(closes, o.inst, DayKey(o.inst, now))
      ref  == IF o.type \in {"Limit", "StopLimit"} THEN o.price ELSE mark[o.inst]
  IN  \/ o.inst \notin AShares \/ prev = None \/ ref = None
      \/ o.side = "Buy"
         /\ ref <= RoundHalfEven(prev * (100 + LimitPct(o.inst)), 100)
      \/ o.side = "Sell"
         /\ ref >= RoundHalfEven(prev * (100 - LimitPct(o.inst)), 100)

----------------------------------------------------------------------------
\* submit: the gates in the order of the code; the mark is observed once the
\* order has passed expiry and T+1.  "funded" is the outcome of the margin test.
Submit(o, funded) ==
  IF ~SubmitApplies(o) THEN UNCHANGED engineVars
  ELSE LET reaches == ~Expired(o.inst, now) /\ TPlusOneOk(o)
           closes  == IF reaches /\ o.inst \in AShares THEN Observed(o.inst)
                      ELSE close_by_day
           routed  == /\ reaches
                      /\ PriceLimitOk(o, closes)
                      /\ Approved(o, positions, mark, Killed, funded)
       IN  /\ close_by_day' = closes
           /\ orders' = [orders EXCEPT ![o.coid] =
                           Tracked(o, IF routed THEN "Submitted" ELSE "Denied")]
           /\ IF routed THEN OnSubmit(o) ELSE UNCHANGED venueVars
           /\ UNCHANGED <<positions, seen_trade_ids, bought_today>>

\* cancel: the venue is asked whatever the order's own state.
Cancel(c) ==
  /\ orders' = IF CancelApplies(c)
               THEN [orders EXCEPT ![c] = ApplyStatus(@, "PendingCancel")]
               ELSE orders
  /\ OnCancel(c)
  /\ UNCHANGED <<positions, seen_trade_ids, bought_today, close_by_day>>
=============================================================================

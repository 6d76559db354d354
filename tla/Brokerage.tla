----------------------------- MODULE Brokerage ------------------------------
(***************************************************************************)
(* DefaultBrokerageModel (coinext-sim/src/brokerage.rs): the latency,      *)
(* slippage, volume participation and queue position of the simulated      *)
(* venue.  Prices are counted in ticks and quantities in lots; a decimal   *)
(* rate is a fraction of two naturals.  Fees are left out.                 *)
(***************************************************************************)
EXTENDS Integers

CONSTANTS
  SubmitLatency, CancelLatency,   \* latency_ns(CommandKind)
  SlipNum, SlipDen,               \* slippage_bps / 10000
  ImpactNum, ImpactDen,           \* range_impact
  PartNum, PartDen,               \* participation_rate
  QueueNum, QueueDen              \* queue_ahead_factor

ASSUME LatencyAssumption ==
  /\ SubmitLatency \in Nat
  /\ CancelLatency \in Nat
  /\ SubmitLatency <= CancelLatency

ASSUME RateAssumption ==
  /\ SlipNum \in Nat   /\ SlipDen \in Nat \ {0}
  /\ ImpactNum \in Nat /\ ImpactDen \in Nat \ {0}
  /\ PartNum \in Nat   /\ PartDen \in Nat \ {0}
  /\ QueueNum \in Nat  /\ QueueDen \in Nat \ {0}

Lo(a, b) == IF a <= b THEN a ELSE b
Hi(a, b) == IF a >= b THEN a ELSE b

\* Price::from_decimal quantises with banker's rounding: the nearest integer
\* to n/d, a tie going to the even neighbour.
RoundHalfEven(n, d) ==
  LET q == n \div d
      r == n % d
  IN  IF 2 * r > d \/ (2 * r = d /\ q % 2 = 1) THEN q + 1 ELSE q

\* fill_price: base slippage always applies; the range component is bounded
\* by the bar's extreme and never improves on the base.  Everything is exact,
\* in units of a tick over SlipDen * ImpactDen, until the final rounding.
FillPrice(side, ref, low, high) ==
  LET unit == SlipDen * ImpactDen
      range == Hi(high - low, 0) * (ImpactNum * SlipDen)
      up == ref * ((SlipDen + SlipNum) * ImpactDen)
      down == ref * ((SlipDen - SlipNum) * ImpactDen)
  IN  IF side = "Buy"
      THEN RoundHalfEven(Hi(Lo(up + range, high * unit), up), unit)
      ELSE RoundHalfEven(Lo(Hi(down - range, low * unit), down), unit)

\* Variant: the share is not capped by what is left.
FillableQtyUncapped(leaves, volume) ==
  IF PartNum = 0 \/ volume <= 0 THEN leaves
  ELSE Hi((PartNum * volume) \div PartDen, 1)

\* fillable_qty: the participation share of the bar's volume, floored to a
\* lot, at least one lot, at most what is left.
FillableQty(leaves, volume) ==
  IF PartNum = 0 \/ volume <= 0 THEN leaves
  ELSE Lo(Hi((PartNum * volume) \div PartDen, 1), leaves)

\* initial_queue_ahead
InitialQueueAhead(volume) ==
  IF QueueNum = 0 THEN 0 ELSE (QueueNum * volume) \div QueueDen
=============================================================================

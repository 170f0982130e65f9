---------------------------- MODULE LatencyStats ----------------------------
(***************************************************************************)
(* The statistics of the latencies processOrder records, as snapshots and  *)
(* the report show them.  The vector of samples is only ever sorted or     *)
(* summed, so it is given as how often each latency occurs.                *)
(***************************************************************************)
EXTENDS Integers, FiniteSetsExt, Functions

CONSTANTS
  Latencies,   \* the values a clock in microseconds may give
  MaxSamples   \* bound: how often each of them is taken, in the property

ASSUME LatencyAssumption ==
  Latencies \subseteq Nat /\ IsFiniteSet(Latencies) /\ MaxSamples \in Nat

-----------------------------------------------------------------------------
(* A plausible bug, in place of the operator its comment names.            *)

\* P95Index: the percentage taken of the last index, rounded down.
P95IndexLow(n) == (95 * (n - 1)) \div 100

-----------------------------------------------------------------------------

NumberOf(samples) == SumFunction(samples)

\* How many samples are at most v.
Rank(samples, v) == SumFunctionOnSet(samples, {w \in Latencies : w <= v})

\* 0.95 * n converted to an integer; the product of doubles does not round up
\* to an integer the exact one lies below (nor down).
P95Index(n) == (95 * n) \div 100

\* The element at that index of the sorted samples, the last one at most.
GetP95Latency(samples) ==
  LET n == NumberOf(samples)
  IN  IF n = 0
      THEN 0
      ELSE Min({v \in Latencies : Rank(samples, v) > Min({P95Index(n), n - 1})})

-----------------------------------------------------------------------------

\* The figure called P95 is one: at least 95 of 100 samples are no greater, and
\* at most 95 of 100 are smaller, for every number of samples from 1 on, where
\* the index meets its limits at 1, 20 and 21.
AlwaysQuantile ==
  \A samples \in [Latencies -> 0 .. MaxSamples] :
    NumberOf(samples) > 0 =>
      LET p == GetP95Latency(samples)
      IN  /\ 100 * Rank(samples, p) >= 95 * NumberOf(samples)
          /\ 100 * (Rank(samples, p) - samples[p]) <= 95 * NumberOf(samples)

=============================================================================

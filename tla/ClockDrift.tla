----------------------------- MODULE ClockDrift -----------------------------
(***************************************************************************)
(* engine.rs, process_incoming: the average of the delay samples of each    *)
(* five seconds, kept near zero by moving its base, and the slope of these  *)
(* averages, the drift between the two clocks.                              *)
(*                                                                          *)
(* A sample is a timestamp of TimeMod values: the true delay, from the      *)
(* first one on, seen from an unknown origin.  The true delays of a slot    *)
(* are summed up as plain numbers to compare with.                          *)
(***************************************************************************)
EXTENDS Integers, FiniteSetsExt

CONSTANTS
  TimeMod,                   \* timestamps are u32: 2^32 in the code
  MAX_AVERAGE_DELAY_SAMPLE,  \* i32::MAX / 4
  Rolling,                   \* weight of the rolling average of the drift (8)
  Origins,                   \* where the first sample lies
  Reach,                     \* bound on the true delays, relative to the first
  Spread,                    \* a delay is this near the average before it
  MaxSamples                 \* bound on the samples of a slot

\* What the constants must satisfy (assumed by Components).
DriftAssumption ==
  /\ TimeMod \in Nat /\ MAX_AVERAGE_DELAY_SAMPLE \in Nat /\ Rolling \in Nat \ {0}
  /\ 2 * MAX_AVERAGE_DELAY_SAMPLE < TimeMod
  /\ Origins \subseteq 0 .. TimeMod - 1 /\ Reach \in Nat /\ Spread \in Nat
  /\ 2 * Spread + 2 <= MAX_AVERAGE_DELAY_SAMPLE /\ MaxSamples \in Nat

T == INSTANCE SeqArith WITH SeqMod <- TimeMod

VARIABLES
  average_delay_base,     \* 0 stands for none
  current_delay_sum, current_delay_samples,
  average_delay, clock_drift, clock_drift_raw,
  origin,
  true_sum,               \* history: the sum of the true delays of this slot
  true_averages,          \* history: those of the last two slots, newest first
  met_zero,               \* history: the base has come to be 0
  wild                    \* history: a sample was not within Spread

vars == <<average_delay_base, current_delay_sum, current_delay_samples, average_delay,
          clock_drift, clock_drift_raw, origin, true_sum, true_averages, met_zero, wild>>

-----------------------------------------------------------------------------

\* Integer division as Rust's: towards zero.
Quotient(a, n) == IF a >= 0 THEN a \div n ELSE -((-a) \div n)

\* The distance of a sample from the base, the shorter way round, clamped.
Sample(base, s) ==
  LET down == T!wrapping_sub(base, s)
      up   == T!wrapping_sub(s, base)
  IN  IF down > up THEN Min({up, MAX_AVERAGE_DELAY_SAMPLE})
      ELSE -Min({down, MAX_AVERAGE_DELAY_SAMPLE})

\* What takes both averages back to zero when they are on one side of it.
Adjust(prev, avg) ==
  LET least == Min({prev, avg})
      most  == Max({prev, avg})
  IN  IF least > 0 THEN -least ELSE IF most < 0 THEN -most ELSE 0

\* The base moves against the adjustment: it is wrapping_sub(adjust as u32).
Rebased_forward(base, adjust) == T!wrapping_add(base, adjust % TimeMod)
Rebased(base, adjust) == T!wrapping_sub(base, adjust % TimeMod)

\* A sample of true delay d; slot: the five seconds are over.
AddSample(d, slot) ==
  LET s == (origin + d) % TimeMod
      base == IF average_delay_base = 0 THEN s ELSE average_delay_base
      sum == current_delay_sum + Sample(base, s)
      n == current_delay_samples + 1
      average == Quotient(sum, n)
      adjust == Adjust(average_delay, average)
      drift == average - average_delay
  IN  /\ s # 0    \* 0 is no sample
      /\ slot \/ n < MaxSamples
      /\ average_delay_base = 0 /\ ~met_zero => d = 0
      /\ wild' = (wild \/ d \notin true_averages[1] - Spread .. true_averages[1] + Spread)
      /\ IF slot
         THEN /\ average_delay' = average + adjust
              /\ average_delay_base' = Rebased(base, adjust)
              /\ met_zero' = (met_zero \/ average_delay_base' = 0)
              /\ clock_drift' = Quotient(clock_drift * (Rolling - 1) + drift, Rolling)
              /\ clock_drift_raw' = drift
              /\ current_delay_sum' = 0
              /\ current_delay_samples' = 0
              /\ true_sum' = 0
              /\ true_averages' = IF wild' THEN <<0, 0>>
                                  ELSE <<Quotient(true_sum + d, n), true_averages[1]>>
         ELSE /\ current_delay_sum' = sum
              /\ current_delay_samples' = n
              /\ true_sum' = IF wild' THEN 0 ELSE true_sum + d
              /\ average_delay_base' = base
              /\ UNCHANGED <<average_delay, clock_drift, clock_drift_raw, true_averages, met_zero>>
      /\ UNCHANGED origin

Init ==
  /\ average_delay_base = 0 /\ current_delay_sum = 0 /\ current_delay_samples = 0
  /\ average_delay = 0 /\ clock_drift = 0 /\ clock_drift_raw = 0
  /\ origin \in Origins
  /\ true_sum = 0 /\ true_averages = <<0, 0>>
  /\ met_zero = FALSE /\ wild = FALSE

Next == \E d \in -Reach .. Reach, slot \in BOOLEAN : AddSample(d, slot)

Spec == Init /\ [][Next]_vars

-----------------------------------------------------------------------------
(* Properties. *)

\* While the delays change slowly the drift is the slope of their averages, but
\* for the two truncations, however far the delays have walked round the clock
\* and however often the base was moved after them.  A base that has come to be
\* 0 is left out: the code takes it for none.
Slope == clock_drift_raw - (true_averages[1] - true_averages[2])
DriftIsSlope == ~wild /\ ~met_zero => Slope \in -2 .. 2
=============================================================================

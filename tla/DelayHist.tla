------------------------------ MODULE DelayHist ------------------------------
(***************************************************************************)
(* delay_hist.rs: the history of one-way delay samples.  A sample is the    *)
(* difference of two unrelated clocks, a number that wraps; its least value *)
(* over the last minutes is the base, and what a sample exceeds it by is    *)
(* the queuing delay the congestion controller steers by.                   *)
(*                                                                          *)
(* The samples come from a true delay between 0 and Span seen through an    *)
(* unknown difference of the clocks, origin.  The true delays are kept as   *)
(* history variables, as plain numbers, to compare with.                    *)
(***************************************************************************)
EXTENDS Integers, FiniteSetsExt

CONSTANTS
  TimeMod,             \* timestamps are u32: 2^32 in the code
  CUR_DELAY_SIZE,      \* recent queuing delays kept (3)
  DELAY_BASE_HISTORY,  \* minutes of minima kept (13)
  Span,                \* the true delay, with all shifts, is at most this
  Origins              \* differences between the clocks

\* What the constants must satisfy (assumed by Components).
DelayAssumption ==
  /\ TimeMod \in Nat /\ CUR_DELAY_SIZE \in Nat \ {0} /\ DELAY_BASE_HISTORY \in Nat \ {0}
  /\ Span \in Nat /\ 2 * Span < TimeMod
  /\ Origins \subseteq 0 .. TimeMod - 1

T == INSTANCE SeqArith WITH SeqMod <- TimeMod

VARIABLES
  h,         \* the fields of DelayHist
  origin,    \* the difference between the clocks
  least,     \* least[i]: the least true delay of minute i
  queued     \* the true queuing delays of the last samples, oldest first

vars == <<h, origin, least, queued>>

Minutes == 0 .. DELAY_BASE_HISTORY - 1
Recent  == 0 .. CUR_DELAY_SIZE - 1

-----------------------------------------------------------------------------

new == [delay_base |-> 0, cur |-> [i \in Recent |-> 0], cur_idx |-> 0,
        bases |-> [i \in Minutes |-> 0], base_idx |-> 0, initialized |-> FALSE]

\* The smaller of two timestamps, the shorter way round.
Lower(a, b) == IF T!wrapping_compare_less(a, b) THEN a ELSE b

\* No sample yet: the first one is taken for the minimum of all minutes.
Initialized(hist, sample) ==
  IF hist.initialized THEN hist
  ELSE [hist EXCEPT !.bases = [i \in Minutes |-> sample], !.delay_base = sample,
                    !.initialized = TRUE]

\* The new base starts from slot 0 and keeps the lower of the two.
LowestOf(bases) ==
  LET lowest[i \in Minutes] ==
        IF i = 0 THEN bases[0] ELSE Lower(bases[i], lowest[i - 1])
  IN  lowest[DELAY_BASE_HISTORY - 1]

\* Once a minute the oldest slot is replaced and the base derived again.
NextMinute(hist, sample) ==
  LET i == (hist.base_idx + 1) % DELAY_BASE_HISTORY
      bases == [hist.bases EXCEPT ![i] = sample]
  IN  [hist EXCEPT !.base_idx = i, !.bases = bases, !.delay_base = LowestOf(bases)]

add_sample(hist, sample, minute) ==
  LET h1 == Initialized(hist, sample)
      base == Lower(sample, h1.delay_base)
      h2 == [h1 EXCEPT !.bases[h1.base_idx] = Lower(sample, @),
                       !.delay_base = base,
                       !.cur[h1.cur_idx] = T!wrapping_sub(sample, base),
                       !.cur_idx = (@ + 1) % CUR_DELAY_SIZE]
  IN  IF minute THEN NextMinute(h2, sample) ELSE h2

shift_base_only(hist, offset) == [hist EXCEPT !.delay_base = T!wrapping_add(@, offset)]

shift(hist, offset) ==
  [hist EXCEPT !.bases = [i \in Minutes |-> T!wrapping_add(hist.bases[i], offset)],
               !.delay_base = T!wrapping_add(@, offset)]

get_value(hist) == Min({TimeMod - 1} \cup {hist.cur[i] : i \in Recent})

-----------------------------------------------------------------------------
(* The history in use. *)

\* A sample with true delay d; minute: more than a minute since the last slot.
AddSample(d, minute) ==
  LET i == (h.base_idx + 1) % DELAY_BASE_HISTORY
      first == IF h.initialized THEN least ELSE [k \in Minutes |-> d]
      lower == [first EXCEPT ![h.base_idx] = Min({@, d})]
      q == d - Min({first[k] : k \in Minutes} \cup {d})
  IN  /\ h' = add_sample(h, T!wrapping_add(origin, d), minute)
      /\ least' = IF minute THEN [lower EXCEPT ![i] = d] ELSE lower
      /\ queued' = [k \in Recent |-> IF k = h.cur_idx THEN q ELSE queued[k]]
      /\ UNCHANGED origin

\* The clocks drift apart (the other direction's base went down), or the
\* estimate exceeded the round trip: the base moves up.
Shift(offset) ==
  /\ h.initialized
  /\ \A i \in Minutes : least[i] + offset <= Span
  /\ h' = shift(h, offset)
  /\ least' = [i \in Minutes |-> least[i] + offset]
  /\ UNCHANGED <<origin, queued>>

Init ==
  /\ h = new
  /\ origin \in Origins
  /\ least = [i \in Minutes |-> 0]
  /\ queued = [k \in Recent |-> 0]

Next ==
  \/ \E d \in 0 .. Span, minute \in BOOLEAN : AddSample(d, minute)
  \/ \E offset \in 1 .. Span : Shift(offset)

Spec == Init /\ [][Next]_vars

-----------------------------------------------------------------------------
(* Properties. *)

\* The estimate is the least of the last true queuing delays, and never the
\* huge number a sample just below its base would give.
ValueIsQueuingDelay == h.initialized => get_value(h) = Min({queued[k] : k \in Recent})
=============================================================================

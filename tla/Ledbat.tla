------------------------------- MODULE Ledbat -------------------------------
(***************************************************************************)
(* engine.rs: the congestion window.  apply_ccontrol (LEDBAT and slow       *)
(* start) moves it on acks, maybe_decay_win halves it on losses, and        *)
(* check_timeouts collapses it or lets it decay.                            *)
(*                                                                          *)
(* The queuing delay and the bytes an ack covers are inputs (DelayHist and  *)
(* UtpSend have them).  Of the two clocks only what is asked is kept: may   *)
(* the window be halved again, was it full within the last second.  The     *)
(* code computes with f64; here the same expressions are exact fractions,   *)
(* truncated where the code truncates.                                      *)
(***************************************************************************)
EXTENDS Integers, FiniteSetsExt

CONSTANTS
  MIN_WINDOW_SIZE,                    \* 10
  MAX_CWND_INCREASE_BYTES_PER_RTT,    \* 3000
  CCONTROL_TARGET,                    \* 100 ms, when no target is set
  Targets,      \* target delays the application sets
  SendBuffers,  \* send buffer sizes the application sets
  PacketSizes,  \* payload sizes MTU discovery may choose
  Delays,       \* queuing delays measured, with the penalty for clock drift
  MaxAcked      \* bound on the bytes of one ack

\* What the constants must satisfy (assumed by Components).
LedbatAssumption ==
  /\ MIN_WINDOW_SIZE \in Nat \ {0} /\ MAX_CWND_INCREASE_BYTES_PER_RTT \in Nat
  /\ CCONTROL_TARGET \in Nat \ {0} /\ Targets \subseteq Nat /\ Delays \subseteq Nat
  /\ SendBuffers \subseteq Nat \ {0} /\ MaxAcked \in Nat
  /\ PacketSizes \subseteq Nat /\ \A p \in PacketSizes : p >= MIN_WINDOW_SIZE
  /\ \E most \in PacketSizes : \A p \in PacketSizes : p <= most

VARIABLES
  max_window, ssthresh, slow_start,
  opt_sndbuf, target_delay, packet_size,
  can_decay,   \* MAX_WINDOW_DECAY has passed since last_rwin_decay
  maxed_out,   \* last_maxed_out_window is less than a second ago
  panicked,    \* the socket's lock holder has panicked
  event        \* history: the last step, and the delay and the rate limit of an ack

windowVars == <<max_window, ssthresh, slow_start>>
settings == <<opt_sndbuf, target_delay>>
vars == <<windowVars, settings, packet_size, can_decay, maxed_out, panicked, event>>

target == IF target_delay = 0 THEN CCONTROL_TARGET ELSE target_delay
Other == [kind |-> "other", delay |-> 0, maxed |-> TRUE]

-----------------------------------------------------------------------------
(* apply_ccontrol.  window_factor is Lesser / Greater. *)

Lesser(acked)  == Min({acked, max_window})
Greater(acked) == Max({acked, max_window})

\* scaled_gain as a fraction: its numerator; Greater * target is under it.
Gain(acked, delay) ==
  IF delay < target /\ ~maxed_out THEN 0
  ELSE MAX_CWND_INCREASE_BYTES_PER_RTT * Lesser(acked) * (target - delay)

ledbat_cwnd(acked, delay) ==
  LET under == Greater(acked) * target
      sum == max_window * under + Gain(acked, delay)
  IN  IF sum < MIN_WINDOW_SIZE * under THEN MIN_WINDOW_SIZE ELSE sum \div under

ss_cwnd(acked) == max_window + (Lesser(acked) * packet_size) \div Greater(acked)

\* Slow start ends at its threshold, or a little under the target delay.
NearTarget_never(delay) == FALSE
NearTarget(delay) == 10 * delay > 9 * target

SlowStart(acked, delay) ==
  CASE ss_cwnd(acked) > ssthresh -> [w |-> max_window, thresh |-> ssthresh, on |-> FALSE]
    [] ss_cwnd(acked) <= ssthresh /\ NearTarget(delay)
         -> [w |-> max_window, thresh |-> max_window, on |-> FALSE]
    [] OTHER -> [w |-> Max({ss_cwnd(acked), ledbat_cwnd(acked, delay)}),
                 thresh |-> ssthresh, on |-> TRUE]

Controlled(acked, delay) ==
  IF slow_start THEN SlowStart(acked, delay)
  ELSE [w |-> ledbat_cwnd(acked, delay), thresh |-> ssthresh, on |-> FALSE]

\* usize::clamp, which panics when the bounds are the wrong way round.
ClampPanics == MIN_WINDOW_SIZE > opt_sndbuf
Clamped(w) == Min({Max({w, MIN_WINDOW_SIZE}), opt_sndbuf})

apply_ccontrol(acked, delay) ==
  /\ ~panicked
  /\ LET c == Controlled(acked, delay)
     IN  /\ max_window' = IF ClampPanics THEN c.w ELSE Clamped(c.w)
         /\ ssthresh' = c.thresh
         /\ slow_start' = c.on
  /\ panicked' = ClampPanics
  /\ event' = [kind |-> "ack", delay |-> delay, maxed |-> maxed_out]
  /\ UNCHANGED <<settings, packet_size, can_decay, maxed_out>>

-----------------------------------------------------------------------------
(* The other steps that move the window. *)

\* maybe_decay_win, on a loss that selective acks report.
Halved_to_nothing == max_window \div 2
Halved == Max({max_window \div 2, MIN_WINDOW_SIZE})

maybe_decay_win ==
  /\ ~panicked /\ can_decay
  /\ max_window' = Halved
  /\ slow_start' = FALSE
  /\ ssthresh' = Halved
  /\ can_decay' = FALSE
  /\ event' = [Other EXCEPT !.kind = "loss"]
  /\ UNCHANGED <<settings, packet_size, maxed_out, panicked>>

\* check_timeouts; idle: nothing is outstanding.
Timeout(idle) ==
  /\ ~panicked
  /\ IF idle /\ max_window > packet_size
     THEN /\ max_window' = Max({(max_window * 2) \div 3, packet_size})
          /\ UNCHANGED slow_start
     ELSE /\ max_window' = packet_size
          /\ slow_start' = TRUE
  /\ event' = [Other EXCEPT !.kind = "timeout"]
  /\ UNCHANGED <<ssthresh, settings, packet_size, can_decay, maxed_out, panicked>>

\* is_full finds the window full; a second passes without that; the window may
\* be halved again; MTU discovery changes the packet size.
Environment ==
  /\ ~panicked
  /\ \/ maxed_out' \in BOOLEAN /\ UNCHANGED <<can_decay, packet_size>>
     \/ can_decay' = TRUE /\ UNCHANGED <<maxed_out, packet_size>>
     \/ packet_size' \in PacketSizes /\ UNCHANGED <<maxed_out, can_decay>>
  /\ event' = Other
  /\ UNCHANGED <<windowVars, settings, panicked>>

Init ==
  /\ opt_sndbuf \in SendBuffers /\ target_delay \in Targets /\ packet_size \in PacketSizes
  /\ max_window = packet_size
  /\ ssthresh = opt_sndbuf
  /\ slow_start = TRUE
  /\ can_decay = TRUE
  /\ maxed_out = FALSE
  /\ panicked = FALSE
  /\ event = Other

Next ==
  \/ \E acked \in 1 .. MaxAcked, delay \in Delays : apply_ccontrol(acked, delay)
  \/ maybe_decay_win
  \/ \E idle \in BOOLEAN : Timeout(idle)
  \/ Environment

Spec == Init /\ [][Next]_vars

-----------------------------------------------------------------------------
(* Properties. *)

\* "This is the minimum max_window value. It can never drop below this":
\* neither a halving, nor the delay, nor an idle decay takes the window lower.
\* And it exceeds the send buffer only by a timeout's packet, unless the clamp
\* has panicked over a send buffer below the minimum window.
WindowInBounds ==
  /\ max_window >= MIN_WINDOW_SIZE
  /\ ~panicked => max_window <= Max({opt_sndbuf} \cup PacketSizes)

\* An ack steers by the delay alone: over the target no branch of the controller,
\* slow start included, enlarges the window; under it none makes it smaller,
\* unless it is over the send buffer.
SteersByDelay ==
  [][event'.kind = "ack" =>
       /\ event'.delay >= target => max_window' <= max_window
       /\ event'.delay <= target => max_window' >= Min({max_window, opt_sndbuf})]_vars
=============================================================================

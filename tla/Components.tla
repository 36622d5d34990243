------------------------------ MODULE Components ------------------------------
(***************************************************************************)
(* The components that share no state with one another: the MTU search,     *)
(* whose module this one extends, and instances of the delay history, the   *)
(* clock drift, the congestion window and the packet codec, with the        *)
(* properties of each.                                                      *)
(***************************************************************************)
EXTENDS MtuSearch

CONSTANTS
  \* DelayHist
  HistMod, HistOrigins, CUR_DELAY_SIZE, DELAY_BASE_HISTORY, Span,
  \* ClockDrift
  DriftMod, DriftOrigins, MAX_AVERAGE_DELAY_SAMPLE, Rolling, Reach, Spread, MaxSamples,
  \* Ledbat
  MIN_WINDOW_SIZE, MAX_CWND_INCREASE_BYTES_PER_RTT, CCONTROL_TARGET,
  Targets, SendBuffers, PacketSizes, Delays, MaxAcked,
  \* Packet
  BitsPerByte, ExtBitsLen, MaskLen, Shorts, Words, Windows, Masks, TailBytes, MaxTail

VARIABLES
  h, origin, least, queued,
  average_delay_base, current_delay_sum, current_delay_samples, average_delay,
  clock_drift, clock_drift_raw, drift_origin, true_sum, true_averages, met_zero, wild,
  max_window, ssthresh, slow_start, opt_sndbuf, target_delay, packet_size,
  can_decay, maxed_out, panicked, event,
  buf, want, phase, verdict, data_start, extension, selack

History == INSTANCE DelayHist WITH TimeMod <- HistMod, Origins <- HistOrigins
Drift   == INSTANCE ClockDrift WITH TimeMod <- DriftMod, Origins <- DriftOrigins,
                                    origin <- drift_origin
Window  == INSTANCE Ledbat
Codec   == INSTANCE Packet

ASSUME ComponentAssumptions ==
  /\ History!DelayAssumption
  /\ Drift!DriftAssumption
  /\ Window!LedbatAssumption
  /\ Codec!PacketAssumption

-----------------------------------------------------------------------------
(* The properties of the components, besides those of MtuSearch; each is     *)
(* explained where it is defined.                                           *)

\* get_value: the estimate is the least of the last true queuing delays.
ValueIsQueuingDelay == History!ValueIsQueuingDelay

\* process_incoming: clock_drift_raw is the slope of the true delay averages.
DriftIsSlope == Drift!DriftIsSlope

\* max_window: no reduction takes the window below MIN_WINDOW_SIZE, and it exceeds
\* the send buffer by a timeout's packet at most.
WindowInBounds == Window!WindowInBounds

\* apply_ccontrol: over the target an ack never enlarges the window, under it
\* an ack never makes it smaller.
SteersByDelay == Window!SteersByDelay

\* The setters and getters of Header, send_ack and a resend: what was last set
\* is what the peer reads.
RoundTrip == Codec!RoundTrip

\* The extension loop of process_incoming takes exactly the well-formed tails.
ParsesTheGrammar == Codec!ParsesTheGrammar
=============================================================================

----------------------------- MODULE MCComponents -----------------------------
(***************************************************************************)
(* The components of module Components, checked in one run.  As none reads  *)
(* what another writes, their interleavings show nothing that each alone    *)
(* does not: one of them, part, runs while the others stay as they began.   *)
(***************************************************************************)
EXTENDS Components

VARIABLE part

historyVars == <<h, origin, least, queued>>
driftVars == <<average_delay_base, current_delay_sum, current_delay_samples, average_delay,
               clock_drift, clock_drift_raw, drift_origin, true_sum, true_averages, met_zero, wild>>
windowVars == <<max_window, ssthresh, slow_start, opt_sndbuf, target_delay, packet_size,
                can_decay, maxed_out, panicked, event>>
codecVars == <<buf, want, phase, verdict, data_start, extension, selack>>
allVars == <<part, vars, historyVars, driftVars, windowVars, codecVars>>

\* The settings of a part that does not run are fixed.
AllInit ==
  /\ part \in {"mtu", "history", "drift", "window", "codec"}
  /\ Init
  /\ History!Init /\ Drift!Init /\ Window!Init /\ Codec!Init
  /\ part # "history" => origin = CHOOSE o \in HistOrigins : TRUE
  /\ part # "drift"   => drift_origin = CHOOSE o \in DriftOrigins : TRUE
  /\ part # "window"  => <<opt_sndbuf, target_delay, packet_size>> =
                           CHOOSE s \in SendBuffers \X Targets \X PacketSizes : TRUE

RunMtu ==
  /\ part = "mtu" /\ Next
  /\ UNCHANGED <<part, historyVars, driftVars, windowVars, codecVars>>

RunHistory ==
  /\ part = "history" /\ History!Next
  /\ UNCHANGED <<part, vars, driftVars, windowVars, codecVars>>

RunDrift ==
  /\ part = "drift" /\ Drift!Next
  /\ UNCHANGED <<part, vars, historyVars, windowVars, codecVars>>

RunWindow ==
  /\ part = "window" /\ Window!Next
  /\ UNCHANGED <<part, vars, historyVars, driftVars, codecVars>>

RunCodec ==
  /\ part = "codec" /\ Codec!Next
  /\ UNCHANGED <<part, vars, historyVars, driftVars, windowVars>>

AllNext == RunMtu \/ RunHistory \/ RunDrift \/ RunWindow \/ RunCodec

AllSpec == AllInit /\ [][AllNext]_allVars
===============================================================================

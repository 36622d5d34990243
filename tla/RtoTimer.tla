------------------------------ MODULE RtoTimer ------------------------------
(***************************************************************************)
(* engine.rs: the retransmission timer.  The round trip is estimated from   *)
(* acks (ack_packet), the timer is armed by connect, by the first packet of *)
(* a window, by every ack and by the end of the peer's stream, and          *)
(* check_timeouts backs it off and gives the connection up.                 *)
(*                                                                          *)
(* Time is kept relative to now: due is rto_timeout - current_ms.  Which    *)
(* packets are in the window is abstracted to their number (UtpSend has the *)
(* window), and a round trip may take any time of Samples.  The reader      *)
(* thread polls at least every Poll, and check_timeouts does nothing before *)
(* TIMEOUT_CHECK_INTERVAL has passed: a check is at most Late after the one *)
(* before.                                                                  *)
(***************************************************************************)
EXTENDS Integers, FiniteSetsExt

CONSTANTS
  MinRto,        \* rto is at least this (1000 ms)
  FirstRto,      \* rto before the first sample, and of the SYN (3000 ms)
  FirstVar,      \* rtt_var before the first sample (800 ms)
  FinRto,        \* cap of the timer when the peer's stream ends (60 ms)
  TIMEOUT_CHECK_INTERVAL,
  Poll,          \* RECV_POLL_INTERVAL
  MinSample, MaxSample, Samples,   \* measured round trips
  Width,         \* retransmit_timeout is u32: 2^32 in the code
  Steps,         \* amounts the clock moves by
  MaxOutstanding \* bound on the packets in the window

\* The least and the greatest rto ack_packet can compute from such samples,
\* the greatest with room to be doubled RetransmitLimit times.
LeastRto == Min({MinRto, FirstRto})
MostRto  == Max({MinRto, FirstRto, 5 * MaxSample})
Late == TIMEOUT_CHECK_INTERVAL + Poll

ASSUME RtoAssumption ==
  /\ MinRto \in Nat \ {0} /\ FirstRto \in Nat \ {0} /\ FinRto \in Nat /\ FirstVar \in Nat
  /\ TIMEOUT_CHECK_INTERVAL \in Nat /\ Poll \in Nat
  /\ MinSample \in Nat /\ MaxSample \in Nat /\ Samples \subseteq MinSample .. MaxSample
  /\ Width \in Nat /\ Width > 32 * MostRto /\ Width > 2 * Late /\ Width % 2 = 0
  /\ Steps \subseteq Nat \ {0} /\ MaxOutstanding \in Nat

VARIABLES
  state,               \* "SynSent", "SynRecv", "Connected" or "Dead"
  rtt, rtt_var, rto,
  retransmit_timeout, retransmit_count,
  armed,               \* rto_timeout > 0
  due,                 \* rto_timeout - current_ms
  outstanding,         \* cur_window_packets
  got_fin_reached,
  since,               \* current_ms - last_check
  silence              \* history: since the last ack, or the first packet

estVars == <<rtt, rtt_var, rto>>
vars == <<state, estVars, retransmit_timeout, retransmit_count, armed, due, outstanding,
          got_fin_reached, since, silence>>

Live == {"SynSent", "SynRecv", "Connected"}
RetransmitLimit == 4
SynRetransmitLimit == 2

-----------------------------------------------------------------------------
(* The estimate. *)

\* Division by four, truncated as Rust's is.
Quarter(x) == IF x >= 0 THEN x \div 4 ELSE -((-x) \div 4)
Distance(a, b) == IF a >= b THEN a - b ELSE b - a

\* A zero rtt stands for no sample yet.
NextVar_sum(ertt) == IF rtt = 0 THEN ertt \div 2 ELSE rtt_var + Distance(rtt, ertt) \div 4
NextVar(ertt) ==
  IF rtt = 0 THEN ertt \div 2 ELSE rtt_var + Quarter(Distance(rtt, ertt) - rtt_var)

NextRtt(ertt) == IF rtt = 0 THEN ertt ELSE rtt - rtt \div 8 + ertt \div 8

\* ack_packet, of a packet sent once (sampled) or more often.
Estimate(sampled, ertt) ==
  IF sampled
  THEN /\ rtt' = NextRtt(ertt)
       /\ rtt_var' = NextVar(ertt)
       /\ rto' = Max({rtt' + rtt_var' * 4, MinRto})
  ELSE UNCHANGED estVars

Rearm ==
  /\ retransmit_timeout' = rto'
  /\ armed' = TRUE
  /\ due' = rto'
  /\ retransmit_count' = 0
  /\ silence' = 0

-----------------------------------------------------------------------------
(* Actions. *)

\* write_outgoing_packet: one more packet; the first sets the timer up.
Write ==
  /\ state = "Connected" /\ outstanding < MaxOutstanding
  /\ outstanding' = outstanding + 1
  /\ IF outstanding = 0
     THEN /\ retransmit_timeout' = rto
          /\ armed' = TRUE
          /\ due' = rto
          /\ silence' = 0
     ELSE UNCHANGED <<retransmit_timeout, armed, due, silence>>
  /\ UNCHANGED <<state, estVars, retransmit_count, got_fin_reached, since>>

\* The peer acks one more packet.
Ack(sampled, ertt) ==
  /\ state = "Connected" /\ outstanding > 0
  /\ outstanding' = outstanding - 1
  /\ Estimate(sampled, ertt)
  /\ Rearm
  /\ UNCHANGED <<state, got_fin_reached, since>>

\* The answer to the SYN: the empty write adds a packet before the SYN is
\* acked; an answer that does not ack the SYN connects as well.
SynAck(acked, sampled, ertt) ==
  /\ state = "SynSent"
  /\ state' = "Connected"
  /\ IF acked
     THEN /\ Estimate(sampled, ertt)
          /\ Rearm
          /\ UNCHANGED outstanding
     ELSE /\ outstanding' = outstanding + 1
          /\ UNCHANGED <<estVars, retransmit_timeout, armed, due, retransmit_count, silence>>
  /\ UNCHANGED <<got_fin_reached, since>>

\* The first data of an accepted connection.
FirstData ==
  /\ state = "SynRecv"
  /\ state' = "Connected"
  /\ UNCHANGED <<estVars, retransmit_timeout, retransmit_count, armed, due, outstanding,
                 got_fin_reached, since, silence>>

\* Every packet up to the peer's FIN has come.
ReachFin ==
  /\ state \in Live /\ ~got_fin_reached
  /\ got_fin_reached' = TRUE
  /\ armed' = TRUE
  /\ due' = Min({rto * 3, FinRto})
  /\ UNCHANGED <<state, estVars, retransmit_timeout, retransmit_count, outstanding, since, silence>>

\* ms_elapsed compares in 32 bits: half the range ahead is past.
ms_elapsed == (-due) % Width < Width \div 2

GivesUp ==
  \/ state = "SynRecv"
  \/ retransmit_count >= RetransmitLimit
  \/ state = "SynSent" /\ retransmit_count >= SynRetransmitLimit

\* The timeout in check_timeouts.  probeLost: the only packet outstanding was
\* the MTU probe.  Without a packet in the window nothing is counted.
Counted_never(n) == n
Counted_idle_too(n) == n + 1
Counted(n) == IF outstanding > 0 THEN n + 1 ELSE n

Timeout(probeLost) ==
  /\ probeLost => outstanding = 1
  /\ IF GivesUp
     THEN /\ state' = "Dead"
          /\ UNCHANGED <<retransmit_timeout, retransmit_count, due>>
     ELSE /\ retransmit_timeout' =
               IF probeLost THEN retransmit_timeout ELSE (retransmit_timeout * 2) % Width
          /\ due' = retransmit_timeout'
          /\ retransmit_count' = Counted(retransmit_count)
          /\ UNCHANGED state

Check ==
  /\ state \in Live /\ since >= TIMEOUT_CHECK_INTERVAL
  /\ since' = 0
  /\ IF armed /\ ms_elapsed
     THEN \E probeLost \in BOOLEAN : Timeout(probeLost)
     ELSE UNCHANGED <<state, retransmit_timeout, retransmit_count, due>>
  /\ UNCHANGED <<estVars, armed, outstanding, got_fin_reached, silence>>

Elapse(d) ==
  /\ state \in Live /\ since + d <= Late
  /\ since' = since + d
  /\ due' = IF armed THEN due - d ELSE due
  /\ silence' = IF outstanding > 0 THEN silence + d ELSE silence
  /\ UNCHANGED <<state, estVars, retransmit_timeout, retransmit_count, armed, outstanding,
                 got_fin_reached>>

\* connect, or a connection accepted, whose timer nothing has set.
Init ==
  /\ rtt = 0 /\ rtt_var = FirstVar /\ rto = FirstRto
  /\ retransmit_count = 0 /\ got_fin_reached = FALSE /\ since \in 0 .. Late /\ silence = 0
  /\ \/ /\ state = "SynSent" /\ armed = TRUE /\ outstanding = 1
        /\ retransmit_timeout = FirstRto /\ due = FirstRto
     \/ /\ state = "SynRecv" /\ armed = FALSE /\ outstanding = 0
        /\ retransmit_timeout = 0 /\ due = 0

Next ==
  \/ Write
  \/ \E sampled \in BOOLEAN, ertt \in Samples : Ack(sampled, ertt)
  \/ \E acked, sampled \in BOOLEAN, ertt \in Samples : SynAck(acked, sampled, ertt)
  \/ FirstData
  \/ ReachFin
  \/ Check
  \/ \E d \in Steps : Elapse(d)

Spec == Init /\ [][Next]_vars

-----------------------------------------------------------------------------
(* Properties. *)

\* The types of the variables.
TypeOK ==
  /\ state \in Live \cup {"Dead"}
  /\ rtt \in Nat /\ rtt_var \in Nat /\ rto \in LeastRto .. MostRto
  /\ retransmit_timeout \in 0 .. Width - 1 /\ retransmit_count \in 0 .. RetransmitLimit
  /\ armed \in BOOLEAN /\ due \in Int /\ outstanding \in Nat
  /\ got_fin_reached \in BOOLEAN /\ since \in 0 .. Late /\ silence \in Nat

\* The integer arithmetic of the estimate never leaves the samples: rtt stays
\* between the least and the greatest round trip and rtt_var within the greatest.
EstimateInRange == rtt # 0 => rtt \in MinSample .. MaxSample /\ rtt_var \in 0 .. MaxSample

\* How long a peer may be silent with packets outstanding: five timeouts, each
\* twice the one before, each noticed Late at the latest; reaching the peer's
\* FIN may start the last one anew.
Patience ==
  31 * rto + 5 * Late + IF got_fin_reached THEN Late + FinRto ELSE 0

\* A silent peer is given up within that time, whatever is written, however
\* long the connection had been idle and wherever the MTU probe was lost.
DeadPeerIsNoticed == state \in Live /\ outstanding > 0 => silence <= Patience

\* No connection is given up early: the peer had at least one rto for every
\* transmission, of which there were three, and an idle connection is never
\* given up.  Only the end of the peer's stream cuts a timeout short.
NotGivenUpEarly ==
  state = "Dead" /\ ~got_fin_reached =>
    /\ outstanding > 0
    /\ retransmit_count >= SynRetransmitLimit
    /\ silence >= rto * (retransmit_count + 1)
=============================================================================

--------------------------- MODULE RtoTimerProofs ---------------------------
(***************************************************************************)
(* Proofs about the retransmission timer, for every value of the timeouts,  *)
(* the check interval, the round trips and the width of the counter.        *)
(***************************************************************************)
EXTENDS RtoTimer, ArithLemmas, TLAPS

\* What the constants amount to.
LEMMA RtoBounds ==
  /\ LeastRto \in Nat \ {0} /\ MostRto \in Nat
  /\ LeastRto <= MinRto /\ LeastRto <= FirstRto
  /\ MinRto <= MostRto /\ FirstRto <= MostRto /\ 5 * MaxSample <= MostRto
<1>1. 5 * MaxSample \in Nat /\ 5 * MaxSample \in Int
  BY RtoAssumption
<1>2. MinRto \in Int /\ FirstRto \in Int /\ MinRto > 0 /\ FirstRto > 0
  BY RtoAssumption
<1>3. LeastRto \in {MinRto, FirstRto} /\ LeastRto <= MinRto /\ LeastRto <= FirstRto
  BY <1>2, MinOfTwo, Zenon DEF LeastRto
<1>4. /\ MostRto \in {MinRto, FirstRto, 5 * MaxSample}
      /\ MostRto >= MinRto /\ MostRto >= FirstRto /\ MostRto >= 5 * MaxSample
  BY <1>1, <1>2, MaxOfThree, Zenon DEF MostRto
<1>5. \A m \in Int : m > 0 => m \in Nat \ {0}
  OBVIOUS
<1>6. LeastRto \in Nat \ {0}
  BY <1>2, <1>3, <1>5
<1>7. MostRto \in Nat
  BY <1>1, <1>2, <1>4, <1>5, Zenon
<1> QED
  BY <1>3, <1>4, <1>6, <1>7

\* A new estimate lies between the samples, as the old one did.
LEMMA EstimateOK ==
  ASSUME TypeOK, EstimateInRange, NEW sampled \in BOOLEAN, NEW ertt \in Samples,
         Estimate(sampled, ertt)
  PROVE  rtt' \in Nat /\ rtt_var' \in Nat /\ rto' \in LeastRto .. MostRto /\ EstimateInRange'
<1>1. CASE ~ sampled
  BY <1>1 DEF Estimate, estVars, TypeOK, EstimateInRange
<1>2. CASE sampled
  <2>1. ertt \in MinSample .. MaxSample /\ MinSample \in Nat /\ MaxSample \in Nat
    BY RtoAssumption
  <2>2. rtt' \in MinSample .. MaxSample
    <3>1. CASE rtt = 0
      BY <1>2, <2>1, <3>1 DEF Estimate, NextRtt
    <3>2. CASE rtt # 0
      BY <1>2, <2>1, <3>2 DEF Estimate, NextRtt, EstimateInRange
    <3> QED BY <3>1, <3>2
  <2>3. rtt_var' \in 0 .. MaxSample
    <3>1. CASE rtt = 0
      BY <1>2, <2>1, <3>1 DEF Estimate, NextVar
    <3>2. CASE rtt # 0
      <4>1. Distance(rtt, ertt) \in 0 .. MaxSample
        BY <2>1, <3>2 DEF EstimateInRange, Distance
      <4>2. rtt_var \in 0 .. MaxSample
        BY <3>2 DEF EstimateInRange
      <4>3. \A d, v \in 0 .. MaxSample : v + Quarter(d - v) \in 0 .. MaxSample
        BY <2>1 DEF Quarter
      <4> QED BY <1>2, <3>2, <4>1, <4>2, <4>3 DEF Estimate, NextVar
    <3> QED BY <3>1, <3>2
  <2>4. rtt' + rtt_var' * 4 \in 0 .. 5 * MaxSample
    <3>1. rtt' \in Nat /\ rtt' <= MaxSample /\ rtt_var' \in Nat /\ rtt_var' <= MaxSample
      BY <2>1, <2>2, <2>3
    <3>2. \A a, b, m \in Nat : a <= m /\ b <= m => a + b * 4 \in 0 .. 5 * m
      OBVIOUS
    <3> QED BY <2>1, <3>1, <3>2, Zenon
  <2>5. rto' \in MinRto .. MostRto
    <3>1. rto' = Max({rtt' + rtt_var' * 4, MinRto})
      BY <1>2 DEF Estimate
    <3>2. rtt' + rtt_var' * 4 \in Int /\ MinRto \in Int
      BY <2>1, <2>4, RtoAssumption
    <3>3. rto' \in {rtt' + rtt_var' * 4, MinRto} /\ rto' >= MinRto
      BY <3>1, <3>2, MaxOfTwo
    <3> QED BY <2>1, <2>4, <3>2, <3>3, RtoBounds
  <2> QED
    BY <2>1, <2>2, <2>3, <2>5, RtoBounds, RtoAssumption DEF EstimateInRange
<1> QED BY <1>1, <1>2

-----------------------------------------------------------------------------
(* The timer of a window that is not empty. *)

FinSlack(fin) == IF fin THEN Late + FinRto ELSE 0

\* Where the timeouts have got to after c of them: what the present one may be
\* at most, and what the silence may have come to when it is due.
Backoff(c, r, t, sum) ==
  /\ c = 0 => t <= r /\ sum <= r
  /\ c = 1 => t <= 2 * r /\ sum <= 3 * r + Late
  /\ c = 2 => t <= 4 * r /\ sum <= 7 * r + 2 * Late
  /\ c = 3 => t <= 8 * r /\ sum <= 15 * r + 3 * Late
  /\ c = 4 => t <= 16 * r /\ sum <= 31 * r + 4 * Late

\* What it has come to at least.
Waited(c, r, sum) ==
  /\ c = 0 => sum >= r
  /\ c = 1 => sum >= 2 * r
  /\ c = 2 => sum >= 3 * r
  /\ c = 3 => sum >= 4 * r
  /\ c = 4 => sum >= 5 * r

WindowTimer ==
  outstanding > 0 =>
    /\ armed /\ due <= 16 * rto /\ retransmit_timeout >= rto
    /\ Backoff(retransmit_count, rto, retransmit_timeout,
               silence + due - FinSlack(got_fin_reached))
    /\ ~got_fin_reached => Waited(retransmit_count, rto, silence + due)

\* The inductive invariant.  DeadPeerIsNoticed needs to know when the timer is
\* due and how far it has backed off, NotGivenUpEarly that an idle connection
\* counts no timeouts, and both that a check comes in time.
IInv ==
  /\ TypeOK /\ EstimateInRange /\ NotGivenUpEarly
  /\ state \in Live /\ armed => due + since >= 0
  /\ outstanding = 0 => retransmit_count = 0
  /\ state = "SynSent" => outstanding > 0
  /\ state = "SynRecv" /\ ~got_fin_reached => ~armed
  /\ state \in Live => WindowTimer

\* It implies that silence is bounded.
LEMMA InvNotices == IInv => DeadPeerIsNoticed
<1> SUFFICES ASSUME IInv, state \in Live, outstanding > 0 PROVE silence <= Patience
  BY DEF DeadPeerIsNoticed
<1>1. WindowTimer /\ TypeOK /\ due + since >= 0
  BY DEF IInv, WindowTimer
<1>2. retransmit_count \in 0 .. 4 /\ rto \in Nat /\ silence \in Nat /\ due \in Int
  BY <1>1, RtoBounds DEF TypeOK, RetransmitLimit
<1>3. Late \in Nat /\ FinRto \in Nat /\ due >= -Late
  BY <1>1, RtoAssumption DEF TypeOK, Late
<1>4. Backoff(retransmit_count, rto, retransmit_timeout, silence + due - FinSlack(got_fin_reached))
  BY <1>1 DEF WindowTimer
<1>5. silence + due - FinSlack(got_fin_reached) <= 31 * rto + 4 * Late
  <2> DEFINE sum == silence + due - FinSlack(got_fin_reached)
  <2>1. sum \in Int
    BY <1>2, <1>3 DEF FinSlack
  <2>2. Backoff(retransmit_count, rto, retransmit_timeout, sum)
    BY <1>4
  <2> HIDE DEF sum
  <2>3. sum <= 31 * rto + 4 * Late
    BY <1>2, <1>3, <2>1, <2>2 DEF Backoff
  <2> QED BY <2>3 DEF sum
<1> QED BY <1>2, <1>3, <1>5 DEF Patience, FinSlack

\* In the range of the timer, ms_elapsed is not fooled by the 32 bits.
LEMMA ElapsedIsDue ==
  ASSUME TypeOK, due >= -Late
  PROVE  /\ due <= 0 => ms_elapsed
         /\ ms_elapsed /\ due <= 16 * rto => due <= 0
<1>1. /\ Width \in Nat /\ Width > 32 * MostRto /\ Width > 2 * Late /\ Width % 2 = 0
      /\ Late \in Nat /\ MostRto \in Nat /\ due \in Int /\ rto \in Nat /\ rto <= MostRto
  BY RtoAssumption, RtoBounds DEF TypeOK, Late
<1>2. Width \div 2 \in Nat /\ 2 * (Width \div 2) = Width
  BY <1>1
<1>3. CASE due <= 0
  <2>1. -due \in 0 .. Width - 1
    BY <1>1, <1>3
  <2>2. (-due) % Width = -due
    BY <1>1, <2>1
  <2> QED BY <1>1, <1>2, <1>3, <2>2 DEF ms_elapsed
<1>4. CASE due > 0 /\ due <= 16 * rto
  <2>1. due < Width \div 2
    BY <1>1, <1>2, <1>4
  <2>2. (-due) % Width = Width - due
    BY <1>1, <1>2, <1>4, <2>1
  <2> QED BY <1>1, <1>2, <1>4, <2>1, <2>2 DEF ms_elapsed
<1> QED BY <1>1, <1>3, <1>4

-----------------------------------------------------------------------------
(* The invariant is inductive. *)

\* The constants the steps below compare with.
LEMMA Numbers ==
  /\ Late \in Nat /\ FinRto \in Nat /\ Width \in Nat /\ 32 * MostRto < Width
  /\ LeastRto \in Nat /\ 0 < LeastRto /\ MostRto \in Nat
  /\ FirstRto \in LeastRto .. MostRto /\ FirstRto < Width
<1>1. Width \in Nat /\ Width > 32 * MostRto /\ Late \in Nat /\ FinRto \in Nat /\ FirstRto \in Nat
  BY RtoAssumption DEF Late
<1> QED BY <1>1, RtoBounds

\* A timer just started satisfies both bounds.
LEMMA NoBackoff ==
  ASSUME NEW r \in Nat, NEW f \in Nat
  PROVE  Backoff(0, r, r, 0 + r - f) /\ Waited(0, r, 0 + r)
<1>1. r - f <= r /\ 0 + r - f = r - f /\ 0 + r = r /\ r <= r
  OBVIOUS
<1>2. Backoff(0, r, r, r - f)
  BY <1>1 DEF Backoff
<1>3. Waited(0, r, r)
  BY <1>1 DEF Waited
<1> QED BY <1>1, <1>2, <1>3, Zenon

\* An ack, and the first packet, start the timer afresh.
LEMMA FreshTimer ==
  ASSUME TypeOK', armed', due' = rto', retransmit_timeout' = rto', retransmit_count' = 0,
         silence' = 0
  PROVE  WindowTimer' /\ (armed => due + since >= 0)'
<1>1. rto' \in Nat /\ due' \in Int /\ since' \in Nat
  BY RtoBounds DEF TypeOK
<1>2. FinSlack(got_fin_reached') \in Nat
  BY Numbers DEF FinSlack
<1>3. Backoff(0, rto', rto', 0 + rto' - FinSlack(got_fin_reached')) /\ Waited(0, rto', 0 + rto')
  BY <1>1, <1>2, NoBackoff
<1>4. due' <= 16 * rto' /\ retransmit_timeout' >= rto' /\ due' + since' >= 0
  <2>1. \A r, n \in Nat : r <= 16 * r /\ r >= r /\ r + n >= 0
    OBVIOUS
  <2> QED BY <1>1, <2>1, Zenon
<1>5. WindowTimer'
  BY <1>3, <1>4 DEF WindowTimer
<1> QED BY <1>4, <1>5

\* The initial states.
LEMMA InitOK == Init => IInv
<1> SUFFICES ASSUME Init PROVE IInv
  OBVIOUS
<1>1. TypeOK
  <2>1. rtt \in Nat /\ rtt_var \in Nat /\ rto \in LeastRto .. MostRto
    BY Numbers, RtoAssumption DEF Init
  <2>2. state \in Live \cup {"Dead"} /\ armed \in BOOLEAN /\ got_fin_reached \in BOOLEAN
    BY Zenon DEF Init, Live
  <2>4. retransmit_count \in 0 .. RetransmitLimit /\ since \in 0 .. Late /\ silence \in Nat
    BY DEF Init, RetransmitLimit
  <2>3. retransmit_timeout \in 0 .. Width - 1 /\ due \in Int /\ outstanding \in Nat
    BY Numbers DEF Init
  <2> QED BY <2>1, <2>2, <2>3, <2>4, Zenon DEF TypeOK
<1>2. EstimateInRange /\ NotGivenUpEarly
  BY DEF Init, EstimateInRange, NotGivenUpEarly
<1>3. WindowTimer
  <2>1. FinSlack(FALSE) = 0
    BY DEF FinSlack
  <2>2. Backoff(0, FirstRto, FirstRto, 0 + FirstRto - 0) /\ Waited(0, FirstRto, 0 + FirstRto)
    BY Numbers, NoBackoff
  <2>3. outstanding > 0 => due = FirstRto /\ retransmit_timeout = FirstRto /\ armed
    BY DEF Init
  <2>4. FirstRto <= 16 * FirstRto /\ FirstRto >= FirstRto
    BY Numbers
  <2>5. rto = FirstRto /\ retransmit_count = 0 /\ silence = 0 /\ got_fin_reached = FALSE
    BY DEF Init
  <2> QED BY <2>1, <2>2, <2>3, <2>4, <2>5, Zenon DEF WindowTimer
<1> QED BY <1>1, <1>2, <1>3, Numbers DEF Init, IInv

\* A write arms the timer of an empty window and leaves another alone.
LEMMA WriteOK == ASSUME IInv, Write PROVE IInv'
<1>1. TypeOK'
  <2>1. rto \in 0 .. Width - 1
    BY Numbers DEF IInv, TypeOK
  <2>2. CASE outstanding = 0
    <3>1. rto \in Int /\ outstanding + 1 \in Nat
      BY Numbers DEF IInv, TypeOK
    <3> QED BY <2>1, <2>2, <3>1 DEF IInv, Write, TypeOK, estVars
  <2>3. CASE outstanding # 0
    <3>1. outstanding + 1 \in Nat
      BY DEF IInv, TypeOK
    <3> QED BY <2>3, <3>1 DEF IInv, Write, TypeOK, estVars
  <2> QED BY <2>2, <2>3
<1>2. EstimateInRange' /\ NotGivenUpEarly'
  BY DEF IInv, Write, EstimateInRange, NotGivenUpEarly, estVars
<1>3. CASE outstanding = 0
  <2>1. WindowTimer' /\ (armed => due + since >= 0)'
    BY <1>1, <1>3, FreshTimer DEF IInv, Write, estVars
  <2> QED BY <1>1, <1>2, <1>3, <2>1 DEF IInv, Write, TypeOK
<1>4. CASE outstanding # 0
  <2>1. WindowTimer'
    BY <1>4 DEF IInv, Write, TypeOK, WindowTimer, estVars, Live
  <2> QED BY <1>1, <1>2, <1>4, <2>1 DEF IInv, Write, TypeOK
<1> QED BY <1>3, <1>4

\* An ack starts it afresh with the new estimate.
LEMMA AckOK ==
  ASSUME IInv, NEW sampled \in BOOLEAN, NEW ertt \in Samples, Ack(sampled, ertt)
  PROVE  IInv'
<1>1. rtt' \in Nat /\ rtt_var' \in Nat /\ rto' \in LeastRto .. MostRto /\ EstimateInRange'
  BY EstimateOK DEF IInv, Ack
<1>2. TypeOK'
  BY <1>1, Numbers DEF IInv, Ack, Rearm, TypeOK, RetransmitLimit
<1>3. WindowTimer' /\ (armed => due + since >= 0)'
  BY <1>2, FreshTimer DEF Ack, Rearm
<1> QED
  BY <1>1, <1>2, <1>3 DEF IInv, Ack, Rearm, NotGivenUpEarly

\* The answer to the SYN does the same, or leaves the SYN's timer running.
LEMMA SynAckOK ==
  ASSUME IInv, NEW acked \in BOOLEAN, NEW sampled \in BOOLEAN, NEW ertt \in Samples,
         SynAck(acked, sampled, ertt)
  PROVE  IInv'
<1>1. CASE acked
  <2>1. rtt' \in Nat /\ rtt_var' \in Nat /\ rto' \in LeastRto .. MostRto /\ EstimateInRange'
    BY <1>1, EstimateOK DEF IInv, SynAck
  <2>2. TypeOK'
    BY <1>1, <2>1, Numbers DEF IInv, SynAck, Rearm, TypeOK, RetransmitLimit, Live
  <2>3. WindowTimer' /\ (armed => due + since >= 0)'
    BY <1>1, <2>2, FreshTimer DEF SynAck, Rearm
  <2> QED
    BY <1>1, <2>1, <2>2, <2>3 DEF IInv, SynAck, Rearm, NotGivenUpEarly
<1>2. CASE ~ acked
  <2>1. TypeOK'
    BY <1>2 DEF IInv, SynAck, TypeOK, Live, estVars
  <2>2. WindowTimer'
    BY <1>2 DEF IInv, SynAck, TypeOK, Live, estVars, WindowTimer
  <2> QED
    BY <1>2, <2>1, <2>2 DEF IInv, SynAck, NotGivenUpEarly, EstimateInRange, estVars, TypeOK
<1> QED BY <1>1, <1>2

\* The first data of an accepted connection leaves the timer alone.
LEMMA FirstDataOK == ASSUME IInv, FirstData PROVE IInv'
<1>1. TypeOK' /\ EstimateInRange' /\ NotGivenUpEarly'
  BY DEF IInv, FirstData, TypeOK, EstimateInRange, NotGivenUpEarly, estVars, Live
<1>2. WindowTimer'
  BY DEF IInv, FirstData, WindowTimer, estVars, Live
<1> QED BY <1>1, <1>2 DEF IInv, FirstData, Live, estVars

\* Less silence and a shorter timeout are within the same bounds.
LEMMA BackoffLess ==
  ASSUME NEW c, NEW r \in Nat, NEW t \in Int, NEW s \in Int, NEW s2 \in Int,
         Backoff(c, r, t, s), s2 <= s
  PROVE  Backoff(c, r, t, s2)
BY Numbers DEF Backoff

\* One more timeout, noticed Late at the latest.
LEMMA BackoffStep ==
  ASSUME NEW c \in 0 .. 3, NEW r \in Nat, NEW t \in Int, NEW t2 \in Int,
         NEW s \in Int, NEW s2 \in Int,
         Backoff(c, r, t, s), t2 <= 2 * t, s2 <= s + Late + t2
  PROVE  Backoff(c + 1, r, t2, s2)
<1>1. c = 0 \/ c = 1 \/ c = 2 \/ c = 3
  OBVIOUS
<1>2. CASE c = 0
  BY <1>2, Numbers DEF Backoff
<1>3. CASE c = 1
  BY <1>3, Numbers DEF Backoff
<1>4. CASE c = 2
  BY <1>4, Numbers DEF Backoff
<1>5. CASE c = 3
  BY <1>5, Numbers DEF Backoff
<1> QED BY <1>1, <1>2, <1>3, <1>4, <1>5

\* One more timeout of at least an rto.
LEMMA WaitedStep ==
  ASSUME NEW c \in 0 .. 3, NEW r \in Nat, NEW s \in Int, NEW s2 \in Int,
         Waited(c, r, s), s2 >= s + r
  PROVE  Waited(c + 1, r, s2)
BY DEF Waited

\* Reaching the FIN moves the timer by no more than its cap.
LEMMA ReachFinOK == ASSUME IInv, ReachFin PROVE IInv'
<1>1. rto \in Nat /\ rto * 3 \in Int /\ FinRto \in Int
  BY Numbers DEF IInv, TypeOK
<1>2. due' \in {rto * 3, FinRto} /\ due' <= rto * 3 /\ due' <= FinRto
  BY <1>1, MinOfTwo, Zenon DEF ReachFin
<1>3. due' \in Nat /\ due' <= 16 * rto
  BY <1>1, <1>2, Numbers
<1>4. TypeOK'
  BY <1>3 DEF IInv, ReachFin, TypeOK, estVars
<1>5. WindowTimer'
  <2> SUFFICES ASSUME outstanding > 0 PROVE WindowTimer'
    BY DEF ReachFin, WindowTimer
  <2>1. /\ WindowTimer /\ due + since >= 0 /\ since <= Late /\ due \in Int /\ since \in Nat
        /\ silence \in Nat /\ got_fin_reached = FALSE
    BY DEF IInv, ReachFin, TypeOK, WindowTimer
  <2>2. Backoff(retransmit_count, rto, retransmit_timeout, silence + due - 0)
    BY <2>1 DEF WindowTimer, FinSlack
  <2>3. silence + due' - (Late + FinRto) <= silence + due - 0
    <3>1. \A n, m, k \in Nat, i, f \in Nat, j \in Int :
            j + i >= 0 /\ i <= k /\ m <= f => n + m - (k + f) <= n + j - 0
      OBVIOUS
    <3> QED BY <1>2, <1>3, <2>1, <3>1, Numbers, Zenon
  <2>4. Backoff(retransmit_count, rto, retransmit_timeout, silence + due' - (Late + FinRto))
    <3>1. /\ retransmit_timeout \in Int /\ silence + due - 0 \in Int
          /\ silence + due' - (Late + FinRto) \in Int
      BY <1>3, <2>1, Numbers DEF IInv, TypeOK
    <3> QED BY <1>1, <2>2, <2>3, <3>1, BackoffLess
  <2>5. /\ retransmit_count' = retransmit_count /\ rto' = rto /\ silence' = silence
        /\ retransmit_timeout' = retransmit_timeout /\ got_fin_reached' = TRUE /\ armed' = TRUE
    BY DEF ReachFin, estVars
  <2>6. FinSlack(TRUE) = Late + FinRto
    BY DEF FinSlack
  <2>7. due' <= 16 * rto' /\ retransmit_timeout' >= rto'
    BY <1>3, <2>1, <2>5 DEF WindowTimer
  <2> QED BY <2>4, <2>5, <2>6, <2>7, Zenon DEF WindowTimer
<1>6. (due + since >= 0)'
  BY <1>3 DEF IInv, TypeOK, ReachFin
<1>7. EstimateInRange' /\ NotGivenUpEarly'
  BY DEF IInv, ReachFin, EstimateInRange, NotGivenUpEarly, estVars
<1> QED BY <1>4, <1>5, <1>6, <1>7 DEF IInv, ReachFin

\* Time passes.
LEMMA ElapseOK == ASSUME IInv, NEW d \in Steps, Elapse(d) PROVE IInv'
<1>1. d \in Nat
  BY RtoAssumption
<1>2. TypeOK'
  BY <1>1, Numbers DEF IInv, Elapse, TypeOK, estVars
<1>3. EstimateInRange' /\ NotGivenUpEarly'
  BY DEF IInv, Elapse, EstimateInRange, NotGivenUpEarly, estVars, Live
<1>4. (armed => due + since >= 0)'
  BY <1>1 DEF IInv, Elapse, TypeOK
<1>5. WindowTimer'
  <2> SUFFICES ASSUME outstanding > 0 PROVE WindowTimer'
    BY DEF Elapse, WindowTimer
  <2>1. WindowTimer /\ armed
    BY DEF IInv, Elapse, WindowTimer
  <2>2. /\ due' = due - d /\ silence' = silence + d /\ due \in Int /\ silence \in Nat
        /\ rto \in Nat
    BY <2>1, Numbers DEF Elapse, IInv, TypeOK
  <2>3. silence' + due' = silence + due /\ due' <= due
    BY <1>1, <2>2
  <2>4. /\ retransmit_count' = retransmit_count /\ rto' = rto /\ outstanding' = outstanding
        /\ retransmit_timeout' = retransmit_timeout /\ got_fin_reached' = got_fin_reached
        /\ armed' = armed
    BY DEF Elapse, estVars
  <2>5. due' <= 16 * rto
    BY <1>1, <2>1, <2>2 DEF WindowTimer
  <2>6. Backoff(retransmit_count', rto', retransmit_timeout',
                silence' + due' - FinSlack(got_fin_reached'))
    <3>1. Backoff(retransmit_count, rto, retransmit_timeout,
                  silence + due - FinSlack(got_fin_reached))
      BY <2>1 DEF WindowTimer
    <3>2. silence' + due' - FinSlack(got_fin_reached')
            = silence + due - FinSlack(got_fin_reached)
      BY <1>1, <2>2, <2>4, Numbers DEF FinSlack
    <3> QED BY <2>4, <3>1, <3>2
  <2>7. ~got_fin_reached' => Waited(retransmit_count', rto', silence' + due')
    BY <2>1, <2>3, <2>4 DEF WindowTimer
  <2>8. armed' /\ due' <= 16 * rto' /\ retransmit_timeout' >= rto'
    BY <2>1, <2>4, <2>5 DEF WindowTimer
  <2> QED BY <2>6, <2>7, <2>8 DEF WindowTimer
<1> QED BY <1>2, <1>3, <1>4, <1>5 DEF IInv, Elapse

\* A connection is given up only after its packets had their time.
LEMMA GiveUpOK ==
  ASSUME IInv, Check, armed, ms_elapsed, GivesUp, state' = "Dead",
         UNCHANGED <<retransmit_timeout, retransmit_count, due>>
  PROVE  IInv'
<1>1. TypeOK'
  BY Numbers DEF IInv, Check, TypeOK, estVars
<1>2. EstimateInRange'
  BY DEF IInv, Check, EstimateInRange, estVars
<1>3. NotGivenUpEarly'
  <2> SUFFICES ASSUME ~got_fin_reached
               PROVE  /\ outstanding > 0 /\ retransmit_count >= SynRetransmitLimit
                      /\ silence >= rto * (retransmit_count + 1)
    BY DEF NotGivenUpEarly, Check, estVars
  <2>1. retransmit_count \in 2 .. 4
    BY DEF IInv, GivesUp, TypeOK, RetransmitLimit, SynRetransmitLimit
  <2>2. outstanding > 0
    BY <2>1 DEF IInv, TypeOK
  <2>3. /\ WindowTimer /\ due \in Int /\ silence \in Nat /\ rto \in Nat /\ due >= -Late
        /\ due <= 16 * rto
    BY <2>2, Numbers DEF IInv, Check, TypeOK, WindowTimer
  <2>4. due <= 0
    BY <2>3, ElapsedIsDue DEF IInv
  <2>5. Waited(retransmit_count, rto, silence + due)
    BY <2>2, <2>3 DEF WindowTimer
  <2>6. silence >= rto * (retransmit_count + 1)
    <3>1. CASE retransmit_count = 2
      <4>1. silence + due >= 3 * rto
        BY <2>5, <3>1 DEF Waited
      <4> QED BY <2>3, <2>4, <3>1, <4>1
    <3>2. CASE retransmit_count = 3
      <4>1. silence + due >= 4 * rto
        BY <2>5, <3>2 DEF Waited
      <4> QED BY <2>3, <2>4, <3>2, <4>1
    <3>3. CASE retransmit_count = 4
      <4>1. silence + due >= 5 * rto
        BY <2>5, <3>3 DEF Waited
      <4> QED BY <2>3, <2>4, <3>3, <4>1
    <3> QED BY <2>1, <3>1, <3>2, <3>3
  <2> QED BY <2>1, <2>2, <2>6 DEF SynRetransmitLimit
<1> QED BY <1>1, <1>2, <1>3 DEF IInv, Check, Live

\* A timeout that does not give up backs off one step more.
LEMMA BackOffOK ==
  ASSUME IInv, Check, armed, ms_elapsed, ~GivesUp, NEW probeLost \in BOOLEAN,
         retransmit_timeout' =
           IF probeLost THEN retransmit_timeout ELSE (retransmit_timeout * 2) % Width,
         due' = retransmit_timeout', retransmit_count' = Counted(retransmit_count),
         state' = state
  PROVE  IInv'
<1>1. retransmit_timeout' \in 0 .. Width - 1
  <2>1. retransmit_timeout \in Nat /\ Width \in Nat \ {0}
    BY Numbers DEF IInv, TypeOK
  <2> QED BY <2>1 DEF IInv, TypeOK
<1>2. retransmit_count \in 0 .. 3 /\ retransmit_count' \in 0 .. 4
  BY DEF IInv, TypeOK, GivesUp, RetransmitLimit, Counted
<1>3. TypeOK'
  BY <1>1, <1>2, Numbers DEF IInv, Check, TypeOK, estVars, RetransmitLimit
<1>4. EstimateInRange' /\ NotGivenUpEarly'
  BY DEF IInv, Check, EstimateInRange, NotGivenUpEarly, estVars, Live
<1>5. (due + since >= 0)' /\ (outstanding = 0 => retransmit_count = 0)'
  BY <1>1 DEF IInv, Check, Counted, TypeOK
<1>6. WindowTimer'
  <2> SUFFICES ASSUME outstanding > 0 PROVE WindowTimer'
    BY DEF Check, WindowTimer
  <2>1. /\ WindowTimer /\ due \in Int /\ silence \in Nat /\ rto \in LeastRto .. MostRto
        /\ rto \in Nat /\ due >= -Late /\ due <= 16 * rto
    BY Numbers DEF IInv, Check, TypeOK, WindowTimer
  <2>2. due <= 0
    BY <2>1, ElapsedIsDue DEF IInv
  <2> DEFINE s == silence + due - FinSlack(got_fin_reached)
             s2 == silence + due' - FinSlack(got_fin_reached)
             t == retransmit_timeout
  <2>3. /\ Backoff(retransmit_count, rto, t, s) /\ t >= rto
        /\ ~got_fin_reached => Waited(retransmit_count, rto, silence + due)
    BY <2>1 DEF WindowTimer
  <2>4. t \in Nat /\ t <= 8 * rto
    BY <1>2, <2>1, <2>3 DEF Backoff, IInv, TypeOK
  <2>5. t' <= 2 * t /\ t' >= t /\ t' \in Nat
    <3>1. t * 2 < Width /\ t * 2 \in Nat
      BY <2>1, <2>4, Numbers
    <3>2. (t * 2) % Width = t * 2
      BY <3>1, Numbers
    <3> QED BY <2>4, <3>2
  <2>6. s \in Int /\ s2 \in Int /\ s2 <= s + Late + t'
    BY <2>1, <2>2, <2>5, Numbers DEF FinSlack
  <2>7. retransmit_count' = retransmit_count + 1
    BY DEF Counted
  <2>8. rto' = rto /\ silence' = silence /\ got_fin_reached' = got_fin_reached /\ armed'
    BY DEF Check, estVars
  <2>9. Backoff(retransmit_count + 1, rto, t', s2)
    <3> HIDE DEF s, s2, t
    <3>1. t \in Int /\ t' \in Int
      BY <2>4, <2>5
    <3> QED BY <1>2, <2>1, <2>3, <2>5, <2>6, <3>1, BackoffStep
  <2>10. ~got_fin_reached => Waited(retransmit_count + 1, rto, silence + due')
    <3>1. silence + due \in Int /\ silence + due' \in Int /\ silence + due' >= silence + due + rto
      BY <2>1, <2>2, <2>3, <2>4, <2>5
    <3> QED BY <1>2, <2>1, <2>3, <3>1, WaitedStep
  <2>11. due' <= 16 * rto /\ retransmit_timeout' >= rto
    BY <2>1, <2>3, <2>4, <2>5
  <2>12. Backoff(retransmit_count', rto', retransmit_timeout',
                 silence' + due' - FinSlack(got_fin_reached'))
    BY <2>7, <2>8, <2>9
  <2>13. ~got_fin_reached' => Waited(retransmit_count', rto', silence' + due')
    BY <2>7, <2>8, <2>10
  <2> QED BY <2>8, <2>11, <2>12, <2>13 DEF WindowTimer
<1> QED BY <1>3, <1>4, <1>5, <1>6 DEF IInv, Check

\* check_timeouts as a whole.
LEMMA CheckOK == ASSUME IInv, Check PROVE IInv'
<1>1. CASE armed /\ ms_elapsed
  <2>1. PICK probeLost \in BOOLEAN : Timeout(probeLost)
    BY <1>1 DEF Check
  <2>2. CASE GivesUp
    BY <1>1, <2>1, <2>2, GiveUpOK DEF Timeout
  <2>3. CASE ~GivesUp
    BY <1>1, <2>1, <2>3, BackOffOK DEF Timeout
  <2> QED BY <2>2, <2>3
<1>2. CASE ~ (armed /\ ms_elapsed)
  <2>1. TypeOK'
    BY <1>2, Numbers DEF IInv, Check, TypeOK, estVars
  <2>2. EstimateInRange' /\ NotGivenUpEarly'
    BY <1>2 DEF IInv, Check, EstimateInRange, NotGivenUpEarly, estVars, Live
  <2>3. WindowTimer'
    BY <1>2 DEF IInv, Check, WindowTimer, estVars
  <2>4. (armed => due + since >= 0)'
    <3> SUFFICES ASSUME armed PROVE due' + since' >= 0
      BY DEF Check
    <3>1. due \in Int /\ due >= -Late
      BY Numbers DEF IInv, Check, TypeOK
    <3>2. ~ (due <= 0)
      BY <1>2, <3>1, ElapsedIsDue DEF IInv
    <3> QED BY <1>2, <3>1, <3>2 DEF Check
  <2> QED BY <1>2, <2>1, <2>2, <2>3, <2>4 DEF IInv, Check
<1> QED BY <1>1, <1>2

-----------------------------------------------------------------------------
(* Theorems. *)

\* The invariant holds in every state of every behaviour of the timer.
THEOREM Invariance == Spec => []IInv
<1>1. IInv /\ [Next]_vars => IInv'
  <2> SUFFICES ASSUME IInv, [Next]_vars PROVE IInv'
    OBVIOUS
  <2>1. CASE Write
    BY <2>1, WriteOK
  <2>2. CASE \E sampled \in BOOLEAN, ertt \in Samples : Ack(sampled, ertt)
    BY <2>2, AckOK
  <2>3. CASE \E acked, sampled \in BOOLEAN, ertt \in Samples : SynAck(acked, sampled, ertt)
    BY <2>3, SynAckOK
  <2>4. CASE FirstData
    BY <2>4, FirstDataOK
  <2>5. CASE ReachFin
    BY <2>5, ReachFinOK
  <2>6. CASE Check
    BY <2>6, CheckOK
  <2>7. CASE \E d \in Steps : Elapse(d)
    BY <2>7, ElapseOK
  <2>8. CASE UNCHANGED vars
    BY <2>8 DEF vars, estVars, IInv, TypeOK, EstimateInRange, NotGivenUpEarly, WindowTimer
  <2> QED BY <2>1, <2>2, <2>3, <2>4, <2>5, <2>6, <2>7, <2>8 DEF Next
<1> QED BY InitOK, <1>1, PTL DEF Spec

\* The fields keep their types; rto keeps the bounds of the samples.
THEOREM TypeCorrect == Spec => []TypeOK
<1>1. IInv => TypeOK
  BY DEF IInv
<1> QED BY Invariance, <1>1, PTL

\* ack_packet's integer arithmetic never takes the estimate out of the range of
\* the round trips measured.
THEOREM EstimateAlwaysInRange == Spec => []EstimateInRange
<1>1. IInv => EstimateInRange
  BY DEF IInv
<1> QED BY Invariance, <1>1, PTL

\* check_timeouts gives a silent peer up within 31 timeouts and the delays of
\* five checks, whatever the connection does meanwhile.
THEOREM DeadPeerAlwaysNoticed == Spec => []DeadPeerIsNoticed
<1> QED BY Invariance, InvNotices, PTL

\* check_timeouts gives no connection up before each of its transmissions had
\* an rto to be answered, and never an idle one.
THEOREM NeverGivenUpEarly == Spec => []NotGivenUpEarly
<1>1. IInv => NotGivenUpEarly
  BY DEF IInv
<1> QED BY Invariance, <1>1, PTL
=============================================================================

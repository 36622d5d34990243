-------------------------- MODULE ComponentsProofs --------------------------
(***************************************************************************)
(* Proofs about the components that share no state: the MTU search, for     *)
(* every floor, MTU, slack and window; the congestion window, for every     *)
(* target, buffer and packet size; the delay history, for every number of   *)
(* samples and minutes and every span of delays; the clock drift, for every *)
(* spread of delays; the packet codec, for every width of a byte, length of *)
(* the mask and tail.                                                       *)
(***************************************************************************)
EXTENDS Components, ArithLemmas, SequenceTheorems, TLAPS

-----------------------------------------------------------------------------
(* The MTU search. *)

\* The inductive invariant: TypeOK alone does not keep the ceiling above the
\* smallest size when a probe is lost; that the probe is inside the range does.
IInv == TypeOK /\ RangeSound

\* The part of it that speaks of the search only.
SearchOK(m) ==
  /\ m \in MtuType
  /\ m.floor >= LowEnd /\ m.last >= LowEnd
  /\ m.ceiling <= udp_mtu /\ m.last <= udp_mtu
  /\ m.floor <= m.ceiling
  /\ m.probe_seq # 0 => m.floor < m.probe_size /\ m.probe_size <= m.ceiling

Narrower(m, r) == r.ceiling - r.floor < m.ceiling - m.floor

LEMMA LowEndOK == LowEnd \in Nat /\ LowEnd <= udp_mtu /\ udp_mtu \in Nat
BY MtuAssumption DEF LowEnd

\* A sound range stays sound through mtu_search_update, without the repair.
LEMMA UpdateOK ==
  ASSUME NEW m \in MtuType, m.floor >= LowEnd, m.ceiling <= udp_mtu, m.floor <= m.ceiling,
         m.last >= LowEnd, m.last <= udp_mtu
  PROVE  /\ SearchOK(mtu_search_update(m))
         /\ mtu_search_update(m).probe_seq = 0 /\ mtu_search_update(m).floor = m.floor
         /\ mtu_search_update(m).ceiling - mtu_search_update(m).floor <= m.ceiling - m.floor
<1>1. Repaired(m) = m
  BY DEF Repaired, MtuType
<1>2. 0 \in SeqNr
  BY SeqModAssumption DEF SeqNr
<1> DEFINE r == NoProbe(m)
           u == mtu_search_update(m)
           mid == (r.floor + r.ceiling) \div 2
<1>3. /\ r \in MtuType /\ r.floor = m.floor /\ r.ceiling = m.ceiling /\ r.last = m.last
      /\ r.probe_seq = 0
  BY <1>2 DEF NoProbe, MtuType
<1>4. mid \in Nat /\ m.floor <= mid /\ mid <= m.ceiling
  BY <1>3 DEF MtuType
<1>5. u = IF r.ceiling - r.floor <= SearchSlack
          THEN [r EXCEPT !.last = r.floor, !.ceiling = r.floor, !.due = FALSE]
          ELSE [r EXCEPT !.last = mid]
  BY <1>1 DEF mtu_search_update
<1> HIDE DEF r, u, mid
<1>6. CASE r.ceiling - r.floor <= SearchSlack
  <2>1. u = [r EXCEPT !.last = r.floor, !.ceiling = r.floor, !.due = FALSE]
    BY <1>5, <1>6
  <2>2. /\ u \in MtuType /\ u.floor = m.floor /\ u.ceiling = m.floor /\ u.last = m.floor
        /\ u.probe_seq = 0
    BY <1>3, <2>1 DEF MtuType
  <2>3. SearchOK(u) /\ u.ceiling - u.floor <= m.ceiling - m.floor
    BY <2>2, LowEndOK DEF SearchOK, MtuType
  <2> QED BY <2>2, <2>3 DEF u
<1>7. CASE ~ (r.ceiling - r.floor <= SearchSlack)
  <2>1. u = [r EXCEPT !.last = mid]
    BY <1>5, <1>7
  <2>2. /\ u \in MtuType /\ u.floor = m.floor /\ u.ceiling = m.ceiling /\ u.last = mid
        /\ u.probe_seq = 0
    BY <1>3, <1>4, <2>1 DEF MtuType
  <2>3. SearchOK(u) /\ u.ceiling - u.floor <= m.ceiling - m.floor
    BY <1>4, <2>2, LowEndOK DEF SearchOK, MtuType
  <2> QED BY <2>2, <2>3 DEF u
<1> QED BY <1>6, <1>7

\* A probe that is answered leaves a sound and narrower range.
LEMMA ProbeLostOK ==
  ASSUME NEW m, SearchOK(m), m.probe_seq # 0
  PROVE  /\ SearchOK(ProbeLost(m)) /\ Narrower(m, ProbeLost(m))
         /\ ProbeLost(m).probe_seq = 0 /\ ProbeLost(m).floor = m.floor
<1> DEFINE n == [m EXCEPT !.ceiling = m.probe_size - 1]
<1>1. /\ n \in MtuType /\ n.floor = m.floor /\ n.last = m.last
      /\ n.ceiling = m.probe_size - 1 /\ n.floor <= n.ceiling /\ n.ceiling < m.ceiling
  BY DEF SearchOK, MtuType
<1>2. n.ceiling <= udp_mtu /\ n.floor >= LowEnd /\ n.last >= LowEnd /\ n.last <= udp_mtu
  BY <1>1, LowEndOK DEF SearchOK, MtuType
<1>3. /\ SearchOK(mtu_search_update(n)) /\ mtu_search_update(n).probe_seq = 0
      /\ mtu_search_update(n).floor = n.floor
      /\ mtu_search_update(n).ceiling - mtu_search_update(n).floor <= n.ceiling - n.floor
  BY <1>1, <1>2, UpdateOK
<1> HIDE DEF n
<1>4. ProbeLost(m) = mtu_search_update(n)
  BY DEF ProbeLost, n
<1> QED BY <1>1, <1>3, <1>4 DEF Narrower, SearchOK, MtuType

LEMMA ProbePassedOK ==
  ASSUME NEW m, SearchOK(m), m.probe_seq # 0
  PROVE  /\ SearchOK(ProbePassed(m)) /\ Narrower(m, ProbePassed(m))
         /\ ProbePassed(m).probe_seq = 0 /\ ProbePassed(m).floor = m.probe_size
<1> DEFINE n == [m EXCEPT !.floor = m.probe_size]
<1>1. /\ n \in MtuType /\ n.floor = m.probe_size /\ n.last = m.last
      /\ n.ceiling = m.ceiling /\ n.floor <= n.ceiling /\ n.floor > m.floor
  BY DEF SearchOK, MtuType
<1>2. n.ceiling <= udp_mtu /\ n.floor >= LowEnd /\ n.last >= LowEnd /\ n.last <= udp_mtu
  BY <1>1, LowEndOK DEF SearchOK, MtuType
<1>3. /\ SearchOK(mtu_search_update(n)) /\ mtu_search_update(n).probe_seq = 0
      /\ mtu_search_update(n).floor = n.floor
      /\ mtu_search_update(n).ceiling - mtu_search_update(n).floor <= n.ceiling - n.floor
  BY <1>1, <1>2, UpdateOK
<1> HIDE DEF n
<1>4. ProbePassed(m) = mtu_search_update(n)
  BY DEF ProbePassed, n
<1> QED BY <1>1, <1>3, <1>4 DEF Narrower, SearchOK, MtuType

\* The reset widens the range around a probe that is under way.
LEMMA ResetOK ==
  ASSUME NEW m, SearchOK(m)
  PROVE  SearchOK(mtu_reset(m)) /\ mtu_reset(m).last = m.last
<1> DEFINE r == mtu_reset(m)
<1>1. /\ r \in MtuType /\ r.floor = LowEnd /\ r.ceiling = udp_mtu /\ r.last = m.last
      /\ r.probe_seq = m.probe_seq /\ r.probe_size = m.probe_size
  BY LowEndOK DEF SearchOK, MtuType, mtu_reset
<1> HIDE DEF r
<1>2. SearchOK(r)
  BY <1>1, LowEndOK DEF SearchOK, MtuType
<1> QED BY <1>1, <1>2 DEF r

LEMMA NoProbeOK ==
  ASSUME NEW m, SearchOK(m)
  PROVE  /\ SearchOK(NoProbe(m))
         /\ NoProbe(m).floor = m.floor /\ NoProbe(m).ceiling = m.ceiling /\ NoProbe(m).last = m.last
<1>1. 0 \in SeqNr
  BY SeqModAssumption DEF SeqNr
<1> QED BY <1>1 DEF SearchOK, MtuType, NoProbe

\* What a step does to the search: it leaves floor, ceiling and size alone, or
\* narrows the range, or was due and keeps the size.
StepOK(m, r) ==
  /\ SearchOK(r)
  /\ \/ r.floor = m.floor /\ r.ceiling = m.ceiling /\ r.last = m.last
     \/ Narrower(m, r)
     \/ m.due /\ r.last = m.last

LEMMA SendOK ==
  ASSUME NEW m, SearchOK(m), seq_nr \in SeqNr, NEW p, p.size \in Nat
  PROVE  StepOK(m, WithProbe(IF m.due THEN mtu_reset(m) ELSE m, p))
<1> DEFINE n == IF m.due THEN mtu_reset(m) ELSE m
<1>1. SearchOK(n) /\ n.last = m.last /\ (~m.due => n = m)
  BY ResetOK
<1> HIDE DEF n
<1>2. Last \in SeqNr
  BY SeqModAssumption DEF Last, SeqNr, wrapping_sub
<1>3. CASE Probes(n, p)
  <2>1. WithProbe(n, p) = [n EXCEPT !.probe_seq = Last, !.probe_size = p.size]
    BY <1>3 DEF WithProbe
  <2>2. SearchOK(WithProbe(n, p))
    BY <1>1, <1>2, <1>3, <2>1 DEF SearchOK, MtuType, Probes
  <2>3. /\ WithProbe(n, p).floor = n.floor /\ WithProbe(n, p).ceiling = n.ceiling
        /\ WithProbe(n, p).last = n.last
    BY <1>1, <2>1 DEF SearchOK, MtuType
  <2> QED BY <1>1, <2>2, <2>3 DEF StepOK, n
<1>4. CASE ~Probes(n, p)
  BY <1>1, <1>4 DEF WithProbe, StepOK, n
<1> QED BY <1>3, <1>4 DEF n

LEMMA DuplicateOK ==
  ASSUME NEW m, SearchOK(m), NEW dups
  PROVE  /\ StepOK(m, AfterDuplicate(m, dups))
         /\ AfterDuplicate(m, dups).probe_seq # 0 => AfterDuplicate(m, dups) = m
<1>1. CASE dups # DUPLICATE_ACKS_BEFORE_RESEND \/ m.probe_seq = 0
  BY <1>1 DEF AfterDuplicate, StepOK
<1>2. CASE dups = DUPLICATE_ACKS_BEFORE_RESEND /\ m.probe_seq # 0 /\ m.probe_seq = Oldest
  <2>1. AfterDuplicate(m, dups) = ProbeLost(m)
    BY <1>2 DEF AfterDuplicate
  <2> QED BY <1>2, <2>1, ProbeLostOK DEF StepOK
<1>3. CASE dups = DUPLICATE_ACKS_BEFORE_RESEND /\ m.probe_seq # 0 /\ m.probe_seq # Oldest
  <2>1. AfterDuplicate(m, dups) = NoProbe(m)
    BY <1>3 DEF AfterDuplicate
  <2>2. NoProbe(m).probe_seq = 0
    BY DEF NoProbe, SearchOK, MtuType
  <2> QED BY <2>1, <2>2, NoProbeOK DEF StepOK
<1> QED BY <1>1, <1>2, <1>3

-----------------------------------------------------------------------------
(* The steps. *)

LEMMA InitOK == Init => IInv
<1>1. 0 \in SeqNr
  BY SeqModAssumption DEF SeqNr
<1> QED BY <1>1, LowEndOK, MtuAssumption DEF Init, IInv, TypeOK, RangeSound, MtuType

\* The invariant in the form the lemmas use.
WindowPart ==
  /\ seq_nr \in SeqNr /\ cur_window_packets \in 0 .. MaxWindow
  /\ duplicate_ack \in 0 .. DupMod - 1
  /\ outbuf \in [DOMAIN outbuf -> [size : Nat, sent : BOOLEAN]]

LEMMA Parts == IInv <=> SearchOK(mtu) /\ WindowPart
BY DEF IInv, TypeOK, RangeSound, SearchOK, WindowPart

LEMMA ProcessAckOK ==
  ASSUME IInv, NEW n \in 0 .. cur_window_packets, NEW dup \in BOOLEAN, NEW E,
         NEW hits \in 0 .. cur_window_packets, ProcessAck(n, dup, E, hits)
  PROVE  StepOK(mtu, mtu') /\ WindowPart'
<1> DEFINE gone == {q \in DOMAIN outbuf : wrapping_sub(q, Oldest) < n}
           dups == CASE cur_window_packets = 0 -> duplicate_ack
                     [] cur_window_packets > 0 /\ dup -> (duplicate_ack + 1) % DupMod
                     [] OTHER -> 0
           m1 == IF cur_window_packets > 0 /\ dup THEN AfterDuplicate(mtu, dups) ELSE mtu
           waiting == {d \in 1 .. cur_window_packets - n :
                         wrapping_sub(seq_nr, d) \in DOMAIN outbuf}
           left == IF waiting = {} THEN 0 ELSE Max(waiting)
<1>1. SearchOK(mtu) /\ WindowPart
  BY Parts
<1>2. /\ mtu' = IF m1.probe_seq # 0 /\ m1.probe_seq \in gone THEN ProbePassed(m1) ELSE m1
      /\ duplicate_ack' = IF hits > 0 THEN hits % DupMod ELSE dups
      /\ cur_window_packets' = left
      /\ seq_nr' = seq_nr
      /\ outbuf' = [q \in DOMAIN outbuf \ (gone \cup E) |-> outbuf[q]]
  BY DEF ProcessAck
<1>3. left \in 0 .. MaxWindow
  <2>1. CASE waiting = {}
    BY <2>1, MtuAssumption
  <2>2. CASE waiting # {}
    <3>1. waiting \subseteq 1 .. cur_window_packets - n
      OBVIOUS
    <3>2. 1 \in Int /\ cur_window_packets - n \in Int
      BY <1>1, MtuAssumption DEF WindowPart
    <3> HIDE DEF waiting
    <3>3. Max(waiting) \in waiting
      BY <2>2, <3>1, <3>2, IntMax
    <3> QED BY <1>1, <2>2, <3>1, <3>3, MtuAssumption DEF WindowPart
  <2> QED BY <2>1, <2>2
<1>4. dups \in 0 .. DupMod - 1
  BY <1>1, MtuAssumption DEF WindowPart
<1>5. hits % DupMod \in 0 .. DupMod - 1
  BY <1>1, MtuAssumption DEF WindowPart
<1> HIDE DEF gone, dups, waiting, left
<1>6. StepOK(mtu, m1) /\ (m1.probe_seq # 0 => m1 = mtu)
  BY <1>1, DuplicateOK DEF StepOK
<1> HIDE DEF m1
<1>7. StepOK(mtu, mtu')
  <2>1. CASE m1.probe_seq # 0 /\ m1.probe_seq \in gone
    BY <1>1, <1>2, <1>6, <2>1, ProbePassedOK DEF StepOK
  <2>2. CASE ~ (m1.probe_seq # 0 /\ m1.probe_seq \in gone)
    BY <1>2, <1>6, <2>2
  <2> QED BY <2>1, <2>2
<1>8. outbuf' \in [DOMAIN outbuf' -> [size : Nat, sent : BOOLEAN]]
  BY <1>1, <1>2 DEF WindowPart
<1>9. seq_nr' \in SeqNr /\ cur_window_packets' \in 0 .. MaxWindow /\ duplicate_ack' \in 0 .. DupMod - 1
  BY <1>1, <1>2, <1>3, <1>4, <1>5 DEF WindowPart
<1> QED BY <1>7, <1>8, <1>9 DEF WindowPart

LEMMA WriteOK ==
  ASSUME IInv, NEW size \in Nat, Queue(size) \/ Extend(size)
  PROVE  mtu' = mtu /\ WindowPart'
<1>1. WindowPart
  BY Parts
<1>2. mtu' = mtu
  BY DEF Queue, Extend
<1>3. seq_nr' \in SeqNr /\ cur_window_packets' \in 0 .. MaxWindow /\ duplicate_ack' \in 0 .. DupMod - 1
  BY <1>1, MtuAssumption, SeqModAssumption DEF Queue, Extend, WindowPart, SeqNr, wrapping_add
<1>4. outbuf' \in [DOMAIN outbuf' -> [size : Nat, sent : BOOLEAN]]
  <2>1. CASE Queue(size)
    BY <1>1, <2>1 DEF Queue, WindowPart
  <2>2. CASE Extend(size)
    <3>1. outbuf' = [outbuf EXCEPT ![Last].size = size] /\ Last \in DOMAIN outbuf
      BY <2>2 DEF Extend, Extendable
    <3>2. DOMAIN outbuf' = DOMAIN outbuf
      BY <1>1, <3>1 DEF WindowPart
    <3>3. outbuf[Last] \in [size : Nat, sent : BOOLEAN]
      BY <1>1, <3>1 DEF WindowPart
    <3>4. [outbuf[Last] EXCEPT !.size = size] \in [size : Nat, sent : BOOLEAN]
      BY <3>3
    <3> QED BY <1>1, <3>1, <3>2, <3>4 DEF WindowPart
  <2> QED BY <2>1, <2>2
<1> QED BY <1>2, <1>3, <1>4 DEF WindowPart

LEMMA SendStepOK ==
  ASSUME IInv, NEW q \in SeqNr, Send(q) \/ Resend(q)
  PROVE  StepOK(mtu, mtu') /\ WindowPart'
<1>1. SearchOK(mtu) /\ WindowPart
  BY Parts
<1>2. q \in DOMAIN outbuf /\ send_packet_at(q)
  BY DEF Send, Resend, Sent
<1>3. outbuf[q].size \in Nat
  BY <1>1, <1>2 DEF WindowPart
<1>4. StepOK(mtu, mtu')
  BY <1>1, <1>2, <1>3, SendOK DEF send_packet_at, WindowPart
<1>5. WindowPart'
  BY <1>1, <1>2 DEF send_packet_at, WindowPart
<1> QED BY <1>4, <1>5

LEMMA TimeoutOK ==
  ASSUME IInv, Timeout
  PROVE  StepOK(mtu, mtu') /\ WindowPart'
<1>1. SearchOK(mtu) /\ WindowPart
  BY Parts
<1>2. CASE ProbeAlone
  <2>1. mtu' = NoProbe(ProbeLost(mtu)) /\ mtu.probe_seq # 0
    BY <1>2 DEF Timeout, ProbeAlone
  <2>2. SearchOK(ProbeLost(mtu)) /\ Narrower(mtu, ProbeLost(mtu))
    BY <1>1, <2>1, ProbeLostOK
  <2> QED BY <1>1, <2>1, <2>2, <1>2, NoProbeOK DEF StepOK, Narrower, WindowPart, Timeout, winVars
<1>3. CASE ~ProbeAlone
  <2>1. mtu' = NoProbe(mtu)
    BY <1>3 DEF Timeout
  <2> QED BY <1>1, <2>1, <1>3, NoProbeOK, MtuAssumption DEF StepOK, WindowPart, Timeout, winVars
<1> QED BY <1>2, <1>3

\* What every step does: the search moves as StepOK says.
LEMMA NextOK ==
  ASSUME IInv, [Next]_vars
  PROVE  StepOK(mtu, mtu') /\ WindowPart'
<1>1. SearchOK(mtu) /\ WindowPart
  BY Parts
<1>2. StepOK(mtu, mtu)
  BY <1>1 DEF StepOK
<1>3. ASSUME NEW size \in SmallSizes \cup {mtu.last}, Queue(size) \/ Extend(size)
      PROVE  StepOK(mtu, mtu') /\ WindowPart'
  <2>1. size \in Nat
    BY <1>1, MtuAssumption DEF SearchOK, MtuType
  <2> QED BY <1>2, <1>3, <2>1, WriteOK
<1>4. ASSUME NEW q \in SeqNr, Send(q) \/ Resend(q)
      PROVE  StepOK(mtu, mtu') /\ WindowPart'
  BY <1>4, SendStepOK
<1>5. ASSUME NEW n \in 0 .. cur_window_packets, NEW hits \in 0 .. cur_window_packets,
             NEW dup \in BOOLEAN, NEW E \in SUBSET Sent, ProcessAck(n, dup, E, hits)
      PROVE  StepOK(mtu, mtu') /\ WindowPart'
  BY <1>5, ProcessAckOK
<1>6. CASE Timeout
  BY <1>6, TimeoutOK
<1>7. CASE SearchFallsDue
  <2>1. mtu' = [mtu EXCEPT !.due = TRUE]
    BY <1>7 DEF SearchFallsDue
  <2>2. StepOK(mtu, mtu')
    BY <1>1, <2>1 DEF StepOK, SearchOK, MtuType
  <2> QED BY <1>1, <1>7, <2>2 DEF SearchFallsDue, WindowPart, winVars
<1>8. CASE UNCHANGED vars
  BY <1>1, <1>2, <1>8 DEF vars, winVars, WindowPart
<1> QED BY <1>3, <1>4, <1>5, <1>6, <1>7, <1>8 DEF Next

LEMMA Inductive == IInv /\ [Next]_vars => IInv'
<1> SUFFICES ASSUME IInv, [Next]_vars PROVE IInv'
  OBVIOUS
<1>1. SearchOK(mtu') /\ WindowPart'
  BY NextOK DEF StepOK
<1> QED BY <1>1 DEF IInv, TypeOK, RangeSound, SearchOK, WindowPart

\* The invariant holds in every reachable state.
THEOREM Invariance == Spec => []IInv
BY InitOK, Inductive, PTL DEF Spec

-----------------------------------------------------------------------------
(* What it means for the code. *)

\* The packet size stays between the smallest size and the MTU whatever acks,
\* losses and resets the search meets: get_packet_size never underflows.
THEOREM TypeCorrect == Spec => []TypeOK
<1>1. IInv => TypeOK
  BY DEF IInv
<1> QED BY <1>1, Invariance, PTL

\* The range is never inverted and a probe under way always lies inside it: the
\* debug_assert of mtu_search_update holds and its repair is never needed.
THEOREM RangeAlwaysSound == Spec => []RangeSound
<1>1. IInv => RangeSound
  BY DEF IInv
<1> QED BY <1>1, Invariance, PTL

\* A search makes progress with every step it takes and so takes at most
\* udp_mtu - LowEnd of them; only the half-hourly reset widens the range.
THEOREM SearchAlwaysNarrows == Spec => SearchNarrows
<1>1. IInv /\ [Next]_vars =>
        [<<mtu.floor, mtu.ceiling, mtu.last>> # <<mtu'.floor, mtu'.ceiling, mtu'.last>> =>
           \/ mtu.due /\ mtu'.last = mtu.last
           \/ mtu'.ceiling - mtu'.floor < mtu.ceiling - mtu.floor]_vars
  BY NextOK DEF StepOK, Narrower
<1> QED BY <1>1, Invariance, PTL DEF Spec, SearchNarrows

-----------------------------------------------------------------------------
(* The floor has passed.  The probe goes by the number of the last packet of *)
(* the window, which need not be the packet that was sent; the argument is   *)
(* that the packet itself is in the window, no younger than that number,     *)
(* until it is acked.                                                        *)

Age(q) == wrapping_sub(seq_nr, q)

InWindow ==
  /\ DOMAIN outbuf \subseteq {q \in SeqNr : Age(q) \in 1 .. cur_window_packets}
  /\ \A q \in DOMAIN outbuf : outbuf[q].size <= udp_mtu
  /\ passed \in LowEnd .. udp_mtu

\* The packet of a probe: sent, of the probe's size, as old as its number or older.
Carries(q) ==
  q \in Sent /\ outbuf[q].size = mtu.probe_size /\ Age(mtu.probe_seq) \in 1 .. Age(q)

ProbeKnown == mtu.probe_seq # 0 => mtu.probe_size <= passed \/ \E q \in SeqNr : Carries(q)

Passing == IInv /\ InWindow /\ ProbeKnown /\ FloorHasPassed

\* A packet that is written moves everything in the window one number away.
LEMMA QueuePasses ==
  ASSUME Passing, NEW size \in Nat, Queue(size)
  PROVE  (InWindow /\ ProbeKnown /\ FloorHasPassed)'
<1>1. SearchOK(mtu) /\ WindowPart
  BY Parts DEF Passing
<1>2. /\ cur_window_packets < MaxWindow /\ cur_window_packets' = cur_window_packets + 1
      /\ seq_nr' = wrapping_add(seq_nr, 1) /\ mtu' = mtu /\ passed' = passed
      /\ size <= udp_mtu
  BY <1>1, MtuAssumption DEF Queue, SearchOK, MtuType
<1>3. /\ DOMAIN outbuf' = DOMAIN outbuf \cup {seq_nr}
      /\ \A q \in DOMAIN outbuf \ {seq_nr} : outbuf'[q] = outbuf[q]
      /\ outbuf'[seq_nr].size = size
  BY DEF Queue
<1>4. \A q \in SeqNr : Age(q) \in 0 .. cur_window_packets => Age(q)' = Age(q) + 1
  BY <1>1, <1>2, MtuAssumption, SeqModAssumption
     DEF WindowPart, Age, SeqNr, wrapping_sub, wrapping_add
<1>5. seq_nr \in SeqNr /\ Age(seq_nr) = 0
  BY <1>1 DEF WindowPart, Age, SeqNr, wrapping_sub
<1>6. InWindow'
  <2>1. ASSUME NEW q \in DOMAIN outbuf'
        PROVE  q \in SeqNr /\ Age(q)' \in 1 .. cur_window_packets' /\ outbuf'[q].size <= udp_mtu
    <3>1. CASE q = seq_nr
      BY <1>1, <1>2, <1>3, <1>4, <1>5, <3>1 DEF WindowPart
    <3>2. CASE q # seq_nr
      <4>1. q \in DOMAIN outbuf /\ q \in SeqNr /\ Age(q) \in 1 .. cur_window_packets /\ outbuf'[q] = outbuf[q]
        BY <1>3, <2>1, <3>2 DEF Passing, InWindow
      <4>2. Age(q)' = Age(q) + 1
        BY <1>1, <1>4, <4>1 DEF WindowPart
      <4> QED BY <1>1, <1>2, <4>1, <4>2 DEF Passing, InWindow, WindowPart
    <3> QED BY <3>1, <3>2
  <2> QED BY <1>2, <2>1 DEF Passing, InWindow, Age
<1>7. ProbeKnown'
  <2> SUFFICES ASSUME mtu.probe_seq # 0, ~(mtu.probe_size <= passed)
               PROVE  \E q \in SeqNr : Carries(q)'
    BY <1>2 DEF ProbeKnown
  <2>1. PICK q \in SeqNr : Carries(q)
    BY DEF Passing, ProbeKnown
  <2>2. q \in DOMAIN outbuf /\ Age(q) \in 1 .. cur_window_packets /\ q # seq_nr
    BY <1>5, <2>1 DEF Carries, Sent, Passing, InWindow
  <2>3. mtu.probe_seq \in SeqNr
    BY <1>1 DEF SearchOK, MtuType
  <2>4. Age(q)' = Age(q) + 1 /\ Age(mtu.probe_seq)' = Age(mtu.probe_seq) + 1
    <3>1. Age(mtu.probe_seq) \in 0 .. cur_window_packets /\ Age(q) \in 0 .. cur_window_packets
      BY <1>1, <2>1, <2>2 DEF Carries, WindowPart
    <3>2. Age(q)' = Age(q) + 1
      BY <1>4, <2>1, <3>1
    <3>3. wrapping_sub(seq_nr', mtu.probe_seq) = Age(mtu.probe_seq) + 1
      BY <1>4, <2>3, <3>1 DEF Age
    <3> QED BY <1>2, <3>2, <3>3 DEF Age
  <2>5. outbuf'[q] = outbuf[q] /\ q \in DOMAIN outbuf'
    BY <1>3, <2>2
  <2>6. Age(mtu.probe_seq) \in 1 .. Age(q) /\ Age(q) \in Int
    BY <2>1, <2>2 DEF Carries
  <2>7. Carries(q)'
    BY <1>2, <2>1, <2>4, <2>5, <2>6 DEF Carries, Sent, Age
  <2> QED BY <2>7
<1> QED BY <1>2, <1>6, <1>7 DEF Passing, FloorHasPassed

LEMMA ExtendPasses ==
  ASSUME Passing, NEW size \in Nat, Extend(size)
  PROVE  (InWindow /\ ProbeKnown /\ FloorHasPassed)'
<1>1. SearchOK(mtu) /\ WindowPart
  BY Parts DEF Passing
<1>2. /\ outbuf' = [outbuf EXCEPT ![Last].size = size] /\ Last \in DOMAIN outbuf /\ Last \notin Sent
      /\ UNCHANGED <<mtu, seq_nr, cur_window_packets, passed>> /\ size <= udp_mtu
  BY <1>1, MtuAssumption DEF Extend, Extendable, SearchOK, MtuType
<1>3. /\ DOMAIN outbuf' = DOMAIN outbuf /\ \A q \in DOMAIN outbuf \ {Last} : outbuf'[q] = outbuf[q]
      /\ outbuf'[Last].size = size
  BY <1>1, <1>2 DEF WindowPart
<1>4. InWindow'
  BY <1>2, <1>3 DEF Passing, InWindow, Age
<1>5. \A q \in SeqNr : Carries(q) => Carries(q)'
  BY <1>2, <1>3 DEF Carries, Sent, Age
<1> QED BY <1>2, <1>4, <1>5 DEF Passing, ProbeKnown, FloorHasPassed

\* A packet that becomes the probe takes the number of the last one, which is
\* the youngest.
LEMMA SendPasses ==
  ASSUME Passing, NEW q \in SeqNr, Send(q) \/ Resend(q)
  PROVE  (InWindow /\ ProbeKnown /\ FloorHasPassed)'
<1>1. SearchOK(mtu) /\ WindowPart
  BY Parts DEF Passing
<1>2. q \in DOMAIN outbuf /\ send_packet_at(q) /\ UNCHANGED <<seq_nr, cur_window_packets, passed>>
  BY DEF Send, Resend, Sent, send_packet_at
<1>3. /\ DOMAIN outbuf' = DOMAIN outbuf
      /\ \A r \in DOMAIN outbuf : /\ outbuf'[r].size = outbuf[r].size
                                  /\ outbuf'[r].sent <=> outbuf[r].sent \/ r = q
  BY <1>1, <1>2 DEF send_packet_at, WindowPart
<1>4. InWindow'
  BY <1>2, <1>3 DEF Passing, InWindow, Age
<1> DEFINE n == IF mtu.due THEN mtu_reset(mtu) ELSE mtu
<1>5. /\ n \in MtuType /\ n.floor <= passed /\ n.probe_seq = mtu.probe_seq /\ n.probe_size = mtu.probe_size
  <2>1. CASE mtu.due
    <3>1. /\ mtu_reset(mtu) \in MtuType /\ mtu_reset(mtu).floor = LowEnd
          /\ mtu_reset(mtu).probe_seq = mtu.probe_seq /\ mtu_reset(mtu).probe_size = mtu.probe_size
      BY <1>1, LowEndOK DEF SearchOK, MtuType, mtu_reset
    <3>2. LowEnd <= passed
      BY LowEndOK DEF Passing, InWindow
    <3> QED BY <2>1, <3>1, <3>2
  <2>2. CASE ~mtu.due
    BY <1>1, <2>2 DEF SearchOK, Passing, FloorHasPassed
  <2> QED BY <2>1, <2>2
<1>6. mtu' = WithProbe(n, outbuf[q])
  BY <1>2 DEF send_packet_at
<1> HIDE DEF n
<1>7. CASE Probes(n, outbuf[q])
  <2>1. mtu' = [n EXCEPT !.probe_seq = Last, !.probe_size = outbuf[q].size]
    BY <1>6, <1>7 DEF WithProbe
  <2>2. mtu'.probe_seq = Last /\ mtu'.probe_size = outbuf[q].size /\ mtu'.floor = n.floor
    BY <1>5, <2>1 DEF MtuType
  <2>3. Age(Last) = 1
    BY <1>1, SeqModAssumption DEF WindowPart, Age, Last, SeqNr, wrapping_sub
  <2>4. Age(q) \in 1 .. cur_window_packets
    BY <1>2 DEF Passing, InWindow
  <2>5. 1 \in 1 .. Age(q)
    BY <2>4
  <2>6. Carries(q)'
    BY <1>2, <1>3, <2>2, <2>3, <2>5 DEF Carries, Sent, Age
  <2> QED BY <1>2, <1>4, <1>5, <2>2, <2>6 DEF ProbeKnown, FloorHasPassed
<1>8. CASE ~Probes(n, outbuf[q])
  <2>1. mtu' = n
    BY <1>6, <1>8 DEF WithProbe
  <2>2. \A r \in SeqNr : Carries(r) => Carries(r)'
    BY <1>2, <1>3, <1>5, <2>1 DEF Carries, Sent, Age
  <2> QED BY <1>2, <1>4, <1>5, <2>1, <2>2 DEF Passing, ProbeKnown, FloorHasPassed
<1> QED BY <1>7, <1>8

\* The largest size acked so far.
LEMMA PassedOK ==
  ASSUME NEW S, S \subseteq DOMAIN outbuf, InWindow, outbuf \in [DOMAIN outbuf -> [size : Nat, sent : BOOLEAN]]
  PROVE  LET m == Max({passed} \cup {outbuf[q].size : q \in S}) IN
         m \in LowEnd .. udp_mtu /\ m >= passed /\ \A q \in S : outbuf[q].size <= m
<1> DEFINE T == {passed} \cup {outbuf[q].size : q \in S}
<1>1. T \subseteq 0 .. udp_mtu /\ T # {} /\ passed \in T
  <2>1. passed \in 0 .. udp_mtu
    BY LowEndOK DEF InWindow
  <2>2. \A q \in S : outbuf[q].size \in 0 .. udp_mtu
    BY LowEndOK DEF InWindow
  <2> QED BY <2>1, <2>2
<1> HIDE DEF T
<1>2. Max(T) \in T /\ \A y \in T : Max(T) >= y
  <2>1. 0 \in Int /\ udp_mtu \in Int
    BY LowEndOK
  <2> QED BY <1>1, <2>1, IntMax
<1>3. Max(T) \in LowEnd .. udp_mtu /\ Max(T) >= passed
  BY <1>1, <1>2, LowEndOK DEF InWindow
<1>4. \A q \in S : outbuf[q].size \in T
  BY DEF T
<1>5. \A q \in S : outbuf[q].size <= Max(T)
  <2> TAKE q \in S
  <2>1. Max(T) >= outbuf[q].size /\ outbuf[q].size \in Nat
    BY <1>2, <1>4
  <2> QED BY <1>3, <2>1, LowEndOK
<1> QED BY <1>3, <1>5 DEF T

LEMMA AckPasses ==
  ASSUME Passing, NEW n \in 0 .. cur_window_packets, NEW dup \in BOOLEAN, NEW E,
         NEW hits \in 0 .. cur_window_packets, ProcessAck(n, dup, E, hits)
  PROVE  (InWindow /\ ProbeKnown /\ FloorHasPassed)'
<1> DEFINE gone == {q \in DOMAIN outbuf : wrapping_sub(q, Oldest) < n}
           dups == CASE cur_window_packets = 0 -> duplicate_ack
                     [] cur_window_packets > 0 /\ dup -> (duplicate_ack + 1) % DupMod
                     [] OTHER -> 0
           m1 == IF cur_window_packets > 0 /\ dup THEN AfterDuplicate(mtu, dups) ELSE mtu
           waiting == {d \in 1 .. cur_window_packets - n :
                         wrapping_sub(seq_nr, d) \in DOMAIN outbuf}
           left == IF waiting = {} THEN 0 ELSE Max(waiting)
<1>1. SearchOK(mtu) /\ WindowPart /\ InWindow
  BY Parts DEF Passing
<1>2. /\ mtu' = IF m1.probe_seq # 0 /\ m1.probe_seq \in gone THEN ProbePassed(m1) ELSE m1
      /\ cur_window_packets' = left /\ seq_nr' = seq_nr
      /\ outbuf' = [q \in DOMAIN outbuf \ (gone \cup E) |-> outbuf[q]]
      /\ passed' = Max({passed} \cup {outbuf[q].size : q \in gone \cup E})
      /\ gone \subseteq Sent /\ E \subseteq Sent
  BY DEF ProcessAck
<1>3. gone \subseteq DOMAIN outbuf /\ gone \cup E \subseteq DOMAIN outbuf
  BY <1>2 DEF Sent
<1>4. /\ passed' \in LowEnd .. udp_mtu /\ passed' >= passed
      /\ \A q \in gone \cup E : outbuf[q].size <= passed'
  BY <1>1, <1>2, <1>3, PassedOK DEF WindowPart
\* The packets acked in order are the oldest.
<1>5. \A q \in DOMAIN outbuf : q \in gone <=> Age(q) > cur_window_packets - n
  <2> TAKE q \in DOMAIN outbuf
  <2>1. q \in SeqNr /\ Age(q) \in 1 .. cur_window_packets /\ cur_window_packets \in 0 .. MaxWindow
        /\ seq_nr \in SeqNr
    BY <1>1 DEF InWindow, WindowPart
  <2>2. wrapping_sub(q, Oldest) = cur_window_packets - Age(q)
    BY <2>1, MtuAssumption, SeqModAssumption DEF Age, Oldest, SeqNr, wrapping_sub
  <2> QED BY <2>1, <2>2, MtuAssumption
\* What is left is no older than the oldest that still waits.
<1>6. \A q \in DOMAIN outbuf \ gone : Age(q) \in 1 .. left
  <2> TAKE q \in DOMAIN outbuf \ gone
  <2>1. q \in SeqNr /\ Age(q) \in 1 .. cur_window_packets - n /\ cur_window_packets - n \in Int
    BY <1>1, <1>5, MtuAssumption DEF InWindow, WindowPart
  <2>2. wrapping_sub(seq_nr, Age(q)) = q
    BY <1>1, <2>1, SeqModAssumption, MtuAssumption DEF InWindow, WindowPart, Age, SeqNr, wrapping_sub
  <2>3. Age(q) \in waiting
    BY <2>1, <2>2
  <2>4. waiting \subseteq 1 .. cur_window_packets - n
    OBVIOUS
  <2> HIDE DEF waiting
  <2>5. 1 \in Int /\ waiting # {}
    BY <2>3
  <2>6. Max(waiting) \in waiting /\ \A y \in waiting : Max(waiting) >= y
    BY <2>1, <2>4, <2>5, IntMax
  <2> QED BY <2>1, <2>3, <2>4, <2>5, <2>6
<1> HIDE DEF waiting, left, dups
<1>7. InWindow'
  <2>1. ASSUME NEW q \in DOMAIN outbuf'
        PROVE  q \in SeqNr /\ Age(q)' \in 1 .. cur_window_packets' /\ outbuf'[q].size <= udp_mtu
    <3>1. q \in DOMAIN outbuf \ gone /\ outbuf'[q] = outbuf[q]
      BY <1>2, <2>1
    <3> QED BY <1>1, <1>2, <1>6, <3>1 DEF InWindow, Age
  <2> QED BY <1>4, <2>1 DEF InWindow
<1>8. StepOK(mtu, m1) /\ (m1.probe_seq # 0 => m1 = mtu) /\ m1.floor = mtu.floor
  <2>1. StepOK(mtu, mtu)
    BY <1>1 DEF StepOK
  <2>2. AfterDuplicate(mtu, dups).floor = mtu.floor
    <3>1. CASE dups # DUPLICATE_ACKS_BEFORE_RESEND \/ mtu.probe_seq = 0
      BY <3>1 DEF AfterDuplicate
    <3>2. CASE dups = DUPLICATE_ACKS_BEFORE_RESEND /\ mtu.probe_seq # 0 /\ mtu.probe_seq = Oldest
      BY <1>1, <3>2, ProbeLostOK DEF AfterDuplicate
    <3>3. CASE dups = DUPLICATE_ACKS_BEFORE_RESEND /\ mtu.probe_seq # 0 /\ mtu.probe_seq # Oldest
      BY <1>1, <3>3, NoProbeOK DEF AfterDuplicate
    <3> QED BY <3>1, <3>2, <3>3
  <2> QED BY <1>1, <2>1, <2>2, DuplicateOK
<1> HIDE DEF m1
<1>9. CASE m1.probe_seq # 0 /\ m1.probe_seq \in gone
  <2>1. mtu' = ProbePassed(mtu) /\ mtu.probe_seq # 0 /\ mtu.probe_seq \in gone
    BY <1>2, <1>8, <1>9
  <2>2. mtu'.floor = mtu.probe_size /\ mtu'.probe_seq = 0
    BY <1>1, <2>1, ProbePassedOK
  <2>3. mtu.probe_size <= passed'
    <3>1. CASE mtu.probe_size <= passed
      BY <1>1, <1>4, <3>1, LowEndOK DEF InWindow, SearchOK, MtuType
    <3>2. CASE \E q \in SeqNr : Carries(q)
      <4>1. PICK q \in SeqNr : Carries(q)
        BY <3>2
      <4>2. q \in DOMAIN outbuf /\ Age(q) >= Age(mtu.probe_seq) /\ outbuf[q].size = mtu.probe_size
            /\ Age(q) \in Int /\ Age(mtu.probe_seq) \in Int
        BY <1>1, <4>1 DEF Carries, Sent, InWindow
      <4>3. mtu.probe_seq \in DOMAIN outbuf
        BY <1>3, <2>1
      <4>4. Age(mtu.probe_seq) > cur_window_packets - n
        BY <1>5, <2>1, <4>3
      <4>5. q \in gone
        BY <1>1, <1>5, <4>2, <4>4, MtuAssumption DEF WindowPart
      <4> QED BY <1>4, <4>2, <4>5
    <3> QED BY <2>1, <3>1, <3>2 DEF Passing, ProbeKnown
  <2> QED BY <1>7, <2>2, <2>3 DEF ProbeKnown, FloorHasPassed
<1>10. CASE ~(m1.probe_seq # 0 /\ m1.probe_seq \in gone)
  <2>1. mtu' = m1
    BY <1>2, <1>10
  <2>2. mtu'.floor <= passed'
    <3>1. mtu.floor <= passed /\ passed \in Int /\ passed' \in Int /\ mtu.floor \in Int
      BY <1>1, <1>4, LowEndOK DEF Passing, FloorHasPassed, InWindow, SearchOK, MtuType
    <3> QED BY <1>4, <1>8, <2>1, <3>1
  <2>3. ProbeKnown'
    <3> SUFFICES ASSUME mtu'.probe_seq # 0, ~(mtu'.probe_size <= passed')
                 PROVE  \E q \in SeqNr : Carries(q)'
      BY DEF ProbeKnown
    <3>1. mtu' = mtu
      BY <1>8, <2>1
    <3>2. ~(mtu.probe_size <= passed)
      BY <1>1, <1>4, <3>1, LowEndOK DEF InWindow, SearchOK, MtuType
    <3>3. PICK q \in SeqNr : Carries(q)
      BY <3>1, <3>2 DEF Passing, ProbeKnown
    <3>4. q \notin gone \cup E
      BY <1>4, <3>1, <3>3 DEF Carries
    <3>5. Carries(q)'
      BY <1>2, <3>1, <3>3, <3>4 DEF Carries, Sent, Age
    <3> QED BY <3>5
  <2> QED BY <1>7, <2>2, <2>3 DEF FloorHasPassed
<1> QED BY <1>9, <1>10

LEMMA TimeoutPasses ==
  ASSUME Passing, Timeout
  PROVE  (InWindow /\ ProbeKnown /\ FloorHasPassed)'
<1>1. SearchOK(mtu)
  BY Parts DEF Passing
<1>2. UNCHANGED <<seq_nr, cur_window_packets, outbuf, passed>>
  BY DEF Timeout, winVars
<1>3. mtu'.probe_seq = 0 /\ mtu'.floor = mtu.floor
  <2>1. CASE ProbeAlone
    <3>1. SearchOK(ProbeLost(mtu)) /\ ProbeLost(mtu).floor = mtu.floor /\ mtu' = NoProbe(ProbeLost(mtu))
      BY <1>1, <2>1, ProbeLostOK DEF Timeout, ProbeAlone
    <3>2. NoProbe(ProbeLost(mtu)).probe_seq = 0
      BY <3>1 DEF NoProbe, SearchOK, MtuType
    <3> QED BY <3>1, <3>2, NoProbeOK
  <2>2. CASE ~ProbeAlone
    <3>1. mtu' = NoProbe(mtu)
      BY <2>2 DEF Timeout
    <3>2. NoProbe(mtu).probe_seq = 0
      BY <1>1 DEF NoProbe, SearchOK, MtuType
    <3> QED BY <1>1, <3>1, <3>2, NoProbeOK
  <2> QED BY <2>1, <2>2
<1> QED BY <1>2, <1>3 DEF Passing, InWindow, Age, ProbeKnown, FloorHasPassed

LEMMA InitPasses == Init => Passing
<1> SUFFICES ASSUME Init PROVE Passing
  OBVIOUS
<1>1. mtu.probe_seq = 0 /\ mtu.floor = LowEnd /\ passed = LowEnd /\ DOMAIN outbuf = {}
  BY DEF Init
<1> QED BY <1>1, InitOK, LowEndOK DEF Passing, InWindow, ProbeKnown, FloorHasPassed

LEMMA NextPasses == Passing /\ [Next]_vars => Passing'
<1> SUFFICES ASSUME Passing, [Next]_vars PROVE (InWindow /\ ProbeKnown /\ FloorHasPassed)'
  BY Inductive DEF Passing
<1>1. ASSUME NEW size \in SmallSizes \cup {mtu.last}, Queue(size) \/ Extend(size)
      PROVE  (InWindow /\ ProbeKnown /\ FloorHasPassed)'
  <2>1. size \in Nat
    BY Parts, MtuAssumption DEF Passing, SearchOK, MtuType
  <2> QED BY <1>1, <2>1, QueuePasses, ExtendPasses
<1>2. ASSUME NEW q \in SeqNr, Send(q) \/ Resend(q)
      PROVE  (InWindow /\ ProbeKnown /\ FloorHasPassed)'
  BY <1>2, SendPasses
<1>3. ASSUME NEW n \in 0 .. cur_window_packets, NEW hits \in 0 .. cur_window_packets,
             NEW dup \in BOOLEAN, NEW E \in SUBSET Sent, ProcessAck(n, dup, E, hits)
      PROVE  (InWindow /\ ProbeKnown /\ FloorHasPassed)'
  BY <1>3, AckPasses
<1>4. CASE Timeout
  BY <1>4, TimeoutPasses
<1>5. CASE SearchFallsDue \/ UNCHANGED vars
  <2>1. SearchOK(mtu)
    BY Parts DEF Passing
  <2>2. /\ mtu'.floor = mtu.floor /\ mtu'.probe_seq = mtu.probe_seq /\ mtu'.probe_size = mtu.probe_size
        /\ UNCHANGED <<seq_nr, cur_window_packets, outbuf, passed>>
    BY <1>5, <2>1 DEF SearchFallsDue, vars, winVars, SearchOK, MtuType
  <2>3. \A q \in SeqNr : Carries(q) => Carries(q)'
    BY <2>2 DEF Carries, Sent, Age
  <2> QED BY <2>2, <2>3 DEF Passing, InWindow, Age, ProbeKnown, FloorHasPassed
<1> QED BY <1>1, <1>2, <1>3, <1>4, <1>5 DEF Next

\* The floor of the search is a size that the peer has acked, or the smallest,
\* though a probe is filed under the number of another packet: where
\* mtu_search_update settles is a size that goes through.
THEOREM FloorAlwaysPassed == Spec => []FloorHasPassed
<1>1. Passing => FloorHasPassed
  BY DEF Passing
<1> QED BY <1>1, InitPasses, NextPasses, PTL DEF Spec

-----------------------------------------------------------------------------
(* The congestion window. *)

LEMMA WindowMinMax == \A S : Window!Min(S) = Min(S) /\ Window!Max(S) = Max(S)
BY DEF Window!Min, Window!Max, Min, Max

\* The invariant: the bounds, and what the fields are.
WInv ==
  /\ max_window \in Nat /\ ssthresh \in Nat
  /\ opt_sndbuf \in SendBuffers /\ target_delay \in Targets /\ packet_size \in PacketSizes
  /\ panicked \in BOOLEAN
  /\ WindowInBounds

LEMMA WindowConstants ==
  /\ MIN_WINDOW_SIZE \in Nat \ {0} /\ MAX_CWND_INCREASE_BYTES_PER_RTT \in Nat
  /\ CCONTROL_TARGET \in Nat \ {0} /\ Targets \subseteq Nat /\ Delays \subseteq Nat
  /\ SendBuffers \subseteq Nat \ {0} /\ MaxAcked \in Nat
  /\ PacketSizes \subseteq Nat /\ \A p \in PacketSizes : p >= MIN_WINDOW_SIZE
  /\ \E most \in PacketSizes : \A p \in PacketSizes : p <= most
BY ComponentAssumptions DEF Window!LedbatAssumption

LargestWindow == Max({opt_sndbuf} \cup PacketSizes)

LEMMA LargestIsThere ==
  ASSUME opt_sndbuf \in SendBuffers
  PROVE  /\ LargestWindow \in Nat /\ LargestWindow >= opt_sndbuf
         /\ \A p \in PacketSizes : p <= LargestWindow
<1>1. PICK most \in PacketSizes : \A p \in PacketSizes : p <= most
  BY WindowConstants
<1>2. opt_sndbuf \in Nat /\ most \in Nat /\ PacketSizes \subseteq Nat
  BY <1>1, WindowConstants
<1> DEFINE S == {opt_sndbuf} \cup PacketSizes
           top == IF opt_sndbuf > most THEN opt_sndbuf ELSE most
<1>3. S \subseteq 0 .. top /\ S # {} /\ top \in Int /\ 0 \in Int
  BY <1>1, <1>2
<1>4. Max(S) \in S /\ \A y \in S : Max(S) >= y
  <2> HIDE DEF S, top
  <2> QED BY <1>3, IntMax
<1>5. Max(S) \in Nat
  BY <1>2, <1>4
<1> QED BY <1>2, <1>4, <1>5 DEF LargestWindow

\* The bounds, without Max.
LEMMA BoundsParts ==
  WindowInBounds <=> /\ max_window >= MIN_WINDOW_SIZE
                     /\ ~panicked => max_window <= LargestWindow
BY WindowMinMax DEF WindowInBounds, Window!WindowInBounds, LargestWindow

\* window_factor's two parts.
LEMMA LesserGreater ==
  ASSUME WInv, NEW acked \in 1 .. MaxAcked
  PROVE  Window!Lesser(acked) \in Nat /\ Window!Greater(acked) \in Nat \ {0}
<1> DEFINE l == Window!Lesser(acked)
           g == Window!Greater(acked)
<1>1. acked \in Nat \ {0} /\ acked \in Int /\ max_window \in Nat \ {0} /\ max_window \in Int
  BY WindowConstants, BoundsParts DEF WInv
<1>2. l = Min({acked, max_window}) /\ g = Max({acked, max_window})
  BY WindowMinMax DEF Window!Lesser, Window!Greater
<1> HIDE DEF l, g
<1>3. l \in {acked, max_window}
  BY <1>1, <1>2, MinOfTwo
<1>4. g \in {acked, max_window}
  BY <1>1, <1>2, MaxOfTwo
<1> QED BY <1>1, <1>3, <1>4 DEF l, g

\* What apply_ccontrol makes of the window before it is clamped: at least the
\* minimum; no larger over the target, no smaller under it.
LEMMA LedbatSteers ==
  ASSUME WInv, NEW acked \in 1 .. MaxAcked, NEW delay \in Delays,
         NEW w, w = Window!ledbat_cwnd(acked, delay)
  PROVE  /\ w \in Nat /\ w >= MIN_WINDOW_SIZE
         /\ delay >= Window!target => w <= max_window
         /\ delay <= Window!target => w >= max_window
<1> DEFINE l == Window!Lesser(acked)
           g == Window!Greater(acked)
           t == Window!target
           gain == Window!Gain(acked, delay)
           under == g * t
           sum == max_window * under + gain
<1>1. /\ max_window \in Nat /\ max_window >= MIN_WINDOW_SIZE /\ acked \in Nat /\ delay \in Nat
      /\ MIN_WINDOW_SIZE \in Nat \ {0} /\ acked > 0
  BY WindowConstants, BoundsParts DEF WInv
<1>2. t \in Nat \ {0}
  BY WindowConstants DEF WInv, Window!target
<1>3. l \in Nat /\ g \in Nat \ {0}
  BY LesserGreater
<1>4. gain = IF delay < t /\ ~maxed_out THEN 0
             ELSE MAX_CWND_INCREASE_BYTES_PER_RTT * l * (t - delay)
  BY DEF Window!Gain
<1>5. w = IF sum < MIN_WINDOW_SIZE * under THEN MIN_WINDOW_SIZE ELSE sum \div under
  BY DEF Window!ledbat_cwnd
<1> HIDE DEF l, g, t, gain
<1>6. MAX_CWND_INCREASE_BYTES_PER_RTT * l \in Nat
  BY <1>3, WindowConstants
<1>7. gain \in Int /\ (delay >= t => gain <= 0) /\ (delay <= t => gain >= 0)
  <2> DEFINE a == MAX_CWND_INCREASE_BYTES_PER_RTT * l
  <2>1. gain = 0 \/ gain = a * (t - delay)
    BY <1>4
  <2> HIDE DEF a
  <2>2. a \in Nat
    BY <1>6 DEF a
  <2>3. delay >= t => a * (t - delay) <= 0
    <3> SUFFICES ASSUME delay >= t PROVE a * (t - delay) <= 0
      OBVIOUS
    <3>1. PICK i \in Nat : delay - t = i
      BY <1>1, <1>2
    <3>2. a * (t - delay) = -(a * i) /\ a * i \in Nat
      BY <1>1, <1>2, <2>2, <3>1
    <3> QED BY <3>2
  <2>4. delay <= t => a * (t - delay) >= 0
    <3> SUFFICES ASSUME delay <= t PROVE a * (t - delay) >= 0
      OBVIOUS
    <3>1. PICK i \in Nat : t - delay = i
      BY <1>1, <1>2
    <3> QED BY <2>2, <3>1
  <2>5. a * (t - delay) \in Int
    BY <1>1, <1>2, <2>2
  <2> QED BY <2>1, <2>3, <2>4, <2>5
<1>8. under \in Nat \ {0}
  BY <1>2, <1>3
<1> HIDE DEF under
<1>9. sum \in Int /\ max_window * under \in Int
  BY <1>1, <1>7, <1>8
<1>10. /\ sum \div under \in Int
       /\ sum >= MIN_WINDOW_SIZE * under => sum \div under >= MIN_WINDOW_SIZE
       /\ sum >= max_window * under => sum \div under >= max_window
       /\ sum <= max_window * under => sum \div under <= max_window
  <2> HIDE DEF sum
  <2> QED BY <1>1, <1>8, <1>9, DivSides
<1>11. max_window * under >= MIN_WINDOW_SIZE * under /\ MIN_WINDOW_SIZE * under \in Int
  <2>1. PICK i \in Nat : max_window = MIN_WINDOW_SIZE + i
    BY <1>1
  <2>2. (MIN_WINDOW_SIZE + i) * under = MIN_WINDOW_SIZE * under + i * under /\ i * under \in Nat
    BY <1>1, <1>8, <2>1
  <2>3. MIN_WINDOW_SIZE * under \in Int
    BY <1>1, <1>8
  <2> QED BY <2>1, <2>2, <2>3
<1>12. /\ gain >= 0 => sum >= max_window * under
       /\ gain <= 0 => sum <= max_window * under
  BY <1>7, <1>9
<1> HIDE DEF sum
<1>13. w \in Nat /\ w >= MIN_WINDOW_SIZE
  BY <1>1, <1>5, <1>9, <1>10, <1>11
<1>14. delay >= t => w <= max_window
  BY <1>1, <1>5, <1>7, <1>10, <1>12
<1>15. delay <= t => w >= max_window
  BY <1>1, <1>5, <1>7, <1>9, <1>10, <1>11, <1>12
<1> QED BY <1>13, <1>14, <1>15 DEF t

LEMMA SlowStartStep ==
  ASSUME WInv, NEW acked \in 1 .. MaxAcked, NEW w, w = Window!ss_cwnd(acked)
  PROVE  w \in Nat /\ w >= max_window
<1> DEFINE l == Window!Lesser(acked)
           g == Window!Greater(acked)
<1>1. max_window \in Nat /\ acked \in Nat \ {0} /\ packet_size \in Nat
  BY WindowConstants DEF WInv
<1>2. l \in Nat /\ g \in Nat \ {0}
  BY LesserGreater
<1>3. w = max_window + (l * packet_size) \div g
  BY DEF Window!ss_cwnd
<1> HIDE DEF l, g
<1>4. l * packet_size \in Nat /\ l * packet_size >= 0 * g
  BY <1>1, <1>2
<1>5. (l * packet_size) \div g \in Int /\ (l * packet_size) \div g >= 0
  <2> DEFINE s == l * packet_size
  <2> HIDE DEF s
  <2>1. s \in Int /\ s >= 0 * g
    BY <1>4 DEF s
  <2>2. s \div g \in Int /\ s \div g >= 0
    BY <1>2, <2>1, DivSides
  <2> QED BY <2>2 DEF s
<1> QED BY <1>1, <1>3, <1>5

\* The same for the controller as a whole.
LEMMA ControllerSteers ==
  ASSUME WInv, NEW acked \in 1 .. MaxAcked, NEW delay \in Delays,
         NEW c, c = Window!Controlled(acked, delay)
  PROVE  /\ c.w \in Nat /\ c.w >= MIN_WINDOW_SIZE /\ c.thresh \in Nat
         /\ delay >= Window!target => c.w <= max_window
         /\ delay <= Window!target => c.w >= max_window
<1> DEFINE t == Window!target
           lw == Window!ledbat_cwnd(acked, delay)
           sw == Window!ss_cwnd(acked)
<1>1. /\ max_window \in Nat /\ max_window >= MIN_WINDOW_SIZE /\ ssthresh \in Nat
      /\ delay \in Nat /\ MIN_WINDOW_SIZE \in Nat
  BY WindowConstants, BoundsParts DEF WInv
<1>2. t \in Nat \ {0}
  BY WindowConstants DEF WInv, Window!target
<1>3. /\ lw \in Nat /\ lw >= MIN_WINDOW_SIZE
      /\ delay >= t => lw <= max_window
      /\ delay <= t => lw >= max_window
  BY LedbatSteers
<1>4. sw \in Nat /\ sw >= max_window
  BY SlowStartStep
<1> HIDE DEF t, lw, sw
<1>5. CASE ~slow_start
  <2>1. c.w = lw /\ c.thresh = ssthresh
    BY <1>5 DEF Window!Controlled, lw
  <2> QED BY <1>1, <1>3, <2>1 DEF t
<1>6. CASE slow_start
  <2>1. c = Window!SlowStart(acked, delay)
    BY <1>6 DEF Window!Controlled
  <2>2. CASE sw > ssthresh
    <3>1. c.w = max_window /\ c.thresh = ssthresh
      BY <1>1, <1>4, <2>1, <2>2 DEF Window!SlowStart, sw
    <3> QED BY <1>1, <1>2, <3>1 DEF t
  <2>3. CASE sw <= ssthresh /\ 10 * delay > 9 * t
    <3>1. c.w = max_window /\ c.thresh = max_window
      BY <1>1, <1>4, <2>1, <2>3 DEF Window!SlowStart, Window!NearTarget, sw, t
    <3> QED BY <1>1, <1>2, <3>1 DEF t
  <2>4. CASE sw <= ssthresh /\ ~(10 * delay > 9 * t)
    <3>1. c.w = Max({sw, lw}) /\ c.thresh = ssthresh
      BY <1>1, <1>4, <2>1, <2>4, WindowMinMax DEF Window!SlowStart, Window!NearTarget, sw, lw, t
    <3>2. sw \in Int /\ lw \in Int
      BY <1>3, <1>4
    <3>3. c.w \in {sw, lw} /\ c.w >= sw
      BY <3>1, <3>2, MaxOfTwo
    <3>4. ~(delay >= t)
      BY <1>1, <1>2, <2>4
    <3> QED BY <1>1, <1>3, <1>4, <3>1, <3>3, <3>4 DEF t
  <2>5. sw > ssthresh \/ sw <= ssthresh
    BY <1>1, <1>4
  <2> QED BY <2>2, <2>3, <2>4, <2>5
<1> QED BY <1>5, <1>6

LEMMA ClampedIsBetween ==
  ASSUME NEW w \in Nat, NEW v, v = Window!Clamped(w),
         opt_sndbuf \in SendBuffers, MIN_WINDOW_SIZE <= opt_sndbuf
  PROVE  /\ v \in Nat /\ v >= MIN_WINDOW_SIZE /\ v <= opt_sndbuf
         /\ w >= MIN_WINDOW_SIZE => v <= w /\ v = Min({w, opt_sndbuf})
<1> DEFINE u == Max({w, MIN_WINDOW_SIZE})
<1>1. MIN_WINDOW_SIZE \in Int /\ w \in Int /\ opt_sndbuf \in Nat /\ opt_sndbuf \in Int /\ MIN_WINDOW_SIZE \in Nat
  BY WindowConstants
<1>2. v = Min({u, opt_sndbuf})
  BY WindowMinMax DEF Window!Clamped
<1>3. u \in {w, MIN_WINDOW_SIZE} /\ u >= w /\ u >= MIN_WINDOW_SIZE
  BY <1>1, MaxOfTwo
<1> HIDE DEF u
<1>4. u \in Int
  BY <1>1, <1>3
<1>5. v \in {u, opt_sndbuf} /\ v <= u /\ v <= opt_sndbuf
  BY <1>1, <1>2, <1>4, MinOfTwo
<1>6. w >= MIN_WINDOW_SIZE => u = w
  BY <1>1, <1>3
<1> QED BY <1>1, <1>2, <1>3, <1>5, <1>6

\* An ack: the bounds hold, and the window goes the way the delay says.
LEMMA AckStep ==
  ASSUME WInv, NEW acked \in 1 .. MaxAcked, NEW delay \in Delays, Window!apply_ccontrol(acked, delay)
  PROVE  /\ WInv'
         /\ delay >= Window!target => max_window' <= max_window
         /\ delay <= Window!target => max_window' >= Min({max_window, opt_sndbuf})
<1> DEFINE c == Window!Controlled(acked, delay)
           t == Window!target
<1>1. /\ max_window' = IF Window!ClampPanics THEN c.w ELSE Window!Clamped(c.w)
      /\ ssthresh' = c.thresh /\ panicked' = Window!ClampPanics
      /\ UNCHANGED <<opt_sndbuf, target_delay, packet_size>>
  BY DEF Window!apply_ccontrol, Window!settings
<1>2. /\ c.w \in Nat /\ c.w >= MIN_WINDOW_SIZE /\ c.thresh \in Nat
      /\ delay >= t => c.w <= max_window
      /\ delay <= t => c.w >= max_window
  BY ControllerSteers
<1> HIDE DEF c, t
<1>3. /\ max_window \in Nat /\ max_window >= MIN_WINDOW_SIZE /\ opt_sndbuf \in SendBuffers
      /\ MIN_WINDOW_SIZE \in Nat /\ opt_sndbuf \in Nat
      /\ target_delay \in Targets /\ packet_size \in PacketSizes
  BY WindowConstants, BoundsParts DEF WInv
<1>4. Min({max_window, opt_sndbuf}) <= max_window /\ Min({max_window, opt_sndbuf}) <= opt_sndbuf
  BY <1>3, MinOfTwo
<1>4a. Min({max_window, opt_sndbuf}) \in Nat
  BY <1>3, MinOfTwo
<1>5. LargestWindow \in Nat /\ LargestWindow >= opt_sndbuf /\ LargestWindow' = LargestWindow
  BY <1>1, <1>3, LargestIsThere DEF LargestWindow
<1>6. CASE MIN_WINDOW_SIZE > opt_sndbuf
  <2>1. max_window' = c.w /\ panicked' = TRUE
    BY <1>1, <1>6 DEF Window!ClampPanics
  <2>2. WindowInBounds'
    BY <1>2, <2>1 DEF WindowInBounds, Window!WindowInBounds
  <2>3. WInv'
    BY <1>1, <1>2, <1>3, <2>1, <2>2 DEF WInv
  <2> QED BY <1>2, <1>3, <1>4, <1>4a, <2>1, <2>3 DEF t
<1>7. CASE ~(MIN_WINDOW_SIZE > opt_sndbuf)
  <2>0. ~Window!ClampPanics
    BY <1>7 DEF Window!ClampPanics
  <2>1. max_window' = Window!Clamped(c.w) /\ ~panicked'
    BY <1>1, <2>0
  <2>2. MIN_WINDOW_SIZE <= opt_sndbuf
    BY <1>3, <1>7
  <2>3. /\ max_window' \in Nat /\ max_window' >= MIN_WINDOW_SIZE /\ max_window' <= opt_sndbuf
        /\ max_window' <= c.w /\ max_window' = Min({c.w, opt_sndbuf})
    BY <1>2, <1>3, <2>1, <2>2, ClampedIsBetween
  <2>4. max_window' \in {c.w, opt_sndbuf}
    BY <1>2, <1>3, <2>3, MinOfTwo
  <2>5. max_window' <= LargestWindow'
    BY <1>3, <1>5, <2>3
  <2>6. WindowInBounds'
    <3>1. (WindowInBounds <=> /\ max_window >= MIN_WINDOW_SIZE
                              /\ ~panicked => max_window <= LargestWindow)'
      BY BoundsParts, PTL
    <3> QED BY <2>3, <2>5, <3>1
  <2>7a. panicked' \in BOOLEAN
    BY <1>1 DEF Window!ClampPanics
  <2>7. WInv'
    BY <1>1, <1>2, <1>3, <2>1, <2>3, <2>6, <2>7a DEF WInv
  <2>8. delay >= t => max_window' <= max_window
    BY <1>2, <1>3, <2>3
  <2>9. delay <= t => max_window' >= Min({max_window, opt_sndbuf})
    BY <1>2, <1>3, <1>4, <1>4a, <2>4
  <2> QED BY <2>7, <2>8, <2>9 DEF t
<1> QED BY <1>6, <1>7

\* The steps other than acks.
LEMMA BoundsKept ==
  ASSUME WInv, max_window' \in Nat, max_window' >= MIN_WINDOW_SIZE,
         max_window' <= LargestWindow, ssthresh' \in Nat, packet_size' \in PacketSizes,
         UNCHANGED <<opt_sndbuf, target_delay, panicked>>
  PROVE  WInv'
<1>1. LargestWindow' = LargestWindow
  BY DEF LargestWindow
<1>2. (WindowInBounds <=> /\ max_window >= MIN_WINDOW_SIZE
                          /\ ~panicked => max_window <= LargestWindow)'
  BY BoundsParts, PTL
<1> QED BY <1>1, <1>2 DEF WInv

LEMMA WindowFacts ==
  ASSUME WInv
  PROVE  /\ max_window \in Nat /\ max_window >= MIN_WINDOW_SIZE /\ ssthresh \in Nat
         /\ ~panicked => max_window <= LargestWindow
         /\ MIN_WINDOW_SIZE \in Nat /\ LargestWindow \in Nat
         /\ packet_size \in Nat /\ packet_size \in PacketSizes
         /\ packet_size >= MIN_WINDOW_SIZE /\ packet_size <= LargestWindow
<1>1. packet_size \in PacketSizes /\ opt_sndbuf \in SendBuffers
  BY DEF WInv
<1> QED BY <1>1, WindowConstants, BoundsParts, LargestIsThere DEF WInv

LEMMA LossStep ==
  ASSUME WInv, Window!maybe_decay_win
  PROVE  WInv'
<1> DEFINE m == max_window \div 2
           half == Max({m, MIN_WINDOW_SIZE})
<1>1. /\ ~panicked /\ max_window' = half /\ ssthresh' = half
      /\ UNCHANGED <<opt_sndbuf, target_delay, packet_size, panicked>>
  BY WindowMinMax DEF Window!maybe_decay_win, Window!Halved, Window!settings
<1>2. m \in Nat /\ m <= max_window /\ MIN_WINDOW_SIZE \in Nat
  BY WindowFacts
<1> HIDE DEF m
<1>2a. m \in Int /\ MIN_WINDOW_SIZE \in Int
  BY <1>2
<1>3. half \in {m, MIN_WINDOW_SIZE} /\ half >= MIN_WINDOW_SIZE
  BY <1>2a, MaxOfTwo
<1> HIDE DEF half
<1>4. half \in Nat /\ half <= LargestWindow
  BY <1>1, <1>2, <1>3, WindowFacts
<1> QED BY <1>1, <1>3, <1>4, WindowFacts, BoundsKept

LEMMA TimerStep ==
  ASSUME WInv, NEW idle \in BOOLEAN, Window!Timeout(idle)
  PROVE  WInv'
<1> DEFINE m == (max_window * 2) \div 3
           v == Max({m, packet_size})
<1>1. /\ ~panicked /\ max_window' \in {v, packet_size} /\ ssthresh' = ssthresh
      /\ UNCHANGED <<opt_sndbuf, target_delay, packet_size, panicked>>
  BY WindowMinMax DEF Window!Timeout, Window!settings
<1>2. m \in Int /\ m <= max_window /\ packet_size \in Int
  BY WindowFacts
<1> HIDE DEF m
<1>3. v \in {m, packet_size} /\ v >= packet_size
  BY <1>2, MaxOfTwo
<1> HIDE DEF v
<1>4. /\ max_window' \in Nat /\ max_window' >= MIN_WINDOW_SIZE /\ max_window' <= LargestWindow
  BY <1>1, <1>2, <1>3, WindowFacts
<1> QED BY <1>1, <1>4, WindowFacts, BoundsKept

LEMMA EnvironmentStep ==
  ASSUME WInv, Window!Environment
  PROVE  WInv'
<1>1. /\ ~panicked /\ packet_size' \in PacketSizes
      /\ UNCHANGED <<max_window, ssthresh, opt_sndbuf, target_delay, panicked>>
  BY WindowFacts DEF Window!Environment, Window!settings, Window!windowVars
<1> QED BY <1>1, WindowFacts, BoundsKept

LEMMA WindowInit == Window!Init => WInv
<1> SUFFICES ASSUME Window!Init
             PROVE  WInv
  OBVIOUS
<1>1. /\ opt_sndbuf \in SendBuffers /\ target_delay \in Targets /\ packet_size \in PacketSizes
      /\ max_window = packet_size /\ ssthresh = opt_sndbuf /\ panicked = FALSE
  BY DEF Window!Init
<1>2. max_window >= MIN_WINDOW_SIZE /\ max_window <= LargestWindow /\ max_window \in Nat /\ ssthresh \in Nat
  BY <1>1, WindowConstants, LargestIsThere
<1> QED BY <1>1, <1>2, BoundsParts DEF WInv

LEMMA WindowStep ==
  ASSUME WInv, [Window!Next]_(Window!vars)
  PROVE  WInv'
<1>1. CASE \E acked \in 1 .. MaxAcked, delay \in Delays : Window!apply_ccontrol(acked, delay)
  BY <1>1, AckStep
<1>2. CASE Window!maybe_decay_win
  BY <1>2, LossStep
<1>3. CASE \E idle \in BOOLEAN : Window!Timeout(idle)
  BY <1>3, TimerStep
<1>4. CASE Window!Environment
  BY <1>4, EnvironmentStep
<1>5. CASE UNCHANGED Window!vars
  <2>1. UNCHANGED <<max_window, ssthresh, opt_sndbuf, target_delay, packet_size, panicked>>
    BY <1>5 DEF Window!vars, Window!windowVars, Window!settings
  <2> QED BY <2>1 DEF WInv, WindowInBounds, Window!WindowInBounds
<1> QED BY <1>1, <1>2, <1>3, <1>4, <1>5 DEF Window!Next

\* Whatever acks, losses, timeouts and idle periods follow one another, the
\* congestion window never falls below MIN_WINDOW_SIZE, and exceeds the send
\* buffer by a timeout's packet at most (apply_ccontrol, maybe_decay_win,
\* check_timeouts).
THEOREM WindowStaysInBounds == Window!Spec => []WindowInBounds
<1>1. WInv => WindowInBounds
  BY DEF WInv
<1>2. WInv /\ [Window!Next]_(Window!vars) => WInv'
  BY WindowStep
<1> QED BY <1>1, <1>2, WindowInit, PTL DEF Window!Spec

\* apply_ccontrol: over the target delay an ack never enlarges the window, slow
\* start included, and under it an ack never makes it smaller.
THEOREM AcksSteerByDelay == Window!Spec => SteersByDelay
<1> DEFINE Steered ==
             event'.kind = "ack" =>
               /\ event'.delay >= Window!target => max_window' <= max_window
               /\ event'.delay <= Window!target => max_window' >= Window!Min({max_window, opt_sndbuf})
<1>1. WInv /\ [Window!Next]_(Window!vars) => [Steered]_(Window!vars)
  <2> SUFFICES ASSUME WInv, Window!Next, event'.kind = "ack"
               PROVE  /\ event'.delay >= Window!target => max_window' <= max_window
                      /\ event'.delay <= Window!target =>
                           max_window' >= Window!Min({max_window, opt_sndbuf})
    OBVIOUS
  <2>1. \A kind : [Window!Other EXCEPT !.kind = kind].kind = kind
    BY DEF Window!Other
  <2>2. Window!Other.kind = "other"
    BY DEF Window!Other
  <2>3. PICK acked \in 1 .. MaxAcked, delay \in Delays : Window!apply_ccontrol(acked, delay)
    BY <2>1, <2>2 DEF Window!Next, Window!maybe_decay_win, Window!Timeout, Window!Environment
  <2>4. event'.delay = delay
    BY <2>3 DEF Window!apply_ccontrol
  <2> QED BY <2>3, <2>4, AckStep, WindowMinMax
<1>2. WInv /\ [Window!Next]_(Window!vars) => WInv'
  BY WindowStep
<1> QED BY <1>1, <1>2, WindowInit, PTL DEF Window!Spec, SteersByDelay, Window!SteersByDelay

-----------------------------------------------------------------------------
(* The delay history. *)

LEMMA HistoryConstants ==
  /\ HistMod \in Nat /\ CUR_DELAY_SIZE \in Nat \ {0} /\ DELAY_BASE_HISTORY \in Nat \ {0}
  /\ Span \in Nat /\ 2 * Span < HistMod /\ HistOrigins \subseteq 0 .. HistMod - 1
BY ComponentAssumptions DEF History!DelayAssumption

LEMMA HistoryMin == \A S : History!Min(S) = Min(S)
BY DEF History!Min, Min

\* The stamp of the true delay d.
Stamp(d) == History!T!wrapping_add(origin, d)

LEMMA StampParts ==
  ASSUME origin \in HistOrigins, NEW d \in 0 .. Span
  PROVE  /\ Stamp(d) = (IF origin + d >= HistMod THEN origin + d - HistMod ELSE origin + d)
         /\ Stamp(d) \in 0 .. HistMod - 1
         /\ origin \in 0 .. HistMod - 1 /\ HistMod \in Nat /\ Span \in Nat /\ 2 * Span < HistMod
<1>1. Stamp(d) = IF origin + d >= HistMod THEN origin + d - HistMod ELSE origin + d
  BY DEF Stamp, History!T!wrapping_add
<1>2. origin \in 0 .. HistMod - 1
  BY HistoryConstants
<1> QED BY <1>1, <1>2, HistoryConstants

\* Stamps compare, subtract and shift as the true delays do, since these are less
\* than half the clock's range apart.
LEMMA StampsCompare ==
  ASSUME origin \in HistOrigins, NEW a \in 0 .. Span, NEW b \in 0 .. Span
  PROVE  /\ History!Lower(Stamp(a), Stamp(b)) = IF a < b THEN Stamp(a) ELSE Stamp(b)
         /\ a >= b => History!T!wrapping_sub(Stamp(a), Stamp(b)) = a - b
<1> DEFINE x == Stamp(a)
           y == Stamp(b)
<1>1. /\ x = (IF origin + a >= HistMod THEN origin + a - HistMod ELSE origin + a)
      /\ y = (IF origin + b >= HistMod THEN origin + b - HistMod ELSE origin + b)
      /\ x \in 0 .. HistMod - 1 /\ y \in 0 .. HistMod - 1
      /\ origin \in 0 .. HistMod - 1 /\ HistMod \in Nat /\ Span \in Nat /\ 2 * Span < HistMod
  BY StampParts
<1>2. /\ History!T!wrapping_sub(x, y) = (IF x >= y THEN x - y ELSE x - y + HistMod)
      /\ History!T!wrapping_sub(y, x) = (IF y >= x THEN y - x ELSE y - x + HistMod)
  BY DEF History!T!wrapping_sub
<1>3. History!Lower(x, y) =
        IF History!T!wrapping_sub(y, x) < History!T!wrapping_sub(x, y) THEN x ELSE y
  BY DEF History!Lower, History!T!wrapping_compare_less
<1> HIDE DEF x, y
<1>4. a >= b => History!T!wrapping_sub(x, y) = a - b
  BY <1>1, <1>2
<1>5. a < b => History!T!wrapping_sub(y, x) < History!T!wrapping_sub(x, y)
  BY <1>1, <1>2
<1>6. a >= b => ~(History!T!wrapping_sub(y, x) < History!T!wrapping_sub(x, y))
  BY <1>1, <1>2
<1> QED BY <1>3, <1>4, <1>5, <1>6 DEF x, y

LEMMA StampsShift ==
  ASSUME origin \in HistOrigins, NEW d \in 0 .. Span, NEW offset \in 1 .. Span, d + offset <= Span
  PROVE  History!T!wrapping_add(Stamp(d), offset) = Stamp(d + offset)
<1>1. d + offset \in 0 .. Span
  BY HistoryConstants
<1>2. History!T!wrapping_add(Stamp(d), offset) =
        IF Stamp(d) + offset >= HistMod THEN Stamp(d) + offset - HistMod ELSE Stamp(d) + offset
  BY DEF History!T!wrapping_add
<1> QED BY <1>1, <1>2, StampParts

\* What the recursive search for the lowest slot computes: if a function solves its
\* equation, the solution is the only one.
LEMMA LowestSolved ==
  ASSUME NEW bases, NEW f,
         f = [i \in History!Minutes |-> IF i = 0 THEN bases[0] ELSE History!Lower(bases[i], f[i - 1])]
  PROVE  History!LowestOf(bases) = f[DELAY_BASE_HISTORY - 1]
<1> DEFINE Solves(g) ==
             g = [i \in History!Minutes |->
                    IF i = 0 THEN bases[0] ELSE History!Lower(bases[i], g[i - 1])]
           lowest == CHOOSE g : Solves(g)
<1>1. History!LowestOf(bases) = lowest[DELAY_BASE_HISTORY - 1]
  BY DEF History!LowestOf
<1>2. Solves(lowest)
  <2>1. Solves(f)
    OBVIOUS
  <2> HIDE DEF Solves
  <2> QED BY <2>1
<1>3. ASSUME NEW g, Solves(g)
      PROVE  /\ 0 \in History!Minutes => g[0] = bases[0]
             /\ \A i \in History!Minutes : i # 0 => g[i] = History!Lower(bases[i], g[i - 1])
  BY <1>3
<1>4. Solves(f)
  OBVIOUS
<1>5. History!Minutes = 0 .. DELAY_BASE_HISTORY - 1 /\ DELAY_BASE_HISTORY \in Nat \ {0}
  BY HistoryConstants DEF History!Minutes
<1> HIDE DEF lowest, Solves
<1> DEFINE Differ == {i \in History!Minutes : lowest[i] # f[i]}
<1>6. Differ = {}
  <2> SUFFICES ASSUME Differ # {} PROVE FALSE
    OBVIOUS
  <2>1. Differ \subseteq Nat
    BY <1>5
  <2>2. PICK i \in Differ : \A j \in Differ : i <= j
    <3> HIDE DEF Differ
    <3> QED BY <2>1, NatMin
  <2>3. i # 0
    BY <1>2, <1>3, <1>4, <1>5, <2>2
  <2>4. i - 1 \in History!Minutes /\ i - 1 \notin Differ /\ i \in History!Minutes
    BY <1>5, <2>2, <2>3
  <2>5. lowest[i - 1] = f[i - 1]
    BY <2>4
  <2>6. lowest[i] = f[i]
    BY <1>2, <1>3, <1>4, <2>3, <2>4, <2>5
  <2> QED BY <2>2, <2>6
<1>7. DELAY_BASE_HISTORY - 1 \in History!Minutes
  BY <1>5
<1> QED BY <1>1, <1>6, <1>7

\* The slots of the last minutes hold the stamps of these minima: the base
\* derived from them is the stamp of the least of them.
LEMMA LowestIsLeast ==
  ASSUME origin \in HistOrigins, NEW l \in [History!Minutes -> 0 .. Span], NEW bases,
         \A i \in History!Minutes : bases[i] = Stamp(l[i])
  PROVE  \E m \in History!Minutes :
           /\ History!LowestOf(bases) = Stamp(l[m])
           /\ \A i \in History!Minutes : l[m] <= l[i]
<1> DEFINE M(i) == Min({l[j] : j \in 0 .. i})
           f == [i \in History!Minutes |-> Stamp(M(i))]
<1>1. History!Minutes = 0 .. DELAY_BASE_HISTORY - 1 /\ DELAY_BASE_HISTORY \in Nat \ {0}
  BY HistoryConstants DEF History!Minutes
<1>2. ASSUME NEW i \in History!Minutes
      PROVE  /\ \E m \in 0 .. i : M(i) = l[m]
             /\ \A j \in 0 .. i : M(i) <= l[j]
             /\ M(i) \in 0 .. Span
  <2> DEFINE S == {l[j] : j \in 0 .. i}
  <2>1. \A j \in 0 .. i : l[j] \in 0 .. Span
    BY <1>1
  <2>2. S \subseteq Nat /\ S # {}
    <3>1. l[0] \in S
      BY <1>1
    <3> QED BY <2>1, <3>1
  <2>3. Min(S) \in S /\ \A y \in S : Min(S) <= y
    <3> HIDE DEF S
    <3> QED BY <2>2, NatMin
  <2> QED BY <2>1, <2>3
<1> HIDE DEF M
<1>3. ASSUME NEW i \in History!Minutes
      PROVE  f[i] = IF i = 0 THEN bases[0] ELSE History!Lower(bases[i], f[i - 1])
  <2>1. f[i] = Stamp(M(i))
    OBVIOUS
  <2>2. CASE i = 0
    <3>1. M(0) = l[0] /\ 0 \in History!Minutes
      BY <1>1, <1>2, <2>2
    <3> QED BY <2>1, <2>2, <3>1
  <2>3. CASE i # 0
    <3>1. i - 1 \in History!Minutes /\ i \in Nat /\ 0 .. i - 1 \subseteq 0 .. i
      BY <1>1, <2>3
    <3>2. f[i - 1] = Stamp(M(i - 1)) /\ bases[i] = Stamp(l[i])
      BY <3>1
    <3>3. l[i] \in 0 .. Span /\ M(i - 1) \in 0 .. Span /\ M(i) \in 0 .. Span
      BY <1>2, <3>1
    <3>4. History!Lower(bases[i], f[i - 1]) =
            IF l[i] < M(i - 1) THEN Stamp(l[i]) ELSE Stamp(M(i - 1))
      <4> HIDE DEF f
      <4> QED BY <3>2, <3>3, StampsCompare
    <3>5. M(i) = IF l[i] < M(i - 1) THEN l[i] ELSE M(i - 1)
      <4>1. PICK m \in 0 .. i : M(i) = l[m]
        BY <1>2
      <4>2. PICK n \in 0 .. i - 1 : M(i - 1) = l[n]
        BY <1>2, <3>1
      <4>3. M(i) <= l[i] /\ M(i) <= l[n]
        BY <1>2, <3>1, <4>2
      <4>4. m # i => M(i - 1) <= l[m]
        <5>1. m # i => m \in 0 .. i - 1
          BY <3>1
        <5> QED BY <1>2, <3>1, <5>1
      <4> QED BY <3>3, <4>1, <4>2, <4>3, <4>4
    <3> QED BY <2>1, <2>3, <3>4, <3>5
  <2> QED BY <2>2, <2>3
<1>4. f = [i \in History!Minutes |-> IF i = 0 THEN bases[0] ELSE History!Lower(bases[i], f[i - 1])]
  <2> DEFINE e == [i \in History!Minutes |->
                     IF i = 0 THEN bases[0] ELSE History!Lower(bases[i], f[i - 1])]
  <2>1. DOMAIN f = DOMAIN e /\ f = [i \in DOMAIN f |-> f[i]] /\ e = [i \in DOMAIN e |-> e[i]]
    OBVIOUS
  <2>2. \A i \in DOMAIN f : f[i] = e[i]
    BY <1>3
  <2> HIDE DEF f, e
  <2>3. f = e
    BY <2>1, <2>2
  <2> QED BY <2>3 DEF e
<1>5. History!LowestOf(bases) = f[DELAY_BASE_HISTORY - 1]
  <2> HIDE DEF f
  <2> QED BY <1>4, LowestSolved
<1> DEFINE n == DELAY_BASE_HISTORY - 1
<1>6. n \in History!Minutes /\ 0 .. n = History!Minutes
  BY <1>1
<1> HIDE DEF n
<1>7. History!LowestOf(bases) = Stamp(M(n))
  BY <1>5, <1>6 DEF n
<1>8. (\E m \in 0 .. n : M(n) = l[m]) /\ \A j \in 0 .. n : M(n) <= l[j]
  BY <1>2, <1>6
<1> HIDE DEF M
<1>9. PICK m \in History!Minutes : M(n) = l[m]
  BY <1>6, <1>8
<1> QED BY <1>6, <1>7, <1>8, <1>9

Slots == [History!Minutes -> 0 .. Span]
Stamps == 0 .. HistMod - 1
HistType ==
  [delay_base : Stamps, cur : [History!Recent -> Stamps], cur_idx : History!Recent,
   bases : [History!Minutes -> Stamps], base_idx : History!Minutes, initialized : BOOLEAN]

\* The history g holds the stamps of the minima l, and the base is that of the
\* least of them.
Holds(g, l) ==
  /\ \A i \in History!Minutes : g.bases[i] = Stamp(l[i])
  /\ \E m \in History!Minutes :
       g.delay_base = Stamp(l[m]) /\ \A i \in History!Minutes : l[m] <= l[i]

HInv ==
  /\ h \in HistType /\ origin \in HistOrigins
  /\ least \in Slots
  /\ queued \in [History!Recent -> 0 .. Span]
  /\ \A k \in History!Recent : h.cur[k] = queued[k]
  /\ h.initialized => Holds(h, least)

LEMMA SlotFacts ==
  /\ History!Minutes = 0 .. DELAY_BASE_HISTORY - 1 /\ DELAY_BASE_HISTORY \in Nat \ {0}
  /\ History!Recent = 0 .. CUR_DELAY_SIZE - 1 /\ CUR_DELAY_SIZE \in Nat \ {0}
  /\ 0 \in History!Minutes /\ 0 \in History!Recent /\ 0 \in Stamps
  /\ \A i \in History!Minutes : (i + 1) % DELAY_BASE_HISTORY \in History!Minutes
  /\ \A i \in History!Recent : (i + 1) % CUR_DELAY_SIZE \in History!Recent
BY HistoryConstants DEF History!Minutes, History!Recent, Stamps

\* get_value of samples that are kept exactly.
LEMMA ValueOfQueued ==
  ASSUME HInv
  PROVE  ValueIsQueuingDelay
<1> DEFINE Q == {queued[k] : k \in History!Recent}
           C == {HistMod - 1} \cup {h.cur[i] : i \in History!Recent}
<1>1. C = {HistMod - 1} \cup Q
  BY DEF HInv
<1>2. Q \subseteq 0 .. Span /\ queued[0] \in Q
  BY SlotFacts DEF HInv
<1>3. HistMod - 1 \in Nat /\ Span \in Nat /\ Span <= HistMod - 1
  BY HistoryConstants
<1>4. History!get_value(h) = Min(C)
  BY HistoryMin DEF History!get_value
<1> HIDE DEF Q, C
<1>5. Q \subseteq Nat /\ Q # {} /\ C \subseteq Nat /\ C # {}
  <2>1. 0 .. Span \subseteq Nat
    BY <1>3
  <2>2. Q \subseteq Nat /\ Q # {}
    BY <1>2, <2>1
  <2>3. C \subseteq Nat
    BY <1>1, <1>3, <2>2
  <2> QED BY <1>1, <2>2, <2>3
<1>6. Min(Q) \in Q /\ \A y \in Q : Min(Q) <= y
  BY <1>5, NatMin
<1>7. Min(C) \in C /\ \A y \in C : Min(C) <= y
  BY <1>5, NatMin
<1>8. Min(Q) \in C /\ Min(Q) \in 0 .. Span
  BY <1>1, <1>2, <1>6
<1>9. Min(C) <= Min(Q) /\ Min(C) \in Nat
  BY <1>5, <1>7, <1>8
<1>10. Min(C) \in Q \/ Min(C) = HistMod - 1
  BY <1>1, <1>7
<1>11. Min(Q) <= Min(C)
  BY <1>3, <1>6, <1>8, <1>9, <1>10
<1>12. Min(C) = Min(Q)
  BY <1>3, <1>8, <1>9, <1>11
<1> QED BY <1>4, <1>12, HistoryMin DEF ValueIsQueuingDelay, History!ValueIsQueuingDelay, Q

LEMMA HistoryInit == History!Init => HInv
<1> SUFFICES ASSUME History!Init
             PROVE  HInv
  OBVIOUS
<1>1. /\ h = History!new /\ origin \in HistOrigins
      /\ least = [i \in History!Minutes |-> 0] /\ queued = [k \in History!Recent |-> 0]
  BY DEF History!Init
<1>2. 0 \in 0 .. Span /\ Span \in Nat
  BY HistoryConstants
<1>3. h \in HistType /\ h.initialized = FALSE /\ \A k \in History!Recent : h.cur[k] = 0
  <2> DEFINE c == [i \in History!Recent |-> 0]
             b == [i \in History!Minutes |-> 0]
  <2>1. c \in [History!Recent -> Stamps] /\ b \in [History!Minutes -> Stamps]
    BY SlotFacts
  <2>2. \A k \in History!Recent : c[k] = 0
    OBVIOUS
  <2>3. h = [delay_base |-> 0, cur |-> c, cur_idx |-> 0, bases |-> b, base_idx |-> 0,
             initialized |-> FALSE]
    BY <1>1 DEF History!new
  <2> HIDE DEF b, c
  <2> QED BY <2>1, <2>2, <2>3, SlotFacts DEF HistType
<1> QED BY <1>1, <1>2, <1>3 DEF HInv, Slots

LEMMA ShiftStep ==
  ASSUME HInv, NEW offset \in 1 .. Span, History!Shift(offset)
  PROVE  HInv'
<1> DEFINE bs == [i \in History!Minutes |-> History!T!wrapping_add(h.bases[i], offset)]
           b  == History!T!wrapping_add(h.delay_base, offset)
<1>1. /\ h.initialized /\ \A i \in History!Minutes : least[i] + offset <= Span
      /\ h' = [h EXCEPT !.bases = bs, !.delay_base = b]
      /\ least' = [i \in History!Minutes |-> least[i] + offset]
      /\ origin' = origin /\ queued' = queued
  BY DEF History!Shift, History!shift
<1>2. h \in HistType /\ Holds(h, least) /\ least \in Slots /\ origin \in HistOrigins
  BY <1>1 DEF HInv
<1>3. ASSUME NEW i \in History!Minutes
      PROVE  /\ least[i] \in 0 .. Span /\ least'[i] = least[i] + offset /\ least'[i] \in 0 .. Span
             /\ History!T!wrapping_add(Stamp(least[i]), offset) = Stamp(least'[i])
             /\ Stamp(least'[i]) \in Stamps
  <2>1. least[i] \in 0 .. Span /\ least'[i] = least[i] + offset /\ least'[i] \in 0 .. Span
    BY <1>1, <1>2, HistoryConstants DEF Slots
  <2>2. History!T!wrapping_add(Stamp(least[i]), offset) = Stamp(least'[i])
    BY <1>1, <1>2, <2>1, StampsShift
  <2> QED BY <1>2, <2>1, <2>2, StampParts DEF Stamps
<1>4. PICK m \in History!Minutes :
        h.delay_base = Stamp(least[m]) /\ \A i \in History!Minutes : least[m] <= least[i]
  BY <1>2 DEF Holds
<1>5. b = Stamp(least'[m]) /\ \A i \in History!Minutes : bs[i] = Stamp(least'[i])
  BY <1>2, <1>3, <1>4 DEF Holds
<1>6. b \in Stamps /\ bs \in [History!Minutes -> Stamps]
  BY <1>3, <1>5
<1> HIDE DEF b, bs
<1>7. /\ h' \in HistType /\ h'.bases = bs /\ h'.delay_base = b /\ h'.cur = h.cur
      /\ h'.initialized = h.initialized
  BY <1>1, <1>2, <1>6 DEF HistType
<1>8. \A d : Stamp(d)' = Stamp(d)
  BY <1>1 DEF Stamp, History!T!wrapping_add
<1>9. \A i \in History!Minutes : least'[m] <= least'[i]
  <2> SUFFICES ASSUME NEW i \in History!Minutes PROVE least'[m] <= least'[i]
    OBVIOUS
  <2>1. least[m] \in Int /\ least[i] \in Int /\ least[m] <= least[i] /\ offset \in Int
    BY <1>3, <1>4
  <2> QED BY <1>3, <2>1
<1>10. Holds(h, least)'
  BY <1>5, <1>7, <1>8, <1>9 DEF Holds
<1>11. least' \in Slots
  BY <1>1, <1>3 DEF Slots
<1> QED BY <1>1, <1>7, <1>10, <1>11 DEF HInv

\* A sample of true delay d: the minima it lowers, the slots they are kept in, and
\* its true queuing delay.
Lowered(l, j, d) == [l EXCEPT ![j] = Min({l[j], d})]
LoweredBases(g, d) == [g.bases EXCEPT ![g.base_idx] = History!Lower(Stamp(d), g.bases[g.base_idx])]
Queuing(l, d) == d - Min({l[k] : k \in History!Minutes} \cup {d})

LEMMA Sampled ==
  ASSUME origin \in HistOrigins, NEW g \in HistType, NEW l \in Slots, Holds(g, l),
         NEW d \in 0 .. Span, NEW l2, l2 = Lowered(l, g.base_idx, d),
         NEW bs, bs = LoweredBases(g, d),
         NEW b, b = History!Lower(Stamp(d), g.delay_base),
         NEW q, q = Queuing(l, d)
  PROVE  /\ l2 \in Slots /\ bs \in [History!Minutes -> Stamps] /\ b \in Stamps
         /\ \A i \in History!Minutes : bs[i] = Stamp(l2[i])
         /\ \E m \in History!Minutes : b = Stamp(l2[m]) /\ \A i \in History!Minutes : l2[m] <= l2[i]
         /\ q \in 0 .. Span /\ History!T!wrapping_sub(Stamp(d), b) = q
<1> DEFINE j == g.base_idx
           v == IF d < l[j] THEN d ELSE l[j]
<1>1. j \in History!Minutes /\ g.bases \in [History!Minutes -> Stamps]
  BY DEF HistType
<1>2. \A i \in History!Minutes : l[i] \in 0 .. Span /\ l[i] \in Int
  BY DEF Slots
<1>3. d \in Int /\ Span \in Nat
  BY HistoryConstants
<1>4. Min({l[j], d}) = v
  <2> DEFINE x == l[j]
  <2>1. x \in Int
    BY <1>1, <1>2
  <2> HIDE DEF x
  <2>2. Min({x, d}) \in {x, d} /\ Min({x, d}) <= x /\ Min({x, d}) <= d
    BY <1>3, <2>1, MinOfTwo
  <2>3. Min({x, d}) = IF d < x THEN d ELSE x
    BY <1>3, <2>1, <2>2
  <2> QED BY <2>3 DEF x
<1>5. l2 = [l EXCEPT ![j] = v]
  BY <1>4 DEF Lowered
<1>6. v \in 0 .. Span
  BY <1>1, <1>2
<1>7. /\ l2 \in Slots /\ l2[j] = v /\ \A i \in History!Minutes : i # j => l2[i] = l[i]
  <2> HIDE DEF j, v
  <2> QED BY <1>1, <1>5, <1>6 DEF Slots
<1>8. History!Lower(Stamp(d), g.bases[j]) = Stamp(v)
  <2>1. g.bases[j] = Stamp(l[j]) /\ l[j] \in 0 .. Span
    BY <1>1, <1>2 DEF Holds
  <2> QED BY <2>1, StampsCompare
<1>9. Stamp(v) \in Stamps
  <2> HIDE DEF v
  <2> QED BY <1>6, StampParts DEF Stamps
<1>10. bs = [g.bases EXCEPT ![j] = Stamp(v)]
  BY <1>8 DEF LoweredBases
<1> HIDE DEF v
<1>11. bs \in [History!Minutes -> Stamps] /\ bs[j] = Stamp(v)
       /\ \A i \in History!Minutes : i # j => bs[i] = g.bases[i]
  <2> HIDE DEF j
  <2> QED BY <1>1, <1>9, <1>10
<1>12. \A i \in History!Minutes : bs[i] = Stamp(l2[i])
  <2>1. \A i \in History!Minutes : g.bases[i] = Stamp(l[i])
    BY DEF Holds
  <2> QED BY <1>7, <1>11, <2>1
<1>13. PICK m \in History!Minutes : g.delay_base = Stamp(l[m]) /\ \A i \in History!Minutes : l[m] <= l[i]
  BY DEF Holds
<1>14. l[m] \in 0 .. Span /\ l[m] \in Int
  BY <1>2
<1>15. b = IF d < l[m] THEN Stamp(d) ELSE Stamp(l[m])
  BY <1>13, <1>14, StampsCompare
<1>16. b \in Stamps
  BY <1>14, <1>15, StampParts DEF Stamps
<1>17. \E n \in History!Minutes : b = Stamp(l2[n]) /\ \A i \in History!Minutes : l2[n] <= l2[i]
  <2>1. CASE d < l[m]
    <3>1. v = d
      BY <1>1, <1>2, <1>3, <1>13, <2>1 DEF v
    <3>2. \A i \in History!Minutes : l2[j] <= l2[i]
      <4> SUFFICES ASSUME NEW i \in History!Minutes PROVE l2[j] <= l2[i]
        OBVIOUS
      <4>1. l[m] <= l[i] /\ l[i] \in Int /\ l[m] \in Int
        BY <1>2, <1>13
      <4>2. d <= l[i]
        BY <1>3, <2>1, <4>1
      <4> QED BY <1>3, <1>7, <3>1, <4>2
    <3> QED BY <1>1, <1>7, <1>15, <2>1, <3>1, <3>2
  <2>2. CASE ~(d < l[m])
    <3>1. m = j => v = l[m]
      BY <2>2 DEF v
    <3>2. l2[m] = l[m]
      BY <1>7, <3>1
    <3>3. v >= l[m]
      BY <1>1, <1>2, <1>3, <1>13, <1>14, <2>2 DEF v
    <3>4. \A i \in History!Minutes : l2[m] <= l2[i]
      BY <1>2, <1>6, <1>7, <1>13, <1>14, <3>2, <3>3
    <3> QED BY <1>15, <2>2, <3>2, <3>4
  <2> QED BY <2>1, <2>2
<1>18. q = IF d < l[m] THEN 0 ELSE d - l[m]
  <2> DEFINE S == {l[k] : k \in History!Minutes} \cup {d}
  <2>1. S \subseteq Nat /\ S # {} /\ d \in S /\ l[m] \in S
    BY <1>2
  <2>2. \A y \in S : y = d \/ l[m] <= y
    BY <1>13
  <2>3. q = d - Min(S)
    BY DEF Queuing
  <2> HIDE DEF S
  <2>4. Min(S) \in S /\ \A y \in S : Min(S) <= y
    BY <2>1, NatMin
  <2>5. Min(S) <= d /\ Min(S) <= l[m] /\ Min(S) \in Nat /\ (Min(S) = d \/ l[m] <= Min(S))
    BY <2>1, <2>2, <2>4
  <2> QED BY <1>3, <1>14, <2>3, <2>5
<1>19. q \in 0 .. Span
  BY <1>3, <1>14, <1>18
<1>20. History!T!wrapping_sub(Stamp(d), b) = q
  <2>1. CASE d < l[m]
    <3>1. History!T!wrapping_sub(Stamp(d), Stamp(d)) = d - d
      BY <1>3, StampsCompare
    <3> QED BY <1>3, <1>15, <1>18, <2>1, <3>1
  <2>2. CASE ~(d < l[m])
    <3>1. d >= l[m]
      BY <1>3, <1>14, <2>2
    <3>2. History!T!wrapping_sub(Stamp(d), Stamp(l[m])) = d - l[m]
      BY <1>14, <3>1, StampsCompare
    <3> QED BY <1>15, <1>18, <2>2, <3>2
  <2> QED BY <2>1, <2>2
<1> QED BY <1>7, <1>11, <1>12, <1>16, <1>17, <1>19, <1>20

\* The first sample is taken for the minimum of all minutes.
LEMMA Started ==
  ASSUME HInv, NEW d \in 0 .. Span, NEW g, g = History!Initialized(h, Stamp(d)),
         NEW l, l = IF h.initialized THEN least ELSE [k \in History!Minutes |-> d]
  PROVE  /\ g \in HistType /\ l \in Slots /\ Holds(g, l) /\ g.initialized = TRUE
         /\ g.cur = h.cur /\ g.cur_idx = h.cur_idx /\ g.base_idx = h.base_idx
<1>1. h \in HistType /\ origin \in HistOrigins
  BY DEF HInv
<1>2. CASE h.initialized
  <2>1. g = h /\ l = least
    BY <1>2 DEF History!Initialized
  <2> QED BY <1>1, <1>2, <2>1 DEF HInv, HistType
<1>3. CASE ~h.initialized
  <2> DEFINE bs == [i \in History!Minutes |-> Stamp(d)]
  <2>1. g = [h EXCEPT !.bases = bs, !.delay_base = Stamp(d), !.initialized = TRUE]
    BY <1>3 DEF History!Initialized
  <2>2. l = [k \in History!Minutes |-> d] /\ d \in Int
    BY <1>3
  <2>3. Stamp(d) \in Stamps
    BY <1>1, StampParts DEF Stamps
  <2>4. bs \in [History!Minutes -> Stamps] /\ \A i \in History!Minutes : bs[i] = Stamp(d)
    BY <2>3
  <2> HIDE DEF bs
  <2>5. /\ g \in HistType /\ g.bases = bs /\ g.delay_base = Stamp(d) /\ g.initialized = TRUE
        /\ g.cur = h.cur /\ g.cur_idx = h.cur_idx /\ g.base_idx = h.base_idx
    BY <1>1, <2>1, <2>3, <2>4 DEF HistType
  <2>6. l \in Slots /\ \A i \in History!Minutes : l[i] = d
    BY <2>2 DEF Slots
  <2>7. Holds(g, l)
    BY <2>2, <2>4, <2>5, <2>6, SlotFacts DEF Holds
  <2> QED BY <2>5, <2>6, <2>7
<1> QED BY <1>2, <1>3

LEMMA SampleStep ==
  ASSUME HInv, NEW d \in 0 .. Span, NEW minute \in BOOLEAN, History!AddSample(d, minute)
  PROVE  HInv'
<1> DEFINE i     == (h.base_idx + 1) % DELAY_BASE_HISTORY
           first == IF h.initialized THEN least ELSE [k \in History!Minutes |-> d]
           lower == [first EXCEPT ![h.base_idx] = Min({first[h.base_idx], d})]
           q     == d - Min({first[k] : k \in History!Minutes} \cup {d})
           s     == Stamp(d)
           g     == History!Initialized(h, s)
           b     == History!Lower(s, g.delay_base)
           bs    == [g.bases EXCEPT ![g.base_idx] = History!Lower(s, g.bases[g.base_idx])]
           cs    == [g.cur EXCEPT ![g.cur_idx] = History!T!wrapping_sub(s, b)]
           g2    == [g EXCEPT !.bases = bs, !.delay_base = b, !.cur = cs,
                              !.cur_idx = (@ + 1) % CUR_DELAY_SIZE]
<1>1. h \in HistType /\ origin \in HistOrigins /\ queued \in [History!Recent -> 0 .. Span]
  BY DEF HInv
<1>2. /\ g \in HistType /\ first \in Slots /\ Holds(g, first) /\ g.initialized = TRUE
      /\ g.cur = h.cur /\ g.cur_idx = h.cur_idx /\ g.base_idx = h.base_idx
  <2> HIDE DEF g, first
  <2> QED BY Started DEF g, first, s
<1>3. /\ h' = History!add_sample(h, s, minute)
      /\ least' = IF minute THEN [lower EXCEPT ![i] = d] ELSE lower
      /\ queued' = [k \in History!Recent |-> IF k = h.cur_idx THEN q ELSE queued[k]]
      /\ origin' = origin
  <2>1. History!Min({first[k] : k \in History!Minutes} \cup {d}) = Min({first[k] : k \in History!Minutes} \cup {d})
    BY HistoryMin
  <2>2. History!Min({first[h.base_idx], d}) = Min({first[h.base_idx], d})
    BY HistoryMin
  <2> QED BY <2>1, <2>2 DEF History!AddSample, Stamp
<1>4. h' = IF minute THEN History!NextMinute(g2, s) ELSE g2
  <2>1. g2 = [g EXCEPT !.bases[g.base_idx] = History!Lower(s, @), !.delay_base = b,
                       !.cur[g.cur_idx] = History!T!wrapping_sub(s, b),
                       !.cur_idx = (@ + 1) % CUR_DELAY_SIZE]
    <3> HIDE DEF g, b, s
    <3> QED OBVIOUS
  <2> QED BY <1>3, <2>1 DEF History!add_sample
<1> HIDE DEF first, g, s
<1>5. /\ lower \in Slots /\ bs \in [History!Minutes -> Stamps] /\ b \in Stamps
      /\ \A k \in History!Minutes : bs[k] = Stamp(lower[k])
      /\ \E m \in History!Minutes : b = Stamp(lower[m]) /\ \A k \in History!Minutes : lower[m] <= lower[k]
      /\ q \in 0 .. Span /\ History!T!wrapping_sub(s, b) = q
  <2>1. lower = Lowered(first, g.base_idx, d)
    BY <1>2 DEF Lowered
  <2>2. bs = LoweredBases(g, d) /\ b = History!Lower(Stamp(d), g.delay_base) /\ q = Queuing(first, d)
    BY DEF s, LoweredBases, Queuing
  <2> HIDE DEF lower, bs, b, q
  <2> QED BY <1>1, <1>2, <2>1, <2>2, Sampled DEF s
<1> HIDE DEF lower, bs, b, q
<1>6. h.cur_idx \in History!Recent /\ h.cur \in [History!Recent -> Stamps] /\ h.base_idx \in History!Minutes
  BY <1>1 DEF HistType
<1>7. q \in Stamps
  BY <1>5, HistoryConstants DEF Stamps
<1>8. /\ cs = [h.cur EXCEPT ![h.cur_idx] = q] /\ cs \in [History!Recent -> Stamps]
      /\ queued' \in [History!Recent -> 0 .. Span]
      /\ \A k \in History!Recent : cs[k] = queued'[k]
  <2>1. cs = [h.cur EXCEPT ![h.cur_idx] = q]
    BY <1>2, <1>5
  <2>2. queued' \in [History!Recent -> 0 .. Span]
    BY <1>1, <1>3, <1>5
  <2>3. cs \in [History!Recent -> Stamps]
    BY <1>6, <1>7, <2>1
  <2>4. \A k \in History!Recent : h.cur[k] = queued[k]
    BY DEF HInv
  <2> QED BY <1>3, <1>6, <2>1, <2>2, <2>3, <2>4
<1> HIDE DEF cs
<1>9. /\ g2 \in HistType /\ g2.bases = bs /\ g2.delay_base = b /\ g2.cur = cs
      /\ g2.initialized = TRUE /\ g2.base_idx = h.base_idx
  <2>1. (g.cur_idx + 1) % CUR_DELAY_SIZE \in History!Recent
    BY <1>2, <1>6, SlotFacts
  <2> QED BY <1>2, <1>5, <1>8, <2>1 DEF HistType
<1> HIDE DEF g2
<1>10. \A e : Stamp(e)' = Stamp(e)
  BY <1>3 DEF Stamp, History!T!wrapping_add
<1>11. CASE ~minute
  <2>1. h' = g2 /\ least' = lower
    BY <1>3, <1>4, <1>11
  <2>2. Holds(h, least)'
    BY <1>5, <1>9, <1>10, <2>1 DEF Holds
  <2> QED BY <1>1, <1>3, <1>5, <1>8, <1>9, <2>1, <2>2 DEF HInv
<1>12. CASE minute
  <2> DEFINE bs2 == [bs EXCEPT ![i] = s]
             l2  == [lower EXCEPT ![i] = d]
             b2  == History!LowestOf(bs2)
  <2>1. i \in History!Minutes
    BY <1>6, SlotFacts
  <2>2. h' = [g2 EXCEPT !.base_idx = i, !.bases = bs2, !.delay_base = b2] /\ least' = l2
    BY <1>3, <1>4, <1>9, <1>12 DEF History!NextMinute
  <2> HIDE DEF i
  <2>3. s \in Stamps /\ s = Stamp(d)
    BY <1>1, StampParts DEF s, Stamps
  <2>4. l2 \in Slots /\ l2[i] = d /\ \A k \in History!Minutes : k # i => l2[k] = lower[k]
    BY <1>5, <2>1 DEF Slots
  <2>5. /\ bs2 \in [History!Minutes -> Stamps] /\ bs2[i] = s
        /\ \A k \in History!Minutes : k # i => bs2[k] = bs[k]
    BY <1>5, <2>1, <2>3
  <2> HIDE DEF l2, bs2
  <2>6. \A k \in History!Minutes : bs2[k] = Stamp(l2[k])
    BY <1>5, <2>3, <2>4, <2>5
  <2>7. l2 \in [History!Minutes -> 0 .. Span]
    BY <2>4 DEF Slots
  <2>8. PICK m \in History!Minutes : b2 = Stamp(l2[m]) /\ \A k \in History!Minutes : l2[m] <= l2[k]
    BY <1>1, <2>6, <2>7, LowestIsLeast
  <2>9. b2 \in Stamps
    BY <1>1, <2>7, <2>8, StampParts DEF Stamps
  <2> HIDE DEF b2
  <2>10. /\ h' \in HistType /\ h'.bases = bs2 /\ h'.delay_base = b2 /\ h'.cur = cs
         /\ h'.initialized = TRUE
    BY <1>9, <2>1, <2>2, <2>5, <2>9 DEF HistType
  <2>11. Holds(h, least)'
    BY <1>10, <2>2, <2>6, <2>8, <2>10 DEF Holds
  <2> QED BY <1>1, <1>3, <1>8, <2>2, <2>4, <2>10, <2>11 DEF HInv
<1> QED BY <1>11, <1>12

LEMMA HistoryStep ==
  ASSUME HInv, [History!Next]_(History!vars)
  PROVE  HInv'
<1>1. CASE \E d \in 0 .. Span, minute \in BOOLEAN : History!AddSample(d, minute)
  BY <1>1, SampleStep
<1>2. CASE \E offset \in 1 .. Span : History!Shift(offset)
  BY <1>2, ShiftStep
<1>3. CASE UNCHANGED History!vars
  <2>1. UNCHANGED <<h, origin, least, queued>>
    BY <1>3 DEF History!vars
  <2>2. \A e : Stamp(e)' = Stamp(e)
    BY <2>1 DEF Stamp, History!T!wrapping_add
  <2> QED BY <2>1, <2>2 DEF HInv, Holds
<1> QED BY <1>1, <1>2, <1>3 DEF History!Next

\* However the clocks differ and wrap, minutes pass and the base is shifted:
\* get_value is the least of the last true queuing delays, for any number of
\* slots (add_sample, shift, get_value).
THEOREM ValueAlwaysQueuingDelay == History!Spec => []ValueIsQueuingDelay
<1>1. HInv => ValueIsQueuingDelay
  BY ValueOfQueued
<1>2. HInv /\ [History!Next]_(History!vars) => HInv'
  BY HistoryStep
<1> QED BY <1>1, <1>2, HistoryInit, PTL DEF History!Spec

-----------------------------------------------------------------------------
(* The clock drift. *)

LEMMA DriftConstants ==
  /\ DriftMod \in Nat /\ MAX_AVERAGE_DELAY_SAMPLE \in Nat
  /\ 2 * MAX_AVERAGE_DELAY_SAMPLE < DriftMod /\ DriftMod \in Nat \ {0}
  /\ DriftOrigins \subseteq 0 .. DriftMod - 1 /\ Spread \in Nat
  /\ 2 * Spread + 2 <= MAX_AVERAGE_DELAY_SAMPLE
BY ComponentAssumptions DEF Drift!DriftAssumption

LEMMA DriftMinMax == \A S : Drift!Min(S) = Min(S) /\ Drift!Max(S) = Max(S)
BY DEF Drift!Min, Drift!Max, Min, Max

LEMMA MinOfLess ==
  ASSUME NEW a \in Int, NEW b \in Int, a <= b
  PROVE  Min({a, b}) = a
<1>1. Min({a, b}) \in {a, b} /\ Min({a, b}) <= a
  BY MinOfTwo
<1> QED BY <1>1

\* Rust's division is within one of the true quotient, on the side of zero.
LEMMA QuotientNear ==
  ASSUME NEW x \in Int, NEW n \in Nat \ {0}, NEW q, q = Drift!Quotient(x, n)
  PROVE  /\ q \in Int /\ n * q \in Int /\ x - n * q < n /\ n * q - x < n
         /\ \A m \in Int : (m * n <= x => m <= q) /\ (x <= m * n => q <= m)
<1>1. CASE x >= 0
  <2>1. q = x \div n
    BY <1>1 DEF Drift!Quotient
  <2>2. q \in Int /\ x = n * q + (x % n) /\ x % n \in 0 .. n - 1
    BY <2>1
  <2>3. \A m \in Int : (m * n <= x => m <= q) /\ (x <= m * n => q <= m)
    <3> SUFFICES ASSUME NEW m \in Int PROVE (m * n <= x => m <= q) /\ (x <= m * n => q <= m)
      OBVIOUS
    <3>1. /\ x >= m * n => x \div n >= m
          /\ x <= m * n => x \div n <= m
      BY DivSides
    <3> QED BY <2>1, <2>2, <3>1
  <2>4. n * q \in Int
    BY <2>2
  <2> QED BY <2>2, <2>3, <2>4
<1>2. CASE ~(x >= 0)
  <2> DEFINE y == -x
             r == y \div n
  <2>0. y \in Int
    OBVIOUS
  <2>1. q = -r
    BY <1>2 DEF Drift!Quotient
  <2>2. r \in Int /\ y = n * r + (y % n) /\ y % n \in 0 .. n - 1
    BY <2>0
  <2>3. \A m \in Int : (m * n <= x => m <= q) /\ (x <= m * n => q <= m)
    <3> SUFFICES ASSUME NEW m \in Int PROVE (m * n <= x => m <= q) /\ (x <= m * n => q <= m)
      OBVIOUS
    <3>1. -m \in Int /\ (-m) * n = -(m * n) /\ m * n \in Int
      OBVIOUS
    <3>2. /\ y >= (-m) * n => r >= -m
          /\ y <= (-m) * n => r <= -m
      <4> HIDE DEF y
      <4> QED BY <2>0, <3>1, DivSides
    <3> QED BY <2>1, <2>2, <3>1, <3>2
  <2>4. n * q = -(n * r) /\ n * r \in Int
    BY <2>1, <2>2
  <2> QED BY <2>1, <2>2, <2>3, <2>4
<1> QED BY <1>1, <1>2

\* Moving all of n samples by b moves their quotient by b, but for one.
LEMMA QuotientMoves ==
  ASSUME NEW x \in Int, NEW n \in Nat \ {0}, NEW b \in Int,
         NEW q, q = Drift!Quotient(x, n), NEW a, a = Drift!Quotient(x - n * b, n)
  PROVE  q \in Int /\ a \in Int /\ a + b - q \in -1 .. 1
<1>1. n * b \in Int /\ x - n * b \in Int
  OBVIOUS
<1>2. q \in Int /\ n * q \in Int /\ x - n * q < n /\ n * q - x < n
  BY QuotientNear
<1>3. a \in Int /\ n * a \in Int /\ x - n * b - n * a < n /\ n * a - (x - n * b) < n
  <2> DEFINE y == x - n * b
  <2> HIDE DEF y
  <2>1. y \in Int /\ a = Drift!Quotient(y, n)
    BY <1>1 DEF y
  <2>2. a \in Int /\ n * a \in Int /\ y - n * a < n /\ n * a - y < n
    BY <2>1, QuotientNear
  <2> QED BY <2>2 DEF y
<1> DEFINE t == a + b - q
<1>4. t \in Int /\ n * t = n * a + n * b - n * q
  BY <1>2, <1>3
<1>5. n * t < 2 * n /\ -(2 * n) < n * t
  BY <1>1, <1>2, <1>3, <1>4
<1> HIDE DEF t
<1>6. ~(t >= 2)
  <2> SUFFICES ASSUME t >= 2 PROVE FALSE
    OBVIOUS
  <2>1. PICK i \in Nat : t = i + 2
    BY <1>4
  <2>2. n * (i + 2) = n * i + 2 * n /\ n * i \in Nat
    BY <2>1
  <2> QED BY <1>5, <2>1, <2>2
<1>7. ~(t <= -2)
  <2> SUFFICES ASSUME t <= -2 PROVE FALSE
    OBVIOUS
  <2>1. PICK i \in Nat : t = -(i + 2)
    <3>1. -t - 2 \in Nat /\ t = -((-t - 2) + 2)
      BY <1>4
    <3> QED BY <3>1
  <2>2. n * (-(i + 2)) = -(n * i) - 2 * n /\ n * i \in Nat
    BY <2>1
  <2> QED BY <1>5, <2>1, <2>2
<1>8. t \in -1 .. 1
  BY <1>4, <1>6, <1>7
<1> QED BY <1>2, <1>3, <1>8 DEF t

\* The timestamp x is that of the true delay d.
Shows(x, d) == x \in 0 .. DriftMod - 1 /\ \E j \in Int : x = drift_origin + d + j * DriftMod

\* A sample that is near the base is measured exactly.
LEMMA SampleExact ==
  ASSUME drift_origin \in DriftOrigins, NEW b \in Int, NEW d \in Int, NEW x, NEW s, Shows(x, b), Shows(s, d),
         d - b <= MAX_AVERAGE_DELAY_SAMPLE, b - d <= MAX_AVERAGE_DELAY_SAMPLE
  PROVE  Drift!Sample(x, s) = d - b
<1> DEFINE down == Drift!T!wrapping_sub(x, s)
           up   == Drift!T!wrapping_sub(s, x)
           mx   == MAX_AVERAGE_DELAY_SAMPLE
<1>1. /\ DriftMod \in Nat \ {0} /\ mx \in Nat /\ 2 * mx < DriftMod /\ mx \in Int
      /\ x \in 0 .. DriftMod - 1 /\ s \in 0 .. DriftMod - 1 /\ drift_origin \in Int
  BY DriftConstants DEF Shows
<1>2. /\ down = (IF x >= s THEN x - s ELSE x - s + DriftMod)
      /\ up = (IF s >= x THEN s - x ELSE s - x + DriftMod)
  BY DEF Drift!T!wrapping_sub
<1>3. PICK j \in Int, k \in Int : x = drift_origin + b + j * DriftMod /\ s = drift_origin + d + k * DriftMod
  BY DEF Shows
<1> DEFINE e == k - j
<1>4. e \in Int /\ e * DriftMod = k * DriftMod - j * DriftMod /\ e * DriftMod \in Int
  BY <1>1, <1>3
<1>5. k * DriftMod \in Int /\ j * DriftMod \in Int
  BY <1>1, <1>3
<1>6. s - x = (d - b) + e * DriftMod
  BY <1>1, <1>3, <1>4, <1>5
<1> HIDE DEF e
<1> DEFINE f == e * DriftMod
<1>7. f \in Int /\ (f > 0 => f >= DriftMod) /\ (f < 0 => f <= -DriftMod)
  <2>1. f > 0 => f >= DriftMod
    BY <1>1, <1>4, NoMultipleBetween
  <2>2. (-e) * DriftMod = -f /\ -e \in Int /\ f \in Int
    BY <1>1, <1>4
  <2>3. (-e) * DriftMod > 0 => (-e) * DriftMod >= DriftMod
    BY <1>1, <2>2, NoMultipleBetween
  <2> QED BY <1>1, <2>1, <2>2, <2>3
<1>7a. f <= DriftMod /\ f >= -DriftMod
  <2>1. e <= 1 /\ e >= -1
    <3>1. f < 2 * DriftMod /\ f > -(2 * DriftMod)
      BY <1>1, <1>6, <1>7
    <3>2. ~(e >= 2)
      <4> SUFFICES ASSUME e >= 2 PROVE FALSE
        OBVIOUS
      <4>1. PICK i \in Nat : e = i + 2
        BY <1>4
      <4>2. (i + 2) * DriftMod = i * DriftMod + 2 * DriftMod /\ i * DriftMod \in Nat
        BY <1>1, <4>1
      <4> QED BY <1>1, <3>1, <4>1, <4>2
    <3>3. ~(e <= -2)
      <4> SUFFICES ASSUME e <= -2 PROVE FALSE
        OBVIOUS
      <4>1. PICK i \in Nat : e = -(i + 2)
        <5>1. -e - 2 \in Nat /\ e = -((-e - 2) + 2)
          BY <1>4
        <5> QED BY <5>1
      <4>2. (-(i + 2)) * DriftMod = -(i * DriftMod) - 2 * DriftMod /\ i * DriftMod \in Nat
        BY <1>1, <4>1
      <4> QED BY <1>1, <3>1, <4>1, <4>2
    <3> QED BY <1>4, <3>2, <3>3
  <2>2. e \in {-1, 0, 1}
    BY <1>4, <2>1
  <2> QED BY <1>1, <2>2
<1> HIDE DEF f
<1>8. s - x = (d - b) + f /\ f \in {0, DriftMod, -DriftMod}
  <2>1. f = 0 \/ f = DriftMod \/ f = -DriftMod
    BY <1>1, <1>7, <1>7a
  <2> QED BY <1>6, <2>1 DEF f
<1> HIDE DEF down, up, mx
<1>9. CASE d > b
  <2>0. f # DriftMod /\ d - b <= mx
    BY <1>1, <1>8, <1>9 DEF mx
  <2>1. up = d - b /\ down > up
    BY <1>1, <1>2, <1>8, <1>9, <2>0
  <2>2. up \in Int /\ up <= mx
    BY <1>1, <2>1 DEF mx
  <2>3. Min({up, mx}) = up
    BY <1>1, <2>2, MinOfLess
  <2> QED BY <2>1, <2>3, DriftMinMax DEF Drift!Sample, up, down, mx
<1>10. CASE d <= b
  <2>0. f # -DriftMod /\ b - d <= mx
    BY <1>1, <1>8, <1>10 DEF mx
  <2>1. down = b - d /\ ~(down > up)
    BY <1>1, <1>2, <1>8, <1>10, <2>0
  <2>2. down \in Int /\ down <= mx
    BY <1>1, <2>1 DEF mx
  <2>3. Min({down, mx}) = down
    BY <1>1, <2>2, MinOfLess
  <2>4. Drift!Sample(x, s) = -down
    BY <2>1, <2>3, DriftMinMax DEF Drift!Sample, up, down, mx
  <2> QED BY <2>1, <2>4
<1> QED BY <1>9, <1>10

\* The base moves against the adjustment of the average.
LEMMA RebasedShows ==
  ASSUME drift_origin \in DriftOrigins, NEW b \in Int, NEW x, Shows(x, b), NEW adj \in Int
  PROVE  Shows(Drift!Rebased(x, adj), b - adj)
<1> DEFINE r == adj % DriftMod
           k == adj \div DriftMod
           y == Drift!Rebased(x, adj)
<1>1. DriftMod \in Nat \ {0} /\ drift_origin \in Int
  BY DriftConstants
<1>2. r \in 0 .. DriftMod - 1 /\ k \in Int /\ adj = DriftMod * k + r
  BY <1>1
<1>3. PICK j \in Int : x = drift_origin + b + j * DriftMod
  BY DEF Shows
<1>4. x \in 0 .. DriftMod - 1
  BY DEF Shows
<1>5. y = IF x >= r THEN x - r ELSE x - r + DriftMod
  BY DEF Drift!Rebased, Drift!T!wrapping_sub
<1> HIDE DEF r, k, y
<1>6. y \in 0 .. DriftMod - 1
  BY <1>1, <1>2, <1>4, <1>5
<1>7. /\ (j + k) * DriftMod = j * DriftMod + DriftMod * k
      /\ (j + k + 1) * DriftMod = j * DriftMod + DriftMod * k + DriftMod
      /\ j * DriftMod \in Int /\ DriftMod * k \in Int /\ j + k \in Int /\ j + k + 1 \in Int
  BY <1>1, <1>2, <1>3
<1>8. \/ y = drift_origin + (b - adj) + (j + k) * DriftMod
      \/ y = drift_origin + (b - adj) + (j + k + 1) * DriftMod
  BY <1>1, <1>2, <1>3, <1>4, <1>5, <1>7
<1>9. \E i \in Int : y = drift_origin + (b - adj) + i * DriftMod
  BY <1>7, <1>8
<1> QED BY <1>6, <1>9 DEF Shows, y

\* An adjusted average is no further from zero than from the average before.
LEMMA AdjustedNearZero ==
  ASSUME NEW prev \in Int, NEW avg \in Int, NEW w \in Nat, avg - prev \in -w .. w,
         NEW adj, adj = Drift!Adjust(prev, avg)
  PROVE  adj \in Int /\ avg + adj \in -w .. w
<1> DEFINE lo == Min({prev, avg})
           hi == Max({prev, avg})
<1>1. lo \in {prev, avg} /\ lo <= prev /\ lo <= avg
  BY MinOfTwo
<1>2. hi \in {prev, avg} /\ hi >= prev /\ hi >= avg
  BY MaxOfTwo
<1>3. adj = IF lo > 0 THEN -lo ELSE IF hi < 0 THEN -hi ELSE 0
  BY DriftMinMax DEF Drift!Adjust
<1> HIDE DEF lo, hi
<1>4. lo \in Int /\ hi \in Int
  BY <1>1, <1>2
<1> QED BY <1>1, <1>2, <1>3, <1>4

\* What the average and the sum say of the true delays, seen from the base b.
Near == Spread + 1
Calm(b) ==
  /\ average_delay_base # 0 => Shows(average_delay_base, b)
  /\ average_delay_base = 0 => b = 0
  /\ current_delay_sum = true_sum - current_delay_samples * b
  /\ average_delay + b - true_averages[1] \in -1 .. 1
  /\ average_delay \in -Near .. Near
  /\ current_delay_samples * (average_delay - Near) <= current_delay_sum
  /\ current_delay_sum <= current_delay_samples * (average_delay + Near)

DInv ==
  /\ drift_origin \in DriftOrigins
  /\ ~wild /\ ~met_zero =>
       /\ current_delay_samples \in Nat /\ current_delay_sum \in Int /\ average_delay \in Int
       /\ true_sum \in Int /\ clock_drift_raw \in Int
       /\ true_averages[1] \in Int /\ true_averages[2] \in Int
       /\ Drift!Slope \in -2 .. 2
       /\ \E b \in Int : Calm(b)

LEMMA DriftInit == Drift!Init => DInv
<1> SUFFICES ASSUME Drift!Init
             PROVE  DInv
  OBVIOUS
<1>1. /\ average_delay_base = 0 /\ current_delay_sum = 0 /\ current_delay_samples = 0
      /\ average_delay = 0 /\ clock_drift_raw = 0 /\ drift_origin \in DriftOrigins
      /\ true_sum = 0 /\ true_averages[1] = 0 /\ true_averages[2] = 0
  BY DEF Drift!Init
<1>2. Near \in Nat
  BY DriftConstants DEF Near
<1>3. Calm(0)
  BY <1>1, <1>2 DEF Calm
<1>4. Drift!Slope \in -2 .. 2
  BY <1>1 DEF Drift!Slope
<1> QED BY <1>1, <1>3, <1>4 DEF DInv

\* The mean of samples between lo and hi, one more than before.
LEMMA OneMore ==
  ASSUME NEW n \in Nat, NEW sum \in Int, NEW lo \in Int, NEW hi \in Int, NEW v \in Int,
         n * lo <= sum, sum <= n * hi, lo <= v, v <= hi
  PROVE  (n + 1) * lo <= sum + v /\ sum + v <= (n + 1) * hi
<1>1. (n + 1) * lo = n * lo + lo /\ (n + 1) * hi = n * hi + hi /\ n * lo \in Int /\ n * hi \in Int
  OBVIOUS
<1> QED BY <1>1

LEMMA DriftSampleStep ==
  ASSUME DInv, NEW d \in -Reach .. Reach, NEW slot \in BOOLEAN, Drift!AddSample(d, slot)
  PROVE  DInv'
<1> DEFINE s == (drift_origin + d) % DriftMod
           base == IF average_delay_base = 0 THEN s ELSE average_delay_base
           v == Drift!Sample(base, s)
           sum == current_delay_sum + v
           n == current_delay_samples + 1
           average == Drift!Quotient(sum, n)
           adjust == Drift!Adjust(average_delay, average)
           ta == true_averages[1]
           tsum == true_sum + d
           p == average_delay
<1>1. drift_origin' = drift_origin /\ drift_origin \in DriftOrigins
  BY DEF DInv, Drift!AddSample
<1> SUFFICES ASSUME ~wild', ~met_zero'
             PROVE  /\ current_delay_samples' \in Nat /\ current_delay_sum' \in Int
                    /\ average_delay' \in Int
                    /\ true_sum' \in Int /\ clock_drift_raw' \in Int
                    /\ true_averages'[1] \in Int /\ true_averages'[2] \in Int
                    /\ (Drift!Slope)' \in -2 .. 2
                    /\ \E c \in Int : Calm(c)'
  BY <1>1 DEF DInv
<1>2. s # 0 /\ (average_delay_base = 0 /\ ~met_zero => d = 0)
  BY DEF Drift!AddSample
<1>3. ~wild /\ d \in ta - Spread .. ta + Spread
  BY DEF Drift!AddSample
<1>4. ~met_zero
  BY DEF Drift!AddSample
<1>5. /\ current_delay_samples \in Nat /\ current_delay_sum \in Int /\ p \in Int
      /\ true_sum \in Int /\ clock_drift_raw \in Int
      /\ ta \in Int /\ true_averages[2] \in Int /\ Drift!Slope \in -2 .. 2
  BY <1>3, <1>4 DEF DInv
<1>6. PICK b \in Int : Calm(b)
  BY <1>3, <1>4 DEF DInv
<1>7. /\ Near \in Nat /\ Spread \in Nat /\ Near = Spread + 1 /\ DriftMod \in Nat \ {0}
      /\ Spread + Near + 1 <= MAX_AVERAGE_DELAY_SAMPLE /\ MAX_AVERAGE_DELAY_SAMPLE \in Nat
      /\ drift_origin \in Int /\ d \in Int
  BY <1>1, <1>3, <1>5, DriftConstants DEF Near
<1>8. s \in 0 .. DriftMod - 1 /\ Shows(s, d)
  <2> DEFINE k == (drift_origin + d) \div DriftMod
  <2>1. s \in 0 .. DriftMod - 1 /\ k \in Int /\ drift_origin + d = DriftMod * k + s
    BY <1>7
  <2> HIDE DEF s, k
  <2>2. s = drift_origin + d + (-k) * DriftMod /\ -k \in Int
    BY <1>7, <2>1
  <2> QED BY <2>1, <2>2 DEF Shows
<1> HIDE DEF s
<1>9. base # 0 /\ Shows(base, b)
  BY <1>2, <1>4, <1>6, <1>8 DEF Calm
<1> HIDE DEF base
<1>10. /\ d - b <= p + Near /\ p - Near <= d - b
  BY <1>3, <1>5, <1>6, <1>7 DEF Calm
<1>11. v = d - b
  <2>1. d - b <= MAX_AVERAGE_DELAY_SAMPLE /\ b - d <= MAX_AVERAGE_DELAY_SAMPLE
    BY <1>5, <1>6, <1>7, <1>10 DEF Calm
  <2> QED BY <1>1, <1>7, <1>8, <1>9, <2>1, SampleExact
<1> HIDE DEF v
<1>12. n \in Nat \ {0} /\ tsum \in Int /\ n * b \in Int /\ sum = tsum - n * b /\ sum \in Int
  <2>1. n * b = current_delay_samples * b + b /\ current_delay_samples * b \in Int
    BY <1>5
  <2> QED BY <1>5, <1>6, <1>7, <1>11, <2>1 DEF Calm
<1>13. n * (p - Near) <= sum /\ sum <= n * (p + Near)
  <2>1. p - Near \in Int /\ p + Near \in Int /\ v \in Int
    BY <1>5, <1>7, <1>11
  <2> QED BY <1>5, <1>6, <1>10, <1>11, <2>1, OneMore DEF Calm
<1>14. CASE ~slot
  <2>1. /\ current_delay_sum' = sum /\ current_delay_samples' = n /\ average_delay_base' = base
        /\ true_sum' = tsum
        /\ UNCHANGED <<average_delay, clock_drift_raw, true_averages>>
    BY <1>14 DEF Drift!AddSample, base, s, v
  <2>3. (Drift!Slope)' = Drift!Slope
    BY <2>1 DEF Drift!Slope
  <2> HIDE DEF n, sum, tsum
  <2>4. Calm(b)'
    <3>1. Near' = Near
      BY DEF Near
    <3>2. Shows(average_delay_base, b)'
      BY <1>1, <1>9, <2>1 DEF Shows
    <3> QED BY <1>6, <1>9, <1>12, <1>13, <2>1, <3>1, <3>2 DEF Calm
  <2> QED BY <1>5, <1>12, <2>1, <2>3, <2>4
<1>15. CASE slot
  <2> DEFINE tq == Drift!Quotient(tsum, n)
  <2>1. /\ current_delay_sum' = 0 /\ current_delay_samples' = 0 /\ true_sum' = 0
        /\ average_delay_base' = Drift!Rebased(base, adjust)
        /\ average_delay' = average + adjust /\ clock_drift_raw' = average - average_delay
        /\ met_zero' = (met_zero \/ average_delay_base' = 0)
        /\ true_averages' = <<tq, ta>>
    BY <1>15 DEF Drift!AddSample, base, s, v
  <2>2. true_averages'[1] = tq /\ true_averages'[2] = ta
    BY <2>1
  <2>3. average_delay_base' # 0
    BY <2>1
  <2>4. tq \in Int /\ average \in Int /\ average + b - tq \in -1 .. 1
    <3> HIDE DEF tq, average, n, sum, tsum
    <3>1. tq = Drift!Quotient(tsum, n) /\ average = Drift!Quotient(tsum - n * b, n)
      BY <1>12 DEF tq, average
    <3> QED BY <1>12, <3>1, QuotientMoves
  <2>5. p - Near <= average /\ average <= p + Near
    <3>1. p - Near \in Int /\ p + Near \in Int
      BY <1>5, <1>7
    <3>2. (p - Near) * n <= sum /\ sum <= (p + Near) * n
      <4>1. (p - Near) * n = n * (p - Near) /\ (p + Near) * n = n * (p + Near)
        BY <1>12, <3>1
      <4> QED BY <1>13, <4>1
    <3> HIDE DEF average, n, sum
    <3>3. average = Drift!Quotient(sum, n)
      BY DEF average
    <3> QED BY <1>12, <3>1, <3>2, <3>3, QuotientNear
  <2> HIDE DEF average, tq
  <2>6. average - p \in -Near .. Near
    BY <1>5, <1>7, <2>4, <2>5
  <2>7. adjust \in Int /\ average + adjust \in -Near .. Near
    BY <1>5, <1>7, <2>4, <2>6, AdjustedNearZero
  <2> HIDE DEF adjust
  <2>c. PICK c \in Int : c = b - adjust
    BY <1>6, <2>7
  <2>8. c \in Int /\ Shows(average_delay_base', c)
    BY <1>1, <1>6, <1>9, <2>1, <2>7, <2>c, RebasedShows
  <2>9. (average + adjust) + c - tq \in -1 .. 1
    BY <1>6, <2>4, <2>7, <2>c
  <2>10. Calm(c)'
    <3>1. Near' = Near
      BY DEF Near
    <3>2. Shows(average_delay_base, c)'
      BY <1>1, <2>8 DEF Shows
    <3>3. /\ current_delay_samples' * (average_delay' - Near) = 0
          /\ current_delay_samples' * (average_delay' + Near) = 0
          /\ current_delay_samples' * c = 0
      BY <1>7, <2>1, <2>4, <2>7, <2>8
    <3> QED BY <2>1, <2>2, <2>3, <2>7, <2>8, <2>9, <3>1, <3>2, <3>3 DEF Calm
  <2>11. (Drift!Slope)' \in -2 .. 2
    <3>1. (Drift!Slope)' = (average - p) - (tq - ta)
      BY <2>1, <2>2 DEF Drift!Slope
    <3>2. p + b - ta \in -1 .. 1
      BY <1>6 DEF Calm
    <3> QED BY <1>5, <2>4, <3>1, <3>2
  <2> QED BY <1>5, <2>1, <2>2, <2>4, <2>7, <2>8, <2>10, <2>11
<1> QED BY <1>14, <1>15

LEMMA DriftStep ==
  ASSUME DInv, [Drift!Next]_(Drift!vars)
  PROVE  DInv'
<1>1. CASE Drift!Next
  BY <1>1, DriftSampleStep DEF Drift!Next
<1>2. CASE UNCHANGED Drift!vars
  <2>1. UNCHANGED <<average_delay_base, current_delay_sum, current_delay_samples, average_delay,
                    clock_drift_raw, drift_origin, true_sum, true_averages, met_zero, wild>>
    BY <1>2 DEF Drift!vars
  <2>2. \A b : Calm(b)' <=> Calm(b)
    BY <2>1 DEF Calm, Shows, Near
  <2>3. (Drift!Slope)' = Drift!Slope
    BY <2>1 DEF Drift!Slope
  <2> QED BY <2>1, <2>2, <2>3 DEF DInv
<1> QED BY <1>1, <1>2

\* process_incoming: while the delays change slowly, clock_drift_raw is the slope of
\* the true delay averages but for the truncations, however far the delays walk round
\* the clock, for any spread that the clamp of a sample leaves room for twice over.
THEOREM DriftAlwaysSlope == Drift!Spec => []DriftIsSlope
<1>1. DInv => DriftIsSlope
  BY DEF DInv, DriftIsSlope, Drift!DriftIsSlope
<1>2. DInv /\ [Drift!Next]_(Drift!vars) => DInv'
  BY DriftStep
<1> QED BY <1>1, <1>2, DriftInit, PTL DEF Drift!Spec

-----------------------------------------------------------------------------
(* Functions defined by recursion over the numbers. *)

\* The function f follows the rule g from c on, up to n.
Follows(f, n, c, g) ==
  f \in [0 .. n -> Int] /\ f[0] = c /\ \A i \in 0 .. n - 1 : f[i + 1] = g[<<i, f[i]>>]

\* Such a function goes up to every n: the least n that none reaches is neither 0
\* nor the successor of one that some function reaches.
LEMMA SomeFollows ==
  ASSUME NEW c \in Int, NEW g \in [Nat \X Int -> Int], NEW n \in Nat
  PROVE  \E f : Follows(f, n, c, g)
<1> DEFINE Bad == {m \in Nat : ~ \E f : Follows(f, m, c, g)}
<1> SUFFICES ASSUME Bad # {} PROVE FALSE
  OBVIOUS
<1>1. Bad \subseteq Nat
  OBVIOUS
<1> DEFINE m == Min(Bad)
<1>2. m \in Bad /\ \A y \in Bad : m <= y
  <2> HIDE DEF Bad
  <2> QED BY <1>1, NatMin
<1> HIDE DEF m
<1>3. m \in Nat /\ ~ \E f : Follows(f, m, c, g)
  BY <1>2
<1>4. m # 0
  <2> SUFFICES ASSUME m = 0 PROVE FALSE
    OBVIOUS
  <2> DEFINE f == [i \in 0 .. 0 |-> c]
  <2>1. f \in [0 .. 0 -> Int] /\ f[0] = c
    OBVIOUS
  <2>2. \A i \in 0 .. 0 - 1 : FALSE
    OBVIOUS
  <2> HIDE DEF f
  <2>3. Follows(f, 0, c, g)
    BY <2>1, <2>2 DEF Follows
  <2> QED BY <1>3, <2>3
<1>5. m - 1 \in Nat /\ m - 1 \notin Bad
  BY <1>2, <1>3, <1>4
<1>6. PICK f : Follows(f, m - 1, c, g)
  BY <1>5
<1> DEFINE e == [i \in 0 .. m |-> IF i = m THEN g[<<m - 1, f[m - 1]>>] ELSE f[i]]
<1>7. f \in [0 .. m - 1 -> Int] /\ f[0] = c /\ \A i \in 0 .. (m - 1) - 1 : f[i + 1] = g[<<i, f[i]>>]
  BY <1>6 DEF Follows
<1>8. f[m - 1] \in Int /\ g[<<m - 1, f[m - 1]>>] \in Int
  BY <1>5, <1>7
<1>9. /\ e \in [0 .. m -> Int] /\ e[0] = c /\ e[m] = g[<<m - 1, f[m - 1]>>]
      /\ \A i \in 0 .. m - 1 : e[i] = f[i]
  BY <1>3, <1>4, <1>7, <1>8
<1> HIDE DEF e
<1>10. \A i \in 0 .. m - 1 : e[i + 1] = g[<<i, e[i]>>]
  <2> SUFFICES ASSUME NEW i \in 0 .. m - 1 PROVE e[i + 1] = g[<<i, e[i]>>]
    OBVIOUS
  <2>1. CASE i = m - 1
    <3>1. i + 1 = m /\ e[i] = f[i]
      BY <1>3, <1>9, <2>1
    <3> QED BY <1>9, <2>1, <3>1
  <2>2. CASE i # m - 1
    <3>1. i \in 0 .. (m - 1) - 1 /\ i + 1 \in 0 .. m - 1
      BY <1>3, <2>2
    <3> QED BY <1>7, <1>9, <3>1
  <2> QED BY <2>1, <2>2
<1>11. Follows(e, m, c, g)
  BY <1>9, <1>10 DEF Follows
<1> QED BY <1>3, <1>11

\* Two such functions agree as far as both go.
LEMMA FollowsOne ==
  ASSUME NEW c, NEW g, NEW m \in Nat, NEW n \in Nat, m <= n,
         NEW e, NEW f, Follows(e, m, c, g), Follows(f, n, c, g)
  PROVE  e[m] = f[m]
<1> DEFINE Bad == {i \in 0 .. m : e[i] # f[i]}
<1>1. Bad \subseteq Nat
  OBVIOUS
<1>2. Bad = {}
  <2> SUFFICES ASSUME Bad # {} PROVE FALSE
    OBVIOUS
  <2> DEFINE i == Min(Bad)
  <2>1. i \in Bad /\ \A y \in Bad : i <= y
    <3> HIDE DEF Bad
    <3> QED BY <1>1, NatMin
  <2> HIDE DEF i
  <2>2. i \in 0 .. m /\ e[i] # f[i]
    BY <2>1
  <2>3. i # 0
    BY <2>2 DEF Follows
  <2>4. i - 1 \in 0 .. m - 1 /\ i - 1 \in 0 .. n - 1 /\ i - 1 \in 0 .. m /\ i - 1 \notin Bad
    BY <2>1, <2>2, <2>3
  <2>5. e[i - 1] = f[i - 1]
    BY <2>4
  <2>6. e[(i - 1) + 1] = g[<<i - 1, e[i - 1]>>] /\ f[(i - 1) + 1] = g[<<i - 1, f[i - 1]>>]
    BY <2>4 DEF Follows
  <2>7. (i - 1) + 1 = i
    BY <2>2
  <2> QED BY <2>2, <2>5, <2>6, <2>7
<1> QED BY <1>2

\* So one function follows the rule for ever.
LEMMA Recursion ==
  ASSUME NEW c \in Int, NEW g \in [Nat \X Int -> Int]
  PROVE  \E f \in [Nat -> Int] : f[0] = c /\ \A i \in Nat : f[i + 1] = g[<<i, f[i]>>]
<1> DEFINE Upto(n) == CHOOSE u : Follows(u, n, c, g)
           f == [n \in Nat |-> Upto(n)[n]]
<1>1. ASSUME NEW n \in Nat PROVE Follows(Upto(n), n, c, g)
  <2>1. \E u : Follows(u, n, c, g)
    BY SomeFollows
  <2> QED BY <2>1
<1> HIDE DEF Upto
<1>2. \A n \in Nat : Upto(n)[n] \in Int
  <2> SUFFICES ASSUME NEW n \in Nat PROVE Upto(n)[n] \in Int
    OBVIOUS
  <2>1. Follows(Upto(n), n, c, g) /\ n \in 0 .. n
    BY <1>1
  <2> QED BY <2>1 DEF Follows
<1>3. f \in [Nat -> Int] /\ \A n \in Nat : f[n] = Upto(n)[n]
  BY <1>2
<1> HIDE DEF f
<1>4. f[0] = c
  <2>1. Follows(Upto(0), 0, c, g)
    BY <1>1
  <2> QED BY <1>3, <2>1 DEF Follows
<1>5. \A i \in Nat : f[i + 1] = g[<<i, f[i]>>]
  <2> SUFFICES ASSUME NEW i \in Nat PROVE f[i + 1] = g[<<i, f[i]>>]
    OBVIOUS
  <2>1. Follows(Upto(i), i, c, g) /\ Follows(Upto(i + 1), i + 1, c, g) /\ i + 1 \in Nat
    BY <1>1
  <2>2. Upto(i)[i] = Upto(i + 1)[i]
    BY <2>1, FollowsOne
  <2>3. i \in 0 .. (i + 1) - 1
    OBVIOUS
  <2>4. Upto(i + 1)[i + 1] = g[<<i, Upto(i + 1)[i]>>]
    BY <2>1, <2>3 DEF Follows
  <2> QED BY <1>3, <2>1, <2>2, <2>4
<1> QED BY <1>3, <1>4, <1>5

-----------------------------------------------------------------------------
(* The packet codec: powers of two, bits and digits. *)

LEMMA PowerRule ==
  /\ Codec!Power \in [Nat -> Int] /\ Codec!Power[0] = 1
  /\ \A n \in Nat : Codec!Power[n + 1] = 2 * Codec!Power[n]
<1> DEFINE g == [p \in Nat \X Int |-> 2 * p[2]]
<1>1. g \in [Nat \X Int -> Int] /\ \A i \in Nat, x \in Int : g[<<i, x>>] = 2 * x
  OBVIOUS
<1> HIDE DEF g
<1>2. PICK f \in [Nat -> Int] : f[0] = 1 /\ \A i \in Nat : f[i + 1] = g[<<i, f[i]>>]
  <2>1. \A c \in Int : \E f \in [Nat -> Int] : f[0] = c /\ \A i \in Nat : f[i + 1] = g[<<i, f[i]>>]
    BY <1>1, Recursion, Zenon
  <2>2. 1 \in Int
    OBVIOUS
  <2> QED BY <2>1, <2>2, Zenon
<1>3. f = [n \in Nat |-> IF n = 0 THEN 1 ELSE 2 * f[n - 1]]
  <2>1. \A n \in Nat : f[n] = IF n = 0 THEN 1 ELSE 2 * f[n - 1]
    <3> SUFFICES ASSUME NEW n \in Nat, n # 0 PROVE f[n] = 2 * f[n - 1]
      BY <1>2
    <3>1. n - 1 \in Nat /\ (n - 1) + 1 = n /\ f[n - 1] \in Int
      OBVIOUS
    <3>2. f[(n - 1) + 1] = g[<<n - 1, f[n - 1]>>]
      BY <1>2, <3>1
    <3> QED BY <1>1, <3>1, <3>2
  <2> QED BY <2>1
<1> DEFINE p == Codec!Power
<1>4. p = [n \in Nat |-> IF n = 0 THEN 1 ELSE 2 * p[n - 1]]
  BY <1>3 DEF Codec!Power
<1> HIDE DEF p
<1>5. p[0] = 1
  BY <1>4
<1>6. \A n \in Nat : p[n + 1] = 2 * p[n]
  <2> SUFFICES ASSUME NEW n \in Nat PROVE p[n + 1] = 2 * p[n]
    OBVIOUS
  <2>1. n + 1 \in Nat /\ n + 1 # 0 /\ (n + 1) - 1 = n
    OBVIOUS
  <2> QED BY <1>4, <2>1
<1>7. \A n \in Nat : p[n] \in Int
  <2> DEFINE Bad == {n \in Nat : p[n] \notin Int}
             m == Min(Bad)
  <2> SUFFICES ASSUME Bad # {} PROVE FALSE
    OBVIOUS
  <2>1. m \in Bad /\ \A y \in Bad : m <= y
    <3>1. Bad \subseteq Nat
      OBVIOUS
    <3> HIDE DEF Bad
    <3> QED BY <3>1, NatMin
  <2> HIDE DEF m
  <2>2. m # 0 /\ m \in Nat /\ p[m] \notin Int
    BY <1>5, <2>1
  <2>3. m - 1 \in Nat /\ m - 1 \notin Bad /\ (m - 1) + 1 = m
    BY <2>1, <2>2
  <2>4. p[m - 1] \in Int /\ p[m] = 2 * p[m - 1]
    BY <1>6, <2>3
  <2> QED BY <2>2, <2>4
<1>8. p \in [Nat -> Int]
  <2>1. p = [n \in Nat |-> p[n]]
    BY <1>4
  <2> QED BY <1>7, <2>1
<1> QED BY <1>5, <1>6, <1>8 DEF p

LEMMA PowerPositive ==
  ASSUME NEW n \in Nat PROVE Codec!Power[n] \in Nat \ {0}
<1> DEFINE p == Codec!Power
<1>1. p \in [Nat -> Int] /\ p[0] = 1 /\ \A i \in Nat : p[i + 1] = 2 * p[i]
  BY PowerRule
<1> HIDE DEF p
<1> DEFINE Bad == {i \in Nat : p[i] \notin Nat \ {0}}
           m == Min(Bad)
<1>2. Bad = {}
  <2> SUFFICES ASSUME Bad # {} PROVE FALSE
    OBVIOUS
  <2>1. m \in Bad /\ \A y \in Bad : m <= y
    <3>1. Bad \subseteq Nat
      OBVIOUS
    <3> HIDE DEF Bad
    <3> QED BY <3>1, NatMin
  <2> HIDE DEF m
  <2>2. m # 0 /\ m \in Nat /\ p[m] \notin Nat \ {0}
    BY <1>1, <2>1
  <2>3. m - 1 \in Nat /\ m - 1 \notin Bad /\ (m - 1) + 1 = m
    BY <2>1, <2>2
  <2>4. p[m - 1] \in Nat \ {0} /\ p[m] = 2 * p[m - 1]
    BY <1>1, <2>3
  <2> QED BY <2>2, <2>4
<1> QED BY <1>2 DEF p

LEMMA PowerSplits ==
  ASSUME NEW i \in Nat, NEW n \in Nat, i < n
  PROVE  \E q \in Nat : Codec!Power[n] = Codec!Power[i] * (2 * q)
<1> DEFINE p == Codec!Power
<1>1. p \in [Nat -> Int] /\ p[0] = 1 /\ \A k \in Nat : p[k + 1] = 2 * p[k]
  BY PowerRule
<1> HIDE DEF p
<1> DEFINE Bad == {k \in Nat : k > i /\ ~ \E q \in Nat : p[k] = p[i] * (2 * q)}
           m == Min(Bad)
<1>2. Bad = {}
  <2> SUFFICES ASSUME Bad # {} PROVE FALSE
    OBVIOUS
  <2>1. m \in Bad /\ \A y \in Bad : m <= y
    <3>1. Bad \subseteq Nat
      OBVIOUS
    <3> HIDE DEF Bad
    <3> QED BY <3>1, NatMin
  <2> HIDE DEF m
  <2>2. m \in Nat /\ m > i /\ ~ \E q \in Nat : p[m] = p[i] * (2 * q)
    BY <2>1
  <2>3. m - 1 \in Nat /\ m - 1 \notin Bad /\ (m - 1) + 1 = m /\ m - 1 >= i
    BY <2>1, <2>2
  <2>4. p[m] = 2 * p[m - 1] /\ p[i] \in Int
    BY <1>1, <2>3
  <2>5. CASE m - 1 = i
    <3>1. p[m] = p[i] * (2 * 1)
      BY <2>4, <2>5
    <3> QED BY <2>2, <3>1
  <2>6. CASE m - 1 > i
    <3>1. PICK q \in Nat : p[m - 1] = p[i] * (2 * q)
      BY <2>3, <2>6
    <3>2. 2 * (p[i] * (2 * q)) = p[i] * (2 * (2 * q)) /\ 2 * q \in Nat
      BY <2>4
    <3> QED BY <2>2, <2>4, <3>1, <3>2
  <2> QED BY <2>3, <2>5, <2>6
<1> QED BY <1>2 DEF p

\* The quotient and the remainder are the only pair of their kind.
LEMMA Divided ==
  ASSUME NEW d \in Nat \ {0}, NEW k \in Int, NEW r \in 0 .. d - 1, NEW y, y = d * k + r
  PROVE  y \div d = k /\ y % d = r
<1> DEFINE q == y \div d
           e == y % d
<1>1. d * k \in Int /\ y \in Int
  OBVIOUS
<1>2. q \in Int /\ e \in 0 .. d - 1 /\ y = d * q + e
  BY <1>1
<1> HIDE DEF q, e
<1>3. d * q \in Int /\ (q - k) * d = d * q - d * k /\ (k - q) * d = d * k - d * q /\ q - k \in Int /\ k - q \in Int
  BY <1>2
<1>4. ~((q - k) * d > 0)
  <2> SUFFICES ASSUME (q - k) * d > 0 PROVE FALSE
    OBVIOUS
  <2>1. (q - k) * d >= d
    BY <1>3, NoMultipleBetween
  <2> QED BY <1>1, <1>2, <1>3, <2>1
<1>5. ~((k - q) * d > 0)
  <2> SUFFICES ASSUME (k - q) * d > 0 PROVE FALSE
    OBVIOUS
  <2>1. (k - q) * d >= d
    BY <1>3, NoMultipleBetween
  <2> QED BY <1>1, <1>2, <1>3, <2>1
<1>6. (q - k) * d = 0
  BY <1>1, <1>3, <1>4, <1>5
<1>7. q = k
  <2> SUFFICES ASSUME q # k PROVE FALSE
    OBVIOUS
  <2>1. CASE q > k
    <3>1. PICK i \in Nat : q - k = i + 1
      BY <1>2, <2>1
    <3>2. (i + 1) * d = i * d + d /\ i * d \in Nat
      OBVIOUS
    <3> QED BY <1>6, <3>1, <3>2
  <2>2. CASE q < k
    <3>1. PICK i \in Nat : q - k = -(i + 1)
      <4>1. k - q - 1 \in Nat /\ q - k = -((k - q - 1) + 1)
        BY <1>2, <2>2
      <4> QED BY <4>1
    <3>2. (-(i + 1)) * d = -(i * d) - d /\ i * d \in Nat
      OBVIOUS
    <3> QED BY <1>6, <3>1, <3>2
  <2> QED BY <1>2, <2>1, <2>2
<1> QED BY <1>1, <1>2, <1>7 DEF q, e

\* Adding a higher power of two leaves a bit alone.
LEMMA BitKept ==
  ASSUME NEW i \in Nat, NEW n \in Nat, i < n, NEW x \in Nat
  PROVE  ((x + Codec!Power[n]) \div Codec!Power[i]) % 2 = (x \div Codec!Power[i]) % 2
<1> DEFINE d == Codec!Power[i]
           k == x \div d
           r == x % d
<1>1. d \in Nat \ {0}
  BY PowerPositive
<1>2. PICK q \in Nat : Codec!Power[n] = d * (2 * q)
  BY PowerSplits
<1> HIDE DEF d
<1>3. k \in Int /\ r \in 0 .. d - 1 /\ x = d * k + r
  BY <1>1
<1> HIDE DEF k, r
<1>4. d * (k + 2 * q) = d * k + d * (2 * q) /\ d * k \in Int /\ d * (2 * q) \in Int
  BY <1>1, <1>3
<1>5. x + Codec!Power[n] = d * (k + 2 * q) + r
  BY <1>1, <1>2, <1>3, <1>4
<1>6. (x + Codec!Power[n]) \div d = k + 2 * q
  <2> DEFINE y == x + Codec!Power[n]
             l == k + 2 * q
  <2>1. l \in Int
    BY <1>3
  <2> HIDE DEF l, y
  <2>2. y = d * l + r
    BY <1>5 DEF l, y
  <2>3. y \div d = l
    BY <1>1, <1>3, <2>1, <2>2, Divided
  <2> QED BY <2>3 DEF l, y
<1>7. (k + 2 * q) % 2 = k % 2
  BY <1>3
<1> QED BY <1>6, <1>7 DEF d, k

\* The byte that SetBits computes, turn by turn.
LEMMA SetBitsRule ==
  ASSUME NEW s
  PROVE  \E f \in [Nat -> Int] :
           /\ f[0] = 0
           /\ \A i \in Nat : f[i + 1] = f[i] + (IF i \in s THEN Codec!Power[i] ELSE 0)
           /\ Codec!SetBits(s) = f[BitsPerByte]
<1> DEFINE p == Codec!Power
           a(i) == IF i \in s THEN p[i] ELSE 0
           g == [t \in Nat \X Int |-> t[2] + a(t[1])]
           B == BitsPerByte
<1>0. B \in Nat
  BY ComponentAssumptions DEF Codec!PacketAssumption
<1>1. \A i \in Nat : a(i) \in Int
  BY PowerRule
<1> HIDE DEF p, a
<1>2. g \in [Nat \X Int -> Int] /\ \A i \in Nat, x \in Int : g[<<i, x>>] = x + a(i)
  BY <1>1
<1> HIDE DEF g
<1>3. PICK f \in [Nat -> Int] : f[0] = 0 /\ \A i \in Nat : f[i + 1] = g[<<i, f[i]>>]
  <2>1. \A c \in Int : \E f \in [Nat -> Int] : f[0] = c /\ \A i \in Nat : f[i + 1] = g[<<i, f[i]>>]
    BY <1>2, Recursion, Zenon
  <2>2. 0 \in Int
    OBVIOUS
  <2> QED BY <2>1, <2>2, Zenon
<1>4. \A i \in Nat : f[i + 1] = f[i] + a(i)
  BY <1>2, <1>3
<1> DEFINE Solves(m) == m = [n \in 0 .. B |-> IF n = 0 THEN 0 ELSE m[n - 1] + a(n - 1)]
           e == [n \in 0 .. B |-> f[n]]
           m0 == CHOOSE m : Solves(m)
<1>5. Solves(e)
  <2>1. \A n \in 0 .. B : f[n] = IF n = 0 THEN 0 ELSE e[n - 1] + a(n - 1)
    <3> SUFFICES ASSUME NEW n \in 0 .. B, n # 0 PROVE f[n] = e[n - 1] + a(n - 1)
      BY <1>3
    <3>1. n - 1 \in Nat /\ (n - 1) + 1 = n /\ n - 1 \in 0 .. B
      BY <1>0
    <3>2. f[(n - 1) + 1] = f[n - 1] + a(n - 1)
      BY <1>4, <3>1
    <3> QED BY <3>1, <3>2
  <2> QED BY <2>1
<1>6. Solves(m0)
  <2> HIDE DEF Solves, e
  <2> QED BY <1>5
<1>7. Codec!SetBits(s) = m0[B]
  BY DEF Codec!SetBits, a, p
<1> HIDE DEF m0
<1>8. m0[0] = 0 /\ \A n \in 0 .. B : n # 0 => m0[n] = m0[n - 1] + a(n - 1)
  BY <1>0, <1>6
<1>9. \A n \in 0 .. B : m0[n] = f[n]
  <2> DEFINE Bad == {n \in 0 .. B : m0[n] # f[n]}
             k == Min(Bad)
  <2> SUFFICES ASSUME Bad # {} PROVE FALSE
    OBVIOUS
  <2>1. k \in Bad /\ \A y \in Bad : k <= y
    <3>1. Bad \subseteq Nat
      OBVIOUS
    <3> HIDE DEF Bad
    <3> QED BY <3>1, NatMin
  <2> HIDE DEF k
  <2>2. k \in 0 .. B /\ m0[k] # f[k] /\ k # 0
    BY <1>3, <1>8, <2>1
  <2>3. k - 1 \in 0 .. B /\ k - 1 \in Nat /\ k - 1 \notin Bad /\ (k - 1) + 1 = k
    BY <1>0, <2>1, <2>2
  <2>4. m0[k - 1] = f[k - 1] /\ m0[k] = m0[k - 1] + a(k - 1) /\ f[k] = f[k - 1] + a(k - 1)
    BY <1>4, <1>8, <2>2, <2>3
  <2> QED BY <2>2, <2>4
<1>10. Codec!SetBits(s) = f[B]
  BY <1>0, <1>7, <1>9
<1> QED BY <1>3, <1>4, <1>10 DEF a, p

\* The bits of the byte are the ones that were set.
LEMMA BitsAreSet ==
  ASSUME NEW s
  PROVE  /\ Codec!SetBits(s) \in Nat
         /\ \A i \in 0 .. BitsPerByte - 1 :
              (Codec!SetBits(s) \div Codec!Power[i]) % 2 = 1 <=> i \in s
<1> DEFINE p == Codec!Power
           B == BitsPerByte
<1>0. B \in Nat
  BY ComponentAssumptions DEF Codec!PacketAssumption
<1>1. PICK f \in [Nat -> Int] :
        /\ f[0] = 0
        /\ \A n \in Nat : f[n + 1] = f[n] + (IF n \in s THEN p[n] ELSE 0)
        /\ Codec!SetBits(s) = f[B]
  BY SetBitsRule, Zenon
<1>2. \A n \in Nat : p[n] \in Nat \ {0} /\ p[n + 1] = 2 * p[n]
  BY PowerRule, PowerPositive
<1>3. p[0] = 1
  BY PowerRule
<1>4. \A k, n \in Nat : \A x \in Nat : k < n => ((x + p[n]) \div p[k]) % 2 = (x \div p[k]) % 2
  BY BitKept
<1> HIDE DEF p
<1> DEFINE Has(x, n) == \A k \in 0 .. n - 1 : (x \div p[k]) % 2 = 1 <=> k \in s
           Bad == {n \in Nat : ~(f[n] \in 0 .. p[n] - 1 /\ Has(f[n], n))}
           m == Min(Bad)
<1>5. Bad = {}
  <2> SUFFICES ASSUME Bad # {} PROVE FALSE
    OBVIOUS
  <2>1. m \in Bad /\ \A y \in Bad : m <= y
    <3>1. Bad \subseteq Nat
      OBVIOUS
    <3> HIDE DEF Bad
    <3> QED BY <3>1, NatMin
  <2> HIDE DEF m
  <2>2. m \in Nat /\ ~(f[m] \in 0 .. p[m] - 1 /\ Has(f[m], m))
    BY <2>1
  <2>3. m # 0
    <3> SUFFICES ASSUME m = 0 PROVE FALSE
      OBVIOUS
    <3>1. f[0] \in 0 .. p[0] - 1
      BY <1>1, <1>3
    <3>2. Has(f[0], 0)
      OBVIOUS
    <3> QED BY <2>2, <3>1, <3>2
  <2>4. m - 1 \in Nat /\ m - 1 \notin Bad /\ (m - 1) + 1 = m
    BY <2>1, <2>2, <2>3
  <2> DEFINE n == m - 1
             x == f[n]
             y == f[m]
  <2>5. n \in Nat /\ x \in 0 .. p[n] - 1 /\ Has(x, n)
    BY <2>4
  <2>6. y = x + (IF n \in s THEN p[n] ELSE 0) /\ p[m] = 2 * p[n] /\ p[n] \in Nat \ {0}
    BY <1>1, <1>2, <2>4
  <2> HIDE DEF n, x, y
  <2>7. y \in 0 .. p[m] - 1 /\ x \in Nat
    BY <2>5, <2>6
  <2>8. ASSUME NEW k \in 0 .. m - 1 PROVE (y \div p[k]) % 2 = 1 <=> k \in s
    <3>1. CASE k < n
      <4>1. k \in 0 .. n - 1 /\ k \in Nat
        BY <2>5, <3>1
      <4>2. (y \div p[k]) % 2 = (x \div p[k]) % 2
        <5>1. ((x + p[n]) \div p[k]) % 2 = (x \div p[k]) % 2
          BY <1>4, <2>5, <2>7, <3>1, <4>1
        <5>2. x + 0 = x
          BY <2>7
        <5> QED BY <2>6, <5>1, <5>2
      <4> QED BY <2>5, <4>1, <4>2
    <3>2. CASE k = n
      <4> DEFINE a == IF n \in s THEN 1 ELSE 0
      <4>1. a \in Int /\ a \in 0 .. 1 /\ (a = 1 <=> n \in s)
        OBVIOUS
      <4>2. y = p[n] * a + x
        BY <2>6, <2>7
      <4> HIDE DEF a
      <4>3. y \div p[n] = a
        <5> DEFINE d == p[n]
        <5>1. d \in Nat \ {0} /\ x \in 0 .. d - 1 /\ y = d * a + x
          BY <2>5, <2>6, <4>2
        <5> HIDE DEF d
        <5>2. y \div d = a
          BY <4>1, <5>1, Divided
        <5> QED BY <5>2 DEF d
      <4>4. a % 2 = a
        BY <4>1
      <4> QED BY <3>2, <4>1, <4>3, <4>4
    <3>3. k < n \/ k = n
      BY <2>2 DEF n
    <3> QED BY <3>1, <3>2, <3>3
  <2>9. Has(y, m)
    BY <2>8
  <2> QED BY <2>2, <2>7, <2>9 DEF y
<1>6. f[B] \in 0 .. p[B] - 1 /\ Has(f[B], B)
  BY <1>0, <1>5
<1>7. f[B] \in Nat
  BY <1>0, <1>2, <1>6
<1> QED BY <1>1, <1>6, <1>7 DEF p

LEMMA CodecConstants ==
  /\ BitsPerByte \in Nat \ {0} /\ ExtBitsLen \in Nat /\ MaskLen \in Nat /\ MaxTail \in Nat
  /\ Codec!Byte \in Nat \ {0} /\ Codec!Nibble \in Nat /\ Codec!Nibble >= 2
  /\ Codec!Short = Codec!Byte * Codec!Byte /\ Codec!Short \in Nat \ {0}
  /\ Codec!Word = Codec!Short * Codec!Short /\ Codec!Word \in Nat \ {0}
  /\ Shorts \subseteq 0 .. Codec!Short - 1 /\ Words \subseteq 0 .. Codec!Word - 1
  /\ Windows \subseteq Nat /\ TailBytes \subseteq 0 .. Codec!Byte - 1
  /\ \A m \in Masks : m \subseteq 0 .. MaskLen * BitsPerByte - 1
<1> DEFINE k == BitsPerByte \div 2
<1>1. /\ BitsPerByte \in Nat \ {0} /\ k \in Nat \ {0} /\ ExtBitsLen \in Nat
      /\ MaskLen \in Nat /\ MaxTail \in Nat
  BY ComponentAssumptions DEF Codec!PacketAssumption
<1>2. /\ Shorts \subseteq 0 .. Codec!Short - 1 /\ Words \subseteq 0 .. Codec!Word - 1
      /\ Windows \subseteq Nat /\ TailBytes \subseteq 0 .. Codec!Byte - 1
      /\ \A m \in Masks : m \subseteq 0 .. MaskLen * BitsPerByte - 1
  BY ComponentAssumptions DEF Codec!PacketAssumption
<1>3. Codec!Nibble = Codec!Power[k] /\ Codec!Byte = Codec!Power[BitsPerByte]
  BY DEF Codec!Nibble, Codec!Byte
<1> HIDE DEF k
<1>4. Codec!Byte \in Nat \ {0}
  BY <1>1, <1>3, PowerPositive
<1>5. Codec!Nibble \in Nat /\ Codec!Nibble >= 2
  <2>1. k - 1 \in Nat /\ (k - 1) + 1 = k
    BY <1>1
  <2>2. Codec!Power[k] = 2 * Codec!Power[k - 1]
    BY <2>1, PowerRule
  <2>3. Codec!Power[k - 1] \in Nat \ {0}
    BY <2>1, PowerPositive
  <2> QED BY <1>3, <2>2, <2>3
<1>6. ASSUME NEW x \in Nat \ {0} PROVE x * x \in Nat \ {0}
  <2>1. PICK i \in Nat : x = i + 1
    <3>1. x - 1 \in Nat /\ x = (x - 1) + 1
      OBVIOUS
    <3> QED BY <3>1
  <2>2. x * x = x * i + x /\ x * i \in Nat
    BY <2>1
  <2> QED BY <2>2
<1>7. Codec!Short = Codec!Byte * Codec!Byte /\ Codec!Short \in Nat \ {0}
  BY <1>4, <1>6 DEF Codec!Short
<1>8. Codec!Word = Codec!Short * Codec!Short /\ Codec!Word \in Nat \ {0}
  BY <1>6, <1>7 DEF Codec!Word
<1> QED BY <1>1, <1>2, <1>4, <1>5, <1>7, <1>8

\* Two digits give back a number of two digits.
LEMMA TwoDigits ==
  ASSUME NEW d \in Nat \ {0}, NEW v \in 0 .. d * d - 1
  PROVE  /\ v \div d \in 0 .. d - 1 /\ v % d \in 0 .. d - 1
         /\ (v \div d) % d = v \div d /\ (v \div d) * d + (v % d) = v
<1>1. d * d \in Nat /\ v \in Nat
  OBVIOUS
<1> DEFINE q == v \div d
           r == v % d
<1>2. q \in Int /\ r \in 0 .. d - 1 /\ v = d * q + r
  BY <1>1
<1>3. v >= 0 * d /\ v <= d * d /\ 0 \in Int /\ d \in Int
  BY <1>1
<1>4. q >= 0
  BY <1>1, <1>3, DivSides
<1>5. q <= d
  BY <1>1, <1>3, DivSides
<1> HIDE DEF q, r
<1>6. q # d
  <2> SUFFICES ASSUME q = d PROVE FALSE
    OBVIOUS
  <2>1. v >= d * d
    BY <1>1, <1>2
  <2> QED BY <1>1, <2>1
<1>7. q \in 0 .. d - 1
  BY <1>2, <1>4, <1>5, <1>6
<1>8. q % d = q
  BY <1>7
<1>9. q * d + r = v
  <2>1. q * d = d * q
    BY <1>2
  <2> QED BY <1>2, <2>1
<1>10. q \in 0 .. d - 1 /\ r \in 0 .. d - 1 /\ q % d = q /\ q * d + r = v
  BY <1>2, <1>7, <1>8, <1>9
<1> QED BY <1>10 DEF q, r

-----------------------------------------------------------------------------
(* The packet codec: setters and getters. *)

Short2 == 0 .. Codec!Short - 1
Word4 == 0 .. Codec!Word - 1

\* The buffer r is b with s from offset off on.
Overlaid(b, off, s, r) ==
  /\ r \in Seq(Nat) /\ Len(r) = Len(b)
  /\ \A i \in 1 .. Len(s) : r[off + i] = s[i]
  /\ \A i \in 1 .. Len(b) : i \notin off + 1 .. off + Len(s) => r[i] = b[i]

LEMMA PutFacts ==
  ASSUME NEW b \in Seq(Nat), NEW off \in Nat, NEW s \in Seq(Nat), off + Len(s) <= Len(b),
         NEW r, r = Codec!Put(b, off, s)
  PROVE  Overlaid(b, off, s, r)
<1>1. Len(b) \in Nat /\ Len(s) \in Nat /\ \A i \in 1 .. Len(b) : b[i] \in Nat
  OBVIOUS
<1>2. \A i \in 1 .. Len(s) : s[i] \in Nat
  OBVIOUS
<1>3. r = [i \in 1 .. Len(b) |-> IF i \in off + 1 .. off + Len(s) THEN s[i - off] ELSE b[i]]
  BY DEF Codec!Put
<1>4. \A i \in 1 .. Len(b) : r[i] = (IF i \in off + 1 .. off + Len(s) THEN s[i - off] ELSE b[i]) /\ r[i] \in Nat
  <2> SUFFICES ASSUME NEW i \in 1 .. Len(b)
               PROVE  /\ r[i] = (IF i \in off + 1 .. off + Len(s) THEN s[i - off] ELSE b[i])
                      /\ r[i] \in Nat
    OBVIOUS
  <2>1. r[i] = (IF i \in off + 1 .. off + Len(s) THEN s[i - off] ELSE b[i])
    BY <1>3
  <2>2. i \in off + 1 .. off + Len(s) => i - off \in 1 .. Len(s)
    BY <1>1
  <2> QED BY <1>1, <1>2, <2>1, <2>2
<1>5. r \in [1 .. Len(b) -> Nat]
  BY <1>3, <1>4
<1>6. r \in Seq(Nat) /\ Len(r) = Len(b)
  <2>1. r \in Seq(Nat)
    BY <1>1, <1>5, SeqDef
  <2>2. r \in [1 .. Len(r) -> Nat] /\ Len(r) \in Nat
    BY <2>1
  <2>3. 1 .. Len(r) = 1 .. Len(b)
    BY <1>5, <2>2
  <2> QED BY <1>1, <2>1, <2>2, <2>3
<1>7. ASSUME NEW i \in 1 .. Len(s) PROVE r[off + i] = s[i]
  <2>1. off + i \in 1 .. Len(b) /\ off + i \in off + 1 .. off + Len(s) /\ (off + i) - off = i
    BY <1>1
  <2> QED BY <1>4, <2>1
<1> QED BY <1>4, <1>6, <1>7 DEF Overlaid

\* The buffer r is b but for the elements lo to hi.
Kept(b, r, lo, hi) ==
  r \in Seq(Nat) /\ Len(r) = Len(b) /\ \A i \in 1 .. Len(b) : i \notin lo .. hi => r[i] = b[i]

LEMMA PutOne ==
  ASSUME NEW b \in Seq(Nat), NEW off \in Nat, off + 1 <= Len(b), NEW v \in Nat,
         NEW r, r = Codec!Put(b, off, <<v>>), NEW lo, lo = off + 1
  PROVE  r[lo] = v /\ Kept(b, r, lo, lo)
<1> DEFINE s == <<v>>
<1>1. s \in Seq(Nat) /\ Len(s) = 1 /\ s[1] = v
  OBVIOUS
<1> HIDE DEF s
<1>2. off + Len(s) <= Len(b) /\ r = Codec!Put(b, off, s)
  BY <1>1 DEF s
<1>3. Overlaid(b, off, s, r)
  BY <1>1, <1>2, PutFacts, Zenon
<1>4. 1 \in 1 .. Len(s) /\ off + 1 .. off + Len(s) = off + 1 .. off + 1
  BY <1>1
<1> QED BY <1>1, <1>3, <1>4 DEF Overlaid, Kept

LEMMA PutShort ==
  ASSUME NEW b \in Seq(Nat), NEW off \in Nat, off + 2 <= Len(b), NEW v \in Short2,
         NEW r, r = Codec!Put(b, off, Codec!be2(v)), NEW lo, NEW hi, lo = off + 1, hi = off + 2
  PROVE  Codec!short(r, off) = v /\ Kept(b, r, lo, hi)
<1> DEFINE d == Codec!Byte
           q == v \div d
           e == v % d
           s == Codec!be2(v)
<1>1. d \in Nat \ {0} /\ v \in 0 .. d * d - 1
  BY CodecConstants DEF Short2
<1>2. q \in 0 .. d - 1 /\ e \in 0 .. d - 1 /\ q % d = q /\ q * d + e = v
  <2> HIDE DEF d
  <2> QED BY <1>1, TwoDigits
<1>3. s = <<q % d, e>>
  BY DEF Codec!be2
<1> HIDE DEF d, q, e, s
<1>4. s \in Seq(Nat) /\ Len(s) = 2 /\ s[1] = q /\ s[2] = e
  BY <1>1, <1>2, <1>3
<1>5. off + Len(s) <= Len(b) /\ r = Codec!Put(b, off, s)
  BY <1>4 DEF s
<1>6. Overlaid(b, off, s, r)
  BY <1>4, <1>5, PutFacts, Zenon
<1>7. r[off + 1] = q /\ r[off + 2] = e
  BY <1>4, <1>6 DEF Overlaid
<1>8. Codec!short(r, off) = v
  BY <1>2, <1>7 DEF Codec!short, d
<1> QED BY <1>4, <1>6, <1>8 DEF Overlaid, Kept

LEMMA PutWord ==
  ASSUME NEW b \in Seq(Nat), NEW off \in Nat, off + 4 <= Len(b), NEW v \in Word4,
         NEW r, r = Codec!Put(b, off, Codec!be4(v)), NEW lo, NEW hi, lo = off + 1, hi = off + 4
  PROVE  Codec!word(r, off) = v /\ Kept(b, r, lo, hi)
<1> DEFINE d == Codec!Byte
           w == Codec!Short
           vh == v \div w
           vl == v % w
           s == Codec!be4(v)
           q1 == vh \div d
           e1 == vh % d
           q2 == vl \div d
           e2 == vl % d
<1>1. d \in Nat \ {0} /\ w \in Nat \ {0} /\ w = d * d /\ v \in 0 .. w * w - 1
  BY CodecConstants DEF Word4
<1>2. vh \in 0 .. w - 1 /\ vl \in 0 .. w - 1 /\ vh * w + vl = v
  <2> HIDE DEF w
  <2> QED BY <1>1, TwoDigits
<1> HIDE DEF d, w
<1>3. s = <<q1 % d, e1>> \o <<q2 % d, e2>>
  BY DEF Codec!be4, Codec!be2, w, d
<1> HIDE DEF vh, vl
<1>4. q1 \in 0 .. d - 1 /\ e1 \in 0 .. d - 1 /\ q1 % d = q1 /\ q1 * d + e1 = vh
  BY <1>1, <1>2, TwoDigits
<1>5. q2 \in 0 .. d - 1 /\ e2 \in 0 .. d - 1 /\ q2 % d = q2 /\ q2 * d + e2 = vl
  BY <1>1, <1>2, TwoDigits
<1> HIDE DEF q1, q2, e1, e2, s
<1>6. s \in Seq(Nat) /\ Len(s) = 4 /\ s[1] = q1 /\ s[2] = e1 /\ s[3] = q2 /\ s[4] = e2
  <2>1. s = <<q1, e1>> \o <<q2, e2>>
    BY <1>3, <1>4, <1>5
  <2>2. q1 \in Nat /\ q2 \in Nat /\ e1 \in Nat /\ e2 \in Nat
    BY <1>1, <1>4, <1>5
  <2>3. s \in Seq(Nat) /\ Len(s) = 4
    BY <2>1, <2>2
  <2>4. s[1] = q1 /\ s[2] = e1 /\ s[3] = q2 /\ s[4] = e2
    BY <2>1, <2>2
  <2> QED BY <2>3, <2>4
<1>7. off + Len(s) <= Len(b) /\ r = Codec!Put(b, off, s)
  BY <1>6 DEF s
<1>8. Overlaid(b, off, s, r)
  BY <1>6, <1>7, PutFacts, Zenon
<1>9. r[off + 1] = q1 /\ r[off + 2] = e1 /\ r[off + 3] = q2 /\ r[off + 4] = e2
  BY <1>6, <1>8 DEF Overlaid
<1>10. Codec!short(r, off) = vh
  BY <1>4, <1>9 DEF Codec!short, d
<1>11. Codec!short(r, off + 2) = vl
  <2>1. (off + 2) + 1 = off + 3 /\ (off + 2) + 2 = off + 4
    OBVIOUS
  <2> QED BY <1>5, <1>9, <2>1 DEF Codec!short, d
<1>12. Codec!word(r, off) = v
  BY <1>2, <1>10, <1>11 DEF Codec!word, w
<1> QED BY <1>6, <1>8, <1>12 DEF Overlaid, Kept

HeaderType ==
  [type : 0 .. 4, id : Short2, tv : Word4, reply : Word4, window : Nat, seq : Short2, ack : Short2]

LEMMA SameWord ==
  ASSUME NEW r, NEW b, NEW off \in Nat, \A i \in off + 1 .. off + 4 : r[i] = b[i]
  PROVE  Codec!word(r, off) = Codec!word(b, off)
<1>1. r[off + 1] = b[off + 1] /\ r[off + 2] = b[off + 2]
  OBVIOUS
<1>2. r[(off + 2) + 1] = b[(off + 2) + 1] /\ r[(off + 2) + 2] = b[(off + 2) + 2]
  OBVIOUS
<1>3. Codec!short(r, off) = Codec!short(b, off)
  BY <1>1, Zenon DEF Codec!short
<1>4. Codec!short(r, off + 2) = Codec!short(b, off + 2)
  BY <1>2, Zenon DEF Codec!short
<1> QED BY <1>3, <1>4, Zenon DEF Codec!word

Packets20 == {b \in Seq(Nat) : Len(b) >= 20}

\* The setters, each with its getter.
LEMMA IdSet ==
  ASSUME NEW b \in Packets20, NEW v \in Short2, NEW r, r = Codec!set_conn_id(b, v)
  PROVE  Codec!short(r, 2) = v /\ Kept(b, r, 3, 4)
<1>1. r = Codec!Put(b, 2, Codec!be2(v))
  BY DEF Codec!set_conn_id
<1>2. b \in Seq(Nat) /\ 2 \in Nat /\ 2 + 2 <= Len(b) /\ 3 = 2 + 1 /\ 4 = 2 + 2
  BY DEF Packets20
<1> QED BY <1>1, <1>2, PutShort

LEMMA TvSet ==
  ASSUME NEW b \in Packets20, NEW v \in Word4, NEW r, r = Codec!set_tv_usec(b, v)
  PROVE  Codec!word(r, 4) = v /\ Kept(b, r, 5, 8)
<1>1. r = Codec!Put(b, 4, Codec!be4(v))
  BY DEF Codec!set_tv_usec
<1>2. b \in Seq(Nat) /\ 4 \in Nat /\ 4 + 4 <= Len(b) /\ 5 = 4 + 1 /\ 8 = 4 + 4
  BY DEF Packets20
<1> QED BY <1>1, <1>2, PutWord

LEMMA ReplySet ==
  ASSUME NEW b \in Packets20, NEW v \in Word4, NEW r, r = Codec!set_reply_micro(b, v)
  PROVE  Codec!word(r, 8) = v /\ Kept(b, r, 9, 12)
<1>1. r = Codec!Put(b, 8, Codec!be4(v))
  BY DEF Codec!set_reply_micro
<1>2. b \in Seq(Nat) /\ 8 \in Nat /\ 8 + 4 <= Len(b) /\ 9 = 8 + 1 /\ 12 = 8 + 4
  BY DEF Packets20
<1> QED BY <1>1, <1>2, PutWord

LEMMA WindowSet ==
  ASSUME NEW b \in Packets20, NEW v \in Word4, NEW r, r = Codec!set_window_size(b, v)
  PROVE  Codec!word(r, 12) = v /\ Kept(b, r, 13, 16)
<1>1. r = Codec!Put(b, 12, Codec!be4(v))
  BY DEF Codec!set_window_size
<1>2. b \in Seq(Nat) /\ 12 \in Nat /\ 12 + 4 <= Len(b) /\ 13 = 12 + 1 /\ 16 = 12 + 4
  BY DEF Packets20
<1> QED BY <1>1, <1>2, PutWord

LEMMA SeqSet ==
  ASSUME NEW b \in Packets20, NEW v \in Short2, NEW r, r = Codec!set_seq_nr(b, v)
  PROVE  Codec!short(r, 16) = v /\ Kept(b, r, 17, 18)
<1>1. r = Codec!Put(b, 16, Codec!be2(v))
  BY DEF Codec!set_seq_nr
<1>2. b \in Seq(Nat) /\ 16 \in Nat /\ 16 + 2 <= Len(b) /\ 17 = 16 + 1 /\ 18 = 16 + 2
  BY DEF Packets20
<1> QED BY <1>1, <1>2, PutShort

LEMMA AckSet ==
  ASSUME NEW b \in Packets20, NEW v \in Short2, NEW r, r = Codec!set_ack_nr(b, v)
  PROVE  Codec!short(r, 18) = v /\ Kept(b, r, 19, 20)
<1>1. r = Codec!Put(b, 18, Codec!be2(v))
  BY DEF Codec!set_ack_nr
<1>2. b \in Seq(Nat) /\ 18 \in Nat /\ 18 + 2 <= Len(b) /\ 19 = 18 + 1 /\ 20 = 18 + 2
  BY DEF Packets20
<1> QED BY <1>1, <1>2, PutShort

LEMMA TypeSet ==
  ASSUME NEW b \in Packets20, NEW t \in 0 .. 4, NEW r, r = Codec!set_version_type(b, t)
  PROVE  Codec!packet_type(r) = t /\ Codec!version(r) = 1 /\ Kept(b, r, 1, 1)
<1>1. PICK d \in Nat \ {0} : d = Codec!Nibble /\ d >= 2
  BY CodecConstants
<1>2. PICK y \in Nat : y = d * t + 1 /\ y = t * d + 1
  BY <1>1
<1>3. y \div d = t /\ y % d = 1
  <2>1. t \in Int /\ 1 \in 0 .. d - 1
    BY <1>1
  <2> QED BY <1>1, <1>2, <2>1, Divided
<1>4. r = Codec!Put(b, 0, <<y>>)
  BY <1>1, <1>2 DEF Codec!set_version_type
<1>5. b \in Seq(Nat) /\ 0 \in Nat /\ 0 + 1 <= Len(b) /\ 1 = 0 + 1
  BY DEF Packets20
<1>6. r[1] = y /\ Kept(b, r, 1, 1)
  BY <1>2, <1>4, <1>5, PutOne
<1> QED BY <1>1, <1>3, <1>6 DEF Codec!packet_type, Codec!version

\* The fields that Header and Stamped write, and those that they leave alone.
HeaderSays(b, f, r) ==
  /\ r \in Seq(Nat) /\ Len(r) = Len(b)
  /\ Codec!packet_type(r) = f.type /\ Codec!version(r) = 1
  /\ Codec!short(r, 2) = f.id /\ Codec!word(r, 12) = f.window % Codec!Word
  /\ Codec!short(r, 16) = f.seq /\ Codec!short(r, 18) = f.ack
  /\ r[2] = b[2] /\ Codec!word(r, 4) = Codec!word(b, 4) /\ Codec!word(r, 8) = Codec!word(b, 8)
  /\ \A i \in 21 .. Len(b) : r[i] = b[i]

StampSays(b, f, r) ==
  /\ r \in Seq(Nat) /\ Len(r) = Len(b)
  /\ Codec!word(r, 4) = f.tv /\ Codec!word(r, 8) = f.reply
  /\ \A i \in 1 .. Len(b) : i \notin 5 .. 12 => r[i] = b[i]

LEMMA HeaderWritten ==
  ASSUME NEW b \in Seq(Nat), Len(b) >= 20, NEW f \in HeaderType, NEW r, r = Codec!Header(b, f)
  PROVE  HeaderSays(b, f, r)
<1> DEFINE t == f.type
           w == f.window % Codec!Word
<1>b1. PICK b1 : b1 = Codec!set_version_type(b, t)
  OBVIOUS
<1>b2. PICK b2 : b2 = Codec!set_conn_id(b1, f.id)
  OBVIOUS
<1>b3. PICK b3 : b3 = Codec!set_window_size(b2, w)
  OBVIOUS
<1>b4. PICK b4 : b4 = Codec!set_ack_nr(b3, f.ack)
  OBVIOUS
<1>n. PICK n \in Nat : n = Len(b) /\ n >= 20
  OBVIOUS
<1>1. /\ t \in 0 .. 4 /\ f.id \in Short2 /\ f.seq \in Short2 /\ f.ack \in Short2 /\ f.window \in Nat
      /\ Len(b) \in Nat
  BY DEF HeaderType
<1>2. w \in Word4
  BY <1>n, <1>1, CodecConstants DEF Word4
<1>4. r = Codec!set_seq_nr(b4, f.seq)
  BY <1>b1, <1>b2, <1>b3, <1>b4 DEF Codec!Header
<1>5. Codec!packet_type(b1) = t /\ Codec!version(b1) = 1 /\ Kept(b, b1, 1, 1)
  <2>1. b \in Packets20
    BY DEF Packets20
  <2> QED BY <1>b1, <1>1, <2>1, TypeSet
<1>5a. b1 \in Seq(Nat) /\ Len(b1) = n /\ \A i \in 1 .. n : i # 1 => b1[i] = b[i]
  <2>1. \A i \in 1 .. n : i # 1 => i \notin 1 .. 1
    OBVIOUS
  <2> QED BY <1>5, <1>n, <2>1, Zenon DEF Kept
<1>6. Codec!short(b2, 2) = f.id /\ Kept(b1, b2, 3, 4)
  <2>1. b1 \in Packets20
    BY <1>n, <1>5a DEF Packets20
  <2> QED BY <1>b2, <1>1, <1>2, <2>1, IdSet, Zenon
<1>6a. b2 \in Seq(Nat) /\ Len(b2) = n /\ \A i \in 1 .. n : i \notin 3 .. 4 => b2[i] = b1[i]
  BY <1>6, <1>5a, <1>n DEF Kept
<1>7. Codec!word(b3, 12) = w /\ Kept(b2, b3, 13, 16)
  <2>1. b2 \in Packets20
    BY <1>n, <1>6a DEF Packets20
  <2> QED BY <1>b3, <1>1, <1>2, <2>1, WindowSet, Zenon
<1>7a. b3 \in Seq(Nat) /\ Len(b3) = n /\ \A i \in 1 .. n : i \notin 13 .. 16 => b3[i] = b2[i]
  BY <1>7, <1>6a, <1>n DEF Kept
<1>8. Codec!short(b4, 18) = f.ack /\ Kept(b3, b4, 19, 20)
  <2>1. b3 \in Packets20
    BY <1>n, <1>7a DEF Packets20
  <2> QED BY <1>b4, <1>1, <1>2, <2>1, AckSet, Zenon
<1>8a. b4 \in Seq(Nat) /\ Len(b4) = n /\ \A i \in 1 .. n : i \notin 19 .. 20 => b4[i] = b3[i]
  BY <1>8, <1>7a, <1>n DEF Kept
<1>9. Codec!short(r, 16) = f.seq /\ Kept(b4, r, 17, 18)
  <2>1. b4 \in Packets20
    BY <1>n, <1>8a DEF Packets20
  <2> QED BY <1>4, <1>1, <1>2, <2>1, SeqSet, Zenon
<1>9a. r \in Seq(Nat) /\ Len(r) = n /\ \A i \in 1 .. n : i \notin 17 .. 18 => r[i] = b4[i]
  BY <1>9, <1>8a, <1>n DEF Kept
<1> HIDE DEF w
<1>10. \A i \in 1 .. n : i \notin 13 .. 20 => r[i] = b2[i]
  <2>1. \A i \in 1 .. n : i \notin 13 .. 20 => i \notin 13 .. 16 /\ i \notin 17 .. 18 /\ i \notin 19 .. 20
    OBVIOUS
  <2> QED BY <1>7a, <1>8a, <1>9a, <2>1, Zenon
<1>11. \A i \in 1 .. n : i \notin 3 .. 4 /\ i \notin 13 .. 20 => r[i] = b1[i]
  BY <1>6a, <1>10, Zenon
<1>12. \A i \in 1 .. n : i \notin 1 .. 1 /\ i \notin 3 .. 4 /\ i \notin 13 .. 20 => r[i] = b[i]
  <2>1. \A i \in 1 .. n : i \notin 1 .. 1 => i # 1
    OBVIOUS
  <2> QED BY <1>5a, <1>11, <2>1, Zenon
<1>13. r[1] = b1[1] /\ r[3] = b2[3] /\ r[4] = b2[4]
  <2>1. 1 \in 1 .. n /\ 1 \notin 3 .. 4 /\ 1 \notin 13 .. 20
    BY <1>n
  <2>2. 3 \in 1 .. n /\ 3 \notin 13 .. 20 /\ 4 \in 1 .. n /\ 4 \notin 13 .. 20
    BY <1>n
  <2> QED BY <1>10, <1>11, <2>1, <2>2, Zenon
<1>14. r[13] = b3[13] /\ r[14] = b3[14] /\ r[15] = b3[15] /\ r[16] = b3[16]
  <2>1. \A i \in 13 .. 16 : i \in 1 .. n /\ i \notin 17 .. 18 /\ i \notin 19 .. 20
    BY <1>n
  <2>2. \A i \in 13 .. 16 : r[i] = b3[i]
    BY <1>8a, <1>9a, <2>1, Zenon
  <2>3. 13 \in 13 .. 16 /\ 14 \in 13 .. 16 /\ 15 \in 13 .. 16 /\ 16 \in 13 .. 16
    OBVIOUS
  <2> QED BY <2>2, <2>3, Zenon
<1>15. r[19] = b4[19] /\ r[20] = b4[20]
  <2>1. 19 \in 1 .. n /\ 19 \notin 17 .. 18 /\ 20 \in 1 .. n /\ 20 \notin 17 .. 18
    BY <1>n
  <2> QED BY <1>9a, <2>1, Zenon
<1>16. Codec!packet_type(r) = t /\ Codec!version(r) = 1
  BY <1>5, <1>13 DEF Codec!packet_type, Codec!version
<1>17. Codec!short(r, 2) = f.id /\ Codec!short(r, 18) = f.ack
  BY <1>6, <1>8, <1>13, <1>15 DEF Codec!short
<1>18. Codec!word(r, 12) = w
  BY <1>7, <1>14 DEF Codec!word, Codec!short
<1>19. r[2] = b[2] /\ \A i \in 5 .. 12 : r[i] = b[i]
  <2>1. r[2] = b[2]
    BY <1>n, <1>12
  <2>2. ASSUME NEW i \in 5 .. 12 PROVE r[i] = b[i]
    <3>1. i \in 1 .. n /\ i \notin 1 .. 1 /\ i \notin 3 .. 4 /\ i \notin 13 .. 20
      BY <1>n
    <3> QED BY <1>12, <3>1
  <2> QED BY <2>1, <2>2
<1>20. Codec!word(r, 4) = Codec!word(b, 4) /\ Codec!word(r, 8) = Codec!word(b, 8)
  <2>1. \A i \in 4 + 1 .. 4 + 4 : r[i] = b[i]
    <3>1. \A i \in 4 + 1 .. 4 + 4 : i \in 5 .. 12
      OBVIOUS
    <3> QED BY <1>19, <3>1, Zenon
  <2>2. \A i \in 8 + 1 .. 8 + 4 : r[i] = b[i]
    <3>1. \A i \in 8 + 1 .. 8 + 4 : i \in 5 .. 12
      OBVIOUS
    <3> QED BY <1>19, <3>1, Zenon
  <2>3. 4 \in Nat /\ 8 \in Nat
    OBVIOUS
  <2> QED BY <2>1, <2>2, <2>3, SameWord
<1>21. \A i \in 21 .. n : r[i] = b[i]
  <2> SUFFICES ASSUME NEW i \in 21 .. n PROVE r[i] = b[i]
    OBVIOUS
  <2>1. i \in 1 .. n /\ i \notin 1 .. 1 /\ i \notin 3 .. 4 /\ i \notin 13 .. 20
    BY <1>n
  <2> QED BY <1>12, <2>1
<1> QED BY <1>n, <1>9, <1>9a, <1>16, <1>17, <1>18, <1>19, <1>20, <1>21 DEF w, HeaderSays

LEMMA StampWritten ==
  ASSUME NEW b \in Seq(Nat), Len(b) >= 20, NEW f \in HeaderType, NEW r, r = Codec!Stamped(b, f)
  PROVE  StampSays(b, f, r)
<1>b1. PICK b1 : b1 = Codec!set_tv_usec(b, f.tv)
  OBVIOUS
<1>n. PICK n \in Nat : n = Len(b) /\ n >= 20
  OBVIOUS
<1>1. f.tv \in Word4 /\ f.reply \in Word4 /\ Len(b) \in Nat
  BY DEF HeaderType
<1>2. r = Codec!set_reply_micro(b1, f.reply)
  BY <1>b1 DEF Codec!Stamped
<1>3. Codec!word(b1, 4) = f.tv /\ Kept(b, b1, 5, 8)
  <2>1. b \in Packets20
    BY DEF Packets20
  <2> QED BY <1>b1, <1>1, <2>1, TvSet, Zenon
<1>3a. b1 \in Seq(Nat) /\ Len(b1) = n /\ \A i \in 1 .. n : i \notin 5 .. 8 => b1[i] = b[i]
  BY <1>3, <1>n DEF Kept
<1>4. Codec!word(r, 8) = f.reply /\ Kept(b1, r, 9, 12)
  <2>1. b1 \in Packets20
    BY <1>n, <1>3a DEF Packets20
  <2> QED BY <1>1, <1>2, <2>1, ReplySet, Zenon
<1>4a. r \in Seq(Nat) /\ Len(r) = n /\ \A i \in 1 .. n : i \notin 9 .. 12 => r[i] = b1[i]
  BY <1>4, <1>3a, <1>n DEF Kept
<1>5. r[5] = b1[5] /\ r[6] = b1[6] /\ r[7] = b1[7] /\ r[8] = b1[8]
  <2>1. \A i \in 5 .. 8 : i \in 1 .. n /\ i \notin 9 .. 12
    BY <1>n
  <2>2. 5 \in 5 .. 8 /\ 6 \in 5 .. 8 /\ 7 \in 5 .. 8 /\ 8 \in 5 .. 8
    OBVIOUS
  <2> QED BY <1>4a, <2>1, <2>2, Zenon
<1>6. Codec!word(r, 4) = f.tv
  BY <1>3, <1>5 DEF Codec!word, Codec!short
<1>7. \A i \in 1 .. n : i \notin 5 .. 12 => r[i] = b[i]
  <2>1. \A i \in 1 .. n : i \notin 5 .. 12 => i \notin 5 .. 8 /\ i \notin 9 .. 12
    OBVIOUS
  <2> QED BY <1>3a, <1>4a, <2>1, Zenon
<1> QED BY <1>n, <1>4, <1>4a, <1>6, <1>7 DEF StampSays

-----------------------------------------------------------------------------
(* The packet codec: the packets as built. *)

Fixed(b, f) ==
  /\ Codec!packet_type(b) = f.type /\ Codec!version(b) = 1
  /\ Codec!short(b, 2) = f.id /\ Codec!word(b, 12) = f.window % Codec!Word
  /\ Codec!short(b, 16) = f.seq /\ Codec!short(b, 18) = f.ack
Times(b, f) == Codec!word(b, 4) = f.tv /\ Codec!word(b, 8) = f.reply

\* The header says what it says by its elements.
LEMMA FixedSame ==
  ASSUME NEW b, NEW r, NEW f, Fixed(b, f), \A i \in 1 .. 20 : i \notin 5 .. 12 => r[i] = b[i]
  PROVE  Fixed(r, f)
<1>1. r[1] = b[1]
  OBVIOUS
<1>2. r[3] = b[3] /\ r[4] = b[4]
  OBVIOUS
<1>3. r[17] = b[17] /\ r[18] = b[18]
  OBVIOUS
<1>4. r[19] = b[19] /\ r[20] = b[20]
  OBVIOUS
<1>5. Codec!packet_type(r) = Codec!packet_type(b) /\ Codec!version(r) = Codec!version(b)
  BY <1>1 DEF Codec!packet_type, Codec!version
<1>6. Codec!short(r, 2) = Codec!short(b, 2)
  BY <1>2 DEF Codec!short
<1>7. Codec!short(r, 16) = Codec!short(b, 16)
  BY <1>3 DEF Codec!short
<1>8. Codec!short(r, 18) = Codec!short(b, 18)
  BY <1>4 DEF Codec!short
<1>9. Codec!word(r, 12) = Codec!word(b, 12)
  <2>1. 12 \in Nat /\ \A i \in 12 + 1 .. 12 + 4 : i \in 1 .. 20 /\ i \notin 5 .. 12
    OBVIOUS
  <2>2. \A i \in 12 + 1 .. 12 + 4 : r[i] = b[i]
    BY <2>1, Zenon
  <2> QED BY <2>1, <2>2, SameWord
<1> QED BY <1>5, <1>6, <1>7, <1>8, <1>9 DEF Fixed

LEMMA TimesSame ==
  ASSUME NEW b, NEW r, NEW f, Times(b, f), \A i \in 5 .. 12 : r[i] = b[i]
  PROVE  Times(r, f)
<1>1. 4 \in Nat /\ \A i \in 4 + 1 .. 4 + 4 : i \in 5 .. 12
  OBVIOUS
<1>2. 8 \in Nat /\ \A i \in 8 + 1 .. 8 + 4 : i \in 5 .. 12
  OBVIOUS
<1>3. \A i \in 4 + 1 .. 4 + 4 : r[i] = b[i]
  BY <1>1, Zenon
<1>4. \A i \in 8 + 1 .. 8 + 4 : r[i] = b[i]
  BY <1>2, Zenon
<1>5. Codec!word(r, 4) = Codec!word(b, 4)
  BY <1>1, <1>3, SameWord
<1>6. Codec!word(r, 8) = Codec!word(b, 8)
  BY <1>2, <1>4, SameWord
<1> QED BY <1>5, <1>6 DEF Times

LEMMA HeaderFixed ==
  ASSUME NEW b \in Packets20, NEW f \in HeaderType, NEW r, r = Codec!Header(b, f)
  PROVE  /\ r \in Packets20 /\ Len(r) = Len(b) /\ Fixed(r, f) /\ r[2] = b[2]
         /\ Codec!word(r, 4) = Codec!word(b, 4) /\ Codec!word(r, 8) = Codec!word(b, 8)
         /\ \A i \in 21 .. Len(b) : r[i] = b[i]
<1>1. b \in Seq(Nat) /\ Len(b) >= 20
  BY DEF Packets20
<1>2. /\ r \in Seq(Nat) /\ Len(r) = Len(b)
      /\ Codec!packet_type(r) = f.type /\ Codec!version(r) = 1
      /\ Codec!short(r, 2) = f.id /\ Codec!word(r, 12) = f.window % Codec!Word
      /\ Codec!short(r, 16) = f.seq /\ Codec!short(r, 18) = f.ack
      /\ r[2] = b[2] /\ Codec!word(r, 4) = Codec!word(b, 4) /\ Codec!word(r, 8) = Codec!word(b, 8)
      /\ \A i \in 21 .. Len(b) : r[i] = b[i]
  <2>1. HeaderSays(b, f, r)
    BY <1>1, HeaderWritten, Zenon
  <2> QED BY <2>1, Zenon DEF HeaderSays
<1>3. Fixed(r, f)
  BY <1>2, Zenon DEF Fixed
<1>4. r \in Packets20
  BY <1>1, <1>2 DEF Packets20
<1> QED BY <1>2, <1>3, <1>4, Zenon

LEMMA StampTimes ==
  ASSUME NEW b \in Packets20, NEW f \in HeaderType, NEW r, r = Codec!Stamped(b, f)
  PROVE  /\ r \in Packets20 /\ Len(r) = Len(b) /\ Times(r, f) /\ r[2] = b[2]
         /\ \A g : Fixed(b, g) => Fixed(r, g)
         /\ \A i \in 21 .. Len(b) : r[i] = b[i]
<1>1. b \in Seq(Nat) /\ Len(b) >= 20 /\ Len(b) \in Nat
  BY DEF Packets20
<1>2. /\ r \in Seq(Nat) /\ Len(r) = Len(b)
      /\ Codec!word(r, 4) = f.tv /\ Codec!word(r, 8) = f.reply
      /\ \A i \in 1 .. Len(b) : i \notin 5 .. 12 => r[i] = b[i]
  <2>1. StampSays(b, f, r)
    BY <1>1, StampWritten, Zenon
  <2> QED BY <2>1, Zenon DEF StampSays
<1>3. \A i \in 1 .. 20 : i \in 1 .. Len(b)
  BY <1>1
<1>4. \A i \in 1 .. 20 : i \notin 5 .. 12 => r[i] = b[i]
  BY <1>2, <1>3, Zenon
<1>5. r[2] = b[2]
  BY <1>4
<1>6. \A g : Fixed(b, g) => Fixed(r, g)
  BY <1>4, FixedSame
<1>7. \A i \in 21 .. Len(b) : r[i] = b[i]
  <2>1. \A i \in 21 .. Len(b) : i \in 1 .. Len(b) /\ i \notin 5 .. 12
    BY <1>1
  <2> QED BY <1>2, <2>1, Zenon
<1> QED BY <1>1, <1>2, <1>5, <1>6, <1>7 DEF Times, Packets20

Longer(b, t, r) ==
  /\ r \in Packets20 /\ Len(r) = Len(b) + Len(t)
  /\ \A i \in 1 .. Len(b) : r[i] = b[i]
  /\ \A i \in 1 .. Len(t) : r[Len(b) + i] = t[i]
  /\ r[2] = b[2]
  /\ \A g : (Fixed(b, g) => Fixed(r, g)) /\ (Times(b, g) => Times(r, g))

LEMMA Appended ==
  ASSUME NEW b \in Packets20, NEW t \in Seq(Nat), NEW r, r = b \o t
  PROVE  Longer(b, t, r)
<1>1. b \in Seq(Nat) /\ Len(b) >= 20 /\ Len(b) \in Nat /\ Len(t) \in Nat
  BY DEF Packets20
<1>2. /\ r \in Seq(Nat) /\ Len(r) = Len(b) + Len(t)
      /\ \A i \in 1 .. Len(b) + Len(t) : r[i] = IF i <= Len(b) THEN b[i] ELSE t[i - Len(b)]
  BY <1>1, ConcatProperties
<1>3. ASSUME NEW i \in 1 .. Len(b) PROVE r[i] = b[i]
  <2>1. i \in 1 .. Len(b) + Len(t) /\ i <= Len(b)
    BY <1>1
  <2> QED BY <1>2, <2>1
<1>4. ASSUME NEW i \in 1 .. Len(t) PROVE r[Len(b) + i] = t[i]
  <2>1. Len(b) + i \in 1 .. Len(b) + Len(t) /\ ~(Len(b) + i <= Len(b)) /\ (Len(b) + i) - Len(b) = i
    BY <1>1
  <2> QED BY <1>2, <2>1
<1>5. \A i \in 1 .. 20 : i \in 1 .. Len(b)
  BY <1>1
<1>6. \A i \in 1 .. 20 : r[i] = b[i]
  BY <1>3, <1>5, Zenon
<1>7. \A i \in 5 .. 12 : i \in 1 .. 20
  OBVIOUS
<1>8. r[2] = b[2]
  <2>1. 2 \in 1 .. 20
    OBVIOUS
  <2> QED BY <1>6, <2>1, Zenon
<1>9. \A i \in 5 .. 12 : r[i] = b[i]
  BY <1>6, <1>7, Zenon
<1>10. \A g : (Fixed(b, g) => Fixed(r, g)) /\ (Times(b, g) => Times(r, g))
  <2>1. \A i \in 1 .. 20 : i \notin 5 .. 12 => r[i] = b[i]
    BY <1>6, Zenon
  <2> QED BY <1>9, <2>1, FixedSame, TimesSame
<1> QED BY <1>1, <1>2, <1>3, <1>4, <1>8, <1>10 DEF Packets20, Longer

\* What the sender can mean, and the bytes behind the header that say it.
Meant ==
  {w \in [f : HeaderType, mask : SUBSET (0 .. MaskLen * BitsPerByte - 1), payload : Seq(Nat)] :
     w.mask # {} => w.payload = <<>>}
Rest(w) == IF w.mask = {} THEN w.payload ELSE Codec!Eack(w.mask)
Says(b, w) ==
  /\ w \in Meant /\ b \in Packets20 /\ Fixed(b, w.f) /\ Times(b, w.f)
  /\ b[2] = (IF w.mask = {} THEN 0 ELSE 1)
  /\ Len(b) = 20 + Len(Rest(w)) /\ \A i \in 1 .. Len(Rest(w)) : b[20 + i] = Rest(w)[i]

LEMMA DomainLen ==
  ASSUME NEW n \in Nat, NEW t \in [1 .. n -> Nat]
  PROVE  t \in Seq(Nat) /\ Len(t) = n
<1>1. t \in Seq(Nat)
  BY SeqDef
<1>2. t \in [1 .. Len(t) -> Nat] /\ Len(t) \in Nat
  BY <1>1
<1>3. 1 .. Len(t) = 1 .. n
  BY <1>2
<1> QED BY <1>1, <1>2, <1>3

LEMMA ZerosFacts ==
  ASSUME NEW n \in Nat, NEW z, z = Codec!Zeros(n)
  PROVE  z \in Seq(Nat) /\ Len(z) = n /\ \A i \in 1 .. n : z[i] = 0
<1>1. z = [i \in 1 .. n |-> 0]
  BY DEF Codec!Zeros
<1>2. z \in [1 .. n -> Nat] /\ \A i \in 1 .. n : z[i] = 0
  BY <1>1
<1>3. z \in Seq(Nat) /\ Len(z) = n
  BY <1>2, DomainLen
<1> QED BY <1>2, <1>3

LEMMA ZerosRead ==
  ASSUME NEW z, z = Codec!Zeros(20)
  PROVE  z \in Packets20 /\ Len(z) = 20 /\ z[2] = 0 /\ Codec!word(z, 4) = 0 /\ Codec!word(z, 8) = 0
<1>1. z \in Seq(Nat) /\ Len(z) = 20 /\ \A i \in 1 .. 20 : z[i] = 0
  BY ZerosFacts
<1>2. z[2] = 0
  BY <1>1
<1>3. z[5] = 0 /\ z[6] = 0
  BY <1>1
<1>4. z[7] = 0 /\ z[8] = 0
  BY <1>1
<1>5. z[9] = 0 /\ z[10] = 0
  BY <1>1
<1>6. z[11] = 0 /\ z[12] = 0
  BY <1>1
<1>7. 0 * Codec!Byte + 0 = 0 /\ 0 * Codec!Short + 0 = 0
  BY CodecConstants
<1>8. Codec!short(z, 4) = 0 /\ Codec!short(z, 4 + 2) = 0
  BY <1>3, <1>4, <1>7 DEF Codec!short
<1>9. Codec!short(z, 8) = 0 /\ Codec!short(z, 8 + 2) = 0
  BY <1>5, <1>6, <1>7 DEF Codec!short
<1>10. Codec!word(z, 4) = 0 /\ Codec!word(z, 8) = 0
  BY <1>7, <1>8, <1>9 DEF Codec!word
<1>11. z \in Packets20
  <2>1. 20 >= 20
    OBVIOUS
  <2> QED BY <1>1, <2>1, Zenon DEF Packets20
<1> QED BY <1>1, <1>2, <1>10, <1>11, Zenon

LEMMA ExtSet ==
  ASSUME NEW e \in Nat, NEW b, b = Codec!set_ext(Codec!Zeros(20), e)
  PROVE  b \in Packets20 /\ Len(b) = 20 /\ b[2] = e
<1>1. PICK z : z = Codec!Zeros(20)
  OBVIOUS
<1>2. z \in Packets20 /\ Len(z) = 20
  BY <1>1, ZerosRead
<1>3. z \in Seq(Nat) /\ 1 + 1 <= Len(z) /\ 1 \in Nat /\ 2 = 1 + 1
  BY <1>2 DEF Packets20
<1>4. b = Codec!Put(z, 1, <<e>>)
  BY <1>1 DEF Codec!set_ext
<1>5. b[2] = e /\ Kept(z, b, 2, 2)
  BY <1>3, <1>4, PutOne
<1> QED BY <1>2, <1>5 DEF Kept, Packets20

LEMMA EackFacts ==
  ASSUME NEW mask, NEW r, r = Codec!Eack(mask)
  PROVE  /\ mask = {} => r = <<>>
         /\ mask # {} => /\ r \in Seq(Nat) /\ Len(r) = 2 + MaskLen /\ r[1] = 0 /\ r[2] = MaskLen
                         /\ \A k \in 1 .. MaskLen : r[2 + k] = Codec!ByteOf(mask, k - 1)
<1>1. mask = {} => r = <<>>
  BY DEF Codec!Eack
<1> SUFFICES ASSUME mask # {}
             PROVE  /\ r \in Seq(Nat) /\ Len(r) = 2 + MaskLen /\ r[1] = 0 /\ r[2] = MaskLen
                    /\ \A k \in 1 .. MaskLen : r[2 + k] = Codec!ByteOf(mask, k - 1)
  BY <1>1
<1>2. PICK n \in Nat : n = MaskLen
  BY CodecConstants
<1>3. PICK t : t = Codec!to_le_bytes(mask)
  OBVIOUS
<1>4. t = [k \in 1 .. n |-> Codec!ByteOf(mask, k - 1)]
  BY <1>2, <1>3 DEF Codec!to_le_bytes
<1>5. \A k \in 1 .. n : Codec!ByteOf(mask, k - 1) \in Nat
  BY BitsAreSet DEF Codec!ByteOf
<1>6. t \in [1 .. n -> Nat] /\ \A k \in 1 .. n : t[k] = Codec!ByteOf(mask, k - 1)
  BY <1>4, <1>5
<1>7. t \in Seq(Nat)
  BY <1>2, <1>6, DomainLen, Zenon
<1>8. Len(t) = n
  BY <1>2, <1>6, DomainLen, Zenon
<1>9. PICK u : u = <<0, n>>
  OBVIOUS
<1>10. u \in Seq(Nat) /\ Len(u) = 2 /\ u[1] = 0 /\ u[2] = n
  BY <1>9
<1>11. r = u \o t
  BY <1>2, <1>3, <1>9 DEF Codec!Eack
<1>12. r \in Seq(Nat) /\ Len(r) = 2 + n /\ \A i \in 1 .. 2 + n : r[i] = IF i <= 2 THEN u[i] ELSE t[i - 2]
  <2>1. /\ u \o t \in Seq(Nat) /\ Len(u \o t) = Len(u) + Len(t)
        /\ \A i \in 1 .. Len(u) + Len(t) : (u \o t)[i] = IF i <= Len(u) THEN u[i] ELSE t[i - Len(u)]
    BY <1>7, <1>10, ConcatProperties
  <2> QED BY <1>8, <1>10, <1>11, <2>1
<1>13. r[1] = 0 /\ r[2] = n
  BY <1>10, <1>12
<1>14. ASSUME NEW k \in 1 .. n PROVE r[2 + k] = t[k]
  <2>1. 2 + k \in 1 .. 2 + n /\ ~(2 + k <= 2) /\ (2 + k) - 2 = k
    OBVIOUS
  <2> QED BY <1>12, <2>1
<1> QED BY <1>2, <1>6, <1>12, <1>13, <1>14

LEMMA RestSeq ==
  ASSUME NEW w \in Meant
  PROVE  Rest(w) \in Seq(Nat) /\ (w.mask = {} => Rest(w) = w.payload)
<1>1. w.payload \in Seq(Nat)
  BY DEF Meant
<1>2. w.mask # {} => Codec!Eack(w.mask) \in Seq(Nat)
  BY EackFacts
<1> QED BY <1>1, <1>2 DEF Rest

\* The packets that the engine builds say what their sender means.
LEMMA AckSays ==
  ASSUME NEW f \in HeaderType, NEW mask \in SUBSET (0 .. MaskLen * BitsPerByte - 1),
         NEW w, w = [f |-> f, mask |-> mask, payload |-> <<>>],
         NEW r, r = Codec!send_ack(f, mask)
  PROVE  Says(r, w)
<1>1. w \in Meant /\ w.f = f /\ w.mask = mask /\ w.payload = <<>>
  BY DEF Meant
<1>2. PICK e \in Nat : e = IF mask = {} THEN 0 ELSE 1
  OBVIOUS
<1>3. PICK b1 : b1 = Codec!set_ext(Codec!Zeros(20), e)
  OBVIOUS
<1>4. PICK b2 : b2 = Codec!Header(b1, f)
  OBVIOUS
<1>5. PICK b3 : b3 = Codec!Stamped(b2, f)
  OBVIOUS
<1>6. PICK t : t = Codec!Eack(mask)
  OBVIOUS
<1>7. r = b3 \o t
  BY <1>2, <1>3, <1>4, <1>5, <1>6 DEF Codec!send_ack, Codec!HEADER_SIZE
<1>8. b1 \in Packets20 /\ Len(b1) = 20 /\ b1[2] = e
  BY <1>2, <1>3, ExtSet
<1>9. b2 \in Packets20 /\ Len(b2) = 20 /\ b2[2] = e /\ Fixed(b2, f)
  BY <1>4, <1>8, HeaderFixed
<1>10. b3 \in Packets20 /\ Len(b3) = 20 /\ b3[2] = e /\ Fixed(b3, f) /\ Times(b3, f)
  BY <1>5, <1>9, StampTimes
<1>11. t = Rest(w) /\ t \in Seq(Nat)
  <2>1. Rest(w) \in Seq(Nat)
    BY <1>1, RestSeq, Zenon
  <2>2. CASE mask = {}
    <3>1. t = <<>> /\ Rest(w) = <<>>
      BY <1>1, <1>6, <2>2 DEF Rest, Codec!Eack
    <3> QED BY <2>1, <3>1
  <2>3. CASE mask # {}
    <3>1. t = Rest(w)
      BY <1>1, <1>6, <2>3 DEF Rest
    <3> QED BY <2>1, <3>1
  <2> QED BY <2>2, <2>3
<1>12. /\ r \in Packets20 /\ Len(r) = 20 + Len(t) /\ r[2] = e /\ Fixed(r, f) /\ Times(r, f)
       /\ \A i \in 1 .. Len(t) : r[20 + i] = t[i]
  <2>1. Longer(b3, t, r)
    BY <1>7, <1>10, <1>11, Appended, Zenon
  <2> QED BY <1>10, <2>1 DEF Longer
<1> QED BY <1>1, <1>2, <1>11, <1>12 DEF Says

LEMMA BareSays ==
  ASSUME NEW f \in HeaderType, NEW w, w = [f |-> f, mask |-> {}, payload |-> <<>>],
         NEW r \in Packets20, Len(r) = 20, Fixed(r, f), Times(r, f), r[2] = 0
  PROVE  Says(r, w)
<1>1. w \in Meant /\ w.f = f /\ w.mask = {} /\ w.payload = <<>>
  BY DEF Meant
<1>2. Rest(w) = <<>>
  BY <1>1 DEF Rest
<1>3. Len(<<>>) = 0
  OBVIOUS
<1>4. Len(Rest(w)) = 0
  BY <1>2, <1>3
<1>5. Len(r) = 20 + Len(Rest(w)) /\ \A i \in 1 .. Len(Rest(w)) : FALSE
  <2>1. 20 = 20 + 0 /\ \A i \in 1 .. 0 : FALSE
    OBVIOUS
  <2> QED BY <1>4, <2>1, Zenon
<1> QED BY <1>1, <1>5, Zenon DEF Says

LEMMA RstSays ==
  ASSUME NEW f \in HeaderType, f.tv = 0, f.reply = 0,
         NEW w, w = [f |-> f, mask |-> {}, payload |-> <<>>],
         NEW r, r = Codec!Header(Codec!Zeros(20), f)
  PROVE  Says(r, w)
<1>1. PICK z : z = Codec!Zeros(20)
  OBVIOUS
<1>2. z \in Packets20 /\ Len(z) = 20 /\ z[2] = 0 /\ Codec!word(z, 4) = 0 /\ Codec!word(z, 8) = 0
  BY <1>1, ZerosRead
<1>3. /\ r \in Packets20 /\ Len(r) = 20 /\ Fixed(r, f) /\ r[2] = 0
      /\ Codec!word(r, 4) = 0 /\ Codec!word(r, 8) = 0
  BY <1>1, <1>2, HeaderFixed
<1>4. Times(r, f)
  BY <1>3 DEF Times
<1> QED BY <1>3, <1>4, BareSays

LEMMA SynSays ==
  ASSUME NEW f \in HeaderType, NEW w, w = [f |-> f, mask |-> {}, payload |-> <<>>],
         NEW r, r = Codec!Stamped(Codec!Header(Codec!Zeros(20), f), f)
  PROVE  Says(r, w)
<1>1. PICK z : z = Codec!Zeros(20)
  OBVIOUS
<1>2. PICK b : b = Codec!Header(z, f)
  OBVIOUS
<1>3. z \in Packets20 /\ Len(z) = 20 /\ z[2] = 0
  BY <1>1, ZerosRead
<1>4. b \in Packets20 /\ Len(b) = 20 /\ Fixed(b, f) /\ b[2] = 0
  BY <1>2, <1>3, HeaderFixed
<1>5. r = Codec!Stamped(b, f)
  BY <1>1, <1>2
<1>6. r \in Packets20 /\ Len(r) = 20 /\ Fixed(r, f) /\ Times(r, f) /\ r[2] = 0
  BY <1>4, <1>5, StampTimes
<1> QED BY <1>6, BareSays

LEMMA DataSays ==
  ASSUME NEW f \in HeaderType, NEW payload \in Seq(Nat),
         NEW w, w = [f |-> f, mask |-> {}, payload |-> payload],
         NEW r, r = Codec!Stamped(Codec!Header(Codec!set_ext(Codec!Zeros(20), 0), f) \o payload, f)
  PROVE  Says(r, w)
<1>1. w \in Meant /\ w.f = f /\ w.mask = {} /\ w.payload = payload
  BY DEF Meant
<1>2. PICK b1 : b1 = Codec!set_ext(Codec!Zeros(20), 0)
  OBVIOUS
<1>3. PICK b2 : b2 = Codec!Header(b1, f)
  OBVIOUS
<1>4. PICK b3 : b3 = b2 \o payload
  OBVIOUS
<1>5. r = Codec!Stamped(b3, f)
  BY <1>2, <1>3, <1>4
<1>6. b1 \in Packets20 /\ Len(b1) = 20 /\ b1[2] = 0
  BY <1>2, ExtSet
<1>7. b2 \in Packets20 /\ Len(b2) = 20 /\ b2[2] = 0 /\ Fixed(b2, f)
  BY <1>3, <1>6, HeaderFixed
<1>8. /\ b3 \in Packets20 /\ Len(b3) = 20 + Len(payload) /\ b3[2] = 0 /\ Fixed(b3, f)
      /\ \A i \in 1 .. Len(payload) : b3[20 + i] = payload[i]
  <2>1. Longer(b2, payload, b3)
    BY <1>4, <1>7, Appended, Zenon
  <2> QED BY <1>7, <2>1 DEF Longer
<1>9. /\ r \in Packets20 /\ Len(r) = Len(b3) /\ r[2] = 0 /\ Fixed(r, f) /\ Times(r, f)
      /\ \A i \in 21 .. Len(b3) : r[i] = b3[i]
  BY <1>5, <1>8, StampTimes
<1>10. ASSUME NEW i \in 1 .. Len(payload) PROVE r[20 + i] = payload[i]
  <2>1. 20 + i \in 21 .. Len(b3)
    BY <1>8
  <2> QED BY <1>8, <1>9, <2>1
<1>11. Rest(w) = payload
  BY <1>1 DEF Rest
<1> QED BY <1>1, <1>8, <1>9, <1>10, <1>11 DEF Says

\* A packet sent again says what its sender means by then.
LEMMA ResentSays ==
  ASSUME NEW w, NEW b, Says(b, w), NEW s \in Short2, NEW t \in Word4,
         NEW f, f = [w.f EXCEPT !.ack = s, !.tv = t, !.reply = t],
         NEW v, v = [w EXCEPT !.f = f],
         NEW r, r = Codec!Stamped(Codec!set_ack_nr(b, s), f)
  PROVE  Says(r, v)
<1>1. w \in Meant /\ b \in Packets20 /\ w.f \in HeaderType
  BY DEF Says, Meant
<1>2. f \in HeaderType /\ f.ack = s /\ f.type = w.f.type /\ f.id = w.f.id /\ f.window = w.f.window /\ f.seq = w.f.seq
  BY <1>1 DEF HeaderType
<1>3. v \in Meant /\ v.f = f /\ v.mask = w.mask /\ v.payload = w.payload
  BY <1>1, <1>2 DEF Meant
<1>4. PICK b1 : b1 = Codec!set_ack_nr(b, s)
  OBVIOUS
<1>5. Codec!short(b1, 18) = s /\ Kept(b, b1, 19, 20)
  BY <1>1, <1>4, AckSet, Zenon
<1>6. PICK n \in Nat : n = Len(b) /\ n >= 20
  BY <1>1 DEF Packets20
<1>7. /\ b1 \in Packets20 /\ Len(b1) = n
      /\ \A i \in 1 .. n : i \notin 19 .. 20 => b1[i] = b[i]
  BY <1>5, <1>6 DEF Kept, Packets20
<1>8. \A i \in 1 .. 18 : b1[i] = b[i]
  <2>1. \A k \in Nat : k >= 20 => \A i \in 1 .. 18 : i \in 1 .. k /\ i \notin 19 .. 20
    OBVIOUS
  <2>2. \A i \in 1 .. 18 : i \in 1 .. n /\ i \notin 19 .. 20
    BY <1>6, <2>1, Zenon
  <2> QED BY <1>7, <2>2, Zenon
<1>9. Fixed(b1, f)
  <2>1. Fixed(b, w.f)
    BY DEF Says
  <2>2. b1[1] = b[1] /\ b1[3] = b[3]
    BY <1>8
  <2>3. b1[4] = b[4] /\ b1[17] = b[17]
    BY <1>8
  <2>4. b1[18] = b[18]
    BY <1>8
  <2>5. Codec!packet_type(b1) = Codec!packet_type(b) /\ Codec!version(b1) = Codec!version(b)
    BY <2>2 DEF Codec!packet_type, Codec!version
  <2>6. Codec!short(b1, 2) = Codec!short(b, 2)
    BY <2>2, <2>3 DEF Codec!short
  <2>7. Codec!short(b1, 16) = Codec!short(b, 16)
    BY <2>3, <2>4 DEF Codec!short
  <2>8. Codec!word(b1, 12) = Codec!word(b, 12)
    <3>1. 12 \in Nat /\ \A i \in 12 + 1 .. 12 + 4 : i \in 1 .. 18
      OBVIOUS
    <3>2. \A i \in 12 + 1 .. 12 + 4 : b1[i] = b[i]
      BY <1>8, <3>1, Zenon
    <3> QED BY <3>1, <3>2, SameWord
  <2> QED BY <1>2, <1>5, <2>1, <2>5, <2>6, <2>7, <2>8 DEF Fixed
<1>10. b1[2] = b[2]
  BY <1>8
<1>11. r = Codec!Stamped(b1, f)
  BY <1>4
<1>12. /\ r \in Packets20 /\ Len(r) = n /\ r[2] = b1[2] /\ Fixed(r, f) /\ Times(r, f)
       /\ \A i \in 21 .. n : r[i] = b1[i]
  BY <1>2, <1>7, <1>9, <1>11, StampTimes
<1>13. Rest(v) = Rest(w)
  BY <1>3 DEF Rest
<1>14. /\ b[2] = (IF w.mask = {} THEN 0 ELSE 1)
       /\ Len(b) = 20 + Len(Rest(w)) /\ \A i \in 1 .. Len(Rest(w)) : b[20 + i] = Rest(w)[i]
  BY DEF Says
<1>15. ASSUME NEW i \in 1 .. Len(Rest(w)) PROVE r[20 + i] = Rest(w)[i]
  <2>1. Len(Rest(w)) \in Nat
    BY <1>1, RestSeq
  <2>2. 20 + i \in 21 .. n /\ 20 + i \in 1 .. n /\ 20 + i \notin 19 .. 20
    BY <1>6, <1>14, <2>1
  <2> QED BY <1>7, <1>12, <1>14, <2>2
<1> QED BY <1>3, <1>6, <1>10, <1>12, <1>13, <1>14, <1>15 DEF Says

\* What the peer reads of such a packet.
LEMMA FieldsRead ==
  ASSUME NEW b, NEW w, Says(b, w)
  PROVE  Codec!Fields(b) = [w.f EXCEPT !.window = @ % Codec!Word]
<1>1. PICK f \in HeaderType : f = w.f
  BY DEF Says, Meant
<1>2. Fixed(b, f) /\ Times(b, f)
  BY <1>1 DEF Says
<1>3. Codec!Fields(b) = [type |-> f.type, id |-> f.id, tv |-> f.tv, reply |-> f.reply,
                         window |-> f.window % Codec!Word, seq |-> f.seq, ack |-> f.ack]
  BY <1>2, Zenon DEF Codec!Fields, Fixed, Times
<1>4. PICK u : u = f.window % Codec!Word
  OBVIOUS
<1>5. [f EXCEPT !.window = u] =
        [type |-> f.type, id |-> f.id, tv |-> f.tv, reply |-> f.reply, window |-> u,
         seq |-> f.seq, ack |-> f.ack]
  BY <1>1 DEF HeaderType
<1>6. [w.f EXCEPT !.window = @ % Codec!Word] = [f EXCEPT !.window = u]
  BY <1>1, <1>4
<1> QED BY <1>3, <1>4, <1>5, <1>6

LEMMA MaskRead ==
  ASSUME NEW mask \in SUBSET (0 .. MaskLen * BitsPerByte - 1), NEW m \in Seq(Nat), Len(m) = MaskLen,
         \A k \in 1 .. MaskLen : m[k] = Codec!ByteOf(mask, k - 1)
  PROVE  {i \in 0 .. Len(m) * BitsPerByte - 1 : Codec!bit_set(m, i)} = mask
<1>1. PICK B \in Nat \ {0} : B = BitsPerByte
  BY CodecConstants
<1>2. PICK n \in Nat : n = MaskLen
  BY CodecConstants
<1>3. n * B \in Nat
  BY <1>1, <1>2
<1>4. ASSUME NEW i \in 0 .. n * B - 1 PROVE Codec!bit_set(m, i) <=> i \in mask
  <2>1. PICK k : k = i \div B
    OBVIOUS
  <2>2. PICK j : j = i % B
    OBVIOUS
  <2>3. k \in Int /\ j \in 0 .. B - 1 /\ i = B * k + j /\ i \in Int
    BY <1>1, <1>3, <2>1, <2>2
  <2>4. k >= 0 /\ k <= n
    <3>1. i >= 0 * B /\ i <= n * B /\ 0 \in Int /\ n \in Int
      BY <1>1, <1>2, <1>3
    <3> QED BY <1>1, <2>1, <2>3, <3>1, DivSides
  <2>5. k # n
    <3> SUFFICES ASSUME k = n PROVE FALSE
      OBVIOUS
    <3>1. B * k = n * B
      BY <1>1, <1>2
    <3> QED BY <1>1, <1>2, <1>3, <2>3, <3>1
  <2>6. k + 1 \in 1 .. n /\ (k + 1) - 1 = k
    BY <1>2, <2>3, <2>4, <2>5
  <2> DEFINE s == {l \in 0 .. BitsPerByte - 1 : k * BitsPerByte + l \in mask}
  <2>7. m[k + 1] = Codec!SetBits(s)
    <3>1. m[k + 1] = Codec!ByteOf(mask, (k + 1) - 1)
      BY <1>2, <2>6
    <3> QED BY <2>6, <3>1 DEF Codec!ByteOf
  <2>8. j \in s <=> i \in mask
    <3>1. k * B + j = i
      BY <1>1, <2>3
    <3> QED BY <1>1, <2>3, <3>1
  <2> HIDE DEF s
  <2>9. (Codec!SetBits(s) \div Codec!Power[j]) % 2 = 1 <=> j \in s
    BY <1>1, <2>3, BitsAreSet
  <2>10. Codec!bit_set(m, i) <=> (m[k + 1] \div Codec!Power[j]) % 2 = 1
    BY <1>1, <2>1, <2>2 DEF Codec!bit_set
  <2> QED BY <2>7, <2>8, <2>9, <2>10
<1>5. mask \subseteq 0 .. n * B - 1 /\ Len(m) * BitsPerByte = n * B
  BY <1>1, <1>2
<1> QED BY <1>4, <1>5

LEMMA TailRead ==
  ASSUME NEW b \in Seq(Nat), NEW p \in Seq(Nat), NEW k \in Nat, Len(b) = k + Len(p),
         \A i \in 1 .. Len(p) : b[k + i] = p[i]
  PROVE  SubSeq(b, k + 1, Len(b)) = p
<1>1. PICK n \in Nat : n = Len(p)
  OBVIOUS
<1>2. PICK t : t = SubSeq(b, k + 1, Len(b))
  OBVIOUS
<1>3. k + 1 \in Int /\ Len(b) \in Int /\ \A i \in k + 1 .. Len(b) : b[i] \in Nat
  OBVIOUS
<1>4. /\ t \in Seq(Nat) /\ Len(t) = (IF k + 1 <= Len(b) THEN Len(b) - (k + 1) + 1 ELSE 0)
      /\ \A i \in 1 .. Len(b) - (k + 1) + 1 : t[i] = b[(k + 1) + i - 1]
  BY <1>2, <1>3, SubSeqProperties
<1>5. Len(t) = n /\ Len(b) - (k + 1) + 1 = n
  BY <1>1, <1>4
<1>6. ASSUME NEW i \in 1 .. n PROVE t[i] = p[i]
  <2>1. (k + 1) + i - 1 = k + i /\ i \in 1 .. Len(p) /\ i \in 1 .. Len(b) - (k + 1) + 1
    BY <1>1, <1>5
  <2> QED BY <1>4, <2>1
<1>7. Len(t) = Len(p) /\ \A i \in 1 .. Len(t) : t[i] = p[i]
  BY <1>1, <1>5, <1>6
<1>8. t = p
  BY <1>4, <1>7, SeqEqual
<1> QED BY <1>2, <1>8

-----------------------------------------------------------------------------
(* The packet codec: the round trip. *)

\* The datagram says what its sender means; the loop has one extension to read at
\* most, and has read it when it is done.
RInv ==
  /\ buf \in Seq(Nat)
  /\ phase = "idle" => want = Codec!Foreign
  /\ want # Codec!Foreign => Says(buf, want)
  /\ want # Codec!Foreign /\ phase = "parsing" =>
       want.mask # {} /\ extension = 1 /\ data_start = 20
  /\ Codec!Ours =>
       /\ verdict = "ok"
       /\ want.mask = {} => data_start = 20 /\ selack = <<0, 0>>
       /\ want.mask # {} => data_start = 22 + MaskLen /\ selack = <<22, MaskLen>>

LEMMA ReadBack ==
  ASSUME RInv PROVE RoundTrip
<1> SUFFICES ASSUME Codec!Ours PROVE Codec!RoundTrip
  BY DEF RoundTrip, Codec!RoundTrip
<1>1. Says(buf, want) /\ verdict = "ok"
  BY DEF RInv, Codec!Ours
<1>2. Codec!Fields(buf) = [want.f EXCEPT !.window = @ % Codec!Word]
  BY <1>1, FieldsRead
<1>3. PICK b \in Seq(Nat) : b = buf
  BY <1>1 DEF Says, Packets20
<1>4. PICK p \in Seq(Nat) : p = Rest(want)
  BY <1>1, RestSeq DEF Says
<1>5. Len(b) = 20 + Len(p) /\ \A i \in 1 .. Len(p) : b[20 + i] = p[i]
  BY <1>1, <1>3, <1>4 DEF Says
<1>6. want \in Meant
  BY <1>1 DEF Says
<1>7. CASE want.mask = {}
  <2>1. data_start = 20 /\ selack = <<0, 0>>
    BY <1>7 DEF RInv
  <2>2. p = want.payload
    BY <1>4, <1>6, <1>7, RestSeq
  <2>3. SubSeq(b, 20 + 1, Len(b)) = p
    BY <1>5, TailRead
  <2>4. Codec!Payload = want.payload
    BY <1>3, <2>1, <2>2, <2>3 DEF Codec!Payload
  <2>5. Codec!MaskBytes = <<>>
    <3>1. SubSeq(b, 1, 0) = <<>>
      BY SubSeqEmpty
    <3>2. selack[1] + 1 = 1 /\ selack[1] + selack[2] = 0
      BY <2>1
    <3> QED BY <1>3, <3>1, <3>2 DEF Codec!MaskBytes
  <2>6. Codec!Received = {}
    <3>1. Len(<<>>) * BitsPerByte - 1 = -1
      BY CodecConstants
    <3>2. \A i \in 0 .. -1 : FALSE
      OBVIOUS
    <3> QED BY <2>5, <3>1, <3>2 DEF Codec!Received
  <2> QED BY <1>1, <1>2, <1>7, <2>4, <2>6 DEF Codec!RoundTrip
<1>8. CASE want.mask # {}
  <2>1. data_start = 22 + MaskLen /\ selack = <<22, MaskLen>>
    BY <1>8 DEF RInv
  <2>2. PICK n \in Nat : n = MaskLen
    BY CodecConstants
  <2>3. PICK mask \in SUBSET (0 .. n * BitsPerByte - 1) : mask = want.mask
    BY <1>6, <2>2 DEF Meant
  <2>4. p = Codec!Eack(mask)
    BY <1>4, <1>8, <2>3 DEF Rest
  <2>5. Len(p) = 2 + n /\ \A k \in 1 .. n : p[2 + k] = Codec!ByteOf(mask, k - 1)
    BY <1>8, <2>2, <2>3, <2>4, EackFacts
  <2>6. Len(b) = 22 + n
    BY <1>5, <2>2, <2>5
  <2>7. want.payload = <<>>
    BY <1>6, <1>8 DEF Meant
  <2>8. Codec!Payload = <<>>
    <3>1. SubSeq(b, (22 + n) + 1, Len(b)) = <<>>
      BY <2>2, <2>6, SubSeqEmpty
    <3> QED BY <1>3, <2>1, <2>2, <3>1 DEF Codec!Payload
  <2>9. PICK m : m = SubSeq(b, 23, 22 + n)
    OBVIOUS
  <2>10. /\ m \in Seq(Nat) /\ Len(m) = n
         /\ \A k \in 1 .. n : m[k] = b[22 + k]
    <3>1. 23 \in Int /\ 22 + n \in Int /\ \A i \in 23 .. 22 + n : b[i] \in Nat
      BY <2>2, <2>6
    <3>2. /\ m \in Seq(Nat) /\ Len(m) = (IF 23 <= 22 + n THEN (22 + n) - 23 + 1 ELSE 0)
          /\ \A i \in 1 .. (22 + n) - 23 + 1 : m[i] = b[23 + i - 1]
      BY <2>9, <3>1, SubSeqProperties
    <3>3. Len(m) = n /\ (22 + n) - 23 + 1 = n
      BY <2>2, <3>2
    <3>4. ASSUME NEW k \in 1 .. n PROVE m[k] = b[22 + k]
      <4>1. 23 + k - 1 = 22 + k
        OBVIOUS
      <4> QED BY <3>2, <3>3, <4>1
    <3> QED BY <3>2, <3>3, <3>4
  <2>11. ASSUME NEW k \in 1 .. n PROVE m[k] = Codec!ByteOf(mask, k - 1)
    <3>1. 2 + k \in 1 .. Len(p) /\ 20 + (2 + k) = 22 + k
      BY <2>2, <2>5
    <3>2. b[22 + k] = p[2 + k]
      BY <1>5, <3>1
    <3> QED BY <2>5, <2>10, <3>2
  <2>12. {i \in 0 .. Len(m) * BitsPerByte - 1 : Codec!bit_set(m, i)} = mask
    <3>1. mask \in SUBSET (0 .. MaskLen * BitsPerByte - 1) /\ Len(m) = MaskLen
      BY <2>2, <2>3, <2>10, Zenon
    <3>2. \A k \in 1 .. MaskLen : m[k] = Codec!ByteOf(mask, k - 1)
      BY <2>2, <2>11, Zenon
    <3> QED BY <2>10, <3>1, <3>2, MaskRead, Zenon
  <2>13. Codec!MaskBytes = m
    <3>1. selack[1] + 1 = 23 /\ selack[1] + selack[2] = 22 + n
      BY <2>1, <2>2
    <3> QED BY <1>3, <2>9, <3>1 DEF Codec!MaskBytes
  <2>14. Codec!Received = want.mask
    BY <2>3, <2>12, <2>13 DEF Codec!Received
  <2> QED BY <1>1, <1>2, <2>7, <2>8, <2>14 DEF Codec!RoundTrip
<1> QED BY <1>7, <1>8

LEMMA ChoiceTyped ==
  ASSUME NEW t \in 0 .. 4, NEW s \in Shorts, NEW w \in Word4, NEW win \in Nat
  PROVE  Codec!Choice(t, s, w, win) \in HeaderType
<1>1. s \in Short2 /\ (s + 2) % Codec!Short \in Short2 /\ (s + 3) % Codec!Short \in Short2
  BY CodecConstants DEF Short2
<1>2. (w + 1) % Codec!Word \in Word4
  BY CodecConstants DEF Word4
<1> QED BY <1>1, <1>2 DEF Codec!Choice, HeaderType

LEMMA BuiltKeeps ==
  ASSUME NEW b, NEW f, NEW mask, NEW payload, Codec!Build(b, f, mask, payload),
         Says(b, [f |-> f, mask |-> mask, payload |-> payload])
  PROVE  RInv'
<1>1. buf' = b /\ want' = [f |-> f, mask |-> mask, payload |-> payload] /\ phase' = "built"
  BY DEF Codec!Build
<1>2. Says(buf', want') /\ ~(phase' = "idle") /\ ~(phase' = "parsing") /\ ~(phase' = "done")
  BY <1>1
<1>3. buf' \in Seq(Nat)
  BY <1>2 DEF Says, Packets20
<1> QED BY <1>2, <1>3 DEF RInv, Codec!Ours

LEMMA AckKeeps ==
  ASSUME Codec!SendAck PROVE RInv'
<1>1. PICK s \in Shorts, w \in Words, win \in Windows, mask \in Masks :
        Codec!Build(Codec!send_ack(Codec!Choice(Codec!ST_STATE, s, w, win), mask),
                    Codec!Choice(Codec!ST_STATE, s, w, win), mask, <<>>)
  BY DEF Codec!SendAck
<1>2. PICK f : f = Codec!Choice(Codec!ST_STATE, s, w, win)
  OBVIOUS
<1>3. f \in HeaderType /\ mask \in SUBSET (0 .. MaskLen * BitsPerByte - 1)
  <2>1. w \in Word4 /\ win \in Nat /\ mask \in SUBSET (0 .. MaskLen * BitsPerByte - 1)
    BY CodecConstants DEF Word4
  <2>2. Codec!ST_STATE \in 0 .. 4
    BY DEF Codec!ST_STATE
  <2> QED BY <1>2, <2>1, <2>2, ChoiceTyped
<1>4. Says(Codec!send_ack(f, mask), [f |-> f, mask |-> mask, payload |-> <<>>])
  BY <1>3, AckSays
<1> QED BY <1>1, <1>2, <1>4, BuiltKeeps

LEMMA RstKeeps ==
  ASSUME Codec!SendRst PROVE RInv'
<1>1. PICK s \in Shorts :
        Codec!Build(Codec!Header(Codec!Zeros(Codec!HEADER_SIZE),
                                 [Codec!Choice(Codec!ST_RESET, s, 0, 0) EXCEPT !.reply = 0]),
                    [Codec!Choice(Codec!ST_RESET, s, 0, 0) EXCEPT !.reply = 0], {}, <<>>)
  BY DEF Codec!SendRst
<1>2. PICK c : c = Codec!Choice(Codec!ST_RESET, s, 0, 0)
  OBVIOUS
<1>3. PICK f : f = [c EXCEPT !.reply = 0]
  OBVIOUS
<1>4. c \in HeaderType /\ 0 \in Word4
  <2>1. 0 \in Word4 /\ 0 \in Nat
    BY CodecConstants DEF Word4
  <2>2. Codec!ST_RESET \in 0 .. 4
    BY DEF Codec!ST_RESET
  <2> QED BY <1>2, <2>1, <2>2, ChoiceTyped
<1>5. c.tv = 0
  BY <1>2 DEF Codec!Choice
<1>6. f \in HeaderType /\ f.tv = 0 /\ f.reply = 0
  BY <1>3, <1>4, <1>5 DEF HeaderType
<1>7. Says(Codec!Header(Codec!Zeros(20), f), [f |-> f, mask |-> {}, payload |-> <<>>])
  BY <1>6, RstSays
<1> QED BY <1>1, <1>2, <1>3, <1>7, BuiltKeeps DEF Codec!HEADER_SIZE

LEMMA SynKeeps ==
  ASSUME Codec!SendSyn PROVE RInv'
<1>1. PICK s \in Shorts, w \in Words, win \in Windows :
        Codec!Build(Codec!Stamped(Codec!Header(Codec!Zeros(Codec!HEADER_SIZE),
                                    [Codec!Choice(Codec!ST_SYN, s, w, win) EXCEPT !.ack = 0]),
                                  [Codec!Choice(Codec!ST_SYN, s, w, win) EXCEPT !.ack = 0]),
                    [Codec!Choice(Codec!ST_SYN, s, w, win) EXCEPT !.ack = 0], {}, <<>>)
  BY DEF Codec!SendSyn
<1>2. PICK c : c = Codec!Choice(Codec!ST_SYN, s, w, win)
  OBVIOUS
<1>3. PICK f : f = [c EXCEPT !.ack = 0]
  OBVIOUS
<1>4. c \in HeaderType /\ 0 \in Short2
  <2>1. 0 \in Short2 /\ w \in Word4 /\ win \in Nat
    BY CodecConstants DEF Word4, Short2
  <2>2. Codec!ST_SYN \in 0 .. 4
    BY DEF Codec!ST_SYN
  <2> QED BY <1>2, <2>1, <2>2, ChoiceTyped
<1>5. f \in HeaderType
  BY <1>3, <1>4 DEF HeaderType
<1>6. Says(Codec!Stamped(Codec!Header(Codec!Zeros(20), f), f), [f |-> f, mask |-> {}, payload |-> <<>>])
  BY <1>5, SynSays
<1> QED BY <1>1, <1>2, <1>3, <1>6, BuiltKeeps DEF Codec!HEADER_SIZE

LEMMA DataKeeps ==
  ASSUME Codec!SendData PROVE RInv'
<1> DEFINE Pay(t) == IF t = Codec!ST_DATA THEN <<1, 2, 3>> ELSE <<>>
<1>1. PICK t \in {Codec!ST_DATA, Codec!ST_FIN}, s \in Shorts, w \in Words, win \in Windows :
        Codec!Build(Codec!Stamped(Codec!Header(Codec!set_ext(Codec!Zeros(Codec!HEADER_SIZE), 0),
                                               Codec!Choice(t, s, w, win)) \o Pay(t),
                                  Codec!Choice(t, s, w, win)),
                    Codec!Choice(t, s, w, win), {}, Pay(t))
  BY DEF Codec!SendData
<1>2. PICK f : f = Codec!Choice(t, s, w, win)
  OBVIOUS
<1>3. PICK p : p = Pay(t)
  OBVIOUS
<1>4. p \in Seq(Nat)
  <2>1. p = <<1, 2, 3>> \/ p = <<>>
    BY <1>3
  <2>2. <<1, 2, 3>> \in Seq(Nat)
    OBVIOUS
  <2>3. <<>> \in Seq(Nat)
    OBVIOUS
  <2> QED BY <2>1, <2>2, <2>3, Zenon
<1>5. f \in HeaderType
  <2>1. w \in Word4 /\ win \in Nat
    BY CodecConstants DEF Word4
  <2>2. t \in 0 .. 4
    BY DEF Codec!ST_DATA, Codec!ST_FIN
  <2> QED BY <1>2, <2>1, <2>2, ChoiceTyped
<1> HIDE DEF Pay
<1>6. Says(Codec!Stamped(Codec!Header(Codec!set_ext(Codec!Zeros(20), 0), f) \o p, f),
           [f |-> f, mask |-> {}, payload |-> p])
  BY <1>4, <1>5, DataSays
<1> QED BY <1>1, <1>2, <1>3, <1>6, BuiltKeeps DEF Codec!HEADER_SIZE

LEMMA ResendKeeps ==
  ASSUME RInv, Codec!Resend PROVE RInv'
<1>1. PICK s \in Shorts, w \in Words :
        /\ phase = "built" /\ want.f.type \in {Codec!ST_DATA, Codec!ST_FIN, Codec!ST_SYN}
        /\ buf' = Codec!Stamped(Codec!set_ack_nr(buf, s), [want.f EXCEPT !.ack = s, !.tv = w, !.reply = w])
        /\ want' = [want EXCEPT !.f = [want.f EXCEPT !.ack = s, !.tv = w, !.reply = w]]
        /\ phase' = phase
  BY DEF Codec!Resend
<1>2. want # Codec!Foreign
  <2>1. want.f.type # 5
    BY <1>1 DEF Codec!ST_DATA, Codec!ST_FIN, Codec!ST_SYN
  <2>2. Codec!Foreign.f.type = 5
    BY DEF Codec!Foreign, Codec!ST_NUM_STATES
  <2> QED BY <2>1, <2>2
<1>3. Says(buf, want)
  BY <1>2 DEF RInv
<1>4. s \in Short2 /\ w \in Word4
  BY CodecConstants DEF Short2, Word4
<1>5. PICK f : f = [want.f EXCEPT !.ack = s, !.tv = w, !.reply = w]
  OBVIOUS
<1>6. buf' = Codec!Stamped(Codec!set_ack_nr(buf, s), f) /\ want' = [want EXCEPT !.f = f]
  BY <1>1, <1>5
<1>7. Says(buf', want')
  BY <1>3, <1>4, <1>5, <1>6, ResentSays
<1>8. buf' \in Seq(Nat)
  BY <1>7 DEF Says, Packets20
<1> QED BY <1>1, <1>7, <1>8 DEF RInv, Codec!Ours

LEMMA ForeignKeeps ==
  ASSUME Codec!ForeignDatagram PROVE RInv'
<1>1. want' = Codec!Foreign /\ phase' = "built"
  BY DEF Codec!ForeignDatagram
<1>2. buf' \in Seq(Nat)
  <2>1. CASE \E n \in {0, 1, Codec!HEADER_SIZE - 1} : buf' = Codec!Zeros(n)
    <3>1. PICK n \in {0, 1, Codec!HEADER_SIZE - 1} : buf' = Codec!Zeros(n)
      BY <2>1
    <3>2. n \in Nat
      BY DEF Codec!HEADER_SIZE
    <3> QED BY <3>1, <3>2, ZerosFacts
  <2>2. CASE \E t \in {0, Codec!ST_NUM_STATES}, e \in 0 .. 3, n \in 0 .. MaxTail :
               \E tail \in [1 .. n -> TailBytes] :
                 buf' = Codec!set_ext(Codec!set_version_type(Codec!Zeros(Codec!HEADER_SIZE), t), e) \o tail
    <3>0. PICK t \in {0, Codec!ST_NUM_STATES}, e \in 0 .. 3, n \in 0 .. MaxTail :
            \E tail \in [1 .. n -> TailBytes] :
              buf' = Codec!set_ext(Codec!set_version_type(Codec!Zeros(Codec!HEADER_SIZE), t), e) \o tail
      BY <2>2
    <3>1. PICK tail \in [1 .. n -> TailBytes] :
            buf' = Codec!set_ext(Codec!set_version_type(Codec!Zeros(Codec!HEADER_SIZE), t), e) \o tail
      BY <3>0
    <3>2. PICK z : z = Codec!Zeros(20)
      OBVIOUS
    <3>3. PICK c : c = Codec!set_version_type(z, t)
      OBVIOUS
    <3>4. PICK b : b = Codec!set_ext(c, e)
      OBVIOUS
    <3>5. z \in Seq(Nat) /\ Len(z) = 20
      BY <3>2, ZerosFacts
    <3>6. c \in Seq(Nat) /\ Len(c) = 20
      <4>1. PICK v : v = t * Codec!Nibble + 1
        OBVIOUS
      <4>2. v \in Nat
        BY <4>1, CodecConstants DEF Codec!ST_NUM_STATES
      <4>3. c = Codec!Put(z, 0, <<v>>)
        BY <3>3, <4>1 DEF Codec!set_version_type
      <4>4. 0 \in Nat /\ 0 + 1 <= Len(z) /\ 1 = 0 + 1
        BY <3>5
      <4>5. Kept(z, c, 1, 1)
        BY <3>5, <4>2, <4>3, <4>4, PutOne, Zenon
      <4> QED BY <3>5, <4>5 DEF Kept
    <3>7. b \in Seq(Nat)
      <4>1. b = Codec!Put(c, 1, <<e>>)
        BY <3>4 DEF Codec!set_ext
      <4>2. 1 \in Nat /\ 1 + 1 <= Len(c) /\ 2 = 1 + 1 /\ e \in Nat
        BY <3>6
      <4>3. Kept(c, b, 2, 2)
        BY <3>6, <4>1, <4>2, PutOne, Zenon
      <4> QED BY <4>3 DEF Kept
    <3>8. tail \in Seq(Nat)
      <4>1. n \in Nat /\ TailBytes \subseteq Nat
        BY CodecConstants
      <4>2. tail \in [1 .. n -> Nat]
        BY <3>1, <4>1
      <4> QED BY <4>1, <4>2, DomainLen
    <3>9. buf' = b \o tail
      BY <3>1, <3>2, <3>3, <3>4 DEF Codec!HEADER_SIZE
    <3> QED BY <3>7, <3>8, <3>9, ConcatProperties
  <2> QED BY <2>1, <2>2 DEF Codec!ForeignDatagram
<1> QED BY <1>1, <1>2 DEF RInv, Codec!Ours

\* Such a packet has the version 1 and the header's length.
LEMMA OursIsUtp ==
  ASSUME NEW b, NEW w, Says(b, w)
  PROVE  ~(Len(b) < 20) /\ Codec!wire_version(b) = 1
<1>1. Len(b) >= 20 /\ Len(b) \in Nat
  BY DEF Says, Packets20
<1>2. Codec!packet_type(b) \in 0 .. 4 /\ Codec!version(b) = 1
  BY DEF Says, Fixed, Meant, HeaderType
<1>3. b[2] < 3
  BY DEF Says
<1> QED BY <1>1, <1>2, <1>3 DEF Codec!wire_version, Codec!ST_NUM_STATES

LEMMA UdpKeeps ==
  ASSUME RInv, Codec!ProcessUdp PROVE RInv'
<1>1. buf' = buf /\ want' = want /\ phase = "built"
  BY DEF Codec!ProcessUdp
<1>2. phase' \in {"done", "parsing"}
  BY DEF Codec!ProcessUdp, Codec!Finish
<1> SUFFICES ASSUME want # Codec!Foreign PROVE RInv'
  BY <1>1, <1>2 DEF RInv, Codec!Ours
<1>3. Says(buf, want)
  BY DEF RInv
<1>4. ~(Len(buf) < Codec!HEADER_SIZE \/ Codec!wire_version(buf) # 1)
  BY <1>3, OursIsUtp DEF Codec!HEADER_SIZE
<1>5. /\ data_start' = 20 /\ extension' = buf[2] /\ selack' = <<0, 0>>
      /\ IF buf[2] = 0 THEN phase' = "done" /\ verdict' = "ok" ELSE phase' = "parsing"
  BY <1>4 DEF Codec!ProcessUdp, Codec!Finish, Codec!HEADER_SIZE, Codec!NoMask
<1>6. buf[2] = (IF want.mask = {} THEN 0 ELSE 1)
  BY <1>3 DEF Says
<1> QED BY <1>1, <1>2, <1>3, <1>5, <1>6 DEF RInv, Codec!Ours

\* A round of the loop, at offset at behind the two bytes of an extension of elen.
Round(at, elen) ==
  IF Codec!Truncated(at) THEN Codec!Finish("invalid") /\ UNCHANGED <<data_start, extension, selack>>
  ELSE IF at > Len(buf) THEN Codec!Finish("panic") /\ UNCHANGED <<data_start, extension, selack>>
  ELSE IF Codec!TooLong(at, elen) \/ (extension = 2 /\ elen # ExtBitsLen)
  THEN Codec!Finish("invalid") /\ UNCHANGED <<data_start, extension, selack>>
  ELSE /\ selack' = IF extension = 1 THEN <<at, elen>> ELSE selack
       /\ extension' = buf[at - 1]
       /\ data_start' = at + elen
       /\ IF buf[at - 1] # 0 THEN UNCHANGED <<phase, verdict>>
          ELSE Codec!Finish(IF at + elen > Len(buf) THEN "panic" ELSE "ok")

LEMMA RoundTaken ==
  ASSUME Codec!SkipExtension, NEW at, at = data_start + 2, NEW elen, elen = buf[at]
  PROVE  Round(at, elen)
BY DEF Codec!SkipExtension, Round, Codec!loopVars

LEMMA SkipKeeps ==
  ASSUME RInv, Codec!SkipExtension PROVE RInv'
<1>1. buf' = buf /\ want' = want /\ phase = "parsing"
  BY DEF Codec!SkipExtension
<1>2. phase' \in {"done", "parsing"}
  BY <1>1 DEF Codec!SkipExtension, Codec!Finish
<1> SUFFICES ASSUME want # Codec!Foreign PROVE RInv'
  BY <1>1, <1>2 DEF RInv, Codec!Ours
<1>3. Says(buf, want) /\ want.mask # {} /\ extension = 1 /\ data_start = 20
  BY <1>1 DEF RInv
<1>4. PICK n \in Nat : n = MaskLen
  BY CodecConstants
<1>5. PICK p : p = Codec!Eack(want.mask)
  OBVIOUS
<1>6. p = Rest(want) /\ Len(p) = 2 + n /\ p[1] = 0 /\ p[2] = n
  BY <1>3, <1>4, <1>5, EackFacts DEF Rest
<1>7. Len(buf) = 22 + n /\ buf[21] = 0 /\ buf[22] = n
  <2>1. Len(buf) = 20 + Len(p) /\ \A i \in 1 .. Len(p) : buf[20 + i] = p[i]
    BY <1>3, <1>6 DEF Says
  <2>2. 1 \in 1 .. Len(p) /\ 2 \in 1 .. Len(p) /\ 20 + 1 = 21 /\ 20 + 2 = 22
    BY <1>4, <1>6
  <2>3. buf[20 + 1] = 0 /\ buf[20 + 2] = n
    BY <1>6, <2>1, <2>2, Zenon
  <2> QED BY <1>4, <1>6, <2>1, <2>2, <2>3
<1>8. data_start + 2 = 22 /\ 22 - 1 = 21 /\ ~(extension = 2)
  BY <1>3
<1>9. /\ ~Codec!Truncated(22) /\ ~(22 > Len(buf)) /\ ~Codec!TooLong(22, n)
      /\ 22 + n <= Len(buf) /\ ~(22 + n > Len(buf))
  BY <1>4, <1>7 DEF Codec!Truncated, Codec!TooLong
<1>10. /\ selack' = <<22, n>> /\ data_start' = 22 + n /\ phase' = "done" /\ verdict' = "ok"
  <2>1. Round(22, n)
    BY <1>7, <1>8, RoundTaken
  <2>2. /\ selack' = (IF extension = 1 THEN <<22, n>> ELSE selack) /\ data_start' = 22 + n
        /\ IF buf[22 - 1] # 0 THEN UNCHANGED <<phase, verdict>>
           ELSE Codec!Finish(IF 22 + n > Len(buf) THEN "panic" ELSE "ok")
    BY <1>8, <1>9, <2>1, Zenon DEF Round
  <2> QED BY <1>3, <1>7, <1>8, <1>9, <2>2, Zenon DEF Codec!Finish, Codec!Finish
<1> QED BY <1>1, <1>3, <1>4, <1>10 DEF RInv, Codec!Ours

\* RInv holds at first, and every step keeps it.
LEMMA RInvInductive ==
  (Codec!Init => RInv) /\ (RInv /\ [Codec!Next]_(Codec!vars) => RInv')
<1>1. Codec!Init => RInv
  <2>1. <<>> \in Seq(Nat)
    OBVIOUS
  <2> QED BY <2>1 DEF Codec!Init, RInv, Codec!Ours
<1>2. RInv /\ [Codec!Next]_(Codec!vars) => RInv'
  <2> SUFFICES ASSUME RInv, [Codec!Next]_(Codec!vars) PROVE RInv'
    OBVIOUS
  <2>1. ASSUME UNCHANGED Codec!vars PROVE RInv'
    <3>1. /\ phase' = phase /\ want' = want /\ buf' = buf /\ verdict' = verdict
          /\ data_start' = data_start /\ extension' = extension /\ selack' = selack
      BY <2>1 DEF Codec!vars, Codec!loopVars
    <3> QED BY <3>1 DEF RInv, Codec!Ours
  <2> QED BY <2>1, ForeignKeeps, AckKeeps, RstKeeps, SynKeeps, DataKeeps, ResendKeeps, UdpKeeps, SkipKeeps
          DEF Codec!Next
<1> QED BY <1>1, <1>2

\* The setters and getters of Header, send_ack and send_packet_at: in every behaviour
\* the peer reads every field, bit of the mask and byte of the payload of a packet as
\* it was last set, for every width of a byte and every length of the mask.
THEOREM AlwaysRoundTrip == Codec!Spec => []RoundTrip
<1>1. (Codec!Init => RInv) /\ (RInv /\ [Codec!Next]_(Codec!vars) => RInv')
  BY RInvInductive
<1>2. RInv => RoundTrip
  BY ReadBack
<1> QED BY <1>1, <1>2, PTL DEF Codec!Spec

-----------------------------------------------------------------------------
(* The packet codec: the grammar of the tail. *)

\* The grammar's operators, of any datagram b.
KindIn(b, e, i) == IF i = 1 THEN b[2] ELSE b[Codec!Start(e, i - 1) + 1]
ExtensionIn(b, e, i) ==
  /\ KindIn(b, e, i) # 0
  /\ Codec!Start(e, i) + 2 <= Len(b)
  /\ e[i] = Codec!Start(e, i) + 2 + b[Codec!Start(e, i) + 2]
  /\ KindIn(b, e, i) = 2 => b[Codec!Start(e, i) + 2] = ExtBitsLen
MaskIn(b, n, e, m) ==
  \/ m = <<0, 0>> /\ \A i \in 1 .. n : KindIn(b, e, i) # 1
  \/ \E i \in 1 .. n : /\ KindIn(b, e, i) = 1
                      /\ m = <<Codec!Start(e, i) + 2, b[Codec!Start(e, i) + 2]>>
                      /\ \A j \in i + 1 .. n : KindIn(b, e, j) # 1

\* The first n extensions of b end at e: what the loop has read after n rounds.
Chain(b, n, e) ==
  /\ n \in Nat /\ e \in [1 .. n -> Nat]
  /\ \A i \in 1 .. n : ExtensionIn(b, e, i) /\ 20 + 2 * i <= e[i] /\ e[i] <= Len(b)
Follow(b, m, d) == (\A i \in 1 .. m : ExtensionIn(b, d, i)) /\ KindIn(b, d, m + 1) = 0

LEMMA SameStart ==
  ASSUME NEW b, NEW d, NEW e, NEW n \in Nat, \A j \in 1 .. n : d[j] = e[j], NEW i \in 1 .. n + 1
  PROVE  Codec!Start(d, i) = Codec!Start(e, i) /\ KindIn(b, d, i) = KindIn(b, e, i)
<1>1. ASSUME NEW k \in 1 .. n + 1 PROVE Codec!Start(d, k) = Codec!Start(e, k)
  <2>1. CASE k = 1
    BY <2>1 DEF Codec!Start
  <2>2. CASE k # 1
    <3>1. k - 1 \in 1 .. n
      BY <2>2
    <3> QED BY <2>2, <3>1 DEF Codec!Start
  <2> QED BY <2>1, <2>2
<1>2. CASE i = 1
  BY <1>1, <1>2 DEF KindIn
<1>3. CASE i # 1
  <2>1. i - 1 \in 1 .. n + 1
    BY <1>3
  <2> QED BY <1>1, <1>3, <2>1 DEF KindIn
<1> QED BY <1>2, <1>3

\* A datagram has one chain: whatever follows the grammar starts with the
\* extensions that the loop has read, and goes on when the loop does.
LEMMA ChainUnique ==
  ASSUME NEW b, NEW n, NEW e, Chain(b, n, e), KindIn(b, e, n + 1) # 0,
         NEW m \in Nat, NEW d, Follow(b, m, d)
  PROVE  /\ n + 1 \in 1 .. m /\ Codec!Start(d, n + 1) = Codec!Start(e, n + 1)
         /\ KindIn(b, d, n + 1) = KindIn(b, e, n + 1)
<1>1. n \in Nat /\ \A i \in 1 .. n : ExtensionIn(b, e, i)
  BY DEF Chain
<1> DEFINE Bad == {i \in 1 .. n : i > m \/ d[i] # e[i]}
<1>2. Bad = {}
  <2> SUFFICES ASSUME Bad # {} PROVE FALSE
    OBVIOUS
  <2> DEFINE i == Min(Bad)
  <2>1. i \in Bad /\ \A y \in Bad : i <= y
    <3>1. Bad \subseteq Nat
      BY <1>1
    <3> HIDE DEF Bad
    <3> QED BY <3>1, NatMin
  <2> HIDE DEF i
  <2>2. i \in 1 .. n /\ (i > m \/ d[i] # e[i]) /\ i - 1 \in Nat /\ i \in Nat
    BY <1>1, <2>1
  <2>3. \A j \in 1 .. i - 1 : j <= m /\ d[j] = e[j]
    <3> SUFFICES ASSUME NEW j \in 1 .. i - 1 PROVE j <= m /\ d[j] = e[j]
      OBVIOUS
    <3>1. j \in 1 .. n /\ ~(i <= j)
      BY <1>1, <2>2
    <3>2. j \notin Bad
      BY <2>1, <3>1
    <3> QED BY <3>1, <3>2
  <2>4. i - 1 <= m
    <3>1. CASE i = 1
      BY <3>1
    <3>2. CASE i # 1
      <4>1. i - 1 \in 1 .. i - 1
        BY <2>2, <3>2
      <4> QED BY <2>3, <4>1
    <3> QED BY <3>1, <3>2
  <2>5. Codec!Start(d, i) = Codec!Start(e, i) /\ KindIn(b, d, i) = KindIn(b, e, i)
    <3>1. i \in 1 .. (i - 1) + 1
      BY <2>2
    <3>2. PICK k \in Nat : k = i - 1
      BY <2>2
    <3>3. \A j \in 1 .. k : d[j] = e[j]
      BY <2>3, <3>2
    <3>4. i \in 1 .. k + 1
      BY <3>1, <3>2
    <3>5. \A u \in Nat : (\A j \in 1 .. u : d[j] = e[j]) =>
            \A j \in 1 .. u + 1 : Codec!Start(d, j) = Codec!Start(e, j) /\ KindIn(b, d, j) = KindIn(b, e, j)
      BY SameStart
    <3> QED BY <3>2, <3>3, <3>4, <3>5, Zenon
  <2>6. ExtensionIn(b, e, i)
    BY <1>1, <2>2
  <2>7. CASE i > m
    <3>1. i = m + 1
      BY <2>2, <2>4, <2>7
    <3> QED BY <2>5, <2>6, <3>1 DEF Follow, ExtensionIn
  <2>8. CASE ~(i > m)
    <3>1. i \in 1 .. m /\ d[i] # e[i]
      BY <2>2, <2>8
    <3>2. ExtensionIn(b, d, i)
      BY <3>1 DEF Follow
    <3> QED BY <2>5, <2>6, <3>1, <3>2 DEF ExtensionIn
  <2> QED BY <2>7, <2>8
<1>3. \A i \in 1 .. n : i <= m /\ d[i] = e[i]
  BY <1>1, <1>2
<1>4. Codec!Start(d, n + 1) = Codec!Start(e, n + 1) /\ KindIn(b, d, n + 1) = KindIn(b, e, n + 1)
  <2>1. n + 1 \in 1 .. n + 1
    BY <1>1
  <2> QED BY <1>1, <1>3, <2>1, SameStart
<1>5. n <= m
  BY <1>1, <1>3
<1>6. n # m
  BY <1>4 DEF Follow
<1> QED BY <1>1, <1>4, <1>5, <1>6

LEMMA StartOf ==
  ASSUME NEW b, NEW n, NEW e, Chain(b, n, e), Len(b) \in Nat, Len(b) >= 20
  PROVE  Codec!Start(e, n + 1) \in 20 + 2 * n .. Len(b)
<1>1. n \in Nat
  BY DEF Chain
<1>2. CASE n = 0
  BY <1>2 DEF Codec!Start, Codec!HEADER_SIZE
<1>3. CASE n # 0
  <2>1. n \in 1 .. n /\ n + 1 # 1 /\ (n + 1) - 1 = n
    BY <1>1, <1>3
  <2>2. 20 + 2 * n <= e[n] /\ e[n] <= Len(b) /\ e[n] \in Nat
    BY <2>1 DEF Chain
  <2>3. Codec!Start(e, n + 1) = e[n]
    BY <2>1 DEF Codec!Start
  <2> QED BY <1>1, <2>2, <2>3
<1> QED BY <1>2, <1>3

\* It is one of the chains that the grammar looks at.
LEMMA ChainInEnds ==
  ASSUME NEW b, NEW n, NEW e, Chain(b, n, e), Len(b) \in Nat, Len(b) >= 20
  PROVE  n \in 0 .. (Len(b) - 20) \div 2 /\ e \in [1 .. n -> 22 .. Len(b)]
<1>1. n \in Nat /\ e \in [1 .. n -> Nat]
  BY DEF Chain
<1>2. 20 + 2 * n <= Len(b)
  BY <1>1, StartOf
<1>3. n <= (Len(b) - 20) \div 2
  BY <1>1, <1>2
<1>4. ASSUME NEW i \in 1 .. n PROVE e[i] \in 22 .. Len(b)
  <2>1. 20 + 2 * i <= e[i] /\ e[i] <= Len(b) /\ e[i] \in Nat
    BY DEF Chain
  <2> QED BY <1>1, <2>1
<1> QED BY <1>1, <1>3, <1>4

Grown(b, n, e, at, l, m) ==
  \E d : /\ Chain(b, n + 1, d) /\ KindIn(b, d, n + 2) = b[at - 1]
         /\ Codec!Start(d, n + 2) = at + l
         /\ MaskIn(b, n + 1, d, IF KindIn(b, e, n + 1) = 1 THEN <<at, l>> ELSE m)

\* Another round reads the extension behind the chain.
LEMMA ChainGrows ==
  ASSUME NEW b \in Seq(Nat), Len(b) >= 20, NEW n, NEW e, Chain(b, n, e),
         KindIn(b, e, n + 1) # 0, NEW at, at = Codec!Start(e, n + 1) + 2, at <= Len(b),
         NEW l, l = b[at], at + l <= Len(b), KindIn(b, e, n + 1) = 2 => l = ExtBitsLen,
         NEW m, MaskIn(b, n, e, m)
  PROVE  Grown(b, n, e, at, l, m)
<1>1. n \in Nat /\ e \in [1 .. n -> Nat]
  BY DEF Chain
<1>2. Len(b) \in Nat /\ Codec!Start(e, n + 1) \in 20 + 2 * n .. Len(b)
  BY StartOf
<1>3. at \in 1 .. Len(b) /\ at >= 22 + 2 * n
  <2>1. PICK z \in Nat : z = Len(b)
    BY <1>2
  <2>2. PICK s \in Nat : s = Codec!Start(e, n + 1) /\ 20 + 2 * n <= s
    BY <1>1, <1>2
  <2>3. at = s + 2
    BY <2>2
  <2>4. s + 2 <= z
    BY <2>1, <2>3
  <2>5. s + 2 \in 1 .. z /\ s + 2 >= 22 + 2 * n
    <3>1. \A p, q, y \in Nat : 20 + 2 * q <= p /\ p + 2 <= y => p + 2 \in 1 .. y /\ p + 2 >= 22 + 2 * q
      OBVIOUS
    <3> QED BY <1>1, <2>1, <2>2, <2>4, <3>1, Zenon
  <2> QED BY <2>1, <2>3, <2>5
<1>3a. l \in Nat
  BY <1>3
<1>3b. PICK k \in Nat : k = at + l /\ k >= 22 + 2 * n /\ k <= Len(b)
  <2>1. \A p, q, y \in Nat : p >= 22 + 2 * q => p + y \in Nat /\ p + y >= 22 + 2 * q
    OBVIOUS
  <2>2. at \in Nat
    BY <1>2, <1>3
  <2>3. at + l \in Nat /\ at + l >= 22 + 2 * n
    BY <1>1, <1>3, <1>3a, <2>1, <2>2, Zenon
  <2> QED BY <2>3, Zenon
<1>4. PICK d : d = [i \in 1 .. n + 1 |-> IF i = n + 1 THEN k ELSE e[i]]
  OBVIOUS
<1>5. d \in [1 .. n + 1 -> Nat] /\ d[n + 1] = at + l /\ \A i \in 1 .. n : d[i] = e[i]
  <2>1. d \in [1 .. n + 1 -> Nat]
    <3>1. \A i \in 1 .. n + 1 : i # n + 1 => i \in 1 .. n
      BY <1>1
    <3>2. \A i \in 1 .. n + 1 : (IF i = n + 1 THEN k ELSE e[i]) \in Nat
      BY <1>1, <1>3b, <3>1, Zenon
    <3> QED BY <1>4, <3>2, Zenon
  <2>2. n + 1 \in 1 .. n + 1
    BY <1>1
  <2>3. d[n + 1] = k
    BY <1>4, <2>2
  <2>4. \A i \in 1 .. n : d[i] = e[i]
    BY <1>1, <1>4
  <2> QED BY <1>3b, <2>1, <2>3, <2>4
<1>6. \A i \in 1 .. n + 1 : Codec!Start(d, i) = Codec!Start(e, i) /\ KindIn(b, d, i) = KindIn(b, e, i)
  BY <1>1, <1>5, SameStart
<1>7. n + 1 \in 1 .. n + 1 /\ n + 1 \in Nat /\ n + 2 # 1 /\ (n + 2) - 1 = n + 1
  BY <1>1
<1>8. Codec!Start(d, n + 2) = at + l /\ KindIn(b, d, n + 2) = b[at - 1]
  <2>1. Codec!Start(d, n + 1) + 1 = at - 1
    BY <1>2, <1>6, <1>7
  <2> QED BY <1>5, <1>7, <2>1 DEF Codec!Start, KindIn
<1>9. ASSUME NEW i \in 1 .. n + 1 PROVE ExtensionIn(b, d, i) /\ 20 + 2 * i <= d[i] /\ d[i] <= Len(b)
  <2>1. CASE i = n + 1
    <3>1. Codec!Start(d, i) + 2 = at /\ KindIn(b, d, i) = KindIn(b, e, n + 1)
      BY <1>6, <2>1
    <3>2. ExtensionIn(b, d, i)
      BY <1>5, <2>1, <3>1 DEF ExtensionIn
    <3>3. 20 + 2 * i <= d[i] /\ d[i] <= Len(b)
      <4>1. d[i] = k
        BY <1>3b, <1>5, <2>1
      <4> QED BY <1>1, <1>3b, <2>1, <4>1
    <3> QED BY <3>2, <3>3
  <2>2. CASE i # n + 1
    <3>1. i \in 1 .. n
      BY <1>1, <2>2
    <3>2. ExtensionIn(b, e, i) /\ 20 + 2 * i <= e[i] /\ e[i] <= Len(b)
      BY <3>1 DEF Chain
    <3>3. Codec!Start(d, i) = Codec!Start(e, i) /\ KindIn(b, d, i) = KindIn(b, e, i) /\ d[i] = e[i]
      BY <1>5, <1>6, <3>1
    <3> QED BY <3>2, <3>3 DEF ExtensionIn
  <2> QED BY <2>1, <2>2
<1>10. Chain(b, n + 1, d)
  BY <1>5, <1>7, <1>9 DEF Chain
<1> DEFINE m1 == IF KindIn(b, e, n + 1) = 1 THEN <<at, l>> ELSE m
<1>11. MaskIn(b, n + 1, d, m1)
  <2>1. CASE KindIn(b, e, n + 1) = 1
    <3>1. KindIn(b, d, n + 1) = 1 /\ m1 = <<Codec!Start(d, n + 1) + 2, b[Codec!Start(d, n + 1) + 2]>>
      BY <1>6, <1>7, <2>1
    <3>2. \A j \in (n + 1) + 1 .. n + 1 : FALSE
      BY <1>1
    <3> QED BY <1>7, <3>1, <3>2, Zenon DEF MaskIn
  <2>2. CASE KindIn(b, e, n + 1) # 1
    <3>1. m1 = m
      BY <2>2
    <3> HIDE DEF m1
    <3>2. KindIn(b, d, n + 1) # 1
      BY <1>6, <1>7, <2>2
    <3>3. CASE m = <<0, 0>> /\ \A i \in 1 .. n : KindIn(b, e, i) # 1
      <4>1. ASSUME NEW i \in 1 .. n + 1 PROVE KindIn(b, d, i) # 1
        <5>1. i = n + 1 \/ i \in 1 .. n
          BY <1>1
        <5> QED BY <1>6, <3>2, <3>3, <5>1
      <4> QED BY <3>1, <3>3, <4>1, Zenon DEF MaskIn
    <3>4. CASE \E i \in 1 .. n : /\ KindIn(b, e, i) = 1
                                /\ m = <<Codec!Start(e, i) + 2, b[Codec!Start(e, i) + 2]>>
                                /\ \A j \in i + 1 .. n : KindIn(b, e, j) # 1
      <4>1. PICK i \in 1 .. n : /\ KindIn(b, e, i) = 1
                               /\ m = <<Codec!Start(e, i) + 2, b[Codec!Start(e, i) + 2]>>
                               /\ \A j \in i + 1 .. n : KindIn(b, e, j) # 1
        BY <3>4
      <4>2. i \in 1 .. n + 1
        BY <1>1
      <4>3. KindIn(b, d, i) = 1 /\ m1 = <<Codec!Start(d, i) + 2, b[Codec!Start(d, i) + 2]>>
        BY <1>6, <3>1, <4>1, <4>2, Zenon
      <4>4. ASSUME NEW j \in i + 1 .. n + 1 PROVE KindIn(b, d, j) # 1
        <5>1. j = n + 1 \/ j \in i + 1 .. n
          BY <1>1
        <5>2. j \in 1 .. n + 1
          BY <1>1
        <5> QED BY <1>6, <3>2, <4>1, <5>1, <5>2
      <4> QED BY <4>2, <4>3, <4>4, Zenon DEF MaskIn
    <3> QED BY <3>3, <3>4 DEF MaskIn
  <2> QED BY <2>1, <2>2
<1> QED BY <1>8, <1>10, <1>11, Zenon DEF Grown

\* The loop has read a chain and its last mask; what it refuses follows no grammar.
Reads(b, n, e, kind, at, m) ==
  Chain(b, n, e) /\ kind = KindIn(b, e, n + 1) /\ at = Codec!Start(e, n + 1) /\ MaskIn(b, n, e, m)
Refuses(b) == \A k \in Nat : \A d \in [1 .. k -> 22 .. Len(b)] : ~Follow(b, k, d)
GInv ==
  /\ phase = "parsing" =>
       Len(buf) >= 20 /\ extension # 0 /\ \E n, e : Reads(buf, n, e, extension, data_start, selack)
  /\ phase = "done" /\ verdict # "not_utp" =>
       /\ Len(buf) >= 20
       /\ \/ verdict = "ok" /\ \E n, e : Reads(buf, n, e, 0, data_start, selack)
          \/ verdict = "invalid" /\ Refuses(buf)

\* The header alone is a chain of none.
LEMMA NoExtension ==
  ASSUME NEW b, NEW e, e = [i \in 1 .. 0 |-> 0]
  PROVE  Reads(b, 0, e, b[2], 20, <<0, 0>>)
<1>1. \A i \in 1 .. 0 : FALSE
  OBVIOUS
<1>2. e \in [1 .. 0 -> Nat] /\ 0 \in Nat
  OBVIOUS
<1>3. Chain(b, 0, e)
  BY <1>1, <1>2, Zenon DEF Chain
<1>4. MaskIn(b, 0, e, <<0, 0>>)
  BY <1>1, Zenon DEF MaskIn
<1>5. KindIn(b, e, 0 + 1) = b[2] /\ Codec!Start(e, 0 + 1) = 20
  BY DEF KindIn, Codec!Start, Codec!HEADER_SIZE
<1> QED BY <1>3, <1>4, <1>5 DEF Reads

\* A datagram that the loop refuses follows no grammar: what follows it goes on
\* with the extension at hand, which is cut off, or of another length.
LEMMA RefusedRight ==
  ASSUME NEW b \in Seq(Nat), Len(b) >= 20, NEW n, NEW e, NEW x, NEW at, NEW m,
         Reads(b, n, e, x, at - 2, m), x # 0, NEW l, l = b[at],
         \/ at > Len(b) \/ Len(b) - at < l \/ (x = 2 /\ l # ExtBitsLen),
         at \in Nat
  PROVE  Refuses(b)
<1> SUFFICES ASSUME NEW k \in Nat, NEW d \in [1 .. k -> 22 .. Len(b)], Follow(b, k, d) PROVE FALSE
  BY DEF Refuses
<1>1. Chain(b, n, e) /\ x = KindIn(b, e, n + 1) /\ at - 2 = Codec!Start(e, n + 1)
  BY DEF Reads
<1>2. /\ n + 1 \in 1 .. k /\ Codec!Start(d, n + 1) = Codec!Start(e, n + 1)
      /\ KindIn(b, d, n + 1) = KindIn(b, e, n + 1)
  BY <1>1, ChainUnique
<1>3. PICK i \in 1 .. k : i = n + 1
  BY <1>2
<1>4. Codec!Start(d, i) = at - 2 /\ KindIn(b, d, i) = x /\ (at - 2) + 2 = at
  BY <1>1, <1>2, <1>3
<1>5. ExtensionIn(b, d, i)
  BY <1>3 DEF Follow
<1>6. at <= Len(b) /\ d[i] = at + l /\ (x = 2 => l = ExtBitsLen)
  BY <1>4, <1>5 DEF ExtensionIn
<1>7. d[i] \in 22 .. Len(b)
  BY <1>3
<1>8. Len(b) \in Nat /\ l \in Nat
  <2>1. Len(b) \in Nat
    OBVIOUS
  <2>2. at \in 1 .. Len(b) \/ at = 0
    BY <1>6, <2>1
  <2>3. at # 0
    <3>1. Codec!Start(e, n + 1) \in 20 + 2 * n .. Len(b)
      BY <1>1, <2>1, StartOf
    <3>2. n \in Nat
      BY <1>1 DEF Chain
    <3>3. PICK s \in Nat : s = at - 2 /\ s >= 20
      BY <1>1, <2>1, <3>1, <3>2
    <3> QED BY <3>3
  <2> QED BY <2>1, <2>2, <2>3
<1>9. at + l <= Len(b)
  BY <1>6, <1>7, <1>8
<1>10. ~(at > Len(b)) /\ ~(Len(b) - at < l)
  <2>1. PICK z \in Nat : z = Len(b)
    BY <1>8
  <2>2. at <= z /\ at + l <= z
    BY <1>6, <1>9, <2>1
  <2>3. \A p, q, r \in Nat : p + q <= r => ~(p > r) /\ ~(r - p < q)
    OBVIOUS
  <2>4. ~(at > z) /\ ~(z - at < l)
    BY <1>8, <2>1, <2>2, <2>3, Zenon
  <2> QED BY <2>1, <2>4
<1> QED BY <1>6, <1>10

LEMMA GrammarRead ==
  ASSUME RInv, GInv PROVE ParsesTheGrammar
<1> SUFFICES ASSUME phase = "done", verdict # "not_utp" PROVE Codec!ParsesTheGrammar
  BY DEF ParsesTheGrammar, Codec!ParsesTheGrammar
<1>1. Len(buf) >= 20 /\ Len(buf) \in Nat
  BY DEF GInv, RInv
<1>2. \A e, i : Codec!Kind(e, i) = KindIn(buf, e, i)
  BY DEF Codec!Kind, KindIn
<1>3. \A e, i : Codec!Extension(e, i) <=> ExtensionIn(buf, e, i)
  BY <1>2, Zenon DEF Codec!Extension, ExtensionIn
<1>4. \A n, e : Codec!WellFormed(n, e) <=> Follow(buf, n, e)
  BY <1>2, <1>3, Zenon DEF Codec!WellFormed, Follow
<1>5. \A n, e, m : Codec!LastMask(n, e, m) <=> MaskIn(buf, n, e, m)
  BY <1>2, Zenon DEF Codec!LastMask, MaskIn, Codec!NoMask
<1>6. Codec!MostExtensions = (Len(buf) - 20) \div 2 /\ \A n : Codec!Ends(n) = [1 .. n -> 22 .. Len(buf)]
  <2>1. 20 + 2 = 22
    OBVIOUS
  <2> QED BY <2>1, Zenon DEF Codec!MostExtensions, Codec!Ends, Codec!HEADER_SIZE
<1>7. CASE verdict = "ok" /\ \E n, e : Reads(buf, n, e, 0, data_start, selack)
  <2>1. PICK n, e : Reads(buf, n, e, 0, data_start, selack)
    BY <1>7
  <2>2. /\ Chain(buf, n, e) /\ KindIn(buf, e, n + 1) = 0 /\ data_start = Codec!Start(e, n + 1)
        /\ MaskIn(buf, n, e, selack)
    BY <2>1 DEF Reads
  <2>3. n \in 0 .. (Len(buf) - 20) \div 2 /\ e \in [1 .. n -> 22 .. Len(buf)]
    BY <1>1, <2>2, ChainInEnds
  <2>4. n \in 0 .. Codec!MostExtensions /\ e \in Codec!Ends(n)
    BY <1>6, <2>3, Zenon
  <2>5. Follow(buf, n, e)
    BY <2>2, Zenon DEF Chain, Follow
  <2>6. Codec!WellFormed(n, e) /\ Codec!LastMask(n, e, selack)
    BY <1>4, <1>5, <2>2, <2>5, Zenon
  <2> QED BY <1>7, <2>2, <2>4, <2>6, Zenon DEF Codec!ParsesTheGrammar
<1>8. CASE verdict = "invalid" /\ Refuses(buf)
  <2>1. ASSUME NEW n \in 0 .. Codec!MostExtensions, NEW e \in Codec!Ends(n) PROVE ~Codec!WellFormed(n, e)
    <3>1. n \in Nat
      BY <1>1, <1>6
    <3>2. e \in [1 .. n -> 22 .. Len(buf)]
      BY <1>6, Zenon
    <3>3. ~Follow(buf, n, e)
      BY <1>8, <3>1, <3>2, Zenon DEF Refuses
    <3> QED BY <1>4, <3>3, Zenon
  <2> QED BY <1>8, <2>1, Zenon DEF Codec!ParsesTheGrammar
<1> QED BY <1>7, <1>8 DEF GInv

LEMMA UdpReads ==
  ASSUME RInv, GInv, Codec!ProcessUdp PROVE GInv'
<1>1. buf' = buf /\ buf \in Seq(Nat)
  BY DEF Codec!ProcessUdp, RInv
<1>2. CASE Len(buf) < 20 \/ Codec!wire_version(buf) # 1
  <2>1. phase' = "done" /\ verdict' = "not_utp"
    BY <1>2 DEF Codec!ProcessUdp, Codec!Finish, Codec!HEADER_SIZE
  <2> QED BY <2>1 DEF GInv
<1>3. CASE ~(Len(buf) < 20 \/ Codec!wire_version(buf) # 1)
  <2>1. /\ data_start' = 20 /\ extension' = buf[2] /\ selack' = <<0, 0>>
        /\ IF buf[2] = 0 THEN phase' = "done" /\ verdict' = "ok" ELSE phase' = "parsing"
    BY <1>3 DEF Codec!ProcessUdp, Codec!Finish, Codec!HEADER_SIZE, Codec!NoMask
  <2>2. PICK e : e = [i \in 1 .. 0 |-> 0]
    OBVIOUS
  <2>3. Reads(buf, 0, e, buf[2], 20, <<0, 0>>)
    BY <2>2, NoExtension
  <2>4. Len(buf) >= 20
    BY <1>1, <1>3
  <2>5. Len(buf') >= 20 /\ Reads(buf', 0, e, buf[2], data_start', selack')
    BY <1>1, <2>1, <2>3, <2>4, Zenon
  <2>6. CASE buf[2] = 0
    <3>1. phase' = "done" /\ verdict' = "ok" /\ Reads(buf', 0, e, 0, data_start', selack')
      BY <2>1, <2>5, <2>6
    <3>2. phase' # "parsing"
      BY <3>1
    <3> QED BY <2>5, <3>1, <3>2, Zenon DEF GInv
  <2>7. CASE buf[2] # 0
    <3>1. phase' = "parsing" /\ extension' # 0 /\ Reads(buf', 0, e, extension', data_start', selack')
      BY <2>1, <2>5, <2>7
    <3>2. phase' # "done"
      BY <3>1
    <3> QED BY <2>5, <3>1, <3>2, Zenon DEF GInv
  <2> QED BY <2>6, <2>7
<1> QED BY <1>2, <1>3

LEMMA SkipReads ==
  ASSUME RInv, GInv, Codec!SkipExtension PROVE GInv'
<1>1. buf' = buf /\ buf \in Seq(Nat) /\ Len(buf) >= 20 /\ extension # 0 /\ phase = "parsing"
  BY DEF Codec!SkipExtension, RInv, GInv
<1>2. PICK n, e : Reads(buf, n, e, extension, data_start, selack)
  BY <1>1 DEF GInv
<1>3. PICK b \in Seq(Nat) : b = buf
  BY <1>1
<1>4. /\ Chain(b, n, e) /\ extension = KindIn(b, e, n + 1) /\ data_start = Codec!Start(e, n + 1)
      /\ MaskIn(b, n, e, selack)
  BY <1>2, <1>3 DEF Reads
<1>5. n \in Nat /\ data_start \in Nat /\ Len(b) \in Nat /\ Len(b) >= 20
  <2>1. Len(b) \in Nat /\ Len(b) >= 20
    BY <1>1, <1>3
  <2>2. n \in Nat
    BY <1>4 DEF Chain
  <2>3. data_start \in 20 + 2 * n .. Len(b)
    BY <1>4, <2>1, StartOf
  <2> QED BY <2>1, <2>2, <2>3
<1>6. PICK at \in Nat : at = data_start + 2
  BY <1>5
<1>7. PICK l : l = b[at]
  OBVIOUS
<1>8. Round(at, l)
  BY <1>3, <1>6, <1>7, RoundTaken
<1>9. at - 2 = data_start
  BY <1>5, <1>6
<1>10. CASE at > Len(b) \/ Len(b) - at < l \/ (extension = 2 /\ l # ExtBitsLen)
  <2>1. Refuses(b)
    <3>1. Reads(b, n, e, extension, at - 2, selack)
      BY <1>2, <1>3, <1>9
    <3> QED BY <1>1, <1>3, <1>5, <1>6, <1>7, <1>10, <3>1, RefusedRight
  <2>2. phase' = "done" /\ verdict' = "invalid"
    BY <1>3, <1>8, <1>10, Zenon DEF Round, Codec!Finish, Codec!Truncated, Codec!TooLong
  <2>3. Len(buf') >= 20 /\ Refuses(buf') /\ phase' # "parsing"
    BY <1>1, <1>3, <2>1, <2>2
  <2> QED BY <2>2, <2>3, Zenon DEF GInv
<1>11. CASE ~(at > Len(b) \/ Len(b) - at < l \/ (extension = 2 /\ l # ExtBitsLen))
  <2>1. /\ selack' = (IF extension = 1 THEN <<at, l>> ELSE selack)
        /\ extension' = b[at - 1] /\ data_start' = at + l
        /\ IF b[at - 1] # 0 THEN phase' = phase
           ELSE Codec!Finish(IF at + l > Len(b) THEN "panic" ELSE "ok")
    BY <1>3, <1>8, <1>11, Zenon DEF Round, Codec!Truncated, Codec!TooLong
  <2>2. at <= Len(b) /\ at \in 1 .. Len(b) /\ l \in Nat /\ at + l <= Len(b)
    <3>1. at \in 1 .. Len(b)
      BY <1>5, <1>6, <1>11
    <3>2. l \in Nat
      BY <1>7, <3>1
    <3> QED BY <1>5, <1>11, <3>1, <3>2
  <2>3. PICK d : /\ Chain(b, n + 1, d) /\ KindIn(b, d, n + 2) = b[at - 1]
                 /\ Codec!Start(d, n + 2) = at + l
                 /\ MaskIn(b, n + 1, d, IF KindIn(b, e, n + 1) = 1 THEN <<at, l>> ELSE selack)
    <3>1. at = Codec!Start(e, n + 1) + 2 /\ KindIn(b, e, n + 1) # 0 /\ (KindIn(b, e, n + 1) = 2 => l = ExtBitsLen)
      BY <1>1, <1>4, <1>6, <1>11
    <3>2. Grown(b, n, e, at, l, selack)
      BY <1>3, <1>4, <1>5, <1>7, <2>2, <3>1, ChainGrows
    <3> QED BY <3>2 DEF Grown
  <2>4. Reads(b, n + 1, d, b[at - 1], data_start', selack')
    <3>1. (n + 1) + 1 = n + 2
      BY <1>5
    <3>2. selack' = IF KindIn(b, e, n + 1) = 1 THEN <<at, l>> ELSE selack
      BY <1>4, <2>1
    <3>3. MaskIn(b, n + 1, d, selack')
      BY <2>3, <3>2
    <3>4. KindIn(b, d, (n + 1) + 1) = b[at - 1] /\ Codec!Start(d, (n + 1) + 1) = data_start'
      BY <2>1, <2>3, <3>1
    <3> QED BY <2>3, <3>3, <3>4, Zenon DEF Reads
  <2>5. CASE b[at - 1] = 0
    <3>1. phase' = "done" /\ verdict' = "ok"
      <4>1. ~(at + l > Len(b))
        BY <1>5, <2>2
      <4> QED BY <2>1, <2>5, <4>1 DEF Codec!Finish
    <3>2. phase' # "parsing" /\ Len(buf') >= 20 /\ Reads(buf', n + 1, d, 0, data_start', selack')
      BY <1>1, <1>3, <2>4, <2>5, <3>1
    <3> QED BY <3>1, <3>2, Zenon DEF GInv
  <2>6. CASE b[at - 1] # 0
    <3>1. phase' = "parsing" /\ extension' # 0
      BY <1>1, <2>1, <2>6
    <3>2. phase' # "done" /\ Len(buf') >= 20 /\ Reads(buf', n + 1, d, extension', data_start', selack')
      BY <1>1, <1>3, <2>1, <2>4, <3>1
    <3> QED BY <3>1, <3>2, Zenon DEF GInv
  <2> QED BY <2>5, <2>6
<1> QED BY <1>10, <1>11

\* process_udp and the extension loop of process_incoming: in every behaviour the loop
\* takes exactly the datagrams that follow the grammar, with their last mask and their
\* payload, and reads no byte behind them, however long the tail.
THEOREM AlwaysGrammar == Codec!Spec => []ParsesTheGrammar
<1>1. (Codec!Init => RInv) /\ (RInv /\ [Codec!Next]_(Codec!vars) => RInv')
  BY RInvInductive
<1>2. Codec!Init => GInv
  BY DEF Codec!Init, GInv
<1>3. RInv /\ GInv /\ [Codec!Next]_(Codec!vars) => GInv'
  <2> SUFFICES ASSUME RInv, GInv, [Codec!Next]_(Codec!vars) PROVE GInv'
    OBVIOUS
  <2>1. ASSUME phase' = "built" PROVE GInv'
    BY <2>1 DEF GInv
  <2>2. ASSUME UNCHANGED Codec!vars PROVE GInv'
    <3>1. /\ phase' = phase /\ buf' = buf /\ verdict' = verdict
          /\ data_start' = data_start /\ extension' = extension /\ selack' = selack
      BY <2>2 DEF Codec!vars, Codec!loopVars
    <3> QED BY <3>1 DEF GInv, Reads
  <2>3. ASSUME \/ Codec!SendAck \/ Codec!SendRst \/ Codec!SendSyn \/ Codec!SendData
               \/ Codec!Resend \/ Codec!ForeignDatagram
        PROVE  phase' = "built"
    <3>1. ASSUME NEW b, NEW f, NEW mask, NEW payload, Codec!Build(b, f, mask, payload)
          PROVE  phase' = "built"
      BY <3>1 DEF Codec!Build
    <3>2. ASSUME Codec!Resend PROVE phase' = "built"
      BY <3>2 DEF Codec!Resend
    <3>3. ASSUME Codec!ForeignDatagram PROVE phase' = "built"
      BY <3>3 DEF Codec!ForeignDatagram
    <3> QED BY <2>3, <3>1, <3>2, <3>3, Zenon
            DEF Codec!SendAck, Codec!SendRst, Codec!SendSyn, Codec!SendData
  <2> QED BY <2>1, <2>2, <2>3, UdpReads, SkipReads DEF Codec!Next
<1>4. RInv /\ GInv => ParsesTheGrammar
  BY GrammarRead
<1> QED BY <1>1, <1>2, <1>3, <1>4, PTL DEF Codec!Spec
=============================================================================

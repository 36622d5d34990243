------------------------- MODULE UtpTransferProofs -------------------------
(***************************************************************************)
(* Proofs about a transfer end to end, for every modulus, buffer size,      *)
(* window, number of bytes and behaviour of the network.                    *)
(*                                                                          *)
(* The lemmas of the two halves are used through their instances S and R;   *)
(* what is added here is what each half knows of the other: which numbers   *)
(* the dialer has used, and that an ack under way covers only what the      *)
(* acceptor keeps.                                                          *)
(***************************************************************************)
EXTENDS UtpTransfer, ArithLemmas, FiniteSetTheorems, TLAPS

-----------------------------------------------------------------------------
(* The instances meet the assumptions of the two halves. *)

\* Of the send half, with packets of one byte and the windows the acceptor announces.
LEMMA SendAssumed == S!SeqModAssumption /\ S!PowerAssumption /\ S!SendAssumption
<1>1. IsFiniteSet({1})
  BY FS_Singleton
<1>2. S!IsFiniteSet({1})
  BY <1>1 DEF S!IsFiniteSet, IsFiniteSet
<1>3. opt_rcvbuf \in Nat
  BY TransferAssumption
<1>4. {1} \subseteq Nat \ {0} /\ {1} # {} /\ 0 .. opt_rcvbuf \subseteq Nat
  BY <1>3
<1>5. S!PowersOfTwo = PowersOfTwo /\ S!SeqNr = SeqNr
  BY DEF S!PowersOfTwo, PowersOfTwo, S!SeqNr, SeqNr
<1>6. S!SeqModAssumption
  BY SeqModAssumption DEF S!SeqModAssumption
<1>7. S!PowerAssumption
  BY <1>5, PowerAssumption DEF S!PowerAssumption
<1>8. S!SendAssumption
  BY <1>2, <1>4, <1>5, TransferAssumption DEF S!SendAssumption
<1> QED BY <1>6, <1>7, <1>8

\* Of the receive half, with the packets of the dialer, the FIN last.
LEMMA RecvAssumed == R!SeqModAssumption /\ R!PowerAssumption /\ R!RecvAssumption
<1> DEFINE L == [i \in 1 .. Packets |-> IF i \in {1, Packets} THEN 0 ELSE 1]
<1>1. Packets \in Nat /\ 2 * Packets < SeqMod /\ Packets \in 1 .. Packets + 1 /\ Packets >= Packets
  BY TransferAssumption DEF Packets
<1>2. L \in [1 .. Packets -> Nat] /\ L[Packets] = 0
  BY <1>1
<1> HIDE DEF L
<1>3. R!PowersOfTwo = PowersOfTwo /\ R!SeqNr = SeqNr
  BY DEF R!PowersOfTwo, PowersOfTwo, R!SeqNr, SeqNr
<1>4. R!SeqModAssumption
  BY SeqModAssumption DEF R!SeqModAssumption
<1>5. R!PowerAssumption
  BY <1>3, PowerAssumption DEF R!PowerAssumption
<1>6. R!RecvAssumption
  BY <1>1, <1>2, <1>3, TransferAssumption DEF R!RecvAssumption, L
<1> QED BY <1>4, <1>5, <1>6

\* Sequence numbers and packet numbers.
LEMMA Numbers ==
  ASSUME isn \in SeqNr
  PROVE  \A j \in 0 .. Packets + 1 :
           /\ R!Seq_nr(j) \in SeqNr /\ R!Seq_nr(j) = wrapping_add(isn, j)
           /\ wrapping_sub(R!Seq_nr(j), isn) = j
           /\ S!wrapping_add(R!Seq_nr(j), 1) = R!Seq_nr(j + 1)
           /\ j >= 1 => S!wrapping_sub(R!Seq_nr(j), 1) = R!Seq_nr(j - 1)
<1> SUFFICES ASSUME NEW j \in 0 .. Packets + 1
             PROVE  /\ R!Seq_nr(j) \in SeqNr /\ R!Seq_nr(j) = wrapping_add(isn, j)
                    /\ wrapping_sub(R!Seq_nr(j), isn) = j
                    /\ S!wrapping_add(R!Seq_nr(j), 1) = R!Seq_nr(j + 1)
                    /\ j >= 1 => S!wrapping_sub(R!Seq_nr(j), 1) = R!Seq_nr(j - 1)
  OBVIOUS
<1>1. /\ isn \in Nat /\ isn < SeqMod /\ SeqMod \in Nat /\ j \in Nat /\ j + 1 < SeqMod
  <2>1. MaxBytes \in Nat \ {0} /\ 2 * (MaxBytes + 2) < SeqMod /\ SeqMod \in Nat
    BY TransferAssumption, SeqModAssumption
  <2> QED BY <2>1 DEF Packets, SeqNr
<1> QED BY <1>1 DEF R!Seq_nr, R!wrapping_add, S!wrapping_add, S!wrapping_sub, wrapping_add, wrapping_sub, SeqNr

\* Different packets have different numbers.
LEMMA NumbersDiffer ==
  ASSUME isn \in SeqNr, NEW i \in 0 .. Packets + 1, NEW j \in 0 .. Packets + 1, R!Seq_nr(i) = R!Seq_nr(j)
  PROVE  i = j
<1>1. wrapping_sub(R!Seq_nr(i), isn) = i /\ wrapping_sub(R!Seq_nr(j), isn) = j
  BY Numbers
<1> QED BY <1>1

\* The bytes up to packet j: packet 1 has none, each other but the FIN has one.
LEMMA Bytes ==
  /\ R!Through[0] = 0
  /\ \A j \in 1 .. MaxBytes + 1 : R!Through[j] = j - 1
  /\ R!Through[Packets] = MaxBytes
<1> DEFINE Lens == [i \in 1 .. Packets |-> IF i \in {1, Packets} THEN 0 ELSE 1]
           Bad == {j \in 1 .. MaxBytes + 1 : R!Through[j] # j - 1}
<1>0. MaxBytes \in Nat \ {0} /\ Packets = MaxBytes + 2
  BY TransferAssumption DEF Packets
<1>1. /\ R!Through[0] = 0
      /\ \A i \in 1 .. Packets : R!Through[i] = R!Through[i - 1] + Lens[i]
  BY RecvAssumed, R!ThroughSteps
<1>2. Lens[1] = 0 /\ Lens[Packets] = 0 /\ \A j \in 2 .. MaxBytes + 1 : Lens[j] = 1
  BY <1>0
<1> HIDE DEF Lens
<1>3. Bad = {}
  <2> SUFFICES ASSUME Bad # {} PROVE FALSE
    OBVIOUS
  <2>1. Bad \subseteq Nat
    OBVIOUS
  <2> DEFINE m == Min(Bad)
  <2>2. m \in Bad /\ \A y \in Bad : m <= y
    BY <2>1, NatMin
  <2> HIDE DEF m
  <2>3. m \in 1 .. MaxBytes + 1 /\ R!Through[m] # m - 1 /\ m - 1 \notin Bad
    BY <2>1, <2>2
  <2>4. CASE m = 1
    BY <1>0, <1>1, <1>2, <2>3, <2>4
  <2>5. CASE m # 1
    <3>1. m - 1 \in 1 .. MaxBytes + 1 /\ m \in 2 .. MaxBytes + 1 /\ m \in 1 .. Packets
      BY <1>0, <2>3, <2>5
    <3>2. R!Through[m - 1] = m - 2
      BY <2>3, <3>1
    <3>3. R!Through[m] = m - 2 + 1
      BY <1>1, <1>2, <3>1, <3>2
    <3> QED BY <2>3, <3>1, <3>3
  <2> QED BY <2>4, <2>5
<1>4. R!Through[MaxBytes + 1] = MaxBytes
  <2>1. MaxBytes + 1 \in 1 .. MaxBytes + 1 /\ MaxBytes + 1 \notin Bad
    BY <1>0, <1>3
  <2> QED BY <1>0, <2>1
<1>5. R!Through[Packets] = R!Through[Packets - 1] + 0 /\ Packets - 1 = MaxBytes + 1
  BY <1>0, <1>1, <1>2
<1> QED BY <1>0, <1>1, <1>3, <1>4, <1>5

-----------------------------------------------------------------------------
(* The inductive invariant. *)

\* The dialer has numbered n packets after its SYN, the empty write first; only
\* those are in its window or under way.  One byte fills a packet, so none waits
\* to be filled up.
Dialed(n) ==
  /\ win.seq_nr = R!Seq_nr(n + 1)
  /\ S!Present(win) \subseteq {R!Seq_nr(j) : j \in 0 .. n}
  /\ net \subseteq 1 .. n
  /\ \/ n = 0 /\ state \notin S!Established /\ win.written = 0 /\ ~fin_sent
     \/ n = 1 + win.written + (IF fin_sent THEN 1 ELSE 0) /\ state # "SynSent"
  /\ fin_sent => closed /\ win.written = MaxBytes
  /\ ~fin_sent => S!Filled(win)
  /\ state = "SynSent" => win.cur_window_packets = 1

\* What has left the window was covered by an ack of the acceptor.
Dropped(n) == \A j \in 1 .. n : R!Seq_nr(j) \notin S!Present(win) => j \in acked

\* So are the packets an ack under way covers.
AckOK(a) == R!AckType(a) /\ a.wnd \in 0 .. opt_rcvbuf /\ R!Covered(a) \subseteq acked

\* Until the first packet the acceptor has nothing to say but its SYN-ACK.
Heard(n) ==
  /\ \A a \in acks : a = Rst \/ (AckOK(a) /\ (n = 0 => a.ack_nr = isn))
  /\ n = 0 => rstate \in {"SynRecv", "Removed"} /\ read_buf = <<>>

FinAcked == fin_sent_acked => fin_sent /\ 1 .. Packets \subseteq acked

TInv ==
  /\ S!IInv
  /\ FinAcked
  /\ \E n \in 0 .. Packets : Dialed(n) /\ Dropped(n) /\ Heard(n) /\ R!Upto(n)

\* The types the invariant gives.
LEMMA TypesOf ==
  ASSUME S!IInv, NEW n \in 0 .. Packets, R!Upto(n)
  PROVE  /\ isn \in SeqNr /\ n \in Nat /\ Packets \in Nat /\ Packets = MaxBytes + 2 /\ MaxBytes \in Nat \ {0}
         /\ win.written \in Nat /\ win.written <= MaxBytes
         /\ fin_sent \in BOOLEAN /\ closed \in BOOLEAN /\ fin_sent_acked \in BOOLEAN
         /\ packet_size = 1 /\ S!Present(win) \subseteq SeqNr /\ max_window \in Nat
         /\ S!WindowOK(win)
<1>1. isn \in SeqNr
  BY DEF R!Upto, R!HoldsType, R!SeqNr, SeqNr
<1>2. MaxBytes \in Nat \ {0} /\ Packets = MaxBytes + 2
  BY TransferAssumption DEF Packets
<1>3. S!TypeOK /\ S!WindowOK(win)
  BY DEF S!IInv
<1>4. /\ fin_sent \in BOOLEAN /\ closed \in BOOLEAN /\ fin_sent_acked \in BOOLEAN
      /\ packet_size \in {1} /\ max_window \in Nat /\ S!WindowType(win)
  BY <1>3 DEF S!TypeOK
<1>5. win.written \in 0 .. MaxBytes /\ S!Present(win) \subseteq SeqNr
  BY <1>4 DEF S!WindowType, S!Present, S!SeqNr, SeqNr
<1> QED BY <1>1, <1>2, <1>3, <1>4, <1>5

\* A step of the dialer: what it kept, and what it told the network.
LEMMA DialerStep ==
  ASSUME TInv, S!IInv', NEW n \in 0 .. Packets, Dropped(n), Heard(n), R!Upto(n), net \subseteq 1 .. n,
         UNCHANGED <<rVars, acks>>,
         net' \subseteq net \cup ({wrapping_sub(p.seq, isn) : p \in win'.tx} \ {0}),
         NEW m \in n .. Packets, NEW L, NEW U, NEW b,
         S!Steady(win', L, U, R!Seq_nr(m + 1), b),
         U \subseteq {R!Seq_nr(j) : j \in 0 .. m},
         \A j \in 1 .. m : R!Seq_nr(j) \notin L => j \in acked,
         \/ m = 0 /\ state' \notin S!Established /\ b = 0 /\ ~fin_sent'
         \/ m = 1 + b + (IF fin_sent' THEN 1 ELSE 0) /\ state' # "SynSent",
         fin_sent' => closed' /\ b = MaxBytes,
         ~fin_sent' => S!Filled(win'),
         state' = "SynSent" => win'.cur_window_packets = 1,
         fin_sent_acked' => fin_sent' /\ 1 .. Packets \subseteq acked
  PROVE  TInv'
<1>1. isn \in SeqNr /\ n \in Nat /\ Packets \in Nat /\ m \in Nat /\ m \in 0 .. Packets
  BY TypesOf DEF TInv
<1>2. isn' = isn /\ acked' = acked /\ acks' = acks /\ rstate' = rstate /\ read_buf' = read_buf
  BY DEF rVars
<1>3. /\ L \subseteq S!Present(win') /\ S!Present(win') \subseteq U /\ \A p \in win'.tx : p.seq \in U
      /\ win'.seq_nr = R!Seq_nr(m + 1) /\ win'.written = b
  BY DEF S!Steady
<1>4. \A j : R!Seq_nr(j)' = R!Seq_nr(j)
  BY <1>2 DEF R!Seq_nr
<1>5. net' \subseteq 1 .. m
  <2> SUFFICES ASSUME NEW p \in win'.tx, wrapping_sub(p.seq, isn) # 0
               PROVE  wrapping_sub(p.seq, isn) \in 1 .. m
    BY <1>1
  <2>1. PICK j \in 0 .. m : p.seq = R!Seq_nr(j)
    BY <1>3
  <2>2. wrapping_sub(p.seq, isn) = j
    BY <1>1, <2>1, Numbers
  <2> QED BY <2>2
<1>6. Dialed(m)'
  BY <1>3, <1>4, <1>5 DEF Dialed
<1>7. Dropped(m)'
  BY <1>2, <1>3, <1>4 DEF Dropped
<1>8. Heard(m)'
  <2>1. \A a : AckOK(a) => AckOK(a)'
    BY <1>2, <1>4 DEF AckOK, R!AckType, R!Covered
  <2>2. m = 0 => n = 0
    BY <1>1
  <2> QED BY <1>2, <2>1, <2>2 DEF Heard
<1>9. R!Upto(m)'
  <2>1. R!Upto(m)
    BY <1>1, RecvAssumed, R!UptoMore
  <2>2. UNCHANGED R!vars
    BY DEF rVars, R!vars, R!bufVars, R!finVars, R!readVars
  <2> QED BY <2>1, <2>2, RecvAssumed, R!UptoSame
<1>10. FinAcked'
  BY <1>2 DEF FinAcked
<1> QED BY <1>1, <1>6, <1>7, <1>8, <1>9, <1>10 DEF TInv

-----------------------------------------------------------------------------
(* The dialer. *)

\* The step of the pipe a step of the transfer is.
PipeStep == [P!Next]_(<<win.written, closed, taken \o read_buf, got_eof>>)

\* What the dialer takes an ack to say is what the acceptor meant.
LEMMA ToldCovered ==
  ASSUME NEW a, NEW j \in 1 .. Packets, R!Seq_nr(j) \in S!Told(a.ack_nr, a.mask)
  PROVE  j \in R!Covered(a)
<1>1. \/ S!wrapping_sub(a.ack_nr, R!Seq_nr(j)) < SeqMod \div 2
      \/ \E b \in a.mask : R!Seq_nr(j) = S!wrapping_add(a.ack_nr, b + 2)
  BY DEF S!Told
<1>2. \A x, y : S!wrapping_sub(x, y) = R!wrapping_sub(x, y) /\ S!wrapping_add(x, y) = R!wrapping_add(x, y)
  BY DEF S!wrapping_sub, R!wrapping_sub, S!wrapping_add, R!wrapping_add
<1> QED BY <1>1, <1>2 DEF R!Covered

\* A write takes the next number: with one byte to a packet there is none to fill up.
LEMMA WriteStep ==
  ASSUME TInv, Write
  PROVE  TInv' /\ PipeStep
<1>1. PICK n \in 0 .. Packets : Dialed(n) /\ Dropped(n) /\ Heard(n) /\ R!Upto(n)
  BY DEF TInv
<1>2. S!IInv /\ FinAcked
  BY DEF TInv
<1>3. S!Write(1) /\ DialerSends /\ UNCHANGED <<rVars, acks>>
  BY DEF Write
<1>4. S!IInv'
  BY <1>2, <1>3, SendAssumed, S!WriteOK
<1>5. /\ isn \in SeqNr /\ n \in Nat /\ Packets \in Nat /\ Packets = MaxBytes + 2 /\ MaxBytes \in Nat \ {0}
      /\ win.written \in Nat /\ win.written <= MaxBytes /\ packet_size = 1 /\ fin_sent \in BOOLEAN
      /\ S!WindowOK(win)
  BY <1>1, <1>2, TypesOf
<1>6. PICK B, s, w : B = S!Present(win) /\ s = win.seq_nr /\ w = win.written
  OBVIOUS
<1>7. /\ \/ S!Steady(win', B, B, s, w)
         \/ /\ \E q \in B : ~win.outbuf[q].sent /\ win.outbuf[q].payload < packet_size
            /\ S!Steady(win', B, B, s, w + 1)
         \/ S!Steady(win', B \cup {s}, B \cup {s}, S!wrapping_add(s, 1), w + 1)
      /\ S!Filled(win) => S!Filled(win')
      /\ ~closed /\ ~fin_sent /\ state = "Connected" /\ state' \in S!Established
      /\ UNCHANGED <<fin_sent, fin_sent_acked, close_requested, closed>>
      /\ w + 1 <= MaxBytes
  <2>1. 1 \in Nat \ {0}
    OBVIOUS
  <2> QED BY <1>2, <1>3, <1>6, <2>1, SendAssumed, S!WriteSteps
<1>8. S!Filled(win) /\ n = 1 + w + 0 /\ s = R!Seq_nr(n + 1) /\ B \subseteq {R!Seq_nr(j) : j \in 0 .. n}
      /\ \A j \in 1 .. n : R!Seq_nr(j) \notin B => j \in acked
  BY <1>1, <1>6, <1>7 DEF Dialed, Dropped, S!Established
<1>9. ~ \E q \in B : ~win.outbuf[q].sent /\ win.outbuf[q].payload < packet_size
  <2> SUFFICES ASSUME NEW q \in B, ~win.outbuf[q].sent, win.outbuf[q].payload < packet_size PROVE FALSE
    OBVIOUS
  <2>1. win.outbuf[q].payload \in 0 .. MaxBytes
    BY <1>5, <1>6 DEF S!WindowOK, S!WindowType, S!PacketType, S!Present
  <2>2. win.outbuf[q].payload > 0
    BY <1>6, <1>8 DEF S!Filled
  <2> QED BY <1>5, <2>1, <2>2
<1>10. /\ net \subseteq 1 .. n
       /\ net' \subseteq net \cup ({wrapping_sub(p.seq, isn) : p \in win'.tx} \ {0})
  BY <1>1, <1>3 DEF Dialed, DialerSends
<1>11. state' # "SynSent" /\ ~fin_sent' /\ S!Filled(win') /\ (fin_sent_acked' => FALSE)
  BY <1>2, <1>7, <1>8 DEF S!Established, FinAcked
<1>12. UNCHANGED <<closed, taken \o read_buf, got_eof>>
  BY <1>3, <1>7 DEF rVars
<1>13. CASE S!Steady(win', B, B, s, w)
  <2>1. n \in n .. Packets /\ n = 1 + w + (IF fin_sent' THEN 1 ELSE 0)
    BY <1>5, <1>8, <1>11
  <2>2. TInv'
    BY <1>1, <1>3, <1>4, <1>8, <1>10, <1>11, <1>13, <2>1, DialerStep
  <2>3. win'.written = win.written
    BY <1>6, <1>13 DEF S!Steady
  <2> QED BY <1>12, <2>2, <2>3 DEF PipeStep
<1>14. CASE S!Steady(win', B \cup {s}, B \cup {s}, S!wrapping_add(s, 1), w + 1)
  <2>1. n + 1 \in n .. Packets /\ n + 1 = 1 + (w + 1) + (IF fin_sent' THEN 1 ELSE 0) /\ n + 1 \in 0 .. Packets + 1
    BY <1>5, <1>6, <1>7, <1>8, <1>11
  <2>2. S!wrapping_add(s, 1) = R!Seq_nr(n + 1 + 1)
    BY <1>5, <1>8, <2>1, Numbers
  <2>3. B \cup {s} \subseteq {R!Seq_nr(j) : j \in 0 .. n + 1}
    BY <1>5, <1>8
  <2>4. \A j \in 1 .. n + 1 : R!Seq_nr(j) \notin B \cup {s} => j \in acked
    BY <1>5, <1>8
  <2>5. S!Steady(win', B \cup {s}, B \cup {s}, R!Seq_nr((n + 1) + 1), w + 1)
    BY <1>14, <2>2
  <2>6. PICK m, C : m = n + 1 /\ C = B \cup {s}
    OBVIOUS
  <2>7. TInv'
    BY <1>1, <1>3, <1>4, <1>10, <1>11, <2>1, <2>3, <2>4, <2>5, <2>6, DialerStep
  <2>8. win'.written = win.written + 1
    BY <1>6, <1>14 DEF S!Steady
  <2>9. P!Write
    BY <1>5, <1>7, <1>12, <2>8 DEF P!Write
  <2> QED BY <2>7, <2>9 DEF PipeStep, P!Next
<1> QED BY <1>7, <1>9, <1>13, <1>14

\* The FIN takes the last number.
LEMMA CloseStep ==
  ASSUME TInv, Close
  PROVE  TInv' /\ PipeStep
<1>1. PICK n \in 0 .. Packets : Dialed(n) /\ Dropped(n) /\ Heard(n) /\ R!Upto(n)
  BY DEF TInv
<1>2. S!IInv /\ FinAcked
  BY DEF TInv
<1>3. win.written = MaxBytes /\ S!Close /\ DialerSends /\ UNCHANGED <<rVars, acks>>
  BY DEF Close
<1>4. S!IInv'
  BY <1>2, <1>3, SendAssumed, S!CloseOK
<1>5. /\ isn \in SeqNr /\ n \in Nat /\ Packets \in Nat /\ Packets = MaxBytes + 2 /\ MaxBytes \in Nat \ {0}
      /\ fin_sent \in BOOLEAN /\ closed \in BOOLEAN
  BY <1>1, <1>2, TypesOf
<1>6. PICK B, s, w : B = S!Present(win) /\ s = win.seq_nr /\ w = win.written
  OBVIOUS
<1>7. /\ \/ /\ S!Steady(win', B, B, s, w) /\ fin_sent' = fin_sent
            /\ state \in S!Established => fin_sent
         \/ /\ S!Steady(win', B \cup {s}, B \cup {s}, S!wrapping_add(s, 1), w)
            /\ state \in S!Established /\ ~fin_sent /\ fin_sent' = TRUE
      /\ fin_sent' = fin_sent => (S!Filled(win) => S!Filled(win'))
      /\ closed' = TRUE /\ state' # "SynSent" /\ (state' \in S!Established => state \in S!Established)
      /\ fin_sent_acked' = fin_sent_acked
  BY <1>2, <1>3, <1>6, SendAssumed, S!CloseSteps
<1>8. ~closed /\ ~fin_sent /\ w = MaxBytes
  BY <1>1, <1>3, <1>6 DEF S!Close, Dialed
<1>9. /\ S!Filled(win) /\ n = 1 + w + 0 /\ s = R!Seq_nr(n + 1) /\ B \subseteq {R!Seq_nr(j) : j \in 0 .. n}
      /\ \A j \in 1 .. n : R!Seq_nr(j) \notin B => j \in acked
  BY <1>1, <1>5, <1>6, <1>8 DEF Dialed, Dropped
<1>10. /\ net \subseteq 1 .. n
       /\ net' \subseteq net \cup ({wrapping_sub(p.seq, isn) : p \in win'.tx} \ {0})
  BY <1>1, <1>3 DEF Dialed, DialerSends
<1>11. fin_sent_acked' => FALSE
  BY <1>2, <1>7, <1>8 DEF FinAcked
<1>12. UNCHANGED <<taken \o read_buf, got_eof>>
  BY <1>3 DEF rVars
<1>13. TInv'
  <2>1. CASE S!Steady(win', B, B, s, w) /\ fin_sent' = fin_sent
    <3>1. n \in n .. Packets /\ n = 1 + w + (IF fin_sent' THEN 1 ELSE 0)
      BY <1>5, <1>8, <1>9, <2>1
    <3> QED BY <1>1, <1>3, <1>4, <1>7, <1>8, <1>9, <1>10, <1>11, <2>1, <3>1, DialerStep
  <2>2. CASE S!Steady(win', B \cup {s}, B \cup {s}, S!wrapping_add(s, 1), w) /\ fin_sent' = TRUE
    <3>1. n + 1 \in n .. Packets /\ n + 1 = 1 + w + (IF fin_sent' THEN 1 ELSE 0) /\ n + 1 \in 0 .. Packets + 1
      BY <1>5, <1>8, <1>9, <2>2
    <3>2. S!wrapping_add(s, 1) = R!Seq_nr(n + 1 + 1)
      BY <1>5, <1>9, <3>1, Numbers
    <3>3. B \cup {s} \subseteq {R!Seq_nr(j) : j \in 0 .. n + 1}
      BY <1>5, <1>9
    <3>4. \A j \in 1 .. n + 1 : R!Seq_nr(j) \notin B \cup {s} => j \in acked
      BY <1>5, <1>9
    <3>5. S!Steady(win', B \cup {s}, B \cup {s}, R!Seq_nr((n + 1) + 1), w)
      BY <2>2, <3>2
    <3>6. PICK m, C : m = n + 1 /\ C = B \cup {s}
      OBVIOUS
    <3> QED BY <1>1, <1>3, <1>4, <1>7, <1>8, <1>10, <1>11, <2>2, <3>1, <3>3, <3>4, <3>5, <3>6, DialerStep
  <2> QED BY <1>7, <2>1, <2>2
<1>14. PipeStep
  <2>1. win'.written = win.written
    BY <1>6, <1>7 DEF S!Steady
  <2>2. P!Close
    BY <1>7, <1>12, <2>1 DEF P!Close
  <2> QED BY <2>2 DEF PipeStep, P!Next
<1> QED BY <1>13, <1>14

\* A timeout drops nothing and sends only packets of the window.
LEMMA TimeoutsStep ==
  ASSUME TInv, Timeouts
  PROVE  TInv' /\ PipeStep
<1>1. PICK n \in 0 .. Packets : Dialed(n) /\ Dropped(n) /\ Heard(n) /\ R!Upto(n)
  BY DEF TInv
<1>2. S!IInv /\ FinAcked
  BY DEF TInv
<1>3. PICK rto, zw \in BOOLEAN : S!CheckTimeouts(rto, zw, FALSE, 1)
  BY DEF Timeouts
<1>4. DialerSends /\ UNCHANGED <<rVars, acks>>
  BY DEF Timeouts
<1>5. S!IInv'
  <2>1. 1 \in {1}
    OBVIOUS
  <2> QED BY <1>2, <1>3, <2>1, SendAssumed, S!CheckTimeoutsOK
<1>6. n \in Nat /\ Packets \in Nat
  BY <1>1, <1>2, TypesOf
<1>7. PICK B, w : B = S!Present(win) /\ w = win.written
  OBVIOUS
<1>8. /\ S!Steady(win', B, B, win.seq_nr, w)
      /\ S!Filled(win) => S!Filled(win')
      /\ win'.cur_window_packets = win.cur_window_packets
      /\ (state' \in S!Established => state \in S!Established) /\ (state' = "SynSent" => state = "SynSent")
      /\ UNCHANGED <<fin_sent, fin_sent_acked, closed>>
  BY <1>2, <1>3, <1>7, SendAssumed, S!TimeoutSteps
<1>9. /\ n \in n .. Packets /\ S!Steady(win', B, B, R!Seq_nr(n + 1), w)
      /\ net \subseteq 1 .. n /\ B \subseteq {R!Seq_nr(j) : j \in 0 .. n}
      /\ \A j \in 1 .. n : R!Seq_nr(j) \notin B => j \in acked
      /\ \/ n = 0 /\ state' \notin S!Established /\ w = 0 /\ ~fin_sent'
         \/ n = 1 + w + (IF fin_sent' THEN 1 ELSE 0) /\ state' # "SynSent"
      /\ fin_sent' => closed' /\ w = MaxBytes
      /\ ~fin_sent' => S!Filled(win')
      /\ state' = "SynSent" => win'.cur_window_packets = 1
      /\ fin_sent_acked' => fin_sent' /\ 1 .. Packets \subseteq acked
  BY <1>1, <1>2, <1>6, <1>7, <1>8 DEF Dialed, Dropped, FinAcked
<1>10. net' \subseteq net \cup ({wrapping_sub(p.seq, isn) : p \in win'.tx} \ {0})
  BY <1>4 DEF DialerSends
<1>11. TInv'
  BY <1>1, <1>4, <1>5, <1>9, <1>10, DialerStep
<1>12. UNCHANGED <<win.written, closed, taken \o read_buf, got_eof>>
  BY <1>4, <1>7, <1>8 DEF S!Steady, rVars
<1> QED BY <1>11, <1>12 DEF PipeStep

\* An RST ends the dialer with its window as it is.
LEMMA HearRstStep ==
  ASSUME TInv, HearRst
  PROVE  TInv' /\ PipeStep
<1>1. PICK n \in 0 .. Packets : Dialed(n) /\ Dropped(n) /\ Heard(n) /\ R!Upto(n)
  BY DEF TInv
<1>2. S!IInv /\ FinAcked
  BY DEF TInv
<1>3. S!ProcessReset /\ net' = net /\ UNCHANGED <<rVars, acks>>
  BY DEF HearRst
<1>4. S!IInv'
  BY <1>2, <1>3, SendAssumed, S!ProcessResetOK
<1>5. n \in Nat /\ Packets \in Nat /\ S!WindowOK(win)
  BY <1>1, <1>2, TypesOf
<1>6. /\ win' = S!Fresh(win) /\ state' \in {"Destroy", "Reset"}
      /\ UNCHANGED <<fin_sent, fin_sent_acked, closed>>
  BY <1>3 DEF S!ProcessReset, S!finVars
<1>7. PICK B, w : B = S!Present(win) /\ w = win.written
  OBVIOUS
<1>8. S!Steady(win', B, B, win.seq_nr, w)
  <2>1. S!WindowType(win)
    BY <1>5 DEF S!WindowOK
  <2>2. S!Shape(win)
    BY <2>1, SendAssumed, S!ShapeOfType
  <2> QED BY <1>6, <1>7, <2>2, SendAssumed, S!FreshSteady
<1>9. win'.outbuf = win.outbuf
  <2>1. DOMAIN win = S!WindowFields
    BY <1>5 DEF S!WindowOK, S!WindowType
  <2> QED BY <1>6, <2>1 DEF S!Fresh, S!WindowFields
<1>10. S!Filled(win) => S!Filled(win')
  BY <1>9 DEF S!Filled, S!Present
<1>11. /\ n \in n .. Packets /\ S!Steady(win', B, B, R!Seq_nr(n + 1), w)
       /\ net \subseteq 1 .. n /\ B \subseteq {R!Seq_nr(j) : j \in 0 .. n}
       /\ \A j \in 1 .. n : R!Seq_nr(j) \notin B => j \in acked
       /\ \/ n = 0 /\ state' \notin S!Established /\ w = 0 /\ ~fin_sent'
          \/ n = 1 + w + (IF fin_sent' THEN 1 ELSE 0) /\ state' # "SynSent"
       /\ fin_sent' => closed' /\ w = MaxBytes
       /\ ~fin_sent' => S!Filled(win')
       /\ state' = "SynSent" => win'.cur_window_packets = 1
       /\ fin_sent_acked' => fin_sent' /\ 1 .. Packets \subseteq acked
  BY <1>1, <1>2, <1>5, <1>6, <1>7, <1>8, <1>10 DEF Dialed, Dropped, FinAcked, S!Established
<1>12. net' \subseteq net \cup ({wrapping_sub(p.seq, isn) : p \in win'.tx} \ {0})
  BY <1>3
<1>13. TInv'
  BY <1>1, <1>3, <1>4, <1>11, <1>12, DialerStep
<1>14. UNCHANGED <<win.written, closed, taken \o read_buf, got_eof>>
  BY <1>3, <1>6, <1>7, <1>8 DEF S!Steady, rVars
<1> QED BY <1>13, <1>14 DEF PipeStep

\* The ack that completes the handshake sends the empty write; any other takes
\* packets away, and those it takes it has told.
LEMMA HearAckStep ==
  ASSUME TInv, NEW a \in acks, HearAck(a)
  PROVE  TInv' /\ PipeStep
<1>1. PICK n \in 0 .. Packets : Dialed(n) /\ Dropped(n) /\ Heard(n) /\ R!Upto(n)
  BY DEF TInv
<1>2. S!IInv /\ FinAcked
  BY DEF TInv
<1>3. PICK cw \in Cwnds \cup {max_window}, decay \in BOOLEAN :
        S!ProcessIncoming("STATE", a.ack_nr, a.mask, a.wnd, cw, 1, decay, FALSE)
  BY DEF HearAck
<1>4. a # Rst /\ DialerSends /\ UNCHANGED <<rVars, acks>>
  BY DEF HearAck
<1>5. /\ isn \in SeqNr /\ n \in Nat /\ Packets \in Nat /\ Packets = MaxBytes + 2 /\ MaxBytes \in Nat \ {0}
      /\ win.written \in Nat /\ win.written <= MaxBytes /\ fin_sent \in BOOLEAN
      /\ S!WindowOK(win) /\ max_window \in Nat
  BY <1>1, <1>2, TypesOf
<1>6. AckOK(a) /\ (n = 0 => a.ack_nr = isn)
  BY <1>1, <1>4 DEF Heard
<1>7. PICK ack, mask, wnd : ack = a.ack_nr /\ mask = a.mask /\ wnd = a.wnd
  OBVIOUS
<1>8. /\ ack \in S!SeqNr /\ mask \in SUBSET (0 .. EackBits - 1) /\ wnd \in 0 .. opt_rcvbuf /\ wnd \in Nat
      /\ cw \in Nat /\ 1 \in {1} /\ 1 \in Nat /\ "STATE" \in {"STATE", "DATA", "FIN"}
      /\ S!ProcessIncoming("STATE", ack, mask, wnd, cw, 1, decay, FALSE)
  <2>1. R!AckType(a) /\ a.wnd \in 0 .. opt_rcvbuf
    BY <1>6 DEF AckOK
  <2>2. ack \in S!SeqNr /\ mask \in SUBSET (0 .. EackBits - 1)
    BY <1>7, <2>1 DEF R!AckType, R!SeqNr, S!SeqNr
  <2>3. wnd \in 0 .. opt_rcvbuf /\ opt_rcvbuf \in Nat
    BY <1>7, <2>1, TransferAssumption
  <2>4. cw \in Nat
    BY <1>5, TransferAssumption
  <2>5. S!ProcessIncoming("STATE", ack, mask, wnd, cw, 1, decay, FALSE)
    BY <1>3, <1>7
  <2>6. wnd \in Nat /\ 1 \in {1} /\ 1 \in Nat /\ "STATE" \in {"STATE", "DATA", "FIN"}
    BY <2>3
  <2> QED BY <2>2, <2>3, <2>4, <2>5, <2>6
<1>9. S!IInv'
  BY <1>2, <1>8, SendAssumed, S!ProcessIncomingOK
<1>10. /\ net \subseteq 1 .. n
       /\ net' \subseteq net \cup ({wrapping_sub(p.seq, isn) : p \in win'.tx} \ {0})
  BY <1>1, <1>4 DEF Dialed, DialerSends
<1>11. PICK B, s, w : B = S!Present(win) /\ s = win.seq_nr /\ w = win.written
  OBVIOUS
<1>12. /\ s = R!Seq_nr(n + 1) /\ B \subseteq {R!Seq_nr(j) : j \in 0 .. n}
       /\ \A j \in 1 .. n : R!Seq_nr(j) \notin B => j \in acked
  BY <1>1, <1>11 DEF Dialed, Dropped
<1>13. \A j \in 1 .. Packets : R!Seq_nr(j) \in S!Told(ack, mask) => j \in acked
  BY <1>6, <1>7, ToldCovered DEF AckOK
<1>14. UNCHANGED <<taken \o read_buf, got_eof>>
  BY <1>4 DEF rVars
<1>15. CASE state = "SynSent"
  <2>1. n = 0 /\ win.written = 0 /\ ~fin_sent /\ S!Filled(win) /\ win.cur_window_packets = 1
    BY <1>1, <1>15 DEF Dialed
  <2>2. ack = S!Last(win)
    <3>1. s = R!Seq_nr(1) /\ S!wrapping_sub(R!Seq_nr(1), 1) = R!Seq_nr(0) /\ R!Seq_nr(0) = wrapping_add(isn, 0)
      <4>1. 0 \in 0 .. Packets + 1 /\ 1 \in 0 .. Packets + 1 /\ 1 >= 1
        BY <1>5
      <4> QED BY <1>5, <1>12, <2>1, <4>1, Numbers
    <3>2. wrapping_add(isn, 0) = isn
      BY <1>5, SeqModAssumption DEF wrapping_add, SeqNr
    <3> QED BY <1>6, <1>7, <1>11, <2>1, <3>1, <3>2 DEF S!Last
  <2>3. S!ProcessIncoming("STATE", S!Last(win), mask, wnd, cw, 1, decay, FALSE)
    BY <1>8, <2>2
  <2>4. /\ S!Steady(win', (B \cup {s}) \ S!Told(S!Last(win), mask), B \cup {s}, S!wrapping_add(s, 1), 0)
        /\ S!Filled(win')
        /\ state' \in S!Established
        /\ UNCHANGED <<fin_sent, fin_sent_acked, closed>>
    BY <1>2, <1>8, <1>11, <1>15, <2>1, <2>3, SendAssumed, S!ConnectSteps
  <2>5. PICK L, U : L = (B \cup {s}) \ S!Told(ack, mask) /\ U = B \cup {s}
    OBVIOUS
  <2>6. S!Steady(win', L, U, R!Seq_nr(1 + 1), 0)
    <3>1. S!wrapping_add(s, 1) = R!Seq_nr(1 + 1)
      BY <1>5, <1>12, <2>1, Numbers
    <3> QED BY <2>2, <2>4, <2>5, <3>1
  <2>7. /\ 1 \in n .. Packets
        /\ U \subseteq {R!Seq_nr(j) : j \in 0 .. 1}
        /\ \A j \in 1 .. 1 : R!Seq_nr(j) \notin L => j \in acked
    <3>1. 1 \in n .. Packets /\ 1 \in 1 .. Packets
      BY <1>5, <2>1
    <3>2. R!Seq_nr(1) \notin L => 1 \in acked
      BY <1>12, <1>13, <2>1, <2>5, <3>1
    <3> QED BY <1>12, <2>1, <2>5, <3>1, <3>2
  <2>8. /\ 1 = 1 + 0 + (IF fin_sent' THEN 1 ELSE 0) /\ state' # "SynSent"
        /\ fin_sent' => closed' /\ 0 = MaxBytes
        /\ ~fin_sent' => S!Filled(win')
        /\ state' = "SynSent" => win'.cur_window_packets = 1
        /\ fin_sent_acked' => fin_sent' /\ 1 .. Packets \subseteq acked
    BY <1>2, <2>1, <2>4 DEF S!Established, FinAcked
  <2>9. TInv'
    BY <1>1, <1>4, <1>9, <1>10, <2>6, <2>7, <2>8, DialerStep
  <2>10. UNCHANGED <<win.written, closed, taken \o read_buf, got_eof>>
    BY <1>14, <2>1, <2>4 DEF S!Steady
  <2> QED BY <2>9, <2>10 DEF PipeStep
<1>16. CASE state # "SynSent"
  <2>1. /\ S!Steady(win', B \ S!Told(ack, mask), B, s, w)
        /\ S!Filled(win) => S!Filled(win')
        /\ (state' \in S!Established => state \in S!Established) /\ state' # "SynSent"
        /\ UNCHANGED <<fin_sent, closed>>
        /\ fin_sent_acked' =>
             \/ fin_sent_acked
             \/ fin_sent /\ win.cur_window_packets = S!Acks(win, ack)
    BY <1>2, <1>8, <1>11, <1>16, SendAssumed, S!AckSteps
  <2>2. PICK L : L = B \ S!Told(ack, mask)
    OBVIOUS
  <2>3. \A j \in 1 .. n : R!Seq_nr(j) \notin L => j \in acked
    BY <1>5, <1>12, <1>13, <2>2
  <2>4. fin_sent_acked' => fin_sent' /\ 1 .. Packets \subseteq acked
    <3>1. ASSUME fin_sent, win.cur_window_packets = S!Acks(win, ack)
          PROVE  1 .. Packets \subseteq acked
      <4>1. B \subseteq S!Told(ack, mask)
        BY <1>5, <1>8, <1>11, <3>1, SendAssumed, S!AllTold
      <4>2. n = Packets
        BY <1>1, <1>5, <3>1 DEF Dialed
      <4> QED BY <1>12, <1>13, <4>1, <4>2
    <3> QED BY <1>2, <2>1, <3>1 DEF FinAcked
  <2>5. /\ n \in n .. Packets /\ S!Steady(win', L, B, R!Seq_nr(n + 1), w)
        /\ \/ n = 0 /\ state' \notin S!Established /\ w = 0 /\ ~fin_sent'
           \/ n = 1 + w + (IF fin_sent' THEN 1 ELSE 0) /\ state' # "SynSent"
        /\ fin_sent' => closed' /\ w = MaxBytes
        /\ ~fin_sent' => S!Filled(win')
        /\ state' = "SynSent" => win'.cur_window_packets = 1
    BY <1>1, <1>5, <1>11, <1>12, <2>1, <2>2 DEF Dialed
  <2>6. TInv'
    BY <1>1, <1>4, <1>9, <1>10, <1>12, <2>3, <2>4, <2>5, DialerStep
  <2>7. UNCHANGED <<win.written, closed, taken \o read_buf, got_eof>>
    BY <1>11, <1>14, <2>1 DEF S!Steady
  <2> QED BY <2>6, <2>7 DEF PipeStep
<1> QED BY <1>15, <1>16

-----------------------------------------------------------------------------
(* The acceptor. *)

\* The bytes the acceptor can have put together are bytes that were written,
\* and the end comes after all of them.
LEMMA BytesWritten ==
  ASSUME S!IInv, NEW n \in 0 .. Packets, Dialed(n), R!Upto(n), NEW p \in 0 .. Packets, p <= n
  PROVE  /\ R!Through[p] \in Nat /\ R!Through[p] <= win.written
         /\ p = Packets => closed /\ R!Through[p] = win.written
<1>1. /\ n \in Nat /\ Packets = MaxBytes + 2 /\ MaxBytes \in Nat \ {0}
      /\ win.written \in Nat /\ win.written <= MaxBytes /\ fin_sent \in BOOLEAN
  BY TypesOf
<1>2. /\ n = 0 \/ n = 1 + win.written + (IF fin_sent THEN 1 ELSE 0)
      /\ fin_sent => closed /\ win.written = MaxBytes
  BY DEF Dialed
<1>3. CASE p = 0
  BY <1>1, <1>3, Bytes
<1>4. CASE p \in 1 .. MaxBytes + 1
  <2>1. R!Through[p] = p - 1
    BY <1>4, Bytes
  <2> QED BY <1>1, <1>2, <1>4, <2>1
<1>5. CASE p = Packets
  <2>1. fin_sent
    BY <1>1, <1>2, <1>5
  <2> QED BY <1>1, <1>2, <1>5, <2>1, Bytes
<1> QED BY <1>1, <1>3, <1>4, <1>5

\* A step of the acceptor: the acks it adds cover only what it keeps.
LEMMA AcceptorStep ==
  ASSUME TInv, NEW n \in 0 .. Packets, Dialed(n), Dropped(n), Heard(n), R!Upto(n),
         \/ \E i \in 1 .. n : R!Arrive(i)
         \/ \E k \in 1 .. MaxBytes : R!Recv(k)
         \/ R!KeepAlive
         \/ R!Die("Removed"),
         AcceptorSends, UNCHANGED <<sVars, net>>
  PROVE  TInv' /\ PipeStep
<1>1. S!IInv /\ FinAcked
  BY DEF TInv
<1>2. /\ isn \in SeqNr /\ n \in Nat /\ Packets \in Nat
  BY <1>1, TypesOf
<1>3. R!Upto(n)' /\ R!Answers /\ R!Delivers /\ isn' = isn
  BY RecvAssumed, R!UptoStep
<1>4. /\ acked \subseteq acked' /\ last_rcv_win' \in 0 .. opt_rcvbuf
      /\ \A t \in tx' : R!AckType(t) /\ R!Covered(t) \subseteq acked'
  BY <1>3 DEF R!Answers
<1>5. /\ win' = win /\ state' = state /\ fin_sent' = fin_sent /\ fin_sent_acked' = fin_sent_acked
      /\ closed' = closed /\ net' = net
  BY DEF sVars
<1>6. S!IInv'
  <2>1. UNCHANGED S!vars
    BY DEF sVars, S!vars, S!limitVars, S!fastVars, S!finVars
  <2> QED BY <1>1, <2>1, SendAssumed, S!NextOK
<1>7. \A j : R!Seq_nr(j)' = R!Seq_nr(j)
  BY <1>3 DEF R!Seq_nr
<1>8. Dialed(n)' /\ Dropped(n)' /\ FinAcked'
  BY <1>1, <1>4, <1>5, <1>7 DEF Dialed, Dropped, FinAcked
<1>9. ASSUME n = 0 PROVE rstate' = "Removed" /\ read_buf' = <<>> /\ tx' = {}
  <2>1. rstate \in {"SynRecv", "Removed"} /\ read_buf = <<>>
    BY <1>9 DEF Heard
  <2>2. R!Die("Removed")
    BY <1>9, <2>1 DEF R!Recv, R!KeepAlive
  <2> QED BY <2>1, <2>2 DEF R!Die, R!Sends, R!PutsOut, R!readVars
<1>10. Heard(n)'
  <2>1. ASSUME NEW a \in acks, a # Rst PROVE AckOK(a)' /\ (n = 0 => a.ack_nr = isn')
    <3>1. AckOK(a) /\ (n = 0 => a.ack_nr = isn)
      BY <2>1 DEF Heard
    <3> QED BY <1>3, <1>4, <1>7, <3>1 DEF AckOK, R!AckType, R!Covered
  <2>2. ASSUME NEW a \in Announced PROVE AckOK(a)' /\ n # 0
    <3>1. PICK t \in tx' : a = [ack_nr |-> t.ack_nr, mask |-> t.mask, wnd |-> last_rcv_win']
      BY <2>2 DEF Announced
    <3>2. a.ack_nr = t.ack_nr /\ a.mask = t.mask /\ a.wnd = last_rcv_win'
      BY <3>1
    <3>3. R!AckType(a) /\ R!Covered(a) = R!Covered(t)
      BY <1>4, <3>2 DEF R!AckType, R!Covered
    <3>4. R!Covered(a)' = R!Covered(a) /\ R!AckType(a)' = R!AckType(a)
      BY <1>7 DEF R!Covered, R!AckType
    <3> QED BY <1>4, <1>9, <3>2, <3>3, <3>4 DEF AckOK
  <2>3. acks' \subseteq acks \cup Announced
    BY DEF AcceptorSends
  <2>4. Rst' = Rst
    BY DEF Rst
  <2> QED BY <1>9, <2>1, <2>2, <2>3, <2>4 DEF Heard
<1>11. TInv'
  BY <1>3, <1>6, <1>8, <1>10 DEF TInv
<1>12. PipeStep
  <2>1. CASE taken' \o read_buf' = taken \o read_buf /\ got_eof' = got_eof
    BY <1>5, <2>1 DEF PipeStep
  <2>2. CASE /\ got_eof = FALSE
             /\ \E m \in Nat : m >= Len(taken \o read_buf) /\ taken' \o read_buf' = R!Ival(0, m)
    <3>1. PICK m \in Nat : m >= Len(taken \o read_buf) /\ taken' \o read_buf' = R!Ival(0, m)
      BY <2>2
    <3>2. PICK p, K : R!Running(p, K)' /\ R!Standing(p)' /\ p <= n
      BY <1>3 DEF R!Upto
    <3>3. read_shutdown' = FALSE /\ taken \o read_buf \in Seq(Nat)
      BY <1>3 DEF R!Upto
    <3>4. /\ taken' \o read_buf' = R!Ival(0, R!Through[p]) /\ (got_eof' => p = Packets)
          /\ p \in 0 .. Packets
      BY <3>2, <3>3 DEF R!Standing, R!Running
    <3>5. /\ R!Through[p] \in Nat /\ R!Through[p] <= win.written
          /\ p = Packets => closed /\ R!Through[p] = win.written
      BY <1>1, <3>2, <3>4, BytesWritten
    <3>6. Len(R!Ival(0, m)) = m /\ Len(R!Ival(0, R!Through[p])) = R!Through[p]
      <4>1. \A k \in Nat : Len(R!Ival(0, k)) = k
        <5> SUFFICES ASSUME NEW k \in Nat PROVE Len(R!Ival(0, k)) = k
          OBVIOUS
        <5>1. 0 \in Nat /\ 0 <= k /\ k - 0 = k
          OBVIOUS
        <5> QED BY <5>1, RecvAssumed, R!IvalSeq
      <4> QED BY <3>5, <4>1
    <3>7. m = R!Through[p]
      BY <3>1, <3>4, <3>6
    <3>8. /\ m \in Len(taken \o read_buf) .. win.written
          /\ taken' \o read_buf' = [i \in 1 .. m |-> i]
      <4>1. Len(taken \o read_buf) \in Nat /\ win.written \in Nat
        BY <1>1, <3>3, TypesOf
      <4>2. R!Ival(0, m) = [i \in 1 .. m |-> i]
        BY DEF R!Ival
      <4> QED BY <3>1, <3>5, <3>7, <4>1, <4>2
    <3>9. got_eof' => closed /\ Len(taken' \o read_buf') = win.written
      BY <3>1, <3>4, <3>5, <3>6, <3>7
    <3>10. P!Deliver
      BY <1>5, <2>2, <3>8, <3>9 DEF P!Deliver
    <3> QED BY <3>10 DEF PipeStep, P!Next
  <2> QED BY <1>3, <2>1, <2>2 DEF R!Delivers
<1> QED BY <1>11, <1>12

\* The answer of an acceptor that is gone.
LEMMA RstSentStep ==
  ASSUME TInv, acks' = acks \cup {Rst}, UNCHANGED <<rVars, sVars, net>>
  PROVE  TInv' /\ PipeStep
<1>1. PICK n \in 0 .. Packets : Dialed(n) /\ Dropped(n) /\ Heard(n) /\ R!Upto(n)
  BY DEF TInv
<1>2. S!IInv /\ FinAcked
  BY DEF TInv
<1>3. /\ win' = win /\ state' = state /\ fin_sent' = fin_sent /\ fin_sent_acked' = fin_sent_acked
      /\ closed' = closed /\ net' = net /\ isn' = isn /\ acked' = acked /\ rstate' = rstate
      /\ read_buf' = read_buf /\ taken' = taken /\ got_eof' = got_eof
  BY DEF sVars, rVars
<1>4. S!IInv'
  <2>1. UNCHANGED S!vars
    BY DEF sVars, S!vars, S!limitVars, S!fastVars, S!finVars
  <2> QED BY <1>2, <2>1, SendAssumed, S!NextOK
<1>5. \A j : R!Seq_nr(j)' = R!Seq_nr(j)
  BY <1>3 DEF R!Seq_nr
<1>6. Dialed(n)' /\ Dropped(n)' /\ FinAcked'
  BY <1>1, <1>2, <1>3, <1>5 DEF Dialed, Dropped, FinAcked
<1>7. Heard(n)'
  <2>1. \A a : AckOK(a) => AckOK(a)'
    BY <1>3, <1>5 DEF AckOK, R!AckType, R!Covered
  <2>2. Rst' = Rst
    BY DEF Rst
  <2> QED BY <1>1, <1>3, <2>1, <2>2 DEF Heard
<1>8. R!Upto(n)'
  <2>1. UNCHANGED R!vars
    BY DEF rVars, R!vars, R!bufVars, R!finVars, R!readVars
  <2> QED BY <1>1, <2>1, RecvAssumed, R!UptoSame
<1>9. TInv'
  BY <1>4, <1>6, <1>7, <1>8 DEF TInv
<1> QED BY <1>3, <1>9 DEF PipeStep

-----------------------------------------------------------------------------
(* The transfer. *)

\* The dialer starts with its SYN in the window, the acceptor with nothing.
LEMMA TransferInit == Init => TInv
<1> SUFFICES ASSUME Init PROVE TInv
  OBVIOUS
<1>1. /\ S!InitDialer /\ R!Init /\ rstate = "SynRecv" /\ isn = S!Last(win) /\ net = {}
      /\ acks = {[ack_nr |-> isn, mask |-> {}, wnd |-> opt_rcvbuf]}
  BY DEF Init
<1>2. S!IInv
  BY <1>1, SendAssumed, S!InitOK DEF S!Init
<1>3. R!Upto(0)
  BY <1>1, RecvAssumed, R!UptoInit
<1>4. 0 \in 0 .. Packets
  BY TransferAssumption DEF Packets
<1>5. isn \in SeqNr /\ MaxBytes \in Nat \ {0} /\ Packets = MaxBytes + 2
  BY <1>2, <1>3, <1>4, TypesOf
<1>6. PICK seq \in InitSeqs : win = S!send_packets(S!NewPacket(S!EmptyWindow(seq), 0, "SYN"), {seq})
  BY <1>1 DEF S!InitDialer
<1>7. /\ state = "SynSent" /\ ~fin_sent /\ ~fin_sent_acked
  BY <1>1 DEF S!InitDialer, S!CommonInit
<1> DEFINE v == S!NewPacket(S!EmptyWindow(seq), 0, "SYN")
<1>8. /\ seq \in SeqNr /\ v.seq_nr = S!wrapping_add(seq, 1) /\ v.cur_window_packets = 1 /\ v.written = 0
      /\ S!Present(v) = {seq}
  <2>1. seq \in SeqNr
    BY TransferAssumption
  <2> QED BY <2>1 DEF S!NewPacket, S!EmptyWindow, S!Present
<1>9. /\ win.seq_nr = v.seq_nr /\ win.cur_window_packets = v.cur_window_packets /\ win.written = v.written
      /\ S!Present(win) = {seq} /\ win.outbuf[seq].sent
  <2>1. DOMAIN v = {"seq_nr", "cur_window_packets", "cur_window", "outbuf", "ring", "written", "tx"}
    BY DEF S!NewPacket, S!EmptyWindow
  <2>2. v.outbuf[seq] = [kind |-> "SYN", first |-> 0, payload |-> 0, sent |-> FALSE, need_resend |-> FALSE]
    BY DEF S!NewPacket, S!EmptyWindow
  <2> HIDE DEF v
  <2>3. /\ win.seq_nr = v.seq_nr /\ win.cur_window_packets = v.cur_window_packets /\ win.written = v.written
        /\ win.outbuf = [q \in S!Present(v) |->
                           IF q \in {seq} THEN [v.outbuf[q] EXCEPT !.sent = TRUE, !.need_resend = FALSE]
                                          ELSE v.outbuf[q]]
    BY <1>6, <2>1 DEF S!send_packets, v
  <2>4. win.outbuf[seq] = [v.outbuf[seq] EXCEPT !.sent = TRUE, !.need_resend = FALSE]
    BY <1>8, <2>3
  <2> QED BY <1>8, <2>2, <2>3, <2>4 DEF S!Present
<1> HIDE DEF v
<1>10. isn = seq
  <2>1. S!wrapping_sub(S!wrapping_add(seq, 1), 1) = seq
    BY <1>8, SeqModAssumption DEF S!wrapping_sub, S!wrapping_add, SeqNr
  <2> QED BY <1>1, <1>8, <1>9, <2>1 DEF S!Last
<1>11. R!Seq_nr(0) = isn /\ R!Seq_nr(0 + 1) = S!wrapping_add(isn, 1)
  BY <1>5, SeqModAssumption DEF R!Seq_nr, R!wrapping_add, S!wrapping_add, SeqNr
<1>12. Dialed(0)
  <2>1. S!Present(win) \subseteq {R!Seq_nr(j) : j \in 0 .. 0}
    BY <1>9, <1>10, <1>11
  <2>2. S!Filled(win)
    BY <1>9 DEF S!Filled
  <2> QED BY <1>1, <1>7, <1>8, <1>9, <1>10, <1>11, <2>1, <2>2 DEF Dialed, S!Established
<1>13. Dropped(0)
  BY DEF Dropped
<1>14. Heard(0)
  <2> DEFINE a == [ack_nr |-> isn, mask |-> {}, wnd |-> opt_rcvbuf]
  <2>1. R!AckType(a) /\ a.wnd \in 0 .. opt_rcvbuf /\ a.ack_nr = isn
    BY <1>5, TransferAssumption DEF R!AckType, R!SeqNr, SeqNr
  <2>2. R!Covered(a) = {}
    <3> SUFFICES ASSUME NEW i \in R!Covered(a) PROVE FALSE
      OBVIOUS
    <3>1. i \in 1 .. Packets /\ R!wrapping_sub(isn, R!Seq_nr(i)) < SeqMod \div 2
      BY DEF R!Covered
    <3>2. isn \in Nat /\ isn < SeqMod /\ i \in Nat /\ i >= 1 /\ 2 * i < SeqMod /\ SeqMod \in Nat
      BY <1>5, <3>1, TransferAssumption, SeqModAssumption DEF SeqNr
    <3>3. R!wrapping_sub(isn, R!Seq_nr(i)) = SeqMod - i
      BY <3>2 DEF R!Seq_nr, R!wrapping_add, R!wrapping_sub
    <3>4. 2 * (SeqMod \div 2) <= SeqMod /\ SeqMod \div 2 \in Nat
      BY <3>2
    <3> QED BY <3>1, <3>2, <3>3, <3>4
  <2>3. AckOK(a)
    BY <2>1, <2>2 DEF AckOK
  <2> HIDE DEF a
  <2>4. \A b \in acks : b = a
    BY <1>1 DEF a
  <2>5. read_buf = <<>>
    BY <1>1 DEF R!Init
  <2> QED BY <1>1, <2>1, <2>3, <2>4, <2>5 DEF Heard
<1>15. FinAcked
  BY <1>7 DEF FinAcked
<1> QED BY <1>2, <1>3, <1>4, <1>12, <1>13, <1>14, <1>15 DEF TInv

\* Every step keeps the invariant and is a step of the pipe.
LEMMA TransferNext == TInv /\ [Next]_vars => TInv' /\ PipeStep
<1> SUFFICES ASSUME TInv, [Next]_vars PROVE TInv' /\ PipeStep
  OBVIOUS
<1>1. PICK n \in 0 .. Packets : Dialed(n) /\ Dropped(n) /\ Heard(n) /\ R!Upto(n)
  BY DEF TInv
<1>2. net \subseteq 1 .. n
  BY <1>1 DEF Dialed
<1>3. CASE Write
  BY <1>3, WriteStep
<1>4. CASE Close
  BY <1>4, CloseStep
<1>5. CASE \E a \in acks : HearAck(a)
  BY <1>5, HearAckStep
<1>6. CASE HearRst
  BY <1>6, HearRstStep
<1>7. CASE Timeouts
  BY <1>7, TimeoutsStep
<1>8. ASSUME NEW i \in net, HearPacket(i) PROVE TInv' /\ PipeStep
  <2>1. CASE R!Arrive(i) /\ AcceptorSends
    <3>1. \E k \in 1 .. n : R!Arrive(k)
      BY <1>2, <2>1
    <3>2. UNCHANGED <<sVars, net>>
      BY <1>8 DEF HearPacket
    <3> QED BY <1>1, <2>1, <3>1, <3>2, AcceptorStep
  <2>2. CASE acks' = acks \cup {Rst} /\ UNCHANGED rVars
    <3>1. UNCHANGED <<rVars, sVars, net>>
      BY <1>8, <2>2 DEF HearPacket
    <3> QED BY <2>2, <3>1, RstSentStep
  <2> QED BY <1>8, <2>1, <2>2 DEF HearPacket
<1>9. ASSUME NEW k \in Reads, Recv(k) PROVE TInv' /\ PipeStep
  <2>1. k \in 1 .. MaxBytes
    BY TransferAssumption
  <2>2. R!Recv(k) /\ AcceptorSends /\ UNCHANGED <<sVars, net>>
    BY <1>9 DEF Recv
  <2> QED BY <1>1, <2>1, <2>2, AcceptorStep
<1>10. CASE KeepAlive
  BY <1>1, <1>10, AcceptorStep DEF KeepAlive
<1>11. CASE Vanish
  BY <1>1, <1>11, AcceptorStep DEF Vanish
<1>12. CASE UNCHANGED vars
  <2>1. UNCHANGED <<rVars, acks>> /\ UNCHANGED <<sVars, net>>
    BY <1>12 DEF vars
  <2>2. /\ win' = win /\ state' = state /\ fin_sent' = fin_sent /\ fin_sent_acked' = fin_sent_acked
        /\ closed' = closed /\ net' = net /\ isn' = isn /\ acked' = acked /\ rstate' = rstate
        /\ read_buf' = read_buf /\ taken' = taken /\ got_eof' = got_eof /\ acks' = acks
    BY <2>1 DEF sVars, rVars
  <2>3. S!IInv'
    <3>1. UNCHANGED S!vars
      BY <2>1 DEF sVars, S!vars, S!limitVars, S!fastVars, S!finVars
    <3>2. S!IInv
      BY DEF TInv
    <3> QED BY <3>1, <3>2, SendAssumed, S!NextOK
  <2>4. \A j : R!Seq_nr(j)' = R!Seq_nr(j)
    BY <2>2 DEF R!Seq_nr
  <2>5. FinAcked'
    BY <2>2 DEF TInv, FinAcked
  <2>6. Dialed(n)' /\ Dropped(n)'
    BY <1>1, <2>2, <2>4 DEF Dialed, Dropped
  <2>7. Heard(n)'
    <3>1. \A a : AckOK(a) => AckOK(a)'
      BY <2>2, <2>4 DEF AckOK, R!AckType, R!Covered
    <3> QED BY <1>1, <2>2, <3>1 DEF Heard, Rst
  <2>8. R!Upto(n)'
    <3>1. UNCHANGED R!vars
      BY <2>1 DEF rVars, R!vars, R!bufVars, R!finVars, R!readVars
    <3> QED BY <1>1, <3>1, RecvAssumed, R!UptoSame
  <2>9. TInv'
    BY <2>3, <2>5, <2>6, <2>7, <2>8 DEF TInv
  <2> QED BY <2>2, <2>9 DEF PipeStep
<1> QED BY <1>3, <1>4, <1>5, <1>6, <1>7, <1>8, <1>9, <1>10, <1>11, <1>12 DEF Next

\* What the two halves know of each other holds in every state of a transfer: the
\* numbers the dialer has used, and what the acks under way cover.
THEOREM Invariance == Spec => []TInv
BY TransferInit, TransferNext, PTL DEF Spec

\* Nothing written is lost between the halves: what ack_packet or selective_ack
\* removed from the dialer's outbuf the acceptor has received in order or keeps in
\* its reorder buffer, whatever the network loses, repeats, delays or reorders.
THEOREM DroppedAlwaysThere == Spec => []DroppedIsThere
<1>1. TInv => DroppedIsThere
  <2> SUFFICES ASSUME TInv PROVE DroppedIsThere
    OBVIOUS
  <2>1. PICK n \in 0 .. Packets : Dialed(n) /\ Dropped(n) /\ R!Upto(n)
    BY DEF TInv
  <2>2. isn \in SeqNr /\ n \in Nat /\ Packets \in Nat
    BY <2>1, TypesOf DEF TInv
  <2>3. wrapping_sub(S!Last(win), isn) = n
    <3>1. n + 1 \in 0 .. Packets + 1 /\ n \in 0 .. Packets + 1 /\ n + 1 >= 1 /\ n + 1 - 1 = n
      BY <2>2
    <3>2. S!Last(win) = S!wrapping_sub(R!Seq_nr(n + 1), 1)
      BY <2>1 DEF S!Last, Dialed
    <3> QED BY <2>2, <3>1, <3>2, Numbers
  <2>4. R!AckedIsKept
    <3>1. R!IInv
      BY <2>1, RecvAssumed, R!UptoInvs
    <3> QED BY <3>1, RecvAssumed, R!RunningKeeps
  <2> QED BY <2>1, <2>3, <2>4 DEF DroppedIsThere, Dropped, R!AckedIsKept
<1> QED BY <1>1, Invariance, PTL

\* fin_sent_acked, which process_incoming decides from a count of packets and
\* close trusts when it destroys the socket, means the acceptor has every byte and
\* the FIN.
THEOREM FinAckedAlwaysReceived == Spec => []FinAckedIsReceived
<1>1. TInv => FinAckedIsReceived
  <2> SUFFICES ASSUME TInv, fin_sent_acked PROVE got_fin_reached /\ win.written = Len(taken \o read_buf)
    BY DEF FinAckedIsReceived
  <2>1. PICK n \in 0 .. Packets : Dialed(n) /\ R!Upto(n)
    BY DEF TInv
  <2>2. fin_sent /\ 1 .. Packets \subseteq acked
    BY DEF TInv, FinAcked
  <2>3. win.written = MaxBytes /\ MaxBytes \in Nat
    BY <2>1, <2>2, TransferAssumption DEF Dialed
  <2>4. taken \o read_buf = R!Ival(0, R!Through[Packets]) /\ got_fin_reached
    BY <2>1, <2>2, RecvAssumed, R!AllAcked
  <2>5. R!Through[Packets] = MaxBytes
    BY Bytes
  <2>6. Len(R!Ival(0, MaxBytes)) = MaxBytes
    <3>1. 0 \in Nat /\ 0 <= MaxBytes /\ MaxBytes - 0 = MaxBytes
      BY <2>3
    <3> QED BY <2>3, <3>1, RecvAssumed, R!IvalSeq
  <2> QED BY <2>3, <2>4, <2>5, <2>6
<1> QED BY <1>1, Invariance, PTL

\* The two halves and any such network between them implement the pipe: the
\* reader gets a prefix of what was written, in order and once, and the end only
\* after the writer closed and all of it came through.
THEOREM PipeIsImplemented == Spec => ImplementsPipe
<1>1. Init => P!Init
  <2> SUFFICES ASSUME Init PROVE P!Init
    OBVIOUS
  <2>1. closed = FALSE /\ taken = <<>> /\ read_buf = <<>> /\ got_eof = FALSE
    BY DEF Init, S!InitDialer, S!CommonInit, R!Init
  <2>2. taken \o read_buf = <<>>
    BY <2>1
  <2>3. win.written = 0
    <3>1. TInv /\ state = "SynSent"
      BY TransferInit DEF Init, S!InitDialer
    <3> QED BY <3>1 DEF TInv, Dialed
  <2> QED BY <2>1, <2>2, <2>3 DEF P!Init
<1>2. TInv /\ [Next]_vars => [P!Next]_(<<win.written, closed, taken \o read_buf, got_eof>>)
  BY TransferNext DEF PipeStep
<1> QED BY <1>1, <1>2, Invariance, PTL DEF Spec, ImplementsPipe, P!Spec
=============================================================================

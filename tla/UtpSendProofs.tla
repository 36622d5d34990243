---------------------------- MODULE UtpSendProofs ----------------------------
(***************************************************************************)
(* Proofs about the send half, for every modulus, buffer size, packet size  *)
(* and peer: what its window keeps; what a handler may do to the packets    *)
(* already in it; and why the ring never has two of them in one slot.       *)
(***************************************************************************)
EXTENDS UtpSend, ArithLemmas, FiniteSetTheorems, TLAPS

-----------------------------------------------------------------------------
(* Counting payload bytes. *)

ByteSet(ob, S) == UNION {{q} \X (1 .. ob[q].payload) : q \in S}
Counted(ob, S) == S \subseteq SeqNr /\ \A q \in S : ob[q].payload \in 0 .. MaxBytes

\* A set of packets of the window has finitely many payload bytes.
LEMMA BytesFinite ==
  ASSUME NEW ob, NEW S, Counted(ob, S)
  PROVE  IsFiniteSet(ByteSet(ob, S)) /\ Bytes(ob, S) = Cardinality(ByteSet(ob, S)) /\ Bytes(ob, S) \in Nat
<1>1. IsFiniteSet(SeqNr) /\ IsFiniteSet(1 .. MaxBytes)
  BY FS_Interval, SeqModAssumption, SendAssumption DEF SeqNr
<1>2. IsFiniteSet(SeqNr \X (1 .. MaxBytes))
  BY <1>1, FS_Product
<1>3. ByteSet(ob, S) \subseteq SeqNr \X (1 .. MaxBytes)
  BY SendAssumption DEF ByteSet, Counted
<1>4. IsFiniteSet(ByteSet(ob, S))
  BY <1>2, <1>3, FS_Subset
<1> QED
  BY <1>4, FS_CardinalityType DEF Bytes, ByteSet

\* No packets, no bytes.
LEMMA BytesEmpty == ASSUME NEW ob PROVE Bytes(ob, {}) = 0
  BY FS_EmptySet DEF Bytes

\* The count of bytes looks only at the payloads of the packets counted.
LEMMA BytesSame ==
  ASSUME NEW ob, NEW ob2, NEW S, \A q \in S : ob[q].payload = ob2[q].payload
  PROVE  Bytes(ob, S) = Bytes(ob2, S)
<1>1. {{q} \X (1 .. ob[q].payload) : q \in S} = {{q} \X (1 .. ob2[q].payload) : q \in S}
  OBVIOUS
<1> QED BY <1>1 DEF Bytes

\* Bytes of disjoint sets of packets add up.
LEMMA BytesUnion ==
  ASSUME NEW ob, NEW S, NEW T, Counted(ob, S), Counted(ob, T), S \cap T = {}
  PROVE  Bytes(ob, S \cup T) = Bytes(ob, S) + Bytes(ob, T)
<1>1. ByteSet(ob, S \cup T) = ByteSet(ob, S) \cup ByteSet(ob, T)
  BY DEF ByteSet
<1>2. ByteSet(ob, S) \cap ByteSet(ob, T) = {}
  BY DEF ByteSet
<1>3. Cardinality(ByteSet(ob, S) \cup ByteSet(ob, T))
        = Cardinality(ByteSet(ob, S)) + Cardinality(ByteSet(ob, T))
          - Cardinality(ByteSet(ob, S) \cap ByteSet(ob, T))
  BY BytesFinite, FS_Union
<1>4. Cardinality(ByteSet(ob, S) \cap ByteSet(ob, T)) = 0
  BY <1>2, FS_EmptySet
<1>5. Counted(ob, S \cup T)
  BY DEF Counted
<1>6. /\ Bytes(ob, S \cup T) = Cardinality(ByteSet(ob, S \cup T))
      /\ Bytes(ob, S) = Cardinality(ByteSet(ob, S)) /\ Bytes(ob, S) \in Nat
      /\ Bytes(ob, T) = Cardinality(ByteSet(ob, T)) /\ Bytes(ob, T) \in Nat
  BY <1>5, BytesFinite
<1>7. Bytes(ob, S \cup T) = Cardinality(ByteSet(ob, S) \cup ByteSet(ob, T))
  BY <1>1, <1>6, Zenon
<1> QED
  BY <1>3, <1>4, <1>6, <1>7

\* Taking packets out of a set takes their bytes out of its count.
LEMMA BytesWithout ==
  ASSUME NEW ob, NEW S, NEW T, Counted(ob, S), T \subseteq S
  PROVE  Bytes(ob, S \ T) = Bytes(ob, S) - Bytes(ob, T) /\ Bytes(ob, T) <= Bytes(ob, S)
<1>1. Counted(ob, S \ T) /\ Counted(ob, T)
  BY DEF Counted
<1>2. Bytes(ob, (S \ T) \cup T) = Bytes(ob, S \ T) + Bytes(ob, T)
  BY <1>1, BytesUnion
<1>3. (S \ T) \cup T = S
  OBVIOUS
<1> QED
  BY <1>1, <1>2, <1>3, BytesFinite

-----------------------------------------------------------------------------
(* The window invariant, as a predicate on the record so that it can follow *)
(* the window through the steps of one handler.                             *)

Accounted(w) == w.cur_window = Bytes(w.outbuf, InFlight(w))
InWindow(w)  == \A q \in Present(w) : Dist(w, q) \in 1 .. w.cur_window_packets
Ordered(w)   ==
  /\ \A q, r \in Present(w) : Dist(w, q) > Dist(w, r) =>
       w.outbuf[q].first + w.outbuf[q].payload <= w.outbuf[r].first
  /\ \A q \in Present(w) : w.outbuf[q].first + w.outbuf[q].payload <= w.written
  /\ Last(w) \in Present(w) => w.outbuf[Last(w)].first + w.outbuf[Last(w)].payload = w.written
WindowOK(w) ==
  WindowType(w) /\ Accounted(w) /\ InWindow(w) /\ Ordered(w) /\ w.cur_window_packets <= w.ring
OldestOK(w) == w.cur_window_packets > 0 => Oldest(w) \in Present(w)

\* The packets of a window of the right type can be counted.
LEMMA WindowCounted ==
  ASSUME NEW w, WindowType(w), NEW S, S \subseteq Present(w)
  PROVE  Counted(w.outbuf, S) /\ Bytes(w.outbuf, S) \in Nat
<1>1. Counted(w.outbuf, S)
  BY DEF Counted, WindowType, PacketType, Present
<1> QED BY <1>1, BytesFinite

\* A step that leaves the frame of the window alone.
SameFrame(w, v) ==
  /\ v.seq_nr = w.seq_nr /\ v.cur_window_packets = w.cur_window_packets
  /\ v.written = w.written /\ v.ring = w.ring

\* Sending packets of the window keeps the invariant: those not in flight are
\* added to cur_window, the others are not counted twice.
LEMMA SendPacketsOK ==
  ASSUME NEW w, WindowOK(w), NEW S, S \subseteq Present(w)
  PROVE  /\ WindowOK(send_packets(w, S))
         /\ SameFrame(w, send_packets(w, S))
         /\ Present(send_packets(w, S)) = Present(w)
         /\ send_packets(w, S).cur_window >= w.cur_window
<1> DEFINE v == send_packets(w, S)
           ob == w.outbuf
           new == S \ InFlight(w)
<1>0. WindowType(w) /\ Accounted(w) /\ InWindow(w) /\ Ordered(w) /\ w.cur_window_packets <= w.ring
  BY DEF WindowOK
<1>1. /\ DOMAIN v = WindowFields
      /\ v.seq_nr = w.seq_nr /\ v.cur_window_packets = w.cur_window_packets
      /\ v.written = w.written /\ v.ring = w.ring
      /\ v.cur_window = w.cur_window + Bytes(ob, new)
  BY <1>0 DEF send_packets, WindowType, WindowFields
<1>1a. /\ v.tx = w.tx \cup {Wire(w, q) : q \in S}
       /\ v.outbuf = [q \in Present(w) |->
                      IF q \in S THEN [ob[q] EXCEPT !.sent = TRUE, !.need_resend = FALSE] ELSE ob[q]]
  BY <1>0 DEF send_packets, WindowType, WindowFields
<1> HIDE DEF v
<1>2. Present(v) = Present(w)
  BY <1>1a DEF Present
<1>3. \A q \in Present(w) :
        /\ v.outbuf[q] \in PacketType
        /\ v.outbuf[q].payload = ob[q].payload /\ v.outbuf[q].first = ob[q].first
        /\ v.outbuf[q].sent <=> (q \in S \/ ob[q].sent)
        /\ v.outbuf[q].need_resend <=> (q \notin S /\ ob[q].need_resend)
  <2> TAKE q \in Present(w)
  <2>1. ob[q] \in PacketType
    BY <1>0 DEF WindowType, Present
  <2>2. CASE q \in S
    <3>1. v.outbuf[q] = [ob[q] EXCEPT !.sent = TRUE, !.need_resend = FALSE]
      BY <2>2, <1>1a
    <3> QED BY <2>1, <2>2, <3>1 DEF PacketType
  <2>3. CASE q \notin S
    BY <2>1, <2>3, <1>1a DEF PacketType
  <2> QED BY <2>2, <2>3
<1>4. {Wire(w, q) : q \in S} \subseteq WireType
  BY <1>0 DEF Wire, WireType, WindowType, PacketType, Present
<1>5. Bytes(ob, new) \in Nat
  BY <1>0, WindowCounted
<1>6. WindowType(v)
  <2>1. v.cur_window \in Nat
    BY <1>0, <1>1, <1>5 DEF WindowType
  <2>2. DOMAIN v.outbuf \subseteq SeqNr /\ \A q \in DOMAIN v.outbuf : v.outbuf[q] \in PacketType
    BY <1>0, <1>2, <1>3 DEF WindowType, Present
  <2>3. v.tx \subseteq WireType
    BY <1>0, <1>1a, <1>4 DEF WindowType
  <2> QED BY <1>0, <1>1, <2>1, <2>2, <2>3 DEF WindowType
<1>7. InFlight(v) = InFlight(w) \cup new
  BY <1>2, <1>3 DEF InFlight
<1>8. Accounted(v)
  <2>1. Counted(ob, InFlight(w)) /\ Counted(ob, new)
    BY <1>0, WindowCounted DEF InFlight
  <2>2. Bytes(ob, InFlight(w) \cup new) = Bytes(ob, InFlight(w)) + Bytes(ob, new)
    BY <2>1, BytesUnion
  <2>3. Bytes(v.outbuf, InFlight(v)) = Bytes(ob, InFlight(v))
    BY <1>2, <1>3, BytesSame DEF InFlight
  <2> QED BY <2>2, <2>3, <1>0, <1>1, <1>7 DEF Accounted
<1>9. InWindow(v) /\ Ordered(v)
  BY <1>0, <1>1, <1>2, <1>3 DEF InWindow, Ordered, Dist, Last
<1>10. v.cur_window >= w.cur_window
  BY <1>0, <1>1, <1>5 DEF WindowType
<1>11. WindowOK(v) /\ SameFrame(w, v)
  BY <1>0, <1>1, <1>6, <1>8, <1>9 DEF WindowOK, SameFrame
<1> QED
  BY <1>2, <1>10, <1>11 DEF v

\* Acknowledging packets of the window keeps the invariant: those in flight
\* leave cur_window, those already declared lost had left it.
LEMMA AckPacketsOK ==
  ASSUME NEW w, WindowOK(w), NEW S, S \subseteq Present(w)
  PROVE  /\ WindowOK(ack_packets(w, S))
         /\ SameFrame(w, ack_packets(w, S))
         /\ Present(ack_packets(w, S)) = Present(w) \ S
<1> DEFINE v == ack_packets(w, S)
           ob == w.outbuf
           gone == S \cap InFlight(w)
<1>0. WindowType(w) /\ Accounted(w) /\ InWindow(w) /\ Ordered(w) /\ w.cur_window_packets <= w.ring
  BY DEF WindowOK
<1>1. /\ DOMAIN v = WindowFields
      /\ v.seq_nr = w.seq_nr /\ v.cur_window_packets = w.cur_window_packets
      /\ v.written = w.written /\ v.ring = w.ring /\ v.tx = w.tx
      /\ v.cur_window = w.cur_window - Bytes(ob, gone)
  BY <1>0 DEF ack_packets, WindowType, WindowFields
<1>2. v.outbuf = [q \in Present(w) \ S |-> ob[q]]
  BY <1>0 DEF ack_packets, WindowType, WindowFields
<1> HIDE DEF v
<1>3. Present(v) = Present(w) \ S
  BY <1>2 DEF Present
<1>4. \A q \in Present(v) : v.outbuf[q] = ob[q]
  BY <1>2, <1>3
<1>5. InFlight(v) = InFlight(w) \ gone
  BY <1>3, <1>4 DEF InFlight
<1>6. /\ Bytes(ob, InFlight(w) \ gone) = Bytes(ob, InFlight(w)) - Bytes(ob, gone)
      /\ Bytes(ob, gone) <= Bytes(ob, InFlight(w))
  <2>1. Counted(ob, InFlight(w)) /\ gone \subseteq InFlight(w)
    BY <1>0, WindowCounted DEF InFlight
  <2> QED BY <2>1, BytesWithout
<1>7. Bytes(ob, gone) \in Nat
  BY <1>0, WindowCounted
<1>8. Accounted(v)
  <2>1. Bytes(v.outbuf, InFlight(v)) = Bytes(ob, InFlight(v))
    BY <1>4, BytesSame DEF InFlight
  <2> QED BY <2>1, <1>0, <1>1, <1>5, <1>6 DEF Accounted
<1>9. WindowType(v)
  <2>1. v.cur_window \in Nat
    BY <1>0, <1>1, <1>6, <1>7 DEF WindowType, Accounted
  <2>2. DOMAIN v.outbuf \subseteq SeqNr /\ \A q \in DOMAIN v.outbuf : v.outbuf[q] \in PacketType
    BY <1>0, <1>3, <1>4 DEF WindowType, Present
  <2> QED BY <1>0, <1>1, <2>1, <2>2 DEF WindowType
<1>10. InWindow(v) /\ Ordered(v)
  BY <1>0, <1>1, <1>3, <1>4 DEF InWindow, Ordered, Dist, Last
<1>11. WindowOK(v) /\ SameFrame(w, v)
  BY <1>0, <1>1, <1>8, <1>9, <1>10 DEF WindowOK, SameFrame
<1> QED
  BY <1>3, <1>11 DEF v

\* Declaring packets lost takes exactly their bytes out of cur_window.
LEMMA MarkLostOK ==
  ASSUME NEW w, WindowOK(w)
  PROVE  /\ WindowOK(MarkLost(w))
         /\ SameFrame(w, MarkLost(w))
         /\ Present(MarkLost(w)) = Present(w)
<1> DEFINE v == MarkLost(w)
           ob == w.outbuf
           lost == {q \in InFlight(w) : Dist(w, q) \in 1 .. w.cur_window_packets}
<1>0. WindowType(w) /\ Accounted(w) /\ InWindow(w) /\ Ordered(w) /\ w.cur_window_packets <= w.ring
  BY DEF WindowOK
<1>1. /\ DOMAIN v = WindowFields
      /\ v.seq_nr = w.seq_nr /\ v.cur_window_packets = w.cur_window_packets
      /\ v.written = w.written /\ v.ring = w.ring /\ v.tx = w.tx
      /\ v.cur_window = w.cur_window - Bytes(ob, lost)
  BY <1>0 DEF MarkLost, WindowType, WindowFields
<1>2. v.outbuf = [q \in Present(w) |->
                    IF q \in lost THEN [ob[q] EXCEPT !.need_resend = TRUE] ELSE ob[q]]
  BY <1>0 DEF MarkLost, WindowType, WindowFields
<1> HIDE DEF v
<1>3. Present(v) = Present(w) /\ lost \subseteq InFlight(w)
  BY <1>2 DEF Present
<1> HIDE DEF lost
<1>4. \A q \in Present(w) :
        /\ v.outbuf[q] \in PacketType
        /\ v.outbuf[q].payload = ob[q].payload /\ v.outbuf[q].first = ob[q].first
        /\ v.outbuf[q].sent <=> ob[q].sent
        /\ v.outbuf[q].need_resend <=> (q \in lost \/ ob[q].need_resend)
  <2> TAKE q \in Present(w)
  <2>1. ob[q] \in PacketType
    BY <1>0 DEF WindowType, Present
  <2>2. CASE q \in lost
    <3>1. v.outbuf[q] = [ob[q] EXCEPT !.need_resend = TRUE]
      BY <2>2, <1>2
    <3> QED BY <2>1, <2>2, <3>1 DEF PacketType
  <2>3. CASE q \notin lost
    BY <2>1, <2>3, <1>2 DEF PacketType
  <2> QED BY <2>2, <2>3
<1>5. InFlight(v) = InFlight(w) \ lost
  BY <1>3, <1>4 DEF InFlight
<1>6. /\ Bytes(ob, InFlight(w) \ lost) = Bytes(ob, InFlight(w)) - Bytes(ob, lost)
      /\ Bytes(ob, lost) <= Bytes(ob, InFlight(w))
  <2>1. Counted(ob, InFlight(w))
    BY <1>0, WindowCounted DEF InFlight
  <2> QED BY <1>3, <2>1, BytesWithout
<1>7. Bytes(ob, lost) \in Nat
  BY <1>0, <1>3, WindowCounted DEF InFlight
<1>8. Accounted(v)
  <2>1. Bytes(v.outbuf, InFlight(v)) = Bytes(ob, InFlight(v))
    BY <1>3, <1>4, BytesSame DEF InFlight
  <2> QED BY <2>1, <1>0, <1>1, <1>5, <1>6 DEF Accounted
<1>9. WindowType(v)
  <2>1. v.cur_window \in Nat
    BY <1>0, <1>1, <1>6, <1>7 DEF WindowType, Accounted
  <2>2. DOMAIN v.outbuf \subseteq SeqNr /\ \A q \in DOMAIN v.outbuf : v.outbuf[q] \in PacketType
    BY <1>0, <1>3, <1>4 DEF WindowType, Present
  <2> QED BY <1>0, <1>1, <2>1, <2>2 DEF WindowType
<1>10. InWindow(v) /\ Ordered(v)
  BY <1>0, <1>1, <1>3, <1>4 DEF InWindow, Ordered, Dist, Last
<1>11. WindowOK(v) /\ SameFrame(w, v)
  BY <1>0, <1>1, <1>8, <1>9, <1>10 DEF WindowOK, SameFrame
<1> QED
  BY <1>3, <1>11 DEF v

\* One step forward in the sequence space moves every packet one further back.
LEMMA DistStep ==
  ASSUME NEW s \in SeqNr
  PROVE  /\ wrapping_add(s, 1) \in SeqNr
         /\ wrapping_sub(wrapping_add(s, 1), s) = 1
         /\ wrapping_sub(wrapping_add(s, 1), 1) = s
         /\ \A q \in SeqNr : wrapping_sub(s, q) < SeqMod - 1 =>
              wrapping_sub(wrapping_add(s, 1), q) = wrapping_sub(s, q) + 1
BY SeqModAssumption DEF SeqNr, wrapping_add, wrapping_sub

\* Sequence number and distance determine each other.
LEMMA DistInverse ==
  ASSUME NEW s \in SeqNr, NEW d \in SeqNr
  PROVE  /\ wrapping_sub(s, d) \in SeqNr
         /\ wrapping_sub(s, wrapping_sub(s, d)) = d
         /\ \A q \in SeqNr : wrapping_sub(s, q) = wrapping_sub(s, d) => q = d
BY SeqModAssumption DEF SeqNr, wrapping_sub

\* Filling up the last packet, still unsent, keeps the invariant.
LEMMA FillLastOK ==
  ASSUME NEW w, WindowOK(w), Last(w) \in Present(w), ~w.outbuf[Last(w)].sent,
         NEW added \in Nat, w.written + added <= MaxBytes
  PROVE  /\ WindowOK(FillLast(w, added))
         /\ Present(FillLast(w, added)) = Present(w)
         /\ FillLast(w, added).seq_nr = w.seq_nr
         /\ FillLast(w, added).cur_window_packets = w.cur_window_packets
         /\ FillLast(w, added).ring = w.ring
         /\ FillLast(w, added).cur_window = w.cur_window
         /\ FillLast(w, added).written = w.written + added
<1> DEFINE v == FillLast(w, added)
           ob == w.outbuf
           last == Last(w)
<1>0. WindowType(w) /\ Accounted(w) /\ InWindow(w) /\ Ordered(w) /\ w.cur_window_packets <= w.ring
  BY DEF WindowOK
<1>1. /\ DOMAIN v = WindowFields
      /\ v.seq_nr = w.seq_nr /\ v.cur_window_packets = w.cur_window_packets
      /\ v.ring = w.ring /\ v.tx = w.tx /\ v.cur_window = w.cur_window
      /\ v.written = w.written + added
  BY <1>0 DEF FillLast, WindowType, WindowFields
<1>2. v.outbuf = [q \in Present(w) |->
                    IF q = last THEN [ob[q] EXCEPT !.payload = @ + added] ELSE ob[q]]
  BY <1>0 DEF FillLast, WindowType, WindowFields
<1> HIDE DEF v
<1>3. Present(v) = Present(w)
  BY <1>2 DEF Present
<1>4. \A q \in Present(w) \ {last} : v.outbuf[q] = ob[q]
  BY <1>2
<1>5. /\ v.outbuf[last] \in PacketType
      /\ v.outbuf[last].payload = ob[last].payload + added
      /\ v.outbuf[last].first = ob[last].first
      /\ ~v.outbuf[last].sent
  <2>1. ob[last] \in PacketType /\ ob[last].first + ob[last].payload = w.written
    BY <1>0 DEF WindowType, Present, Ordered
  <2>2. v.outbuf[last] = [ob[last] EXCEPT !.payload = ob[last].payload + added]
    BY <1>2
  <2>3. ob[last].payload + added \in 0 .. MaxBytes
    BY <2>1, SendAssumption DEF PacketType
  <2> QED BY <2>1, <2>2, <2>3 DEF PacketType
<1>6. InFlight(v) = InFlight(w) /\ last \notin InFlight(w)
  BY <1>3, <1>4, <1>5 DEF InFlight
<1>7. Accounted(v)
  <2>1. \A q \in InFlight(w) : v.outbuf[q].payload = ob[q].payload
    BY <1>4, <1>6 DEF InFlight
  <2>2. Bytes(v.outbuf, InFlight(w)) = Bytes(ob, InFlight(w))
    BY <2>1, BytesSame
  <2> QED BY <2>2, <1>0, <1>1, <1>6 DEF Accounted
<1>8. WindowType(v)
  <2>1. DOMAIN v.outbuf \subseteq SeqNr /\ \A q \in DOMAIN v.outbuf : v.outbuf[q] \in PacketType
    BY <1>0, <1>3, <1>4, <1>5 DEF WindowType, Present
  <2>2. v.written \in 0 .. MaxBytes
    BY <1>0, <1>1, SendAssumption DEF WindowType
  <2> QED BY <1>0, <1>1, <2>1, <2>2 DEF WindowType
<1>9. InWindow(v)
  BY <1>0, <1>1, <1>3 DEF InWindow, Dist
<1>10. Ordered(v)
  <2>1. last = wrapping_sub(w.seq_nr, 1) /\ w.seq_nr \in SeqNr /\ Last(v) = last
    BY <1>0, <1>1 DEF Last, WindowType
  <2>2. Dist(w, last) = 1
    BY <2>1, DistInverse, SeqModAssumption DEF Dist, SeqNr
  <2>3. \A q \in Present(w) : Dist(v, q) = Dist(w, q) /\ Dist(w, q) \in 1 .. w.cur_window_packets
    BY <1>0, <1>1 DEF Dist, InWindow
  <2>4. \A q \in Present(w) : ob[q].first \in Nat /\ ob[q].payload \in Nat
    BY <1>0, SendAssumption DEF WindowType, Present, PacketType
  <2>5. ASSUME NEW q \in Present(v), NEW r \in Present(v), Dist(v, q) > Dist(v, r)
        PROVE  v.outbuf[q].first + v.outbuf[q].payload <= v.outbuf[r].first
    <3>1. q # last
      BY <1>3, <2>2, <2>3, <2>5, <1>0 DEF WindowType
    <3>2. ob[q].first + ob[q].payload <= ob[r].first
      BY <1>0, <1>3, <2>3, <2>5 DEF Ordered
    <3> QED BY <3>1, <3>2, <1>3, <1>4, <1>5
  <2>6. ASSUME NEW q \in Present(v)
        PROVE  v.outbuf[q].first + v.outbuf[q].payload <= v.written
    <3>1. ob[q].first + ob[q].payload <= w.written /\ ob[last].first + ob[last].payload = w.written
      BY <1>0, <1>3 DEF Ordered
    <3>2. CASE q = last
      BY <3>1, <3>2, <1>1, <1>5, <2>4, <1>0 DEF WindowType
    <3>3. CASE q # last
      BY <3>1, <3>3, <1>1, <1>3, <1>4, <2>4, <1>0 DEF WindowType
    <3> QED BY <3>2, <3>3
  <2>7. v.outbuf[last].first + v.outbuf[last].payload = v.written
    BY <1>0, <1>1, <1>5, <2>4 DEF Ordered, WindowType
  <2> QED BY <2>1, <2>5, <2>6, <2>7 DEF Ordered
<1>11. WindowOK(v)
  BY <1>0, <1>1, <1>7, <1>8, <1>9, <1>10 DEF WindowOK
<1> QED
  BY <1>1, <1>3, <1>11 DEF v

\* Appending a packet keeps the invariant while there is a slot left.
LEMMA NewPacketOK ==
  ASSUME NEW w, WindowOK(w), w.cur_window_packets < OUTGOING_BUFFER_MAX_SIZE,
         NEW payload \in Nat, w.written + payload <= MaxBytes, NEW kind \in {"SYN", "DATA", "FIN"}
  PROVE  /\ WindowOK(NewPacket(w, payload, kind))
         /\ Present(NewPacket(w, payload, kind)) = Present(w) \cup {w.seq_nr}
         /\ NewPacket(w, payload, kind).seq_nr = wrapping_add(w.seq_nr, 1)
         /\ NewPacket(w, payload, kind).cur_window_packets = w.cur_window_packets + 1
         /\ NewPacket(w, payload, kind).cur_window = w.cur_window
         /\ OldestOK(w) => OldestOK(NewPacket(w, payload, kind))
<1> DEFINE v == NewPacket(w, payload, kind)
           ob == w.outbuf
           seq == w.seq_nr
           pkt == [kind |-> kind, first |-> w.written, payload |-> payload,
                   sent |-> FALSE, need_resend |-> FALSE]
<1>0. WindowType(w) /\ Accounted(w) /\ InWindow(w) /\ Ordered(w) /\ w.cur_window_packets <= w.ring
  BY DEF WindowOK
<1>1. /\ DOMAIN v = WindowFields
      /\ v.seq_nr = wrapping_add(seq, 1) /\ v.cur_window_packets = w.cur_window_packets + 1
      /\ v.ring = GrownRing(w) /\ v.tx = w.tx /\ v.cur_window = w.cur_window
      /\ v.written = w.written + payload
  BY <1>0 DEF NewPacket, WindowType, WindowFields
<1>2. v.outbuf = [q \in Present(w) \cup {seq} |-> IF q = seq THEN pkt ELSE ob[q]]
  BY <1>0 DEF NewPacket, WindowType, WindowFields
<1> HIDE DEF v
<1>3. Present(v) = Present(w) \cup {seq}
  BY <1>2 DEF Present
<1>4. seq \in SeqNr /\ seq \notin Present(w)
  <2>1. seq \in SeqNr
    BY <1>0 DEF WindowType
  <2>2. wrapping_sub(seq, seq) = 0
    BY <2>1 DEF wrapping_sub, SeqNr
  <2> QED BY <2>1, <2>2, <1>0 DEF InWindow, Dist, WindowType
<1>5. v.outbuf[seq] = pkt /\ \A q \in Present(w) : v.outbuf[q] = ob[q]
  BY <1>2, <1>4
<1>6. pkt \in PacketType /\ pkt.payload = payload /\ pkt.first = w.written /\ ~pkt.sent
  BY <1>0, SendAssumption DEF PacketType, WindowType
<1> HIDE DEF pkt
<1>7. InFlight(v) = InFlight(w)
  BY <1>3, <1>4, <1>5, <1>6 DEF InFlight
<1>8. Accounted(v)
  <2>1. Bytes(v.outbuf, InFlight(w)) = Bytes(ob, InFlight(w))
    BY <1>5, BytesSame DEF InFlight
  <2> QED BY <2>1, <1>0, <1>1, <1>7 DEF Accounted
<1>9. v.ring \in Nat \ {0} /\ v.cur_window_packets <= v.ring
  BY <1>0, <1>1 DEF GrownRing, WindowType
<1>10. WindowType(v)
  <2>1. DOMAIN v.outbuf \subseteq SeqNr /\ \A q \in DOMAIN v.outbuf : v.outbuf[q] \in PacketType
    BY <1>0, <1>3, <1>4, <1>5, <1>6 DEF WindowType, Present
  <2>2. v.written \in 0 .. MaxBytes /\ v.cur_window_packets \in 0 .. OUTGOING_BUFFER_MAX_SIZE
    BY <1>0, <1>1, SendAssumption DEF WindowType
  <2>3. v.seq_nr \in SeqNr
    BY <1>1, <1>4, DistStep
  <2> QED BY <1>0, <1>1, <1>9, <2>1, <2>2, <2>3 DEF WindowType
<1>11. /\ \A q \in Present(w) : Dist(v, q) = Dist(w, q) + 1 /\ Dist(w, q) \in 1 .. w.cur_window_packets
       /\ Dist(v, seq) = 1 /\ Last(v) = seq
  <2>1. \A q \in Present(w) : q \in SeqNr /\ Dist(w, q) \in 1 .. w.cur_window_packets /\ Dist(w, q) < SeqMod - 1
    BY <1>0, SendAssumption, SeqModAssumption DEF WindowType, Present, InWindow
  <2> QED BY <2>1, <1>1, <1>4, DistStep DEF Dist, Last
<1>12. InWindow(v)
  BY <1>0, <1>1, <1>3, <1>11 DEF InWindow, WindowType
<1>13. Ordered(v)
  <2>1. ASSUME NEW q \in Present(v), NEW r \in Present(v), Dist(v, q) > Dist(v, r)
        PROVE  v.outbuf[q].first + v.outbuf[q].payload <= v.outbuf[r].first
    <3>1. q # seq
      BY <2>1, <1>3, <1>11, <1>0 DEF WindowType
    <3>2. CASE r = seq
      BY <3>1, <3>2, <1>0, <1>3, <1>5, <1>6 DEF Ordered
    <3>3. CASE r # seq
      BY <3>1, <3>3, <2>1, <1>0, <1>3, <1>5, <1>11 DEF Ordered, WindowType
    <3> QED BY <3>2, <3>3
  <2>2. ASSUME NEW q \in Present(v)
        PROVE  v.outbuf[q].first + v.outbuf[q].payload <= v.written
    <3>1. CASE q = seq
      BY <3>1, <1>0, <1>1, <1>5, <1>6 DEF WindowType
    <3>2. CASE q # seq
      <4>1. ob[q].first + ob[q].payload <= w.written /\ v.outbuf[q] = ob[q] /\ ob[q] \in PacketType
        BY <3>2, <1>0, <1>3, <1>5 DEF Ordered, WindowType, Present
      <4> QED BY <4>1, <1>0, <1>1, SendAssumption DEF WindowType, PacketType
    <3> QED BY <3>1, <3>2
  <2>3. v.outbuf[seq].first + v.outbuf[seq].payload = v.written
    BY <1>0, <1>1, <1>5, <1>6 DEF WindowType
  <2> QED BY <2>1, <2>2, <2>3, <1>11 DEF Ordered
<1>14. OldestOK(w) => OldestOK(v)
  <2>1. wrapping_sub(wrapping_add(seq, 1), w.cur_window_packets + 1) = wrapping_sub(seq, w.cur_window_packets)
    BY <1>0, <1>4, SendAssumption, SeqModAssumption DEF WindowType, SeqNr, wrapping_add, wrapping_sub
  <2>2. w.cur_window_packets = 0 => wrapping_sub(seq, w.cur_window_packets) = seq
    BY <1>4, SeqModAssumption DEF SeqNr, wrapping_sub
  <2> QED BY <2>1, <2>2, <1>0, <1>1, <1>3 DEF OldestOK, Oldest, WindowType
<1>15. WindowOK(v)
  BY <1>8, <1>9, <1>10, <1>12, <1>13 DEF WindowOK
<1> QED
  BY <1>1, <1>3, <1>14, <1>15 DEF v

-----------------------------------------------------------------------------
(* Cumulative acks. *)

\* The window may shrink to any size that still covers its packets.
LEMMA ResizeOK ==
  ASSUME NEW w, WindowOK(w), NEW n \in 0 .. w.cur_window_packets,
         \A q \in Present(w) : Dist(w, q) <= n
  PROVE  LET v == [w EXCEPT !.cur_window_packets = n] IN
         WindowOK(v) /\ Present(v) = Present(w) /\ v.seq_nr = w.seq_nr
         /\ v.cur_window_packets = n /\ v.outbuf = w.outbuf /\ v.written = w.written
<1> DEFINE v == [w EXCEPT !.cur_window_packets = n]
<1>0. WindowType(w) /\ Accounted(w) /\ InWindow(w) /\ Ordered(w) /\ w.cur_window_packets <= w.ring
  BY DEF WindowOK
<1>1. /\ DOMAIN v = WindowFields
      /\ v.seq_nr = w.seq_nr /\ v.cur_window_packets = n /\ v.outbuf = w.outbuf
      /\ v.ring = w.ring /\ v.tx = w.tx /\ v.cur_window = w.cur_window /\ v.written = w.written
  BY <1>0 DEF WindowType, WindowFields
<1> HIDE DEF v
<1>2. Present(v) = Present(w) /\ InFlight(v) = InFlight(w)
  BY <1>1 DEF Present, InFlight
<1>3. Accounted(v) /\ Ordered(v)
  BY <1>0, <1>1, <1>2 DEF Accounted, Ordered, Dist, Last
<1>4. InWindow(v)
  BY <1>0, <1>1, <1>2 DEF InWindow, Dist, WindowType
<1>5. WindowType(v) /\ v.cur_window_packets <= v.ring
  <2>1. n \in 0 .. OUTGOING_BUFFER_MAX_SIZE /\ n <= w.ring
    BY <1>0, SendAssumption DEF WindowType
  <2> QED BY <1>0, <1>1, <2>1 DEF WindowType
<1>6. WindowOK(v)
  BY <1>3, <1>4, <1>5 DEF WindowOK
<1> QED BY <1>1, <1>2, <1>6 DEF v

\* Counting from the oldest packet up is counting the distance down.
LEMMA DistFromOldest ==
  ASSUME NEW s \in SeqNr, NEW q \in SeqNr, NEW c \in SeqNr, wrapping_sub(s, q) \in 1 .. c
  PROVE  wrapping_sub(q, wrapping_sub(s, c)) = c - wrapping_sub(s, q)
BY SeqModAssumption DEF SeqNr, wrapping_sub

\* The ack loop stops within the packets the ack covers.
LEMMA AckedCountType ==
  ASSUME NEW w, NEW acks \in Nat
  PROVE  AckedCount(w, acks) \in 0 .. acks
<1> DEFINE S == {acks} \cup {i \in 0 .. acks - 1 : LET q == wrapping_add(Oldest(w), i) IN
                                                   q \in Present(w) /\ ~w.outbuf[q].sent}
<1>1. S \subseteq 0 .. acks /\ S # {}
  OBVIOUS
<1>2. Min(S) \in S
  BY <1>1, NatMin
<1> QED BY <1>1, <1>2 DEF AckedCount

\* The ack loop keeps the invariant, except that it may leave the oldest packet
\* of the window already acked.
LEMMA AckLoopOK ==
  ASSUME NEW w, WindowOK(w), NEW acks \in 0 .. w.cur_window_packets
  PROVE  /\ WindowOK(AckLoop(w, acks))
         /\ AckLoop(w, acks).seq_nr = w.seq_nr
         /\ AckLoop(w, acks).cur_window_packets = w.cur_window_packets - AckedCount(w, acks)
         /\ AckLoop(w, acks).written = w.written
<1> DEFINE k == AckedCount(w, acks)
           S == AckedSeqs(w, acks)
           u == ack_packets(w, S)
<1>0. WindowType(w) /\ InWindow(w)
  BY DEF WindowOK
<1>1. k \in 0 .. acks /\ acks \in Nat /\ w.cur_window_packets \in Nat
  BY <1>0, AckedCountType DEF WindowType
<1>2. S \subseteq Present(w)
  BY DEF AckedSeqs
<1>3. WindowOK(u) /\ SameFrame(w, u) /\ Present(u) = Present(w) \ S
  BY <1>2, AckPacketsOK
<1>4. \A q \in Present(u) : Dist(u, q) <= w.cur_window_packets - k
  <2> TAKE q \in Present(u)
  <2>1. q \in Present(w) /\ q \in SeqNr /\ ~(wrapping_sub(q, Oldest(w)) < k)
    BY <1>0, <1>3 DEF AckedSeqs, WindowType, Present
  <2>2. Dist(w, q) \in 1 .. w.cur_window_packets
    BY <1>0, <2>1 DEF InWindow
  <2>3. w.cur_window_packets \in SeqNr /\ w.seq_nr \in SeqNr
    BY <1>0, SendAssumption, SeqModAssumption DEF WindowType, SeqNr
  <2>4. wrapping_sub(q, Oldest(w)) = w.cur_window_packets - Dist(w, q)
    BY <2>1, <2>2, <2>3, DistFromOldest DEF Dist, Oldest
  <2>5. Dist(u, q) = Dist(w, q)
    BY <1>3 DEF SameFrame, Dist
  <2> QED BY <1>1, <2>1, <2>2, <2>4, <2>5
<1>5. u.cur_window_packets = w.cur_window_packets /\ u.seq_nr = w.seq_nr /\ u.written = w.written
  BY <1>3 DEF SameFrame
<1>6. AckLoop(w, acks) = [u EXCEPT !.cur_window_packets = w.cur_window_packets - k]
  BY <1>5 DEF AckLoop
<1>7. w.cur_window_packets - k \in 0 .. u.cur_window_packets
  BY <1>1, <1>5
<1> QED BY <1>3, <1>4, <1>5, <1>6, <1>7, ResizeOK

\* Shrinking restores that the oldest packet of the window waits for its ack.
LEMMA ShrinkWindowOK ==
  ASSUME NEW w, WindowOK(w)
  PROVE  /\ WindowOK(ShrinkWindow(w)) /\ OldestOK(ShrinkWindow(w))
         /\ ShrinkWindow(w).seq_nr = w.seq_nr
         /\ ShrinkWindow(w).cur_window_packets <= w.cur_window_packets
<1> DEFINE waiting == {d \in 1 .. w.cur_window_packets : wrapping_sub(w.seq_nr, d) \in Present(w)}
           n == IF waiting = {} THEN 0 ELSE Max(waiting)
<1>0. WindowType(w) /\ InWindow(w) /\ w.seq_nr \in SeqNr /\ w.cur_window_packets \in Nat
  BY DEF WindowOK, WindowType
<1>1. waiting # {} => Max(waiting) \in waiting /\ \A d \in waiting : Max(waiting) >= d
  <2>1. waiting \subseteq 1 .. w.cur_window_packets /\ 1 \in Int /\ w.cur_window_packets \in Int
    BY <1>0
  <2> HIDE DEF waiting
  <2> QED BY <2>1, IntMax
<1>2. \A q \in Present(w) : Dist(w, q) \in waiting
  <2> TAKE q \in Present(w)
  <2>1. q \in SeqNr /\ Dist(w, q) \in 1 .. w.cur_window_packets
    BY <1>0 DEF WindowType, Present, InWindow
  <2>2. wrapping_sub(w.seq_nr, Dist(w, q)) = q
    BY <1>0, <2>1, DistInverse DEF Dist
  <2> QED BY <2>1, <2>2
<1> HIDE DEF waiting
<1>3. \A q \in Present(w) : Dist(w, q) <= n
  BY <1>1, <1>2
<1>4. n \in 0 .. w.cur_window_packets /\ (n > 0 => n \in waiting)
  BY <1>0, <1>1 DEF waiting
<1>5. ShrinkWindow(w) = [w EXCEPT !.cur_window_packets = n]
  BY DEF ShrinkWindow, waiting
<1>6. WindowOK(ShrinkWindow(w)) /\ Present(ShrinkWindow(w)) = Present(w)
      /\ ShrinkWindow(w).seq_nr = w.seq_nr /\ ShrinkWindow(w).cur_window_packets = n
  BY <1>3, <1>4, <1>5, ResizeOK
<1>7. OldestOK(ShrinkWindow(w))
  BY <1>4, <1>6 DEF OldestOK, Oldest, waiting
<1> QED BY <1>0, <1>4, <1>6, <1>7

-----------------------------------------------------------------------------
(* Flushing and writing. *)

\* A step that keeps frame and packets keeps the oldest packet.
LEMMA OldestKept ==
  ASSUME NEW w, NEW v, SameFrame(w, v), Present(v) = Present(w), OldestOK(w)
  PROVE  OldestOK(v)
BY DEF SameFrame, OldestOK, Oldest

\* flush_packets keeps the invariant.
LEMMA FlushOK ==
  ASSUME NEW w, WindowOK(w), NEW limit, NEW ps
  PROVE  /\ WindowOK(flush_packets(w, limit, ps))
         /\ SameFrame(w, flush_packets(w, limit, ps))
         /\ Present(flush_packets(w, limit, ps)) = Present(w)
         /\ flush_packets(w, limit, ps).cur_window >= w.cur_window
<1>1. Flushed(w, limit, ps) \subseteq Present(w)
  BY DEF Flushed, Pending
<1> QED BY <1>1, SendPacketsOK DEF flush_packets

\* Sending the last packet alone keeps the invariant.
LEMMA FlushNagleOK ==
  ASSUME NEW w, WindowOK(w)
  PROVE  /\ WindowOK(FlushNagle(w))
         /\ SameFrame(w, FlushNagle(w))
         /\ Present(FlushNagle(w)) = Present(w)
BY SendPacketsOK DEF FlushNagle, SameFrame

\* Resending the oldest packet of the window keeps it too.
LEMMA ResendOldestOK ==
  ASSUME NEW w, WindowOK(w)
  PROVE  /\ WindowOK(ResendOldest(w))
         /\ SameFrame(w, ResendOldest(w))
         /\ Present(ResendOldest(w)) = Present(w)
BY SendPacketsOK DEF ResendOldest, SameFrame

\* The room in the last packet is at most what is to be written.
LEMMA RoomType ==
  ASSUME NEW w, WindowType(w), NEW payload \in Nat, NEW ps \in Nat
  PROVE  /\ Room(w, payload, ps) \in 0 .. payload
         /\ Room(w, payload, ps) > 0 => extend_last(w, payload, ps)
<1>1. CASE extend_last(w, payload, ps)
  <2> DEFINE p == w.outbuf[Last(w)].payload
             S == {payload, ps - p}
  <2>1. p \in Nat /\ p < ps
    BY <1>1, SendAssumption DEF extend_last, WindowType, PacketType, Present
  <2>2. S \subseteq Nat /\ S # {}
    BY <2>1
  <2>3. Min(S) \in S /\ \A y \in S : Min(S) <= y
    BY <2>2, NatMin
  <2>4. Min(S) \in 0 .. payload
    BY <2>1, <2>3
  <2> QED BY <1>1, <2>4 DEF Room
<1>2. CASE ~extend_last(w, payload, ps)
  BY <1>2 DEF Room
<1> QED BY <1>1, <1>2

\* write_outgoing_packet keeps the invariant and takes at most one slot.
LEMMA WriteOutgoingOK ==
  ASSUME NEW w, WindowOK(w), OldestOK(w), w.cur_window_packets < OUTGOING_BUFFER_MAX_SIZE,
         NEW payload \in Nat, w.written + payload <= MaxBytes, NEW kind \in {"SYN", "DATA", "FIN"},
         NEW limit, NEW ps \in Nat
  PROVE  LET v == write_outgoing_packet(w, payload, kind, limit, ps) IN
         /\ WindowOK(v) /\ OldestOK(v)
         /\ v.cur_window_packets \in w.cur_window_packets .. w.cur_window_packets + 1
         /\ v.cur_window_packets > 0
         /\ v.cur_window >= w.cur_window
         /\ v.seq_nr = IF v.cur_window_packets = w.cur_window_packets THEN w.seq_nr
                       ELSE wrapping_add(w.seq_nr, 1)
<1> DEFINE added  == Room(w, payload, ps)
           filled == IF added > 0 THEN FillLast(w, added) ELSE w
           queued == IF added > 0 /\ payload = added THEN filled
                     ELSE NewPacket(filled, payload - added, kind)
           v == flush_packets(queued, limit, ps)
<1>0. WindowType(w) /\ w.cur_window_packets \in Nat /\ w.cur_window \in Nat /\ w.written \in Nat
  BY DEF WindowOK, WindowType
<1>1. added \in 0 .. payload /\ (added > 0 => extend_last(w, payload, ps))
  BY <1>0, RoomType
<1> HIDE DEF added
<1>2. /\ WindowOK(filled) /\ OldestOK(filled)
      /\ filled.cur_window_packets = w.cur_window_packets /\ filled.seq_nr = w.seq_nr
      /\ filled.cur_window = w.cur_window
      /\ filled.written + (payload - added) <= MaxBytes
  <2>1. CASE added > 0
    <3>1. Last(w) \in Present(w) /\ ~w.outbuf[Last(w)].sent /\ w.written + added <= MaxBytes
      BY <1>0, <1>1, <2>1, SendAssumption DEF extend_last
    <3>2. /\ WindowOK(filled) /\ Present(filled) = Present(w) /\ filled.seq_nr = w.seq_nr
          /\ filled.cur_window_packets = w.cur_window_packets
          /\ filled.cur_window = w.cur_window /\ filled.written = w.written + added
      BY <1>1, <2>1, <3>1, FillLastOK
    <3>3. OldestOK(filled)
      BY <3>2 DEF OldestOK, Oldest
    <3>4. filled.written + (payload - added) <= MaxBytes
      BY <1>0, <1>1, <3>2, SendAssumption
    <3> HIDE DEF filled
    <3> QED BY <3>2, <3>3, <3>4
  <2>2. CASE ~(added > 0)
    BY <1>0, <1>1, <2>2, SendAssumption
  <2> QED BY <2>1, <2>2
<1> HIDE DEF filled
<1>3. /\ WindowOK(queued) /\ OldestOK(queued)
      /\ queued.cur_window_packets \in w.cur_window_packets .. w.cur_window_packets + 1
      /\ queued.cur_window_packets > 0
      /\ queued.cur_window = w.cur_window
      /\ queued.seq_nr = IF queued.cur_window_packets = w.cur_window_packets THEN w.seq_nr
                         ELSE wrapping_add(w.seq_nr, 1)
  <2>1. CASE added > 0 /\ payload = added
    <3>1. w.cur_window_packets > 0
      BY <1>1, <2>1 DEF extend_last
    <3> QED BY <1>0, <1>2, <2>1, <3>1
  <2>2. CASE ~(added > 0 /\ payload = added)
    <3>1. payload - added \in Nat
      BY <1>1
    <3>2. queued = NewPacket(filled, payload - added, kind)
      BY <2>2
    <3>3. /\ WindowOK(queued) /\ OldestOK(queued)
          /\ queued.cur_window_packets = w.cur_window_packets + 1
          /\ queued.cur_window = w.cur_window
          /\ queued.seq_nr = wrapping_add(w.seq_nr, 1)
      BY <1>2, <3>1, <3>2, NewPacketOK
    <3> HIDE DEF queued
    <3> QED BY <1>0, <3>3
  <2> QED BY <2>1, <2>2
<1> HIDE DEF queued
<1>4. WindowOK(v) /\ SameFrame(queued, v) /\ Present(v) = Present(queued)
      /\ v.cur_window >= queued.cur_window
  BY <1>3, FlushOK
<1>5. OldestOK(v)
  BY <1>3, <1>4, OldestKept
<1>6. v = write_outgoing_packet(w, payload, kind, limit, ps)
  BY DEF write_outgoing_packet, added, filled, queued
<1> HIDE DEF v
<1> QED BY <1>3, <1>4, <1>5, <1>6 DEF SameFrame

-----------------------------------------------------------------------------
(* Selective acks. *)

\* Distinct indices of a mask name distinct packets.
LEMMA SelSeqInjective ==
  ASSUME NEW base \in SeqNr, NEW i \in -2 .. EackBits - 1
  PROVE  /\ SelSeq(base, i) \in SeqNr
         /\ i >= -1 => \A j \in 0 .. EackBits - 1 : j # i => SelSeq(base, j) # SelSeq(base, i)
BY SendAssumption, SeqModAssumption DEF SelSeq, SeqNr, wrapping_add, wrapping_sub

\* Resends are indices of the mask, of base - 1, or the trailing base - 1.
LEMMA EackResendsType ==
  ASSUME NEW w, NEW base, NEW mask, NEW from
  PROVE  EackResends(w, base, mask, from) \subseteq -2 .. EackBits - 1
<1>1. EackLost(w, base, mask, from) \subseteq -1 .. EackBits - 1
  BY DEF EackLost
<1> QED BY <1>1, SendAssumption DEF EackResends, EackCandidates, BaseIndex

\* selective_ack keeps the invariant, and never acks the oldest packet.
LEMMA SelectiveAckOK ==
  ASSUME NEW w, WindowOK(w), OldestOK(w), NEW base \in SeqNr,
         NEW mask \in SUBSET (0 .. EackBits - 1), NEW from
  PROVE  LET v == selective_ack(w, base, mask, from) IN
         /\ WindowOK(v) /\ OldestOK(v)
         /\ v.cur_window_packets = w.cur_window_packets
<1> DEFINE A == EackAcked(w, base, mask)
           acked == ack_packets(w, A)
           R == EackResends(w, base, mask, from)
           seqs(i) == IF i = BaseIndex THEN Slot(acked, SelSeq(base, i)) ELSE {SelSeq(base, i)}
           S == UNION {seqs(i) : i \in R}
           v == send_packets(acked, S)
<1>0. WindowType(w) /\ w.cur_window_packets \in 0 .. OUTGOING_BUFFER_MAX_SIZE /\ w.seq_nr \in SeqNr
  BY DEF WindowOK, WindowType
<1>1. A \subseteq Present(w)
  BY DEF EackAcked
<1>2. WindowOK(acked) /\ SameFrame(w, acked) /\ Present(acked) = Present(w) \ A
  BY <1>1, AckPacketsOK
<1>3. OldestOK(acked)
  <2>1. SUFFICES ASSUME w.cur_window_packets > 0 PROVE Oldest(w) \notin A
    BY <1>2 DEF OldestOK, Oldest, SameFrame
  <2>2. Dist(w, Oldest(w)) = w.cur_window_packets
    <3>1. w.cur_window_packets \in SeqNr
      BY <1>0, SendAssumption, SeqModAssumption DEF SeqNr
    <3> QED BY <1>0, <3>1, DistInverse DEF Dist, Oldest
  <2>3. \A q \in A : Dist(w, q) \in 1 .. w.cur_window_packets - 1
    BY DEF EackAcked, EackHits, Accepted
  <2> QED BY <1>0, <2>2, <2>3
<1>4. \A i \in R : seqs(i) \subseteq Present(acked)
  <2> TAKE i \in R
  <2>1. CASE i = BaseIndex
    BY <2>1 DEF Slot
  <2>2. CASE i # BaseIndex
    <3>1. i \in EackLost(w, base, mask, from)
      BY <2>2 DEF EackResends, EackCandidates
    <3>2. i \in (-1 .. EackBits - 1) \ mask /\ SelSeq(base, i) \in Present(w)
      BY <3>1 DEF EackLost
    <3>3. \A j \in mask : SelSeq(base, j) # SelSeq(base, i)
      BY <3>2, SelSeqInjective, SendAssumption
    <3>4. SelSeq(base, i) \notin A
      BY <3>3 DEF EackAcked, EackHits
    <3> QED BY <1>2, <2>2, <3>2, <3>4
  <2> QED BY <2>1, <2>2
<1>5. S \subseteq Present(acked)
  BY <1>4
<1> HIDE DEF S
<1>6. WindowOK(v) /\ SameFrame(acked, v) /\ Present(v) = Present(acked)
  BY <1>2, <1>5, SendPacketsOK
<1>7. OldestOK(v)
  BY <1>3, <1>6, OldestKept
<1>8. v = selective_ack(w, base, mask, from)
  BY DEF selective_ack, S
<1> HIDE DEF v, acked
<1> QED BY <1>2, <1>6, <1>7, <1>8 DEF SameFrame

-----------------------------------------------------------------------------
(* One handler at a time. *)

\* Forgetting what the last handler sent changes nothing else.
LEMMA FreshOK ==
  ASSUME NEW w, WindowOK(w)
  PROVE  /\ WindowOK(Fresh(w)) /\ SameFrame(w, Fresh(w)) /\ Present(Fresh(w)) = Present(w)
         /\ OldestOK(w) => OldestOK(Fresh(w))
         /\ Fresh(w).cur_window = w.cur_window
<1> DEFINE v == Fresh(w)
<1>0. WindowType(w) /\ Accounted(w) /\ InWindow(w) /\ Ordered(w) /\ w.cur_window_packets <= w.ring
  BY DEF WindowOK
<1>1. /\ DOMAIN v = WindowFields
      /\ v.seq_nr = w.seq_nr /\ v.cur_window_packets = w.cur_window_packets /\ v.outbuf = w.outbuf
      /\ v.ring = w.ring /\ v.tx = {} /\ v.cur_window = w.cur_window /\ v.written = w.written
  BY <1>0 DEF Fresh, WindowType, WindowFields
<1> HIDE DEF v
<1>2. Present(v) = Present(w) /\ InFlight(v) = InFlight(w)
  BY <1>1 DEF Present, InFlight
<1>3. Accounted(v) /\ Ordered(v) /\ InWindow(v)
  BY <1>0, <1>1, <1>2 DEF Accounted, Ordered, Dist, Last, InWindow
<1>4. WindowType(v) /\ v.cur_window_packets <= v.ring
  BY <1>0, <1>1 DEF WindowType
<1>5. WindowOK(v) /\ SameFrame(w, v)
  BY <1>1, <1>3, <1>4 DEF WindowOK, SameFrame
<1>6. OldestOK(w) => OldestOK(v)
  BY <1>2, <1>5, OldestKept
<1> QED BY <1>1, <1>2, <1>5, <1>6 DEF v

\* The send limit is a byte count.
LEMMA MaxSendType ==
  ASSUME NEW mw \in Nat, NEW mwu \in Nat
  PROVE  max_send(mw, mwu) \in Nat
<1>1. {mw, opt_sndbuf, mwu} \subseteq Nat /\ {mw, opt_sndbuf, mwu} # {}
  BY SendAssumption
<1> QED BY <1>1, NatMin DEF max_send

\* The larger of two byte counts is a byte count.
LEMMA LargerIsNat ==
  ASSUME NEW a \in Nat, NEW b \in Nat
  PROVE  Max({a, b}) \in Nat
<1>1. a \in Int /\ b \in Int
  OBVIOUS
<1>2. Max({a, b}) \in {a, b}
  BY <1>1, MaxOfTwo, Zenon
<1> QED BY <1>2

\* No cumulative ack_nr acknowledges more than the window.
LEMMA AcksType ==
  ASSUME NEW w, WindowType(w), NEW ack_nr \in SeqNr
  PROVE  Acks(w, ack_nr) \in 0 .. w.cur_window_packets
<1>1. w.seq_nr \in SeqNr /\ w.cur_window_packets \in SeqNr /\ 1 \in SeqNr
  BY SendAssumption, SeqModAssumption DEF WindowType, SeqNr
<1>2. Last(w) \in SeqNr
  BY <1>1, DistInverse DEF Last
<1>3. wrapping_sub(Last(w), w.cur_window_packets) \in SeqNr
  BY <1>1, <1>2, DistInverse
<1>4. wrapping_sub(ack_nr, wrapping_sub(Last(w), w.cur_window_packets)) \in SeqNr
  BY <1>3, DistInverse
<1> QED BY <1>1, <1>4 DEF Acks, SeqNr

\* The empty write of a dialer that connects takes a slot only when one besides
\* the slot kept for the FIN is free.
LEMMA EmptyWriteOK ==
  ASSUME NEW w, WindowOK(w), OldestOK(w), NEW ms, NEW ps \in Nat
  PROVE  LET v == EmptyWrite(w, ms, ps) IN
         /\ WindowOK(v) /\ OldestOK(v)
         /\ v.cur_window_packets >= w.cur_window_packets
         /\ \/ v.cur_window_packets = w.cur_window_packets
            \/ /\ v.cur_window_packets = w.cur_window_packets + 1
               /\ w.cur_window_packets < OUTGOING_BUFFER_MAX_SIZE - 1
<1>0. w.cur_window_packets \in Nat /\ w.written \in 0 .. MaxBytes
  BY DEF WindowOK, WindowType
<1>1. CASE is_full(w, 0, ms)
  BY <1>0, <1>1 DEF EmptyWrite
<1>2. CASE ~is_full(w, 0, ms)
  <2> DEFINE v == write_outgoing_packet(w, 0, "DATA", ms, ps)
  <2>1. w.cur_window_packets < OUTGOING_BUFFER_MAX_SIZE - 1
    BY <1>0, <1>2, SendAssumption DEF is_full
  <2>2. w.cur_window_packets < OUTGOING_BUFFER_MAX_SIZE /\ w.written + 0 <= MaxBytes
    BY <1>0, <2>1, SendAssumption
  <2>3. /\ WindowOK(v) /\ OldestOK(v)
        /\ v.cur_window_packets \in w.cur_window_packets .. w.cur_window_packets + 1
    BY <2>2, WriteOutgoingOK
  <2>4. EmptyWrite(w, ms, ps) = v
    BY <1>2 DEF EmptyWrite
  <2> HIDE DEF v
  <2> QED BY <1>0, <2>1, <2>3, <2>4
<1> QED BY <1>1, <1>2

\* The window after an ack: the invariant holds again, and the window has grown
\* by at most the packet of the empty write.
LEMMA AckOutcomeOK ==
  ASSUME TypeOK, WindowOK(win), OldestOK(win), NEW flags, NEW ack_nr \in SeqNr,
         NEW mask \in SUBSET (0 .. EackBits - 1), NEW ms, NEW ps \in Nat
  PROVE  LET out == AckOutcome(flags, ack_nr, mask, ms, ps) IN
         /\ WindowOK(out.win) /\ OldestOK(out.win)
         /\ out.resend_from \in SeqNr
         /\ out.timedOut \in BOOLEAN
         /\ \/ out.win.cur_window_packets <= win.cur_window_packets
            \/ /\ Connects(flags)
               /\ out.win.cur_window_packets <= win.cur_window_packets + 1
               /\ win.cur_window_packets < OUTGOING_BUFFER_MAX_SIZE - 1
<1> DEFINE acks == Acks(win, ack_nr)
           base == wrapping_add(ack_nr, 2)
           w1  == IF Connects(flags) THEN EmptyWrite(Fresh(win), ms, ps) ELSE Fresh(win)
           wa  == AckLoop(w1, acks)
           ws  == ShrinkWindow(wa)
           w2  == FlushNagle(ws)
           fr1 == IF wrapping_compare_less(fast_resend_seq_nr, wrapping_add(ack_nr, 1))
                  THEN wrapping_add(ack_nr, 1) ELSE fast_resend_seq_nr
           timedOut  == fast_timeout /\ Oldest(w2) = fr1
           fastRetry == timedOut /\ Oldest(w2) \in Present(w2) /\ w2.outbuf[Oldest(w2)].sent
           w3  == IF fastRetry THEN send_packets(w2, {Oldest(w2)}) ELSE w2
           fr2 == IF fastRetry THEN wrapping_add(fr1, 1) ELSE fr1
           resends == EackResends(w3, base, mask, fr2)
           v   == selective_ack(w3, base, mask, fr2)
           from == IF resends = {} THEN fr2 ELSE wrapping_add(SelSeq(base, Max(resends)), 1)
           out == AckOutcome(flags, ack_nr, mask, ms, ps)
<1>1. WindowOK(Fresh(win)) /\ OldestOK(Fresh(win))
      /\ Fresh(win).cur_window_packets = win.cur_window_packets
  BY FreshOK DEF SameFrame
<1>2. /\ WindowOK(w1) /\ OldestOK(w1)
      /\ w1.cur_window_packets >= win.cur_window_packets
      /\ \/ w1.cur_window_packets = win.cur_window_packets
         \/ /\ Connects(flags)
            /\ w1.cur_window_packets = win.cur_window_packets + 1
            /\ win.cur_window_packets < OUTGOING_BUFFER_MAX_SIZE - 1
  <2>1. CASE Connects(flags)
    BY <1>1, <2>1, EmptyWriteOK
  <2>2. CASE ~Connects(flags)
    <3>1. win.cur_window_packets \in Nat
      BY DEF TypeOK, WindowType
    <3> QED BY <1>1, <2>2, <3>1
  <2> QED BY <2>1, <2>2
<1> HIDE DEF w1
<1>3. acks \in 0 .. w1.cur_window_packets /\ w1.cur_window_packets \in Nat
  <2>1. acks \in 0 .. win.cur_window_packets /\ win.cur_window_packets \in Nat
    BY AcksType DEF TypeOK, WindowType
  <2>2. w1.cur_window_packets \in Nat
    BY <1>2 DEF WindowOK, WindowType
  <2> QED BY <1>2, <2>1, <2>2
<1>4. WindowOK(wa) /\ wa.cur_window_packets <= w1.cur_window_packets
  <2>1. WindowOK(wa) /\ wa.cur_window_packets = w1.cur_window_packets - AckedCount(w1, acks)
    BY <1>2, <1>3, AckLoopOK
  <2>2. AckedCount(w1, acks) \in Nat
    BY <1>3, AckedCountType
  <2> QED BY <1>3, <2>1, <2>2
<1> HIDE DEF wa
<1>5. WindowOK(ws) /\ OldestOK(ws) /\ ws.cur_window_packets <= w1.cur_window_packets
  <2>1. WindowOK(ws) /\ OldestOK(ws) /\ ws.cur_window_packets <= wa.cur_window_packets
    BY <1>4, ShrinkWindowOK
  <2>2. wa.cur_window_packets \in Nat /\ ws.cur_window_packets \in Nat
    BY <1>4, <2>1 DEF WindowOK, WindowType
  <2> HIDE DEF ws
  <2> QED BY <1>3, <1>4, <2>1, <2>2
<1> HIDE DEF ws
<1>6. WindowOK(w2) /\ OldestOK(w2) /\ w2.cur_window_packets <= w1.cur_window_packets
  <2>1. WindowOK(w2) /\ SameFrame(ws, w2) /\ Present(w2) = Present(ws)
    BY <1>5, FlushNagleOK
  <2>2. OldestOK(w2)
    BY <1>5, <2>1, OldestKept
  <2> HIDE DEF w2
  <2> QED BY <1>5, <2>1, <2>2 DEF SameFrame
<1> HIDE DEF w2
<1>7. fr1 \in SeqNr /\ fr2 \in SeqNr /\ base \in SeqNr
  <2>1. fast_resend_seq_nr \in SeqNr /\ wrapping_add(ack_nr, 1) \in SeqNr
    BY DistStep DEF TypeOK
  <2>2. fr1 \in SeqNr
    BY <2>1
  <2> HIDE DEF fr1
  <2>3. wrapping_add(fr1, 1) \in SeqNr
    BY <2>2, DistStep
  <2>4. base \in SeqNr
    BY SendAssumption, SeqModAssumption DEF wrapping_add, SeqNr
  <2> QED BY <2>2, <2>3, <2>4
<1> HIDE DEF fr1, base
<1>8. WindowOK(w3) /\ OldestOK(w3) /\ w3.cur_window_packets <= w1.cur_window_packets
  <2>1. CASE fastRetry
    <3>1. {Oldest(w2)} \subseteq Present(w2) /\ w3 = send_packets(w2, {Oldest(w2)})
      BY <2>1
    <3>2. WindowOK(w3) /\ SameFrame(w2, w3) /\ Present(w3) = Present(w2)
      BY <1>6, <3>1, SendPacketsOK
    <3>3. OldestOK(w3)
      BY <1>6, <3>2, OldestKept
    <3> HIDE DEF w3
    <3> QED BY <1>6, <3>2, <3>3 DEF SameFrame
  <2>2. CASE ~fastRetry
    BY <1>6, <2>2
  <2> QED BY <2>1, <2>2
<1> HIDE DEF w3, fr2
<1>9. WindowOK(v) /\ OldestOK(v) /\ v.cur_window_packets = w3.cur_window_packets
  <2>1. WindowOK(w3) /\ OldestOK(w3) /\ base \in SeqNr
    BY <1>7, <1>8
  <2> QED BY <2>1, SelectiveAckOK
<1>10. from \in SeqNr
  <2>1. CASE resends = {}
    BY <1>7, <2>1
  <2>2. CASE resends # {}
    <3>1. resends \subseteq -2 .. EackBits - 1
      BY EackResendsType
    <3> HIDE DEF resends
    <3>2. Max(resends) \in -2 .. EackBits - 1
      <4>1. -2 \in Int /\ EackBits - 1 \in Int
        BY SendAssumption
      <4>2. Max(resends) \in resends
        BY <2>2, <3>1, <4>1, IntMax, Zenon
      <4> QED BY <3>1, <4>2
    <3>3. SelSeq(base, Max(resends)) \in SeqNr
      BY <1>7, <3>2, SelSeqInjective
    <3> QED BY <2>2, <3>3, DistStep
  <2> QED BY <2>1, <2>2
<1> HIDE DEF v, from, timedOut, fastRetry
<1>11. out.win = v /\ out.resend_from = from /\ out.timedOut = timedOut
  BY Zenon DEF AckOutcome, v, from, timedOut, fastRetry, fr2, fr1, base, w3, w2, ws, wa, w1
<1>12. timedOut \in BOOLEAN
  BY DEF timedOut
<1> HIDE DEF out
<1>13. \/ v.cur_window_packets <= win.cur_window_packets
       \/ /\ Connects(flags)
          /\ v.cur_window_packets <= win.cur_window_packets + 1
          /\ win.cur_window_packets < OUTGOING_BUFFER_MAX_SIZE - 1
  BY <1>2, <1>8, <1>9
<1> QED BY <1>9, <1>10, <1>11, <1>12, <1>13 DEF out

-----------------------------------------------------------------------------
(* The inductive invariant.  TypeOK and the window invariant are needed for *)
(* each other (cur_window stays a natural number only because it is the     *)
(* count of the bytes in flight); RoomForFin is what keeps the FIN of Close *)
(* within the buffer, OldestOK what the ack handler restores.               *)

IInv == TypeOK /\ WindowOK(win) /\ OldestOK(win) /\ RoomForFin /\ WaitingIsTimed /\ FullIsFull

\* A power of two divides the modulus.
LEMMA PowerType ==
  ASSUME NEW n \in PowersOfTwo
  PROVE  n \in Nat \ {0} /\ n <= SeqMod /\ \E k \in 1 .. SeqMod : SeqMod = k * n
<1>1. n \in 1 .. SeqMod /\ \E k \in 1 .. SeqMod : SeqMod = k * n
  BY Zenon DEF PowersOfTwo
<1>2. n \in Nat \ {0} /\ n <= SeqMod
  <2>1. n \in 1 .. SeqMod
    BY <1>1
  <2> QED BY <2>1, SeqModAssumption
<1> QED BY <1>1, <1>2

\* The empty window satisfies the window invariant.
LEMMA EmptyWindowOK ==
  ASSUME NEW seq \in SeqNr
  PROVE  /\ WindowOK(EmptyWindow(seq)) /\ OldestOK(EmptyWindow(seq))
         /\ EmptyWindow(seq).cur_window_packets = 0 /\ EmptyWindow(seq).seq_nr = seq
         /\ EmptyWindow(seq).written = 0
<1> DEFINE w == EmptyWindow(seq)
<1>1. /\ DOMAIN w = WindowFields
      /\ w.seq_nr = seq /\ w.cur_window_packets = 0 /\ w.cur_window = 0
      /\ w.ring = RingInit /\ w.written = 0 /\ w.tx = {}
  BY DEF EmptyWindow, WindowFields
<1>2. w.outbuf = <<>>
  BY DEF EmptyWindow
<1> HIDE DEF w
<1>3. Present(w) = {} /\ InFlight(w) = {}
  BY <1>2 DEF Present, InFlight
<1>4. WindowType(w) /\ w.cur_window_packets <= w.ring
  <2>1. RingInit \in Nat \ {0}
    BY SendAssumption, PowerType
  <2> QED BY <1>1, <1>3, <2>1, SendAssumption DEF WindowType, Present
<1>5. Accounted(w)
  BY <1>1, <1>3, BytesEmpty DEF Accounted
<1>6. InWindow(w) /\ Ordered(w) /\ OldestOK(w)
  BY <1>1, <1>3 DEF InWindow, Ordered, OldestOK
<1> QED BY <1>1, <1>4, <1>5, <1>6 DEF WindowOK, w

\* Both ways a socket comes into being satisfy the invariant.
LEMMA InitOK == Init => IInv
<1> SUFFICES ASSUME Init PROVE IInv
  OBVIOUS
<1>0. /\ CommonInit
      /\ packet_size \in Nat /\ 255 * PACKET_SIZE \in Nat
      /\ state \in {"SynSent", "SynRecv"}
      /\ rto_armed \in BOOLEAN
  <2>1. CommonInit /\ state \in {"SynSent", "SynRecv"} /\ rto_armed \in BOOLEAN
    BY DEF Init, InitDialer, InitAcceptor
  <2>2. packet_size \in Nat
    BY <2>1, SendAssumption DEF CommonInit
  <2>3. 255 * PACKET_SIZE \in Nat
    BY SendAssumption
  <2> QED BY <2>1, <2>2, <2>3
<1>1. /\ WindowOK(win) /\ OldestOK(win) /\ fast_resend_seq_nr \in SeqNr
      /\ win.cur_window_packets \in 0 .. 1
      /\ win.cur_window_packets > 0 => rto_armed
  <2>1. CASE InitAcceptor
    <3>1. PICK seq \in InitSeqs : win = EmptyWindow(seq) /\ fast_resend_seq_nr = seq
      BY <2>1 DEF InitAcceptor
    <3>2. seq \in SeqNr
      BY SendAssumption
    <3> QED BY <3>1, <3>2, EmptyWindowOK
  <2>2. CASE InitDialer
    <3>1. PICK seq \in InitSeqs : win = send_packets(NewPacket(EmptyWindow(seq), 0, "SYN"), {seq})
      BY <2>2 DEF InitDialer
    <3> DEFINE e == EmptyWindow(seq)
               w == NewPacket(e, 0, "SYN")
    <3>2. /\ WindowOK(e) /\ OldestOK(e) /\ seq \in SeqNr /\ e.seq_nr = seq
          /\ e.cur_window_packets = 0 /\ e.written = 0
      BY SendAssumption, EmptyWindowOK
    <3> HIDE DEF e
    <3>3. e.cur_window_packets < OUTGOING_BUFFER_MAX_SIZE /\ e.written + 0 <= MaxBytes
      BY <3>2, SendAssumption
    <3>4. /\ WindowOK(w) /\ OldestOK(w) /\ seq \in Present(w)
          /\ w.cur_window_packets = 1
      BY <3>2, <3>3, NewPacketOK
    <3> HIDE DEF w
    <3>5. WindowOK(win) /\ SameFrame(w, win) /\ Present(win) = Present(w)
      BY <3>1, <3>4, SendPacketsOK DEF w, e
    <3>6. OldestOK(win)
      BY <3>4, <3>5, OldestKept
    <3>7. fast_resend_seq_nr \in SeqNr /\ rto_armed
      BY <2>2, SeqModAssumption DEF InitDialer, SeqNr
    <3> QED BY <3>4, <3>5, <3>6, <3>7 DEF SameFrame
  <2> QED BY <2>1, <2>2 DEF Init
<1>2. TypeOK
  <2>1. WindowType(win)
    BY <1>1 DEF WindowOK
  <2> QED BY <1>0, <1>1, <2>1 DEF TypeOK, CommonInit, ErrorKinds
<1>3. RoomForFin /\ WaitingIsTimed /\ FullIsFull
  BY <1>0, <1>1, SendAssumption DEF RoomForFin, WaitingIsTimed, FullIsFull
<1> QED BY <1>1, <1>2, <1>3 DEF IInv

\* A write keeps the invariant: a full socket refuses it and is marked full.
LEMMA WriteOK == ASSUME IInv, NEW n, Write(n) PROVE IInv'
<1> DEFINE w == Fresh(win)
           ms == max_send(max_window, max_window_user)
<1>0. TypeOK /\ WindowOK(win) /\ OldestOK(win) /\ RoomForFin /\ WaitingIsTimed
  BY DEF IInv
<1>1. /\ state = "Connected" /\ n \in 1 .. packet_size /\ win.written + n <= MaxBytes
      /\ ~fin_sent
  BY DEF Write
<1>2. /\ packet_size \in PacketSizes /\ packet_size \in Nat /\ ms \in Nat
      /\ win.cur_window_packets \in Nat /\ win.cur_window \in Nat
  <2>1. /\ packet_size \in PacketSizes /\ max_window \in Nat /\ max_window_user \in Nat
        /\ WindowType(win)
    BY <1>0 DEF TypeOK
  <2>2. ms \in Nat
    BY <2>1, MaxSendType
  <2>3. packet_size \in Nat
    BY <2>1, SendAssumption
  <2> QED BY <2>1, <2>2, <2>3, SendAssumption DEF WindowType
<1>3. /\ WindowOK(w) /\ OldestOK(w) /\ w.cur_window_packets = win.cur_window_packets
      /\ w.cur_window = win.cur_window /\ w.written = win.written
  BY <1>0, FreshOK DEF SameFrame
<1>4. UNCHANGED <<packet_size, max_window, max_window_user, fast_resend_seq_nr, fast_timeout,
                  retransmit_count, fin_sent, fin_sent_acked, close_requested, closed, error>>
  BY DEF Write, limitVars, fastVars, finVars
<1> HIDE DEF w, ms
<1>5. CASE is_full(w, n, ms)
  <2>1. win' = w /\ state' = "ConnectedFull" /\ rto_armed' = rto_armed
    BY <1>5 DEF Write, w, ms
  <2>2. TypeOK'
    <3>1. WindowType(win')
      BY <1>3, <2>1 DEF WindowOK
    <3> QED BY <1>0, <1>4, <2>1, <3>1 DEF TypeOK
  <2>3. RoomForFin' /\ WaitingIsTimed'
    BY <1>0, <1>3, <1>4, <2>1 DEF RoomForFin, WaitingIsTimed
  <2>4. is_full(w, packet_size, ms)
    BY <1>1, <1>2, <1>3, <1>5, SendAssumption DEF is_full
  <2>5. FullIsFull'
    BY <1>4, <2>1, <2>4 DEF FullIsFull, ms
  <2> QED BY <1>3, <2>1, <2>2, <2>3, <2>5 DEF IInv
<1>6. CASE ~is_full(w, n, ms)
  <2>1. /\ win' = write_outgoing_packet(w, n, "DATA", ms, packet_size)
        /\ rto_armed' = (rto_armed \/ StartsTimer(w)) /\ state' = "Connected"
    BY <1>1, <1>6 DEF Write, w, ms
  <2>2. /\ w.cur_window_packets < OUTGOING_BUFFER_MAX_SIZE - 1
        /\ w.cur_window_packets < OUTGOING_BUFFER_MAX_SIZE
    BY <1>2, <1>3, <1>6, SendAssumption DEF is_full
  <2>3. n \in Nat /\ w.written + n <= MaxBytes
    BY <1>1, <1>2, <1>3
  <2>4. /\ WindowOK(win') /\ OldestOK(win')
        /\ win'.cur_window_packets \in w.cur_window_packets .. w.cur_window_packets + 1
    BY <1>2, <1>3, <2>1, <2>2, <2>3, WriteOutgoingOK
  <2>5. TypeOK'
    <3>1. WindowType(win')
      BY <2>4 DEF WindowOK
    <3>2. rto_armed' \in BOOLEAN
      BY <2>1
    <3> QED BY <1>0, <1>4, <2>1, <3>1, <3>2 DEF TypeOK
  <2>6. RoomForFin'
    BY <1>2, <1>3, <1>4, <2>2, <2>4, SendAssumption DEF RoomForFin
  <2>7. rto_armed'
    <3>1. w.cur_window_packets > 0 \/ StartsTimer(w)
      BY <1>2, <1>3 DEF StartsTimer
    <3> QED BY <1>0, <1>3, <2>1, <3>1 DEF WaitingIsTimed
  <2>8. WaitingIsTimed' /\ FullIsFull'
    BY <2>1, <2>7 DEF WaitingIsTimed, FullIsFull
  <2> QED BY <2>4, <2>5, <2>6, <2>8 DEF IInv
<1> QED BY <1>5, <1>6

\* Closing keeps the invariant: the FIN takes the slot kept for it.
LEMMA CloseOK == ASSUME IInv, Close PROVE IInv'
<1> DEFINE w == Fresh(win)
           ms == max_send(max_window, max_window_user)
<1>0. TypeOK /\ WindowOK(win) /\ OldestOK(win) /\ RoomForFin /\ WaitingIsTimed /\ FullIsFull
  BY DEF IInv
<1>1. UNCHANGED <<packet_size, max_window, max_window_user, fast_resend_seq_nr, fast_timeout,
                  retransmit_count, fin_sent_acked, error>> /\ closed' = TRUE
  BY DEF Close, limitVars, fastVars
<1>2. /\ packet_size \in Nat /\ ms \in Nat
      /\ win.cur_window_packets \in Nat /\ win.cur_window \in Nat /\ win.written \in 0 .. MaxBytes
  <2>1. /\ packet_size \in PacketSizes /\ max_window \in Nat /\ max_window_user \in Nat
        /\ WindowType(win)
    BY <1>0 DEF TypeOK
  <2>2. ms \in Nat
    BY <2>1, MaxSendType
  <2>3. packet_size \in Nat
    BY <2>1, SendAssumption
  <2> QED BY <2>1, <2>2, <2>3, SendAssumption DEF WindowType
<1>3. /\ WindowOK(w) /\ OldestOK(w) /\ w.cur_window_packets = win.cur_window_packets
      /\ w.cur_window = win.cur_window /\ w.written = win.written
  BY <1>0, FreshOK DEF SameFrame
<1> HIDE DEF w, ms
<1>4. CASE state \in Established /\ ~fin_sent
  <2>1. /\ win' = write_outgoing_packet(w, 0, "FIN", ms, packet_size)
        /\ rto_armed' = (rto_armed \/ StartsTimer(win))
        /\ state' = state /\ fin_sent' = TRUE /\ close_requested' = TRUE
    BY <1>0, <1>4 DEF Close, w, ms, TypeOK
  <2>2. w.cur_window_packets < OUTGOING_BUFFER_MAX_SIZE /\ w.written + 0 <= MaxBytes
    BY <1>0, <1>2, <1>3, <1>4, SendAssumption DEF RoomForFin
  <2>3. /\ WindowOK(win') /\ OldestOK(win')
        /\ win'.cur_window_packets \in w.cur_window_packets .. w.cur_window_packets + 1
        /\ win'.cur_window >= w.cur_window
    BY <1>2, <1>3, <2>1, <2>2, WriteOutgoingOK
  <2>4. TypeOK'
    <3>1. WindowType(win')
      BY <2>3 DEF WindowOK
    <3>2. rto_armed' \in BOOLEAN
      BY <2>1
    <3> QED BY <1>0, <1>1, <2>1, <3>1, <3>2 DEF TypeOK
  <2>5. RoomForFin'
    BY <1>2, <1>3, <2>1, <2>2, <2>3, SendAssumption DEF RoomForFin
  <2>6. rto_armed'
    <3>1. win.cur_window_packets > 0 \/ StartsTimer(win)
      BY <1>2 DEF StartsTimer
    <3> QED BY <1>0, <2>1, <3>1 DEF WaitingIsTimed
  <2>7. FullIsFull'
    <3>1. SUFFICES ASSUME state = "ConnectedFull" PROVE is_full(win', packet_size, ms)
      BY <1>1, <2>1 DEF FullIsFull, ms
    <3>2. is_full(win, packet_size, ms)
      BY <1>0, <3>1 DEF FullIsFull, ms
    <3>3. win'.cur_window \in Nat /\ win'.cur_window_packets \in Nat
      BY <2>3 DEF WindowOK, WindowType
    <3> QED BY <1>2, <1>3, <2>3, <3>2, <3>3, SendAssumption DEF is_full
  <2> QED BY <2>3, <2>4, <2>5, <2>6, <2>7 DEF IInv, WaitingIsTimed
<1>5. CASE ~(state \in Established /\ ~fin_sent)
  <2>1. /\ win' = w /\ rto_armed' \in BOOLEAN /\ (rto_armed => rto_armed')
        /\ state' \in {state, "Destroy"} /\ (fin_sent' <=> fin_sent)
        /\ fin_sent' \in BOOLEAN /\ close_requested' \in BOOLEAN
    BY <1>0, <1>5 DEF Close, w, TypeOK
  <2>2. TypeOK'
    <3>1. WindowType(win')
      BY <1>3, <2>1 DEF WindowOK
    <3> QED BY <1>0, <1>1, <2>1, <3>1 DEF TypeOK
  <2>3. RoomForFin' /\ WaitingIsTimed'
    BY <1>0, <1>3, <2>1 DEF RoomForFin, WaitingIsTimed
  <2>4. FullIsFull'
    BY <1>0, <1>1, <1>3, <2>1 DEF FullIsFull, is_full
  <2> QED BY <1>3, <2>1, <2>2, <2>3, <2>4 DEF IInv
<1> QED BY <1>4, <1>5

\* A step that only empties tx, and may kill the socket, keeps the invariant.
LEMMA KilledOK ==
  ASSUME IInv, win' = Fresh(win), state' \in {"Destroy", "Reset", "Removed"},
         error' \in ErrorKinds,
         UNCHANGED <<packet_size, max_window, max_window_user, fast_resend_seq_nr, fast_timeout,
                     retransmit_count, rto_armed, fin_sent, fin_sent_acked, close_requested, closed>>
  PROVE  IInv'
<1>1. /\ WindowOK(win') /\ OldestOK(win') /\ win'.cur_window_packets = win.cur_window_packets
  BY FreshOK DEF IInv, SameFrame
<1>2. TypeOK'
  <2>1. WindowType(win')
    BY <1>1 DEF WindowOK
  <2> QED BY <2>1 DEF IInv, TypeOK
<1>3. RoomForFin' /\ WaitingIsTimed' /\ FullIsFull'
  BY <1>1 DEF IInv, RoomForFin, WaitingIsTimed, FullIsFull
<1> QED BY <1>1, <1>2, <1>3 DEF IInv

\* An RST keeps the invariant.
LEMMA ProcessResetOK == ASSUME IInv, ProcessReset PROVE IInv'
<1>1. error' \in ErrorKinds
  BY DEF ProcessReset, FirstError, IInv, TypeOK, ErrorKinds
<1>2. win' = Fresh(win) /\ state' \in {"Destroy", "Reset", "Removed"}
  BY DEF ProcessReset
<1> QED BY <1>1, <1>2, KilledOK DEF ProcessReset, limitVars, fastVars, finVars

\* A packet the transport refuses keeps the invariant.
LEMMA SendRefusedOK == ASSUME IInv, SendRefused PROVE IInv'
<1>1. UNCHANGED <<win, state, packet_size, max_window, max_window_user, fast_resend_seq_nr,
                  fast_timeout, retransmit_count, rto_armed, fin_sent, fin_sent_acked,
                  close_requested, closed>>
  BY DEF SendRefused, limitVars, fastVars, finVars
<1>2. error' \in ErrorKinds
  BY DEF SendRefused, FirstError, IInv, TypeOK, ErrorKinds
<1> QED BY <1>1, <1>2 DEF IInv, TypeOK, RoomForFin, WaitingIsTimed, FullIsFull

\* Closing the whole Socket keeps the invariant.
LEMMA DestroyAllOK == ASSUME IInv, DestroyAll PROVE IInv'
<1>1. error' \in ErrorKinds
  BY DEF DestroyAll, IInv, TypeOK
<1>2. win' = Fresh(win) /\ state' \in {"Destroy", "Reset", "Removed"}
  BY DEF DestroyAll
<1> QED BY <1>1, <1>2, KilledOK DEF DestroyAll, limitVars, fastVars, finVars

\* check_timeouts keeps the invariant: nothing it does moves the window, and a
\* full socket that no longer is gets marked writable.
LEMMA CheckTimeoutsOK ==
  ASSUME IInv, NEW rto, NEW zw, NEW probeLost, NEW ps \in PacketSizes,
         CheckTimeouts(rto, zw, probeLost, ps)
  PROVE  IInv'
<1> DEFINE killed == rto /\ (state = "SynRecv" \/ TooManyTimeouts)
           timedOut == rto /\ ~killed
           resends == timedOut /\ win.cur_window_packets > 0
           mw  == IF timedOut THEN AfterTimeout(win, max_window, ps, probeLost) ELSE max_window
           mwu == IF zw THEN PACKET_SIZE ELSE max_window_user
           flushed == IF state = "Destroy" THEN Fresh(win)
                      ELSE flush_packets(Fresh(win), max_send(max_window, max_window_user), packet_size)
           lost == IF timedOut THEN MarkLost(flushed) ELSE flushed
           w == IF timedOut THEN ResendOldest(lost) ELSE lost
<1>0. TypeOK /\ WindowOK(win) /\ OldestOK(win) /\ RoomForFin /\ WaitingIsTimed /\ FullIsFull
  BY DEF IInv
<1>1. UNCHANGED <<fast_resend_seq_nr, rto_armed, fin_sent, fin_sent_acked, close_requested, closed>>
  BY DEF CheckTimeouts, finVars
<1>2. packet_size' = ps /\ max_window' = mw /\ max_window_user' = mwu
  BY DEF CheckTimeouts
<1>3. /\ error' = IF killed THEN FirstError("TimedOut") ELSE error
      /\ retransmit_count' = IF resends THEN retransmit_count + 1 ELSE retransmit_count
      /\ fast_timeout' = (fast_timeout \/ resends)
  BY DEF CheckTimeouts
<1>4. /\ win' = w
      /\ state' = CASE state = "Destroy" -> "Removed"
                    [] killed -> IF state = "SynRecv" \/ close_requested THEN "Removed" ELSE "Reset"
                    [] ~killed /\ BecomesWritable(state, w, ps, max_send(mw, mwu)) -> "Connected"
                    [] OTHER -> state
  BY Zenon DEF CheckTimeouts
<1>5. WindowOK(w) /\ OldestOK(w) /\ SameFrame(win, w)
  <2>1. WindowOK(flushed) /\ OldestOK(flushed) /\ SameFrame(win, flushed)
    <3>1. WindowOK(Fresh(win)) /\ OldestOK(Fresh(win)) /\ SameFrame(win, Fresh(win))
      BY <1>0, FreshOK
    <3>2. CASE state = "Destroy"
      BY <3>1, <3>2
    <3>3. CASE state # "Destroy"
      <4>1. /\ WindowOK(flushed) /\ SameFrame(Fresh(win), flushed)
            /\ Present(flushed) = Present(Fresh(win))
        BY <3>1, <3>3, FlushOK
      <4> HIDE DEF flushed
      <4>2. OldestOK(flushed)
        BY <3>1, <4>1, OldestKept
      <4> QED BY <3>1, <4>1, <4>2 DEF SameFrame
    <3> QED BY <3>2, <3>3
  <2> HIDE DEF flushed
  <2>2. WindowOK(lost) /\ OldestOK(lost) /\ SameFrame(win, lost)
    <3>1. CASE timedOut
      <4>1. WindowOK(lost) /\ SameFrame(flushed, lost) /\ Present(lost) = Present(flushed)
        BY <2>1, <3>1, MarkLostOK
      <4> HIDE DEF lost
      <4>2. OldestOK(lost)
        BY <2>1, <4>1, OldestKept
      <4> QED BY <2>1, <4>1, <4>2 DEF SameFrame
    <3>2. CASE ~timedOut
      BY <2>1, <3>2
    <3> QED BY <3>1, <3>2
  <2> HIDE DEF lost
  <2>3. CASE timedOut
    <3>1. WindowOK(w) /\ SameFrame(lost, w) /\ Present(w) = Present(lost)
      BY <2>2, <2>3, ResendOldestOK
    <3> HIDE DEF w
    <3>2. OldestOK(w)
      BY <2>2, <3>1, OldestKept
    <3> QED BY <2>2, <3>1, <3>2 DEF SameFrame
  <2>4. CASE ~timedOut
    BY <2>2, <2>4
  <2> QED BY <2>3, <2>4
<1> HIDE DEF w
<1>6. mw \in Nat /\ mwu \in Nat
  <2>1. max_window \in Nat /\ max_window_user \in Nat /\ ps \in Nat
    BY <1>0, SendAssumption DEF TypeOK
  <2>2. Max({(2 * max_window) \div 3, ps}) \in Nat
    <3>1. (2 * max_window) \div 3 \in Nat
      BY <2>1
    <3> QED BY <2>1, <3>1, LargerIsNat
  <2>3. AfterTimeout(win, max_window, ps, probeLost) \in Nat
    BY <2>1, <2>2 DEF AfterTimeout
  <2>4. PACKET_SIZE \in Nat
    BY SendAssumption
  <2> QED BY <2>1, <2>3, <2>4
<1> HIDE DEF mw, mwu, killed, timedOut, resends
<1>7. TypeOK'
  <2>1. WindowType(win')
    BY <1>4, <1>5 DEF WindowOK
  <2>2. state' \in {"SynSent", "SynRecv", "Connected", "ConnectedFull", "Reset", "Destroy", "Removed"}
    BY <1>0, <1>4 DEF TypeOK
  <2>3. error' \in ErrorKinds
    BY <1>0, <1>3 DEF TypeOK, FirstError, ErrorKinds
  <2>4. retransmit_count' \in Nat /\ fast_timeout' \in BOOLEAN
    BY <1>0, <1>3 DEF TypeOK
  <2> QED BY <1>0, <1>1, <1>2, <1>6, <2>1, <2>2, <2>3, <2>4 DEF TypeOK
<1>8. RoomForFin' /\ WaitingIsTimed'
  BY <1>0, <1>1, <1>4, <1>5 DEF RoomForFin, WaitingIsTimed, SameFrame
<1>9. FullIsFull'
  <2>1. SUFFICES ASSUME state' = "ConnectedFull"
                 PROVE  is_full(w, ps, max_send(mw, mwu))
    BY <1>2, <1>4 DEF FullIsFull
  <2> QED BY <1>4, <2>1 DEF BecomesWritable
<1> QED BY <1>4, <1>5, <1>7, <1>8, <1>9 DEF IInv

\* A packet that passes the ack check keeps the invariant, whatever its ack_nr
\* and mask say.
LEMMA ProcessIncomingOK ==
  ASSUME IInv, NEW flags \in {"STATE", "DATA", "FIN"}, NEW ack_nr \in SeqNr,
         NEW mask \in SUBSET (0 .. EackBits - 1), NEW wnd \in Windows,
         NEW cw \in Cwnds \cup {max_window}, NEW ps \in PacketSizes, NEW decay, NEW eof,
         ProcessIncoming(flags, ack_nr, mask, wnd, cw, ps, decay, eof)
  PROVE  IInv'
<1> DEFINE finAcked == ~Connects(flags) /\ fin_sent /\ win.cur_window_packets = Acks(win, ack_nr)
           st1 == CASE flags = "DATA" /\ state = "SynRecv" -> "Connected"
                    [] Connects(flags) -> IF is_full(win, 0, max_send(cw, wnd))
                                          THEN "ConnectedFull" ELSE "Connected"
                    [] finAcked /\ close_requested -> "Destroy"
                    [] OTHER -> state
           out == AckOutcome(flags, ack_nr, mask, max_send(cw, wnd), ps)
           mw  == IF out.resent /\ decay THEN Max({cw \div 2, MIN_WINDOW_SIZE}) ELSE cw
<1>0. TypeOK /\ WindowOK(win) /\ OldestOK(win) /\ RoomForFin /\ WaitingIsTimed
  BY DEF IInv
<1>1. ps \in Nat /\ cw \in Nat /\ wnd \in Nat
  BY <1>0, SendAssumption DEF TypeOK
<1>2. /\ WindowOK(out.win) /\ OldestOK(out.win)
      /\ out.resend_from \in SeqNr
      /\ out.timedOut \in BOOLEAN
      /\ \/ out.win.cur_window_packets <= win.cur_window_packets
         \/ /\ Connects(flags)
            /\ out.win.cur_window_packets <= win.cur_window_packets + 1
            /\ win.cur_window_packets < OUTGOING_BUFFER_MAX_SIZE - 1
  BY <1>0, <1>1, AckOutcomeOK
<1> HIDE DEF out
<1>3. UNCHANGED <<fin_sent, close_requested, closed, error>>
  BY DEF ProcessIncoming
<1>4. packet_size' = ps /\ max_window_user' = wnd /\ fin_sent_acked' = (fin_sent_acked \/ finAcked)
  BY DEF ProcessIncoming
<1>5. /\ win' = out.win
      /\ max_window' = mw
      /\ state' = IF BecomesWritable(st1, out.win, ps, max_send(mw, wnd)) THEN "Connected" ELSE st1
  BY Zenon DEF ProcessIncoming, out
<1>6. /\ fast_resend_seq_nr' = out.resend_from
      /\ fast_timeout' = out.timedOut
      /\ retransmit_count' = IF out.acked THEN 0 ELSE retransmit_count
      /\ rto_armed' = \/ rto_armed \/ out.acked \/ eof
                      \/ Connects(flags) /\ StartsTimer(win)
  BY Zenon DEF ProcessIncoming, out
<1>7. mw \in Nat
  <2>1. Max({cw \div 2, MIN_WINDOW_SIZE}) \in Nat
    <3>1. cw \div 2 \in Nat /\ MIN_WINDOW_SIZE \in Nat
      BY <1>1, SendAssumption
    <3> QED BY <3>1, LargerIsNat
  <2> QED BY <1>1, <2>1
<1>8. st1 \in {"SynSent", "SynRecv", "Connected", "ConnectedFull", "Reset", "Destroy", "Removed"}
  BY <1>0 DEF TypeOK
<1> HIDE DEF mw, st1, finAcked
<1>9. TypeOK'
  <2>1. WindowType(win')
    BY <1>2, <1>5 DEF WindowOK
  <2>2. state' \in {"SynSent", "SynRecv", "Connected", "ConnectedFull", "Reset", "Destroy", "Removed"}
    BY <1>5, <1>8
  <2>3. /\ packet_size' \in PacketSizes /\ max_window' \in Nat /\ max_window_user' \in Nat
        /\ retransmit_count' \in Nat
    BY <1>0, <1>1, <1>4, <1>5, <1>6, <1>7 DEF TypeOK
  <2>4. fast_resend_seq_nr' \in SeqNr /\ fast_timeout' \in BOOLEAN
    BY <1>2, <1>6
  <2>5. rto_armed' \in BOOLEAN /\ fin_sent_acked' \in BOOLEAN
    BY <1>4, <1>6
  <2>6. fin_sent' \in BOOLEAN /\ close_requested' \in BOOLEAN /\ closed' \in BOOLEAN
        /\ error' \in ErrorKinds
    BY <1>0, <1>3 DEF TypeOK
  <2> QED BY <2>1, <2>2, <2>3, <2>4, <2>5, <2>6 DEF TypeOK
<1>10. win.cur_window_packets \in Nat /\ out.win.cur_window_packets \in Nat
  BY <1>0, <1>2 DEF WindowOK, WindowType
<1>11. RoomForFin'
  BY <1>0, <1>2, <1>3, <1>5, <1>10, SendAssumption DEF RoomForFin
<1>12. WaitingIsTimed'
  <2>1. SUFFICES ASSUME out.win.cur_window_packets > 0 PROVE rto_armed'
    BY <1>5 DEF WaitingIsTimed
  <2>2. win.cur_window_packets > 0 \/ (Connects(flags) /\ StartsTimer(win))
    BY <1>2, <1>10, <2>1 DEF StartsTimer
  <2> QED BY <1>0, <1>6, <2>2 DEF WaitingIsTimed
<1>13. FullIsFull'
  <2>1. SUFFICES ASSUME state' = "ConnectedFull"
                 PROVE  is_full(out.win, ps, max_send(mw, wnd))
    BY <1>4, <1>5 DEF FullIsFull
  <2>2. st1 = "ConnectedFull" /\ ~BecomesWritable(st1, out.win, ps, max_send(mw, wnd))
    BY <1>5, <2>1
  <2> QED BY <2>2 DEF BecomesWritable
<1> QED BY <1>2, <1>5, <1>9, <1>11, <1>12, <1>13 DEF IInv

\* Every step keeps the invariant.
LEMMA NextOK == IInv /\ [Next]_vars => IInv'
<1> SUFFICES ASSUME IInv, [Next]_vars PROVE IInv'
  OBVIOUS
<1>1. ASSUME NEW n \in 1 .. MaxBytes, Write(n) PROVE IInv'
  BY <1>1, WriteOK
<1>2. CASE Close
  BY <1>2, CloseOK
<1>3. CASE ProcessReset
  BY <1>3, ProcessResetOK
<1>4. CASE Incoming
  <2>1. PICK ack_nr \in SeqNr, mask \in SUBSET (0 .. EackBits - 1), flags \in {"STATE", "DATA", "FIN"},
             wnd \in Windows, cw \in Cwnds \cup {max_window}, ps \in PacketSizes,
             decay \in BOOLEAN, eof \in BOOLEAN :
               ProcessIncoming(flags, ack_nr, mask, wnd, cw, ps, decay, eof)
    <3>1. PICK ack_nr \in {a \in SeqNr : ValidAck(win, a)} :
            \E mask \in SUBSET RelevantBits(win, wrapping_add(ack_nr, 2)) :
            \E flags \in Flags, wnd \in Windows, cw \in Cwnds \cup {max_window}, ps \in PacketSizes,
               decay \in (IF mask = {} THEN {FALSE} ELSE BOOLEAN), eof \in BOOLEAN :
                 ProcessIncoming(flags, ack_nr, mask, wnd, cw, ps, decay, eof)
      BY <1>4, Zenon DEF Incoming
    <3>2. PICK mask \in SUBSET RelevantBits(win, wrapping_add(ack_nr, 2)) :
            \E flags \in Flags, wnd \in Windows, cw \in Cwnds \cup {max_window}, ps \in PacketSizes,
               decay \in (IF mask = {} THEN {FALSE} ELSE BOOLEAN), eof \in BOOLEAN :
                 ProcessIncoming(flags, ack_nr, mask, wnd, cw, ps, decay, eof)
      BY <3>1, Zenon
    <3>3. PICK flags \in Flags, wnd \in Windows, cw \in Cwnds \cup {max_window}, ps \in PacketSizes,
               decay \in BOOLEAN, eof \in BOOLEAN :
                 ProcessIncoming(flags, ack_nr, mask, wnd, cw, ps, decay, eof)
      <4>1. (IF mask = {} THEN {FALSE} ELSE BOOLEAN) \subseteq BOOLEAN
        OBVIOUS
      <4> QED BY <3>2, <4>1, Zenon
    <3>4. ack_nr \in SeqNr /\ flags \in {"STATE", "DATA", "FIN"} /\ mask \in SUBSET (0 .. EackBits - 1)
      BY DEF RelevantBits, Flags
    <3> QED BY <3>3, <3>4, Zenon
  <2> QED BY <2>1, ProcessIncomingOK
<1>5. CASE Timeouts
  <2>1. PICK rto, zw, probeLost \in BOOLEAN, ps \in PacketSizes : CheckTimeouts(rto, zw, probeLost, ps)
    BY <1>5 DEF Timeouts
  <2> QED BY <2>1, CheckTimeoutsOK
<1>6. CASE DestroyAll
  BY <1>6, DestroyAllOK
<1>7. CASE SendRefused
  BY <1>7, SendRefusedOK
<1>8. CASE UNCHANGED vars
  BY <1>8 DEF vars, limitVars, fastVars, finVars, IInv, TypeOK, RoomForFin, WaitingIsTimed, FullIsFull
<1> QED BY <1>1, <1>2, <1>3, <1>4, <1>5, <1>6, <1>7, <1>8 DEF Next

\* The invariant holds in every reachable state of the socket.
THEOREM Invariance == Spec => []IInv
BY InitOK, NextOK, PTL DEF Spec

-----------------------------------------------------------------------------
(* What it means for the code. *)

\* Type correctness: no handler, in any order, leaves a counter negative, a
\* sequence number out of range or more packets in the window than slots.
THEOREM TypeCorrect == Spec => []TypeOK
<1>1. IInv => TypeOK
  BY DEF IInv
<1> QED BY <1>1, Invariance, PTL

\* cur_window is always the number of payload bytes in flight: the subtractions
\* of ack_packet and check_timeouts never underflow (their debug_asserts).
THEOREM WindowIsAccounted == Spec => []WindowAccounting
<1>1. IInv => WindowAccounting
  BY DEF IInv, WindowOK, Accounted, WindowAccounting
<1> QED BY <1>1, Invariance, PTL

\* After every handler the oldest packet of the window is still in outbuf and
\* nothing outside the window is: the debug_assert of process_incoming.
THEOREM OldestAlwaysWaits == Spec => []OldestWaiting
<1>1. IInv => OldestWaiting
  BY DEF IInv, WindowOK, InWindow, OldestOK, OldestWaiting
<1> QED BY <1>1, Invariance, PTL

\* The packets in outbuf carry consecutive, disjoint pieces of what the
\* application wrote: what the window holds can only be delivered in order.
THEOREM StreamStaysInOrder == Spec => []StreamInOrder
<1>1. IInv => StreamInOrder
  BY DEF IInv, WindowOK, Ordered, StreamInOrder
<1> QED BY <1>1, Invariance, PTL

\* There is always a slot for the FIN: the debug_assert of
\* write_outgoing_packet that the buffer is not overrun.
THEOREM FinAlwaysFits == Spec => []RoomForFin
<1>1. IInv => RoomForFin
  BY DEF IInv
<1> QED BY <1>1, Invariance, PTL

\* No packet waits for its ack without a running retransmission timer.
THEOREM NoUntimedWait == Spec => []WaitingIsTimed
<1>1. IInv => WaitingIsTimed
  BY DEF IInv
<1> QED BY <1>1, Invariance, PTL

\* No writer is left asleep on a socket that has room again.
THEOREM NoStrandedWriter == Spec => []FullIsFull
<1>1. IInv => FullIsFull
  BY DEF IInv
<1> QED BY <1>1, Invariance, PTL

-----------------------------------------------------------------------------
(* Packets are removed or sent again, never rewritten. *)

PacketFields == {"kind", "first", "payload", "sent", "need_resend"}
Shape(w) ==
  /\ DOMAIN w = WindowFields
  /\ \A q \in Present(w) : DOMAIN w.outbuf[q] = PacketFields

\* What was sent stays as it was sent, and no packet is emptied.
Frozen(w, v) ==
  \A q \in Present(w) \cap Present(v) :
    /\ w.outbuf[q].payload > 0 => v.outbuf[q].payload > 0
    /\ w.outbuf[q].sent =>
         /\ v.outbuf[q].sent
         /\ v.outbuf[q].first = w.outbuf[q].first /\ v.outbuf[q].payload = w.outbuf[q].payload

\* v holds some of the packets of w, in the same ring.
Shrinks(w, v) ==
  Shape(v) /\ v.ring = w.ring /\ Present(v) \subseteq Present(w) /\ Frozen(w, v)

\* A write may add a packet, and doubles the ring when it is full.
Writes(w, v) ==
  /\ Shape(v) /\ Frozen(w, v)
  /\ v.ring = w.ring \/ (v.ring = 2 * w.ring /\ w.ring <= w.cur_window_packets)

\* A window of the right type has the shape the lemmas ask for.
LEMMA ShapeOfType == ASSUME NEW w, WindowType(w) PROVE Shape(w) /\ Shrinks(w, w)
<1>1. Shape(w)
  BY DEF WindowType, Shape, PacketFields, PacketType, Present
<1> QED BY <1>1 DEF Shrinks, Frozen

\* Shrinking composes.
LEMMA ShrinksTwice ==
  ASSUME NEW u, NEW w, NEW v, Shrinks(u, w), Shrinks(w, v)
  PROVE  Shrinks(u, v)
BY DEF Shrinks, Frozen

\* What a write leaves is only taken away afterwards.
LEMMA WritesThenShrinks ==
  ASSUME NEW u, NEW w, NEW v, Writes(u, w), Shrinks(w, v)
  PROVE  Writes(u, v)
BY DEF Writes, Shrinks, Frozen

\* A window that only shrinks is a window after no write.
LEMMA ShrinksIsWrites ==
  ASSUME NEW w, NEW v, Shrinks(w, v)
  PROVE  Writes(w, v)
BY DEF Writes, Shrinks

\* Another count of packets or other fields, the same packets.
LEMMA SamePackets ==
  ASSUME NEW w, Shape(w), NEW v, DOMAIN v = WindowFields, v.outbuf = w.outbuf, v.ring = w.ring
  PROVE  Shrinks(w, v)
BY DEF Shrinks, Shape, Frozen, Present

\* Forgetting what was sent changes no packet.
LEMMA FreshShrinks == ASSUME NEW w, Shape(w) PROVE Shrinks(w, Fresh(w))
<1> DEFINE v == Fresh(w)
<1>1. DOMAIN v = WindowFields /\ v.outbuf = w.outbuf /\ v.ring = w.ring
  BY DEF Fresh, Shape, WindowFields
<1> HIDE DEF v
<1>2. Shrinks(w, v)
  BY <1>1, SamePackets
<1> QED BY <1>2 DEF v

\* Nor does moving the start of the window.
LEMMA ShrinkWindowShrinks == ASSUME NEW w, Shape(w) PROVE Shrinks(w, ShrinkWindow(w))
<1> DEFINE v == ShrinkWindow(w)
<1>1. DOMAIN v = WindowFields /\ v.outbuf = w.outbuf /\ v.ring = w.ring
  BY DEF ShrinkWindow, Shape, WindowFields
<1> HIDE DEF v
<1>2. Shrinks(w, v)
  BY <1>1, SamePackets
<1> QED BY <1>2 DEF v

\* Sending packets, whichever they are, changes only their marks.
LEMMA SendShrinks ==
  ASSUME NEW w, Shape(w), NEW S
  PROVE  Shrinks(w, send_packets(w, S))
<1> DEFINE v == send_packets(w, S)
<1>1. /\ DOMAIN v = WindowFields /\ v.ring = w.ring
      /\ v.outbuf = [q \in Present(w) |->
                      IF q \in S THEN [w.outbuf[q] EXCEPT !.sent = TRUE, !.need_resend = FALSE]
                                 ELSE w.outbuf[q]]
  BY DEF send_packets, Shape, WindowFields
<1> HIDE DEF v
<1>2. Present(v) = Present(w)
  BY <1>1 DEF Present
<1>3. \A q \in Present(w) :
        /\ DOMAIN v.outbuf[q] = PacketFields
        /\ w.outbuf[q].sent => v.outbuf[q].sent
        /\ v.outbuf[q].first = w.outbuf[q].first /\ v.outbuf[q].payload = w.outbuf[q].payload
  <2> TAKE q \in Present(w)
  <2>0. DOMAIN w.outbuf[q] = PacketFields
    BY DEF Shape
  <2>1. CASE q \in S
    <3>1. v.outbuf[q] = [w.outbuf[q] EXCEPT !.sent = TRUE, !.need_resend = FALSE]
      BY <1>1, <2>1
    <3> QED BY <2>0, <3>1 DEF PacketFields
  <2>2. CASE q \notin S
    <3>1. v.outbuf[q] = w.outbuf[q]
      BY <1>1, <2>2
    <3> QED BY <2>0, <3>1
  <2> QED BY <2>1, <2>2
<1>4. Shrinks(w, v)
  BY <1>1, <1>2, <1>3 DEF Shrinks, Shape, Frozen
<1> QED BY <1>4 DEF v

\* Acknowledged packets go, the others stay as they are.
LEMMA AckShrinks ==
  ASSUME NEW w, Shape(w), NEW S
  PROVE  Shrinks(w, ack_packets(w, S))
<1> DEFINE v == ack_packets(w, S)
<1>1. /\ DOMAIN v = WindowFields /\ v.ring = w.ring
      /\ v.outbuf = [q \in Present(w) \ S |-> w.outbuf[q]]
  BY DEF ack_packets, Shape, WindowFields
<1> HIDE DEF v
<1>2. Present(v) = Present(w) \ S
  BY <1>1 DEF Present
<1>3. \A q \in Present(v) : v.outbuf[q] = w.outbuf[q]
  BY <1>1, <1>2
<1>4. Shrinks(w, v)
  BY <1>1, <1>2, <1>3 DEF Shrinks, Shape, Frozen
<1> QED BY <1>4 DEF v

\* The ack loop removes packets and changes none.
LEMMA AckLoopShrinks == ASSUME NEW w, Shape(w), NEW acks PROVE Shrinks(w, AckLoop(w, acks))
<1> DEFINE u == ack_packets(w, AckedSeqs(w, acks))
           n == AckedCount(w, acks)
           v == [u EXCEPT !.cur_window_packets = @ - n]
<1>1. Shrinks(w, u)
  BY AckShrinks
<1> HIDE DEF u, n
<1>2. Shape(u)
  BY <1>1 DEF Shrinks
<1>3. DOMAIN v = WindowFields /\ v.outbuf = u.outbuf /\ v.ring = u.ring
  BY <1>2 DEF Shape, WindowFields
<1>4. v = AckLoop(w, acks)
  BY DEF AckLoop, u, n
<1> HIDE DEF v
<1>5. Shrinks(u, v)
  BY <1>2, <1>3, SamePackets
<1> QED BY <1>1, <1>4, <1>5, ShrinksTwice

\* A timeout marks packets lost, which is not part of what was sent.
LEMMA MarkLostShrinks == ASSUME NEW w, Shape(w) PROVE Shrinks(w, MarkLost(w))
<1> DEFINE v == MarkLost(w)
           lost == {q \in InFlight(w) : Dist(w, q) \in 1 .. w.cur_window_packets}
<1>1. /\ DOMAIN v = WindowFields /\ v.ring = w.ring
      /\ v.outbuf = [q \in Present(w) |->
                      IF q \in lost THEN [w.outbuf[q] EXCEPT !.need_resend = TRUE] ELSE w.outbuf[q]]
  BY DEF MarkLost, Shape, WindowFields
<1> HIDE DEF v, lost
<1>2. Present(v) = Present(w)
  BY <1>1 DEF Present
<1>3. \A q \in Present(w) :
        /\ DOMAIN v.outbuf[q] = PacketFields
        /\ w.outbuf[q].sent => v.outbuf[q].sent
        /\ v.outbuf[q].first = w.outbuf[q].first /\ v.outbuf[q].payload = w.outbuf[q].payload
  <2> TAKE q \in Present(w)
  <2>0. DOMAIN w.outbuf[q] = PacketFields
    BY DEF Shape
  <2>1. CASE q \in lost
    <3>1. v.outbuf[q] = [w.outbuf[q] EXCEPT !.need_resend = TRUE]
      BY <1>1, <2>1
    <3> QED BY <2>0, <3>1 DEF PacketFields
  <2>2. CASE q \notin lost
    <3>1. v.outbuf[q] = w.outbuf[q]
      BY <1>1, <2>2
    <3> QED BY <2>0, <3>1
  <2> QED BY <2>1, <2>2
<1>4. Shrinks(w, v)
  BY <1>1, <1>2, <1>3 DEF Shrinks, Shape, Frozen
<1> QED BY <1>4 DEF v

\* Sending the packet Nagle held back changes no content.
LEMMA FlushNagleShrinks == ASSUME NEW w, Shape(w) PROVE Shrinks(w, FlushNagle(w))
BY SendShrinks DEF FlushNagle, Shrinks, Frozen

\* Nor does the retransmission after a timeout.
LEMMA ResendOldestShrinks == ASSUME NEW w, Shape(w) PROVE Shrinks(w, ResendOldest(w))
BY SendShrinks DEF ResendOldest, Shrinks, Frozen

\* A selective ack removes packets and resends others as they are.
LEMMA SelectiveAckShrinks ==
  ASSUME NEW w, Shape(w), NEW base, NEW mask, NEW from
  PROVE  Shrinks(w, selective_ack(w, base, mask, from))
<1> DEFINE u == ack_packets(w, EackAcked(w, base, mask))
           S == UNION {IF i = BaseIndex THEN Slot(u, SelSeq(base, i)) ELSE {SelSeq(base, i)} :
                       i \in EackResends(w, base, mask, from)}
           v == send_packets(u, S)
<1>1. Shrinks(w, u)
  BY AckShrinks
<1>2. v = selective_ack(w, base, mask, from)
  BY DEF selective_ack
<1> HIDE DEF u, S
<1>3. Shape(u)
  BY <1>1 DEF Shrinks
<1>4. Shrinks(u, v)
  BY <1>3, SendShrinks
<1> HIDE DEF v
<1> QED BY <1>1, <1>2, <1>4, ShrinksTwice

-----------------------------------------------------------------------------
(* Writing. *)

\* Only a packet that was never sent is filled up.
LEMMA FillLastFreezes ==
  ASSUME NEW w, Shape(w), ~w.outbuf[Last(w)].sent, w.outbuf[Last(w)].payload \in Nat,
         NEW added \in Nat
  PROVE  Shrinks(w, FillLast(w, added)) /\ FillLast(w, added).cur_window_packets = w.cur_window_packets
<1> DEFINE v == FillLast(w, added)
<1>1. /\ DOMAIN v = WindowFields /\ v.ring = w.ring /\ v.cur_window_packets = w.cur_window_packets
      /\ v.outbuf = [q \in Present(w) |->
                      IF q = Last(w) THEN [w.outbuf[q] EXCEPT !.payload = @ + added] ELSE w.outbuf[q]]
  BY DEF FillLast, Shape, WindowFields
<1> HIDE DEF v
<1>2. Present(v) = Present(w)
  BY <1>1 DEF Present
<1>3. \A q \in Present(w) :
        /\ DOMAIN v.outbuf[q] = PacketFields
        /\ q # Last(w) => v.outbuf[q] = w.outbuf[q]
        /\ w.outbuf[q].payload > 0 => v.outbuf[q].payload > 0
  <2> TAKE q \in Present(w)
  <2>0. DOMAIN w.outbuf[q] = PacketFields
    BY DEF Shape
  <2>1. CASE q = Last(w)
    <3>1. v.outbuf[q] = [w.outbuf[q] EXCEPT !.payload = @ + added]
      BY <1>1, <2>1
    <3> QED BY <2>0, <2>1, <3>1 DEF PacketFields
  <2>2. CASE q # Last(w)
    <3>1. v.outbuf[q] = w.outbuf[q]
      BY <1>1, <2>2
    <3> QED BY <2>0, <3>1
  <2> QED BY <2>1, <2>2
<1>4. Shrinks(w, v)
  BY <1>1, <1>2, <1>3 DEF Shrinks, Shape, Frozen
<1> QED BY <1>1, <1>4 DEF v

\* A new packet takes a sequence number no packet of the window has.
LEMMA NewPacketWrites ==
  ASSUME NEW w, Shape(w), w.seq_nr \notin Present(w), NEW payload, NEW kind
  PROVE  Writes(w, NewPacket(w, payload, kind))
<1> DEFINE v == NewPacket(w, payload, kind)
           new == [kind |-> kind, first |-> w.written, payload |-> payload,
                   sent |-> FALSE, need_resend |-> FALSE]
<1>1. /\ DOMAIN v = WindowFields /\ v.ring = GrownRing(w)
      /\ v.outbuf = [q \in Present(w) \cup {w.seq_nr} |-> IF q = w.seq_nr THEN new ELSE w.outbuf[q]]
  BY DEF NewPacket, Shape, WindowFields
<1>2. DOMAIN new = PacketFields
  BY DEF PacketFields
<1> HIDE DEF v, new
<1>3. Present(v) = Present(w) \cup {w.seq_nr}
  BY <1>1 DEF Present
<1>4. /\ v.outbuf[w.seq_nr] = new
      /\ \A q \in Present(w) : v.outbuf[q] = w.outbuf[q]
  BY <1>1
<1>5. Shape(v) /\ Frozen(w, v)
  BY <1>1, <1>2, <1>3, <1>4 DEF Shape, Frozen
<1>6. v.ring = w.ring \/ (v.ring = 2 * w.ring /\ w.cur_window_packets >= w.ring)
  BY <1>1 DEF GrownRing
<1>7. Writes(w, v)
  BY <1>5, <1>6 DEF Writes
<1> QED BY <1>7 DEF v

\* write_outgoing_packet rewrites nothing that was sent.
LEMMA WriteOutgoingWrites ==
  ASSUME NEW w, WindowOK(w), NEW payload \in Nat, NEW kind, NEW limit, NEW ps \in Nat
  PROVE  Writes(w, write_outgoing_packet(w, payload, kind, limit, ps))
<1> DEFINE added  == Room(w, payload, ps)
           filled == IF added > 0 THEN FillLast(w, added) ELSE w
           queued == IF added > 0 /\ payload = added THEN filled
                     ELSE NewPacket(filled, payload - added, kind)
           v == flush_packets(queued, limit, ps)
<1>0. WindowType(w) /\ Shape(w) /\ Shrinks(w, w)
  BY ShapeOfType DEF WindowOK
<1>1. added \in Nat /\ (added > 0 => ~w.outbuf[Last(w)].sent /\ w.outbuf[Last(w)].payload \in Nat)
  <2>1. added \in 0 .. payload /\ (added > 0 => extend_last(w, payload, ps))
    BY <1>0, RoomType
  <2>2. \A q \in Present(w) : w.outbuf[q].payload \in Nat
    BY <1>0, SendAssumption DEF WindowType, PacketType, Present
  <2> HIDE DEF added
  <2> QED BY <2>1, <2>2 DEF extend_last
<1> HIDE DEF added
<1>2. w.seq_nr \notin Present(w)
  <2>1. Dist(w, w.seq_nr) = 0
    BY <1>0 DEF Dist, wrapping_sub, WindowType, SeqNr
  <2> QED BY <2>1 DEF WindowOK, InWindow
<1>3. /\ Shrinks(w, filled) /\ filled.cur_window_packets = w.cur_window_packets
      /\ filled.seq_nr = w.seq_nr
  <2>1. CASE added > 0
    <3>1. Shrinks(w, filled) /\ filled.cur_window_packets = w.cur_window_packets
      BY <1>0, <1>1, <2>1, FillLastFreezes
    <3>2. filled.seq_nr = w.seq_nr
      BY <1>0, <2>1 DEF FillLast, Shape, WindowFields
    <3> HIDE DEF filled
    <3> QED BY <3>1, <3>2
  <2>2. CASE ~(added > 0)
    BY <1>0, <2>2
  <2> QED BY <2>1, <2>2
<1> HIDE DEF filled
<1>4. Shape(filled) /\ filled.ring = w.ring /\ filled.seq_nr \notin Present(filled)
  BY <1>2, <1>3 DEF Shrinks
<1>5. Writes(w, queued)
  <2>1. CASE added > 0 /\ payload = added
    BY <1>3, <2>1, ShrinksIsWrites
  <2>2. CASE ~(added > 0 /\ payload = added)
    <3>1. queued = NewPacket(filled, payload - added, kind)
      BY <2>2
    <3> HIDE DEF queued
    <3>2. Writes(filled, queued)
      BY <1>4, <3>1, NewPacketWrites
    <3>3. Present(filled) = Present(w)
      <4>1. CASE added > 0
        BY <1>0, <4>1 DEF filled, FillLast, Shape, WindowFields, Present
      <4>2. CASE ~(added > 0)
        BY <4>2 DEF filled
      <4> QED BY <4>1, <4>2
    <3> QED BY <1>3, <1>4, <3>2, <3>3 DEF Writes, Shrinks, Frozen
  <2> QED BY <2>1, <2>2
<1> HIDE DEF queued
<1>6. Shrinks(queued, v)
  BY <1>5, SendShrinks DEF flush_packets, Writes
<1>7. v = write_outgoing_packet(w, payload, kind, limit, ps)
  BY DEF write_outgoing_packet, added, filled, queued
<1> HIDE DEF v
<1> QED BY <1>5, <1>6, <1>7, WritesThenShrinks

-----------------------------------------------------------------------------
(* The handlers.  Each of them writes at most once, and first. *)

\* process_incoming as a whole: at most the empty write is added.
LEMMA AckOutcomeWrites ==
  ASSUME TypeOK, WindowOK(win), NEW flags, NEW ack_nr, NEW mask, NEW ms, NEW ps \in Nat
  PROVE  Writes(win, AckOutcome(flags, ack_nr, mask, ms, ps).win)
<1> DEFINE acks == Acks(win, ack_nr)
           base == wrapping_add(ack_nr, 2)
           w1  == IF Connects(flags) THEN EmptyWrite(Fresh(win), ms, ps) ELSE Fresh(win)
           wa  == AckLoop(w1, acks)
           ws  == ShrinkWindow(wa)
           w2  == FlushNagle(ws)
           fr1 == IF wrapping_compare_less(fast_resend_seq_nr, wrapping_add(ack_nr, 1))
                  THEN wrapping_add(ack_nr, 1) ELSE fast_resend_seq_nr
           timedOut  == fast_timeout /\ Oldest(w2) = fr1
           fastRetry == timedOut /\ Oldest(w2) \in Present(w2) /\ w2.outbuf[Oldest(w2)].sent
           w3  == IF fastRetry THEN send_packets(w2, {Oldest(w2)}) ELSE w2
           fr2 == IF fastRetry THEN wrapping_add(fr1, 1) ELSE fr1
           v   == selective_ack(w3, base, mask, fr2)
           f   == Fresh(win)
<1>1. Shape(win) /\ WindowOK(f) /\ Shrinks(win, f) /\ SameFrame(win, f) /\ Present(f) = Present(win)
  <2>1. Shape(win) /\ WindowOK(f) /\ SameFrame(win, f) /\ Present(f) = Present(win)
    BY FreshOK, ShapeOfType DEF WindowOK
  <2> QED BY <2>1, FreshShrinks
<1>2. Writes(win, w1)
  <2>1. CASE Connects(flags) /\ ~is_full(f, 0, ms)
    <3> DEFINE u == write_outgoing_packet(f, 0, "DATA", ms, ps)
    <3>1. Writes(f, u)
      BY <1>1, WriteOutgoingWrites
    <3>2. w1 = u
      BY <2>1 DEF EmptyWrite
    <3> HIDE DEF u, w1, f
    <3>3. Writes(win, u)
      BY <1>1, <3>1 DEF Writes, Shrinks, Frozen, SameFrame
    <3> QED BY <3>2, <3>3
  <2>2. CASE ~(Connects(flags) /\ ~is_full(f, 0, ms))
    <3>1. w1 = f
      BY <2>2 DEF EmptyWrite
    <3> HIDE DEF w1, f
    <3> QED BY <1>1, <3>1, ShrinksIsWrites
  <2> QED BY <2>1, <2>2
<1> HIDE DEF w1, acks
<1>3. Writes(win, wa)
  <2>1. Shrinks(w1, wa)
    BY <1>2, AckLoopShrinks DEF Writes
  <2> HIDE DEF wa
  <2> QED BY <1>2, <2>1, WritesThenShrinks
<1> HIDE DEF wa
<1>4. Writes(win, ws)
  <2>1. Shrinks(wa, ws)
    BY <1>3, ShrinkWindowShrinks DEF Writes
  <2> HIDE DEF ws
  <2> QED BY <1>3, <2>1, WritesThenShrinks
<1> HIDE DEF ws
<1>5. Writes(win, w2)
  <2>1. Shrinks(ws, w2)
    BY <1>4, FlushNagleShrinks DEF Writes
  <2> HIDE DEF w2
  <2> QED BY <1>4, <2>1, WritesThenShrinks
<1> HIDE DEF w2
<1>6. Writes(win, w3)
  <2>1. CASE fastRetry
    <3>1. Shrinks(w2, w3)
      BY <1>5, <2>1, SendShrinks DEF Writes
    <3> HIDE DEF w3
    <3> QED BY <1>5, <3>1, WritesThenShrinks
  <2>2. CASE ~fastRetry
    BY <1>5, <2>2
  <2> QED BY <2>1, <2>2
<1> HIDE DEF w3, fr2, base
<1>7. Writes(win, v)
  <2>1. Shrinks(w3, v)
    BY <1>6, SelectiveAckShrinks DEF Writes
  <2> HIDE DEF v
  <2> QED BY <1>6, <2>1, WritesThenShrinks
<1> HIDE DEF v, timedOut, fastRetry, fr1
<1>8. AckOutcome(flags, ack_nr, mask, ms, ps).win = v
  BY Zenon DEF AckOutcome, v, timedOut, fastRetry, fr2, fr1, base, w3, w2, ws, wa, w1, acks
<1> QED BY <1>7, <1>8

\* check_timeouts as a whole adds nothing.
LEMMA TimeoutsWrites ==
  ASSUME TypeOK, WindowOK(win), NEW rto, NEW zw, NEW probeLost, NEW ps,
         CheckTimeouts(rto, zw, probeLost, ps)
  PROVE  Writes(win, win')
<1> DEFINE killed == rto /\ (state = "SynRecv" \/ TooManyTimeouts)
           timedOut == rto /\ ~killed
           f == Fresh(win)
           flushed == IF state = "Destroy" THEN f
                      ELSE flush_packets(f, max_send(max_window, max_window_user), packet_size)
           lost == IF timedOut THEN MarkLost(flushed) ELSE flushed
           w == IF timedOut THEN ResendOldest(lost) ELSE lost
<1>1. win' = w
  BY Zenon DEF CheckTimeouts
<1> HIDE DEF timedOut
<1>2. Shrinks(win, f)
  BY ShapeOfType, FreshShrinks DEF WindowOK
<1> HIDE DEF f
<1>3. Shrinks(win, flushed)
  <2>1. CASE state = "Destroy"
    BY <1>2, <2>1
  <2>2. CASE state # "Destroy"
    <3>1. Shrinks(f, flushed)
      BY <1>2, <2>2, SendShrinks DEF Shrinks, flush_packets
    <3> HIDE DEF flushed
    <3> QED BY <1>2, <3>1, ShrinksTwice
  <2> QED BY <2>1, <2>2
<1> HIDE DEF flushed
<1>4. Shrinks(win, lost)
  <2>1. CASE timedOut
    <3>1. Shrinks(flushed, lost)
      BY <1>3, <2>1, MarkLostShrinks DEF Shrinks
    <3> HIDE DEF lost
    <3> QED BY <1>3, <3>1, ShrinksTwice
  <2>2. CASE ~timedOut
    BY <1>3, <2>2
  <2> QED BY <2>1, <2>2
<1> HIDE DEF lost
<1>5. Shrinks(win, w)
  <2>1. CASE timedOut
    <3>1. Shrinks(lost, w)
      BY <1>4, <2>1, ResendOldestShrinks DEF Shrinks
    <3> HIDE DEF w
    <3> QED BY <1>4, <3>1, ShrinksTwice
  <2>2. CASE ~timedOut
    BY <1>4, <2>2
  <2> QED BY <2>1, <2>2
<1> HIDE DEF w
<1> QED BY <1>1, <1>5, ShrinksIsWrites

\* A write of the application or of its close, after the last handler's packets
\* are forgotten.
LEMMA AppWrites ==
  ASSUME WindowOK(win), NEW payload \in Nat, NEW kind, NEW limit, NEW ps \in Nat
  PROVE  /\ Writes(win, Fresh(win))
         /\ Writes(win, write_outgoing_packet(Fresh(win), payload, kind, limit, ps))
<1> DEFINE f == Fresh(win)
           v == write_outgoing_packet(f, payload, kind, limit, ps)
<1>1. Shrinks(win, f) /\ WindowOK(f) /\ SameFrame(win, f) /\ Present(f) = Present(win)
  <2>1. Shape(win) /\ WindowOK(f) /\ SameFrame(win, f) /\ Present(f) = Present(win)
    BY FreshOK, ShapeOfType DEF WindowOK
  <2> QED BY <2>1, FreshShrinks
<1>2. Writes(f, v)
  BY <1>1, WriteOutgoingWrites
<1> HIDE DEF v, f
<1>3. Writes(win, v)
  BY <1>1, <1>2 DEF Writes, Shrinks, Frozen, SameFrame
<1>4. Writes(win, f)
  BY <1>1, ShrinksIsWrites
<1> QED BY <1>3, <1>4 DEF v, f

\* Every step of the socket removes packets, resends them, or writes a new one.
LEMMA NextWrites == ASSUME IInv, [Next]_vars PROVE Writes(win, win')
<1>0. TypeOK /\ WindowOK(win) /\ packet_size \in Nat
  BY SendAssumption DEF IInv, TypeOK
<1>1. ASSUME win' = Fresh(win) PROVE Writes(win, win')
  BY <1>0, <1>1, ShapeOfType, FreshShrinks, ShrinksIsWrites DEF WindowOK
<1>2. ASSUME win' = win PROVE Writes(win, win')
  BY <1>0, <1>2, ShapeOfType, ShrinksIsWrites DEF WindowOK
<1>3. ASSUME NEW n \in 1 .. MaxBytes, Write(n) PROVE Writes(win, win')
  <2>1. \/ win' = Fresh(win)
        \/ win' = write_outgoing_packet(Fresh(win), n, "DATA",
                    max_send(max_window, max_window_user), packet_size)
    BY <1>3 DEF Write
  <2>2. n \in Nat
    BY SendAssumption
  <2> QED BY <1>0, <1>1, <2>1, <2>2, AppWrites
<1>4. CASE Close
  <2>1. \/ win' = Fresh(win)
        \/ win' = write_outgoing_packet(Fresh(win), 0, "FIN",
                    max_send(max_window, max_window_user), packet_size)
    BY <1>4 DEF Close
  <2> QED BY <1>0, <1>1, <2>1, AppWrites
<1>5. CASE ProcessReset
  BY <1>1, <1>5 DEF ProcessReset
<1>6. CASE Incoming
  <2>1. PICK ps \in PacketSizes : \E flags, ack_nr, mask, wnd, cw, decay, eof :
               ProcessIncoming(flags, ack_nr, mask, wnd, cw, ps, decay, eof)
    BY <1>6, Zenon DEF Incoming
  <2>1a. PICK flags, ack_nr, mask, wnd, cw, decay, eof :
               ProcessIncoming(flags, ack_nr, mask, wnd, cw, ps, decay, eof)
    BY <2>1, Zenon
  <2>2. win' = AckOutcome(flags, ack_nr, mask, max_send(cw, wnd), ps).win
    BY <2>1a, Zenon DEF ProcessIncoming
  <2>3. ps \in Nat
    BY SendAssumption
  <2> QED BY <1>0, <2>2, <2>3, AckOutcomeWrites
<1>7. CASE Timeouts
  <2>1. PICK rto, zw, probeLost \in BOOLEAN, ps \in PacketSizes : CheckTimeouts(rto, zw, probeLost, ps)
    BY <1>7 DEF Timeouts
  <2> QED BY <1>0, <2>1, TimeoutsWrites
<1>8. CASE SendRefused
  BY <1>2, <1>8 DEF SendRefused
<1>9. CASE DestroyAll
  BY <1>1, <1>9 DEF DestroyAll
<1>10. CASE UNCHANGED vars
  BY <1>2, <1>10 DEF vars
<1> QED BY <1>3, <1>4, <1>5, <1>6, <1>7, <1>8, <1>9, <1>10 DEF Next

-----------------------------------------------------------------------------
(* The ring.  Its size always divides the modulus of the sequence numbers,  *)
(* so the slot of a packet survives the wrap, and it is at least as large   *)
(* as the window.                                                           *)

RingDivides == win.ring \in PowersOfTwo

\* Packets within one ring length of each other behind seq_nr have different
\* slots, wherever the sequence numbers wrap.
LEMMA SlotsDiffer ==
  ASSUME NEW n \in PowersOfTwo, NEW s \in SeqNr, NEW q \in SeqNr, NEW r \in SeqNr,
         wrapping_sub(s, q) \in 1 .. n, wrapping_sub(s, r) \in 1 .. n, q > r
  PROVE  q % n # r % n
<1> SUFFICES ASSUME q % n = r % n PROVE FALSE
  OBVIOUS
<1>0. q \in Nat /\ r \in Nat /\ q < SeqMod /\ r < SeqMod /\ SeqMod \in Nat /\ s \in Nat
  BY SeqModAssumption DEF SeqNr
<1>0a. n \in Nat \ {0}
  BY PowerType
<1>1. PICK j \in Int : q - r = j * n
  <2>1. q \in Int /\ r \in Int
    BY <1>0
  <2> QED BY <1>0a, <2>1, SameSlot
<1>2. PICK k \in 1 .. SeqMod : SeqMod = k * n
  BY PowerType
<1>3. j * n \in Int /\ j * n >= n
  <2>1. j * n > 0 /\ n \in Nat
    BY <1>0, <1>0a, <1>1
  <2> QED BY <1>0, <1>1, <2>1, NoMultipleBetween
<1>4. q - r < n \/ SeqMod - (q - r) < n
  BY <1>0, <1>0a DEF wrapping_sub
<1>5. CASE q - r < n
  BY <1>0, <1>0a, <1>1, <1>3, <1>5
<1>6. CASE SeqMod - (q - r) < n
  <2>1. k - j \in Int /\ (k - j) * n = k * n - j * n
    BY <1>0, <1>0a, <1>2
  <2>2. (k - j) * n = SeqMod - (q - r)
    BY <1>0, <1>0a, <1>1, <1>2, <2>1
  <2>3. SeqMod - (q - r) > 0
    BY <1>0
  <2>4. SeqMod - (q - r) >= n
    BY <1>0a, <2>1, <2>2, <2>3, NoMultipleBetween
  <2> QED BY <1>0, <1>0a, <1>6, <2>4
<1> QED BY <1>4, <1>5, <1>6

\* The ring starts with a divisor of the modulus.
LEMMA RingInitially == Init => RingDivides
<1> SUFFICES ASSUME Init PROVE win.ring = RingInit
  BY SendAssumption DEF RingDivides
<1>1. CASE InitAcceptor
  BY <1>1 DEF InitAcceptor, EmptyWindow
<1>2. CASE InitDialer
  <2>1. PICK seq \in InitSeqs : win = send_packets(NewPacket(EmptyWindow(seq), 0, "SYN"), {seq})
    BY <1>2 DEF InitDialer
  <2> DEFINE e == EmptyWindow(seq)
             w == NewPacket(e, 0, "SYN")
  <2>2. WindowOK(e) /\ e.ring = RingInit /\ e.cur_window_packets = 0 /\ e.seq_nr = seq /\ Present(e) = {}
    <3>1. seq \in SeqNr
      BY SendAssumption
    <3> QED BY <3>1, EmptyWindowOK DEF EmptyWindow, Present
  <2>3. Shape(e)
    BY <2>2, ShapeOfType DEF WindowOK
  <2> HIDE DEF e
  <2>4. w.ring = RingInit
    <3>1. RingInit \in Nat \ {0}
      BY SendAssumption, PowerType
    <3> QED BY <2>2, <2>3, <3>1 DEF NewPacket, GrownRing, Shape, WindowFields
  <2>5. Shape(w)
    BY <2>2, <2>3, NewPacketWrites DEF Writes
  <2> HIDE DEF w
  <2>6. win = send_packets(w, {seq})
    BY <2>1 DEF w, e
  <2>7. Shrinks(w, win)
    BY <2>5, <2>6, SendShrinks
  <2> QED BY <2>4, <2>7 DEF Shrinks
<1> QED BY <1>1, <1>2 DEF Init

\* The ring is doubled only while it is no larger than the window, whose limit
\* is below the modulus: a proper divisor.
LEMMA RingKept == IInv /\ RingDivides /\ [Next]_vars => RingDivides'
<1> SUFFICES ASSUME IInv, RingDivides, [Next]_vars PROVE RingDivides'
  OBVIOUS
<1>1. Writes(win, win')
  BY NextWrites
<1>2. CASE win'.ring = win.ring
  BY <1>2 DEF RingDivides
<1>3. CASE win'.ring = 2 * win.ring /\ win.ring <= win.cur_window_packets
  <2>1. win.ring \in Nat \ {0} /\ win.cur_window_packets <= OUTGOING_BUFFER_MAX_SIZE
        /\ win.cur_window_packets \in Nat
    BY DEF IInv, TypeOK, WindowType
  <2>2. win.ring \in 1 .. SeqMod - 1
    BY <1>3, <2>1, SendAssumption, SeqModAssumption
  <2>3. 2 * win.ring \in PowersOfTwo
    BY <2>2, PowerAssumption, SeqModAssumption DEF RingDivides
  <2> QED BY <1>3, <2>3 DEF RingDivides
<1> QED BY <1>1, <1>2, <1>3 DEF Writes

\* In the ring outbuf, however often it has been doubled and wherever the
\* sequence numbers wrap, no packet waiting for its ack can overwrite another or
\* be found in another's place: the slot seq & mask names one packet.
THEOREM RingNeverCollides == Spec => []RingHoldsWindow
<1>1. IInv /\ RingDivides => RingHoldsWindow
  <2> SUFFICES ASSUME IInv, RingDivides, NEW q \in Present(win), NEW r \in Present(win), q # r
               PROVE  q % win.ring # r % win.ring
    BY DEF IInv, WindowOK, RingHoldsWindow
  <2>1. WindowType(win) /\ InWindow(win) /\ win.cur_window_packets <= win.ring
    BY DEF IInv, WindowOK
  <2>2. /\ win.ring \in Nat \ {0} /\ win.seq_nr \in SeqNr /\ q \in SeqNr /\ r \in SeqNr
        /\ win.cur_window_packets \in Nat
    BY <2>1 DEF WindowType, Present
  <2>3. wrapping_sub(win.seq_nr, q) \in 1 .. win.ring /\ wrapping_sub(win.seq_nr, r) \in 1 .. win.ring
    <3>1. /\ wrapping_sub(win.seq_nr, q) \in 1 .. win.cur_window_packets
          /\ wrapping_sub(win.seq_nr, r) \in 1 .. win.cur_window_packets
      BY <2>1 DEF InWindow, Dist
    <3> QED BY <2>1, <2>2, <3>1
  <2>4. win.ring \in PowersOfTwo
    BY DEF RingDivides
  <2>5. q > r \/ r > q
    BY <2>2 DEF SeqNr
  <2> QED BY <2>2, <2>3, <2>4, <2>5, SlotsDiffer
<1> QED BY <1>1, Invariance, RingInitially, RingKept, PTL DEF Spec

\* Once a packet has gone out, the bytes it carries under its sequence number
\* never change while it is kept: a retransmission repeats what was sent, and
\* write_outgoing_packet fills up only packets the peer has never seen.
THEOREM SentStaysFrozen == Spec => SentIsFrozen
<1>1. IInv /\ [Next]_vars =>
        [\A q \in Present(win) \cap DOMAIN win'.outbuf : win.outbuf[q].sent =>
           win'.outbuf[q].first = win.outbuf[q].first
           /\ win'.outbuf[q].payload = win.outbuf[q].payload]_vars
  BY NextWrites DEF Writes, Frozen, Present
<1> QED BY <1>1, Invariance, PTL DEF Spec, SentIsFrozen

-----------------------------------------------------------------------------
(* What a handler forgets, and what it puts on the wire. *)

\* The window v still has the packets L and has none but those of U; it sent none
\* but those of U either; s is its next number and n the bytes written.
Steady(v, L, U, s, n) ==
  /\ Shape(v)
  /\ L \subseteq Present(v) /\ Present(v) \subseteq U
  /\ \A p \in v.tx : p.seq \in U
  /\ v.seq_nr = s /\ v.written = n

\* Fields of the window that do not matter here may change.
LEMMA SameSteady ==
  ASSUME NEW L, NEW U, NEW s, NEW n, NEW w, Steady(w, L, U, s, n),
         NEW v, DOMAIN v = WindowFields, v.outbuf = w.outbuf, v.tx \subseteq w.tx,
         v.seq_nr = w.seq_nr, v.written = w.written
  PROVE  Steady(v, L, U, s, n)
BY DEF Steady, Shape, Present

\* A handler starts with everything there and nothing sent.
LEMMA FreshSteady ==
  ASSUME NEW w, Shape(w)
  PROVE  Steady(Fresh(w), Present(w), Present(w), w.seq_nr, w.written)
<1> DEFINE v == Fresh(w)
<1>1. /\ DOMAIN v = WindowFields /\ v.outbuf = w.outbuf /\ v.tx = {}
      /\ v.seq_nr = w.seq_nr /\ v.written = w.written
  BY DEF Fresh, Shape, WindowFields
<1> HIDE DEF v
<1>2. Steady(v, Present(w), Present(w), w.seq_nr, w.written)
  BY <1>1 DEF Steady, Shape, Present
<1> QED BY <1>2 DEF v

\* Moving the start of the window forgets nothing.
LEMMA ShrinkWindowSteady ==
  ASSUME NEW L, NEW U, NEW s, NEW n, NEW w, Steady(w, L, U, s, n)
  PROVE  Steady(ShrinkWindow(w), L, U, s, n)
<1> DEFINE v == ShrinkWindow(w)
<1>1. /\ DOMAIN v = WindowFields /\ v.outbuf = w.outbuf /\ v.tx \subseteq w.tx
      /\ v.seq_nr = w.seq_nr /\ v.written = w.written
  BY DEF ShrinkWindow, Steady, Shape, WindowFields
<1> HIDE DEF v
<1>2. Steady(v, L, U, s, n)
  BY <1>1, SameSteady
<1> QED BY <1>2 DEF v

\* Only packets of the window are sent.
LEMMA SendSteady ==
  ASSUME NEW L, NEW U, NEW s, NEW n, NEW w, Steady(w, L, U, s, n), NEW S, S \subseteq Present(w)
  PROVE  Steady(send_packets(w, S), L, U, s, n)
<1> DEFINE v == send_packets(w, S)
<1>1. Shape(w) /\ DOMAIN w = WindowFields
  BY DEF Steady, Shape
<1>2. /\ v.seq_nr = w.seq_nr /\ v.written = w.written
      /\ v.tx = w.tx \cup {Wire(w, q) : q \in S}
      /\ Present(v) = Present(w)
  BY <1>1 DEF send_packets, WindowFields, Present
<1>3. Shape(v)
  BY <1>1, SendShrinks DEF Shrinks
<1> HIDE DEF v
<1>4. \A p \in v.tx : p.seq \in U
  BY <1>2 DEF Steady, Wire
<1>5. Steady(v, L, U, s, n)
  BY <1>2, <1>3, <1>4 DEF Steady
<1> QED BY <1>5 DEF v

\* Only packets outside L are dropped.
LEMMA AckSteady ==
  ASSUME NEW L, NEW U, NEW s, NEW n, NEW w, Steady(w, L, U, s, n), NEW S, S \cap L = {}
  PROVE  Steady(ack_packets(w, S), L, U, s, n)
<1> DEFINE v == ack_packets(w, S)
<1>1. Shape(w) /\ DOMAIN w = WindowFields
  BY DEF Steady, Shape
<1>2. /\ v.seq_nr = w.seq_nr /\ v.written = w.written /\ v.tx = w.tx
      /\ Present(v) = Present(w) \ S
  BY <1>1 DEF ack_packets, WindowFields, Present
<1>3. Shape(v)
  BY <1>1, AckShrinks DEF Shrinks
<1> HIDE DEF v
<1>4. Steady(v, L, U, s, n)
  BY <1>2, <1>3 DEF Steady
<1> QED BY <1>4 DEF v

\* The ack loop forgets the packets it acks and no other.
LEMMA AckLoopSteady ==
  ASSUME NEW L, NEW U, NEW s, NEW n, NEW w, Steady(w, L, U, s, n), NEW acks,
         AckedSeqs(w, acks) \cap L = {}
  PROVE  Steady(AckLoop(w, acks), L, U, s, n)
<1> DEFINE u == ack_packets(w, AckedSeqs(w, acks))
           c == AckedCount(w, acks)
           v == [u EXCEPT !.cur_window_packets = @ - c]
<1>1. Steady(u, L, U, s, n)
  BY AckSteady
<1>2. v = AckLoop(w, acks)
  BY DEF AckLoop
<1> HIDE DEF u, c
<1>3. /\ DOMAIN v = WindowFields /\ v.outbuf = u.outbuf /\ v.tx \subseteq u.tx
      /\ v.seq_nr = u.seq_nr /\ v.written = u.written
  BY <1>1 DEF Steady, Shape, WindowFields
<1> HIDE DEF v
<1>4. Steady(v, L, U, s, n)
  BY <1>1, <1>3, SameSteady
<1> QED BY <1>2, <1>4

\* The packet Nagle held back is one of the window.
LEMMA FlushNagleSteady ==
  ASSUME NEW L, NEW U, NEW s, NEW n, NEW w, Steady(w, L, U, s, n)
  PROVE  Steady(FlushNagle(w), L, U, s, n)
<1>1. CASE FlushNagle(w) = w
  BY <1>1
<1>2. CASE Last(w) \in Present(w) /\ FlushNagle(w) = send_packets(w, {Last(w)})
  <2>1. {Last(w)} \subseteq Present(w)
    BY <1>2
  <2> QED BY <1>2, <2>1, SendSteady
<1> QED BY <1>1, <1>2 DEF FlushNagle

\* So is the one a timeout resends.
LEMMA ResendOldestSteady ==
  ASSUME NEW L, NEW U, NEW s, NEW n, NEW w, Steady(w, L, U, s, n)
  PROVE  Steady(ResendOldest(w), L, U, s, n)
<1>1. CASE ResendOldest(w) = w
  BY <1>1
<1>2. CASE Oldest(w) \in Present(w) /\ ResendOldest(w) = send_packets(w, {Oldest(w)})
  <2>1. {Oldest(w)} \subseteq Present(w)
    BY <1>2
  <2> QED BY <1>2, <2>1, SendSteady
<1> QED BY <1>1, <1>2 DEF ResendOldest

\* So are those flush_packets sends.
LEMMA FlushSteady ==
  ASSUME NEW L, NEW U, NEW s, NEW n, NEW w, Steady(w, L, U, s, n), NEW limit, NEW ps
  PROVE  Steady(flush_packets(w, limit, ps), L, U, s, n)
<1>1. Flushed(w, limit, ps) \subseteq Present(w)
  BY Zenon DEF Flushed, Pending
<1> QED BY <1>1, SendSteady DEF flush_packets

\* A lost packet stays in the window.
LEMMA MarkLostSteady ==
  ASSUME NEW L, NEW U, NEW s, NEW n, NEW w, Steady(w, L, U, s, n)
  PROVE  Steady(MarkLost(w), L, U, s, n)
<1> DEFINE v == MarkLost(w)
<1>1. Shape(w) /\ DOMAIN w = WindowFields
  BY DEF Steady, Shape
<1>2. /\ v.seq_nr = w.seq_nr /\ v.written = w.written /\ v.tx = w.tx
      /\ Present(v) = Present(w)
  BY <1>1 DEF MarkLost, WindowFields, Present
<1>3. Shape(v)
  BY <1>1, MarkLostShrinks DEF Shrinks
<1> HIDE DEF v
<1>4. Steady(v, L, U, s, n)
  BY <1>2, <1>3 DEF Steady
<1> QED BY <1>4 DEF v

\* selective_ack drops what the mask names and resends only what is there.
LEMMA SelectiveAckSteady ==
  ASSUME NEW L, NEW U, NEW s, NEW n, NEW w, Steady(w, L, U, s, n), NEW base, NEW mask, NEW from,
         mask \subseteq 0 .. EackBits - 1, base \in SeqNr,
         \A i \in mask : SelSeq(base, i) \notin L
  PROVE  Steady(selective_ack(w, base, mask, from), L, U, s, n)
<1> DEFINE A == EackAcked(w, base, mask)
           u == ack_packets(w, A)
           R == EackResends(w, base, mask, from)
           S == UNION {IF i = BaseIndex THEN Slot(u, SelSeq(base, i)) ELSE {SelSeq(base, i)} : i \in R}
           v == send_packets(u, S)
<1>1. A \cap L = {} /\ A \subseteq Present(w)
  BY Zenon DEF EackAcked, EackHits
<1>2. v = selective_ack(w, base, mask, from)
  BY DEF selective_ack
<1>3. \A i \in R : i # BaseIndex => i \in EackLost(w, base, mask, from)
  BY Zenon DEF EackResends, EackCandidates
<1>4. \A i \in EackLost(w, base, mask, from) :
        i \in -1 .. EackBits - 1 /\ i \notin mask /\ SelSeq(base, i) \in Present(w)
  BY Zenon DEF EackLost
<1>5. \A i \in EackLost(w, base, mask, from) : SelSeq(base, i) \notin A
  <2> TAKE i \in EackLost(w, base, mask, from)
  <2>1. i \in -1 .. EackBits - 1 /\ i \notin mask
    BY <1>4
  <2>2. i \in -2 .. EackBits - 1 /\ i >= -1
    BY <2>1, SendAssumption
  <2>3. \A j \in 0 .. EackBits - 1 : j # i => SelSeq(base, j) # SelSeq(base, i)
    BY <2>2, SelSeqInjective
  <2>4. \A q \in A : \E j \in mask : q = SelSeq(base, j)
    BY Zenon DEF EackAcked, EackHits
  <2> QED BY <2>1, <2>3, <2>4
<1>6. Present(u) = Present(w) \ A
  BY DEF Steady, Shape, ack_packets, WindowFields, Present
<1> HIDE DEF A, R
<1>7. Steady(u, L, U, s, n)
  BY <1>1, AckSteady
<1> HIDE DEF u
<1>8. S \subseteq Present(u)
  <2>1. \A i \in R : i # BaseIndex => SelSeq(base, i) \in Present(u)
    BY <1>3, <1>4, <1>5, <1>6
  <2>2. \A i \in R : Slot(u, SelSeq(base, i)) \subseteq Present(u)
    BY DEF Slot
  <2> QED BY <2>1, <2>2
<1> HIDE DEF S
<1>9. Steady(v, L, U, s, n)
  BY <1>7, <1>8, SendSteady
<1> QED BY <1>2, <1>9

\* Filling up the last packet takes no number.
LEMMA FillLastSteady ==
  ASSUME NEW L, NEW U, NEW s, NEW n, NEW w, Steady(w, L, U, s, n), ~w.outbuf[Last(w)].sent,
         w.outbuf[Last(w)].payload \in Nat, NEW added \in Nat
  PROVE  Steady(FillLast(w, added), L, U, s, n + added)
<1> DEFINE v == FillLast(w, added)
<1>1. Shape(w) /\ DOMAIN w = WindowFields
  BY DEF Steady, Shape
<1>2. /\ v.seq_nr = w.seq_nr /\ v.written = w.written + added /\ v.tx = w.tx
      /\ Present(v) = Present(w)
  BY <1>1 DEF FillLast, WindowFields, Present
<1>3. Shape(v)
  BY <1>1, FillLastFreezes DEF Shrinks
<1> HIDE DEF v
<1>4. Steady(v, L, U, s, n + added)
  BY <1>2, <1>3 DEF Steady
<1> QED BY <1>4 DEF v

\* A new packet takes the next number.
LEMMA NewPacketSteady ==
  ASSUME NEW L, NEW U, NEW s, NEW n \in Nat, NEW w, Steady(w, L, U, s, n), s \notin Present(w),
         NEW payload \in Nat, NEW kind
  PROVE  LET v == NewPacket(w, payload, kind) IN
         /\ Steady(v, L \cup {s}, U \cup {s}, wrapping_add(s, 1), n + payload)
         /\ v.outbuf[s].payload = payload
<1> DEFINE v == NewPacket(w, payload, kind)
<1>1. Shape(w) /\ DOMAIN w = WindowFields /\ w.seq_nr = s /\ w.written = n
  BY DEF Steady, Shape
<1>2. /\ v.seq_nr = wrapping_add(w.seq_nr, 1) /\ v.written = w.written + payload /\ v.tx = w.tx
      /\ Present(v) = Present(w) \cup {w.seq_nr}
      /\ v.outbuf[w.seq_nr].payload = payload
  BY <1>1 DEF NewPacket, WindowFields, Present
<1>3. Shape(v)
  BY <1>1, NewPacketWrites DEF Writes
<1> HIDE DEF v
<1>4. Steady(v, L \cup {s}, U \cup {s}, wrapping_add(s, 1), n + payload)
  BY <1>1, <1>2, <1>3 DEF Steady
<1>5. v.outbuf[s].payload = payload
  BY <1>1, <1>2
<1> QED BY <1>4, <1>5 DEF v

\* write_outgoing_packet fills up the last packet or adds one more, and the
\* bytes written are counted once.
LEMMA WriteOutgoingSteady ==
  ASSUME NEW w, WindowOK(w), w.tx = {}, NEW payload \in Nat, NEW kind, NEW limit, NEW ps \in Nat,
         NEW P, P = Present(w), NEW s, s = w.seq_nr, NEW n, n = w.written
  PROVE  LET v == write_outgoing_packet(w, payload, kind, limit, ps) IN
         \/ extend_last(w, payload, ps) /\ Steady(v, P, P, s, n + payload)
         \/ /\ Steady(v, P \cup {s}, P \cup {s}, wrapping_add(s, 1), n + payload)
            /\ payload > 0 => v.outbuf[s].payload > 0
<1> DEFINE added  == Room(w, payload, ps)
           filled == IF added > 0 THEN FillLast(w, added) ELSE w
           queued == IF added > 0 /\ payload = added THEN filled
                     ELSE NewPacket(filled, payload - added, kind)
           v == flush_packets(queued, limit, ps)
<1>0. WindowType(w) /\ Shape(w) /\ n \in Nat /\ Steady(w, P, P, s, n)
  <2>1. WindowType(w) /\ Shape(w)
    BY ShapeOfType DEF WindowOK
  <2>2. n \in Nat
    BY <2>1, SendAssumption DEF WindowType
  <2> QED BY <2>1, <2>2 DEF Steady
<1>1. added \in 0 .. payload /\ (added > 0 => extend_last(w, payload, ps))
  BY <1>0, RoomType
<1>2. v = write_outgoing_packet(w, payload, kind, limit, ps)
  BY DEF write_outgoing_packet
<1> HIDE DEF added
<1>3. added \in Nat /\ payload - added \in Nat
  BY <1>1
<1>4. Steady(filled, P, P, s, n + added)
  <2>1. CASE added > 0
    <3>1. ~w.outbuf[Last(w)].sent /\ w.outbuf[Last(w)].payload \in Nat
      BY <1>0, <1>1, <2>1, SendAssumption DEF extend_last, WindowType, PacketType, Present
    <3>2. Steady(FillLast(w, added), P, P, s, n + added)
      BY <1>0, <1>3, <3>1, FillLastSteady
    <3> QED BY <2>1, <3>2
  <2>2. CASE ~(added > 0)
    <3>1. added = 0 /\ n + added = n
      BY <1>0, <1>3, <2>2
    <3> QED BY <1>0, <2>2, <3>1
  <2> QED BY <2>1, <2>2
<1>5. s \notin P
  <2>1. Dist(w, w.seq_nr) = 0
    BY <1>0 DEF Dist, wrapping_sub, WindowType, SeqNr
  <2> QED BY <2>1 DEF WindowOK, InWindow
<1> HIDE DEF filled
<1>6. CASE added > 0 /\ payload = added
  <2>1. Steady(queued, P, P, s, n + payload)
    BY <1>4, <1>6
  <2> HIDE DEF queued
  <2>2. Steady(v, P, P, s, n + payload)
    BY <2>1, FlushSteady
  <2> QED BY <1>1, <1>2, <1>6, <2>2
<1>7. CASE ~(added > 0 /\ payload = added)
  <2>1. queued = NewPacket(filled, payload - added, kind)
    BY <1>7
  <2> HIDE DEF queued
  <2>2. s \notin Present(filled)
    BY <1>4, <1>5 DEF Steady
  <2>3. /\ Steady(queued, P \cup {s}, P \cup {s}, wrapping_add(s, 1), (n + added) + (payload - added))
        /\ queued.outbuf[s].payload = payload - added
    <3>1. PICK m \in Nat, r \in Nat : m = n + added /\ r = payload - added
      BY <1>0, <1>3
    <3>2. Steady(filled, P, P, s, m)
      BY <1>4, <3>1
    <3>3. LET u == NewPacket(filled, r, kind) IN
          /\ Steady(u, P \cup {s}, P \cup {s}, wrapping_add(s, 1), m + r)
          /\ u.outbuf[s].payload = r
      BY <2>2, <3>2, NewPacketSteady
    <3> QED BY <2>1, <3>1, <3>3
  <2>4. (n + added) + (payload - added) = n + payload /\ (payload > 0 => payload - added > 0)
    BY <1>0, <1>1, <1>3, <1>7
  <2>5. Steady(queued, P \cup {s}, P \cup {s}, wrapping_add(s, 1), n + payload)
    BY <2>3, <2>4
  <2>6. Steady(v, P \cup {s}, P \cup {s}, wrapping_add(s, 1), n + payload)
    BY <2>5, FlushSteady
  <2>7. payload > 0 => v.outbuf[s].payload > 0
    <3>1. Shrinks(queued, v)
      BY <2>5, SendShrinks DEF Steady, flush_packets
    <3> HIDE DEF v
    <3>2. s \in Present(queued) \cap Present(v)
      BY <2>5, <2>6 DEF Steady
    <3>3. queued.outbuf[s].payload > 0 => v.outbuf[s].payload > 0
      BY <3>1, <3>2 DEF Shrinks, Frozen
    <3> QED BY <2>3, <2>4, <3>3
  <2> HIDE DEF v
  <2>8. /\ Steady(v, P \cup {s}, P \cup {s}, wrapping_add(s, 1), n + payload)
        /\ payload > 0 => v.outbuf[s].payload > 0
    BY <2>6, <2>7
  <2> QED BY <1>2, <2>8, Zenon
<1> QED BY <1>6, <1>7

\* The packets an ack with this number and mask says have arrived.
Told(ack_nr, mask) ==
  {q \in SeqNr : \/ wrapping_sub(ack_nr, q) < SeqMod \div 2
                 \/ \E b \in mask : q = wrapping_add(ack_nr, b + 2)}

\* The cumulative ack takes no packet beyond ack_nr.
LEMMA CumulativeTold ==
  ASSUME WindowOK(win), NEW ack_nr \in SeqNr, NEW q \in SeqNr, NEW c \in Nat,
         c <= Acks(win, ack_nr), wrapping_sub(q, Oldest(win)) < c
  PROVE  wrapping_sub(ack_nr, q) < SeqMod \div 2
<1> DEFINE s == win.seq_nr
           k == win.cur_window_packets
           o == wrapping_sub(s, k)
           f == wrapping_sub(wrapping_sub(s, 1), k)
           a == wrapping_sub(ack_nr, f)
<1>0. /\ s \in Nat /\ s < SeqMod /\ k \in Nat /\ 2 * k < SeqMod /\ SeqMod \in Nat /\ SeqMod >= 2
      /\ ack_nr \in Nat /\ ack_nr < SeqMod /\ q \in Nat /\ q < SeqMod
  BY SendAssumption, SeqModAssumption DEF WindowOK, WindowType, SeqNr
<1>1. o \in Nat /\ o < SeqMod /\ o = Oldest(win) /\ (f = o - 1 \/ (o = 0 /\ f = SeqMod - 1))
  BY <1>0 DEF wrapping_sub, Oldest
<1>2. Acks(win, ack_nr) = IF a > k THEN 0 ELSE a
  BY DEF Acks, Last
<1> HIDE DEF o, f, s, k
<1>3. a \in Nat /\ (a = ack_nr - f \/ a = ack_nr - f + SeqMod)
  BY <1>0, <1>1 DEF wrapping_sub
<1> HIDE DEF a
<1>4. wrapping_sub(q, o) \in Nat /\ (wrapping_sub(q, o) = q - o \/ wrapping_sub(q, o) = q - o + SeqMod)
  BY <1>0, <1>1 DEF wrapping_sub
<1>5. a <= k /\ wrapping_sub(q, o) < a
  BY <1>0, <1>1, <1>2, <1>3, <1>4
<1>6. 2 * (wrapping_sub(ack_nr, q) + 1) <= SeqMod /\ wrapping_sub(ack_nr, q) \in Nat
  BY <1>0, <1>1, <1>3, <1>4, <1>5 DEF wrapping_sub
<1> QED BY <1>0, <1>6

\* What the ack loop and the selective ack take away, the ack has told.
LEMMA AckOutcomeSteady ==
  ASSUME TypeOK, WindowOK(win), OldestOK(win), NEW flags, NEW ack_nr \in SeqNr,
         NEW mask \in SUBSET (0 .. EackBits - 1), NEW ms, NEW ps \in Nat,
         NEW P, P = Present(win), NEW s, s = win.seq_nr, NEW n, n = win.written
  PROVE  LET v == AckOutcome(flags, ack_nr, mask, ms, ps).win IN
         \/ /\ Connects(flags) => is_full(Fresh(win), 0, ms)
            /\ Steady(v, P \ Told(ack_nr, mask), P, s, n)
         \/ /\ Connects(flags)
            /\ Steady(v, (P \cup {s}) \ Told(ack_nr, mask), P \cup {s}, wrapping_add(s, 1), n)
<1> DEFINE acks == Acks(win, ack_nr)
           base == wrapping_add(ack_nr, 2)
           w1  == IF Connects(flags) THEN EmptyWrite(Fresh(win), ms, ps) ELSE Fresh(win)
           wa  == AckLoop(w1, acks)
           ws  == ShrinkWindow(wa)
           w2  == FlushNagle(ws)
           fr1 == IF wrapping_compare_less(fast_resend_seq_nr, wrapping_add(ack_nr, 1))
                  THEN wrapping_add(ack_nr, 1) ELSE fast_resend_seq_nr
           timedOut  == fast_timeout /\ Oldest(w2) = fr1
           fastRetry == timedOut /\ Oldest(w2) \in Present(w2) /\ w2.outbuf[Oldest(w2)].sent
           w3  == IF fastRetry THEN send_packets(w2, {Oldest(w2)}) ELSE w2
           fr2 == IF fastRetry THEN wrapping_add(fr1, 1) ELSE fr1
           v   == selective_ack(w3, base, mask, fr2)
           f   == Fresh(win)
           T   == Told(ack_nr, mask)
<1>0. /\ WindowType(win) /\ s \in SeqNr /\ P \subseteq SeqNr /\ n \in Nat /\ acks \in Nat
      /\ win.cur_window_packets \in Nat /\ 2 * win.cur_window_packets < SeqMod
  <2>1. WindowType(win)
    BY DEF WindowOK
  <2>2. acks \in 0 .. win.cur_window_packets /\ win.cur_window_packets \in 0 .. OUTGOING_BUFFER_MAX_SIZE
    BY <2>1, AcksType DEF WindowType
  <2> HIDE DEF acks
  <2>3. s \in SeqNr /\ P \subseteq SeqNr /\ n \in 0 .. MaxBytes
    BY <2>1 DEF WindowType, Present
  <2>4. n \in Nat /\ acks \in Nat /\ win.cur_window_packets \in Nat
    BY <2>2, <2>3, SendAssumption
  <2>5. 2 * win.cur_window_packets < SeqMod
    BY <2>2, <2>4, SendAssumption, SeqModAssumption
  <2> QED BY <2>1, <2>3, <2>4, <2>5
<1>1. /\ WindowOK(f) /\ OldestOK(f) /\ SameFrame(win, f) /\ Present(f) = P /\ f.tx = {}
      /\ Steady(f, P, P, s, n)
  <2>1. Shape(win)
    BY <1>0, ShapeOfType
  <2>2. f.tx = {}
    BY <2>1 DEF Fresh, Shape, WindowFields
  <2> QED BY <2>1, <2>2, FreshOK, FreshSteady
<1>2. \E U, z :
        /\ Steady(w1, U, U, z, n) /\ Oldest(w1) = Oldest(win) /\ U \subseteq SeqNr
        /\ \/ U = P /\ z = s /\ (Connects(flags) => is_full(f, 0, ms))
           \/ U = P \cup {s} /\ z = wrapping_add(s, 1) /\ Connects(flags)
  <2>1. CASE Connects(flags) /\ ~is_full(f, 0, ms)
    <3> DEFINE u == write_outgoing_packet(f, 0, "DATA", ms, ps)
    <3>1. w1 = u
      BY <2>1 DEF EmptyWrite
    <3>2. f.cur_window_packets < OUTGOING_BUFFER_MAX_SIZE /\ f.seq_nr = s /\ f.written = n
          /\ f.cur_window_packets = win.cur_window_packets
      BY <1>0, <1>1, <2>1, SendAssumption DEF is_full, SameFrame
    <3>3. Steady(u, P \cup {s}, P \cup {s}, wrapping_add(s, 1), n + 0)
      <4>1. ~extend_last(f, 0, ps)
        BY DEF extend_last
      <4>2. 0 \in Nat
        OBVIOUS
      <4> HIDE DEF f
      <4> QED BY <1>1, <3>2, <4>1, <4>2, WriteOutgoingSteady
    <3>4. /\ u.cur_window_packets \in f.cur_window_packets .. f.cur_window_packets + 1
          /\ u.seq_nr = IF u.cur_window_packets = f.cur_window_packets THEN f.seq_nr
                        ELSE wrapping_add(f.seq_nr, 1)
      <4>1. f.written + 0 <= MaxBytes
        BY <1>0, <3>2, SendAssumption DEF WindowType
      <4>2. 0 \in Nat /\ "DATA" \in {"SYN", "DATA", "FIN"}
        OBVIOUS
      <4> HIDE DEF f
      <4> QED BY <1>1, <3>2, <4>1, <4>2, WriteOutgoingOK
    <3> HIDE DEF u, w1, f
    <3>5. u.seq_nr = wrapping_add(s, 1) /\ n + 0 = n
      BY <1>0, <3>3 DEF Steady
    <3>6. wrapping_add(s, 1) # s
      BY <1>0, SeqModAssumption DEF wrapping_add, SeqNr
    <3>7. u.cur_window_packets = win.cur_window_packets + 1
      BY <1>0, <3>2, <3>4, <3>5, <3>6
    <3>8. Oldest(u) = Oldest(win)
      BY <1>0, <3>5, <3>7, SeqModAssumption DEF Oldest, wrapping_add, wrapping_sub, SeqNr
    <3>9. P \cup {s} \subseteq SeqNr /\ Steady(u, P \cup {s}, P \cup {s}, wrapping_add(s, 1), n)
      BY <1>0, <3>3, <3>5
    <3> QED BY <2>1, <3>1, <3>8, <3>9
  <2>2. CASE ~(Connects(flags) /\ ~is_full(f, 0, ms))
    <3>1. w1 = f
      BY <2>2 DEF EmptyWrite
    <3> HIDE DEF w1, f
    <3>2. Oldest(f) = Oldest(win)
      BY <1>1 DEF SameFrame, Oldest
    <3> QED BY <1>0, <1>1, <2>2, <3>1, <3>2
  <2> QED BY <2>1, <2>2
<1> HIDE DEF w1, acks, T, f
<1>3. PICK U, z :
        /\ Steady(w1, U, U, z, n) /\ Oldest(w1) = Oldest(win) /\ U \subseteq SeqNr
        /\ \/ U = P /\ z = s /\ (Connects(flags) => is_full(f, 0, ms))
           \/ U = P \cup {s} /\ z = wrapping_add(s, 1) /\ Connects(flags)
  BY <1>2
<1> DEFINE L == U \ T
<1>4. Steady(w1, L, U, z, n)
  BY <1>3 DEF Steady
<1>5. Steady(wa, L, U, z, n)
  <2>1. ASSUME NEW q \in AckedSeqs(w1, acks) PROVE q \in T
    <3>1. q \in Present(w1) /\ wrapping_sub(q, Oldest(w1)) < AckedCount(w1, acks)
      BY DEF AckedSeqs
    <3>2. q \in SeqNr
      BY <1>3, <3>1 DEF Steady
    <3>3. AckedCount(w1, acks) \in 0 .. acks
      BY <1>0, AckedCountType
    <3>4. AckedCount(w1, acks) \in Nat /\ AckedCount(w1, acks) <= Acks(win, ack_nr)
      BY <1>0, <3>3 DEF acks
    <3>5. wrapping_sub(q, Oldest(win)) < AckedCount(w1, acks)
      BY <1>3, <3>1
    <3>6. wrapping_sub(ack_nr, q) < SeqMod \div 2
      BY <3>2, <3>4, <3>5, CumulativeTold
    <3> QED BY <3>2, <3>6 DEF T, Told
  <2>2. AckedSeqs(w1, acks) \cap L = {}
    BY <2>1
  <2> HIDE DEF L
  <2> QED BY <1>4, <2>2, AckLoopSteady
<1> HIDE DEF L, wa
<1>6. Steady(ws, L, U, z, n)
  BY <1>5, ShrinkWindowSteady
<1> HIDE DEF ws
<1>7. Steady(w2, L, U, z, n)
  BY <1>6, FlushNagleSteady
<1> HIDE DEF w2
<1>8. Steady(w3, L, U, z, n)
  <2>1. CASE fastRetry
    <3>1. {Oldest(w2)} \subseteq Present(w2) /\ w3 = send_packets(w2, {Oldest(w2)})
      BY <2>1
    <3> QED BY <1>7, <3>1, SendSteady
  <2>2. CASE ~fastRetry
    BY <1>7, <2>2
  <2> QED BY <2>1, <2>2
<1> HIDE DEF w3, fr2
<1>9. Steady(v, L, U, z, n)
  <2>1. base \in SeqNr
    BY SeqModAssumption DEF wrapping_add, SeqNr
  <2>2. ASSUME NEW i \in mask PROVE SelSeq(base, i) \notin L
    <3>1. i \in Nat /\ i <= EackBits - 1 /\ EackBits \in Nat /\ EackBits < SeqMod
      BY SendAssumption
    <3>2. SelSeq(base, i) = wrapping_add(ack_nr, i + 2) /\ SelSeq(base, i) \in SeqNr
      BY <2>1, <3>1, SeqModAssumption DEF SelSeq, wrapping_add, SeqNr
    <3>3. SelSeq(base, i) \in T
      BY <3>2 DEF T, Told
    <3> QED BY <3>3 DEF L
  <2> HIDE DEF base
  <2> QED BY <1>8, <2>1, <2>2, SelectiveAckSteady
<1> HIDE DEF v, timedOut, fastRetry, fr1
<1>10. AckOutcome(flags, ack_nr, mask, ms, ps).win = v
  BY Zenon DEF AckOutcome, v, timedOut, fastRetry, fr2, fr1, base, w3, w2, ws, wa, w1, f, acks
<1>11. \/ (Connects(flags) => is_full(f, 0, ms)) /\ Steady(v, P \ T, P, s, n)
       \/ Connects(flags) /\ Steady(v, (P \cup {s}) \ T, P \cup {s}, wrapping_add(s, 1), n)
  BY <1>3, <1>9 DEF L
<1> QED BY <1>10, <1>11 DEF T, f

\* check_timeouts forgets nothing and sends only packets of the window.
LEMMA TimeoutsSteady ==
  ASSUME WindowOK(win), NEW rto, NEW zw, NEW probeLost, NEW ps, CheckTimeouts(rto, zw, probeLost, ps),
         NEW P, P = Present(win), NEW s, s = win.seq_nr, NEW n, n = win.written
  PROVE  Steady(win', P, P, s, n)
<1> DEFINE killed == rto /\ (state = "SynRecv" \/ TooManyTimeouts)
           timedOut == rto /\ ~killed
           f == Fresh(win)
           flushed == IF state = "Destroy" THEN f
                      ELSE flush_packets(f, max_send(max_window, max_window_user), packet_size)
           lost == IF timedOut THEN MarkLost(flushed) ELSE flushed
           w == IF timedOut THEN ResendOldest(lost) ELSE lost
<1>1. win' = w
  BY Zenon DEF CheckTimeouts
<1> HIDE DEF timedOut
<1>2. Steady(f, P, P, s, n)
  BY ShapeOfType, FreshSteady DEF WindowOK
<1> HIDE DEF f
<1>3. Steady(flushed, P, P, s, n)
  BY <1>2, FlushSteady
<1> HIDE DEF flushed
<1>4. Steady(lost, P, P, s, n)
  BY <1>3, MarkLostSteady
<1> HIDE DEF lost
<1>5. Steady(w, P, P, s, n)
  BY <1>4, ResendOldestSteady
<1> QED BY <1>1, <1>5

-----------------------------------------------------------------------------
(* Packets that wait to be filled up.  A window is Filled when none does that   *)
(* is still empty.                                                           *)

Filled(v) == \A q \in Present(v) : v.outbuf[q].sent \/ v.outbuf[q].payload > 0

\* A window stays Filled when what is added is sent or has bytes.
LEMMA FilledKept ==
  ASSUME NEW w, Filled(w), NEW v, Writes(w, v),
         \A q \in Present(v) \ Present(w) : v.outbuf[q].sent \/ v.outbuf[q].payload > 0
  PROVE  Filled(v)
BY DEF Filled, Writes, Frozen

\* A write takes a new number unless it fills up a packet that waits.
LEMMA WriteSteps ==
  ASSUME IInv, NEW n \in Nat \ {0}, Write(n),
         NEW P, P = Present(win), NEW s, s = win.seq_nr, NEW m, m = win.written
  PROVE  /\ \/ Steady(win', P, P, s, m)
            \/ /\ \E q \in P : ~win.outbuf[q].sent /\ win.outbuf[q].payload < packet_size
               /\ Steady(win', P, P, s, m + n)
            \/ Steady(win', P \cup {s}, P \cup {s}, wrapping_add(s, 1), m + n)
         /\ Filled(win) => Filled(win')
         /\ ~closed /\ ~fin_sent /\ state = "Connected" /\ state' \in Established
         /\ UNCHANGED <<fin_sent, fin_sent_acked, close_requested, closed>>
         /\ m + n <= MaxBytes
<1> DEFINE f == Fresh(win)
           v == write_outgoing_packet(f, n, "DATA", max_send(max_window, max_window_user), packet_size)
<1>0. /\ WindowOK(win) /\ packet_size \in Nat /\ Shape(win)
      /\ Writes(win, f) /\ Writes(win, v)
  <2>1. WindowOK(win) /\ packet_size \in Nat
    BY SendAssumption DEF IInv, TypeOK
  <2>2. Shape(win)
    BY <2>1, ShapeOfType DEF WindowOK
  <2>3. n \in Nat
    OBVIOUS
  <2> QED BY <2>1, <2>2, <2>3, AppWrites
<1>1. WindowOK(f) /\ SameFrame(win, f) /\ Present(f) = P /\ f.outbuf = win.outbuf /\ f.tx = {} /\ Steady(f, P, P, s, m)
  <2>1. f.tx = {} /\ f.outbuf = win.outbuf
    BY <1>0 DEF Fresh, Shape, WindowFields
  <2> QED BY <1>0, <2>1, FreshOK, FreshSteady
<1>2. /\ ~closed /\ ~fin_sent /\ state = "Connected" /\ state' \in Established
      /\ UNCHANGED <<fin_sent, fin_sent_acked, close_requested, closed>>
      /\ m + n <= MaxBytes
  BY DEF Write, Established, finVars
<1>3. win' = f \/ win' = v
  BY DEF Write
<1>4. \/ extend_last(f, n, packet_size) /\ Steady(v, P, P, s, m + n)
      \/ /\ Steady(v, P \cup {s}, P \cup {s}, wrapping_add(s, 1), m + n)
         /\ v.outbuf[s].payload > 0
  <2>1. f.seq_nr = s /\ f.written = m /\ n \in Nat /\ n > 0
    BY <1>1 DEF SameFrame
  <2> HIDE DEF f
  <2> QED BY <1>0, <1>1, <2>1, WriteOutgoingSteady
<1>5. extend_last(f, n, packet_size) =>
        \E q \in P : ~win.outbuf[q].sent /\ win.outbuf[q].payload < packet_size
  BY <1>1 DEF extend_last
<1> HIDE DEF f, v
<1>6. Filled(win) => Filled(f)
  BY <1>0, <1>1 DEF Filled, Present
<1>7. Filled(win) => Filled(v)
  <2>1. \A q \in Present(v) \ Present(win) : v.outbuf[q].sent \/ v.outbuf[q].payload > 0
    BY <1>4 DEF Steady
  <2> QED BY <1>0, <2>1, FilledKept
<1>8. CASE win' = f
  BY <1>1, <1>2, <1>6, <1>8
<1>9. CASE win' = v
  BY <1>2, <1>4, <1>5, <1>7, <1>9
<1> QED BY <1>3, <1>8, <1>9

\* Closing takes one more number, for the FIN, if the connection is established.
LEMMA CloseSteps ==
  ASSUME IInv, Close, NEW P, P = Present(win), NEW s, s = win.seq_nr, NEW m, m = win.written
  PROVE  /\ \/ /\ Steady(win', P, P, s, m) /\ fin_sent' = fin_sent
               /\ state \in Established => fin_sent
            \/ /\ Steady(win', P \cup {s}, P \cup {s}, wrapping_add(s, 1), m)
               /\ state \in Established /\ ~fin_sent /\ fin_sent' = TRUE
         /\ fin_sent' = fin_sent => (Filled(win) => Filled(win'))
         /\ closed' = TRUE /\ state' # "SynSent" /\ (state' \in Established => state \in Established)
         /\ fin_sent_acked' = fin_sent_acked
<1> DEFINE f == Fresh(win)
           v == write_outgoing_packet(f, 0, "FIN", max_send(max_window, max_window_user), packet_size)
<1>0. WindowOK(win) /\ packet_size \in Nat /\ Shape(win) /\ fin_sent \in BOOLEAN
  <2>1. WindowOK(win) /\ packet_size \in Nat /\ fin_sent \in BOOLEAN
    BY SendAssumption DEF IInv, TypeOK
  <2> QED BY <2>1, ShapeOfType DEF WindowOK
<1>1. WindowOK(f) /\ SameFrame(win, f) /\ Present(f) = P /\ f.outbuf = win.outbuf /\ f.tx = {} /\ Steady(f, P, P, s, m)
  <2>1. f.tx = {} /\ f.outbuf = win.outbuf
    BY <1>0 DEF Fresh, Shape, WindowFields
  <2> QED BY <1>0, <2>1, FreshOK, FreshSteady
<1>2. Steady(v, P \cup {s}, P \cup {s}, wrapping_add(s, 1), m)
  <2>1. f.seq_nr = s /\ f.written = m /\ 0 \in Nat /\ m + 0 = m
    BY <1>0, <1>1, SendAssumption DEF SameFrame, WindowOK, WindowType
  <2>2. ~extend_last(f, 0, packet_size)
    BY DEF extend_last
  <2> HIDE DEF f
  <2>3. Steady(v, P \cup {s}, P \cup {s}, wrapping_add(s, 1), m + 0)
    BY <1>0, <1>1, <2>1, <2>2, WriteOutgoingSteady
  <2> QED BY <2>1, <2>3
<1>3. Filled(win) => Filled(f)
  BY <1>1 DEF Filled, Present
<1>4. /\ closed' = TRUE /\ state' # "SynSent" /\ (state' \in Established => state \in Established)
      /\ fin_sent_acked' = fin_sent_acked
  BY DEF Close, Established
<1>5. CASE state \in Established /\ ~fin_sent
  <2>1. win' = v /\ fin_sent' = TRUE
    BY <1>5 DEF Close
  <2> HIDE DEF v
  <2> QED BY <1>0, <1>2, <1>4, <1>5, <2>1
<1>6. CASE ~(state \in Established /\ ~fin_sent)
  <2>1. win' = f /\ fin_sent' = fin_sent
    BY <1>0, <1>6 DEF Close
  <2> HIDE DEF f
  <2> QED BY <1>0, <1>1, <1>3, <1>4, <1>6, <2>1
<1> QED BY <1>5, <1>6

\* A timeout check takes no number.
LEMMA TimeoutSteps ==
  ASSUME IInv, NEW rto, NEW zw, NEW probeLost, NEW ps, CheckTimeouts(rto, zw, probeLost, ps)
  PROVE  /\ Steady(win', Present(win), Present(win), win.seq_nr, win.written)
         /\ Filled(win) => Filled(win')
         /\ win'.cur_window_packets = win.cur_window_packets
         /\ (state' \in Established => state \in Established) /\ (state' = "SynSent" => state = "SynSent")
         /\ UNCHANGED <<fin_sent, fin_sent_acked, closed>>
<1>0. TypeOK /\ WindowOK(win)
  BY DEF IInv
<1>1. Steady(win', Present(win), Present(win), win.seq_nr, win.written) /\ Writes(win, win')
  BY <1>0, TimeoutsSteady, TimeoutsWrites
<1>2. Filled(win) => Filled(win')
  <2>1. Present(win') \ Present(win) = {}
    BY <1>1 DEF Steady
  <2> QED BY <1>1, <2>1, FilledKept
<1>3. /\ (state' \in Established => state \in Established) /\ (state' = "SynSent" => state = "SynSent")
      /\ UNCHANGED <<fin_sent, fin_sent_acked, closed>>
  BY Zenon DEF CheckTimeouts, BecomesWritable, Established, finVars
<1>4. win'.cur_window_packets = win.cur_window_packets
  <2> DEFINE killed == rto /\ (state = "SynRecv" \/ TooManyTimeouts)
             timedOut == rto /\ ~killed
             f == Fresh(win)
             flushed == IF state = "Destroy" THEN f
                        ELSE flush_packets(f, max_send(max_window, max_window_user), packet_size)
             lost == IF timedOut THEN MarkLost(flushed) ELSE flushed
             w == IF timedOut THEN ResendOldest(lost) ELSE lost
  <2>1. win' = w
    BY Zenon DEF CheckTimeouts
  <2> HIDE DEF timedOut
  <2>2. WindowOK(f) /\ f.cur_window_packets = win.cur_window_packets
    BY <1>0, FreshOK DEF SameFrame
  <2> HIDE DEF f
  <2>3. WindowOK(flushed) /\ flushed.cur_window_packets = win.cur_window_packets
    BY <2>2, FlushOK DEF SameFrame
  <2> HIDE DEF flushed
  <2>4. WindowOK(lost) /\ lost.cur_window_packets = win.cur_window_packets
    BY <2>3, MarkLostOK DEF SameFrame
  <2> HIDE DEF lost
  <2>5. w.cur_window_packets = win.cur_window_packets
    BY <2>4, ResendOldestOK DEF SameFrame
  <2> QED BY <2>1, <2>5
<1> QED BY <1>1, <1>2, <1>3, <1>4

\* An ack forgets only what it has told, and lets the FIN count as acked only
\* when it reaches the end of the window.
LEMMA AckSteps ==
  ASSUME IInv, state # "SynSent", NEW ack_nr \in SeqNr, NEW mask \in SUBSET (0 .. EackBits - 1),
         NEW wnd, NEW cw, NEW ps \in Nat, NEW decay, NEW eof,
         ProcessIncoming("STATE", ack_nr, mask, wnd, cw, ps, decay, eof)
  PROVE  /\ Steady(win', Present(win) \ Told(ack_nr, mask), Present(win), win.seq_nr, win.written)
         /\ Filled(win) => Filled(win')
         /\ (state' \in Established => state \in Established) /\ state' # "SynSent"
         /\ UNCHANGED <<fin_sent, closed>>
         /\ fin_sent_acked' =>
              \/ fin_sent_acked
              \/ fin_sent /\ win.cur_window_packets = Acks(win, ack_nr)
<1>0. TypeOK /\ WindowOK(win) /\ OldestOK(win)
  BY DEF IInv
<1>1. ~Connects("STATE")
  BY DEF Connects
<1>2. PICK v : v = AckOutcome("STATE", ack_nr, mask, max_send(cw, wnd), ps).win
  OBVIOUS
<1>3. win' = v
  BY <1>2 DEF ProcessIncoming
<1>4. Steady(v, Present(win) \ Told(ack_nr, mask), Present(win), win.seq_nr, win.written)
  BY <1>0, <1>1, <1>2, AckOutcomeSteady
<1>5. Writes(win, v)
  BY <1>0, <1>2, AckOutcomeWrites
<1>6. Filled(win) => Filled(v)
  <2>1. Present(v) \ Present(win) = {}
    BY <1>4 DEF Steady
  <2> QED BY <1>5, <2>1, FilledKept
<1>7. /\ (state' \in Established => state \in Established) /\ state' # "SynSent"
      /\ UNCHANGED <<fin_sent, closed>>
      /\ fin_sent_acked' => fin_sent_acked \/ (fin_sent /\ win.cur_window_packets = Acks(win, ack_nr))
  <2> DEFINE finAcked == ~Connects("STATE") /\ fin_sent /\ win.cur_window_packets = Acks(win, ack_nr)
             st1 == CASE "STATE" = "DATA" /\ state = "SynRecv" -> "Connected"
                      [] Connects("STATE") -> IF is_full(win, 0, max_send(cw, wnd))
                                              THEN "ConnectedFull" ELSE "Connected"
                      [] finAcked /\ close_requested -> "Destroy"
                      [] OTHER -> state
  <2>1. st1 = state \/ st1 = "Destroy"
    BY <1>1
  <2>2. \/ state' = st1
        \/ st1 = "ConnectedFull" /\ state' = "Connected"
    BY Zenon DEF ProcessIncoming, BecomesWritable
  <2>3. UNCHANGED <<fin_sent, closed>> /\ fin_sent_acked' = (fin_sent_acked \/ finAcked)
    BY DEF ProcessIncoming
  <2> HIDE DEF st1
  <2> QED BY <2>1, <2>2, <2>3 DEF Established
<1> QED BY <1>3, <1>4, <1>6, <1>7

\* An ack that reaches the end of the window has told all of it.
LEMMA AllTold ==
  ASSUME WindowOK(win), NEW ack_nr \in SeqNr, NEW mask,
         win.cur_window_packets = Acks(win, ack_nr)
  PROVE  Present(win) \subseteq Told(ack_nr, mask)
<1> SUFFICES ASSUME NEW q \in Present(win) PROVE q \in Told(ack_nr, mask)
  OBVIOUS
<1>1. /\ q \in SeqNr /\ win.seq_nr \in SeqNr /\ Dist(win, q) \in 1 .. win.cur_window_packets
      /\ win.cur_window_packets \in Nat /\ win.cur_window_packets \in SeqNr
  BY SendAssumption, SeqModAssumption DEF WindowOK, WindowType, InWindow, Present, SeqNr
<1>2. wrapping_sub(q, Oldest(win)) = win.cur_window_packets - Dist(win, q)
  BY <1>1, DistFromOldest DEF Dist, Oldest
<1>3. wrapping_sub(q, Oldest(win)) < win.cur_window_packets
  BY <1>1, <1>2
<1>4. win.cur_window_packets <= Acks(win, ack_nr)
  BY <1>1
<1>5. wrapping_sub(ack_nr, q) < SeqMod \div 2
  BY <1>1, <1>3, <1>4, CumulativeTold
<1> QED BY <1>1, <1>5 DEF Told

\* Nothing but a SYN in the window, nothing in flight counts.
LEMMA OnlySyn ==
  ASSUME WindowOK(win), win.written = 0
  PROVE  /\ \A q \in Present(win) : win.outbuf[q].payload = 0
         /\ win.cur_window = 0
<1>1. ASSUME NEW q \in Present(win) PROVE win.outbuf[q].payload = 0
  <2>1. win.outbuf[q].payload \in Nat /\ win.outbuf[q].first \in Nat
    BY SendAssumption DEF WindowOK, WindowType, PacketType, Present
  <2>2. win.outbuf[q].first + win.outbuf[q].payload <= 0
    BY DEF WindowOK, Ordered
  <2> QED BY <2>1, <2>2
<1>2. \A q \in InFlight(win) : 1 .. win.outbuf[q].payload = {}
  BY <1>1 DEF InFlight
<1>3. UNION {{q} \X (1 .. win.outbuf[q].payload) : q \in InFlight(win)} = {}
  BY <1>2
<1>4. Bytes(win.outbuf, InFlight(win)) = 0
  BY <1>3, FS_EmptySet DEF Bytes
<1> QED BY <1>1, <1>4 DEF WindowOK, Accounted

\* The SYN-ACK: the SYN leaves the window, the empty write enters it and, alone
\* there, goes out at once.
LEMMA ConnectFills ==
  ASSUME IInv, state = "SynSent", win.written = 0, win.cur_window_packets = 1, Filled(win),
         NEW ms \in Nat, NEW ps \in Nat, NEW s, s = win.seq_nr, NEW w1, NEW w2,
         w1 = EmptyWrite(Fresh(win), ms, ps),
         w2 = FlushNagle(ShrinkWindow(AckLoop(w1, Acks(win, Last(win)))))
  PROVE  Filled(w2) /\ Shape(w2) /\ ~is_full(Fresh(win), 0, ms)
<1> DEFINE f == Fresh(win)
           u == write_outgoing_packet(f, 0, "DATA", ms, ps)
           o == Last(win)
           P == Present(win)
<1>0. /\ WindowOK(win) /\ OldestOK(win) /\ s \in SeqNr /\ s \in Nat /\ s < SeqMod /\ P \subseteq SeqNr
      /\ SeqMod \in Nat /\ SeqMod >= 2 /\ OUTGOING_BUFFER_MAX_SIZE >= 3 /\ OUTGOING_BUFFER_MAX_SIZE \in Nat
  BY SendAssumption, SeqModAssumption DEF IInv, WindowOK, WindowType, Present, SeqNr
<1>1. /\ o \in SeqNr /\ o = wrapping_sub(s, 1) /\ o = Oldest(win) /\ P = {o}
      /\ s = wrapping_add(o, 1) /\ o # s
  <2>1. o \in SeqNr /\ o = wrapping_sub(s, 1) /\ o = Oldest(win) /\ s = wrapping_add(o, 1) /\ o # s
    BY <1>0 DEF Last, Oldest, wrapping_sub, wrapping_add, SeqNr
  <2>2. o \in P
    BY <1>0, <2>1 DEF OldestOK
  <2>3. ASSUME NEW q \in P PROVE q = o
    <3>1. q \in SeqNr /\ Dist(win, q) = 1
      BY <1>0 DEF WindowOK, InWindow
    <3> QED BY <1>0, <2>1, <3>1 DEF Dist, wrapping_sub, SeqNr
  <2> QED BY <2>1, <2>2, <2>3
<1>2. win.outbuf[o].sent /\ win.cur_window = 0
  <2>1. win.cur_window = 0 /\ win.outbuf[o].payload = 0
    BY <1>0, <1>1, OnlySyn
  <2> QED BY <1>1, <2>1 DEF Filled
<1>3. /\ WindowOK(f) /\ OldestOK(f) /\ SameFrame(win, f) /\ Present(f) = P /\ f.tx = {}
      /\ f.cur_window = 0
  <2>1. Shape(win)
    BY <1>0, ShapeOfType DEF WindowOK
  <2>2. f.tx = {}
    BY <2>1 DEF Fresh, Shape, WindowFields
  <2> QED BY <1>0, <1>2, <2>2, FreshOK
<1>4. /\ f.cur_window_packets = 1 /\ f.seq_nr = s /\ f.written = 0
      /\ ~is_full(f, 0, ms)
  <2>1. f.cur_window_packets = 1 /\ f.seq_nr = s /\ f.written = 0
    BY <1>3 DEF SameFrame
  <2> HIDE DEF f
  <2> QED BY <1>0, <1>3, <2>1 DEF is_full
<1>5. w1 = u
  BY <1>4 DEF EmptyWrite
<1>6. Steady(u, P \cup {s}, P \cup {s}, wrapping_add(s, 1), 0)
  <2>1. ~extend_last(f, 0, ps)
    BY DEF extend_last
  <2>2. 0 \in Nat /\ 0 + 0 = 0
    OBVIOUS
  <2> HIDE DEF f
  <2> QED BY <1>3, <1>4, <2>1, <2>2, WriteOutgoingSteady
<1>7. WindowOK(u) /\ u.cur_window_packets = 2
  <2>1. f.cur_window_packets < OUTGOING_BUFFER_MAX_SIZE /\ f.written + 0 <= MaxBytes
    BY <1>0, <1>4, SendAssumption
  <2>2. 0 \in Nat /\ "DATA" \in {"SYN", "DATA", "FIN"}
    OBVIOUS
  <2> HIDE DEF f
  <2>3. /\ WindowOK(u)
        /\ u.cur_window_packets \in f.cur_window_packets .. f.cur_window_packets + 1
        /\ u.seq_nr = IF u.cur_window_packets = f.cur_window_packets THEN f.seq_nr
                      ELSE wrapping_add(f.seq_nr, 1)
    BY <1>3, <2>1, <2>2, WriteOutgoingOK
  <2>4. u.seq_nr = wrapping_add(s, 1) /\ wrapping_add(s, 1) # s
    BY <1>0, <1>6 DEF Steady, wrapping_add
  <2> QED BY <1>4, <2>3, <2>4
<1>8. u.outbuf[o].sent
  <2>1. Writes(f, u)
    BY <1>3, WriteOutgoingWrites
  <2>2. f.outbuf[o].sent
    BY <1>0, <1>2, ShapeOfType DEF Fresh, WindowOK, Shape, WindowFields
  <2> HIDE DEF f, u
  <2>3. o \in Present(f) \cap Present(u)
    BY <1>1, <1>3, <1>6 DEF Steady
  <2> QED BY <2>1, <2>2, <2>3 DEF Writes, Frozen
<1> HIDE DEF u
<1>9. Oldest(u) = o
  <2>1. u.seq_nr = wrapping_add(s, 1)
    BY <1>6 DEF Steady
  <2> QED BY <1>0, <1>1, <1>7, <2>1 DEF Oldest, wrapping_add, wrapping_sub
<1>10. Acks(win, o) = 1
  <2>1. wrapping_sub(o, wrapping_sub(o, 1)) = 1
    BY <1>0, <1>1 DEF wrapping_sub, SeqNr
  <2> QED BY <2>1 DEF Acks
<1>11. AckedCount(u, 1) = 1
  <2>1. ASSUME NEW i \in 0 .. 1 - 1 PROVE u.outbuf[wrapping_add(Oldest(u), i)].sent
    <3>1. i = 0
      BY <2>1
    <3>2. wrapping_add(o, 0) = o
      BY <1>0, <1>1 DEF wrapping_add, SeqNr
    <3> QED BY <1>8, <1>9, <3>1, <3>2
  <2>2. {i \in 0 .. 1 - 1 : LET q == wrapping_add(Oldest(u), i) IN q \in Present(u) /\ ~u.outbuf[q].sent} = {}
    BY <2>1
  <2>3. AckedCount(u, 1) = Min({1})
    BY <2>2 DEF AckedCount
  <2> QED BY <2>3 DEF Min
<1>12. AckedSeqs(u, 1) = {o}
  <2>1. wrapping_sub(o, o) = 0 /\ wrapping_sub(s, o) = 1 /\ Present(u) = {o, s}
    BY <1>0, <1>1, <1>6 DEF wrapping_sub, SeqNr, Steady
  <2> QED BY <1>9, <1>11, <2>1 DEF AckedSeqs
<1> DEFINE wa == AckLoop(u, 1)
           ws == ShrinkWindow(wa)
<1>13. WindowOK(wa) /\ wa.seq_nr = wrapping_add(s, 1) /\ wa.cur_window_packets = 1 /\ Present(wa) = {s}
  <2>1. 1 \in 0 .. u.cur_window_packets
    BY <1>7
  <2>2. /\ WindowOK(wa) /\ wa.seq_nr = u.seq_nr
        /\ wa.cur_window_packets = u.cur_window_packets - AckedCount(u, 1)
    BY <1>7, <2>1, AckLoopOK
  <2>3. Present(wa) = Present(u) \ AckedSeqs(u, 1)
    BY <1>6 DEF AckLoop, ack_packets, Present, Steady, Shape, WindowFields
  <2> HIDE DEF wa
  <2> QED BY <1>1, <1>6, <1>7, <1>11, <1>12, <2>2, <2>3 DEF Steady
<1> HIDE DEF wa
<1>14. WindowOK(ws) /\ ws.seq_nr = wrapping_add(s, 1) /\ ws.cur_window_packets = 1 /\ Present(ws) = {s}
  <2>1. WindowOK(ws) /\ ws.seq_nr = wa.seq_nr /\ ws.cur_window_packets <= wa.cur_window_packets
    BY <1>13, ShrinkWindowOK
  <2>2. Present(ws) = Present(wa)
    BY <1>13 DEF ShrinkWindow, WindowOK, WindowType, WindowFields, Present
  <2> HIDE DEF ws
  <2>3. ws.cur_window_packets \in Nat /\ Dist(ws, s) \in 1 .. ws.cur_window_packets
    BY <1>13, <2>1, <2>2, SendAssumption DEF WindowOK, WindowType, InWindow
  <2> QED BY <1>13, <2>1, <2>2, <2>3
<1> HIDE DEF ws
<1>15. w2 = FlushNagle(ws)
  BY <1>5, <1>10 DEF ws, wa
<1>16. Last(ws) = s
  BY <1>0, <1>14 DEF Last, wrapping_add, wrapping_sub
<1>17. Shape(ws)
  BY <1>14, ShapeOfType DEF WindowOK
<1>18. CASE ws.outbuf[s].sent
  <2>1. w2 = ws
    BY <1>15, <1>16, <1>18 DEF FlushNagle
  <2> QED BY <1>4, <1>14, <1>17, <1>18, <2>1 DEF Filled
<1>19. CASE ~ws.outbuf[s].sent
  <2> DEFINE z == send_packets(ws, {s})
  <2>1. w2 = z
    BY <1>14, <1>15, <1>16, <1>19 DEF FlushNagle
  <2>2. Shape(z) /\ Present(z) = {s}
    <3>1. Shape(z)
      BY <1>17, SendShrinks DEF Shrinks
    <3>2. Present(z) = Present(ws)
      BY <1>17 DEF send_packets, Present, Shape, WindowFields
    <3> QED BY <1>14, <3>1, <3>2
  <2>3. z.outbuf[s].sent
    <3>1. z.outbuf[s] = [ws.outbuf[s] EXCEPT !.sent = TRUE, !.need_resend = FALSE]
      BY <1>14, <1>17 DEF send_packets, Present, Shape, WindowFields
    <3>2. DOMAIN ws.outbuf[s] = PacketFields
      BY <1>14, <1>17 DEF Shape
    <3> QED BY <3>1, <3>2 DEF PacketFields
  <2> HIDE DEF z
  <2> QED BY <1>4, <2>1, <2>2, <2>3 DEF Filled
<1> QED BY <1>18, <1>19

\* The ack that completes the handshake takes the SYN and adds the empty write.
LEMMA ConnectSteps ==
  ASSUME IInv, state = "SynSent", win.written = 0, win.cur_window_packets = 1, Filled(win),
         NEW mask \in SUBSET (0 .. EackBits - 1), NEW wnd \in Nat, NEW cw \in Nat, NEW ps \in Nat,
         NEW decay, NEW eof, ProcessIncoming("STATE", Last(win), mask, wnd, cw, ps, decay, eof),
         NEW P, P = Present(win), NEW s, s = win.seq_nr
  PROVE  /\ Steady(win', (P \cup {s}) \ Told(Last(win), mask), P \cup {s}, wrapping_add(s, 1), 0)
         /\ Filled(win')
         /\ state' \in Established
         /\ UNCHANGED <<fin_sent, fin_sent_acked, closed>>
<1> DEFINE ms == max_send(cw, wnd)
           ack_nr == Last(win)
           acks == Acks(win, ack_nr)
           base == wrapping_add(ack_nr, 2)
           w1  == EmptyWrite(Fresh(win), ms, ps)
           w2  == FlushNagle(ShrinkWindow(AckLoop(w1, acks)))
           fr1 == IF wrapping_compare_less(fast_resend_seq_nr, wrapping_add(ack_nr, 1))
                  THEN wrapping_add(ack_nr, 1) ELSE fast_resend_seq_nr
           timedOut  == fast_timeout /\ Oldest(w2) = fr1
           fastRetry == timedOut /\ Oldest(w2) \in Present(w2) /\ w2.outbuf[Oldest(w2)].sent
           w3  == IF fastRetry THEN send_packets(w2, {Oldest(w2)}) ELSE w2
           fr2 == IF fastRetry THEN wrapping_add(fr1, 1) ELSE fr1
           v   == selective_ack(w3, base, mask, fr2)
<1>0. TypeOK /\ WindowOK(win) /\ OldestOK(win) /\ fin_sent_acked \in BOOLEAN /\ Connects("STATE") /\ ms \in Nat
      /\ ack_nr \in SeqNr
  <2>1. TypeOK /\ WindowOK(win) /\ OldestOK(win) /\ fin_sent_acked \in BOOLEAN /\ Connects("STATE")
    BY DEF IInv, TypeOK, Connects
  <2>2. ack_nr \in SeqNr
    BY <2>1, SeqModAssumption DEF Last, wrapping_sub, WindowOK, WindowType, SeqNr
  <2> QED BY <2>1, <2>2, MaxSendType
<1> HIDE DEF ms
<1>1. Filled(w2) /\ Shape(w2) /\ ~is_full(Fresh(win), 0, ms)
  BY <1>0, ConnectFills
<1> HIDE DEF ack_nr
<1>2. win' = AckOutcome("STATE", ack_nr, mask, ms, ps).win
  BY DEF ProcessIncoming, ms, ack_nr
<1>3. Steady(win', (P \cup {s}) \ Told(ack_nr, mask), P \cup {s}, wrapping_add(s, 1), 0)
  BY <1>0, <1>1, <1>2, AckOutcomeSteady
<1>4. win' = v
  <2> HIDE DEF w1, acks, base, fr1, timedOut, fastRetry, fr2, w3, w2, v
  <2>1. AckOutcome("STATE", ack_nr, mask, ms, ps).win = v
    BY <1>0, Zenon DEF AckOutcome, v, timedOut, fastRetry, fr2, fr1, base, w3, w2, w1, acks
  <2> QED BY <1>2, <2>1
<1> HIDE DEF w2
<1>5. Shrinks(w2, w3)
  <2>1. CASE fastRetry
    BY <1>1, <2>1, SendShrinks
  <2>2. CASE ~fastRetry
    BY <1>1, <2>2 DEF Shrinks, Frozen
  <2> QED BY <2>1, <2>2
<1> HIDE DEF w3, fr2, base
<1>6. Shrinks(w2, v)
  <2>1. Shrinks(w3, v)
    BY <1>5, SelectiveAckShrinks DEF Shrinks
  <2> HIDE DEF v
  <2> QED BY <1>5, <2>1, ShrinksTwice
<1> HIDE DEF v
<1>7. Filled(v)
  BY <1>1, <1>6 DEF Filled, Shrinks, Frozen
<1>8. state' \in Established /\ UNCHANGED <<fin_sent, fin_sent_acked, closed>>
  <2> DEFINE st1 == IF is_full(win, 0, max_send(cw, wnd)) THEN "ConnectedFull" ELSE "Connected"
  <2>1. state' = st1 \/ state' = "Connected"
    BY <1>0, Zenon DEF ProcessIncoming, Connects
  <2>2. fin_sent_acked' = (fin_sent_acked \/ FALSE) /\ UNCHANGED <<fin_sent, closed>>
    BY <1>0 DEF ProcessIncoming
  <2> QED BY <1>0, <2>1, <2>2 DEF Established
<1> QED BY <1>3, <1>4, <1>7, <1>8 DEF ack_nr
=============================================================================

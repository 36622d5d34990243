------------------------------- MODULE UtpRecv -------------------------------
(***************************************************************************)
(* The receive half of a UtpSock (engine.rs): the reorder buffer, the       *)
(* cumulative and selective acks it sends, the end of the stream and the    *)
(* receive window, with the reads the application does through Conn.        *)
(*                                                                          *)
(* The peer has numbered its packets 1 .. Packets; packet i has sequence    *)
(* number isn + i.  The network may lose, repeat, delay and reorder them:   *)
(* any packet may arrive at any time, any number of times.  Their ack side  *)
(* is UtpSend's; a packet whose ack_nr is refused counts as lost here.      *)
(*                                                                          *)
(* One action is one critical section of Shared.inner.  The acks scheduled  *)
(* in it are issued before the lock is released (issue_deferred_acks in the *)
(* reader loop and in Conn::recv), so ack_list is empty between actions.    *)
(***************************************************************************)
EXTENDS CircularBuffer, Sequences, FiniteSets

SX == INSTANCE SequencesExt

CONSTANTS
  REORDER_BUFFER_MAX_SIZE, \* how far ahead a packet may be (1024)
  EackWindow,              \* bits of the mask an ack carries (30)
  RingInit,                \* initial size of inbuf (16)
  opt_rcvbuf,              \* receive buffer in bytes
  Packets,                 \* packets of the peer
  Lens,                    \* Lens[i]: payload bytes of packet i
  FinAt,                   \* the packet that is the FIN; Packets + 1 for none
  InitSeqs,                \* sequence numbers the peer may start after
  MaxRead,                 \* bound: bytes of one recv call
  MaxBuilt                 \* bound: windows in headers that are remembered

ASSUME RecvAssumption ==
  /\ REORDER_BUFFER_MAX_SIZE \in Nat \ {0} /\ 2 * REORDER_BUFFER_MAX_SIZE <= SeqMod
  /\ EackWindow \in Nat /\ RingInit \in PowersOfTwo /\ opt_rcvbuf \in Nat
  /\ Packets \in Nat /\ 2 * Packets < SeqMod
  /\ Lens \in [1 .. Packets -> Nat]
  /\ FinAt \in 1 .. Packets + 1 /\ (FinAt <= Packets => Lens[FinAt] = 0)
  /\ FinAt >= Packets         \* the peer writes nothing after its FIN
  /\ None \notin Nat
  /\ InitSeqs \subseteq SeqNr
  /\ MaxRead \in Nat \ {0} /\ MaxBuilt \in Nat

VARIABLES
  isn,              \* sequence number before the peer's first packet
  state,            \* "SynSent", "SynRecv", "Open" (Connected or ConnectedFull),
                    \* "Dead" (Reset or Destroy), "Removed"
  ack_nr,           \* last packet received in order
  inbuf, reorder_count,
  got_fin, eof_pkt, got_fin_reached,
  read_shutdown,
  last_rcv_win,     \* window the socket takes for announced
  read_buf, got_eof, \* ConnCell
  taken,            \* history: bytes the application has read
  tx,               \* the acks the last action put on the wire
  acked,            \* history: packets covered by an ack ever sent
  built,            \* windows in the headers of our own packets in outbuf
  told              \* history: the window in the last datagram sent, and whether
                    \* its header was built before the handler that sent it

finVars  == <<got_fin, eof_pkt, got_fin_reached, got_eof>>
bufVars  == <<ack_nr, inbuf, reorder_count>>
readVars == <<read_buf, taken>>
vars == <<isn, state, bufVars, finVars, read_shutdown, last_rcv_win, readVars, tx, acked,
          built, told>>

-----------------------------------------------------------------------------
(* The peer's packets. *)

Seq_nr(i) == wrapping_add(isn, i)

\* The bytes of the packets up to packet i, and those before it.
Through[i \in 0 .. Packets] == IF i = 0 THEN 0 ELSE Through[i - 1] + Lens[i]
Offset(i) == Through[i - 1]

Payload(i) == [k \in 1 .. Lens[i] |-> Offset(i) + k]

\* Packets received in order, by ack_nr.
Position(ack) == wrapping_sub(ack, isn)

\* The packets an ack tells the peer it need not keep.
Covered(t) ==
  {i \in 1 .. Packets : \/ wrapping_sub(t.ack_nr, Seq_nr(i)) < SeqMod \div 2
                        \/ \E b \in t.mask : Seq_nr(i) = wrapping_add(t.ack_nr, b + 2)}

PutsOut(acks) == tx' = acks /\ acked' = acked \cup UNION {Covered(t) : t \in acks}

\* A handler ends by sending acks that announce its last_rcv_win, or nothing.
Sends(acks) ==
  /\ PutsOut(acks)
  /\ told' = IF acks = {} THEN told ELSE [wnd |-> last_rcv_win', old |-> FALSE]

-----------------------------------------------------------------------------
(* Acks and the receive window. *)

get_rcv_window(rb) == Max({opt_rcvbuf - Len(rb), 0})

\* send_ack: the mask starts at ack + 2, the first packet that can be here.
eack_mask_one_low(ack, b, count, reached) ==
  IF count = 0 \/ reached THEN {}
  ELSE {i \in 0 .. Min({EackWindow, b.size}) - 1 : get(b, ack + i + 3) # None}

eack_mask(ack, b, count, reached) ==
  IF count = 0 \/ reached THEN {}
  ELSE {i \in 0 .. Min({EackWindow, b.size}) - 1 : get(b, ack + i + 2) # None}

AckRecord(ack, b, count, reached) ==
  [ack_nr |-> ack, mask |-> eack_mask(ack, b, count, reached)]

CurrentAck == AckRecord(ack_nr, inbuf, reorder_count, got_fin_reached)

-----------------------------------------------------------------------------
(* process_incoming. *)

seqnr(i) == wrapping_sub(wrapping_sub(Seq_nr(i), ack_nr), 1)

\* A sequence number out of range: nothing changes, an old packet is acked
\* again.
OutOfRange(i) ==
  /\ seqnr(i) >= REORDER_BUFFER_MAX_SIZE
  /\ IF seqnr(i) >= SeqMod - REORDER_BUFFER_MAX_SIZE
     THEN last_rcv_win' = get_rcv_window(read_buf) /\ Sends({CurrentAck})
     ELSE UNCHANGED last_rcv_win /\ Sends({})
  /\ UNCHANGED <<isn, state, bufVars, finVars, read_shutdown, readVars, built>>

\* The state a packet in range finds: DATA completes the handshake of the
\* accepting side, a FIN does not.
StateFor(i) == IF state = "SynRecv" /\ i # FinAt THEN "Open" ELSE state

\* The connection is not in a state that can accept data.
NotAccepted(i) ==
  /\ seqnr(i) < REORDER_BUFFER_MAX_SIZE
  /\ StateFor(i) # "Open"
  /\ Sends({})
  /\ UNCHANGED <<isn, state, bufVars, finVars, read_shutdown, readVars, last_rcv_win, built>>

GotFin(i) == got_fin \/ i = FinAt
EofPkt(i) == IF ~got_fin /\ i = FinAt THEN Seq_nr(i) ELSE eof_pkt

\* The drain loop, after k packets have been taken out of the reorder buffer:
\* it stops at the FIN, when the count is used up, or at a gap.
ReachesFin(i, k) ==
  ~got_fin_reached /\ GotFin(i) /\ EofPkt(i) = wrapping_add(ack_nr, k + 1)

DrainStops(i, k) ==
  ReachesFin(i, k) \/ k = reorder_count \/ get(inbuf, ack_nr + k + 2) = None

\* What the loop hands over: the packet itself, then those it takes out.
Drained_buffer_first(i, k) == Append([n \in 1 .. k |-> get(inbuf, ack_nr + n + 1)], i)
Drained(i, k) == <<i>> \o [n \in 1 .. k |-> get(inbuf, ack_nr + n + 1)]

InOrder(i) ==
  /\ seqnr(i) = 0
  /\ StateFor(i) = "Open"
  /\ LET k == Min({n \in 0 .. reorder_count : DrainStops(i, n)})
         ack == wrapping_add(ack_nr, k + 1)
         fin == ReachesFin(i, k)
         packets == Drained(i, k)
         b == take(inbuf, ack_nr + 2 .. ack_nr + k + 1)
         count == IF fin THEN 0 ELSE reorder_count - k
         rb == IF read_shutdown THEN read_buf
               ELSE read_buf \o SX!FlattenSeq([n \in 1 .. k + 1 |-> Payload(packets[n])])
     IN  /\ ack_nr' = ack
         /\ inbuf' = b
         /\ reorder_count' = count
         /\ read_buf' = rb
         /\ got_fin_reached' = (got_fin_reached \/ fin)
         /\ got_eof' = (got_eof \/ fin)
         /\ last_rcv_win' = get_rcv_window(rb)
         /\ Sends({AckRecord(ack, b, count, got_fin_reached \/ fin)})
  /\ state' = "Open"
  /\ got_fin' = GotFin(i) /\ eof_pkt' = EofPkt(i)
  /\ UNCHANGED <<isn, read_shutdown, taken, built>>

\* An out-of-order packet past the FIN or already here is dropped, with no
\* ack; the ring grows before the duplicate check.
PastFin(i) == GotFin(i) /\ Seq_nr(i) > EofPkt(i)

Grown(i) == ensure_size(inbuf, Seq_nr(i) + 1, seqnr(i) + 1)

Duplicate_never(i) == FALSE
Duplicate(i) == get(Grown(i), Seq_nr(i)) # None

OutOfOrder(i) ==
  /\ seqnr(i) \in 1 .. REORDER_BUFFER_MAX_SIZE - 1
  /\ StateFor(i) = "Open"
  /\ state' = "Open"
  /\ got_fin' = GotFin(i) /\ eof_pkt' = EofPkt(i)
  /\ IF PastFin(i) \/ Duplicate(i)
     THEN /\ inbuf' = IF PastFin(i) THEN inbuf ELSE Grown(i)
          /\ Sends({})
          /\ UNCHANGED <<reorder_count, last_rcv_win>>
     ELSE /\ inbuf' = put(Grown(i), Seq_nr(i), i)
          /\ reorder_count' = reorder_count + 1
          /\ last_rcv_win' = get_rcv_window(read_buf)
          /\ Sends({AckRecord(ack_nr, inbuf', reorder_count', got_fin_reached)})
  /\ UNCHANGED <<isn, ack_nr, got_fin_reached, got_eof, read_shutdown, readVars, built>>

Arrive(i) ==
  /\ state \notin {"SynSent", "Removed"}
  /\ OutOfRange(i) \/ NotAccepted(i) \/ InOrder(i) \/ OutOfOrder(i)

\* write_outgoing_packet puts the window into the header of the packet it makes
\* or fills up.
Builds ==
  /\ last_rcv_win' = get_rcv_window(read_buf)
  /\ built' = IF Cardinality(built) < MaxBuilt THEN built \cup {last_rcv_win'} ELSE built

\* Packets of ours carry ack_nr and no mask.
BareAck == [ack_nr |-> ack_nr, mask |-> {}]

\* The SYN-ACK reaches a dialer.  It carries the sequence number of the first
\* packet to come; the empty write that follows carries an ack.
Connected ==
  /\ state = "SynSent"
  /\ state' = "Open"
  /\ ack_nr' = isn
  /\ Builds
  /\ Sends({[ack_nr |-> isn, mask |-> {}]})
  /\ UNCHANGED <<isn, inbuf, reorder_count, finVars, read_shutdown, readVars>>

-----------------------------------------------------------------------------
(* The application and the timers. *)

\* read_drained: an announcement follows when the window has grown.
OwesUpdate_only_from_zero(rb) == last_rcv_win = 0 /\ get_rcv_window(rb) > 0
OwesUpdate(rb) == get_rcv_window(rb) > last_rcv_win

\* Conn::recv of up to n bytes; only a read that empties the buffer tells the
\* engine.
Recv(n) ==
  /\ read_buf # <<>>
  /\ LET copied == Min({n, Len(read_buf)})
         rb == SubSeq(read_buf, copied + 1, Len(read_buf))
     IN  /\ read_buf' = rb
         /\ taken' = taken \o SubSeq(read_buf, 1, copied)
         /\ IF rb = <<>> /\ state # "Removed" /\ OwesUpdate(rb)
            THEN last_rcv_win' = get_rcv_window(rb) /\ Sends({CurrentAck})
            ELSE UNCHANGED last_rcv_win /\ Sends({})
  /\ UNCHANGED <<isn, state, bufVars, finVars, read_shutdown, built>>

\* What the flush that ends a write or a check puts on the wire: nothing, the
\* packet just built, or last of all one built earlier, for which send_packet_at
\* patches ack_nr and times into the header but leaves the window.
Flushes(last) ==
  \/ last = "none" /\ Sends({})
  \/ last = "new" /\ Sends({BareAck})
  \/ /\ last = "old"
     /\ PutsOut({BareAck})
     /\ \E w \in built : told' = [wnd |-> w, old |-> TRUE]

Flushed == {"none", "new", "old"}

\* A write, or the retransmission of a packet.  A socket in Reset still flushes.
SendData(write, last) ==
  /\ IF write THEN state = "Open" /\ Builds
     ELSE state \in {"Open", "Dead"} /\ last = "old" /\ UNCHANGED <<last_rcv_win, built>>
  /\ Flushes(last)
  /\ UNCHANGED <<isn, state, bufVars, finVars, read_shutdown, readVars>>


KeepAlive ==
  /\ state = "Open" /\ ~read_shutdown
  /\ last_rcv_win' = get_rcv_window(read_buf)
  /\ Sends({AckRecord(wrapping_sub(ack_nr, 1), inbuf, reorder_count, got_fin_reached)})
  /\ UNCHANGED <<isn, state, bufVars, finVars, read_shutdown, readVars, built>>

\* Conn::close writes the FIN; what arrives from now on is acked and thrown away.
Close(last) ==
  /\ state = "Open" /\ ~read_shutdown
  /\ read_shutdown' = TRUE
  /\ Builds
  /\ Flushes(last)
  /\ UNCHANGED <<isn, state, bufVars, finVars, readVars>>

\* An RST, a timeout, a close before the handshake is over; and the removal of
\* the socket from the engine.  A dialer that dies before it connected has
\* received nothing and its peer sends nothing: it counts as removed.
Die(st) ==
  /\ state # "Removed" /\ st \in {"Dead", "Removed"} /\ st # state
  /\ state = "SynSent" => st = "Removed"
  /\ state' = st
  /\ Sends({})
  /\ UNCHANGED <<isn, bufVars, finVars, read_shutdown, readVars, last_rcv_win, built>>

-----------------------------------------------------------------------------

Init ==
  /\ isn \in InitSeqs
  /\ \/ state = "SynSent" /\ ack_nr = 0
     \/ state = "SynRecv" /\ ack_nr = isn
  /\ inbuf = EmptyBuffer(RingInit) /\ reorder_count = 0
  /\ got_fin = FALSE /\ eof_pkt = 0 /\ got_fin_reached = FALSE /\ got_eof = FALSE
  /\ read_shutdown = FALSE
  /\ last_rcv_win = opt_rcvbuf
  /\ read_buf = <<>> /\ taken = <<>>
  /\ tx = {} /\ acked = {}
  /\ built = {} /\ told = [wnd |-> opt_rcvbuf, old |-> FALSE]

Next ==
  \/ \E i \in 1 .. Packets : Arrive(i)
  \/ Connected
  \/ \E n \in 1 .. MaxRead : Recv(n)
  \/ \E write \in BOOLEAN, last \in Flushed : SendData(write, last)
  \/ KeepAlive
  \/ \E last \in Flushed : Close(last)
  \/ \E st \in {"Dead", "Removed"} : Die(st)

Spec == Init /\ [][Next]_vars

\* The peer keeps resending its oldest packet that no ack of ours covers
\* (UtpSend's WaitingIsResolved); nothing is assumed of the others.
OldestUnacked == {i \in 1 .. Packets : i \notin acked /\ \A j \in 1 .. i - 1 : j \in acked}
PeerRetries == \E i \in OldestUnacked : Arrive(i)

\* check_timeouts sends a keep-alive when nothing has been sent for 29 s; and a
\* socket that goes on sending soon has no packet left that was built before, so
\* that all it sends announces the window as a keep-alive does.
FairSpec == Spec /\ WF_vars(PeerRetries) /\ WF_vars(KeepAlive)

-----------------------------------------------------------------------------
(* Properties. *)

Held == {inbuf.slots[s] : s \in DOMAIN inbuf.slots} \ {None}
Received == {i \in 1 .. Packets : state # "SynSent" /\ i <= Position(ack_nr)}

\* Whatever the peer was told it may forget is received in order or still in
\* the reorder buffer, and is there under its own sequence number: an EACK
\* never names a packet that is not here, and none is lost after it was named.
AckedIsKept ==
  \A i \in acked : i \in Received \/ get(inbuf, Seq_nr(i)) = i

\* reorder_count is the number of packets in the reorder buffer: the
\* debug_assert of the drain loop, and what makes send_ack send a mask.
ReorderCountExact == reorder_count = Cardinality(Held)

\* When the last datagram that went out announced a smaller window than there
\* is, bytes are still waiting to be read, and reading the last of them announces
\* the window; the one other cause is that the datagram was a packet whose header
\* had been built before (send_packet_at does not renew its window).
WindowUpdateComing ==
  state # "Removed" /\ told.wnd < get_rcv_window(read_buf) => read_buf # <<>> \/ told.old


Stream == INSTANCE ByteStream WITH
  Total <- Offset(Packets + 1), out <- taken \o read_buf, eof <- got_eof, shut <- read_shutdown

\* The reader sees the bytes of the peer in order, exactly once, and the end
\* after the last: the receive half implements ByteStream.
ImplementsByteStream == Stream!Spec

\* As long as the peer resends its oldest packet the whole stream arrives, the
\* end included.
EofArrives == state = "Open" ~> (got_eof \/ state \in {"Dead", "Removed"})
=============================================================================

------------------------------- MODULE UtpSend -------------------------------
(***************************************************************************)
(* The send half of a UtpSock (engine.rs): the window of unacknowledged     *)
(* packets, retransmission, the peer's window and the connection state,     *)
(* together with the calls the application makes on it through Conn.        *)
(*                                                                          *)
(* The peer is an open environment here: ProcessIncoming takes any ack_nr,  *)
(* selective-ack mask and window, so what this module shows holds whatever  *)
(* the network delivers, forged packets included.                           *)
(*                                                                          *)
(* Abstractions.  A payload is an interval of the byte stream the           *)
(* application writes.  transmissions is kept as "sent at least once", the  *)
(* only thing the window logic asks of it.  Clocks are left out: a timer    *)
(* that is armed may expire at any check_timeouts, and rto_armed stands for *)
(* rto_timeout > 0.  The LEDBAT controller chooses any window of Cwnds; the *)
(* MTU search chooses any packet size of PacketSizes.                       *)
(***************************************************************************)
EXTENDS SeqArith, FiniteSets, FiniteSetsExt

CONSTANTS
  OUTGOING_BUFFER_MAX_SIZE,     \* slots of the outgoing buffer (1024)
  DUPLICATE_ACKS_BEFORE_RESEND, \* later packets acked before a resend (3)
  ACK_NR_ALLOWED_WINDOW,        \* how far behind an ack_nr may be (3)
  MIN_WINDOW_SIZE,              \* smallest congestion window (10)
  PACKET_SIZE,                  \* window assumed after a zero window (1435)
  MaxResends,                   \* packets one EACK may resend (4)
  RetransmitLimit,              \* timeouts before the connection dies (4)
  SynRetransmitLimit,           \* the same while connecting (2)
  opt_sndbuf,                   \* send buffer limit in bytes
  PacketSizes,                  \* packet sizes the MTU search may choose
  Cwnds,                        \* windows the congestion controller may choose
  Windows,                      \* windows the peer may announce
  EackBits,                     \* bits of a selective-ack mask
  RingInit,                     \* initial size of the outbuf ring (16)
  InitSeqs,                     \* initial sequence numbers (random in the code)
  MaxBytes                      \* bound: bytes the application writes

ASSUME SendAssumption ==
  /\ OUTGOING_BUFFER_MAX_SIZE \in Nat /\ OUTGOING_BUFFER_MAX_SIZE >= 3
  /\ 2 * OUTGOING_BUFFER_MAX_SIZE < SeqMod
  /\ DUPLICATE_ACKS_BEFORE_RESEND \in Nat \ {0}
  /\ ACK_NR_ALLOWED_WINDOW \in Nat
  /\ MIN_WINDOW_SIZE \in Nat \ {0}
  /\ MaxResends \in Nat /\ RetransmitLimit \in Nat /\ SynRetransmitLimit \in Nat
  /\ opt_sndbuf \in Nat
  /\ PacketSizes \subseteq Nat \ {0} /\ PacketSizes # {} /\ IsFiniteSet(PacketSizes)
  /\ PACKET_SIZE \in Nat
  /\ Cwnds \subseteq Nat
  /\ Windows \subseteq Nat
  /\ EackBits \in Nat /\ EackBits < SeqMod
  /\ RingInit \in PowersOfTwo
  /\ InitSeqs \subseteq SeqNr
  /\ MaxBytes \in Nat

VARIABLES
  win,                 \* the window: see WindowType
  state,               \* ConnState, and "Removed" once the engine dropped it
  packet_size,         \* get_packet_size()
  max_window,          \* congestion window in bytes
  max_window_user,     \* window the peer last announced
  fast_resend_seq_nr,  \* next packet we may fast-resend
  fast_timeout,
  retransmit_count,
  rto_armed,
  fin_sent, fin_sent_acked, close_requested,
  closed,              \* ConnCell.closed: the application called close
  error                \* ConnCell.error

fastVars  == <<fast_resend_seq_nr, fast_timeout>>
finVars   == <<fin_sent, fin_sent_acked, close_requested>>
limitVars == <<packet_size, max_window, max_window_user>>
vars == <<win, state, limitVars, fastVars, retransmit_count, rto_armed, finVars, closed, error>>

-----------------------------------------------------------------------------
(* The window. *)

\* OutgoingPacket: payload bytes first, first+1, ... of the stream.
PacketType ==
  [kind : {"SYN", "DATA", "FIN"}, first : 0 .. MaxBytes, payload : 0 .. MaxBytes,
   sent : BOOLEAN, need_resend : BOOLEAN]

WireType ==
  [seq : SeqNr, kind : {"SYN", "DATA", "FIN"}, first : 0 .. MaxBytes, payload : 0 .. MaxBytes]

\* seq_nr, cur_window_packets, cur_window and outbuf of UtpSock; ring is the
\* number of slots of outbuf, written the bytes taken from the application,
\* tx the packets the last handler put on the wire.
WindowFields ==
  {"seq_nr", "cur_window_packets", "cur_window", "outbuf", "ring", "written", "tx"}

Present(w) == DOMAIN w.outbuf

\* send_packet_at counts a packet against the window when it was never sent or
\* was declared lost; until then it is not in flight.
InFlight(w) == {q \in Present(w) : w.outbuf[q].sent /\ ~w.outbuf[q].need_resend}
Pending(w)  == Present(w) \ InFlight(w)

\* Distance of q behind seq_nr; the window is the distances 1 .. cur_window_packets.
Dist(w, q) == wrapping_sub(w.seq_nr, q)
Oldest(w)  == wrapping_sub(w.seq_nr, w.cur_window_packets)
Last(w)    == wrapping_sub(w.seq_nr, 1)

\* The payload bytes of the packets of S, counted one by one.
Bytes(ob, S) == Cardinality(UNION {{q} \X (1 .. ob[q].payload) : q \in S})

Wire(w, q) == [seq |-> q, kind |-> w.outbuf[q].kind,
               first |-> w.outbuf[q].first, payload |-> w.outbuf[q].payload]

\* send_packet_at for every packet of S.
send_packets_always_counted(w, S) ==
  [w EXCEPT !.cur_window = @ + Bytes(w.outbuf, S),
            !.outbuf = [q \in Present(w) |->
                          IF q \in S THEN [w.outbuf[q] EXCEPT !.sent = TRUE, !.need_resend = FALSE]
                                     ELSE w.outbuf[q]],
            !.tx = @ \cup {Wire(w, q) : q \in S}]

send_packets(w, S) ==
  [w EXCEPT !.cur_window = @ + Bytes(w.outbuf, S \ InFlight(w)),
            !.outbuf = [q \in Present(w) |->
                          IF q \in S THEN [w.outbuf[q] EXCEPT !.sent = TRUE, !.need_resend = FALSE]
                                     ELSE w.outbuf[q]],
            !.tx = @ \cup {Wire(w, q) : q \in S}]

\* is_full: the packet count, then the bytes against the limit.
is_full_no_fin_slot(w, bytes, limit) ==
  \/ w.cur_window_packets >= OUTGOING_BUFFER_MAX_SIZE
  \/ w.cur_window + bytes > limit

is_full(w, bytes, limit) ==
  \/ w.cur_window_packets >= OUTGOING_BUFFER_MAX_SIZE - 1
  \/ w.cur_window + bytes > limit

\* A full socket is marked writable again once a whole packet fits.
BecomesWritable_never(st, w, ps, limit) == FALSE
BecomesWritable(st, w, ps, limit) == st = "ConnectedFull" /\ ~is_full(w, ps, limit)

\* The packets flush_packets sends: oldest first while a full packet still
\* fits, the last one only if it is alone or full (Nagle).
NagleHolds_not_fin(w, q, ps) ==
  /\ q = Last(w) /\ w.cur_window_packets # 1 /\ w.outbuf[q].payload < ps
  /\ w.outbuf[q].kind # "FIN"

NagleHolds(w, q, ps) ==
  q = Last(w) /\ w.cur_window_packets # 1 /\ w.outbuf[q].payload < ps

Flushed(w, limit, ps) ==
  {q \in Pending(w) :
     LET before == {r \in Pending(w) : Dist(w, r) > Dist(w, q)} IN
     /\ ~is_full([w EXCEPT !.cur_window = @ + Bytes(w.outbuf, before)], ps, limit)
     /\ ~NagleHolds(w, q, ps)}

flush_packets(w, limit, ps) == send_packets(w, Flushed(w, limit, ps))

\* write_outgoing_packet fills the last packet up while it is unsent ...
extend_last_even_sent(w, payload, ps) ==
  /\ payload > 0
  /\ w.cur_window_packets > 0
  /\ Last(w) \in Present(w)
  /\ w.outbuf[Last(w)].payload < ps

extend_last(w, payload, ps) ==
  /\ payload > 0
  /\ w.cur_window_packets > 0
  /\ Last(w) \in Present(w)
  /\ ~w.outbuf[Last(w)].sent
  /\ w.outbuf[Last(w)].payload < ps

Room(w, payload, ps) ==
  IF extend_last(w, payload, ps) THEN Min({payload, ps - w.outbuf[Last(w)].payload}) ELSE 0

FillLast_keeps_input(w, added) ==
  [w EXCEPT !.outbuf = [q \in Present(w) |->
                          IF q = Last(w) THEN [w.outbuf[q] EXCEPT !.payload = @ + added]
                                         ELSE w.outbuf[q]]]

FillLast(w, added) ==
  [w EXCEPT !.outbuf = [q \in Present(w) |->
                          IF q = Last(w) THEN [w.outbuf[q] EXCEPT !.payload = @ + added]
                                         ELSE w.outbuf[q]],
            !.written = @ + added]

\* ... and puts the rest in a new one, growing the ring when it is full.
GrownRing_one_late(w) == IF w.cur_window_packets > w.ring THEN 2 * w.ring ELSE w.ring
GrownRing(w) == IF w.cur_window_packets >= w.ring THEN 2 * w.ring ELSE w.ring

NewPacket(w, payload, kind) ==
  [w EXCEPT !.ring = GrownRing(w),
            !.outbuf = [q \in Present(w) \cup {w.seq_nr} |->
                          IF q = w.seq_nr
                          THEN [kind |-> kind, first |-> w.written, payload |-> payload,
                                sent |-> FALSE, need_resend |-> FALSE]
                          ELSE w.outbuf[q]],
            !.seq_nr = wrapping_add(@, 1),
            !.cur_window_packets = @ + 1,
            !.written = @ + payload]

write_outgoing_packet(w, payload, kind, limit, ps) ==
  LET added  == Room(w, payload, ps)
      filled == IF added > 0 THEN FillLast(w, added) ELSE w
      queued == IF added > 0 /\ payload = added THEN filled
                ELSE NewPacket(filled, payload - added, kind)
  IN  flush_packets(queued, limit, ps)

\* ... and starts the retransmission timer when the window was empty.
StartsTimer_never(w) == FALSE
StartsTimer(w) == w.cur_window_packets = 0

\* ack_packet for every packet of S, all of them sent.
ack_packets_lost_too(w, S) ==
  [w EXCEPT !.cur_window = @ - Bytes(w.outbuf, S),
            !.outbuf = [q \in Present(w) \ S |-> w.outbuf[q]]]

ack_packets(w, S) ==
  [w EXCEPT !.cur_window = @ - Bytes(w.outbuf, S \cap InFlight(w)),
            !.outbuf = [q \in Present(w) \ S |-> w.outbuf[q]]]

\* The cumulative ack walks acks packets from the oldest and stops at one that
\* was never sent; packets an EACK already took are stepped over.
AckedCount(w, acks) ==
  Min({acks} \cup {i \in 0 .. acks - 1 : LET q == wrapping_add(Oldest(w), i) IN
                                         q \in Present(w) /\ ~w.outbuf[q].sent})

AckedSeqs(w, acks) == {q \in Present(w) : wrapping_sub(q, Oldest(w)) < AckedCount(w, acks)}

AckLoop(w, acks) ==
  [ack_packets(w, AckedSeqs(w, acks)) EXCEPT !.cur_window_packets = @ - AckedCount(w, acks)]

\* Then the window shrinks to the oldest packet still waiting for its ack.
ShrinkWindow(w) ==
  LET waiting == {d \in 1 .. w.cur_window_packets : wrapping_sub(w.seq_nr, d) \in Present(w)}
  IN  [w EXCEPT !.cur_window_packets = IF waiting = {} THEN 0 ELSE Max(waiting)]

\* A single unsent packet is no longer held back.
FlushNagle(w) ==
  IF w.cur_window_packets = 1 /\ Last(w) \in Present(w) /\ ~w.outbuf[Last(w)].sent
  THEN send_packets(w, {Last(w)})
  ELSE w

\* Timeout: every packet in flight is lost and leaves the window's byte count.
MarkLost(w) ==
  LET lost == {q \in InFlight(w) : Dist(w, q) \in 1 .. w.cur_window_packets}
  IN  [w EXCEPT !.cur_window = @ - Bytes(w.outbuf, lost),
                !.outbuf = [q \in Present(w) |->
                              IF q \in lost THEN [w.outbuf[q] EXCEPT !.need_resend = TRUE]
                                            ELSE w.outbuf[q]]]

ResendOldest(w) ==
  IF w.cur_window_packets > 0 /\ Oldest(w) \in Present(w)
  THEN send_packets(w, {Oldest(w)})
  ELSE w

-----------------------------------------------------------------------------
(* Selective acknowledgment. *)

\* Bit i of the mask stands for packet base + i; index -1 for base - 1.
SelSeq(base, i) == IF i < 0 THEN wrapping_sub(base, 1) ELSE wrapping_add(base, i)

\* The oldest packet and everything outside the window is ignored.
Accepted_oldest_too(w, v) == Dist(w, v) \in 1 .. w.cur_window_packets
Accepted(w, v) == Dist(w, v) \in 1 .. w.cur_window_packets - 1

EackHits(w, base, mask) == {i \in mask : Accepted(w, SelSeq(base, i))}

EackAcked(w, base, mask) ==
  {q \in Present(w) : w.outbuf[q].sent /\ \E i \in EackHits(w, base, mask) : q = SelSeq(base, i)}

MayFastResend(v, resend_from) == wrapping_sub(v, resend_from) <= OUTGOING_BUFFER_MAX_SIZE

\* Enough packets above index i have been acked to take packet i for lost.
EnoughAbove(w, base, mask, i) ==
  Cardinality({j \in EackHits(w, base, mask) : j > i}) >= DUPLICATE_ACKS_BEFORE_RESEND

EackLost(w, base, mask, resend_from) ==
  {i \in (-1 .. EackBits - 1) \ mask :
     LET v == SelSeq(base, i) IN
     /\ Accepted(w, v) /\ v \in Present(w) /\ w.outbuf[v].sent
     /\ MayFastResend(v, resend_from)
     /\ EnoughAbove(w, base, mask, i)}

\* base - 1 is pushed last whether or not it is in the window, and is looked up
\* in the ring by its slot alone.
Slot(w, v) == {q \in Present(w) : q % w.ring = v % w.ring}
BaseIndex == -2

EackCandidates(w, base, mask, resend_from) ==
  EackLost(w, base, mask, resend_from) \cup
  {i \in {BaseIndex} :
     /\ MayFastResend(SelSeq(base, i), resend_from)
     /\ EnoughAbove(w, base, mask, i)
     /\ Slot(ack_packets(w, EackAcked(w, base, mask)), SelSeq(base, i)) # {}}

\* The stack of resends is popped lowest index first, MaxResends at most.
EackResends(w, base, mask, resend_from) ==
  LET C == EackCandidates(w, base, mask, resend_from)
  IN  {i \in C : Cardinality({j \in C : j < i}) < MaxResends}

selective_ack(w, base, mask, resend_from) ==
  LET acked == ack_packets(w, EackAcked(w, base, mask))
  IN  send_packets(acked, UNION {IF i = BaseIndex THEN Slot(acked, SelSeq(base, i))
                                 ELSE {SelSeq(base, i)} :
                                 i \in EackResends(w, base, mask, resend_from)})

-----------------------------------------------------------------------------
(* The handlers. *)

Live == {"SynSent", "SynRecv", "Connected", "ConnectedFull"}
Established == {"Connected", "ConnectedFull"}
Exists == state # "Removed"
ErrorKinds == {"none", "ConnectionReset", "TimedOut", "SendFailed"}

Fresh(w) == [w EXCEPT !.tx = {}]

max_send(mw, mwu) == Min({mw, opt_sndbuf, mwu})

\* The packets a cumulative ack_nr acknowledges; 0 for an old ack_nr.
Acks_old_too(w, ack_nr) ==
  Min({w.cur_window_packets,
       wrapping_sub(ack_nr, wrapping_sub(Last(w), w.cur_window_packets))})

Acks(w, ack_nr) ==
  LET acks == wrapping_sub(ack_nr, wrapping_sub(Last(w), w.cur_window_packets))
  IN  IF acks > w.cur_window_packets THEN 0 ELSE acks

\* ack_nr neither beyond the last packet nor too far behind.
ValidAck(w, ack_nr) ==
  /\ ~wrapping_compare_less(Last(w), ack_nr)
  /\ ~wrapping_compare_less(ack_nr,
        wrapping_sub(Last(w), w.cur_window_packets + ACK_NR_ALLOWED_WINDOW))

EmptyWindow(seq) ==
  [seq_nr |-> seq, cur_window_packets |-> 0, cur_window |-> 0, outbuf |-> <<>>,
   ring |-> RingInit, written |-> 0, tx |-> {}]

CommonInit ==
  /\ packet_size \in PacketSizes
  /\ max_window = packet_size
  /\ max_window_user = 255 * PACKET_SIZE
  /\ fast_timeout = FALSE
  /\ retransmit_count = 0
  /\ fin_sent = FALSE /\ fin_sent_acked = FALSE /\ close_requested = FALSE
  /\ closed = FALSE /\ error = "none"

\* Context::connect: the SYN is sent and waits in outbuf.
InitDialer ==
  /\ CommonInit
  /\ \E seq \in InitSeqs :
       LET w == NewPacket(EmptyWindow(seq), 0, "SYN") IN win = send_packets(w, {seq})
  /\ state = "SynSent"
  /\ fast_resend_seq_nr = 1
  /\ rto_armed = TRUE

\* Context::process_udp for a SYN: the SYN-ACK is not kept in outbuf.
InitAcceptor ==
  /\ CommonInit
  /\ \E seq \in InitSeqs : win = EmptyWindow(seq) /\ fast_resend_seq_nr = seq
  /\ state = "SynRecv"
  /\ rto_armed = FALSE

\* write_engine, one chunk of its loop: a call with a longer buffer is a run of
\* these with nothing in between.
Write(n) ==
  /\ Exists /\ ~closed /\ error = "none"
  /\ state = "Connected" /\ ~fin_sent
  /\ n \in 1 .. packet_size /\ win.written + n <= MaxBytes
  /\ LET w == Fresh(win)
         ms == max_send(max_window, max_window_user)
     IN  IF is_full(w, n, ms)
         THEN /\ win' = w
              /\ state' = "ConnectedFull"
              /\ UNCHANGED rto_armed
         ELSE /\ win' = write_outgoing_packet(w, n, "DATA", ms, packet_size)
              /\ rto_armed' = (rto_armed \/ StartsTimer(w))
              /\ UNCHANGED state
  /\ UNCHANGED <<limitVars, fastVars, retransmit_count, finVars, closed, error>>

\* Conn::close and close_engine.
Close ==
  /\ Exists /\ ~closed
  /\ closed' = TRUE
  /\ IF state \in Established
     THEN /\ close_requested' = TRUE
          /\ fin_sent' = TRUE
          /\ win' = IF fin_sent THEN Fresh(win)
                    ELSE write_outgoing_packet(Fresh(win), 0, "FIN",
                           max_send(max_window, max_window_user), packet_size)
          /\ rto_armed' = (rto_armed \/ (~fin_sent /\ StartsTimer(win)))
          /\ state' = IF fin_sent /\ fin_sent_acked THEN "Destroy" ELSE state
     ELSE /\ win' = Fresh(win)
          /\ rto_armed' = (rto_armed \/ state = "SynSent")
          /\ state' = "Destroy"
          /\ UNCHANGED <<close_requested, fin_sent>>
  /\ UNCHANGED <<limitVars, fastVars, retransmit_count, fin_sent_acked, error>>

FirstError(kind) == IF error = "none" THEN kind ELSE error

\* process_udp for an RST that finds this socket.
ProcessReset ==
  /\ Exists
  /\ state' = IF close_requested THEN "Destroy" ELSE "Reset"
  /\ error' = FirstError("ConnectionReset")
  /\ win' = Fresh(win)
  /\ UNCHANGED <<limitVars, fastVars, retransmit_count, rto_armed, finVars, closed>>

\* The window after the empty write a dialer does once it is connected.
EmptyWrite(w, ms, ps) ==
  IF is_full(w, 0, ms) THEN w ELSE write_outgoing_packet(w, 0, "DATA", ms, ps)

\* Some byte is newly reported as received, cumulatively or by the mask.
SomeBytesAcked(w, acks, base, mask) ==
  \E q \in Present(w) :
    /\ w.outbuf[q].sent /\ w.outbuf[q].payload > 0
    /\ \/ wrapping_sub(q, Oldest(w)) < acks
       \/ \E i \in EackHits(w, base, mask) : q = SelSeq(base, i)

\* What an ack does to the window, in the order of process_incoming: the empty
\* write of a dialer that connects, the cumulative ack, Nagle, the fast retry
\* after a timeout, the selective ack.
Connects(flags) == state = "SynSent" /\ flags = "STATE"

AckOutcome(flags, ack_nr, mask, ms, ps) ==
  LET acks == Acks(win, ack_nr)
      base == wrapping_add(ack_nr, 2)
      w1  == IF Connects(flags) THEN EmptyWrite(Fresh(win), ms, ps) ELSE Fresh(win)
      w2  == FlushNagle(ShrinkWindow(AckLoop(w1, acks)))
      fr1 == IF wrapping_compare_less(fast_resend_seq_nr, wrapping_add(ack_nr, 1))
             THEN wrapping_add(ack_nr, 1) ELSE fast_resend_seq_nr
      timedOut  == fast_timeout /\ Oldest(w2) = fr1
      fastRetry == timedOut /\ Oldest(w2) \in Present(w2) /\ w2.outbuf[Oldest(w2)].sent
      w3  == IF fastRetry THEN send_packets(w2, {Oldest(w2)}) ELSE w2
      fr2 == IF fastRetry THEN wrapping_add(fr1, 1) ELSE fr1
      resends == EackResends(w3, base, mask, fr2)
  IN  [win |-> selective_ack(w3, base, mask, fr2),
       resend_from |-> IF resends = {} THEN fr2
                       ELSE wrapping_add(SelSeq(base, Max(resends)), 1),
       resent |-> resends # {},
       timedOut |-> timedOut,
       acked |-> AckedSeqs(w1, acks) # {} \/ EackAcked(w3, base, mask) # {}]

\* process_incoming for a packet that passes the checks on ack_nr and on its
\* sequence number.  cw is what the congestion controller chooses, ps the
\* packet size the MTU search chooses, decay whether the window may decay now,
\* eof whether this packet completes the peer's stream (UtpRecv).
ProcessIncoming(flags, ack_nr, mask, wnd, cw, ps, decay, eof) ==
  LET acks == Acks(win, ack_nr)
      finAcked == ~Connects(flags) /\ fin_sent /\ win.cur_window_packets = acks
      st1 == CASE flags = "DATA" /\ state = "SynRecv" -> "Connected"
               [] Connects(flags) -> IF is_full(win, 0, max_send(cw, wnd))
                                     THEN "ConnectedFull" ELSE "Connected"
               [] finAcked /\ close_requested -> "Destroy"
               [] OTHER -> state
  IN
  /\ Exists
  /\ ValidAck(win, ack_nr)
  /\ eof => flags # "STATE" /\ st1 \in Established
  /\ cw # max_window => SomeBytesAcked(win, acks, wrapping_add(ack_nr, 2), mask)
  /\ ps # packet_size => win.cur_window_packets > 0
  /\ \E out \in {AckOutcome(flags, ack_nr, mask, max_send(cw, wnd), ps)} :
       LET mw == IF out.resent /\ decay THEN Max({cw \div 2, MIN_WINDOW_SIZE}) ELSE cw IN
       /\ decay => out.resent
       /\ win' = out.win
       /\ max_window' = mw
       /\ state' = IF BecomesWritable(st1, out.win, ps, max_send(mw, wnd)) THEN "Connected" ELSE st1
       /\ fast_resend_seq_nr' = out.resend_from
       /\ fast_timeout' = out.timedOut
       /\ retransmit_count' = IF out.acked THEN 0 ELSE retransmit_count
       /\ rto_armed' = \/ rto_armed \/ out.acked \/ eof
                       \/ Connects(flags) /\ StartsTimer(win)
  /\ packet_size' = ps
  /\ max_window_user' = wnd
  /\ fin_sent_acked' = (fin_sent_acked \/ finAcked)
  /\ UNCHANGED <<fin_sent, close_requested, closed, error>>

\* A RTO that does not kill the connection: packet_size ps, window mw.
AfterTimeout_idle_kept(w, mw, ps, probeLost) ==
  CASE probeLost \/ w.cur_window_packets = 0 -> mw
    [] OTHER -> ps

AfterTimeout(w, mw, ps, probeLost) ==
  CASE probeLost -> mw
    [] ~probeLost /\ w.cur_window_packets = 0 /\ mw > ps -> Max({(2 * mw) \div 3, ps})
    [] OTHER -> ps

TooManyTimeouts ==
  \/ retransmit_count >= RetransmitLimit
  \/ state = "SynSent" /\ retransmit_count >= SynRetransmitLimit

\* check_timeouts of the socket, and its removal by Context::check_timeouts
\* when it ends in Destroy.  rto and zw say which timers have expired,
\* probeLost that the only packet out was the MTU probe.
CheckTimeouts(rto, zw, probeLost, ps) ==
  LET killed == rto /\ (state = "SynRecv" \/ TooManyTimeouts)
      timedOut == rto /\ ~killed
      resends == timedOut /\ win.cur_window_packets > 0
      mw  == IF timedOut THEN AfterTimeout(win, max_window, ps, probeLost) ELSE max_window
      mwu == IF zw THEN PACKET_SIZE ELSE max_window_user
  IN
  /\ Exists
  /\ zw => state \in Live /\ max_window_user = 0
  /\ rto => state \in Live /\ rto_armed
  /\ probeLost => rto /\ win.cur_window_packets = 1
  /\ ps # packet_size => probeLost
  /\ UNCHANGED <<fast_resend_seq_nr, rto_armed, finVars, closed>>
  /\ packet_size' = ps
  /\ max_window' = mw
  /\ max_window_user' = mwu
  /\ error' = IF killed THEN FirstError("TimedOut") ELSE error
  /\ retransmit_count' = IF resends THEN retransmit_count + 1 ELSE retransmit_count
  /\ fast_timeout' = (fast_timeout \/ resends)
  /\ \E flushed \in {IF state = "Destroy" THEN Fresh(win)
                     ELSE flush_packets(Fresh(win), max_send(max_window, max_window_user), packet_size)} :
     \E lost \in {IF timedOut THEN MarkLost(flushed) ELSE flushed} :
     \E w \in {IF timedOut THEN ResendOldest(lost) ELSE lost} :
       /\ win' = w
       /\ state' = CASE state = "Destroy" -> "Removed"
                     [] killed -> IF state = "SynRecv" \/ close_requested THEN "Removed" ELSE "Reset"
                     [] ~killed /\ BecomesWritable(state, w, ps, max_send(mw, mwu)) -> "Connected"
                     [] OTHER -> state

\* send_data: the transport refuses a packet of the last handler for good.  In
\* the code the error is there when that handler returns; as it only stops the
\* writer, letting other steps come first allows more behaviours, not fewer.
SendRefused ==
  /\ Exists
  /\ win.tx # {}
  /\ error' = FirstError("SendFailed")
  /\ UNCHANGED <<win, state, limitVars, fastVars, retransmit_count, rto_armed, finVars, closed>>

\* Socket::close destroys every socket at once.
DestroyAll ==
  /\ Exists
  /\ state' = "Removed"
  /\ win' = Fresh(win)
  /\ UNCHANGED <<limitVars, fastVars, retransmit_count, rto_armed, finVars, closed, error>>

\* Mask bits for packets outside this range are ignored by every step of the
\* handler; they are left out of the enumeration.
RelevantBits(w, base) ==
  {i \in 0 .. EackBits - 1 : wrapping_sub(SelSeq(base, i), Oldest(w)) <= w.cur_window_packets}

\* The type of a packet matters while the connection is being set up, and eof
\* only arms the timer; elsewhere one representative is enumerated.
Flags == IF state \in {"SynSent", "SynRecv"} \/ ~rto_armed THEN {"STATE", "DATA", "FIN"}
         ELSE {"STATE"}

Incoming ==
  \E ack_nr \in {a \in SeqNr : ValidAck(win, a)} :
  \E mask \in SUBSET RelevantBits(win, wrapping_add(ack_nr, 2)) :
  \E flags \in Flags, wnd \in Windows, cw \in Cwnds \cup {max_window}, ps \in PacketSizes,
     decay \in (IF mask = {} THEN {FALSE} ELSE BOOLEAN), eof \in BOOLEAN :
       ProcessIncoming(flags, ack_nr, mask, wnd, cw, ps, decay, eof)

Timeouts ==
  \E rto, zw, probeLost \in BOOLEAN, ps \in PacketSizes : CheckTimeouts(rto, zw, probeLost, ps)

Init == InitDialer \/ InitAcceptor

Next ==
  \/ \E n \in 1 .. MaxBytes : Write(n)
  \/ Close
  \/ ProcessReset
  \/ Incoming
  \/ Timeouts
  \/ SendRefused
  \/ DestroyAll

Spec == Init /\ [][Next]_vars

-----------------------------------------------------------------------------
(* Properties. *)

WindowType(w) ==
  /\ DOMAIN w = WindowFields
  /\ w.seq_nr \in SeqNr
  /\ w.cur_window_packets \in 0 .. OUTGOING_BUFFER_MAX_SIZE
  /\ w.cur_window \in Nat
  /\ DOMAIN w.outbuf \subseteq SeqNr
  /\ \A q \in DOMAIN w.outbuf : w.outbuf[q] \in PacketType
  /\ w.ring \in Nat \ {0}
  /\ w.written \in 0 .. MaxBytes
  /\ w.tx \subseteq WireType

\* The types of the fields of the socket.
TypeOK ==
  /\ WindowType(win)
  /\ state \in {"SynSent", "SynRecv", "Connected", "ConnectedFull", "Reset", "Destroy", "Removed"}
  /\ packet_size \in PacketSizes
  /\ max_window \in Nat /\ max_window_user \in Nat
  /\ fast_resend_seq_nr \in SeqNr
  /\ fast_timeout \in BOOLEAN
  /\ retransmit_count \in Nat
  /\ rto_armed \in BOOLEAN
  /\ fin_sent \in BOOLEAN /\ fin_sent_acked \in BOOLEAN /\ close_requested \in BOOLEAN
  /\ closed \in BOOLEAN
  /\ error \in ErrorKinds

\* cur_window counts exactly the bytes in flight, through resends, timeouts,
\* EACKs and cumulative acks in any order, so no cur_window -= payload of the
\* code underflows (the debug_asserts of ack_packet and check_timeouts).
WindowAccounting == win.cur_window = Bytes(win.outbuf, InFlight(win))

\* Only the packets of the window are kept, and the oldest of them is always
\* still waiting: the invariant process_incoming asserts before it flushes.
OldestWaiting ==
  /\ \A q \in Present(win) : Dist(win, q) \in 1 .. win.cur_window_packets
  /\ win.cur_window_packets > 0 => Oldest(win) \in Present(win)

\* No two packets of the window share a slot of the ring outbuf, which has
\* grown in time (ensure_size).
RingHoldsWindow ==
  /\ win.cur_window_packets <= win.ring
  /\ \A q, r \in Present(win) : q # r => q % win.ring # r % win.ring

\* Until the FIN is written a slot is kept for it: the debug_assert of
\* write_outgoing_packet.
RoomForFin == win.cur_window_packets + (IF fin_sent THEN 0 ELSE 1) <= OUTGOING_BUFFER_MAX_SIZE

\* A packet waiting for its ack always has a retransmission timer behind it.
WaitingIsTimed == win.cur_window_packets > 0 => rto_armed

\* A socket marked full really is full, so the writer asleep on it is not
\* stranded: whatever freed the window also marked the socket writable.
FullIsFull ==
  state = "ConnectedFull" => is_full(win, packet_size, max_send(max_window, max_window_user))

\* The packets of the window carry disjoint pieces of the stream, in order,
\* the newest ending where the application stopped writing.
StreamInOrder ==
  LET first(q) == win.outbuf[q].first
      end(q) == win.outbuf[q].first + win.outbuf[q].payload
  IN  /\ \A q, r \in Present(win) : Dist(win, q) > Dist(win, r) => end(q) <= first(r)
      /\ \A q \in Present(win) : end(q) <= win.written
      /\ Last(win) \in Present(win) => end(Last(win)) = win.written

\* What was sent once under a sequence number is what is resent under it.
SentIsFrozen ==
  [][\A q \in Present(win) \cap DOMAIN win'.outbuf : win.outbuf[q].sent =>
       win'.outbuf[q].first = win.outbuf[q].first /\ win'.outbuf[q].payload = win.outbuf[q].payload]_vars
=============================================================================

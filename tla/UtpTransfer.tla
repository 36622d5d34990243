----------------------------- MODULE UtpTransfer -----------------------------
(***************************************************************************)
(* One direction of a connection, end to end: the send half of the dialer   *)
(* (UtpSend) and the receive half of the acceptor (UtpRecv) over a network  *)
(* that loses, repeats, delays and reorders packets.  Where UtpSend takes   *)
(* any ack and UtpRecv any packet, here each end sees only what the other   *)
(* has really sent.                                                         *)
(*                                                                          *)
(* It starts when the acceptor has answered the SYN.  The dialer's empty    *)
(* write is packet 1, the bytes it writes one to a packet 2 .. MaxBytes+1,  *)
(* and the FIN packet MaxBytes + 2: it closes once it has written them all. *)
(* The acceptor writes nothing.                                             *)
(***************************************************************************)
EXTENDS SeqArith, Sequences, FiniteSets

CONSTANTS
  OUTGOING_BUFFER_MAX_SIZE, DUPLICATE_ACKS_BEFORE_RESEND, ACK_NR_ALLOWED_WINDOW,
  MIN_WINDOW_SIZE, PACKET_SIZE, MaxResends, RetransmitLimit, SynRetransmitLimit,
  opt_sndbuf, Cwnds, EackBits, InitSeqs, MaxBytes, RingInit,   \* see UtpSend
  REORDER_BUFFER_MAX_SIZE, opt_rcvbuf, None,                   \* see UtpRecv
  Vanishes,             \* whether the acceptor may disappear
  Reads,                \* bound: how many bytes a recv call asks for
  MaxAcks               \* bound: acks under way at a time

ASSUME TransferAssumption ==
  /\ OUTGOING_BUFFER_MAX_SIZE \in Nat /\ OUTGOING_BUFFER_MAX_SIZE >= 3
  /\ 2 * OUTGOING_BUFFER_MAX_SIZE < SeqMod
  /\ DUPLICATE_ACKS_BEFORE_RESEND \in Nat \ {0}
  /\ ACK_NR_ALLOWED_WINDOW \in Nat
  /\ MIN_WINDOW_SIZE \in Nat \ {0}
  /\ MaxResends \in Nat /\ RetransmitLimit \in Nat /\ SynRetransmitLimit \in Nat
  /\ opt_sndbuf \in Nat /\ PACKET_SIZE \in Nat /\ Cwnds \subseteq Nat
  /\ EackBits \in Nat /\ EackBits < SeqMod
  /\ RingInit \in PowersOfTwo /\ InitSeqs \subseteq SeqNr
  /\ MaxBytes \in Nat \ {0} /\ 2 * (MaxBytes + 2) < SeqMod
  /\ REORDER_BUFFER_MAX_SIZE \in Nat \ {0} /\ 2 * REORDER_BUFFER_MAX_SIZE <= SeqMod
  /\ opt_rcvbuf \in Nat /\ None \notin Nat
  /\ Reads \subseteq 1 .. MaxBytes

VARIABLES
  win, state, packet_size, max_window, max_window_user, fast_resend_seq_nr, fast_timeout,
  retransmit_count, rto_armed, fin_sent, fin_sent_acked, close_requested, closed, error,
  isn, rstate, ack_nr, inbuf, reorder_count, got_fin, eof_pkt, got_fin_reached,
  read_shutdown, last_rcv_win, read_buf, got_eof, taken, tx, acked, built, told,
  net,                  \* packets of the dialer under way, by number
  acks                  \* acks of the acceptor under way

Packets == MaxBytes + 2

S == INSTANCE UtpSendProofs WITH PacketSizes <- {1}, Windows <- 0 .. opt_rcvbuf

R == INSTANCE UtpRecvProofs WITH
       state <- rstate, EackWindow <- EackBits, FinAt <- Packets, MaxRead <- MaxBytes, MaxBuilt <- 0,
       Lens <- [i \in 1 .. Packets |-> IF i \in {1, Packets} THEN 0 ELSE 1]

sVars == <<win, state, packet_size, max_window, max_window_user, fast_resend_seq_nr,
           fast_timeout, retransmit_count, rto_armed, fin_sent, fin_sent_acked,
           close_requested, closed, error>>
rVars == <<isn, rstate, ack_nr, inbuf, reorder_count, got_fin, eof_pkt, got_fin_reached,
           read_shutdown, last_rcv_win, read_buf, got_eof, taken, tx, acked,
           built, told>>
vars  == <<sVars, rVars, net, acks>>

-----------------------------------------------------------------------------
(* The network. *)

\* A packet once sent may arrive from then on, any number of times or never.
\* The SYN has been answered, and the acceptor ignores a second one.
DialerSends == net' = net \cup ({wrapping_sub(p.seq, isn) : p \in win'.tx} \ {0})

\* The acks of the last step join those under way; any of them may be lost.
Announced == {[ack_nr |-> t.ack_nr, mask |-> t.mask, wnd |-> last_rcv_win'] : t \in tx'}

AcceptorSends ==
  /\ acks' \in SUBSET (acks \cup Announced)
  /\ Cardinality(acks') <= MaxAcks

\* send_rst: what an acceptor that no longer knows the connection answers.
Rst == [ack_nr |-> 0, mask |-> {}, wnd |-> -1]

-----------------------------------------------------------------------------
(* The dialer. *)

Write == S!Write(1) /\ DialerSends /\ UNCHANGED <<rVars, acks>>

Close ==
  /\ win.written = MaxBytes
  /\ S!Close
  /\ DialerSends
  /\ UNCHANGED <<rVars, acks>>

HearAck(a) ==
  /\ a # Rst
  /\ \E cw \in Cwnds \cup {max_window}, decay \in BOOLEAN :
       S!ProcessIncoming("STATE", a.ack_nr, a.mask, a.wnd, cw, 1, decay, FALSE)
  /\ DialerSends
  /\ UNCHANGED <<rVars, acks>>

HearRst == Rst \in acks /\ S!ProcessReset /\ UNCHANGED <<rVars, net, acks>>

Timeouts ==
  /\ \E rto, zw \in BOOLEAN : S!CheckTimeouts(rto, zw, FALSE, 1)
  /\ DialerSends
  /\ UNCHANGED <<rVars, acks>>

\* The retransmission timer of the dialer fires.
RtoExpires ==
  /\ \E zw \in BOOLEAN : S!CheckTimeouts(TRUE, zw, FALSE, 1)
  /\ DialerSends
  /\ UNCHANGED <<rVars, acks>>

-----------------------------------------------------------------------------
(* The acceptor. *)

HearPacket(i) ==
  /\ \/ R!Arrive(i) /\ AcceptorSends
     \/ rstate = "Removed" /\ acks' = acks \cup {Rst} /\ UNCHANGED rVars
  /\ UNCHANGED <<sVars, net>>

Recv(n) == R!Recv(n) /\ AcceptorSends /\ UNCHANGED <<sVars, net>>

KeepAlive == R!KeepAlive /\ AcceptorSends /\ UNCHANGED <<sVars, net>>

\* The process of the acceptor ends, or a timeout removes the connection.
Vanish == Vanishes /\ R!Die("Removed") /\ AcceptorSends /\ UNCHANGED <<sVars, net>>

-----------------------------------------------------------------------------

\* The acceptor's SYN-ACK acknowledges the SYN, packet 0.
Init ==
  /\ S!InitDialer
  /\ R!Init /\ rstate = "SynRecv"
  /\ isn = S!Last(win)
  /\ net = {}
  /\ acks = {[ack_nr |-> isn, mask |-> {}, wnd |-> opt_rcvbuf]}

Next ==
  \/ Write
  \/ Close
  \/ \E a \in acks : HearAck(a)
  \/ HearRst
  \/ Timeouts
  \/ \E i \in net : HearPacket(i)
  \/ \E n \in Reads : Recv(n)
  \/ KeepAlive
  \/ Vanish

Spec == Init /\ [][Next]_vars

\* The dialer's reader thread checks the timers for as long as its socket
\* lives, so an armed one expires and is seen.  Nothing is assumed of the
\* network or of the acceptor.
FairSpec == Spec /\ WF_vars(Timeouts) /\ WF_vars(RtoExpires)

-----------------------------------------------------------------------------
(* Properties. *)

\* What the dialer has dropped from its window, whatever acks, EACKs,
\* keep-alives and stale windows it heard, is at the acceptor: received in
\* order or in the reorder buffer.  Nothing the application wrote is lost
\* between the two halves.
DroppedIsThere ==
  \A i \in 1 .. wrapping_sub(S!Last(win), isn) :
    R!Seq_nr(i) \notin S!Present(win) => i \in R!Received \/ R!get(inbuf, R!Seq_nr(i)) = i

\* fin_sent_acked, which lets close destroy the socket, is set only when the
\* acceptor has everything, the FIN included (process_incoming decides it from
\* a count of packets).
FinAckedIsReceived == fin_sent_acked => got_fin_reached /\ win.written = Len(taken \o read_buf)

P == INSTANCE Pipe WITH written <- win.written, out <- taken \o read_buf, eof <- got_eof

\* The two halves and the network between them implement the pipe.
ImplementsPipe == P!Spec

\* An established connection that is closed is torn down even if the
\* acceptor falls silent, because the FIN goes out alone (flush_packets): it is
\* never acked by an EACK only, after which a keep-alive, which acks one packet
\* less, could empty the window and stop the retransmissions with the FIN not yet counted as acked.
CloseIsCarriedOut == close_requested ~> state = "Removed"
=============================================================================

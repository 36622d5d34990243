----------------------------- MODULE UtpSendLive -----------------------------
(***************************************************************************)
(* What the send half of UtpSend gets done in the end.  The peer is as free *)
(* as there, and it may fall silent for good: its host is gone, or what it  *)
(* sends is lost, the announcement that reopens its window included.        *)
(* silent says that nothing more will come.                                 *)
(***************************************************************************)
EXTENDS UtpSend

VARIABLE silent

liveVars == <<vars, silent>>

LiveInit == Init /\ silent = FALSE

FallSilent ==
  /\ ~silent
  /\ silent' = TRUE
  /\ UNCHANGED vars

PeerSteps ==
  /\ ~silent
  /\ ProcessReset \/ Incoming
  /\ UNCHANGED silent

LocalSteps ==
  /\ \/ \E n \in 1 .. MaxBytes : Write(n)
     \/ Close
     \/ Timeouts
     \/ SendRefused
     \/ DestroyAll
  /\ UNCHANGED silent

LiveNext == PeerSteps \/ LocalSteps \/ FallSilent

LiveSpec == LiveInit /\ [][LiveNext]_liveVars

\* A check that finds the RTO expired, and one that finds the zero-window
\* timer expired.  Every announcement of a zero window moves the latter 15 s
\* into the future, so only a silent peer lets it expire for certain.
Checks == Timeouts /\ UNCHANGED silent

RtoExpires ==
  /\ \E zw, probeLost \in BOOLEAN, ps \in PacketSizes : CheckTimeouts(TRUE, zw, probeLost, ps)
  /\ UNCHANGED silent

ZeroWindowExpires ==
  /\ silent
  /\ \E rto, probeLost \in BOOLEAN, ps \in PacketSizes : CheckTimeouts(rto, TRUE, probeLost, ps)
  /\ UNCHANGED silent

\* The reader thread calls check_timeouts at least every 500 ms for as long as
\* the socket lives, so a timer that is not moved expires and is seen.
FairSpec ==
  /\ LiveSpec
  /\ WF_liveVars(Checks)
  /\ WF_liveVars(RtoExpires)
  /\ WF_liveVars(ZeroWindowExpires)

-----------------------------------------------------------------------------
(* Properties. *)

Dead == state \in {"Reset", "Destroy", "Removed"}

\* Whatever the peer acks or fails to ack, written data does not linger: it is
\* all acknowledged or the connection dies by retransmission timeouts.
WaitingIsResolved == win.cur_window_packets > 0 ~> (win.cur_window_packets = 0 \/ Dead)

\* The window the peer last announced has no room for a packet, and no timer
\* will replace it: check_timeouts repairs a window of 0 only, and only once the
\* peer has stopped announcing it.
Starved == max_window_user < packet_size /\ ~(silent /\ max_window_user = 0)

\* A writer blocked on a full socket gets on, through acks, the zero-window
\* timer, the RTO of an idle connection or the death of the connection.  The one
\* thing that can block it for good is a peer that leaves the window below one
\* packet: by announcing it again and again, or by falling silent on a window
\* that is too small but not 0, as when the update that reopens it is lost.
WriterReleased == state = "ConnectedFull" ~> (state # "ConnectedFull" \/ []Starved)
=============================================================================

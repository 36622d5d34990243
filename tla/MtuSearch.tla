------------------------------ MODULE MtuSearch ------------------------------
(***************************************************************************)
(* The search for the packet size of a connection (engine.rs): a binary     *)
(* search between mtu_floor and mtu_ceiling whose probes are ordinary data  *)
(* packets.  UtpSend leaves the packet size open; here the window is cut    *)
(* down to what the search sees of it: which packets are queued, sent and   *)
(* acked, and their sizes (headers included).                               *)
(*                                                                          *)
(* Which packets are written, sent, resent and acked, and when timers       *)
(* expire, is open.  Every call of send_packet_at is a step: a handler that *)
(* sends is a run of these steps, so any order the send half allows is      *)
(* possible here.                                                           *)
(***************************************************************************)
EXTENDS SeqArith, FiniteSets, FiniteSetsExt

CONSTANTS
  MTU_FLOOR_MIN,                \* smallest size searched (576)
  udp_mtu,                      \* get_udp_mtu(): 1402, or 1232 for IPv6
  SearchSlack,                  \* a range this narrow ends the search (16)
  DUPLICATE_ACKS_BEFORE_RESEND, \* duplicate acks that mean a loss (3)
  DupMod,                       \* duplicate_ack wraps (256)
  InitSeqs,                     \* initial sequence numbers (random in the code)
  HeaderSize,                  \* size of an empty packet (20)
  SmallSizes,                   \* sizes of packets that are not full
  MaxWindow                     \* bound: packets in the window

ASSUME MtuAssumption ==
  /\ MTU_FLOOR_MIN \in Nat \ {0} /\ udp_mtu \in Nat \ {0}
  /\ SearchSlack \in Nat
  /\ DUPLICATE_ACKS_BEFORE_RESEND \in Nat \ {0}
  /\ DupMod \in Nat \ {0}
  /\ InitSeqs \subseteq SeqNr
  /\ HeaderSize \in Nat /\ HeaderSize < MTU_FLOOR_MIN /\ HeaderSize < udp_mtu
  /\ SmallSizes \subseteq Nat
  /\ MaxWindow \in Nat /\ MaxWindow < SeqMod

VARIABLES
  mtu,            \* the fields mtu_* of UtpSock: see MtuType; due stands for
                  \* mtu_discover_time < now
  seq_nr, cur_window_packets,
  outbuf,         \* the packets still waiting: size, and sent at least once
  duplicate_ack,
  passed          \* history: the largest size the peer has acked

winVars == <<seq_nr, cur_window_packets, outbuf>>
vars == <<mtu, winVars, duplicate_ack, passed>>

Oldest == wrapping_sub(seq_nr, cur_window_packets)
Last   == wrapping_sub(seq_nr, 1)
Sent   == {q \in DOMAIN outbuf : outbuf[q].sent}

-----------------------------------------------------------------------------
(* The range of the search. *)

LowEnd == IF MTU_FLOOR_MIN > udp_mtu THEN udp_mtu ELSE MTU_FLOOR_MIN

\* mtu_last stays as it is.
mtu_reset(m) == [m EXCEPT !.ceiling = udp_mtu, !.floor = LowEnd, !.due = FALSE]

Repaired(m) ==
  IF m.floor > m.ceiling
  THEN [m EXCEPT !.ceiling = m.floor,
                 !.floor = IF @ > MTU_FLOOR_MIN THEN (MTU_FLOOR_MIN + @) \div 2 ELSE @]
  ELSE m

NoProbe(m) == [m EXCEPT !.probe_seq = 0, !.probe_size = 0]

\* The middle of the range, or its floor once it is narrow enough; either way
\* the probe is over.
mtu_search_update_keeps_probe(m) ==
  LET r == Repaired(m) IN
  IF r.ceiling - r.floor <= SearchSlack
  THEN [r EXCEPT !.last = r.floor, !.ceiling = r.floor, !.due = FALSE]
  ELSE [r EXCEPT !.last = (r.floor + r.ceiling) \div 2]

mtu_search_update(m) ==
  LET r == NoProbe(Repaired(m)) IN
  IF r.ceiling - r.floor <= SearchSlack
  THEN [r EXCEPT !.last = r.floor, !.ceiling = r.floor, !.due = FALSE]
  ELSE [r EXCEPT !.last = (r.floor + r.ceiling) \div 2]

ProbeLost(m) == mtu_search_update([m EXCEPT !.ceiling = m.probe_size - 1])

ProbePassed_ceiling(m) == mtu_search_update([m EXCEPT !.floor = m.ceiling])
ProbePassed(m) == mtu_search_update([m EXCEPT !.floor = m.probe_size])

\* A packet sent for the first time becomes the probe when its size is in the
\* range and there is no other.  It goes by the number of the last packet of
\* the window, which it need not be.
Probes(m, p) ==
  /\ m.floor < m.ceiling
  /\ p.size > m.floor /\ p.size <= m.ceiling
  /\ m.probe_seq = 0 /\ seq_nr # 1 /\ ~p.sent

WithProbe(m, p) ==
  IF Probes(m, p) THEN [m EXCEPT !.probe_seq = Last, !.probe_size = p.size] ELSE m

-----------------------------------------------------------------------------
(* The steps. *)

\* write_outgoing_packet: bytes fill the last packet up to mtu_last while it is
\* unsent, the rest begins a new one; a FIN or an empty write is a packet of
\* its own.
Extendable ==
  cur_window_packets > 0 /\ Last \in DOMAIN outbuf \ Sent /\ outbuf[Last].size < mtu.last

Extend(size) ==
  /\ Extendable
  /\ size > outbuf[Last].size /\ size <= mtu.last
  /\ outbuf' = [outbuf EXCEPT ![Last].size = size]
  /\ UNCHANGED <<mtu, seq_nr, cur_window_packets, duplicate_ack, passed>>

Queue(size) ==
  /\ cur_window_packets < MaxWindow
  /\ size = HeaderSize \/ (~Extendable /\ size <= mtu.last)
  /\ outbuf' = [q \in DOMAIN outbuf \cup {seq_nr} |->
                  IF q = seq_nr THEN [size |-> size, sent |-> FALSE] ELSE outbuf[q]]
  /\ seq_nr' = wrapping_add(seq_nr, 1)
  /\ cur_window_packets' = cur_window_packets + 1
  /\ UNCHANGED <<mtu, duplicate_ack, passed>>

send_packet_at(q) ==
  /\ mtu' = WithProbe(IF mtu.due THEN mtu_reset(mtu) ELSE mtu, outbuf[q])
  /\ outbuf' = [outbuf EXCEPT ![q].sent = TRUE]
  /\ UNCHANGED <<seq_nr, cur_window_packets, duplicate_ack, passed>>

\* flush_packets goes through the window from its oldest packet; a packet that
\* was sent may be sent again at any time.
Send(q) ==
  /\ q \in DOMAIN outbuf \ Sent
  /\ \A r \in DOMAIN outbuf \ Sent : wrapping_sub(seq_nr, r) <= wrapping_sub(seq_nr, q)
  /\ send_packet_at(q)

Resend(q) == q \in Sent /\ send_packet_at(q)

\* Duplicate acks up to the limit: the probe is taken for lost if it is the
\* packet the peer is waiting for, and given up otherwise.
AfterDuplicate(m, dups) ==
  CASE dups # DUPLICATE_ACKS_BEFORE_RESEND \/ m.probe_seq = 0 -> m
    [] dups = DUPLICATE_ACKS_BEFORE_RESEND /\ m.probe_seq # 0 /\ m.probe_seq = Oldest -> ProbeLost(m)
    [] OTHER -> NoProbe(m)

\* process_incoming of a packet that acks the n oldest packets of the window,
\* and by EACK those of E; hits of its EACK bits lie in the window.  dup: it is
\* a STATE packet that repeats the last ack_nr.
ProcessAck(n, dup, E, hits) ==
  LET gone == {q \in DOMAIN outbuf : wrapping_sub(q, Oldest) < n}
      dups == CASE cur_window_packets = 0 -> duplicate_ack
                [] cur_window_packets > 0 /\ dup -> (duplicate_ack + 1) % DupMod
                [] OTHER -> 0
      m1 == IF cur_window_packets > 0 /\ dup THEN AfterDuplicate(mtu, dups) ELSE mtu
      waiting == {d \in 1 .. cur_window_packets - n : wrapping_sub(seq_nr, d) \in DOMAIN outbuf}
      left == IF waiting = {} THEN 0 ELSE Max(waiting)
  IN
  /\ dup => n = 0
  /\ gone \subseteq Sent
  /\ E \subseteq {q \in Sent \ gone : wrapping_sub(seq_nr, q) < left}
  /\ hits \in Cardinality(E) .. left /\ (hits > 0 => hits < left)
  /\ mtu' = IF m1.probe_seq # 0 /\ m1.probe_seq \in gone THEN ProbePassed(m1) ELSE m1
  /\ duplicate_ack' = IF hits > 0 THEN hits % DupMod ELSE dups
  /\ cur_window_packets' = left
  /\ outbuf' = [q \in DOMAIN outbuf \ (gone \cup E) |-> outbuf[q]]
  /\ passed' = Max({passed} \cup {outbuf[q].size : q \in gone \cup E})
  /\ UNCHANGED seq_nr

\* check_timeouts when the retransmission timer has expired and the connection
\* lives on.
ProbeAlone == cur_window_packets = 1 /\ Last = mtu.probe_seq /\ mtu.probe_seq # 0

Timeout ==
  /\ mtu' = NoProbe(IF ProbeAlone THEN ProbeLost(mtu) ELSE mtu)
  /\ duplicate_ack' = IF ProbeAlone THEN duplicate_ack ELSE 0
  /\ UNCHANGED <<winVars, passed>>

\* Half an hour goes by.
SearchFallsDue ==
  /\ mtu' = [mtu EXCEPT !.due = TRUE]
  /\ UNCHANGED <<winVars, duplicate_ack, passed>>

Init ==
  /\ mtu = [floor |-> LowEnd, ceiling |-> udp_mtu, last |-> udp_mtu,
            probe_seq |-> 0, probe_size |-> 0, due |-> FALSE]
  /\ seq_nr \in InitSeqs
  /\ cur_window_packets = 0 /\ outbuf = <<>>
  /\ duplicate_ack = 0
  /\ passed = LowEnd

Next ==
  \/ \E size \in SmallSizes \cup {mtu.last} : Queue(size) \/ Extend(size)
  \/ \E q \in SeqNr : Send(q) \/ Resend(q)
  \/ \E n, hits \in 0 .. cur_window_packets, dup \in BOOLEAN, E \in SUBSET Sent :
       ProcessAck(n, dup, E, hits)
  \/ Timeout
  \/ SearchFallsDue

Spec == Init /\ [][Next]_vars

-----------------------------------------------------------------------------
(* Properties. *)

MtuType ==
  [floor : Nat, ceiling : Nat, last : Nat, probe_seq : SeqNr, probe_size : Nat, due : BOOLEAN]

\* The types of the fields, and the range of the search within its outer
\* limits: get_packet_size never falls below the smallest size.
TypeOK ==
  /\ mtu \in MtuType
  /\ mtu.floor >= LowEnd /\ mtu.last >= LowEnd
  /\ mtu.ceiling <= udp_mtu /\ mtu.last <= udp_mtu
  /\ seq_nr \in SeqNr /\ cur_window_packets \in 0 .. MaxWindow
  /\ duplicate_ack \in 0 .. DupMod - 1
  /\ outbuf \in [DOMAIN outbuf -> [size : Nat, sent : BOOLEAN]]

\* The range is never inverted, and a probe under way lies inside it, though
\* acks, duplicate acks, timeouts and the half-hourly reset move its ends in
\* any order and the reset does not end the probe.  So the fate of a probe
\* narrows the range, the debug_assert of mtu_search_update holds without the
\* repair before it, and neither ceiling - floor nor probe_size - 1 underflows.
RangeSound ==
  /\ mtu.floor <= mtu.ceiling
  /\ mtu.probe_seq # 0 => mtu.floor < mtu.probe_size /\ mtu.probe_size <= mtu.ceiling

\* The floor is a size that has gone through, or the smallest: what the comment
\* in mtu_search_update relies on when the search ends there.
FloorHasPassed == mtu.floor <= passed

\* Each step of the search narrows the range, so a search ends after finitely
\* many; only the reset widens it, and it leaves the packet size alone.
SearchNarrows ==
  [][<<mtu.floor, mtu.ceiling, mtu.last>> # <<mtu'.floor, mtu'.ceiling, mtu'.last>> =>
       \/ mtu.due /\ mtu'.last = mtu.last
       \/ mtu'.ceiling - mtu'.floor < mtu.ceiling - mtu.floor]_vars
=============================================================================

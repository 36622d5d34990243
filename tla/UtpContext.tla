----------------------------- MODULE UtpContext -----------------------------
(***************************************************************************)
(* The Context of every host (engine.rs): the table of sockets keyed by     *)
(* address and connection id, the dispatch of datagrams, the handshake,     *)
(* RSTs and the memory of the RSTs sent, keep-alives, Socket::close and a   *)
(* fresh Socket on the same port, over a network that delays, reorders,     *)
(* duplicates and loses datagrams.                                          *)
(*                                                                          *)
(* Abstractions.  Of a connection's window (UtpSend) only the number of     *)
(* packets in it is kept, and one of them is in flight at a time; sequence  *)
(* numbers count from 1 at each end, where the code starts at a random      *)
(* number, so a packet of another connection fails the check of its ack_nr  *)
(* (in the code all but 1 in 16000 do).  Time passes in ticks: in each one  *)
(* every reader thread runs check_timeouts.  A datagram is at most MaxDelay *)
(* ticks under way.  A host picks each seed once.                           *)
(***************************************************************************)
EXTENDS Integers, FiniteSets

CONSTANTS
  Hosts,
  Seeds,               \* Seeds[h]: connection seeds h's generator yields
  IdMod,               \* connection ids on the wire are u16 (65536)
  BACKLOG,             \* connections waiting for accept (5)
  SocketLimit,         \* sockets beyond which a SYN is ignored (3000)
  RST_INFO_TIMEOUT,    \* in ticks (10 s)
  RST_INFO_LIMIT,      \* RSTs remembered (1000)
  KEEPALIVE_INTERVAL,  \* in ticks (29 s)
  RTO,                 \* first retransmission timeout in ticks
  RetransmitLimit,     \* timeouts before a connection dies (4)
  SynRetransmitLimit,  \* the same while connecting (2)
  MaxDelay,            \* bound: ticks a datagram may be under way
  MaxWrites,           \* bound: packets each end may write, FIN included
  MaxLosses,           \* bound: datagrams lost
  MaxDups,             \* bound: datagrams delivered twice
  MaxRestarts          \* bound: sockets closed and bound again

ASSUME ContextAssumption ==
  /\ IdMod \in Nat /\ IdMod >= 2
  /\ \A h \in Hosts : Seeds[h] \subseteq 0 .. IdMod - 1
  /\ {BACKLOG, SocketLimit, RST_INFO_TIMEOUT, RST_INFO_LIMIT, KEEPALIVE_INTERVAL, RTO,
      RetransmitLimit, SynRetransmitLimit, MaxDelay, MaxWrites, MaxLosses, MaxDups,
      MaxRestarts} \subseteq Nat

VARIABLES
  sockets,   \* sockets[h]: Context.sockets, a function of keys
  rst_info,  \* rst_info[h]: set of RSTs sent lately
  up,        \* up[h]: the Socket of h is open
  net,       \* datagrams under way
  faults,    \* losses, duplicates and restarts so far
  dialed,    \* history: the connections dialled so far
  gone       \* history: gone[h], the connections whose end at h was dropped

vars == <<sockets, rst_info, up, net, faults, dialed, gone>>

-----------------------------------------------------------------------------
(* Sockets and packets. *)

Key(addr, id) == [addr |-> addr, recv_id |-> id]
Conn(h, a, seed) == [by |-> h, to |-> a, seed |-> seed]

Live == {"SynSent", "SynRecv", "Connected"}

\* UtpSock: the next sequence number, the packets in the window, the last
\* packet received in order; who holds the connection's handle; when the
\* oldest packet was sent and anything was sent, in ticks.
NewSock(state, send, seq, cur, ack, owner, conn) ==
  [state |-> state, conn_id_send |-> send, seq |-> seq, cur |-> cur, ack |-> ack,
   fin_sent |-> FALSE, fin_sent_acked |-> FALSE, close_requested |-> FALSE,
   error |-> "none", tries |-> 0, timer |-> 0, idle |-> 0, owner |-> owner,
   conn |-> conn]

Packet(type, h, k, s, id, seq, ack) ==
  [type |-> type, src |-> h, dst |-> k.addr, id |-> id % IdMod, seq |-> seq, ack |-> ack,
   age |-> 0, copy |-> 0, conn |-> s.conn]

\* send_ack, send_keep_alive
send_ack(h, k, s) == Packet("STATE", h, k, s, s.conn_id_send, s.seq, s.ack)
send_keep_alive(h, k, s) == Packet("STATE", h, k, s, s.conn_id_send, s.seq, s.ack - 1)

\* send_packet_at for the oldest packet of the window.  A SYN carries the
\* receive id, the others the send id.
Oldest(h, k, s) ==
  LET seq == s.seq - s.cur IN
  IF s.conn.by = h /\ seq = 1 THEN Packet("SYN", h, k, s, k.recv_id, seq, 0)
  ELSE Packet(IF s.fin_sent /\ s.cur = 1 THEN "FIN" ELSE "DATA", h, k, s, s.conn_id_send, seq, s.ack)

\* What a handler leaves: the socket and the packets it sent.  Any packet sent
\* puts off the keep-alive.
Outcome(s, tx) == [sock |-> IF tx = {} THEN s ELSE [s EXCEPT !.idle = 0], tx |-> tx]

\* write_outgoing_packet: one more packet in the window, sent at once if it is
\* the only one.
write_outgoing_packet(h, k, s) ==
  LET t == [s EXCEPT !.seq = @ + 1, !.cur = @ + 1]
  IN  IF s.cur = 0 THEN Outcome([t EXCEPT !.timer = 0], {Oldest(h, k, t)})
      ELSE Outcome(t, {})

-----------------------------------------------------------------------------
(* process_incoming *)

\* The packets an ack_nr acknowledges.
Acks(s, p) ==
  LET acks == p.ack - (s.seq - 1 - s.cur) IN IF acks \in 0 .. s.cur THEN acks ELSE 0

\* The oldest packet leaves the window, the next one is sent.
AckOldest(h, k, s) ==
  LET t == [s EXCEPT !.cur = @ - 1, !.tries = 0, !.timer = 0]
  IN  Outcome(t, IF t.cur > 0 THEN {Oldest(h, k, t)} ELSE {})

AfterAck(h, k, s, acks) == IF acks > 0 /\ s.cur > 0 THEN AckOldest(h, k, s) ELSE Outcome(s, {})

\* The state after the ack: the two completions of the handshake and the ack
\* of the FIN (none is sent before the handshake completes).
Connects(s, p) == s.state = "SynSent" /\ p.type = "STATE"

Completes(s, p) == s.state = "SynRecv" /\ p.type = "DATA"

WithState(s, p) ==
  IF Connects(s, p) \/ Completes(s, p) THEN [s EXCEPT !.state = "Connected"]
  ELSE IF s.fin_sent /\ s.cur = Acks(s, p)
       THEN [s EXCEPT !.fin_sent_acked = TRUE,
                      !.state = IF s.close_requested THEN "Destroy" ELSE @]
       ELSE s

\* A dialer that connects writes an empty packet, and this is the packet in
\* flight once the SYN is acked.
process_incoming(h, k, s0, p) ==
  LET s    == IF s0.state = "SynSent" THEN [s0 EXCEPT !.ack = p.seq - 1] ELSE s0
      old  == p.seq <= s.ack
      t    == WithState(s, p)
      t1   == IF Connects(s, p) THEN write_outgoing_packet(h, k, t).sock ELSE t
      out  == AfterAck(h, k, t1, Acks(s, p))
      data == p.type # "STATE" /\ t.state = "Connected"
      u    == IF data THEN [out.sock EXCEPT !.ack = p.seq] ELSE out.sock
  IN  CASE p.conn # s0.conn -> Outcome(s0, {})
        [] p.conn = s0.conn /\ old -> Outcome(s, IF p.type = "STATE" THEN {} ELSE {send_ack(h, k, s)})
        [] OTHER -> Outcome(u, out.tx \cup (IF data THEN {send_ack(h, k, u)} ELSE {}))

-----------------------------------------------------------------------------
(* process_udp *)

Has(h, k) == k \in DOMAIN sockets[h]

Insert(h, k, s) ==
  sockets' = [sockets EXCEPT ![h] = [j \in DOMAIN @ \cup {k} |-> IF j = k THEN s ELSE @[j]]]

\* The socket an RST is for: its receive id, or else its send id.
ResetKeys(h, p) ==
  LET k0 == Key(p.src, p.id)
      k1 == Key(p.src, p.id + 1)
      k2 == Key(p.src, p.id - 1)
      mine(k) == Has(h, k) /\ sockets[h][k].conn_id_send = p.id
  IN  IF Has(h, k0) THEN {k0}
      ELSE IF mine(k1) THEN {k1} ELSE IF mine(k2) THEN {k2} ELSE {}

FirstError(s, kind) == IF s.error = "none" THEN kind ELSE s.error

ResetSock_keeps_closed(s) ==
  [s EXCEPT !.state = "Reset", !.error = FirstError(s, "ConnectionReset")]

ResetSock(s) ==
  [s EXCEPT !.state = IF s.close_requested THEN "Destroy" ELSE "Reset",
            !.error = FirstError(s, "ConnectionReset")]

ProcessReset(h, p) ==
  /\ sockets' = [sockets EXCEPT ![h] = [k \in DOMAIN @ |->
                   IF k \in ResetKeys(h, p) THEN ResetSock(@[k]) ELSE @[k]]]
  /\ UNCHANGED rst_info

ProcessKnown(h, p, k) ==
  \E out \in {process_incoming(h, k, sockets[h][k], p)} :
    /\ Insert(h, k, out.sock)
    /\ net' = (net \ {p}) \cup out.tx
    /\ UNCHANGED rst_info

\* No socket for this packet: an RST, unless one was sent for the same packet
\* lately or too many are remembered.
Remembered(h, p) == {r \in rst_info[h] : r.addr = p.src /\ r.connid = p.id /\ r.seq = p.seq}

Refresh(h, p) == [rst_info EXCEPT ![h] = (@ \ Remembered(h, p)) \cup
                    {[r EXCEPT !.age = 0] : r \in Remembered(h, p)}]

send_rst(h, p) ==
  [type |-> "RESET", src |-> h, dst |-> p.src, id |-> p.id, seq |-> 0, ack |-> p.seq,
   age |-> 0, copy |-> 0, conn |-> p.conn]

RstMemoryFull(h) == Cardinality(rst_info[h]) > RST_INFO_LIMIT

ProcessUnknown(h, p) ==
  /\ UNCHANGED sockets
  /\ CASE Remembered(h, p) # {} -> rst_info' = Refresh(h, p) /\ net' = net \ {p}
       [] Remembered(h, p) = {} /\ RstMemoryFull(h) ->
            UNCHANGED rst_info /\ net' = net \ {p}
       [] OTHER ->
            /\ rst_info' = [rst_info EXCEPT ![h] = @ \cup
                             {[addr |-> p.src, connid |-> p.id, seq |-> p.seq, age |-> 0]}]
            /\ net' = (net \ {p}) \cup {send_rst(h, p)}

\* A SYN is ignored when its key is taken or the table is full (one that the
\* firewall callback refuses is ignored too: Lose); else the connection is
\* accepted, and closed at once when the backlog is full (process_datagram).
SynKey(p) == Key(p.src, p.id + 1)

SynIgnored(h, p) ==
  \/ Has(h, SynKey(p))
  \/ Cardinality(DOMAIN sockets[h]) > SocketLimit

Waiting(h) == {k \in DOMAIN sockets[h] : sockets[h][k].owner = "backlog"}

Accepted(h, p) ==
  LET full == Cardinality(Waiting(h)) >= BACKLOG IN
  NewSock(IF full THEN "Destroy" ELSE "SynRecv", p.id, 1, 0, p.seq,
          IF full THEN "closed" ELSE "backlog", p.conn)

ProcessSyn_rejects(h, p) ==
  /\ UNCHANGED rst_info
  /\ IF SynIgnored(h, p)
     THEN UNCHANGED sockets /\ net' = (net \ {p}) \cup {send_rst(h, p)}
     ELSE LET s == Accepted(h, p) IN
          /\ Insert(h, SynKey(p), s)
          /\ net' = (net \ {p}) \cup {send_ack(h, SynKey(p), s)}

ProcessSyn(h, p) ==
  /\ UNCHANGED rst_info
  /\ IF SynIgnored(h, p)
     THEN UNCHANGED sockets /\ net' = net \ {p}
     ELSE LET s == Accepted(h, p) IN
          /\ Insert(h, SynKey(p), s)
          /\ net' = (net \ {p}) \cup {send_ack(h, SynKey(p), s)}

Deliver(p) ==
  LET h == p.dst
      k == Key(p.src, p.id)
  IN
  /\ up[h]
  /\ CASE p.type = "RESET" -> ProcessReset(h, p) /\ net' = net \ {p}
       [] p.type = "SYN" -> ProcessSyn(h, p)
       [] p.type \notin {"RESET", "SYN"} /\ Has(h, k) -> ProcessKnown(h, p, k)
       [] OTHER -> ProcessUnknown(h, p)
  /\ UNCHANGED <<up, faults, dialed, gone>>

-----------------------------------------------------------------------------
(* check_timeouts *)

\* The RTO kills the connection after too many timeouts, else the oldest
\* packet is sent again; an idle connection sends a keep-alive.
TooManyTimeouts(s) ==
  \/ s.state = "SynRecv"
  \/ s.tries >= RetransmitLimit
  \/ s.state = "SynSent" /\ s.tries >= SynRetransmitLimit

Killed(s) ==
  [s EXCEPT !.state = IF s.state = "SynRecv" \/ s.close_requested THEN "Destroy" ELSE "Reset",
            !.error = FirstError(s, "TimedOut")]

OnTimeout(h, k, s) ==
  IF TooManyTimeouts(s) THEN Outcome(Killed(s), {})
  ELSE Outcome([s EXCEPT !.tries = @ + 1, !.timer = 0], {Oldest(h, k, s)})

\* Every timeout in a row doubles the wait for the next.
Timeout(s) == RTO * 2^s.tries

KeepAliveDue(s) == s.state = "Connected" /\ ~s.fin_sent /\ s.idle >= KEEPALIVE_INTERVAL

check_timeouts(h, k, s) ==
  LET out == IF s.cur > 0 /\ s.timer >= Timeout(s) THEN OnTimeout(h, k, s) ELSE Outcome(s, {})
  IN  CASE s.state \notin Live -> Outcome(s, {})
        [] s.state \in Live /\ KeepAliveDue(out.sock) ->
             Outcome(out.sock, out.tx \cup {send_keep_alive(h, k, out.sock)})
        [] OTHER -> out

\* A tick later: timers that cannot matter any more stand still.
Aged(s) == [s EXCEPT !.timer = IF s.cur > 0 /\ s.state \in Live /\ @ < Timeout(s) THEN @ + 1 ELSE @,
                     !.idle = IF s.state = "Connected" /\ @ < KEEPALIVE_INTERVAL THEN @ + 1 ELSE @]

\* Context::check_timeouts forgets old RSTs and removes the sockets that are
\* in Destroy, also those that got there just now.
Purged_never(h) == rst_info[h]
Purged(h) == {r \in {[q EXCEPT !.age = @ + 1] : q \in rst_info[h]} : r.age < RST_INFO_TIMEOUT}

Checked(h) ==
  [k \in DOMAIN sockets[h] |-> check_timeouts(h, k, Aged(sockets[h][k]))]

Tick ==
  /\ \A p \in net : p.age < MaxDelay
  /\ \E after \in {[h \in Hosts |-> IF up[h] THEN Checked(h) ELSE <<>>]} :
       LET dead(h) == {k \in DOMAIN after[h] : after[h][k].sock.state = "Destroy"} IN
       /\ sockets' = [h \in Hosts |-> [k \in DOMAIN after[h] \ dead(h) |-> after[h][k].sock]]
       /\ gone' = [h \in Hosts |-> gone[h] \cup {sockets[h][k].conn : k \in dead(h)}]
       /\ net' = {[p EXCEPT !.age = @ + 1] : p \in net} \cup
                 UNION {UNION {after[h][k].tx : k \in DOMAIN after[h]} : h \in Hosts}
  /\ rst_info' = [h \in Hosts |-> Purged(h)]
  /\ UNCHANGED <<up, faults, dialed>>

-----------------------------------------------------------------------------
(* The calls of the application. *)

\* Context::connect: the seed is drawn again while its key is in use.
SeedTaken(h, a, seed) == Has(h, Key(a, seed))

Dial(h, a, seed) ==
  LET k == Key(a, seed)
      s == NewSock("SynSent", seed + 1, 2, 1, 0, "handle", Conn(h, a, seed))
  IN
  /\ up[h] /\ h # a
  /\ Conn(h, a, seed) \notin dialed
  /\ ~SeedTaken(h, a, seed)
  /\ Insert(h, k, s)
  /\ net' = net \cup {Oldest(h, k, s)}
  /\ dialed' = dialed \cup {Conn(h, a, seed)}
  /\ UNCHANGED <<rst_info, up, faults, gone>>

Accept(h, k) ==
  /\ k \in Waiting(h)
  /\ Insert(h, k, [sockets[h][k] EXCEPT !.owner = "handle"])
  /\ UNCHANGED <<rst_info, up, net, faults, dialed, gone>>

Writes(h, s) == s.seq - (IF s.conn.by = h THEN 3 ELSE 1)

Write(h, k) ==
  LET s == sockets[h][k] IN
  /\ s.owner = "handle" /\ s.error = "none"
  /\ s.state = "Connected" /\ ~s.fin_sent
  /\ Writes(h, s) < MaxWrites - 1
  /\ \E out \in {write_outgoing_packet(h, k, s)} :
       Insert(h, k, out.sock) /\ net' = net \cup out.tx
  /\ UNCHANGED <<rst_info, up, faults, dialed, gone>>

\* Conn::close and close_engine.
close_engine(h, k, s) ==
  LET t == [s EXCEPT !.close_requested = TRUE, !.fin_sent = TRUE] IN
  CASE s.state = "Connected" /\ ~s.fin_sent -> write_outgoing_packet(h, k, t)
    [] s.state = "Connected" /\ s.fin_sent ->
         Outcome([t EXCEPT !.state = IF s.fin_sent_acked THEN "Destroy" ELSE @], {})
    [] OTHER -> Outcome([s EXCEPT !.state = "Destroy"], {})

Close(h, k) ==
  LET s == sockets[h][k] IN
  /\ s.owner = "handle"
  /\ \E out \in {close_engine(h, k, [s EXCEPT !.owner = "closed"])} :
       Insert(h, k, out.sock) /\ net' = net \cup out.tx
  /\ UNCHANGED <<rst_info, up, faults, dialed, gone>>

\* Socket::close destroys every socket without a packet (destroy_all).
CloseSocket(h) ==
  /\ up[h] /\ faults.restarts < MaxRestarts
  /\ faults' = [faults EXCEPT !.restarts = @ + 1]
  /\ up' = [up EXCEPT ![h] = FALSE]
  /\ gone' = [gone EXCEPT ![h] = @ \cup {sockets[h][k].conn : k \in DOMAIN sockets[h]}]
  /\ sockets' = [sockets EXCEPT ![h] = <<>>]
  /\ UNCHANGED <<rst_info, net, dialed>>

\* A new Socket on the same port starts with a new Context.
Bind(h) ==
  /\ ~up[h]
  /\ up' = [up EXCEPT ![h] = TRUE]
  /\ rst_info' = [rst_info EXCEPT ![h] = {}]
  /\ UNCHANGED <<sockets, net, faults, dialed, gone>>

-----------------------------------------------------------------------------
(* The network (external). *)

\* A datagram is lost, or addressed to a closed port, or a SYN that the
\* firewall callback refuses.
Lose(p) ==
  /\ net' = net \ {p}
  /\ \/ ~up[p.dst] /\ UNCHANGED faults
     \/ up[p.dst] /\ faults.losses < MaxLosses /\ faults' = [faults EXCEPT !.losses = @ + 1]
  /\ UNCHANGED <<sockets, rst_info, up, dialed, gone>>

\* The copy travels on its own.
Duplicate(p) ==
  /\ p.copy = 0 /\ faults.dups < MaxDups
  /\ faults' = [faults EXCEPT !.dups = @ + 1]
  /\ net' = net \cup {[p EXCEPT !.copy = 1]}
  /\ UNCHANGED <<sockets, rst_info, up, dialed, gone>>

-----------------------------------------------------------------------------

Init ==
  /\ sockets = [h \in Hosts |-> <<>>]
  /\ rst_info = [h \in Hosts |-> {}]
  /\ up = [h \in Hosts |-> TRUE]
  /\ net = {}
  /\ faults = [losses |-> 0, dups |-> 0, restarts |-> 0]
  /\ dialed = {}
  /\ gone = [h \in Hosts |-> {}]

Delivery == \E p \in net : Deliver(p) \/ Lose(p)

Next ==
  \/ \E h, a \in Hosts : \E seed \in Seeds[h] : Dial(h, a, seed)
  \/ \E h \in Hosts : \E k \in DOMAIN sockets[h] : Accept(h, k) \/ Write(h, k) \/ Close(h, k)
  \/ \E h \in Hosts : CloseSocket(h) \/ Bind(h)
  \/ Tick
  \/ Delivery
  \/ \E p \in net : Duplicate(p)

Spec == Init /\ [][Next]_vars

\* The reader threads run check_timeouts for ever, and a datagram reaches a
\* socket or gets lost in bounded time.
FairSpec == Spec /\ WF_vars(Tick) /\ WF_vars(Delivery)

-----------------------------------------------------------------------------
(* Properties. *)

Peer(h, s) == IF s.conn.by = h THEN s.conn.to ELSE s.conn.by
AllSockets == UNION {{<<h, k>> : k \in DOMAIN sockets[h]} : h \in Hosts}
SockOf(hk) == sockets[hk[1]][hk[2]]

\* No two connections dialled so far between the same two hosts have equal or
\* neighbouring seeds, counted round the ids.
Between(c, d) == {c.by, c.to} = {d.by, d.to}
IdsApart ==
  \A c, d \in dialed :
    c # d /\ Between(c, d) => c.seed - d.seed \notin {0, 1, -1, IdMod - 1, 1 - IdMod}

\* A socket is only reset when its peer has dropped its end: the id in an RST "is
\* either our recv id or our send id" (process_udp), the id of this connection.
ResetsJustified ==
  \A hk \in AllSockets : LET s == SockOf(hk) IN
    s.error = "ConnectionReset" => s.conn \in gone[Peer(hk[1], s)]

\* As long as the ids of the connections are apart, a connection is only ever
\* reset, by an RST in any order with anything else, when its peer has really
\* dropped its end (process_udp, ResetKeys).
ResetJustified == IdsApart => ResetsJustified

Orphan(h, c) ==
  /\ \E k \in DOMAIN sockets[h] : sockets[h][k].conn = c /\ sockets[h][k].state = "Connected"
  /\ LET peer == IF c.by = h THEN c.to ELSE c.by IN
     up[peer] /\ \A k \in DOMAIN sockets[peer] : sockets[peer][k].conn # c

Conns == UNION {{Conn(h, a, seed) : a \in Hosts \ {h}, seed \in Seeds[h]} : h \in Hosts}

\* An end whose peer has lost its end (closed or restarted) finds out, even when
\* it is idle and even when RSTs get lost: keep-alives provoke an RST, and the
\* memory of the last one has expired.
OrphanIsReset == \A h \in Hosts : \A c \in Conns : Orphan(h, c) ~> ~Orphan(h, c)

\* A connection closed by the application leaves the table, whether its FIN is
\* acked, answered by an RST or never answered.
ClosedIsRemoved ==
  \A h \in Hosts : \A c \in Conns :
    (\E k \in DOMAIN sockets[h] : sockets[h][k].conn = c /\ sockets[h][k].close_requested)
    ~> (\A k \in DOMAIN sockets[h] : sockets[h][k].conn # c)

\* The handshake gets through although a SYN or a SYN-ACK is lost: a dial does
\* not time out for it.
DialSurvivesLoss ==
  faults.losses <= 1 =>
    \A hk \in AllSockets : LET s == SockOf(hk) IN
      ~(s.conn.by = hk[1] /\ s.seq = 2 /\ s.error = "TimedOut")
=============================================================================

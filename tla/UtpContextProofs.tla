--------------------------- MODULE UtpContextProofs ---------------------------
(***************************************************************************)
(* Proofs about UtpContext: an RST only ever resets a connection whose peer *)
(* has dropped its end, as long as the connections between two hosts have   *)
(* ids that are not next to one another.                                    *)
(*                                                                          *)
(* The invariant ties every socket and every datagram to the connection it  *)
(* belongs to: which end it is of, under which ids, and that nothing but a  *)
(* SYN travels before the other end has existed.                            *)
(***************************************************************************)
EXTENDS UtpContext, ArithLemmas, TLAPS

-----------------------------------------------------------------------------
(* The invariant. *)

Known(h, c) == c \in gone[h] \/ \E k \in DOMAIN sockets[h] : sockets[h][k].conn = c

\* The connections that have had an end at the host they were dialled to.
Born == {c \in dialed : Known(c.to, c)}

Ended  == {"Reset", "Destroy"}
States == Live \cup Ended
Errors == {"none", "ConnectionReset", "TimedOut"}
Owners == {"handle", "backlog", "closed"}

SockType ==
  [state : States, conn_id_send : Int, seq : Int, cur : Int, ack : Int,
   fin_sent : BOOLEAN, fin_sent_acked : BOOLEAN, close_requested : BOOLEAN,
   error : Errors, tries : Int, timer : Int, idle : Int,
   owner : Owners, conn : Conns]

PacketType ==
  [type : {"SYN", "STATE", "DATA", "FIN", "RESET"}, src : Hosts, dst : Hosts, id : Int,
   seq : Int, ack : Int, age : Int, copy : Int, conn : Conns]

\* Socket s under key k of host h is an end of its connection.
Linked(h, k, s) ==
  \/ h = s.conn.by /\ k = Key(s.conn.to, s.conn.seed) /\ s.conn_id_send = s.conn.seed + 1
  \/ h = s.conn.to /\ k = Key(s.conn.by, s.conn.seed + 1) /\ s.conn_id_send = s.conn.seed

\* An end that has only sent its SYN.
Dialling(h, s) ==
  h = s.conn.by /\ s.state \in {"SynSent", "Reset", "Destroy"} /\ s.seq = 2 /\ s.cur = 1

SockGood(D, B, h, k, s) ==
  /\ s \in SockType
  /\ s.conn \in D
  /\ Linked(h, k, s)
  /\ s.conn \in B \/ Dialling(h, s)

FromDialer(p)   == p.src = p.conn.by /\ p.dst = p.conn.to
FromAcceptor(p) == p.src = p.conn.to /\ p.dst = p.conn.by

\* What a datagram says of the connection it was sent for.  An RST says that
\* its sender has dropped its end, but for the seed whose send id has wrapped.
PacketGood(D, B, G, p) ==
  /\ p \in PacketType
  /\ p.conn \in D
  /\ CASE p.type = "SYN" -> FromDialer(p) /\ p.id = p.conn.seed
       [] p.type = "RESET" ->
            \/ FromDialer(p) /\ p.id = p.conn.seed /\ p.conn \in G[p.src]
            \/ /\ FromAcceptor(p) /\ p.id = (p.conn.seed + 1) % IdMod
               /\ p.conn \in G[p.src] \/ p.conn.seed + 1 = IdMod
       [] OTHER ->
            /\ p.conn \in B
            /\ \/ FromDialer(p) /\ p.id = (p.conn.seed + 1) % IdMod
               \/ FromAcceptor(p) /\ p.id = p.conn.seed

SocketsGood == \A h \in Hosts : \A k \in DOMAIN sockets[h] : SockGood(dialed, Born, h, k, sockets[h][k])
NetGood == \A p \in net : PacketGood(dialed, Born, gone, p)
DialersKnown == \A c \in dialed : Known(c.by, c)
DownIsEmpty == \A h \in Hosts : ~up[h] => DOMAIN sockets[h] = {}

CInv ==
  /\ DOMAIN sockets = Hosts /\ DOMAIN gone = Hosts /\ dialed \subseteq Conns
  /\ SocketsGood
  /\ NetGood
  /\ DialersKnown
  /\ up \in [Hosts -> BOOLEAN] /\ DownIsEmpty

-----------------------------------------------------------------------------
(* Types, ids and monotonicity. *)

LEMMA ConnFacts ==
  ASSUME NEW c \in Conns
  PROVE  /\ c = Conn(c.by, c.to, c.seed)
         /\ c.by \in Hosts /\ c.to \in Hosts /\ c.by # c.to
         /\ c.seed \in 0 .. IdMod - 1 /\ c.seed \in Int
<1>1. PICK h \in Hosts : c \in {Conn(h, a, seed) : a \in Hosts \ {h}, seed \in Seeds[h]}
  BY DEF Conns
<1>2. PICK a \in Hosts \ {h}, seed \in Seeds[h] : c = Conn(h, a, seed)
  BY <1>1
<1>3. seed \in 0 .. IdMod - 1 /\ IdMod \in Nat
  BY <1>2, ContextAssumption
<1> QED BY <1>2, <1>3 DEF Conn

LEMMA ModSmall ==
  ASSUME NEW n \in Nat \ {0}, NEW a \in 0 .. n - 1
  PROVE  a % n = a
OBVIOUS

LEMMA ModSelf ==
  ASSUME NEW n \in Nat \ {0}
  PROVE  n % n = 0
OBVIOUS

LEMMA SeedId ==
  ASSUME NEW c \in Conns
  PROVE  c.seed % IdMod = c.seed
BY ConnFacts, ModSmall, ContextAssumption

\* A socket keeps its quality as dialed and Born grow, a datagram as gone does too.
LEMMA SockGrows ==
  ASSUME NEW D, NEW B, NEW D2, NEW B2, D \subseteq D2, B \subseteq B2,
         NEW h, NEW k, NEW s, SockGood(D, B, h, k, s)
  PROVE  SockGood(D2, B2, h, k, s)
BY DEF SockGood

LEMMA PacketGrows ==
  ASSUME NEW D, NEW B, NEW G, NEW D2, NEW B2, NEW G2, D \subseteq D2, B \subseteq B2,
         \A h \in Hosts : G[h] \subseteq G2[h],
         NEW p, PacketGood(D, B, G, p)
  PROVE  PacketGood(D2, B2, G2, p)
<1>1. p \in PacketType /\ p.conn \in D2 /\ p.src \in Hosts
  BY DEF PacketGood, PacketType
<1>2. p.conn \in G[p.src] => p.conn \in G2[p.src]
  BY <1>1
<1> QED BY <1>1, <1>2 DEF PacketGood

-----------------------------------------------------------------------------
(* What the handlers send and leave. *)

\* Socket t is socket s later: same connection, same ids, and no reset between.
Same(s, t) ==
  /\ t \in SockType
  /\ t.conn = s.conn /\ t.conn_id_send = s.conn_id_send
  /\ t.error = "ConnectionReset" => s.error = "ConnectionReset"

LEMMA OutcomeSame ==
  ASSUME NEW s \in SockType, NEW tx
  PROVE  /\ Same(s, Outcome(s, tx).sock) /\ Outcome(s, tx).tx = tx
         /\ Outcome(s, tx).sock.state = s.state
         /\ Outcome(s, tx).sock.seq = s.seq /\ Outcome(s, tx).sock.cur = s.cur
<1>1. Outcome(s, tx).tx = tx
  BY DEF Outcome
<1>2. CASE tx = {}
  BY <1>1, <1>2 DEF Outcome, Same
<1>3. CASE tx # {}
  <2>1. Outcome(s, tx).sock = [s EXCEPT !.idle = 0]
    BY <1>3 DEF Outcome
  <2>2. [s EXCEPT !.idle = 0] \in SockType
    BY DEF SockType
  <2> QED BY <1>1, <2>1, <2>2 DEF Same, SockType
<1> QED BY <1>2, <1>3

LEMMA SameTrans ==
  ASSUME NEW s, NEW t, NEW u, Same(s, t), Same(t, u)
  PROVE  Same(s, u)
BY DEF Same

\* Writing one field of a socket that is neither its connection, nor its id, nor
\* its error.
LEMMA FieldSame ==
  ASSUME NEW s \in SockType
  PROVE  /\ Same(s, s)
         /\ \A v \in Int : Same(s, [s EXCEPT !.seq = v])
         /\ \A v \in Int : Same(s, [s EXCEPT !.cur = v])
         /\ \A v \in Int : Same(s, [s EXCEPT !.ack = v])
         /\ \A v \in Int : Same(s, [s EXCEPT !.tries = v])
         /\ \A v \in Int : Same(s, [s EXCEPT !.timer = v])
         /\ \A v \in Int : Same(s, [s EXCEPT !.idle = v])
         /\ \A v \in BOOLEAN : Same(s, [s EXCEPT !.fin_sent = v])
         /\ \A v \in BOOLEAN : Same(s, [s EXCEPT !.fin_sent_acked = v])
         /\ \A v \in BOOLEAN : Same(s, [s EXCEPT !.close_requested = v])
         /\ \A v \in States : Same(s, [s EXCEPT !.state = v])
         /\ \A v \in Owners : Same(s, [s EXCEPT !.owner = v])
<1>0. Same(s, s)
  BY DEF Same
<1>1. ASSUME NEW v \in Int PROVE Same(s, [s EXCEPT !.seq = v])
  <2>1. [s EXCEPT !.seq = v] \in SockType
    BY DEF SockType
  <2> QED BY <2>1 DEF Same, SockType
<1>2. ASSUME NEW v \in Int PROVE Same(s, [s EXCEPT !.cur = v])
  <2>1. [s EXCEPT !.cur = v] \in SockType
    BY DEF SockType
  <2> QED BY <2>1 DEF Same, SockType
<1>3. ASSUME NEW v \in Int PROVE Same(s, [s EXCEPT !.ack = v])
  <2>1. [s EXCEPT !.ack = v] \in SockType
    BY DEF SockType
  <2> QED BY <2>1 DEF Same, SockType
<1>4. ASSUME NEW v \in Int PROVE Same(s, [s EXCEPT !.tries = v])
  <2>1. [s EXCEPT !.tries = v] \in SockType
    BY DEF SockType
  <2> QED BY <2>1 DEF Same, SockType
<1>5. ASSUME NEW v \in Int PROVE Same(s, [s EXCEPT !.timer = v])
  <2>1. [s EXCEPT !.timer = v] \in SockType
    BY DEF SockType
  <2> QED BY <2>1 DEF Same, SockType
<1>6. ASSUME NEW v \in Int PROVE Same(s, [s EXCEPT !.idle = v])
  <2>1. [s EXCEPT !.idle = v] \in SockType
    BY DEF SockType
  <2> QED BY <2>1 DEF Same, SockType
<1>7. ASSUME NEW v \in BOOLEAN PROVE Same(s, [s EXCEPT !.fin_sent = v])
  <2>1. [s EXCEPT !.fin_sent = v] \in SockType
    BY DEF SockType
  <2> QED BY <2>1 DEF Same, SockType
<1>8. ASSUME NEW v \in BOOLEAN PROVE Same(s, [s EXCEPT !.fin_sent_acked = v])
  <2>1. [s EXCEPT !.fin_sent_acked = v] \in SockType
    BY DEF SockType
  <2> QED BY <2>1 DEF Same, SockType
<1>9. ASSUME NEW v \in BOOLEAN PROVE Same(s, [s EXCEPT !.close_requested = v])
  <2>1. [s EXCEPT !.close_requested = v] \in SockType
    BY DEF SockType
  <2> QED BY <2>1 DEF Same, SockType
<1>10. ASSUME NEW v \in States PROVE Same(s, [s EXCEPT !.state = v])
  <2>1. [s EXCEPT !.state = v] \in SockType
    BY DEF SockType
  <2> QED BY <2>1 DEF Same, SockType
<1>11. ASSUME NEW v \in Owners PROVE Same(s, [s EXCEPT !.owner = v])
  <2>1. [s EXCEPT !.owner = v] \in SockType
    BY DEF SockType
  <2> QED BY <2>1 DEF Same, SockType
<1> QED BY <1>0, <1>1, <1>2, <1>3, <1>4, <1>5, <1>6, <1>7, <1>8, <1>9, <1>10, <1>11

LEMMA SameGood ==
  ASSUME NEW D, NEW B, NEW h, NEW k, NEW s, NEW t, SockGood(D, B, h, k, s), Same(s, t), s.conn \in B
  PROVE  SockGood(D, B, h, k, t)
BY DEF SockGood, Same, Linked

\* The ends of a connection: where a socket is and where it sends to.
LEMMA LinkedEnds ==
  ASSUME NEW D, NEW B, NEW h \in Hosts, NEW k, NEW s, SockGood(D, B, h, k, s)
  PROVE  /\ k.addr \in Hosts
         /\ s.conn \in Conns
         /\ \/ /\ h = s.conn.by /\ k.addr = s.conn.to /\ k.recv_id = s.conn.seed
               /\ s.conn_id_send = s.conn.seed + 1
            \/ /\ h = s.conn.to /\ h # s.conn.by /\ k.addr = s.conn.by
               /\ s.conn_id_send = s.conn.seed
<1>1. s.conn \in Conns
  BY DEF SockGood, SockType
<1> QED BY <1>1, ConnFacts DEF SockGood, Linked, Key

\* A packet of a connection that is born, of any type but SYN and RESET.
LEMMA SentGood ==
  ASSUME NEW D, NEW B, NEW G, NEW h \in Hosts, NEW k, NEW s, SockGood(D, B, h, k, s), s.conn \in B,
         NEW type \in {"STATE", "DATA", "FIN"}, NEW seq \in Int, NEW ack \in Int
  PROVE  PacketGood(D, B, G, Packet(type, h, k, s, s.conn_id_send, seq, ack))
<1> DEFINE p == Packet(type, h, k, s, s.conn_id_send, seq, ack)
<1>1. /\ p.type = type /\ p.src = h /\ p.dst = k.addr /\ p.id = s.conn_id_send % IdMod
      /\ p.seq = seq /\ p.ack = ack /\ p.age = 0 /\ p.copy = 0 /\ p.conn = s.conn
  BY DEF Packet
<1>2. s.conn \in Conns /\ s.conn.seed % IdMod = s.conn.seed /\ s.conn.seed \in Int /\ s.conn_id_send \in Int
  BY LinkedEnds, SeedId, ConnFacts DEF SockGood, SockType
<1>3. p.id \in Int
  BY <1>1, <1>2, ContextAssumption
<1>4. p \in PacketType
  BY <1>1, <1>2, <1>3, LinkedEnds DEF PacketType, Packet
<1>5. \/ FromDialer(p) /\ p.id = (p.conn.seed + 1) % IdMod
      \/ FromAcceptor(p) /\ p.id = p.conn.seed
  BY <1>1, <1>2, LinkedEnds DEF FromDialer, FromAcceptor
<1>6. p.conn \in D /\ p.conn \in B /\ p.type \notin {"SYN", "RESET"}
  BY <1>1 DEF SockGood
<1>7. PacketGood(D, B, G, p)
  BY <1>4, <1>5, <1>6 DEF PacketGood
<1> QED BY <1>7

LEMMA SynGood ==
  ASSUME NEW D, NEW B, NEW G, NEW h \in Hosts, NEW k, NEW s, SockGood(D, B, h, k, s), h = s.conn.by,
         NEW seq \in Int
  PROVE  PacketGood(D, B, G, Packet("SYN", h, k, s, k.recv_id, seq, 0))
<1> DEFINE p == Packet("SYN", h, k, s, k.recv_id, seq, 0)
<1>1. /\ p.type = "SYN" /\ p.src = h /\ p.dst = k.addr /\ p.id = k.recv_id % IdMod
      /\ p.seq = seq /\ p.ack = 0 /\ p.age = 0 /\ p.copy = 0 /\ p.conn = s.conn
  BY DEF Packet
<1>2. s.conn \in Conns /\ s.conn.seed % IdMod = s.conn.seed /\ s.conn.seed \in Int /\ s.conn.by # s.conn.to
  BY LinkedEnds, SeedId, ConnFacts
<1>3. k.addr = s.conn.to /\ k.recv_id = s.conn.seed /\ s.conn.to \in Hosts
  BY <1>2, LinkedEnds, ConnFacts
<1>4. p \in PacketType
  BY <1>1, <1>2, <1>3 DEF PacketType, Packet
<1>6. p.conn \in D
  BY <1>1 DEF SockGood
<1>7. PacketGood(D, B, G, p)
  BY <1>1, <1>2, <1>3, <1>4, <1>6 DEF PacketGood, FromDialer
<1> QED BY <1>7

LEMMA OldestGood ==
  ASSUME NEW D, NEW B, NEW G, NEW h \in Hosts, NEW k, NEW s, SockGood(D, B, h, k, s)
  PROVE  PacketGood(D, B, G, Oldest(h, k, s))
<1>1. s.seq \in Int /\ s.cur \in Int /\ s.ack \in Int /\ s.seq - s.cur \in Int
  BY DEF SockGood, SockType
<1>2. CASE s.conn.by = h /\ s.seq - s.cur = 1
  BY <1>1, <1>2, SynGood DEF Oldest
<1>3. CASE ~(s.conn.by = h /\ s.seq - s.cur = 1)
  <2>1. s.conn \in B
    BY <1>1, <1>3 DEF SockGood, Dialling
  <2> QED BY <1>1, <1>3, <2>1, SentGood DEF Oldest
<1> QED BY <1>2, <1>3

\* What a handler leaves of socket s of host h: the same end of the same
\* connection, sending only what its connection allows.
LeavesGood(D, B, G, h, k, s, out) ==
  /\ Same(s, out.sock)
  /\ SockGood(D, B, h, k, out.sock)
  /\ \A p \in out.tx : PacketGood(D, B, G, p)

LEMMA WriteLeavesGood ==
  ASSUME NEW D, NEW B, NEW G, NEW h \in Hosts, NEW k, NEW s, SockGood(D, B, h, k, s), s.conn \in B
  PROVE  LeavesGood(D, B, G, h, k, s, write_outgoing_packet(h, k, s))
<1> DEFINE t == [s EXCEPT !.seq = @ + 1, !.cur = @ + 1]
           u == [t EXCEPT !.timer = 0]
<1>1. Same(s, t) /\ Same(s, u)
  <2> DEFINE q == [s EXCEPT !.seq = s.seq + 1]
  <2>1. s \in SockType /\ s.seq + 1 \in Int /\ s.cur + 1 \in Int
    BY DEF SockGood, SockType
  <2>2. Same(s, q) /\ q \in SockType
    BY <2>1, FieldSame DEF Same
  <2>3. Same(q, [q EXCEPT !.cur = s.cur + 1])
    <3> HIDE DEF q
    <3> QED BY <2>1, <2>2, FieldSame
  <2>4. [q EXCEPT !.cur = s.cur + 1] = t
    BY <2>1 DEF SockType
  <2>5. Same(s, t) /\ t \in SockType
    BY <2>2, <2>3, <2>4, SameTrans DEF Same
  <2>6. Same(t, u)
    <3> HIDE DEF t
    <3> QED BY <2>5, FieldSame
  <2> QED BY <2>5, <2>6, SameTrans
<1>2. SockGood(D, B, h, k, t) /\ SockGood(D, B, h, k, u)
  BY <1>1, SameGood
<1>3. t \in SockType /\ u \in SockType
  BY <1>1 DEF Same
<1>4. t.conn \in B /\ u.conn \in B
  BY <1>1 DEF Same
<1>5. PacketGood(D, B, G, Oldest(h, k, t))
  BY <1>2, OldestGood
<1> HIDE DEF t, u
<1>6. CASE s.cur = 0
  <2>1. write_outgoing_packet(h, k, s) = Outcome(u, {Oldest(h, k, t)})
    BY <1>6 DEF write_outgoing_packet, t, u
  <2>2. Same(u, Outcome(u, {Oldest(h, k, t)}).sock) /\ Outcome(u, {Oldest(h, k, t)}).tx = {Oldest(h, k, t)}
    BY <1>3, OutcomeSame
  <2>3. SockGood(D, B, h, k, Outcome(u, {Oldest(h, k, t)}).sock)
    BY <1>2, <1>4, <2>2, SameGood
  <2>4. Same(s, Outcome(u, {Oldest(h, k, t)}).sock)
    BY <1>1, <2>2, SameTrans
  <2> QED BY <1>5, <2>1, <2>2, <2>3, <2>4 DEF LeavesGood
<1>7. CASE s.cur # 0
  <2>1. write_outgoing_packet(h, k, s) = Outcome(t, {})
    BY <1>7 DEF write_outgoing_packet, t
  <2>2. Same(t, Outcome(t, {}).sock) /\ Outcome(t, {}).tx = {}
    BY <1>3, OutcomeSame
  <2>3. SockGood(D, B, h, k, Outcome(t, {}).sock)
    BY <1>2, <1>4, <2>2, SameGood
  <2>4. Same(s, Outcome(t, {}).sock)
    BY <1>1, <2>2, SameTrans
  <2> QED BY <2>1, <2>2, <2>3, <2>4 DEF LeavesGood
<1> QED BY <1>6, <1>7

\* An outcome whose socket is the same end, of a born connection.
LEMMA OutcomeGood ==
  ASSUME NEW D, NEW B, NEW G, NEW h \in Hosts, NEW k, NEW s, SockGood(D, B, h, k, s), s.conn \in B,
         NEW t, Same(s, t), NEW tx, \A p \in tx : PacketGood(D, B, G, p)
  PROVE  LeavesGood(D, B, G, h, k, s, Outcome(t, tx))
<1>1. SockGood(D, B, h, k, t) /\ t \in SockType /\ t.conn \in B
  BY SameGood DEF Same
<1>2. Same(t, Outcome(t, tx).sock) /\ Outcome(t, tx).tx = tx
  BY <1>1, OutcomeSame
<1>3. SockGood(D, B, h, k, Outcome(t, tx).sock)
  BY <1>1, <1>2, SameGood
<1>4. Same(s, Outcome(t, tx).sock)
  BY <1>2, SameTrans
<1> QED BY <1>2, <1>3, <1>4 DEF LeavesGood

LEMMA AfterAckGood ==
  ASSUME NEW D, NEW B, NEW G, NEW h \in Hosts, NEW k, NEW s, SockGood(D, B, h, k, s), s.conn \in B, NEW acks
  PROVE  LeavesGood(D, B, G, h, k, s, AfterAck(h, k, s, acks))
<1> DEFINE t == [s EXCEPT !.cur = @ - 1, !.tries = 0, !.timer = 0]
<1>0. s \in SockType
  BY DEF SockGood
<1>1. Same(s, s)
  BY <1>0 DEF Same
<1>2. Same(s, t)
  <2> DEFINE q == [s EXCEPT !.cur = s.cur - 1]
             r == [q EXCEPT !.tries = 0]
  <2>1. Same(s, q) /\ q \in SockType
    BY <1>0, FieldSame DEF Same, SockType
  <2>2. Same(q, r) /\ r \in SockType
    <3> HIDE DEF q
    <3> QED BY <2>1, FieldSame DEF Same
  <2>3. Same(r, [r EXCEPT !.timer = 0])
    <3> HIDE DEF r
    <3> QED BY <2>2, FieldSame
  <2>4. [r EXCEPT !.timer = 0] = t
    BY <1>0 DEF SockType
  <2>5. Same(s, [r EXCEPT !.timer = 0])
    <3> HIDE DEF q, r
    <3>1. Same(s, r)
      BY <2>1, <2>2, SameTrans
    <3> QED BY <2>3, <3>1, SameTrans
  <2> QED BY <2>4, <2>5
<1>3. SockGood(D, B, h, k, t)
  BY <1>2, SameGood
<1> DEFINE tx == IF t.cur > 0 THEN {Oldest(h, k, t)} ELSE {}
<1>4. \A p \in tx : PacketGood(D, B, G, p)
  BY <1>3, OldestGood
<1>5. AfterAck(h, k, s, acks) = Outcome(s, {}) \/ AfterAck(h, k, s, acks) = Outcome(t, tx)
  BY DEF AfterAck, AckOldest
<1>6. LeavesGood(D, B, G, h, k, s, Outcome(s, {}))
  BY <1>1, OutcomeGood
<1>7. LeavesGood(D, B, G, h, k, s, Outcome(t, tx))
  <2> HIDE DEF t, tx
  <2> QED BY <1>2, <1>4, OutcomeGood
<1> QED BY <1>5, <1>6, <1>7

LEMMA AckIsGood ==
  ASSUME NEW D, NEW B, NEW G, NEW h \in Hosts, NEW k, NEW s, SockGood(D, B, h, k, s), s.conn \in B
  PROVE  PacketGood(D, B, G, send_ack(h, k, s)) /\ PacketGood(D, B, G, send_keep_alive(h, k, s))
<1>1. s.seq \in Int /\ s.ack \in Int /\ s.ack - 1 \in Int
  BY DEF SockGood, SockType
<1> QED BY <1>1, SentGood DEF send_ack, send_keep_alive

LEMMA WithStateSame ==
  ASSUME NEW s \in SockType, NEW p
  PROVE  Same(s, WithState(s, p))
<1> DEFINE st == IF s.close_requested THEN "Destroy" ELSE s.state
           r  == [s EXCEPT !.fin_sent_acked = TRUE]
<1>0. TRUE \in BOOLEAN /\ "Connected" \in States
  BY DEF States, Live
<1>1. Same(s, r) /\ r \in SockType /\ st \in States
  <2>1. Same(s, r)
    BY <1>0, FieldSame, Zenon
  <2>2. st \in States
    BY DEF SockType, States, Ended
  <2> QED BY <2>1, <2>2 DEF Same
<1>2. Same(r, [r EXCEPT !.state = st])
  <2> HIDE DEF r, st
  <2> QED BY <1>1, FieldSame
<1>3. Same(s, [r EXCEPT !.state = st])
  BY <1>1, <1>2, SameTrans
<1>4. [r EXCEPT !.state = st]
        = [s EXCEPT !.fin_sent_acked = TRUE, !.state = IF s.close_requested THEN "Destroy" ELSE @]
  BY DEF SockType
<1>5. Same(s, s) /\ Same(s, [s EXCEPT !.state = "Connected"])
  BY <1>0, FieldSame, Zenon
<1> QED BY <1>3, <1>4, <1>5 DEF WithState

\* process_incoming: a packet of a connection that is not a SYN shows that the
\* connection is born.
LEMMA IncomingGood ==
  ASSUME NEW D, NEW B, NEW G, NEW h \in Hosts, NEW k, NEW s0, SockGood(D, B, h, k, s0),
         NEW p, PacketGood(D, B, G, p), p.type \notin {"SYN", "RESET"}
  PROVE  LeavesGood(D, B, G, h, k, s0, process_incoming(h, k, s0, p))
<1> DEFINE s    == IF s0.state = "SynSent" THEN [s0 EXCEPT !.ack = p.seq - 1] ELSE s0
           old  == p.seq <= s.ack
           t    == WithState(s, p)
           t1   == IF Connects(s, p) THEN write_outgoing_packet(h, k, t).sock ELSE t
           out  == AfterAck(h, k, t1, Acks(s, p))
           data == p.type # "STATE" /\ t.state = "Connected"
           u    == IF data THEN [out.sock EXCEPT !.ack = p.seq] ELSE out.sock
           tx1  == IF p.type = "STATE" THEN {} ELSE {send_ack(h, k, s)}
           tx2  == out.tx \cup (IF data THEN {send_ack(h, k, u)} ELSE {})
<1>1. process_incoming(h, k, s0, p) =
        CASE p.conn # s0.conn -> Outcome(s0, {})
          [] p.conn = s0.conn /\ old -> Outcome(s, tx1)
          [] OTHER -> Outcome(u, tx2)
  BY DEF process_incoming
<1>2. s0 \in SockType /\ p.seq \in Int /\ p.conn \in B
  BY DEF SockGood, PacketGood, PacketType
<1>3. Same(s0, s0)
  BY <1>2 DEF Same
<1>4. CASE p.conn # s0.conn
  <2>1. process_incoming(h, k, s0, p) = s0 \/ process_incoming(h, k, s0, p) = Outcome(s0, {})
    BY <1>1, <1>4
  <2>2. process_incoming(h, k, s0, p) = [sock |-> s0, tx |-> {}]
    BY <1>1, <1>4 DEF Outcome
  <2> QED BY <1>3, <2>2 DEF LeavesGood
<1>5. CASE p.conn = s0.conn
  <2>1. Same(s0, s)
    <3>1. p.seq - 1 \in Int
      BY <1>2
    <3>2. s \in SockType
      BY <1>2, <3>1 DEF SockType
    <3> QED BY <1>2, <3>2 DEF Same, SockType
  <2>2. SockGood(D, B, h, k, s) /\ s \in SockType /\ s.conn \in B
    BY <1>2, <1>5, <2>1, SameGood DEF Same
  <2>3. Same(s, t)
    <3> HIDE DEF s
    <3> QED BY <2>2, WithStateSame
  <2>4. SockGood(D, B, h, k, t) /\ t \in SockType /\ t.conn \in B
    BY <2>2, <2>3, SameGood DEF Same
  <2>5. Same(t, t1)
    <3> HIDE DEF t, s
    <3>1. Same(t, t)
      BY <2>4 DEF Same
    <3>2. LeavesGood(D, B, G, h, k, t, write_outgoing_packet(h, k, t))
      BY <2>4, WriteLeavesGood
    <3> QED BY <3>1, <3>2 DEF LeavesGood
  <2>6. SockGood(D, B, h, k, t1) /\ t1 \in SockType /\ t1.conn \in B
    <3> HIDE DEF t, t1
    <3> QED BY <2>4, <2>5, SameGood DEF Same
  <2>7. LeavesGood(D, B, G, h, k, t1, out)
    <3> HIDE DEF t1
    <3> QED BY <2>6, AfterAckGood
  <2> HIDE DEF s, t, t1, out
  <2>8. Same(out.sock, u) /\ SockGood(D, B, h, k, out.sock) /\ out.sock.conn \in B
    <3>1. out.sock \in SockType /\ SockGood(D, B, h, k, out.sock) /\ out.sock.conn \in B
      BY <2>6, <2>7 DEF LeavesGood, Same
    <3>2. u \in SockType
      BY <1>2, <3>1 DEF SockType
    <3> QED BY <3>1, <3>2 DEF Same, SockType
  <2>9. SockGood(D, B, h, k, u) /\ u.conn \in B
    <3> HIDE DEF u
    <3> QED BY <2>8, SameGood DEF Same
  <2>10. Same(s0, u)
    <3> HIDE DEF u
    <3>1. Same(s0, t) /\ Same(t1, out.sock)
      BY <2>1, <2>3, <2>7, SameTrans DEF LeavesGood
    <3>2. Same(s0, t1) /\ Same(t1, u)
      BY <2>5, <2>8, <3>1, SameTrans
    <3> QED BY <3>2, SameTrans
  <2>11. \A q \in tx1 : PacketGood(D, B, G, q)
    BY <2>2, AckIsGood
  <2>12. \A q \in tx2 : PacketGood(D, B, G, q)
    <3> HIDE DEF u
    <3> QED BY <2>7, <2>9, AckIsGood DEF LeavesGood
  <2>13. s0.conn \in B
    BY <1>2, <1>5
  <2> HIDE DEF u, tx1, tx2
  <2>14. LeavesGood(D, B, G, h, k, s0, Outcome(s, tx1))
    BY <2>1, <2>11, <2>13, OutcomeGood
  <2>15. LeavesGood(D, B, G, h, k, s0, Outcome(u, tx2))
    BY <2>10, <2>12, <2>13, OutcomeGood
  <2>16. CASE old
    BY <1>1, <1>5, <2>14, <2>16
  <2>17. CASE ~old
    BY <1>1, <1>5, <2>15, <2>17
  <2> QED BY <2>16, <2>17
<1> QED BY <1>4, <1>5

-----------------------------------------------------------------------------
(* check_timeouts and close_engine, which also meet sockets that only dial. *)

\* Sending leaves the socket as it is but for its idle time.
LEMMA SendingGood ==
  ASSUME NEW D, NEW B, NEW G, NEW h \in Hosts, NEW k, NEW s, NEW t, Same(s, t), SockGood(D, B, h, k, t),
         NEW tx, \A p \in tx : PacketGood(D, B, G, p)
  PROVE  LeavesGood(D, B, G, h, k, s, Outcome(t, tx))
<1>1. t \in SockType
  BY DEF Same
<1> DEFINE o == Outcome(t, tx)
<1>2. /\ Same(t, o.sock) /\ o.tx = tx /\ o.sock.state = t.state
      /\ o.sock.seq = t.seq /\ o.sock.cur = t.cur
  BY <1>1, OutcomeSame
<1> HIDE DEF o
<1>3. SockGood(D, B, h, k, o.sock)
  BY <1>2 DEF SockGood, Same, Linked, Dialling
<1>4. Same(s, o.sock)
  BY <1>2, SameTrans
<1>5. LeavesGood(D, B, G, h, k, s, o)
  BY <1>2, <1>3, <1>4 DEF LeavesGood
<1> QED BY <1>5 DEF o

\* Nothing but the timers changes, or the connection is given up.
StillDialling(s, t) == t.seq = s.seq /\ t.cur = s.cur /\ t.state \in Ended \cup {s.state}

LEMMA StillGood ==
  ASSUME NEW D, NEW B, NEW h, NEW k, NEW s, SockGood(D, B, h, k, s), NEW t, 
         t \in SockType, t.conn = s.conn, t.conn_id_send = s.conn_id_send, StillDialling(s, t)
  PROVE  SockGood(D, B, h, k, t)
BY DEF SockGood, Linked, Dialling, StillDialling, Ended

LEMMA TimeoutLeavesGood ==
  ASSUME NEW D, NEW B, NEW G, NEW h \in Hosts, NEW k, NEW s, SockGood(D, B, h, k, s)
  PROVE  /\ LeavesGood(D, B, G, h, k, s, OnTimeout(h, k, s))
         /\ OnTimeout(h, k, s).sock.state \in {s.state, "Reset", "Destroy"}
<1>0. s \in SockType
  BY DEF SockGood
<1>1. CASE TooManyTimeouts(s)
  <2> DEFINE t == Killed(s)
             st == IF s.state = "SynRecv" \/ s.close_requested THEN "Destroy" ELSE "Reset"
             q == [s EXCEPT !.state = st]
             e == FirstError(s, "TimedOut")
  <2>1. st \in States /\ st \in Ended /\ e \in Errors /\ (e = "ConnectionReset" => s.error = "ConnectionReset")
    BY <1>0 DEF FirstError, SockType, Errors, Ended, States
  <2>2. Same(s, q) /\ q \in SockType /\ q.seq = s.seq /\ q.cur = s.cur /\ q.state = st
    <3> HIDE DEF st
    <3> QED BY <1>0, <2>1, FieldSame DEF Same, SockType
  <2>3. t = [q EXCEPT !.error = e]
    BY <1>0 DEF Killed, SockType
  <2> HIDE DEF t, q, st, e
  <2>4. t \in SockType
    BY <2>1, <2>2, <2>3 DEF SockType
  <2>5. /\ t.conn = q.conn /\ t.conn_id_send = q.conn_id_send /\ t.error = e
        /\ t.seq = q.seq /\ t.cur = q.cur /\ t.state = q.state
    BY <2>2, <2>3 DEF SockType
  <2>6. Same(s, t) /\ StillDialling(s, t)
    BY <2>1, <2>2, <2>4, <2>5 DEF Same, StillDialling
  <2>7. SockGood(D, B, h, k, t)
    BY <2>4, <2>6, StillGood DEF Same
  <2>8. OnTimeout(h, k, s) = Outcome(t, {})
    BY <1>1 DEF OnTimeout, t
  <2>9. LeavesGood(D, B, G, h, k, s, Outcome(t, {}))
    BY <2>6, <2>7, SendingGood
  <2>10. Outcome(t, {}).sock.state = t.state
    BY <2>4, OutcomeSame
  <2> QED BY <2>1, <2>2, <2>5, <2>8, <2>9, <2>10 DEF Ended
<1>2. CASE ~TooManyTimeouts(s)
  <2> DEFINE q == [s EXCEPT !.tries = s.tries + 1]
             t == [q EXCEPT !.timer = 0]
  <2>1. Same(s, q) /\ q \in SockType /\ q.seq = s.seq /\ q.cur = s.cur /\ q.state = s.state
    BY <1>0, FieldSame DEF Same, SockType
  <2>2. Same(q, t) /\ t \in SockType /\ t.seq = q.seq /\ t.cur = q.cur /\ t.state = q.state
    <3> HIDE DEF q
    <3> QED BY <2>1, FieldSame DEF Same, SockType
  <2>3. t = [s EXCEPT !.tries = @ + 1, !.timer = 0]
    BY <1>0 DEF SockType
  <2> HIDE DEF q, t
  <2>4. Same(s, t) /\ StillDialling(s, t)
    BY <2>1, <2>2, SameTrans DEF StillDialling
  <2>5. SockGood(D, B, h, k, t)
    BY <2>4, StillGood DEF Same
  <2>6. OnTimeout(h, k, s) = Outcome(t, {Oldest(h, k, s)})
    BY <1>2, <2>3 DEF OnTimeout
  <2>7. \A p \in {Oldest(h, k, s)} : PacketGood(D, B, G, p)
    BY OldestGood
  <2>8. LeavesGood(D, B, G, h, k, s, Outcome(t, {Oldest(h, k, s)}))
    BY <2>4, <2>5, <2>7, SendingGood
  <2>9. Outcome(t, {Oldest(h, k, s)}).sock.state = t.state
    BY <2>2, OutcomeSame
  <2> QED BY <2>1, <2>2, <2>6, <2>8, <2>9
<1> QED BY <1>1, <1>2

LEMMA CheckLeavesGood ==
  ASSUME NEW D, NEW B, NEW G, NEW h \in Hosts, NEW k, NEW s, SockGood(D, B, h, k, s)
  PROVE  LeavesGood(D, B, G, h, k, s, check_timeouts(h, k, s))
<1> DEFINE out == IF s.cur > 0 /\ s.timer >= Timeout(s) THEN OnTimeout(h, k, s) ELSE Outcome(s, {})
<1>0. s \in SockType /\ Same(s, s)
  BY DEF SockGood, Same
<1>1. LeavesGood(D, B, G, h, k, s, Outcome(s, {})) /\ Outcome(s, {}).sock.state = s.state
  BY <1>0, SendingGood, OutcomeSame
<1>2. LeavesGood(D, B, G, h, k, s, out) /\ out.sock.state \in {s.state, "Reset", "Destroy"}
  BY <1>1, TimeoutLeavesGood
<1> DEFINE tx == out.tx \cup {send_keep_alive(h, k, out.sock)}
<1>3. check_timeouts(h, k, s) = CASE s.state \notin Live -> Outcome(s, {})
                                  [] s.state \in Live /\ KeepAliveDue(out.sock) -> Outcome(out.sock, tx)
                                  [] OTHER -> out
  BY DEF check_timeouts
<1> HIDE DEF out
<1>4. CASE s.state \notin Live
  BY <1>1, <1>3, <1>4
<1>5. CASE s.state \in Live /\ KeepAliveDue(out.sock)
  <2>1. s.state = "Connected"
    BY <1>2, <1>5 DEF KeepAliveDue
  <2>2. s.conn \in B
    BY <2>1 DEF SockGood, Dialling
  <2>3. SockGood(D, B, h, k, out.sock) /\ out.sock.conn \in B /\ Same(s, out.sock)
    BY <1>2, <2>2 DEF LeavesGood, Same
  <2>4. \A p \in tx : PacketGood(D, B, G, p)
    BY <1>2, <2>3, AckIsGood DEF LeavesGood
  <2> HIDE DEF tx
  <2>5. LeavesGood(D, B, G, h, k, s, Outcome(out.sock, tx))
    BY <2>3, <2>4, SendingGood
  <2> QED BY <1>3, <1>5, <2>5
<1>6. CASE s.state \in Live /\ ~KeepAliveDue(out.sock)
  BY <1>2, <1>3, <1>6
<1> QED BY <1>4, <1>5, <1>6

LEMMA AgedGood ==
  ASSUME NEW D, NEW B, NEW h, NEW k, NEW s, SockGood(D, B, h, k, s)
  PROVE  Same(s, Aged(s)) /\ SockGood(D, B, h, k, Aged(s))
<1> DEFINE a == IF s.cur > 0 /\ s.state \in Live /\ s.timer < Timeout(s) THEN s.timer + 1 ELSE s.timer
           b == IF s.state = "Connected" /\ s.idle < KEEPALIVE_INTERVAL THEN s.idle + 1 ELSE s.idle
           q == [s EXCEPT !.timer = a]
           t == [q EXCEPT !.idle = b]
<1>1. s \in SockType /\ a \in Int /\ b \in Int
  BY DEF SockGood, SockType
<1>2. Aged(s) = t
  BY <1>1 DEF Aged, SockType
<1> HIDE DEF a, b
<1>3. Same(s, q) /\ q \in SockType /\ q.seq = s.seq /\ q.cur = s.cur /\ q.state = s.state
  BY <1>1, FieldSame DEF Same, SockType
<1>4. Same(q, t) /\ t.seq = q.seq /\ t.cur = q.cur /\ t.state = q.state
  <2> HIDE DEF q
  <2> QED BY <1>1, <1>3, FieldSame DEF SockType
<1> HIDE DEF q, t
<1>5. Same(s, t) /\ StillDialling(s, t)
  BY <1>3, <1>4, SameTrans DEF StillDialling
<1>6. SockGood(D, B, h, k, t)
  BY <1>5, StillGood DEF Same
<1> QED BY <1>2, <1>5, <1>6

LEMMA CloseLeavesGood ==
  ASSUME NEW D, NEW B, NEW G, NEW h \in Hosts, NEW k, NEW s, SockGood(D, B, h, k, s)
  PROVE  LeavesGood(D, B, G, h, k, s, close_engine(h, k, s))
<1> DEFINE t == [s EXCEPT !.close_requested = TRUE, !.fin_sent = TRUE]
           st == IF s.fin_sent_acked THEN "Destroy" ELSE t.state
           d == [t EXCEPT !.state = st]
           e == [s EXCEPT !.state = "Destroy"]
<1>0. s \in SockType /\ TRUE \in BOOLEAN /\ "Destroy" \in States
  BY DEF SockGood, States, Ended
<1>1. Same(s, t) /\ t \in SockType
  <2> DEFINE q == [s EXCEPT !.close_requested = TRUE]
  <2>1. Same(s, q)
    BY <1>0, FieldSame, Zenon
  <2>2. q \in SockType
    BY <2>1 DEF Same
  <2>3. Same(q, [q EXCEPT !.fin_sent = TRUE])
    <3> HIDE DEF q
    <3> QED BY <1>0, <2>2, FieldSame, Zenon
  <2>4. [q EXCEPT !.fin_sent = TRUE] = t
    OBVIOUS
  <2> QED BY <2>1, <2>3, <2>4, SameTrans DEF Same
<1>2. close_engine(h, k, s) =
        CASE s.state = "Connected" /\ ~s.fin_sent -> write_outgoing_packet(h, k, t)
          [] s.state = "Connected" /\ s.fin_sent -> Outcome(d, {})
          [] OTHER -> Outcome(e, {})
  BY DEF close_engine
<1>3. CASE s.state = "Connected"
  <2>1. s.conn \in B
    BY <1>3 DEF SockGood, Dialling
  <2>2. SockGood(D, B, h, k, t) /\ t.conn \in B
    BY <1>1, <2>1, SameGood DEF Same
  <2>3. Same(t, d)
    <3>1. st \in States
      BY <1>0, <1>1 DEF SockType
    <3> HIDE DEF t, st
    <3> QED BY <1>1, <3>1, FieldSame
  <2>4. LeavesGood(D, B, G, h, k, t, write_outgoing_packet(h, k, t))
    <3> HIDE DEF t
    <3> QED BY <2>2, WriteLeavesGood
  <2>5. LeavesGood(D, B, G, h, k, s, write_outgoing_packet(h, k, t))
    <3> HIDE DEF t
    <3> QED BY <1>1, <2>4, SameTrans DEF LeavesGood
  <2>6. LeavesGood(D, B, G, h, k, s, Outcome(d, {}))
    <3> HIDE DEF t, d
    <3>1. Same(s, d)
      BY <1>1, <2>3, SameTrans
    <3> QED BY <2>1, <3>1, OutcomeGood
  <2>7. CASE s.fin_sent
    BY <1>2, <1>3, <2>6, <2>7
  <2>8. CASE ~s.fin_sent
    BY <1>2, <1>3, <2>5, <2>8
  <2> QED BY <2>7, <2>8
<1>4. CASE s.state # "Connected"
  <2>1. Same(s, e)
    BY <1>0, FieldSame, Zenon
  <2>2. e.state = "Destroy" /\ e.seq = s.seq /\ e.cur = s.cur
    BY <1>0 DEF SockType
  <2> HIDE DEF e
  <2>3. SockGood(D, B, h, k, e)
    BY <2>1, <2>2 DEF SockGood, Same, Linked, Dialling
  <2>4. LeavesGood(D, B, G, h, k, s, Outcome(e, {}))
    BY <2>1, <2>3, SendingGood
  <2> QED BY <1>2, <1>4, <2>4
<1> QED BY <1>3, <1>4

-----------------------------------------------------------------------------
(* Steps of the state. *)

\* What every step must do to keep the invariant: forget no connection, and leave
\* only good sockets and datagrams.
LEMMA Advance ==
  ASSUME CInv,
         DOMAIN sockets' = Hosts, DOMAIN gone' = Hosts,
         dialed \subseteq dialed', dialed' \subseteq Conns,
         \A h \in Hosts : gone[h] \subseteq gone'[h],
         \A h \in Hosts : \A c : Known(h, c) => Known(h, c)',
         \A c \in dialed' : c \in dialed \/ Known(c.by, c)',
         up' \in [Hosts -> BOOLEAN], DownIsEmpty',
         Born \subseteq Born' =>
           /\ \A h \in Hosts : \A k \in DOMAIN sockets'[h] :
                SockGood(dialed', Born', h, k, sockets'[h][k])
           /\ \A p \in net' : p \in net \/ PacketGood(dialed', Born', gone', p)
  PROVE  CInv'
<1>1. \A c \in dialed' : c.by \in Hosts /\ c.to \in Hosts
  BY ConnFacts
<1>2. Born \subseteq Born'
  BY <1>1 DEF Born
<1>3. SocketsGood'
  BY <1>2 DEF SocketsGood
<1>4. NetGood'
  <2> SUFFICES ASSUME NEW p \in net'
               PROVE  PacketGood(dialed', Born', gone', p)
    BY DEF NetGood
  <2>1. CASE p \in net
    <3>1. PacketGood(dialed, Born, gone, p)
      BY <2>1 DEF CInv, NetGood
    <3> QED BY <1>2, <3>1, PacketGrows
  <2>2. CASE p \notin net
    BY <1>2, <2>2
  <2> QED BY <2>1, <2>2
<1>5. DialersKnown'
  BY <1>1 DEF CInv, DialersKnown
<1> QED BY <1>3, <1>4, <1>5 DEF CInv

LEMMA Inserted ==
  ASSUME DOMAIN sockets = Hosts, NEW h \in Hosts, NEW k, NEW s, Insert(h, k, s)
  PROVE  /\ DOMAIN sockets' = Hosts
         /\ \A g \in Hosts : g # h => sockets'[g] = sockets[g]
         /\ DOMAIN sockets'[h] = DOMAIN sockets[h] \cup {k}
         /\ sockets'[h][k] = s
         /\ \A j \in DOMAIN sockets[h] : j # k => sockets'[h][j] = sockets[h][j]
<1> DEFINE f == [j \in DOMAIN sockets[h] \cup {k} |-> IF j = k THEN s ELSE sockets[h][j]]
<1>2. DOMAIN f = DOMAIN sockets[h] \cup {k} /\ f[k] = s
  OBVIOUS
<1>3. \A j \in DOMAIN sockets[h] : j # k => f[j] = sockets[h][j]
  OBVIOUS
<1>4. sockets' = [sockets EXCEPT ![h] = f]
  BY DEF Insert
<1> HIDE DEF f
<1> QED BY <1>2, <1>3, <1>4

\* A step that resets nothing: who is reset after it was before it.
Carried ==
  \A h \in Hosts : \A k \in DOMAIN sockets'[h] :
    \/ sockets'[h][k].error # "ConnectionReset"
    \/ k \in DOMAIN sockets[h] /\ Same(sockets[h][k], sockets'[h][k])

\* The steps that put one socket into a table, in the place of an older state of
\* it or in a free place.
LEMMA InsertStep ==
  ASSUME CInv, NEW h \in Hosts, NEW k, NEW s, Insert(h, k, s), gone' = gone, up' = up, up[h],
         dialed \subseteq dialed', dialed' \subseteq Conns,
         \A c \in dialed' : c \in dialed \/ (c = s.conn /\ c.by = h),
         k \in DOMAIN sockets[h] => s.conn = sockets[h][k].conn,
         NEW B, B = Born \cup {c \in dialed' : c = s.conn /\ c.to = h},
         SockGood(dialed', B, h, k, s),
         \A p \in net' : p \in net \/ PacketGood(dialed', B, gone, p),
         s.error # "ConnectionReset" \/ (k \in DOMAIN sockets[h] /\ Same(sockets[h][k], s))
  PROVE  CInv' /\ Carried
<1>1. /\ DOMAIN sockets = Hosts /\ DOMAIN gone = Hosts
      /\ DOMAIN sockets' = Hosts
      /\ \A g \in Hosts : g # h => sockets'[g] = sockets[g]
      /\ DOMAIN sockets'[h] = DOMAIN sockets[h] \cup {k}
      /\ sockets'[h][k] = s
      /\ \A j \in DOMAIN sockets[h] : j # k => sockets'[h][j] = sockets[h][j]
  BY Inserted DEF CInv
<1>2. Known(h, s.conn)'
  BY <1>1 DEF Known
<1>3. ASSUME NEW g \in Hosts, NEW c, Known(g, c) PROVE Known(g, c)'
  <2>1. CASE c \in gone[g]
    BY <2>1 DEF Known
  <2>2. CASE c \notin gone[g]
    <3>1. PICK j \in DOMAIN sockets[g] : sockets[g][j].conn = c
      BY <1>3, <2>2 DEF Known
    <3>2. CASE g # h
      BY <1>1, <3>1, <3>2 DEF Known
    <3>3. CASE g = h /\ j = k
      BY <1>2, <3>1, <3>3
    <3>4. CASE g = h /\ j # k
      <4>1. j \in DOMAIN sockets'[g] /\ sockets'[g][j].conn = c
        BY <1>1, <3>1, <3>4
      <4> QED BY <4>1 DEF Known
    <3> QED BY <3>2, <3>3, <3>4
  <2> QED BY <2>1, <2>2
<1>4. \A c \in dialed' : c \in dialed \/ Known(c.by, c)'
  BY <1>2
<1>5. ASSUME Born \subseteq Born'
      PROVE  /\ \A g \in Hosts : \A j \in DOMAIN sockets'[g] :
                  SockGood(dialed', Born', g, j, sockets'[g][j])
             /\ \A p \in net' : p \in net \/ PacketGood(dialed', Born', gone', p)
  <2>1. B \subseteq Born'
    BY <1>2, <1>5 DEF Born
  <2>2. ASSUME NEW g \in Hosts, NEW j \in DOMAIN sockets'[g]
        PROVE  SockGood(dialed', Born', g, j, sockets'[g][j])
    <3>1. CASE g = h /\ j = k
      BY <1>1, <2>1, <3>1, SockGrows
    <3>2. CASE ~(g = h /\ j = k)
      <4>1. j \in DOMAIN sockets[g] /\ sockets'[g][j] = sockets[g][j]
        BY <1>1, <3>2
      <4>2. SockGood(dialed, Born, g, j, sockets[g][j])
        BY <4>1 DEF CInv, SocketsGood
      <4> QED BY <1>5, <4>1, <4>2, SockGrows
    <3> QED BY <3>1, <3>2
  <2>3. ASSUME NEW p \in net', p \notin net
        PROVE  PacketGood(dialed', Born', gone', p)
    <3>1. PacketGood(dialed', B, gone, p)
      BY <2>3
    <3>2. dialed' \subseteq dialed' /\ \A g \in Hosts : gone[g] \subseteq gone'[g]
      OBVIOUS
    <3> QED BY <2>1, <3>1, <3>2, PacketGrows
  <2> QED BY <2>2, <2>3
<1>6. DOMAIN gone' = Hosts /\ \A g \in Hosts : gone[g] \subseteq gone'[g]
  BY <1>1
<1>7. up' \in [Hosts -> BOOLEAN] /\ DownIsEmpty'
  <2>1. up \in [Hosts -> BOOLEAN] /\ \A g \in Hosts : ~up[g] => DOMAIN sockets[g] = {}
    BY DEF CInv, DownIsEmpty
  <2> QED BY <1>1, <2>1 DEF DownIsEmpty
<1>8. CInv'
  BY <1>1, <1>3, <1>4, <1>5, <1>6, <1>7, Advance
<1>9. Carried
  <2> SUFFICES ASSUME NEW g \in Hosts, NEW j \in DOMAIN sockets'[g]
               PROVE  \/ sockets'[g][j].error # "ConnectionReset"
                      \/ j \in DOMAIN sockets[g] /\ Same(sockets[g][j], sockets'[g][j])
    BY DEF Carried
  <2>1. CASE g = h /\ j = k
    BY <1>1, <2>1
  <2>2. CASE ~(g = h /\ j = k)
    <3>1. j \in DOMAIN sockets[g] /\ sockets'[g][j] = sockets[g][j]
      BY <1>1, <2>2
    <3>2. Same(sockets[g][j], sockets[g][j])
      BY <3>1 DEF CInv, SocketsGood, SockGood, Same
    <3> QED BY <3>1, <3>2
  <2> QED BY <2>1, <2>2
<1> QED BY <1>8, <1>9

\* The same for a handler's outcome.
LEMMA HandlerStep ==
  ASSUME CInv, NEW h \in Hosts, NEW k \in DOMAIN sockets[h], NEW out,
         LeavesGood(dialed, Born, gone, h, k, sockets[h][k], out),
         Insert(h, k, out.sock), net' \subseteq net \cup out.tx, UNCHANGED <<gone, dialed, up>>
  PROVE  CInv' /\ Carried
<1> DEFINE B == Born \cup {c \in dialed' : c = out.sock.conn /\ c.to = h}
<1>1. SockGood(dialed, Born, h, k, out.sock) /\ out.sock.conn = sockets[h][k].conn
  BY DEF LeavesGood, Same
<1>2. \A p \in net' : p \in net \/ PacketGood(dialed, Born, gone, p)
  BY DEF LeavesGood
<1>3. Born \subseteq B /\ dialed' = dialed /\ dialed \subseteq dialed' /\ gone' = gone /\ up' = up
  OBVIOUS
<1>4. SockGood(dialed', B, h, k, out.sock)
  <2> HIDE DEF B
  <2> QED BY <1>1, <1>3, SockGrows
<1>5. \A p \in net' : p \in net \/ PacketGood(dialed', B, gone, p)
  <2> HIDE DEF B
  <2> SUFFICES ASSUME NEW p \in net', p \notin net
               PROVE  PacketGood(dialed', B, gone, p)
    OBVIOUS
  <2>1. PacketGood(dialed, Born, gone, p) /\ \A g \in Hosts : gone[g] \subseteq gone[g]
    BY <1>2
  <2> QED BY <1>3, <2>1, PacketGrows
<1>6. dialed' \subseteq Conns /\ \A c \in dialed' : c \in dialed
  BY <1>3 DEF CInv
<1>7. B = Born \cup {c \in dialed' : c = out.sock.conn /\ c.to = h}
  OBVIOUS
<1>8. up[h]
  BY DEF CInv, DownIsEmpty
<1>9. Same(sockets[h][k], out.sock)
  BY DEF LeavesGood
<1> HIDE DEF B
<1> QED BY <1>1, <1>3, <1>4, <1>5, <1>6, <1>7, <1>8, <1>9, InsertStep

-----------------------------------------------------------------------------
(* Resets. *)

\* ResetsJustified, socket by socket.
JustifiedAt(h, s) == s.error = "ConnectionReset" => s.conn \in gone[Peer(h, s)]

LEMMA JustifiedParts ==
  ResetsJustified <=> \A h \in Hosts : \A k \in DOMAIN sockets[h] : JustifiedAt(h, sockets[h][k])
<1>1. ASSUME ResetsJustified, NEW h \in Hosts, NEW k \in DOMAIN sockets[h]
      PROVE  JustifiedAt(h, sockets[h][k])
  <2>1. <<h, k>> \in AllSockets
    BY <1>1 DEF AllSockets
  <2> QED BY <1>1, <2>1 DEF ResetsJustified, SockOf, JustifiedAt
<1>2. ASSUME \A h \in Hosts : \A k \in DOMAIN sockets[h] : JustifiedAt(h, sockets[h][k]),
             NEW hk \in AllSockets
      PROVE  LET s == SockOf(hk) IN s.error = "ConnectionReset" => s.conn \in gone[Peer(hk[1], s)]
  <2>1. PICK h \in Hosts : \E k \in DOMAIN sockets[h] : hk = <<h, k>>
    BY DEF AllSockets
  <2>2. PICK k \in DOMAIN sockets[h] : hk = <<h, k>>
    BY <2>1
  <2>3. hk[1] = h /\ hk[2] = k
    BY <2>2
  <2> QED BY <1>2, <2>2, <2>3 DEF SockOf, JustifiedAt
<1> QED BY <1>1, <1>2 DEF ResetsJustified


LEMMA CarriedJustified ==
  ASSUME CInv', Carried, ResetsJustified, CInv, \A h \in Hosts : gone[h] \subseteq gone'[h]
  PROVE  ResetsJustified'
<1> SUFFICES ASSUME NEW h \in Hosts, NEW k \in DOMAIN sockets'[h],
                    sockets'[h][k].error = "ConnectionReset"
             PROVE  sockets'[h][k].conn \in gone'[Peer(h, sockets'[h][k])]
  <2>1. JustifiedParts'
    BY JustifiedParts, PTL
  <2> QED BY <2>1 DEF JustifiedParts, JustifiedAt
<1>1. k \in DOMAIN sockets[h] /\ Same(sockets[h][k], sockets'[h][k])
  BY DEF Carried
<1>2. JustifiedAt(h, sockets[h][k])
  BY <1>1, JustifiedParts
<1>3. sockets[h][k].conn \in Conns
  BY <1>1 DEF CInv, SocketsGood, SockGood, SockType
<1>4. Peer(h, sockets[h][k]) \in Hosts /\ Peer(h, sockets'[h][k]) = Peer(h, sockets[h][k])
  BY <1>1, <1>3, ConnFacts DEF Peer, Same
<1> QED BY <1>1, <1>2, <1>4 DEF JustifiedAt, Same

\* A step that touches datagrams only.
LEMMA NetStep ==
  ASSUME CInv, UNCHANGED <<sockets, dialed, gone>>, up' \in [Hosts -> BOOLEAN],
         \A h \in Hosts : up[h] => up'[h],
         \A p \in net' : p \in net \/ PacketGood(dialed, Born, gone, p)
  PROVE  CInv' /\ Carried
<1>1. \A h, c : Known(h, c)' <=> Known(h, c)
  BY DEF Known
<1>2. Born' = Born
  BY <1>1 DEF Born
<1>3. DownIsEmpty'
  BY DEF CInv, DownIsEmpty
<1>4. SocketsGood'
  BY <1>2 DEF CInv, SocketsGood
<1>5. NetGood'
  BY <1>2 DEF CInv, NetGood
<1>6. DialersKnown'
  BY <1>1 DEF CInv, DialersKnown
<1>7. CInv'
  BY <1>3, <1>4, <1>5, <1>6 DEF CInv
<1>8. Carried
  BY DEF CInv, SocketsGood, SockGood, Carried, Same
<1> QED BY <1>7, <1>8

LEMMA AgedPacketGood ==
  ASSUME NEW D, NEW B, NEW G, NEW p, PacketGood(D, B, G, p)
  PROVE  /\ PacketGood(D, B, G, [p EXCEPT !.age = @ + 1])
         /\ PacketGood(D, B, G, [p EXCEPT !.copy = 1])
<1>1. p \in PacketType /\ p.age + 1 \in Int
  BY DEF PacketGood, PacketType
<1>2. ASSUME NEW q \in {[p EXCEPT !.age = @ + 1], [p EXCEPT !.copy = 1]}
      PROVE  PacketGood(D, B, G, q)
  <2>1. q \in PacketType
    BY <1>1 DEF PacketType
  <2>2. q.type = p.type /\ q.src = p.src /\ q.dst = p.dst /\ q.id = p.id /\ q.conn = p.conn
    BY <1>1 DEF PacketType
  <2> QED BY <2>1, <2>2 DEF PacketGood, FromDialer, FromAcceptor
<1> QED BY <1>2

\* A socket of a table is good.
LEMMA SockAt ==
  ASSUME CInv, NEW h \in Hosts, NEW k \in DOMAIN sockets[h]
  PROVE  SockGood(dialed, Born, h, k, sockets[h][k])
BY DEF CInv, SocketsGood

LEMMA AcceptStep ==
  ASSUME CInv, NEW h \in Hosts, NEW k \in DOMAIN sockets[h], Accept(h, k)
  PROVE  CInv' /\ Carried
<1> DEFINE s == sockets[h][k]
           t == [s EXCEPT !.owner = "handle"]
           out == [sock |-> t, tx |-> {}]
<1>1. SockGood(dialed, Born, h, k, s) /\ s \in SockType
  BY SockAt DEF SockGood
<1>2. Same(s, t) /\ t.seq = s.seq /\ t.cur = s.cur /\ t.state = s.state
  <2>1. "handle" \in Owners
    BY DEF Owners
  <2> HIDE DEF s
  <2>2. Same(s, t)
    BY <1>1, <2>1, FieldSame, Zenon
  <2> QED BY <1>1, <2>2 DEF SockType
<1>3. SockGood(dialed, Born, h, k, t)
  <2> HIDE DEF s, t
  <2> QED BY <1>1, <1>2, StillGood DEF StillDialling, Same
<1>4. LeavesGood(dialed, Born, gone, h, k, s, out)
  <2> HIDE DEF t, s
  <2> QED BY <1>2, <1>3 DEF LeavesGood
<1>5. Insert(h, k, out.sock) /\ net' \subseteq net \cup out.tx /\ UNCHANGED <<gone, dialed, up>>
  BY DEF Accept
<1> HIDE DEF out
<1> QED BY <1>4, <1>5, HandlerStep

LEMMA WriteStep ==
  ASSUME CInv, NEW h \in Hosts, NEW k \in DOMAIN sockets[h], Write(h, k)
  PROVE  CInv' /\ Carried
<1> DEFINE out == write_outgoing_packet(h, k, sockets[h][k])
<1>1. /\ sockets[h][k].state = "Connected" /\ Insert(h, k, out.sock) /\ net' = net \cup out.tx
      /\ UNCHANGED <<gone, dialed, up>>
  BY DEF Write
<1>2. SockGood(dialed, Born, h, k, sockets[h][k])
  BY SockAt
<1>3. sockets[h][k].conn \in Born
  BY <1>1, <1>2 DEF SockGood, Dialling
<1>4. LeavesGood(dialed, Born, gone, h, k, sockets[h][k], out)
  BY <1>2, <1>3, WriteLeavesGood
<1> HIDE DEF out
<1> QED BY <1>1, <1>4, HandlerStep

LEMMA CloseStep ==
  ASSUME CInv, NEW h \in Hosts, NEW k \in DOMAIN sockets[h], Close(h, k)
  PROVE  CInv' /\ Carried
<1> DEFINE s == sockets[h][k]
           t == [s EXCEPT !.owner = "closed"]
           out == close_engine(h, k, t)
<1>1. SockGood(dialed, Born, h, k, s) /\ s \in SockType
  BY SockAt DEF SockGood
<1>2. Same(s, t) /\ t.seq = s.seq /\ t.cur = s.cur /\ t.state = s.state
  <2>1. "closed" \in Owners
    BY DEF Owners
  <2> HIDE DEF s
  <2>2. Same(s, t)
    BY <1>1, <2>1, FieldSame, Zenon
  <2> QED BY <1>1, <2>2 DEF SockType
<1>3. SockGood(dialed, Born, h, k, t)
  <2> HIDE DEF s, t
  <2> QED BY <1>1, <1>2, StillGood DEF StillDialling, Same
<1>4. LeavesGood(dialed, Born, gone, h, k, t, out)
  <2> HIDE DEF t
  <2> QED BY <1>3, CloseLeavesGood
<1>5. Insert(h, k, out.sock) /\ net' = net \cup out.tx /\ UNCHANGED <<gone, dialed, up>>
  BY DEF Close
<1> HIDE DEF out, t
<1>6. LeavesGood(dialed, Born, gone, h, k, s, out)
  <2> HIDE DEF s
  <2> QED BY <1>2, <1>4, SameTrans DEF LeavesGood
<1> QED BY <1>5, <1>6, HandlerStep

LEMMA NewSockParts ==
  ASSUME NEW state \in States, NEW send \in Int, NEW seq \in Int, NEW cur \in Int, NEW ack \in Int,
         NEW owner \in Owners, NEW conn \in Conns,
         NEW s, s = NewSock(state, send, seq, cur, ack, owner, conn)
  PROVE  /\ s \in SockType /\ s.state = state /\ s.conn_id_send = send /\ s.seq = seq
         /\ s.cur = cur /\ s.error = "none" /\ s.conn = conn
<1>1. "none" \in Errors
  BY DEF Errors
<1> QED BY <1>1 DEF NewSock, SockType

LEMMA DialledSock ==
  ASSUME NEW send \in Int, NEW conn \in Conns,
         NEW s, s = NewSock("SynSent", send, 2, 1, 0, "handle", conn)
  PROVE  /\ s \in SockType /\ s.state = "SynSent" /\ s.conn_id_send = send /\ s.seq = 2
         /\ s.cur = 1 /\ s.error = "none" /\ s.conn = conn
<1>1. "SynSent" \in States /\ "handle" \in Owners /\ "none" \in Errors
  BY DEF States, Live, Owners, Errors
<1> QED BY <1>1 DEF NewSock, SockType

LEMMA DialStep ==
  ASSUME CInv, NEW h \in Hosts, NEW a \in Hosts, NEW seed \in Seeds[h], Dial(h, a, seed)
  PROVE  CInv' /\ Carried
<1> DEFINE c == Conn(h, a, seed)
           k == Key(a, seed)
           s == NewSock("SynSent", seed + 1, 2, 1, 0, "handle", c)
           B == Born \cup {d \in dialed' : d = s.conn /\ d.to = h}
<1>1. /\ up[h] /\ h # a /\ k \notin DOMAIN sockets[h] /\ Insert(h, k, s)
      /\ net' = net \cup {Oldest(h, k, s)} /\ dialed' = dialed \cup {c}
      /\ gone' = gone /\ up' = up
  BY DEF Dial, SeedTaken, Has
<1>2. c \in Conns
  BY <1>1 DEF Conns
<1>3. c.by = h /\ c.to = a /\ c.seed = seed /\ seed \in Int
  BY <1>2, ConnFacts DEF Conn
<1>4. /\ s \in SockType /\ s.state = "SynSent" /\ s.conn_id_send = seed + 1 /\ s.seq = 2
      /\ s.cur = 1 /\ s.error = "none" /\ s.conn = c
  <2>1. seed + 1 \in Int /\ s = NewSock("SynSent", seed + 1, 2, 1, 0, "handle", c)
    BY <1>3
  <2> HIDE DEF c, s, k, B
  <2> QED BY <1>2, <2>1, DialledSock
<1> HIDE DEF s, c
<1>5. SockGood(dialed', B, h, k, s)
  BY <1>1, <1>3, <1>4 DEF SockGood, Linked, Dialling
<1> HIDE DEF k
<1>6. PacketGood(dialed', B, gone, Oldest(h, k, s))
  <2> HIDE DEF B
  <2> QED BY <1>5, OldestGood
<1>7. /\ dialed \subseteq dialed' /\ dialed' \subseteq Conns
      /\ \A d \in dialed' : d \in dialed \/ (d = s.conn /\ d.by = h)
      /\ \A p \in net' : p \in net \/ PacketGood(dialed', B, gone, p)
  <2> HIDE DEF B
  <2> QED BY <1>1, <1>2, <1>3, <1>4, <1>6 DEF CInv
<1>8. B = Born \cup {d \in dialed' : d = s.conn /\ d.to = h} /\ s.error # "ConnectionReset"
  BY <1>4
<1> HIDE DEF B
<1> QED BY <1>1, <1>5, <1>7, <1>8, InsertStep

LEMMA CloseSocketStep ==
  ASSUME CInv, NEW h \in Hosts, CloseSocket(h)
  PROVE  CInv' /\ Carried /\ \A g \in Hosts : gone[g] \subseteq gone'[g]
<1>1. /\ up' = [up EXCEPT ![h] = FALSE]
      /\ gone' = [gone EXCEPT ![h] = @ \cup {sockets[h][k].conn : k \in DOMAIN sockets[h]}]
      /\ sockets' = [sockets EXCEPT ![h] = <<>>]
      /\ net' = net /\ dialed' = dialed
  BY DEF CloseSocket
<1>2. DOMAIN sockets = Hosts /\ DOMAIN gone = Hosts /\ up \in [Hosts -> BOOLEAN] /\ DownIsEmpty
  BY DEF CInv
<1>3. /\ DOMAIN sockets' = Hosts /\ DOMAIN gone' = Hosts /\ up' \in [Hosts -> BOOLEAN]
      /\ DOMAIN sockets'[h] = {} /\ up'[h] = FALSE
      /\ \A g \in Hosts : g # h => sockets'[g] = sockets[g] /\ gone'[g] = gone[g] /\ up'[g] = up[g]
      /\ gone'[h] = gone[h] \cup {sockets[h][k].conn : k \in DOMAIN sockets[h]}
  BY <1>1, <1>2
<1>4. \A g \in Hosts : gone[g] \subseteq gone'[g]
  BY <1>3
<1>5. ASSUME NEW g \in Hosts, NEW c, Known(g, c) PROVE Known(g, c)'
  <2>1. CASE g = h
    <3>1. c \in gone'[h]
      BY <1>3, <1>5, <2>1 DEF Known
    <3> QED BY <2>1, <3>1 DEF Known
  <2>2. CASE g # h
    BY <1>3, <1>5, <2>2 DEF Known
  <2> QED BY <2>1, <2>2
<1>6. DownIsEmpty'
  BY <1>2, <1>3 DEF DownIsEmpty
<1>7. ASSUME NEW g \in Hosts, NEW k \in DOMAIN sockets'[g]
      PROVE  k \in DOMAIN sockets[g] /\ sockets'[g][k] = sockets[g][k]
  BY <1>3
<1>8. ASSUME Born \subseteq Born', NEW g \in Hosts, NEW k \in DOMAIN sockets'[g]
      PROVE  SockGood(dialed', Born', g, k, sockets'[g][k])
  <2>1. k \in DOMAIN sockets[g] /\ sockets'[g][k] = sockets[g][k]
    BY <1>7
  <2>2. SockGood(dialed, Born, g, k, sockets[g][k])
    BY <2>1, SockAt
  <2> QED BY <1>1, <1>8, <2>1, <2>2, SockGrows
<1>9. dialed' \subseteq Conns
  BY <1>1 DEF CInv
<1>10. CInv'
  BY <1>1, <1>3, <1>4, <1>5, <1>6, <1>8, <1>9, Advance
<1>11. Carried
  <2> SUFFICES ASSUME NEW g \in Hosts, NEW k \in DOMAIN sockets'[g]
               PROVE  k \in DOMAIN sockets[g] /\ Same(sockets[g][k], sockets'[g][k])
    BY DEF Carried
  <2>1. k \in DOMAIN sockets[g] /\ sockets'[g][k] = sockets[g][k]
    BY <1>7
  <2> QED BY <2>1, SockAt DEF SockGood, Same
<1> QED BY <1>4, <1>10, <1>11

LEMMA TickStep ==
  ASSUME CInv, Tick
  PROVE  CInv' /\ Carried /\ \A h \in Hosts : gone[h] \subseteq gone'[h]
<1> DEFINE after == [h \in Hosts |-> IF up[h] THEN Checked(h) ELSE <<>>]
           dead(h) == {k \in DOMAIN after[h] : after[h][k].sock.state = "Destroy"}
<1>1. /\ sockets' = [h \in Hosts |-> [k \in DOMAIN after[h] \ dead(h) |-> after[h][k].sock]]
      /\ gone' = [h \in Hosts |-> gone[h] \cup {sockets[h][k].conn : k \in dead(h)}]
      /\ net' = {[p EXCEPT !.age = @ + 1] : p \in net} \cup
                UNION {UNION {after[h][k].tx : k \in DOMAIN after[h]} : h \in Hosts}
      /\ up' = up /\ dialed' = dialed
  BY DEF Tick
<1>2. DOMAIN sockets = Hosts /\ DOMAIN gone = Hosts /\ up \in [Hosts -> BOOLEAN] /\ DownIsEmpty
  BY DEF CInv
<1>3. ASSUME NEW h \in Hosts
      PROVE  /\ DOMAIN after[h] = DOMAIN sockets[h]
             /\ \A k \in DOMAIN sockets[h] : after[h][k] = check_timeouts(h, k, Aged(sockets[h][k]))
  <2>1. CASE up[h]
    BY <2>1 DEF Checked
  <2>2. CASE ~up[h]
    <3>1. DOMAIN sockets[h] = {}
      BY <1>2, <2>2 DEF DownIsEmpty
    <3> QED BY <2>2, <3>1
  <2> QED BY <2>1, <2>2
<1>4. ASSUME NEW h \in Hosts, NEW k \in DOMAIN sockets[h]
      PROVE  LeavesGood(dialed, Born, gone, h, k, sockets[h][k], after[h][k])
  <2>1. SockGood(dialed, Born, h, k, sockets[h][k])
    BY SockAt
  <2>2. Same(sockets[h][k], Aged(sockets[h][k])) /\ SockGood(dialed, Born, h, k, Aged(sockets[h][k]))
    BY <2>1, AgedGood
  <2>3. LeavesGood(dialed, Born, gone, h, k, Aged(sockets[h][k]), after[h][k])
    <3> HIDE DEF after
    <3> QED BY <1>3, <2>2, CheckLeavesGood
  <2> HIDE DEF after
  <2> QED BY <2>2, <2>3, SameTrans DEF LeavesGood
<1> HIDE DEF after
<1>5. /\ DOMAIN sockets' = Hosts /\ DOMAIN gone' = Hosts
      /\ \A h \in Hosts : DOMAIN sockets'[h] = DOMAIN sockets[h] \ dead(h)
      /\ \A h \in Hosts : \A k \in DOMAIN sockets'[h] : sockets'[h][k] = after[h][k].sock
      /\ \A h \in Hosts : gone'[h] = gone[h] \cup {sockets[h][k].conn : k \in dead(h)}
  BY <1>1, <1>3
<1>6. \A h \in Hosts : gone[h] \subseteq gone'[h]
  BY <1>5
<1>7. ASSUME NEW h \in Hosts, NEW c, Known(h, c) PROVE Known(h, c)'
  <2>1. CASE c \in gone[h]
    BY <1>6, <2>1 DEF Known
  <2>2. CASE c \notin gone[h]
    <3>1. PICK k \in DOMAIN sockets[h] : sockets[h][k].conn = c
      BY <1>7, <2>2 DEF Known
    <3>2. CASE k \in dead(h)
      <4>1. c \in gone'[h]
        BY <1>5, <3>1, <3>2
      <4> QED BY <4>1 DEF Known
    <3>3. CASE k \notin dead(h)
      <4>1. k \in DOMAIN sockets'[h] /\ sockets'[h][k] = after[h][k].sock
        BY <1>5, <3>1, <3>3
      <4>2. sockets'[h][k].conn = c
        BY <1>4, <3>1, <4>1 DEF LeavesGood, Same
      <4> QED BY <4>1, <4>2 DEF Known
    <3> QED BY <3>2, <3>3
  <2> QED BY <2>1, <2>2
<1>8. DownIsEmpty' /\ up' \in [Hosts -> BOOLEAN]
  BY <1>1, <1>2, <1>5 DEF DownIsEmpty
<1>9. ASSUME Born \subseteq Born', NEW h \in Hosts, NEW k \in DOMAIN sockets'[h]
      PROVE  SockGood(dialed', Born', h, k, sockets'[h][k])
  <2>1. k \in DOMAIN sockets[h] /\ sockets'[h][k] = after[h][k].sock
    BY <1>5
  <2>2. SockGood(dialed, Born, h, k, sockets'[h][k])
    BY <1>4, <2>1 DEF LeavesGood
  <2> QED BY <1>1, <1>9, <2>2, SockGrows
<1>10. ASSUME Born \subseteq Born', NEW q \in net'
       PROVE  PacketGood(dialed', Born', gone', q)
  <2>1. PacketGood(dialed, Born, gone, q)
    <3>1. CASE q \in {[p EXCEPT !.age = @ + 1] : p \in net}
      <4>1. PICK p \in net : q = [p EXCEPT !.age = @ + 1]
        BY <3>1
      <4>2. PacketGood(dialed, Born, gone, p)
        BY DEF CInv, NetGood
      <4> QED BY <4>1, <4>2, AgedPacketGood
    <3>2. CASE q \in UNION {UNION {after[h][k].tx : k \in DOMAIN after[h]} : h \in Hosts}
      <4>1. PICK h \in Hosts : q \in UNION {after[h][k].tx : k \in DOMAIN after[h]}
        BY <3>2
      <4>2. PICK k \in DOMAIN after[h] : q \in after[h][k].tx
        BY <4>1
      <4>3. k \in DOMAIN sockets[h]
        BY <1>3, <4>2
      <4> QED BY <1>4, <4>2, <4>3 DEF LeavesGood
    <3> QED BY <1>1, <3>1, <3>2
  <2> QED BY <1>1, <1>6, <1>10, <2>1, PacketGrows
<1>11. dialed' \subseteq Conns
  BY <1>1 DEF CInv
<1>12. CInv'
  BY <1>1, <1>5, <1>6, <1>7, <1>8, <1>9, <1>10, <1>11, Advance
<1>13. Carried
  <2> SUFFICES ASSUME NEW h \in Hosts, NEW k \in DOMAIN sockets'[h]
               PROVE  k \in DOMAIN sockets[h] /\ Same(sockets[h][k], sockets'[h][k])
    BY DEF Carried
  <2>1. k \in DOMAIN sockets[h] /\ sockets'[h][k] = after[h][k].sock
    BY <1>5
  <2> QED BY <1>4, <2>1 DEF LeavesGood
<1> QED BY <1>6, <1>12, <1>13

LEMMA BindStep ==
  ASSUME CInv, NEW h \in Hosts, Bind(h)
  PROVE  CInv' /\ Carried
<1>1. up' = [up EXCEPT ![h] = TRUE] /\ UNCHANGED <<sockets, net, dialed, gone>>
  BY DEF Bind
<1>2. up \in [Hosts -> BOOLEAN]
  BY DEF CInv
<1>3. up' \in [Hosts -> BOOLEAN] /\ (\A g \in Hosts : up[g] => up'[g])
  BY <1>1, <1>2
<1>4. \A p \in net' : p \in net \/ PacketGood(dialed, Born, gone, p)
  BY <1>1
<1> QED BY <1>1, <1>3, <1>4, NetStep

LEMMA NetworkStep ==
  ASSUME CInv, NEW p \in net, Lose(p) \/ Duplicate(p)
  PROVE  CInv' /\ Carried
<1> DEFINE q == [p EXCEPT !.copy = 1]
<1>1. net' \subseteq net \cup {q} /\ UNCHANGED <<sockets, up, dialed, gone>>
  BY DEF Lose, Duplicate
<1>2. PacketGood(dialed, Born, gone, p)
  BY DEF CInv, NetGood
<1>3. PacketGood(dialed, Born, gone, q)
  BY <1>2, AgedPacketGood
<1> HIDE DEF q
<1>4. up' \in [Hosts -> BOOLEAN] /\ (\A g \in Hosts : up[g] => up'[g])
  BY <1>1 DEF CInv
<1>5. \A r \in net' : r \in net \/ PacketGood(dialed, Born, gone, r)
  BY <1>1, <1>3
<1> QED BY <1>1, <1>4, <1>5, NetStep

\* What the invariant says of a datagram about to be delivered.
LEMMA PacketAt ==
  ASSUME CInv, NEW p \in net
  PROVE  /\ PacketGood(dialed, Born, gone, p) /\ p \in PacketType
         /\ p.src \in Hosts /\ p.dst \in Hosts /\ p.id \in Int /\ p.seq \in Int
         /\ p.conn \in Conns /\ p.conn \in dialed
<1>1. PacketGood(dialed, Born, gone, p)
  BY DEF CInv, NetGood
<1> QED BY <1>1 DEF PacketGood, PacketType

LEMMA KnownStep ==
  ASSUME CInv, NEW p \in net, NEW k, k \in DOMAIN sockets[p.dst],
         p.type \notin {"SYN", "RESET"}, ProcessKnown(p.dst, p, k), UNCHANGED <<up, dialed, gone>>
  PROVE  CInv' /\ Carried
<1> DEFINE out == process_incoming(p.dst, k, sockets[p.dst][k], p)
<1>1. Insert(p.dst, k, out.sock) /\ net' \subseteq net \cup out.tx
  BY DEF ProcessKnown
<1>2. PacketGood(dialed, Born, gone, p) /\ p.dst \in Hosts
  BY PacketAt
<1>3. SockGood(dialed, Born, p.dst, k, sockets[p.dst][k])
  BY <1>2, SockAt
<1>4. LeavesGood(dialed, Born, gone, p.dst, k, sockets[p.dst][k], out)
  BY <1>2, <1>3, IncomingGood
<1> HIDE DEF out
<1> QED BY <1>1, <1>2, <1>4, HandlerStep

\* An accepted connection is born.
LEMMA SynStep ==
  ASSUME CInv, NEW p \in net, p.type = "SYN", up[p.dst], ProcessSyn(p.dst, p),
         UNCHANGED <<up, dialed, gone>>
  PROVE  CInv' /\ Carried
<1> DEFINE h == p.dst
           k == SynKey(p)
           s == Accepted(h, p)
           B == Born \cup {d \in dialed' : d = s.conn /\ d.to = h}
<1>1. /\ PacketGood(dialed, Born, gone, p) /\ h \in Hosts /\ p.conn \in Conns /\ p.conn \in dialed
      /\ p.seq \in Int /\ p.id \in Int
  BY PacketAt
<1>2. p.src = p.conn.by /\ h = p.conn.to /\ p.id = p.conn.seed
  BY <1>1 DEF PacketGood, FromDialer
<1>3. CASE SynIgnored(h, p)
  <2>1. UNCHANGED sockets /\ net' = net \ {p}
    BY <1>3 DEF ProcessSyn
  <2>2. up' \in [Hosts -> BOOLEAN] /\ (\A g \in Hosts : up[g] => up'[g])
    BY DEF CInv
  <2>3. \A r \in net' : r \in net \/ PacketGood(dialed, Born, gone, r)
    BY <2>1
  <2> QED BY <2>1, <2>2, <2>3, NetStep
<1>4. CASE ~SynIgnored(h, p)
  <2>1. Insert(h, k, s) /\ net' = (net \ {p}) \cup {send_ack(h, k, s)} /\ k \notin DOMAIN sockets[h]
    BY <1>4 DEF ProcessSyn, SynIgnored, Has
  <2>2. s \in SockType /\ s.conn_id_send = p.id /\ s.error = "none" /\ s.conn = p.conn
    <3> DEFINE full == Cardinality(Waiting(h)) >= BACKLOG
               st == IF full THEN "Destroy" ELSE "SynRecv"
               ow == IF full THEN "closed" ELSE "backlog"
    <3>1. st \in States /\ ow \in Owners
      BY DEF States, Live, Ended, Owners
    <3>2. s = NewSock(st, p.id, 1, 0, p.seq, ow, p.conn) /\ 1 \in Int /\ 0 \in Int
      BY DEF Accepted
    <3> HIDE DEF s, st, ow
    <3> QED BY <1>1, <3>1, <3>2, NewSockParts
  <2> HIDE DEF s
  <2>3. k = Key(p.conn.by, p.conn.seed + 1)
    BY <1>2 DEF SynKey
  <2> HIDE DEF k
  <2>4. p.conn \in B
    BY <1>1, <1>2, <2>2
  <2>5. SockGood(dialed', B, h, k, s)
    BY <1>1, <1>2, <2>2, <2>3, <2>4 DEF SockGood, Linked
  <2>6. B = Born \cup {d \in dialed' : d = s.conn /\ d.to = h}
    OBVIOUS
  <2> HIDE DEF B
  <2>7. PacketGood(dialed', B, gone, send_ack(h, k, s))
    BY <1>1, <2>2, <2>4, <2>5, AckIsGood
  <2>8. /\ dialed \subseteq dialed' /\ dialed' \subseteq Conns
        /\ \A d \in dialed' : d \in dialed \/ (d = s.conn /\ d.by = h)
        /\ \A q \in net' : q \in net \/ PacketGood(dialed', B, gone, q)
    BY <2>1, <2>7 DEF CInv
  <2>9. s.error # "ConnectionReset" /\ gone' = gone /\ up' = up /\ up[h]
    BY <2>2
  <2> HIDE DEF h
  <2> QED BY <1>1, <2>1, <2>5, <2>6, <2>8, <2>9, InsertStep
<1> QED BY <1>3, <1>4

\* No socket for a packet of a connection: the end here is gone, or the packet
\* is the dialer's and its id has wrapped.
LEMMA UnknownIsGone ==
  ASSUME CInv, NEW p \in net, p.type \notin {"SYN", "RESET"},
         Key(p.src, p.id) \notin DOMAIN sockets[p.dst]
  PROVE  PacketGood(dialed, Born, gone, send_rst(p.dst, p))
<1> DEFINE c == p.conn
           q == send_rst(p.dst, p)
<1>1. /\ PacketGood(dialed, Born, gone, p) /\ p \in PacketType /\ p.dst \in Hosts
      /\ c \in Conns /\ c \in dialed
  BY PacketAt
<1>2. /\ q.type = "RESET" /\ q.src = p.dst /\ q.dst = p.src /\ q.id = p.id /\ q.conn = c
      /\ q \in PacketType
  BY <1>1 DEF send_rst, PacketType
<1>3. c.by # c.to /\ c.seed \in 0 .. IdMod - 1 /\ c.by \in Hosts /\ c.to \in Hosts /\ IdMod \in Nat
  BY <1>1, ConnFacts, ContextAssumption
<1> HIDE DEF c, q
<1>4. ASSUME NEW g \in Hosts, g = p.dst, Known(g, c), c \notin gone[g]
      PROVE  \E k \in DOMAIN sockets[g] : sockets[g][k].conn = c /\ Linked(g, k, sockets[g][k])
  BY <1>4, SockAt DEF Known, SockGood
<1>5. CASE FromDialer(p) /\ p.id = (c.seed + 1) % IdMod
  <2>1. p.dst = c.to /\ p.src = c.by /\ Known(c.to, c)
    BY <1>1, <1>5 DEF FromDialer, PacketGood, Born, c
  <2>2. c \in gone[p.dst] \/ c.seed + 1 = IdMod
    <3> SUFFICES ASSUME c \notin gone[p.dst], c.seed + 1 # IdMod
                 PROVE  FALSE
      OBVIOUS
    <3>1. p.id = c.seed + 1
      <4>1. c.seed + 1 \in 0 .. IdMod - 1
        BY <1>3
      <4>2. (c.seed + 1) % IdMod = c.seed + 1
        BY <1>3, <4>1
      <4> QED BY <1>5, <4>2
    <3>2. PICK k \in DOMAIN sockets[p.dst] :
            sockets[p.dst][k].conn = c /\ Linked(p.dst, k, sockets[p.dst][k])
      BY <1>3, <1>4, <2>1
    <3>3. k = Key(c.by, c.seed + 1)
      BY <1>3, <2>1, <3>2 DEF Linked
    <3> QED BY <2>1, <3>1, <3>2, <3>3
  <2>3. FromAcceptor(q)
    BY <1>2, <2>1 DEF FromAcceptor
  <2> QED BY <1>1, <1>2, <1>5, <2>2, <2>3 DEF PacketGood, q
<1>6. CASE FromAcceptor(p) /\ p.id = c.seed
  <2>1. p.dst = c.by /\ p.src = c.to /\ Known(c.by, c)
    BY <1>1, <1>6 DEF FromAcceptor, CInv, DialersKnown, c
  <2>2. c \in gone[p.dst]
    <3> SUFFICES ASSUME c \notin gone[p.dst]
                 PROVE  FALSE
      OBVIOUS
    <3>2. PICK k \in DOMAIN sockets[p.dst] :
            sockets[p.dst][k].conn = c /\ Linked(p.dst, k, sockets[p.dst][k])
      BY <1>3, <1>4, <2>1
    <3>3. k = Key(c.to, c.seed)
      BY <1>3, <2>1, <3>2 DEF Linked
    <3> QED BY <1>6, <2>1, <3>2, <3>3
  <2>3. FromDialer(q)
    BY <1>2, <2>1 DEF FromDialer
  <2> QED BY <1>1, <1>2, <1>6, <2>2, <2>3 DEF PacketGood, q
<1> QED BY <1>1, <1>5, <1>6 DEF PacketGood, c

LEMMA UnknownStep ==
  ASSUME CInv, NEW p \in net, p.type \notin {"SYN", "RESET"},
         Key(p.src, p.id) \notin DOMAIN sockets[p.dst],
         ProcessUnknown(p.dst, p), UNCHANGED <<up, dialed, gone>>
  PROVE  CInv' /\ Carried
<1>1. PacketGood(dialed, Born, gone, send_rst(p.dst, p))
  BY UnknownIsGone
<1>2. UNCHANGED sockets /\ net' \subseteq net \cup {send_rst(p.dst, p)}
  BY DEF ProcessUnknown
<1>3. up' \in [Hosts -> BOOLEAN] /\ (\A g \in Hosts : up[g] => up'[g])
  BY DEF CInv
<1>4. \A r \in net' : r \in net \/ PacketGood(dialed, Born, gone, r)
  BY <1>1, <1>2
<1> QED BY <1>2, <1>3, <1>4, NetStep

-----------------------------------------------------------------------------
(* An RST. *)

\* A reset socket is still the same end, given up.
LEMMA ResetSockGood ==
  ASSUME NEW D, NEW B, NEW h, NEW k, NEW s, SockGood(D, B, h, k, s)
  PROVE  SockGood(D, B, h, k, ResetSock(s)) /\ ResetSock(s).conn = s.conn
<1> DEFINE st == IF s.close_requested THEN "Destroy" ELSE "Reset"
           e == FirstError(s, "ConnectionReset")
           t == [s EXCEPT !.state = st, !.error = e]
<1>1. s \in SockType
  BY DEF SockGood
<1>2. st \in States /\ st \in Ended /\ e \in Errors
  BY <1>1 DEF FirstError, SockType, Errors, Ended, States
<1>3. ResetSock(s) = t
  BY DEF ResetSock
<1>4. /\ t \in SockType /\ t.conn = s.conn /\ t.conn_id_send = s.conn_id_send
      /\ t.seq = s.seq /\ t.cur = s.cur /\ t.state = st
  <2> HIDE DEF st, e
  <2> QED BY <1>1, <1>2 DEF SockType
<1> HIDE DEF t, st
<1>5. StillDialling(s, t)
  BY <1>2, <1>4 DEF StillDialling
<1> QED BY <1>3, <1>4, <1>5, StillGood

\* ProcessReset leaves every socket in its place, reset if the RST is for it.
LEMMA ResetParts ==
  ASSUME CInv, NEW h \in Hosts, NEW p, ProcessReset(h, p)
  PROVE  /\ DOMAIN sockets' = Hosts
         /\ \A g \in Hosts : DOMAIN sockets'[g] = DOMAIN sockets[g]
         /\ \A g \in Hosts : \A k \in DOMAIN sockets[g] :
              \/ sockets'[g][k] = sockets[g][k]
              \/ g = h /\ k \in ResetKeys(h, p) /\ sockets'[g][k] = ResetSock(sockets[g][k])
<1> DEFINE f == [k \in DOMAIN sockets[h] |->
                   IF k \in ResetKeys(h, p) THEN ResetSock(sockets[h][k]) ELSE sockets[h][k]]
<1>1. DOMAIN sockets = Hosts
  BY DEF CInv
<1>2. DOMAIN f = DOMAIN sockets[h]
  OBVIOUS
<1>3. \A k \in DOMAIN sockets[h] :
        \/ f[k] = sockets[h][k]
        \/ k \in ResetKeys(h, p) /\ f[k] = ResetSock(sockets[h][k])
  OBVIOUS
<1>4. sockets' = [sockets EXCEPT ![h] = f]
  BY DEF ProcessReset
<1> HIDE DEF f
<1> QED BY <1>1, <1>2, <1>3, <1>4

LEMMA ResetStep ==
  ASSUME CInv, NEW p \in net, ProcessReset(p.dst, p), net' = net \ {p}, UNCHANGED <<up, dialed, gone>>
  PROVE  CInv'
<1>1. p.dst \in Hosts
  BY PacketAt
<1>2. /\ DOMAIN sockets' = Hosts
      /\ \A g \in Hosts : DOMAIN sockets'[g] = DOMAIN sockets[g]
      /\ \A g \in Hosts : \A k \in DOMAIN sockets[g] :
           \/ sockets'[g][k] = sockets[g][k]
           \/ sockets'[g][k] = ResetSock(sockets[g][k])
  BY <1>1, ResetParts
<1>3. ASSUME NEW g \in Hosts, NEW k \in DOMAIN sockets[g]
      PROVE  SockGood(dialed, Born, g, k, sockets'[g][k]) /\ sockets'[g][k].conn = sockets[g][k].conn
  <2>1. SockGood(dialed, Born, g, k, sockets[g][k])
    BY SockAt
  <2> QED BY <1>2, <2>1, ResetSockGood
<1>4. ASSUME NEW g \in Hosts, NEW c, Known(g, c) PROVE Known(g, c)'
  BY <1>2, <1>3, <1>4 DEF Known
<1>5. up' \in [Hosts -> BOOLEAN] /\ DownIsEmpty'
  BY <1>2 DEF CInv, DownIsEmpty
<1>6. ASSUME Born \subseteq Born', NEW g \in Hosts, NEW k \in DOMAIN sockets'[g]
      PROVE  SockGood(dialed', Born', g, k, sockets'[g][k])
  <2>1. k \in DOMAIN sockets[g] /\ dialed' = dialed /\ dialed \subseteq dialed'
    BY <1>2
  <2>2. SockGood(dialed, Born, g, k, sockets'[g][k])
    BY <1>3, <2>1
  <2> QED BY <1>6, <2>1, <2>2, SockGrows
<1>7. /\ DOMAIN gone' = Hosts /\ dialed \subseteq dialed' /\ dialed' \subseteq Conns
      /\ \A g \in Hosts : gone[g] \subseteq gone'[g]
      /\ \A c \in dialed' : c \in dialed
      /\ \A q \in net' : q \in net
  BY DEF CInv
<1> QED BY <1>2, <1>4, <1>5, <1>6, <1>7, Advance

\* The ids of two connections between the same hosts are further apart than
\* an RST can be mistaken.
LEMMA ApartParts ==
  ASSUME CInv, IdsApart, NEW c \in dialed, NEW d \in dialed, c # d, {c.by, c.to} = {d.by, d.to}
  PROVE  /\ c.seed # d.seed /\ c.seed # d.seed + 1 /\ d.seed # c.seed + 1
         /\ c.seed # d.seed + IdMod - 1
         /\ c.seed \in Int /\ d.seed \in Int
<1>1. c.seed - d.seed \notin {0, 1, -1, IdMod - 1, 1 - IdMod}
  BY DEF IdsApart, Between
<1>2. c.seed \in Int /\ d.seed \in Int
  BY ConnFacts DEF CInv
<1> QED BY <1>1, <1>2, ContextAssumption

\* The heart of the argument: the socket an RST finds is an end of the connection
\* that the RST was sent for, and the sender has dropped the other end.
LEMMA ResetHits ==
  ASSUME CInv, IdsApart, NEW p \in net, p.type = "RESET", NEW k \in ResetKeys(p.dst, p)
  PROVE  /\ k \in DOMAIN sockets[p.dst]
         /\ sockets[p.dst][k].conn = p.conn
         /\ p.conn \in gone[Peer(p.dst, sockets[p.dst][k])]
<1> DEFINE h == p.dst
           s == sockets[h][k]
           c == p.conn
           d == s.conn
<1>1. /\ PacketGood(dialed, Born, gone, p) /\ h \in Hosts /\ p.id \in Int
      /\ c \in Conns /\ c \in dialed
  BY PacketAt
<1>2. /\ k \in DOMAIN sockets[h] /\ k.addr = p.src
      /\ \/ k = Key(p.src, p.id)
         \/ k \in {Key(p.src, p.id + 1), Key(p.src, p.id - 1)} /\ s.conn_id_send = p.id
  BY DEF ResetKeys, Has, Key
<1>3. k.recv_id = p.id \/ (k.recv_id \in {p.id + 1, p.id - 1} /\ s.conn_id_send = p.id)
  BY <1>2 DEF Key
<1>4. SockGood(dialed, Born, h, k, s)
  BY <1>1, <1>2, SockAt
<1>5. d \in Conns /\ d \in dialed /\ Linked(h, k, s)
  BY <1>4 DEF SockGood, SockType
<1>6. /\ c.by # c.to /\ c.seed \in 0 .. IdMod - 1 /\ c.seed \in Int
      /\ d.by # d.to /\ d.seed \in 0 .. IdMod - 1 /\ d.seed \in Int
      /\ IdMod \in Nat /\ IdMod >= 2
  BY <1>1, <1>5, ConnFacts, ContextAssumption
<1>7. \/ /\ h = d.by /\ p.src = d.to /\ k.recv_id = d.seed /\ s.conn_id_send = d.seed + 1
      \/ /\ h = d.to /\ p.src = d.by /\ k.recv_id = d.seed + 1 /\ s.conn_id_send = d.seed
  BY <1>2, <1>5 DEF Linked, Key
<1>8. \/ FromDialer(p) /\ p.id = c.seed /\ c \in gone[p.src]
      \/ /\ FromAcceptor(p) /\ p.id = (c.seed + 1) % IdMod
         /\ c \in gone[p.src] \/ c.seed + 1 = IdMod
  BY <1>1 DEF PacketGood
<1>9. (p.src = c.by /\ h = c.to) \/ (p.src = c.to /\ h = c.by)
  BY <1>8 DEF FromDialer, FromAcceptor
<1>10. {c.by, c.to} = {d.by, d.to}
  BY <1>7, <1>9
<1> HIDE DEF h, s, c, d
<1>11. c # d => /\ c.seed # d.seed /\ c.seed # d.seed + 1 /\ d.seed # c.seed + 1
                /\ c.seed # d.seed + IdMod - 1
  BY <1>1, <1>5, <1>10, ApartParts
<1>12. c = d /\ c \in gone[p.src]
  <2>1. CASE p.id = c.seed /\ c \in gone[p.src]
    BY <1>3, <1>6, <1>7, <1>11, <2>1
  <2>2. CASE p.id = c.seed + 1 /\ c \in gone[p.src]
    BY <1>3, <1>6, <1>7, <1>11, <2>2
  <2>3. CASE p.id = 0 /\ c.seed + 1 = IdMod
    BY <1>3, <1>6, <1>7, <1>11, <2>3
  <2>4. c.seed + 1 = IdMod => (c.seed + 1) % IdMod = 0
    BY <1>6, ModSelf
  <2>5. c.seed + 1 # IdMod => (c.seed + 1) % IdMod = c.seed + 1
    <3>1. c.seed + 1 # IdMod => c.seed + 1 \in 0 .. IdMod - 1
      BY <1>6
    <3> QED BY <1>6, <3>1, ModSmall
  <2> QED BY <1>8, <2>1, <2>2, <2>3, <2>4, <2>5
<1>13. Peer(h, s) = p.src
  BY <1>6, <1>7 DEF Peer, d
<1> QED BY <1>2, <1>12, <1>13 DEF h, s, c, d

\* A delivery keeps the invariant; only an RST resets, and it may.
LEMMA DeliverStep ==
  ASSUME CInv, NEW p \in net, Deliver(p)
  PROVE  CInv' /\ (IdsApart /\ ResetsJustified => ResetsJustified')
<1> DEFINE h == p.dst
           k == Key(p.src, p.id)
<1>1. up[h] /\ UNCHANGED <<up, dialed, gone>> /\ h \in Hosts
  BY PacketAt DEF Deliver
<1>2. ASSUME CInv' /\ Carried PROVE CInv' /\ (ResetsJustified => ResetsJustified')
  <2>1. \A g \in Hosts : gone[g] \subseteq gone'[g]
    BY <1>1
  <2> QED BY <1>2, <2>1, CarriedJustified
<1>3. CASE p.type = "SYN"
  <2>1. ProcessSyn(h, p)
    BY <1>3 DEF Deliver
  <2> QED BY <1>1, <1>2, <1>3, <2>1, SynStep
<1>4. CASE p.type \notin {"SYN", "RESET"} /\ k \in DOMAIN sockets[h]
  <2>1. ProcessKnown(h, p, k)
    BY <1>4 DEF Deliver, Has
  <2> QED BY <1>1, <1>2, <1>4, <2>1, KnownStep
<1>5. CASE p.type \notin {"SYN", "RESET"} /\ k \notin DOMAIN sockets[h]
  <2>1. ProcessUnknown(h, p)
    BY <1>5 DEF Deliver, Has
  <2> QED BY <1>1, <1>2, <1>5, <2>1, UnknownStep
<1>6. CASE p.type = "RESET"
  <2>1. ProcessReset(h, p) /\ net' = net \ {p}
    BY <1>6 DEF Deliver
  <2>2. CInv'
    BY <1>1, <2>1, ResetStep
  <2>3. ASSUME IdsApart, ResetsJustified PROVE ResetsJustified'
    <3>1. \A g \in Hosts : DOMAIN sockets'[g] = DOMAIN sockets[g]
      BY <1>1, <2>1, ResetParts
    <3>2. ASSUME NEW g \in Hosts, NEW j \in DOMAIN sockets'[g],
                 sockets'[g][j].error = "ConnectionReset"
          PROVE  sockets'[g][j].conn \in gone'[Peer(g, sockets'[g][j])]
      <4>1. j \in DOMAIN sockets[g]
        BY <3>1
      <4>2. CASE sockets'[g][j] = sockets[g][j]
        <5>1. JustifiedAt(g, sockets[g][j])
          BY <2>3, <4>1, JustifiedParts
        <5> QED BY <1>1, <3>2, <4>2, <5>1 DEF JustifiedAt
      <4>3. CASE g = h /\ j \in ResetKeys(h, p) /\ sockets'[g][j] = ResetSock(sockets[g][j])
        <5>1. sockets[g][j].conn = p.conn /\ p.conn \in gone[Peer(g, sockets[g][j])]
          BY <1>6, <2>3, <4>3, ResetHits
        <5>2. sockets'[g][j].conn = sockets[g][j].conn
          <6>1. SockGood(dialed, Born, g, j, sockets[g][j])
            BY <4>1, SockAt
          <6>2. ResetSock(sockets[g][j]).conn = sockets[g][j].conn
            BY <6>1, ResetSockGood, Zenon
          <6> QED BY <4>3, <6>2
        <5>3. Peer(g, sockets'[g][j]) = Peer(g, sockets[g][j])
          BY <5>2 DEF Peer
        <5> QED BY <1>1, <5>1, <5>2, <5>3
      <4> QED BY <1>1, <2>1, <4>1, <4>2, <4>3, ResetParts
    <3>3. JustifiedParts'
      BY JustifiedParts, PTL
    <3> QED BY <3>2, <3>3 DEF JustifiedParts, JustifiedAt
  <2> QED BY <2>2, <2>3
<1> QED BY <1>3, <1>4, <1>5, <1>6

-----------------------------------------------------------------------------
(* The theorems. *)

LEMMA InitGood == Init => CInv /\ ResetJustified
<1> SUFFICES ASSUME Init
             PROVE  CInv /\ ResetJustified
  OBVIOUS
<1>1. /\ sockets = [h \in Hosts |-> <<>>] /\ up = [h \in Hosts |-> TRUE]
      /\ net = {} /\ dialed = {} /\ gone = [h \in Hosts |-> {}]
  BY DEF Init
<1>2. \A h \in Hosts : DOMAIN sockets[h] = {}
  BY <1>1
<1>3. SocketsGood /\ NetGood /\ DialersKnown /\ DownIsEmpty
  BY <1>1, <1>2 DEF SocketsGood, NetGood, DialersKnown, DownIsEmpty
<1>4. CInv
  BY <1>1, <1>3 DEF CInv
<1>5. ResetsJustified
  BY <1>2, JustifiedParts
<1> QED BY <1>4, <1>5 DEF ResetJustified

LEMMA StepGood ==
  ASSUME CInv, [Next]_vars
  PROVE  CInv' /\ (IdsApart /\ ResetsJustified => ResetsJustified')
<1>1. ASSUME CInv' /\ Carried, \A g \in Hosts : gone[g] \subseteq gone'[g]
      PROVE  CInv' /\ (IdsApart /\ ResetsJustified => ResetsJustified')
  BY <1>1, CarriedJustified
<1>2. ASSUME NEW h \in Hosts, NEW a \in Hosts, NEW seed \in Seeds[h], Dial(h, a, seed)
      PROVE  CInv' /\ (IdsApart /\ ResetsJustified => ResetsJustified')
  <2>1. gone' = gone
    BY <1>2 DEF Dial
  <2> QED BY <1>1, <1>2, <2>1, DialStep
<1>3. ASSUME NEW h \in Hosts, NEW k \in DOMAIN sockets[h], Accept(h, k) \/ Write(h, k) \/ Close(h, k)
      PROVE  CInv' /\ (IdsApart /\ ResetsJustified => ResetsJustified')
  <2>1. gone' = gone
    BY <1>3 DEF Accept, Write, Close
  <2> QED BY <1>1, <1>3, <2>1, AcceptStep, WriteStep, CloseStep
<1>4. ASSUME NEW h \in Hosts, CloseSocket(h)
      PROVE  CInv' /\ (IdsApart /\ ResetsJustified => ResetsJustified')
  BY <1>1, <1>4, CloseSocketStep
<1>5. ASSUME NEW h \in Hosts, Bind(h)
      PROVE  CInv' /\ (IdsApart /\ ResetsJustified => ResetsJustified')
  <2>1. gone' = gone
    BY <1>5 DEF Bind
  <2> QED BY <1>1, <1>5, <2>1, BindStep
<1>6. ASSUME Tick
      PROVE  CInv' /\ (IdsApart /\ ResetsJustified => ResetsJustified')
  BY <1>1, <1>6, TickStep
<1>7. ASSUME NEW p \in net, Lose(p) \/ Duplicate(p)
      PROVE  CInv' /\ (IdsApart /\ ResetsJustified => ResetsJustified')
  <2>1. gone' = gone
    BY <1>7 DEF Lose, Duplicate
  <2> QED BY <1>1, <1>7, <2>1, NetworkStep
<1>8. ASSUME NEW p \in net, Deliver(p)
      PROVE  CInv' /\ (IdsApart /\ ResetsJustified => ResetsJustified')
  BY <1>8, DeliverStep
<1>9. ASSUME UNCHANGED vars
      PROVE  CInv' /\ (IdsApart /\ ResetsJustified => ResetsJustified')
  <2>1. UNCHANGED <<sockets, dialed, gone, net, up>>
    BY <1>9 DEF vars
  <2>2. up' \in [Hosts -> BOOLEAN] /\ (\A g \in Hosts : up[g] => up'[g])
    BY <2>1 DEF CInv
  <2> QED BY <1>1, <2>1, <2>2, NetStep
<1> QED BY <1>2, <1>3, <1>4, <1>5, <1>6, <1>7, <1>8, <1>9 DEF Next, Delivery

LEMMA DialedGrows ==
  ASSUME [Next]_vars, IdsApart'
  PROVE  IdsApart
<1>1. dialed \subseteq dialed'
  BY DEF Next, vars, Delivery, Dial, Accept, Write, Close, CloseSocket, Bind, Tick, Deliver, Lose, Duplicate
<1> QED BY <1>1 DEF IdsApart, Between

\* Every socket in the table of a host and every datagram under way belongs to a
\* connection that was dialled, stands under the ids of its end of it, and
\* nothing but a SYN travels before the connection was accepted (connect,
\* process_udp, check_timeouts, destroy_all).
THEOREM Invariance == Spec => []CInv
<1>1. Init => CInv
  BY InitGood
<1>2. CInv /\ [Next]_vars => CInv'
  BY StepGood
<1> QED BY <1>1, <1>2, PTL DEF Spec

\* However datagrams are delayed, reordered, lost and duplicated, and ends are
\* closed, refused, timed out and restarted: an RST resets no connection whose
\* peer still holds its end, as long as no two connections dialled between the
\* same hosts have the same or neighbouring ids (process_udp, ResetKeys).
THEOREM ResetAlwaysJustified == Spec => []ResetJustified
<1>1. Init => CInv /\ ResetJustified
  BY InitGood
<1>2. ASSUME CInv, ResetJustified, [Next]_vars PROVE CInv' /\ ResetJustified'
  <2>1. CInv' /\ (IdsApart /\ ResetsJustified => ResetsJustified')
    BY <1>2, StepGood
  <2>2. IdsApart' => IdsApart
    BY <1>2, DialedGrows
  <2> QED BY <1>2, <2>1, <2>2 DEF ResetJustified
<1> QED BY <1>1, <1>2, PTL DEF Spec
=============================================================================

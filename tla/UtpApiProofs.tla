---------------------------- MODULE UtpApiProofs ----------------------------
(***************************************************************************)
(* Theorems about UtpApi, for any number of threads and connections: no     *)
(* wakeup is lost, no thread waits for a mutex it holds, no connection is   *)
(* forgotten.                                                               *)
(***************************************************************************)
EXTENDS UtpApi, TLAPS, SequenceTheorems

-----------------------------------------------------------------------------
(* The inductive invariant. *)

Engine == {"None", "SynSent", "SynRecv", "Connected", "ConnectedFull", "Reset", "Destroy", "Removed"}

ConnType ==
  [eng : Engine, fin : BOOLEAN, read_buf : Nat, got_eof : BOOLEAN, got_connect : BOOLEAN,
   destroyed : BOOLEAN, closed : BOOLEAN, error : BOOLEAN, undone : BOOLEAN]

Ops == ConnOps \cup {"idle", "accept", "recv_from", "close", "shutdown", "notify"}

PcType ==
  [op : Ops \cup {"self_lock"}, c : Conns \cup {NoConn}, timed : BOOLEAN, late : BOOLEAN, asleep : BOOLEAN]

\* One connection: on_destroying came exactly when the engine removed the socket;
\* only a closed handle has sent a FIN; and a closed handle's socket is leaving.
ConnOK(r) ==
  /\ r \in ConnType
  /\ r.destroyed <=> r.eng = "Removed"
  /\ r.fin => r.closed
  /\ r.closed /\ r.eng \notin Absent => r.fin \/ r.eng = "Destroy" \/ r.undone

\* One thread: what it has of a connection.
PcOK(p) ==
  /\ p \in PcType
  /\ p.op \in {"recv", "send", "close"} => p.c \in Conns
  /\ p.op = "connect" /\ p.asleep => p.c \in Conns
  /\ p.op \in {"idle", "accept", "recv_from", "shutdown", "notify"} => p.c = NoConn

\* Types, and how the parts of the state belong together: a handle, a call and
\* the backlog name connections that were created; a call on a connection keeps
\* its handle alive; and a closed socket has no connection left in the engine.
Structure ==
  /\ conn \in [Conns -> ConnType] /\ \A c \in Conns : ConnOK(conn[c])
  /\ pc \in [Threads -> PcType] /\ \A t \in Threads : PcOK(pc[t])
  /\ held \subseteq {c \in Conns : conn[c].eng # "None"}
  /\ backlog \in Seq({c \in Conns : conn[c].eng # "None"})
  /\ non_utp \in Nat /\ closed \in BOOLEAN
  /\ \A t \in Threads : pc[t].c \in Conns => conn[pc[t].c].eng # "None"
  /\ \A t \in Threads : pc[t].op \in {"recv", "send"} => pc[t].c \in held
  /\ closed => \A c \in Conns : conn[c].eng \in Absent

IInv == Structure /\ NoSelfDeadlock /\ NoLostWakeup /\ NoForgottenConn

-----------------------------------------------------------------------------
(* What the engine does to a connection. *)

\* Nothing a sleeping thread waits for has come about.
Quiet(r, s) ==
  /\ (r.read_buf = 0 => s.read_buf = 0) /\ s.got_eof = r.got_eof /\ s.got_connect = r.got_connect
  /\ s.destroyed = r.destroyed /\ s.error = r.error
  /\ s.eng = "Connected" => r.eng = "Connected"

\* What a datagram or a timeout check may do to a connection.
StepOK(r, s) ==
  /\ ConnOK(s.r) /\ s.wake \in BOOLEAN
  /\ s.r.closed = r.closed
  /\ s.r.eng = "None" <=> r.eng = "None"
  /\ r.eng \in Absent => s.r.eng \in Absent
  /\ ~s.wake => Quiet(r, s.r)

\* A datagram (Events) changes a connection as a callback reports it: whatever
\* a thread may be waiting for is notified.
LEMMA EventsOK ==
  ASSUME NEW r \in ConnType, ConnOK(r), NEW s \in Events(r)
  PROVE  StepOK(r, s)
<1> USE DEF ConnOK, ConnType, Engine, StepOK, Quiet, Absent, Established, Seen, Unseen
<1>1. CASE s = Unseen(r)
  BY <1>1
<1>2. CASE r.eng \notin Absent /\ s = OnReset(r)
  BY <1>2 DEF OnReset
<1>8. CASE r.eng \notin Absent /\ s = OnRefused(r)
  BY <1>8 DEF OnRefused
<1>3. CASE r.eng = "SynSent" /\ s \in OnConnect(r)
  <2>1. PICK st \in Established : s = Seen([r EXCEPT !.eng = st, !.got_connect = TRUE])
    BY <1>3 DEF OnConnect
  <2> QED BY <1>3, <2>1
<1>4. CASE r.eng \in {"SynRecv", "ConnectedFull"} /\ s = Seen([r EXCEPT !.eng = "Connected"])
  BY <1>4
<1>5. CASE r.eng \in Established /\ ~r.fin /\ s = OnRead(r)
  BY <1>5 DEF OnRead
<1>6. CASE r.eng \in Established /\ s = OnEof(r)
  BY <1>6 DEF OnEof
<1>7. CASE r.eng \in Established /\ r.fin /\ s = Unseen([r EXCEPT !.eng = "Destroy"])
  BY <1>7
<1> QED BY <1>1, <1>2, <1>3, <1>4, <1>5, <1>6, <1>7, <1>8 DEF Events, Writable

\* The same for the timeout check (AfterCheck).
LEMMA AfterCheckOK ==
  ASSUME NEW r \in ConnType, ConnOK(r), NEW s \in AfterCheck(r)
  PROVE  StepOK(r, s)
<1> USE DEF ConnOK, ConnType, Engine, StepOK, Quiet, Absent, Established, Seen, Unseen
<1>1. CASE r.eng = "Destroy" /\ s = Seen(destroy_sock(r))
  BY <1>1 DEF destroy_sock
<1>2. CASE s = Unseen(r)
  BY <1>2
<1>3. CASE r.eng \in Established \cup {"SynSent"} /\ s = OnTimeout(r)
  BY <1>3 DEF OnTimeout
<1>4. CASE r.eng \in Established \cup {"SynSent"} /\ s = OnRefused(r)
  BY <1>4 DEF OnRefused
<1>5. CASE r.eng = "ConnectedFull" /\ s = Seen([r EXCEPT !.eng = "Connected"])
  BY <1>5
<1> QED BY <1>1, <1>2, <1>3, <1>4, <1>5 DEF AfterCheck, Writable

\* All connections after a check.
LEMMA CheckedOK ==
  ASSUME NEW cs \in [Conns -> ConnType], \A c \in Conns : ConnOK(cs[c]), NEW f \in Checked(cs)
  PROVE  \A c \in Conns : StepOK(cs[c], f[c])
<1> TAKE c \in Conns
<1>1. CASE f = [d \in Conns |-> Unseen(cs[d])]
  BY <1>1 DEF StepOK, Unseen, Quiet, ConnOK
<1>2. CASE f[c] \in AfterCheck(cs[c])
  BY <1>2, AfterCheckOK
<1> QED BY <1>1, <1>2 DEF Checked

\* close_locked tells the engine, and leaves a closed connection alone.
LEMMA CloseLockedOK ==
  ASSUME NEW r \in ConnType, ConnOK(r)
  PROVE  /\ ConnOK(close_locked(r)) /\ close_locked(r).closed
         /\ close_locked(r).eng = "None" <=> r.eng = "None"
         /\ r.eng \in Absent => close_locked(r).eng \in Absent
         /\ close_locked(r).destroyed = r.destroyed
BY DEF ConnOK, ConnType, Engine, Absent, Established, close_locked, close_engine

-----------------------------------------------------------------------------
(* Condition variables. *)

\* notify_all wakes the threads it is for, and changes nothing else of anyone.
LEMMA NotifiedOK ==
  ASSUME NEW pcs \in [Threads -> PcType], NEW cs, NEW ops
  PROVE  /\ Notified(pcs, cs, ops) \in [Threads -> PcType]
         /\ \A t \in Threads : LET p == Notified(pcs, cs, ops)[t] IN
              /\ p.op = pcs[t].op /\ p.c = pcs[t].c
              /\ p.asleep => /\ p = pcs[t] /\ p.op \notin ops
                             /\ p.op \in ConnOps => p.c \notin cs
BY DEF Notified, PcType

\* A thread asleep in recv, send or connect finds nothing new in its connection.
Waits(p, r) ==
  /\ p.op = "recv" => r.read_buf = 0 /\ ~Over(r)
  /\ p.op = "send" => ~(r.error \/ r.destroyed \/ r.closed) /\ r.eng # "Connected"
  /\ p.op = "connect" => ~(r.error \/ r.got_connect \/ r.destroyed \/ r.closed)

\* How a connection may change in one step: it is not uncreated, and while nobody
\* is woken it changes quietly.
Evolves(r, s, woken) ==
  /\ r.eng # "None" => s.eng # "None"
  /\ r.eng # "None" /\ ~woken => Quiet(r, s) /\ s.closed = r.closed

\* Who slept on cond and was not notified still waits, if every connection that
\* did not change quietly was notified and whoever went to sleep in this step
\* has looked before.
LEMMA SleepersWait ==
  ASSUME Structure, NoLostWakeup,
         NEW pcs \in [Threads -> PcType], NEW W, NEW ops, NEW pc2, NEW conn2,
         pc2 = Notified(pcs, W, ops),
         \A c \in Conns : Evolves(conn[c], conn2[c], c \in W),
         \A u \in Threads : PcOK(pcs[u]),
         \A u \in Threads : pcs[u] = pc[u] \/ (pcs[u].asleep => Waits(pcs[u], conn2[pcs[u].c]))
  PROVE  /\ pc2 \in [Threads -> PcType]
         /\ \A u \in Threads : PcOK(pc2[u])
         /\ \A u \in Threads : pc2[u].op = pcs[u].op /\ pc2[u].c = pcs[u].c
         /\ \A u \in Threads : pc2[u].asleep => Waits(pc2[u], conn2[pc2[u].c])
         /\ \A u \in Threads : pc2[u].asleep => pc2[u] = pcs[u] /\ pcs[u].op \notin ops
<1>1. /\ pc2 \in [Threads -> PcType]
      /\ \A u \in Threads : pc2[u].op = pcs[u].op /\ pc2[u].c = pcs[u].c
      /\ \A u \in Threads : pc2[u].asleep =>
           pc2[u] = pcs[u] /\ pcs[u].op \notin ops /\ (pcs[u].op \in ConnOps => pcs[u].c \notin W)
  BY NotifiedOK
<1>2. \A u \in Threads : PcOK(pc2[u])
  BY <1>1 DEF PcOK
<1>3. ASSUME NEW u \in Threads, pc2[u].asleep
      PROVE  Waits(pc2[u], conn2[pc2[u].c])
  <2>1. pc2[u] = pcs[u] /\ (pcs[u].op \in ConnOps => pcs[u].c \notin W)
    BY <1>1, <1>3
  <2>2. CASE pcs[u] = pc[u] /\ pc[u].op \in ConnOps
    <3>1. pc[u].c \in Conns /\ pc[u].c \notin W
      BY <1>3, <2>1, <2>2 DEF Structure, PcOK, ConnOps
    <3>2. conn[pc[u].c].eng # "None"
      BY <3>1 DEF Structure
    <3>3. /\ Quiet(conn[pc[u].c], conn2[pc[u].c])
          /\ conn2[pc[u].c].closed = conn[pc[u].c].closed
      BY <3>1, <3>2 DEF Evolves
    <3>4. Waits(pc[u], conn[pc[u].c])
      BY <1>3, <2>1, <2>2 DEF NoLostWakeup, Waits
    <3> QED BY <2>1, <2>2, <3>3, <3>4 DEF Waits, Quiet, Over
  <2>3. CASE pc[u].op \notin ConnOps /\ pcs[u] = pc[u]
    BY <2>1, <2>3 DEF Waits, ConnOps
  <2>4. CASE pcs[u] # pc[u]
    BY <2>1, <2>4, <1>3
  <2> QED BY <2>2, <2>3, <2>4
<1> QED BY <1>1, <1>2, <1>3

-----------------------------------------------------------------------------
(* One step of anyone. *)

\* What a sleeping thread of the socket waits for: an empty backlog for accept,
\* no datagram for recv_from, and no close that has not been announced.
Idling(p, bl, nu, cl, announced) ==
  /\ p.op = "accept" => bl = <<>> /\ (cl => announced)
  /\ p.op = "recv_from" => nu = 0 /\ (cl => announced)
  /\ p.op = "connect" => ~cl

\* Every connection the engine keeps open is in somebody's hands.
Owned(c, h, bl, pcs) ==
  \/ c \in h
  \/ \E i \in DOMAIN bl : bl[i] = c
  \/ \E t \in Threads : pcs[t].c = c

\* A step keeps the invariant if it changes the connections as Evolves allows,
\* notifies those that did not change quietly (W) and the calls (ops) whose
\* queue it filled, and leaves every open connection owned.
LEMMA StepKeeps ==
  ASSUME IInv,
         NEW pcs \in [Threads -> PcType], NEW W, NEW ops,
         pc' = Notified(pcs, W, ops),
         conn' \in [Conns -> ConnType], \A c \in Conns : ConnOK(conn'[c]),
         \A c \in Conns : Evolves(conn[c], conn'[c], c \in W),
         \A u \in Threads : PcOK(pcs[u]) /\ pcs[u].op # "self_lock",
         \A u \in Threads : pcs[u] = pc[u] \/ (pcs[u].asleep => Waits(pcs[u], conn'[pcs[u].c])),
         \A u \in Threads : pcs[u].c \in Conns => conn'[pcs[u].c].eng # "None",
         \A u \in Threads : pcs[u].op \in {"recv", "send"} => pcs[u].c \in held',
         held' \subseteq {c \in Conns : conn'[c].eng # "None"},
         backlog' \in Seq({c \in Conns : conn'[c].eng # "None"}),
         non_utp' \in Nat, closed' \in BOOLEAN,
         closed' => \A c \in Conns : conn'[c].eng \in Absent,
         \A u \in Threads :
           pcs[u].asleep /\ pcs[u].op \notin ops /\ (pcs[u].op = "connect" => pcs[u].c \notin W)
             => Idling(pcs[u], backlog', non_utp', closed', Notifying'),
         \A c \in Conns : conn'[c].eng \notin Absent /\ ~conn'[c].closed => Owned(c, held', backlog', pcs)
  PROVE  IInv'
<1>1. /\ pc' \in [Threads -> PcType]
      /\ \A u \in Threads : PcOK(pc'[u])
      /\ \A u \in Threads : pc'[u].op = pcs[u].op /\ pc'[u].c = pcs[u].c
      /\ \A u \in Threads : pc'[u].asleep => Waits(pc'[u], conn'[pc'[u].c])
      /\ \A u \in Threads : pc'[u].asleep => pc'[u] = pcs[u] /\ pcs[u].op \notin ops
  BY SleepersWait DEF IInv
<1>2. \A u \in Threads : pc'[u].asleep => (pcs[u].op \in ConnOps => pcs[u].c \notin W)
  BY NotifiedOK
<1>3. Structure'
  BY <1>1 DEF Structure
<1>4. NoSelfDeadlock'
  BY <1>1 DEF NoSelfDeadlock, MutexFree
<1>5. NoLostWakeup'
  <2> SUFFICES ASSUME NEW t \in Threads, pc'[t].asleep
               PROVE  /\ Waits(pc'[t], conn'[pc'[t].c])
                      /\ Idling(pc'[t], backlog', non_utp', closed', Notifying')
    BY DEF NoLostWakeup, Waits, Idling
  <2>1. pc'[t] = pcs[t] /\ pcs[t].op \notin ops /\ (pcs[t].op = "connect" => pcs[t].c \notin W)
    BY <1>1, <1>2 DEF ConnOps
  <2>2. Idling(pcs[t], backlog', non_utp', closed', Notifying')
    BY <2>1
  <2> QED BY <1>1, <2>1, <2>2 DEF Idling
<1>6. NoForgottenConn'
  <2> SUFFICES ASSUME NEW c \in Conns, conn'[c].eng \notin Absent
               PROVE  IF conn'[c].closed
                      THEN conn'[c].fin \/ conn'[c].eng = "Destroy" \/ conn'[c].undone
                      ELSE Owned(c, held', backlog', pc')
    BY DEF NoForgottenConn, Owned
  <2> QED BY <1>1 DEF ConnOK, Owned
<1> QED BY <1>3, <1>4, <1>5, <1>6 DEF IInv

\* The connections that must be in somebody's hands.
Open(r) == r.eng \notin Absent /\ ~r.closed

\* notify_all with nobody to notify.
LEMMA NobodyNotified ==
  ASSUME NEW pcs \in [Threads -> PcType]
  PROVE  pcs = Notified(pcs, {}, {})
BY DEF Notified

\* A step of one thread t, whose call becomes p, on an open or a closed socket.
LEMMA ThreadStep ==
  ASSUME IInv, NEW t \in Threads,
         NEW p \in PcType, PcOK(p), p.op # "self_lock", pc[t].op = "notify" => p.op = "notify",
         NEW W, pc' = Notified([pc EXCEPT ![t] = p], W, {}),
         conn' \in [Conns -> ConnType], \A c \in Conns : ConnOK(conn'[c]),
         \A c \in Conns : Evolves(conn[c], conn'[c], c \in W),
         p.asleep => Waits(p, conn'[p.c]) /\ Idling(p, backlog', non_utp', closed, FALSE),
         p.c \in Conns => conn'[p.c].eng # "None",
         p.op \in {"recv", "send"} => p.c \in held',
         \A u \in Threads \ {t} : pc[u].op \in {"recv", "send"} => pc[u].c \in held',
         held' \subseteq {c \in Conns : conn'[c].eng # "None"},
         backlog' \in Seq({c \in Conns : conn'[c].eng # "None"}),
         backlog = <<>> => backlog' = <<>>,
         non_utp' \in Nat, non_utp = 0 => non_utp' = 0,
         closed' = closed, reader' = reader,
         closed => \A c \in Conns : conn'[c].eng \in Absent,
         \A c \in Conns : Open(conn'[c]) => Open(conn[c]) \/ p.c = c,
         \A c \in Conns : Open(conn'[c]) /\ (c \in held \/ \E i \in DOMAIN backlog : backlog[i] = c)
           => Owned(c, held', backlog', [pc EXCEPT ![t] = p]),
         pc[t].c \in Conns /\ Open(conn'[pc[t].c]) => p.c = pc[t].c \/ pc[t].c \in held'
  PROVE  IInv'
<1> DEFINE pcs == [pc EXCEPT ![t] = p]
<1>1. /\ pcs \in [Threads -> PcType] /\ pcs[t] = p
      /\ \A u \in Threads \ {t} : pcs[u] = pc[u]
      /\ pc' = Notified(pcs, W, {})
      /\ \A c \in Conns : Open(conn'[c]) /\ (c \in held \/ \E i \in DOMAIN backlog : backlog[i] = c)
           => Owned(c, held', backlog', pcs)
  BY DEF IInv, Structure
<1> HIDE DEF pcs
<1>2. \A u \in Threads : PcOK(pcs[u]) /\ pcs[u].op # "self_lock"
  BY <1>1 DEF IInv, Structure, NoSelfDeadlock, MutexFree
<1>3. \A u \in Threads : pcs[u] = pc[u] \/ (pcs[u].asleep => Waits(pcs[u], conn'[pcs[u].c]))
  BY <1>1
<1>4. \A u \in Threads : pcs[u].c \in Conns => conn'[pcs[u].c].eng # "None"
  BY <1>1 DEF IInv, Structure, Evolves
<1>5. \A u \in Threads : pcs[u].op \in {"recv", "send"} => pcs[u].c \in held'
  BY <1>1
<1>6. closed' \in BOOLEAN /\ (closed' => \A c \in Conns : conn'[c].eng \in Absent)
  BY DEF IInv, Structure
<1>7. Notifying => Notifying'
  <2>1. \A u \in Threads : pc'[u].op = pcs[u].op
    BY <1>1, NotifiedOK
  <2> QED BY <1>1, <2>1 DEF Notifying
<1>8. \A u \in Threads : pcs[u].asleep => Idling(pcs[u], backlog', non_utp', closed', Notifying')
  <2> TAKE u \in Threads
  <2>1. CASE u = t
    BY <1>1, <2>1 DEF Idling
  <2>2. CASE u # t
    BY <1>1, <1>7, <2>2 DEF IInv, NoLostWakeup, Idling
  <2> QED BY <2>1, <2>2
<1>9. \A c \in Conns : conn'[c].eng \notin Absent /\ ~conn'[c].closed => Owned(c, held', backlog', pcs)
  <2> SUFFICES ASSUME NEW c \in Conns, Open(conn'[c]) PROVE Owned(c, held', backlog', pcs)
    BY DEF Open
  <2>1. CASE p.c = c
    BY <1>1, <2>1 DEF Owned
  <2>2. CASE Open(conn[c])
    <3>1. c \in held \/ (\E i \in DOMAIN backlog : backlog[i] = c) \/ \E u \in Threads : pc[u].c = c
      BY <2>2 DEF IInv, NoForgottenConn, Open
    <3>2. CASE \E u \in Threads : pc[u].c = c
      <4>1. PICK u \in Threads : pc[u].c = c
        BY <3>2
      <4>2. CASE u # t
        BY <1>1, <4>1, <4>2 DEF Owned
      <4>3. CASE u = t
        BY <1>1, <4>1, <4>3 DEF Owned
      <4> QED BY <4>2, <4>3
    <3> QED BY <1>1, <3>1, <3>2
  <2> QED BY <2>1, <2>2
<1> QED BY <1>1, <1>2, <1>3, <1>4, <1>5, <1>6, <1>7, <1>8, <1>9, StepKeeps

\* A step of the reader on an open socket: what a datagram did (cs), and the
\* timeout check after it.
LEMMA EngineStep ==
  ASSUME IInv, ~closed,
         NEW cs \in [Conns -> ConnType], \A c \in Conns : ConnOK(cs[c]),
         NEW W, NEW ops, \A c \in Conns : Evolves(conn[c], cs[c], c \in W),
         NEW f \in Checked(cs), Apply(f, W, ops),
         UNCHANGED <<held, closed>>,
         backlog' \in Seq({c \in Conns : cs[c].eng # "None"}),
         backlog' = backlog \/ "accept" \in ops,
         \A i \in DOMAIN backlog : \E j \in DOMAIN backlog' : backlog'[j] = backlog[i],
         non_utp' \in Nat, non_utp' = non_utp \/ "recv_from" \in ops,
         \A c \in Conns : Open(cs[c]) => Open(conn[c]) \/ \E j \in DOMAIN backlog' : backlog'[j] = c
  PROVE  IInv'
<1> DEFINE V == W \cup {c \in Conns : f[c].wake}
<1>1. \A c \in Conns : StepOK(cs[c], f[c])
  BY CheckedOK
<1>2. pc' = Notified(pc, V, ops) /\ conn' = [c \in Conns |-> f[c].r]
  BY DEF Apply
<1>3. conn' \in [Conns -> ConnType] /\ \A c \in Conns : ConnOK(conn'[c])
  BY <1>1, <1>2 DEF StepOK, ConnOK
<1>4. \A c \in Conns : Evolves(conn[c], conn'[c], c \in V)
  <2> TAKE c \in Conns
  <2>1. StepOK(cs[c], f[c]) /\ Evolves(conn[c], cs[c], c \in W) /\ conn'[c] = f[c].r
    BY <1>1, <1>2
  <2>2. ConnOK(conn'[c]) /\ ConnOK(cs[c])
    BY <1>3
  <2> QED BY <2>1, <2>2 DEF StepOK, Evolves, Quiet, ConnOK, Absent
<1>5. {c \in Conns : cs[c].eng # "None"} = {c \in Conns : conn'[c].eng # "None"}
  BY <1>1, <1>2 DEF StepOK
<1>6. pc \in [Threads -> PcType] /\ \A u \in Threads : PcOK(pc[u]) /\ pc[u].op # "self_lock"
  BY DEF IInv, Structure, NoSelfDeadlock, MutexFree
<1>7. /\ \A u \in Threads : pc[u].c \in Conns => conn'[pc[u].c].eng # "None"
      /\ held' \subseteq {c \in Conns : conn'[c].eng # "None"}
      /\ backlog' \in Seq({c \in Conns : conn'[c].eng # "None"})
  BY <1>4, <1>5 DEF IInv, Structure, Evolves
<1>8. \A u \in Threads : pc[u].op \in {"recv", "send"} => pc[u].c \in held'
  BY DEF IInv, Structure
<1>9. \A u \in Threads :
        pc[u].asleep /\ pc[u].op \notin ops /\ (pc[u].op = "connect" => pc[u].c \notin V)
          => Idling(pc[u], backlog', non_utp', closed', Notifying')
  BY DEF IInv, NoLostWakeup, Idling
<1>10. \A c \in Conns : conn'[c].eng \notin Absent /\ ~conn'[c].closed => Owned(c, held', backlog', pc)
  <2> SUFFICES ASSUME NEW c \in Conns, Open(conn'[c]) PROVE Owned(c, held', backlog', pc)
    BY DEF Open
  <2>1. Open(cs[c])
    BY <1>1, <1>2 DEF StepOK, Open
  <2>2. CASE Open(conn[c])
    BY <2>2 DEF IInv, NoForgottenConn, Open, Owned
  <2> QED BY <2>1, <2>2 DEF Owned
<1>11. closed' \in BOOLEAN /\ ~closed'
  BY DEF IInv, Structure
<1>12. \A u \in Threads : pc[u] = pc[u] \/ (pc[u].asleep => Waits(pc[u], conn'[pc[u].c]))
  OBVIOUS
<1>13. pc' = Notified(pc, V, ops) /\ (closed' => \A c \in Conns : conn'[c].eng \in Absent)
  BY <1>2, <1>11
<1> HIDE DEF V
<1> QED BY <1>12, <1>13, <1>3, <1>4, <1>6, <1>7, <1>8, <1>9, <1>10, <1>11, StepKeeps

\* A step of one thread that changes nothing but its own call.
LEMMA OwnStep ==
  ASSUME IInv, NEW t \in Threads,
         NEW p \in PcType, PcOK(p), p.op # "self_lock", pc[t].op = "notify" => p.op = "notify",
         p.asleep => Waits(p, conn[p.c]) /\ Idling(p, backlog, non_utp, closed, FALSE),
         p.c \in Conns => conn[p.c].eng # "None",
         p.op \in {"recv", "send"} => p.c \in held,
         pc' = [pc EXCEPT ![t] = p],
         UNCHANGED <<conn, held, backlog, non_utp, closed, reader>>,
         pc[t].c \in Conns /\ Open(conn[pc[t].c]) => p.c = pc[t].c \/ pc[t].c \in held
  PROVE  IInv'
<1>1. /\ conn' \in [Conns -> ConnType] /\ \A c \in Conns : ConnOK(conn'[c])
      /\ held' \subseteq {c \in Conns : conn'[c].eng # "None"}
      /\ backlog' \in Seq({c \in Conns : conn'[c].eng # "None"})
      /\ non_utp' \in Nat
  BY DEF IInv, Structure
<1>2. \A c \in Conns : Evolves(conn[c], conn'[c], c \in {})
  BY DEF Evolves, Quiet
<1>3. pc' = Notified([pc EXCEPT ![t] = p], {}, {})
  <2>1. [pc EXCEPT ![t] = p] \in [Threads -> PcType]
    BY DEF IInv, Structure
  <2> QED BY <2>1, NobodyNotified
<1>4. \A u \in Threads \ {t} : pc[u].op \in {"recv", "send"} => pc[u].c \in held'
  BY DEF IInv, Structure
<1>5. closed => \A c \in Conns : conn'[c].eng \in Absent
  BY DEF IInv, Structure
<1>6. \A c \in Conns : Open(conn'[c]) => Open(conn[c]) \/ p.c = c
  OBVIOUS
<1>7. \A c \in Conns : Open(conn'[c]) /\ (c \in held \/ \E i \in DOMAIN backlog : backlog[i] = c)
        => Owned(c, held', backlog', [pc EXCEPT ![t] = p])
  BY DEF Owned
<1> QED BY <1>1, <1>2, <1>3, <1>4, <1>5, <1>6, <1>7, ThreadStep

\* A step of one thread that changes its call and one connection.
LEMMA ConnStep ==
  ASSUME IInv, NEW t \in Threads,
         NEW p \in PcType, PcOK(p), p.op # "self_lock", pc[t].op # "notify",
         NEW c \in Conns, conn[c].eng # "None",
         NEW s \in ConnType, ConnOK(s), s.eng # "None",
         conn[c].eng \in Absent => s.eng \in Absent, Open(s) => Open(conn[c]),
         conn' = [conn EXCEPT ![c] = s],
         NEW W, c \in W \/ (Quiet(conn[c], s) /\ s.closed = conn[c].closed),
         pc' = Notified([pc EXCEPT ![t] = p], W, {}),
         p.asleep => Waits(p, conn'[p.c]) /\ Idling(p, backlog, non_utp, closed, FALSE),
         p.c \in Conns => conn[p.c].eng # "None",
         p.op \in {"recv", "send"} => p.c \in held,
         UNCHANGED <<held, backlog, non_utp, closed, reader>>,
         pc[t].c \in Conns /\ Open(conn'[pc[t].c]) => p.c = pc[t].c \/ pc[t].c \in held
  PROVE  IInv'
<1>1. conn \in [Conns -> ConnType]
  BY DEF IInv, Structure
<1>2. /\ conn' \in [Conns -> ConnType] /\ conn'[c] = s
      /\ \A d \in Conns \ {c} : conn'[d] = conn[d]
  BY <1>1
<1>3. \A d \in Conns : ConnOK(conn'[d])
  BY <1>2 DEF IInv, Structure
<1>4. {d \in Conns : conn[d].eng # "None"} = {d \in Conns : conn'[d].eng # "None"}
  BY <1>2
<1>5. /\ held' \subseteq {d \in Conns : conn'[d].eng # "None"}
      /\ backlog' \in Seq({d \in Conns : conn'[d].eng # "None"})
      /\ non_utp' \in Nat
  BY <1>4 DEF IInv, Structure
<1>6. \A d \in Conns : Evolves(conn[d], conn'[d], d \in W)
  <2> TAKE d \in Conns
  <2>1. CASE d = c
    BY <1>2, <2>1 DEF Evolves
  <2>2. CASE d # c
    BY <1>2, <2>2 DEF Evolves, Quiet
  <2> QED BY <2>1, <2>2
<1>7. \A u \in Threads \ {t} : pc[u].op \in {"recv", "send"} => pc[u].c \in held'
  BY DEF IInv, Structure
<1>8. closed => \A d \in Conns : conn'[d].eng \in Absent
  BY <1>2 DEF IInv, Structure
<1>9. \A d \in Conns : Open(conn'[d]) => Open(conn[d]) \/ p.c = d
  BY <1>2
<1>10. \A d \in Conns : Open(conn'[d]) /\ (d \in held \/ \E i \in DOMAIN backlog : backlog[i] = d)
        => Owned(d, held', backlog', [pc EXCEPT ![t] = p])
  BY DEF Owned
<1>11. p.c \in Conns => conn'[p.c].eng # "None"
  BY <1>2
<1>12. p.asleep => Waits(p, conn'[p.c]) /\ Idling(p, backlog', non_utp', closed, FALSE)
  OBVIOUS
<1> QED BY <1>2, <1>3, <1>5, <1>6, <1>7, <1>8, <1>9, <1>10, <1>11, <1>12, ThreadStep

-----------------------------------------------------------------------------
(* The calls. *)

\* What a step of a thread starts from, and the call it returns to.
LEMMA ThreadOK ==
  ASSUME IInv, NEW t \in Threads
  PROVE  /\ pc \in [Threads -> PcType] /\ PcOK(pc[t]) /\ conn \in [Conns -> ConnType]
         /\ \A c \in Conns : ConnOK(conn[c])
         /\ pc[t].c \in Conns => conn[pc[t].c].eng # "None"
         /\ pc[t].op \in {"recv", "send"} => pc[t].c \in Conns /\ pc[t].c \in held
         /\ Idle \in PcType /\ PcOK(Idle) /\ Idle.c \notin Conns /\ ~Idle.asleep
         /\ Idle.op = "idle"
BY ApiAssumption DEF IInv, Structure, Idle, PcType, PcOK, Ops

\* A call that becomes p while nobody is notified.
LEMMA BecomesSilently ==
  ASSUME IInv, NEW t \in Threads, NEW p \in PcType
  PROVE  [pc EXCEPT ![t] = p] = Notified([pc EXCEPT ![t] = p], {}, {})
<1>1. [pc EXCEPT ![t] = p] \in [Threads -> PcType]
  BY ThreadOK
<1> QED BY <1>1, NobodyNotified

LEMMA StartKeeps ==
  ASSUME IInv, NEW t \in Threads, Start(t)
  PROVE  IInv'
<1> SUFFICES ASSUME NEW op \in {"recv", "send", "connect", "accept", "recv_from", "shutdown", "close"},
                    NEW c \in Conns \cup {NoConn}, NEW timed \in BOOLEAN, Call(t, op, c, timed),
                    op \in {"recv", "send", "close"} => c \in held, c \in held \/ c = NoConn,
                    op \in {"accept", "recv_from", "shutdown"} => c = NoConn
             PROVE  IInv'
  BY DEF Start, IInv, Structure
<1>1. /\ In(op, c, timed) \in PcType /\ PcOK(In(op, c, timed)) /\ ~In(op, c, timed).asleep
      /\ In(op, c, timed).op = op /\ In(op, c, timed).c = c
  BY DEF In, PcType, PcOK, Ops, ConnOps, IInv, Structure
<1>2. c \in Conns => conn[c].eng # "None"
  BY ApiAssumption DEF IInv, Structure
<1>3. pc[t] = Idle /\ pc' = [pc EXCEPT ![t] = In(op, c, timed)]
  BY DEF Call
<1>4. UNCHANGED <<conn, held, backlog, non_utp, closed, reader>>
  BY DEF Call
<1> QED BY <1>1, <1>2, <1>3, <1>4, ThreadOK, OwnStep

\* A thread that goes to sleep in its call.
LEMMA SleptOK ==
  ASSUME IInv, NEW t \in Threads, pc[t].op = "connect" => pc[t].c \in Conns
  PROVE  LET p == [pc[t] EXCEPT !.asleep = TRUE] IN
         /\ p \in PcType /\ PcOK(p) /\ p.c = pc[t].c /\ p.op = pc[t].op
         /\ Slept(t) = [pc EXCEPT ![t] = p]
BY ThreadOK DEF PcType, PcOK, Slept

\* A call that returns and changes nothing else.
LEMMA ReturnKeeps ==
  ASSUME IInv, NEW t \in Threads, pc[t].op # "notify", pc' = Returned(t),
         UNCHANGED <<conn, held, backlog, non_utp, closed, reader>>,
         pc[t].c \in Conns /\ Open(conn[pc[t].c]) => pc[t].c \in held
  PROVE  IInv'
BY ThreadOK, OwnStep DEF Returned

\* A call that goes to sleep and changes nothing else.
LEMMA SleepKeeps ==
  ASSUME IInv, NEW t \in Threads, pc[t].op \notin {"notify", "self_lock"}, pc' = Slept(t),
         UNCHANGED <<conn, held, backlog, non_utp, closed, reader>>,
         pc[t].op = "connect" => pc[t].c \in Conns,
         Waits(pc[t], conn[pc[t].c]), Idling(pc[t], backlog, non_utp, closed, FALSE)
  PROVE  IInv'
<1> DEFINE p == [pc[t] EXCEPT !.asleep = TRUE]
<1>1. /\ p \in PcType /\ PcOK(p) /\ p.c = pc[t].c /\ p.op = pc[t].op
      /\ pc' = [pc EXCEPT ![t] = p]
  BY SleptOK
<1> HIDE DEF p
<1>2. Waits(p, conn[p.c]) /\ Idling(p, backlog, non_utp, closed, FALSE)
  BY <1>1 DEF Waits, Idling
<1> QED BY <1>1, <1>2, ThreadOK, OwnStep

LEMMA RecvKeeps ==
  ASSUME IInv, NEW t \in Threads, RecvTurn(t)
  PROVE  IInv'
<1> DEFINE c == pc[t].c
           r == conn[c]
<1>1. pc[t].op = "recv" /\ UNCHANGED <<held, backlog, non_utp, closed, reader>>
  BY DEF RecvTurn, Running
<1>2. c \in Conns /\ c \in held /\ r \in ConnType /\ ConnOK(r) /\ r.eng # "None"
  BY <1>1, ThreadOK
<1>3. CASE pc' = Returned(t) /\ UNCHANGED conn
  BY <1>1, <1>2, <1>3, ReturnKeeps
<1>4. ASSUME r.read_buf > 0, NEW n \in 1 .. r.read_buf, NEW refused \in BOOLEAN,
             conn' = [conn EXCEPT ![c] = Drained(r, n, refused)],
             pc' = Notified(Returned(t), IF refused THEN {c} ELSE {}, {})
      PROVE  IInv'
  <2> DEFINE s == Drained(r, n, refused)
             W == IF refused THEN {c} ELSE {}
  <2>1. r.read_buf - n \in Nat
    BY <1>2, <1>4 DEF ConnType
  <2>6. s = [r EXCEPT !.read_buf = r.read_buf - n, !.error = r.error \/ refused]
    BY <1>2 DEF Drained, ConnType
  <2>7. (r.error \/ refused) \in BOOLEAN /\ (~refused => (r.error \/ refused) = r.error)
    BY <1>2, <1>4, Zenon DEF ConnType
  <2> DEFINE e == r.error \/ refused
             b == r.read_buf - n
  <2>8. /\ s \in ConnType /\ s.eng = r.eng /\ s.closed = r.closed /\ s.fin = r.fin
        /\ s.destroyed = r.destroyed /\ s.undone = r.undone /\ s.error = e /\ s.read_buf = b
        /\ s.got_eof = r.got_eof /\ s.got_connect = r.got_connect
    <3>1. s = [r EXCEPT !.read_buf = b, !.error = e] /\ e \in BOOLEAN /\ b \in Nat
      BY <2>1, <2>6, <2>7
    <3> HIDE DEF e, b, s
    <3> QED BY <1>2, <3>1 DEF ConnType
  <2>2. /\ s \in ConnType /\ ConnOK(s) /\ s.eng = r.eng /\ s.closed = r.closed
        /\ ~refused => Quiet(r, s)
    <3>1. r.read_buf = 0 => b = 0
      BY <1>4
    <3>2. ~refused => e = r.error
      BY <2>7
    <3> HIDE DEF e, b, s
    <3> QED BY <1>2, <2>8, <3>1, <3>2 DEF ConnOK, Quiet
  <2>3. (r.eng \in Absent => s.eng \in Absent) /\ (Open(s) => Open(r))
    BY <2>2 DEF Open
  <2>4. c \in W \/ (Quiet(r, s) /\ s.closed = r.closed)
    BY <2>2
  <2>5. pc' = Notified([pc EXCEPT ![t] = Idle], W, {}) /\ conn' = [conn EXCEPT ![c] = s]
    BY <1>4 DEF Returned
  <2> HIDE DEF s, W
  <2> QED BY <1>1, <1>2, <2>2, <2>3, <2>4, <2>5, ThreadOK, ConnStep
<1>5. CASE r.read_buf = 0 /\ ~Over(r) /\ pc' = Slept(t) /\ UNCHANGED conn
  <2>1. Waits(pc[t], r) /\ Idling(pc[t], backlog, non_utp, closed, FALSE)
    BY <1>1, <1>5 DEF Waits, Idling
  <2> QED BY <1>1, <1>5, <2>1, SleepKeeps
<1>6. r.read_buf > 0 \/ r.read_buf = 0
  BY <1>2 DEF ConnType
<1> QED BY <1>3, <1>4, <1>5, <1>6 DEF RecvTurn

LEMMA SendKeeps ==
  ASSUME IInv, NEW t \in Threads, SendTurn(t)
  PROVE  IInv'
<1> DEFINE c == pc[t].c
           r == conn[c]
           refused == r.error \/ r.closed \/ r.destroyed
           writable == ~refused /\ r.eng = "Connected" /\ ~r.fin
<1>1. pc[t].op = "send" /\ UNCHANGED <<held, backlog, non_utp, closed, reader>>
  BY DEF SendTurn, Running
<1>2. c \in Conns /\ c \in held /\ r \in ConnType /\ ConnOK(r) /\ r.eng # "None"
  BY <1>1, ThreadOK
<1>3. CASE pc' = Returned(t) /\ UNCHANGED conn
  BY <1>1, <1>2, <1>3, ReturnKeeps
<1>4. ASSUME writable, NEW st \in Established, NEW e \in BOOLEAN,
             conn' = [conn EXCEPT ![c] = Taken(r, st, e)],
             pc' = Notified(Returned(t), IF e THEN {c} ELSE {}, {})
      PROVE  IInv'
  <2> DEFINE s == Taken(r, st, e)
             W == IF e THEN {c} ELSE {}
  <2>2. /\ s \in ConnType /\ ConnOK(s) /\ s.eng # "None" /\ s.closed = r.closed
        /\ ~e => Quiet(r, s)
    BY <1>2, <1>4 DEF ConnType, Engine, ConnOK, Quiet, Absent, Established, Taken
  <2>3. (r.eng \in Absent => s.eng \in Absent) /\ (Open(s) => Open(r))
    BY <1>2, <1>4, <2>2 DEF Open, Absent
  <2>4. c \in W \/ (Quiet(r, s) /\ s.closed = r.closed)
    BY <2>2
  <2>5. pc' = Notified([pc EXCEPT ![t] = Idle], W, {}) /\ conn' = [conn EXCEPT ![c] = s]
    BY <1>4 DEF Returned
  <2> HIDE DEF s, W
  <2> QED BY <1>1, <1>2, <2>2, <2>3, <2>4, <2>5, ThreadOK, ConnStep
<1>5. CASE writable /\ conn' = [conn EXCEPT ![c].eng = "ConnectedFull"] /\ pc' \in {Returned(t), Slept(t)}
  <2> DEFINE s == [r EXCEPT !.eng = "ConnectedFull"]
  <2>1. /\ s \in ConnType /\ ConnOK(s) /\ s.eng = "ConnectedFull" /\ s.closed = r.closed
        /\ Quiet(r, s) /\ ~s.error /\ ~s.closed /\ ~s.destroyed
    BY <1>2, <1>5 DEF ConnType, Engine, ConnOK, Quiet, Absent
  <2>2. conn' = [conn EXCEPT ![c] = s] /\ conn'[c] = s
    BY <1>2, <1>5, ThreadOK
  <2>3. (r.eng \in Absent => s.eng \in Absent) /\ (Open(s) => Open(r))
    BY <1>5 DEF Open, Absent
  <2> HIDE DEF s
  <2>4. CASE pc' = Returned(t)
    <3>1. pc' = Notified([pc EXCEPT ![t] = Idle], {}, {})
      BY <2>4, ThreadOK, BecomesSilently DEF Returned
    <3> QED BY <1>1, <1>2, <2>1, <2>2, <2>3, <3>1, ThreadOK, ConnStep
  <2>5. CASE pc' = Slept(t)
    <3> DEFINE p == [pc[t] EXCEPT !.asleep = TRUE]
    <3>1. /\ p \in PcType /\ PcOK(p) /\ p.c = c /\ p.op = "send"
          /\ pc' = [pc EXCEPT ![t] = p]
      BY <1>1, <2>5, SleptOK
    <3> HIDE DEF p
    <3>2. pc' = Notified([pc EXCEPT ![t] = p], {}, {})
      BY <3>1, BecomesSilently
    <3>3. Waits(p, conn'[p.c]) /\ Idling(p, backlog, non_utp, closed, FALSE)
      BY <2>1, <2>2, <3>1 DEF Waits, Idling
    <3>4. /\ p \in PcType /\ PcOK(p) /\ p.op # "self_lock" /\ pc[t].op # "notify" /\ p.c = pc[t].c
          /\ p.c \in held /\ (p.c \in Conns => conn[p.c].eng # "None")
      BY <1>1, <1>2, <3>1
    <3>5. s \in ConnType /\ ConnOK(s) /\ s.eng # "None" /\ conn' = [conn EXCEPT ![c] = s]
      BY <2>1, <2>2
    <3>6. c \in {} \/ (Quiet(conn[c], s) /\ s.closed = conn[c].closed)
      BY <2>1
    <3> QED BY <1>1, <1>2, <2>3, <3>2, <3>3, <3>4, <3>5, <3>6, ConnStep
  <2> QED BY <1>5, <2>4, <2>5
<1>6. CASE ~refused /\ ~writable /\ UNCHANGED conn /\ pc' = Slept(t)
  <2>1. r.eng # "Connected"
    BY <1>2, <1>6 DEF ConnOK
  <2>2. Waits(pc[t], r) /\ Idling(pc[t], backlog, non_utp, closed, FALSE)
    BY <1>1, <1>6, <2>1 DEF Waits, Idling
  <2> QED BY <1>1, <1>6, <2>2, SleepKeeps
<1> QED BY <1>3, <1>4, <1>5, <1>6 DEF SendTurn

\* connect creates a connection and holds it in its call.
LEMMA DialKeeps ==
  ASSUME IInv, NEW t \in Threads, Dial(t)
  PROVE  IInv'
<1>1. /\ pc[t].op = "connect" /\ pc[t].c = NoConn /\ NoConn \notin Conns /\ ~pc[t].asleep
      /\ UNCHANGED <<held, backlog, non_utp, closed, reader>>
  BY ApiAssumption DEF Dial, Running
<1>2. CASE closed
  BY <1>1, <1>2, ReturnKeeps DEF Dial
<1>3. CASE ~closed
  <2>1. PICK c \in Fresh, refused \in BOOLEAN :
          /\ conn' = [conn EXCEPT ![c] = [NewConn("SynSent") EXCEPT !.error = refused]]
          /\ IF refused \/ TimesOut(t) THEN pc' = [pc EXCEPT ![t].c = c]
             ELSE pc' = [pc EXCEPT ![t].c = c, ![t].asleep = TRUE]
    BY <1>3 DEF Dial
  <2> DEFINE s == [NewConn("SynSent") EXCEPT !.error = refused]
             p == IF refused \/ TimesOut(t) THEN [pc[t] EXCEPT !.c = c]
                  ELSE [pc[t] EXCEPT !.c = c, !.asleep = TRUE]
  <2>2. c \in Conns /\ conn[c].eng = "None"
    BY DEF Fresh
  <2>3. /\ s \in ConnType /\ ConnOK(s) /\ s.eng = "SynSent" /\ s.error = refused
        /\ ~s.got_connect /\ ~s.destroyed /\ ~s.closed
    BY DEF NewConn, ConnType, ConnOK, Engine, Absent
  <2>4. /\ p \in PcType /\ PcOK(p) /\ p.op = "connect" /\ p.c = c
        /\ p.asleep => ~refused
    BY <1>1, <2>2, ThreadOK DEF PcType, PcOK
  <2>5. pc' = [pc EXCEPT ![t] = p] /\ conn' = [conn EXCEPT ![c] = s]
    BY <2>1, ThreadOK
  <2> HIDE DEF p, s
  <2>6. /\ conn' \in [Conns -> ConnType] /\ conn'[c] = s /\ \A d \in Conns \ {c} : conn'[d] = conn[d]
    BY <2>2, <2>3, <2>5, ThreadOK
  <2>7. \A d \in Conns : ConnOK(conn'[d])
    BY <2>3, <2>6, ThreadOK
  <2>8. \A d \in Conns : Evolves(conn[d], conn'[d], d \in {})
    BY <2>2, <2>3, <2>6 DEF Evolves, Quiet
  <2>9. pc' = Notified([pc EXCEPT ![t] = p], {}, {})
    BY <2>4, <2>5, BecomesSilently
  <2>10. p.asleep => Waits(p, conn'[p.c]) /\ Idling(p, backlog', non_utp', closed, FALSE)
    BY <1>3, <2>3, <2>4, <2>6 DEF Waits, Idling
  <2>11. {d \in Conns : conn[d].eng # "None"} \subseteq {d \in Conns : conn'[d].eng # "None"}
    BY <2>6, <2>2
  <2>12. backlog' \in Seq({d \in Conns : conn'[d].eng # "None"})
    BY <1>1, <2>11, SeqMonotonic DEF IInv, Structure
  <2>13. held' \subseteq {d \in Conns : conn'[d].eng # "None"}
    BY <1>1, <2>11 DEF IInv, Structure
  <2>14. /\ \A u \in Threads \ {t} : pc[u].op \in {"recv", "send"} => pc[u].c \in held'
         /\ non_utp' \in Nat /\ closed' = closed /\ reader' = reader
         /\ backlog = <<>> => backlog' = <<>>
         /\ non_utp = 0 => non_utp' = 0
         /\ closed => \A d \in Conns : conn'[d].eng \in Absent
    BY <1>1, <1>3 DEF IInv, Structure
  <2>15. /\ \A d \in Conns : Open(conn'[d]) => Open(conn[d]) \/ p.c = d
         /\ p.c \in Conns => conn'[p.c].eng # "None"
    BY <2>3, <2>4, <2>6
  <2>16. \A d \in Conns : Open(conn'[d]) /\ (d \in held \/ \E i \in DOMAIN backlog : backlog[i] = d)
           => Owned(d, held', backlog', [pc EXCEPT ![t] = p])
    BY <1>1 DEF Owned
  <2>17. /\ p.op # "self_lock" /\ (pc[t].op = "notify" => p.op = "notify")
         /\ p.op \in {"recv", "send"} => p.c \in held'
         /\ pc[t].c \in Conns /\ Open(conn'[pc[t].c]) => p.c = pc[t].c \/ pc[t].c \in held'
    BY <1>1, <2>4
  <2> QED BY <2>4, <2>6, <2>7, <2>8, <2>9, <2>10, <2>12, <2>13, <2>14, <2>15, <2>16, <2>17, ThreadStep
<1> QED BY <1>2, <1>3

\* A call that closes its connection and returns, as close and a failed connect do.
LEMMA ClosesKeeps ==
  ASSUME IInv, NEW t \in Threads, pc[t].op # "notify", pc[t].c \in Conns,
         NEW s \in ConnType, ConnOK(s), s.closed \/ s.destroyed, s.eng # "None",
         conn[pc[t].c].eng \in Absent => s.eng \in Absent,
         conn' = [conn EXCEPT ![pc[t].c] = s],
         pc' = Notified(Returned(t), {pc[t].c}, {}),
         UNCHANGED <<held, backlog, non_utp, closed, reader>>
  PROVE  IInv'
<1> DEFINE c == pc[t].c
<1>1. ~Open(s)
  BY DEF Open, ConnOK, Absent
<1>2. conn'[c] = s /\ conn[c].eng # "None"
  BY ThreadOK
<1>3. pc' = Notified([pc EXCEPT ![t] = Idle], {c}, {})
  BY DEF Returned
<1>4. /\ c \in {c} \/ (Quiet(conn[c], s) /\ s.closed = conn[c].closed)
      /\ Open(s) => Open(conn[c])
      /\ pc[t].c \in Conns /\ Open(conn'[pc[t].c]) => Idle.c = pc[t].c \/ pc[t].c \in held
  BY <1>1, <1>2
<1>5. /\ Idle \in PcType /\ PcOK(Idle) /\ Idle.op # "self_lock"
      /\ Idle.asleep => Waits(Idle, conn'[Idle.c]) /\ Idling(Idle, backlog, non_utp, closed, FALSE)
      /\ Idle.c \in Conns => conn[Idle.c].eng # "None"
      /\ Idle.op \in {"recv", "send"} => Idle.c \in held
  BY ThreadOK
<1> QED BY <1>2, <1>3, <1>4, <1>5, ConnStep

LEMMA CloseKeeps ==
  ASSUME IInv, NEW t \in Threads, CloseTurn(t)
  PROVE  IInv'
<1> DEFINE c == pc[t].c
           s == close_locked(conn[c])
<1>1. /\ pc[t].op = "close" /\ c \in Conns
      /\ UNCHANGED <<held, backlog, non_utp, closed, reader>>
      /\ pc' = Notified(Returned(t), {c}, {})
  BY ThreadOK DEF CloseTurn, Running, PcOK
<1>2. conn[c] \in ConnType /\ ConnOK(conn[c]) /\ conn[c].eng # "None"
  BY <1>1, ThreadOK
<1>3. /\ s \in ConnType /\ ConnOK(s) /\ s.closed /\ s.eng # "None"
      /\ conn[c].eng \in Absent => s.eng \in Absent
  BY <1>2, CloseLockedOK DEF ConnOK
<1>4. conn' = [conn EXCEPT ![c] = s]
  BY DEF CloseTurn
<1> HIDE DEF s
<1> QED BY <1>1, <1>3, <1>4, ClosesKeeps

\* A step of one thread that moves handles and datagrams about and leaves the
\* connections alone.
LEMMA HandsStep ==
  ASSUME IInv, NEW t \in Threads, pc[t].op # "notify",
         NEW p \in PcType, PcOK(p), p.op \notin {"self_lock", "recv", "send"}, ~p.asleep,
         p.c \in Conns => conn[p.c].eng # "None",
         pc' = [pc EXCEPT ![t] = p],
         UNCHANGED <<conn, closed, reader>>,
         \A u \in Threads \ {t} : pc[u].op \in {"recv", "send"} => pc[u].c \in held',
         held' \subseteq {c \in Conns : conn[c].eng # "None"},
         backlog' \in Seq({c \in Conns : conn[c].eng # "None"}),
         backlog = <<>> => backlog' = <<>>,
         non_utp' \in Nat, non_utp = 0 => non_utp' = 0,
         \A c \in Conns : Open(conn[c]) /\ (c \in held \/ \E i \in DOMAIN backlog : backlog[i] = c)
           => Owned(c, held', backlog', [pc EXCEPT ![t] = p]),
         pc[t].c \in Conns /\ Open(conn[pc[t].c]) => p.c = pc[t].c \/ pc[t].c \in held'
  PROVE  IInv'
<1>1. /\ conn' \in [Conns -> ConnType] /\ \A c \in Conns : ConnOK(conn'[c])
      /\ held' \subseteq {c \in Conns : conn'[c].eng # "None"}
      /\ backlog' \in Seq({c \in Conns : conn'[c].eng # "None"})
      /\ p.c \in Conns => conn'[p.c].eng # "None"
  BY DEF IInv, Structure
<1>2. \A c \in Conns : Evolves(conn[c], conn'[c], c \in {})
  BY DEF Evolves, Quiet
<1>3. pc' = Notified([pc EXCEPT ![t] = p], {}, {})
  BY BecomesSilently
<1>4. closed => \A c \in Conns : conn'[c].eng \in Absent
  BY DEF IInv, Structure
<1>5. \A c \in Conns : Open(conn'[c]) => Open(conn[c]) \/ p.c = c
  OBVIOUS
<1>6. \A c \in Conns : Open(conn'[c]) /\ (c \in held \/ \E i \in DOMAIN backlog : backlog[i] = c)
        => Owned(c, held', backlog', [pc EXCEPT ![t] = p])
  OBVIOUS
<1>7. /\ p.op # "self_lock" /\ (pc[t].op = "notify" => p.op = "notify")
      /\ p.asleep => Waits(p, conn'[p.c]) /\ Idling(p, backlog', non_utp', closed, FALSE)
      /\ p.op \in {"recv", "send"} => p.c \in held'
      /\ pc[t].c \in Conns /\ Open(conn'[pc[t].c]) => p.c = pc[t].c \/ pc[t].c \in held'
  OBVIOUS
<1> QED BY <1>1, <1>2, <1>3, <1>4, <1>5, <1>6, <1>7, ThreadStep

LEMMA ConnectKeeps ==
  ASSUME IInv, NEW t \in Threads, ConnectTurn(t)
  PROVE  IInv'
<1> DEFINE c == pc[t].c
           r == conn[c]
<1>1. /\ pc[t].op = "connect" /\ c \in Conns
      /\ UNCHANGED <<backlog, non_utp, closed, reader>>
  BY ThreadOK DEF ConnectTurn, Running, PcType
<1>2. r \in ConnType /\ ConnOK(r) /\ r.eng # "None"
  BY <1>1, ThreadOK
<1>3. CASE Fails(t, c, close_locked(r))
  <2> DEFINE s == close_locked(r)
  <2>1. /\ s \in ConnType /\ ConnOK(s) /\ s.closed /\ s.eng # "None"
        /\ r.eng \in Absent => s.eng \in Absent
    BY <1>2, CloseLockedOK DEF ConnOK
  <2>2. /\ pc' = Notified(Returned(t), {c}, {}) /\ conn' = [conn EXCEPT ![c] = s]
        /\ UNCHANGED held
    BY <1>3, <2>1 DEF Fails
  <2> HIDE DEF s
  <2> QED BY <1>1, <2>1, <2>2, ClosesKeeps
<1>4. CASE r.got_connect /\ pc' = Returned(t) /\ held' = held \cup {c} /\ UNCHANGED conn
  <2>1. held' \subseteq {d \in Conns : conn[d].eng # "None"}
    BY <1>1, <1>2, <1>4 DEF IInv, Structure
  <2>2. \A u \in Threads \ {t} : pc[u].op \in {"recv", "send"} => pc[u].c \in held'
    BY <1>4 DEF IInv, Structure
  <2>3. /\ backlog' \in Seq({d \in Conns : conn[d].eng # "None"}) /\ (backlog = <<>> => backlog' = <<>>)
        /\ non_utp' \in Nat /\ (non_utp = 0 => non_utp' = 0)
    BY <1>1 DEF IInv, Structure
  <2>4. \A d \in Conns : Open(conn[d]) /\ (d \in held \/ \E i \in DOMAIN backlog : backlog[i] = d)
          => Owned(d, held', backlog', [pc EXCEPT ![t] = Idle])
    BY <1>1, <1>4 DEF Owned
  <2>5. /\ Idle \in PcType /\ PcOK(Idle) /\ Idle.op \notin {"self_lock", "recv", "send"} /\ ~Idle.asleep
        /\ Idle.c \in Conns => conn[Idle.c].eng # "None"
        /\ pc' = [pc EXCEPT ![t] = Idle]
    BY <1>4, ThreadOK DEF Returned
  <2> QED BY <1>1, <1>4, <2>1, <2>2, <2>3, <2>4, <2>5, HandsStep
<1>5. CASE (r.destroyed \/ r.closed \/ closed) /\ Fails(t, c, r)
  <2>1. r.destroyed \/ r.closed
    BY <1>1, <1>2, <1>5 DEF IInv, Structure, ConnOK, Absent
  <2>2. /\ pc' = Notified(Returned(t), {c}, {}) /\ conn' = [conn EXCEPT ![c] = r]
        /\ UNCHANGED held
    BY <1>5, <2>1 DEF Fails
  <2> QED BY <1>1, <1>2, <2>1, <2>2, ClosesKeeps
<1>6. CASE /\ ~(r.error \/ r.got_connect \/ r.destroyed \/ r.closed \/ closed)
           /\ pc' = Slept(t) /\ UNCHANGED <<conn, held>>
  <2>1. Waits(pc[t], r) /\ Idling(pc[t], backlog, non_utp, closed, FALSE)
    BY <1>1, <1>6 DEF Waits, Idling
  <2> QED BY <1>1, <1>6, <2>1, SleepKeeps
<1> QED BY <1>3, <1>4, <1>5, <1>6 DEF ConnectTurn

LEMMA AcceptKeeps ==
  ASSUME IInv, NEW t \in Threads, AcceptTurn(t)
  PROVE  IInv'
<1> DEFINE Made == {d \in Conns : conn[d].eng # "None"}
<1>1. pc[t].op = "accept" /\ pc[t].c \notin Conns /\ UNCHANGED <<conn, non_utp, closed, reader>>
  BY ThreadOK, ApiAssumption DEF AcceptTurn, Running, PcOK
<1>2. CASE backlog # <<>>
  <2>1. /\ held' = held \cup {Head(backlog)} /\ backlog' = Tail(backlog)
        /\ pc' = [pc EXCEPT ![t] = Idle]
    BY <1>2 DEF AcceptTurn, Returned
  <2>2. backlog \in Seq(Made) /\ held \subseteq Made /\ non_utp' \in Nat
    BY <1>1 DEF IInv, Structure
  <2>3. /\ Head(backlog) \in Made /\ backlog' \in Seq(Made) /\ held' \subseteq Made
    BY <1>2, <2>1, <2>2, HeadTailProperties
  <2>4. \A d \in Conns : (d \in held \/ \E i \in DOMAIN backlog : backlog[i] = d)
          => d \in held' \/ \E i \in DOMAIN backlog' : backlog'[i] = d
    <3> SUFFICES ASSUME NEW i \in DOMAIN backlog
                 PROVE  backlog[i] \in held' \/ \E j \in DOMAIN backlog' : backlog'[j] = backlog[i]
      BY <2>1
    <3>1. /\ Len(backlog) \in Nat /\ i \in 1 .. Len(backlog) /\ DOMAIN backlog' = 1 .. Len(backlog')
          /\ Len(backlog') = Len(backlog) - 1
          /\ \A j \in 1 .. Len(backlog') : backlog'[j] = backlog[j + 1]
      BY <1>2, <2>1, <2>2, <2>3, HeadTailProperties, LenProperties
    <3>2. CASE i = 1
      BY <2>1, <3>2
    <3>3. CASE i # 1
      <4>1. i - 1 \in DOMAIN backlog' /\ (i - 1) + 1 = i
        BY <3>1, <3>3
      <4> QED BY <3>1, <4>1
    <3> QED BY <3>2, <3>3
  <2>5. \A u \in Threads \ {t} : pc[u].op \in {"recv", "send"} => pc[u].c \in held'
    BY <2>1 DEF IInv, Structure
  <2>6. \A d \in Conns : Open(conn[d]) /\ (d \in held \/ \E i \in DOMAIN backlog : backlog[i] = d)
          => Owned(d, held', backlog', [pc EXCEPT ![t] = Idle])
    BY <2>4 DEF Owned
  <2>7. /\ Idle \in PcType /\ PcOK(Idle) /\ Idle.op \notin {"self_lock", "recv", "send"} /\ ~Idle.asleep
        /\ Idle.c \in Conns => conn[Idle.c].eng # "None"
    BY ThreadOK
  <2> QED BY <1>1, <1>2, <2>1, <2>2, <2>3, <2>5, <2>6, <2>7, HandsStep
<1>3. CASE backlog = <<>> /\ pc' = Returned(t) /\ UNCHANGED <<held, backlog>>
  BY <1>1, <1>3, ReturnKeeps
<1>4. CASE backlog = <<>> /\ ~closed /\ pc' = Slept(t) /\ UNCHANGED <<held, backlog>>
  <2>1. Waits(pc[t], conn[pc[t].c]) /\ Idling(pc[t], backlog, non_utp, closed, FALSE)
    BY <1>1, <1>4 DEF Waits, Idling
  <2> QED BY <1>1, <1>4, <2>1, SleepKeeps
<1> QED BY <1>2, <1>3, <1>4 DEF AcceptTurn

LEMMA RecvFromKeeps ==
  ASSUME IInv, NEW t \in Threads, RecvFromTurn(t)
  PROVE  IInv'
<1>1. /\ pc[t].op = "recv_from" /\ pc[t].c \notin Conns
      /\ UNCHANGED <<conn, held, backlog, closed, reader>>
  BY ThreadOK, ApiAssumption DEF RecvFromTurn, Running, PcOK
<1>2. CASE non_utp > 0 /\ non_utp' = non_utp - 1 /\ pc' = Returned(t)
  <2>1. non_utp' \in Nat /\ (non_utp = 0 => non_utp' = 0)
    BY <1>2 DEF IInv, Structure
  <2>2. /\ \A u \in Threads \ {t} : pc[u].op \in {"recv", "send"} => pc[u].c \in held'
        /\ held' \subseteq {d \in Conns : conn[d].eng # "None"}
        /\ backlog' \in Seq({d \in Conns : conn[d].eng # "None"}) /\ (backlog = <<>> => backlog' = <<>>)
    BY <1>1 DEF IInv, Structure
  <2>3. \A d \in Conns : Open(conn[d]) /\ (d \in held \/ \E i \in DOMAIN backlog : backlog[i] = d)
          => Owned(d, held', backlog', [pc EXCEPT ![t] = Idle])
    BY <1>1 DEF Owned
  <2>4. /\ Idle \in PcType /\ PcOK(Idle) /\ Idle.op \notin {"self_lock", "recv", "send"} /\ ~Idle.asleep
        /\ Idle.c \in Conns => conn[Idle.c].eng # "None"
        /\ pc' = [pc EXCEPT ![t] = Idle]
    BY <1>2, ThreadOK DEF Returned
  <2> QED BY <1>1, <2>1, <2>2, <2>3, <2>4, HandsStep
<1>3. CASE non_utp = 0 /\ pc' = Returned(t) /\ UNCHANGED non_utp
  BY <1>1, <1>3, ReturnKeeps
<1>4. CASE non_utp = 0 /\ ~closed /\ pc' = Slept(t) /\ UNCHANGED non_utp
  <2>1. Waits(pc[t], conn[pc[t].c]) /\ Idling(pc[t], backlog, non_utp, closed, FALSE)
    BY <1>1, <1>4 DEF Waits, Idling
  <2> QED BY <1>1, <1>4, <2>1, SleepKeeps
<1>5. non_utp > 0 \/ non_utp = 0
  BY DEF IInv, Structure
<1> QED BY <1>2, <1>3, <1>4, <1>5 DEF RecvFromTurn

LEMMA DropKeeps ==
  ASSUME IInv, NEW t \in Threads, NEW c \in held, Drop(t, c)
  PROVE  IInv'
<1> DEFINE p == IF conn[c].closed \/ conn[c].destroyed THEN Idle ELSE In("close", c, FALSE)
<1>1. /\ pc[t] = Idle /\ pc[t].c \notin Conns /\ pc[t].op = "idle" /\ held' = held \ {c}
      /\ \A u \in Threads : pc[u].c # c
      /\ UNCHANGED <<conn, backlog, non_utp, closed, reader>>
  BY ThreadOK DEF Drop
<1>2. c \in Conns /\ conn[c].eng # "None" /\ ConnOK(conn[c])
  BY ThreadOK DEF IInv, Structure
<1>3. /\ p \in PcType /\ PcOK(p) /\ p.op \notin {"self_lock", "recv", "send"} /\ ~p.asleep
      /\ p.c \in {NoConn, c} /\ (Open(conn[c]) => p.c = c)
  <2>1. CASE conn[c].closed \/ conn[c].destroyed
    BY <1>2, <2>1, ThreadOK DEF Open, ConnOK, Absent, Idle
  <2>2. CASE ~(conn[c].closed \/ conn[c].destroyed)
    BY <1>2, <2>2 DEF In, PcType, PcOK, Ops
  <2> QED BY <2>1, <2>2
<1>4. p.c \in Conns => conn[p.c].eng # "None"
  BY <1>2, <1>3, ApiAssumption
<1>5. pc' = [pc EXCEPT ![t] = p]
  BY <1>1, ThreadOK DEF Drop
<1> HIDE DEF p
<1>6. /\ \A u \in Threads \ {t} : pc[u].op \in {"recv", "send"} => pc[u].c \in held'
      /\ held' \subseteq {d \in Conns : conn[d].eng # "None"}
      /\ backlog' \in Seq({d \in Conns : conn[d].eng # "None"}) /\ (backlog = <<>> => backlog' = <<>>)
      /\ non_utp' \in Nat /\ (non_utp = 0 => non_utp' = 0)
  BY <1>1 DEF IInv, Structure
<1>7. [pc EXCEPT ![t] = p][t] = p
  BY ThreadOK
<1>8. \A d \in Conns : Open(conn[d]) /\ (d \in held \/ \E i \in DOMAIN backlog : backlog[i] = d)
        => Owned(d, held', backlog', [pc EXCEPT ![t] = p])
  BY <1>1, <1>3, <1>7 DEF Owned
<1> QED BY <1>1, <1>3, <1>4, <1>5, <1>6, <1>8, HandsStep

LEMMA ExpireKeeps ==
  ASSUME IInv, NEW t \in Threads, Expire(t)
  PROVE  IInv'
<1> DEFINE p == [pc[t] EXCEPT !.late = TRUE, !.asleep = FALSE]
<1>1. /\ p \in PcType /\ PcOK(p) /\ p.op = pc[t].op /\ p.c = pc[t].c /\ ~p.asleep
      /\ pc' = [pc EXCEPT ![t] = p]
  BY ThreadOK DEF PcType, PcOK, Expire
<1>2. pc[t].op # "self_lock"
  BY DEF IInv, NoSelfDeadlock, MutexFree
<1>3. UNCHANGED <<conn, held, backlog, non_utp, closed, reader>>
  BY DEF Expire
<1> HIDE DEF p
<1> QED BY <1>1, <1>2, <1>3, ThreadOK, OwnStep

\* Shared::close, in the hands of a thread or of the reader: every connection goes
\* and everyone who waits for one is notified; accept and recv_from are not yet,
\* but whoever closed is about to (Notifying).
LEMMA ShutdownKeeps ==
  ASSUME IInv, Shutdown, UNCHANGED held, Notifying',
         NEW pcs \in [Threads -> PcType], pc' = Notified(pcs, Removed, {}),
         \A u \in Threads : PcOK(pcs[u]) /\ pcs[u].op # "self_lock" /\ pcs[u].c = pc[u].c,
         \A u \in Threads : pcs[u] = pc[u] \/ ~pcs[u].asleep,
         \A u \in Threads : pcs[u].op \in {"recv", "send"} => pcs[u].c \in held
  PROVE  IInv'
<1>1. conn' = [c \in Conns |-> destroy_sock(conn[c])] /\ backlog' = <<>> /\ non_utp' = 0 /\ closed' = TRUE
  BY DEF Shutdown
<1>2. ASSUME NEW c \in Conns
      PROVE  /\ conn'[c] \in ConnType /\ ConnOK(conn'[c]) /\ conn'[c].eng \in Absent
             /\ Evolves(conn[c], conn'[c], c \in Removed)
             /\ conn[c].eng # "None" => conn'[c].eng # "None"
  <2> DEFINE r == conn[c]
  <2>1. r \in ConnType /\ ConnOK(r) /\ conn'[c] = destroy_sock(r)
    BY <1>1 DEF IInv, Structure
  <2>2. CASE r.eng \in Absent
    BY <2>1, <2>2 DEF destroy_sock, Evolves, Quiet
  <2>3. CASE r.eng \notin Absent
    BY <2>1, <2>3 DEF destroy_sock, Evolves, Removed, ConnOK, ConnType, Engine, Absent
  <2> QED BY <2>2, <2>3
<1> DEFINE W == Removed
           none == {}
<1>3. conn' \in [Conns -> ConnType] /\ \A c \in Conns : ConnOK(conn'[c])
  BY <1>1, <1>2
<1>4. \A c \in Conns : Evolves(conn[c], conn'[c], c \in W)
  BY <1>2
<1>5. \A u \in Threads : pcs[u] = pc[u] \/ (pcs[u].asleep => Waits(pcs[u], conn'[pcs[u].c]))
  OBVIOUS
<1>6. /\ \A u \in Threads : pcs[u].c \in Conns => conn'[pcs[u].c].eng # "None"
      /\ held' \subseteq {c \in Conns : conn'[c].eng # "None"}
      /\ backlog' \in Seq({c \in Conns : conn'[c].eng # "None"})
      /\ \A u \in Threads : pcs[u].op \in {"recv", "send"} => pcs[u].c \in held'
  BY <1>1, <1>2 DEF IInv, Structure
<1>7. /\ non_utp' \in Nat /\ closed' \in BOOLEAN /\ (closed' => \A c \in Conns : conn'[c].eng \in Absent)
  BY <1>1, <1>2
<1>8. \A u \in Threads :
        pcs[u].asleep /\ pcs[u].op \notin none /\ (pcs[u].op = "connect" => pcs[u].c \notin W)
          => Idling(pcs[u], backlog', non_utp', closed', Notifying')
  <2> SUFFICES ASSUME NEW u \in Threads, pcs[u].asleep, pcs[u].op = "connect" => pcs[u].c \notin Removed
               PROVE  Idling(pcs[u], backlog', non_utp', closed', Notifying')
    OBVIOUS
  <2>1. pcs[u].op # "connect"
    <3> SUFFICES ASSUME pcs[u].op = "connect" PROVE FALSE
      OBVIOUS
    <3>1. pcs[u] = pc[u] /\ pc[u].c \in Conns /\ conn[pc[u].c].eng # "None"
      BY DEF IInv, Structure, PcOK
    <3>2. ConnOK(conn[pc[u].c]) /\ ~conn[pc[u].c].destroyed
      BY <3>1 DEF IInv, Structure, NoLostWakeup
    <3> QED BY <3>1, <3>2 DEF ConnOK, Removed, Absent
  <2> QED BY <1>1, <2>1 DEF Idling
<1>9. \A c \in Conns : conn'[c].eng \notin Absent /\ ~conn'[c].closed => Owned(c, held', backlog', pcs)
  BY <1>2
<1>10. \A u \in Threads : PcOK(pcs[u]) /\ pcs[u].op # "self_lock"
  OBVIOUS
<1>11. pc' = Notified(pcs, W, none)
  OBVIOUS
<1> HIDE DEF W, none
<1> QED BY <1>3, <1>4, <1>5, <1>6, <1>7, <1>8, <1>9, <1>10, <1>11, StepKeeps, ZenonT(40)

LEMMA ShutdownTurnKeeps ==
  ASSUME IInv, NEW t \in Threads, ShutdownTurn(t)
  PROVE  IInv'
<1>1. pc[t].op = "shutdown" /\ pc[t].c \notin Conns /\ UNCHANGED <<held, reader>>
  BY ThreadOK, ApiAssumption DEF ShutdownTurn, Running, PcOK
<1>2. CASE closed
  BY <1>1, <1>2, ReturnKeeps DEF ShutdownTurn
<1>3. CASE ~closed
  <2> DEFINE pcs == [pc EXCEPT ![t].op = "notify"]
  <2>1. Shutdown /\ pc' = Notified(pcs, Removed, {})
    BY <1>3 DEF ShutdownTurn
  <2>2. /\ pcs \in [Threads -> PcType] /\ \A u \in Threads \ {t} : pcs[u] = pc[u]
        /\ pcs[t].op = "notify" /\ pcs[t].c = pc[t].c /\ pcs[t].asleep = pc[t].asleep
        /\ PcOK(pcs[t])
    BY <1>1, ThreadOK DEF PcType, PcOK, Ops
  <2>3. ~pc[t].asleep
    BY DEF ShutdownTurn, Running
  <2> HIDE DEF pcs
  <2>4. /\ \A u \in Threads : PcOK(pcs[u]) /\ pcs[u].op # "self_lock" /\ pcs[u].c = pc[u].c
        /\ \A u \in Threads : pcs[u] = pc[u] \/ ~pcs[u].asleep
        /\ \A u \in Threads : pcs[u].op \in {"recv", "send"} => pcs[u].c \in held
    BY <2>2, <2>3 DEF IInv, Structure, NoSelfDeadlock, MutexFree
  <2>5. Notifying'
    <3>1. pc'[t].op = pcs[t].op
      BY <2>1, <2>2, NotifiedOK
    <3> QED BY <2>2, <3>1 DEF Notifying
  <2> QED BY <1>1, <2>1, <2>2, <2>4, <2>5, ShutdownKeeps
<1> QED BY <1>2, <1>3

\* The notify_all of Shared::close, after its critical section: from now on nobody
\* sleeps in accept or recv_from on a closed socket.
LEMMA AnnounceKeeps ==
  ASSUME IInv, UNCHANGED <<conn, held, backlog, non_utp, closed>>,
         NEW pcs \in [Threads -> PcType], pc' = Notified(pcs, {}, CloseConds),
         \A u \in Threads : pcs[u] = pc[u] \/ (pcs[u] = Idle /\ pc[u].c \notin Conns)
  PROVE  IInv'
<1>1. /\ conn' \in [Conns -> ConnType] /\ \A c \in Conns : ConnOK(conn'[c])
      /\ held' \subseteq {c \in Conns : conn'[c].eng # "None"}
      /\ backlog' \in Seq({c \in Conns : conn'[c].eng # "None"})
      /\ non_utp' \in Nat /\ closed' \in BOOLEAN
      /\ closed' => \A c \in Conns : conn'[c].eng \in Absent
  BY DEF IInv, Structure
<1>2. \A c \in Conns : Evolves(conn[c], conn'[c], c \in {})
  BY DEF Evolves, Quiet
<1>3. \A u \in Threads : /\ PcOK(pcs[u]) /\ pcs[u].op # "self_lock"
                         /\ pcs[u] = pc[u] \/ (pcs[u].asleep => Waits(pcs[u], conn'[pcs[u].c]))
                         /\ pcs[u].c \in Conns => conn'[pcs[u].c].eng # "None"
                         /\ pcs[u].op \in {"recv", "send"} => pcs[u].c \in held'
                         /\ pcs[u].asleep => pcs[u] = pc[u]
  BY ThreadOK DEF IInv, Structure, NoSelfDeadlock, MutexFree
<1>4. \A u \in Threads :
        pcs[u].asleep /\ pcs[u].op \notin CloseConds /\ (pcs[u].op = "connect" => pcs[u].c \notin {})
          => Idling(pcs[u], backlog', non_utp', closed', Notifying')
  BY <1>3 DEF IInv, NoLostWakeup, Idling, CloseConds
<1>5. \A c \in Conns : conn'[c].eng \notin Absent /\ ~conn'[c].closed => Owned(c, held', backlog', pcs)
  <2> SUFFICES ASSUME NEW c \in Conns, conn[c].eng \notin Absent, ~conn[c].closed
               PROVE  Owned(c, held', backlog', pcs)
    OBVIOUS
  <2>1. c \in held \/ (\E i \in DOMAIN backlog : backlog[i] = c) \/ \E u \in Threads : pc[u].c = c
    BY DEF IInv, NoForgottenConn
  <2> QED BY <2>1 DEF Owned
<1> QED BY <1>1, <1>2, <1>3, <1>4, <1>5, StepKeeps

LEMMA NotifyTurnKeeps ==
  ASSUME IInv, NEW t \in Threads, NotifyTurn(t)
  PROVE  IInv'
<1>1. /\ pc[t].op = "notify" /\ pc[t].c \notin Conns
      /\ pc' = Notified(Returned(t), {}, CloseConds)
      /\ UNCHANGED <<conn, held, backlog, non_utp, closed>>
  BY ThreadOK, ApiAssumption DEF NotifyTurn, Running, PcOK
<1>2. Returned(t) \in [Threads -> PcType]
  BY ThreadOK DEF Returned
<1>3. \A u \in Threads : Returned(t)[u] = pc[u] \/ (Returned(t)[u] = Idle /\ pc[u].c \notin Conns)
  BY <1>1, ThreadOK DEF Returned
<1> QED BY <1>1, <1>2, <1>3, AnnounceKeeps

-----------------------------------------------------------------------------
(* The reader. *)

\* The state the reader finds, and its backlog.
LEMMA ReaderOK ==
  ASSUME IInv
  PROVE  /\ conn \in [Conns -> ConnType] /\ \A c \in Conns : ConnOK(conn[c])
         /\ \A c \in Conns : Evolves(conn[c], conn[c], c \in {})
         /\ backlog \in Seq({c \in Conns : conn[c].eng # "None"})
         /\ \A i \in DOMAIN backlog : \E j \in DOMAIN backlog : backlog[j] = backlog[i]
         /\ non_utp \in Nat
BY DEF IInv, Structure, Evolves, Quiet

\* A timeout check and nothing else.
LEMMA CheckKeeps ==
  ASSUME IInv, ~closed, NEW f \in Checked(conn), NEW ops, Apply(f, {}, ops),
         UNCHANGED <<held, closed, backlog>>,
         non_utp' \in Nat, non_utp' = non_utp \/ "recv_from" \in ops
  PROVE  IInv'
<1>1. \A c \in Conns : Open(conn[c]) => Open(conn[c]) \/ \E j \in DOMAIN backlog' : backlog'[j] = c
  OBVIOUS
<1>2. backlog' \in Seq({c \in Conns : conn[c].eng # "None"}) /\ (backlog' = backlog \/ "accept" \in ops)
  BY ReaderOK
<1>3. \A i \in DOMAIN backlog : \E j \in DOMAIN backlog' : backlog'[j] = backlog[i]
  OBVIOUS
<1> QED BY <1>1, <1>2, <1>3, ReaderOK, EngineStep

LEMMA ForConnKeeps ==
  ASSUME IInv, ~closed, NEW c \in Conns, ForConn(c), UNCHANGED <<held, closed>>
  PROVE  IInv'
<1>1. PICK e \in Events(conn[c]) : \E f \in Checked([conn EXCEPT ![c] = e.r]) :
        /\ Apply(f, IF e.wake THEN {c} ELSE {}, {})
        /\ UNCHANGED <<backlog, non_utp>>
  BY DEF ForConn
<1>2. StepOK(conn[c], e) /\ e.r \in ConnType
  BY EventsOK, ReaderOK DEF StepOK, ConnOK
<1> DEFINE cs == [conn EXCEPT ![c] = e.r]
           W == IF e.wake THEN {c} ELSE {}
<1>3. cs \in [Conns -> ConnType] /\ cs[c] = e.r /\ \A d \in Conns \ {c} : cs[d] = conn[d]
  BY <1>2, ReaderOK
<1>4. PICK f \in Checked(cs) : Apply(f, W, {}) /\ UNCHANGED <<backlog, non_utp>>
  BY <1>1
<1>5. \A d \in Conns : Evolves(conn[d], cs[d], d \in W)
  <2> TAKE d \in Conns
  <2>1. CASE d = c
    BY <1>2, <1>3, <2>1 DEF StepOK, Evolves
  <2>2. CASE d # c
    BY <1>3, <2>2 DEF Evolves, Quiet
  <2> QED BY <2>1, <2>2
<1> HIDE DEF cs, W
<1>6. \A d \in Conns : ConnOK(cs[d])
  BY <1>2, <1>3, ReaderOK DEF StepOK
<1>7. \A d \in Conns : Open(cs[d]) => Open(conn[d]) \/ \E j \in DOMAIN backlog' : backlog'[j] = d
  BY <1>2, <1>3 DEF StepOK, Open
<1>8. {d \in Conns : conn[d].eng # "None"} = {d \in Conns : cs[d].eng # "None"}
  BY <1>2, <1>3 DEF StepOK
<1>9. /\ backlog' \in Seq({d \in Conns : cs[d].eng # "None"})
      /\ backlog' = backlog \/ "accept" \in {}
      /\ \A i \in DOMAIN backlog : \E j \in DOMAIN backlog' : backlog'[j] = backlog[i]
      /\ non_utp' \in Nat /\ (non_utp' = non_utp \/ "recv_from" \in {})
  BY <1>4, <1>8, ReaderOK
<1> QED BY <1>3, <1>4, <1>5, <1>6, <1>7, <1>9, EngineStep

\* A SYN: the new connection goes into the backlog or, when that is full, is
\* closed at once.
LEMMA SynKeeps ==
  ASSUME IInv, ~closed, Syn, UNCHANGED <<held, closed>>
  PROVE  IInv'
<1>1. PICK c \in Fresh : PushBacklog(c)
  BY DEF Syn
<1>2. c \in Conns /\ conn[c].eng = "None" /\ non_utp' \in Nat /\ non_utp' = non_utp
  BY ReaderOK DEF Fresh, Syn
<1>3. ASSUME NEW s \in ConnType, ConnOK(s), s.eng # "None", NEW ops,
             NEW f \in Checked([conn EXCEPT ![c] = s]), Apply(f, {}, ops),
             \/ backlog' = backlog /\ s.closed
             \/ backlog' = Append(backlog, c) /\ "accept" \in ops
      PROVE  IInv'
  <2> DEFINE cs == [conn EXCEPT ![c] = s]
             Made == {d \in Conns : cs[d].eng # "None"}
  <2>1. cs \in [Conns -> ConnType] /\ cs[c] = s /\ \A d \in Conns \ {c} : cs[d] = conn[d]
    BY <1>2, <1>3, ReaderOK
  <2>2. f \in Checked(cs)
    BY <1>3
  <2> HIDE DEF cs
  <2>3. \A d \in Conns : Evolves(conn[d], cs[d], d \in {})
    BY <1>2, <1>3, <2>1 DEF Evolves, Quiet
  <2>4. \A d \in Conns : ConnOK(cs[d])
    BY <1>3, <2>1, ReaderOK
  <2>5. backlog \in Seq(Made) /\ c \in Made
    <3>1. {d \in Conns : conn[d].eng # "None"} \subseteq Made /\ c \in Made
      BY <1>2, <1>3, <2>1
    <3> QED BY <3>1, ReaderOK, SeqMonotonic
  <2>6. /\ backlog' \in Seq(Made)
        /\ \A i \in DOMAIN backlog : \E j \in DOMAIN backlog' : backlog'[j] = backlog[i]
        /\ ~s.closed => \E j \in DOMAIN backlog' : backlog'[j] = c
    <3>1. CASE backlog' = backlog /\ s.closed
      BY <2>5, <3>1
    <3>2. CASE backlog' = Append(backlog, c)
      <4>1. /\ backlog' \in Seq(Made) /\ Len(backlog') = Len(backlog) + 1 /\ Len(backlog) \in Nat
            /\ \A i \in 1 .. Len(backlog) : backlog'[i] = backlog[i]
            /\ backlog'[Len(backlog) + 1] = c
            /\ DOMAIN backlog = 1 .. Len(backlog)
        BY <2>5, <3>2, AppendProperties, LenProperties
      <4>2. DOMAIN backlog' = 1 .. Len(backlog')
        BY <4>1, LenProperties
      <4> QED BY <4>1, <4>2
    <3> QED BY <1>3, <3>1, <3>2
  <2>7. \A d \in Conns : Open(cs[d]) => Open(conn[d]) \/ \E j \in DOMAIN backlog' : backlog'[j] = d
    BY <2>1, <2>6 DEF Open
  <2>8. (backlog' = backlog \/ "accept" \in ops) /\ (non_utp' = non_utp \/ "recv_from" \in ops)
    BY <1>2, <1>3
  <2> QED BY <1>2, <1>3, <2>1, <2>2, <2>3, <2>4, <2>6, <2>7, <2>8, EngineStep
<1>4. CASE Len(backlog) >= BACKLOG
  <2> DEFINE s == [close_engine(NewConn("SynRecv")) EXCEPT !.closed = TRUE]
  <2>1. s \in ConnType /\ ConnOK(s) /\ s.closed /\ s.eng # "None"
    BY DEF close_engine, NewConn, ConnType, ConnOK, Engine, Absent, Established
  <2>2. UNCHANGED backlog /\ \E f \in Checked([conn EXCEPT ![c] = s]) : Apply(f, {}, {})
    BY <1>1, <1>4 DEF PushBacklog
  <2> HIDE DEF s
  <2> QED BY <2>1, <2>2, <1>3
<1>5. CASE ~(Len(backlog) >= BACKLOG)
  <2> DEFINE s == NewConn("SynRecv")
  <2>1. s \in ConnType /\ ConnOK(s) /\ s.eng # "None"
    BY DEF NewConn, ConnType, ConnOK, Engine, Absent
  <2>2. backlog' = Append(backlog, c) /\ \E f \in Checked([conn EXCEPT ![c] = s]) : Apply(f, {}, {"accept"})
    BY <1>1, <1>5 DEF PushBacklog
  <2> HIDE DEF s
  <2> QED BY <2>1, <2>2, <1>3
<1> QED BY <1>4, <1>5

LEMMA NotUtpKeeps ==
  ASSUME IInv, ~closed, NotUtp, UNCHANGED <<held, closed>>
  PROVE  IInv'
<1>1. PICK f \in Checked(conn) :
        /\ IF non_utp < NON_UTP_BACKLOG
           THEN non_utp' = non_utp + 1 /\ Apply(f, {}, {"recv_from"})
           ELSE UNCHANGED non_utp /\ Apply(f, {}, {})
        /\ UNCHANGED backlog
  BY DEF NotUtp
<1>2. non_utp \in Nat /\ non_utp + 1 \in Nat
  BY ReaderOK
<1>3. CASE non_utp < NON_UTP_BACKLOG
  BY <1>1, <1>2, <1>3, CheckKeeps
<1>4. CASE ~(non_utp < NON_UTP_BACKLOG)
  BY <1>1, <1>2, <1>4, CheckKeeps
<1> QED BY <1>3, <1>4

\* The reader goes on to something else, or nothing happens.
LEMMA ReaderMoves ==
  ASSUME IInv, UNCHANGED <<conn, held, backlog, non_utp, closed, pc>>,
         reader # "notify" \/ reader' = reader
  PROVE  IInv'
<1>1. Structure' /\ NoSelfDeadlock' /\ NoForgottenConn'
  BY DEF IInv, Structure, NoSelfDeadlock, MutexFree, NoForgottenConn
<1>2. Notifying => Notifying'
  BY DEF Notifying
<1>3. NoLostWakeup'
  BY <1>2 DEF IInv, NoLostWakeup
<1> QED BY <1>1, <1>3 DEF IInv

LEMMA ReaderKeeps ==
  ASSUME IInv, ReaderDatagram \/ ReaderPolls \/ ReaderFails \/ ReaderCloses
  PROVE  IInv'
<1>1. CASE reader = "recv" /\ ReaderExits
  BY <1>1, ReaderMoves DEF ReaderExits
<1>2. CASE ReaderDatagram /\ ~ReaderExits
  <2>1. ~closed /\ UNCHANGED <<held, closed>> /\ ((\E c \in Conns : ForConn(c)) \/ Syn \/ NotUtp)
    BY <1>2 DEF ReaderDatagram
  <2> QED BY <2>1, ForConnKeeps, SynKeeps, NotUtpKeeps
<1>3. CASE (ReaderPolls \/ ReaderFails) /\ ~ReaderExits
  <2>1. ~closed /\ UNCHANGED <<held, backlog, non_utp, closed>> /\ reader = "recv"
    BY <1>3 DEF ReaderPolls, ReaderFails
  <2>2. (\E f \in Checked(conn) : Apply(f, {}, {})) \/ UNCHANGED <<conn, pc>>
    BY <1>3 DEF ReaderPolls, ReaderFails
  <2> QED BY <2>1, <2>2, CheckKeeps, ReaderOK, ReaderMoves
<1>4. CASE ReaderCloses
  <2>1. CASE Shutdown /\ pc' = Notified(pc, Removed, {}) /\ reader' = "notify" /\ UNCHANGED held
    <3>1. Notifying'
      BY <2>1 DEF Notifying
    <3>2. /\ pc \in [Threads -> PcType]
          /\ \A u \in Threads : PcOK(pc[u]) /\ pc[u].op # "self_lock" /\ pc[u].c = pc[u].c
          /\ \A u \in Threads : pc[u] = pc[u] \/ ~pc[u].asleep
          /\ \A u \in Threads : pc[u].op \in {"recv", "send"} => pc[u].c \in held
      BY DEF IInv, Structure, NoSelfDeadlock, MutexFree
    <3> QED BY <2>1, <3>1, <3>2, ShutdownKeeps
  <2>2. CASE reader = "close" /\ UNCHANGED <<conn, held, backlog, non_utp, closed, pc>>
    BY <2>2, ReaderMoves
  <2>3. CASE pc' = Notified(pc, {}, CloseConds) /\ UNCHANGED <<conn, held, backlog, non_utp, closed>>
    <3>1. /\ pc \in [Threads -> PcType]
          /\ \A u \in Threads : pc[u] = pc[u] \/ (pc[u] = Idle /\ pc[u].c \notin Conns)
      BY DEF IInv, Structure
    <3> QED BY <2>3, <3>1, AnnounceKeeps
  <2> QED BY <1>4, <2>1, <2>2, <2>3 DEF ReaderCloses
<1>5. ReaderDatagram \/ ReaderPolls \/ ReaderFails => reader = "recv"
  BY DEF ReaderDatagram, ReaderPolls, ReaderFails
<1> QED BY <1>1, <1>2, <1>3, <1>4, <1>5

-----------------------------------------------------------------------------
(* The theorems. *)

LEMMA InitIInv == Init => IInv
<1> SUFFICES ASSUME Init PROVE IInv
  OBVIOUS
<1>1. /\ NewConn("None") \in ConnType /\ ConnOK(NewConn("None")) /\ NewConn("None").eng = "None"
  BY DEF NewConn, ConnType, ConnOK, Engine, Absent
<1>2. /\ Idle \in PcType /\ PcOK(Idle) /\ ~Idle.asleep /\ Idle.op = "idle" /\ Idle.c \notin Conns
  BY ApiAssumption DEF Idle, PcType, PcOK, Ops
<1>3. /\ \A c \in Conns : conn[c] = NewConn("None")
      /\ \A t \in Threads : pc[t] = Idle
  BY DEF Init
<1>4. Structure
  <2>1. conn \in [Conns -> ConnType] /\ pc \in [Threads -> PcType]
    BY <1>1, <1>2 DEF Init
  <2>2. held = {} /\ backlog = <<>> /\ non_utp = 0 /\ closed = FALSE
    BY DEF Init
  <2>3. /\ \A c \in Conns : ConnOK(conn[c])
        /\ \A t \in Threads : PcOK(pc[t]) /\ pc[t].op = "idle" /\ pc[t].c \notin Conns
    BY <1>1, <1>2, <1>3
  <2>4. /\ held \subseteq {c \in Conns : conn[c].eng # "None"}
        /\ backlog \in Seq({c \in Conns : conn[c].eng # "None"})
    BY <2>2, EmptySeq
  <2> QED BY <2>1, <2>2, <2>3, <2>4 DEF Structure
<1>5. NoSelfDeadlock /\ NoLostWakeup
  BY <1>2, <1>3 DEF NoSelfDeadlock, MutexFree, NoLostWakeup
<1>6. NoForgottenConn
  BY <1>1, <1>3 DEF NoForgottenConn, Absent
<1> QED BY <1>4, <1>5, <1>6 DEF IInv

LEMMA NextIInv == IInv /\ [Next]_vars => IInv'
<1> SUFFICES ASSUME IInv, [Next]_vars PROVE IInv'
  OBVIOUS
<1>1. ASSUME NEW t \in Threads, Start(t) PROVE IInv'
  BY <1>1, StartKeeps
<1>2. ASSUME NEW t \in Threads, Turn(t) PROVE IInv'
  BY <1>2, RecvKeeps, SendKeeps, DialKeeps, ConnectKeeps, AcceptKeeps, RecvFromKeeps, CloseKeeps,
     ShutdownTurnKeeps, NotifyTurnKeeps DEF Turn
<1>3. ASSUME NEW t \in Threads, Expire(t) PROVE IInv'
  BY <1>3, ExpireKeeps
<1>4. ASSUME NEW t \in Threads, NEW c \in held, Drop(t, c) PROVE IInv'
  BY <1>4, DropKeeps
<1>5. CASE ReaderDatagram \/ ReaderPolls \/ ReaderFails \/ ReaderCloses
  BY <1>5, ReaderKeeps
<1>6. CASE UNCHANGED vars
  BY <1>6, ReaderMoves DEF vars
<1> QED BY <1>1, <1>2, <1>3, <1>4, <1>5, <1>6 DEF Next

\* The invariant holds in every reachable state, whatever the number of threads
\* and connections and the sizes of the backlogs.
THEOREM Invariance == Spec => []IInv
BY InitIInv, NextIInv, PTL DEF Spec

\* No wakeup is lost: whoever sleeps on a condition variable of socket.rs has
\* nothing it could return.
THEOREM NoWakeupIsLost == Spec => []NoLostWakeup
<1>1. IInv => NoLostWakeup
  BY DEF IInv
<1> QED BY <1>1, Invariance, PTL

\* No thread waits for the big mutex while it has it: a connect that fails always
\* drops a Conn that is closed or destroyed.
THEOREM NeverSelfDeadlocks == Spec => []NoSelfDeadlock
<1>1. IInv => NoSelfDeadlock
  BY DEF IInv
<1> QED BY <1>1, Invariance, PTL

\* Every connection the engine keeps is in somebody's hands, or it was closed and
\* is on its way out, unless an RST overwrote the Destroy the close left.
THEOREM NoConnIsForgotten == Spec => []NoForgottenConn
<1>1. IInv => NoForgottenConn
  BY DEF IInv
<1> QED BY <1>1, Invariance, PTL

=============================================================================

------------------------------- MODULE UtpApi -------------------------------
(***************************************************************************)
(* The blocking API (socket.rs, conn_shared.rs): application threads inside *)
(* connect, accept, recv, send, recv_from, close and drop, the reader       *)
(* thread, the big mutex and the condition variables.                       *)
(*                                                                          *)
(* A critical section under the big mutex is one step: from taking the      *)
(* mutex to returning or to going to sleep on a condition variable, which   *)
(* releases it.  What happens between two critical sections of one call     *)
(* (the gap of Conn::drop, of Shared::close before it notifies, of the      *)
(* reader before it closes) is where other threads come in.                 *)
(*                                                                          *)
(* Abstractions.  The engine is seen through its callbacks: a datagram does *)
(* to a connection any one of the things process_udp may do (Events), and   *)
(* check_timeouts any of the things it may do (AfterCheck).  read_buf is a  *)
(* number of pieces.  Deadlines pass at any time (late).                    *)
(***************************************************************************)
EXTENDS Integers, FiniteSets, Sequences

CONSTANTS
  Conns,            \* connections, dialled or accepted
  Threads,          \* application threads
  NoConn,           \* a call that is about no connection
  Calls,            \* bound: the calls the threads make
  BACKLOG,          \* connections waiting for accept (5)
  NON_UTP_BACKLOG,  \* datagrams waiting for recv_from (100)
  MaxErrors,        \* read errors in a row that close the socket (100)
  MaxBuf            \* bound: pieces of data in read_buf

ASSUME ApiAssumption ==
  /\ NoConn \notin Conns
  /\ {BACKLOG, MaxErrors} \subseteq Nat \ {0}
  /\ {NON_UTP_BACKLOG, MaxBuf} \subseteq Nat

VARIABLES
  conn,      \* conn[c]: the engine's socket and the ConnCell of c
  held,      \* connections with a live Conn handle
  backlog,   \* Inner.backlog
  non_utp,   \* length of Inner.non_utp
  closed,    \* Inner.closed
  pc,        \* pc[t]: the call thread t is in
  reader,    \* the reader thread: where it is
  errors     \* its consecutive_errors

vars == <<conn, held, backlog, non_utp, closed, pc, reader, errors>>

-----------------------------------------------------------------------------
(* Connections. *)

Established == {"Connected", "ConnectedFull"}
Absent == {"None", "Removed"}

\* ConnShared::new, and the state of the engine's socket with it (fin:
\* close_requested).  History: undone, an RST met the socket in Destroy.
NewConn(eng) ==
  [eng |-> eng, fin |-> FALSE, read_buf |-> 0, got_eof |-> FALSE, got_connect |-> FALSE,
   destroyed |-> FALSE, closed |-> FALSE, error |-> FALSE, undone |-> FALSE]

\* close_engine: a FIN for an established connection, else the end.
close_engine_reset_kept(r) ==
  CASE r.eng \in Established -> [r EXCEPT !.fin = TRUE]
    [] r.eng \in Absent \cup {"Reset"} -> r
    [] OTHER -> [r EXCEPT !.eng = "Destroy"]

close_engine(r) ==
  CASE r.eng \in Established -> [r EXCEPT !.fin = TRUE]
    [] r.eng \in Absent -> r
    [] OTHER -> [r EXCEPT !.eng = "Destroy"]

\* Conn::close_locked, before it notifies.
close_locked(r) ==
  LET s == [r EXCEPT !.closed = TRUE] IN
  IF ~r.destroyed /\ ~r.closed THEN close_engine(s) ELSE s

\* destroy_sock: on_destroying.
destroy_sock(r) == IF r.eng \in Absent THEN r ELSE [r EXCEPT !.eng = "Removed", !.destroyed = TRUE]

\* What a datagram can do to the connection it is for, and whether a callback
\* notified cond: nothing, an RST, the SYN-ACK, the first data of an accepted
\* connection, data, the end of the stream, an ack that makes room, the ack of
\* the FIN, a packet of ours that the transport refused.
Seen(r) == [r |-> r, wake |-> TRUE]
Unseen(r) == [r |-> r, wake |-> FALSE]

Writable(r) == {Seen([r EXCEPT !.eng = "Connected"])}

\* An RST overwrites the state, Destroy too.
OnReset(r) == Seen([r EXCEPT !.eng = IF r.fin THEN "Destroy" ELSE "Reset", !.error = TRUE,
                             !.undone = @ \/ r.eng = "Destroy"])
OnRead_silent(r) == Unseen([r EXCEPT !.read_buf = @ + 1])
OnRead(r) == Seen([r EXCEPT !.read_buf = @ + 1])
OnEof(r) == Seen([r EXCEPT !.got_eof = TRUE])
OnConnect(r) == {Seen([r EXCEPT !.eng = st, !.got_connect = TRUE]) : st \in Established}

\* send_data: the transport refuses a packet for good.
OnRefused(r) == Seen([r EXCEPT !.error = TRUE])

Events(r) ==
  {Unseen(r)} \cup
  (IF r.eng \notin Absent THEN {OnReset(r), OnRefused(r)} ELSE {}) \cup
  (IF r.eng = "SynSent" THEN OnConnect(r) ELSE {}) \cup
  (IF r.eng \in {"SynRecv", "ConnectedFull"} THEN Writable(r) ELSE {}) \cup
  (IF r.eng \in Established /\ ~r.fin /\ ~r.got_eof /\ r.read_buf < MaxBuf THEN {OnRead(r)} ELSE {}) \cup
  (IF r.eng \in Established /\ ~r.got_eof THEN {OnEof(r)} ELSE {}) \cup
  (IF r.eng \in Established /\ r.fin THEN {Unseen([r EXCEPT !.eng = "Destroy"])} ELSE {})

\* What check_timeouts can do to it: too many RTOs, room in the window, the
\* removal of a socket in Destroy (SynRecv has no timer).
OnTimeout(r) == Seen([r EXCEPT !.eng = IF r.fin THEN "Removed" ELSE "Reset", !.error = TRUE,
                               !.destroyed = r.fin])

AfterCheck(r) ==
  IF r.eng = "Destroy" THEN {Seen(destroy_sock(r))}
  ELSE {Unseen(r)} \cup
       (IF r.eng \in Established \cup {"SynSent"} THEN {OnTimeout(r), OnRefused(r)} ELSE {}) \cup
       (IF r.eng = "ConnectedFull" THEN Writable(r) ELSE {})

-----------------------------------------------------------------------------
(* Threads. *)

Idle == [op |-> "idle", c |-> NoConn, timed |-> FALSE, late |-> FALSE, asleep |-> FALSE]
In(op, c, timed) == [op |-> op, c |-> c, timed |-> timed, late |-> FALSE, asleep |-> FALSE]

\* Condvar::notify_all: on the cond of the connections of cs, on the conds of
\* the calls of ops.
ConnOps == {"recv", "send", "connect"}

Notified(pcs, cs, ops) ==
  [t \in Threads |->
     IF pcs[t].op \in ops \/ (pcs[t].op \in ConnOps /\ pcs[t].c \in cs)
     THEN [pcs[t] EXCEPT !.asleep = FALSE] ELSE pcs[t]]

Running(t, op) == pc[t].op = op /\ ~pc[t].asleep

Returned(t) == [pc EXCEPT ![t] = Idle]
Slept(t) == [pc EXCEPT ![t].asleep = TRUE]

\* Nobody is stuck with the mutex in its hand.
MutexFree == \A t \in Threads : pc[t].op # "self_lock"

Call(t, op, c, timed) ==
  /\ MutexFree
  /\ pc[t] = Idle /\ op \in Calls
  /\ pc' = [pc EXCEPT ![t] = In(op, c, timed)]
  /\ UNCHANGED <<conn, held, backlog, non_utp, closed, reader, errors>>

\* Bound: a connection of Conns is left for everyone about to dial.
Fresh == {c \in Conns : conn[c].eng = "None"}
Dialing == {t \in Threads : pc[t].op = "connect" /\ pc[t].c = NoConn}
Unclaimed == Cardinality(Fresh) > Cardinality(Dialing)

Start(t) ==
  \/ \E op \in {"recv", "send"}, c \in held, timed \in BOOLEAN : Call(t, op, c, timed)
  \/ Unclaimed /\ \E timed \in BOOLEAN : Call(t, "connect", NoConn, timed)
  \/ \E op \in {"accept", "recv_from", "shutdown"} : Call(t, op, NoConn, FALSE)
  \/ \E c \in held : Call(t, "close", c, FALSE)

\* The end of one turn of a waiting loop: the call times out or sleeps.
TimesOut_never(t) == FALSE
TimesOut(t) == pc[t].late

\* Conn::recv.  A read that empties read_buf makes the engine ack, and the
\* transport may refuse the ack for good.
Over(r) == r.got_eof \/ r.error \/ r.destroyed \/ r.closed

Drained(r, n, refused) == [r EXCEPT !.read_buf = @ - n, !.error = @ \/ refused]

RecvTurn(t) ==
  LET c == pc[t].c
      r == conn[c]
  IN
  /\ Running(t, "recv")
  /\ CASE r.read_buf > 0 ->
            \E n \in 1 .. r.read_buf, refused \in BOOLEAN :
              /\ refused => n = r.read_buf /\ ~r.destroyed
              /\ conn' = [conn EXCEPT ![c] = Drained(r, n, refused)]
              /\ pc' = Notified(Returned(t), IF refused THEN {c} ELSE {}, {})
       [] r.read_buf = 0 /\ Over(r) -> pc' = Returned(t) /\ UNCHANGED conn
       [] r.read_buf = 0 /\ ~Over(r) /\ TimesOut(t) ->
            pc' = Returned(t) /\ UNCHANGED conn
       [] OTHER -> pc' = Slept(t) /\ UNCHANGED conn
  /\ UNCHANGED <<held, backlog, non_utp, closed, reader, errors>>

\* Conn::send: write_engine takes bytes unless the socket is not Connected or
\* turns out to be full, and marks it full when it is.
Taken(r, st, e) == [r EXCEPT !.eng = st, !.error = e]

SendTurn(t) ==
  LET c == pc[t].c
      r == conn[c]
      refused == r.error \/ r.closed \/ r.destroyed
      writable == ~refused /\ r.eng = "Connected" /\ ~r.fin
  IN
  /\ Running(t, "send")
  /\ \/ /\ refused
        /\ pc' = Returned(t) /\ UNCHANGED conn
     \/ /\ writable
        /\ \E st \in Established, e \in BOOLEAN :
             /\ conn' = [conn EXCEPT ![c] = Taken(r, st, e)]
             /\ pc' = Notified(Returned(t), IF e THEN {c} ELSE {}, {})
     \/ /\ ~refused
        /\ conn' = IF writable THEN [conn EXCEPT ![c].eng = "ConnectedFull"] ELSE conn
        /\ IF TimesOut(t) THEN pc' = Returned(t)
           ELSE pc' = Slept(t)
  /\ UNCHANGED <<held, backlog, non_utp, closed, reader, errors>>

\* Socket::connect_deadline.  The socket is created in the critical section of
\* the first turn.
Dial(t) ==
  /\ Running(t, "connect") /\ pc[t].c = NoConn
  /\ IF closed THEN pc' = Returned(t) /\ UNCHANGED conn
     ELSE \E c \in Fresh, refused \in BOOLEAN :
            /\ conn' = [conn EXCEPT ![c] = [NewConn("SynSent") EXCEPT !.error = refused]]
            /\ IF refused \/ TimesOut(t) THEN pc' = [pc EXCEPT ![t].c = c]
               ELSE pc' = [pc EXCEPT ![t].c = c, ![t].asleep = TRUE]
  /\ UNCHANGED <<held, backlog, non_utp, closed, reader, errors>>

\* An error returned: the Conn is dropped before the mutex is released, and its
\* drop takes the mutex again unless the connection is closed or destroyed.
Fails(t, c, r) ==
  LET pcs == IF r.closed \/ r.destroyed THEN Returned(t) ELSE [pc EXCEPT ![t].op = "self_lock"] IN
  /\ conn' = [conn EXCEPT ![c] = r]
  /\ pc' = Notified(pcs, {c}, {})
  /\ UNCHANGED held

ConnectTurn_timeout_leaves(t) ==
  LET c == pc[t].c
      r == conn[c]
      ended == r.destroyed \/ r.closed \/ closed
  IN
  /\ Running(t, "connect") /\ c # NoConn
  /\ CASE r.error -> Fails(t, c, close_locked(r))
       [] ~r.error /\ r.got_connect ->
            pc' = Returned(t) /\ held' = held \cup {c} /\ UNCHANGED conn
       [] ~r.error /\ ~r.got_connect /\ ended -> Fails(t, c, r)
       [] ~r.error /\ ~r.got_connect /\ ~ended /\ TimesOut(t) -> Fails(t, c, r)
       [] OTHER -> pc' = Slept(t) /\ UNCHANGED <<conn, held>>
  /\ UNCHANGED <<backlog, non_utp, closed, reader, errors>>

ConnectTurn(t) ==
  LET c == pc[t].c
      r == conn[c]
      ended == r.destroyed \/ r.closed \/ closed
  IN
  /\ Running(t, "connect") /\ c # NoConn
  /\ CASE r.error -> Fails(t, c, close_locked(r))
       [] ~r.error /\ r.got_connect ->
            pc' = Returned(t) /\ held' = held \cup {c} /\ UNCHANGED conn
       [] ~r.error /\ ~r.got_connect /\ ended -> Fails(t, c, r)
       [] ~r.error /\ ~r.got_connect /\ ~ended /\ TimesOut(t) ->
            Fails(t, c, close_locked(r))
       [] OTHER -> pc' = Slept(t) /\ UNCHANGED <<conn, held>>
  /\ UNCHANGED <<backlog, non_utp, closed, reader, errors>>

\* Socket::accept
AcceptTurn(t) ==
  /\ Running(t, "accept")
  /\ CASE backlog # <<>> ->
            /\ held' = held \cup {Head(backlog)} /\ backlog' = Tail(backlog)
            /\ pc' = Returned(t)
       [] backlog = <<>> /\ closed ->
            pc' = Returned(t) /\ UNCHANGED <<held, backlog>>
       [] OTHER -> pc' = Slept(t) /\ UNCHANGED <<held, backlog>>
  /\ UNCHANGED <<conn, non_utp, closed, reader, errors>>

\* Socket::recv_from
RecvFromTurn(t) ==
  /\ Running(t, "recv_from")
  /\ CASE non_utp > 0 -> non_utp' = non_utp - 1 /\ pc' = Returned(t)
       [] non_utp = 0 /\ closed -> pc' = Returned(t) /\ UNCHANGED non_utp
       [] OTHER -> pc' = Slept(t) /\ UNCHANGED non_utp
  /\ UNCHANGED <<conn, held, backlog, closed, reader, errors>>

\* Conn::close
CloseTurn(t) ==
  /\ Running(t, "close")
  /\ conn' = [conn EXCEPT ![pc[t].c] = close_locked(@)]
  /\ pc' = Notified(Returned(t), {pc[t].c}, {})
  /\ UNCHANGED <<held, backlog, non_utp, closed, reader, errors>>

\* Drop for Conn looks at the flags with no lock held but the cell's, and then
\* calls close.  Nobody else is in a call on a connection that is dropped.
Drop(t, c) ==
  /\ MutexFree
  /\ pc[t] = Idle /\ c \in held /\ \A u \in Threads : pc[u].c # c
  /\ held' = held \ {c}
  /\ pc' = IF conn[c].closed \/ conn[c].destroyed THEN pc ELSE [pc EXCEPT ![t] = In("close", c, FALSE)]
  /\ UNCHANGED <<conn, backlog, non_utp, closed, reader, errors>>

\* Shared::close, its critical section, for whoever runs it.
Shutdown ==
  /\ closed' = TRUE
  /\ conn' = [c \in Conns |-> destroy_sock(conn[c])]
  /\ backlog' = <<>>
  /\ non_utp' = 0

Removed == {c \in Conns : conn[c].eng \notin Absent}

ShutdownTurn(t) ==
  /\ Running(t, "shutdown")
  /\ IF closed
     THEN pc' = Returned(t) /\ UNCHANGED <<conn, backlog, non_utp, closed>>
     ELSE /\ Shutdown
          /\ pc' = Notified([pc EXCEPT ![t].op = "notify"], Removed, {})
  /\ UNCHANGED <<held, reader, errors>>

\* ... and what it does after it has released the mutex.
CloseConds == {"accept", "recv_from"}

NotifyTurn_silent(t) ==
  /\ Running(t, "notify")
  /\ pc' = Returned(t)
  /\ UNCHANGED <<conn, held, backlog, non_utp, closed, reader, errors>>

NotifyTurn(t) ==
  /\ Running(t, "notify")
  /\ pc' = Notified(Returned(t), {}, CloseConds)
  /\ UNCHANGED <<conn, held, backlog, non_utp, closed, reader, errors>>

Turn(t) ==
  /\ MutexFree
  /\ \/ RecvTurn(t) \/ SendTurn(t) \/ Dial(t) \/ ConnectTurn(t) \/ AcceptTurn(t)
     \/ RecvFromTurn(t) \/ CloseTurn(t) \/ ShutdownTurn(t) \/ NotifyTurn(t)

\* The deadline of a timed call passes; wait_timeout returns.
Expire(t) ==
  /\ pc[t].timed /\ ~pc[t].late
  /\ pc' = [pc EXCEPT ![t].late = TRUE, ![t].asleep = FALSE]
  /\ UNCHANGED <<conn, held, backlog, non_utp, closed, reader, errors>>

-----------------------------------------------------------------------------
(* reader_loop *)

\* check_timeouts runs after the datagram, rate limited: it may do nothing.
Checked(cs) ==
  {[c \in Conns |-> Unseen(cs[c])]} \cup
  {f \in [Conns -> UNION {AfterCheck(cs[c]) : c \in Conns}] : \A c \in Conns : f[c] \in AfterCheck(cs[c])}

Apply(f, cs, ops) ==
  /\ conn' = [c \in Conns |-> f[c].r]
  /\ pc' = Notified(pc, cs \cup {c \in Conns : f[c].wake}, ops)

ReaderExits ==
  /\ closed /\ reader' = "exited"
  /\ UNCHANGED <<conn, held, backlog, non_utp, closed, pc, errors>>

\* process_datagram: a datagram for a connection, a SYN, or one that is not uTP.
ForConn(c) ==
  \E e \in Events(conn[c]) : \E f \in Checked([conn EXCEPT ![c] = e.r]) :
    /\ Apply(f, IF e.wake THEN {c} ELSE {}, {})
    /\ UNCHANGED <<backlog, non_utp>>

PushBacklog_left_open(c) ==
  IF Len(backlog) >= BACKLOG
  THEN /\ UNCHANGED backlog
       /\ \E f \in Checked([conn EXCEPT ![c] = NewConn("SynRecv")]) : Apply(f, {}, {})
  ELSE /\ backlog' = Append(backlog, c)
       /\ \E f \in Checked([conn EXCEPT ![c] = NewConn("SynRecv")]) : Apply(f, {}, {"accept"})

PushBacklog(c) ==
  IF Len(backlog) >= BACKLOG
  THEN /\ UNCHANGED backlog
       /\ \E f \in Checked([conn EXCEPT ![c] = [close_engine(NewConn("SynRecv")) EXCEPT !.closed = TRUE]]) :
            Apply(f, {}, {})
  ELSE /\ backlog' = Append(backlog, c)
       /\ \E f \in Checked([conn EXCEPT ![c] = NewConn("SynRecv")]) : Apply(f, {}, {"accept"})

Syn ==
  /\ Unclaimed
  /\ \E c \in Fresh : PushBacklog(c)
  /\ UNCHANGED non_utp

NotUtp ==
  \E f \in Checked(conn) :
    /\ IF non_utp < NON_UTP_BACKLOG
       THEN non_utp' = non_utp + 1 /\ Apply(f, {}, {"recv_from"})
       ELSE UNCHANGED non_utp /\ Apply(f, {}, {})
    /\ UNCHANGED backlog

ReaderDatagram ==
  /\ reader = "recv" /\ MutexFree
  /\ \/ ReaderExits
     \/ /\ ~closed
        /\ (\E c \in Conns : ForConn(c)) \/ Syn \/ NotUtp
        /\ errors' = 0
        /\ UNCHANGED <<held, closed, reader>>

\* Nothing arrived for RECV_POLL_INTERVAL.
ReaderPolls ==
  /\ reader = "recv" /\ MutexFree
  /\ \/ ReaderExits
     \/ /\ ~closed
        /\ \E f \in Checked(conn) : Apply(f, {}, {})
        /\ UNCHANGED <<held, backlog, non_utp, closed, reader, errors>>

\* An error: the reader tolerates a run of them.
ReaderFails ==
  /\ reader = "recv" /\ MutexFree
  /\ \/ ReaderExits
     \/ /\ ~closed
        /\ errors' = errors + 1
        /\ IF errors + 1 >= MaxErrors
           THEN reader' = "close" /\ UNCHANGED <<conn, pc>>
           ELSE (\E f \in Checked(conn) : Apply(f, {}, {})) /\ UNCHANGED reader
        /\ UNCHANGED <<held, backlog, non_utp, closed>>

\* The reader calls Shared::close itself after too many errors.
ReaderCloses ==
  /\ MutexFree
  /\ \/ /\ reader = "close" /\ ~closed
        /\ Shutdown /\ pc' = Notified(pc, Removed, {}) /\ reader' = "notify"
     \/ /\ reader = "close" /\ closed /\ reader' = "exited"
        /\ UNCHANGED <<conn, backlog, non_utp, closed, pc>>
     \/ /\ reader = "notify" /\ reader' = "exited"
        /\ pc' = Notified(pc, {}, CloseConds)
        /\ UNCHANGED <<conn, backlog, non_utp, closed>>
  /\ UNCHANGED <<held, errors>>

-----------------------------------------------------------------------------

Init ==
  /\ conn = [c \in Conns |-> NewConn("None")]
  /\ held = {}
  /\ backlog = <<>>
  /\ non_utp = 0
  /\ closed = FALSE
  /\ pc = [t \in Threads |-> Idle]
  /\ reader = "recv"
  /\ errors = 0

Next ==
  \/ \E t \in Threads : Start(t) \/ Turn(t) \/ Expire(t) \/ \E c \in held : Drop(t, c)
  \/ ReaderDatagram \/ ReaderPolls \/ ReaderFails \/ ReaderCloses

Spec == Init /\ [][Next]_vars

\* A thread that can take the mutex gets it, deadlines pass, and recv_from of
\* the transport returns at least every RECV_POLL_INTERVAL.
FairSpec ==
  /\ Spec
  /\ \A t \in Threads : WF_vars(Turn(t)) /\ WF_vars(Expire(t))
  /\ WF_vars(ReaderPolls) /\ WF_vars(ReaderCloses)

-----------------------------------------------------------------------------
(* Properties. *)

Notifying == reader = "notify" \/ \E t \in Threads : pc[t].op = "notify"

\* No wakeup is lost: a thread asleep in recv, send, connect, accept or
\* recv_from has nothing it could return, but for the moment between the
\* critical section of Shared::close and its notify_all.
NoLostWakeup ==
  \A t \in {u \in Threads : pc[u].asleep} : LET r == conn[pc[t].c] IN
    /\ pc[t].op = "recv" => r.read_buf = 0 /\ ~Over(r)
    /\ pc[t].op = "send" => ~(r.error \/ r.destroyed \/ r.closed) /\ r.eng # "Connected"
    /\ pc[t].op = "connect" => ~(r.error \/ r.got_connect \/ r.destroyed \/ r.closed \/ closed)
    /\ pc[t].op = "accept" => backlog = <<>> /\ (closed => Notifying)
    /\ pc[t].op = "recv_from" => non_utp = 0 /\ (closed => Notifying)

\* A connect that fails never drops its Conn unclosed with the mutex held: the
\* drop would wait for the mutex its own thread has.
NoSelfDeadlock == MutexFree

\* No connection is forgotten: one the engine keeps is in somebody's hands, in
\* the backlog or in a call that will close or return it; or it was closed, by
\* the application or because the backlog was full, and then it is on its way
\* out of the table, unless an RST arrived between the close and the next
\* check_timeouts (process_udp overwrites Destroy).
NoForgottenConn ==
  \A c \in Conns : conn[c].eng \notin Absent =>
    IF conn[c].closed
    THEN conn[c].fin \/ conn[c].eng = "Destroy" \/ conn[c].undone
    ELSE \/ c \in held
         \/ \E i \in DOMAIN backlog : backlog[i] = c
         \/ \E t \in Threads : pc[t].c = c

\* Closing the socket ends every blocked call and the reader thread; and nobody
\* waits for a reader that has gone: once a run of read errors has made it give
\* up (reader_loop), every call that is blocked, or made later, returns.
CloseReleases ==
  /\ \A t \in Threads :
       ((closed \/ reader = "exited") /\ pc[t].op # "idle") ~> pc[t].op = "idle"
  /\ closed ~> reader = "exited"

\* A call with a timeout returns.
TimedReturns == \A t \in Threads : pc[t].timed ~> ~pc[t].timed
=============================================================================

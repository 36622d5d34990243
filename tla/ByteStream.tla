----------------------------- MODULE ByteStream -----------------------------
(***************************************************************************)
(* What one direction of a connection promises its reader: the peer's bytes *)
(* 1, 2, ..., Total in order, none missing and none twice, and the end of   *)
(* the stream only after the last of them.  Once the reader's side has been *)
(* closed nothing more is delivered, and the end may be seen early.         *)
(***************************************************************************)
EXTENDS Naturals, Sequences

CONSTANT Total       \* bytes the peer writes before it closes

VARIABLES out,       \* bytes handed to the reader so far
          eof,       \* the end of the stream has been signalled
          shut       \* this side has been closed

Init == out = <<>> /\ eof = FALSE /\ shut = FALSE

Prefix(n) == [i \in 1 .. n |-> i]

\* Bytes are appended in order, none after the end or after the close; the end
\* of the stream may come with the last of them.
Deliver ==
  /\ ~shut
  /\ \E n \in Len(out) .. Total : out' = Prefix(n)
  /\ eof => out' = out
  /\ eof' \in {eof, Len(out') = Total}
  /\ eof => eof'
  /\ UNCHANGED shut

ShutDown == shut' = TRUE /\ UNCHANGED <<out, eof>>

EndAfterShut == shut /\ eof' = TRUE /\ UNCHANGED <<out, shut>>

Next == Deliver \/ ShutDown \/ EndAfterShut

Spec == Init /\ [][Next]_<<out, eof, shut>>
=============================================================================

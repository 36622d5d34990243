-------------------------------- MODULE Pipe --------------------------------
(***************************************************************************)
(* What one direction of a connection promises between its two ends: the    *)
(* reader gets a prefix of what the writer has written so far, in order and *)
(* once, and sees the end only after the writer closed and every byte came  *)
(* through.  Nothing is promised of when: either end may die at any time.   *)
(***************************************************************************)
EXTENDS Naturals, Sequences

VARIABLES written,   \* bytes the writer has written
          closed,    \* the writer has closed its end
          out,       \* bytes handed to the reader: the numbers 1, 2, ...
          eof        \* the reader has been told of the end

Init == written = 0 /\ closed = FALSE /\ out = <<>> /\ eof = FALSE

Write == ~closed /\ written' > written /\ UNCHANGED <<closed, out, eof>>

Close == closed' = TRUE /\ UNCHANGED <<written, out, eof>>

Deliver ==
  /\ ~eof
  /\ \E n \in Len(out) .. written : out' = [i \in 1 .. n |-> i]
  /\ eof' => closed /\ Len(out') = written
  /\ UNCHANGED <<written, closed>>

Next == Write \/ Close \/ Deliver

Spec == Init /\ [][Next]_<<written, closed, out, eof>>
=============================================================================

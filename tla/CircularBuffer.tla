--------------------------- MODULE CircularBuffer ---------------------------
(***************************************************************************)
(* circular.rs: a ring of slots addressed by sequence numbers that wrap.    *)
(* The size is a power of two, so i & mask is i % size; it divides the      *)
(* number of sequence numbers, so a slot survives their wrap.               *)
(***************************************************************************)
EXTENDS SeqArith, FiniteSetsExt

CONSTANT None        \* the content of an empty slot

EmptyBuffer(n) == [size |-> n, slots |-> [s \in 0 .. n - 1 |-> None]]

get(b, i) == b.slots[i % b.size]

put(b, i, v) == [b EXCEPT !.slots[i % b.size] = v]

\* take for every index of S.
take(b, S) == [b EXCEPT !.slots = [s \in DOMAIN b.slots |->
                 IF \E i \in S : i % b.size = s THEN None ELSE b.slots[s]]]

\* The size doubles until index fits: the next power of two above both.
GrownSize(b, index) == Min({n \in PowersOfTwo : b.size < n /\ index < n})

\* The slots of the live window, which starts at item - index, move to where the
\* new mask looks for them.
grow_from_item(b, item, index) ==
  LET size == GrownSize(b, index)
      live == item .. item + b.size - 1
  IN  [size  |-> size,
       slots |-> [s \in 0 .. size - 1 |->
                    IF \E i \in live : i % size = s
                    THEN get(b, CHOOSE i \in live : i % size = s) ELSE None]]

grow(b, item, index) ==
  LET size == GrownSize(b, index)
      live == item - index .. item - index + b.size - 1
  IN  [size  |-> size,
       slots |-> [s \in 0 .. size - 1 |->
                    IF \E i \in live : i % size = s
                    THEN get(b, CHOOSE i \in live : i % size = s) ELSE None]]

ensure_size(b, item, index) == IF index > b.size - 1 THEN grow(b, item, index) ELSE b
=============================================================================

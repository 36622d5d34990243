------------------------------ MODULE MCUtpSend ------------------------------
(* Small instances of UtpSend for TLC. *)
EXTENDS UtpSend

\* The linear forms of the arithmetic are the u16 operations of the code.
ASSUME WrapsLikeU16 ==
  \A a, b \in SeqNr : /\ wrapping_add(a, b) = (a + b) % SeqMod
                      /\ wrapping_sub(a, b) = (a - b) % SeqMod
=============================================================================

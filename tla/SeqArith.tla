------------------------------ MODULE SeqArith ------------------------------
(***************************************************************************)
(* The wrapping sequence numbers of uTP: u16 arithmetic (engine.rs, all of  *)
(* wrapping_add / wrapping_sub) and the wrapping comparison of util.rs.     *)
(* SeqMod is 2^16 in the code; a smaller power of two keeps every property  *)
(* of the arithmetic the engine relies on.  The two operations are written  *)
(* with one conditional correction, which equals the remainder for operands *)
(* of the type and keeps them linear.                                       *)
(***************************************************************************)
EXTENDS Integers

CONSTANT SeqMod      \* number of sequence numbers: 2^16 in the code

ASSUME SeqModAssumption == SeqMod \in Nat /\ SeqMod >= 2

\* The divisors of a power of two are the smaller powers of two: a modulus is
\* one when each of its divisors but itself can be doubled.
PowersOfTwo == {m \in 1 .. SeqMod : \E k \in 1 .. SeqMod : SeqMod = k * m}

ASSUME PowerAssumption == \A m \in PowersOfTwo : m < SeqMod => 2 * m \in PowersOfTwo

SeqNr == 0 .. SeqMod - 1

wrapping_add(a, b) == IF a + b >= SeqMod THEN a + b - SeqMod ELSE a + b

wrapping_sub(a, b) == IF a >= b THEN a - b ELSE a - b + SeqMod

\* util.rs: the shorter way round from lhs to rhs leads upwards.
wrapping_compare_less(lhs, rhs) == wrapping_sub(rhs, lhs) < wrapping_sub(lhs, rhs)
=============================================================================

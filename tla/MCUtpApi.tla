------------------------------ MODULE MCUtpApi ------------------------------
(***************************************************************************)
(* Instances of UtpApi.  Threads and connections are interchangeable; the   *)
(* symmetry is used for safety properties only.                             *)
(***************************************************************************)
EXTENDS UtpApi, TLC

Symmetry == Permutations(Threads) \cup Permutations(Conns)
=============================================================================

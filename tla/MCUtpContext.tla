---------------------------- MODULE MCUtpContext ----------------------------
(***************************************************************************)
(* Instances of UtpContext: two hosts, of which A dials.  Seeds two apart    *)
(* keep the send id of one connection apart from the receive id of another. *)
(***************************************************************************)
EXTENDS UtpContext, TLC

CONSTANTS A, B

TwoHosts == {A, B}
OneDial == (A :> {1}) @@ (B :> {})
TwoDials == (A :> {1, 3}) @@ (B :> {})
=============================================================================

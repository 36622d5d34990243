------------------------------ MODULE MCUtpRecv ------------------------------
(* Small instances of UtpRecv for TLC. *)
EXTENDS UtpRecv

\* Payload sizes of the peer's packets: an empty first packet, as a dialer
\* sends it, then data, then the FIN.
MCLens == <<0, 2, 1, 1, 1, 0>>
=============================================================================

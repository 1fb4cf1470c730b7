----------------------------- MODULE MCHandshake -----------------------------
(* Instances of Handshake for TLC.                                         *)
EXTENDS Handshake

=============================================================================

---------------------------- MODULE MCCollective ----------------------------
(* Instances of Collective for TLC.                                        *)
EXTENDS Collective

=============================================================================

----------------------------- MODULE MCChannel -----------------------------
(* Instances of Channel for TLC. *)
EXTENDS Channel

CONSTANTS m1, m2
=============================================================================

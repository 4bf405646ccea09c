----------------------------- MODULE MCPresence -----------------------------
(* Instances of Presence for TLC. *)
EXTENDS Presence

CONSTANTS p1, p2, s1
=============================================================================

----------------------------- MODULE MCRequests -----------------------------
(* Instances of Requests for TLC. *)
EXTENDS Requests

CONSTANTS a1, a2, a3, a4, t1, s1, h1, h2
=============================================================================

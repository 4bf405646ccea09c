---------------------------- MODULE MCNotifier -----------------------------
(* Instances of Notifier for TLC. *)
EXTENDS Notifier

CONSTANTS t1, t2, k1, k2, k3, k4

=============================================================================

------------------------------ MODULE MCTurns ------------------------------
(* Instances of WorkerTurns for TLC. *)
EXTENDS WorkerTurns

CONSTANT a
=============================================================================

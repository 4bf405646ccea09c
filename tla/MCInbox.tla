------------------------------ MODULE MCInbox ------------------------------
(* Instances of Inbox for TLC. *)
EXTENDS Inbox, TLC

CONSTANTS m1, m2, w1, w2, c1, s1

\* Two workers of one session compete for its messages.
SameSession == (w1 :> s1) @@ (w2 :> s1)

OneWorker == w1 :> s1

FirstMessage == c1 :> m1

NoWatcher == <<>>

WorkerSymmetry == Permutations({w1, w2})
=============================================================================

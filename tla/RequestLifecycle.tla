-------------------------- MODULE RequestLifecycle --------------------------
(***************************************************************************)
(* What the server promises those who ask for a verdict and those who give *)
(* one, whatever fails between them: a request gets one verdict at most,   *)
(* the first; its requester is told that verdict or something that claims  *)
(* none; and a request that is to be carried out is so by one hub at most, *)
(* before anybody is told that it was.  Module Requests implements it.     *)
(***************************************************************************)
CONSTANTS
  Requests,
  Relayed,     \* those a hub carries out; of the others it decides
  Decisions,   \* verdicts on a request that is decided
  Done,        \* verdict on a request that was carried out
  Failed,      \* verdict on one that was not
  Evasive,     \* for each request, what claims no verdict on it
  Nothing      \* no verdict, not told

VARIABLES
  stage,    \* "new", "open", "taken" by a hub, "closed", "forgotten"
  verdict,
  done,     \* the request has been carried out
  told      \* what its requester was told

vars == <<stage, verdict, done, told>>

Init ==
  /\ stage = [r \in Requests |-> "new"]
  /\ verdict = [r \in Requests |-> Nothing]
  /\ done = [r \in Requests |-> FALSE]
  /\ told = [r \in Requests |-> Nothing]

Open(r) ==
  /\ stage[r] = "new"
  /\ stage' = [stage EXCEPT ![r] = "open"]
  /\ UNCHANGED <<verdict, done, told>>

\* A hub takes what is open, so no other has it.
Take(S) ==
  /\ \A r \in S : stage[r] = "open"
  /\ stage' = [r \in Requests |-> IF r \in S THEN "taken" ELSE stage[r]]
  /\ UNCHANGED <<verdict, done, told>>

\* The hub may be so late that the request has been forgotten.
CarryOut(r) ==
  /\ stage[r] \in {"taken", "forgotten"}
  /\ ~done[r]
  /\ done' = [done EXCEPT ![r] = TRUE]
  /\ UNCHANGED <<stage, verdict, told>>

\* A hub reports on what it has taken; what waits for a decision is decided once.
Close(r, v) ==
  /\ \/ r \notin Relayed /\ stage[r] = "open" /\ v \in Decisions
     \/ r \in Relayed /\ stage[r] = "taken" /\ (v = Failed \/ (v = Done /\ done[r]))
  /\ stage' = [stage EXCEPT ![r] = "closed"]
  /\ verdict' = [verdict EXCEPT ![r] = v]
  /\ UNCHANGED <<done, told>>

\* What nobody has reported on by then counts as failed; a decision is waited for.
Forget(r) ==
  /\ stage[r] \in IF r \in Relayed THEN {"open", "taken", "closed"} ELSE {"closed"}
  /\ stage' = [stage EXCEPT ![r] = "forgotten"]
  /\ verdict' = [verdict EXCEPT ![r] = IF stage[r] = "closed" THEN @ ELSE Failed]
  /\ UNCHANGED <<done, told>>

Tell(r) ==
  /\ told[r] = Nothing
  /\ stage[r] = "closed"
  /\ told' = [told EXCEPT ![r] = verdict[r]]
  /\ UNCHANGED <<stage, verdict, done>>

\* Some requesters stop waiting, and the request of one may yet arrive.
GiveUp ==
  /\ told' = [r \in Requests |-> told'[r]]
  /\ \A r \in Requests :
       \/ told'[r] = told[r]
       \/ told[r] = Nothing /\ told'[r] \in Evasive[r]
  /\ \/ UNCHANGED stage
     \/ \E r \in Requests : stage[r] = "new" /\ stage' = [stage EXCEPT ![r] = "open"]
  /\ UNCHANGED <<verdict, done>>

Next ==
  \/ \E r \in Requests : Open(r) \/ CarryOut(r) \/ Forget(r) \/ Tell(r)
  \/ \E r \in Requests, v \in Decisions \cup {Done, Failed} : Close(r, v)
  \/ \E S \in SUBSET Relayed : Take(S)
  \/ GiveUp

Spec == Init /\ [][Next]_vars
=============================================================================

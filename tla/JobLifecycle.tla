---------------------------- MODULE JobLifecycle ----------------------------
(***************************************************************************)
(* What a spawner promises whoever dispatches jobs to it, whatever it does *)
(* inside: a job is answered by .result frames and settled by the last of  *)
(* them; it has one container at most at a time, and none is started and   *)
(* no frame is published once it is settled; a job is off the queue only   *)
(* when it is settled; and a job of another machine is never run.  Module  *)
(* SpawnerJobs implements it.                                              *)
(***************************************************************************)
EXTENDS Sequences

CONSTANTS
  Jobs,
  Foreign,    \* jobs of other machines
  Outcomes,   \* what a frame can say
  Nothing     \* not settled

VARIABLES
  frames,     \* the .result frames published, in order
  live,       \* a container of the job runs
  outcome,    \* what the job was settled as
  drained     \* the job is off the queue for good

vars == <<frames, live, outcome, drained>>

Init ==
  /\ frames = [j \in Jobs |-> <<>>]
  /\ live = [j \in Jobs |-> FALSE]
  /\ outcome = [j \in Jobs |-> Nothing]
  /\ drained = [j \in Jobs |-> FALSE]

Start(j) ==
  /\ j \notin Foreign
  /\ outcome[j] = Nothing
  /\ ~live[j]
  /\ live' = [live EXCEPT ![j] = TRUE]
  /\ UNCHANGED <<frames, outcome, drained>>

\* Several containers may end at once, with the machine.
End(S) ==
  /\ live' = [j \in Jobs |-> live[j] /\ j \notin S]
  /\ UNCHANGED <<frames, outcome, drained>>

\* A job may be answered more than once, while it is not settled.
Report(j, o) ==
  /\ outcome[j] = Nothing
  /\ frames' = [frames EXCEPT ![j] = Append(@, o)]
  /\ UNCHANGED <<live, outcome, drained>>

Settle(j) ==
  /\ j \notin Foreign
  /\ outcome[j] = Nothing
  /\ frames[j] # <<>>
  /\ outcome' = [outcome EXCEPT ![j] = frames[j][Len(frames[j])]]
  /\ UNCHANGED <<frames, live, drained>>

Drain(j) ==
  /\ j \in Foreign \/ outcome[j] # Nothing
  /\ drained' = [drained EXCEPT ![j] = TRUE]
  /\ UNCHANGED <<frames, live, outcome>>

Next ==
  \/ \E j \in Jobs : Start(j) \/ Settle(j) \/ Drain(j)
  \/ \E j \in Jobs, o \in Outcomes : Report(j, o)
  \/ \E S \in SUBSET Jobs : End(S)

Spec == Init /\ [][Next]_vars
=============================================================================

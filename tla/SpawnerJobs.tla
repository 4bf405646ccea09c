---------------------------- MODULE SpawnerJobs ----------------------------
(***************************************************************************)
(* The spawner: one process per machine that pulls dispatched jobs from a  *)
(* JetStream work queue, runs each in one container, publishes its         *)
(* .result, makes the local record terminal and only then acks.            *)
(* consumer.py, processor.py, store.py, launcher.py and app.py's boot.     *)
(*                                                                         *)
(* JetStream and docker are external: at-least-once delivery up to         *)
(* max_deliver, and containers that outlive the process, bear the name of  *)
(* their job and vanish (--rm) when they end.                              *)
(***************************************************************************)
EXTENDS Naturals, Sequences

CONSTANTS
  Jobs,        \* job ids
  Foreign,     \* jobs whose payload names another machine
  MaxDeliver,  \* JOBS_MAX_DELIVER
  Faults,      \* what may go wrong
  MaxFaults,   \* how often, in one behaviour
  NoJob        \* no job in hand

ASSUME SpawnerAssumption ==
  /\ Foreign \subseteq Jobs
  /\ MaxDeliver \in Nat \ {0}
  /\ Faults \subseteq {"crash", "reboot", "bus", "lag", "docker", "inspect", "race"}
  /\ MaxFaults \in Nat
  /\ NoJob \notin Jobs

VARIABLES
  msg,         \* the dispatch message of each job
  deliveries,  \* how often it was delivered
  results,     \* the .result frames published, in order
  rec,         \* state column of the local record
  cid,         \* container_id column, 0 for NULL
  boxes,       \* containers of each job that are running
  runs,        \* containers started for each job; the last one's id
  file,        \* result.json in the job directory
  at,          \* where the process stands
  booting,     \* within boot reconciliation
  todo,        \* records boot reconciliation has still to look at
  cur,         \* the job in hand
  here,        \* local container_id
  verdict,     \* the envelope about to be published
  faults       \* faults so far

queue == <<msg, deliveries>>
record == <<rec, cid>>
docker == <<boxes, runs, file>>
hand == <<cur, here, verdict>>
vars == <<queue, results, record, docker, at, booting, todo, hand, faults>>

Terminal == {"done", "error"}
Recorded == {j \in Jobs : rec[j] # "absent"}

\* Mutant: a failed job counts as unfinished, a redelivery tries it again.
NotDone == {j \in Recorded : rec[j] # "done"}

Unfinished == {j \in Recorded : rec[j] \notin Terminal}

\* One more thing goes wrong.
Fault(kind) ==
  /\ kind \in Faults
  /\ faults < MaxFaults
  /\ faults' = faults + 1

Init ==
  /\ msg = [j \in Jobs |-> "unsent"]
  /\ deliveries = [j \in Jobs |-> 0]
  /\ results = [j \in Jobs |-> <<>>]
  /\ rec = [j \in Jobs |-> "absent"]
  /\ cid = [j \in Jobs |-> 0]
  /\ boxes = [j \in Jobs |-> {}]
  /\ runs = [j \in Jobs |-> 0]
  /\ file = [j \in Jobs |-> "none"]
  /\ at = "down"
  /\ booting = FALSE
  /\ todo = {}
  /\ cur = NoJob
  /\ here = 0
  /\ verdict = "error"
  /\ faults = 0

\* Back to where the next job, or the next record of the boot, is taken up.
Finish ==
  /\ at' = IF booting THEN "boot" ELSE "idle"
  /\ cur' = NoJob
  /\ here' = 0
  /\ verdict' = "error"
  /\ UNCHANGED <<booting, todo>>

\* An exception: _handle leaves the message un-acked, _reconcile goes on.
Raise == Finish

-----------------------------------------------------------------------------
(* The work queue *)

Dispatch(j) ==
  /\ msg[j] = "unsent"
  /\ msg' = [msg EXCEPT ![j] = "ready"]
  /\ UNCHANGED <<deliveries, results, record, docker, at, booting, todo, hand, faults>>

\* AckWait runs out. While the job is in hand in_progress keeps it from doing so, unless the
\* heartbeats are lost.
AckWaitExpires(j) ==
  /\ msg[j] = "out"
  /\ \/ (cur # j \/ booting) /\ UNCHANGED faults
     \/ cur = j /\ ~booting /\ Fault("lag")
  /\ msg' = [msg EXCEPT ![j] = "ready"]
  /\ UNCHANGED <<deliveries, results, record, docker, at, booting, todo, hand>>

Fetch(j) ==
  /\ at = "idle"
  /\ msg[j] = "ready"
  /\ deliveries[j] < MaxDeliver
  /\ msg' = [msg EXCEPT ![j] = "out"]
  /\ deliveries' = [deliveries EXCEPT ![j] = @ + 1]
  /\ cur' = j
  /\ at' = IF j \in Foreign THEN "reject" ELSE "decide"
  /\ UNCHANGED <<results, record, docker, booting, todo, here, verdict, faults>>

\* _reject_foreign: a failed publish is logged and the message acked all the same.
Reject ==
  /\ at = "reject"
  /\ \/ results' = [results EXCEPT ![cur] = Append(@, "error")] /\ UNCHANGED faults
     \/ UNCHANGED results /\ Fault("bus")
  /\ at' = "ack"
  /\ UNCHANGED <<queue, record, docker, booting, todo, hand>>

Ack ==
  /\ at = "ack"
  /\ msg' = [msg EXCEPT ![cur] = "acked"]
  /\ Finish
  /\ UNCHANGED <<deliveries, results, record, docker, faults>>

-----------------------------------------------------------------------------
(* The decision table *)

\* is_alive: any failure of docker inspect reads as a dead container.
Inspect(j, alive) ==
  \/ alive = (cid[j] # 0 /\ cid[j] \in boxes[j]) /\ UNCHANGED faults
  \/ ~alive /\ cid[j] # 0 /\ cid[j] \in boxes[j] /\ Fault("inspect")

\* No record: the INSERT OR IGNORE claims the job.
DecideLaunch ==
  /\ at = "decide" /\ rec[cur] = "absent"
  /\ rec' = [rec EXCEPT ![cur] = "received"]
  /\ at' = "mark"
  /\ UNCHANGED <<queue, results, cid, docker, booting, todo, hand, faults>>

DecideAck ==
  /\ at = "decide" /\ cur \in Recorded \ Unfinished
  /\ at' = "ack"
  /\ UNCHANGED <<queue, results, record, docker, booting, todo, hand, faults>>

\* Mutant: every redelivery starts over.
DecideNeverAttach ==
  /\ at = "decide" /\ cur \in Unfinished
  /\ at' = "remove"
  /\ UNCHANGED <<queue, results, record, docker, booting, todo, hand, faults>>

\* Mutant: a launched job is a no-op on redelivery.
DecideNoop ==
  /\ at = "decide" /\ cur \in Unfinished
  /\ at' = "ack"
  /\ UNCHANGED <<queue, results, record, docker, booting, todo, hand, faults>>

DecideAgain ==
  /\ at = "decide" /\ cur \in Unfinished
  /\ \/ Inspect(cur, TRUE) /\ at' = "attach" /\ here' = cid[cur]
     \/ Inspect(cur, FALSE) /\ at' = "remove" /\ UNCHANGED here
  /\ UNCHANGED <<queue, results, record, docker, booting, todo, cur, verdict>>

-----------------------------------------------------------------------------
(* One run of the job in hand *)

\* RELAUNCH: docker rm -f the container on record; its failure is swallowed.
RemoveStale ==
  /\ at = "remove"
  /\ \/ cid[cur] = 0 /\ at' = "mark" /\ UNCHANGED <<boxes, faults>>
     \/ /\ cid[cur] # 0 /\ at' = "forget"
        /\ \/ boxes' = [boxes EXCEPT ![cur] = @ \ {cid[cur]}] /\ UNCHANGED faults
           \/ UNCHANGED boxes /\ Fault("docker")
  /\ UNCHANGED <<queue, results, record, runs, file, booting, todo, hand>>

\* set_container(job_id, None)
ForgetStale ==
  /\ at = "forget"
  /\ cid' = [cid EXCEPT ![cur] = 0]
  /\ at' = "mark"
  /\ UNCHANGED <<queue, results, rec, docker, booting, todo, hand, faults>>

\* The compare-and-swap received -> launching; its answer is not looked at.
MarkLaunching ==
  /\ at = "mark"
  /\ rec' = [rec EXCEPT ![cur] = IF @ = "received" THEN "launching" ELSE @]
  /\ at' = "launch"
  /\ UNCHANGED <<queue, results, cid, docker, booting, todo, hand, faults>>

\* docker run --rm --name spawner-<job>: refused while a container holds the name.
Launch ==
  /\ at = "launch"
  /\ boxes[cur] = {}
  /\ runs' = [runs EXCEPT ![cur] = @ + 1]
  /\ boxes' = [boxes EXCEPT ![cur] = @ \cup {runs[cur] + 1}]
  /\ here' = runs[cur] + 1
  /\ at' = "record"
  /\ UNCHANGED <<queue, results, record, file, booting, todo, cur, verdict, faults>>

\* LaunchError
LaunchFails ==
  /\ at = "launch"
  /\ \/ boxes[cur] # {} /\ UNCHANGED faults
     \/ Fault("docker")
  /\ Raise
  /\ UNCHANGED <<queue, results, record, docker>>

\* The compare-and-swap launching -> running(container_id); its answer is not looked at.
MarkRunning ==
  /\ at = "record"
  /\ IF rec[cur] = "launching"
       THEN rec' = [rec EXCEPT ![cur] = "running"] /\ cid' = [cid EXCEPT ![cur] = here]
       ELSE UNCHANGED record
  /\ at' = "attach"
  /\ UNCHANGED <<queue, results, docker, booting, todo, hand, faults>>

\* docker wait on a container that is still there.
Attach ==
  /\ at = "attach"
  /\ here \in boxes[cur]
  /\ at' = "wait"
  /\ UNCHANGED <<queue, results, record, docker, booting, todo, hand, faults>>

\* docker wait on one that is gone, or one that fails while it waits.
WaitFails ==
  /\ \/ at = "attach" /\ here \notin boxes[cur] /\ UNCHANGED faults
     \/ at \in {"attach", "wait"} /\ here \in boxes[cur] /\ Fault("docker")
  /\ Raise
  /\ UNCHANGED <<queue, results, record, docker>>

\* The container has ended: the result.json it left, or an error in its stead.
ReadResult ==
  /\ at = "wait"
  /\ here \notin boxes[cur]
  /\ verdict' = IF file[cur] = "none" THEN "error" ELSE file[cur]
  /\ at' = "publish"
  /\ UNCHANGED <<queue, results, record, docker, booting, todo, cur, here, faults>>

\* An event of the run could not be published: tail_task raises out of the finally.
TailFails ==
  /\ at = "wait"
  /\ here \notin boxes[cur]
  /\ Fault("bus")
  /\ Raise
  /\ UNCHANGED <<queue, results, record, docker>>

Publish ==
  /\ at = "publish"
  /\ results' = [results EXCEPT ![cur] = Append(@, verdict)]
  /\ at' = "settle"
  /\ UNCHANGED <<queue, record, docker, booting, todo, hand, faults>>

\* Mutant: a publish that fails is logged and the job goes on, as for its other events.
PublishIsBestEffort ==
  /\ at = "publish"
  /\ Fault("bus")
  /\ at' = "settle"
  /\ UNCHANGED <<queue, results, record, docker, booting, todo, hand>>

\* The publish raises; the frame may have reached the stream all the same.
PublishFails ==
  /\ at = "publish"
  /\ Fault("bus")
  /\ \/ UNCHANGED results
     \/ results' = [results EXCEPT ![cur] = Append(@, verdict)]
  /\ Raise
  /\ UNCHANGED <<queue, record, docker>>

\* mark_terminal, on a record that is not terminal.
MarkTerminal ==
  /\ at = "settle"
  /\ rec' = [rec EXCEPT ![cur] = IF @ \in Terminal THEN @ ELSE verdict]
  /\ IF booting THEN Finish ELSE at' = "ack" /\ UNCHANGED <<booting, todo, hand>>
  /\ UNCHANGED <<queue, results, cid, docker, faults>>

-----------------------------------------------------------------------------
(* Containers *)

\* A container ends. The last thing it did was to rename result.json into place, or it left
\* the file of an earlier run, or none. One that ends before docker wait has been issued
\* counts as a fault.
Exit(j, n, outcome) ==
  /\ n \in boxes[j]
  /\ IF cur = j /\ here = n /\ at \in {"record", "attach"} THEN Fault("race") ELSE UNCHANGED faults
  /\ boxes' = [boxes EXCEPT ![j] = @ \ {n}]
  /\ file' = [file EXCEPT ![j] = IF outcome = "none" THEN @ ELSE outcome]
  /\ UNCHANGED <<queue, results, record, runs, at, booting, todo, hand>>

-----------------------------------------------------------------------------
(* Start and end of the process *)

\* Boot reconciliation comes before the pull loop: list_nonterminal.
Boot ==
  /\ at = "down"
  /\ at' = "boot"
  /\ booting' = TRUE
  /\ todo' = Unfinished
  /\ UNCHANGED <<queue, results, record, docker, hand, faults>>

\* reconcile_record: a live container on record is waited out, anything else is an error.
\* The oldest record goes first in the code; here any.
Reconcile(j) ==
  /\ at = "boot" /\ j \in todo
  /\ todo' = todo \ {j}
  /\ cur' = j
  /\ \/ /\ rec[j] = "running" /\ Inspect(j, TRUE)
        /\ at' = "attach" /\ here' = cid[j]
     \/ /\ \/ rec[j] = "running" /\ Inspect(j, FALSE)
           \/ rec[j] # "running" /\ UNCHANGED faults
        /\ at' = "publish" /\ UNCHANGED here
  /\ verdict' = "error"
  /\ UNCHANGED <<queue, results, record, docker, booting>>

StartPulling ==
  /\ at = "boot" /\ todo = {}
  /\ at' = "idle"
  /\ booting' = FALSE
  /\ UNCHANGED <<queue, results, record, docker, todo, hand, faults>>

Halt ==
  /\ at' = "down"
  /\ booting' = FALSE
  /\ todo' = {}
  /\ cur' = NoJob
  /\ here' = 0
  /\ verdict' = "error"

\* The process ends: killed, or its pull loop cancelled by a stop. Containers live on.
Crash ==
  /\ at # "down"
  /\ Fault("crash")
  /\ Halt
  /\ UNCHANGED <<queue, results, record, docker>>

\* The machine restarts: no container survives.
Reboot ==
  /\ at # "down"
  /\ Fault("reboot")
  /\ Halt
  /\ boxes' = [j \in Jobs |-> {}]
  /\ UNCHANGED <<queue, results, record, runs, file>>

-----------------------------------------------------------------------------

\* What the process does on its own.
Step ==
  \/ Reject \/ Ack
  \/ DecideLaunch \/ DecideAck \/ DecideAgain
  \/ RemoveStale \/ ForgetStale \/ MarkLaunching
  \/ Launch \/ LaunchFails \/ MarkRunning
  \/ Attach \/ WaitFails \/ ReadResult \/ TailFails
  \/ Publish \/ PublishFails \/ MarkTerminal
  \/ Boot \/ (\E j \in Jobs : Reconcile(j)) \/ StartPulling

Next ==
  \/ Step
  \/ Crash
  \/ Reboot
  \/ \E j \in Jobs :
       \/ Dispatch(j) \/ AckWaitExpires(j) \/ Fetch(j)
       \/ \E n \in boxes[j], outcome \in Terminal \cup {"none"} : Exit(j, n, outcome)

Spec == Init /\ [][Next]_vars

\* pm2 keeps the process running and it does not stop on its way; JetStream redelivers what
\* was not acked; sandbox-runner's wall clock ends every container.
Fairness ==
  /\ WF_vars(Step)
  /\ \A j \in Jobs : WF_vars(AckWaitExpires(j)) /\ WF_vars(Fetch(j))
                     /\ WF_vars(\E n \in boxes[j], outcome \in Terminal \cup {"none"} :
                                  Exit(j, n, outcome))

FairSpec == Spec /\ Fairness

-----------------------------------------------------------------------------
(* Properties *)

Places == {"down", "boot", "idle", "reject", "decide", "remove", "forget", "mark", "launch",
           "record", "attach", "wait", "publish", "settle", "ack"}

\* Types; a message is never delivered more than max_deliver times.
TypeOK ==
  /\ msg \in [Jobs -> {"unsent", "ready", "out", "acked"}]
  /\ deliveries \in [Jobs -> 0..MaxDeliver]
  /\ results \in [Jobs -> Seq(Terminal)]
  /\ rec \in [Jobs -> {"absent", "received", "launching", "running"} \cup Terminal]
  /\ cid \in [Jobs -> Nat]
  /\ boxes \in [Jobs -> SUBSET Nat]
  /\ runs \in [Jobs -> Nat]
  /\ file \in [Jobs -> {"none"} \cup Terminal]
  /\ at \in Places
  /\ booting \in BOOLEAN
  /\ todo \subseteq Jobs
  /\ cur \in Jobs \cup {NoJob}
  /\ here \in Nat
  /\ verdict \in Terminal
  /\ faults \in 0..MaxFaults

\* store.py: one container per job under redelivery, whatever docker and the process do.
OneContainerPerJob ==
  \A j \in Jobs : \A m, n \in boxes[j] : m = n

\* consumer.py acks terminally only: a message that is gone left a terminal record behind,
\* and the last .result the dispatcher saw is the one on record.
AckedIsAnswered ==
  \A j \in Jobs \ Foreign :
    msg[j] = "acked" => rec[j] \in Terminal /\ results[j] # <<>>

\* A terminal record says what the last .result said: publish comes first, and a record that
\* is terminal is never published for again.
TerminalIsPublished ==
  \A j \in Jobs :
    rec[j] \in Terminal => results[j] # <<>> /\ results[j][Len(results[j])] = rec[j]

\* The record, the containers and the bus agree, at every step between two of their writes.
JobInv == TypeOK /\ OneContainerPerJob /\ AckedIsAnswered /\ TerminalIsPublished

\* Once a record is terminal no delivery or restart changes it, publishes for it again or
\* starts another container for it.
TerminalIsFinal ==
  [][\A j \in Jobs :
       rec[j] \in Terminal =>
         /\ rec'[j] = rec[j] /\ results'[j] = results[j] /\ runs'[j] = runs[j]]_vars

\* A container that still runs is waited out: unless more than one thing went wrong, nothing
\* but its own end, or that of the machine, takes it away.
LiveWorkIsNotKilled ==
  [][faults <= 1 =>
       \A j \in Jobs : boxes[j] \ boxes'[j] # {} => at' \in {at, "down"}]_vars

\* The records, the bus and the containers as the abstract jobs of JobLifecycle.
Lifecycle == INSTANCE JobLifecycle WITH
  frames <- results,
  live <- [j \in Jobs |-> boxes[j] # {}],
  outcome <- [j \in Jobs |-> IF rec[j] \in Terminal THEN rec[j] ELSE "none"],
  drained <- [j \in Jobs |-> msg[j] = "acked"],
  Outcomes <- Terminal,
  Nothing <- "none"

\* The spawner does what JobLifecycle promises.
ImplementsLifecycle == Lifecycle!Spec

\* A job goes through its lifecycle, what has been settled is not undone and what runs is not
\* killed, whoever comes late.
NothingIsUndone == ImplementsLifecycle /\ TerminalIsFinal /\ LiveWorkIsNotKilled

\* If no more than one thing goes wrong, every job of this machine gets a .result and its
\* message is drained. Two can strand it: a container that is not on record, for one, holds
\* the name until max_deliver is used up.
EveryJobAnswered ==
  [](faults <= 1) =>
    \A j \in Jobs \ Foreign : msg[j] = "ready" ~> results[j] # <<>> /\ msg[j] = "acked"
=============================================================================

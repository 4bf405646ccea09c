-------------------------- MODULE SpawnerJobsProofs --------------------------
(***************************************************************************)
(* Proofs about the spawner, for any number of jobs, deliveries and        *)
(* faults: the record, the containers and the bus agree between any two of *)
(* their writes, and what is settled stays so.                             *)
(***************************************************************************)
EXTENDS SpawnerJobs, TLAPS

\* Where the process works on a record that is not terminal.
Working == {"remove", "forget", "mark", "launch", "record", "attach", "wait", "publish",
            "settle"}

\* What the process holds, and where: a foreign job is never recorded, a record is worked on
\* while it is not terminal, published for before it is made so, and boot reconciliation has
\* each record in its hands once.
HandInv ==
  /\ \A j \in Foreign : rec[j] = "absent"
  /\ at \in Working => cur \in Unfinished
  /\ at = "decide" => cur \in Jobs \ Foreign
  /\ at = "reject" => cur \in Foreign
  /\ at = "ack" => cur \in Foreign \/ (cur \in Jobs /\ rec[cur] \in Terminal)
  /\ at = "settle" => results[cur] # <<>> /\ results[cur][Len(results[cur])] = verdict
  /\ at = "down" => cur = NoJob
  /\ todo \subseteq Unfinished \ {cur}
  /\ ~booting => todo = {}
  /\ at = "idle" => ~booting

\* Until something goes wrong the job in hand is the only one that is not settled, and its
\* container the only one that runs; it takes another fault to look at a live one and find it
\* dead.
FaultInv ==
  /\ faults = 0 =>
       /\ \A j \in Unfinished : cur = j /\ at \in Working
       /\ \A j \in Jobs :
            boxes[j] # {} => cur = j /\ at \in {"record", "attach", "wait"} /\ boxes[j] = {here}
       /\ at \in {"record", "attach"} => here \in boxes[cur]
  /\ at = "remove" =>
       /\ faults # 0
       /\ faults <= 1 => cid[cur] = 0 \/ cid[cur] \notin boxes[cur]

IInv == JobInv /\ HandInv /\ FaultInv

LEMMA InitIInv == Init => IInv
<1> SUFFICES ASSUME Init PROVE IInv
  OBVIOUS
<1>1. TypeOK
  <2>1. booting \in BOOLEAN
    BY DEF Init
  <2>2. QED BY <2>1, SpawnerAssumption DEF Init, TypeOK, Places, Terminal
<1>2. OneContainerPerJob /\ AckedIsAnswered /\ TerminalIsPublished
  BY DEF Init, OneContainerPerJob, AckedIsAnswered, TerminalIsPublished, Terminal
<1>3. HandInv
  BY SpawnerAssumption DEF Init, HandInv, Unfinished, Recorded, Working
<1>4. FaultInv
  BY DEF Init, FaultInv, Unfinished, Recorded
<1>5. QED BY <1>1, <1>2, <1>3, <1>4 DEF IInv, JobInv

LEMMA FaultCounts ==
  ASSUME TypeOK, NEW kind, Fault(kind)
  PROVE  faults' = faults + 1 /\ faults' \in 0..MaxFaults /\ faults \in Nat
  BY SpawnerAssumption DEF TypeOK, Fault

LEMMA FinishTypes ==
  ASSUME TypeOK, Finish
  PROVE  /\ at' \in {"boot", "idle"} /\ at' \in Places /\ (at' = "idle" => ~booting)
         /\ cur' = NoJob /\ here' = 0 /\ here' \in Nat /\ verdict' \in Terminal
         /\ UNCHANGED <<booting, todo>>
  BY DEF TypeOK, Finish, Places, Terminal

\* A step that writes neither the record, the bus nor docker leaves their agreement alone.
LEMMA MoveJobInv ==
  ASSUME IInv, TypeOK', UNCHANGED <<queue, results, record, docker>>
  PROVE  JobInv'
  BY DEF IInv, JobInv, OneContainerPerJob, AckedIsAnswered, TerminalIsPublished, queue, record,
         docker

LEMMA DecideIInv ==
  ASSUME IInv, DecideAck \/ DecideAgain
  PROVE  IInv'
<1>1. UNCHANGED <<queue, results, record, docker, booting, todo, cur, verdict>>
  BY DEF DecideAck, DecideAgain, hand
<1>2. TypeOK'
  <2>1. faults' \in 0..MaxFaults
    BY FaultCounts DEF IInv, JobInv, TypeOK, DecideAck, DecideAgain, Inspect
  <2>2. here' \in Nat /\ at' \in Places
    BY DEF IInv, JobInv, TypeOK, HandInv, DecideAck, DecideAgain, hand, Places
  <2>3. QED BY <1>1, <2>1, <2>2 DEF IInv, JobInv, TypeOK, queue, record, docker
<1>3. HandInv'
  BY <1>1
  DEF IInv, JobInv, TypeOK, HandInv, DecideAck, DecideAgain, Unfinished, Recorded, Working,
              queue, record, docker
<1>4. FaultInv'
  <2>1. CASE DecideAck
    BY <2>1, <1>1
    DEF IInv, FaultInv, DecideAck, Unfinished, Recorded, Working, record, docker, hand
  <2>2. CASE DecideAgain
    <3>1. faults # 0
      BY <2>2 DEF IInv, FaultInv, DecideAgain, Working
    <3>2. /\ faults' # 0
          /\ at' = "remove" /\ faults' <= 1 => cid[cur] = 0 \/ cid[cur] \notin boxes[cur]
      BY <2>2, <3>1, FaultCounts DEF IInv, JobInv, TypeOK, DecideAgain, Inspect
    <3>3. QED BY <1>1, <3>2 DEF FaultInv, record, docker
  <2>3. QED BY <2>1, <2>2
<1>5. QED BY <1>1, <1>2, <1>3, <1>4, MoveJobInv DEF IInv

\* The job in hand claims a record, and nothing has gone wrong or another was at fault.
LEMMA DecideLaunchIInv ==
  ASSUME IInv, DecideLaunch
  PROVE  IInv'
<1>1. cur \in Jobs \ Foreign /\ rec[cur] = "absent"
  BY DEF IInv, HandInv, DecideLaunch
<1>2. TypeOK'
  BY <1>1 DEF IInv, JobInv, TypeOK, DecideLaunch, queue, docker, hand, Places
<1>3. OneContainerPerJob' /\ AckedIsAnswered' /\ TerminalIsPublished'
  BY <1>1 DEF IInv, JobInv, TypeOK, OneContainerPerJob, AckedIsAnswered, TerminalIsPublished,
              DecideLaunch, queue, docker, Terminal
<1>4. HandInv'
  BY <1>1
  DEF IInv, JobInv, TypeOK, HandInv, DecideLaunch, Unfinished, Recorded, Working, Terminal,
              hand
<1>5. FaultInv'
  BY <1>1
  DEF IInv, JobInv, TypeOK, FaultInv, DecideLaunch, Unfinished, Recorded, Working, Terminal,
              docker, hand
<1>6. QED BY <1>2, <1>3, <1>4, <1>5 DEF IInv, JobInv

\* What the process does to a record that it works on, short of making it terminal.
LEMMA RecordIInv ==
  ASSUME IInv, ForgetStale \/ MarkLaunching \/ MarkRunning
  PROVE  IInv'
<1>1. /\ cur \in Jobs /\ rec[cur] \in {"received", "launching", "running"}
      /\ UNCHANGED <<queue, results, docker, booting, todo, hand, faults>>
      /\ at \in Working \ {"settle", "remove"} /\ at' \in Working \ {"settle", "remove"}
  BY DEF IInv, JobInv, TypeOK, HandInv, ForgetStale, MarkLaunching, MarkRunning, Unfinished,
         Recorded, Working, Terminal
<1>2. /\ rec' \in [Jobs -> {"absent", "received", "launching", "running"} \cup Terminal]
      /\ cid' \in [Jobs -> Nat]
      /\ \A j \in Jobs : j # cur => rec'[j] = rec[j]
      /\ rec'[cur] \in {"received", "launching", "running"}
  <2>1. CASE ForgetStale
    BY <1>1, <2>1 DEF IInv, JobInv, TypeOK, ForgetStale
  <2>2. CASE MarkLaunching
    BY <1>1, <2>2 DEF IInv, JobInv, TypeOK, MarkLaunching
  <2>3. CASE MarkRunning
    BY <1>1, <2>3 DEF IInv, JobInv, TypeOK, MarkRunning, record
  <2>4. QED BY <2>1, <2>2, <2>3
<1>3. TypeOK'
  BY <1>1, <1>2 DEF IInv, JobInv, TypeOK, queue, docker, hand, Places, Working
<1>4. OneContainerPerJob' /\ AckedIsAnswered' /\ TerminalIsPublished'
  BY <1>1, <1>2 DEF IInv, JobInv, OneContainerPerJob, AckedIsAnswered, TerminalIsPublished,
                    queue, docker, Terminal
<1>5. Unfinished' = Unfinished
  BY <1>1, <1>2 DEF IInv, JobInv, TypeOK, Unfinished, Recorded, Terminal
<1>6. HandInv'
  <2>1. \A j \in Foreign : rec'[j] = "absent"
    BY <1>1, <1>2, SpawnerAssumption DEF IInv, HandInv
  <2>2. QED BY <1>1, <1>5, <2>1 DEF IInv, HandInv, Working, hand
<1>7. FaultInv'
  <2>1. CASE ForgetStale \/ MarkLaunching
    BY <1>1, <1>5, <2>1
    DEF IInv, FaultInv, ForgetStale, MarkLaunching, Working, docker, hand
  <2>2. CASE MarkRunning
    BY <1>1, <1>5, <2>2 DEF IInv, FaultInv, MarkRunning, Working, docker, hand
  <2>3. QED BY <2>1, <2>2
<1>8. QED BY <1>3, <1>4, <1>6, <1>7 DEF IInv, JobInv

\* The record says what was published last, and the job in hand is settled.
LEMMA MarkTerminalIInv ==
  ASSUME IInv, MarkTerminal
  PROVE  IInv'
<1>1. /\ cur \in Jobs /\ rec[cur] \in {"received", "launching", "running"}
      /\ results[cur] # <<>> /\ results[cur][Len(results[cur])] = verdict
      /\ verdict \in Terminal
  BY DEF IInv, JobInv, TypeOK, HandInv, MarkTerminal, Unfinished, Recorded, Working, Terminal
<1>2. rec' = [rec EXCEPT ![cur] = verdict]
  BY <1>1 DEF MarkTerminal, Terminal
<1>3. /\ UNCHANGED <<queue, results, cid, docker, faults, booting, todo>>
      /\ \/ at' = "boot" /\ booting /\ cur' = NoJob /\ here' = 0 /\ verdict' = "error"
         \/ at' = "ack" /\ UNCHANGED hand
  BY DEF MarkTerminal, Finish
<1>4. TypeOK'
  BY <1>1, <1>2, <1>3 DEF IInv, JobInv, TypeOK, queue, docker, hand, Places, Terminal
<1>5. OneContainerPerJob' /\ AckedIsAnswered' /\ TerminalIsPublished'
  BY <1>1, <1>2, <1>3 DEF IInv, JobInv, TypeOK, OneContainerPerJob, AckedIsAnswered,
                          TerminalIsPublished, queue, docker
<1>6. Unfinished' = Unfinished \ {cur}
  BY <1>1, <1>2 DEF IInv, JobInv, TypeOK, Unfinished, Recorded, Terminal
<1>7. HandInv'
  <2>1. \A j \in Foreign : rec'[j] = "absent"
    BY <1>1, <1>2, SpawnerAssumption DEF IInv, JobInv, TypeOK, HandInv
  <2>2. todo \subseteq Unfinished' \ {cur'}
    BY <1>1, <1>3, <1>6, SpawnerAssumption DEF IInv, JobInv, TypeOK, HandInv, hand, Unfinished,
                                               Recorded
  <2>3. cur \in Jobs /\ rec'[cur] \in Terminal
    BY <1>1, <1>2 DEF IInv, JobInv, TypeOK
  <2>4. QED BY <1>3, <2>1, <2>2, <2>3 DEF IInv, HandInv, Working, hand
<1>8. FaultInv'
  BY <1>1, <1>3, <1>6 DEF IInv, FaultInv, MarkTerminal, docker, hand, Working
<1>9. QED BY <1>4, <1>5, <1>7, <1>8 DEF IInv, JobInv

\* A run that ends or fails on its way: an exception puts the job down.
LEMMA RaiseIInv ==
  ASSUME IInv, LaunchFails \/ WaitFails \/ TailFails
  PROVE  IInv'
<1>1. Finish /\ UNCHANGED <<queue, results, record, docker>>
  BY DEF LaunchFails, WaitFails, TailFails, Raise
<1>2. /\ faults' \in 0..MaxFaults /\ faults \in Nat
      /\ faults' = faults \/ faults' = faults + 1
  BY FaultCounts DEF IInv, JobInv, TypeOK, LaunchFails, WaitFails, TailFails
<1>3. faults' # 0
  <2>1. CASE faults' = faults
    <3>1. cur \in Jobs /\ at \in {"launch", "attach"}
      BY <1>2, <2>1, FaultCounts DEF IInv, JobInv, HandInv, LaunchFails, WaitFails, TailFails,
                                     Unfinished, Recorded, Working
    <3>2. boxes[cur] # {} \/ here \notin boxes[cur]
      BY <1>2, <2>1, FaultCounts DEF IInv, JobInv, LaunchFails, WaitFails, TailFails
    <3>3. faults # 0
      BY <2>1, <3>1, <3>2, FaultCounts
      DEF IInv, JobInv, FaultInv, LaunchFails, WaitFails, TailFails
    <3>4. QED BY <2>1, <3>3
  <2>2. QED BY <1>2, <2>1
<1>4. TypeOK'
  BY <1>1, <1>2, FinishTypes DEF IInv, JobInv, TypeOK, queue, record, docker
<1>5. HandInv'
  BY <1>1, FinishTypes, SpawnerAssumption
  DEF IInv, JobInv, TypeOK, HandInv, Unfinished, Recorded, Working, record
<1>6. FaultInv'
  BY <1>1, <1>3, FinishTypes DEF IInv, JobInv, FaultInv
<1>7. QED BY <1>1, <1>4, <1>5, <1>6, MoveJobInv DEF IInv

LEMMA WaitIInv ==
  ASSUME IInv, Attach \/ ReadResult
  PROVE  IInv'
<1>1. /\ UNCHANGED <<queue, results, record, docker, booting, todo, cur, here, faults>>
      /\ at \in {"attach", "wait"} /\ at' \in {"wait", "publish"}
  BY DEF Attach, ReadResult, hand
<1>2. TypeOK'
  <2>1. verdict' \in Terminal
    BY DEF IInv, JobInv, TypeOK, HandInv, Attach, ReadResult, hand, Working, Unfinished,
           Recorded, Terminal
  <2>2. QED BY <1>1, <2>1 DEF IInv, JobInv, TypeOK, queue, record, docker, Places
<1>3. HandInv'
  BY <1>1 DEF IInv, HandInv, Unfinished, Recorded, Working, record
<1>4. FaultInv'
  BY <1>1 DEF IInv, FaultInv, Attach, ReadResult, Unfinished, Recorded, Working, record, docker
<1>5. QED BY <1>1, <1>2, <1>3, <1>4, MoveJobInv DEF IInv

\* Only for a record that is not terminal, or a foreign job that has none.
LEMMA ResultsIInv ==
  ASSUME IInv, Reject \/ Publish \/ PublishFails
  PROVE  IInv'
<1>1. /\ cur \in Jobs /\ rec[cur] \notin Terminal
      /\ UNCHANGED <<queue, record, docker, booting, todo>>
  BY SpawnerAssumption
  DEF IInv, JobInv, TypeOK, HandInv, Reject, Publish, PublishFails, Raise, Finish, Unfinished,
      Recorded, Working, Terminal
<1>2. \/ results' = results
      \/ \E v \in Terminal : results' = [results EXCEPT ![cur] = Append(@, v)]
  BY DEF IInv, JobInv, TypeOK, Reject, Publish, PublishFails, Terminal
<1>3. /\ results' \in [Jobs -> Seq(Terminal)]
      /\ \A j \in Jobs : j # cur => results'[j] = results[j]
      /\ results[cur] # <<>> => results'[cur] # <<>>
  <2>1. ASSUME NEW v \in Terminal
        PROVE  Append(results[cur], v) \in Seq(Terminal) \ {<<>>}
    <3>1. results[cur] \in Seq(Terminal)
      BY <1>1 DEF IInv, JobInv, TypeOK
    <3>2. QED BY <3>1
  <2>2. QED BY <1>1, <1>2, <2>1 DEF IInv, JobInv, TypeOK
<1>4. /\ faults' \in 0..MaxFaults /\ faults \in Nat
      /\ faults' = faults \/ faults' = faults + 1
  BY FaultCounts DEF IInv, JobInv, TypeOK, Reject, Publish, PublishFails
<1>5. /\ at' \in Places /\ cur' \in Jobs \cup {NoJob} /\ here' \in Nat /\ verdict' \in Terminal
  BY FinishTypes DEF IInv, JobInv, TypeOK, Reject, Publish, PublishFails, Raise, hand, Places
<1>6. TypeOK'
  BY <1>1, <1>3, <1>4, <1>5 DEF IInv, JobInv, TypeOK, queue, record, docker
<1>7. OneContainerPerJob' /\ AckedIsAnswered' /\ TerminalIsPublished'
  BY <1>1, <1>3 DEF IInv, JobInv, TypeOK, OneContainerPerJob, AckedIsAnswered,
                    TerminalIsPublished, queue, record, docker
<1>8. Unfinished' = Unfinished
  BY <1>1 DEF Unfinished, Recorded, record
<1>9. HandInv'
  <2>1. CASE Reject
    BY <1>1, <1>8, <2>1 DEF IInv, HandInv, Reject, Working, record, hand
  <2>2. CASE Publish
    <3>1. results'[cur] # <<>> /\ results'[cur][Len(results'[cur])] = verdict
      BY <1>1, <2>2 DEF IInv, JobInv, TypeOK, Publish
    <3>2. QED BY <1>1, <1>8, <2>2, <3>1 DEF IInv, HandInv, Publish, Working, record, hand
  <2>3. CASE PublishFails
    BY <1>1, <1>8, <2>3, FinishTypes, SpawnerAssumption
    DEF IInv, JobInv, TypeOK, HandInv, PublishFails, Raise, Unfinished, Recorded, Working, record
  <2>4. QED BY <2>1, <2>2, <2>3
<1>10. FaultInv'
  <2>1. CASE Reject
    BY <1>1, <1>4, <1>8, <2>1 DEF IInv, FaultInv, Reject, Working, record, docker, hand
  <2>2. CASE Publish
    BY <1>1, <1>8, <2>2 DEF IInv, FaultInv, Publish, Working, record, docker, hand
  <2>3. CASE PublishFails
    <3>1. faults' # 0
      BY <2>3, FaultCounts DEF IInv, JobInv, PublishFails
    <3>2. QED BY <2>3, <3>1, FinishTypes DEF IInv, JobInv, FaultInv, PublishFails, Raise
  <2>4. QED BY <2>1, <2>2, <2>3
<1>11. QED BY <1>6, <1>7, <1>9, <1>10 DEF IInv, JobInv

\* docker run is refused while a container holds the job's name.
LEMMA LaunchIInv ==
  ASSUME IInv, Launch
  PROVE  IInv'
<1>1. cur \in Unfinished /\ cur \in Jobs
  BY DEF IInv, HandInv, Launch, Working, Unfinished, Recorded
<1>2. TypeOK'
  BY <1>1 DEF IInv, JobInv, TypeOK, Launch, queue, record, Places
<1>3. OneContainerPerJob' /\ AckedIsAnswered' /\ TerminalIsPublished'
  BY <1>1 DEF IInv, JobInv, TypeOK, OneContainerPerJob, AckedIsAnswered, TerminalIsPublished,
              Launch, queue, record
<1>4. Unfinished' = Unfinished
  BY DEF Launch, Unfinished, Recorded, record
<1>5. HandInv'
  BY <1>1, <1>4 DEF IInv, HandInv, Launch, Working, record
<1>6. FaultInv'
  BY <1>1, <1>4 DEF IInv, JobInv, TypeOK, FaultInv, Launch, Working, record
<1>7. QED BY <1>2, <1>3, <1>5, <1>6 DEF IInv, JobInv

LEMMA RemoveStaleIInv ==
  ASSUME IInv, RemoveStale
  PROVE  IInv'
<1>1. /\ cur \in Unfinished /\ cur \in Jobs /\ faults # 0
      /\ UNCHANGED <<queue, results, record, runs, file, booting, todo, hand>>
      /\ at = "remove" /\ at' \in {"mark", "forget"}
  BY DEF IInv, HandInv, FaultInv, RemoveStale, Working, Unfinished, Recorded
<1>2. /\ boxes' \in [Jobs -> SUBSET Nat]
      /\ \A j \in Jobs : boxes'[j] \subseteq boxes[j]
  BY <1>1 DEF IInv, JobInv, TypeOK, RemoveStale
<1>3. faults' \in 0..MaxFaults /\ faults' # 0
  BY <1>1, FaultCounts DEF IInv, JobInv, TypeOK, RemoveStale
<1>4. TypeOK'
  BY <1>1, <1>2, <1>3 DEF IInv, JobInv, TypeOK, queue, record, hand, Places
<1>5. OneContainerPerJob' /\ AckedIsAnswered' /\ TerminalIsPublished'
  BY <1>1, <1>2 DEF IInv, JobInv, OneContainerPerJob, AckedIsAnswered, TerminalIsPublished,
                    queue, record
<1>6. Unfinished' = Unfinished
  BY <1>1 DEF Unfinished, Recorded, record
<1>7. HandInv'
  BY <1>1, <1>6 DEF IInv, HandInv, Working, record, hand
<1>8. FaultInv'
  BY <1>1, <1>3 DEF FaultInv
<1>9. QED BY <1>4, <1>5, <1>7, <1>8 DEF IInv, JobInv

\* A container that ends before docker wait has been issued counts as a fault.
LEMMA ExitIInv ==
  ASSUME IInv, NEW j \in Jobs, NEW n \in boxes[j], NEW outcome \in Terminal \cup {"none"},
         Exit(j, n, outcome)
  PROVE  IInv'
<1>1. /\ UNCHANGED <<queue, results, record, runs, at, booting, todo, hand>>
      /\ boxes' = [boxes EXCEPT ![j] = @ \ {n}]
  BY DEF Exit
<1>2. /\ faults' \in 0..MaxFaults /\ faults \in Nat
      /\ faults' = faults \/ faults' = faults + 1
  BY FaultCounts DEF IInv, JobInv, TypeOK, Exit
<1>3. TypeOK'
  <2>1. file' \in [Jobs -> {"none"} \cup Terminal]
    BY DEF IInv, JobInv, TypeOK, Exit
  <2>2. QED BY <1>1, <1>2, <2>1 DEF IInv, JobInv, TypeOK, queue, record, hand
<1>4. OneContainerPerJob' /\ AckedIsAnswered' /\ TerminalIsPublished'
  BY <1>1 DEF IInv, JobInv, TypeOK, OneContainerPerJob, AckedIsAnswered, TerminalIsPublished,
              queue, record
<1>5. Unfinished' = Unfinished
  BY <1>1 DEF Unfinished, Recorded, record
<1>6. HandInv'
  BY <1>1, <1>5 DEF IInv, HandInv, record, hand
<1>7. FaultInv'
  <2>1. ASSUME faults' = 0, at \in {"record", "attach"}
        PROVE  here \in boxes'[cur]
    BY <1>1, <1>2, <2>1, FaultCounts
    DEF IInv, JobInv, TypeOK, HandInv, FaultInv, Exit, Unfinished, Recorded, Working
  <2>2. ASSUME faults' = 0, NEW i \in Jobs, boxes'[i] # {}
        PROVE  cur = i /\ at \in {"record", "attach", "wait"} /\ boxes'[i] = {here}
    BY <1>1, <1>2, <2>2 DEF IInv, JobInv, TypeOK, FaultInv
  <2>3. ASSUME at = "remove"
        PROVE  /\ faults' # 0
               /\ faults' <= 1 => cid[cur] = 0 \/ cid[cur] \notin boxes'[cur]
    BY <1>1, <1>2, <2>3
    DEF IInv, JobInv, TypeOK, HandInv, FaultInv, Unfinished, Recorded, Working
  <2>4. faults' = 0 => \A i \in Unfinished : cur = i /\ at \in Working
    BY <1>2 DEF IInv, FaultInv
  <2>5. QED BY <1>1, <1>5, <2>1, <2>2, <2>3, <2>4 DEF FaultInv, hand, record
<1>8. QED BY <1>3, <1>4, <1>6, <1>7 DEF IInv, JobInv

LEMMA QueueIInv ==
  ASSUME IInv, NEW j \in Jobs, Dispatch(j) \/ AckWaitExpires(j) \/ Fetch(j)
  PROVE  IInv'
<1>1. /\ UNCHANGED <<results, record, docker, booting, todo, here, verdict>>
      /\ msg' = [msg EXCEPT ![j] = msg'[j]] /\ msg'[j] \in {"ready", "out"}
      /\ deliveries' \in [Jobs -> 0..MaxDeliver]
  <2>1. CASE Dispatch(j) \/ AckWaitExpires(j)
    BY <2>1 DEF IInv, JobInv, TypeOK, Dispatch, AckWaitExpires, hand
  <2>2. CASE Fetch(j)
    <3>1. deliveries[j] + 1 \in 0..MaxDeliver
      BY <2>2, SpawnerAssumption DEF IInv, JobInv, TypeOK, Fetch
    <3>2. QED BY <2>2, <3>1 DEF IInv, JobInv, TypeOK, Fetch
  <2>3. QED BY <2>1, <2>2
<1>2. /\ faults' \in 0..MaxFaults /\ faults \in Nat
      /\ faults' = faults \/ faults' = faults + 1
  BY FaultCounts DEF IInv, JobInv, TypeOK, Dispatch, AckWaitExpires, Fetch
<1>3. /\ at' \in Places /\ cur' \in Jobs \cup {NoJob}
      /\ \/ UNCHANGED <<at, cur>>
         \/ at = "idle" /\ cur' = j /\ at' = IF j \in Foreign THEN "reject" ELSE "decide"
  BY DEF IInv, JobInv, TypeOK, Dispatch, AckWaitExpires, Fetch, hand, Places
<1>4. TypeOK'
  BY <1>1, <1>2, <1>3 DEF IInv, JobInv, TypeOK, record, docker
<1>5. OneContainerPerJob' /\ AckedIsAnswered' /\ TerminalIsPublished'
  BY <1>1 DEF IInv, JobInv, TypeOK, OneContainerPerJob, AckedIsAnswered, TerminalIsPublished,
              record, docker
<1>6. Unfinished' = Unfinished
  BY <1>1 DEF Unfinished, Recorded, record
<1>7. HandInv'
  BY <1>1, <1>3, <1>6 DEF IInv, HandInv, Working, record
<1>8. FaultInv'
  BY <1>1, <1>2, <1>3, <1>6 DEF IInv, FaultInv, Working, record, docker
<1>9. QED BY <1>4, <1>5, <1>7, <1>8 DEF IInv, JobInv

\* Acked is what the decision table or a publish has left terminal, or a foreign job.
LEMMA AckIInv ==
  ASSUME IInv, Ack
  PROVE  IInv'
<1>1. /\ UNCHANGED <<deliveries, results, record, docker, faults>>
      /\ cur \in Jobs
      /\ cur \in Foreign \/ rec[cur] \in Terminal
      /\ msg' = [msg EXCEPT ![cur] = "acked"]
  BY SpawnerAssumption DEF IInv, HandInv, Ack
<1>2. Finish
  BY DEF Ack
<1>3. TypeOK'
  BY <1>1, <1>2, FinishTypes DEF IInv, JobInv, TypeOK, record, docker
<1>4. OneContainerPerJob' /\ AckedIsAnswered' /\ TerminalIsPublished'
  BY <1>1 DEF IInv, JobInv, TypeOK, OneContainerPerJob, AckedIsAnswered, TerminalIsPublished,
              record, docker
<1>5. Unfinished' = Unfinished
  BY <1>1 DEF Unfinished, Recorded, record
<1>6. HandInv'
  BY <1>1, <1>2, <1>5, FinishTypes, SpawnerAssumption
  DEF IInv, JobInv, HandInv, Working, Unfinished, Recorded, record
<1>7. FaultInv'
  BY <1>1, <1>2, <1>5, FinishTypes DEF IInv, JobInv, FaultInv, Ack, Working, docker, record
<1>8. QED BY <1>3, <1>4, <1>6, <1>7 DEF IInv, JobInv

\* The boot takes up each record that is not terminal, once, before anything is pulled.
LEMMA BootIInv ==
  ASSUME IInv, Boot \/ StartPulling
  PROVE  IInv'
<1>1. /\ UNCHANGED <<queue, results, record, docker, hand, faults>>
      /\ at \in {"down", "boot"} /\ at' \in {"boot", "idle"} /\ at' \in Places
      /\ Unfinished' = Unfinished
  BY DEF Boot, StartPulling, Unfinished, Recorded, record, Places
<1>2. booting' \in BOOLEAN
  BY DEF Boot, StartPulling
<1>3. TypeOK'
  BY <1>1, <1>2
  DEF IInv, JobInv, TypeOK, Boot, StartPulling, Unfinished, Recorded, queue, record, docker, hand
<1>4. HandInv'
  <2>1. CASE Boot
    BY <1>1, <2>1, SpawnerAssumption
    DEF IInv, HandInv, Boot, Unfinished, Recorded, Working, record, hand
  <2>2. CASE StartPulling
    BY <1>1, <2>2 DEF IInv, HandInv, StartPulling, Working, record, hand
  <2>3. QED BY <2>1, <2>2
<1>5. FaultInv'
  BY <1>1 DEF IInv, FaultInv, Working, record, docker, hand
<1>6. QED BY <1>1, <1>3, <1>4, <1>5, MoveJobInv DEF IInv

LEMMA ReconcileIInv ==
  ASSUME IInv, NEW j \in Jobs, Reconcile(j)
  PROVE  IInv'
<1>1. /\ UNCHANGED <<queue, results, record, docker, booting>>
      /\ at = "boot" /\ j \in todo /\ j \in Unfinished
      /\ todo' = todo \ {j} /\ cur' = j /\ verdict' = "error"
      /\ at' \in {"attach", "publish"}
  BY DEF IInv, HandInv, Reconcile
<1>2. Unfinished' = Unfinished
  BY <1>1 DEF Unfinished, Recorded, record
<1>3. /\ faults' \in 0..MaxFaults /\ faults \in Nat
      /\ faults' = faults \/ faults' = faults + 1
  BY FaultCounts DEF IInv, JobInv, TypeOK, Reconcile, Inspect
<1>4. TypeOK'
  <2>1. here' \in Nat
    BY DEF IInv, JobInv, TypeOK, Reconcile
  <2>2. QED
    BY <1>1, <1>3, <2>1 DEF IInv, JobInv, TypeOK, queue, record, docker, Places, Terminal
<1>5. HandInv'
  BY <1>1, <1>2 DEF IInv, HandInv, Working, record
<1>6. faults # 0
  BY <1>1 DEF IInv, FaultInv, Working
<1>7. FaultInv'
  BY <1>1, <1>3, <1>6 DEF FaultInv
<1>8. QED BY <1>1, <1>4, <1>5, <1>7, MoveJobInv DEF IInv

LEMMA HaltIInv ==
  ASSUME IInv, Crash \/ Reboot
  PROVE  IInv'
<1>1. /\ UNCHANGED <<queue, results, record, runs, file>>
      /\ at' = "down" /\ todo' = {} /\ cur' = NoJob /\ here' = 0 /\ verdict' = "error"
      /\ \A j \in Jobs : boxes'[j] \in {boxes[j], {}}
  BY DEF Crash, Reboot, Halt, docker
<1>2. booting' = FALSE /\ booting' \in BOOLEAN
  BY DEF Crash, Reboot, Halt
<1>3. faults' \in 0..MaxFaults /\ faults' # 0
  BY FaultCounts DEF IInv, JobInv, Crash, Reboot
<1>4. boxes' \in [Jobs -> SUBSET Nat]
  BY DEF IInv, JobInv, TypeOK, Crash, Reboot, docker
<1>5. TypeOK'
  BY <1>1, <1>2, <1>3, <1>4 DEF IInv, JobInv, TypeOK, queue, record, Places, Terminal
<1>6. OneContainerPerJob' /\ AckedIsAnswered' /\ TerminalIsPublished'
  BY <1>1 DEF IInv, JobInv, OneContainerPerJob, AckedIsAnswered, TerminalIsPublished, queue,
              record
<1>7. HandInv'
  BY <1>1, <1>2 DEF IInv, HandInv, Working, record
<1>8. FaultInv'
  BY <1>1, <1>3 DEF FaultInv
<1>9. QED BY <1>5, <1>6, <1>7, <1>8 DEF IInv, JobInv

LEMMA NextIInv == IInv /\ [Next]_vars => IInv'
<1> SUFFICES ASSUME IInv, [Next]_vars PROVE IInv'
  OBVIOUS
<1>1. CASE UNCHANGED vars
  BY <1>1 DEF IInv, JobInv, TypeOK, OneContainerPerJob, AckedIsAnswered, TerminalIsPublished,
              HandInv, FaultInv, Unfinished, Recorded, vars, queue, record, docker, hand
<1>2. CASE Step
  BY <1>2, DecideIInv, DecideLaunchIInv, RecordIInv, MarkTerminalIInv, RaiseIInv, WaitIInv,
     ResultsIInv, LaunchIInv, RemoveStaleIInv, AckIInv, BootIInv, ReconcileIInv
  DEF Step
<1>3. CASE Crash \/ Reboot
  BY <1>3, HaltIInv
<1>4. ASSUME NEW j \in Jobs,
             \/ Dispatch(j) \/ AckWaitExpires(j) \/ Fetch(j)
             \/ \E n \in boxes[j], outcome \in Terminal \cup {"none"} : Exit(j, n, outcome)
      PROVE  IInv'
  BY <1>4, QueueIInv, ExitIInv
<1>5. QED BY <1>1, <1>2, <1>3, <1>4 DEF Next

\* The inductive invariant, which accounts for every job and container by what the process has
\* in hand, holds in every reachable state.
THEOREM Invariance == Spec => []IInv
  BY InitIInv, NextIInv, PTL DEF Spec

(* Between any two writes of the process, and whenever it dies, no job has two containers,  *)
(* a message that was acked is answered, and a terminal record is the one published         *)
(* (consumer.py's "ack only when terminal", store.py's "one container per job").            *)
THEOREM JobsAgree == Spec => []JobInv
  BY Invariance, PTL DEF IInv

-----------------------------------------------------------------------------

\* Nobody who comes late has a terminal record in hand.
LEMMA TerminalStep ==
  ASSUME IInv, [Next]_vars, NEW j \in Jobs, rec[j] \in Terminal
  PROVE  rec'[j] = rec[j] /\ results'[j] = results[j] /\ runs'[j] = runs[j]
<1>1. j \notin Unfinished /\ j \notin Foreign /\ rec[j] # "absent"
  BY DEF IInv, HandInv, Unfinished, Recorded, Terminal
<1>2. /\ at \in Working => cur # j
      /\ at = "reject" => cur # j
      /\ at = "decide" /\ rec[cur] = "absent" => cur # j
  BY <1>1 DEF IInv, HandInv
<1>3. CASE DecideLaunch \/ ForgetStale \/ MarkLaunching \/ MarkRunning \/ MarkTerminal
  BY <1>2, <1>3
  DEF IInv, JobInv, TypeOK, DecideLaunch, ForgetStale, MarkLaunching, MarkRunning,
      MarkTerminal, Working, record, docker
<1>4. CASE Reject \/ Publish \/ PublishFails \/ Launch \/ RemoveStale
  BY <1>2, <1>4
  DEF IInv, JobInv, TypeOK, Reject, Publish, PublishFails, Launch, RemoveStale, Working,
      record, docker
<1>5. CASE \/ Ack \/ DecideAck \/ DecideAgain \/ LaunchFails \/ Attach \/ WaitFails
           \/ ReadResult \/ TailFails \/ Boot \/ StartPulling \/ Crash \/ Reboot
           \/ UNCHANGED vars
  BY <1>5 DEF Ack, DecideAck, DecideAgain, LaunchFails, Attach, WaitFails, ReadResult,
              TailFails, Boot, StartPulling, Crash, Reboot, vars, record, docker
<1>6. ASSUME NEW i \in Jobs,
             \/ Reconcile(i) \/ Dispatch(i) \/ AckWaitExpires(i) \/ Fetch(i)
             \/ \E n \in boxes[i], outcome \in Terminal \cup {"none"} : Exit(i, n, outcome)
      PROVE  UNCHANGED <<rec, results, runs>>
  BY <1>6 DEF Reconcile, Dispatch, AckWaitExpires, Fetch, Exit, record, docker
<1>7. QED BY <1>3, <1>4, <1>5, <1>6 DEF Next, Step

\* With one fault at most, the container that is removed as stale has ended.
LEMMA KillStep ==
  ASSUME IInv, [Next]_vars, faults <= 1, NEW j \in Jobs, boxes[j] \ boxes'[j] # {}
  PROVE  at' \in {at, "down"}
<1>1. CASE RemoveStale
  <2>1. cid[cur] = 0 \/ cid[cur] \notin boxes[cur]
    BY <1>1 DEF IInv, FaultInv, RemoveStale
  <2>2. boxes' = boxes
    BY <1>1, <2>1 DEF IInv, JobInv, TypeOK, RemoveStale
  <2>3. QED BY <2>2
<1>2. CASE Launch
  BY <1>2 DEF IInv, JobInv, TypeOK, Launch
<1>3. CASE \E i \in Jobs : \E n \in boxes[i], outcome \in Terminal \cup {"none"} :
             Exit(i, n, outcome)
  BY <1>3 DEF Exit
<1>4. CASE Reboot
  BY <1>4 DEF Reboot, Halt
<1>5. CASE \/ Step /\ ~RemoveStale /\ ~Launch
           \/ Crash
           \/ \E i \in Jobs : Dispatch(i) \/ AckWaitExpires(i) \/ Fetch(i)
           \/ UNCHANGED vars
  BY <1>5 DEF Step, Crash, Dispatch, AckWaitExpires, Fetch, Reject, Ack, DecideLaunch, DecideAck,
     DecideAgain, ForgetStale, MarkLaunching, LaunchFails, MarkRunning, Attach, WaitFails,
     ReadResult, TailFails, Publish, PublishFails, MarkTerminal, Boot, Reconcile, StartPulling,
     vars, docker
<1>6. QED BY <1>1, <1>2, <1>3, <1>4, <1>5 DEF Next

-----------------------------------------------------------------------------
(* SpawnerJobs implements JobLifecycle *)

LEMMA LifecycleInit == Init => Lifecycle!Init
  BY DEF Init, Lifecycle!Init, Terminal

\* Neither settled nor drained any job, and neither a frame nor the last container of one came
\* or went.
LEMMA LifecycleStutter ==
  ASSUME UNCHANGED <<results, boxes>>,
         \A j \in Jobs : rec'[j] = rec[j] \/ {rec[j], rec'[j]} \cap Terminal = {},
         \A j \in Jobs : msg'[j] = msg[j] \/ "acked" \notin {msg[j], msg'[j]}
  PROVE  UNCHANGED Lifecycle!vars
<1>1. \A j \in Jobs : boxes'[j] = boxes[j]
  OBVIOUS
<1>2. [j \in Jobs |-> boxes[j] # {}]' = [j \in Jobs |-> boxes[j] # {}]
  BY <1>1
<1>3. ASSUME NEW j \in Jobs
      PROVE  (IF rec'[j] \in Terminal THEN rec'[j] ELSE "none")
               = (IF rec[j] \in Terminal THEN rec[j] ELSE "none")
  OBVIOUS
<1>4. [j \in Jobs |-> IF rec[j] \in Terminal THEN rec[j] ELSE "none"]'
        = [j \in Jobs |-> IF rec[j] \in Terminal THEN rec[j] ELSE "none"]
  BY <1>3
<1>5. \A j \in Jobs : (msg'[j] = "acked") = (msg[j] = "acked")
  OBVIOUS
<1>6. [j \in Jobs |-> msg[j] = "acked"]' = [j \in Jobs |-> msg[j] = "acked"]
  BY <1>5
<1>7. QED BY <1>2, <1>4, <1>6 DEF Lifecycle!vars

LEMMA LaunchIsStart ==
  ASSUME IInv, NEW i \in Jobs, cur = i, Launch
  PROVE  Lifecycle!Next
<1>1. /\ cur \in Jobs \ Foreign /\ rec[cur] \notin Terminal
      /\ boxes[cur] = {} /\ boxes' = [boxes EXCEPT ![cur] = @ \cup {runs[cur] + 1}]
      /\ UNCHANGED <<results, rec, msg>>
  BY DEF IInv, HandInv, Working, Unfinished, Recorded, Launch, record, queue
<1>2. [j \in Jobs |-> boxes[j] # {}]'
        = [[j \in Jobs |-> boxes[j] # {}] EXCEPT ![cur] = TRUE]
  <2>1. ASSUME NEW j \in Jobs
        PROVE  (boxes'[j] # {}) = (IF j = cur THEN TRUE ELSE boxes[j] # {})
    BY <1>1 DEF IInv, JobInv, TypeOK
  <2>2. QED BY <1>1, <2>1
<1>3. Lifecycle!Start(i)
  BY <1>1, <1>2 DEF Lifecycle!Start
<1>4. QED BY <1>1, <1>3 DEF Lifecycle!Next

\* Containers end, and none starts.
LEMMA BoxesEnd ==
  ASSUME boxes' \in [Jobs -> SUBSET Nat], \A j \in Jobs : boxes'[j] \subseteq boxes[j],
         UNCHANGED <<results, rec, msg>>
  PROVE  Lifecycle!Next
<1>1. PICK S \in SUBSET Jobs : S = {j \in Jobs : boxes'[j] = {}}
  OBVIOUS
<1>2. ASSUME NEW j \in Jobs
      PROVE  (boxes'[j] # {}) = (boxes[j] # {} /\ j \notin S)
  BY <1>1
<1>3. Lifecycle!End(S)
  BY <1>2 DEF Lifecycle!End
<1>4. QED BY <1>3 DEF Lifecycle!Next

LEMMA FrameIsReport ==
  ASSUME NEW j \in Jobs, NEW o \in Terminal, rec[j] \notin Terminal,
         results' = [results EXCEPT ![j] = Append(@, o)], UNCHANGED <<boxes, rec, msg>>
  PROVE  Lifecycle!Next
<1>1. Lifecycle!Report(j, o)
  BY DEF Lifecycle!Report
<1>2. QED BY <1>1 DEF Lifecycle!Next

LEMMA MarkTerminalIsSettle ==
  ASSUME IInv, NEW i \in Jobs, cur = i, MarkTerminal
  PROVE  Lifecycle!Next
<1>1. /\ cur \in Jobs \ Foreign /\ rec[cur] \notin Terminal
      /\ results[cur] # <<>> /\ verdict = results[cur][Len(results[cur])]
      /\ verdict \in Terminal
      /\ rec' = [rec EXCEPT ![cur] = verdict]
      /\ UNCHANGED <<results, boxes, msg>>
  BY DEF IInv, JobInv, TypeOK, HandInv, Working, Unfinished, Recorded, MarkTerminal, docker,
         queue
<1>2. [j \in Jobs |-> IF rec[j] \in Terminal THEN rec[j] ELSE "none"]'
        = [[j \in Jobs |-> IF rec[j] \in Terminal THEN rec[j] ELSE "none"]
             EXCEPT ![cur] = results[cur][Len(results[cur])]]
  <2>1. ASSUME NEW j \in Jobs
        PROVE  (IF rec'[j] \in Terminal THEN rec'[j] ELSE "none")
                 = IF j = cur THEN results[cur][Len(results[cur])]
                   ELSE IF rec[j] \in Terminal THEN rec[j] ELSE "none"
    BY <1>1 DEF IInv, JobInv, TypeOK
  <2>2. QED BY <1>1, <2>1
<1>3. Lifecycle!Settle(i)
  BY <1>1, <1>2 DEF Lifecycle!Settle, Terminal
<1>4. QED BY <1>1, <1>3 DEF Lifecycle!Next

LEMMA AckIsDrain ==
  ASSUME IInv, NEW i \in Jobs, cur = i, Ack
  PROVE  Lifecycle!Next
<1>1. /\ cur \in Foreign \/ rec[cur] \in Terminal
      /\ cur \in Jobs
      /\ msg' = [msg EXCEPT ![cur] = "acked"]
      /\ UNCHANGED <<results, rec, boxes>>
  BY SpawnerAssumption DEF IInv, HandInv, Ack, record, docker
<1>2. [j \in Jobs |-> msg[j] = "acked"]'
        = [[j \in Jobs |-> msg[j] = "acked"] EXCEPT ![cur] = TRUE]
  <2>1. ASSUME NEW j \in Jobs
        PROVE  (msg'[j] = "acked") = (IF j = cur THEN TRUE ELSE msg[j] = "acked")
    BY <1>1 DEF IInv, JobInv, TypeOK
  <2>2. QED BY <1>1, <2>1
<1>3. Lifecycle!Drain(i)
  BY <1>1, <1>2 DEF Lifecycle!Drain, Terminal
<1>4. QED BY <1>1, <1>3 DEF Lifecycle!Next

LEMMA LifecycleStep == IInv /\ [Next]_vars => [Lifecycle!Next]_(Lifecycle!vars)
<1> SUFFICES ASSUME IInv, [Next]_vars
             PROVE  Lifecycle!Next \/ UNCHANGED Lifecycle!vars
  OBVIOUS
<1>1. CASE Launch \/ MarkTerminal \/ Ack
  <2>1. cur \in Jobs
    BY <1>1, SpawnerAssumption
    DEF IInv, HandInv, Working, Unfinished, Recorded, Launch, MarkTerminal, Ack
  <2>2. PICK i \in Jobs : cur = i
    BY <2>1
  <2>3. QED BY <1>1, <2>2, LaunchIsStart, MarkTerminalIsSettle, AckIsDrain
<1>2. CASE Reject \/ Publish \/ PublishFails
  <2>1. cur \in Jobs /\ rec[cur] \notin Terminal /\ verdict \in Terminal
    BY <1>2, SpawnerAssumption
    DEF IInv, JobInv, TypeOK, HandInv, Working, Unfinished, Recorded, Reject, Publish,
        PublishFails, Terminal
  <2>2. PICK o \in Terminal :
          \/ results' = [results EXCEPT ![cur] = Append(@, o)]
          \/ UNCHANGED results
    BY <1>2, <2>1 DEF Reject, Publish, PublishFails, Terminal
  <2>3. UNCHANGED <<boxes, rec, msg>>
    BY <1>2 DEF Reject, Publish, PublishFails, queue, record, docker
  <2>4. PICK i \in Jobs : cur = i
    BY <2>1
  <2>5. CASE results' = [results EXCEPT ![i] = Append(@, o)]
    BY <2>1, <2>3, <2>4, <2>5, FrameIsReport
  <2>6. CASE UNCHANGED results
    BY <2>3, <2>6, LifecycleStutter
  <2>7. QED BY <2>2, <2>4, <2>5, <2>6
<1>3. CASE RemoveStale \/ Reboot
  <2>1. \A j \in Jobs : boxes'[j] \subseteq boxes[j]
    BY <1>3 DEF IInv, JobInv, TypeOK, RemoveStale, Reboot
  <2>2. UNCHANGED <<results, rec, msg>>
    BY <1>3 DEF RemoveStale, Reboot, queue, record
  <2>3. boxes' \in [Jobs -> SUBSET Nat]
    BY <1>3 DEF IInv, JobInv, TypeOK, RemoveStale, Reboot
  <2>4. QED BY <2>1, <2>2, <2>3, BoxesEnd
<1>4. ASSUME NEW j \in Jobs, NEW n \in boxes[j], NEW o \in Terminal \cup {"none"},
             Exit(j, n, o)
      PROVE  Lifecycle!Next
  <2>1. \A i \in Jobs : boxes'[i] \subseteq boxes[i]
    BY <1>4 DEF IInv, JobInv, TypeOK, Exit
  <2>2. UNCHANGED <<results, rec, msg>>
    BY <1>4 DEF Exit, queue, record
  <2>3. boxes' \in [Jobs -> SUBSET Nat]
    BY <1>4 DEF IInv, JobInv, TypeOK, Exit
  <2>4. QED BY <2>1, <2>2, <2>3, BoxesEnd
<1>5. CASE DecideLaunch \/ MarkLaunching \/ MarkRunning
  <2>1. \A j \in Jobs : rec'[j] = rec[j] \/ {rec[j], rec'[j]} \cap Terminal = {}
    BY <1>5 DEF IInv, JobInv, TypeOK, DecideLaunch, MarkLaunching, MarkRunning, Terminal, record
  <2>2. UNCHANGED <<results, boxes, msg>>
    BY <1>5 DEF DecideLaunch, MarkLaunching, MarkRunning, queue, docker
  <2>3. QED BY <2>1, <2>2, LifecycleStutter
<1>6. ASSUME NEW j \in Jobs, Dispatch(j) \/ AckWaitExpires(j) \/ Fetch(j)
      PROVE  UNCHANGED Lifecycle!vars
  <2>1. \A i \in Jobs : msg'[i] = msg[i] \/ "acked" \notin {msg[i], msg'[i]}
    BY <1>6 DEF IInv, JobInv, TypeOK, Dispatch, AckWaitExpires, Fetch
  <2>2. UNCHANGED <<results, boxes, rec>>
    BY <1>6 DEF Dispatch, AckWaitExpires, Fetch, record, docker
  <2>3. QED BY <2>1, <2>2, LifecycleStutter
<1>7. CASE \/ DecideAck \/ DecideAgain \/ ForgetStale \/ LaunchFails \/ Attach \/ WaitFails
           \/ ReadResult \/ TailFails \/ Boot \/ (\E j \in Jobs : Reconcile(j))
           \/ StartPulling \/ Crash \/ UNCHANGED vars
  <2>1. UNCHANGED <<results, boxes, rec, msg>>
    BY <1>7
    DEF DecideAck, DecideAgain, ForgetStale, LaunchFails, Attach, WaitFails, ReadResult,
        TailFails, Boot, Reconcile, StartPulling, Crash, vars, queue, record, docker
  <2>2. QED BY <2>1, LifecycleStutter
<1>8. QED BY <1>1, <1>2, <1>3, <1>4, <1>5, <1>6, <1>7 DEF Next, Step

(* The spawner does what JobLifecycle promises: whatever fails and however often a job is    *)
(* delivered, it is settled by its last frame, then left alone, off the queue only           *)
(* afterwards, and a job of another machine is not run (consumer.py, processor.py).          *)
THEOREM Implementation == Spec => ImplementsLifecycle
  BY LifecycleInit, LifecycleStep, Invariance, PTL
  DEF Spec, ImplementsLifecycle, Lifecycle!Spec

-----------------------------------------------------------------------------

(* Whoever comes late, a redelivery, a second fetch or a restart, changes no terminal       *)
(* record, publishes for none and starts no container for one; and unless more than one     *)
(* thing goes wrong no container is removed while it runs (processor.py's decision table).  *)
THEOREM NothingIsUndoneHolds == Spec => NothingIsUndone
<1>1. IInv /\ [Next]_vars =>
        [\A j \in Jobs :
           rec[j] \in Terminal =>
             /\ rec'[j] = rec[j] /\ results'[j] = results[j] /\ runs'[j] = runs[j]]_vars
  BY TerminalStep
<1>2. IInv /\ [Next]_vars =>
        [faults <= 1 =>
           \A j \in Jobs : boxes[j] \ boxes'[j] # {} => at' \in {at, "down"}]_vars
  BY KillStep
<1>3. QED
  BY <1>1, <1>2, Invariance, Implementation, PTL DEF Spec, NothingIsUndone, TerminalIsFinal,
     LiveWorkIsNotKilled
=============================================================================

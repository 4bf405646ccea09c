--------------------------- MODULE LauncherProofs ---------------------------
(***************************************************************************)
(* Proofs about the launcher, for any number of messages, any capacity and *)
(* any faults: no way out of the bridge or of a handler loses a slot, a    *)
(* task starts under both gates and once, and no worker outlives its kill; *)
(* and about any envelope: one that is accepted stays within the policy.   *)
(***************************************************************************)
EXTENDS Launcher, Envelopes, FiniteSetTheorems, TLAPS

\* Which message the bridge has, and where: the server's answer exists while the bridge polls,
\* the claim from its return until it is started or bounced. Neither that message nor one that
\* was never claimed has ever had a handler or a worker.
HandsInv ==
  /\ wire # Nothing => at = "polling"
  /\ (hand # Nothing) <=> (at \in {"claimed", "bouncing"})
  /\ \A m \in Messages :
       /\ status[m] \in {"absent", "queued"} => m \notin {wire, hand}
       /\ status[m] \in {"absent", "queued"} \/ m \in {wire, hand} =>
            task[m] = "none" /\ group[m] = "none"

\* A handler and its worker: which stages have one, which have none left, and which workers
\* a shutdown has on its list.
WorkersInv ==
  /\ at \in Down => Inflight = {}
  /\ \A m \in Messages :
       /\ task[m] = "running" => group[m] = "none"
       /\ task[m] \in {"watching", "killing"} => group[m] # "none"
       /\ task[m] = "replying" => group[m] \notin {"up", "deaf"}
       /\ at = "ending" /\ m \in Inflight /\ group[m] \in {"up", "deaf"} => m \in doomed \cup late

\* Handlers are counted, however many messages there are.
Counted == IsFiniteSet(Inflight) /\ SlotsConserved

IInv == TypeOK /\ Counted /\ HandsInv /\ WorkersInv
-----------------------------------------------------------------------------
(* Counting the handlers *)

\* The same handlers.
LEMMA SameTasks ==
  ASSUME Counted, \A m \in Messages : task'[m] = "none" <=> task[m] = "none"
  PROVE  IsFiniteSet(Inflight') /\ Cardinality(Inflight') = Cardinality(Inflight)
<1>1. Inflight' = Inflight
  BY DEF Inflight
<1>2. QED BY <1>1 DEF Counted

\* One handler more.
LEMMA MoreTasks ==
  ASSUME TypeOK, Counted, NEW m \in Messages, task[m] = "none",
         task' = [task EXCEPT ![m] = "running"]
  PROVE  IsFiniteSet(Inflight') /\ Cardinality(Inflight') = Cardinality(Inflight) + 1
<1>1. Inflight' = Inflight \cup {m} /\ m \notin Inflight
  BY DEF Inflight, TypeOK
<1>2. QED BY <1>1, FS_AddElement DEF Counted

\* One handler fewer.
LEMMA FewerTasks ==
  ASSUME TypeOK, Counted, NEW m \in Messages, task[m] # "none",
         task' = [task EXCEPT ![m] = "none"]
  PROVE  IsFiniteSet(Inflight') /\ Cardinality(Inflight') = Cardinality(Inflight) - 1
<1>1. Inflight' = Inflight \ {m} /\ m \in Inflight
  BY DEF Inflight, TypeOK
<1>2. QED BY <1>1, FS_RemoveElement DEF Counted

\* No handler.
LEMMA NoTasks ==
  ASSUME task' = [m \in Messages |-> "none"]
  PROVE  Inflight' = {} /\ IsFiniteSet(Inflight') /\ Cardinality(Inflight') = 0
<1>1. Inflight' = {}
  BY DEF Inflight
<1>2. QED BY <1>1, FS_EmptySet

\* A handler is one handler at least.
LEMMA SomeTask ==
  ASSUME Counted, NEW m \in Messages, task[m] # "none"
  PROVE  Cardinality(Inflight) \in Nat \ {0}
<1>1. m \in Inflight
  BY DEF Inflight
<1>2. QED BY <1>1, FS_EmptySet, FS_CardinalityType DEF Counted

LEMMA CountIsNat ==
  ASSUME Counted PROVE Cardinality(Inflight) \in Nat /\ MaxConcurrent \in Nat \ {0}
  BY FS_CardinalityType, LauncherAssumption DEF Counted

-----------------------------------------------------------------------------
(* Steps that leave slots, handlers, workers and hands alone *)

LEMMA QuietIInv ==
  ASSUME IInv, TypeOK', UNCHANGED <<slots, task, group, late, doomed, wire, hand>>,
         \A m \in Messages : status'[m] \in {"absent", "queued"} =>
           status[m] \in {"absent", "queued"},
         \/ at' = at
         \/ at \in {"stopping", "off"} /\ at' = "off"
         \/ /\ at \notin {"ending", "polling", "claimed", "bouncing"}
            /\ at' \notin {"ending", "polling", "claimed", "bouncing", "off", "stopping"}
  PROVE  IInv'
<1>1. Counted'
  <2>1. IsFiniteSet(Inflight') /\ Cardinality(Inflight') = Cardinality(Inflight)
    BY SameTasks DEF IInv
  <2>2. QED BY <2>1 DEF IInv, Counted, SlotsConserved, HoldsSlot
<1>2. HandsInv'
  BY DEF IInv, HandsInv
<1>3. WorkersInv'
  <2>1. Inflight' = Inflight
    BY DEF Inflight
  <2>2. QED BY <2>1 DEF IInv, WorkersInv, Down
<1>4. QED BY <1>1, <1>2, <1>3 DEF IInv

\* The flags keep their type.
Flags == {reaped, confirmed, abandoned, dead, relay} \subseteq BOOLEAN

Rest ==
  /\ status \in [Messages -> {"absent", "queued", "delivered", "replied", "cancelled"}]
  /\ recipient \in [Messages -> {"us", "none", "other"}]
  /\ at \in Down \cup Connected \cup {"backoff", "connecting", "ending"}
  /\ slots \in 0 .. MaxConcurrent
  /\ task \in [Messages -> {"none", "running", "watching", "killing", "replying"}]
  /\ group \in [Messages -> {"none", "up", "deaf", "gone"}]
  /\ {late, doomed} \subseteq SUBSET Messages
  /\ {wire, hand} \subseteq Messages \cup {Nothing}
  /\ todo \subseteq Messages
  /\ conn \in {"none", "live", "lost", "denied"}

LEMMA TypeParts == TypeOK <=> Flags /\ Rest
  BY DEF TypeOK, Flags, Rest

LEMMA AnsweredType ==
  ASSUME TypeOK, NEW m \in Messages
  PROVE  /\ Answered(m) \in
              [Messages -> {"absent", "queued", "delivered", "replied", "cancelled"}]
         /\ \A n \in Messages : Answered(m)[n] \in {"absent", "queued"} =>
              status[n] \in {"absent", "queued"}
  BY DEF TypeOK, Answered

LEMMA HeartbeatIInv ==
  ASSUME IInv, Heartbeat
  PROVE  IInv'
<1>1. UNCHANGED <<rows, at, work, reaped, conn, relay, workers>>
  BY DEF Heartbeat, AnnounceOk, AnnounceRefused, AnnounceDenied, AnnounceFailed
<1>2. TypeOK'
  <2>1. Flags'
    BY DEF IInv, TypeOK, Flags, Heartbeat, AnnounceOk, AnnounceRefused, AnnounceDenied,
           AnnounceFailed
  <2>2. Rest'
    BY <1>1 DEF IInv, TypeOK, Rest, rows, work, workers
  <2>3. QED BY <2>1, <2>2, TypeParts, PTL
<1>3. QED BY <1>1, <1>2, QuietIInv DEF rows, work, workers

LEMMA ControllerIInv ==
  ASSUME IInv, NEW m \in Messages, Send(m) \/ Cancel(m) \/ Others(m)
  PROVE  IInv'
<1>1. UNCHANGED <<at, work, reaped, conn, gates, relay, workers>>
  BY DEF Send, Cancel, Others
<1>2. TypeOK'
  <2>1. Flags'
    BY <1>1 DEF IInv, TypeOK, Flags, gates
  <2>2. status' \in [Messages -> {"absent", "queued", "delivered", "replied", "cancelled"}]
        /\ recipient' \in [Messages -> {"us", "none", "other"}]
    BY AnsweredType DEF Send, Cancel, Others, IInv, TypeOK
  <2>3. Rest'
    BY <1>1, <2>2 DEF IInv, TypeOK, Rest, work, workers
  <2>4. QED BY <2>1, <2>3, TypeParts, PTL
<1>3. \A n \in Messages : status'[n] \in {"absent", "queued"} =>
        status[n] \in {"absent", "queued"}
  BY AnsweredType DEF Send, Cancel, Others, IInv, TypeOK
<1>4. QED BY <1>1, <1>2, <1>3, QuietIInv DEF work, workers

-----------------------------------------------------------------------------
(* The bridge *)

LEMMA BridgeMovesIInv ==
  ASSUME IInv, \/ Boot \/ BackoffOver \/ Connect \/ OwnerGate \/ RelayGate \/ LoseSession
               \/ LoseBearer
  PROVE  IInv'
<1>1. UNCHANGED <<rows, work, reaped, relay, workers>>
  BY DEF Boot, BackoffOver, Connect, OwnerGate, RelayGate, LoseSession, LoseBearer
<1>2. /\ at' \in Connected \cup {"backoff", "connecting"}
      /\ conn' \in {"none", "live", "lost", "denied"}
      /\ \/ at' = at
         \/ /\ at \notin {"ending", "polling", "claimed", "bouncing"}
            /\ at' \notin {"ending", "polling", "claimed", "bouncing", "off", "stopping"}
  BY DEF Boot, BackoffOver, Connect, OwnerGate, RelayGate, LoseSession, LoseBearer, Reconnect,
         IInv, TypeOK, Connected
<1>3. Flags'
  BY <1>1 DEF Boot, BackoffOver, Connect, OwnerGate, RelayGate, LoseSession, LoseBearer, gates,
              IInv, TypeOK, Flags
<1>4. Rest'
  BY <1>1, <1>2 DEF IInv, TypeOK, Rest, rows, work, workers
<1>5. TypeOK'
  BY <1>3, <1>4, TypeParts, PTL
<1>6. QED BY <1>1, <1>2, <1>5, QuietIInv DEF rows, work, workers

LEMMA ReapIInv ==
  ASSUME IInv, ReapList \/ ReapDone \/ \E m \in Messages : ReapReply(m)
  PROVE  IInv'
<1>1. UNCHANGED <<recipient, slots, task, wire, hand, conn, gates, relay, workers>>
  BY DEF ReapList, ReapDone, ReapReply, rows, work
<1>2. /\ status' \in [Messages -> {"absent", "queued", "delivered", "replied", "cancelled"}]
      /\ \A n \in Messages : status'[n] \in {"absent", "queued"} =>
           status[n] \in {"absent", "queued"}
  BY AnsweredType DEF IInv, TypeOK, ReapList, ReapDone, ReapReply, rows
<1>3. todo' \subseteq Messages
  BY DEF IInv, TypeOK, ReapList, ReapDone, ReapReply, work, Found, Ours, Claimed
<1>4. /\ at \in {"reap", "reaping"}
      /\ at' \in {"reap", "reaping", "slot"}
  BY DEF ReapList, ReapDone, ReapReply
<1>5. Flags'
  BY <1>1 DEF ReapList, ReapDone, ReapReply, IInv, TypeOK, Flags, gates
<1>6. Rest'
  BY <1>1, <1>2, <1>3, <1>4 DEF IInv, TypeOK, Rest, Connected, workers
<1>7. TypeOK'
  BY <1>5, <1>6, TypeParts, PTL
<1>8. QED BY <1>1, <1>2, <1>4, <1>7, QuietIInv DEF workers

\* A slot goes with the step into the poll, and comes back with the steps out of it and out
\* of a bounce.
LEMMA SlotIInv ==
  ASSUME IInv, AcquireSlot \/ PollTimesOut \/ PollBroken \/ Bounce
  PROVE  IInv'
<1>1. /\ UNCHANGED <<recipient, task, todo, reaped, gates, relay, workers>>
      /\ ~(at \in {"polling", "bouncing"}) => at = "slot"
      /\ at' \in {"backoff", "regate", "relaywait", "polling", "slot"}
      /\ conn' \in {conn, "none"}
  BY DEF AcquireSlot, PollTimesOut, PollBroken, Bounce, Reconnect, rows
<1>2. /\ status' \in [Messages -> {"absent", "queued", "delivered", "replied", "cancelled"}]
      /\ \A n \in Messages : status'[n] \in {"absent", "queued"} =>
           status[n] \in {"absent", "queued"}
  <2>1. CASE Bounce
    <3>1. hand \in Messages
      BY <2>1 DEF IInv, TypeOK, HandsInv, Bounce
    <3>2. QED BY <2>1, <3>1, AnsweredType DEF IInv, TypeOK, Bounce
  <2>2. CASE ~Bounce
    BY <2>2 DEF IInv, TypeOK, AcquireSlot, PollTimesOut, PollBroken, rows
  <2>3. QED BY <2>1, <2>2
<1>3. wire' = Nothing /\ hand' = Nothing
  BY DEF IInv, HandsInv, AcquireSlot, PollTimesOut, PollBroken, Bounce
<1>4. slots' = slots + (IF at \in HoldsSlot THEN 1 ELSE 0) - (IF at' \in HoldsSlot THEN 1 ELSE 0)
      /\ slots' >= 0
  BY LauncherAssumption
     DEF IInv, TypeOK, AcquireSlot, PollTimesOut, PollBroken, Bounce, Reconnect, HoldsSlot
<1>5. Counted'
  <2>1. IsFiniteSet(Inflight') /\ Cardinality(Inflight') = Cardinality(Inflight)
    BY <1>1, SameTasks DEF IInv
  <2>2. QED BY <1>1, <1>4, <2>1, CountIsNat, LauncherAssumption
            DEF IInv, TypeOK, Counted, SlotsConserved, HoldsSlot
<1>6. slots' \in 0..MaxConcurrent
  BY <1>1, <1>4, <1>5, CountIsNat, LauncherAssumption
     DEF IInv, TypeOK, Counted, SlotsConserved, HoldsSlot
<1>7. Flags'
  BY <1>1 DEF IInv, TypeOK, Flags, gates
<1>8. Rest'
  BY <1>1, <1>2, <1>3, <1>6 DEF IInv, TypeOK, Rest, Connected, workers
<1>9. TypeOK'
  BY <1>7, <1>8, TypeParts, PTL
<1>10. HandsInv'
  BY <1>1, <1>2, <1>3 DEF IInv, HandsInv, workers
<1>11. WorkersInv'
  <2>1. Inflight' = Inflight
    BY <1>1 DEF Inflight
  <2>2. QED BY <1>1, <2>1 DEF IInv, WorkersInv, Down, workers
<1>12. QED BY <1>5, <1>9, <1>10, <1>11 DEF IInv

LEMMA ClaimIInv ==
  ASSUME IInv, PollReturns \/ \E m \in Messages : ServerClaims(m)
  PROVE  IInv'
<1>1. /\ UNCHANGED <<recipient, slots, task, todo, reaped, conn, gates, relay, workers>>
      /\ at = "polling" /\ at' \in {"polling", "claimed"}
  BY DEF PollReturns, ServerClaims, rows
<1>2. status' \in [Messages -> {"absent", "queued", "delivered", "replied", "cancelled"}]
      /\ {wire', hand'} \subseteq Messages \cup {Nothing}
  BY DEF IInv, TypeOK, PollReturns, ServerClaims, rows
<1>3. Counted'
  <2>1. IsFiniteSet(Inflight') /\ Cardinality(Inflight') = Cardinality(Inflight)
    BY <1>1, SameTasks DEF IInv
  <2>2. QED BY <1>1, <2>1 DEF IInv, Counted, SlotsConserved, HoldsSlot
<1>4. Flags'
  BY <1>1 DEF IInv, TypeOK, Flags, gates
<1>5. Rest'
  BY <1>1, <1>2 DEF IInv, TypeOK, Rest, Connected, workers
<1>6. TypeOK'
  BY <1>4, <1>5, TypeParts, PTL
<1>7. HandsInv'
  <2>1. CASE PollReturns
    BY <2>1 DEF IInv, TypeOK, HandsInv, PollReturns, rows, workers
  <2>2. ASSUME NEW m \in Messages, ServerClaims(m) PROVE HandsInv'
    <3>1. hand' = Nothing /\ hand = Nothing /\ wire = Nothing /\ wire' = m /\ at' = at
          /\ status' = [status EXCEPT ![m] = "delivered"]
      BY <2>2 DEF IInv, HandsInv, ServerClaims
    <3>2. UNCHANGED <<task, group>>
      BY <1>1 DEF workers
    <3>3. QED BY <2>2, <3>1, <3>2, LauncherAssumption DEF IInv, TypeOK, HandsInv, ServerClaims
  <2>3. QED BY <2>1, <2>2
<1>8. WorkersInv'
  <2>1. Inflight' = Inflight
    BY <1>1 DEF Inflight
  <2>2. QED BY <1>1, <2>1 DEF IInv, WorkersInv, Down, workers
<1>9. QED BY <1>3, <1>6, <1>7, <1>8 DEF IInv

\* The slot goes from the bridge to the handler.
LEMMA StartIInv ==
  ASSUME IInv, StartOrBounce
  PROVE  IInv'
<1>1. UNCHANGED <<rows, slots, wire, todo, reaped, conn, gates, relay, workers>>
  BY DEF StartOrBounce
<1>2. /\ at = "claimed" /\ hand \in Messages /\ task[hand] = "none" /\ group[hand] = "none"
      /\ wire = Nothing /\ status[hand] \notin {"absent", "queued"}
  BY DEF IInv, TypeOK, HandsInv, StartOrBounce
<1>3. \/ /\ task' = [task EXCEPT ![hand] = "running"]
         /\ hand' = Nothing /\ at' = "slot"
      \/ at' = "bouncing" /\ UNCHANGED <<task, hand>>
  BY DEF StartOrBounce
<1>4. Counted'
  <2>1. CASE at' = "slot"
    <3>1. IsFiniteSet(Inflight') /\ Cardinality(Inflight') = Cardinality(Inflight) + 1
      BY <1>2, <1>3, <2>1, MoreTasks DEF IInv
    <3>2. QED BY <1>1, <1>2, <2>1, <3>1, CountIsNat, LauncherAssumption
              DEF IInv, TypeOK, Counted, SlotsConserved, HoldsSlot
  <2>2. CASE at' = "bouncing"
    <3>1. IsFiniteSet(Inflight') /\ Cardinality(Inflight') = Cardinality(Inflight)
      BY <1>3, <2>2, SameTasks DEF IInv
    <3>2. QED BY <1>1, <1>2, <2>2, <3>1 DEF IInv, Counted, SlotsConserved, HoldsSlot
  <2>3. QED BY <1>3, <2>1, <2>2
<1>5. Flags'
  BY <1>1 DEF IInv, TypeOK, Flags, gates
<1>6. Rest'
  BY <1>1, <1>2, <1>3 DEF IInv, TypeOK, Rest, Connected, rows, workers
<1>7. TypeOK'
  BY <1>5, <1>6, TypeParts, PTL
<1>8. HandsInv'
  BY <1>1, <1>2, <1>3 DEF IInv, TypeOK, HandsInv, rows, workers
<1>9. WorkersInv'
  BY <1>1, <1>2, <1>3 DEF IInv, TypeOK, WorkersInv, Down, workers
<1>10. QED BY <1>4, <1>7, <1>8, <1>9 DEF IInv

-----------------------------------------------------------------------------
(* The handlers and their workers *)

\* A step of a handler before its reply, or of its worker.
LEMMA HandlerIInv ==
  ASSUME IInv, NEW m \in Messages,
         TaskRefused(m) \/ Spawn(m) \/ WorkerEnds(m) \/ TaskEnds(m) \/ TaskTimesOut(m)
         \/ TaskKilled(m)
  PROVE  IInv'
<1>1. UNCHANGED <<rows, at, slots, wire, hand, todo, doomed, reaped, conn, gates, relay>>
  BY DEF TaskRefused, Spawn, WorkerEnds, TaskEnds, TaskTimesOut, TaskKilled, Handled, work
<1>2. /\ task' \in [Messages -> {"none", "running", "watching", "killing", "replying"}]
      /\ group' \in [Messages -> {"none", "up", "deaf", "gone"}]
      /\ late' \subseteq Messages /\ late \subseteq late'
      /\ task[m] # "none" \/ (task' = task /\ group[m] # "none")
      /\ \A n \in Messages : task'[n] = "none" <=> task[n] = "none"
      /\ \A n \in Messages \ {m} : task'[n] = task[n] /\ group'[n] = group[n]
  BY DEF TaskRefused, Spawn, WorkerEnds, TaskEnds, TaskTimesOut, TaskKilled, Handled, work,
         IInv, TypeOK, Killed
<1>3. Counted'
  <2>1. IsFiniteSet(Inflight') /\ Cardinality(Inflight') = Cardinality(Inflight)
    BY <1>2, SameTasks DEF IInv
  <2>2. QED BY <1>1, <2>1 DEF IInv, Counted, SlotsConserved, HoldsSlot
<1>4. Flags'
  BY <1>1 DEF IInv, TypeOK, Flags, gates
<1>5. Rest'
  BY <1>1, <1>2 DEF IInv, TypeOK, Rest, rows
<1>6. TypeOK'
  BY <1>4, <1>5, TypeParts, PTL
<1>7. HandsInv'
  BY <1>1, <1>2 DEF IInv, HandsInv, rows
<1>8. WorkersInv'
  <2>1. Inflight' = Inflight
    BY <1>2 DEF Inflight
  <2>2. /\ task'[m] = "running" => group'[m] = "none"
        /\ task'[m] \in {"watching", "killing"} => group'[m] # "none"
        /\ task'[m] = "replying" => group'[m] \notin {"up", "deaf"}
        /\ at = "ending" /\ m \in Inflight /\ group'[m] \in {"up", "deaf"} =>
             m \in doomed \cup late'
    BY DEF TaskRefused, Spawn, WorkerEnds, TaskEnds, TaskTimesOut, TaskKilled, Handled, work,
           IInv, TypeOK, Killed, WorkersInv
  <2>3. QED BY <1>1, <1>2, <2>1, <2>2 DEF IInv, WorkersInv
<1>9. QED BY <1>3, <1>6, <1>7, <1>8 DEF IInv

LEMMA RepliesIInv ==
  ASSUME IInv, NEW m \in Messages, TaskReplies(m)
  PROVE  IInv'
<1>1. /\ UNCHANGED <<recipient, at, wire, hand, todo, workers, reaped, conn, gates, relay>>
      /\ task' = [task EXCEPT ![m] = "none"] /\ task[m] = "replying"
      /\ slots' = slots + 1 /\ at \notin Down
  BY DEF TaskReplies
<1>2. /\ status' \in [Messages -> {"absent", "queued", "delivered", "replied", "cancelled"}]
      /\ \A n \in Messages : status'[n] \in {"absent", "queued"} =>
           status[n] \in {"absent", "queued"}
  BY AnsweredType DEF IInv, TypeOK, TaskReplies
<1>3. IsFiniteSet(Inflight') /\ Cardinality(Inflight') = Cardinality(Inflight) - 1
  BY <1>1, FewerTasks DEF IInv
<1>4. Counted'
  BY <1>1, <1>3, CountIsNat DEF IInv, TypeOK, Counted, SlotsConserved
<1>5. slots' \in 0..MaxConcurrent
  BY <1>1, SomeTask, CountIsNat DEF IInv, TypeOK, Counted, SlotsConserved
<1>6. Flags'
  BY <1>1 DEF IInv, TypeOK, Flags, gates
<1>7. Rest'
  BY <1>1, <1>2, <1>5 DEF IInv, TypeOK, Rest, workers
<1>8. TypeOK'
  BY <1>6, <1>7, TypeParts, PTL
<1>9. HandsInv'
  BY <1>1, <1>2 DEF IInv, TypeOK, HandsInv, workers
<1>10. WorkersInv'
  <2>1. Inflight' \subseteq Inflight
    BY <1>1 DEF Inflight, IInv, TypeOK
  <2>2. QED BY <1>1, <2>1 DEF IInv, TypeOK, WorkersInv, workers
<1>11. QED BY <1>4, <1>8, <1>9, <1>10 DEF IInv

-----------------------------------------------------------------------------
(* Shutdown, sweep, crash *)

\* The process, or what was left of it, is gone.
LEMMA GoneIInv ==
  ASSUME IInv, TypeOK', UNCHANGED <<status, group>>, at' \in Down, wire' = Nothing,
         hand' = Nothing, ForgetTasks
  PROVE  IInv'
<1>1. Inflight' = {} /\ IsFiniteSet(Inflight') /\ Cardinality(Inflight') = 0
  BY NoTasks DEF ForgetTasks
<1>2. Counted'
  BY <1>1, LauncherAssumption DEF Counted, SlotsConserved, HoldsSlot, ForgetTasks, Down
<1>3. HandsInv'
  BY LauncherAssumption DEF IInv, HandsInv, Down, ForgetTasks
<1>4. WorkersInv'
  BY <1>1 DEF WorkersInv, ForgetTasks, Down
<1>5. QED BY <1>2, <1>3, <1>4 DEF IInv

LEMMA ForgetTypes ==
  ASSUME ForgetTasks
  PROVE  /\ slots' \in 0..MaxConcurrent /\ late' = {} /\ doomed' = {}
         /\ task' \in [Messages -> {"none", "running", "watching", "killing", "replying"}]
  BY LauncherAssumption DEF ForgetTasks

LEMMA CrashIInv ==
  ASSUME IInv, Crash
  PROVE  IInv'
<1>1. Flags'
  BY DEF Crash, ForgetBridge, Flags
<1>2. Rest'
  BY ForgetTypes DEF IInv, TypeOK, Rest, Crash, ForgetBridge, rows, Down
<1>3. TypeOK'
  BY <1>1, <1>2, TypeParts, PTL
<1>4. QED BY <1>3, GoneIInv DEF Crash, ForgetBridge, rows, Down

LEMMA CancelTasksIInv ==
  ASSUME IInv, CancelTasks
  PROVE  IInv'
<1>1. Flags'
  BY DEF CancelTasks, IInv, TypeOK, Flags, gates
<1>2. Rest'
  BY ForgetTypes DEF IInv, TypeOK, Rest, CancelTasks, rows, Down
<1>3. TypeOK'
  BY <1>1, <1>2, TypeParts, PTL
<1>4. wire' = Nothing /\ hand' = Nothing
  BY DEF CancelTasks, IInv, HandsInv
<1>5. QED BY <1>3, <1>4, GoneIInv DEF CancelTasks, rows, Down

LEMMA StopIInv ==
  ASSUME IInv, Stop
  PROVE  IInv'
<1>1. Flags'
  BY DEF Stop, ForgetBridge, Flags
<1>2. Live \subseteq Messages
  BY DEF Live
<1>3. Rest'
  <2>1. CASE at = "backoff"
    BY <2>1, ForgetTypes DEF IInv, TypeOK, Rest, Stop, ForgetBridge, rows, Down
  <2>2. CASE at # "backoff"
    BY <1>2, <2>2 DEF IInv, TypeOK, Rest, Stop, ForgetBridge, rows
  <2>3. QED BY <2>1, <2>2
<1>4. TypeOK'
  BY <1>1, <1>3, TypeParts, PTL
<1>5. CASE at = "backoff"
  BY <1>4, <1>5, GoneIInv DEF Stop, ForgetBridge, rows, Down
<1>6. CASE at # "backoff"
  <2>1. /\ UNCHANGED <<rows, group, slots, task, late>> /\ at' = "ending" /\ doomed' = Live
        /\ wire' = Nothing /\ hand' = Nothing /\ at # "ending"
    BY <1>6 DEF Stop, ForgetBridge
  <2>2. Counted'
    <3>1. IsFiniteSet(Inflight') /\ Cardinality(Inflight') = Cardinality(Inflight)
      BY <2>1, SameTasks DEF IInv
    <3>2. QED BY <2>1, <3>1, CountIsNat DEF IInv, TypeOK, Counted, SlotsConserved, HoldsSlot
  <2>3. HandsInv'
    BY <2>1, LauncherAssumption DEF IInv, HandsInv, rows
  <2>4. WorkersInv'
    BY <2>1 DEF IInv, TypeOK, WorkersInv, Inflight, Live, Down
  <2>5. QED BY <1>4, <2>2, <2>3, <2>4 DEF IInv
<1>7. QED BY <1>5, <1>6

LEMMA KillLiveIInv ==
  ASSUME IInv, NEW m \in Messages, KillLive(m)
  PROVE  IInv'
<1>1. /\ UNCHANGED <<rows, at, work, late, reaped, conn, gates, relay>>
      /\ doomed' = doomed \ {m} /\ group' = [group EXCEPT ![m] = Killed(@)]
      /\ at = "ending"
  BY DEF KillLive
<1>2. group' \in [Messages -> {"none", "up", "deaf", "gone"}]
  BY <1>1 DEF IInv, TypeOK, Killed
<1>3. Counted'
  <2>1. IsFiniteSet(Inflight') /\ Cardinality(Inflight') = Cardinality(Inflight)
    BY <1>1, SameTasks DEF IInv, work
  <2>2. QED BY <1>1, <2>1 DEF IInv, Counted, SlotsConserved, work
<1>4. Flags'
  BY <1>1 DEF IInv, TypeOK, Flags, gates
<1>5. Rest'
  BY <1>1, <1>2 DEF IInv, TypeOK, Rest, rows, work
<1>6. TypeOK'
  BY <1>4, <1>5, TypeParts, PTL
<1>7. HandsInv'
  BY <1>1 DEF IInv, TypeOK, HandsInv, Killed, rows, work
<1>8. WorkersInv'
  BY <1>1 DEF IInv, TypeOK, WorkersInv, Inflight, Killed, Down, work
<1>9. QED BY <1>3, <1>6, <1>7, <1>8 DEF IInv

LEMMA SweepIInv ==
  ASSUME IInv, Sweep
  PROVE  IInv'
<1>1. /\ UNCHANGED <<recipient, slots, task, wire, hand, reaped, gates, relay, workers>>
      /\ at = "stopping" /\ at' \in {"stopping", "off"}
  BY DEF Sweep, SweepList, SweepDone, SweepFails, SweepReply, rows, work
<1>2. /\ status' \in [Messages -> {"absent", "queued", "delivered", "replied", "cancelled"}]
      /\ \A n \in Messages : status'[n] \in {"absent", "queued"} =>
           status[n] \in {"absent", "queued"}
  BY AnsweredType DEF IInv, TypeOK, Sweep, SweepList, SweepDone, SweepFails, SweepReply, rows
<1>3. todo' \subseteq Messages /\ conn' \in {"none", "live", "lost", "denied"}
  BY DEF IInv, TypeOK, Sweep, SweepList, SweepDone, SweepFails, SweepReply, work, Found, Ours, Claimed
<1>4. Flags'
  BY <1>1 DEF IInv, TypeOK, Flags, gates
<1>5. Rest'
  BY <1>1, <1>2, <1>3 DEF IInv, TypeOK, Rest, Down, workers
<1>6. TypeOK'
  BY <1>4, <1>5, TypeParts, PTL
<1>7. QED BY <1>1, <1>2, <1>6, QuietIInv DEF workers

LEMMA RelayIInv ==
  ASSUME IInv, RelayUp \/ RelayDies
  PROVE  IInv'
<1>1. UNCHANGED <<rows, at, work, workers, reaped, conn, gates>>
  BY DEF RelayUp, RelayDies
<1>2. Flags'
  BY DEF RelayUp, RelayDies, IInv, TypeOK, Flags, gates
<1>3. Rest'
  BY <1>1 DEF IInv, TypeOK, Rest, rows, work, workers
<1>4. TypeOK'
  BY <1>2, <1>3, TypeParts, PTL
<1>5. QED BY <1>1, <1>4, QuietIInv DEF rows, work, workers

-----------------------------------------------------------------------------
(* Every step *)

LEMMA InitIInv == Init => IInv
<1> SUFFICES ASSUME Init PROVE IInv
  OBVIOUS
<1>1. Inflight = {} /\ IsFiniteSet(Inflight) /\ Cardinality(Inflight) = 0
  <2>1. Inflight = {}
    BY DEF Init, Inflight
  <2>2. QED BY <2>1, FS_EmptySet
<1>2. Counted
  BY <1>1, LauncherAssumption DEF Init, Counted, SlotsConserved, HoldsSlot
<1>3. Flags
  BY DEF Init, Flags
<1>4. Rest
  BY LauncherAssumption DEF Init, Rest, Down
<1>5. HandsInv
  BY LauncherAssumption DEF Init, HandsInv
<1>6. WorkersInv
  BY <1>1 DEF Init, WorkersInv
<1>7. QED BY <1>2, <1>3, <1>4, <1>5, <1>6, TypeParts DEF IInv

LEMMA StepIInv == IInv /\ [Next]_vars => IInv'
<1> SUFFICES ASSUME IInv, [Next]_vars PROVE IInv'
  OBVIOUS
<1>1. CASE UNCHANGED vars
  <2>1. TypeOK'
    BY <1>1 DEF IInv, TypeOK, vars, rows, work, workers, gates
  <2>2. QED BY <1>1, <2>1, QuietIInv DEF vars, rows, work, workers
<1>2. ASSUME NEW m \in Messages, Send(m) \/ Cancel(m) \/ Others(m) PROVE IInv'
  BY <1>2, ControllerIInv
<1>3. CASE Heartbeat
  BY <1>3, HeartbeatIInv
<1>4. CASE Boot \/ Bridge
  BY <1>4, BridgeMovesIInv, ReapIInv, SlotIInv, ClaimIInv, StartIInv DEF Bridge
<1>5. ASSUME NEW m \in Messages, ServerClaims(m) PROVE IInv'
  BY <1>5, ClaimIInv
<1>6. ASSUME NEW m \in Messages, Handler(m) \/ WorkerEnds(m) PROVE IInv'
  BY <1>6, HandlerIInv, RepliesIInv DEF Handler
<1>7. CASE Stop \/ Shutdown \/ Sweep \/ Crash
  BY <1>7, StopIInv, CancelTasksIInv, KillLiveIInv, SweepIInv, CrashIInv DEF Shutdown
<1>8. CASE LoseSession \/ LoseBearer
  BY <1>8, BridgeMovesIInv
<1>9. CASE RelayUp \/ RelayDies
  BY <1>9, RelayIInv
<1>10. QED BY <1>1, <1>2, <1>3, <1>4, <1>5, <1>6, <1>7, <1>8, <1>9 DEF Next

\* The invariant holds of every behaviour.
THEOREM Invariance == Spec => []IInv
<1>1. QED BY InitIInv, StepIInv, PTL DEF Spec

\* The accounts are settled: what is free, what the handlers hold and what the bridge holds
\* add up to max_concurrent on every way out of either, and claims never exceed it.
THEOREM SlotsAreKept == Spec => []SlotInv
<1>1. ASSUME IInv PROVE ClaimsWithinCapacity
  <2>1. CASE {wire, hand} \ {Nothing} = {}
    <3>1. Inflight \cup ({wire, hand} \ {Nothing}) = Inflight
      BY <2>1
    <3>2. Cardinality(Inflight) <= MaxConcurrent
      BY <1>1, CountIsNat DEF IInv, TypeOK, Counted, SlotsConserved
    <3>3. QED BY <3>1, <3>2 DEF ClaimsWithinCapacity
  <2>2. ASSUME NEW m \in {wire, hand} \ {Nothing} PROVE ClaimsWithinCapacity
    <3>1. /\ at \in HoldsSlot
          /\ Inflight \cup ({wire, hand} \ {Nothing}) = Inflight \cup {m}
      BY <1>1, <2>2 DEF IInv, HandsInv, HoldsSlot
    <3>2. Cardinality(Inflight \cup {m}) <= Cardinality(Inflight) + 1
      <4>1. Cardinality(Inflight) \in Nat /\ IsFiniteSet(Inflight)
        BY <1>1, CountIsNat DEF IInv, Counted
      <4>2. Cardinality(Inflight \cup {m}) =
              IF m \in Inflight THEN Cardinality(Inflight) ELSE Cardinality(Inflight) + 1
        BY <4>1, FS_AddElement
      <4>3. QED BY <4>1, <4>2
    <3>3. Cardinality(Inflight) + 1 <= MaxConcurrent
      BY <1>1, <3>1, CountIsNat DEF IInv, TypeOK, Counted, SlotsConserved, HoldsSlot
    <3>4. Cardinality(Inflight \cup {m}) \in Nat
      BY <1>1, FS_AddElement, FS_CardinalityType DEF IInv, Counted
    <3>5. QED BY <1>1, <3>1, <3>2, <3>3, <3>4, CountIsNat DEF IInv, ClaimsWithinCapacity
  <2>3. QED BY <2>1, <2>2
<1>2. IInv => SlotInv
  BY <1>1 DEF IInv, Counted, SlotInv
<1>3. QED BY <1>2, Invariance, PTL

-----------------------------------------------------------------------------
(* What a step may never do *)

\* Handlers come from the bridge, under both gates.
LEMMA StartStep ==
  ASSUME IInv, [Next]_vars, NEW m \in Messages, task[m] = "none", task'[m] # "none"
  PROVE  Owner /\ ~Gated
<1>1. StartOrBounce
  <2>1. task' # task /\ ~ForgetTasks
    BY DEF ForgetTasks
  <2>2. ASSUME NEW n \in Messages PROVE ~Handler(n)
    BY DEF Handler, TaskRefused, Spawn, TaskEnds, TaskTimesOut, TaskKilled, TaskReplies, Handled,
           IInv, TypeOK
  <2>3. ~Heartbeat
    BY <2>1 DEF Heartbeat, AnnounceOk, AnnounceRefused, AnnounceDenied, AnnounceFailed, work
  <2>4. Bridge => StartOrBounce
    BY <2>1 DEF Bridge, BackoffOver, Connect, OwnerGate, ReapList, ReapDone, ReapReply,
                AcquireSlot, RelayGate, PollReturns, PollTimesOut, PollBroken, Bounce, work
  <2>5. ~Sweep /\ ~Shutdown /\ ~Stop /\ ~Crash /\ ~Boot
    BY <2>1 DEF Sweep, SweepList, SweepDone, SweepFails, SweepReply, Shutdown, CancelTasks,
                KillLive, Stop, Crash, Boot, work
  <2>6. QED BY <2>1, <2>2, <2>3, <2>4, <2>5
            DEF Next, vars, Send, Cancel, Others, ServerClaims, WorkerEnds, LoseSession, LoseBearer,
                RelayUp, RelayDies, work
<1>2. QED BY <1>1 DEF StartOrBounce

\* The launcher's workers are in hand: a task starts under both gates, no message ever has a
\* second worker, and no kill, by timeout or by shutdown, leaves a process of its group.
THEOREM WorkersAreInHand == Spec => WorkersInHand
<1>1. ASSUME IInv, [Next]_vars
      PROVE  /\ \A m \in Messages : task[m] = "none" /\ task'[m] # "none" => Owner /\ ~Gated
             /\ \A m \in Messages : Spawn(m) => group[m] = "none"
             /\ \A m \in Messages : TaskKilled(m) => group'[m] = "gone"
             /\ CancelTasks => {m \in Inflight : group[m] \in {"up", "deaf"}} \subseteq late
  <2>1. \A m \in Messages : task[m] = "none" /\ task'[m] # "none" => Owner /\ ~Gated
    BY <1>1, StartStep
  <2>2. \A m \in Messages : Spawn(m) => group[m] = "none"
    BY <1>1 DEF IInv, WorkersInv, Spawn, Handled
  <2>3. \A m \in Messages : TaskKilled(m) => group'[m] = "gone"
    BY <1>1 DEF IInv, TypeOK, WorkersInv, TaskKilled, Handled, Killed
  <2>4. CancelTasks => {m \in Inflight : group[m] \in {"up", "deaf"}} \subseteq late
    BY <1>1 DEF IInv, WorkersInv, CancelTasks, Inflight
  <2>5. QED BY <2>1, <2>2, <2>3, <2>4
<1>2. QED BY <1>1, Invariance, PTL DEF Spec, WorkersInHand, StartsUnderGates, GroupsAreKilled

-----------------------------------------------------------------------------
(* As long as sessions hold *)

Unhurt == conn \in {"none", "live"}

\* The page shows every row of the launcher that the reaper is about to look for.
Shown == at = "reap" => Ours \ Inflight \subseteq Newest

\* Past the reaper, and where the bridge has to be to claim.
Reaped == {"slot", "regate", "relaywait"} \cup HoldsSlot

\* Without a broken session the bridge connects once in the life of a process, so it reaps
\* before it claims; if the page shows what is to be reaped, what is claimed has a handler or
\* is in the bridge's hands from then on.
ReapInv ==
  /\ ~dead /\ at # "backoff"
  /\ at \in Connected => conn # "none"
  /\ at \in {"off", "stopping", "ending", "connecting", "gate"} => ~reaped
  /\ at = "reaping" => Ours \subseteq Inflight \cup todo
  /\ at \in Reaped => Ours \subseteq Inflight \cup {wire, hand}

\* A row becomes ours by a claim only.
LEMMA OursGrow ==
  ASSUME TypeOK, UNCHANGED recipient, NEW m, status' = [status EXCEPT ![m] = "delivered"]
  PROVE  Ours' \subseteq Ours \cup {m}
  BY DEF Ours, Claimed, TypeOK

\* A step that leaves the bridge where it is, and every claimed row where it was.
LEMMA BesideReapInv ==
  ASSUME IInv, ReapInv, UNCHANGED <<at, wire, hand, todo, reaped, dead>>,
         at \in Connected => conn' # "none",
         at \in {"reaping"} \cup Reaped => (Ours' \ Inflight') \subseteq (Ours \ Inflight)
  PROVE  ReapInv'
  BY DEF ReapInv, Reaped

LEMMA StepReapInv == IInv /\ ReapInv /\ Unhurt /\ Shown /\ [Next]_vars => ReapInv'
<1> SUFFICES ASSUME IInv, ReapInv, Unhurt, Shown, [Next]_vars PROVE ReapInv'
  OBVIOUS
<1>1. CASE UNCHANGED vars
  BY <1>1 DEF vars, rows, work, gates, ReapInv, Ours, Claimed, Inflight
<1>2. ASSUME NEW m \in Messages, Send(m) \/ Cancel(m) \/ Others(m) PROVE ReapInv'
  <2>1. Ours' \subseteq Ours /\ Inflight' = Inflight
    <3>1. CASE Send(m)
      BY <3>1 DEF Send, Ours, Claimed, Inflight, IInv, TypeOK, work
    <3>2. CASE Cancel(m)
      BY <3>2 DEF Cancel, Ours, Claimed, Inflight, IInv, TypeOK, work
    <3>3. CASE Others(m)
      BY <3>3 DEF Others, Answered, Ours, Claimed, Inflight, IInv, TypeOK, work
    <3>4. QED BY <1>2, <3>1, <3>2, <3>3
  <2>2. QED BY <1>2, <2>1, BesideReapInv DEF Send, Cancel, Others, ReapInv, work, gates
<1>3. CASE Heartbeat
  <2>1. Ours' = Ours /\ Inflight' = Inflight
    BY <1>3 DEF Heartbeat, AnnounceOk, AnnounceRefused, AnnounceDenied, AnnounceFailed, rows,
                work, Ours, Claimed, Inflight
  <2>2. ~AnnounceFailed
    BY DEF AnnounceFailed, Unhurt
  <2>3. QED BY <1>3, <2>1, <2>2, BesideReapInv
            DEF Heartbeat, AnnounceOk, AnnounceRefused, AnnounceDenied, ReapInv, work
<1>4. CASE Boot \/ BackoffOver \/ Connect \/ OwnerGate \/ RelayGate
  <2>1. Ours' = Ours /\ Inflight' = Inflight /\ wire' = wire /\ hand' = hand
    BY <1>4 DEF Boot, BackoffOver, Connect, OwnerGate, RelayGate, rows, work, Ours, Claimed,
                Inflight
  <2>2. QED BY <1>4, <2>1
            DEF Boot, BackoffOver, Connect, OwnerGate, RelayGate, ReapInv, Reaped, HoldsSlot,
                Connected, gates, work
<1>5. CASE ReapList
  <2>1. Ours' = Ours /\ Inflight' = Inflight /\ conn = "live" /\ todo' = Found \ Inflight
    BY <1>5 DEF ReapList, rows, Ours, Claimed, Inflight, ReapInv, Unhurt, Connected
  <2>2. Found \ Inflight = Ours \ Inflight
    BY <1>5 DEF ReapList, Shown, Found
  <2>3. QED BY <1>5, <2>1, <2>2 DEF ReapList, ReapInv, Reaped, HoldsSlot, Connected, gates
<1>6. ASSUME NEW m \in Messages, ReapReply(m) PROVE ReapInv'
  <2>1. Ours' = Ours \ {m} /\ Inflight' = Inflight
    BY <1>6 DEF ReapReply, Ours, Claimed, Inflight, ReapInv, Unhurt, Connected, Answered, IInv,
                TypeOK
  <2>2. QED BY <1>6, <2>1 DEF ReapReply, ReapInv, Reaped, HoldsSlot, Connected, gates
<1>7. CASE ReapDone
  <2>1. Ours' = Ours /\ Inflight' = Inflight /\ wire' = wire /\ hand' = hand
    BY <1>7 DEF ReapDone, rows, work, Ours, Claimed, Inflight
  <2>2. QED BY <1>7, <2>1 DEF ReapDone, ReapInv, Reaped, HoldsSlot, Connected, gates
<1>8. CASE AcquireSlot \/ PollTimesOut
  <2>1. Ours' = Ours /\ Inflight' = Inflight /\ wire' = wire /\ hand' = hand
    BY <1>8 DEF AcquireSlot, PollTimesOut, rows, Ours, Claimed, Inflight
  <2>2. QED BY <1>8, <2>1
            DEF AcquireSlot, PollTimesOut, ReapInv, Reaped, HoldsSlot, Connected, gates
<1>9. CASE PollBroken
  BY <1>9 DEF PollBroken, ReapInv, Unhurt, Connected
<1>10. CASE Bounce
  <2>1. hand \in Messages /\ wire = Nothing /\ conn = "live" /\ at = "bouncing"
    BY <1>10 DEF Bounce, IInv, TypeOK, HandsInv, ReapInv, Unhurt, Connected
  <2>2. Ours' = Ours \ {hand} /\ Inflight' = Inflight
    BY <1>10, <2>1 DEF Bounce, Ours, Claimed, Inflight, Answered, IInv, TypeOK
  <2>3. QED BY <1>10, <2>1, <2>2, LauncherAssumption
            DEF Bounce, ReapInv, Reaped, HoldsSlot, Connected, gates, Ours
<1>11. CASE PollReturns
  <2>1. Ours' = Ours /\ Inflight' = Inflight /\ hand = Nothing /\ Nothing \notin Ours
    BY <1>11, LauncherAssumption DEF PollReturns, rows, Ours, Claimed, Inflight, IInv, HandsInv
  <2>2. QED BY <1>11, <2>1 DEF PollReturns, ReapInv, Reaped, HoldsSlot, Connected, gates
<1>12. ASSUME NEW m \in Messages, ServerClaims(m) PROVE ReapInv'
  <2>1. Ours' \subseteq Ours \cup {m} /\ Inflight' = Inflight /\ Nothing \notin Ours
    BY <1>12, OursGrow, LauncherAssumption DEF ServerClaims, IInv, Inflight, Ours, Claimed
  <2>2. QED BY <1>12, <2>1 DEF ServerClaims, ReapInv, Reaped, HoldsSlot, Connected, gates
<1>13. CASE StartOrBounce
  <2>1. hand \in Messages /\ Nothing \notin Ours /\ Ours' = Ours
    BY <1>13, LauncherAssumption DEF StartOrBounce, rows, Ours, Claimed, IInv, TypeOK, HandsInv
  <2>2. Inflight \cup {wire, hand} \subseteq Inflight' \cup {wire', hand'}
    BY <1>13, <2>1 DEF StartOrBounce, Inflight, IInv, TypeOK
  <2>3. QED BY <1>13, <2>1, <2>2
            DEF StartOrBounce, ReapInv, Reaped, HoldsSlot, Connected, gates
<1>14. ASSUME NEW m \in Messages,
              TaskRefused(m) \/ Spawn(m) \/ WorkerEnds(m) \/ TaskEnds(m) \/ TaskTimesOut(m)
              \/ TaskKilled(m)
       PROVE  ReapInv'
  <2>1. Ours' = Ours /\ Inflight' = Inflight
    BY <1>14 DEF TaskRefused, Spawn, WorkerEnds, TaskEnds, TaskTimesOut, TaskKilled, Handled,
                 rows, work, Ours, Claimed, Inflight, IInv, TypeOK
  <2>2. QED BY <1>14, <2>1, BesideReapInv
            DEF TaskRefused, Spawn, WorkerEnds, TaskEnds, TaskTimesOut, TaskKilled, Handled,
                work, gates, ReapInv
<1>15. ASSUME NEW m \in Messages, TaskReplies(m) PROVE ReapInv'
  <2>1. CASE at \in Connected
    <3>1. conn = "live"
      BY <2>1 DEF ReapInv, Unhurt
    <3>2. Ours' = Ours \ {m} /\ Inflight' = Inflight \ {m}
      BY <1>15, <3>1 DEF TaskReplies, Ours, Claimed, Inflight, Answered, IInv, TypeOK
    <3>3. QED BY <1>15, <3>2, BesideReapInv DEF TaskReplies, ReapInv, gates
  <2>2. CASE at \notin Connected
    BY <1>15, <2>2 DEF TaskReplies, ReapInv, Reaped, HoldsSlot, Connected, gates
  <2>3. QED BY <2>1, <2>2
<1>16. CASE Stop \/ Crash
  BY <1>16 DEF Stop, Crash, ForgetBridge, ReapInv, Reaped, HoldsSlot, Connected
<1>17. CASE CancelTasks \/ Sweep
  BY <1>17 DEF CancelTasks, Sweep, SweepList, SweepReply, SweepDone, SweepFails, ReapInv, Reaped,
               HoldsSlot, Connected, gates
<1>18. ASSUME NEW m \in Messages, KillLive(m) PROVE ReapInv'
  BY <1>18 DEF KillLive, ReapInv, Reaped, HoldsSlot, Connected, gates, work
<1>19. CASE LoseSession \/ LoseBearer \/ RelayUp \/ RelayDies
  <2>1. Ours' = Ours /\ Inflight' = Inflight
    BY <1>19 DEF LoseSession, LoseBearer, RelayUp, RelayDies, rows, work, Ours, Claimed, Inflight
  <2>2. QED BY <1>19, <2>1, BesideReapInv
            DEF LoseSession, LoseBearer, RelayUp, RelayDies, work, gates, ReapInv
<1>20. QED
  BY <1>1, <1>2, <1>3, <1>4, <1>5, <1>6, <1>7, <1>8, <1>9, <1>10, <1>11, <1>12, <1>13, <1>14,
     <1>15, <1>16, <1>17, <1>18, <1>19 DEF Next, Bridge, Handler, Shutdown

\* As long as no session breaks under the process and the reaper's page shows what it must,
\* every claimed row addressed to it is in the hands of the bridge or of a handler once the
\* bridge is past the reaper: after a crash and a boot too, none is left to hang until the TTL.
THEOREM NothingIsOrphaned == Spec => NoOrphanWhilePolling
<1>1. Init => ReapInv
  BY DEF Init, ReapInv, Connected, Reaped, HoldsSlot
<1>2. ReapInv =>
        (at \in {"slot", "regate", "relaywait"} \cup HoldsSlot
           => Ours \subseteq Inflight \cup {wire, hand})
  BY DEF ReapInv, Reaped
<1>3. Unhurt <=> conn \in {"none", "live"}
  BY DEF Unhurt
<1>4. Shown <=> (at = "reap" => Ours \ Inflight \subseteq Newest)
  BY DEF Shown
<1>5. QED BY <1>1, <1>2, <1>3, <1>4, StepReapInv, Invariance, PTL
          DEF Spec, NoOrphanWhilePolling, Unbroken, PageSuffices

\* The page shows what it must as long as no more rows are claimed, over all recipients, than
\* it has room for: 200 in the code. Beyond that nothing is promised (list_messages has no
\* recipient filter in the launcher's call).
THEOREM FewClaimsFitThePage ==
  [](IsFiniteSet(Claimed) /\ Cardinality(Claimed) <= Page) => PageSuffices
<1>1. ASSUME IsFiniteSet(Claimed), Cardinality(Claimed) <= Page
      PROVE  at = "reap" => Ours \ Inflight \subseteq Newest
  <2>1. ASSUME NEW m \in Claimed PROVE m \in Newest
    <3> DEFINE newer == {n \in Claimed : m < n}
    <3>1. newer \subseteq Claimed \ {m}
      BY LauncherAssumption DEF Claimed
    <3>2. /\ IsFiniteSet(Claimed \ {m})
          /\ Cardinality(Claimed \ {m}) = Cardinality(Claimed) - 1
      BY <1>1, FS_RemoveElement
    <3>3. Cardinality(newer) <= Cardinality(Claimed \ {m}) /\ IsFiniteSet(newer)
      BY <3>1, <3>2, FS_Subset
    <3>4. Cardinality(newer) \in Nat /\ Cardinality(Claimed) \in Nat
      BY <1>1, <3>3, FS_CardinalityType
    <3>5. Cardinality(newer) < Page
      BY <1>1, <3>2, <3>3, <3>4, LauncherAssumption
    <3>6. m \in Messages
      BY DEF Claimed
    <3>7. QED BY <3>5, <3>6 DEF Newest
  <2>2. QED BY <2>1 DEF Ours
<1>2. QED BY <1>1, PTL DEF PageSuffices

-----------------------------------------------------------------------------
(* Envelopes *)

LEMMA CwdIsUnderRoot ==
  ASSUME NEW raw, NEW allowlist, ResolveCwd(raw, allowlist).error = ""
  PROVE  \E root \in allowlist : RelativeTo(root, ResolveCwd(raw, allowlist).value)
  BY DEF ResolveCwd, Accepts, Refuses

LEMMA EngineIsEnabled ==
  ASSUME NEW raw, NEW enabled, ResolveEngine(raw, enabled).error = ""
  PROVE  ResolveEngine(raw, enabled).value \in enabled
  BY DEF ResolveEngine, Accepts, Refuses

LEMMA ToolsAreGranted ==
  ASSUME NEW raw, NEW ceiling, ResolveTools(raw, ceiling).error = ""
  PROVE  ResolveTools(raw, ceiling).value \subseteq ceiling
<1>1. CASE raw = Missing
  BY <1>1 DEF ResolveTools, Accepts, Missing, Wrong
<1>2. CASE raw = Wrong
  BY <1>2 DEF ResolveTools, Refuses, Missing, Wrong
<1>3. CASE raw # Missing /\ raw # Wrong
  BY <1>3 DEF ResolveTools, Accepts, Refuses
<1>4. QED BY <1>1, <1>2, <1>3

\* The sandboxes a ceiling allows and the timeouts a cap does.
UpTo(ceiling) == {s \in Sandboxes : SandboxOrder[s] <= SandboxOrder[ceiling]}
Within(cap) == {t \in Int : t <= cap /\ (cap > 0 => t > 0)}

LEMMA SandboxLevel ==
  ASSUME NEW s \in Sandboxes
  PROVE  SandboxOrder[s] \in Int
<1>1. PICK n : n = CASE s = "read-only" -> 0
                     [] s = "workspace-write" -> 1
                     [] s = "danger-full-access" -> 2
  OBVIOUS
<1>2. SandboxOrder[s] = n
  BY <1>1 DEF SandboxOrder
<1>3. n \in Int
  BY <1>1 DEF Sandboxes
<1>4. QED BY <1>2, <1>3

LEMMA UpToForms ==
  ASSUME NEW s \in Sandboxes, NEW ceiling \in Sandboxes
  PROVE  /\ ceiling \in UpTo(ceiling)
         /\ ~(SandboxOrder[s] > SandboxOrder[ceiling]) => s \in UpTo(ceiling)
  BY SandboxLevel DEF UpTo

LEMMA WithinForms ==
  ASSUME NEW t \in Int, NEW cap \in Int
  PROVE  /\ cap \in Within(cap)
         /\ (IF t <= 0 \/ cap < t THEN cap ELSE t) \in Within(cap)
  BY DEF Within

LEMMA SandboxIsGranted ==
  ASSUME NEW raw, raw \notin {Missing, Wrong} => raw[2] \in Sandboxes,
         NEW ceiling \in Sandboxes,
         ResolveSandbox(raw, ceiling).error = ""
  PROVE  ResolveSandbox(raw, ceiling).value \in UpTo(ceiling)
<1>1. CASE raw = Missing
  <2>1. ResolveSandbox(raw, ceiling).value = ceiling
    BY <1>1 DEF ResolveSandbox, Accepts, Missing, Wrong
  <2>2. ceiling \in UpTo(ceiling)
    BY UpToForms
  <2>3. QED BY <2>1, <2>2
<1>2. CASE raw = Wrong
  BY <1>2 DEF ResolveSandbox, Refuses, Missing, Wrong
<1>3. CASE raw # Missing /\ raw # Wrong
  <2>1. ~(SandboxOrder[raw[2]] > SandboxOrder[ceiling])
    BY <1>3 DEF ResolveSandbox, Refuses
  <2>2. ResolveSandbox(raw, ceiling).value = raw[2]
    BY <1>3, <2>1 DEF ResolveSandbox, Accepts
  <2>3. raw[2] \in UpTo(ceiling)
    BY <1>3, <2>1, UpToForms
  <2>4. QED BY <2>2, <2>3
<1>4. QED BY <1>1, <1>2, <1>3

LEMMA TimeoutIsCapped ==
  ASSUME NEW raw, raw \notin {Missing, Wrong} => raw[2] \in Int, NEW cap \in Int,
         ResolveTimeout(raw, cap).error = ""
  PROVE  ResolveTimeout(raw, cap).value \in Within(cap)
<1>1. CASE raw = Missing
  <2>1. ResolveTimeout(raw, cap).value = cap
    BY <1>1 DEF ResolveTimeout, Accepts, Missing, Wrong
  <2>2. cap \in Within(cap)
    BY WithinForms
  <2>3. QED BY <2>1, <2>2
<1>2. CASE raw = Wrong
  BY <1>2 DEF ResolveTimeout, Refuses, Missing, Wrong
<1>3. CASE raw # Missing /\ raw # Wrong
  <2>1. PICK t \in Int : t = raw[2]
    BY <1>3
  <2>2. PICK v : v = IF t <= 0 \/ cap < t THEN cap ELSE t
    OBVIOUS
  <2>3. ResolveTimeout(raw, cap).value = v
    BY <1>3, <2>1, <2>2 DEF ResolveTimeout, Accepts
  <2>4. v \in Within(cap)
    BY <2>2, WithinForms
  <2>5. QED BY <2>3, <2>4
<1>4. QED BY <1>1, <1>2, <1>3

\* Whatever the engine, it has the powers that go with it.
LEMMA PowersAreGranted ==
  ASSUME NEW e, NEW engine, NEW policy, policy.sandbox \in Sandboxes,
         e.codex_sandbox \notin {Missing, Wrong} => e.codex_sandbox[2] \in Sandboxes,
         ResolvePowers(e, engine, policy).error = ""
  PROVE  IF engine = "codex"
         THEN ResolvePowers(e, engine, policy).value \in UpTo(policy.sandbox)
         ELSE ResolvePowers(e, engine, policy).value \subseteq policy.tools
<1>1. CASE engine = "codex"
  <2>1. ResolvePowers(e, engine, policy) = ResolveSandbox(e.codex_sandbox, policy.sandbox)
    BY <1>1 DEF ResolvePowers, Refuses
  <2>2. QED BY <1>1, <2>1, SandboxIsGranted
<1>2. CASE engine # "codex"
  <2>1. ResolvePowers(e, engine, policy) = ResolveTools(e.allowed_tools, policy.tools)
    BY <1>2 DEF ResolvePowers, Refuses
  <2>2. QED BY <1>2, <2>1, ToolsAreGranted
<1>3. QED BY <1>1, <1>2

(* "Raises EnvelopeError on any problem; NEVER falls back" (parse_envelope): whatever an     *)
(* envelope asks and whatever the policy is, the worker of one that is accepted runs under   *)
(* an allowlisted root, by an enabled engine, with no tool and no sandbox beyond the ceiling *)
(* and no longer than the cap.                                                               *)
THEOREM AcceptedIsWithinPolicy ==
  ASSUME NEW e, NEW policy,
         policy.sandbox \in Sandboxes, policy.cap \in Int,
         e.codex_sandbox \notin {Missing, Wrong} => e.codex_sandbox[2] \in Sandboxes,
         e.timeout_s \notin {Missing, Wrong} => e.timeout_s[2] \in Int,
         ParseEnvelope(e, policy).error = ""
  PROVE  WithinPolicy(ParseEnvelope(e, policy).value, policy)
<1> DEFINE cwd == ResolveCwd(e.cwd[2], policy.allowlist)
           engine == ResolveEngine(e.engine, policy.engines)
           powers == ResolvePowers(e, engine.value, policy)
           timeout == ResolveTimeout(e.timeout_s, policy.cap)
           env == [cwd |-> cwd.value, engine |-> engine.value, powers |-> powers.value,
                   timeout |-> timeout.value]
<1>1. /\ cwd.error = "" /\ engine.error = "" /\ powers.error = "" /\ timeout.error = ""
      /\ ParseEnvelope(e, policy) = Accepts(env)
  <2> HIDE DEF cwd, engine, powers, timeout
  <2>1. ParseEnvelope(e, policy) =
          IF ~IsGiven(e.task) \/ ~IsGiven(e.cwd) THEN Refuses("bad_envelope")
          ELSE IF cwd.error # "" THEN cwd ELSE IF engine.error # "" THEN engine
          ELSE IF powers.error # "" THEN powers
          ELSE IF e.model = Wrong THEN Refuses("bad_envelope")
          ELSE IF timeout.error # "" THEN timeout
          ELSE Accepts(env)
    BY DEF ParseEnvelope, cwd, engine, powers, timeout
  <2>2. Refuses("bad_envelope").error # ""
    BY DEF Refuses
  <2>3. QED BY <2>1, <2>2
<1> HIDE DEF cwd, engine, powers, timeout
<1>2. \E root \in policy.allowlist : RelativeTo(root, cwd.value)
  BY <1>1, CwdIsUnderRoot DEF cwd
<1>3. engine.value \in policy.engines
  BY <1>1, EngineIsEnabled DEF engine
<1>4. timeout.value \in Within(policy.cap)
  BY <1>1, TimeoutIsCapped DEF timeout
<1>5. IF engine.value = "codex"
      THEN powers.value \in UpTo(policy.sandbox)
      ELSE powers.value \subseteq policy.tools
  BY <1>1, PowersAreGranted DEF powers
<1>6. WithinPolicy(env, policy)
  BY <1>2, <1>3, <1>4, <1>5 DEF WithinPolicy, Argv, BaseToolNames, UpTo, Within
<1>7. ParseEnvelope(e, policy).value = env
  <2>1. Accepts(env).value = env
    BY DEF Accepts
  <2>2. QED BY <1>1, <2>1
<1>8. QED BY <1>6, <1>7
=============================================================================

---------------------------- MODULE InboxProofs ----------------------------
(***************************************************************************)
(* Proofs about the message queue for any number of messages, workers,     *)
(* watchers and sessions: IInv is inductive, no message is handed out      *)
(* twice, an outcome is final, and Inbox implements MessageLifecycle.      *)
(***************************************************************************)
EXTENDS Inbox, TLAPS

LEMMA InitIInv == Init => IInv
  BY InboxAssumption
  DEF Init, IInv, TypeOK, ClaimStable, TakerFollowsStatus, DoneIsTold, Pollers, Live, Final

\* A row that is inserted was absent, so no worker has it picked.
LEMMA EnqueueIInv ==
  ASSUME IInv, NEW m \in Messages, NEW r \in Sessions \cup {Anyone}, Enqueue(m, r)
  PROVE  IInv'
<1>1. TypeOK'
  BY DEF IInv, TypeOK, Enqueue, polls, Live
<1>2. ClaimStable'
  BY DEF IInv, TypeOK, ClaimStable, Enqueue, polls
<1>3. TakerFollowsStatus'
  BY DEF IInv, TypeOK, TakerFollowsStatus, Enqueue
<1>4. DoneIsTold'
  BY DEF IInv, DoneIsTold, Enqueue, polls
<1>5. QED BY <1>1, <1>2, <1>3, <1>4 DEF IInv

LEMMA NotifyIInv ==
  ASSUME IInv, NEW m \in Messages, EnqueueNotify(m) \/ OutboxNotify(m)
  PROVE  IInv'
<1>1. \A P : Fire(P) \in [Pollers -> {"none", "current", "fired"}]
  BY DEF IInv, TypeOK, Fire
<1>2. TypeOK'
  BY <1>1 DEF IInv, TypeOK, EnqueueNotify, OutboxNotify, rows
<1>3. ClaimStable'
  BY InboxAssumption DEF IInv, TypeOK, ClaimStable, EnqueueNotify, OutboxNotify, rows
<1>4. TakerFollowsStatus' /\ DoneIsTold'
  BY DEF IInv, TakerFollowsStatus, DoneIsTold, EnqueueNotify, OutboxNotify, rows
<1>5. QED BY <1>2, <1>3, <1>4 DEF IInv

LEMMA PollIInv ==
  ASSUME IInv, NEW p \in Pollers, Poll(p)
  PROVE  IInv'
<1>1. TypeOK'
  <2>1. CASE StartPoll(p)
    BY <2>1 DEF IInv, TypeOK, StartPoll, rows
  <2>2. CASE Park(p)
    BY <2>2 DEF IInv, TypeOK, Park, rows
  <2>3. CASE Wake(p)
    BY <2>3 DEF IInv, TypeOK, Wake, rows
  <2>4. CASE GiveUp(p)
    BY <2>4 DEF IInv, TypeOK, GiveUp, rows
  <2>5. QED BY <2>1, <2>2, <2>3, <2>4 DEF Poll
<1>2. ClaimStable'
  BY DEF IInv, TypeOK, ClaimStable, Poll, StartPoll, Park, Wake, GiveUp, rows, Pollers
<1>3. TakerFollowsStatus'
  BY DEF IInv, TakerFollowsStatus, Poll, StartPoll, Park, Wake, GiveUp, rows
<1>4. DoneIsTold'
  BY DEF IInv, TypeOK, DoneIsTold, Poll, StartPoll, Park, Wake, GiveUp, Pollers
<1>5. QED BY <1>1, <1>2, <1>3, <1>4 DEF IInv

LEMMA PopSelectIInv ==
  ASSUME IInv, NEW w \in Workers, PopSelect(w)
  PROVE  IInv'
<1>1. TypeOK'
  BY DEF IInv, TypeOK, PopSelect, Claimable, rows, Pollers
<1>2. ClaimStable'
  BY InboxAssumption DEF IInv, TypeOK, ClaimStable, PopSelect, Claimable, rows, Pollers
<1>3. TakerFollowsStatus' /\ DoneIsTold'
  BY InboxAssumption
  DEF IInv, TypeOK, TakerFollowsStatus, DoneIsTold, PopSelect, rows, Pollers
<1>4. QED BY <1>1, <1>2, <1>3 DEF IInv

\* The claim that PopUpdate completes holds the lock, so no other worker has one.
LEMMA PopUpdateIInv ==
  ASSUME IInv, NEW w \in Workers, PopUpdate(w)
  PROVE  IInv'
<1>1. pick[w] \in Messages /\ lock = w /\ status[pick[w]] = "queued"
  BY DEF IInv, ClaimStable, PopUpdate
<1>2. TypeOK'
  BY <1>1 DEF IInv, TypeOK, PopUpdate, Pollers, Live
<1>3. ClaimStable'
  BY <1>1 DEF IInv, TypeOK, ClaimStable, PopUpdate, Pollers
<1>4. TakerFollowsStatus'
  BY <1>1 DEF IInv, TypeOK, TakerFollowsStatus, PopUpdate
<1>5. DoneIsTold'
  BY InboxAssumption DEF IInv, TypeOK, DoneIsTold, PopUpdate, Pollers
<1>6. QED BY <1>2, <1>3, <1>4, <1>5 DEF IInv

LEMMA FinalizeIInv ==
  ASSUME IInv, NEW m \in Messages, NEW o \in {"replied", "cancelled"}, Finalize(m, o)
  PROVE  IInv'
<1>1. TypeOK'
  BY DEF IInv, TypeOK, Finalize, polls, Final
<1>2. ClaimStable'
  BY InboxAssumption DEF IInv, TypeOK, ClaimStable, Finalize, polls
<1>3. TakerFollowsStatus' /\ DoneIsTold'
  BY DEF IInv, TypeOK, TakerFollowsStatus, DoneIsTold, Finalize, polls
<1>4. QED BY <1>1, <1>2, <1>3 DEF IInv

LEMMA ReadMessageIInv ==
  ASSUME IInv, NEW c \in Watchers, ReadMessage(c)
  PROVE  IInv'
<1>1. TypeOK'
  BY DEF IInv, TypeOK, ReadMessage, rows, Pollers
<1>2. ClaimStable'
  BY InboxAssumption DEF IInv, TypeOK, ClaimStable, ReadMessage, rows, Pollers
<1>3. TakerFollowsStatus' /\ DoneIsTold'
  BY DEF IInv, TypeOK, TakerFollowsStatus, DoneIsTold, ReadMessage, rows, Pollers
<1>4. QED BY <1>1, <1>2, <1>3 DEF IInv

LEMMA GrowOldIInv ==
  ASSUME IInv, NEW m \in Messages, GrowOld(m)
  PROVE  IInv'
<1>1. TypeOK'
  BY InboxAssumption DEF IInv, TypeOK, GrowOld, polls
<1>2. ClaimStable' /\ TakerFollowsStatus' /\ DoneIsTold'
  BY DEF IInv, ClaimStable, TakerFollowsStatus, DoneIsTold, GrowOld, polls
<1>3. QED BY <1>1, <1>2 DEF IInv

LEMMA SweepIInv ==
  ASSUME IInv, SweepExpire \/ SweepDelete
  PROVE  IInv'
<1>1. TypeOK'
  BY DEF IInv, TypeOK, SweepExpire, SweepDelete, polls, Final
<1>2. ClaimStable'
  BY InboxAssumption DEF IInv, TypeOK, ClaimStable, SweepExpire, SweepDelete, polls
<1>3. TakerFollowsStatus' /\ DoneIsTold'
  BY DEF IInv, TypeOK, TakerFollowsStatus, DoneIsTold, SweepExpire, SweepDelete, polls
<1>4. QED BY <1>1, <1>2, <1>3 DEF IInv

LEMMA RestartIInv == ASSUME IInv, Restart PROVE IInv'
<1>1. TypeOK'
  BY DEF IInv, TypeOK, Restart, rows, Pollers
<1>2. ClaimStable'
  BY DEF IInv, TypeOK, ClaimStable, Restart, rows, Pollers
<1>3. TakerFollowsStatus' /\ DoneIsTold'
  BY DEF IInv, TypeOK, TakerFollowsStatus, DoneIsTold, Restart, rows, Pollers
<1>4. QED BY <1>1, <1>2, <1>3 DEF IInv

LEMMA NextIInv == IInv /\ [Next]_vars => IInv'
<1> SUFFICES ASSUME IInv, [Next]_vars PROVE IInv'
  OBVIOUS
<1>1. CASE UNCHANGED vars
  BY <1>1 DEF IInv, TypeOK, ClaimStable, TakerFollowsStatus, DoneIsTold, vars, rows, polls
<1>2. CASE Next
  BY <1>2, EnqueueIInv, NotifyIInv, PollIInv, PopSelectIInv, PopUpdateIInv, FinalizeIInv,
     ReadMessageIInv, GrowOldIInv, SweepIInv, RestartIInv DEF Next
<1>3. QED BY <1>1, <1>2

\* The inductive invariant, and with it the types: a worker between its SELECT and its
\* UPDATE holds the lock and its row is still queued.
THEOREM Invariance == Spec => []IInv
  BY InitIInv, NextIInv, PTL DEF Spec

-----------------------------------------------------------------------------

LEMMA TakerStep ==
  ASSUME IInv, [Next]_vars, NEW m \in Messages, taker[m] # Nothing
  PROVE  taker'[m] = taker[m]
<1>1. CASE \E w \in Workers : PopUpdate(w)
  <2>1. PICK w \in Workers : PopUpdate(w)
    BY <1>1
  <2>2. pick[w] \in Messages /\ status[pick[w]] = "queued"
    BY <2>1 DEF IInv, ClaimStable, PopUpdate
  <2>3. taker[pick[w]] = Nothing
    BY <2>2 DEF IInv, TakerFollowsStatus
  <2>4. QED BY <2>1, <2>3 DEF IInv, TypeOK, PopUpdate
<1>2. CASE ~\E w \in Workers : PopUpdate(w)
  BY <1>2 DEF Next, vars, rows, Enqueue, EnqueueNotify, Poll, StartPoll, Park, Wake, GiveUp,
     PopSelect, Finalize, OutboxNotify, ReadMessage, GrowOld, SweepExpire, SweepDelete,
     Restart
<1>3. QED BY <1>1, <1>2

\* No message is handed to two workers, or twice to one, whatever the number of workers
\* that poll its inbox and however often the server restarts.
THEOREM HandedOnceHolds == Spec => HandedOnce
<1>1. IInv /\ [Next]_vars =>
        [\A m \in Messages : taker[m] # Nothing => taker'[m] = taker[m]]_vars
  BY TakerStep
<1>2. QED BY <1>1, Invariance, PTL DEF Spec, HandedOnce

LEMMA StatusStep ==
  ASSUME IInv, [Next]_vars, NEW m \in Messages
  PROVE  /\ status[m] \in Final => status'[m] \in {status[m], "deleted"}
         /\ status[m] = "deleted" => status'[m] = "deleted"
<1>1. CASE \E w \in Workers : PopUpdate(w)
  <2>1. PICK w \in Workers : PopUpdate(w)
    BY <1>1
  <2>2. pick[w] \in Messages /\ status[pick[w]] = "queued"
    BY <2>1 DEF IInv, ClaimStable, PopUpdate
  <2>3. QED BY <2>1, <2>2 DEF IInv, TypeOK, PopUpdate, Final
<1>2. CASE ~\E w \in Workers : PopUpdate(w)
  BY <1>2 DEF IInv, TypeOK, Next, vars, rows, Enqueue, EnqueueNotify, Poll, StartPoll, Park,
     Wake, GiveUp, PopSelect, Finalize, OutboxNotify, ReadMessage, GrowOld, SweepExpire,
     SweepDelete, Restart, Live, Final
<1>3. QED BY <1>1, <1>2

\* A message has one outcome: replies, cancels, sweeps and claims that lose the race
\* against it change nothing.
THEOREM OutcomeIsFinalHolds == Spec => OutcomeIsFinal
<1>1. IInv /\ [Next]_vars =>
        [\A m \in Messages : /\ status[m] \in Final => status'[m] \in {status[m], "deleted"}
                             /\ status[m] = "deleted" => status'[m] = "deleted"]_vars
  BY StatusStep
<1>2. QED BY <1>1, Invariance, PTL DEF Spec, OutcomeIsFinal

-----------------------------------------------------------------------------
(* What a long poll misses, what a controller is told, and the order of the queue *)

\* From its first check() to its first wait, what a poll could have taken or been told since
\* has a notify() still to come, or has set its event.
MissesNothing ==
  /\ \A w \in Workers :
       pc[w] \in {"empty", "parked"} /\ held[w] = "current" /\ ~recheck[w]
         => Claimable(w) \subseteq inboxDue
  /\ \A c \in Watchers :
       pc[c] \in {"empty", "parked"} /\ held[c] = "current" /\ ~recheck[c]
         => lock = Target[c] \/ status[Target[c]] \notin {"replied", "cancelled"}

\* The row a worker has chosen is still the oldest it could be given: what came since is
\* younger.
PicksTheOldest ==
  /\ \A m \in Messages : born[m] <= clock
  /\ \A w \in Workers :
       pc[w] = "claiming" => \A n \in Claimable(w) : born[pick[w]] <= born[n]

PollInv == MissesNothing /\ ToldTheTruth /\ PicksTheOldest

LEMMA InitPollInv == Init => PollInv
  BY InboxAssumption
  DEF Init, PollInv, MissesNothing, ToldTheTruth, PicksTheOldest, Pollers, Final

\* A notify() sets the event of everyone who waits on the key.
LEMMA FireReleases ==
  ASSUME IInv, NEW P, NEW p \in Pollers, Fire(P)[p] = "current"
  PROVE  held[p] = "current" /\ p \notin P
  BY DEF Fire

\* A row that appears has its notify() to come; one that is told is read after it is final.
LEMMA EnqueueMissesNothing ==
  ASSUME IInv, MissesNothing, NEW m \in Messages, NEW r \in Sessions \cup {Anyone},
         Enqueue(m, r)
  PROVE  MissesNothing'
  BY InboxAssumption DEF IInv, TypeOK, MissesNothing, Enqueue, polls, Claimable

\* The keys that an enqueue notifies are those of every worker that could take its row.
LEMMA EnqueueNotifyMissesNothing ==
  ASSUME IInv, MissesNothing, NEW m \in Messages, EnqueueNotify(m)
  PROVE  MissesNothing'
<1>1. ASSUME NEW p \in Pollers, held'[p] = "current"
      PROVE  held[p] = "current" /\ p \notin InboxWaiters(recipient[m])
  BY <1>1, FireReleases DEF EnqueueNotify
<1>2. ASSUME NEW w \in Workers, w \notin InboxWaiters(recipient[m])
      PROVE  m \notin Claimable(w)
  BY <1>2, InboxAssumption DEF IInv, TypeOK, InboxWaiters, Claimable
<1>3. \A w \in Workers : Claimable(w)' = Claimable(w)
  BY DEF EnqueueNotify, rows, Claimable
<1>4. QED
  BY <1>1, <1>2, <1>3 DEF MissesNothing, EnqueueNotify, rows, Pollers

LEMMA OutboxNotifyMissesNothing ==
  ASSUME IInv, MissesNothing, NEW m \in Messages, OutboxNotify(m)
  PROVE  MissesNothing'
<1>1. ASSUME NEW p \in Pollers, held'[p] = "current"
      PROVE  held[p] = "current" /\ p \notin OutboxWaiters(m)
  BY <1>1, FireReleases DEF OutboxNotify
<1>2. \A w \in Workers : Claimable(w)' = Claimable(w)
  BY DEF OutboxNotify, rows, Claimable
<1>3. QED
  BY <1>1, <1>2 DEF MissesNothing, OutboxNotify, OutboxWaiters, rows, Pollers

\* A poll that starts has not checked yet; one that waits again has been woken before.
LEMMA PollMissesNothing ==
  ASSUME IInv, MissesNothing, NEW p \in Pollers, Poll(p)
  PROVE  MissesNothing'
<1>1. \A w \in Workers : Claimable(w)' = Claimable(w)
  BY DEF Poll, StartPoll, Park, Wake, GiveUp, rows, Claimable
<1>2. CASE StartPoll(p)
  BY <1>1, <1>2 DEF IInv, TypeOK, MissesNothing, StartPoll, rows, Pollers
<1>3. CASE Park(p)
  BY <1>1, <1>3 DEF IInv, TypeOK, MissesNothing, Park, rows, Pollers
<1>4. CASE Wake(p)
  BY <1>1, <1>4 DEF IInv, TypeOK, MissesNothing, Wake, rows, Pollers
<1>5. CASE GiveUp(p)
  BY <1>1, <1>5 DEF IInv, TypeOK, MissesNothing, GiveUp, rows, Pollers
<1>6. QED BY <1>2, <1>3, <1>4, <1>5 DEF Poll

LEMMA PopMissesNothing ==
  ASSUME IInv, MissesNothing, NEW w \in Workers, PopSelect(w) \/ PopUpdate(w)
  PROVE  MissesNothing'
<1>1. CASE PopSelect(w)
  BY <1>1, InboxAssumption DEF IInv, TypeOK, MissesNothing, PopSelect, rows, Pollers, Claimable
<1>2. CASE PopUpdate(w)
  <2>1. lock = w /\ pick[w] \in Messages
    BY <1>2 DEF IInv, ClaimStable, PopUpdate
  <2>2. /\ \A v \in Workers : Claimable(v)' \subseteq Claimable(v)
        /\ \A c \in Watchers :
             status'[Target[c]] \in {"replied", "cancelled"} =>
               status[Target[c]] = status'[Target[c]]
    BY <1>2, <2>1, InboxAssumption DEF IInv, TypeOK, PopUpdate, Claimable
  <2>3. QED
    BY <1>2, <2>1, <2>2, InboxAssumption DEF IInv, TypeOK, MissesNothing, PopUpdate, Pollers
<1>3. QED BY <1>1, <1>2

\* Whoever resolves a row holds the lock until its notify().
LEMMA ResolveMissesNothing ==
  ASSUME IInv, MissesNothing,
         \/ \E m \in Messages, o \in {"replied", "cancelled"} : Finalize(m, o)
         \/ SweepExpire \/ SweepDelete
  PROVE  MissesNothing'
<1>1. /\ \A v \in Workers : Claimable(v)' \subseteq Claimable(v)
      /\ UNCHANGED <<inboxDue, polls>>
  BY DEF IInv, TypeOK, Finalize, SweepExpire, SweepDelete, Claimable, Final
<1>2. ASSUME NEW m \in Messages, status'[m] \in {"replied", "cancelled"}, lock' # m
      PROVE  status[m] = status'[m] /\ lock # m
  BY <1>2, InboxAssumption DEF IInv, TypeOK, Finalize, SweepExpire, SweepDelete
<1>3. QED
  BY <1>1, <1>2, InboxAssumption DEF MissesNothing, polls

LEMMA ReadMissesNothing ==
  ASSUME IInv, MissesNothing,
         \/ \E c \in Watchers : ReadMessage(c)
         \/ \E m \in Messages : GrowOld(m)
         \/ Restart
  PROVE  MissesNothing'
<1>1. CASE \E c \in Watchers : ReadMessage(c)
  BY <1>1, InboxAssumption
  DEF IInv, TypeOK, MissesNothing, ReadMessage, rows, Pollers, Claimable, Final
<1>2. CASE \E m \in Messages : GrowOld(m)
  BY <1>2 DEF MissesNothing, GrowOld, polls, Claimable
<1>3. CASE Restart
  BY <1>3 DEF MissesNothing, Restart, Pollers
<1>4. QED BY <1>1, <1>2, <1>3

\* A controller is told what it reads, and a final row only ever disappears.
LEMMA ToldTheTruthStep ==
  ASSUME IInv, ToldTheTruth, [Next]_vars
  PROVE  ToldTheTruth'
<1> SUFFICES ASSUME NEW c \in Watchers
             PROVE  /\ seen'[c] \in Final => status'[Target[c]] \in {seen'[c], "deleted"}
                    /\ seen'[c] = "not_found" => status'[Target[c]] = "deleted"
  BY DEF ToldTheTruth
<1>1. Target[c] \in Messages
  BY InboxAssumption
<1>2. /\ status[Target[c]] \in Final => status'[Target[c]] \in {status[Target[c]], "deleted"}
      /\ status[Target[c]] = "deleted" => status'[Target[c]] = "deleted"
  BY <1>1, StatusStep
<1>3. CASE seen'[c] = seen[c]
  BY <1>2, <1>3 DEF ToldTheTruth
<1>4. CASE \E d \in Watchers : ReadMessage(d) \/ GiveUp(d)
  <2>1. /\ UNCHANGED status
        /\ \/ seen'[c] = seen[c]
           \/ status[Target[c]] \in Final /\ seen'[c] = status[Target[c]]
           \/ status[Target[c]] = "deleted" /\ seen'[c] = "not_found"
    BY <1>4 DEF IInv, TypeOK, ReadMessage, GiveUp, rows
  <2>2. QED BY <1>3, <2>1 DEF Final
<1>5. seen'[c] = seen[c] \/ \E d \in Watchers : ReadMessage(d) \/ GiveUp(d)
  <2>1. CASE \E p \in Pollers : GiveUp(p) /\ p \notin Watchers
    BY <2>1 DEF GiveUp
  <2>2. CASE ~\E p \in Pollers : GiveUp(p)
    BY <2>2 DEF Next, vars, rows, Enqueue, EnqueueNotify, Poll, StartPoll, Park, Wake,
       PopSelect, PopUpdate, Finalize, OutboxNotify, ReadMessage, GrowOld, SweepExpire,
       SweepDelete, Restart
  <2>3. QED BY <2>1, <2>2
<1>6. QED BY <1>3, <1>4, <1>5

\* Rows leave the queue of a session, and what joins it is younger than every row there is.
LEMMA PicksTheOldestStep ==
  ASSUME IInv, PicksTheOldest, [Next]_vars
  PROVE  PicksTheOldest'
<1>1. ASSUME NEW m \in Messages, NEW r \in Sessions \cup {Anyone}, Enqueue(m, r)
      PROVE  PicksTheOldest'
  <2>1. \A w \in Workers : Claimable(w)' \subseteq Claimable(w) \cup {m}
    BY <1>1 DEF IInv, TypeOK, Enqueue, Claimable
  <2>2. \A w \in Workers : pc[w] = "claiming" => pick[w] \in Messages \ {m}
    BY <1>1 DEF IInv, ClaimStable, Enqueue
  <2>3. QED BY <1>1, <2>1, <2>2 DEF IInv, TypeOK, PicksTheOldest, Enqueue, polls, Claimable
<1>2. ASSUME NEW v \in Workers, PopSelect(v)
      PROVE  PicksTheOldest'
  BY <1>2 DEF IInv, TypeOK, PicksTheOldest, PopSelect, rows, Pollers, Claimable
<1>3. ASSUME UNCHANGED <<born, clock>>,
             \A w \in Workers : Claimable(w)' \subseteq Claimable(w),
             \A w \in Workers : pc'[w] = "claiming" => pc[w] = "claiming" /\ pick'[w] = pick[w]
      PROVE  PicksTheOldest'
  BY <1>3 DEF PicksTheOldest
<1>4. ASSUME NEW v \in Workers, PopUpdate(v)
      PROVE  PicksTheOldest'
  BY <1>3, <1>4 DEF IInv, TypeOK, PopUpdate, Claimable, Pollers
<1>5. CASE \/ \E m \in Messages, o \in {"replied", "cancelled"} : Finalize(m, o)
           \/ SweepExpire \/ SweepDelete
  BY <1>3, <1>5 DEF IInv, TypeOK, Finalize, SweepExpire, SweepDelete, Claimable, Final, polls
<1>6. CASE \E p \in Pollers : Poll(p)
  BY <1>3, <1>6
  DEF IInv, TypeOK, Poll, StartPoll, Park, Wake, GiveUp, rows, Claimable, Pollers
<1>7. CASE \/ \E m \in Messages : EnqueueNotify(m) \/ OutboxNotify(m) \/ GrowOld(m)
           \/ \E c \in Watchers : ReadMessage(c)
           \/ Restart
           \/ UNCHANGED vars
  BY <1>3, <1>7
  DEF IInv, TypeOK, EnqueueNotify, OutboxNotify, GrowOld, ReadMessage, Restart, vars, rows,
      polls, Claimable, Pollers
<1>8. QED BY <1>1, <1>2, <1>4, <1>5, <1>6, <1>7 DEF Next

LEMMA PollInvStep == IInv /\ PollInv /\ [Next]_vars => PollInv'
<1> SUFFICES ASSUME IInv, PollInv, [Next]_vars PROVE MissesNothing'
  BY ToldTheTruthStep, PicksTheOldestStep DEF PollInv
<1>1. CASE UNCHANGED vars
  BY <1>1 DEF PollInv, MissesNothing, vars, rows, polls, Claimable
<1>2. CASE Next
  BY <1>2, EnqueueMissesNothing, EnqueueNotifyMissesNothing, OutboxNotifyMissesNothing,
     PollMissesNothing, PopMissesNothing, ResolveMissesNothing, ReadMissesNothing
  DEF PollInv, Next
<1>3. QED BY <1>1, <1>2

\* What a poll knows of its event and its rows at each of its stages holds in every reachable
\* state: the part of the invariant that only the wake-ups need.
THEOREM PollInvariance == Spec => []PollInv
  BY InitPollInv, PollInvStep, Invariance, PTL DEF Spec

(* No enqueue is lost ahead of a worker's first wait: wait_for captures its event before it *)
(* checks, and an enqueue notifies every key whose worker could take the row.               *)
THEOREM NoWakeupIsLost == Spec => []FirstWaitMissesNothing
<1>1. PollInv => FirstWaitMissesNothing
  BY DEF PollInv, MissesNothing, FirstWaitMissesNothing
<1>2. QED BY <1>1, PollInvariance, PTL

(* A controller is told what the table says, and at once: while it waits on its first event *)
(* no reply or cancel has gone by unless its notify() is to come.                           *)
THEOREM ControllersAreTold == Spec => []ControllerInv
<1>1. PollInv => ControllerInv
  BY DEF PollInv, MissesNothing, ControllerInv, FirstWaitSeesReply
<1>2. QED BY <1>1, PollInvariance, PTL

(* A worker is handed the oldest message it could be given, though rows arrive and go       *)
(* between its SELECT and its UPDATE.                                                       *)
THEOREM HandedInOrderHolds == Spec => HandedInOrder
<1>1. IInv /\ PollInv /\ [Next]_vars =>
        [\A m \in Messages, w \in Workers :
           taker[m] = Nothing /\ taker'[m] = w => \A n \in Claimable(w) : born[m] <= born[n]]_vars
  <2> SUFFICES ASSUME IInv, PollInv, [Next]_vars, NEW m \in Messages, NEW w \in Workers,
                      taker[m] = Nothing, taker'[m] = w, NEW n \in Claimable(w)
               PROVE  born[m] <= born[n]
    OBVIOUS
  <2>1. w # Nothing
    BY InboxAssumption
  <2>2. PopUpdate(w) /\ pick[w] = m
    <3>1. CASE \E v \in Workers : PopUpdate(v)
      <4>1. PICK v \in Workers : PopUpdate(v)
        BY <3>1
      <4>2. taker' = [taker EXCEPT ![pick[v]] = v]
        BY <4>1 DEF PopUpdate
      <4>3. pick[v] = m /\ v = w
        BY <2>1, <4>2 DEF IInv, TypeOK
      <4>4. QED BY <4>1, <4>3
    <3>2. CASE ~\E v \in Workers : PopUpdate(v)
      BY <2>1, <3>2 DEF Next, vars, rows, Enqueue, EnqueueNotify, Poll, StartPoll, Park, Wake,
         GiveUp, PopSelect, Finalize, OutboxNotify, ReadMessage, GrowOld, SweepExpire,
         SweepDelete, Restart
    <3>3. QED BY <3>1, <3>2
  <2>3. QED BY <2>2 DEF PollInv, PicksTheOldest, PopUpdate
<1>2. QED BY <1>1, Invariance, PollInvariance, PTL DEF Spec, HandedInOrder

-----------------------------------------------------------------------------
(* Inbox implements MessageLifecycle *)

LEMMA LifecycleInit == Init => Lifecycle!Init
  BY DEF Init, Lifecycle!Init, Final

\* A step that leaves status, taker and seen alone is a stutter of the abstract queue.
LEMMA LifecycleStutter ==
  ASSUME UNCHANGED <<status, taker, seen>>
  PROVE  UNCHANGED Lifecycle!vars
  BY DEF Lifecycle!vars

LEMMA EnqueueIsSubmit ==
  ASSUME IInv, NEW m \in Messages, NEW r \in Sessions \cup {Anyone}, Enqueue(m, r)
  PROVE  Lifecycle!Submit(m)
  BY DEF IInv, TypeOK, Enqueue, Lifecycle!Submit, Final

LEMMA PopUpdateIsTake ==
  ASSUME IInv, NEW w \in Workers, PopUpdate(w)
  PROVE  pick[w] \in Messages /\ Lifecycle!Take(pick[w], w)
<1>1. pick[w] \in Messages /\ status[pick[w]] = "queued"
  BY DEF IInv, ClaimStable, PopUpdate
<1>2. taker[pick[w]] = Nothing
  BY <1>1 DEF IInv, TakerFollowsStatus
<1>3. QED BY <1>1, <1>2 DEF IInv, TypeOK, PopUpdate, Lifecycle!Take, Final

LEMMA FinalizeIsResolve ==
  ASSUME IInv, NEW m \in Messages, NEW o \in {"replied", "cancelled"}, Finalize(m, o)
  PROVE  Lifecycle!Resolve({m}, o)
  BY DEF IInv, TypeOK, Finalize, Lifecycle!Resolve, Live, Final

LEMMA SweepExpireIsResolve ==
  ASSUME IInv, SweepExpire
  PROVE  Lifecycle!Resolve({m \in Messages : status[m] \in Live /\ age[m] >= 1}, "expired")
  BY DEF IInv, TypeOK, SweepExpire, Lifecycle!Resolve, Live, Final

LEMMA SweepDeleteIsForget ==
  ASSUME IInv, SweepDelete
  PROVE  Lifecycle!Forget({m \in Messages : status[m] \in Final /\ age[m] = 2})
  BY DEF IInv, TypeOK, SweepDelete, Lifecycle!Forget, Final

LEMMA ReadMessageIsTell ==
  ASSUME IInv, NEW c \in Watchers, ReadMessage(c)
  PROVE  Lifecycle!Tell(c) \/ UNCHANGED Lifecycle!vars
<1>1. seen[c] = Nothing /\ Target[c] \in Messages
  BY InboxAssumption DEF IInv, DoneIsTold, ReadMessage
<1>2. CASE status[Target[c]] \in Final
  BY <1>1, <1>2 DEF IInv, TypeOK, ReadMessage, rows, Lifecycle!Tell, Final
<1>3. CASE status[Target[c]] \notin Final
  BY <1>3, LifecycleStutter DEF ReadMessage, rows
<1>4. QED BY <1>2, <1>3

LEMMA GiveUpIsTell ==
  ASSUME IInv, NEW p \in Pollers, GiveUp(p)
  PROVE  (\E c \in Watchers : Lifecycle!Tell(c)) \/ UNCHANGED Lifecycle!vars
<1>1. CASE p \in Watchers /\ status[Target[p]] = "deleted"
  <2>1. seen[p] = Nothing /\ Target[p] \in Messages
    BY <1>1, InboxAssumption DEF IInv, DoneIsTold, GiveUp
  <2>2. Lifecycle!Tell(p)
    BY <1>1, <2>1 DEF IInv, TypeOK, GiveUp, rows, Lifecycle!Tell
  <2>3. QED BY <1>1, <2>2
<1>2. CASE ~(p \in Watchers /\ status[Target[p]] = "deleted")
  BY <1>2, LifecycleStutter DEF GiveUp, rows
<1>3. QED BY <1>1, <1>2

LEMMA LifecycleStep == IInv /\ [Next]_vars => [Lifecycle!Next]_(Lifecycle!vars)
<1> SUFFICES ASSUME IInv, [Next]_vars
             PROVE  Lifecycle!Next \/ UNCHANGED Lifecycle!vars
  OBVIOUS
<1>1. ASSUME NEW m \in Messages, NEW r \in Sessions \cup {Anyone}, Enqueue(m, r)
      PROVE  Lifecycle!Next
  BY <1>1, EnqueueIsSubmit DEF Lifecycle!Next
<1>2. ASSUME NEW w \in Workers, PopUpdate(w)
      PROVE  Lifecycle!Next
  BY <1>2, PopUpdateIsTake DEF Lifecycle!Next
<1>3. ASSUME NEW m \in Messages, NEW o \in {"replied", "cancelled"}, Finalize(m, o)
      PROVE  Lifecycle!Next
  BY <1>3, FinalizeIsResolve DEF Lifecycle!Next, Final
<1>4. CASE SweepExpire
  BY <1>4, SweepExpireIsResolve DEF Lifecycle!Next, Final
<1>5. CASE SweepDelete
  <2>1. {m \in Messages : status[m] \in Final /\ age[m] = 2} \in SUBSET Messages
    OBVIOUS
  <2>2. QED BY <1>5, <2>1, SweepDeleteIsForget DEF Lifecycle!Next, Lifecycle!Forget
<1>6. ASSUME NEW c \in Watchers, ReadMessage(c)
      PROVE  Lifecycle!Next \/ UNCHANGED Lifecycle!vars
  BY <1>6, ReadMessageIsTell DEF Lifecycle!Next
<1>7. ASSUME NEW p \in Pollers, Poll(p)
      PROVE  Lifecycle!Next \/ UNCHANGED Lifecycle!vars
  <2>1. CASE GiveUp(p)
    BY <2>1, GiveUpIsTell DEF Lifecycle!Next
  <2>2. CASE StartPoll(p) \/ Park(p) \/ Wake(p)
    BY <2>2, LifecycleStutter DEF StartPoll, Park, Wake, rows
  <2>3. QED BY <1>7, <2>1, <2>2 DEF Poll
<1>8. CASE \/ \E m \in Messages : EnqueueNotify(m) \/ OutboxNotify(m) \/ GrowOld(m)
           \/ \E w \in Workers : PopSelect(w)
           \/ Restart
           \/ UNCHANGED vars
  BY <1>8, LifecycleStutter
  DEF EnqueueNotify, OutboxNotify, GrowOld, PopSelect, Restart, vars, rows
<1>9. QED BY <1>1, <1>2, <1>3, <1>4, <1>5, <1>6, <1>7, <1>8 DEF Next

\* The server's queue, with its lock, polls, sweeps and restarts, does what the abstract
\* queue promises its clients.
THEOREM Refinement == Spec => ImplementsLifecycle
  BY LifecycleInit, LifecycleStep, Invariance, PTL DEF Spec, ImplementsLifecycle, Lifecycle!Spec
=============================================================================

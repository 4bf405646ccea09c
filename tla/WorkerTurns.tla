---------------------------- MODULE WorkerTurns ----------------------------
(***************************************************************************)
(* The worker supervisor: named workers, their queues of turns, and the    *)
(* runner tasks that run the turns (Engine of engine.py over the Registry  *)
(* of registry.py).                                                        *)
(*                                                                         *)
(* A runner is one _worker_loop task.  A step of it is what the code does  *)
(* up to an await whose outcome another coroutine can change: a runner     *)
(* looks at the worker row, picks the oldest queued turn, claims it, waits *)
(* for a slot of the semaphore, and in every gap between the worker may be *)
(* killed, removed, made anew, or the daemon stopped.                      *)
(*                                                                         *)
(* Kicks are left out: the idle wait ends after 15 s whether or not there  *)
(* was one, so a runner that found nothing to do may look again any time.  *)
(***************************************************************************)
EXTENDS Naturals, Sequences, FiniteSets

CONSTANTS
  Workers,    \* names of workers
  Requests,   \* the kinds of turn that are asked for; "restore" turns only follow from others
  Faults,     \* bound: the sets of what may befall the daemon in one behaviour, out of "stop",
              \* "crash", "second" and "raise"
  Slots,      \* max_concurrent_turns
  KillLooks,  \* how many of the newest turns kill() finishes: 5
  MaxTurns,   \* bound: no request and no cycle once a worker has so many turns
  MaxRows,    \* bound: no recovery of a dead chain once it has so many
  MaxGen,     \* bound: how often a name is spawned
  NoRunner

ASSUME WorkerTurnsAssumption ==
  /\ Requests \subseteq {"prompt", "cycle_handover", "retire_handover"}
  /\ Slots \in Nat \ {0} /\ KillLooks \in Nat /\ MaxGen \in Nat
  /\ MaxTurns \in Nat /\ MaxRows \in Nat
  /\ NoRunner \notin Workers \X Nat

\* The tasks that can serve a name. Each generation adds at most one: _ensure_runner makes
\* one when none is registered, and only remove() strikes a live one off the register.
Runners == Workers \X (1..MaxGen)
Lane(r) == r[1]

VARIABLES
  up,       \* the daemon: "up", "stopping" or "down"
  status,   \* workers.status, "none" where there is no row
  gen,      \* how many rows the name has had
  ends,     \* end_reason of the past epochs of the row, oldest first
  turns,    \* its turns by id
  chain,    \* of its current epoch: "fresh", no turn has left a session that can be resumed;
            \* "tail", one has; "healthy", one has resumed a session and finished cleanly
  runner,   \* _runners: the live task registered for the name
  current,  \* _current: the runner whose turn task is registered for the name
  killing,  \* a kill() is between its write of the status and the rest
  at,       \* where each runner stands
  hold,     \* the turn it has picked: row generation, index and resume target
  mishaps,  \* history: ways the daemon was disturbed so far
  left      \* history: turns whose runner died of an exception with the turn unfinished, since
            \* the registry was reconciled

vars == <<up, status, gen, ends, turns, chain, runner, current, killing, at, hold,
          mishaps, left>>

Gone == {"retired", "killed"}
Active == {"idle", "running", "needs_input"}
Kinds == {"prompt", "cycle_handover", "retire_handover", "restore"}
Terminal == {"done", "failed", "killed"}

\* Stages in which the runner is inside "async with self._sem" with a turn task.
InTurn == {"begin", "start", "live", "asking", "hush", "roll", "restore", "idle", "closing"}
\* Stages of _after_turn, which a stop() lets finish.
InAfter == {"after", "afterRestore", "continue", "cycle"}

NoTurn == [gen |-> 0, i |-> 0, resume |-> FALSE]

\* seq of the current epoch
Epoch(w) == Len(ends[w]) + 1
Queued(w) == {i \in DOMAIN turns[w] : turns[w][i].state = "queued"}
RunnersOf(w) == {r \in Runners : Lane(r) = w}
Busy == {r \in Runners : at[r] \in InTurn}

\* The row of the turn that r has picked is still there: ids are never used twice.
HasRow(r) == status[Lane(r)] # "none" /\ gen[Lane(r)] = hold[r].gen
Turn(r) == turns[Lane(r)][hold[r].i]

Init ==
  /\ up = "up"
  /\ status = [w \in Workers |-> "none"]
  /\ gen = [w \in Workers |-> 0]
  /\ ends = [w \in Workers |-> <<>>]
  /\ turns = [w \in Workers |-> <<>>]
  /\ chain = [w \in Workers |-> "fresh"]
  /\ runner = [w \in Workers |-> NoRunner]
  /\ current = [w \in Workers |-> NoRunner]
  /\ killing = [w \in Workers |-> FALSE]
  /\ at = [r \in Runners |-> "off"]
  /\ hold = [r \in Runners |-> NoTurn]
  /\ mishaps = {}
  /\ left = [w \in Workers |-> {}]

\* What may go wrong now, after what went wrong before.
May(fault) == \E together \in Faults : mishaps \cup {fault} \subseteq together

Befalls(mishap) == May(mishap) /\ mishaps' = mishaps \cup {mishap}

-----------------------------------------------------------------------------
(* Registry *)

\* enqueue_turn: the row is bound to the epoch that is current now.
Enqueue(w, kind) ==
  turns' = [turns EXCEPT ![w] = Append(@, [kind |-> kind, state |-> "queued", epoch |-> Epoch(w)])]

MayAsk(w, kind) == kind \in Requests /\ Len(turns[w]) < MaxTurns

\* finish_turn of the turn of r: active to terminal, or nothing. "failed" stands for error,
\* timeout, question_timeout and budget_refused, which nothing tells apart afterwards.
\* The session goes with the row, so it counts in the epoch the turn was bound to.
Finish(r, state, session) ==
  LET w == Lane(r)
  IN IF HasRow(r) /\ Turn(r).state \in {"claimed", "running"}
       THEN /\ turns' = [turns EXCEPT ![w][hold[r].i].state = state]
            /\ chain' = [chain EXCEPT ![w] =
                 IF Turn(r).epoch # Epoch(w) THEN @
                 ELSE IF state = "done" /\ Turn(r).state = "running" /\ hold[r].resume
                   THEN "healthy"
                 ELSE IF session /\ @ = "fresh" THEN "tail" ELSE @]
       ELSE UNCHANGED <<turns, chain>>

\* set_worker_status: an UPDATE, of no row after a removal.
SetStatus(w, s) == status' = [status EXCEPT ![w] = IF @ = "none" THEN @ ELSE s]

\* roll_epoch
Roll(w, reason) ==
  /\ ends' = [ends EXCEPT ![w] = Append(@, reason)]
  /\ chain' = [chain EXCEPT ![w] = "fresh"]

\* Mutant: any session on record counts, the restore turn's own as well.
WouldRepeatIfFresh(w) ==
  /\ ends[w] # <<>> /\ ends[w][Len(ends[w])] = "resume_failed"
  /\ chain[w] = "fresh"

\* _resume_recovery_would_repeat: this epoch was opened by a recovery, and nothing in it has
\* resumed a session and finished cleanly.
WouldRepeat(w) ==
  /\ ends[w] # <<>> /\ ends[w][Len(ends[w])] = "resume_failed"
  /\ chain[w] # "healthy"

\* Mutant: a turn that was claimed and not started is left as it is.
ReconciledRunning ==
  /\ turns' = [w \in Workers |-> [i \in DOMAIN turns[w] |->
       IF turns[w][i].state = "running" THEN [turns[w][i] EXCEPT !.state = "queued"]
       ELSE turns[w][i]]]
  /\ status' = [w \in Workers |-> IF status[w] \in Active THEN "idle" ELSE status[w]]
  /\ left' = [w \in Workers |-> {}]

\* boot_reconcile
Reconciled ==
  /\ turns' = [w \in Workers |-> [i \in DOMAIN turns[w] |->
       IF turns[w][i].state \in {"claimed", "running"}
         THEN [turns[w][i] EXCEPT !.state = "queued"] ELSE turns[w][i]]]
  /\ status' = [w \in Workers |-> IF status[w] \in Active THEN "idle" ELSE status[w]]
  /\ left' = [w \in Workers |-> {}]

-----------------------------------------------------------------------------
(* Requests over the control socket, and the idle sweep *)

\* An exception that nothing around it catches: an event that cannot be written, as a rule.
Raised == Befalls("raise")

\* _ensure_runner
EnsureRunner(w) ==
  IF runner[w] # NoRunner
    THEN UNCHANGED <<runner, at>>
    ELSE \E r \in RunnersOf(w) :
           /\ at[r] = "off"
           /\ runner' = [runner EXCEPT ![w] = r]
           /\ at' = [at EXCEPT ![r] = "scan"]

\* The row is there before the event, and the event before the runner.
Spawn(w) ==
  /\ up = "up" /\ status[w] = "none" /\ gen[w] < MaxGen
  /\ status' = [status EXCEPT ![w] = "idle"]
  /\ gen' = [gen EXCEPT ![w] = @ + 1]
  /\ \/ EnsureRunner(w) /\ UNCHANGED mishaps
     \/ Raised /\ UNCHANGED <<runner, at>>
  /\ UNCHANGED <<up, ends, chain, turns, current, killing, hold, left>>

\* prompt() and cycle(): _require_active arms a runner, then the turn is recorded.
Request(w, kind) ==
  /\ up = "up" /\ status[w] \in Active /\ MayAsk(w, kind)
  /\ EnsureRunner(w)
  /\ Enqueue(w, kind)
  /\ UNCHANGED <<up, status, gen, ends, chain, current, killing, hold, mishaps, left>>

Prompt(w) == Request(w, "prompt")
Cycle(w) == Request(w, "cycle_handover")

\* kill() writes the status first ...
KillMark(w) ==
  /\ up = "up" /\ status[w] # "none"
  /\ SetStatus(w, "killed")
  /\ killing' = [killing EXCEPT ![w] = TRUE]
  /\ UNCHANGED <<up, gen, ends, chain, turns, runner, current, at, hold, mishaps, left>>

\* ... then cancels the turn task registered for the name and finishes what is active among
\* the newest turns. An open question is put away on the way out of the cancelled turn.
KillRest(w) ==
  /\ up = "up" /\ killing[w]
  /\ killing' = [killing EXCEPT ![w] = FALSE]
  /\ at' = [r \in Runners |->
       IF current[w] # r THEN at[r]
       ELSE IF at[r] \in {"asking", "hush"} THEN "hush" ELSE "closing"]
  /\ turns' = [turns EXCEPT ![w] = [i \in DOMAIN @ |->
       IF i + KillLooks > Len(@) /\ @[i].state \in {"claimed", "running"}
         THEN [@[i] EXCEPT !.state = "killed"] ELSE @[i]]]
  /\ UNCHANGED <<up, status, gen, ends, chain, runner, current, hold, mishaps, left>>

\* remove(): the rows go, and the name's entries in the engine's dictionaries.
RemoveWorker(w) ==
  /\ up = "up" /\ status[w] \in Gone
  /\ status' = [status EXCEPT ![w] = "none"]
  /\ ends' = [ends EXCEPT ![w] = <<>>]
  /\ turns' = [turns EXCEPT ![w] = <<>>]
  /\ chain' = [chain EXCEPT ![w] = "fresh"]
  /\ runner' = [runner EXCEPT ![w] = NoRunner]
  /\ current' = [current EXCEPT ![w] = NoRunner]
  /\ left' = [left EXCEPT ![w] = {}]
  /\ UNCHANGED <<up, gen, killing, at, hold, mishaps>>

\* maybe_retire_idle, for a worker past its idle timeout.
RetireIdle(w) ==
  LET over == {i \in DOMAIN turns[w] : turns[w][i].state \in Terminal}
  IN /\ up = "up" /\ status[w] = "idle" /\ Queued(w) = {} /\ MayAsk(w, "retire_handover")
     /\ over # {} =>
          turns[w][CHOOSE i \in over : \A j \in over : j <= i].kind # "retire_handover"
     /\ Enqueue(w, "retire_handover")
     /\ UNCHANGED <<up, status, gen, ends, chain, runner, current, killing, at, hold, mishaps,
                    left>>

-----------------------------------------------------------------------------
(* _worker_loop *)

Stay == UNCHANGED <<up, gen, killing, mishaps, left>>
Goto(r, stage) == at' = [at EXCEPT ![r] = stage]

\* The task ends; a registered one that is done counts as none.
Exit(r) ==
  /\ Goto(r, "off")
  /\ runner' = [runner EXCEPT ![Lane(r)] = IF @ = r THEN NoRunner ELSE @]
  /\ hold' = [hold EXCEPT ![r] = NoTurn]

\* On to the next round, unless the runner was cancelled meanwhile.
Again(r) ==
  IF up = "stopping" THEN Exit(r)
  ELSE Goto(r, "scan") /\ hold' = [hold EXCEPT ![r] = NoTurn] /\ UNCHANGED runner

\* Mutant: a killed worker's row is still there, so the loop goes on.
ScanRow(r) ==
  /\ up = "up" /\ at[r] = "scan"
  /\ IF status[Lane(r)] \in {"retired", "none"}
       THEN Exit(r)
       ELSE Goto(r, "pick") /\ UNCHANGED <<runner, hold>>
  /\ Stay /\ UNCHANGED <<status, ends, chain, turns, current>>

\* The worker row, at the top of the loop.
Scan(r) ==
  /\ up = "up" /\ at[r] = "scan"
  /\ IF status[Lane(r)] \in Gone \cup {"none"}
       THEN Exit(r)
       ELSE Goto(r, "pick") /\ UNCHANGED <<runner, hold>>
  /\ Stay /\ UNCHANGED <<status, ends, chain, turns, current>>

\* Mutant: ORDER BY id DESC.
Newest(S) == CHOOSE i \in S : \A j \in S : j <= i

\* next_queued_turn
Oldest(S) == CHOOSE i \in S : \A j \in S : i <= j

Pick(r) ==
  /\ up = "up" /\ at[r] = "pick"
  /\ IF Queued(Lane(r)) = {} \/ status[Lane(r)] = "none"
       THEN Again(r)
       ELSE /\ Goto(r, "claim")
            /\ hold' = [hold EXCEPT ![r] =
                 [gen |-> gen[Lane(r)], i |-> Oldest(Queued(Lane(r))), resume |-> FALSE]]
            /\ UNCHANGED runner
  /\ Stay /\ UNCHANGED <<status, ends, chain, turns, current>>

\* Mutant: the row is written by its id alone.
ClaimAnyway(r) ==
  /\ up = "up" /\ at[r] = "claim"
  /\ IF HasRow(r)
       THEN /\ turns' = [turns EXCEPT ![Lane(r)][hold[r].i].state = "claimed"]
            /\ Goto(r, "wait")
            /\ UNCHANGED <<runner, hold>>
       ELSE Again(r) /\ UNCHANGED turns
  /\ Stay /\ UNCHANGED <<status, ends, chain, current>>

\* claim_turn; whoever loses the compare-and-swap looks again.
Claim(r) ==
  /\ up = "up" /\ at[r] = "claim"
  /\ IF HasRow(r) /\ Turn(r).state = "queued"
       THEN /\ turns' = [turns EXCEPT ![Lane(r)][hold[r].i].state = "claimed"]
            /\ Goto(r, "wait")
            /\ UNCHANGED <<runner, hold>>
       ELSE Again(r) /\ UNCHANGED turns
  /\ Stay /\ UNCHANGED <<status, ends, chain, current>>

\* A slot of the semaphore, and the turn task on register.
Acquire(r) ==
  /\ up = "up" /\ at[r] = "wait" /\ Cardinality(Busy) < Slots
  /\ Goto(r, "begin")
  /\ current' = [current EXCEPT ![Lane(r)] = r]
  /\ Stay /\ UNCHANGED <<status, ends, chain, turns, runner, hold>>

\* The finally after a turn: the entry of the name goes, whoever's it is; the slot is free.
Release(r) == current' = [current EXCEPT ![Lane(r)] = NoRunner]

\* An AssertionError for a row that is gone leaves _run_turn or _after_turn, and the loop.
Die(r) == Exit(r) /\ Release(r) /\ UNCHANGED <<status, ends, chain, turns>>

\* A killed turn has been closed; "continue".
Closed(r) ==
  /\ up = "up" /\ at[r] = "closing"
  /\ Again(r) /\ Release(r)
  /\ Stay /\ UNCHANGED <<status, ends, chain, turns>>

-----------------------------------------------------------------------------
(* _run_turn, by the runner r that holds a slot *)

Step(r, stage) == up = "up" /\ at[r] = stage

\* _pick_resume_target
CanResume(w) == chain[w] # "fresh"

\* Reads of the worker, the turn, the epoch and its sessions, whose transcripts may be missing.
\* An exhausted epoch refuses all but lifecycle turns.
Begin(r) ==
  /\ Step(r, "begin")
  /\ \/ ~HasRow(r) /\ Die(r)
     \/ /\ HasRow(r)
        /\ \E resume \in {FALSE, CanResume(Lane(r))} :
             hold' = [hold EXCEPT ![r].resume = resume]
        /\ Goto(r, "start")
        /\ UNCHANGED <<status, ends, chain, turns, runner, current>>
     \/ /\ HasRow(r) /\ Turn(r).kind = "prompt"
        /\ Finish(r, "failed", FALSE)
        /\ Goto(r, "idle")
        /\ UNCHANGED <<status, ends, runner, current, hold>>
  /\ Stay

\* The status, written whatever it was; then start_turn, whose outcome is not looked at. (A turn
\* whose MCP file cannot be written fails here as it does in End, without having started.)
Start(r) ==
  /\ Step(r, "start")
  /\ SetStatus(Lane(r), "running")
  /\ turns' = IF HasRow(r) /\ Turn(r).state = "claimed"
                THEN [turns EXCEPT ![Lane(r)][hold[r].i].state = "running"]
                ELSE turns
  /\ Goto(r, "live")
  /\ Stay /\ UNCHANGED <<ends, chain, runner, current, hold>>

\* The stream ends in one of the terminal ways; a retry before that changes nothing.
End(r) ==
  /\ Step(r, "live")
  /\ \E state \in {"done", "failed"}, session \in BOOLEAN : Finish(r, state, session)
  /\ Goto(r, "idle")
  /\ Stay /\ UNCHANGED <<status, ends, runner, current, hold>>

\* The session to resume is refused: the turn fails and the epoch is to be rolled, unless the
\* circuit breaker says that this is the cure that has just failed.
DeadChain(r) ==
  /\ Step(r, "live") /\ hold[r].resume
  /\ Finish(r, "failed", FALSE)
  /\ IF WouldRepeat(Lane(r))
       THEN Goto(r, "idle")
       ELSE Len(turns[Lane(r)]) < MaxRows /\ Goto(r, "roll")
  /\ Stay /\ UNCHANGED <<status, ends, runner, current, hold>>

RollDead(r) ==
  /\ Step(r, "roll")
  /\ IF status[Lane(r)] = "none"
       THEN Die(r)
       ELSE /\ Roll(Lane(r), "resume_failed") /\ Goto(r, "restore")
            /\ UNCHANGED <<status, turns, runner, current, hold>>
  /\ Stay

RestoreDead(r) ==
  /\ Step(r, "restore")
  /\ IF status[Lane(r)] = "none"
       THEN Die(r)
       ELSE /\ Enqueue(Lane(r), "restore") /\ Goto(r, "idle")
            /\ UNCHANGED <<status, ends, chain, runner, current, hold>>
  /\ Stay

\* The last write of _run_turn; the task is done and the slot is free.
BackToIdle(r) ==
  /\ Step(r, "idle")
  /\ SetStatus(Lane(r), "idle")
  /\ Release(r) /\ Goto(r, "after")
  /\ Stay /\ UNCHANGED <<ends, chain, turns, runner, hold>>

\* QuestionBridge.ask: the worker waits for an answer, in the middle of its turn.
Ask(r) ==
  /\ Step(r, "live")
  /\ SetStatus(Lane(r), "needs_input") /\ Goto(r, "asking")
  /\ Stay /\ UNCHANGED <<ends, chain, turns, runner, current, hold>>

\* Its finally, for an answer, a timeout and a cancellation alike.
Asked(r) ==
  /\ up = "up" /\ at[r] \in {"asking", "hush"}
  /\ SetStatus(Lane(r), "running")
  /\ Goto(r, IF at[r] = "asking" THEN "live" ELSE "closing")
  /\ Stay /\ UNCHANGED <<ends, chain, turns, runner, current, hold>>

-----------------------------------------------------------------------------
(* _after_turn, shielded from a stop *)

Follow(r, stage) == up \in {"up", "stopping"} /\ at[r] = stage

After(r) ==
  /\ Follow(r, "after")
  /\ LET w == Lane(r)
         done == HasRow(r) /\ Turn(r).state = "done"
         kind == Turn(r).kind
     IN \/ /\ ~done
           /\ Again(r) /\ UNCHANGED <<status, ends, chain>>
        \/ /\ done /\ kind = "cycle_handover"
           /\ Roll(w, "cycled") /\ Goto(r, "afterRestore")
           /\ UNCHANGED <<status, runner, hold>>
        \/ /\ done /\ kind = "retire_handover"
           /\ SetStatus(w, "retired")
           /\ Again(r) /\ UNCHANGED <<ends, chain>>
        \/ /\ done /\ kind = "restore" /\ Queued(w) = {}
           /\ Goto(r, "continue") /\ UNCHANGED <<status, ends, chain, runner, hold>>
        \/ /\ done /\ kind = "prompt" /\ Queued(w) = {} /\ MayAsk(w, "cycle_handover")
           /\ Goto(r, "cycle") /\ UNCHANGED <<status, ends, chain, runner, hold>>
        \/ /\ done /\ (kind = "restore" => Queued(w) # {}) /\ kind \in {"restore", "prompt"}
           /\ Again(r) /\ UNCHANGED <<status, ends, chain>>
  /\ Stay /\ UNCHANGED <<turns, current>>

\* The turn that follows: the restore of a rolled epoch, the continuation of a restored one,
\* the handover under context pressure.
Chain(r) ==
  /\ \E next \in {<<"afterRestore", "restore">>, <<"continue", "prompt">>,
                  <<"cycle", "cycle_handover">>} :
       /\ Follow(r, next[1])
       /\ IF status[Lane(r)] = "none"
            THEN Exit(r) /\ UNCHANGED turns
            ELSE Enqueue(Lane(r), next[2]) /\ Again(r)
  /\ Stay /\ UNCHANGED <<status, ends, chain, current>>

-----------------------------------------------------------------------------
(* The daemon *)

\* Mutant: _after_turn is not shielded.
StopAll ==
  /\ May("stop") /\ up = "up"
  /\ up' = "stopping"
  /\ at' = [r \in Runners |-> "off"]
  /\ hold' = [r \in Runners |-> NoTurn]
  /\ runner' = [w \in Workers |-> NoRunner]
  /\ UNCHANGED <<status, gen, ends, chain, turns, current, killing, mishaps, left>>

\* stop(): every runner is cancelled, but one that is in _after_turn lets it finish.
Stop ==
  /\ May("stop") /\ up = "up"
  /\ up' = "stopping"
  /\ at' = [r \in Runners |-> IF at[r] \in InAfter THEN at[r] ELSE "off"]
  /\ hold' = [r \in Runners |-> IF at[r] \in InAfter THEN hold[r] ELSE NoTurn]
  /\ runner' = [w \in Workers |->
       IF runner[w] # NoRunner /\ at[runner[w]] \in InAfter THEN runner[w] ELSE NoRunner]
  /\ UNCHANGED <<status, gen, ends, chain, turns, current, killing, mishaps, left>>

Down ==
  /\ up' = "down"
  /\ at' = [r \in Runners |-> "off"]
  /\ hold' = [r \in Runners |-> NoTurn]
  /\ runner' = [w \in Workers |-> NoRunner]
  /\ current' = [w \in Workers |-> NoRunner]
  /\ killing' = [w \in Workers |-> FALSE]
  /\ UNCHANGED <<status, gen, ends, chain, turns, left>>

StopEnds == up = "stopping" /\ (\A r \in Runners : at[r] = "off") /\ Down /\ UNCHANGED mishaps

\* The process is killed, or the time a stop grants is over.
Crash == up # "down" /\ Down /\ Befalls("crash")

\* Mutant: no start(): a runner is armed by the next request only.
BootUnarmed ==
  /\ up = "down"
  /\ up' = "up"
  /\ Reconciled
  /\ UNCHANGED <<gen, ends, chain, runner, current, killing, at, hold, mishaps>>

\* boot_reconcile, then start(): a runner for every worker that is not gone.
Boot ==
  /\ up = "down"
  /\ up' = "up"
  /\ Reconciled
  /\ runner' = [w \in Workers |-> IF status[w] \in Active THEN <<w, 1>> ELSE NoRunner]
  /\ at' = [r \in Runners |-> IF runner'[Lane(r)] = r THEN "scan" ELSE "off"]
  /\ UNCHANGED <<gen, ends, chain, current, killing, hold, mishaps>>

\* A second daemon started by mistake reconciles the registry of the live one before it finds
\* the control socket taken and gives up.
SecondDaemon ==
  /\ up = "up"
  /\ Reconciled
  /\ Befalls("second")
  /\ UNCHANGED <<up, gen, ends, chain, runner, current, killing, at, hold>>

\* Stages in which the code can raise past its handlers: a session skipped is reported in
\* "begin"; the start is reported, and the environment of the worker built, in "live"; how the
\* turn ended is reported after it was recorded, in "roll" and "idle"; an automatic cycle before
\* it is asked for; and what _after_turn did at its end, when nothing but the loop is left.
Raising == {"begin", "live", "roll", "idle", "cycle", "scan"}

\* Nothing supervises a runner: the exception leaves _run_turn or _after_turn and the loop, whose
\* finally gives the slot back, and turn and worker stay as they are recorded.
Raise(r) ==
  /\ Raised /\ up # "down" /\ at[r] \in Raising
  /\ Exit(r)
  /\ IF at[r] \in InTurn THEN Release(r) ELSE UNCHANGED current
  /\ left' = IF /\ at[r] \in InTurn /\ HasRow(r)
                /\ Turn(r).state \in {"claimed", "running"}
               THEN [left EXCEPT ![Lane(r)] = @ \cup {hold[r].i}] ELSE left
  /\ UNCHANGED <<up, status, gen, ends, chain, turns, killing>>

RunnerStep(r) ==
  \/ Scan(r) \/ Pick(r) \/ Claim(r) \/ Closed(r)
  \/ Begin(r) \/ Start(r) \/ End(r) \/ DeadChain(r) \/ RollDead(r) \/ RestoreDead(r)
  \/ BackToIdle(r) \/ Ask(r) \/ Asked(r) \/ After(r) \/ Chain(r)

Next ==
  \/ \E w \in Workers :
       \/ Spawn(w) \/ Prompt(w) \/ Cycle(w) \/ KillMark(w) \/ KillRest(w)
       \/ RemoveWorker(w) \/ RetireIdle(w)
  \/ \E r \in Runners : RunnerStep(r) \/ Acquire(r) \/ Raise(r)
  \/ Stop \/ StopEnds \/ Crash \/ Boot \/ SecondDaemon

Spec == Init /\ [][Next]_vars

(***************************************************************************)
(* Every await of a runner comes back: the registry answers, the wall      *)
(* clock ends a stream however many questions it asks, a cancelled turn is *)
(* closed within the SDK's grace, and pm2 starts the daemon again.  The    *)
(* semaphore serves its waiters in order of arrival.                       *)
(***************************************************************************)
FairSpec ==
  /\ Spec
  /\ \A r \in Runners :
       /\ WF_vars(RunnerStep(r))
       /\ SF_vars(End(r) \/ DeadChain(r))
       /\ SF_vars(Acquire(r))
  /\ \A w \in Workers : WF_vars(KillRest(w))
  /\ WF_vars(StopEnds) /\ WF_vars(Boot)

-----------------------------------------------------------------------------
(* Properties *)

TypeOK ==
  /\ up \in {"up", "stopping", "down"}
  /\ status \in [Workers -> Active \cup Gone \cup {"none"}]
  /\ gen \in [Workers -> 0..MaxGen]
  /\ ends \in [Workers -> Seq({"cycled", "resume_failed"})]
  /\ turns \in [Workers -> Seq([kind : Kinds,
                                state : Terminal \cup {"queued", "claimed", "running"},
                                epoch : Nat \ {0}])]
  /\ chain \in [Workers -> {"fresh", "tail", "healthy"}]
  /\ runner \in [Workers -> Runners \cup {NoRunner}]
  /\ current \in [Workers -> Runners \cup {NoRunner}]
  /\ killing \in [Workers -> BOOLEAN]
  /\ at \in [Runners -> InTurn \cup InAfter \cup {"off", "scan", "pick", "claim", "wait"}]
  /\ hold \in [Runners -> [gen : 0..MaxGen, i : Nat, resume : BOOLEAN]]
  /\ mishaps \subseteq {"crash", "second", "raise"}
  /\ left \in [Workers -> SUBSET Nat]

\* A worker has one runner, and so runs one turn at a time, as long as its name is not used again.
\* (After kill, remove and spawn the runner of the old row may serve the new one too. A turn whose
\* runner died of an exception is still recorded as running, and nobody runs it.)
OneRunner ==
  \A w \in Workers :
    gen[w] <= 1 => Cardinality({r \in RunnersOf(w) : at[r] # "off"}) <= 1

\* Even the two runners of a name used again never run one turn twice: the claim decides.
\* (Unless a second daemon puts a turn that is running back on the queue.)
ClaimedOnce ==
  "second" \notin mishaps =>
    \A r, q \in Runners :
      /\ r # q /\ Lane(r) = Lane(q)
      /\ {at[r], at[q]} \subseteq InTurn \cup {"wait"}
      => <<hold[r].gen, hold[r].i>> # <<hold[q].gen, hold[q].i>>

\* Runners keep apart: by workers, or at least by turns.
RunnersApart == OneRunner /\ ClaimedOnce

\* Turns of a worker leave the queue in the order they were asked for, redelivery included.
\* (Unless a second daemon puts back an old turn that nobody runs any more, as a kill did not
\* look at it or its runner died of an exception.)
Orderly(w) ==
  gen[w] <= 1 /\ ("second" \in mishaps => "raise" \notin mishaps /\ Len(turns[w]) <= KillLooks)

InOrder ==
  \A w \in Workers : Orderly(w) =>
    \A i, j \in DOMAIN turns[w] :
      i < j /\ turns[w][j].state \in {"claimed", "running"} => turns[w][i].state # "queued"

\* The lane of each worker is well formed and in order.
LaneInv == TypeOK /\ InOrder

\* A turn that is claimed or running is in the hands of a live runner, so it will end. The one
\* way out that leaves it behind while the daemon is up, until a kill or the next boot, is an
\* exception past the handlers of _run_turn; none of the kills, ends, questions, rolls and
\* removals does. (Beyond the newest few turns, which are all that a kill looks at, one may be.)
NoTurnStranded ==
  up = "up" =>
    \A w \in Workers : gen[w] <= 1 =>
      \A i \in DOMAIN turns[w] :
        turns[w][i].state \in {"claimed", "running"} /\ i + KillLooks > Len(turns[w]) =>
          \/ \E r \in RunnersOf(w) : at[r] \in InTurn \cup {"wait"} /\ hold[r].i = i
          \/ i \in left[w]

\* An epoch that a handover opened has the turn that restores the handover, or a runner is
\* about to ask for it: a stop cannot come between the two, only the end of the process can.
CycledIsRestored ==
  "crash" \notin mishaps =>
    \A w \in Workers : gen[w] <= 1 /\ status[w] # "none" =>
      \A e \in 1..Len(ends[w]) :
        ends[w][e] = "cycled" =>
          \/ \E i \in DOMAIN turns[w] :
               turns[w][i].kind = "restore" /\ turns[w][i].epoch = e + 1
          \/ e = Len(ends[w]) /\ \E r \in RunnersOf(w) : at[r] = "afterRestore"

\* A dead session chain is cured once: two recoveries in a row have a turn between them that
\* resumed a session and finished, or the lane stops and waits for an operator.
BreakerHolds ==
  [][\A w \in Workers :
       LET past == ends[w]
       IN gen[w] <= 1 /\ ends'[w] = Append(past, "resume_failed") /\ past # <<>> =>
            past[Len(past)] = "cycled" \/ chain[w] = "healthy"]_vars

\* How a turn ended stays as it was recorded, by a kill or by its own runner, whoever was
\* first; a boot redelivers only what had not ended.
EndIsFinal ==
  [][\A w \in Workers : gen'[w] = gen[w] /\ status'[w] # "none" =>
       \A i \in DOMAIN turns[w] :
         turns[w][i].state \in Terminal => turns'[w][i] = turns[w][i]]_vars

\* A kill is through, and no runner is on its way into a turn of the worker or in one.
Settled(w) ==
  /\ status[w] = "killed" /\ ~killing[w]
  /\ \A r \in RunnersOf(w) : at[r] \in {"off", "scan", "closing"} \cup InAfter

\* A kill that found its worker between two turns, or whose turn is being closed, is final:
\* no runner takes up a turn of it again, no boot arms one, and no late write of the status
\* brings it back. (A runner on its way into a turn, or at a question, does: KilledIsTerminal.)
KillIsFinal ==
  [][\A w \in Workers : gen[w] <= 1 /\ Settled(w) =>
       Settled(w)' \/ status'[w] \in {"retired", "none"} \/ killing'[w]]_vars

\* No late write undoes an end: neither a turn's nor a worker's.
EndsAreFinal == EndIsFinal /\ KillIsFinal

\* remove()'s docstring and WORKER_GONE: killed is a terminal status, which a worker leaves
\* by being removed only.
KilledIsTerminal ==
  [][\A w \in Workers :
       status[w] = "killed" /\ ~killing[w] => status'[w] \in Gone \cup {"none"}]_vars

\* The runner of the worker died of an exception, or was never armed for one, and none has been
\* armed since: that takes a prompt, a cycle or a boot.
Unserved(w) == runner[w] = NoRunner /\ "raise" \in mishaps

\* A turn that was accepted is run, or its worker is gone or unserved; whatever was queued before
\* it, whoever holds the slots, and whatever the daemon went through, if that comes to an end.
QueuedIsRun ==
  (<>[][~(Stop \/ Crash \/ SecondDaemon)]_vars) =>
    \A w \in Workers : \A i \in 1..MaxTurns :
      (i \in Queued(w)) ~> (i \notin Queued(w) \/ status[w] \notin Active \/ Unserved(w))
=============================================================================

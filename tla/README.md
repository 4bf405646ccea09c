# Verification of fast-mcp-claude

TLA+ models of the mesh that lets Claude sessions hand work to one another, the
TLC runs that check them on small instances, and TLAPS proofs for every size.

The repository holds four Python programs. A **peer server**
(`src/fast_mcp_claude`) keeps a SQLite store of messages, approvals, pubsub
events and presence and offers long polls over it. A **headless launcher**
(`launcher.py`) claims messages addressed to its identity and runs each in a
child process. A **worker supervisor** (`worker-supervisor/`) keeps named
workers and runs their turns. A **spawner** (`spawner/`) takes jobs from a
JetStream work queue and runs each in a container (`sandbox-runner/` is what
runs inside). Beside a live session runs a **sidecar** (`channel.py`) that
claims the session's messages and pushes them into it.

## Inventory

| Part | State it keeps | Operations | Hard behaviours | What makes it correct |
|---|---|---|---|---|
| Message inbox (`services/store.py`, `tools/messaging.py`) | `messages` table, `_db_lock`, long polls | enqueue, pop, reply, cancel, wait, sweep, restart | every `await` is a scheduling point; check-then-wait; reads outside the lock | handed out once, oldest first; one outcome; waiters told the truth, and in the end told |
| Notifier (`services/store.py`) | `_events` (LRU), `_waiters` | get, notify, notify_prefix, forget, wait_for | capacity eviction against live waiters | exact counts, bounded, every waiter can be woken |
| Approvals, teams outbox, session relay (`services/store.py`, `tools/`, `hook.py`) | one table each; the relay's permits | create, long poll, drain, decide or complete, sweep | timeouts racing late answers, two hubs, a hub that dies with what it drained | one verdict per request, nothing carried out twice, every call ends |
| Presence (`services/store.py`, `tools/presence.py`) | one row per identity with an owner token | announce, heartbeat, forget, sweep | a late heartbeat, an announce on its way when its process is gone | one claimer per identity, and always one in the end |
| Launcher bridge (`launcher.py`) | semaphore, `inflight`, three events, `_ClientBox`, process groups | announce, reap, claim, bounce, run, kill, reply, reconnect, shut down | lost sessions between claim and answer, gates that shut mid-poll, stops anywhere | slots conserved, always reply, never run ungated, no worker left behind, never wedge |
| Envelopes and replies (`launcher.py`) | none | parse and clamp an envelope, read an engine's output, cut a reply to size | JSON and UTF-8 lengths differ; events late or cut off | within policy, within the cap, the right line |
| Channel sidecar (`channel.py`) | the slot of one message in flight, signs of life, degraded mode | claim, push, verdict, bounce, re-arm, reply | a reply at the boundary of a window, a session that parks and returns | no live session bounced, no message unsettled |
| Worker supervisor (`engine.py`, `registry.py`) | workers, turns, sessions, epochs; runner tasks; a semaphore | spawn, prompt, cycle, kill, remove, retire; boot recovery | kill against a turn that starts, handovers that span a crash | one running turn per worker, no context silently lost |
| Question gate and tool policy (`gate.py`) | question rows and waiters; counters of an attempt | split and match a command, hook, guard, ask, answer, time out | quoting, failing closed, answer against timer | what runs is granted, every ask ends, a gap is reported |
| Spawner (`spawner/`) | `jobs` table, containers | fetch, decide, launch, attach, publish, settle, ack, boot reconcile | redelivery, crash between any two effects, docker that fails | one container per job, ack terminally only, every job answered |
| Sandbox runner and relay (`sandbox-runner/`, `spawner/relay.py`) | `events.jsonl`, `result.json`, the tailer's offset | set up, observe, end, tail, cap | a poll within a line, an answer that JSON expands past the cap | only completed is ok, every event passed on, every frame fits |
| Pubsub, authentication, files, server shell, hooks of a live session | see *Not modelled* | | | |

The parts talk through the tables: a controller enqueues in the inbox, the
launcher or the sidecar polls it as a worker and replies to it; the hook of a
launched worker asks for an approval through the launcher's relay; launcher and
sidecar announce themselves in presence, whose answer gates their claims. The
spawner shares nothing with the store; its queue and results are on NATS.

## Modules

* `MessageLifecycle`: the abstract specification of a message: new, waiting,
  taken, resolved with one outcome, forgotten, and what a watcher may be told.
* `Inbox`: the store's implementation of it. A step is what the code does
  between two awaits, so `pop_next_for_worker` is `PopSelect` and `PopUpdate`
  with `_db_lock` held in between, a sweep is `SweepExpire` and `SweepDelete`,
  and `enqueue_message`, which takes no lock, is `Enqueue` and `EnqueueNotify`.
  An asyncio event is seen from who holds it: `current` (the next `notify`
  sets it), `fired`, or `none`. `age` abstracts `created_at` against the two
  cutoffs. The refinement mapping is `Lifecycle`.
* `Notifier`: the registry below the long polls, with the LRU bound that
  `Inbox` leaves out: `events` are the keys of `_events` and `older` the order
  it has them in; `refs` and `counted` are `_waiters`.
* `Requests`: the three tables of requests that wait for a verdict, as one
  table whose rows go from pending to done, through claimed where a hub drains
  them. `step` is the call that waits: for a permit of the launcher's relay
  (`Hooked`), at the server (`Direct`, `Channelled`, `TeamsSends`,
  `SessionOps`). `Outcome` says what each kind of requester makes of an error
  and of running out of time. Hubs are external: they drain, act and complete.
* `RequestLifecycle`: what such a table promises its callers. A request is new,
  open, taken by a hub, closed with one verdict, forgotten; a requester is told
  that verdict, or that there is none. `Requests` implements it; its mapping is
  also called `Lifecycle`, and `Stage` reads the stage off a row's status.
* `Presence`: the row of one identity, its announcers and what each of them
  believes (`confirmed`). An announce is sent, served and answered in three
  steps, as its process may be gone, or late, at each.
* `Launcher`: `_bridge` as a program counter `at`, beside it the heartbeat, the
  handlers, the reaper, the shutdown and the relay's health. `task` is a
  handler, `group` the process group it has spawned, `doomed` the groups the
  shutdown goes on to kill. The server appears as the rows of its table only;
  `wire` is a claim whose answer is on its way. Messages are numbered by
  `created_at`; `Newest` is the page of the claimed ones that a listing returns,
  for whomever they are, and `Found` what the reaper and the sweep see of it.
* `Text`, `Reply`: pure functions. A text is a sequence of kinds of characters,
  each with its length in UTF-8 and in JSON. `ShapeReply` with `TruncateMiddle`
  and the shrinking loop, `Window` (the output cap), `ParseCodex`,
  `ParseClaude`, `TaskOk`.
* `Envelopes`: pure. `ParseEnvelope` with every `_resolve_*`: which envelopes
  are refused, and with which error, and what an accepted one gives the worker.
  Where the paths of the machine lead is the constant `Resolved`.
* `Channel`: the claim loop of the sidecar (`at`, `cur`), the verdict on the
  message in flight, the degraded mode and the reply tool; the session is
  external: one turn at a time, it may stop looking at its channel.
* `WorkerTurns`: the supervisor. A worker is its `status`, its queue `turns` and
  the `ends` of its past epochs; `chain` says whether the current epoch has a
  session to resume and whether resuming has worked. A runner (`at`, `hold`)
  goes through `_worker_loop`, `_run_turn` and `_after_turn` in steps between
  awaits; `runner` and `current` are the engine's dictionaries, `killing` is the
  gap within `kill`. Two turn ends that nothing tells apart later are one
  ("failed"), and kicks are left out, as the idle wait ends without one too.
  `Raise` ends a runner by an exception where the code can let one escape, and
  `left` remembers the turns it had; the registry itself is taken not to fail.
* `Grants`: the vocabulary of a tool policy, which the next two share.
* `Ceiling`: the command scanner character by character, the pattern matcher
  and the verdict of the tool ceiling on one call (`CeilingDenial`); pure.
* `Gate`: one turn as its permission gate sees it. `calls` are the tool calls
  of an attempt with how far each is; `questions` pairs each row with its ask
  (the coroutine) and its answer (the caller). The verdict on a call is the
  constant operator `Denial`; `MCGate.cfg` gives it `CeilingDenial`, so the run
  checks the gate with the real ceiling, and the proofs hold for any.
* `SpawnerJobs`: one spawner process (`at`, `cur`, `here`), its table (`rec`,
  `cid`), the work queue (`msg`, `deliveries`), docker (`boxes`, `runs`), the
  result file and the published `.result` frames. JetStream and docker are
  external and modelled by what the code relies on: at-least-once delivery up
  to `max_deliver`, a refused second container of one name, `--rm`.
* `JobLifecycle`: what a spawner promises the bus: frames are only added, work
  is live in one place, an outcome stays, and a job's message is drained only
  once something has been published for it. `SpawnerJobs` implements it.
* `Sandbox`: pure. What becomes of one request inside its container
  (`SetUp`, `RunJob`, `ResultFile`), the event file with its tailer (`Tailed`)
  and the answer cut to the bus's cap (`EncodeCapped`). `SpawnerJobs` abstracts
  it to "done" and "error". It is one run in one fresh directory: a tailer that
  attaches again starts at offset 0 and sends all frames once more
  (processor.py:129, relay.py:140), and a relaunch that is cut off may find the
  `result.json` of the run before it. A result message whose subtype the
  runner does not list, and which is not flagged as an error, counts as a success
  in the reference as it does in the code (runner.py:119).
* `MCInbox`, `MCNotifier`, `MCTurns`, `MCLauncher`, `MCSpawner`, `MCRequests`,
  `MCPresence`, `MCChannel`, `MCGate`: instances for TLC. `MCLauncher`,
  `MCSpawner` and `MCGate` also hold the reference definitions that `Reply`,
  `Sandbox` and `Ceiling` are compared with, and `MCLauncher` the directories
  that `Envelopes` resolves paths to.
* `InboxProofs`, `RequestsProofs`, `ChannelProofs`, `LauncherProofs`,
  `SpawnerJobsProofs`, `WorkerTurnsProofs`, `GateProofs`: the inductive
  invariant of each component and the theorems about it. `StoreProofs` has
  those of `Notifier` and of `Presence`, two small parts of `store.py`; since it
  extends both, the names of `Presence` say which specification is meant.

Definitions whose comment begins with "Mutant:" are deliberate mistakes; each
stands for a plausible bug, and a run must find its property violated with it.

## Runs

| Run | Instance | Shows |
|---|---|---|
| `inbox_workers` | 2 messages, 2 workers of one session, age up to 1 | `IInv`, no wakeup lost ahead of a first check, handed once, oldest first |
| `inbox_watcher` | 1 message, 1 worker, 1 controller, age up to 2, fair | controllers are told the truth and told in the end, outcomes are final, queued messages are taken, `Inbox` implements `MessageLifecycle` |
| `notifier` | 2 tasks, 4 keys, bound 2 | counts are exact, the register is bounded, every waiter can be woken |
| `requests` | 6 requests of all five kinds, any 2 of them, 2 hubs, 1 permit, all faults, fair | answers are recorded verdicts, nothing is carried out twice, every call ends, no row dangles, `Requests` implements `RequestLifecycle` |
| `presence` | 2 announcers with a token, 1 without, window 2, all faults, fair | one claimer, succession, the dead drop off |
| `launcher` | 2 messages of any recipient, 1 slot, a page of 1 row, all faults, fair; bounded texts, streams and envelopes | slots conserved, no worker ungated or left behind, every claim answered that the reaper's page shows, no wedge; replies fit, output is read right, envelopes keep to the policy |
| `channel` | 2 messages, instruction or FYI, all faults, fair | no live session bounced, what is taken for answered is recorded, every message settled, the dead bounced in the window |
| `turns_lane` | 1 worker, 2 turns asked for, up to 5 rows and what follows; stops with crashes, or stops with a second daemon and exceptions | no turn stranded but by an exception that ends its runner, none overtaken or ended twice; a cycled epoch is restored; a dead chain is cured once; a kill between turns is final |
| `turns_names` | a name used twice, 2 prompts each, stops and exceptions, fair | one runner until then, no turn run twice even after; every accepted turn is run, or its worker is gone or has lost its runner to an exception |
| `gate` | 49 lanes: policy rows with the calls and failures they may meet, fair | what runs is granted, what is denied has a reason, gaps are reported, questions agree with what the turn heard, every ask ends |
| `spawner` | 3 jobs (1 foreign), 3 deliveries, 2 faults of any kind, fair; bounded sessions, schedules and texts | one container per job, ack after the answer, terminal is published and final, `SpawnerJobs` implements `JobLifecycle`; with one fault, no live work killed and every job answered; reports are true, events passed on, frames fit |

One run is expected to fail, `turns_killed`: a comment says that kill
terminates a worker and that killed is a terminal status, and a runner on its
way into a turn starts it and brings the worker back. It is the finding in
`PROJECT.json`.

`LaneInv`, `SlotInv`, `JobInv`, `GateInv`, `ControllerInv`, `Inv`, `WorkersInHand`,
`NothingIsLeft` and `NothingIsUndone` are conjunctions of named parts, defined
where their parts are; the refinement of `JobLifecycle` is a part of the last.

The pure functions have no states. Their comparisons (`RepliesFit`,
`TailIsKept`, `OutputIsRead`, `EnvelopesAreWithinPolicy`; `ReportIsTrue`,
`EventsArePassedOn`, `FramesFit`; `SplitIsExact`) are constant formulas over
every input up to a length. They are parts of `RepliesAreRight`,
`ReportsAreRight` and `VerdictIsRight`, which ask for them in the states where
the code uses the function: a handler that replies, a published result, a turn.

### Known disagreements

The models contain behaviour that the source's comments deny. It is part of
the modules as the code has it, and the properties above are stated so that
they hold beside it:

* `wait_for` fetches its event anew after a later check, so a notification in
  between is missed until the poll's timeout;
* expiry and the sweep notify nobody, although a comment says the waiters
  unblock; a controller learns at its next look;
* `recipient_session` omitted means rows without one, not any row;
* `_Notifier` evicts the key just made when all others have waiters;
* a reconnect does not run the launcher's reaper again, so a claim whose answer
  was lost stays claimed until the process restarts, whatever `_bridge`'s
  docstring says;
* the reaper and the shutdown sweep look at the 200 newest claimed rows of all
  recipients and then at whose they are: an older orphan stays claimed until its
  TTL, although the reaper is to fail "every 'delivered' row addressed to OUR
  identity" and the shutdown to reply "for every in-flight task"
  (launcher.py:1510 and 1952; the reaper's docstring concedes it at 1519-1523);
* a broadcast that was claimed is not among the rows the shutdown sweep asks
  for, and a stop during the backoff sleep sweeps nothing;
* the bounce is awaited in the bridge itself, and the bridge waits for a slot
  that only a reply over the next session can free;
* the shutdown lists the live groups before it cancels the handlers, not after; a worker spawned while it kills, one left behind by a leader that
  exited, and all of them at a stop during the backoff outlive the launcher;
* `parse_codex_jsonl` promises `is_error` when a `turn.failed` appears; a
  `turn.completed` anywhere wins over it;
* `answer()` is told that its answer counts when it comes before the ask has
  registered its waiter, or after its timer fired, and the turn hears a timeout;
* a cancelled ask leaves its row pending until the next boot;
* a `timed_out` row of an earlier attempt makes a later, completed one a
  `question_timeout`;
* at boot the spawner answers a vanished job with an error, although its
  `result.json` may be there, and relaunches none; publish and record are two
  steps, so two results can go out; a relaunch does not record its container; a
  failed inspect counts as dead;
* `poll_once` publishes "any complete new lines", and an incomplete one too: a
  line that is being written goes out in two frames;
* the sandbox runner's "finalized" event is never written, as `finalize` has
  closed the relay by then;
* `remove` does not wait for the runner of the killed worker, so a name that is
  spawned again at once can have two runners, and two running turns;
* a kill looks at the five newest turns; a running one behind them stays so;
* nothing supervises a runner, says `_run_turn` of an exception that leaves it,
  and catches one of them, the MCP configuration that cannot be written. The
  others remain: the worker's environment, built after the turn was started and
  refused for an `allow_env` that nobody looked at before, and every event that
  cannot be written. The runner dies, and the turn it had stays claimed or
  running until a kill or a boot, its worker running in nobody's hands; the
  lane is served again from the next prompt, cycle or boot on;
* `_check_policy_hook_gap` is there to detect a hook that silently ceases to
  fire, and runs after the turn's end is on record: an event that cannot be
  written, a cancellation or a crash in between leaves a done turn whose gap
  nobody hears of;
* a guard that answers with a `permissionDecision` other than deny, ask or error
  lets the call pass, one the gate has never heard of too;
* a dead session chain is rolled in `_run_turn`, which a stop may cancel before
  the restore turn is queued: unlike a cycle, it leaves the lane without memory;
* prompts queued behind a handover run in the new epoch before its restore, and
  a prompt accepted during a retirement's handover stays queued for ever;
* `boot_reconcile` runs before the look at the control socket, so a second
  daemon started by mistake requeues the turns the first one is running.

### Bounds

Two of each kind of actor suffice for every race here: the hazards are between
a claimer and another claimer, a claimer and a canceller, a waiter and a
notifier, a hub and another hub.

* `Inbox`: ages stop at the last cutoff, beyond which a row does not change.
* `Notifier`: twice as many keys as places, so eviction always has work; a
  third waiter would meet the eviction of a key in use described above.
* `Requests`: no step looks at more than two rows, so any two requests out of
  the six (`MaxAsked`) meet every pairing; `Permits` = 1 makes the relay full
  with one handler, `Chunks` = 2 is a long poll repeated once.
* `Presence`: a window of two heartbeats tells a late one from a lost one.
* `Launcher`: one slot makes every other message wait for it; two messages give
  one a slot while the other is claimed, bounced, reaped or swept. A page of one
  row (`Page`, 200 in the code) is full as soon as the other message is claimed
  after it, here or by another worker, so an orphan is hidden as well as found.
* `Channel`: `DegradeAfter` = 1 degrades at the first bounce, so degrade and
  re-arm meet both messages; two messages are a slot in use and one behind it.
* `WorkerTurns`: what is asked for (`MaxTurns`) and when a recovery may add
  turns (`MaxRows`): five rows are a resumed turn that fails, its recovery, the
  continuation and a second failure, which is where the breaker acts. One worker
  is enough, as runners of different names share the semaphore only; in
  `turns_names` the two runners of one name do.
  `Faults` names the sets of mishaps that meet in one behaviour: a crash and the
  boot after it put every turn back, so it is kept apart from the second daemon
  and the exceptions, which leave the runners of the live one as they are.
* `Gate`: two calls or questions and two attempts are what the counters can
  confuse; one crash of the daemon. Every lane of guards comes with and without a hook
  that raises, so that what was denied is seen to have a reason. The grammar has every separator, quote and
  substitution, nested up to `MaxNesting` = 2 and one level past it; double
  quotes do not nest in it.
* `SpawnerJobs`: deliveries as in the code (`JOBS_MAX_DELIVER` = 3); `MaxFaults`
  = 2 lets a fault hit a job and the recovery from it.
* `Reply`, `Sandbox`: the constants are scaled down (a marker of a few
  characters, a shrink step of 3 for 256, caps of about 20) with their
  inequalities kept, so that texts of six characters cross every boundary.
  Lone surrogates and a timeout of NaN are left out.

Deadlock is not checked where callers may fall silent and the system comes to
rest with all done; in `Notifier` it is.

### Fairness

Handlers run while their process does: asyncio schedules every ready
coroutine, and every long poll has a timeout, so `GiveUp` comes. `_db_lock` is
an `asyncio.Lock`, first come first served, hence strong fairness of
`PopSelect`. Workers and controllers are assumed to call again after a
timeout, as the tools' descriptions ask. In `Launcher` that every call returns or
fails is an assumption about the environment (a client has no timeout of its
own, launcher.py:1936, and only the sweep of a shutdown is bounded); every worker's
timer runs, and pm2 restarts the process; the two gates get strong fairness because their waits are on events
that stay set until reset. In `Requests` calls return, timers run out, the
semaphore is first come first served and the sweep comes round; nothing is
asked of controllers and hubs. In `Presence` time passes and of the many
announces of a running process some get through. In `Channel` likewise, and a
session that looks at its channel works on; `EveryMessageSettled` takes as its
premise that the session looks at its channel again and again and that its
operator works in it again and again, since only a turn re-arms a degraded
one. In `Gate` only the event loop and the timer of an ask are fair. In
`SpawnerJobs` the process is restarted, JetStream redelivers and the runner's
wall clock ends every container. In `WorkerTurns` the wall clock ends every
stream however many questions it asks (strong fairness of its end) and the
semaphore serves its waiters in order of arrival. No client is assumed ever to
send, reply or cancel, and no fault is fair. Liveness under restarts is
conditional: `<>[][~Restart]_vars => ...`, as a server that restarts for ever
answers nobody; and what the network swallowed (`lost` in `Channel`) is
answered by nobody either.

## Proofs

Every theorem holds for any number of messages, workers, requests, hubs, jobs,
tasks and turns, and for any bound of the models, from the named assumption of
its module alone: sorts are disjoint, a capacity is a positive number, a
marker such as `Nothing` is none of the values it stands beside. Each
inductive invariant was first checked by TLC on the instances of the runs; each
proof has one lemma per action, or per group of actions that touch the same
state, and every module's last lemma joins them over `Next`.

| Module | Theorems | State for every value of the constants |
|---|---|---|
| `InboxProofs` | `Invariance`, `HandedOnceHolds`, `OutcomeIsFinalHolds`, `PollInvariance`, `NoWakeupIsLost`, `ControllersAreTold`, `HandedInOrderHolds`, `Refinement` | `IInv`, `HandedOnce`, `OutcomeIsFinal`, `FirstWaitMissesNothing`, `ControllerInv`, `HandedInOrder`, `ImplementsLifecycle` |
| `StoreProofs` | `CountsAreExact`, `RoomSuffices` (of `Notifier`), `RowInvariance`, `OneClaimer` (of `Presence`) | `TypeOK` with `RefsAreWaiters`, `Inv`, `SoleClaimer` |
| `RequestsProofs` | `Invariance`, `AnswersAreVerdicts`, `NoneIsCarriedOutTwice`, `Implementation` | `AnswerIsTheVerdict`, `CarriedOutOnce`, `ImplementsLifecycle` |
| `ChannelProofs` | `Invariance`, `TheLivingAreNotBounced`, `AnsweredIsRecorded` | `LiveIsNotBounced`, `ConsumedIsRecorded` |
| `GateProofs` | `Invariance`, `GateHolds` | `GateInv` |
| `LauncherProofs` | `Invariance`, `SlotsAreKept`, `WorkersAreInHand`, `NothingIsOrphaned`, `FewClaimsFitThePage`, `AcceptedIsWithinPolicy` | `SlotInv`, `WorkersInHand`, `NoOrphanWhilePolling`, `WithinPolicy` |
| `SpawnerJobsProofs` | `Invariance`, `JobsAgree`, `Implementation`, `NothingIsUndoneHolds` | `JobInv`, `ImplementsLifecycle`, `NothingIsUndone` |
| `WorkerTurnsProofs` | `Invariance`, `LanesAreInOrder`, `TurnsAreCarried`, `HandoversAreRestored`, `RunnersKeepApart`, `TheBreakerHolds`, `EndsStayFinal` | `LaneInv`, `NoTurnStranded`, `CycledIsRestored`, `RunnersApart`, `BreakerHolds`, `EndsAreFinal` |

What each invariant adds to the property, and why it has to:

* **Inbox.** `PopUpdate` writes whatever row the worker picked earlier, keyed on
  its id, so "handed once" is not inductive. `ClaimStable` adds that a claiming
  worker holds the lock and its row is still queued, which every writer of a
  live row respects because it takes the lock; `TakerFollowsStatus` adds that a
  queued row has no taker. `HandedOnce` and `OutcomeIsFinal` follow step by
  step. The wake-ups need more: `MissesNothing` says at each await of a poll
  that what it could have missed since its check has a `notify` to come or has
  set its event, and holds up to the first wait only, as a later one fetches
  its event anew; `PicksTheOldest` says that between SELECT and UPDATE only
  younger rows arrive. `Refinement` maps each step to one of `MessageLifecycle`
  or to a stutter; it needs that a watcher that was told is done (`DoneIsTold`).
* **Notifier.** The counts are exact because each is of the finite set of tasks
  that wait for the key, unconditionally. Bounds and reachability need `Room`,
  that no more tasks wait than the register has places: then among more than
  `MaxEvents` keys one other than the key just made has no waiter and was used
  before it, so the eviction never takes a waiter's key. Without it the comment
  in `wait_for` (store.py:229-234, the eviction "can never drop this key") fails,
  since the key is counted only after `_get` has evicted. The code does not
  enforce `Room`: it is 10 000 simultaneous long polls.
* **Requests.** `RowFollowsCall` ties a row to the call that made it and each
  verdict to one win of the compare-and-set; `HandsFollowRow` ties what a hub
  has in hand to a row it claimed and to the effects it has had, dead hubs
  included, and says that such a row is still claimed or already swept.
  `Implementation` maps each step to one of `RequestLifecycle` or to a stutter:
  a completion closes what was taken, since what a hub has in hand is claimed
  unless it is forgotten, and what a call answers is the verdict of its row.
* **Presence.** `AgeIsSince` and `AcceptedOwns`: a peer accepted within the window
  owns the row while it is up and nobody has overwritten the row without a token.
  `AnswersAreFresh`: while no answer is late an armed peer was accepted within a
  heartbeat, hence within the window.
* **Channel.** `SlotInv`: from the push to the verdict the slot holds the message
  in the loop's hands, so another's reply cannot set its event, and a session
  that has shown life has left its sign in the snapshot.
* **Launcher.** `Counted` is the account of the slots over a finite set of
  handlers; `HandsInv` says where a claim can be and that it has no handler yet,
  `WorkersInv` which stages of a handler have a worker and that a shutdown has
  every one on its list or started it too late to see. `NothingIsOrphaned` is
  the safety half of `ClaimedIsAnswered`: while no session breaks, and the page
  shows the reaper every row that nobody has in hand (`PageSuffices`), the
  bridge passes the reaper once and everything claimed is in its hands or a
  handler's. `FewClaimsFitThePage` says when the page does so: as long as no
  more rows are claimed, over all recipients, than its limit.
* **Envelopes.** One lemma for each `_resolve_*` says what an accepted field
  lies within; `AcceptedIsWithinPolicy` joins them, for every envelope, policy
  and file system: the directory is under a root of the allowlist with its links
  followed, the engine is enabled, and tools, sandbox and timeout are within theirs.
* **Gate.** The report of a gap compares numbers: the dispatches the hook
  counted with the tool calls the stream showed. `CountInv` says that what the
  hook counted beside questions is the number of calls (`Judged`) that were
  dispatched, from which a gap is a call that was not. `CallsInv` says of each
  call what was decided before it came this far, `RowsInv` how a question's row,
  its ask and its answer go together. None looks into a command. The comparison
  is made, and reported, in a step after the one that records the end of the
  turn, so `GapIsReported` is about ends that were reported, and says what a
  done turn without a report has met.
* **SpawnerJobs.** `HandInv` says which record the process may have in hand at
  each place; `FaultInv` that without a fault only the job in hand is unsettled
  and only its container runs, and that with one a removal finds none alive.
  `Implementation` needs no more: nothing is drained, published or started
  before or after its time, as the record in hand is the record in the table.
* **WorkerTurns.** `RegisterInv` (who serves a name), `HoldInv` (a turn in hand
  exists), `ClaimInv`, `CarriedInv` (a claimed turn has its runner,
  or an exception has left it without), `LeftInv` (without an exception none is), `OrderInv`
  (what a runner is about to claim has nothing queued before it) and
  `BreakerInv` (nothing changes the breaker's verdict before the roll). The
  twenty-odd ways through a turn are first brought to one form (`Effect`), from
  which each part is proved. Two properties changed: `LaneInv` now says that the
  order is kept unless a second daemon puts back a turn that a kill, which looks
  at `KillLooks` rows, had left behind, since TLC found the other case once
  `KillLooks` was 1 and the lane longer; `NoTurnStranded` lost its condition on
  the status of the worker, which it never needed, and names the one way in which
  a turn is stranded while the daemon is up: its runner died of an exception.

Five models were changed to be reasoned about. `Notifier` had its keys in a
sequence, and no installed prover knows what selecting from one leaves; a set
with a strict order has the same states, and TLC finds as many.
`ChannelAssumption` names all that `None` must differ from, as TLC's model value
does anyway. The types in `WorkerTurns` are sets of functions. The types of
`Requests`, `Channel` and `Presence` are stated where they are used, in their
proof modules. `Gate` called `Ceiling`, which is recursive, in its steps; it now
has the verdict as a constant, and the runs give it that of `Ceiling`. The
envelopes stood in `Reply`, which is recursive too; in a module of their own,
with the file system as a constant and timeouts as integers, they are not.

What stays with TLC, and why:

* liveness under fairness, which needs `ENABLED`: `ResolvedIsTold`,
  `QueuedIsTaken`, `NothingIsLeft`, `Succession`, `TheDeadDropOff`,
  `ClaimedIsAnswered`, `BridgeNeverWedges`,
  `EveryMessageSettled`, `DeadIsBounced`, `EveryJobAnswered`, `QueuedIsRun`,
  `EveryAskEnds`;
* `RepliesAreRight`, `ReportsAreRight` and `VerdictIsRight`, which compare
  functions that are recursive over data with their reference definitions:
  what such a function computes needs induction over its input. Two parts are
  out of this: what an accepted envelope allows is proved, and that an envelope
  is accepted exactly when it is lawful stays with the run; what the gate does
  with a verdict is proved, and that the verdict is right stays with the run;
* `NoOrphanWhilePolling` is stated, and proved, for runs in which no session
  breaks and the reaper's page suffices. With sessions that break it is false, as
  the reaper is not run again, and beyond the page it is false too (see *Known
  disagreements*).

## Not modelled

Pure I/O, configuration, logging, formatting, the child processes' streams,
docker's and JetStream's own failures beyond those named, and the parts listed
as `not_modelled` in `PROJECT.json`:

* pubsub: its wake-up is a key of `Notifier`; what is left is one INSERT into an
  AUTOINCREMENT table and one SELECT behind a cursor the client keeps;
* authentication: a failure counter under a lock;
* the file tools, the server shell, configuration and validation: no state that
  steps;
* the hooks of a live session, one-shot processes, and of its terminal sidecar
  all but its announces (`Presence`): it claims as a worker of `Inbox` does.

Time appears as order and cutoffs only. SQLite is taken to commit each
statement atomically, as the code does after every one. Lines of an event file
are taken to split at line ends only, and in whole characters.

## What is left

1. Every safety property of a passing run is a theorem but the three
   comparisons of data named above; those would need a prover with induction.
2. Three hazards in `PROJECT.json` have no property, as the code meets them: the
   boot reconciliation that answers with an error beside a `result.json`, the
   prompts that run between a handover and its restore, and the worker whose
   retirement fails. Their notes say what the models show of each.
3. The parts listed as `partly` or `not_modelled` in `PROJECT.json`.

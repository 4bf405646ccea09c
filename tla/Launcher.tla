------------------------------ MODULE Launcher ------------------------------
(***************************************************************************)
(* The launcher: one process that claims tasks addressed to its identity   *)
(* from the local server, runs each as a headless worker and replies.      *)
(* launcher.py's _bridge, with the handlers, the heartbeat, the stale      *)
(* reaper and the shutdown sweep that run beside it.                       *)
(*                                                                         *)
(* The server appears as the rows of its messages table, those of other    *)
(* recipients among them; what it does with them is module Inbox.  A       *)
(* message is the number it was created as.                                *)
(***************************************************************************)
EXTENDS Naturals, FiniteSets

CONSTANTS
  Messages,        \* message ids, in the order of created_at
  MaxConcurrent,   \* launcher_max_concurrent
  ApprovalHook,    \* approval_hook_enabled: claims wait for the approval relay
  Page,            \* the limit of a listing, 200 in the code
  Faults,          \* what may go wrong, and which rows are not this launcher's
  Nothing          \* no message in hand

ASSUME LauncherAssumption ==
  /\ Messages \subseteq Nat
  /\ MaxConcurrent \in Nat \ {0} /\ Page \in Nat \ {0}
  /\ ApprovalHook \in BOOLEAN
  /\ Faults \subseteq {"crash", "stop", "session", "refusal", "auth", "relay", "broadcast",
                      "others"}
  /\ Nothing \notin Messages

VARIABLES
  status,      \* status column of each row
  recipient,   \* recipient_session: "us", "other", or "none" where it is NULL
  at,          \* where _bridge stands
  slots,       \* free slots of the semaphore
  task,        \* the handler of each message
  group,       \* the process group of each message's worker
  late,        \* workers started since the shutdown listed the live ones
  doomed,      \* live workers the shutdown has still to kill
  wire,        \* the row the server has claimed for the poll, answer on its way
  hand,        \* the message the poll has returned
  todo,        \* rows the reaper or the shutdown sweep has still to reply to
  reaped,      \* reaped_once
  conn,        \* the connection of the _ClientBox
  confirmed,   \* event owner_confirmed
  abandoned,   \* event owner_wait_abandoned
  dead,        \* event reconnect_needed
  relay        \* event relay_healthy

rows == <<status, recipient>>
work == <<slots, task, wire, hand, todo>>
workers == <<group, late, doomed>>
gates == <<confirmed, abandoned, dead>>
vars == <<rows, at, work, workers, reaped, conn, gates, relay>>

Down == {"off", "stopping"}
Connected == {"gate", "reap", "reaping", "slot", "regate", "relaywait", "polling", "claimed",
              "bouncing"}
HoldsSlot == {"polling", "claimed", "bouncing"}

Owner == confirmed \/ abandoned
Gated == ApprovalHook /\ ~relay

\* Claimed rows, and those addressed to the identity.
Claimed == {m \in Messages : status[m] = "delivered"}
Ours == {m \in Claimed : recipient[m] = "us"}

\* list_messages(status = "delivered", limit = Page): the newest, whoever they are for.
Newest == {m \in Claimed : Cardinality({n \in Claimed : m < n}) < Page}

\* Mutant: the listing asks for the wrong status.
QueuedRows == {m \in Messages : status[m] = "queued" /\ recipient[m] = "us"}

\* The rows the reaper and the sweep find: those of the page that are for the identity.
Found == Newest \cap Ours

\* inflight: the messages this process has a handler for.
Inflight == {m \in Messages : task[m] # "none"}

\* A reply() that reaches the server finalizes the row unless it is final already.
Answered(m) == [status EXCEPT ![m] = IF @ \in {"queued", "delivered"} THEN "replied" ELSE @]

Init ==
  /\ status = [m \in Messages |-> "absent"]
  /\ recipient = [m \in Messages |-> "us"]
  /\ at = "off"
  /\ slots = MaxConcurrent
  /\ task = [m \in Messages |-> "none"]
  /\ group = [m \in Messages |-> "none"]
  /\ late = {} /\ doomed = {}
  /\ wire = Nothing
  /\ hand = Nothing
  /\ todo = {}
  /\ reaped = FALSE
  /\ conn = "none"
  /\ confirmed = FALSE
  /\ abandoned = FALSE
  /\ dead = FALSE
  /\ relay = FALSE

-----------------------------------------------------------------------------
(* Controllers, and the workers of other identities *)

Send(m) ==
  /\ status[m] = "absent"
  /\ \A n \in Messages : n < m => status[n] # "absent"
  /\ status' = [status EXCEPT ![m] = "queued"]
  /\ \E to \in {"us", "none", "other"} :
       /\ to = "none" => "broadcast" \in Faults
       /\ to = "other" => "others" \in Faults
       /\ recipient' = [recipient EXCEPT ![m] = to]
  /\ UNCHANGED <<at, work, reaped, conn, gates, relay, workers>>

Cancel(m) ==
  /\ status[m] \in {"queued", "delivered"}
  /\ status' = [status EXCEPT ![m] = "cancelled"]
  /\ UNCHANGED <<recipient, at, work, reaped, conn, gates, relay, workers>>

\* Another worker claims a row of its own, and replies.
Others(m) ==
  /\ recipient[m] = "other"
  /\ \/ status[m] = "queued" /\ status' = [status EXCEPT ![m] = "delivered"]
     \/ status[m] = "delivered" /\ status' = Answered(m)
  /\ UNCHANGED <<recipient, at, work, reaped, conn, gates, relay, workers>>

-----------------------------------------------------------------------------
(* The heartbeat: alive on a connection until it has signalled reconnect_needed *)

Beating == at \in Connected /\ ~dead

AnnounceOk ==
  /\ Beating /\ conn = "live"
  /\ confirmed' = TRUE
  /\ abandoned' = FALSE
  /\ UNCHANGED <<rows, at, work, reaped, conn, dead, relay, workers>>

\* IDENTITY_LIVE_ELSEWHERE: a second launcher holds the identity.
AnnounceRefused ==
  /\ "refusal" \in Faults
  /\ Beating /\ conn = "live"
  /\ confirmed' = FALSE
  /\ abandoned' = FALSE
  /\ UNCHANGED <<rows, at, work, reaped, conn, dead, relay, workers>>

\* _AUTH_FAILS_BEFORE_GIVING_UP failures that look like a bad bearer.
AnnounceDenied ==
  /\ Beating /\ conn = "denied"
  /\ abandoned' = TRUE
  /\ UNCHANGED <<rows, at, work, reaped, conn, confirmed, dead, relay, workers>>

\* _ANNOUNCE_FAILS_BEFORE_RECONNECT other failures.
AnnounceFailed ==
  /\ Beating /\ conn = "lost"
  /\ dead' = TRUE
  /\ UNCHANGED <<rows, at, work, reaped, conn, confirmed, abandoned, relay, workers>>

-----------------------------------------------------------------------------
(* _bridge *)

\* An exception leaves the connection's block: the box keeps a closed client, the
\* heartbeat is cancelled, and the bridge sleeps before it connects again.
Reconnect ==
  /\ at' = "backoff"
  /\ conn' = "none"

Boot ==
  /\ at = "off"
  /\ at' = "connecting"
  /\ UNCHANGED <<rows, work, reaped, conn, gates, relay, workers>>

BackoffOver ==
  /\ at = "backoff"
  /\ at' = "connecting"
  /\ UNCHANGED <<rows, work, reaped, conn, gates, relay, workers>>

Connect ==
  /\ at = "connecting"
  /\ at' = "gate"
  /\ conn' = "live"
  /\ confirmed' = FALSE
  /\ abandoned' = FALSE
  /\ dead' = FALSE
  /\ UNCHANGED <<rows, work, reaped, relay, workers>>

\* Mutant: the gate waits for owner_confirmed alone.
OwnerGateAlone ==
  /\ at \in {"gate", "regate"}
  /\ confirmed
  /\ at' = IF at = "gate" /\ ~reaped THEN "reap" ELSE "slot"
  /\ UNCHANGED <<rows, work, conn, reaped, gates, relay, workers>>

\* _wait_for_owner_confirmed_or_reconnect, before anything else on a connection and again
\* when a slot was taken without ownership.
OwnerGate ==
  /\ at \in {"gate", "regate"}
  /\ \/ /\ Owner
        /\ at' = IF at = "gate" /\ ~reaped THEN "reap" ELSE "slot"
        /\ UNCHANGED conn
     \/ ~Owner /\ dead /\ Reconnect
  /\ UNCHANGED <<rows, work, reaped, gates, relay, workers>>

\* _reap_stale_claims: list once, then reply for each row.  A failed list is logged and
\* counts as having reaped.
ReapList ==
  /\ at = "reap"
  /\ IF conn = "live"
     THEN /\ todo' = Found \ Inflight
          /\ at' = "reaping"
          /\ UNCHANGED reaped
     ELSE /\ at' = "slot"
          /\ reaped' = TRUE
          /\ UNCHANGED todo
  /\ UNCHANGED <<rows, slots, task, wire, hand, conn, gates, relay, workers>>

\* A reply that has failed every attempt is dropped.
ReapReply(m) ==
  /\ at = "reaping"
  /\ m \in todo
  /\ todo' = todo \ {m}
  /\ status' = IF conn = "live" THEN Answered(m) ELSE status
  /\ UNCHANGED <<recipient, at, slots, task, wire, hand, reaped, conn, gates, relay, workers>>

ReapDone ==
  /\ at = "reaping"
  /\ todo = {}
  /\ reaped' = TRUE
  /\ at' = "slot"
  /\ UNCHANGED <<rows, work, conn, gates, relay, workers>>

\* A slot first; with it, and no await between, the gates.  A gate that is shut gives the
\* slot back.
AcquireSlot ==
  /\ at = "slot"
  /\ slots > 0
  /\ \/ dead /\ Reconnect /\ UNCHANGED slots
     \/ ~dead /\ ~Owner /\ at' = "regate" /\ UNCHANGED <<slots, conn>>
     \/ ~dead /\ Owner /\ Gated /\ at' = "relaywait" /\ UNCHANGED <<slots, conn>>
     \/ ~dead /\ Owner /\ ~Gated /\ at' = "polling" /\ slots' = slots - 1 /\ UNCHANGED conn
  /\ UNCHANGED <<rows, task, wire, hand, todo, reaped, gates, relay, workers>>

\* _wait_for_relay_healthy_or_reconnect.
RelayGate ==
  /\ at = "relaywait"
  /\ \/ relay /\ at' = "slot" /\ UNCHANGED conn
     \/ ~relay /\ dead /\ Reconnect
  /\ UNCHANGED <<rows, work, reaped, gates, relay, workers>>

\* Mutant: a row whose answer may have been lost is handed out again.
ServerClaimsAgain(m) ==
  /\ at = "polling" /\ conn = "live" /\ wire = Nothing
  /\ status[m] \in {"queued", "delivered"} /\ recipient[m] # "other"
  /\ status' = [status EXCEPT ![m] = "delivered"]
  /\ wire' = m
  /\ UNCHANGED <<recipient, at, slots, task, hand, todo, reaped, conn, gates, relay, workers>>

\* wait_for_instruction on the server: the row is claimed before the answer is sent.  (A
\* poll the launcher has given up is taken to end with its session.)
ServerClaims(m) ==
  /\ at = "polling" /\ conn = "live" /\ wire = Nothing
  /\ status[m] = "queued" /\ recipient[m] # "other"
  /\ status' = [status EXCEPT ![m] = "delivered"]
  /\ wire' = m
  /\ UNCHANGED <<recipient, at, slots, task, hand, todo, reaped, conn, gates, relay, workers>>

PollReturns ==
  /\ at = "polling" /\ conn = "live"
  /\ wire # Nothing
  /\ hand' = wire
  /\ wire' = Nothing
  /\ at' = "claimed"
  /\ UNCHANGED <<rows, slots, task, todo, reaped, conn, gates, relay, workers>>

PollTimesOut ==
  /\ at = "polling" /\ conn = "live"
  /\ wire = Nothing
  /\ slots' = slots + 1
  /\ at' = "slot"
  /\ UNCHANGED <<rows, task, wire, hand, todo, reaped, conn, gates, relay, workers>>

\* The call fails, or the heartbeat gives the session up while it is blocked.  What the
\* server had claimed for it goes unheard.
PollBroken ==
  /\ at = "polling"
  /\ conn # "live" \/ dead
  /\ wire' = Nothing
  /\ slots' = slots + 1
  /\ Reconnect
  /\ UNCHANGED <<rows, task, hand, todo, reaped, gates, relay, workers>>

\* Mutant: the gates are not looked at again after the poll.
StartUnchecked ==
  /\ at = "claimed"
  /\ task' = [task EXCEPT ![hand] = "running"]
  /\ hand' = Nothing
  /\ at' = "slot"
  /\ UNCHANGED <<rows, slots, wire, todo, reaped, conn, gates, relay, workers>>

\* Mutant: a claim that may not be run is dropped without a reply.
StartOrDrop ==
  /\ at = "claimed"
  /\ IF Owner /\ ~Gated
     THEN task' = [task EXCEPT ![hand] = "running"] /\ UNCHANGED slots
     ELSE slots' = slots + 1 /\ UNCHANGED task
  /\ hand' = Nothing
  /\ at' = "slot"
  /\ UNCHANGED <<rows, wire, todo, reaped, conn, gates, relay, workers>>

\* Ownership and relay are checked again: the claim cannot be undone, but it is bounced
\* rather than run.
StartOrBounce ==
  /\ at = "claimed"
  /\ IF Owner /\ ~Gated
     THEN /\ task' = [task EXCEPT ![hand] = "running"]
          /\ hand' = Nothing
          /\ at' = "slot"
     ELSE /\ at' = "bouncing"
          /\ UNCHANGED <<task, hand>>
  /\ UNCHANGED <<rows, slots, wire, todo, reaped, conn, gates, relay, workers>>

\* Mutant: the slot of a bounced claim is never released.
BounceKeepsSlot ==
  /\ at = "bouncing"
  /\ status' = IF conn = "live" THEN Answered(hand) ELSE status
  /\ hand' = Nothing
  /\ at' = "slot"
  /\ UNCHANGED <<recipient, slots, task, wire, todo, reaped, conn, gates, relay, workers>>

\* The bridge itself sends this reply, so nobody reconnects while it retries.
Bounce ==
  /\ at = "bouncing"
  /\ status' = IF conn = "live" THEN Answered(hand) ELSE status
  /\ hand' = Nothing
  /\ slots' = slots + 1
  /\ at' = "slot"
  /\ UNCHANGED <<recipient, task, wire, todo, reaped, conn, gates, relay, workers>>

-----------------------------------------------------------------------------
(* _handle_task and the worker it runs.  A group is "up" while its leader runs, "deaf" *)
(* when a process of it, the leader or one it started, has not ended at SIGTERM.       *)

\* Mutant: a worker leaves the list when its kill begins.
LiveUntilKilled == {m \in Messages : task[m] = "watching"}

\* live: the workers the handlers wait for.
Live == {m \in Messages : task[m] \in {"watching", "killing"}}

Handled(m, before, after) ==
  /\ at \notin Down
  /\ task[m] = before
  /\ task' = [task EXCEPT ![m] = after]
  /\ UNCHANGED <<rows, at, slots, wire, hand, todo, doomed, reaped, conn, gates, relay>>

\* The envelope is rejected, or the worker cannot be started.
TaskRefused(m) ==
  /\ Handled(m, "running", "replying")
  /\ UNCHANGED <<group, late>>

Spawn(m) ==
  /\ Handled(m, "running", "watching")
  /\ group' = [group EXCEPT ![m] = "up"]
  /\ late' = IF at = "ending" THEN late \cup {m} ELSE late

\* The leader ends by itself.  What it leaves running is not followed: nobody waits for it.
WorkerEnds(m) ==
  /\ group[m] \notin {"none", "gone"}
  /\ group' = [group EXCEPT ![m] = "gone"]
  /\ UNCHANGED <<rows, at, work, late, doomed, reaped, conn, gates, relay>>

\* proc.wait returns; the pipes are read to their end, or for a bounded time.
TaskEnds(m) ==
  /\ group[m] = "gone"
  /\ Handled(m, "watching", "replying")
  /\ UNCHANGED <<group, late>>

\* Mutant: the kill is over when the leader is, and what ignored SIGTERM runs on.
KilledLeader(g) == IF g = "up" THEN "gone" ELSE g

\* _kill_group: SIGTERM to the group, and after the grace SIGKILL if any process is left.
Killed(g) == IF g = "none" THEN g ELSE "gone"

TaskTimesOut(m) ==
  /\ group[m] = "up"
  /\ Handled(m, "watching", "killing")
  /\ \E g \in {"gone", "deaf"} : group' = [group EXCEPT ![m] = g]
  /\ UNCHANGED late

TaskKilled(m) ==
  /\ Handled(m, "killing", "replying")
  /\ group' = [group EXCEPT ![m] = Killed(@)]
  /\ UNCHANGED late

\* _send_reply through the box, on whatever connection is current; without one every
\* attempt may fail and the reply is dropped.  The slot is released either way.
TaskReplies(m) ==
  /\ at \notin Down
  /\ task[m] = "replying"
  /\ status' = IF conn = "live" THEN Answered(m) ELSE status
  /\ task' = [task EXCEPT ![m] = "none"]
  /\ slots' = slots + 1
  /\ UNCHANGED <<recipient, at, wire, hand, todo, workers, reaped, conn, gates, relay>>

-----------------------------------------------------------------------------
(* _serve: shutdown, crash, and the approval relay *)

\* What the bridge leaves behind when it ends, and what the process does.
ForgetBridge ==
  /\ wire' = Nothing
  /\ hand' = Nothing
  /\ todo' = {}
  /\ conn' = "none"
  /\ confirmed' = FALSE
  /\ abandoned' = FALSE
  /\ dead' = FALSE

ForgetTasks ==
  /\ slots' = MaxConcurrent
  /\ task' = [m \in Messages |-> "none"]
  /\ late' = {} /\ doomed' = {}

\* SIGTERM cancels the bridge.  In its try block it catches that and runs _shutdown, which
\* lists the live workers; asleep between two connections it does not, and the process ends.
Stop ==
  /\ "stop" \in Faults
  /\ at \notin Down \cup {"ending"}
  /\ reaped' = FALSE
  /\ relay' = FALSE
  /\ ForgetBridge
  /\ IF at = "backoff" THEN at' = "off" /\ ForgetTasks
     ELSE at' = "ending" /\ doomed' = Live /\ UNCHANGED <<slots, task, late>>
  /\ UNCHANGED <<rows, group>>

\* The groups are killed one after the other, and the handlers run meanwhile.
KillLive(m) ==
  /\ at = "ending"
  /\ m \in doomed
  /\ doomed' = doomed \ {m}
  /\ group' = [group EXCEPT ![m] = Killed(@)]
  /\ UNCHANGED <<rows, at, work, late, reaped, conn, gates, relay>>

\* Then the handlers are cancelled.
CancelTasks ==
  /\ at = "ending"
  /\ doomed = {}
  /\ at' = "stopping"
  /\ ForgetTasks
  /\ UNCHANGED <<rows, wire, hand, todo, group, reaped, conn, gates, relay>>

\* _reply_sweep over a connection of its own.
SweepList ==
  /\ at = "stopping" /\ conn = "none"
  /\ conn' = "live"
  /\ todo' = Found
  /\ UNCHANGED <<rows, at, slots, task, wire, hand, reaped, gates, relay, workers>>

SweepReply(m) ==
  /\ at = "stopping"
  /\ m \in todo
  /\ todo' = todo \ {m}
  /\ status' = Answered(m)
  /\ UNCHANGED <<recipient, at, slots, task, wire, hand, reaped, conn, gates, relay, workers>>

SweepDone ==
  /\ at = "stopping" /\ conn = "live"
  /\ todo = {}
  /\ at' = "off"
  /\ conn' = "none"
  /\ UNCHANGED <<rows, work, reaped, gates, relay, workers>>

\* The server is unreachable, or the sweep runs out of its time.
SweepFails ==
  /\ "session" \in Faults
  /\ at = "stopping"
  /\ at' = "off"
  /\ conn' = "none"
  /\ todo' = {}
  /\ UNCHANGED <<rows, slots, task, wire, hand, reaped, gates, relay, workers>>

\* The process is killed.
Crash ==
  /\ "crash" \in Faults
  /\ at # "off"
  /\ at' = "off"
  /\ reaped' = FALSE
  /\ relay' = FALSE
  /\ ForgetBridge /\ ForgetTasks
  /\ UNCHANGED <<rows, group>>

\* The server restarts: the session is gone, and with it a poll it was serving.
LoseSession ==
  /\ "session" \in Faults
  /\ at \in Connected /\ conn = "live"
  /\ conn' = "lost"
  /\ UNCHANGED <<rows, at, work, reaped, gates, relay, workers>>

\* The server stops accepting the bearer.
LoseBearer ==
  /\ "auth" \in Faults
  /\ at \in Connected /\ conn = "live"
  /\ conn' = "denied"
  /\ UNCHANGED <<rows, at, work, reaped, gates, relay, workers>>

\* _run_approval_relay_supervised sets relay_healthy while its socket listens.
RelayUp ==
  /\ ApprovalHook
  /\ at \notin Down \cup {"ending"}
  /\ ~relay
  /\ relay' = TRUE
  /\ UNCHANGED <<rows, at, work, workers, reaped, conn, gates>>

RelayDies ==
  /\ "relay" \in Faults
  /\ relay
  /\ relay' = FALSE
  /\ UNCHANGED <<rows, at, work, workers, reaped, conn, gates>>

-----------------------------------------------------------------------------

Heartbeat == AnnounceOk \/ AnnounceRefused \/ AnnounceDenied \/ AnnounceFailed

Bridge ==
  \/ BackoffOver \/ Connect \/ OwnerGate
  \/ ReapList \/ ReapDone \/ \E m \in Messages : ReapReply(m)
  \/ AcquireSlot \/ RelayGate
  \/ PollReturns \/ PollTimesOut \/ PollBroken \/ StartOrBounce \/ Bounce

Handler(m) ==
  TaskRefused(m) \/ Spawn(m) \/ TaskEnds(m) \/ TaskTimesOut(m) \/ TaskKilled(m) \/ TaskReplies(m)

Shutdown == CancelTasks \/ \E m \in Messages : KillLive(m)

Sweep == SweepList \/ SweepDone \/ SweepFails \/ \E m \in Messages : SweepReply(m)

Next ==
  \/ \E m \in Messages : Send(m) \/ Cancel(m) \/ Others(m)
  \/ Heartbeat
  \/ Boot \/ Bridge
  \/ \E m \in Messages : ServerClaims(m)
  \/ \E m \in Messages : Handler(m) \/ WorkerEnds(m)
  \/ Stop \/ Shutdown \/ Sweep \/ Crash
  \/ LoseSession \/ LoseBearer
  \/ RelayUp \/ RelayDies

Spec == Init /\ [][Next]_vars

\* The bridge, the heartbeat and the handlers run while the process does and every call
\* returns or fails; a worker is killed on its timeout; pm2 starts the process again.  A
\* gate that opens again and again is found open.
Fairness ==
  /\ WF_vars(Boot)
  /\ WF_vars(AnnounceOk) /\ WF_vars(AnnounceDenied) /\ WF_vars(AnnounceFailed)
  /\ WF_vars(Bridge) /\ SF_vars(OwnerGate) /\ SF_vars(RelayGate)
  /\ WF_vars(Shutdown) /\ WF_vars(Sweep)
  /\ WF_vars(RelayUp)
  /\ \A m \in Messages : WF_vars(Handler(m))

FairSpec == Spec /\ Fairness

-----------------------------------------------------------------------------
(* Properties *)

\* Every variable keeps its range.
TypeOK ==
  /\ status \in [Messages -> {"absent", "queued", "delivered", "replied", "cancelled"}]
  /\ recipient \in [Messages -> {"us", "none", "other"}]
  /\ at \in Down \cup Connected \cup {"backoff", "connecting", "ending"}
  /\ slots \in 0 .. MaxConcurrent
  /\ task \in [Messages -> {"none", "running", "watching", "killing", "replying"}]
  /\ group \in [Messages -> {"none", "up", "deaf", "gone"}]
  /\ {late, doomed} \subseteq SUBSET Messages
  /\ {wire, hand} \subseteq Messages \cup {Nothing}
  /\ todo \subseteq Messages
  /\ {reaped, confirmed, abandoned, dead, relay} \subseteq BOOLEAN
  /\ conn \in {"none", "live", "lost", "denied"}

\* No exit path of the bridge or a handler loses a slot or gives one back twice: what is
\* free, what handlers hold and what the bridge holds add up to max_concurrent, until a
\* shutdown takes the slot the bridge had.
SlotsConserved ==
  LET held == slots + Cardinality(Inflight) IN
  IF at = "ending" THEN held \in {MaxConcurrent - 1, MaxConcurrent}
  ELSE held + (IF at \in HoldsSlot THEN 1 ELSE 0) = MaxConcurrent

\* "We never claim a task we have no capacity to run": claims on their way, in hand and
\* under way never exceed max_concurrent.
ClaimsWithinCapacity ==
  Cardinality(Inflight \cup ({wire, hand} \ {Nothing})) <= MaxConcurrent

\* The accounts of the bridge and its handlers, which every exit path of either must settle.
SlotInv == TypeOK /\ SlotsConserved /\ ClaimsWithinCapacity

\* No session breaks under the process: a reconnect does not run the reaper again.
Unbroken == [](conn \in {"none", "live"})

\* When the reaper lists, no row of the launcher that is in nobody's hands is so old that the
\* page does not show it.
PageSuffices == [](at = "reap" => Ours \ Inflight \subseteq Newest)

\* As long as sessions hold and the page shows what it must, once the bridge is past the
\* reaper every claimed row addressed to it is in its hands: none is left to hang until the
\* TTL.
NoOrphanWhilePolling ==
  Unbroken /\ PageSuffices =>
    [](at \in {"slot", "regate", "relaywait"} \cup HoldsSlot
         => Ours \subseteq Inflight \cup {wire, hand})

\* A task only ever starts while the identity is owned and, with the approval hook armed,
\* the relay listens, also when that changed while the poll was in flight; and no message
\* ever has a second worker, whatever crashed, reconnected or was answered in between.
StartsUnderGates ==
  /\ [][\A m \in Messages : task[m] = "none" /\ task'[m] # "none" => Owner /\ ~Gated]_vars
  /\ [][\A m \in Messages : Spawn(m) => group[m] = "none"]_vars

\* "_kill_group guarantees no process remains in the group": a timed-out task is answered
\* when its whole group is gone, and a shutdown cancels the handlers when none of their
\* workers runs but those started after it had listed the live ones.
GroupsAreKilled ==
  /\ [][\A m \in Messages : TaskKilled(m) => group'[m] = "gone"]_vars
  /\ [][CancelTasks => {m \in Inflight : group[m] \in {"up", "deaf"}} \subseteq late]_vars

\* How a launcher treats its workers: it starts none it may not, and leaves none behind.
WorkersInHand == StartsUnderGates /\ GroupsAreKilled

\* The three events race so that nobody waits for one that cannot come: while the
\* environment stays good, the bridge comes back to its poll, whatever happened before.
Calm == [][~(Crash \/ Stop \/ LoseSession \/ LoseBearer \/ AnnounceRefused \/ RelayDies)]_vars
BridgeNeverWedges == <>Calm => []<>(at \in {"polling", "off"})

\* A claimed task addressed to this launcher is answered in the end, by its handler, the
\* next process's reaper or the shutdown sweep, as long as sessions hold, the reaper's page
\* shows what it must and processes do not crash for ever; and nothing claimed is out of the
\* polling bridge's hands meanwhile.
ClaimedIsAnswered ==
  /\ NoOrphanWhilePolling
  /\ Unbroken /\ PageSuffices /\ <>[][~(Crash \/ Stop)]_vars =>
       \A m \in Messages : m \in Ours ~> status[m] # "delivered"
=============================================================================

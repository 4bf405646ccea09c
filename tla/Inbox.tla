------------------------------- MODULE Inbox -------------------------------
(***************************************************************************)
(* The message queue of a mesh server: services/store.py's messages table, *)
(* its long polls and the tools of tools/messaging.py that call it.        *)
(*                                                                         *)
(* The server is one asyncio loop over one SQLite connection: a step is    *)
(* what happens between two awaits.  Writers that take _db_lock (pop,      *)
(* reply, cancel, sweep) exclude one another; enqueue takes no lock, and   *)
(* neither do reads.  An Event of the Notifier is seen from its waiter:    *)
(* "current" is the event a notify() would set, "fired" one it has set,    *)
(* "none" a poll that registered no event.                                 *)
(***************************************************************************)
EXTENDS Naturals

CONSTANTS
  Messages,   \* message ids
  Workers,    \* long polls of wait_for_instruction, one per worker
  Watchers,   \* long polls of wait_for_completion, one per controller
  Sessions,   \* recipient sessions
  Anyone,     \* recipient_session = None
  Session,    \* the recipient_session each worker polls with
  Target,     \* the message each watcher waits for
  Sweeper,    \* the periodic cleanup task, as a holder of the lock
  Free,       \* the lock has no holder
  MaxAge,     \* bound on age
  Nothing     \* no row, no taker, no status seen

ASSUME InboxAssumption ==
  /\ MaxAge \in 0 .. 2
  /\ Anyone \notin Sessions
  /\ Session \in [Workers -> Sessions \cup {Anyone}]
  /\ Target \in [Watchers -> Messages]
  /\ Workers \cap Watchers = {}
  /\ Workers \cap Messages = {}
  /\ Sweeper \notin Workers \cup Messages
  /\ Free \notin Workers \cup Messages \cup {Sweeper}
  /\ Nothing \notin Messages \cup Workers \cup {"replied", "cancelled", "expired", "not_found"}

VARIABLES
  status,      \* status column of each message; "absent" before the INSERT
  recipient,   \* recipient_session column
  born,        \* created_at column
  clock,       \* source of created_at: only the order of the rows matters
  age,         \* 0 young, 1 past the cutoff, 2 past the cutoff less delete_grace (at most MaxAge)
  inboxDue,    \* rows an enqueue has inserted without having notified the inbox yet
  lock,        \* holder of _db_lock; a handler finalizing m holds it as m
  pc,          \* where each poll stands
  held,        \* the event each poll holds
  recheck,     \* the poll has been woken before: check() runs inside the loop
  pick,        \* the row a worker's SELECT returned
  taker,       \* the worker a message was handed to (history)
  seen         \* what wait_for_completion reported to each watcher

rows == <<status, recipient, born, clock, age>>
polls == <<pc, held, recheck, pick>>
vars == <<rows, inboxDue, lock, polls, taker, seen>>

Pollers == Workers \cup Watchers
Live == {"queued", "delivered"}
Final == {"replied", "cancelled", "expired"}

\* pop_next_for_worker's WHERE clause: rows addressed to the session or to nobody.
Claimable(w) ==
  {m \in Messages : status[m] = "queued" /\ recipient[m] \in {Session[w], Anyone}}

\* Notifier.notify: whoever holds the key's event is released; later waits get a new one.
Fire(P) == [p \in Pollers |-> IF p \in P /\ held[p] = "current" THEN "fired" ELSE held[p]]

\* The inbox keys an enqueue notifies: the recipient's and "*", or all for a broadcast.
InboxWaiters(r) ==
  IF r = Anyone THEN Workers ELSE {w \in Workers : Session[w] \in {r, Anyone}}

OutboxWaiters(m) == {c \in Watchers : Target[c] = m}

Init ==
  /\ status = [m \in Messages |-> "absent"]
  /\ recipient = [m \in Messages |-> Anyone]
  /\ born = [m \in Messages |-> 0]
  /\ clock = 0
  /\ age = [m \in Messages |-> 0]
  /\ inboxDue = {}
  /\ lock = Free
  /\ pc = [p \in Pollers |-> "idle"]
  /\ held = [p \in Pollers |-> "none"]
  /\ recheck = [p \in Pollers |-> FALSE]
  /\ pick = [w \in Workers |-> Nothing]
  /\ taker = [m \in Messages |-> Nothing]
  /\ seen = [c \in Watchers |-> Nothing]

-----------------------------------------------------------------------------
(* send_prompt *)

\* The INSERT of enqueue_message, outside the lock.
Enqueue(m, r) ==
  /\ status[m] = "absent"
  /\ status' = [status EXCEPT ![m] = "queued"]
  /\ recipient' = [recipient EXCEPT ![m] = r]
  /\ clock' = clock + 1
  /\ born' = [born EXCEPT ![m] = clock']
  /\ inboxDue' = inboxDue \cup {m}
  /\ UNCHANGED <<age, lock, polls, taker, seen>>

\* The notify() calls that follow its awaits.
EnqueueNotify(m) ==
  /\ m \in inboxDue
  /\ inboxDue' = inboxDue \ {m}
  /\ held' = Fire(InboxWaiters(recipient[m]))
  /\ UNCHANGED <<rows, lock, pc, recheck, pick, taker, seen>>

-----------------------------------------------------------------------------
(* Notifier.wait_for *)

\* The event is captured before the first check(); a poll with timeout <= 0 registers
\* none.  A watcher learns its id when send_prompt returns.
StartPoll(p) ==
  /\ pc[p] = "idle"
  /\ p \in Watchers => status[Target[p]] # "absent" /\ Target[p] \notin inboxDue
  /\ pc' = [pc EXCEPT ![p] = "checking"]
  /\ \E e \in {"current", "none"} : held' = [held EXCEPT ![p] = e]
  /\ UNCHANGED <<rows, inboxDue, lock, recheck, pick, taker, seen>>

\* Mutant: the event is fetched after the first check as well.
ParkOnFreshEvent(p) ==
  /\ pc[p] = "empty"
  /\ held[p] # "none"
  /\ pc' = [pc EXCEPT ![p] = "parked"]
  /\ held' = [held EXCEPT ![p] = "current"]
  /\ UNCHANGED <<rows, inboxDue, lock, recheck, pick, taker, seen>>

\* check() came back empty: wait on the event.  Inside the loop the event is fetched
\* again, after the check.
Park(p) ==
  /\ pc[p] = "empty"
  /\ held[p] # "none"
  /\ pc' = [pc EXCEPT ![p] = "parked"]
  /\ held' = IF recheck[p] THEN [held EXCEPT ![p] = "current"] ELSE held
  /\ UNCHANGED <<rows, inboxDue, lock, recheck, pick, taker, seen>>

\* The event is set: check() runs again.
Wake(p) ==
  /\ pc[p] = "parked"
  /\ held[p] = "fired"
  /\ pc' = [pc EXCEPT ![p] = "checking"]
  /\ recheck' = [recheck EXCEPT ![p] = TRUE]
  /\ UNCHANGED <<rows, inboxDue, lock, held, pick, taker, seen>>

\* Mutant: a parked poll has no timeout.
GiveUpOnlyAtOnce(p) ==
  /\ pc[p] = "empty" /\ (recheck[p] \/ held[p] = "none")
  /\ held' = [held EXCEPT ![p] = "none"]
  /\ pc' = [pc EXCEPT ![p] = "idle"]
  /\ recheck' = [recheck EXCEPT ![p] = FALSE]
  /\ UNCHANGED <<rows, inboxDue, lock, pick, taker, seen>>

\* The budget is spent, or there was none: the poll returns None without another check().
\* wait_for_completion then reads the row once more and reports one that is gone.
GiveUp(p) ==
  /\ \/ pc[p] = "parked"
     \/ pc[p] = "empty" /\ (recheck[p] \/ held[p] = "none")
  /\ held' = [held EXCEPT ![p] = "none"]
  /\ IF p \in Watchers /\ status[Target[p]] = "deleted"
     THEN /\ pc' = [pc EXCEPT ![p] = "done"]
          /\ seen' = [seen EXCEPT ![p] = "not_found"]
     ELSE /\ pc' = [pc EXCEPT ![p] = "idle"]
          /\ UNCHANGED seen
  /\ recheck' = [recheck EXCEPT ![p] = FALSE]
  /\ UNCHANGED <<rows, inboxDue, lock, pick, taker>>

-----------------------------------------------------------------------------
(* wait_for_instruction *)

\* Mutant: the SELECT and the UPDATE run without _db_lock.
PopSelectUnlocked(w) ==
  /\ pc[w] = "checking"
  /\ \/ /\ Claimable(w) = {}
        /\ pc' = [pc EXCEPT ![w] = "empty"]
        /\ UNCHANGED <<lock, pick>>
     \/ \E m \in Claimable(w) :
          /\ \A n \in Claimable(w) : born[m] <= born[n]
          /\ pick' = [pick EXCEPT ![w] = m]
          /\ pc' = [pc EXCEPT ![w] = "claiming"]
          /\ lock' = w
  /\ UNCHANGED <<rows, inboxDue, held, recheck, taker, seen>>

\* Mutant: ORDER BY is missing.
PopSelectAnyRow(w) ==
  /\ pc[w] = "checking"
  /\ lock = Free
  /\ \/ /\ Claimable(w) = {}
        /\ pc' = [pc EXCEPT ![w] = "empty"]
        /\ UNCHANGED <<lock, pick>>
     \/ \E m \in Claimable(w) :
          /\ pick' = [pick EXCEPT ![w] = m]
          /\ pc' = [pc EXCEPT ![w] = "claiming"]
          /\ lock' = w
  /\ UNCHANGED <<rows, inboxDue, held, recheck, taker, seen>>

\* Mutant: the return without a row forgets the lock.
PopSelectKeepsLock(w) ==
  /\ pc[w] = "checking"
  /\ lock = Free
  /\ lock' = w
  /\ IF Claimable(w) = {}
       THEN pc' = [pc EXCEPT ![w] = "empty"] /\ UNCHANGED pick
       ELSE \E m \in Claimable(w) :
              /\ pick' = [pick EXCEPT ![w] = m]
              /\ pc' = [pc EXCEPT ![w] = "claiming"]
  /\ UNCHANGED <<rows, inboxDue, held, recheck, taker, seen>>

\* pop_next_for_worker takes the lock and SELECTs the oldest claimable row; with none it
\* releases the lock.
PopSelect(w) ==
  /\ pc[w] = "checking"
  /\ lock = Free
  /\ \/ /\ Claimable(w) = {}
        /\ pc' = [pc EXCEPT ![w] = "empty"]
        /\ UNCHANGED <<lock, pick>>
     \/ \E m \in Claimable(w) :
          /\ \A n \in Claimable(w) : born[m] <= born[n]
          /\ pick' = [pick EXCEPT ![w] = m]
          /\ pc' = [pc EXCEPT ![w] = "claiming"]
          /\ lock' = w
  /\ UNCHANGED <<rows, inboxDue, held, recheck, taker, seen>>

\* Its UPDATE is keyed on the id alone; the lock is released on return.
PopUpdate(w) ==
  /\ pc[w] = "claiming"
  /\ status' = [status EXCEPT ![pick[w]] = "delivered"]
  /\ taker' = [taker EXCEPT ![pick[w]] = w]
  /\ lock' = Free
  /\ pc' = [pc EXCEPT ![w] = "idle"]
  /\ held' = [held EXCEPT ![w] = "none"]
  /\ recheck' = [recheck EXCEPT ![w] = FALSE]
  /\ pick' = [pick EXCEPT ![w] = Nothing]
  /\ UNCHANGED <<recipient, born, clock, age, inboxDue, seen>>

-----------------------------------------------------------------------------
(* reply, cancel and wait_for_completion *)

\* Mutant: the UPDATE is keyed on the id alone.
FinalizeAnyStatus(m, outcome) ==
  /\ lock = Free
  /\ status[m] \in Live \cup Final
  /\ status' = [status EXCEPT ![m] = outcome]
  /\ lock' = m
  /\ UNCHANGED <<recipient, born, clock, age, inboxDue, polls, taker, seen>>

\* record_reply and cancel_message: one guarded UPDATE under the lock, by whoever knows
\* the id.  On a final or unknown message nothing changes (NOT_REPLIABLE,
\* NOT_CANCELLABLE).
Finalize(m, outcome) ==
  /\ lock = Free
  /\ status[m] \in Live
  /\ status' = [status EXCEPT ![m] = outcome]
  /\ lock' = m
  /\ UNCHANGED <<recipient, born, clock, age, inboxDue, polls, taker, seen>>

\* Mutant: nobody notifies the outbox key.
OutboxNotifyForgotten(m) ==
  /\ lock = m
  /\ lock' = Free
  /\ UNCHANGED <<rows, inboxDue, polls, taker, seen>>

\* The lock is released and the outbox key notified with no await between.
OutboxNotify(m) ==
  /\ lock = m
  /\ lock' = Free
  /\ held' = Fire(OutboxWaiters(m))
  /\ UNCHANGED <<rows, inboxDue, pc, recheck, pick, taker, seen>>

\* Mutant: only a reply ends the wait.
ReadMessageRepliedOnly(c) ==
  /\ pc[c] = "checking"
  /\ IF status[Target[c]] = "replied"
     THEN /\ pc' = [pc EXCEPT ![c] = "done"]
          /\ seen' = [seen EXCEPT ![c] = status[Target[c]]]
          /\ held' = [held EXCEPT ![c] = "none"]
          /\ recheck' = [recheck EXCEPT ![c] = FALSE]
     ELSE /\ pc' = [pc EXCEPT ![c] = "empty"]
          /\ UNCHANGED <<seen, held, recheck>>
  /\ UNCHANGED <<rows, inboxDue, lock, pick, taker>>

\* wait_for_reply's check(): an unlocked read, satisfied by a final status.
ReadMessage(c) ==
  /\ pc[c] = "checking"
  /\ IF status[Target[c]] \in Final
     THEN /\ pc' = [pc EXCEPT ![c] = "done"]
          /\ seen' = [seen EXCEPT ![c] = status[Target[c]]]
          /\ held' = [held EXCEPT ![c] = "none"]
          /\ recheck' = [recheck EXCEPT ![c] = FALSE]
     ELSE /\ pc' = [pc EXCEPT ![c] = "empty"]
          /\ UNCHANGED <<seen, held, recheck>>
  /\ UNCHANGED <<rows, inboxDue, lock, pick, taker>>

-----------------------------------------------------------------------------
(* _cleanup_once, the messages table, and a restart *)

\* Time passes for a row; a sweep under way keeps the cutoff it was called with.
GrowOld(m) ==
  /\ lock # Sweeper
  /\ status[m] \in Live \cup Final
  /\ age[m] < MaxAge
  /\ age' = [age EXCEPT ![m] = @ + 1]
  /\ UNCHANGED <<status, recipient, born, clock, inboxDue, lock, polls, taker, seen>>

\* Mutant: the sweep does not take _db_lock.
SweepExpireUnlocked ==
  /\ lock # Sweeper
  /\ lock' = Sweeper
  /\ status' = [m \in Messages |-> IF status[m] \in Live /\ age[m] >= 1
                                   THEN "expired" ELSE status[m]]
  /\ UNCHANGED <<recipient, born, clock, age, inboxDue, polls, taker, seen>>

\* The first UPDATE: in-flight rows past the cutoff expire.  No outbox is notified.
SweepExpire ==
  /\ lock = Free
  /\ lock' = Sweeper
  /\ status' = [m \in Messages |-> IF status[m] \in Live /\ age[m] >= 1
                                   THEN "expired" ELSE status[m]]
  /\ UNCHANGED <<recipient, born, clock, age, inboxDue, polls, taker, seen>>

\* Mutant: every old row is deleted, resolved or not.
SweepDeleteLive ==
  /\ lock = Sweeper
  /\ lock' = Free
  /\ status' = [m \in Messages |-> IF status[m] \in Live \cup Final
                                   THEN "deleted" ELSE status[m]]
  /\ UNCHANGED <<recipient, born, clock, age, inboxDue, polls, taker, seen>>

\* The DELETE: final rows past the cutoff less delete_grace go.  The Notifier forgets
\* their keys unless someone waits on them, which no waiter can tell.
SweepDelete ==
  /\ lock = Sweeper
  /\ lock' = Free
  /\ status' = [m \in Messages |-> IF status[m] \in Final /\ age[m] = 2
                                   THEN "deleted" ELSE status[m]]
  /\ UNCHANGED <<recipient, born, clock, age, inboxDue, polls, taker, seen>>

\* The process stops and Store.initialize runs again: each statement was committed on
\* its own, so the table is as the last one left it; events, polls and the lock are gone.
Restart ==
  /\ lock' = Free
  /\ inboxDue' = {}
  /\ pc' = [p \in Pollers |-> IF pc[p] = "done" THEN "done" ELSE "idle"]
  /\ held' = [p \in Pollers |-> "none"]
  /\ recheck' = [p \in Pollers |-> FALSE]
  /\ pick' = [w \in Workers |-> Nothing]
  /\ UNCHANGED <<rows, taker, seen>>

-----------------------------------------------------------------------------

Poll(p) == StartPoll(p) \/ Park(p) \/ Wake(p) \/ GiveUp(p)

Next ==
  \/ \E m \in Messages, r \in Sessions \cup {Anyone} : Enqueue(m, r)
  \/ \E m \in Messages : EnqueueNotify(m)
  \/ \E p \in Pollers : Poll(p)
  \/ \E w \in Workers : PopSelect(w) \/ PopUpdate(w)
  \/ \E m \in Messages, o \in {"replied", "cancelled"} : Finalize(m, o)
  \/ \E m \in Messages : OutboxNotify(m)
  \/ \E c \in Watchers : ReadMessage(c)
  \/ \E m \in Messages : GrowOld(m)
  \/ SweepExpire
  \/ SweepDelete
  \/ Restart

Spec == Init /\ [][Next]_vars

\* Handlers that have begun run to their end, polls time out, workers poll in a loop and
\* asyncio.Lock is first come first served.  Nobody has to send, reply, cancel or age.
Fairness ==
  /\ \A m \in Messages : WF_vars(EnqueueNotify(m)) /\ WF_vars(OutboxNotify(m))
  /\ \A p \in Pollers : WF_vars(Poll(p))
  /\ \A w \in Workers : SF_vars(PopSelect(w)) /\ WF_vars(PopUpdate(w))
  /\ \A c \in Watchers : WF_vars(ReadMessage(c))
  /\ WF_vars(SweepDelete)

FairSpec == Spec /\ Fairness
-----------------------------------------------------------------------------
(* Properties *)

\* Every variable keeps the range its column or the coroutine's state has.
TypeOK ==
  /\ status \in [Messages -> {"absent", "deleted"} \cup Live \cup Final]
  /\ recipient \in [Messages -> Sessions \cup {Anyone}]
  /\ born \in [Messages -> Nat]
  /\ clock \in Nat
  /\ age \in [Messages -> 0 .. 2]
  /\ inboxDue \subseteq Messages
  /\ lock \in Workers \cup Messages \cup {Sweeper, Free}
  /\ pc \in [Pollers -> {"idle", "checking", "empty", "parked", "claiming", "done"}]
  /\ held \in [Pollers -> {"none", "current", "fired"}]
  /\ recheck \in [Pollers -> BOOLEAN]
  /\ pick \in [Workers -> Messages \cup {Nothing}]
  /\ taker \in [Messages -> Workers \cup {Nothing}]
  /\ seen \in [Watchers -> Final \cup {"not_found", Nothing}]

\* Between its SELECT and its UPDATE a worker holds the lock, and the row it chose is
\* still queued and in nobody's hands: what makes an UPDATE keyed on the id alone safe.
ClaimStable ==
  \A w \in Workers : pc[w] = "claiming" =>
    /\ lock = w
    /\ pick[w] \in Messages
    /\ status[pick[w]] = "queued"

\* A row has a taker only once it has left the queue.
TakerFollowsStatus ==
  \A m \in Messages : status[m] \in {"absent", "queued"} => taker[m] = Nothing

\* A watcher that has been told nothing has not ended its wait.
DoneIsTold == \A c \in Watchers : seen[c] # Nothing => pc[c] = "done"

\* The inductive invariant.
IInv == TypeOK /\ ClaimStable /\ TakerFollowsStatus /\ DoneIsTold

\* Two workers polling the same inbox, a restart or a late reply never lead to one message
\* being handed out twice (pop_next_for_worker, "no two workers grab the same row").
HandedOnce == [][\A m \in Messages : taker[m] # Nothing => taker'[m] = taker[m]]_vars

\* A message has one outcome: no reply, cancel or sweep turns a replied, cancelled or
\* expired row into anything but a deleted one, so the losers of that race really lose.
OutcomeIsFinal ==
  [][\A m \in Messages : /\ status[m] \in Final => status'[m] \in {status[m], "deleted"}
                         /\ status[m] = "deleted" => status'[m] = "deleted"]_vars

\* A worker is never handed a message while an older one it could be given still waits
\* (ORDER BY created_at, with rows arriving between the SELECT and the UPDATE).
HandedInOrder ==
  [][\A m \in Messages, w \in Workers :
       taker[m] = Nothing /\ taker'[m] = w => \A n \in Claimable(w) : born[m] <= born[n]]_vars

\* What a controller was told stays what the table says, until the row is deleted.
ToldTheTruth ==
  \A c \in Watchers :
    /\ seen[c] \in Final => status[Target[c]] \in {seen[c], "deleted"}
    /\ seen[c] = "not_found" => status[Target[c]] = "deleted"

\* While a worker waits on the event its poll captured first, every message it could take
\* has a notify() still to come: no wakeup is lost ahead of the first check (wait_for:
\* "Capture the event reference BEFORE checking DB").
FirstWaitMissesNothing ==
  \A w \in Workers :
    pc[w] = "parked" /\ held[w] = "current" /\ ~recheck[w] => Claimable(w) \subseteq inboxDue

\* The same for a controller: while it waits on its first event, its message is unresolved,
\* or the reply or cancel that resolved it has its notify() still to come, or it expired.
FirstWaitSeesReply ==
  \A c \in Watchers :
    pc[c] = "parked" /\ held[c] = "current" /\ ~recheck[c] /\ lock # Target[c]
      => status[Target[c]] \notin {"replied", "cancelled"}

\* What a controller is told, and that it is told at once.
ControllerInv == ToldTheTruth /\ FirstWaitSeesReply

\* Once the server stays up, a message does not stay queued for ever while the workers of
\* its session keep polling: no restart, no lock and no poll that missed it hides it from them.
QueuedIsTaken ==
  <>[][~Restart]_vars => \A m \in Messages : status[m] = "queued" ~> status[m] # "queued"

\* Once the server stays up, a controller is told of an outcome even where no notify() came:
\* it polls again after each timeout (wait_for_completion, "call again to keep waiting").
ResolvedIsTold ==
  <>[][~Restart]_vars =>
    \A c \in Watchers : status[Target[c]] \in Final \cup {"deleted"} ~> seen[c] # Nothing

\* The table as the abstract queue of MessageLifecycle.
Lifecycle == INSTANCE MessageLifecycle WITH
  stage <- [m \in Messages |-> CASE status[m] = "absent" -> "new"
                                 [] status[m] = "queued" -> "waiting"
                                 [] status[m] = "delivered" -> "taken"
                                 [] status[m] = "deleted" -> "forgotten"
                                 [] OTHER -> "resolved"],
  outcome <- [m \in Messages |-> IF status[m] \in Final THEN status[m] ELSE Nothing],
  told <- seen,
  Outcomes <- Final,
  Gone <- "not_found"

\* Inbox does what MessageLifecycle promises.
ImplementsLifecycle == Lifecycle!Spec
=============================================================================

------------------------------ MODULE Requests ------------------------------
(***************************************************************************)
(* Requests that wait for somebody else's verdict: the approvals,          *)
(* teams_outbox and session_relay tables of services/store.py, the tools   *)
(* over them, and the requesters that wait: the PreToolUse hook of a       *)
(* headless worker (hook.py through the launcher's socket) and the sidecar *)
(* of a live session (channel.py).                                         *)
(*                                                                         *)
(* A row goes pending -> claimed -> done; an approval is never claimed,    *)
(* its decision column takes it from pending to done.  That a waiter is    *)
(* woken by the notify of its key is the Notifier's business.  The hubs    *)
(* (the controllers that decide, post and route) are not in the            *)
(* repository: they are what the tools' descriptions make of them.         *)
(***************************************************************************)
EXTENDS Naturals, FiniteSets

CONSTANTS
  Hooked,      \* tool calls of headless workers, asked through the launcher's socket
  Direct,      \* tool calls of workers without a launcher, asked at the server itself
  Channelled,  \* tool calls of a live session's non-admin turns
  TeamsSends,  \* posts a live session asks for
  SessionOps,  \* list, send or check operations a live session asks for
  Hubs,        \* concurrent drains
  Permits,     \* the relay's semaphore: max_concurrent
  Chunks,      \* await_decision calls of 25 s that fit in the decision timeout
  MaxAsked,    \* bound on the number of requests made
  Faults,      \* which faults occur: "call", "launcher", "hub"
  Nothing

Approvals == Hooked \cup Direct \cup Channelled
Relayed == TeamsSends \cup SessionOps
Requests == Approvals \cup Relayed

ASSUME RequestsAssumption ==
  /\ Permits \in Nat \ {0}
  /\ Chunks \in Nat \ {0}
  /\ MaxAsked \in Nat
  /\ Hooked \cap Direct = {}
  /\ (Hooked \cup Direct) \cap Channelled = {}
  /\ TeamsSends \cap SessionOps = {}
  /\ Approvals \cap Relayed = {}
  /\ Nothing \notin {"allow", "deny", "ask", "ok", "failed", "unknown"}

VARIABLES
  status,   \* "absent", "pending", "claimed", "done", or "swept" once deleted
  verdict,  \* decision or ok column; kept after the row is deleted (history)
  step,     \* where the call that waits stands: "idle", "queued" for a permit,
            \* "creating", "awaiting", "rechecking", "over"
  left,     \* await_decision calls left
  answer,   \* what the requester was told
  held,     \* rows each hub has drained and neither carried out nor completed
  carried,  \* rows each hub has carried out and not completed
  effects,  \* how often a hub carried the request out (history)
  wins      \* how many verdicts a hub was told are recorded (history)

rows == <<status, verdict>>
calls == <<step, left, answer>>
hub == <<held, carried, effects, wins>>
vars == <<rows, calls, hub>>

Active == {"creating", "awaiting", "rechecking"}
\* Mutant: a handler that fails keeps its permit.
PermitsLeaked == Cardinality({r \in Hooked : step[r] \in Active \cup {"over"}})

PermitsUsed == Cardinality({r \in Hooked : step[r] \in Active})

Init ==
  /\ status = [r \in Requests |-> "absent"]
  /\ verdict = [r \in Requests |-> Nothing]
  /\ step = [r \in Requests |-> "idle"]
  /\ left = [r \in Requests |-> IF r \in Hooked \cup Direct THEN Chunks ELSE 1]
  /\ answer = [r \in Requests |-> Nothing]
  /\ held = [h \in Hubs |-> {}]
  /\ carried = held
  /\ effects = [r \in Requests |-> 0]
  /\ wins = [r \in Requests |-> 0]

-----------------------------------------------------------------------------
(* The requesters *)

\* What each makes of an error, a refusal or a missing row, and of running out of time: a
\* hook leaves it to the tool ceiling, a live session's tool is denied, and a post or
\* operation may still be carried out when its requester stops waiting.
RelayDecision == [error |-> "ask", timeout |-> "ask"]
RelayDirectly == [error |-> "ask", timeout |-> "ask"]
RouteApproval == [error |-> "deny", timeout |-> "deny"]
MeshSendTeams == [error |-> "failed", timeout |-> "unknown"]
MeshSessionOp == [error |-> "failed", timeout |-> "unknown"]

Outcome(r) ==
  CASE r \in Hooked -> RelayDecision
    [] r \in Direct -> RelayDirectly
    [] r \in Channelled -> RouteApproval
    [] r \in TeamsSends -> MeshSendTeams
    [] r \in SessionOps -> MeshSessionOp

\* The call is over; its result is for nobody if the hook has given up on it.
Finish(r, a) ==
  /\ step' = [step EXCEPT ![r] = "over"]
  /\ answer' = [answer EXCEPT ![r] = IF @ = Nothing THEN a ELSE @]
  /\ UNCHANGED left

Goto(r, s) ==
  /\ step' = [step EXCEPT ![r] = s]
  /\ UNCHANGED <<left, answer>>

\* A hook's main() for a tool that is not auto-passed, or a call of the sidecar: it reaches
\* the launcher's socket, or the mesh server.
Ask(r) ==
  /\ step[r] = "idle"
  /\ Cardinality({q \in Requests : step[q] # "idle"}) < MaxAsked
  /\ Goto(r, IF r \in Hooked THEN "queued" ELSE "creating")
  /\ UNCHANGED <<rows, hub>>

\* _handle_relay_conn takes a permit, whether or not its hook still waits.
HandleConnection(r) ==
  /\ step[r] = "queued"
  /\ PermitsUsed < Permits
  /\ Goto(r, "creating")
  /\ UNCHANGED <<rows, hub>>

Insert(r) ==
  /\ status' = [status EXCEPT ![r] = "pending"]
  /\ UNCHANGED verdict

CreateApproval(r) == r \in Approvals /\ Insert(r)
CreateTeamsSend(r) == r \in TeamsSends /\ Insert(r)
CreateSessionOp(r) == r \in SessionOps /\ Insert(r)
Create(r) == CreateApproval(r) \/ CreateTeamsSend(r) \/ CreateSessionOp(r)

RequestApproval(r) ==
  /\ step[r] = "creating" /\ CreateApproval(r)
  /\ Goto(r, "awaiting")
  /\ UNCHANGED hub

RequestTeamsSend(r) ==
  /\ step[r] = "creating" /\ CreateTeamsSend(r)
  /\ Goto(r, "awaiting")
  /\ UNCHANGED hub

RequestSessionOp(r) ==
  /\ step[r] = "creating" /\ CreateSessionOp(r)
  /\ Goto(r, "awaiting")
  /\ UNCHANGED hub

\* The server refuses the request, or a call fails: the row may be there all the same.
CallFails(r) ==
  /\ "call" \in Faults
  /\ step[r] \in Active
  /\ Finish(r, Outcome(r).error)
  /\ \/ UNCHANGED rows
     \/ step[r] = "creating" /\ Create(r)
  /\ UNCHANGED hub

\* The long poll finds a decision, or a completed row.
Ready(r) ==
  /\ step[r] = "awaiting"
  /\ status[r] = "done"
  /\ Finish(r, verdict[r])
  /\ UNCHANGED <<rows, hub>>

\* The long poll runs out; the tool goes on to read the row once more.
Expires(r) ==
  /\ step[r] = "awaiting"
  /\ Goto(r, "rechecking")
  /\ UNCHANGED <<rows, hub>>

\* The reread only tells a row from no row: a verdict that came since is for the next
\* call, if the requester makes one.
NotReady(r) ==
  /\ step[r] = "rechecking"
  /\ IF left[r] > 1
       THEN /\ step' = [step EXCEPT ![r] = "awaiting"]
            /\ left' = [left EXCEPT ![r] = @ - 1]
            /\ UNCHANGED answer
       ELSE Finish(r, Outcome(r).timeout)
  /\ UNCHANGED <<rows, hub>>

AwaitDecision(r) == r \in Approvals /\ (Ready(r) \/ Expires(r))
AwaitTeamsSend(r) == r \in TeamsSends /\ (Ready(r) \/ Expires(r))
AwaitSessionOp(r) == r \in SessionOps /\ (Ready(r) \/ Expires(r))

\* _relay_via_socket gives up on its own clock; the launcher's handler goes on.
HookTimesOut(r) ==
  /\ r \in Hooked /\ answer[r] = Nothing
  /\ step[r] # "idle"
  /\ answer' = [answer EXCEPT ![r] = "ask"]
  /\ UNCHANGED <<rows, step, left, hub>>

\* The launcher dies: its handlers end and each hook reads an empty line.
LauncherDies ==
  /\ "launcher" \in Faults
  /\ \E r \in Hooked : step[r] \in Active \cup {"queued"}
  /\ LET cut == {r \in Hooked : step[r] \in Active \cup {"queued"}}
     IN /\ step' = [r \in Requests |-> IF r \in cut THEN "over" ELSE step[r]]
        /\ answer' = [r \in Requests |->
             IF r \in cut /\ answer[r] = Nothing THEN "ask" ELSE answer[r]]
  /\ UNCHANGED <<rows, left, hub>>

-----------------------------------------------------------------------------
(* The hubs *)

\* Mutant: a drain reads, and does not claim.
ClaimNothing(T) == (\E r \in T : status[r] = "pending") /\ UNCHANGED rows

\* SELECT and UPDATE under _db_lock: pending rows become claimed.
Claim(T) ==
  LET due == {r \in T : status[r] = "pending"}
  IN /\ due # {}
     /\ status' = [r \in Requests |-> IF r \in due THEN "claimed" ELSE status[r]]
     /\ UNCHANGED verdict

ListPendingTeamsSends == Claim(TeamsSends)
ListPendingSessionOps == Claim(SessionOps)

\* The rows just claimed are the caller's, unless the reply is lost with its connection.
Hand(h, T) ==
  /\ \/ held' = [held EXCEPT ![h] = @ \cup {r \in T : status[r] = "pending"}]
     \/ "hub" \in Faults /\ UNCHANGED held
  /\ UNCHANGED <<calls, carried, effects, wins>>

WaitForPendingTeamsSend(h) == ListPendingTeamsSends /\ Hand(h, TeamsSends)
WaitForPendingSessionOps(h) == ListPendingSessionOps /\ Hand(h, SessionOps)

\* The hub posts, or routes.
CarryOut(h, r) ==
  /\ r \in held[h]
  /\ held' = [held EXCEPT ![h] = @ \ {r}]
  /\ carried' = [carried EXCEPT ![h] = @ \cup {r}]
  /\ effects' = [effects EXCEPT ![r] = @ + 1]
  /\ UNCHANGED <<rows, calls, wins>>

Resolve(r, v) ==
  /\ status' = [status EXCEPT ![r] = "done"]
  /\ verdict' = [verdict EXCEPT ![r] = v]
  /\ wins' = [wins EXCEPT ![r] = @ + 1]

\* Mutant: a decision may be overwritten.
DecideAgain(r, v) == status[r] \in {"pending", "done"} /\ Resolve(r, v)

\* The UPDATE of decide_approval matches a row without a decision.
DecideApproval(r, v) == status[r] = "pending" /\ Resolve(r, v)

\* The UPDATE of complete_teams_send and complete_session_op: any row not done.
CompleteRow(r, v) == status[r] \in {"pending", "claimed"} /\ Resolve(r, v)

\* A hub completes what it drained with what came of it; NOT_COMPLETABLE changes nothing.
Complete(h, r) ==
  /\ r \in held[h] \cup carried[h]
  /\ held' = [held EXCEPT ![h] = @ \ {r}]
  /\ carried' = [carried EXCEPT ![h] = @ \ {r}]
  /\ \/ CompleteRow(r, IF r \in carried[h] THEN "ok" ELSE "failed")
     \/ status[r] \notin {"pending", "claimed"} /\ UNCHANGED <<rows, wins>>
  /\ UNCHANGED <<calls, effects>>

CompleteTeamsSend(h, r) == r \in TeamsSends /\ Complete(h, r)
CompleteSessionOp(h, r) == r \in SessionOps /\ Complete(h, r)

\* By a controller that has listed the row at some time: it is told NOT_DECIDABLE if the
\* row has a decision by now or is gone.
ApproveTool(r, v) ==
  /\ r \in Approvals
  /\ DecideApproval(r, v)
  /\ UNCHANGED <<calls, held, carried, effects>>

HubDies(h) ==
  /\ "hub" \in Faults
  /\ held[h] \cup carried[h] # {}
  /\ held' = [held EXCEPT ![h] = {}]
  /\ carried' = [carried EXCEPT ![h] = {}]
  /\ UNCHANGED <<rows, calls, effects, wins>>

-----------------------------------------------------------------------------
(* The sweep *)

\* Mutant: a claimed row is left to the hub that claimed it.
SweepUnclaimed(r) ==
  /\ step[r] = "over"
  /\ status[r] \in {"pending", "done"}
  /\ status' = [status EXCEPT ![r] = "swept"]
  /\ UNCHANGED <<verdict, calls, hub>>

\* Mutant: an approval nobody has decided goes by its age as well.
SweepUndecided(r) ==
  /\ step[r] = "over"
  /\ status[r] \in {"pending", "claimed", "done"}
  /\ status' = [status EXCEPT ![r] = "swept"]
  /\ verdict' = [verdict EXCEPT ![r] = IF @ = Nothing THEN "failed" ELSE @]
  /\ UNCHANGED <<calls, hub>>

\* _cleanup_once, as it bears on one row past the cutoff: no call looks at two rows.  The
\* cutoff is days away, so nobody waits for the row.  A post or operation without a result
\* is marked failed and deleted under the same lock; an undecided approval stays.
Sweep(r) ==
  /\ step[r] = "over"
  /\ status[r] \in IF r \in Approvals THEN {"done"} ELSE {"pending", "claimed", "done"}
  /\ status' = [status EXCEPT ![r] = "swept"]
  /\ verdict' = [verdict EXCEPT ![r] = IF @ = Nothing THEN "failed" ELSE @]
  /\ UNCHANGED <<calls, hub>>

Hook(r) == Ask(r) \/ HandleConnection(r) \/ HookTimesOut(r)
Request(r) == RequestApproval(r) \/ RequestTeamsSend(r) \/ RequestSessionOp(r)
Await(r) == AwaitDecision(r) \/ AwaitTeamsSend(r) \/ AwaitSessionOp(r)
HubStep(h) ==
  \/ WaitForPendingTeamsSend(h) \/ WaitForPendingSessionOps(h) \/ HubDies(h)
  \/ \E r \in Relayed :
       CarryOut(h, r) \/ CompleteTeamsSend(h, r) \/ CompleteSessionOp(h, r)

Next ==
  \/ \E r \in Requests :
       Hook(r) \/ Request(r) \/ CallFails(r) \/ Await(r) \/ NotReady(r) \/ Sweep(r)
  \/ LauncherDies
  \/ \E r \in Requests : \E v \in {"allow", "deny"} : ApproveTool(r, v)
  \/ \E h \in Hubs : HubStep(h)

Spec == Init /\ [][Next]_vars

\* The server and the launcher serve what is asked of them, timers run out, and the sweep
\* comes round: every row left behind is old one day.  Nothing is asked of the hubs.
FairSpec ==
  /\ Spec
  /\ \A r \in Requests :
       /\ WF_vars(Request(r))
       /\ WF_vars(Await(r))
       /\ WF_vars(NotReady(r))
       /\ WF_vars(HookTimesOut(r))
       /\ SF_vars(HandleConnection(r))
       /\ WF_vars(Sweep(r))

-----------------------------------------------------------------------------

(* A tool is allowed, and a hook denies one, only on the decision a controller recorded    *)
(* for that very request; a session is told its request is done only if a hub recorded so. *)
(* Of all who decide or complete one request, one at most is told its verdict is recorded. *)
AnswerIsTheVerdict ==
  \A r \in Requests :
    /\ wins[r] <= 1
    /\ answer[r] \in {"allow", "ok"} => verdict[r] = answer[r] /\ wins[r] = 1
    /\ answer[r] = "deny" /\ r \notin Channelled => verdict[r] = "deny" /\ wins[r] = 1

(* However the drains of two hubs interleave and whichever of them dies, no request is in *)
(* two hands and none is carried out twice; one a session is told is done has been        *)
(* carried out (FMC-12).                                                                  *)
CarriedOutOnce ==
  /\ \A r \in Relayed :
       /\ effects[r] <= 1
       /\ answer[r] = "ok" => effects[r] = 1
  /\ \A g, h \in Hubs :
       g # h => (held[g] \cup carried[g]) \cap (held[h] \cup carried[h]) = {}

Stage(s) ==
  CASE s = "absent" -> "new"
    [] s = "pending" -> "open"
    [] s = "claimed" -> "taken"
    [] s = "done" -> "closed"
    [] s = "swept" -> "forgotten"

\* The tables and the calls as the abstract requests of RequestLifecycle.
Lifecycle == INSTANCE RequestLifecycle WITH
  stage <- [r \in Requests |-> Stage(status[r])],
  done <- [r \in Requests |-> effects[r] # 0],
  told <- answer,
  Decisions <- {"allow", "deny"},
  Done <- "ok",
  Failed <- "failed",
  Evasive <- [r \in Requests |-> {Outcome(r).error, Outcome(r).timeout}]

\* Requests does what RequestLifecycle promises.
ImplementsLifecycle == Lifecycle!Spec

(* Whatever dies, a requester is answered, and its call gives its permit back: a worker is *)
(* not stuck in its hook, and the relay serves the next hook.                              *)
EveryCallEnds ==
  \A r \in Requests : step[r] # "idle" ~> step[r] = "over" /\ answer[r] # Nothing

(* A post or operation nobody picks up, or whose hub died with it, leaves the table.      *)
NothingDangles ==
  \A r \in Relayed : status[r] \in {"pending", "claimed"} ~> status[r] \in {"done", "swept"}

(* No requester waits for ever, and no post or operation stays behind.  An approval that   *)
(* nobody decided does: the sweep deletes decided ones only.                               *)
NothingIsLeft == EveryCallEnds /\ NothingDangles
=============================================================================

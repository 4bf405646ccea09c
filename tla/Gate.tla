-------------------------------- MODULE Gate --------------------------------
(***************************************************************************)
(* One turn of a worker as its permission gate sees it                     *)
(* (worker_supervisor/gate.py and the attempt loop of engine.py): the tool *)
(* calls the CLI streams, the PreToolUse hooks it dispatches for each, the *)
(* calls it approves by itself and those it brings to can_use_tool, the    *)
(* questions a call parks and the answers that arrive for them.            *)
(*                                                                         *)
(* The CLI handles one call at a time, in the order of the stream.  What   *)
(* an ask does to the worker's status is in WorkerTurns, and what the      *)
(* ceiling says of one call in Ceiling.                                    *)
(***************************************************************************)
EXTENDS Grants, FiniteSets

CONSTANTS
  Denial(_, _, _),  \* why some grants refuse a tool with its command; "none": they do not
  Lanes,            \* the lanes to choose from, see LaneOK
  MaxQuestions,     \* bound: questions of the turn
  MaxReboots        \* bound: crashes of the daemon

FaultKinds == {"undispatched",   \* the CLI does not dispatch the policy hook
               "invalid",        \* the CLI rejects a call's input before any hook
               "raise",          \* the policy hook's body raises
               "emit",           \* an event cannot be written
               "stream",         \* the CLI dies under the turn
               "cut",            \* the wall clock, or a kill, ends the turn
               "crash"}          \* the daemon dies

(* A lane is a policy row, the calls its model may make, the failures it   *)
(* may meet, and how many calls an attempt makes at most.                  *)
LaneOK(l) == l.faults \subseteq FaultKinds /\ l.most \in Nat

ASSUME GateAssumption ==
  /\ \A l \in Lanes : LaneOK(l)
  /\ MaxQuestions \in Nat /\ MaxReboots \in Nat

VARIABLES
  lane,        \* the lane the turn belongs to
  turn,        \* the turn's state in the registry
  attempt,     \* the attempt of the loop, 0 when none runs
  calls,       \* outcome.tools: the tool calls observed in this attempt, and how far each is
  hookCalls,   \* the dispatches of the policy hook: in all, and for AskUserQuestion
  report,      \* of how the stream ended: "none" yet, "due" once the end is recorded, "made", "lost"
  gap,         \* policy_hook_gap was written for this turn
  questions,   \* the questions table, with the ask and the answer of each row
  reboots      \* bound

vars == <<lane, turn, attempt, calls, hookCalls, report, gap, questions, reboots>>

Over == {"done", "error", "timeout", "killed", "question_timeout"}

---------------------------------------------------------------------------
(* The policy of the turn, reloaded from its row.  A field of the row is   *)
(* absent, malformed (not of its container's type) or valid.               *)

(* Mutant: a malformed field is as good as none.                           *)
FieldOrDefault(f, default, empty) == IF f.shape = "valid" THEN f.value ELSE default
Field(f, default, empty) ==
  CASE f.shape = "absent"    -> default
    [] f.shape = "malformed" -> empty
    [] f.shape = "valid"     -> f.value

DefaultAllowedTools == {BareGrant(t) : t \in {<<"Read">>, <<"Bash">>, <<"Skill">>, AskUserQuestion}}

Policy(row) ==
  [grants |-> Field(row.allowed_tools, DefaultAllowedTools, {}),
   guards |-> Field(row.guard_hooks, <<>>, <<>>)]

(* A call is [tool, command, path]: path tells where the path in its input *)
(* resolves to, "none" when there is none.                                 *)
PathEscapes(path) == path \in {"outside", "linked outside"}

Denied(call) ==
  \/ Denial(Policy(lane.row).grants, call.tool, call.command) # "none"
  \/ PathEscapes(call.path)

(* The script configured for a tool, "" when none is.                      *)
Script(tool) ==
  LET guards == Policy(lane.row).guards IN IF tool \in DOMAIN guards THEN guards[tool] ELSE ""

SafeScript(script) == script = "plain"

(* What _run_guard_hook finds in .claude/hooks, and what the script does.  *)
Found == {"missing", "unreadable", "linked outside", "contained"}
Outcomes == {"hangs", "silent", "fails", "garbage", "allow", "deny", "ask", "unknown", "raises"}

(* The guard's decision; nothing runs unless the script is contained.      *)
RunGuard(script, found, outcome) ==
  CASE ~SafeScript(script)                                    -> "refused"
    [] SafeScript(script) /\ found = "missing"                -> "none"
    [] SafeScript(script) /\ found \in {"unreadable", "linked outside"} -> "refused"
    [] SafeScript(script) /\ found = "contained" ->
         CASE outcome \in {"hangs", "fails", "garbage"} -> "error"
           [] outcome \in {"silent", "allow"}           -> "allow"
           [] OTHER                                     -> outcome

(* The decisions that do not stop the call: a word the gate does not know  *)
(* is one of them.                                                         *)
Passing == {"none", "allow", "unknown"}

---------------------------------------------------------------------------
Observed(call) ==
  [call |-> call, step |-> "queued", dispatched |-> FALSE,
   found |-> "", outcome |-> "", checked |-> FALSE]

Settled == {"ran", "denied", "rejected", "answered", "stopped", "errored"}

(* The call the CLI is at: the first that is not settled, 0 for none.      *)
At == LET open == {n \in DOMAIN calls : calls[n].step \notin Settled}
      IN IF open = {} THEN 0 ELSE CHOOSE n \in open : \A m \in open : n <= m

IsQuestion(n) == calls[n].call.tool = AskUserQuestion

(* The CLI goes past a stopped call only to end the stream.                *)
Stopped == \E n \in DOMAIN calls : calls[n].step = "stopped"

Streaming == turn = "running" /\ ~Stopped

Init ==
  /\ lane \in Lanes
  /\ turn = "queued" /\ attempt = 0
  /\ calls = <<>> /\ hookCalls = [total |-> 0, asked |-> 0]
  /\ report = "none" /\ gap = FALSE
  /\ questions = <<>> /\ reboots = 0

(* A new attempt observes, and counts, from nothing.                       *)
NewAttempt(n) ==
  /\ turn' = "running" /\ attempt' = n
  /\ calls' = <<>> /\ hookCalls' = [total |-> 0, asked |-> 0]

Begin ==
  /\ turn = "queued"
  /\ NewAttempt(1)
  /\ UNCHANGED <<lane, report, gap, questions, reboots>>

(* The model calls a tool that exists for the session.                     *)
Observe ==
  /\ Streaming /\ Len(calls) < lane.most
  /\ \E call \in lane.calls :
       /\ call.tool \in BaseTools(Policy(lane.row).grants) \/ call.tool[1] = McpPrefix
       /\ calls' = Append(calls, Observed(call))
  /\ UNCHANGED <<lane, turn, attempt, hookCalls, report, gap, questions, reboots>>

SetCall(n, step) == calls' = [calls EXCEPT ![n].step = step]
OnlyCalls == UNCHANGED <<lane, turn, attempt, hookCalls, report, gap, questions, reboots>>

Reject ==
  /\ "invalid" \in lane.faults /\ Streaming /\ At # 0 /\ calls[At].step = "queued"
  /\ SetCall(At, "rejected") /\ OnlyCalls

Undispatched ==
  /\ "undispatched" \in lane.faults /\ Streaming /\ At # 0 /\ calls[At].step = "queued"
  /\ ~IsQuestion(At)
  /\ SetCall(At, "permission") /\ OnlyCalls

(* The deny does not depend on its record: lost says the event could not   *)
(* be written.                                                             *)
Losable(lost) == lost => "emit" \in lane.faults
AfterDenial(lost) == "denied"

(* The policy hook: the ceiling and the cwd pin, then the guard.  It fails *)
(* closed.                                                                 *)
AfterChecks(call, raised) ==
  CASE raised \/ Denied(call)               -> "denied"
    [] ~raised /\ ~Denied(call) /\ Script(call.tool) # "" -> "guard"
    [] OTHER                                -> "permission"

PolicyHook ==
  /\ Streaming /\ At # 0 /\ calls[At].step = "queued" /\ ~IsQuestion(At)
  /\ hookCalls' = [hookCalls EXCEPT !.total = @ + 1]
  /\ \E raised \in BOOLEAN, lost \in BOOLEAN :
       /\ raised => "raise" \in lane.faults
       /\ Losable(lost)
       /\ LET next == AfterChecks(calls[At].call, raised)
          IN calls' = [calls EXCEPT ![At].dispatched = TRUE,
                                    ![At].step = IF next = "denied" THEN AfterDenial(lost)
                                                 ELSE next]
  /\ UNCHANGED <<lane, turn, attempt, report, gap, questions, reboots>>

Guard ==
  /\ Streaming /\ At # 0 /\ calls[At].step = "guard"
  /\ \E found \in Found, outcome \in Outcomes, lost \in BOOLEAN :
       /\ Losable(lost)
       /\ found # "contained" => outcome = "silent"
       /\ LET decision == RunGuard(Script(calls[At].call.tool), found, outcome)
          IN calls' = [calls EXCEPT ![At].found = found, ![At].outcome = outcome,
               ![At].step = IF decision \in Passing THEN "permission"
                            ELSE AfterDenial(lost)]
  /\ OnlyCalls

(* The CLI's own rules approve the call: nobody asks can_use_tool.         *)
AutoApprove ==
  /\ Streaming /\ At # 0 /\ calls[At].step = "permission" /\ calls[At].call.tool = <<"Bash">>
  /\ SetCall(At, "ran") /\ OnlyCalls

(* can_use_tool: the two pure checks again.                                *)
CanUseTool ==
  /\ Streaming /\ At # 0 /\ calls[At].step = "permission" /\ ~IsQuestion(At)
  /\ calls' = [calls EXCEPT ![At].checked = TRUE,
                            ![At].step = IF Denied(calls[At].call) THEN "denied" ELSE "ran"]
  /\ OnlyCalls

---------------------------------------------------------------------------
(* Questions.  A row has a state; its ask, the coroutine that parked it,   *)
(* is "parked" until the waiter is registered, then "waiting", "woken"     *)
(* when its future has the answer, "expired" when the timer fired first,   *)
(* and "over"; its answer, the call of the control socket, has "won" the   *)
(* compare-and-swap, then "told" its caller.                               *)

Parked == [state |-> "pending", ask |-> "parked", heard |-> "nothing", answer |-> "none"]

SetQuestion(q, new) == questions' = [questions EXCEPT ![q] = new]
OnlyQuestions == UNCHANGED <<lane, turn, attempt, calls, hookCalls, report, gap, reboots>>

(* The question hook, or can_use_tool for the same tool.                   *)
Park ==
  /\ Streaming /\ At # 0 /\ calls[At].step = "queued" /\ IsQuestion(At)
  /\ Len(questions) < MaxQuestions
  /\ questions' = Append(questions, Parked)
  /\ SetCall(At, "asking")
  /\ UNCHANGED <<lane, turn, attempt, hookCalls, report, gap, reboots>>

Resolved(q, state) ==
  IF questions[q].state = "pending" THEN [questions[q] EXCEPT !.state = state] ELSE questions[q]

(* The event that announces the question cannot be written: the hook       *)
(* fails, and the row stays.                                               *)
AskFails(q) ==
  /\ "emit" \in lane.faults /\ turn = "running" /\ questions[q].ask = "parked"
  /\ SetQuestion(q, [questions[q] EXCEPT !.ask = "over", !.heard = "failure"])
  /\ OnlyQuestions

Register(q) ==
  /\ turn = "running" /\ questions[q].ask = "parked"
  /\ SetQuestion(q, [questions[q] EXCEPT !.ask = "waiting"])
  /\ OnlyQuestions

(* Mutant: only the asks of open questions time out.                       *)
ExpiresIfOpen(q) == questions[q].ask = "waiting" /\ questions[q].state = "pending"
Expires(q) == questions[q].ask = "waiting"

Expire(q) ==
  /\ turn = "running" /\ Expires(q)
  /\ SetQuestion(q, [questions[q] EXCEPT !.ask = "expired"])
  /\ OnlyQuestions

TimeOut(q) ==
  /\ turn = "running" /\ questions[q].ask = "expired"
  /\ \E lost \in BOOLEAN :
       /\ Losable(lost)
       /\ SetQuestion(q, [Resolved(q, "timed_out") EXCEPT !.ask = "over",
                            !.heard = IF lost THEN "failure" ELSE "timeout"])
  /\ OnlyQuestions

Hear(q) ==
  /\ turn = "running" /\ questions[q].ask = "woken"
  /\ \E lost \in BOOLEAN :
       /\ Losable(lost)
       /\ SetQuestion(q, [questions[q] EXCEPT !.ask = "over",
                            !.heard = IF lost THEN "failure" ELSE "answer"])
  /\ OnlyQuestions

(* QuestionBridge.answer: the row, then the waiter if it is there and its  *)
(* future is not done.                                                     *)
Answer(q) ==
  /\ questions[q].answer = "none" /\ questions[q].state = "pending"
  /\ SetQuestion(q, [Resolved(q, "answered") EXCEPT !.answer = "won"])
  /\ OnlyQuestions

Wakes(q) == questions[q].ask = "waiting"

Wake(q) ==
  /\ questions[q].answer = "won"
  /\ SetQuestion(q, [questions[q] EXCEPT !.answer = "told",
                       !.ask = IF Wakes(q) THEN "woken" ELSE @])
  /\ OnlyQuestions

(* The question hook has returned; the CLI awaits the policy hook as well, *)
(* which only counts the dispatch.                                         *)
LastAsk == questions[Len(questions)]

CountQuestion(h) == [total |-> h.total + 1, asked |-> h.asked + 1]

AfterQuestion(heard) ==
  CASE heard = "answer"  -> "answered"
    [] heard = "timeout" -> "stopped"
    [] OTHER             -> "errored"

Asked ==
  /\ Streaming /\ At # 0 /\ calls[At].step = "asking" /\ LastAsk.ask = "over"
  /\ hookCalls' = CountQuestion(hookCalls)
  /\ calls' = [calls EXCEPT ![At].dispatched = TRUE,
                            ![At].step = AfterQuestion(LastAsk.heard)]
  /\ UNCHANGED <<lane, turn, attempt, report, gap, questions, reboots>>

---------------------------------------------------------------------------
(* The end of an attempt.                                                  *)

(* The attempt's tasks are cancelled: an ask ends without touching its row. *)
Cancelled ==
  [q \in DOMAIN questions |->
     IF questions[q].ask = "over" THEN questions[q]
     ELSE [questions[q] EXCEPT !.ask = "over", !.heard = "nothing"]]

(* _check_policy_hook_gap: every call that is not a question should have   *)
(* had its dispatch.                                                       *)
(* Mutant: all dispatches count for the calls that are no questions.       *)
HookGapInAll == hookCalls.total < Cardinality({n \in DOMAIN calls : ~IsQuestion(n)})
HookGap ==
  hookCalls.total - hookCalls.asked < Cardinality({n \in DOMAIN calls : ~IsQuestion(n)})

TimedOut == \E q \in DOMAIN questions : questions[q].state = "timed_out"

(* The stream has ended by itself, with a result or without one: how the   *)
(* turn ended is recorded, and with a result it is then to be reported.    *)
StreamEnds ==
  /\ turn = "running" /\ (At = 0 \/ Stopped)
  /\ \E saw_result \in BOOLEAN, is_error \in BOOLEAN :
       /\ turn' = IF TimedOut THEN "question_timeout"
                  ELSE IF ~saw_result \/ is_error THEN "error" ELSE "done"
       /\ report' = IF ~TimedOut /\ saw_result THEN "due" ELSE report
  /\ attempt' = 0 /\ questions' = Cancelled
  /\ UNCHANGED <<lane, calls, hookCalls, gap, reboots>>

(* turn_finished and what the counts say of it, with no await between.     *)
Report ==
  /\ report = "due"
  /\ report' = "made" /\ gap' = HookGap
  /\ UNCHANGED <<lane, turn, attempt, calls, hookCalls, questions, reboots>>

(* One of the events cannot be written, which ends the task; or a kill or  *)
(* a stop cancels it before it is back from the record.                    *)
ReportFails ==
  /\ report = "due" /\ lane.faults \cap {"emit", "cut"} # {}
  /\ report' = "lost"
  /\ UNCHANGED <<lane, turn, attempt, calls, hookCalls, gap, questions, reboots>>

(* The CLI dies: the first attempt may be tried again.                     *)
StreamDies ==
  /\ "stream" \in lane.faults /\ turn = "running"
  /\ questions' = Cancelled
  /\ \/ attempt = 1 /\ NewAttempt(2)
     \/ turn' = "error" /\ attempt' = 0 /\ UNCHANGED <<calls, hookCalls>>
  /\ UNCHANGED <<lane, report, gap, reboots>>

Cut ==
  /\ "cut" \in lane.faults /\ turn = "running"
  /\ turn' \in {"timeout", "killed"} /\ attempt' = 0 /\ questions' = Cancelled
  /\ UNCHANGED <<lane, calls, hookCalls, report, gap, reboots>>

(* The daemon dies, with every ask and answer in it; the next one requeues *)
(* the turn and dismisses what is pending.                                 *)
Dismissed(rows) ==
  [q \in DOMAIN rows |-> [rows[q] EXCEPT
     !.state = IF @ = "pending" THEN "dismissed" ELSE @,
     !.answer = IF @ = "won" THEN "lost" ELSE @]]

Reboot ==
  /\ "crash" \in lane.faults /\ reboots < MaxReboots
  /\ reboots' = reboots + 1
  /\ turn' = IF turn = "running" THEN "queued" ELSE turn
  /\ attempt' = 0
  /\ report' = IF report = "due" THEN "lost" ELSE report
  /\ questions' = Dismissed(Cancelled)
  /\ UNCHANGED <<lane, calls, hookCalls, gap>>

---------------------------------------------------------------------------
AskSteps(q) == AskFails(q) \/ Register(q) \/ Expire(q) \/ TimeOut(q) \/ Hear(q)
Policing == Reject \/ Undispatched \/ PolicyHook \/ Guard \/ AutoApprove \/ CanUseTool \/ Asked

Next ==
  \/ Begin \/ Observe \/ Policing \/ Park
  \/ \E q \in DOMAIN questions : AskSteps(q) \/ Answer(q) \/ Wake(q)
  \/ StreamEnds \/ Report \/ ReportFails \/ StreamDies \/ Cut \/ Reboot

(* The event loop runs what is ready, and the timer of an ask fires.       *)
Fairness ==
  \A q \in 1..MaxQuestions : WF_vars(q \in DOMAIN questions /\ AskSteps(q))

Spec == Init /\ [][Next]_vars
FairSpec == Spec /\ Fairness

---------------------------------------------------------------------------
(* A call the policy hook was dispatched for runs only if the ceiling and  *)
(* the cwd pin pass it and its guard, when it has one, let it: whatever    *)
(* raised, hung or could not be recorded on the way, and even when the CLI *)
(* approved the call by itself.  Past a skipped hook can_use_tool still    *)
(* judges it.  And where nothing raises, a call is denied only by the      *)
(* ceiling, the pin or its guard (make_policy_hook, make_gate).            *)
Lets(c) == RunGuard(Script(c.call.tool), c.found, c.outcome) \in Passing

RunsAreJudged ==
  \A n \in DOMAIN calls :
    LET c == calls[n]
    IN /\ c.step = "ran" =>
            /\ c.dispatched \/ c.checked => ~Denied(c.call)
            /\ c.dispatched /\ Script(c.call.tool) # "" => Lets(c)
            /\ ~c.dispatched => "undispatched" \in lane.faults
       /\ c.step = "denied" /\ "raise" \notin lane.faults =>
            Denied(c.call) \/ (Script(c.call.tool) # "" /\ ~Lets(c))

(* A gap is reported only of a turn that is over, and only if some call of *)
(* its last attempt that is not a question had no dispatch of the policy   *)
(* hook; and always then, once the end of the turn has been reported at    *)
(* all: no question makes up for a call, and no earlier attempt does.  The *)
(* end of a turn that is done goes unreported for good only if an event    *)
(* cannot be written, the task is cancelled or the daemon dies right after *)
(* the end was recorded (_run_turn, _check_policy_hook_gap).               *)
GapIsReported ==
  /\ gap <=> report = "made" /\ \E n \in DOMAIN calls : ~IsQuestion(n) /\ ~calls[n].dispatched
  /\ report # "none" => turn \in {"done", "error"}
  /\ turn = "done" =>
       \/ report \in {"due", "made"}
       \/ report = "lost" /\ (reboots > 0 \/ lane.faults \cap {"emit", "cut"} # {})

(* What the turn heard agrees with the row: an answer is the row's, after  *)
(* a timeout nobody is asked any more, and who was told that the answer    *)
(* counted finds it in the row for good (QuestionBridge.ask and answer).   *)
QuestionsAgree ==
  \A q \in DOMAIN questions :
    /\ questions[q].heard = "answer" => questions[q].state = "answered"
    /\ questions[q].heard = "timeout" => questions[q].state # "pending"
    /\ questions[q].answer = "told" => questions[q].state = "answered"

(* The gate is asked, counts what skipped it, and agrees with its rows.    *)
GateInv == RunsAreJudged /\ GapIsReported /\ QuestionsAgree
=============================================================================

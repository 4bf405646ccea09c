--------------------------- MODULE RequestsProofs ---------------------------
(***************************************************************************)
(* Proofs about the requests that wait for a verdict, for any number of    *)
(* requests and hubs: an answer is the recorded verdict, and no request is *)
(* carried out twice.                                                      *)
(***************************************************************************)
EXTENDS Requests, TLAPS

\* The values of the state.
TypeOK ==
  /\ status \in [Requests -> {"absent", "pending", "claimed", "done", "swept"}]
  /\ verdict \in [Requests -> {Nothing, "allow", "deny", "ok", "failed"}]
  /\ step \in [Requests -> {"idle", "queued", "creating", "awaiting", "rechecking", "over"}]
  /\ left \in [Requests -> Nat]
  /\ answer \in
       [Requests -> {Nothing, "allow", "deny", "ask", "ok", "failed", "unknown"}]
  /\ held \in [Hubs -> SUBSET Relayed]
  /\ carried \in [Hubs -> SUBSET Relayed]
  /\ effects \in [Requests -> Nat]
  /\ wins \in [Requests -> Nat]

Untouched == {"absent", "pending", "claimed"}
Hands(h) == held[h] \cup carried[h]

\* A row is made once, by the call that waits for it, and its verdict is that of the one
\* who was told so, or the sweep's.
RowFollowsCall ==
  \A r \in Requests :
    /\ step[r] \in {"idle", "queued", "creating"} => status[r] = "absent"
    /\ status[r] \in Untouched => verdict[r] = Nothing /\ wins[r] = 0
    /\ status[r] \in {"done", "swept"} => verdict[r] # Nothing
    /\ status[r] = "done" => wins[r] = 1
    /\ verdict[r] \in {"allow", "deny", "ok"} => wins[r] = 1

\* What a hub has in hand is claimed, unless the sweep came first; what it has not yet carried
\* out has had no effect, and what a verdict says is done has had one.
HandsFollowRow ==
  /\ \A h \in Hubs :
       /\ \A r \in Hands(h) : status[r] \in {"claimed", "swept"}
       /\ \A r \in held[h] : effects[r] = 0
       /\ \A r \in carried[h] : effects[r] = 1
  /\ \A r \in Requests :
       /\ status[r] \in {"absent", "pending"} => effects[r] = 0
       /\ verdict[r] = "ok" => effects[r] = 1

IInv ==
  /\ TypeOK
  /\ RowFollowsCall
  /\ HandsFollowRow
  /\ AnswerIsTheVerdict
  /\ CarriedOutOnce

-----------------------------------------------------------------------------

LEMMA InitIInv == Init => IInv
  BY RequestsAssumption
  DEF Init, IInv, TypeOK, RowFollowsCall, HandsFollowRow, AnswerIsTheVerdict, CarriedOutOnce,
      Requests, Hands, Untouched

\* What a requester makes of an error or of its time running out is never what a controller
\* may decide, but for a live session's tool, and never that a request is done.
LEMMA OutcomeIsNoVerdict ==
  ASSUME NEW r \in Requests
  PROVE  /\ Outcome(r).error \in {"ask", "deny", "failed"}
         /\ Outcome(r).timeout \in {"ask", "deny", "unknown"}
         /\ "deny" \in {Outcome(r).error, Outcome(r).timeout} => r \in Channelled
  BY RequestsAssumption
  DEF Outcome, Requests, Approvals, Relayed, RelayDecision, RelayDirectly, RouteApproval,
      MeshSendTeams, MeshSessionOp

\* A step of a requester that leaves the rows and the hubs alone keeps the invariant if it
\* does not go back before its row and tells only what is recorded.
LEMMA CallsIInv ==
  ASSUME IInv, TypeOK', UNCHANGED <<rows, hub>>,
         \A r \in Requests :
           step'[r] \in {"idle", "queued", "creating"} => status[r] = "absent",
         \A r \in Requests :
           \/ answer'[r] \in {answer[r], "ask", "failed", "unknown"}
           \/ answer'[r] = "deny" /\ r \in Channelled
           \/ status[r] = "done" /\ answer'[r] = verdict[r]
  PROVE  IInv'
<1>1. RowFollowsCall'
  BY DEF IInv, RowFollowsCall, rows, hub
<1>2. HandsFollowRow'
  BY DEF IInv, HandsFollowRow, Hands, rows, hub
<1>3. AnswerIsTheVerdict'
  BY RequestsAssumption DEF IInv, TypeOK, RowFollowsCall, AnswerIsTheVerdict, rows, hub
<1>4. CarriedOutOnce'
  BY RequestsAssumption
  DEF IInv, TypeOK, HandsFollowRow, AnswerIsTheVerdict, CarriedOutOnce, rows, hub,
      Requests, Relayed
<1>5. QED BY <1>1, <1>2, <1>3, <1>4 DEF IInv

LEMMA WaitingIInv ==
  ASSUME IInv, NEW r \in Requests,
         Hook(r) \/ Await(r) \/ NotReady(r)
  PROVE  IInv'
<1>1. CASE Hook(r)
  <2>1. TypeOK' /\ UNCHANGED <<rows, hub>>
    BY <1>1 DEF IInv, TypeOK, Hook, Ask, HandleConnection, HookTimesOut, Goto, rows, hub
  <2>2. \A q \in Requests :
          step'[q] \in {"idle", "queued", "creating"} => status[q] = "absent"
    BY <1>1 DEF IInv, TypeOK, RowFollowsCall, Hook, Ask, HandleConnection, HookTimesOut, Goto
  <2>3. \A q \in Requests : answer'[q] \in {answer[q], "ask"}
    BY <1>1 DEF IInv, TypeOK, Hook, Ask, HandleConnection, HookTimesOut, Goto
  <2>4. QED BY <2>1, <2>2, <2>3, CallsIInv
<1>2. CASE Await(r)
  <2>1. Ready(r) \/ Expires(r)
    BY <1>2 DEF Await, AwaitDecision, AwaitTeamsSend, AwaitSessionOp
  <2>2. TypeOK' /\ UNCHANGED <<rows, hub>>
    BY <2>1 DEF IInv, TypeOK, Ready, Expires, Finish, Goto, rows, hub
  <2>3. \A q \in Requests :
          step'[q] \in {"idle", "queued", "creating"} => status[q] = "absent"
    BY <2>1 DEF IInv, TypeOK, RowFollowsCall, Ready, Expires, Finish, Goto
  <2>4. \A q \in Requests :
          \/ answer'[q] = answer[q]
          \/ status[q] = "done" /\ answer'[q] = verdict[q]
    BY <2>1 DEF IInv, TypeOK, Ready, Expires, Finish, Goto
  <2>5. QED BY <2>2, <2>3, <2>4, CallsIInv
<1>3. CASE NotReady(r)
  <2>1. TypeOK' /\ UNCHANGED <<rows, hub>>
    BY <1>3, OutcomeIsNoVerdict DEF IInv, TypeOK, NotReady, Finish, rows, hub
  <2>2. \A q \in Requests :
          step'[q] \in {"idle", "queued", "creating"} => status[q] = "absent"
    BY <1>3 DEF IInv, TypeOK, RowFollowsCall, NotReady, Finish
  <2>3. \A q \in Requests :
          \/ answer'[q] \in {answer[q], "ask", "unknown"}
          \/ answer'[q] = "deny" /\ q \in Channelled
    BY <1>3, OutcomeIsNoVerdict DEF IInv, TypeOK, NotReady, Finish
  <2>4. QED BY <2>1, <2>2, <2>3, CallsIInv
<1>4. QED BY <1>1, <1>2, <1>3

LEMMA LauncherDiesIInv ==
  ASSUME IInv, LauncherDies
  PROVE  IInv'
<1>1. TypeOK' /\ UNCHANGED <<rows, hub>>
  BY DEF IInv, TypeOK, LauncherDies, rows, hub
<1>2. \A r \in Requests :
        step'[r] \in {"idle", "queued", "creating"} => status[r] = "absent"
  BY DEF IInv, TypeOK, RowFollowsCall, LauncherDies
<1>3. \A r \in Requests : answer'[r] \in {answer[r], "ask"}
  BY DEF IInv, TypeOK, LauncherDies
<1>4. QED BY <1>1, <1>2, <1>3, CallsIInv

\* A row is inserted by a call that has none, so nobody has it in hand.
LEMMA InsertIInv ==
  ASSUME IInv, NEW r \in Requests, TypeOK', UNCHANGED hub,
         step[r] = "creating", Insert(r),
         step' = [step EXCEPT ![r] = step'[r]], step'[r] \in {"awaiting", "over"},
         \/ answer' = answer
         \/ \A q \in Requests :
              \/ answer'[q] \in {answer[q], "ask", "failed", "unknown"}
              \/ answer'[q] = "deny" /\ q \in Channelled
  PROVE  IInv'
<1>1. status[r] = "absent"
  BY DEF IInv, RowFollowsCall
<1>2. RowFollowsCall'
  BY <1>1, RequestsAssumption DEF IInv, TypeOK, RowFollowsCall, Insert, hub, Untouched
<1>3. HandsFollowRow'
  BY <1>1 DEF IInv, TypeOK, HandsFollowRow, Insert, hub, Hands
<1>4. AnswerIsTheVerdict' /\ CarriedOutOnce'
  BY RequestsAssumption
  DEF IInv, TypeOK, AnswerIsTheVerdict, CarriedOutOnce, Insert, hub, Requests, Relayed
<1>5. QED BY <1>2, <1>3, <1>4 DEF IInv

LEMMA RequestIInv ==
  ASSUME IInv, NEW r \in Requests, Request(r)
  PROVE  IInv'
<1>1. step[r] = "creating" /\ Insert(r) /\ Goto(r, "awaiting") /\ UNCHANGED hub
  BY DEF Request, RequestApproval, RequestTeamsSend, RequestSessionOp,
         CreateApproval, CreateTeamsSend, CreateSessionOp
<1>2. TypeOK'
  BY <1>1 DEF IInv, TypeOK, Insert, Goto, hub
<1>3. QED BY <1>1, <1>2, InsertIInv DEF IInv, TypeOK, Goto

LEMMA CallFailsIInv ==
  ASSUME IInv, NEW r \in Requests, CallFails(r)
  PROVE  IInv'
<1>1. /\ step[r] \in Active
      /\ Finish(r, Outcome(r).error)
      /\ UNCHANGED hub
      /\ \/ UNCHANGED rows
         \/ step[r] = "creating" /\ Insert(r)
  BY DEF CallFails, Create, CreateApproval, CreateTeamsSend, CreateSessionOp
<1>2. TypeOK'
  BY <1>1, OutcomeIsNoVerdict DEF IInv, TypeOK, Insert, Finish, hub, rows
<1>3. \A q \in Requests :
        \/ answer'[q] \in {answer[q], "ask", "failed"}
        \/ answer'[q] = "deny" /\ q \in Channelled
  BY <1>1, OutcomeIsNoVerdict DEF IInv, TypeOK, Finish
<1>4. CASE UNCHANGED rows
  <2>1. \A q \in Requests :
          step'[q] \in {"idle", "queued", "creating"} => status[q] = "absent"
    BY <1>1 DEF IInv, TypeOK, RowFollowsCall, Finish
  <2>2. QED BY <1>1, <1>2, <1>3, <1>4, <2>1, CallsIInv
<1>5. CASE step[r] = "creating" /\ Insert(r)
  BY <1>1, <1>2, <1>3, <1>5, InsertIInv DEF IInv, TypeOK, Finish
<1>6. QED BY <1>1, <1>4, <1>5

\* A drain claims every pending row of its table, and pending rows are in no other hand.
LEMMA DrainIInv ==
  ASSUME IInv, NEW h \in Hubs,
         WaitForPendingTeamsSend(h) \/ WaitForPendingSessionOps(h)
  PROVE  IInv'
<1>1. PICK T \in {TeamsSends, SessionOps} : Claim(T) /\ Hand(h, T)
  BY DEF WaitForPendingTeamsSend, WaitForPendingSessionOps, ListPendingTeamsSends,
         ListPendingSessionOps
<1>2. T \subseteq Relayed /\ Relayed \subseteq Requests
  BY DEF Relayed, Requests
<1> DEFINE due == {r \in T : status[r] = "pending"}
<1>3. /\ \A r \in Requests :
           status'[r] = IF r \in due THEN "claimed" ELSE status[r]
      /\ UNCHANGED <<verdict, calls, carried, effects, wins>>
      /\ \A g \in Hubs :
           \/ held'[g] = held[g]
           \/ g = h /\ held'[g] = held[g] \cup due
  BY <1>1, <1>2 DEF IInv, TypeOK, Claim, Hand
<1>4. TypeOK'
  BY <1>1, <1>2 DEF IInv, TypeOK, Claim, Hand, calls
<1>5. RowFollowsCall'
  BY <1>2, <1>3, <1>4 DEF IInv, TypeOK, RowFollowsCall, calls, Untouched
<1>6. HandsFollowRow'
  BY <1>2, <1>3, <1>4 DEF IInv, TypeOK, HandsFollowRow, Hands
<1>7. AnswerIsTheVerdict'
  BY <1>3 DEF IInv, AnswerIsTheVerdict, calls
<1>8. CarriedOutOnce'
  BY <1>2, <1>3 DEF IInv, TypeOK, HandsFollowRow, CarriedOutOnce, calls, Hands
<1>9. QED BY <1>4, <1>5, <1>6, <1>7, <1>8 DEF IInv

LEMMA CarryOutIInv ==
  ASSUME IInv, NEW h \in Hubs, NEW r \in Relayed, CarryOut(h, r)
  PROVE  IInv'
<1>1. r \in Requests /\ effects[r] = 0 /\ r \in Hands(h)
  BY DEF IInv, HandsFollowRow, CarryOut, Hands, Requests
<1>2. \A g \in Hubs : Hands(g)' = Hands(g)
  BY DEF IInv, TypeOK, CarryOut, Hands
<1>3. TypeOK'
  BY <1>1 DEF IInv, TypeOK, CarryOut, rows, calls
<1>4. RowFollowsCall' /\ AnswerIsTheVerdict'
  BY DEF IInv, RowFollowsCall, AnswerIsTheVerdict, CarryOut, rows, calls
<1>5. HandsFollowRow'
  <2>1. \A g \in Hubs : g # h => r \notin Hands(g)
    BY <1>1 DEF IInv, CarriedOutOnce, Hands
  <2>2. QED BY <1>1, <1>2, <2>1 DEF IInv, TypeOK, HandsFollowRow, CarryOut, rows, calls, Hands
<1>6. CarriedOutOnce'
  BY <1>1, <1>2 DEF IInv, TypeOK, CarriedOutOnce, CarryOut, rows, calls, Hands
<1>7. QED BY <1>3, <1>4, <1>5, <1>6 DEF IInv

\* A verdict is recorded on a row that has none, and no hub has that row in hand afterwards.
LEMMA ResolveIInv ==
  ASSUME IInv, NEW r \in Requests, NEW v \in {"allow", "deny", "ok", "failed"},
         status[r] \in {"pending", "claimed"}, Resolve(r, v),
         TypeOK', UNCHANGED <<calls, effects>>,
         \A h \in Hubs : held'[h] \subseteq held[h] /\ carried'[h] \subseteq carried[h],
         \A h \in Hubs : r \notin held'[h] \cup carried'[h],
         v = "ok" => effects[r] = 1
  PROVE  IInv'
<1>1. /\ verdict[r] = Nothing /\ wins[r] = 0
      /\ step[r] \notin {"idle", "queued", "creating"}
  BY DEF IInv, RowFollowsCall, Untouched
<1>2. RowFollowsCall'
  BY <1>1, RequestsAssumption DEF IInv, TypeOK, RowFollowsCall, Resolve, calls, Untouched
<1>3. HandsFollowRow'
  BY DEF IInv, TypeOK, HandsFollowRow, Resolve, Hands
<1>4. AnswerIsTheVerdict'
  BY <1>1, RequestsAssumption DEF IInv, TypeOK, AnswerIsTheVerdict, Resolve, calls
<1>5. CarriedOutOnce'
  BY DEF IInv, CarriedOutOnce, calls
<1>6. QED BY <1>2, <1>3, <1>4, <1>5 DEF IInv

\* Hands that are emptied, and rows that are left alone.
LEMMA DropIInv ==
  ASSUME IInv, TypeOK', UNCHANGED <<rows, calls, effects, wins>>,
         \A h \in Hubs : held'[h] \subseteq held[h] /\ carried'[h] \subseteq carried[h]
  PROVE  IInv'
  BY DEF IInv, RowFollowsCall, HandsFollowRow, AnswerIsTheVerdict, CarriedOutOnce, Hands,
         Untouched, rows, calls

LEMMA CompleteIInv ==
  ASSUME IInv, NEW h \in Hubs, NEW r \in Relayed, Complete(h, r)
  PROVE  IInv'
<1>1. r \in Requests /\ (r \in carried[h] => effects[r] = 1)
  BY DEF IInv, HandsFollowRow, Requests
<1>2. \A g \in Hubs : held'[g] \subseteq held[g] /\ carried'[g] \subseteq carried[g]
  BY DEF IInv, TypeOK, Complete
<1>3. TypeOK'
  BY <1>1 DEF IInv, TypeOK, Complete, CompleteRow, Resolve, rows, calls
<1>4. CASE CompleteRow(r, IF r \in carried[h] THEN "ok" ELSE "failed")
  <2>1. \A g \in Hubs : r \notin held'[g] \cup carried'[g]
    BY DEF IInv, TypeOK, CarriedOutOnce, Complete
  <2>2. QED BY <1>1, <1>2, <1>3, <1>4, <2>1, ResolveIInv DEF Complete, CompleteRow
<1>5. CASE UNCHANGED <<rows, wins>>
  BY <1>2, <1>3, <1>5, DropIInv DEF Complete
<1>6. QED BY <1>4, <1>5 DEF Complete

LEMMA HubStepIInv ==
  ASSUME IInv, NEW h \in Hubs, HubStep(h)
  PROVE  IInv'
<1>1. CASE HubDies(h)
  <2>1. TypeOK'
    BY <1>1 DEF IInv, TypeOK, HubDies, rows, calls
  <2>2. QED BY <1>1, <2>1, DropIInv DEF IInv, TypeOK, HubDies
<1>2. CASE \E r \in Relayed : CompleteTeamsSend(h, r) \/ CompleteSessionOp(h, r)
  BY <1>2, CompleteIInv DEF CompleteTeamsSend, CompleteSessionOp
<1>3. QED BY <1>1, <1>2, DrainIInv, CarryOutIInv DEF HubStep

LEMMA ApproveToolIInv ==
  ASSUME IInv, NEW r \in Requests, NEW v \in {"allow", "deny"}, ApproveTool(r, v)
  PROVE  IInv'
<1>1. TypeOK'
  BY DEF IInv, TypeOK, ApproveTool, DecideApproval, Resolve, calls
<1>2. \A h \in Hubs : r \notin held'[h] \cup carried'[h]
  BY RequestsAssumption DEF IInv, TypeOK, ApproveTool
<1>3. QED BY <1>1, <1>2, ResolveIInv DEF ApproveTool, DecideApproval

\* Only a row without a verdict is marked failed.
LEMMA SweepIInv ==
  ASSUME IInv, NEW r \in Requests, Sweep(r)
  PROVE  IInv'
<1>1. TypeOK'
  BY DEF IInv, TypeOK, Sweep, hub, calls
<1>2. RowFollowsCall'
  BY RequestsAssumption DEF IInv, TypeOK, RowFollowsCall, Sweep, hub, calls, Untouched
<1>3. HandsFollowRow'
  BY DEF IInv, TypeOK, HandsFollowRow, Sweep, hub, Hands
<1>4. AnswerIsTheVerdict'
  BY RequestsAssumption DEF IInv, TypeOK, AnswerIsTheVerdict, Sweep, hub, calls
<1>5. CarriedOutOnce'
  BY DEF IInv, CarriedOutOnce, Sweep, hub, calls
<1>6. QED BY <1>1, <1>2, <1>3, <1>4, <1>5 DEF IInv

LEMMA NextIInv == IInv /\ [Next]_vars => IInv'
<1> SUFFICES ASSUME IInv, [Next]_vars PROVE IInv'
  OBVIOUS
<1>1. CASE UNCHANGED vars
  BY <1>1
  DEF IInv, TypeOK, RowFollowsCall, HandsFollowRow, AnswerIsTheVerdict, CarriedOutOnce, Hands,
      vars, rows, calls, hub
<1>2. CASE Next
  BY <1>2, WaitingIInv, RequestIInv, CallFailsIInv, LauncherDiesIInv, HubStepIInv,
     ApproveToolIInv, SweepIInv
  DEF Next
<1>3. QED BY <1>1, <1>2

\* The inductive invariant, which ties each row to the call that waits for it and each effect
\* to the one hub that won the row, holds in every reachable state.
THEOREM Invariance == Spec => []IInv
  BY InitIInv, NextIInv, PTL DEF Spec

(* A tool is allowed or denied only on the decision recorded for that very request, and one *)
(* verdict at most is recorded: decide_approval, complete_teams_send, complete_session_op.  *)
THEOREM AnswersAreVerdicts == Spec => []AnswerIsTheVerdict
  BY Invariance, PTL DEF IInv

(* However many hubs drain the tables and whichever of them dies, no request is in two *)
(* hands and none is carried out twice (list_pending_teams_sends' claim, FMC-12).      *)
THEOREM NoneIsCarriedOutTwice == Spec => []CarriedOutOnce
  BY Invariance, PTL DEF IInv

-----------------------------------------------------------------------------
(* Requests implements RequestLifecycle *)

LEMMA LifecycleInit == Init => Lifecycle!Init
  BY DEF Init, Lifecycle!Init, Stage

\* One row changes, and with it the stage of one request.
LEMMA StageChanges ==
  ASSUME TypeOK, NEW r \in Requests,
         NEW s \in {"absent", "pending", "claimed", "done", "swept"},
         status' = [status EXCEPT ![r] = s]
  PROVE  [q \in Requests |-> Stage(status[q])]'
           = [[q \in Requests |-> Stage(status[q])] EXCEPT ![r] = Stage(s)]
<1>1. ASSUME NEW q \in Requests
      PROVE  Stage(status'[q]) = IF q = r THEN Stage(s) ELSE Stage(status[q])
  BY DEF TypeOK
<1>2. QED BY <1>1

\* No hub carries anything out.
LEMMA DoneStays ==
  ASSUME UNCHANGED effects
  PROVE  [r \in Requests |-> effects[r] # 0]' = [r \in Requests |-> effects[r] # 0]
  OBVIOUS

\* Requesters are told what claims no verdict, if they are told anything, and one at most
\* inserts its row.
LEMMA EvasionIsGiveUp ==
  ASSUME TypeOK, answer' = [r \in Requests |-> answer'[r]], UNCHANGED <<verdict, effects>>,
         \A r \in Requests :
           \/ answer'[r] = answer[r]
           \/ answer[r] = Nothing /\ answer'[r] \in {Outcome(r).error, Outcome(r).timeout},
         \/ UNCHANGED status
         \/ \E r \in Requests : status[r] = "absent" /\ Insert(r)
  PROVE  Lifecycle!Next
<1>1. \/ UNCHANGED [r \in Requests |-> Stage(status[r])]
      \/ \E r \in Requests :
           /\ [q \in Requests |-> Stage(status[q])][r] = "new"
           /\ [q \in Requests |-> Stage(status[q])]'
                = [[q \in Requests |-> Stage(status[q])] EXCEPT ![r] = "open"]
  <2>1. CASE UNCHANGED status
    BY <2>1
  <2>2. ASSUME NEW r \in Requests, status[r] = "absent", Insert(r)
        PROVE  /\ [q \in Requests |-> Stage(status[q])][r] = "new"
               /\ [q \in Requests |-> Stage(status[q])]'
                    = [[q \in Requests |-> Stage(status[q])] EXCEPT ![r] = "open"]
    <3>1. [q \in Requests |-> Stage(status[q])]'
            = [[q \in Requests |-> Stage(status[q])] EXCEPT ![r] = Stage("pending")]
      BY <2>2, StageChanges DEF Insert
    <3>2. QED BY <2>2, <3>1 DEF Stage
  <2>3. QED BY <2>1, <2>2
<1>2. \A r \in Requests :
        \/ answer'[r] = answer[r]
        \/ /\ answer[r] = Nothing
           /\ answer'[r] \in
                [q \in Requests |-> {Outcome(q).error, Outcome(q).timeout}][r]
  OBVIOUS
<1>3. Lifecycle!GiveUp
  BY <1>1, <1>2, DoneStays DEF Lifecycle!GiveUp
<1>4. QED BY <1>3 DEF Lifecycle!Next

LEMMA WaitingStep ==
  ASSUME IInv, IInv', NEW r \in Requests,
         \/ Hook(r) \/ Await(r) \/ NotReady(r)
         \/ Request(r) \/ CallFails(r) \/ LauncherDies
  PROVE  Lifecycle!Next
<1>1. answer' = [q \in Requests |-> answer'[q]] /\ TypeOK
  BY DEF IInv, TypeOK
<1>2. CASE Hook(r) \/ LauncherDies
  <2>1. \A q \in Hooked : Outcome(q).error = "ask"
    BY RequestsAssumption DEF Outcome, RelayDecision, Approvals, Relayed
  <2>2. \A q \in Requests :
          \/ answer'[q] = answer[q]
          \/ answer[q] = Nothing /\ answer'[q] \in {Outcome(q).error, Outcome(q).timeout}
    BY <1>2, <2>1
    DEF IInv, TypeOK, Hook, Ask, HandleConnection, HookTimesOut, Goto, LauncherDies
  <2>3. UNCHANGED <<status, verdict, effects>>
    BY <1>2 DEF Hook, Ask, HandleConnection, HookTimesOut, LauncherDies, rows, hub
  <2>4. QED BY <1>1, <2>2, <2>3, EvasionIsGiveUp
<1>3. CASE Request(r) \/ CallFails(r)
  <2>1. /\ UNCHANGED <<verdict, effects>>
        /\ UNCHANGED status \/ (status[r] = "absent" /\ Insert(r))
    BY <1>3
    DEF IInv, RowFollowsCall, Request, RequestApproval, RequestTeamsSend, RequestSessionOp,
        CallFails, Create, CreateApproval, CreateTeamsSend, CreateSessionOp, Insert, rows, hub
  <2>2. \A q \in Requests :
          \/ answer'[q] = answer[q]
          \/ answer[q] = Nothing /\ answer'[q] \in {Outcome(q).error, Outcome(q).timeout}
    BY <1>3
    DEF IInv, TypeOK, Request, RequestApproval, RequestTeamsSend, RequestSessionOp, CallFails,
        Finish, Goto
  <2>3. QED BY <1>1, <2>1, <2>2, EvasionIsGiveUp
<1>4. CASE NotReady(r) \/ Expires(r)
  <2>1. \A q \in Requests :
          \/ answer'[q] = answer[q]
          \/ answer[q] = Nothing /\ answer'[q] \in {Outcome(q).error, Outcome(q).timeout}
    BY <1>4 DEF IInv, TypeOK, NotReady, Expires, Finish, Goto
  <2>2. UNCHANGED <<status, verdict, effects>>
    BY <1>4 DEF NotReady, Expires, rows, hub
  <2>3. QED BY <1>1, <2>1, <2>2, EvasionIsGiveUp
<1>5. CASE Ready(r)
  <2>1. UNCHANGED <<status, verdict, effects>>
    BY <1>5 DEF Ready, rows, hub
  <2>2. CASE answer[r] = Nothing
    <3>1. Lifecycle!Tell(r)
      BY <1>5, <2>1, <2>2, DoneStays DEF Ready, Finish, Lifecycle!Tell, Stage
    <3>2. QED BY <3>1 DEF Lifecycle!Next
  <2>3. CASE answer[r] # Nothing
    <3>1. \A q \in Requests : answer'[q] = answer[q]
      BY <1>5, <2>3 DEF IInv, TypeOK, Ready, Finish
    <3>2. QED BY <1>1, <2>1, <3>1, EvasionIsGiveUp
  <2>4. QED BY <2>2, <2>3
<1>6. QED
  BY <1>2, <1>3, <1>4, <1>5 DEF Await, AwaitDecision, AwaitTeamsSend, AwaitSessionOp

\* A drain takes every pending row of its table.
LEMMA DrainIsTake ==
  ASSUME IInv, NEW h \in Hubs,
         WaitForPendingTeamsSend(h) \/ WaitForPendingSessionOps(h)
  PROVE  Lifecycle!Next
<1>1. PICK T \in {TeamsSends, SessionOps} : Claim(T) /\ Hand(h, T)
  BY DEF WaitForPendingTeamsSend, WaitForPendingSessionOps, ListPendingTeamsSends,
         ListPendingSessionOps
<1>2. T \subseteq Relayed /\ Relayed \subseteq Requests
  BY DEF Relayed, Requests
<1>3. PICK S \in SUBSET Relayed : S = {r \in T : status[r] = "pending"}
  BY <1>2
<1>4. /\ status' = [r \in Requests |-> IF r \in S THEN "claimed" ELSE status[r]]
      /\ UNCHANGED <<verdict, answer, effects>>
  BY <1>1, <1>3 DEF Claim, Hand, calls
<1>5. [r \in Requests |-> Stage(status[r])]'
        = [r \in Requests |->
             IF r \in S THEN "taken" ELSE [q \in Requests |-> Stage(status[q])][r]]
  <2>1. ASSUME NEW r \in Requests
        PROVE  Stage(status'[r]) = IF r \in S THEN "taken" ELSE Stage(status[r])
    <3>1. status'[r] = IF r \in S THEN "claimed" ELSE status[r]
      BY <1>4
    <3>2. Stage("claimed") = "taken"
      BY DEF Stage
    <3>3. QED BY <3>1, <3>2
  <2>2. QED BY <2>1
<1>6. \A r \in S : [q \in Requests |-> Stage(status[q])][r] = "open"
  BY <1>2, <1>3 DEF Stage
<1>7. Lifecycle!Take(S)
  BY <1>4, <1>5, <1>6, DoneStays DEF Lifecycle!Take
<1>8. QED BY <1>7 DEF Lifecycle!Next

LEMMA CarryOutStep ==
  ASSUME IInv, NEW h \in Hubs, NEW r \in Relayed, CarryOut(h, r)
  PROVE  Lifecycle!Next
<1>1. /\ r \in Requests /\ status[r] \in {"claimed", "swept"} /\ effects[r] = 0
      /\ effects' = [effects EXCEPT ![r] = @ + 1] /\ effects \in [Requests -> Nat]
      /\ UNCHANGED <<status, verdict, answer>>
  BY DEF IInv, TypeOK, HandsFollowRow, Hands, CarryOut, Requests, rows, calls
<1>2. [q \in Requests |-> effects[q] # 0]'
        = [[q \in Requests |-> effects[q] # 0] EXCEPT ![r] = TRUE]
  <2>1. ASSUME NEW q \in Requests
        PROVE  (effects'[q] # 0) <=> q = r \/ effects[q] # 0
    <3>1. effects'[q] = IF q = r THEN 1 ELSE effects[q]
      BY <1>1
    <3>2. QED BY <3>1
  <2>2. QED BY <1>1, <2>1
<1>3. [q \in Requests |-> Stage(status[q])][r] \in {"taken", "forgotten"}
  BY <1>1 DEF Stage
<1>4. [q \in Requests |-> effects[q] # 0][r] = FALSE
  BY <1>1
<1>5. Lifecycle!CarryOut(r)
  BY <1>1, <1>2, <1>3, <1>4 DEF Lifecycle!CarryOut
<1>6. QED BY <1>1, <1>5 DEF Lifecycle!Next

\* A verdict is recorded on an approval that waits, or by the hub that took the request.
LEMMA ResolveIsClose ==
  ASSUME IInv, NEW r \in Requests, NEW v \in {"allow", "deny", "ok", "failed"},
         Resolve(r, v), UNCHANGED <<answer, effects>>,
         \/ r \notin Relayed /\ status[r] = "pending" /\ v \in {"allow", "deny"}
         \/ /\ r \in Relayed /\ status[r] = "claimed"
            /\ v = "failed" \/ (v = "ok" /\ effects[r] = 1)
  PROVE  Lifecycle!Next
<1>1. [q \in Requests |-> Stage(status[q])]'
        = [[q \in Requests |-> Stage(status[q])] EXCEPT ![r] = "closed"]
  <2>1. [q \in Requests |-> Stage(status[q])]'
          = [[q \in Requests |-> Stage(status[q])] EXCEPT ![r] = Stage("done")]
    BY StageChanges DEF IInv, Resolve
  <2>2. QED BY <2>1 DEF Stage
<1>2. [q \in Requests |-> Stage(status[q])][r]
        = IF r \in Relayed THEN "taken" ELSE "open"
  BY DEF Stage
<1>3. ASSUME v = "ok"
      PROVE  [q \in Requests |-> effects[q] # 0][r] = TRUE
  <2>1. effects[r] # 0
    BY <1>3
  <2>2. QED BY <2>1
<1>4. Lifecycle!Close(r, v)
  BY <1>1, <1>2, <1>3, DoneStays DEF Resolve, Lifecycle!Close
<1>5. QED BY <1>4 DEF Lifecycle!Next

LEMMA CompleteStep ==
  ASSUME IInv, NEW h \in Hubs, NEW r \in Relayed, Complete(h, r)
  PROVE  Lifecycle!Next \/ UNCHANGED Lifecycle!vars
<1>1. /\ r \in Requests /\ status[r] \in {"claimed", "swept"}
      /\ r \in carried[h] => effects[r] = 1
      /\ UNCHANGED <<answer, effects>>
  BY DEF IInv, HandsFollowRow, Hands, Complete, Requests, calls
<1>2. CASE CompleteRow(r, IF r \in carried[h] THEN "ok" ELSE "failed")
  <2>1. PICK v \in {"ok", "failed"} : v = IF r \in carried[h] THEN "ok" ELSE "failed"
    OBVIOUS
  <2>2. QED BY <1>1, <1>2, <2>1, ResolveIsClose DEF CompleteRow
<1>3. CASE UNCHANGED rows
  BY <1>1, <1>3 DEF rows, Lifecycle!vars
<1>4. QED BY <1>2, <1>3 DEF Complete

LEMMA ApproveToolStep ==
  ASSUME IInv, NEW r \in Requests, NEW v \in {"allow", "deny"}, ApproveTool(r, v)
  PROVE  Lifecycle!Next
<1>1. r \notin Relayed /\ status[r] = "pending" /\ Resolve(r, v) /\ UNCHANGED <<answer, effects>>
  BY RequestsAssumption DEF ApproveTool, DecideApproval, calls
<1>2. QED BY <1>1, ResolveIsClose

LEMMA SweepIsForget ==
  ASSUME IInv, NEW r \in Requests, Sweep(r)
  PROVE  Lifecycle!Next
<1>1. /\ r \in Relayed => status[r] \in {"pending", "claimed", "done"}
      /\ r \notin Relayed => status[r] = "done"
      /\ UNCHANGED <<answer, effects>>
  BY RequestsAssumption DEF Sweep, Requests, calls, hub
<1>2. (status[r] = "done") = (verdict[r] # Nothing)
  BY <1>1 DEF IInv, TypeOK, RowFollowsCall, Untouched
<1>3. [q \in Requests |-> Stage(status[q])]'
        = [[q \in Requests |-> Stage(status[q])] EXCEPT ![r] = "forgotten"]
  <2>1. [q \in Requests |-> Stage(status[q])]'
          = [[q \in Requests |-> Stage(status[q])] EXCEPT ![r] = Stage("swept")]
    BY StageChanges DEF IInv, Sweep
  <2>2. QED BY <2>1 DEF Stage
<1>4. Stage(status[r]) = "closed" <=> status[r] = "done"
  BY <1>1 DEF Stage
<1>5. verdict' = [verdict EXCEPT ![r] =
                    IF [q \in Requests |-> Stage(status[q])][r] = "closed" THEN @ ELSE "failed"]
  BY <1>2, <1>4 DEF IInv, TypeOK, Sweep
<1>6. [q \in Requests |-> Stage(status[q])][r]
        \in IF r \in Relayed THEN {"open", "taken", "closed"} ELSE {"closed"}
  BY <1>1 DEF Stage
<1>7. Lifecycle!Forget(r)
  BY <1>1, <1>3, <1>5, <1>6, DoneStays DEF Lifecycle!Forget
<1>8. QED BY <1>7 DEF Lifecycle!Next

LEMMA LifecycleStep == IInv /\ [Next]_vars => [Lifecycle!Next]_(Lifecycle!vars)
<1> SUFFICES ASSUME IInv, [Next]_vars
             PROVE  Lifecycle!Next \/ UNCHANGED Lifecycle!vars
  OBVIOUS
<1>1. IInv'
  BY NextIInv
<1>2. CASE UNCHANGED vars
  BY <1>2 DEF vars, rows, calls, hub, Lifecycle!vars
<1>3. CASE \E r \in Requests :
             \/ Hook(r) \/ Await(r) \/ NotReady(r) \/ Request(r) \/ CallFails(r)
             \/ LauncherDies
  BY <1>1, <1>3, WaitingStep
<1>4. CASE LauncherDies
  BY <1>3, <1>4 DEF LauncherDies, Requests, Approvals
<1>5. ASSUME NEW h \in Hubs, HubStep(h)
      PROVE  Lifecycle!Next \/ UNCHANGED Lifecycle!vars
  <2>1. CASE HubDies(h)
    BY <2>1 DEF HubDies, rows, calls, Lifecycle!vars
  <2>2. CASE \E r \in Relayed : CompleteTeamsSend(h, r) \/ CompleteSessionOp(h, r)
    BY <2>2, CompleteStep DEF CompleteTeamsSend, CompleteSessionOp
  <2>3. QED BY <1>5, <2>1, <2>2, DrainIsTake, CarryOutStep DEF HubStep
<1>6. QED
  BY <1>2, <1>3, <1>4, <1>5, ApproveToolStep, SweepIsForget DEF Next

(* The three tables, the tools over them and those who wait do what RequestLifecycle       *)
(* promises: one verdict, the first; its requester is told that one or what claims none;   *)
(* and what is to be carried out is so once at most, and before anybody is told it was.    *)
THEOREM Implementation == Spec => ImplementsLifecycle
  BY LifecycleInit, LifecycleStep, Invariance, PTL
  DEF Spec, ImplementsLifecycle, Lifecycle!Spec
=============================================================================

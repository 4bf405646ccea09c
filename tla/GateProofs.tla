------------------------------ MODULE GateProofs ------------------------------
(***************************************************************************)
(* Proofs about the permission gate of a turn, for any policy rows and     *)
(* calls, any ceiling and any failures: no call goes round the gate, a     *)
(* call whose policy hook was skipped is counted, and what a question's    *)
(* ask and answer heard agrees with its row.                               *)
(***************************************************************************)
EXTENDS Gate, FiniteSetTheorems, SequenceTheorems, WellFoundedInduction, TLAPS

Steps == {"queued", "guard", "permission", "asking"} \cup Settled

CallStates ==
  [call : lane.calls, step : Steps, dispatched : BOOLEAN, found : Found \cup {""},
   outcome : Outcomes \cup {""}, checked : BOOLEAN]

QuestionRows ==
  [state  : {"pending", "answered", "timed_out", "dismissed"},
   ask    : {"parked", "waiting", "woken", "expired", "over"},
   heard  : {"nothing", "failure", "timeout", "answer"},
   answer : {"none", "won", "told", "lost"}]

\* The values of the state.
TypeOK ==
  /\ lane \in Lanes
  /\ turn \in {"queued", "running"} \cup Over
  /\ attempt \in 0..2
  /\ calls \in Seq(CallStates)
  /\ hookCalls \in [total : Nat, asked : Nat]
  /\ report \in {"none", "due", "made", "lost"}
  /\ gap \in BOOLEAN
  /\ questions \in Seq(QuestionRows)
  /\ reboots \in Nat

\* How far a call is says what has been decided about it: the hook comes before its guard and
\* before the permission, and what was skipped there is still to be checked.
CallOK(c) ==
  /\ c.step \in {"queued", "asking"} => ~c.dispatched
  /\ c.step \notin Settled => ~c.checked
  /\ c.step = "asking" => c.call.tool = AskUserQuestion
  /\ c.call.tool = AskUserQuestion =>
       c.step \in {"queued", "asking", "rejected", "answered", "stopped", "errored"}
  /\ c.step = "guard" => c.dispatched /\ ~Denied(c.call) /\ Script(c.call.tool) # ""
  /\ c.step \in {"permission", "ran"} =>
       /\ c.dispatched \/ c.checked => ~Denied(c.call)
       /\ c.dispatched /\ Script(c.call.tool) # "" => Lets(c)
       /\ ~c.dispatched => "undispatched" \in lane.faults
  /\ c.step = "denied" /\ "raise" \notin lane.faults =>
       Denied(c.call) \/ (Script(c.call.tool) # "" /\ ~Lets(c))

CallsInv == \A n \in DOMAIN calls : CallOK(calls[n])

\* The dispatches that are not for a question are those of the calls that are none.
Judged == {n \in DOMAIN calls : ~IsQuestion(n) /\ calls[n].dispatched}
CountInv == hookCalls.total = hookCalls.asked + Cardinality(Judged)

\* A row is answered from the compare-and-swap on, before its waiter is woken.
RowOK(r) ==
  /\ r.ask = "woken" => r.state = "answered"
  /\ r.answer \in {"won", "told"} => r.state = "answered"
  /\ r.heard = "answer" => r.state = "answered"
  /\ r.heard = "timeout" => r.state # "pending"

RowsInv == \A q \in DOMAIN questions : RowOK(questions[q])

IInv ==
  /\ TypeOK
  /\ CallsInv
  /\ CountInv
  /\ GapIsReported
  /\ RowsInv

LEMMA InitIInv == Init => IInv
<1> SUFFICES ASSUME Init PROVE IInv
  OBVIOUS
<1>1. Judged = {}
  BY DEF Init, Judged
<1>2. CountInv
  BY <1>1, FS_EmptySet DEF Init, CountInv
<1>3. TypeOK
  <2>1. gap \in BOOLEAN
    BY DEF Init
  <2>2. QED BY <2>1 DEF Init, TypeOK
<1>4. CallsInv /\ GapIsReported /\ RowsInv
  BY DEF Init, CallsInv, GapIsReported, RowsInv, Over
<1>5. QED BY <1>2, <1>3, <1>4 DEF IInv

\* No turn that goes on has reported anything, and a step of it changes nothing of its report.
LEMMA NotYetReported ==
  ASSUME IInv, turn \notin Over
  PROVE  report = "none" /\ ~gap
<1>1. report = "none"
  BY DEF IInv, GapIsReported, Over
<1>2. QED BY <1>1 DEF IInv, GapIsReported

LEMMA LeastExists ==
  ASSUME NEW S, S \subseteq Nat, S # {}
  PROVE  \E n \in S : \A m \in S : n <= m
<1> DEFINE R == OpToRel(<, Nat)
<1>1. \E x \in S : \A y \in S : ~(<<y, x>> \in R)
  <2>1. IsWellFoundedOn(R, Nat)
    BY NatLessThanWellFounded
  <2> HIDE DEF R
  <2>2. QED BY <2>1, WFMin
<1>2. \A x, y \in Nat : y < x => <<y, x>> \in R
  BY DEF OpToRel
<1> HIDE DEF R
<1>3. PICK x \in S : \A y \in S : ~(<<y, x>> \in R)
  BY <1>1
<1>4. \A m \in S : x <= m
  <2> SUFFICES ASSUME NEW m \in S PROVE x <= m
    OBVIOUS
  <2>1. ~(m < x)
    BY <1>2, <1>3
  <2>2. QED BY <2>1
<1>5. QED BY <1>4

\* The call the CLI is at is one that is not settled, and there is one unless all are.
LEMMA AtIsOpen ==
  ASSUME TypeOK
  PROVE  /\ At # 0 => At \in DOMAIN calls /\ calls[At].step \notin Settled
         /\ At = 0 => \A n \in DOMAIN calls : calls[n].step \in Settled
<1> DEFINE open == {n \in DOMAIN calls : calls[n].step \notin Settled}
<1>1. open \subseteq Nat \ {0}
  BY DEF TypeOK
<1>2. CASE open = {}
  BY <1>2 DEF At
<1>3. CASE open # {}
  <2>1. \E n \in open : \A m \in open : n <= m
    BY <1>1, <1>3, LeastExists
  <2>2. At \in open
    BY <1>3, <2>1 DEF At
  <2>3. QED BY <1>1, <2>2
<1>4. QED BY <1>2, <1>3

\* The calls are finitely many.
LEMMA JudgedIsFinite ==
  ASSUME TypeOK
  PROVE  /\ IsFiniteSet(DOMAIN calls) /\ IsFiniteSet(Judged)
         /\ Cardinality(Judged) \in Nat
<1>1. IsFiniteSet(DOMAIN calls)
  BY FS_Interval DEF TypeOK
<1>2. IsFiniteSet(Judged)
  BY <1>1, FS_Subset DEF Judged
<1>3. QED BY <1>1, <1>2, FS_CardinalityType

\* One call goes on, as whatever it has become.
CallMoves(n, c) ==
  /\ DOMAIN calls' = DOMAIN calls
  /\ calls'[n] = c
  /\ \A m \in DOMAIN calls : m # n => calls'[m] = calls[m]

LEMMA MoveCall ==
  ASSUME TypeOK, NEW n \in DOMAIN calls, NEW c \in CallStates,
         calls' = [calls EXCEPT ![n] = c], lane' = lane
  PROVE  calls' \in Seq(CallStates)' /\ CallMoves(n, c)
<1>1. calls' \in Seq(CallStates) /\ CallMoves(n, c)
  BY DEF TypeOK, CallMoves
<1>2. QED BY <1>1 DEF CallStates

\* A step of the call the CLI is at: it stays the same call, and counts if it is judged now.
LEMMA CallIInv ==
  ASSUME IInv, turn = "running", NEW n \in DOMAIN calls, NEW c \in CallStates,
         calls' = [calls EXCEPT ![n] = c], c.call = calls[n].call, CallOK(c),
         UNCHANGED <<lane, turn, attempt, report, gap, questions, reboots>>,
         \/ c.dispatched = calls[n].dispatched /\ hookCalls' = hookCalls
         \/ /\ ~calls[n].dispatched /\ c.dispatched
            /\ hookCalls' = [hookCalls EXCEPT !.total = @ + 1]
            /\ c.call.tool # AskUserQuestion
         \/ hookCalls' = CountQuestion(hookCalls) /\ c.call.tool = AskUserQuestion
  PROVE  IInv'
<1>1. calls' \in Seq(CallStates)' /\ CallMoves(n, c)
  BY MoveCall DEF IInv
<1>2. TypeOK'
  BY <1>1 DEF IInv, TypeOK, CountQuestion
<1>3. CallsInv'
  <2> SUFFICES ASSUME NEW m \in DOMAIN calls PROVE CallOK(calls[m])'
    BY <1>1 DEF CallsInv, CallMoves
  <2>1. PICK d : calls'[m] = d /\ CallOK(d)
    BY <1>1 DEF IInv, CallsInv, CallMoves
  <2>2. QED BY <2>1 DEF CallOK, Denied, Script, Policy, Lets
<1>4. CountInv'
  <2>1. /\ hookCalls.total \in Nat /\ hookCalls.asked \in Nat
        /\ IsFiniteSet(Judged) /\ Cardinality(Judged) \in Nat
        /\ hookCalls.total = hookCalls.asked + Cardinality(Judged)
    BY JudgedIsFinite DEF IInv, TypeOK, CountInv
  <2>2. CASE c.dispatched = calls[n].dispatched /\ hookCalls' = hookCalls
    <3>1. Judged' = Judged
      BY <1>1, <2>2 DEF Judged, IsQuestion, CallMoves
    <3>2. QED BY <2>1, <2>2, <3>1 DEF CountInv
  <2>3. CASE /\ ~calls[n].dispatched /\ c.dispatched
             /\ hookCalls' = [hookCalls EXCEPT !.total = @ + 1]
             /\ c.call.tool # AskUserQuestion
    <3>1. Judged' = Judged \cup {n} /\ n \notin Judged
      BY <1>1, <2>3 DEF Judged, IsQuestion, CallMoves
    <3>2. Cardinality(Judged') = Cardinality(Judged) + 1
      BY <2>1, <3>1, FS_AddElement
    <3>3. hookCalls'.total = hookCalls.total + 1 /\ hookCalls'.asked = hookCalls.asked
      BY <2>3 DEF IInv, TypeOK
    <3>4. QED BY <2>1, <3>2, <3>3 DEF CountInv
  <2>4. CASE hookCalls' = CountQuestion(hookCalls) /\ c.call.tool = AskUserQuestion
    <3>1. Judged' = Judged
      BY <1>1, <2>4 DEF Judged, IsQuestion, CallMoves
    <3>2. hookCalls'.total = hookCalls.total + 1 /\ hookCalls'.asked = hookCalls.asked + 1
      BY <2>4 DEF CountQuestion
    <3>3. QED BY <2>1, <3>1, <3>2 DEF CountInv
  <2>5. QED BY <2>2, <2>3, <2>4
<1>5. GapIsReported' /\ RowsInv'
  BY DEF IInv, GapIsReported, RowsInv
<1>6. QED BY <1>2, <1>3, <1>4, <1>5 DEF IInv

\* What the call the CLI is at may become.
LEMMA CurrentCall ==
  ASSUME IInv, At # 0
  PROVE  /\ At \in DOMAIN calls /\ calls[At] \in CallStates /\ CallOK(calls[At])
         /\ calls[At].step \notin Settled /\ ~calls[At].checked
<1>1. At \in DOMAIN calls /\ calls[At].step \notin Settled
  BY AtIsOpen DEF IInv
<1>2. calls[At] \in CallStates
  BY <1>1 DEF IInv, TypeOK
<1>3. QED BY <1>1, <1>2 DEF IInv, CallsInv, CallOK

\* The CLI settles a call by itself, or takes it past the hook it does not dispatch.
LEMMA CliIInv ==
  ASSUME IInv, Reject \/ Undispatched \/ AutoApprove
  PROVE  IInv'
<1>1. PICK s \in {"rejected", "permission", "ran"} :
        /\ SetCall(At, s) /\ OnlyCalls
        /\ Streaming /\ At # 0
        /\ s = "rejected" => calls[At].step = "queued"
        /\ s = "permission" =>
             "undispatched" \in lane.faults /\ calls[At].step = "queued" /\ ~IsQuestion(At)
        /\ s = "ran" => calls[At].step = "permission"
  BY DEF Reject, Undispatched, AutoApprove
<1> DEFINE c == [calls[At] EXCEPT !.step = s]
<1>2. /\ At \in DOMAIN calls /\ calls[At] \in CallStates /\ CallOK(calls[At])
      /\ ~calls[At].checked
  BY <1>1, CurrentCall
<1>3. c \in CallStates
  BY <1>2 DEF CallStates, Steps, Settled
<1>4. c.call = calls[At].call /\ c.dispatched = calls[At].dispatched
  BY <1>2 DEF CallStates
<1>5. /\ c.step = s /\ c.checked = calls[At].checked
      /\ c.found = calls[At].found /\ c.outcome = calls[At].outcome
  BY <1>2 DEF CallStates
<1>6. calls' = [calls EXCEPT ![At] = c]
  BY <1>1 DEF SetCall
<1> HIDE DEF c
<1>7. CallOK(c)
  BY <1>1, <1>2, <1>4, <1>5 DEF CallOK, Lets, IsQuestion, Settled
<1>8. QED BY <1>1, <1>2, <1>3, <1>4, <1>6, <1>7, CallIInv DEF OnlyCalls, Streaming

\* The hook denies what the ceiling or the pin denies, and sends the rest on.
LEMMA PolicyHookIInv ==
  ASSUME IInv, PolicyHook
  PROVE  IInv'
<1>1. /\ Streaming /\ At # 0 /\ calls[At].step = "queued" /\ ~IsQuestion(At)
      /\ hookCalls' = [hookCalls EXCEPT !.total = @ + 1]
      /\ UNCHANGED <<lane, turn, attempt, report, gap, questions, reboots>>
  BY DEF PolicyHook
<1>2. /\ At \in DOMAIN calls /\ calls[At] \in CallStates /\ CallOK(calls[At])
      /\ ~calls[At].checked
  BY <1>1, CurrentCall
<1>3. PICK s \in {"denied", "guard", "permission"} :
        /\ calls' = [calls EXCEPT ![At].dispatched = TRUE, ![At].step = s]
        /\ s = "denied" => Denied(calls[At].call) \/ "raise" \in lane.faults
        /\ s # "denied" => ~Denied(calls[At].call)
        /\ s = "guard" => Script(calls[At].call.tool) # ""
        /\ s = "permission" => Script(calls[At].call.tool) = ""
  BY DEF PolicyHook, AfterChecks, AfterDenial
<1> DEFINE c == [calls[At] EXCEPT !.dispatched = TRUE, !.step = s]
<1>4. c \in CallStates
  BY <1>2 DEF CallStates, Steps, Settled
<1>5. c.call = calls[At].call /\ c.dispatched /\ c.step = s /\ c.checked = calls[At].checked
  BY <1>2 DEF CallStates
<1>6. calls' = [calls EXCEPT ![At] = c]
  BY <1>2, <1>3 DEF IInv, TypeOK
<1> HIDE DEF c
<1>7. CallOK(c)
  BY <1>1, <1>2, <1>3, <1>5 DEF CallOK, IsQuestion, Settled
<1>8. ~calls[At].dispatched
  BY <1>1, <1>2 DEF CallOK
<1>9. QED
  BY <1>1, <1>2, <1>4, <1>5, <1>6, <1>7, <1>8, CallIInv DEF Streaming, IsQuestion

\* The guard lets the call pass or denies it, as its script was found and behaved.
LEMMA GuardIInv ==
  ASSUME IInv, Guard
  PROVE  IInv'
<1>1. Streaming /\ At # 0 /\ calls[At].step = "guard" /\ OnlyCalls
  BY DEF Guard
<1>2. /\ At \in DOMAIN calls /\ calls[At] \in CallStates /\ CallOK(calls[At])
      /\ ~calls[At].checked
  BY <1>1, CurrentCall
<1>3. PICK found \in Found, outcome \in Outcomes, s \in {"permission", "denied"} :
        /\ calls' = [calls EXCEPT ![At].found = found, ![At].outcome = outcome, ![At].step = s]
        /\ s = "permission" <=>
             RunGuard(Script(calls[At].call.tool), found, outcome) \in Passing
  BY DEF Guard, AfterDenial
<1> DEFINE c == [calls[At] EXCEPT !.found = found, !.outcome = outcome, !.step = s]
<1>4. c \in CallStates
  BY <1>2 DEF CallStates, Steps, Settled
<1>5. /\ c.call = calls[At].call /\ c.dispatched = calls[At].dispatched /\ c.step = s
      /\ c.checked = calls[At].checked /\ c.found = found /\ c.outcome = outcome
  BY <1>2 DEF CallStates
<1>6. calls' = [calls EXCEPT ![At] = c]
  BY <1>2, <1>3 DEF IInv, TypeOK
<1> HIDE DEF c
<1>7. Lets(c) <=> s = "permission"
  BY <1>3, <1>5 DEF Lets
<1>8. CallOK(c)
  BY <1>1, <1>2, <1>5, <1>7 DEF CallOK, Settled
<1>9. QED
  BY <1>1, <1>2, <1>4, <1>5, <1>6, <1>8, CallIInv DEF Streaming, OnlyCalls

\* The two pure checks again, whether the hook has made them or was skipped.
LEMMA CanUseToolIInv ==
  ASSUME IInv, CanUseTool
  PROVE  IInv'
<1>1. Streaming /\ At # 0 /\ calls[At].step = "permission" /\ ~IsQuestion(At) /\ OnlyCalls
  BY DEF CanUseTool
<1>2. At \in DOMAIN calls /\ calls[At] \in CallStates /\ CallOK(calls[At])
  BY <1>1, CurrentCall
<1>3. PICK s \in {"denied", "ran"} :
        /\ calls' = [calls EXCEPT ![At].checked = TRUE, ![At].step = s]
        /\ s = "denied" <=> Denied(calls[At].call)
  BY DEF CanUseTool
<1> DEFINE c == [calls[At] EXCEPT !.checked = TRUE, !.step = s]
<1>4. c \in CallStates
  BY <1>2 DEF CallStates, Steps, Settled
<1>5. /\ c.call = calls[At].call /\ c.dispatched = calls[At].dispatched /\ c.step = s
      /\ c.checked /\ c.found = calls[At].found /\ c.outcome = calls[At].outcome
  BY <1>2 DEF CallStates
<1>6. calls' = [calls EXCEPT ![At] = c]
  BY <1>2, <1>3 DEF IInv, TypeOK
<1> HIDE DEF c
<1>7. CallOK(c)
  BY <1>1, <1>2, <1>3, <1>5 DEF CallOK, Lets, IsQuestion, Settled
<1>8. QED
  BY <1>1, <1>2, <1>4, <1>5, <1>6, <1>7, CallIInv DEF Streaming, OnlyCalls

\* What the ask of a question heard settles its call, and its dispatch is counted apart.
LEMMA AskedIInv ==
  ASSUME IInv, Asked
  PROVE  IInv'
<1>1. /\ Streaming /\ At # 0 /\ calls[At].step = "asking"
      /\ hookCalls' = CountQuestion(hookCalls)
      /\ UNCHANGED <<lane, turn, attempt, report, gap, questions, reboots>>
  BY DEF Asked
<1>2. /\ At \in DOMAIN calls /\ calls[At] \in CallStates /\ CallOK(calls[At])
      /\ ~calls[At].checked
  BY <1>1, CurrentCall
<1>3. PICK s \in {"answered", "stopped", "errored"} :
        calls' = [calls EXCEPT ![At].dispatched = TRUE, ![At].step = s]
  BY DEF Asked, AfterQuestion
<1> DEFINE c == [calls[At] EXCEPT !.dispatched = TRUE, !.step = s]
<1>4. c \in CallStates
  BY <1>2 DEF CallStates, Steps, Settled
<1>5. c.call = calls[At].call /\ c.step = s
  BY <1>2 DEF CallStates
<1>6. calls' = [calls EXCEPT ![At] = c]
  BY <1>2, <1>3 DEF IInv, TypeOK
<1> HIDE DEF c
<1>7. c.call.tool = AskUserQuestion
  BY <1>1, <1>2, <1>5 DEF CallOK
<1>8. CallOK(c)
  BY <1>5, <1>7 DEF CallOK, Settled
<1>9. QED BY <1>1, <1>2, <1>4, <1>5, <1>6, <1>7, <1>8, CallIInv DEF Streaming

\* An observed call has been judged by nobody.
LEMMA ObserveIInv ==
  ASSUME IInv, Observe
  PROVE  IInv'
<1>1. PICK call \in lane.calls : calls' = Append(calls, Observed(call))
  BY DEF Observe
<1>2. /\ turn = "running"
      /\ UNCHANGED <<lane, turn, attempt, hookCalls, report, gap, questions, reboots>>
  BY DEF Observe, Streaming
<1>3. Observed(call) \in CallStates /\ CallOK(Observed(call))
  BY DEF Observed, CallStates, Steps, Found, Outcomes, CallOK, Settled
<1>4. /\ DOMAIN calls' = DOMAIN calls \cup {Len(calls) + 1} /\ Len(calls) + 1 \notin DOMAIN calls
      /\ calls'[Len(calls) + 1] = Observed(call)
      /\ \A n \in DOMAIN calls : calls'[n] = calls[n]
      /\ calls' \in Seq(CallStates)
  BY <1>1, <1>3 DEF IInv, TypeOK
<1>5. TypeOK'
  BY <1>2, <1>4 DEF IInv, TypeOK, CallStates
<1>6. CallsInv'
  <2> SUFFICES ASSUME NEW m \in DOMAIN calls' PROVE CallOK(calls[m])'
    BY DEF CallsInv
  <2>1. PICK d : calls'[m] = d /\ CallOK(d)
    BY <1>3, <1>4 DEF IInv, CallsInv
  <2>2. QED BY <1>2, <2>1 DEF CallOK, Denied, Script, Policy, Lets
<1>7. CountInv'
  <2>1. Observed(call).dispatched = FALSE
    BY DEF Observed
  <2>2. Judged' = Judged
    BY <1>4, <2>1 DEF Judged, IsQuestion
  <2>3. QED BY <1>2, <2>2 DEF IInv, CountInv
<1>8. GapIsReported' /\ RowsInv'
  <2>1. report = "none" /\ ~gap
    BY <1>2, NotYetReported DEF Over
  <2>2. QED BY <1>2, <2>1 DEF IInv, GapIsReported, RowsInv
<1>9. QED BY <1>5, <1>6, <1>7, <1>8 DEF IInv

\* A new attempt starts with no call, no dispatch and no gap.
LEMMA NewAttemptIInv ==
  ASSUME IInv, turn \notin Over, NEW n \in 1..2, NewAttempt(n), UNCHANGED <<lane, report, gap, reboots>>,
         questions' \in Seq(QuestionRows), RowsInv'
  PROVE  IInv'
<1>1. TypeOK'
  BY DEF IInv, TypeOK, NewAttempt
<1>2. CountInv'
  <2>1. Judged' = {}
    BY DEF NewAttempt, Judged
  <2>2. QED BY <2>1, FS_EmptySet DEF NewAttempt, CountInv
<1>3. CallsInv' /\ GapIsReported'
  <2>1. report = "none" /\ ~gap
    BY NotYetReported
  <2>2. QED BY <2>1 DEF CallsInv, GapIsReported, NewAttempt
<1>4. QED BY <1>1, <1>2, <1>3 DEF IInv

LEMMA BeginIInv ==
  ASSUME IInv, Begin
  PROVE  IInv'
<1>1. questions' \in Seq(QuestionRows) /\ RowsInv'
  BY DEF IInv, TypeOK, Begin, RowsInv
<1>2. QED BY <1>1, NewAttemptIInv DEF Begin, Over

\* Nothing but the rows of the questions changes.
LEMMA RowsIInv ==
  ASSUME IInv, UNCHANGED <<lane, turn, attempt, calls, hookCalls, report, gap, reboots>>,
         questions' \in Seq(QuestionRows), RowsInv'
  PROVE  IInv'
<1>1. TypeOK'
  BY DEF IInv, TypeOK, CallStates
<1>2. CallsInv' /\ CountInv' /\ GapIsReported'
  <2>1. CallsInv'
    <3> SUFFICES ASSUME NEW m \in DOMAIN calls PROVE CallOK(calls[m])'
      BY DEF CallsInv
    <3>1. PICK d : calls'[m] = d /\ CallOK(d)
      BY DEF IInv, CallsInv
    <3>2. QED BY <3>1 DEF CallOK, Denied, Script, Policy, Lets
  <2>2. QED BY <2>1 DEF IInv, CountInv, Judged, IsQuestion, GapIsReported
<1>3. QED BY <1>1, <1>2 DEF IInv

\* A question call that parks its row.
LEMMA ParkIInv ==
  ASSUME IInv, Park
  PROVE  IInv'
<1>1. /\ Streaming /\ At # 0 /\ calls[At].step = "queued" /\ IsQuestion(At)
      /\ questions' = Append(questions, Parked) /\ SetCall(At, "asking")
      /\ UNCHANGED <<lane, turn, attempt, hookCalls, report, gap, reboots>>
  BY DEF Park
<1>2. /\ At \in DOMAIN calls /\ calls[At] \in CallStates /\ CallOK(calls[At])
      /\ ~calls[At].checked
  BY <1>1, CurrentCall
<1> DEFINE c == [calls[At] EXCEPT !.step = "asking"]
<1>3. c \in CallStates
  BY <1>2 DEF CallStates, Steps, Settled
<1>4. /\ c.call = calls[At].call /\ c.dispatched = calls[At].dispatched
      /\ c.step = "asking" /\ c.checked = calls[At].checked
  BY <1>2 DEF CallStates
<1>5. calls' = [calls EXCEPT ![At] = c]
  BY <1>1 DEF SetCall
<1> HIDE DEF c
<1>6. calls' \in Seq(CallStates)' /\ CallMoves(At, c)
  BY <1>1, <1>2, <1>3, <1>5, MoveCall DEF IInv
<1>7. questions' \in Seq(QuestionRows) /\ RowsInv'
  <2>1. Parked \in QuestionRows /\ RowOK(Parked)
    BY DEF Parked, QuestionRows, RowOK
  <2>2. QED BY <1>1, <2>1 DEF IInv, TypeOK, RowsInv
<1>8. TypeOK'
  BY <1>1, <1>6, <1>7 DEF IInv, TypeOK
<1>9. CallsInv'
  <2> SUFFICES ASSUME NEW m \in DOMAIN calls PROVE CallOK(calls[m])'
    BY <1>6 DEF CallsInv, CallMoves
  <2>1. CallOK(c)
    BY <1>1, <1>2, <1>4 DEF CallOK, IsQuestion, Settled
  <2>2. PICK d : calls'[m] = d /\ CallOK(d)
    BY <1>6, <2>1 DEF IInv, CallsInv, CallMoves
  <2>3. QED BY <1>1, <2>2 DEF CallOK, Denied, Script, Policy, Lets
<1>10. CountInv'
  <2>1. Judged' = Judged
    BY <1>4, <1>6 DEF Judged, IsQuestion, CallMoves
  <2>2. QED BY <1>1, <2>1 DEF IInv, CountInv
<1>11. GapIsReported'
  BY <1>1 DEF IInv, GapIsReported, Streaming
<1>12. QED BY <1>7, <1>8, <1>9, <1>10, <1>11 DEF IInv

LEMMA RowBecomes ==
  ASSUME IInv, NEW q \in DOMAIN questions, NEW r \in QuestionRows, RowOK(r),
         SetQuestion(q, r), OnlyQuestions
  PROVE  IInv'
<1>1. questions' \in Seq(QuestionRows) /\ RowsInv'
  BY DEF IInv, TypeOK, RowsInv, SetQuestion
<1>2. QED BY <1>1, RowsIInv DEF OnlyQuestions

\* The ask of one row goes on: only its timer moves the state, and only from pending.
LEMMA AskIInv ==
  ASSUME IInv, NEW q \in DOMAIN questions, AskSteps(q)
  PROVE  IInv'
<1>1. questions[q] \in QuestionRows /\ RowOK(questions[q])
  BY DEF IInv, TypeOK, RowsInv
<1>2. OnlyQuestions
  BY DEF AskSteps, AskFails, Register, Expire, TimeOut, Hear
<1>3. CASE AskFails(q) \/ Register(q) \/ Expire(q)
  <2>1. PICK a \in {"over", "waiting", "expired"}, h \in {questions[q].heard, "failure"} :
          SetQuestion(q, [questions[q] EXCEPT !.ask = a, !.heard = h])
    <3>1. CASE AskFails(q)
      BY <3>1 DEF AskFails
    <3>2. CASE Register(q) \/ Expire(q)
      <4>1. PICK a \in {"waiting", "expired"} : SetQuestion(q, [questions[q] EXCEPT !.ask = a])
        BY <3>2 DEF Register, Expire
      <4>2. [questions[q] EXCEPT !.ask = a]
              = [questions[q] EXCEPT !.ask = a, !.heard = questions[q].heard]
        BY <1>1 DEF QuestionRows
      <4>3. QED BY <4>1, <4>2
    <3>3. QED BY <1>3, <3>1, <3>2
  <2> DEFINE r == [questions[q] EXCEPT !.ask = a, !.heard = h]
  <2>2. r \in QuestionRows /\ RowOK(r)
    BY <1>1 DEF QuestionRows, RowOK
  <2>3. QED BY <1>2, <2>1, <2>2, RowBecomes
<1>4. CASE TimeOut(q)
  <2>1. PICK h \in {"failure", "timeout"} :
          SetQuestion(q, [Resolved(q, "timed_out") EXCEPT !.ask = "over", !.heard = h])
    BY <1>4 DEF TimeOut
  <2> DEFINE r == [Resolved(q, "timed_out") EXCEPT !.ask = "over", !.heard = h]
  <2>2. r \in QuestionRows /\ RowOK(r)
    BY <1>1 DEF Resolved, QuestionRows, RowOK
  <2>3. QED BY <1>2, <2>1, <2>2, RowBecomes
<1>5. CASE Hear(q)
  <2>1. PICK h \in {"failure", "answer"} :
          SetQuestion(q, [questions[q] EXCEPT !.ask = "over", !.heard = h])
    BY <1>5 DEF Hear
  <2> DEFINE r == [questions[q] EXCEPT !.ask = "over", !.heard = h]
  <2>2. r \in QuestionRows /\ RowOK(r)
    BY <1>1, <1>5 DEF QuestionRows, RowOK, Hear
  <2>3. QED BY <1>2, <2>1, <2>2, RowBecomes
<1>6. QED BY <1>3, <1>4, <1>5 DEF AskSteps

\* An answer wins the row, and wakes the ask afterwards.
LEMMA AnswerIInv ==
  ASSUME IInv, NEW q \in DOMAIN questions, Answer(q) \/ Wake(q)
  PROVE  IInv'
<1>1. questions[q] \in QuestionRows /\ RowOK(questions[q])
  BY DEF IInv, TypeOK, RowsInv
<1>2. CASE Answer(q)
  <2> DEFINE r == [Resolved(q, "answered") EXCEPT !.answer = "won"]
  <2>1. r \in QuestionRows /\ RowOK(r)
    BY <1>1, <1>2 DEF Answer, Resolved, QuestionRows, RowOK
  <2>2. QED BY <1>2, <2>1, RowBecomes DEF Answer
<1>3. CASE Wake(q)
  <2> DEFINE r == [questions[q] EXCEPT !.answer = "told",
                     !.ask = IF Wakes(q) THEN "woken" ELSE questions[q].ask]
  <2>1. r \in QuestionRows /\ RowOK(r)
    BY <1>1, <1>3 DEF Wake, QuestionRows, RowOK
  <2>2. SetQuestion(q, r)
    BY <1>1, <1>3 DEF Wake, SetQuestion, QuestionRows
  <2>3. QED BY <1>3, <2>1, <2>2, RowBecomes DEF Wake
<1>4. QED BY <1>2, <1>3

\* The asks of an attempt that is cut end, each with its row as it is; the boot dismisses the
\* rows that are still pending, which nobody has won.
LEMMA CancelledRows ==
  ASSUME IInv
  PROVE  /\ Cancelled \in Seq(QuestionRows)
         /\ DOMAIN Cancelled = DOMAIN questions
         /\ \A q \in DOMAIN questions : RowOK(Cancelled[q])
<1> DEFINE Row(q) == IF questions[q].ask = "over" THEN questions[q]
                     ELSE [questions[q] EXCEPT !.ask = "over", !.heard = "nothing"]
<1>1. ASSUME NEW q \in DOMAIN questions PROVE Row(q) \in QuestionRows /\ RowOK(Row(q))
  <2>1. questions[q] \in QuestionRows /\ RowOK(questions[q])
    BY DEF IInv, TypeOK, RowsInv
  <2>2. CASE questions[q].ask = "over"
    BY <2>1, <2>2
  <2>3. CASE questions[q].ask # "over"
    BY <2>1, <2>3 DEF QuestionRows, RowOK
  <2>4. QED BY <2>2, <2>3
<1>2. Cancelled = [q \in 1..Len(questions) |-> Row(q)] /\ Len(questions) \in Nat
  BY DEF Cancelled, IInv, TypeOK
<1> HIDE DEF Row
<1>3. DOMAIN questions = 1..Len(questions)
  BY DEF IInv, TypeOK
<1>4. QED BY <1>1, <1>2, <1>3

LEMMA DismissedRows ==
  ASSUME NEW rows \in Seq(QuestionRows), \A q \in DOMAIN rows : RowOK(rows[q])
  PROVE  /\ Dismissed(rows) \in Seq(QuestionRows)
         /\ DOMAIN Dismissed(rows) = DOMAIN rows
         /\ \A q \in DOMAIN rows : RowOK(Dismissed(rows)[q])
<1> DEFINE Row(q) == [rows[q] EXCEPT
                        !.state = IF rows[q].state = "pending" THEN "dismissed"
                                  ELSE rows[q].state,
                        !.answer = IF rows[q].answer = "won" THEN "lost" ELSE rows[q].answer]
<1>1. ASSUME NEW q \in DOMAIN rows PROVE Row(q) \in QuestionRows /\ RowOK(Row(q))
  <2>1. rows[q] \in QuestionRows /\ RowOK(rows[q])
    OBVIOUS
  <2>2. CASE rows[q].state = "pending"
    BY <2>1, <2>2 DEF QuestionRows, RowOK
  <2>3. CASE rows[q].state # "pending"
    BY <2>1, <2>3 DEF QuestionRows, RowOK
  <2>4. QED BY <2>2, <2>3
<1>2. Dismissed(rows) = [q \in 1..Len(rows) |-> Row(q)] /\ Len(rows) \in Nat
  <2>1. ASSUME NEW q \in DOMAIN rows PROVE Dismissed(rows)[q] = Row(q)
    BY DEF Dismissed, QuestionRows
  <2>2. QED BY <2>1 DEF Dismissed
<1> HIDE DEF Row
<1>3. QED BY <1>1, <1>2

\* The count falls short exactly if a call that is no question had no dispatch.
LEMMA HookGapIsUnjudged ==
  ASSUME IInv
  PROVE  HookGap <=> \E n \in DOMAIN calls : ~IsQuestion(n) /\ ~calls[n].dispatched
<1> DEFINE expected == {n \in DOMAIN calls : ~IsQuestion(n)}
<1>1. /\ IsFiniteSet(expected) /\ IsFiniteSet(Judged) /\ Judged \subseteq expected
      /\ Cardinality(Judged) \in Nat /\ Cardinality(expected) \in Nat
  <2>1. IsFiniteSet(DOMAIN calls)
    BY JudgedIsFinite DEF IInv
  <2>2. IsFiniteSet(expected)
    BY <2>1, FS_Subset
  <2>3. QED BY <2>2, JudgedIsFinite, FS_CardinalityType DEF IInv, Judged
<1>2. /\ Cardinality(Judged) <= Cardinality(expected)
      /\ Cardinality(Judged) = Cardinality(expected) => Judged = expected
  BY <1>1, FS_Subset
<1>3. HookGap <=> Cardinality(Judged) < Cardinality(expected)
  <2>1. hookCalls.total - hookCalls.asked = Cardinality(Judged)
    BY <1>1 DEF IInv, TypeOK, CountInv
  <2>2. QED BY <2>1 DEF HookGap
<1>4. HookGap <=> Judged # expected
  BY <1>1, <1>2, <1>3
<1>5. Judged # expected <=> \E n \in DOMAIN calls : ~IsQuestion(n) /\ ~calls[n].dispatched
  BY DEF Judged
<1>6. QED BY <1>4, <1>5

\* The turn ends, or waits for another daemon, and its calls are left as they are.
LEMMA EndIInv ==
  ASSUME IInv, UNCHANGED <<lane, calls, hookCalls>>, attempt' = 0,
         turn' \in {"queued", "running"} \cup Over, gap' \in BOOLEAN, reboots' \in Nat,
         report' \in {"none", "due", "made", "lost"},
         questions' \in {Cancelled, Dismissed(Cancelled)}, GapIsReported'
  PROVE  IInv'
<1>1. /\ Cancelled \in Seq(QuestionRows) /\ DOMAIN Cancelled = DOMAIN questions
      /\ \A q \in DOMAIN Cancelled : RowOK(Cancelled[q])
  BY CancelledRows
<1>2. questions' \in Seq(QuestionRows) /\ RowsInv'
  <2>1. CASE questions' = Cancelled
    BY <1>1, <2>1 DEF RowsInv
  <2>2. CASE questions' = Dismissed(Cancelled)
    BY <1>1, <2>2, DismissedRows DEF RowsInv
  <2>3. QED BY <2>1, <2>2
<1>3. TypeOK'
  <2>1. CallStates' = CallStates
    BY DEF CallStates
  <2>2. calls' \in Seq(CallStates)' /\ attempt' \in 0..2
    BY <2>1 DEF IInv, TypeOK
  <2>3. QED BY <1>2, <2>2 DEF IInv, TypeOK
<1>4. CallsInv'
  <2> SUFFICES ASSUME NEW m \in DOMAIN calls PROVE CallOK(calls[m])'
    BY DEF CallsInv
  <2>1. PICK d : calls'[m] = d /\ CallOK(d)
    BY DEF IInv, CallsInv
  <2>2. QED BY <2>1 DEF CallOK, Denied, Script, Policy, Lets
<1>5. CountInv'
  BY DEF IInv, CountInv, Judged, IsQuestion
<1>6. QED BY <1>2, <1>3, <1>4, <1>5 DEF IInv

\* The end of a stream leaves its report, if it has one to make, to the next step.
LEMMA StreamEndsIInv ==
  ASSUME IInv, StreamEnds
  PROVE  IInv'
<1>1. PICK saw_result \in BOOLEAN, is_error \in BOOLEAN :
        /\ turn' = IF TimedOut THEN "question_timeout"
                   ELSE IF ~saw_result \/ is_error THEN "error" ELSE "done"
        /\ report' = IF ~TimedOut /\ saw_result THEN "due" ELSE report
  BY DEF StreamEnds
<1>2. /\ turn = "running" /\ attempt' = 0 /\ questions' = Cancelled
      /\ UNCHANGED <<lane, calls, hookCalls, gap, reboots>>
  BY DEF StreamEnds
<1>3. report = "none" /\ ~gap
  BY <1>2, NotYetReported DEF Over
<1>4. GapIsReported'
  BY <1>1, <1>2, <1>3 DEF GapIsReported
<1>5. /\ turn' \in Over /\ report' \in {"none", "due", "made", "lost"}
      /\ gap' \in BOOLEAN /\ reboots' \in Nat
  BY <1>1, <1>2, <1>3 DEF IInv, TypeOK, Over
<1>6. QED BY <1>2, <1>4, <1>5, EndIInv

\* What is reported compares the counts of the last attempt; or it is lost.
LEMMA ReportIInv ==
  ASSUME IInv, Report \/ ReportFails
  PROVE  IInv'
<1>1. /\ report = "due" /\ turn \in {"done", "error"} /\ ~gap
      /\ UNCHANGED <<lane, turn, attempt, calls, hookCalls, questions, reboots>>
  BY DEF IInv, GapIsReported, Report, ReportFails
<1>2. GapIsReported' /\ report' \in {"made", "lost"} /\ gap' \in BOOLEAN
  <2>1. CASE Report
    <3>1. gap' <=> \E n \in DOMAIN calls : ~IsQuestion(n) /\ ~calls[n].dispatched
      BY <2>1, HookGapIsUnjudged DEF Report
    <3>2. report' = "made"
      BY <2>1 DEF Report
    <3>3. gap' \in BOOLEAN
      BY <2>1 DEF Report, HookGap
    <3>4. QED BY <1>1, <3>1, <3>2, <3>3 DEF GapIsReported, IsQuestion
  <2>2. CASE ReportFails
    <3>1. /\ report' = "lost" /\ gap' = gap
          /\ lane.faults \cap {"emit", "cut"} # {}
      BY <2>2 DEF ReportFails
    <3>2. turn' = turn /\ lane' = lane
      BY <1>1
    <3>3. GapIsReported'
      BY <1>1, <3>1, <3>2 DEF GapIsReported
    <3>4. QED BY <3>1, <3>3 DEF IInv, TypeOK
  <2>3. QED BY <2>1, <2>2
<1>3. TypeOK'
  <2>1. CallStates' = CallStates
    BY <1>1 DEF CallStates
  <2>2. QED BY <1>1, <1>2, <2>1 DEF IInv, TypeOK
<1>4. CallsInv'
  <2> SUFFICES ASSUME NEW m \in DOMAIN calls PROVE CallOK(calls[m])'
    BY <1>1 DEF CallsInv
  <2>1. PICK d : calls'[m] = d /\ CallOK(d)
    BY <1>1 DEF IInv, CallsInv
  <2>2. QED BY <1>1, <2>1 DEF CallOK, Denied, Script, Policy, Lets
<1>5. CountInv' /\ RowsInv'
  BY <1>1 DEF IInv, CountInv, Judged, IsQuestion, RowsInv
<1>6. QED BY <1>2, <1>3, <1>4, <1>5 DEF IInv

LEMMA InterruptIInv ==
  ASSUME IInv, StreamDies \/ Cut \/ Reboot
  PROVE  IInv'
<1>1. CASE StreamDies
  <2>1. /\ turn = "running" /\ questions' = Cancelled
        /\ UNCHANGED <<lane, report, gap, reboots>>
    BY <1>1 DEF StreamDies
  <2>2. report = "none" /\ ~gap
    BY <2>1, NotYetReported DEF Over
  <2>3. CASE attempt = 1 /\ NewAttempt(2)
    <3>1. questions' \in Seq(QuestionRows) /\ RowsInv'
      BY <2>1, CancelledRows DEF RowsInv
    <3>2. QED BY <2>1, <2>3, <3>1, NewAttemptIInv DEF Over
  <2>4. CASE turn' = "error" /\ attempt' = 0 /\ UNCHANGED <<calls, hookCalls>>
    <3>1. GapIsReported'
      BY <2>1, <2>2, <2>4 DEF GapIsReported
    <3>2. QED BY <2>1, <2>4, <3>1, EndIInv DEF IInv, TypeOK, Over
  <2>5. QED BY <1>1, <2>3, <2>4 DEF StreamDies
<1>2. CASE Cut
  <2>1. report = "none" /\ ~gap
    BY <1>2, NotYetReported DEF Cut, Over
  <2>2. GapIsReported'
    BY <1>2, <2>1 DEF Cut, GapIsReported
  <2>3. QED BY <1>2, <2>2, EndIInv DEF Cut, IInv, TypeOK, Over
<1>3. CASE Reboot
  <2>1. /\ UNCHANGED <<lane, calls, hookCalls, gap>>
        /\ turn' = IF turn = "running" THEN "queued" ELSE turn
        /\ report' = IF report = "due" THEN "lost" ELSE report
        /\ reboots' = reboots + 1 /\ reboots' > 0 /\ reboots' \in Nat
    BY <1>3 DEF Reboot, IInv, TypeOK
  <2>2. CASE turn = "running"
    <3>1. report = "none" /\ ~gap
      BY <2>2, NotYetReported DEF Over
    <3>2. QED BY <1>3, <2>1, <2>2, <3>1, EndIInv
          DEF GapIsReported, Reboot, IInv, TypeOK, Over
  <2>3. CASE turn # "running"
    <3>1. turn' = turn
      BY <2>1, <2>3
    <3>2. CASE report = "due"
      <4>1. turn \in {"done", "error"} /\ ~gap /\ report' = "lost"
        BY <2>1, <3>2 DEF IInv, GapIsReported
      <4>2. GapIsReported'
        BY <2>1, <3>1, <4>1 DEF GapIsReported
      <4>3. QED BY <1>3, <2>1, <3>1, <4>1, <4>2, EndIInv DEF Reboot, IInv, TypeOK, Over
    <3>3. CASE report # "due"
      <4>1. report' = report
        BY <2>1, <3>3
      <4>2. GapIsReported'
        BY <2>1, <3>1, <3>3, <4>1 DEF IInv, TypeOK, GapIsReported, IsQuestion
      <4>3. QED BY <1>3, <2>1, <3>1, <4>1, <4>2, EndIInv DEF Reboot, IInv, TypeOK, Over
    <3>4. QED BY <3>2, <3>3
  <2>4. QED BY <2>2, <2>3
<1>4. QED BY <1>1, <1>2, <1>3

LEMMA NextIInv == IInv /\ [Next]_vars => IInv'
<1> SUFFICES ASSUME IInv, [Next]_vars PROVE IInv'
  OBVIOUS
<1>1. CASE UNCHANGED vars
  <2>1. questions' \in Seq(QuestionRows) /\ RowsInv'
    BY <1>1 DEF IInv, TypeOK, RowsInv, vars
  <2>2. QED BY <1>1, <2>1, RowsIInv DEF vars
<1>2. CASE Next
  BY <1>2, BeginIInv, ObserveIInv, CliIInv, PolicyHookIInv, GuardIInv, CanUseToolIInv,
     AskedIInv, ParkIInv, AskIInv, AnswerIInv, StreamEndsIInv, ReportIInv, InterruptIInv
  DEF Next, Policing
<1>3. QED BY <1>1, <1>2

\* The inductive invariant, which says what has been decided about a call at each stage and
\* which calls the dispatches stand for, holds in every reachable state.
THEOREM Invariance == Spec => []IInv
  BY InitIInv, NextIInv, PTL DEF Spec

(* Whatever the ceiling says and whatever raises, hangs or is lost on the way, a call runs   *)
(* past a dispatched hook only judged, past a skipped one only by the CLI's own rules or     *)
(* can_use_tool; the end of a turn, once reported, reports exactly what skipped the hook,    *)
(* and that of a turn that is done goes unreported only by a failed event, a cancellation    *)
(* or a crash right after it was recorded; and what an ask or an answer heard is in its row  *)
(* (gate.py, _check_policy_hook_gap).                                                        *)
THEOREM GateHolds == Spec => []GateInv
<1>1. IInv => RunsAreJudged
  BY DEF IInv, CallsInv, CallOK, RunsAreJudged
<1>2. IInv => GapIsReported /\ QuestionsAgree
  BY DEF IInv, RowsInv, RowOK, QuestionsAgree
<1>3. IInv => GateInv
  BY <1>1, <1>2 DEF GateInv
<1>4. QED BY <1>3, Invariance, PTL
=============================================================================

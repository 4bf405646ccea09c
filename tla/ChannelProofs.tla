---------------------------- MODULE ChannelProofs ----------------------------
(***************************************************************************)
(* Proofs about the sidecar of a live session, for any number of messages: *)
(* a session that shows life is not bounced, and what the loop or the      *)
(* session takes for answered is answered on the server.                   *)
(***************************************************************************)
EXTENDS Channel, TLAPS

Signs == {"status", "activity"}

\* The values of the state.
TypeOK ==
  /\ fyi \subseteq Messages
  /\ status \in
       [Messages -> {"queued", "delivered", "replied", "bounced", "acked", "cancelled"}]
  /\ initialized \in BOOLEAN /\ confirmed \in BOOLEAN /\ degraded \in BOOLEAN
  /\ since \subseteq Signs /\ misses \in Nat
  /\ at \in {"gate", "polling", "claimed", "pushing", "window", "slow", "bouncing",
             "disowning", "acking"}
  /\ cur \in Messages \cup {None} /\ inflight \in Messages \cup {None}
  /\ replied \in BOOLEAN /\ signs \subseteq Signs /\ bounced \subseteq Messages
  /\ alive \in BOOLEAN /\ todo \in Seq(Messages) /\ turn \in Messages \cup {"local", None}
  /\ result \in [Messages -> BOOLEAN \cup {None}]
  /\ told \in [Messages -> {None, "delivered", "bounced", "unknown"}]
  /\ consumed \subseteq Messages /\ lively \in BOOLEAN /\ lost \subseteq Messages

\* While the loop waits for a verdict the slot holds the message it pushed, so that a reply
\* to another one does not set its event and every sign of life reaches its snapshot.
SlotInv ==
  /\ at \in {"pushing", "window", "slow"} =>
       /\ inflight = cur
       /\ replied => status[cur] = "replied"
  /\ at \notin {"gate", "polling"} => cur \in Messages
  /\ at = "window" /\ lively => signs # {}

RepliesAreRecorded ==
  \A m \in Messages : result[m] = TRUE => status[m] = "replied"

IInv ==
  /\ TypeOK
  /\ SlotInv
  /\ RepliesAreRecorded
  /\ LiveIsNotBounced
  /\ ConsumedIsRecorded

LEMMA InitIInv == Init => IInv
<1> SUFFICES ASSUME Init PROVE IInv
  OBVIOUS
<1>1. TypeOK
  <2>1. /\ initialized \in BOOLEAN /\ confirmed \in BOOLEAN /\ degraded \in BOOLEAN
        /\ replied \in BOOLEAN /\ alive \in BOOLEAN /\ lively \in BOOLEAN
    BY DEF Init
  <2>2. QED BY <2>1 DEF Init, TypeOK
<1>2. SlotInv /\ LiveIsNotBounced
  BY DEF Init, SlotInv, LiveIsNotBounced
<1>3. RepliesAreRecorded /\ ConsumedIsRecorded
  BY ChannelAssumption DEF Init, RepliesAreRecorded, ConsumedIsRecorded
<1>4. QED BY <1>1, <1>2, <1>3 DEF IInv

\* What is replied to stays so, whoever finalizes, claims or cancels.
RepliedStays ==
  \A m \in Messages : status[m] = "replied" => status'[m] = "replied"

LEMMA FinalizeRepliedStays ==
  ASSUME TypeOK, NEW m \in Messages, NEW s \in {"replied", "bounced", "acked"}, Finalize(m, s)
  PROVE  /\ RepliedStays
         /\ status' \in
              [Messages -> {"queued", "delivered", "replied", "bounced", "acked", "cancelled"}]
         /\ lost' \subseteq Messages
         /\ UNCHANGED <<fyi, lively>>
  BY DEF TypeOK, RepliedStays, Finalize

\* A step that neither signals the loop nor tells the session anything new.
LEMMA RecordsIInv ==
  ASSUME IInv, RepliedStays,
         UNCHANGED <<result, told>>, consumed' = consumed
  PROVE  RepliesAreRecorded' /\ ConsumedIsRecorded'
  BY DEF IInv, TypeOK, RepliedStays, RepliesAreRecorded, ConsumedIsRecorded

LEMMA GatesIInv ==
  ASSUME IInv, Initialized \/ \E a \in Answers : Heartbeat(a)
  PROVE  IInv'
<1>1. UNCHANGED <<server, loop, session, history>>
  BY DEF Initialized, Heartbeat
<1>2. TypeOK'
  <2>1. confirmed' \in BOOLEAN /\ degraded' \in BOOLEAN /\ initialized' \in BOOLEAN
    BY DEF IInv, TypeOK, Initialized, Heartbeat, Answers
  <2>2. since' \in {since, {}} /\ misses' \in {misses, 0}
    BY DEF Initialized, Heartbeat
  <2>3. QED BY <1>1, <2>1, <2>2 DEF IInv, TypeOK, server, loop, session, history
<1>3. QED
  BY <1>1, <1>2
  DEF IInv, SlotInv, RepliesAreRecorded, LiveIsNotBounced, ConsumedIsRecorded, server, loop,
      session, history

LEMMA PollIInv ==
  ASSUME IInv, Poll \/ PollEmpty \/ Disown \/ AliveButSlow
  PROVE  IInv'
<1>1. TypeOK'
  BY DEF IInv, TypeOK, Poll, PollEmpty, Disown, AliveButSlow, Goto, server, gates, session,
         history
<1>2. QED
  BY <1>1
  DEF IInv, TypeOK, SlotInv, RepliesAreRecorded, LiveIsNotBounced, ConsumedIsRecorded, Poll,
      PollEmpty, Disown, AliveButSlow, Goto, server, gates, session, history

LEMMA ClaimIInv ==
  ASSUME IInv, NEW m \in Messages, Claim(m)
  PROVE  IInv'
<1>1. TypeOK' /\ RepliedStays
  BY DEF IInv, TypeOK, RepliedStays, Claim, gates, session
<1>2. SlotInv' /\ LiveIsNotBounced'
  BY ChannelAssumption DEF IInv, TypeOK, SlotInv, LiveIsNotBounced, Claim
<1>3. RepliesAreRecorded' /\ ConsumedIsRecorded'
  BY <1>1, RecordsIInv DEF Claim, session
<1>4. QED BY <1>1, <1>2, <1>3 DEF IInv

LEMMA PushIInv ==
  ASSUME IInv, PushFyi \/ TakeSlot \/ PushInstruction
  PROVE  IInv'
<1>1. cur \in Messages
  BY DEF IInv, SlotInv, PushFyi, TakeSlot, PushInstruction
<1>2. TypeOK' /\ RepliedStays
  <2>1. CASE PushFyi
    BY <1>1, <2>1 DEF IInv, TypeOK, RepliedStays, PushFyi, Push, Goto, server, gates, history
  <2>2. CASE TakeSlot
    BY <1>1, <2>2 DEF IInv, TypeOK, RepliedStays, TakeSlot, server, gates, session, history
  <2>3. CASE PushInstruction
    <3>1. lively' \in BOOLEAN
      BY <2>3 DEF PushInstruction
    <3>2. QED
      BY <1>1, <2>3, <3>1
      DEF IInv, TypeOK, RepliedStays, PushInstruction, Push, Goto, server, gates
  <2>4. QED BY <2>1, <2>2, <2>3
<1>3. SlotInv' /\ LiveIsNotBounced'
  BY DEF IInv, TypeOK, SlotInv, LiveIsNotBounced, PushFyi, TakeSlot, PushInstruction, Goto,
         server, history
<1>4. RepliesAreRecorded' /\ ConsumedIsRecorded'
  BY <1>2, RecordsIInv
  DEF PushFyi, TakeSlot, PushInstruction, Push, Goto, session
<1>5. QED BY <1>2, <1>3, <1>4 DEF IInv

\* The slot is freed.  Nothing but the shape of the wait decides a bounce: no sign of life
\* is in the snapshot, so none has been shown since the push.
LEMMA VerdictIInv ==
  ASSUME IInv, PushFails \/ Consumed \/ Dead \/ Unknown
  PROVE  IInv'
<1>1. cur \in Messages
  BY DEF IInv, SlotInv, PushFails, Consumed, Dead, Unknown
<1>2. TypeOK' /\ RepliedStays
  <2>1. PICK next \in {"gate", "bouncing"} : Verdict(next)
    BY DEF PushFails, Consumed, Dead, Unknown
  <2>2. /\ bounced' \subseteq Messages /\ consumed' \subseteq Messages
        /\ lost' \subseteq Messages /\ misses' \in Nat
    BY <1>1 DEF IInv, TypeOK, PushFails, Consumed, Dead, Unknown, gates
  <2>3. UNCHANGED <<initialized, confirmed, degraded, since>>
    BY DEF PushFails, Consumed, Dead, Unknown, gates
  <2>4. lively' \in BOOLEAN
    BY <2>1 DEF Verdict
  <2>5. QED
    BY <2>1, <2>2, <2>3, <2>4 DEF IInv, TypeOK, RepliedStays, Verdict, server, session
<1>3. SlotInv' /\ LiveIsNotBounced'
  BY <1>1 DEF IInv, TypeOK, SlotInv, LiveIsNotBounced, PushFails, Consumed, Dead, Unknown,
              Verdict, NoSignOfLife
<1>4. RepliesAreRecorded' /\ ConsumedIsRecorded'
  <2>1. CASE Consumed
    <3>1. status[cur] = "replied"
      BY <2>1 DEF IInv, SlotInv, Consumed
    <3>2. QED
      BY <2>1, <3>1 DEF IInv, RepliesAreRecorded, ConsumedIsRecorded, Consumed, Verdict,
                        server, session
  <2>2. CASE PushFails \/ Dead \/ Unknown
    BY <1>2, <2>2, RecordsIInv DEF PushFails, Dead, Unknown, Verdict, session
  <2>3. QED BY <2>1, <2>2
<1>5. QED BY <1>2, <1>3, <1>4 DEF IInv

LEMMA SettleIInv ==
  ASSUME IInv, Acknowledge \/ Disowned \/ Bounce
  PROVE  IInv'
<1>1. PICK s \in {"acked", "bounced"} : Finalize(cur, s) /\ Goto("gate")
  BY DEF Acknowledge, Disowned, Bounce
<1>2. cur \in Messages
  BY DEF IInv, SlotInv, Acknowledge, Disowned, Bounce
<1>3. /\ RepliedStays
      /\ status' \in
           [Messages -> {"queued", "delivered", "replied", "bounced", "acked", "cancelled"}]
      /\ lost' \subseteq Messages
      /\ UNCHANGED <<fyi, lively>>
  BY <1>1, <1>2, FinalizeRepliedStays DEF IInv
<1>4. UNCHANGED session
  BY DEF Acknowledge, Disowned, Bounce
<1>5. TypeOK'
  <2>1. misses' \in Nat /\ since' \subseteq Signs /\ UNCHANGED <<initialized, confirmed>>
    BY DEF IInv, TypeOK, Acknowledge, Disowned, Bounce, gates
  <2>2. degraded' \in BOOLEAN
    <3>1. CASE Acknowledge \/ Disowned
      BY <3>1 DEF IInv, TypeOK, Acknowledge, Disowned, gates
    <3>2. CASE Bounce
      BY <3>2 DEF Bounce
    <3>3. QED BY <3>1, <3>2
  <2>3. QED BY <1>1, <1>3, <1>4, <2>1, <2>2 DEF IInv, TypeOK, Goto, session
<1>6. SlotInv' /\ LiveIsNotBounced'
  BY <1>1 DEF SlotInv, LiveIsNotBounced, Goto
<1>7. RepliesAreRecorded' /\ ConsumedIsRecorded'
  BY <1>1, <1>3, <1>4, RecordsIInv DEF Goto, session
<1>8. QED BY <1>5, <1>6, <1>7 DEF IInv

\* A sign of life reaches the snapshot of whoever waits for one.
LEMMA SignIInv ==
  ASSUME IInv, NEW s \in Signs, Sign(s), UNCHANGED <<alive, result, told>>,
         todo' \in Seq(Messages), turn' \in Messages \cup {"local", None}
  PROVE  IInv'
<1>1. TypeOK' /\ RepliedStays
  BY DEF IInv, TypeOK, RepliedStays, Sign, server
<1>2. SlotInv'
  BY ChannelAssumption DEF IInv, TypeOK, SlotInv, Sign, server
<1>3. LiveIsNotBounced'
  BY DEF IInv, LiveIsNotBounced, Sign
<1>4. RepliesAreRecorded' /\ ConsumedIsRecorded'
  BY <1>1, RecordsIInv DEF Sign
<1>5. QED BY <1>1, <1>2, <1>3, <1>4 DEF IInv

LEMMA TurnIInv ==
  ASSUME IInv, StartTurn \/ LocalTurn \/ ToolCall \/ EndTurn
  PROVE  IInv'
<1>1. CASE StartTurn
  <2>1. turn' \in Messages /\ todo' \in Seq(Messages)
    BY <1>1 DEF IInv, TypeOK, StartTurn
  <2>2. QED BY <1>1, <2>1, SignIInv DEF StartTurn, Signs
<1>2. CASE LocalTurn \/ ToolCall \/ EndTurn
  BY <1>2, SignIInv DEF IInv, TypeOK, LocalTurn, ToolCall, EndTurn, Signs, session
<1>3. QED BY <1>1, <1>2

\* The server records the reply before its result is on its way.
LEMMA ReplyIInv ==
  ASSUME IInv, NEW m \in Messages, Reply(m)
  PROVE  IInv'
<1>1. Finalize(m, "replied") /\ UNCHANGED <<gates, loop, alive, todo, turn, told>>
  BY DEF Reply
<1>2. /\ RepliedStays
      /\ status' \in
           [Messages -> {"queued", "delivered", "replied", "bounced", "acked", "cancelled"}]
      /\ lost' \subseteq Messages
      /\ UNCHANGED <<fyi, lively>>
  BY <1>1, FinalizeRepliedStays DEF IInv
<1>3. PICK b \in BOOLEAN : /\ result' = [result EXCEPT ![m] = b]
                           /\ b => status'[m] = "replied"
  BY DEF Reply
<1>4. TypeOK'
  BY <1>1, <1>2, <1>3 DEF IInv, TypeOK, gates, loop
<1>5. SlotInv' /\ LiveIsNotBounced'
  BY <1>1, <1>2 DEF IInv, TypeOK, SlotInv, LiveIsNotBounced, RepliedStays, gates, loop
<1>6. RepliesAreRecorded' /\ ConsumedIsRecorded'
  BY <1>1, <1>2, <1>3
  DEF IInv, TypeOK, RepliesAreRecorded, ConsumedIsRecorded, RepliedStays, loop
<1>7. QED BY <1>4, <1>5, <1>6 DEF IInv

\* The loop's event is set only for the message in its slot, once it is recorded.
LEMMA ReplyReturnsIInv ==
  ASSUME IInv, NEW m \in Messages, ReplyReturns(m)
  PROVE  IInv'
<1>1. result[m] \in BOOLEAN
  BY DEF IInv, TypeOK, ReplyReturns
<1>2. result[m] => status[m] = "replied"
  BY <1>1 DEF IInv, RepliesAreRecorded
<1>3. UNCHANGED <<server, gates, at, cur, inflight, signs, bounced, consumed, alive, todo,
                  turn, result, history>>
  BY DEF ReplyReturns
<1>4. TypeOK'
  BY <1>1, <1>3
  DEF IInv, TypeOK, ReplyReturns, Signals, server, gates, history
<1>5. SlotInv'
  BY <1>1, <1>2, <1>3 DEF IInv, TypeOK, SlotInv, ReplyReturns, Signals, server, history
<1>6. LiveIsNotBounced' /\ RepliesAreRecorded'
  BY <1>3 DEF IInv, LiveIsNotBounced, RepliesAreRecorded, server, history
<1>7. ConsumedIsRecorded'
  BY <1>1, <1>2, <1>3 DEF IInv, TypeOK, ConsumedIsRecorded, ReplyReturns, server
<1>8. QED BY <1>4, <1>5, <1>6, <1>7 DEF IInv

LEMMA EnvironmentIInv ==
  ASSUME IInv, Park \/ Return \/ \E m \in Messages : Cancel(m)
  PROVE  IInv'
<1>1. TypeOK' /\ RepliedStays
  <2>1. CASE Park \/ Return
    <3>1. UNCHANGED <<server, gates, loop, todo, turn, result, told, history>>
          /\ alive' \in BOOLEAN
      BY <2>1 DEF Park, Return
    <3>2. QED
      BY <3>1 DEF IInv, TypeOK, RepliedStays, server, gates, loop, history
  <2>2. CASE \E m \in Messages : Cancel(m)
    BY <2>2 DEF IInv, TypeOK, RepliedStays, Cancel, gates, loop, session, history
  <2>3. QED BY <2>1, <2>2
<1>2. SlotInv' /\ LiveIsNotBounced'
  BY <1>1 DEF IInv, TypeOK, SlotInv, LiveIsNotBounced, RepliedStays, Park, Return, Cancel,
              loop, history
<1>3. RepliesAreRecorded' /\ ConsumedIsRecorded'
  BY <1>1, RecordsIInv DEF Park, Return, Cancel, loop, session
<1>4. QED BY <1>1, <1>2, <1>3 DEF IInv

LEMMA NextIInv == IInv /\ [Next]_vars => IInv'
<1> SUFFICES ASSUME IInv, [Next]_vars PROVE IInv'
  OBVIOUS
<1>1. CASE UNCHANGED vars
  BY <1>1
  DEF IInv, TypeOK, SlotInv, RepliesAreRecorded, LiveIsNotBounced, ConsumedIsRecorded, vars,
      server, gates, loop, session, history
<1>2. CASE Next
  BY <1>2, GatesIInv, PollIInv, ClaimIInv, PushIInv, VerdictIInv, SettleIInv, TurnIInv,
     ReplyIInv, ReplyReturnsIInv, EnvironmentIInv
  DEF Next, LoopStep
<1>3. QED BY <1>1, <1>2

\* The inductive invariant, which says whose message the slot holds at each stage and what has
\* been recorded on the server by then, holds in every reachable state.
THEOREM Invariance == Spec => []IInv
  BY InitIInv, NextIInv, PTL DEF Spec

(* A push is bounced for want of a consumer only if the session has shown no life since the *)
(* push: the slot is taken before the snapshot, so that no sign falls between (ECA-83).     *)
THEOREM TheLivingAreNotBounced == Spec => []LiveIsNotBounced
  BY Invariance, PTL DEF IInv

(* What the loop takes for answered, and a session is told was delivered, is answered on    *)
(* the server, and stays so: _handle_reply signals after the server has recorded (FMC-13).  *)
THEOREM AnsweredIsRecorded == Spec => []ConsumedIsRecorded
  BY Invariance, PTL DEF IInv
=============================================================================

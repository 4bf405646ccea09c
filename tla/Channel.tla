------------------------------ MODULE Channel ------------------------------
(***************************************************************************)
(* The sidecar of a live session (channel.py) between its mailbox on the   *)
(* mesh server and the session it pushes messages into: the claim loop     *)
(* with its gates, the verdict on each push, the bounce, the degraded mode *)
(* and its end, and the reply tool.                                        *)
(*                                                                         *)
(* The session (Claude Code) is not in the repository: it works on one     *)
(* turn at a time, pushed ones in their order, between turns of its        *)
(* operator, and may stop looking at its channel for a while or for good.  *)
(* Its turns bump the status file, its tool calls ask for permission.      *)
(***************************************************************************)
EXTENDS Naturals, Sequences

CONSTANTS
  Messages,      \* instructions in the mailbox
  Fast,          \* the liveness check is on and there is a status file
  DegradeAfter,  \* non-consumptions in a row that degrade the session
  Faults,        \* which faults occur: "presence", "parked", "cancel", "mesh", "stdio"
  None

ASSUME ChannelAssumption ==
  /\ Fast \in BOOLEAN
  /\ DegradeAfter \in Nat \ {0}
  /\ None \notin Messages \cup {"local", "delivered", "bounced", "unknown"}
  /\ None \notin BOOLEAN

VARIABLES
  fyi,          \* the messages stamped expects_reply = False
  status,       \* each message at the server: "queued", "delivered", "replied", "bounced",
                \* "acked" or "cancelled"
  initialized,  \* the session's handshake has been seen
  confirmed,    \* announce_confirmed
  degraded,
  since,        \* signs of life since the session was degraded
  misses,       \* consecutive_nonconsumption
  at,           \* where the claim loop stands: "gate", "polling", "claimed", "pushing",
                \* "window", "slow", "bouncing", "disowning", "acking"
  cur,          \* the message in the loop's hands
  inflight,     \* the message pushed and awaiting its reply
  replied,      \* reply_event
  signs,        \* signs of life since the snapshot before the push: "status", "activity"
  bounced,      \* bounced_message_ids
  alive,        \* the session looks at its channel
  todo,         \* pushed messages the session has not turned to
  turn,         \* the message it works on, "local" or None
  result,       \* reply calls on their way back to the session: recorded or not
  told,         \* what the session was told of each reply
  consumed,     \* messages the loop took for answered (history)
  lively,       \* the session has shown life between the push and its verdict (history)
  lost          \* messages whose claim or last word the network lost (history)

server == <<fyi, status>>
gates == <<initialized, confirmed, degraded, since, misses>>
loop == <<at, cur, inflight, replied, signs, bounced, consumed>>
session == <<alive, todo, turn, result, told>>
history == <<lively, lost>>
vars == <<server, gates, loop, session, history>>

Init ==
  /\ fyi \in SUBSET Messages
  /\ status = [m \in Messages |-> "queued"]
  /\ initialized = FALSE /\ confirmed = FALSE
  /\ degraded = FALSE /\ since = {} /\ misses = 0
  /\ at = "gate" /\ cur = None /\ inflight = None
  /\ replied = FALSE /\ signs = {} /\ bounced = {}
  /\ alive = TRUE /\ todo = << >> /\ turn = None
  /\ result = [m \in Messages |-> None]
  /\ told = [m \in Messages |-> None]
  /\ consumed = {} /\ lively = FALSE /\ lost = {}

-----------------------------------------------------------------------------
(* Presence *)

\* _tee_reader sees notifications/initialized.
Initialized ==
  /\ ~initialized
  /\ initialized' = TRUE
  /\ UNCHANGED <<server, confirmed, degraded, since, misses, loop, session, history>>

\* Mutant: only a permission request re-arms.
RearmsOnActivity == degraded /\ "activity" \in since

\* _maybe_rearm: a turn or a permission request since the session was degraded.
Rearms == degraded /\ since # {}

\* One round of _presence_loop: the answer to the announce sets the flag, a refusal or a
\* lost connection clears it, another rejection leaves it.
Heartbeat(answer) ==
  /\ degraded' = (degraded /\ ~Rearms)
  /\ since' = IF Rearms THEN {} ELSE since
  /\ misses' = IF Rearms THEN 0 ELSE misses
  /\ confirmed' = CASE answer = "ok" -> TRUE
                    [] answer \in {"elsewhere", "lost"} -> FALSE
                    [] answer = "rejected" -> confirmed
  /\ UNCHANGED <<server, initialized, loop, session, history>>

-----------------------------------------------------------------------------
(* The claim loop *)

Goto(s) ==
  /\ at' = s
  /\ cur' = IF s = "gate" THEN None ELSE cur
  /\ UNCHANGED <<inflight, replied, signs, bounced, consumed>>

\* The gates, read before each poll.
Poll ==
  /\ at = "gate"
  /\ initialized /\ confirmed /\ ~degraded
  /\ Goto("polling")
  /\ UNCHANGED <<server, gates, session, history>>

\* wait_for_instruction times out, or the connection fails.
PollEmpty ==
  /\ at = "polling"
  /\ Goto("gate")
  /\ UNCHANGED <<server, gates, session, history>>

Claim(m) ==
  /\ at = "polling" /\ status[m] = "queued"
  /\ status' = [status EXCEPT ![m] = "delivered"]
  /\ \/ at' = "claimed" /\ cur' = m /\ UNCHANGED lost
     \/ "mesh" \in Faults /\ at' = "gate" /\ lost' = lost \cup {m} /\ UNCHANGED cur
  /\ UNCHANGED <<fyi, inflight, replied, signs, bounced, consumed, gates, session, lively>>

Push(m) == todo' = Append(todo, m) /\ UNCHANGED <<alive, turn, result, told>>

\* The claim comes back.  Without a confirmed announce the message is disowned.
Disown ==
  /\ at = "claimed" /\ ~confirmed
  /\ Goto("disowning")
  /\ UNCHANGED <<server, gates, session, history>>

\* Fire and forget: pushed and acknowledged, the slot stays free.
PushFyi ==
  /\ at = "claimed" /\ confirmed /\ cur \in fyi
  /\ Push(cur)
  /\ Goto("acking")
  /\ UNCHANGED <<server, gates, history>>

\* The slot is taken and the signs of life are read before the push.
TakeSlot ==
  /\ at = "claimed" /\ confirmed /\ cur \notin fyi
  /\ at' = "pushing" /\ inflight' = cur
  /\ replied' = FALSE /\ signs' = {}
  /\ UNCHANGED <<cur, bounced, consumed, server, gates, session, history>>

PushInstruction ==
  /\ at = "pushing"
  /\ Push(cur)
  /\ lively' = FALSE
  /\ Goto(IF Fast THEN "window" ELSE "slow")
  /\ UNCHANGED <<server, gates, lost>>

\* The slot is freed.
Verdict(next) ==
  /\ at' = next /\ inflight' = None /\ signs' = {}
  /\ cur' = IF next = "gate" THEN None ELSE cur
  /\ lively' = (lively /\ next # "gate")
  /\ UNCHANGED <<replied, server, session>>

\* The push fails: the slot is free again, the message is nobody's.
PushFails ==
  /\ "stdio" \in Faults
  /\ at = "pushing" \/ (at = "claimed" /\ confirmed /\ cur \in fyi)
  /\ Verdict("gate")
  /\ lost' = lost \cup {cur}
  /\ UNCHANGED <<bounced, consumed, gates>>

\* reply_event is set, maybe at the boundary of a timeout.
Consumed ==
  /\ at \in {"window", "slow"} /\ replied
  /\ Verdict("gate")
  /\ misses' = 0
  /\ consumed' = consumed \cup {cur}
  /\ UNCHANGED <<bounced, initialized, confirmed, degraded, since, lost>>

\* Mutant: a permission request is no sign of life.
DeadOnStatus == "status" \notin signs

\* What counts as evidence that nobody consumes the channel.
NoSignOfLife == signs = {}

\* Mutant: a dead push is left unanswered, as a slow one is.
DeadMovesOn ==
  /\ at = "window" /\ ~replied /\ NoSignOfLife
  /\ Verdict("gate")
  /\ UNCHANGED <<bounced, consumed, gates, lost>>

\* The liveness window runs out without a reply.
Dead ==
  /\ at = "window" /\ ~replied /\ NoSignOfLife
  /\ Verdict("bouncing")
  /\ bounced' = bounced \cup {cur}
  /\ UNCHANGED <<consumed, gates, lost>>

AliveButSlow ==
  /\ at = "window" /\ ~replied /\ ~NoSignOfLife
  /\ Goto("slow")
  /\ UNCHANGED <<server, gates, session, history>>

\* The whole budget runs out: no bounce, a late reply still lands.
Unknown ==
  /\ at = "slow" /\ ~replied
  /\ Verdict("gate")
  /\ UNCHANGED <<bounced, consumed, gates, lost>>

\* The reply tool of the server finalizes a delivered message; the call may fail.
Finalize(m, s) ==
  /\ UNCHANGED <<fyi, lively>>
  /\ \/ status' = [status EXCEPT ![m] = IF @ = "delivered" THEN s ELSE @] /\ UNCHANGED lost
     \/ "mesh" \in Faults /\ status[m] = "delivered" /\ lost' = lost \cup {m} /\ UNCHANGED status

Acknowledge ==
  /\ at = "acking"
  /\ Finalize(cur, "acked")
  /\ Goto("gate")
  /\ UNCHANGED <<gates, session>>

Disowned ==
  /\ at = "disowning"
  /\ Finalize(cur, "bounced")
  /\ Goto("gate")
  /\ UNCHANGED <<gates, session>>

\* The bounce is sent, and counts whether or not it was recorded.
Bounce ==
  /\ at = "bouncing"
  /\ Finalize(cur, "bounced")
  /\ misses' = IF misses < DegradeAfter THEN misses + 1 ELSE misses
  /\ degraded' = (misses' >= DegradeAfter)
  /\ since' = {}
  /\ Goto("gate")
  /\ UNCHANGED <<initialized, confirmed, session>>

-----------------------------------------------------------------------------
(* The session *)

\* A sign of life reaches whoever has taken a snapshot.
Sign(s) ==
  /\ signs' = IF inflight # None THEN signs \cup {s} ELSE signs
  /\ since' = IF degraded THEN since \cup {s} ELSE since
  /\ lively' = (lively \/ at \in {"window", "slow"})
  /\ UNCHANGED <<lost, server, initialized, confirmed, degraded, misses>>
  /\ UNCHANGED <<at, cur, inflight, replied, bounced, consumed>>

StartTurn ==
  /\ alive /\ turn = None /\ todo # << >>
  /\ turn' = Head(todo) /\ todo' = Tail(todo)
  /\ Sign("status")
  /\ UNCHANGED <<alive, result, told>>

LocalTurn ==
  /\ alive /\ turn = None
  /\ turn' = "local"
  /\ Sign("status")
  /\ UNCHANGED <<alive, todo, result, told>>

\* _handle_permission stamps the activity before it decides anything.
ToolCall ==
  /\ alive /\ turn # None
  /\ Sign("activity")
  /\ UNCHANGED session

\* A turn ends with its reply's result in hand, an FYI's without one.
EndTurn ==
  /\ alive /\ turn # None
  /\ turn \in Messages \ fyi => told[turn] # None
  /\ turn' = None
  /\ Sign("status")
  /\ UNCHANGED <<alive, todo, result, told>>

\* _handle_reply calls the server.
Reply(m) ==
  /\ alive /\ turn = m /\ m \notin fyi
  /\ result[m] = None /\ told[m] = None
  /\ Finalize(m, "replied")
  /\ \/ result' = [result EXCEPT ![m] = status[m] = "delivered" /\ status'[m] = "replied"]
     \/ "mesh" \in Faults /\ result' = [result EXCEPT ![m] = FALSE]
  /\ UNCHANGED <<gates, loop, alive, todo, turn, told>>

\* Mutant: the loop is told of a reply whether or not the server recorded it.
SignalsAlways(m) == inflight = m

\* The loop is told of a reply to the message in flight that the server recorded.
Signals(m) == result[m] /\ inflight = m

\* _handle_reply has the answer, and tells loop and session.
ReplyReturns(m) ==
  /\ result[m] # None /\ told[m] = None
  /\ replied' = (replied \/ Signals(m))
  /\ told' = [told EXCEPT ![m] =
       IF result[m] THEN "delivered" ELSE IF m \in bounced THEN "bounced" ELSE "unknown"]
  /\ UNCHANGED <<server, gates, at, cur, inflight, signs, bounced, consumed>>
  /\ UNCHANGED <<alive, todo, turn, result, history>>

Park ==
  /\ "parked" \in Faults /\ alive
  /\ alive' = FALSE
  /\ UNCHANGED <<server, gates, loop, todo, turn, result, told, history>>

Return ==
  /\ ~alive
  /\ alive' = TRUE
  /\ UNCHANGED <<server, gates, loop, todo, turn, result, told, history>>

\* The controller cancels.
Cancel(m) ==
  /\ "cancel" \in Faults /\ status[m] \in {"queued", "delivered"}
  /\ status' = [status EXCEPT ![m] = "cancelled"]
  /\ UNCHANGED <<fyi, gates, loop, session, history>>

Answers == {"ok"} \cup (IF "presence" \in Faults THEN {"elsewhere", "lost", "rejected"} ELSE {})

LoopStep ==
  \/ Disown \/ PushFyi \/ TakeSlot \/ PushInstruction \/ PushFails
  \/ Consumed \/ Dead \/ AliveButSlow
  \/ Unknown \/ Acknowledge \/ Disowned \/ Bounce

Next ==
  \/ Initialized \/ \E a \in Answers : Heartbeat(a)
  \/ Poll \/ PollEmpty \/ LoopStep
  \/ \E m \in Messages : Claim(m) \/ Reply(m) \/ ReplyReturns(m) \/ Cancel(m)
  \/ StartTurn \/ LocalTurn \/ ToolCall \/ EndTurn \/ Park \/ Return

Spec == Init /\ [][Next]_vars

\* The sidecar's loops go round, announces succeed now and then, a queued message is
\* claimed by a poll in the end, and the session, while it looks, works on.
FairSpec ==
  /\ Spec
  /\ WF_vars(Initialized) /\ SF_vars(Heartbeat("ok"))
  /\ SF_vars(Poll) /\ SF_vars(\E m \in Messages : Claim(m)) /\ WF_vars(LoopStep)
  /\ SF_vars(StartTurn) /\ SF_vars(EndTurn \/ \E m \in Messages : Reply(m))
  /\ WF_vars(\E m \in Messages : ReplyReturns(m))

-----------------------------------------------------------------------------

(* A message is bounced for want of a consumer only if the session has shown no life at all *)
(* between the push and the verdict: neither a turn nor a permission request, whatever turn *)
(* it is in (ECA-83).                                                                       *)
LiveIsNotBounced == at = "bouncing" => ~lively

(* What the loop takes for answered has its answer on the server, and a session that is told *)
(* its reply was delivered can rely on it; nothing the loop gave up on is overwritten        *)
(* (FMC-13).                                                                                 *)
ConsumedIsRecorded ==
  /\ \A m \in consumed : status[m] = "replied"
  /\ \A m \in Messages : told[m] = "delivered" => status[m] = "replied"

(* If the session keeps coming back to its channel and its operator keeps working in it,    *)
(* every message the network does not swallow is answered, bounced or acknowledged: no      *)
(* verdict, no degrade and no lapse of the identity wedges the mailbox.                     *)
EveryMessageSettled ==
  []<>alive /\ []<>(turn = "local") =>
    \A m \in Messages : <>(status[m] \notin {"queued", "delivered"} \/ m \in lost)

(* A push into a session that has left its channel for good is bounced: the sender does not *)
(* wait for the reply budget.                                                               *)
DeadIsBounced ==
  \A m \in Messages :
    (Fast /\ at = "window" /\ cur = m /\ signs = {} /\ []~alive)
      ~> (status[m] # "delivered" \/ m \in lost)
=============================================================================

------------------------------- MODULE Sandbox -------------------------------
(***************************************************************************)
(* What one container reports of its job and what the spawner passes on,   *)
(* without state: the sandbox runner's setup and its fold over the         *)
(* messages of the SDK session, the event file that is written while the   *)
(* spawner tails it, and the answer that is cut to the bus's inline cap.   *)
(*                                                                         *)
(* How jobs, deliveries and containers come and go is module SpawnerJobs;  *)
(* there "done" and "error" are all that is left of a result.json.         *)
(***************************************************************************)
EXTENDS Text, Naturals, Sequences
LOCAL INSTANCE SequencesExt

CONSTANTS
  InlineCap,      \* result_inline_cap
  FrameOverhead,  \* an encoded envelope with "truncated" and an empty text
  FlagLength      \* what "truncated" takes of it

ASSUME SandboxAssumption ==
  /\ {InlineCap, FrameOverhead, FlagLength} \subseteq Nat
  /\ FlagLength <= FrameOverhead

-----------------------------------------------------------------------------
(* The runner *)

\* Limits.from_spec and what it checks: a limit left out has a default.
LimitOk(limit) == CASE limit = "default" -> TRUE [] limit = "text" -> FALSE
                    [] OTHER -> limit = "positive"

\* _run up to the session: any of this fails before there is one.
SetUp(request) ==
  /\ \A limit \in request.limits : LimitOk(limit)
  /\ request.prompt
  /\ request.clone => request.token /\ request.cloned

\* _observe.  The text is that of the last assistant message, 0 for none; a result that is
\* flagged as an error is one where its subtype says nothing else.
Fresh == [state |-> "none", text |-> 0]
Observe(o, i, message) ==
  CASE message = "text" -> [o EXCEPT !.text = i]
    [] message = "tool use" -> o
    [] message \in {"success", "other subtype"} -> [o EXCEPT !.state = "completed"]
    [] message = "max turns" -> [o EXCEPT !.state = "turn_limit"]
    [] message = "max budget" -> [o EXCEPT !.state = "budget_exceeded"]
    [] message = "error result" -> [o EXCEPT !.state = "error"]

\* Mutant: what ends the session early does not touch a state that is known.
RunJobFirst(stream, ending) ==
  LET seen == FoldLeftDomain(LAMBDA o, i : Observe(o, i, stream[i]), Fresh, stream) IN
  IF seen.state # "none" THEN seen
  ELSE [seen EXCEPT !.state = IF ending = "wall clock" THEN "timeout" ELSE "error"]

\* The session ends, exceeds wall_clock_s or raises, after some of its messages.
RunJob(stream, ending) ==
  LET seen == FoldLeftDomain(LAMBDA o, i : Observe(o, i, stream[i]), Fresh, stream) IN
  [seen EXCEPT !.state =
     CASE ending = "wall clock" -> "timeout"
       [] ending = "exception" -> "error"
       [] OTHER -> IF @ = "none" THEN "error" ELSE @]

\* result.json, written last by rename: none of it when the request cannot be read or the
\* container is killed first.
NoFile == [state |-> "no file", text |-> 0]
ResultFile(request, stream, ending) ==
  IF ~request.readable \/ ending = "killed" THEN NoFile
  ELSE IF ~SetUp(request) THEN [state |-> "error", text |-> 0]
  ELSE RunJob(stream, ending)

\* _result_envelope, and the synthetic error that stands for a file that is not there.
Envelope(report) == [ok |-> report.state = "completed", text |-> report.text]

-----------------------------------------------------------------------------
(* The event file and its tailer.  A line is written in one piece or in two. *)

\* splitlines of what a poll has read; "rest" ends a line.
Lines(data) ==
  FoldLeft(LAMBDA lines, piece :
             IF lines # <<>> /\ Last(Last(lines))[1] = "start"
             THEN Append(Front(lines), Append(Last(lines), piece))
             ELSE Append(lines, <<piece>>),
           <<>>, data)

\* poll_once: whatever there is behind the offset is published, complete or not.
Poll(t) == [t EXCEPT !.published = @ \o Lines(SubSeq(t.file, t.offset + 1, Len(t.file))),
                     !.offset = Len(t.file)]

TailStep(t, i, step) == IF step = "poll" THEN Poll(t) ELSE [t EXCEPT !.file = Append(@, <<step, i>>)]
Tailing(schedule) ==
  FoldLeftDomain(LAMBDA t, i : TailStep(t, i, schedule[i]),
                 [file |-> <<>>, offset |-> 0, published |-> <<>>], schedule)

\* Mutant: the tailer just stops when the container has ended.
TailedUndrained(schedule) == Tailing(schedule)

\* run_until: one more poll when the container has ended.
Tailed(schedule) == Poll(Tailing(schedule))

-----------------------------------------------------------------------------
(* encode_capped *)

TruncMarker == <<"newline", "newline", "dash", "letter">>

Marked(text, budget) == FirstBytes(text, budget) \o TruncMarker
FrameLength(text) == FrameOverhead + Total(text, Escaped)

\* Mutant: the estimate in UTF-8 bytes is final.
NoBackOff(text, budget) == budget

\* The budget goes down by what the frame is too long.
RECURSIVE BackedOff(_, _)
BackedOff(text, budget) ==
  LET excess == Above(FrameLength(Marked(text, budget)), InlineCap) IN
  IF excess = 0 \/ budget = 0 THEN budget ELSE BackedOff(text, Above(budget, excess))

EncodeCapped(text) ==
  IF FrameLength(text) - FlagLength <= InlineCap THEN [text |-> text, truncated |-> FALSE]
  ELSE LET estimate == Above(InlineCap, FrameLength(SubSeq(TruncMarker, 3, 4)))
       IN [text |-> Marked(text, BackedOff(text, estimate)), truncated |-> TRUE]
=============================================================================

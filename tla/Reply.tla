-------------------------------- MODULE Reply --------------------------------
(***************************************************************************)
(* What the launcher computes about one task, without state: what it keeps *)
(* and reads of the worker's output, and how the reply is cut to size.     *)
(***************************************************************************)
EXTENDS Text, Naturals, Sequences, FiniteSets
LOCAL INSTANCE SequencesExt
LOCAL INSTANCE FiniteSetsExt

CONSTANTS
  ReplyMax,       \* reply_max_bytes
  Overhead,       \* the encoded reply with result and stderr_tail empty
  StderrTail,     \* STDERR_TAIL_BYTES
  ShrinkStep,     \* the 256 bytes the last resort takes off
  OutputCap       \* MAX_SUBPROCESS_OUTPUT_BYTES

ASSUME ReplyAssumption ==
  {ReplyMax, Overhead, StderrTail, ShrinkStep, OutputCap} \subseteq Nat \ {0}

-----------------------------------------------------------------------------
(* Reply shaping *)

Marker == <<"newline", "letter", "newline">>

TruncateMiddle(s, budget) ==
  LET half == Above(budget, Bytes(Marker)) \div 2 IN
  CASE Bytes(s) <= budget -> s
    [] Bytes(s) > budget /\ budget <= Bytes(Marker) -> FirstBytes(s, budget)
    [] OTHER -> FirstBytes(s, half) \o Marker \o LastBytes(s, half)

EncodedLength(result, err) == Overhead + Total(result, Escaped) + Total(err, Escaped)

\* Mutant: the budgets are in UTF-8 bytes, and that is taken to be enough.
NeverShrunk(result, err) == result

\* The last resort: escapes have made the reply longer than its texts.
RECURSIVE Shrunk(_, _)
Shrunk(result, err) ==
  IF EncodedLength(result, err) <= ReplyMax \/ result = <<>> THEN result
  ELSE Shrunk(TruncateMiddle(result, Above(Bytes(result), ShrinkStep)), err)

\* ("truncated": false is a byte longer than true.)
ShapeReply(result, err) ==
  IF EncodedLength(result, err) + 1 <= ReplyMax
  THEN [result |-> result, stderr |-> err, truncated |-> FALSE]
  ELSE LET remaining == Above(ReplyMax, Overhead)
           newErr == TruncateMiddle(err, Lesser(StderrTail, remaining \div 4))
           newResult == TruncateMiddle(result, Above(remaining, Bytes(newErr)))
       IN [result |-> Shrunk(newResult, newErr), stderr |-> newErr, truncated |-> TRUE]

-----------------------------------------------------------------------------
(* What is kept and read of the worker's output *)

\* Mutant: chunks are dropped as long as more than the cap is held.
DropAny(chunks) ==
  LET kept(k) == FoldLeft(+, 0, SubSeq(chunks, k, Len(chunks))) IN
  SubSeq(chunks, Min({k \in 1 .. Len(chunks) + 1 : kept(k) <= OutputCap}), Len(chunks))

\* _read_capped, after each chunk: the oldest go as long as the cap is held without them.
DropOld(chunks) ==
  LET kept(k) == FoldLeft(+, 0, SubSeq(chunks, k, Len(chunks))) IN
  SubSeq(chunks, Max({1} \cup {k \in 1 .. Len(chunks) : kept(k) >= OutputCap}), Len(chunks))

\* Chunks by their lengths.
Window(stream) == FoldLeft(LAMBDA held, chunk : DropOld(Append(held, chunk)), <<>>, stream)

\* parse_codex_jsonl.  Every failure here says why.  (One that carries an empty object wipes
\* what was known before it, and the stream itself is then the detail; one without any "error"
\* counts as no failure.)
CodexStart == [thread |-> FALSE, message |-> 0, items |-> 0, completed |-> FALSE, detail |-> 0]

\* Mutant: any error event may overwrite what turn.failed said.
CodexEventLast(s, i, event) ==
  CASE event = "thread.started" -> [s EXCEPT !.thread = TRUE]
    [] event = "agent_message" -> [s EXCEPT !.items = @ + 1, !.message = i]
    [] event = "other item" -> [s EXCEPT !.items = @ + 1]
    [] event = "turn.completed" -> [s EXCEPT !.completed = TRUE]
    [] event \in {"turn.failed", "error"} -> [s EXCEPT !.detail = i]
    [] OTHER -> s

CodexEvent(s, i, event) ==
  CASE event = "thread.started" -> [s EXCEPT !.thread = TRUE]
    [] event = "agent_message" -> [s EXCEPT !.items = @ + 1, !.message = i]
    [] event = "other item" -> [s EXCEPT !.items = @ + 1]
    [] event = "turn.completed" -> [s EXCEPT !.completed = TRUE]
    [] event = "turn.failed" -> [s EXCEPT !.detail = i]
    [] event = "error" -> [s EXCEPT !.detail = IF @ = 0 THEN i ELSE @]
    [] OTHER -> s

\* The line whose text becomes the result: 0 for an empty one, the whole stream where the
\* code falls back to its tail.
ParseCodex(lines) ==
  LET end == FoldLeftDomain(LAMBDA s, i : CodexEvent(s, i, lines[i]), CodexStart, lines) IN
  [is_error |-> ~end.completed,
   from     |-> IF end.completed THEN {end.message} ELSE IF end.detail = 0 THEN DOMAIN lines
                ELSE {end.detail},
   thread   |-> end.thread]

\* parse_claude_json: one object, or a failure that carries the tail of what there was.
ParseClaude(stdout) == [is_error |-> stdout \in {"failure", "garbage"}, from |-> stdout]

\* ok in _handle_task.
TaskOk(exitCode, timedOut, isError) == exitCode = 0 /\ ~timedOut /\ ~isError

=============================================================================

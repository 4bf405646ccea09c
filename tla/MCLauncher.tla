----------------------------- MODULE MCLauncher -----------------------------
(***************************************************************************)
(* The instance of Launcher for TLC, and with it the inputs over which     *)
(* Reply and Envelopes are compared with what they are meant to compute.   *)
(***************************************************************************)
EXTENDS Launcher, Reply, Envelopes
LOCAL INSTANCE SequencesExt
LOCAL INSTANCE FiniteSetsExt

LOCAL Upto(n, S) == UNION {[1 .. k -> S] : k \in 0 .. n}

-----------------------------------------------------------------------------
(* Replies *)

\* A cut keeps to its budget in bytes, and "the ENCODED object is <= reply_max_bytes",
\* whatever the worker wrote, where the cap leaves room for stderr fully escaped; and a
\* reply that is not marked has lost nothing.
RepliesFit ==
  /\ Overhead + 6 * Lesser(StderrTail, (ReplyMax - Overhead) \div 4) <= ReplyMax
  /\ \A s \in Upto(5, {"letter", "control", "wide"}), b \in 0 .. 12 :
       Bytes(TruncateMiddle(s, b)) <= b
  /\ \A result \in Upto(6, {"letter", "control", "wide"}),
        err \in Upto(StderrTail, {"letter", "control", "wide"}) :
       LET r == ShapeReply(result, err) IN
       /\ EncodedLength(r.result, r.stderr) + (IF r.truncated THEN 0 ELSE 1) <= ReplyMax
       /\ r.truncated \/ (r.result = result /\ r.stderr = err)

-----------------------------------------------------------------------------
(* Output *)

\* However the stream is chunked, what is held at its end has the last OutputCap bytes,
\* and it is never a whole chunk more.
TailIsKept ==
  \A stream \in Upto(6, 1 .. OutputCap + 1) :
    LET total(chunks) == FoldLeft(+, 0, chunks)
        held == Window(stream)
    IN /\ total(held) >= Lesser(OutputCap, total(stream))
       /\ held # <<>> => total(Tail(held)) < OutputCap

\* The line the result is read from: the last message of a completed run; else the last
\* failure, the first error where none was reported, or all there is.
ResultLine(lines) ==
  LET those(event) == {i \in DOMAIN lines : lines[i] = event}
      last(S) == IF S = {} THEN {0} ELSE {Max(S)}
  IN IF those("turn.completed") # {} THEN last(those("agent_message"))
     ELSE IF those("turn.failed") # {} THEN last(those("turn.failed"))
     ELSE IF those("error") # {} THEN {Min(those("error"))}
     ELSE DOMAIN lines

Events == {"thread.started", "agent_message", "other item", "turn.completed", "turn.failed",
           "error", "not JSON"}

\* No event that comes late, twice or out of order changes which line the controller reads,
\* and a task is only called ok when its engine said it had finished, in time and with 0.
OutputIsRead ==
  /\ \A lines \in Upto(5, Events) : ParseCodex(lines).from = ResultLine(lines)
  /\ \A lines \in Upto(3, Events), exitCode \in {0, 1}, timedOut \in BOOLEAN :
       TaskOk(exitCode, timedOut, ParseCodex(lines).is_error) =>
         \E i \in DOMAIN lines : lines[i] = "turn.completed"
  /\ \A stdout \in {"result", "failure", "garbage"}, exitCode \in {0, 1}, timedOut \in BOOLEAN :
       TaskOk(exitCode, timedOut, ParseClaude(stdout).is_error) => stdout = "result"

-----------------------------------------------------------------------------
(* Envelopes *)

Read == <<"Read", "">>
Git == <<"Bash", "git">>
Ls == <<"Bash", "ls">>

Directories ==
  [repo |-> <<"work", "repo">>, sub |-> <<"work", "repo", "sub">>,
   twin |-> <<"work", "repo2">>, way_out |-> <<"etc">>, way_in |-> <<"work", "repo">>]

SomeEnvelopes == [
  task : {Missing, Wrong, Given("text")},
  cwd : {Missing} \cup {Given(d) : d \in DOMAIN Resolved \cup {"gone", "file", "nul"}},
  engine : {Missing, Wrong, Given("claude"), Given("codex"), Given("other")},
  allowed_tools : {Missing, Wrong, Given({}), Given({Read}), Given({Read, Ls})},
  codex_sandbox : {Missing, Wrong, Given("read-only"), Given("danger-full-access")},
  model : {Missing, Wrong, Given("name")},
  timeout_s : {Missing, Wrong, Given(0), Given(2), Given(9)}]

Policies == [allowlist : {{<<"work", "repo">>}}, engines : {{"claude"}, {"claude", "codex"}},
             tools : {{Read, Git}}, sandbox : {"workspace-write"}, cap : {5}]

\* What an envelope must say to be accepted, field by field.
Lawful(e, policy) ==
  /\ e.task = Given("text") /\ e.model # Wrong /\ e.timeout_s # Wrong
  /\ e.cwd \in {Given(d) : d \in {"repo", "sub", "way_in"}}
  /\ \/ /\ e.engine \in {Missing, Given("claude")} /\ e.codex_sandbox = Missing
        /\ e.allowed_tools \in {Missing, Given({}), Given({Read})}
     \/ /\ e.engine = Given("codex") /\ "codex" \in policy.engines
        /\ e.allowed_tools = Missing
        /\ e.codex_sandbox \in {Missing, Given("read-only")}

\* "Raises EnvelopeError on any problem; NEVER falls back": an envelope is accepted exactly
\* when every field of it is lawful, in whatever order the checks come, and then the
\* worker's command line gives it no more than the policy.
EnvelopesAreWithinPolicy ==
  \A e \in SomeEnvelopes, policy \in Policies :
    LET parsed == ParseEnvelope(e, policy) IN
    /\ parsed.error = "" <=> Lawful(e, policy)
    /\ parsed.error = "" => WithinPolicy(parsed.value, policy)

\* Whatever envelope a handler has been given and whatever its worker has written, its reply
\* fits, tells what the worker said, and the worker had no more than the policy allows.
RepliesAreRight ==
  \A m \in Messages : task[m] = "replying" =>
    RepliesFit /\ TailIsKept /\ OutputIsRead /\ EnvelopesAreWithinPolicy
=============================================================================

----------------------------- MODULE MCSpawner ------------------------------
(***************************************************************************)
(* The instance of SpawnerJobs for TLC, and with it the inputs over which  *)
(* Sandbox is compared with what a container should be said to have done.  *)
(***************************************************************************)
EXTENDS SpawnerJobs, Sandbox, FiniteSets
LOCAL INSTANCE SequencesExt
LOCAL INSTANCE FiniteSetsExt

CONSTANTS j1, j2, j3

LOCAL Upto(n, S) == UNION {[1 .. k -> S] : k \in 0 .. n}

SessionMessages ==
  {"text", "tool use", "success", "other subtype", "max turns", "max budget", "error result"}
ResultMessages == SessionMessages \ {"text", "tool use"}

Requests == [readable : BOOLEAN, prompt : BOOLEAN, clone : BOOLEAN, token : BOOLEAN,
             cloned : BOOLEAN, limits : {{"default"}, {"default", "positive"},
                                         {"default", "text"}, {"positive", "zero"}}]

\* The last message of a kind, 0 where there is none.
LastOf(stream, kinds) == Max({0} \cup {i \in DOMAIN stream : stream[i] \in kinds})

\* "Only completed is ok": a job is reported as done exactly when its request was one, its
\* session came to its end, in time, and said last that it had succeeded; its text is the
\* last thing the model said.
Reported(request, stream, ending) ==
  LET answer == Envelope(ResultFile(request, stream, ending))
      said == LastOf(stream, ResultMessages)
  IN /\ answer.ok <=>
          /\ request.readable /\ request.prompt /\ request.limits \cap {"text", "zero"} = {}
          /\ request.clone => (request.token /\ request.cloned)
          /\ ending = "over" /\ said # 0 /\ stream[said] \in {"success", "other subtype"}
     /\ answer.ok => answer.text = LastOf(stream, {"text"})

\* Every request with the shortest sessions, and every session of a request that is one.
ReportIsTrue ==
  \A ending \in {"over", "wall clock", "exception", "killed"} :
    /\ \A request \in Requests, stream \in Upto(1, SessionMessages) :
         Reported(request, stream, ending)
    /\ \A stream \in Upto(4, SessionMessages) :
         Reported(CHOOSE r \in Requests : SetUp(r) /\ r.readable, stream, ending)

\* What happens to the event file: a line is appended, or one with a poll in its midst, or
\* the tailer polls.
Pieces == [line |-> <<"start", "rest">>, torn |-> <<"start", "poll", "rest">>, poll |-> <<"poll">>]

\* Wherever the polls fall among the writes, every event is passed on once and in order, and
\* in one frame unless a poll fell within its line.
EventsArePassedOn ==
  \A steps \in Upto(6, DOMAIN Pieces) :
    LET t == Tailed(FlattenSeq([i \in DOMAIN steps |-> Pieces[steps[i]]]))
        count(kind) == Cardinality({i \in DOMAIN steps : steps[i] = kind})
    IN /\ FlattenSeq(t.published) = t.file
       /\ Len(t.published) = count("line") + 2 * count("torn")

\* "A result is NEVER silently dropped for size": a frame fits where the marker does, and
\* holds the text or the beginning of it, marked.
FramesFit ==
  \A text \in Upto(6, {"letter", "control", "wide"}) :
    LET frame == EncodeCapped(text) IN
    /\ FrameLength(TruncMarker) <= InlineCap
    /\ FrameLength(frame.text) <= InlineCap + (IF frame.truncated THEN 0 ELSE FlagLength)
    /\ IF frame.truncated
       THEN IsPrefix(SubSeq(frame.text, 1, Len(frame.text) - Len(TruncMarker)), text)
       ELSE frame.text = text

\* Whatever a job's container did, the .result that is published for it is a true report.
ReportsAreRight ==
  \A j \in Jobs : results[j] # <<>> => ReportIsTrue /\ EventsArePassedOn /\ FramesFit
=============================================================================

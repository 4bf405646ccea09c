------------------------------- MODULE MCGate -------------------------------
(***************************************************************************)
(* Gate on three kinds of lane: one with command grants and every command  *)
(* the grammar below builds, one with guard hooks and a policy hook that   *)
(* fails, one that asks questions and is interrupted.                      *)
(*                                                                         *)
(* The grammar is the reference for Split: each form is its text together  *)
(* with the commands a shell runs for it, put together from its parts and  *)
(* not by scanning.  Double quotes do not nest in it.                      *)
(***************************************************************************)
EXTENDS Gate, Ceiling

Word(c) == [text |-> <<c>>, shown |-> <<c>>, runs |-> <<>>]
Hidden(t) == [text |-> t, shown |-> t, runs |-> <<>>]
Embed(open, list, close) ==
  [text |-> open \o list.text \o close, shown |-> Placeholder, runs |-> list.runs]
Group(list) == [text |-> <<"(">> \o list.text \o <<")">>, shown |-> <<>>, runs |-> list.runs]
InQuotes(p) ==
  [text  |-> <<"\"">> \o p.text \o <<"\"">>, shown |-> <<"\"">> \o p.shown \o <<"\"">>,
   runs |-> p.runs]
Glue(p, q) ==
  [text |-> p.text \o q.text, shown |-> p.shown \o q.shown, runs |-> p.runs \o q.runs]

(* A command of one piece, and a list of two commands.                     *)
Command(p) ==
  [text |-> p.text,
   runs |-> p.runs \o IF Strip(p.shown) = <<>> THEN <<>> ELSE <<Strip(p.shown)>>]
List(c, sep, d) == [text |-> c.text \o sep \o d.text, runs |-> c.runs \o d.runs]

A == Word("a")
B == Word("b")
AThen(p) == Glue(Glue(A, Word(" ")), p)

Seps == {<<";">>, <<"&", "&">>, <<"|", "|">>, <<"|">>, <<" ", "&">>, <<NL>>}
Quotes == {Hidden(<<"'", ";", "'">>), Hidden(<<"\\", "|">>), Hidden(<<"'", "$", "(", "b", ")", "'">>),
           Hidden(<<"'", "\\", "'">>), Hidden(<<"\\", "'">>), Hidden(<<"$", "b">>),
           InQuotes(Hidden(<<";">>)), InQuotes(Hidden(<<"\\", "\"", "&">>)),
           InQuotes(Hidden(<<"'">>))}

Simple == {Command(A), Command(B), Command(AThen(B)), Command(Glue(B, A))}
         \cup {Command(AThen(p)) : p \in Quotes}
Pairs == {List(Command(A), sep, c) : sep \in Seps, c \in {Command(B), Command(AThen(B))}}
         \cup {List(Command(AThen(p)), <<";">>, Command(B)) : p \in Quotes}

Dollar(l) == Embed(<<"$", "(">>, l, <<")">>)
Tick(l) == Embed(<<"tick">>, l, <<"tick">>)
Embeds(l) == {Dollar(l), Tick(l), Embed(<<"<", "(">>, l, <<")">>), Group(l)}
Flat == {Command(A), Command(B), List(Command(A), <<";">>, Command(B)),
         List(Command(B), <<"|">>, Command(AThen(Hidden(<<"'", ")", "'">>))))}
Once == UNION {Embeds(l) : l \in Flat} \cup {InQuotes(Dollar(l)) : l \in Flat}
        \cup {InQuotes(Tick(l)) : l \in Flat}
Nested == {Command(AThen(p)) : p \in Once}
          \cup {List(Command(AThen(p)), <<"&", "&">>, Command(B)) : p \in Once}
          \cup {Command(Group(l)) : l \in Flat}
Twice == {Command(AThen(p)) : p \in {Dollar(c) : c \in Nested}}
         \cup {Command(AThen(Group(List(Command(A), <<";">>, Command(Dollar(Command(B)))))))}

Fine == {[text |-> c.text, runs |-> c.runs, fine |-> TRUE] :
           c \in Simple \cup Pairs \cup Nested \cup Twice}

(* What the gate refuses to read, after a command it would read.           *)
Tails == {<<">", "b">>, <<"<", "<", "b">>, <<"'">>, <<"\"">>, <<"tick">>, <<"$", "(", "b">>, <<"(">>,
          <<")">>, <<"#", "b">>, <<"$", "'", "b", "'">>, <<"$", "\"", "b", "\"">>, <<"\\">>, <<"\\", NL>>,
          <<"\"", "\\">>, <<"$", "(", "b", "'", ")">>,
          <<"$", "(", "$", "(", "$", "(", "b", ")", ")", ")">>}
Unread == {[text |-> c.text \o t, runs |-> <<>>, fine |-> FALSE] :
             c \in {Command(A), List(Command(A), <<";">>, Command(B))}, t \in Tails}

Nothing == {[text |-> t, runs |-> <<>>, fine |-> TRUE] : t \in {<<>>, <<" ">>, <<"(", ")">>, <<";">>}}

Scripts == Fine \cup Unread \cup Nothing

---------------------------------------------------------------------------
Bash == <<"Bash">>
Read == <<"Read">>
Jira == <<"mcp__", "jira">>
Other == <<"mcp__other">>

Shape(s) == [shape |-> s, value |-> <<>>]
Valid(v) == [shape |-> "valid", value |-> v]
Call(tool, command, path) == [tool |-> tool, command |-> command, path |-> path]

CommandLanes ==
  {[row |-> [allowed_tools |-> Valid({CommandGrant(Bash, p) : p \in ps} \cup gs),
             guard_hooks |-> Shape("absent")],
    calls |-> {Call(Bash, s.text, "none") : s \in Scripts}, faults |-> {}, most |-> 1] :
     gs \in {{}}, ps \in {{<<"a", "*">>}, {<<"a", " ", "*">>}, {<<"a", ":", "*">>, <<"b">>}, {<<"*", "b">>},
                        {<<"a", "*", "b">>, <<"*", "a">>}, {<<"*">>}, {<<"*", "$", "*">>, <<"b", "*">>},
                        {<<"a", ";", "b">>, <<"a", ">", "b">>}}}

Rows ==
  {[allowed_tools |-> t, guard_hooks |-> g] :
     t \in {Shape("absent"), Shape("malformed"), Valid({BareGrant(Read), PrefixGrant(<<"mcp__">>)}),
            Valid({BareGrant(Bash), CommandGrant(Read, <<"*">>), CommandGrant(Other, <<"a">>)})},
     g \in {Shape("absent"), Shape("malformed"), Valid(Bash :> "plain"), Valid(Bash :> "../up"),
            Valid(Read :> "plain")}}

GuardLanes ==
  {[row |-> r, most |-> 2,
    calls |-> {Call(Bash, <<"a">>, "none"), Call(Read, <<>>, "inside"), Call(Read, <<>>, "linked outside"),
               Call(Jira, <<>>, "none"), Call(Jira, <<>>, "outside"), Call(Other, <<"b">>, "none")},
    faults |-> f] : r \in Rows, f \in {{"undispatched", "raise", "emit"}, {"emit"}}}

AskLane ==
  [row |-> [allowed_tools |-> Valid({BareGrant(Bash)}), guard_hooks |-> Shape("absent")], most |-> 2,
   calls |-> {Call(AskUserQuestion, <<>>, "none"), Call(Bash, <<"a">>, "none")},
   faults |-> {"undispatched", "invalid", "emit", "stream", "cut", "crash"}]

MCLanes == CommandLanes \cup GuardLanes \cup {AskLane}

---------------------------------------------------------------------------
(* The reference: what a row grants and what a pattern means.              *)

RECURSIVE Means(_, _)
Means(pattern, text) ==
  CASE pattern = <<>> -> text = <<>>
    [] pattern # <<>> /\ Head(pattern) = "*" ->
         \E k \in 0..Len(text) : Means(Tail(pattern), SubSeq(text, k + 1, Len(text)))
    [] OTHER -> text # <<>> /\ Head(text) = Head(pattern) /\ Means(Tail(pattern), Tail(text))

(* A ":*" at the end of a pattern is a " *".                               *)
MeansGrant(g, text) ==
  IF IsSuffix(<<":", "*">>, g.pattern)
  THEN Means(SubSeq(g.pattern, 1, Len(g.pattern) - 2) \o <<" ", "*">>, text)
  ELSE Means(g.pattern, text)

Granted(call) ==
  LET field == lane.row.allowed_tools
      grants == CASE field.shape = "valid"     -> field.value
                  [] field.shape = "absent"    -> DefaultAllowedTools
                  [] field.shape = "malformed" -> {}
      mine == {g \in grants : g.kind = "matcher" /\ g.base = call.tool}
      Known(s) == s.text = call.command
  IN \/ \E g \in grants : GrantsAll(g, call.tool)
     \/ \E g \in mine : "*" \notin Range(g.pattern) /\ Strip(call.command) = g.pattern
     \/ \E s \in Scripts :
          /\ Known(s) /\ s.fine /\ s.runs # <<>>
          /\ \A i \in DOMAIN s.runs : \E g \in mine : MeansGrant(g, s.runs[i])

Inside(call) == call.path \in {"none", "inside"}

(* Whether a guard is configured for the call, and whether it let it pass: *)
(* a script that is not there lets everything pass, and so does one that   *)
(* answers with a decision the gate does not know.                         *)
Guarded(call) ==
  LET field == lane.row.guard_hooks
  IN field.shape = "valid" /\ call.tool \in DOMAIN field.value
GuardLets(c) ==
  Guarded(c.call) =>
    /\ lane.row.guard_hooks.value[c.call.tool] = "plain"
    /\ \/ c.found = "missing"
       \/ c.found = "contained" /\ c.outcome \in {"silent", "allow", "unknown"}

(* A call the policy hook was dispatched for runs only if every command of *)
(* it is granted, its path stays in the repository and its guard let it    *)
(* pass: whatever raised, timed out or could not be recorded on the way,   *)
(* and even when the CLI approved the call by itself.  One that reached    *)
(* can_use_tool is granted and inside even when the hook was skipped.      *)
RanIsAllowed ==
  \A n \in DOMAIN calls :
    LET c == calls[n]
    IN (c.step = "ran" /\ (c.dispatched \/ c.checked)) =>
         Granted(c.call) /\ Inside(c.call) /\ (c.dispatched => GuardLets(c))

(* And a call is denied only for a reason: where nothing raises, one that  *)
(* is granted and inside is denied by a guard that did not let it pass.    *)
DeniedForAReason ==
  \A n \in DOMAIN calls :
    LET c == calls[n]
    IN (c.step = "denied" /\ "raise" \notin lane.faults /\ c.call.tool # AskUserQuestion) =>
         ~Granted(c.call) \/ ~Inside(c.call) \/ ~GuardLets(c)

(* Split finds exactly the commands of every form of the grammar, in their *)
(* order, and refuses every text it cannot account for.                    *)
SplitIsExact ==
  \A s \in Scripts : LET r == Split(s.text, 0)
                     IN IF s.fine THEN r.at # 0 /\ r.segments = s.runs ELSE r.at = 0

(* The verdict on a call is that of the commands it would run.             *)
VerdictIsRight == SplitIsExact /\ RanIsAllowed /\ DeniedForAReason

(* Every ask ends, answered or not: the timer does not depend on the row.  *)
Asking(q) == q \in DOMAIN questions /\ questions[q].ask # "over"
EveryAskEnds == \A q \in 1..MaxQuestions : Asking(q) ~> ~Asking(q)
=============================================================================

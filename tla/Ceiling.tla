------------------------------ MODULE Ceiling ------------------------------
(***************************************************************************)
(* The tool ceiling of a worker's policy (worker_supervisor/gate.py): how  *)
(* a shell command is split into the commands it would run, how each is    *)
(* matched with a granted pattern, and what the policy says of one call.   *)
(*                                                                         *)
(* "tick" is the backquote.  All of it is pure: Gate's steps ask for the   *)
(* denial of a call.                                                       *)
(***************************************************************************)
EXTENDS Grants, SequencesExt

CONSTANT MaxNesting     \* _MAX_NESTING

ASSUME NestingAssumption == MaxNesting \in Nat

---------------------------------------------------------------------------
(* Splitting a command.                                                    *)

NL == "newline"
Blank == {" ", NL}
(* Mutant: a command ends only on its line.                                *)
SeparatorsInLine == {";", "|", "&"}
Separators == {";", "|", "&", NL}

(* What stands for a substitution in the command it is embedded in.        *)
Placeholder == <<"$", "(", ")">>

CharAt(text, i) == IF i \in DOMAIN text THEN text[i] ELSE "end"

RECURSIVE Strip(_)
Strip(text) ==
  IF text # <<>> /\ Head(text) \in Blank THEN Strip(Tail(text))
  ELSE IF text # <<>> /\ Last(text) \in Blank THEN Strip(Front(text))
  ELSE text

(* The first c of text at i or after it; 0 when there is none.             *)
Find(text, c, i) ==
  LET found == {j \in i..Len(text) : text[j] = c}
  IN IF found = {} THEN 0 ELSE CHOOSE j \in found : \A k \in found : j <= k

RECURSIVE FindUnescaped(_, _, _)
FindUnescaped(text, c, i) ==
  CASE CharAt(text, i) = "end" -> 0
    [] CharAt(text, i) = "\\"  -> FindUnescaped(text, c, i + 2)
    [] CharAt(text, i) = c     -> i
    [] OTHER                   -> FindUnescaped(text, c, i + 1)

(* The ")" that closes the "(" from which the count started; 0 when the    *)
(* text ends, or a quote in it is not closed, before.                      *)
RECURSIVE MatchParen(_, _, _)
MatchParen(text, i, depth) ==
  LET Over(end) == IF end = 0 THEN 0 ELSE MatchParen(text, end + 1, depth)
  IN CASE CharAt(text, i) = "end" -> 0
       [] CharAt(text, i) = "\\"  -> MatchParen(text, i + 2, depth)
       [] CharAt(text, i) = "'"   -> Over(Find(text, "'", i + 1))
       [] CharAt(text, i) = "\""  -> Over(FindUnescaped(text, "\"", i + 1))
       [] CharAt(text, i) = "("   -> MatchParen(text, i + 1, depth + 1)
       [] CharAt(text, i) = ")"   -> IF depth = 1 THEN i
                                     ELSE MatchParen(text, i + 1, depth - 1)
       [] OTHER                   -> MatchParen(text, i + 1, depth)

(* The scanner: where it stands, the command it is collecting, the         *)
(* commands it has; at 0 it has refused.                                   *)
Scanner == [at |-> 1, cur |-> <<>>, segments |-> <<>>]
Refused == [at |-> 0, cur |-> <<>>, segments |-> <<>>]

Keep(text, s, next) ==
  [s EXCEPT !.at = next, !.cur = @ \o SubSeq(text, s.at, next - 1)]

Flush(s) ==
  [s EXCEPT !.cur = <<>>,
            !.segments = IF Strip(s.cur) = <<>> THEN @ ELSE Append(@, Strip(s.cur))]

(* What starts at i, outside quotes.                                       *)
Lexeme(text, i) ==
  LET c == CharAt(text, i)
      opens == CharAt(text, i + 1) = "("
  IN CASE c = "$" /\ CharAt(text, i + 1) \in {"'", "\""} -> "unmodelled"
       [] c \in {"#", ")"}                 -> "unmodelled"
       [] c \in {"<", ">"} /\ ~opens       -> "redirection"
       [] c \in {"$", "<", ">"} /\ opens   -> "substitution"
       [] c = "\\"                         -> "escape"
       [] c = "'"                          -> "single"
       [] c = "\""                         -> "double"
       [] c = "tick"                        -> "backtick"
       [] c = "("                          -> "group"
       [] c \in Separators                 -> "separator"
       [] OTHER                            -> "character"

RECURSIVE Split(_, _), Scan(_, _, _), Step(_, _, _), Quoted(_, _, _), Hoist(_, _, _, _, _, _)

(* The text between from and end is a command of its own: its commands are *)
(* judged by themselves, and shown stands for it in the outer command.     *)
Hoist(text, s, from, end, shown, depth) ==
  LET inner == Split(SubSeq(text, from, end - 1), depth + 1)
  IN IF end = 0 \/ inner.at = 0 THEN Refused
     ELSE [at |-> end + 1, cur |-> s.cur \o shown, segments |-> s.segments \o inner.segments]

Escape(text, s) ==
  IF CharAt(text, s.at + 1) \in {"end", NL} THEN Refused ELSE Keep(text, s, s.at + 2)

Backtick(text, s, depth) ==
  Hoist(text, s, s.at + 1, FindUnescaped(text, "tick", s.at + 1), Placeholder, depth)

Substitution(text, s, depth) ==
  Hoist(text, s, s.at + 2, MatchParen(text, s.at + 1, 0), Placeholder, depth)

(* Double quotes hide the separators and not the substitutions.            *)
Quoted(text, s, depth) ==
  LET c == CharAt(text, s.at)
      next == CASE c = "\\" -> Escape(text, s)
                [] c = "tick" -> Backtick(text, s, depth)
                [] c = "$" /\ CharAt(text, s.at + 1) = "(" -> Substitution(text, s, depth)
                [] OTHER    -> Keep(text, s, s.at + 1)
  IN CASE s.at = 0 \/ c = "end" -> Refused
       [] s.at # 0 /\ c = "\""  -> Keep(text, s, s.at + 1)
       [] OTHER                 -> Quoted(text, next, depth)

Step(text, s, depth) ==
  CASE Lexeme(text, s.at) \in {"unmodelled", "redirection"} -> Refused
    [] Lexeme(text, s.at) = "escape"       -> Escape(text, s)
    [] Lexeme(text, s.at) = "single"       -> IF Find(text, "'", s.at + 1) = 0 THEN Refused
                                              ELSE Keep(text, s, Find(text, "'", s.at + 1) + 1)
    [] Lexeme(text, s.at) = "double"       -> Quoted(text, Keep(text, s, s.at + 1), depth)
    [] Lexeme(text, s.at) = "backtick"     -> Backtick(text, s, depth)
    [] Lexeme(text, s.at) = "substitution" -> Substitution(text, s, depth)
    [] Lexeme(text, s.at) = "group"        ->
         Hoist(text, s, s.at + 1, MatchParen(text, s.at, 0), <<>>, depth)
    [] Lexeme(text, s.at) = "separator"    -> [Flush(s) EXCEPT !.at = s.at + 1]
    [] OTHER                               -> Keep(text, s, s.at + 1)

Scan(text, s, depth) ==
  IF s.at = 0 THEN Refused
  ELSE IF s.at > Len(text) THEN Flush(s)
  ELSE Scan(text, Step(text, s, depth), depth)

(* _split_command_segments: the commands of text, or a refusal.            *)
Split(text, depth) ==
  IF depth > MaxNesting THEN Refused ELSE Scan(text, Scanner, depth)

---------------------------------------------------------------------------
(* Matching a command with a pattern.                                      *)

(* A trailing ":*" is a trailing wildcard after a blank.                   *)
Normalized(pattern) ==
  LET n == Len(pattern)
  IN IF n >= 2 /\ SubSeq(pattern, n - 1, n) = <<":", "*">>
     THEN SubSeq(pattern, 1, n - 2) \o <<" ", "*">> ELSE pattern

(* p and t are the places reached in pattern and text, star the last "*"   *)
(* passed and resume the place in text it has absorbed up to; 0 is none.   *)
RECURSIVE GlobFrom(_, _, _, _, _, _)
GlobFrom(pattern, text, p, t, star, resume) ==
  CASE t > Len(text) -> \A i \in p..Len(pattern) : pattern[i] = "*"
    [] t <= Len(text) /\ CharAt(pattern, p) = "*" ->
         GlobFrom(pattern, text, p + 1, t, p, t)
    [] t <= Len(text) /\ CharAt(pattern, p) \notin {"*", "end"} /\ pattern[p] = text[t] ->
         GlobFrom(pattern, text, p + 1, t + 1, star, resume)
    [] OTHER -> star # 0 /\ GlobFrom(pattern, text, star + 1, resume + 1, star, resume + 1)

GlobMatches(pattern, text) == GlobFrom(pattern, text, 1, 1, 0, 0)

---------------------------------------------------------------------------
(* What the grants of a policy let pass.                                   *)

GrantsAll(g, tool) ==
  \/ g.kind = "prefix" /\ IsPrefix(g.base, tool)
  \/ g.kind = "bare" /\ g.base = tool
  \/ g.kind = "matcher" /\ g.base = tool /\ g.pattern = <<"*">>

Patterns(grants, tool) ==
  {Normalized(g.pattern) : g \in {h \in grants : h.kind = "matcher" /\ h.base = tool}}

Literal(pattern) == \A i \in DOMAIN pattern : pattern[i] # "*"

(* ceiling_denial: why the call is refused, "none" when it passes.  A call *)
(* without a command carries the empty one.                                *)
CeilingDenial(grants, tool, command) ==
  LET patterns == Patterns(grants, tool)
      split == Split(command, 0)
  IN IF \E g \in grants : GrantsAll(g, tool) THEN "none"
     ELSE IF patterns = {} THEN "outside"
     ELSE IF Strip(command) = <<>> THEN "no command"
     ELSE IF \E p \in patterns : Literal(p) /\ Strip(command) = Strip(p) THEN "none"
     ELSE IF split.at = 0 THEN "unparseable"
     ELSE IF split.segments = <<>> THEN "empty"
     ELSE IF \A i \in DOMAIN split.segments :
               \E p \in patterns : GlobMatches(p, split.segments[i]) THEN "none"
     ELSE "outside"

=============================================================================

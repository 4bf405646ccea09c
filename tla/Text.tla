-------------------------------- MODULE Text --------------------------------
(***************************************************************************)
(* Texts as the processes that cut them to size see them: a text is a      *)
(* sequence of kinds of characters, and all that matters of a kind is its  *)
(* length in UTF-8 and in the ASCII that json.dumps makes of it.           *)
(***************************************************************************)
EXTENDS Naturals, Sequences
LOCAL INSTANCE SequencesExt
LOCAL INSTANCE FiniteSetsExt

\* A letter, a control character, a dash of the general punctuation, a character beyond the
\* BMP (two escapes), and a line end.
Utf8 == [letter |-> 1, control |-> 1, dash |-> 3, wide |-> 4, newline |-> 1]
Escaped == [letter |-> 1, control |-> 6, dash |-> 6, wide |-> 12, newline |-> 2]

Total(s, size) == FoldLeft(LAMBDA n, c : n + size[c], 0, s)
Bytes(s) == Total(s, Utf8)

\* b[:n] and b[len(b) - n:], decoded with what is left of a cut character dropped.
FirstBytes(s, n) ==
  SubSeq(s, 1, Max({k \in 0 .. Len(s) : Bytes(SubSeq(s, 1, k)) <= n}))
LastBytes(s, n) ==
  SubSeq(s, Min({k \in 1 .. Len(s) + 1 : Bytes(SubSeq(s, k, Len(s))) <= n}), Len(s))

\* The smaller of two, and a difference that stops at zero.
Lesser(a, b) == IF a <= b THEN a ELSE b
Above(a, b) == IF a > b THEN a - b ELSE 0
=============================================================================

-------------------------------- MODULE Text --------------------------------
(***************************************************************************)
(* Byte strings as the worker reads them: as the characters of their lossy *)
(* UTF-8 decoding, each with a display width (layout.rs, matching.rs,      *)
(* span.rs).  A byte is one of                                             *)
(*   "Z"   the lead of a two-byte character of width 0,                    *)
(*   "W"   the lead of a three-byte character of width 2,                  *)
(*   "T"   a continuation byte,                                            *)
(*   "^"   a control character,                                            *)
(*   any other string: a printable ASCII character, of width 1.            *)
(* An invalid sequence reads as U+FFFD, of width 1.                        *)
(***************************************************************************)
EXTENDS Integers, Sequences, SequencesExt

MinOf(a, b) == IF a < b THEN a ELSE b
MaxOf(a, b) == IF a > b THEN a ELSE b

\* The bytes of the character a byte begins; a continuation begins none.
CharLength(byte) ==
  CASE byte = "Z" -> 2 [] byte = "W" -> 3 [] byte = "T" -> 0 [] OTHER -> 1

\* How many of the bytes of its character really follow the first one.
PresentOf(bytes, n) ==
  LET at(k) == k <= Len(bytes) /\ \A i \in 2..k : bytes[i] = "T"
  IN  CHOOSE k \in 1..n : at(k) /\ (k = n \/ ~at(k + 1))

Present(bytes) == PresentOf(bytes, MaxOf(CharLength(bytes[1]), 1))

WholeChar(bytes) == CharLength(bytes[1]) = Present(bytes)

\* str::from_utf8: the length of the longest valid prefix, and the length of
\* the invalid sequence a string begins with (its maximal subpart).
ValidUpTo(bytes) ==
  LET f[i \in 1..(Len(bytes) + 1)] ==
        IF i > Len(bytes) \/ ~WholeChar(SubSeq(bytes, i, Len(bytes))) THEN i - 1
        ELSE f[i + CharLength(bytes[i])]
  IN  f[1]
ErrorLen(bytes) == Present(bytes)

\* The characters of a valid run that lies at an offset, as byte ranges.
CharsOfRun(run, offset) ==
  LET f[i \in 1..(Len(run) + 1)] ==
        IF i > Len(run) THEN <<>>
        ELSE <<[from |-> offset + i, to |-> offset + i + CharLength(run[i]) - 1]>>
             \o f[i + CharLength(run[i])]
  IN  f[1]

\* With a fault: an invalid sequence is skipped byte by byte.
BadLengthFault(rest) == 1

BadLength(rest) == ErrorLen(rest)

(***************************************************************************)
(* The characters of a string, as the ranges of its bytes: one valid run   *)
(* after the other, and one U+FFFD for each invalid sequence between them. *)
(***************************************************************************)
Run(rest, good, offset) ==
  [chars |-> CharsOfRun(SubSeq(rest, 1, good), offset), to |-> offset + good]
Replaced(offset, to) == [chars |-> <<[from |-> offset + 1, to |-> to]>>, to |-> to]

RunAt(rest, good, offset) ==
  IF good > 0 THEN Run(rest, good, offset) ELSE Replaced(offset, offset + BadLength(rest))

LossyRun(rest, offset) == RunAt(rest, ValidUpTo(rest), offset)

LossyChars(bytes) ==
  LET f[offset \in 0..Len(bytes)] ==
        LET on(run) == run.chars \o f[run.to]
        IN  IF offset = Len(bytes) THEN <<>>
            ELSE on(LossyRun(SubSeq(bytes, offset + 1, Len(bytes)), offset))
  IN  f[0]

CharCount(bytes) == Len(LossyChars(bytes))

\* The width of the character in a range; a control character has none.
WidthOf(bytes, range) ==
  IF ~WholeChar(SubSeq(bytes, range.from, range.to)) THEN 1
  ELSE CASE bytes[range.from] = "W" -> 2 [] bytes[range.from] \in {"Z", "^"} -> 0 [] OTHER -> 1

SumWidths(bytes, chars) == FoldLeft(LAMBDA sum, c : sum + WidthOf(bytes, c), 0, chars)
DisplayWidth(bytes) == SumWidths(bytes, LossyChars(bytes))

\* Whether the first n characters fit.
Fits(bytes, chars, n, budget) == SumWidths(bytes, SubSeq(chars, 1, n)) <= budget

(***************************************************************************)
(* Cut a string to a display width, before the first character that does   *)
(* not fit.                                                                *)
(***************************************************************************)
Cut(bytes, chars, n) ==
  [text |-> SubSeq(bytes, 1, IF n = 0 THEN 0 ELSE chars[n].to),
   width |-> SumWidths(bytes, SubSeq(chars, 1, n)), chars |-> n]

CutToWidth(bytes, chars, budget) ==
  LET fit(k) == \A j \in 1..k : Fits(bytes, chars, j, budget)
  IN  Cut(bytes, chars, CHOOSE k \in 0..Len(chars) : fit(k) /\ (k = Len(chars) \/ ~fit(k + 1)))

TruncateToWidth(bytes, budget) == CutToWidth(bytes, LossyChars(bytes), budget)

\* Every control byte becomes a space.
NormalizeControlBytes(bytes) == [i \in DOMAIN bytes |-> IF bytes[i] = "^" THEN " " ELSE bytes[i]]

-----------------------------------------------------------------------------
(***************************************************************************)
(* End-exclusive spans of characters, counted from 0.                      *)
(***************************************************************************)
CharSpan(from, to) == [start |-> from, end |-> MaxOf(from, to)]
SpanLen(span) == span.end - span.start
IsEmptySpan(span) == span.start = span.end
Clip(span, limit) == [start |-> MinOf(span.start, limit), end |-> MinOf(span.end, limit)]
Shift(span, by) == [start |-> span.start + by, end |-> span.end + by]

\* What a span covers of a sequence of characters.
CharsIn(chars, span) == SubSeq(chars, span.start + 1, span.end)

\* The characters themselves, an invalid sequence as U+FFFD.
DecodedChar(char) == IF WholeChar(char) THEN char ELSE <<"U+FFFD">>
DecodedChars(bytes, chars) ==
  [i \in DOMAIN chars |-> DecodedChar(SubSeq(bytes, chars[i].from, chars[i].to))]
Decoded(bytes) == DecodedChars(bytes, LossyChars(bytes))
=============================================================================

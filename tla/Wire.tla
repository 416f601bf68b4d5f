--------------------------------- MODULE Wire ---------------------------------
(***************************************************************************)
(* A render plan on the wire: what the worker writes (wire.rs serialize),  *)
(* what the reference reader accepts (wire.rs parse) and what the shell    *)
(* accepts (zrush.zsh _zrush_parse_plan).                                  *)
(*                                                                         *)
(* A body is the sequence of its fields, each ended by a NUL; a field is a *)
(* sequence of bytes, in which the name of a highlight's role counts as    *)
(* one byte.                                                               *)
(***************************************************************************)
EXTENDS Layout

Roles == {"match", "heading", "history-number"}
DecimalDigits == ToSet(DigitNames)
BlankBytes == {" ", "\t", "\n"}

Joined(parts, separator) ==
  FlattenSeq([k \in DOMAIN parts |-> (IF k > 1 THEN <<separator>> ELSE <<>>) \o parts[k]])

\* The parts of a field between separators; the empty field is one empty part.
CutAt(field, cuts) == [k \in 1..(Len(cuts) - 1) |-> SubSeq(field, cuts[k] + 1, cuts[k + 1] - 1)]
SplitAt(field, separators) ==
  CutAt(field, <<0>> \o SelectSeq([i \in DOMAIN field |-> i], LAMBDA i : field[i] \in separators)
               \o <<Len(field) + 1>>)

Words(field) == SelectSeq(SplitAt(field, BlankBytes), LAMBDA w : w # <<>>)

Numbers(ns) == Joined([k \in DOMAIN ns |-> DecimalText(ns[k])], " ")

-----------------------------------------------------------------------------
(***************************************************************************)
(* The worker's side.  A plan is Layout's, with the common prefix `cp` and *)
(* the insertion texts `inserts`.                                          *)
(***************************************************************************)
HasWindow(plan) == DOMAIN plan.window # {}

HighlightField(h) == Joined(<<(<<h.role>>), Numbers(<<h.pos, h.span.start, SpanLen(h.span)>>)>>, " ")

CellField(cell) == Numbers(<<cell.start, SpanLen(cell)>>)

Serialize(plan) ==
  LET window == IF HasWindow(plan)
                THEN Numbers(<<plan.window.offset, plan.window.total, plan.window.selected>>) ELSE <<>>
  IN  <<plan.cp, DecimalText(Len(plan.rows)), DecimalText(Len(plan.positions))>>
      \o plan.rows
      \o <<DecimalText(Len(plan.highlights))>>
      \o [k \in DOMAIN plan.highlights |-> HighlightField(plan.highlights[k])]
      \o [k \in DOMAIN plan.cells |-> CellField(plan.cells[k])]
      \o [k \in DOMAIN plan.nav |->
            Numbers(<<plan.nav[k].next, plan.nav[k].prev, plan.nav[k].left, plan.nav[k].right>>)]
      \o plan.inserts
      \o <<window, Joined(plan.indicators, "\n")>>

-----------------------------------------------------------------------------
(***************************************************************************)
(* Reading numbers.  -1 stands for whatever is not one.                    *)
(***************************************************************************)
DigitValue(byte) == (CHOOSE d \in 0..9 : DigitNames[d + 1] = byte)
IsNumber(field) == field # <<>> /\ ToSet(field) \subseteq DecimalDigits
NumberOf(field) ==
  IF IsNumber(field) THEN FoldLeft(LAMBDA n, byte : 10 * n + DigitValue(byte), 0, field) ELSE -1
CanonicalNumber(field) ==
  IF Len(field) > 1 /\ field[1] = "0" THEN -1 ELSE NumberOf(field)
NumbersOf(words) == [k \in DOMAIN words |-> NumberOf(words[k])]

(***************************************************************************)
(* What both readers ask of a body whose counts fit its fields.            *)
(***************************************************************************)
Refused == [ok |-> FALSE]

WindowOk(w, positions, lines) ==
  /\ Len(w) = 3 /\ \A k \in 1..3 : w[k] >= 0
  /\ w[1] + positions <= w[2] /\ w[3] <= positions
  /\ (positions = 0) = (w[2] = 0)
  /\ w[2] = 0 => lines = 0
  /\ w[3] = 0 => w[1] = 0

IndicatorsOk(indicators, window, rows, positions) ==
  /\ window # <<>> /\ positions > 0 /\ Len(rows) >= 2
  /\ Len(indicators) = positions + 1 /\ indicators[1] = <<>>
  /\ \A k \in 2..Len(indicators) :
       indicators[k] # <<>> /\ ToSet(indicators[k]) \subseteq DecimalDigits \cup {"/"}
  /\ Last(rows) = indicators[window[3] + 1]

RangeOk(start, len, chars) == start >= 0 /\ len >= 0 /\ start + len <= chars

MarkOk(n, positions, chars) == n[1] \in 0..positions /\ RangeOk(n[2], n[3], chars)

HighlightOk(words, positions, chars) ==
  /\ Len(words) = 4 /\ Len(words[1]) = 1 /\ words[1][1] \in Roles
  /\ MarkOk(NumbersOf(Tail(words)), positions, chars)

CellOk(n, chars) == Len(n) = 2 /\ RangeOk(n[1], n[2], chars)

NavigationOk(n, positions) == Len(n) = 4 /\ \A k \in 1..4 : n[k] \in 0..positions

Mark(role, n) == [role |-> role, pos |-> n[1], span |-> Extent(n[2], n[3])]
HighlightOf(words) == Mark(words[1][1], NumbersOf(Tail(words)))

(***************************************************************************)
(* The shell counts the bytes of an invalid sequence one by one, unless    *)
(* the string ends in it; the reference reader counts as the worker does.  *)
(***************************************************************************)
ShellCharCount(text) ==
  FoldLeft(LAMBDA n, c : n + (IF WholeChar(SubSeq(text, c.from, c.to)) \/ c.to = Len(text)
                              THEN 1 ELSE c.to - c.from + 1), 0, LossyChars(text))

CharsFor(reader, text) == IF reader = "shell" THEN ShellCharCount(text) ELSE CharCount(text)

\* The parts of a body of which the counts are lines, positions and highlights.
WindowNumbers(parts) == [k \in DOMAIN parts |-> CanonicalNumber(parts[k])]

PartsOf(body, lines, positions, highlights) ==
  LET part(from, n) == SubSeq(body, from, from + n - 1)
      tuples(fields) == [k \in DOMAIN fields |-> NumbersOf(Words(fields[k]))]
      at == 5 + lines + highlights
      window == body[Len(body) - 1]
  IN  [cp |-> body[1], rows |-> part(4, lines),
       highlights |-> [k \in 1..highlights |-> Words(body[4 + lines + k])],
       cells |-> tuples(part(at, positions)), nav |-> tuples(part(at + positions, positions)),
       inserts |-> part(at + 2 * positions, positions),
       window |-> IF window = <<>> THEN <<>> ELSE WindowNumbers(SplitAt(window, {" "})),
       indicators |-> IF Last(body) = <<>> THEN <<>> ELSE SplitAt(Last(body), {"\n"})]

PartsOk(parts, lines, positions, chars) ==
  /\ parts.window = <<>> \/ WindowOk(parts.window, positions, lines)
  /\ parts.indicators = <<>> \/ IndicatorsOk(parts.indicators, parts.window, parts.rows, positions)
  /\ \A k \in DOMAIN parts.highlights : HighlightOk(parts.highlights[k], positions, chars)
  /\ \A k \in DOMAIN parts.cells : CellOk(parts.cells[k], chars)
  /\ \A k \in DOMAIN parts.nav : NavigationOk(parts.nav[k], positions)

PlanIn(parts) ==
  LET key(n) == [next |-> n[1], prev |-> n[2], left |-> n[3], right |-> n[4]]
  IN  [parts EXCEPT
         !.highlights = [k \in DOMAIN @ |-> HighlightOf(@[k])],
         !.cells = [k \in DOMAIN @ |-> Extent(@[k][1], @[k][2])],
         !.nav = [k \in DOMAIN @ |-> key(@[k])]] @@ [ok |-> TRUE]

ReadParts(reader, parts, lines, positions) ==
  LET shown == IF parts.indicators = <<>> THEN parts.rows ELSE Front(parts.rows)
  IN  IF PartsOk(parts, lines, positions, CharsFor(reader, Joined(shown, "\n")))
      THEN PlanIn(parts) ELSE Refused

ReadPlan(reader, body, lines, positions, highlights) ==
  ReadParts(reader, PartsOf(body, lines, positions, highlights), lines, positions)

-----------------------------------------------------------------------------

\* The shell goes through the fields part by part and must end at the last two.
ShellFields(body, lines, positions, highlights) ==
  /\ 4 + lines + highlights <= Len(body)
  /\ 5 + lines + highlights + 3 * positions + 1 = Len(body)

\* The reference reader: the number of fields follows from the counts.
ReferenceFields(body, lines, positions, highlights) ==
  Len(body) = 6 + lines + highlights + 3 * positions

FieldsOk(reader, body, lines, positions, highlights) ==
  /\ Len(body) >= 6
  /\ lines >= 0 /\ positions >= 0 /\ 4 + lines <= Len(body) /\ highlights >= 0
  /\ IF reader = "shell"
     THEN /\ {lines, positions, highlights} \subseteq 0..Len(body)
          /\ ShellFields(body, lines, positions, highlights)
     ELSE ReferenceFields(body, lines, positions, highlights)

ReadBody(reader, body, lines, positions, highlights) ==
  IF FieldsOk(reader, body, lines, positions, highlights)
  THEN ReadPlan(reader, body, lines, positions, highlights) ELSE Refused

ReadFrom(reader, body, lines) ==
  ReadBody(reader, body, lines, NumberOf(body[3]), NumberOf(body[4 + lines]))

Parse(body) == ReadFrom("reference", body, NumberOf(body[2]))

ShellParse(body) == ReadFrom("shell", body, NumberOf(body[2]))
=============================================================================

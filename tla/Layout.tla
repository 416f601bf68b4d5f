------------------------------- MODULE Layout -------------------------------
(***************************************************************************)
(* The grid of a listing (layout.rs): candidates are grouped, as many      *)
(* groups as the row budget holds are laid out in columns, and the offsets *)
(* of cells, highlights and headings in the listing text are computed.     *)
(*                                                                         *)
(* A candidate is [batch, ...]; a batch has the group fields `j` and `x`;  *)
(* a cell source is [text, number, offset]: the text shown, the span of a  *)
(* history number in it (or NoSpan) and where the matched text begins (-1  *)
(* when the candidate shows another text).                                 *)
(***************************************************************************)
EXTENDS Geometry, Text

NoSpan == [start |-> -1, end |-> -1]

-----------------------------------------------------------------------------
(***************************************************************************)
(* Groups, in the order of their first candidates.                         *)
(***************************************************************************)
GroupKey(batch) ==
  IF batch.j = <<>> THEN batch.x
  ELSE IF batch.j = <<"-default-">> THEN <<>> ELSE batch.j

HeadingText(batch) == IF batch.x # <<>> THEN batch.x ELSE batch.j

GroupOf(key, batch, members, sources) ==
  [key |-> key, heading |-> IF key = <<>> THEN <<>> ELSE HeadingText(batch), members |-> members,
   maxWidth |-> FoldLeft(LAMBDA w, m : Most(w, DisplayWidth(sources[m].text)), 0, members)]

GroupsOf(keys, candidates, batches, sources) ==
  LET order == [i \in DOMAIN keys |-> i]
      first == SelectSeq(order, LAMBDA i : \A j \in 1..(i - 1) : keys[j] # keys[i])
      groupOf(i) == GroupOf(keys[i], batches[candidates[i].batch],
                            SelectSeq(order, LAMBDA j : keys[j] = keys[i]), sources)
  IN  [k \in DOMAIN first |-> groupOf(first[k])]

GroupCandidates(candidates, batches, sources) ==
  GroupsOf([i \in DOMAIN candidates |-> GroupKey(batches[candidates[i].batch])],
           candidates, batches, sources)

-----------------------------------------------------------------------------
(***************************************************************************)
(* The rows of one group: columns are filled one after the other, so cell  *)
(* (c, r) shows member (c-1)*rows + r; a history listing is drawn from the *)
(* bottom row up.                                                          *)
(***************************************************************************)
Blanks(n) == [i \in 1..n |-> " "]

PadCell(cut, width) ==
  [bytes |-> cut.text \o Blanks(width - cut.width), chars |-> cut.chars,
   padded |-> cut.chars + width - cut.width]
CellOf(source, width) == PadCell(TruncateToWidth(source.text, width), width)

\* The members shown in a row, from the left.
RowMembers(g, r) ==
  [c \in 1..Cardinality({c \in 1..g.cols : (c - 1) * g.rows + r <= g.count}) |-> (c - 1) * g.rows + r]

\* Where the cell of a column starts in its row, in characters.
CellStart(cells, c) ==
  FoldLeft(LAMBDA at, cell : at + cell.padded + Gutter, 0, SubSeq(cells, 1, c - 1))

RowBytes(cells) ==
  FlattenSeq([c \in DOMAIN cells |-> (IF c > 1 THEN Blanks(Gutter) ELSE <<>>) \o cells[c].bytes])

RowChars(cells) == CellStart(cells, Len(cells)) + Last(cells).padded

EmptyGrid == [rows |-> <<>>, lens |-> <<>>, headings |-> <<>>, cells |-> <<>>,
              positions |-> <<>>]

WithLine(grid, cut) ==
  [grid EXCEPT !.rows = Append(@, cut.text), !.lens = Append(@, cut.chars),
               !.headings = Append(@, [row |-> Len(grid.rows) + 1, len |-> cut.chars])]
WithHeading(grid, heading, width) ==
  WithLine(grid, TruncateToWidth(NormalizeControlBytes(heading), width))

WithCells(grid, cells, members, startPos, row) ==
  LET marks == [c \in DOMAIN row |->
        [row |-> Len(grid.rows) + 1, at |-> CellStart(cells, c), chars |-> cells[c].chars,
         candidate |-> members[row[c]], pos |-> startPos + row[c] - 1]]
  IN  [grid EXCEPT !.rows = Append(@, RowBytes(cells)), !.lens = Append(@, RowChars(cells)),
                   !.cells = @ \o marks]

WithRow(grid, sources, members, g, startPos, row) ==
  WithCells(grid, [c \in DOMAIN row |-> CellOf(sources[members[row[c]]], g.width)],
            members, startPos, row)

\* Which row of the group is drawn v-th.
RowAt(g, v, bottomUp) == IF bottomUp THEN g.rows - v + 1 ELSE v

WithMembers(grid, sources, members, bottomUp, g, startPos) ==
  FoldLeft(LAMBDA done, v :
             WithRow(done, sources, members, g, startPos, RowMembers(g, RowAt(g, v, bottomUp))),
           [grid EXCEPT !.positions = @ \o members], [v \in 1..g.rows |-> v])

WithGroup(grid, group, sources, width, bottomUp, g) ==
  WithMembers(IF g.heading THEN WithHeading(grid, group.heading, width) ELSE grid,
              sources, SubSeq(group.members, g.first + 1, g.first + g.count), bottomUp, g,
              Len(grid.positions) + 1)

RenderGrid(placed, groups, sources, width, bottomUp) ==
  FoldLeft(LAMBDA grid, g : WithGroup(grid, groups[g.group], sources, width, bottomUp, g),
           EmptyGrid, placed)

-----------------------------------------------------------------------------
(***************************************************************************)
(* Offsets in the whole listing, the rows joined by newlines.              *)
(***************************************************************************)
\* With a fault: the newline between two rows is not counted.
RowStartFault(lens, row) == FoldLeft(LAMBDA at, len : at + len, 0, SubSeq(lens, 1, row - 1))

RowStart(lens, row) == FoldLeft(LAMBDA at, len : at + len + 1, 0, SubSeq(lens, 1, row - 1))

NonEmpty(highlights) == SelectSeq(highlights, LAMBDA h : ~IsEmptySpan(h.span))

\* The match spans of a cell, moved behind what precedes the matched text and
\* cut to what the cell shows of it.
MatchSpans(source, spans, chars, start) ==
  IF source.offset < 0 THEN <<>>
  ELSE [k \in DOMAIN spans |->
          Shift(Clip(spans[k], Minus(chars, source.offset)), start + source.offset)]

HighlightsAt(role, pos, spans) ==
  [k \in DOMAIN spans |-> [role |-> role, pos |-> pos, span |-> spans[k]]]

NumberSpans(source, chars, start) ==
  IF source.number = NoSpan THEN <<>> ELSE <<Shift(Clip(source.number, chars), start)>>

HighlightsOf(source, spans, cell, start) ==
  HighlightsAt("history-number", cell.pos, NumberSpans(source, cell.chars, start))
  \o HighlightsAt("match", cell.pos, MatchSpans(source, spans, cell.chars, start))

CellHighlights(sources, spans, grid, cell) ==
  NonEmpty(HighlightsOf(sources[cell.candidate], spans[cell.candidate], cell,
                        RowStart(grid.lens, cell.row) + cell.at))

Extent(start, len) == CharSpan(start, start + len)

ComputeOffsets(sources, spans, grid) ==
  LET headings == [k \in DOMAIN grid.headings |->
                     Extent(RowStart(grid.lens, grid.headings[k].row), grid.headings[k].len)]
      cellAt(pos) == CHOOSE c \in ToSet(grid.cells) : c.pos = pos
      range(c) == Extent(RowStart(grid.lens, c.row) + c.at, c.chars)
  IN  [highlights |-> NonEmpty(HighlightsAt("heading", 0, headings))
                      \o FlattenSeq([k \in DOMAIN grid.cells |->
                           CellHighlights(sources, spans, grid, grid.cells[k])]),
       cells |-> [pos \in DOMAIN grid.positions |-> range(cellAt(pos))]]

-----------------------------------------------------------------------------
(***************************************************************************)
(* The plans: a history listing in one column from the bottom up, and a    *)
(* window of a completion listing with its position indicators.            *)
(***************************************************************************)
PlanOf(grid, sources, spans, nav, window, indicators, shown) ==
  ComputeOffsets(sources, spans, grid)
  @@ [rows |-> grid.rows \o shown, nav |-> nav, positions |-> grid.positions,
      window |-> window, indicators |-> indicators]

NoWindow == <<>>

Column(grid, placed, sources, spans, morePrev, moreNext) ==
  PlanOf(grid, sources, spans,
         BuildNavigation(Bounds(placed), Len(grid.positions), morePrev, moreNext),
         NoWindow, <<>>, <<>>)

Build(candidates, batches, sources, spans, budget, width, morePrev, moreNext) ==
  LET groups == GroupCandidates(candidates, batches, sources)
      placed == WindowGeometry(groups, budget, width, 1, 0)
  IN  Column(RenderGrid(placed, groups, sources, width, TRUE), placed, sources, spans,
             morePrev, moreNext)

\* The text "n/total" cut to the width.
DigitNames == <<"0", "1", "2", "3", "4", "5", "6", "7", "8", "9">>
DecimalText(n) ==
  LET f[k \in 0..n] == IF k < 10 THEN <<DigitNames[k + 1]>>
                       ELSE Append(f[k \div 10], DigitNames[(k % 10) + 1])
  IN  f[n]
IndicatorText(n, total, width) ==
  TruncateToWidth(DecimalText(n) \o <<"/">> \o DecimalText(total), width).text

Indicators(w, count, width) ==
  IF ~w.indicator THEN <<>>
  ELSE [p \in 1..(count + 1) |->
          IF p = 1 THEN <<>> ELSE IndicatorText(w.offset + p - 1, w.total, width)]

Window(grid, placed, w, sources, spans, width) ==
  LET count == Len(grid.positions)
      indicators == Indicators(w, count, width)
  IN  PlanOf(grid, sources, spans,
             BuildNavigation(Bounds(placed), count, FALSE, w.offset + count < w.total),
             [offset |-> w.offset, total |-> w.total, selected |-> w.selected], indicators,
             IF w.indicator THEN <<indicators[w.selected + 1]>> ELSE <<>>)

FromWindow(groups, w, sources, spans, width) ==
  LET placed == WindowGeometry(groups, w.rows, width, MaxCols, w.offset)
  IN  Window(RenderGrid(placed, groups, sources, width, FALSE), placed, w, sources, spans, width)

BuildCompletion(candidates, batches, sources, spans, budget, width, offset, selected) ==
  LET groups == GroupCandidates(candidates, batches, sources)
  IN  FromWindow(groups,
                 CompletionWindow(groups, Len(candidates), budget, width, offset, selected),
                 sources, spans, width)

\* The text shown, and its characters.
Listing(rows) ==
  FlattenSeq([k \in DOMAIN rows |-> (IF k > 1 THEN <<"\n">> ELSE <<>>) \o rows[k]])
=============================================================================

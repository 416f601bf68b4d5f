------------------------------ MODULE Geometry ------------------------------
(***************************************************************************)
(* The arithmetic of a listing: how many columns, rows and members of a    *)
(* group are shown, where a selection moves from each position, and which  *)
(* part of the history matches is shown (layout.rs, plan.rs).  No operator *)
(* here depends on what the candidates are.                                *)
(***************************************************************************)
EXTENDS Integers, SequencesExt

MaxCols == 8   \* columns of a completion listing at most
Gutter == 2    \* blanks between two columns

Least(a, b) == IF a < b THEN a ELSE b
Most(a, b) == IF a > b THEN a ELSE b
Minus(a, b) == Most(a - b, 0)              \* saturating_sub
DivCeil(a, b) == (a + b - 1) \div b

\* The width of the cells of a group.
GroupGmaxw(width, maxMember) == Most(Least(maxMember, width), 1)

ColumnsThatFit(gmaxw, width, maxCols) ==
  Least(Most((width + Gutter) \div (gmaxw + Gutter), 1), Most(maxCols, 1))

\* Rows that hold `count` members: no more columns than they need.
Recompressed(rows, count) == [cols |-> DivCeil(count, rows), rows |-> rows, count |-> count]

InRows(fit, rows, members) == Recompressed(rows, Least(fit * rows, members))

Grid(fit, members, budget) == InRows(fit, Least(DivCeil(members, fit), budget), members)

\* The columns, rows and members of a group shown in a row budget.
GridDims(gmaxw, width, members, budget, maxCols) ==
  Grid(ColumnsThatFit(gmaxw, width, maxCols), members, budget)

-----------------------------------------------------------------------------
(***************************************************************************)
(* Which groups, and how much of each, a row budget shows from an offset   *)
(* in the sequence of all members.  The first group shown gives up its     *)
(* heading rather than its candidates; a later group that does not fit     *)
(* ends the listing.                                                       *)
(***************************************************************************)
Count(groups) == FoldLeft(LAMBDA sum, g : sum + g.count, 0, groups)

Heading(group, done) == IF group.key # <<>> /\ done.remaining >= 2 THEN 1 ELSE 0

NoRoom(group, done) ==
  \/ done.remaining = 0
  \/ group.key # <<>> /\ Heading(group, done) = 0 /\ done.placed # <<>>

Placed(done, k, heading, gmaxw, dims) ==
  [placed |-> Append(done.placed,
     [group |-> k, first |-> done.offset, heading |-> heading = 1, width |-> gmaxw,
      cols |-> dims.cols, rows |-> dims.rows, count |-> dims.count]),
   remaining |-> done.remaining - dims.rows - heading, offset |-> 0, full |-> FALSE]

PlaceRows(group, k, width, maxCols, done, heading, gmaxw) ==
  Placed(done, k, heading, gmaxw,
         GridDims(gmaxw, width, Len(group.members) - done.offset, done.remaining - heading, maxCols))

PlaceGroup(group, k, width, maxCols, done) ==
  CASE done.full -> done
    [] ~done.full /\ done.offset >= Len(group.members) ->
         [done EXCEPT !.offset = @ - Len(group.members)]
    [] ~done.full /\ done.offset < Len(group.members) /\ NoRoom(group, done) ->
         [done EXCEPT !.full = TRUE]
    [] OTHER -> PlaceRows(group, k, width, maxCols, done, Heading(group, done),
                          GroupGmaxw(width, group.maxWidth))

WindowGeometry(groups, budget, width, maxCols, offset) ==
  FoldLeft(LAMBDA done, k : PlaceGroup(groups[k], k, width, maxCols, done),
           [placed |-> <<>>, remaining |-> budget, offset |-> offset, full |-> FALSE],
           [k \in DOMAIN groups |-> k]).placed

(***************************************************************************)
(* The window of a completion listing that holds a selected candidate: the *)
(* asked offset when the candidate is in it, the candidate itself first    *)
(* when it lies before it, and otherwise what a bisection over the offsets *)
(* up to the candidate finds.                                              *)
(***************************************************************************)
WindowEnd(groups, budget, width, offset) ==
  offset + Count(WindowGeometry(groups, budget, width, MaxCols, offset))

\* With a fault: the bisection goes on above a window that holds it.
BisectFault(groups, budget, width, selected, from, to) ==
  LET f[lo \in from..to, hi \in from..to] ==
        LET mid == lo + ((hi - lo) \div 2)
        IN  IF lo >= hi THEN lo
            ELSE IF WindowEnd(groups, budget, width, mid) > selected THEN f[lo, mid]
                 ELSE f[mid + 1, hi]
  IN  f[from, to]

Bisect(groups, budget, width, selected, from, to) ==
  LET f[lo \in from..to, hi \in from..to] ==
        LET mid == lo + ((hi - lo) \div 2)
        IN  IF lo >= hi THEN lo
            ELSE IF WindowEnd(groups, budget, width, mid) >= selected THEN f[lo, mid]
                 ELSE f[mid + 1, hi]
  IN  f[from, to]

Overflows(groups, budget, width, total) ==
  Count(WindowGeometry(groups, budget, width, MaxCols, 0)) < total

\* The first offset, from the asked one, whose window holds the candidate.
WindowStart(groups, rows, width, asked, selected) ==
  IF selected > WindowEnd(groups, rows, width, asked)
  THEN Bisect(groups, rows, width, selected, asked + 1, selected - 1)
  ELSE asked

WindowAt(start, rows, total, indicator, selected) ==
  [offset |-> start, rows |-> rows, total |-> total, indicator |-> indicator,
   selected |-> Minus(selected, start)]

WindowOf(groups, total, budget, width, offset, selected, overflow) ==
  LET indicator == overflow /\ budget > 1
      rows == Most(Minus(budget, IF indicator THEN 1 ELSE 0), 1)
      asked == IF selected = 0 \/ ~overflow THEN 0 ELSE Least(offset, selected - 1)
  IN  WindowAt(WindowStart(groups, rows, width, asked, selected), rows, total, indicator, selected)

CompletionWindow(groups, total, budget, width, offset, wanted) ==
  WindowOf(groups, total, budget, width, offset, Least(wanted, total),
           Overflows(groups, budget, width, total))

\* The bounds of each position: its group's first and last position and rows.
Bounds(placed) ==
  LET start(k) == Count(SubSeq(placed, 1, k - 1)) + 1
      bound(k) == [start |-> start(k), end |-> start(k) + placed[k].count - 1, rows |-> placed[k].rows]
  IN  FlattenSeq([k \in DOMAIN placed |-> [i \in 1..placed[k].count |-> bound(k)]])

-----------------------------------------------------------------------------

NavLeft(group, pos, morePrev) ==
  IF morePrev THEN 0 ELSE Most(group.start, Minus(pos, group.rows))

(***************************************************************************)
(* Where each key goes from each position; 0 leaves the window.  A bound   *)
(* record gives the first and last position and the rows of the group.     *)
(***************************************************************************)
BuildNavigation(bounds, positions, morePrev, moreNext) ==
  [pos \in 1..positions |->
     [next |-> IF pos = positions THEN (IF moreNext THEN 0 ELSE pos) ELSE pos + 1,
      prev |-> pos - 1,
      left |-> NavLeft(bounds[pos], pos, morePrev),
      right |-> Least(bounds[pos].end, pos + bounds[pos].rows)]]

\* The window of history matches an offset asks for.
HistoryWindow(total, offset, rows) ==
  LET from == Least(offset, Minus(total, rows))
      end == Least(from + rows, total)
  IN  [offset |-> from, end |-> end, morePrev |-> from > 0, moreNext |-> end < total]
=============================================================================

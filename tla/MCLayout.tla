------------------------------ MODULE MCLayout ------------------------------
(***************************************************************************)
(* Listings of every short sequence of candidates.  A listing grows by one *)
(* ranked candidate at a time; what is computed about its text is compared *)
(* with the text itself, read again from the first byte.                   *)
(***************************************************************************)
EXTENDS Layout

\* Cells that are cut, with a wide and with an invalid character.
Texts == {<<"a">>, <<"a", "W", "T", "T", "T">>, <<"W", "T", "a", "Z", "T", "a", "a", "a", "a">>}

\* A listing from its start, one moved by a selection, one row, one column;
\* numbered lines of the history from the bottom up.
Sizes == {[completion |-> TRUE, budget |-> 3, width |-> 8, offset |-> 0, selected |-> 0],
          [completion |-> TRUE, budget |-> 3, width |-> 4, offset |-> 1, selected |-> 2],
          [completion |-> TRUE, budget |-> 1, width |-> 8, offset |-> 0, selected |-> 3],
          [completion |-> TRUE, budget |-> 4, width |-> 4, offset |-> 0, selected |-> 1]}
         \cup [completion : {FALSE}, budget : {2, 4}, width : {3, 6, 9}, offset : {0}, selected : {0}]

VARIABLE given

candidates == given.candidates
sources == given.sources
size == given.size
Completion == size.completion
MaxCandidates == IF Completion THEN 3 ELSE 4

\* Batches: no group, a group by J, the default group, and one by X that has
\* the key of the second.
Batches == <<[j |-> <<>>, x |-> <<>>], [j |-> <<"g">>, x |-> <<"h", "W", "T", "T">>],
             [j |-> <<"-default-">>, x |-> <<"h">>], [j |-> <<>>, x |-> <<"g">>]>>

Spans(text) == <<CharSpan(0, 1), CharSpan(2, 4)>>

PlanFor(g) ==
  LET matches == [i \in DOMAIN g.sources |-> Spans(g.sources[i].text)]
  IN  IF g.size.completion
      THEN BuildCompletion(g.candidates, Batches, g.sources, matches, g.size.budget, g.size.width,
                           g.size.offset, g.size.selected)
      ELSE Build(g.candidates, Batches, g.sources, matches, g.size.budget, g.size.width, FALSE, FALSE)

Given(cs, ss, sz) ==
  LET g == [candidates |-> cs, sources |-> ss, size |-> sz]
  IN  [candidates |-> cs, sources |-> ss, size |-> sz, plan |-> PlanFor(g)]

Init == given \in {Given(<<>>, <<>>, sz) : sz \in Sizes}

Shows(text, numbered) ==
  IF numbered THEN [text |-> <<" ", "7", " ", " ">> \o text, number |-> CharSpan(1, 2), offset |-> 4]
  ELSE [text |-> text, number |-> NoSpan, offset |-> 0]

Add(batch, text, numbered) ==
  /\ Len(candidates) < MaxCandidates
  /\ given' = Given(Append(candidates, [batch |-> batch]), Append(sources, Shows(text, numbered)), size)

Next == \E batch \in DOMAIN Batches, text \in Texts :
          IF Completion
          THEN (Len(candidates) < 2 \/ text = <<"a">>) /\ Add(batch, text, FALSE)
          ELSE Add(1, text, TRUE)

Shown == given.plan

(***************************************************************************)
(* The range of each cell reads, in the listing as a whole, as the start   *)
(* of the text of the candidate that the position would insert: characters *)
(* counted per cell, row and heading add up (compute_offsets), and the     *)
(* position is the one the column-major fill gives it (render_grid).       *)
(***************************************************************************)
CellsShowTheirCandidates ==
  LET plan == Shown
      text == Decoded(Listing(plan.rows))
  IN  /\ Len(plan.cells) = Len(plan.positions)
      /\ \A p \in DOMAIN plan.cells :
           LET shown == CharsIn(text, plan.cells[p])
           IN  /\ IsPrefix(shown, Decoded(sources[plan.positions[p]].text))
               /\ Len(shown) = SpanLen(plan.cells[p])
               /\ shown = Decoded(sources[plan.positions[p]].text)
                    \/ DisplayWidth(sources[plan.positions[p]].text) > size.width
      /\ Cardinality(ToSet(plan.positions)) = Len(plan.positions)

(***************************************************************************)
(* A match highlight covers, in the listing, the characters its span       *)
(* covers in the matched text, or those of them the cell still shows; no   *)
(* highlight leaves its cell, and cells do not overlap (compute_offsets).  *)
(***************************************************************************)
HighlightsCoverTheMatch ==
  LET plan == Shown
      text == Decoded(Listing(plan.rows))
      of(p) == {h \in ToSet(plan.highlights) : h.pos = p}
  IN  /\ \A p \in DOMAIN plan.cells :
           LET source == sources[plan.positions[p]]
               visible == SubSeq(Decoded(source.text), source.offset + 1, SpanLen(plan.cells[p]))
               wanted == {CharsIn(visible, Clip(s, Len(visible))) : s \in ToSet(Spans(source.text))}
           IN  /\ \A h \in of(p) : /\ plan.cells[p].start <= h.span.start
                                   /\ h.span.end <= plan.cells[p].end
               /\ {CharsIn(text, h.span) : h \in {h \in of(p) : h.role = "match"}} = wanted \ {<<>>}
               /\ \A h \in of(p) : h.role = "history-number" => CharsIn(text, h.span) = <<(<<"7">>)>>
      /\ \A p, q \in DOMAIN plan.cells :
           p # q => plan.cells[p].end <= plan.cells[q].start \/ plan.cells[q].end <= plan.cells[p].start

Line(text, at) == Cardinality({i \in 1..at : text[i] = <<"\n">>})

(***************************************************************************)
(* The navigation table is about the grid on the screen: a jump stays in   *)
(* its row and group or ends at the group's last cell, the next position   *)
(* is one row below (above, in a history listing) or atop the next column. *)
(***************************************************************************)
NavigationFollowsTheGrid ==
  LET plan == Shown
      text == Decoded(Listing(plan.rows))
      line(p) == Line(text, plan.cells[p].start)
      key(p) == GroupKey(Batches[candidates[plan.positions[p]].batch])
  IN  \A p \in DOMAIN plan.nav :
        LET right == plan.nav[p].right
            left == plan.nav[p].left
            next == plan.nav[p].next
        IN  /\ key(right) = key(p) /\ (line(right) = line(p) \/ right = Len(plan.nav) \/ key(right + 1) # key(p))
            /\ key(left) = key(p)
            /\ line(left) = line(p) \/ (left = 1 \/ key(left - 1) # key(p))
            /\ next \notin {0, p} /\ key(next) = key(p) =>
                 line(next) = line(p) + (IF Completion THEN 1 ELSE -1) \/ line(next) < line(p)
                 \/ plan.nav[next].left = p

(***************************************************************************)
(* Nothing is drawn outside the rows and columns asked for, and whatever   *)
(* is left out is left out behind the last position, unless the window has *)
(* moved past it (window_geometry, build_completion).                      *)
(***************************************************************************)
ListingFits ==
  LET plan == Shown
  IN  /\ Len(plan.rows) <= size.budget
      /\ \A r \in DOMAIN plan.rows : DisplayWidth(plan.rows[r]) <= size.width
      /\ candidates # <<>> => plan.positions # <<>>
      /\ Completion =>
           /\ (plan.window.offset > 0 \/ Len(plan.positions) < Len(candidates)) /\ size.budget > 1
                => Len(plan.indicators) = Len(plan.positions) + 1
           /\ size.selected > 0 /\ candidates # <<>> => plan.window.selected \in DOMAIN plan.positions
=============================================================================

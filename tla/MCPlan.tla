-------------------------------- MODULE MCPlan --------------------------------
(***************************************************************************)
(* Plans for every short sequence of candidates.                           *)
(***************************************************************************)
EXTENDS Plan

Candidate(batch, w, m, d) == [w |-> w, m |-> m, d |-> d, n |-> <<>>, batch |-> batch]

\* Words, files and words with a suffix.
Pool == {Candidate(1, <<"a", "b">>, <<>>, <<>>), Candidate(1, <<".", "b">>, <<>>, <<>>),
           Candidate(2, <<"a">>, <<>>, <<>>), Candidate(2, <<".", "a">>, <<>>, <<>>),
           Candidate(3, <<"A", "W", "T", "T", "b">>, <<"a", "a">>, <<>>),
           Candidate(3, <<"b", "T">>, <<>>, <<"^", "d", "d">>)}

Request(query, mode, rows, width, selected) ==
  [producer |-> "compsys", query |-> query, mode |-> mode, smartCase |-> TRUE, rows |-> rows,
   width |-> width, trailingSpace |-> TRUE, offset |-> 0, selected |-> selected]

Requests == {Request(<<>>, "prefix", 3, 10, 0), Request(<<"a">>, "substring", 2, 4, 2),
               Request(<<".">>, "prefix", 2, 10, 1), Request(<<"b", "a">>, "typo", 3, 3, 0)}

\* History lines with numbers of one to six digits; windows of one or two rows.
HistoryPool == {[Candidate(1, <<"a", "b">>, <<>>, <<>>) EXCEPT !.n = <<"9">>],
                  [Candidate(1, <<"a", "T", "b">>, <<>>, <<>>) EXCEPT !.n = <<"1", "0">>],
                  [Candidate(1, <<"b">>, <<>>, <<>>) EXCEPT !.n = <<"1", "2", "3", "4", "5", "6">>],
                  [Candidate(1, <<"b", "a">>, <<>>, <<>>) EXCEPT !.n = <<"7">>]}

HistoryRequests ==
  {[Request(query, "substring", rows, width, 0) EXCEPT !.producer = "history", !.trailingSpace = FALSE,
                                                         !.offset = rows - 1] :
     query \in {<<>>, <<"a">>}, rows \in {1, 2}, width \in {7, 20}}

VARIABLE given

candidates == given.candidates
request    == given.request

NoFields == [tag \in {"P", "p", "S", "s", "i", "I", "ip", "f", "es", "rd", "X", "J"} |-> <<>>]

\* Words, files, and words with a suffix, in a group.
Batches == <<NoFields, [NoFields EXCEPT !.f = <<"1">>, !.rd = <<"r", "/">>, !.P = <<"q", "/">>],
             [NoFields EXCEPT !.S = <<"=">>, !.J = <<"g">>, !.ip = <<"-">>]>>

Directories == {<<"r", "/", "a">>, <<"r", "/", ".", "a">>}

Of(r) == IF r.producer = "history" THEN HistoryPool ELSE Pool
MaxCandidates == 3

Given(cs, r) ==
  [candidates |-> cs, request |-> r, plan |-> Compute(r, Batches, cs, Directories, r.selected)]

Init == given \in {Given(<<>>, r) : r \in Requests \cup HistoryRequests}

Add(c) ==
  /\ Len(candidates) < MaxCandidates
  /\ given' = Given(Append(candidates, c), request)

Next == \E c \in Of(request) : Add(c)

PlanNow == given.plan

(***************************************************************************)
(* Accepting what one sees gives what one sees: the text a position        *)
(* inserts is that of a candidate shown in the cell of this position       *)
(* (ranked index, window, group and grid position are four numberings of   *)
(* the candidates: compute_selected, build_completion).                    *)
(***************************************************************************)
InsertsAreWhatIsShown ==
  LET plan == PlanNow
      text == Decoded(Listing(plan.rows))
      shown(c, width) == Decoded(ComposeCellSource(c, width).text)
      widths == {Most(MinNumber, Len(c.n)) : c \in ToSet(candidates)}
  IN  /\ Len(plan.inserts) = Len(plan.cells)
      /\ \A p \in DOMAIN plan.inserts :
           \E i \in DOMAIN candidates :
             LET c == candidates[i]
             IN  /\ plan.inserts[p] = InsertText(Batches[c.batch], c, request.trailingSpace, Directories)
                 /\ \E width \in widths :
                      Len(c.n) <= width /\ IsPrefix(CharsIn(text, plan.cells[p]), shown(c, width))
                 /\ SpanLen(plan.cells[p]) > 0

(***************************************************************************)
(* Inserting the common prefix loses no match: whatever matches the query  *)
(* as a prefix still does when the query is the common prefix, and the     *)
(* common prefix is then the same (prefix_texts, common_prefix).           *)
(***************************************************************************)
CommonPrefixKeepsMatches ==
  LET plan == PlanNow
      prefixes(r) == PrefixTexts(candidates, Matched(r, Batches, candidates))
      extended == [request EXCEPT !.query = plan.cp]
  IN  /\ ToSet(prefixes(request)) \subseteq ToSet(prefixes(extended))
      /\ prefixes(request) = prefixes(extended) => CommonPrefix(prefixes(extended)) = plan.cp

(***************************************************************************)
(* Every plan is accepted by the shell, with the spans that matching finds *)
(* in the texts that are shown, whole or cut (spans, compute_offsets,      *)
(* _zrush_parse_plan).                                                     *)
(***************************************************************************)
PlansAreAccepted == ShellParse(Serialize(PlanNow)).ok

\* The windows of the history, each with the offset it was asked for.
Windows(total) ==
  LET from(offset) == [request EXCEPT !.offset = offset]
  IN  {[at |-> offset, plan |-> Compute(from(offset), Batches, candidates, Directories, 0)] :
         offset \in 0..total}

Covers(matched, windows) ==
  LET total == Cardinality(matched)
      text(m) == InsertText(Batches[1], candidates[m.idx], request.trailingSpace, Directories)
      walk == {w \in windows : w.at % request.rows = 0}
  IN  /\ \A w \in windows :
           /\ Len(w.plan.nav) = Least(total, request.rows)
           /\ total > 0 => (w.plan.nav[Len(w.plan.nav)].next = 0) = (w.at + request.rows < total)
      /\ {text(m) : m \in matched} = UNION {ToSet(w.plan.inserts) : w \in walk}

CoveredBy(matched) == Covers(matched, Windows(Cardinality(matched)))

(***************************************************************************)
(* A walk through the history a window at a time, up and down, shows every *)
(* match: there is a previous or next window exactly while there are older *)
(* or newer matches, and neighbouring windows leave none out               *)
(* (history_window, _zrush_history_replan).                                *)
(***************************************************************************)
HistoryWindowsCoverTheMatches ==
  request.producer = "history" => CoveredBy(ToSet(Matched(request, Batches, candidates)))
=============================================================================

--------------------------------- MODULE Plan ---------------------------------
(***************************************************************************)
(* From a query and candidates to a render plan (plan.rs compute_selected, *)
(* insert.rs).  A candidate is [w, m, d, n, batch] and a batch has a field *)
(* for every tag of its header; an absent field is the empty string.       *)
(***************************************************************************)
EXTENDS Matching, Wire

MatchText(c) == IF c.m = <<>> THEN c.w ELSE c.m
IsFileBatch(batch) == batch.f = <<"1">>
ProducerOrder(producer) == IF producer = "history" THEN "stdin" ELSE "quality"

-----------------------------------------------------------------------------
(***************************************************************************)
(* Which candidates match.  Hidden files are left out before anything else *)
(* unless the query itself begins with a dot.                              *)
(***************************************************************************)
Hidden(params, batch, c) ==
  ~StartsWith(params.query, <<".">>) /\ StartsWith(MatchText(c), <<".">>) /\ IsFileBatch(batch)

PreparedQuery(params) == Query(params.query, params.mode, params.smartCase)

Matched(params, batches, candidates) ==
  LET hits == [i \in DOMAIN candidates |->
                 [idx |-> i, hit |-> Classify(PreparedQuery(params), MatchText(candidates[i]))]]
  IN  SelectSeq(hits, LAMBDA m : /\ ~Hidden(params, batches[candidates[m.idx].batch], candidates[m.idx])
                                 /\ m.hit # NoHit)

\* What all matches of the prefix tier begin with, shown or not.
PrefixTexts(candidates, matched) ==
  LET prefixes == SelectSeq(matched, LAMBDA m : m.hit.tier = "prefix")
  IN  [k \in DOMAIN prefixes |-> MatchText(candidates[prefixes[k].idx])]

-----------------------------------------------------------------------------
(***************************************************************************)
(* What is shown of a candidate: history numbers are right-aligned in a    *)
(* column of at least MinNumber characters.                                *)
(***************************************************************************)
MinNumber == 5

NumberWidth(candidates) ==
  FoldLeft(LAMBDA w, c : Most(w, Len(c.n)), MinNumber, candidates)

ComposeCellSource(c, width) ==
  LET base == NormalizeControlBytes(IF c.d # <<>> THEN c.d ELSE MatchText(c))
      matchable == c.d = <<>>
      padding == width - Len(c.n)
  IN  IF c.n = <<>>
      THEN [text |-> base, number |-> NoSpan, offset |-> IF matchable THEN 0 ELSE -1]
      ELSE [text |-> Blanks(padding) \o c.n \o Blanks(2) \o base,
            number |-> CharSpan(padding, padding + Len(c.n)),
            offset |-> IF matchable THEN width + 2 ELSE -1]

ComposeCellSources(candidates) ==
  [k \in DOMAIN candidates |-> ComposeCellSource(candidates[k], NumberWidth(candidates))]

-----------------------------------------------------------------------------
(***************************************************************************)
(* The text a position inserts.  A directory gets a slash unless the batch *)
(* or the word already ends it; a suffix or the slash keeps the space off. *)
(* The directories are those of dirs.                                      *)
(***************************************************************************)
Synthesized(batch, c, dirs) ==
  /\ IsFileBatch(batch) /\ batch.es = <<>> /\ batch.s = <<>>
  /\ c.w = <<>> \/ Last(c.w) # "/"
  /\ (batch.rd \o MatchText(c)) \in dirs

InsertText(batch, c, trailingSpace, dirs) ==
  LET slash == Synthesized(batch, c, dirs)
      noSpace == slash \/ batch.S # <<>> \/ batch.s # <<>> \/ batch.I # <<>>
  IN  batch.ip \o batch.i \o batch.P \o batch.p \o c.w
      \o (IF slash THEN <<"/">> ELSE <<>>)
      \o batch.s \o batch.S \o batch.I
      \o (IF trailingSpace /\ ~noSpace THEN <<" ">> ELSE <<>>)

-----------------------------------------------------------------------------
\* With a fault, for checking the properties: the insertion texts are those
\* of the first candidates matched.
InsertedFault(positions, matched, ranked, k) == matched[k].idx

\* The candidate a position inserts.
Inserted(positions, matched, ranked, k) == ranked[positions[k]].idx

Chosen(candidates, ranked) == [k \in DOMAIN ranked |-> candidates[ranked[k].idx]]

Spans(params, candidates, ranked) ==
  [k \in DOMAIN ranked |->
     MatchedSpans(PreparedQuery(params), MatchText(candidates[ranked[k].idx]), ranked[k].hit)]

Groups(batches) == [b \in DOMAIN batches |-> [j |-> batches[b].J, x |-> batches[b].X]]

BuildHistory(params, batches, chosen, spans, window) ==
  Build(chosen, Groups(batches), ComposeCellSources(chosen), spans, params.rows, params.width,
        window.morePrev, window.moreNext)

BuildListing(params, batches, chosen, spans, selected) ==
  BuildCompletion(chosen, Groups(batches), ComposeCellSources(chosen), spans, params.rows,
                  params.width, params.offset, selected)

WithInserts(params, batches, candidates, dirs, matched, ranked, built) ==
  LET text(c) == InsertText(batches[c.batch], c, params.trailingSpace, dirs)
  IN  [cp |-> CommonPrefix(PrefixTexts(candidates, matched)),
       inserts |-> [k \in DOMAIN built.positions |->
                      text(candidates[Inserted(built.positions, matched, ranked, k)])]] @@ built

\* The matches in their order: a listing of all, or a window of the history.
ComputeHistory(params, batches, candidates, dirs, matched, ranked, window) ==
  WithInserts(params, batches, candidates, dirs, matched, ranked,
    BuildHistory(params, batches, Chosen(candidates, ranked), Spans(params, candidates, ranked),
                 window))

ComputeListing(params, batches, candidates, dirs, matched, ranked, selected) ==
  WithInserts(params, batches, candidates, dirs, matched, ranked,
    BuildListing(params, batches, Chosen(candidates, ranked), Spans(params, candidates, ranked),
                 selected))

ComputeRanked(params, batches, candidates, dirs, matched, ranked, selected) ==
  LET window == HistoryWindow(Len(ranked), params.offset, params.rows)
  IN  IF params.producer = "history"
      THEN ComputeHistory(params, batches, candidates, dirs, matched,
                          SubSeq(ranked, window.offset + 1, window.end), window)
      ELSE ComputeListing(params, batches, candidates, dirs, matched, ranked, selected)

ComputeMatched(params, batches, candidates, dirs, matched, selected) ==
  ComputeRanked(params, batches, candidates, dirs, matched,
                Rank(matched, ProducerOrder(params.producer)), selected)

Compute(params, batches, candidates, dirs, selected) ==
  ComputeMatched(params, batches, candidates, dirs, Matched(params, batches, candidates), selected)
=============================================================================

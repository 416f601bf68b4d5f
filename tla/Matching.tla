------------------------------ MODULE Matching ------------------------------
(***************************************************************************)
(* How a query matches a candidate, and in which order matches are listed  *)
(* (matching.rs, ranking.rs).  Texts are byte strings in the sense of      *)
(* Text; "A" and "B" are the upper case of "a" and "b".                    *)
(***************************************************************************)
EXTENDS Text, FiniteSetsExt

Modes == {"prefix", "substring", "typo"}
EditKinds == <<"exact", "transposition", "substitution", "insertion", "deletion">>

ToLower(bytes) ==
  [i \in DOMAIN bytes |-> CASE bytes[i] = "A" -> "a" [] bytes[i] = "B" -> "b" [] OTHER -> bytes[i]]

StartsWith(bytes, prefix) == IsPrefix(prefix, bytes)
From(bytes, k) == SubSeq(bytes, k, Len(bytes))

\* The prepared query: insensitive unless smart case finds an upper case letter.
Query(raw, mode, smartCase) ==
  LET fold == ~(smartCase /\ raw # ToLower(raw))
  IN  [mode |-> mode, fold |-> fold, bytes |-> IF fold THEN ToLower(raw) ELSE raw]

FoldHay(query, raw) == IF query.fold THEN ToLower(raw) ELSE raw

-----------------------------------------------------------------------------
(***************************************************************************)
(* The edit tier: some prefix of the candidate is within one edit of the   *)
(* query.  The edit is looked for at the first mismatch only.              *)
(***************************************************************************)
NoHit == [tier |-> "none"]

EditRank(em) == CHOOSE k \in DOMAIN EditKinds : EditKinds[k] = em.kind
BetterEdit(a, b) ==
  a.suffix < b.suffix \/ (a.suffix = b.suffix /\ EditRank(a) < EditRank(b))
BestEdit(readings) ==
  IF readings = {} THEN NoHit
  ELSE CHOOSE a \in readings : \A b \in readings \ {a} : BetterEdit(a, b)

Edit(kind, suffix) == [tier |-> "edit", kind |-> kind, suffix |-> suffix]

\* How many bytes two strings agree on from the start.
Agreeing(a, b) ==
  CHOOSE k \in 0..MinOf(Len(a), Len(b)) :
    /\ SubSeq(a, 1, k) = SubSeq(b, 1, k)
    /\ k = MinOf(Len(a), Len(b)) \/ a[k + 1] # b[k + 1]

\* With a fault, for checking the properties: what follows a transposition
\* is not compared.
TransposedFault(q, b, k) ==
  k + 1 < Len(q) /\ k + 1 < Len(b) /\ q[k + 1] = b[k + 2] /\ q[k + 2] = b[k + 1]

Transposed(q, b, k) ==
  /\ k + 1 < Len(q) /\ k + 1 < Len(b)
  /\ q[k + 1] = b[k + 2] /\ q[k + 2] = b[k + 1]
  /\ StartsWith(From(b, k + 3), From(q, k + 3))

\* Whether q is b but for an edit of a kind behind the k bytes they agree on.
OneEditAway(kind, q, b, k) ==
  CASE kind = "insertion" -> k < Len(b) /\ StartsWith(From(b, k + 2), From(q, k + 1))
    [] kind = "transposition" -> Transposed(q, b, k)
    [] kind = "substitution" -> k < Len(b) /\ StartsWith(From(b, k + 2), From(q, k + 2))
    [] kind = "deletion" -> StartsWith(From(b, k + 1), From(q, k + 2))

EditAt(q, b, k, total) ==
  LET m == Len(q)
  IN  CASE Len(b) + 1 < m -> NoHit
        [] Len(b) + 1 >= m /\ k = m -> Edit("exact", total - m)
        [] OTHER -> BestEdit(
             {em \in {Edit("insertion", total - (m + 1)), Edit("transposition", total - m),
                      Edit("substitution", total - m), Edit("deletion", total - (m - 1))} :
                OneEditAway(em.kind, q, b, k)})

PrefixEditWithinOne(q, cand) ==
  LET b == SubSeq(cand, 1, MinOf(Len(cand), Len(q) + 1))
  IN  EditAt(q, b, Agreeing(q, b), Len(cand))

-----------------------------------------------------------------------------
(***************************************************************************)
(* nucleo's strict subsequence match: the positions of the query in the    *)
(* candidate, leftmost, and a score that prefers adjacent ones.            *)
(***************************************************************************)
FuzzyIndices(q, cand) ==
  LET f[n \in 0..Len(q)] ==
        IF n = 0 THEN <<>>
        ELSE LET last == IF n = 1 THEN 0 ELSE Last(f[n - 1])
                 rest == {i \in (last + 1)..Len(cand) : cand[i] = q[n]}
             IN  IF Len(f[n - 1]) < n - 1 \/ rest = {} THEN f[n - 1]
                 ELSE Append(f[n - 1], Min(rest))
  IN  f[Len(q)]

FuzzyScore(q, cand) ==
  LET at == FuzzyIndices(q, cand)
  IN  IF Len(at) < Len(q) THEN 0
      ELSE 1 + Cardinality({n \in 2..Len(at) : at[n] = at[n - 1] + 1})

(***************************************************************************)
(* The tier a candidate matches in: the first of prefix, substring, edit   *)
(* and fuzzy the mode admits.                                              *)
(***************************************************************************)
Occurrences(q, cand) ==
  {pos \in 1..(Len(cand) - Len(q)) : SubSeq(cand, pos + 1, pos + Len(q)) = q}

EditAdmitted(q) == Len(q) >= 2

ClassifyLiteral(q, cand) ==
  CASE StartsWith(cand, q) -> [tier |-> "prefix", exact |-> q # <<>> /\ cand = q]
    [] ~StartsWith(cand, q) /\ Occurrences(q, cand) # {} ->
         [tier |-> "substring", pos |-> Min(Occurrences(q, cand))]
    [] OTHER -> NoHit

FuzzyHit(score) == IF score > 0 THEN [tier |-> "fuzzy", score |-> score] ELSE NoHit

ClassifyTypo(q, cand) ==
  LET edit == IF EditAdmitted(q) THEN PrefixEditWithinOne(q, cand) ELSE NoHit
  IN  IF edit # NoHit THEN edit ELSE FuzzyHit(FuzzyScore(Decoded(q), Decoded(cand)))

\* A literal hit the mode admits, or else what the typo mode finds.
Classified(mode, literal, q, cand) ==
  CASE literal.tier = "prefix" -> literal
    [] literal.tier = "substring" -> IF mode = "prefix" THEN NoHit ELSE literal
    [] literal.tier = "none" -> IF mode = "typo" THEN ClassifyTypo(q, cand) ELSE NoHit

ClassifyHay(mode, q, cand) == Classified(mode, ClassifyLiteral(q, cand), q, cand)

Classify(query, raw) == ClassifyHay(query.mode, query.bytes, FoldHay(query, raw))

\* The place of a hit in the result order, lower is better.
MatchRank(hit) ==
  CASE hit.tier = "prefix" -> <<1, IF hit.exact THEN 0 ELSE 1, 0>>
    [] hit.tier = "substring" -> <<2, hit.pos, 0>>
    [] hit.tier = "edit" -> <<3, hit.suffix, EditRank(hit)>>
    [] hit.tier = "fuzzy" -> <<4, -hit.score, 0>>

RankBefore(a, b) ==
  \E k \in 1..3 : a[k] < b[k] /\ \A j \in 1..(k - 1) : a[j] = b[j]

-----------------------------------------------------------------------------
(***************************************************************************)
(* What to highlight: character spans of the raw candidate, from the       *)
(* evidence the hit carries.                                               *)
(***************************************************************************)

CharOffset(raw, bytes) == CharCount(SubSeq(raw, 1, bytes))

\* Runs of adjacent indices, merged.
MergedSpans(indices) ==
  FoldLeft(LAMBDA out, i :
             IF out # <<>> /\ Last(out).end = i - 1
             THEN [out EXCEPT ![Len(out)].end = i] ELSE Append(out, CharSpan(i - 1, i)),
           <<>>, indices)

MatchedSpans(query, raw, hit) ==
  LET n == Len(query.bytes)
  IN  CASE n = 0 -> <<>>
        [] n > 0 /\ hit.tier = "prefix" -> <<CharSpan(0, CharOffset(raw, n))>>
        [] n > 0 /\ hit.tier = "substring" ->
             <<CharSpan(CharOffset(raw, hit.pos), CharOffset(raw, hit.pos + n))>>
        [] n > 0 /\ hit.tier = "edit" -> <<CharSpan(0, CharOffset(raw, Len(raw) - hit.suffix))>>
        [] n > 0 /\ hit.tier = "fuzzy" ->
             MergedSpans(FuzzyIndices(Decoded(query.bytes), Decoded(FoldHay(query, raw))))

\* The longest common prefix of some texts.
CommonPrefix(texts) ==
  IF texts = <<>> THEN <<>>
  ELSE FoldLeft(LAMBDA acc, t : SubSeq(acc, 1, Agreeing(acc, t)), Head(texts), Tail(texts))

-----------------------------------------------------------------------------
(***************************************************************************)
(* Ranking: approximate matches give way to literal ones, then a stable    *)
(* sort by match rank, or the incoming order for history.                  *)
(***************************************************************************)
Literal(hit) == hit.tier \in {"prefix", "substring"}

Survives(matched, m) == Literal(m.hit) \/ \A k \in DOMAIN matched : ~Literal(matched[k].hit)

Sorted(kept) ==
  LET before(i, j) == \/ RankBefore(MatchRank(kept[i].hit), MatchRank(kept[j].hit))
                      \/ MatchRank(kept[i].hit) = MatchRank(kept[j].hit) /\ i < j
      sorted == SetToSortSeq(DOMAIN kept, before)
  IN  [k \in DOMAIN kept |-> kept[sorted[k]]]

Ordered(kept, order) == IF order = "stdin" THEN kept ELSE Sorted(kept)

Rank(matched, order) == Ordered(SelectSeq(matched, LAMBDA m : Survives(matched, m)), order)
=============================================================================

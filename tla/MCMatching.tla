----------------------------- MODULE MCMatching -----------------------------
(***************************************************************************)
(* Matching over every short query and candidate.  A query and two         *)
(* candidates grow byte by byte; tiers, highlighted spans and the order of *)
(* the two candidates are compared with what the words mean.               *)
(***************************************************************************)
EXTENDS Matching

\* Letters of both cases; a two-byte character, whole, cut and stray; two
\* candidates in every pair of tiers.  A candidate may be two bytes longer than
\* the query.
Alphabets == {[bytes |-> {"a", "b", "A"}, query |-> 3, cands |-> 1],
              [bytes |-> {"a", "Z", "T"}, query |-> 3, cands |-> 1],
              [bytes |-> {"a", "b"}, query |-> 2, cands |-> 2]}
MaxCandidate == 5
SmartCase == TRUE

VARIABLE given

query == given.query   \* the query typed so far
cand  == given.cand    \* the candidate being matched
other == given.other   \* a candidate listed before it

Bytes    == given.over.bytes
MaxQuery == given.over.query

Init == given \in [over : Alphabets, query : {<<>>}, cand : {<<>>}, other : {<<>>}]
TypeQuery(b) == Len(query) < MaxQuery /\ given' = [given EXCEPT !.query = Append(@, b)]
GrowCandidate(b) == Len(cand) < MaxCandidate /\ given' = [given EXCEPT !.cand = Append(@, b)]
NextCandidate ==
  /\ given.over.cands = 2 /\ other = <<>> /\ cand # <<>>
  /\ given' = [given EXCEPT !.other = cand, !.cand = <<>>]

Next == NextCandidate \/ \E b \in Bytes : TypeQuery(b) \/ GrowCandidate(b)

Q(mode) == Query(query, mode, SmartCase)
Hit(mode) == Classify(Q(mode), cand)

(***************************************************************************)
(* The strings one edit away from q: every byte of the alphabet at every   *)
(* position, with no regard to where q and a candidate first differ.       *)
(***************************************************************************)
Edited(q, kind) ==
  CASE kind = "transposition" ->
         {[q EXCEPT ![i] = q[i + 1], ![i + 1] = q[i]] : i \in 1..(Len(q) - 1)}
    [] kind = "substitution" -> {[q EXCEPT ![i] = b] : i \in 1..Len(q), b \in Bytes}
    [] kind = "insertion" -> {InsertAt(q, i, b) : i \in 1..(Len(q) + 1), b \in Bytes}
    [] kind = "deletion" -> {RemoveAt(q, i) : i \in 1..Len(q)}

Readings(q, c) ==
  UNION {{Edit(kind, Len(c) - Len(p)) : p \in {p \in Edited(q, kind) : IsPrefix(p, c)}} :
         kind \in {"transposition", "substitution", "insertion", "deletion"}}

(***************************************************************************)
(* Looking for the edit at the first mismatch finds what a search of all   *)
(* edits at all places finds, and the best reading of it                   *)
(* (prefix_edit_within_one claims the anchoring is exhaustive).            *)
(***************************************************************************)
EditSearchIsExhaustive ==
  query # <<>> /\ ~IsPrefix(query, cand) =>
    PrefixEditWithinOne(query, cand) = BestEdit(Readings(query, cand))

(***************************************************************************)
(* A stronger mode keeps every match of a weaker one, with the same tier,  *)
(* and a query of one byte never matches by an edit (classify).            *)
(***************************************************************************)
Cumulative(prefix, substring, typo) ==
  /\ prefix # NoHit => substring = prefix
  /\ substring # NoHit => typo = substring
  /\ Len(query) = 1 => typo.tier # "edit"
  /\ typo.tier \in {"prefix", "substring"}
       <=> \E i \in 0..Len(cand) :
             IsPrefix(Q("typo").bytes, From(FoldHay(Q("typo"), cand), i + 1))

ModesAreCumulative == Cumulative(Hit("prefix"), Hit("substring"), Hit("typo"))

(***************************************************************************)
(* Highlighted spans are ordered, apart, inside the text as displayed, and *)
(* for a query of whole characters a literal match highlights the query    *)
(* itself (spans, over the lossy reading of the raw candidate).            *)
(***************************************************************************)
SpansShow(hit, spans, shown) ==
  /\ \A k \in DOMAIN spans : /\ spans[k].start <= spans[k].end
                             /\ spans[k].end <= CharCount(cand)
                             /\ k > 1 => spans[k - 1].end < spans[k].start
  /\ (Literal(hit) /\ query # <<>> /\ \A c \in ToSet(Decoded(query)) : c # <<"U+FFFD">>)
       => CharsIn(shown, spans[1]) = Decoded(Q("typo").bytes)
  /\ hit.tier = "fuzzy" =>
       FlattenSeq([k \in DOMAIN spans |-> CharsIn(shown, spans[k])]) = Decoded(Q("typo").bytes)

HitShown(hit) ==
  hit # NoHit => SpansShow(hit, MatchedSpans(Q("typo"), cand, hit),
                           Decoded(FoldHay(Q("typo"), cand)))

SpansShowTheMatch == HitShown(Hit("typo"))

Matched ==
  SelectSeq(<<[id |-> 1, hit |-> Hit("typo")], [id |-> 2, hit |-> Classify(Q("typo"), other)]>>,
            LAMBDA m : m.hit # NoHit)

(***************************************************************************)
(* The order of the result: a literal match hides approximate ones, the    *)
(* stricter tier comes first, equals keep their order, and history keeps   *)
(* its order whatever the quality (rank).                                  *)
(***************************************************************************)
Stable(matched, ranked) ==
  LET weaker(i, j) == RankBefore(MatchRank(ranked[j].hit), MatchRank(ranked[i].hit))
  IN  /\ \A i \in DOMAIN ranked, j \in DOMAIN ranked :
           i < j => ~weaker(i, j)
                    /\ (MatchRank(ranked[i].hit) = MatchRank(ranked[j].hit)
                          => ranked[i].id < ranked[j].id)
      /\ Cardinality({Literal(ranked[i].hit) : i \in DOMAIN ranked}) <= 1
      /\ ToSet(ranked) = ToSet(Rank(matched, "stdin"))
      /\ matched # <<>> => ranked # <<>>

StableOrder(matched) == Stable(matched, Rank(matched, "quality"))

RankingIsStable == StableOrder(Matched)

(***************************************************************************)
(* The common prefix is one of all the texts, and no longer one is.        *)
(***************************************************************************)
CommonPrefixIsLongest ==
  LET texts == <<cand, other, query>>
      cp == CommonPrefix(texts)
  IN  /\ \A k \in DOMAIN texts : IsPrefix(cp, texts[k])
      /\ \E k \in DOMAIN texts : \/ texts[k] = cp
                                 \/ texts[k][Len(cp) + 1] # texts[1][Len(cp) + 1]
                                 \/ Len(texts[1]) = Len(cp)
=============================================================================

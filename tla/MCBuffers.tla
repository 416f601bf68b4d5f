------------------------------ MODULE MCBuffers ------------------------------
(***************************************************************************)
(* Buffers of every shape, typed piece by piece: single bytes where the    *)
(* boundaries of words are looked at, whole words where their meaning is.  *)
(***************************************************************************)
EXTENDS Syntax

VARIABLES buffer, typed, shape   \* the buffer, pieces typed, what pieces they are

Letters == {<<"a">>, <<" ">>, <<"'">>, <<"\\">>}
\* Words with the blank behind them, a redirect, separators.
Shapes ==
  [s \in {"quotes", "characters", "words"} |->
     CASE s = "quotes" -> [pieces |-> Letters \cup {<<"\"">>, <<"$">>, <<";">>, <<"x">>}, most |-> 6]
       [] s = "characters" -> [pieces |-> Letters \cup {<<"Z">>, <<"W">>, <<"T">>}, most |-> 5]
       [] s = "words" ->
            [pieces |-> {<<"sudo", " ">>, <<"-", "u", " ">>, <<"ls", " ">>, <<"x", " ">>, <<"x", "=", " ">>,
                         <<"if", " ">>, <<">">>, <<";", ";">>}, most |-> 5]]

Init == buffer = <<>> /\ typed = 0 /\ shape \in DOMAIN Shapes
Type(piece) ==
  /\ typed < Shapes[shape].most /\ typed' = typed + 1
  /\ buffer' = buffer \o piece /\ UNCHANGED shape
Next == \E piece \in Shapes[shape].pieces : Type(piece)

Words(tokens) == SelectSeq(tokens, LAMBDA t : t.kind = "Word")

-----------------------------------------------------------------------------
(***************************************************************************)
(* Quoting as a reader goes through it, byte by byte: inside which quote a *)
(* byte stands, and whether a backslash precedes it.                       *)
(***************************************************************************)
Quote(at, byte, last) ==
  CASE at.escaped -> [at EXCEPT !.escaped = FALSE]
    [] ~at.escaped /\ byte = "\\" /\ at.quote # "single" -> [at EXCEPT !.escaped = TRUE]
    [] ~at.escaped /\ byte = "'" /\ at.quote = "none" ->
         [at EXCEPT !.quote = IF last = "$" /\ at.dollar THEN "dollar" ELSE "single"]
    [] ~at.escaped /\ byte = "\"" /\ at.quote = "none" -> [at EXCEPT !.quote = "double"]
    [] ~at.escaped /\ byte = "'" /\ at.quote \in {"single", "dollar"} -> [at EXCEPT !.quote = "none"]
    [] ~at.escaped /\ byte = "\"" /\ at.quote = "double" -> [at EXCEPT !.quote = "none"]
    [] OTHER -> at

\* Before each byte, and behind the last, when the reader begins at a byte.
ReadingsFrom(from) ==
  LET f[i \in from..(Len(buffer) + 1)] ==
        IF i = from THEN [quote |-> "none", escaped |-> FALSE, dollar |-> FALSE]
        ELSE LET last == IF i = from + 1 THEN "none" ELSE buffer[i - 2]
             IN  [Quote(f[i - 1], buffer[i - 1], last) EXCEPT
                    !.dollar = buffer[i - 1] = "$" /\ f[i - 1].quote = "none" /\ ~f[i - 1].escaped]
  IN  f

WordsAreRuns(words, bare, readings) ==
  LET inWord(i) == i \in DOMAIN buffer \ bare
  IN  /\ \A k \in DOMAIN words :
           /\ \A i \in words[k].from..(words[k].to - 1) : inWord(i)
           /\ ~inWord(words[k].from - 1) /\ ~inWord(words[k].to)
      /\ \A i \in DOMAIN buffer : inWord(i) =>
           \E k \in DOMAIN words : i \in words[k].from..(words[k].to - 1)
      /\ \A k \in DOMAIN words : words[k].ok =>
           readings[words[k].to].quote = "none" /\ ~readings[words[k].to].escaped

WordsFollow(readings) ==
  WordsAreRuns(Words(Tokenize(buffer)),
               {i \in DOMAIN buffer : readings[i].quote = "none" /\ ~readings[i].escaped
                                      /\ buffer[i] \in {" ", ";", "\n", ">"}},
               readings)

(***************************************************************************)
(* The words of a buffer are its maximal runs without a bare white space   *)
(* or operator byte, a byte being bare when no quote or backslash is       *)
(* before it (tokenize and the scan_* functions, which jump over quotes).  *)
(***************************************************************************)
QuotingDecidesWords ==
  shape # "words" => WordsFollow(ReadingsFrom(1))

(***************************************************************************)
(* Read as characters, a token covers its own bytes, whole or invalid, so  *)
(* that highlights never slip, and the shell accepts all of them           *)
(* (LossyOffsets, serialize_highlights, _zrush_parse_highlight).  Escapes  *)
(* are left out: one ends inside a character when it escapes a wide one.   *)
(***************************************************************************)
Ranges(t) == IF t.kind = "Word" THEN <<t>> \o t.decorations ELSE <<t>>
SpansShow(text, tokens) ==
  /\ AcceptsHighlights(SerializeHighlights(Analyze(buffer)), Len(text))
  /\ \A k \in DOMAIN tokens : \A r \in ToSet(Ranges(tokens[k])) :
       r.kind # "Escape" =>
         CharsIn(text, TokenSpan(buffer, r)) = Decoded(SubSeq(buffer, r.from, r.to - 1))

SpansReadTheTokens ==
  shape = "characters" => SpansShow(Decoded(buffer), Tokenize(buffer))

-----------------------------------------------------------------------------
Kinds(tokens) == [k \in DOMAIN tokens |-> tokens[k].kind]

CommandKinds == {"Command", "Unknown", "Alias", "Function", "Builtin"}

(***************************************************************************)
(* Once a command word is found, everything up to the next separator is    *)
(* its arguments: no other command, no assignment, no precommand, no       *)
(* reserved word (analyze).                                                *)
(***************************************************************************)
ArgumentsFollowTheCommand(kinds) ==
  \A k \in DOMAIN kinds, j \in DOMAIN kinds :
    (k < j /\ kinds[k] \in CommandKinds /\ \A i \in k..j : kinds[i] # "Operator")
      => kinds[j] \in {"Word", "Option", "Redirect", "Path"}

(***************************************************************************)
(* A redirect and its word change nothing of what the other words mean     *)
(* (syntax.md: a redirect does not change the command position).           *)
(***************************************************************************)
RedirectsAreTransparent(tokens, kinds) ==
  LET without(k) == SubSeq(buffer, 1, tokens[k].from - 1)
                    \o SubSeq(buffer, tokens[k + 1].to, Len(buffer))
  IN  \A k \in 1..(Len(tokens) - 1) :
        (tokens[k].kind = "Redirect" /\ tokens[k + 1].kind = "Word"
         /\ (k = 1 \/ tokens[k - 1].kind # "Redirect"))
          => Kinds(Analyze(without(k))) = SubSeq(kinds, 1, k - 1) \o SubSeq(kinds, k + 2, Len(kinds))

(***************************************************************************)
(* What stands behind a separator is classified as if nothing were before  *)
(* it (analyze resets every part of its state).                            *)
(***************************************************************************)
ListsAreIndependent(tokens, kinds) ==
  \A k \in DOMAIN tokens : tokens[k].kind = "Operator" =>
    Kinds(Analyze(SubSeq(buffer, tokens[k].to, Len(buffer)))) = SubSeq(kinds, k + 1, Len(kinds))

PositionsHold(tokens, kinds) ==
  /\ ArgumentsFollowTheCommand(kinds)
  /\ RedirectsAreTransparent(tokens, kinds)
  /\ ListsAreIndependent(tokens, kinds)

CommandsAreInPosition ==
  shape = "words" => PositionsHold(Tokenize(buffer), Kinds(Analyze(buffer)))
=============================================================================

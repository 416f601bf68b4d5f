------------------------------- MODULE Syntax -------------------------------
(***************************************************************************)
(* The buffer lexer (syntax.rs): a command line is cut into words and      *)
(* structural tokens, quotes, escapes and substitutions inside words are   *)
(* noted as decorations, and each word is classified by where it stands    *)
(* and what the shell knows of its name.                                   *)
(*                                                                         *)
(* A buffer is a sequence of bytes in the sense of Text; a name such as    *)
(* "sudo" stands for a run of ordinary characters, as one byte of its own; *)
(* "BQ" is a backtick.                                                     *)
(***************************************************************************)
EXTENDS Text, FiniteSets

CONSTANTS Reserved, Aliases, Functions, Builtins,   \* the namespace snapshot
          NameBytes,     \* bytes that stand for characters of a name
          Executables,   \* commands, as literals, that a lookup finds
          Paths,         \* literals that exist as files
          InteractiveComments

-----------------------------------------------------------------------------
(***************************************************************************)
(* Structural tokens.                                                      *)
(***************************************************************************)
\* In the order they are tried, the longer ones first.
Operators ==
  << <<"<", "<", "<">>, <<";", ";", "&">>, <<">", ">", "&">>, <<"&", "&">>, <<"|", "|">>,
     <<";", ";">>, <<";", "&">>, <<">", ">">>, <<"<", "<">>, <<"<", "&">>, <<">", "&">>,
     <<"<", ">">>, <<">", "|">>, <<";">>, <<"|">>, <<"&">>, <<"(">>, <<")">>, <<"<">>, <<">">> >>

\* The length of the operator at i, or 0.
OperatorLen(input, i) ==
  LET k == SelectInSeq(Operators, LAMBDA op : IsPrefix(op, SubSeq(input, i, Len(input))))
  IN  IF k = 0 THEN 0 ELSE Len(Operators[k])

\* Redirects are the operators with one of these at their head.
IsRedirect(first) == first \in {"<", ">"}

Separators ==
  {<<"\n">>, <<";">>, <<";", ";">>, <<";", "&">>, <<";", ";", "&">>, <<"&", "&">>, <<"|", "|">>,
   <<"|">>, <<"&">>, <<"(">>, <<")">>}
IsCommandSeparator(op) == op \in Separators

Blanks == {" "}   \* white space other than a newline
GlobBytes == {"*", "?", "[", "]", "{", "}", "~"}

-----------------------------------------------------------------------------
(***************************************************************************)
(* Pieces of a word.  A piece ends before byte "to"; it adds bytes to the  *)
(* literal the word stands for, as long as `ok`, and decorations.          *)
(***************************************************************************)
Nothing(to) == [to |-> to, literal |-> <<>>, ok |-> TRUE, plain |-> TRUE, decorations |-> <<>>]

Then(a, b) ==
  [to |-> b.to, literal |-> a.literal \o b.literal, ok |-> a.ok /\ b.ok,
   plain |-> a.plain /\ b.plain, decorations |-> a.decorations \o b.decorations]

Raw(byte, i) == [Nothing(i + 1) EXCEPT !.literal = <<byte>>]
Decoration(kind, from, to) == [kind |-> kind, from |-> from, to |-> to]

\* What a quote adds, from its start: the pieces inside, then the decoration.
Quoted(kind, from, inside) ==
  [inside EXCEPT !.plain = FALSE, !.decorations = Append(@, Decoration(kind, from, inside.to))]

Unterminated(input) == [Nothing(Len(input) + 1) EXCEPT !.ok = FALSE]

Lookahead(input, i, bytes) == i < Len(input) /\ input[i + 1] \in bytes

\* A backslash and the byte behind it.  Inside $'...' some letters stand for
\* another byte, which the literal takes, `x` with two digits behind it for the
\* byte of that number, which is named by them, and any other for none.
ControlBytes ==
  [a |-> "BEL", b |-> "BS", e |-> "ESC", f |-> "\f", n |-> "\n", r |-> "\r", t |-> "\t", v |-> "VT"]
HexDigits ==
  {"0", "1", "2", "3", "4", "5", "6", "7", "8", "9",
   "a", "b", "c", "d", "e", "f", "A", "B", "C", "D", "E", "F"}

\* What the bytes from j on mean, and how many there are behind the first.
Meaning(literal, more) == [ok |-> TRUE, literal |-> literal, more |-> more]
NoMeaning == [Meaning(<<>>, 0) EXCEPT !.ok = FALSE]

DecodedEscape(input, j) ==
  CASE input[j] \in DOMAIN ControlBytes -> Meaning(<<ControlBytes[input[j]]>>, 0)
    [] input[j] \in {"\\", "'", "\""} -> Meaning(<<input[j]>>, 0)
    [] input[j] = "x" /\ j + 2 <= Len(input) /\ {input[j + 1], input[j + 2]} \subseteq HexDigits ->
         Meaning(<<input[j + 1] \o input[j + 2]>>, 2)
    [] OTHER -> NoMeaning

\* With a fault, for checking the properties: the byte behind the backslash keeps its meaning.
EscapeEndFault(input, i) == i + 1

EscapeEnd(input, i) == MinOf(i + 2, Len(input) + 1)

EscapeMeans(input, j, dollarQuote) ==
  CASE j > Len(input) -> NoMeaning
    [] j <= Len(input) /\ dollarQuote -> DecodedEscape(input, j)
    [] OTHER -> Meaning(IF input[j] = "\n" THEN <<>> ELSE <<input[j]>>, 0)

ScanEscape(input, i, dollarQuote) ==
  LET end == EscapeEnd(input, i)
      means == EscapeMeans(input, i + 1, dollarQuote)
  IN  [to |-> end + means.more, literal |-> means.literal, ok |-> means.ok, plain |-> FALSE,
       decorations |-> <<Decoration("Escape", i, end)>>]

ScanSingleQuote(input, start) ==
  LET n == SelectInSubSeq(input, start + 1, Len(input), LAMBDA b : b = "'")
      body(to) == [Nothing(to) EXCEPT !.literal = SubSeq(input, start + 1, to - 1)]
  IN  Quoted("SingleQuote", start,
             IF n = 0 THEN Then(body(Len(input) + 1), Unterminated(input))
             ELSE [body(n) EXCEPT !.to = n + 1])

\* The end of a quote inside a substitution.
SkipQuote(input, start, quote) ==
  LET f[i \in 1..(Len(input) + 1)] ==
        CASE i > Len(input) -> Len(input) + 1
          [] i <= Len(input) /\ input[i] = "\\" -> f[MinOf(i + 2, Len(input) + 1)]
          [] i <= Len(input) /\ input[i] = quote -> i + 1
          [] OTHER -> f[i + 1]
  IN  f[start + 1]

\* The end of a substitution: its bracket is matched with regard to nesting,
\* and whatever is quoted in it is skipped.
SubstitutionEnd(input, start) ==
  LET opening == input[start + 1]
      closing == IF opening = "(" THEN ")" ELSE "}"
      f[i \in 1..(Len(input) + 1), depth \in 1..Len(input)] ==
        CASE i > Len(input) -> i
          [] i <= Len(input) /\ input[i] = "\\" -> f[MinOf(i + 2, Len(input) + 1), depth]
          [] i <= Len(input) /\ input[i] \in {"'", "\""} -> f[SkipQuote(input, i, input[i]), depth]
          [] i <= Len(input) /\ input[i] = opening -> f[i + 1, depth + 1]
          [] i <= Len(input) /\ input[i] = closing -> IF depth = 1 THEN i + 1 ELSE f[i + 1, depth - 1]
          [] OTHER -> f[i + 1, depth]
  IN  f[start + 2, 1]

ScanSubstitution(input, start) ==
  Quoted("Substitution", start, [Nothing(SubstitutionEnd(input, start)) EXCEPT !.ok = FALSE])

SubstitutionAt(input, i) == input[i] = "$" /\ Lookahead(input, i, {"(", "{"})

ScanDoubleQuote(input, start) ==
  LET f[i \in 1..(Len(input) + 1)] ==
        LET on(p) == Then(p, f[p.to])
        IN  CASE i > Len(input) -> Unterminated(input)
              [] i <= Len(input) /\ input[i] = "\"" -> Nothing(i + 1)
              [] i <= Len(input) /\ input[i] = "\\" -> on(ScanEscape(input, i, FALSE))
              [] i <= Len(input) /\ SubstitutionAt(input, i) -> on(ScanSubstitution(input, i))
              [] OTHER -> on(Raw(input[i], i))
  IN  Quoted("DoubleQuote", start, f[start + 1])

ScanDollarQuote(input, start) ==
  LET f[i \in 1..(Len(input) + 1)] ==
        LET on(p) == Then(p, f[p.to])
        IN  CASE i > Len(input) -> Unterminated(input)
              [] i <= Len(input) /\ input[i] = "'" -> Nothing(i + 1)
              [] i <= Len(input) /\ input[i] = "\\" -> on(ScanEscape(input, i, TRUE))
              [] OTHER -> on(Raw(input[i], i))
  IN  Quoted("DollarQuote", start, f[start + 2])

\* The piece of a word at i.
PieceOf(input, i) ==
  CASE input[i] = "\\" -> ScanEscape(input, i, FALSE)
    [] input[i] = "'" -> ScanSingleQuote(input, i)
    [] input[i] = "\"" -> ScanDoubleQuote(input, i)
    [] input[i] = "$" /\ Lookahead(input, i, {"'"}) -> ScanDollarQuote(input, i)
    [] SubstitutionAt(input, i) -> ScanSubstitution(input, i)
    [] OTHER -> [Raw(input[i], i) EXCEPT !.ok = input[i] \notin GlobBytes \cup {"BQ", "$"}]

-----------------------------------------------------------------------------
(***************************************************************************)
(* The tokens of a buffer: words and structural tokens as byte ranges,     *)
(* end-exclusive.                                                         *)
(***************************************************************************)
EndsWord(input, i) ==
  i > Len(input) \/ input[i] \in Blanks \cup {"\n"} \/ OperatorLen(input, i) > 0

ScanWord(input, start) ==
  LET f[i \in 1..(Len(input) + 1)] ==
        LET on(p) == Then(p, f[p.to])
        IN  IF EndsWord(input, i) THEN Nothing(i) ELSE on(PieceOf(input, i))
  IN  [kind |-> "Word", from |-> start] @@ f[start]

Structural(kind, from, to) == [kind |-> kind, from |-> from, to |-> to]

CommentEnd(input, i) ==
  LET n == SelectInSubSeq(input, i, Len(input), LAMBDA b : b = "\n")
  IN  IF n = 0 THEN Len(input) + 1 ELSE n

TokenAt(input, i) ==
  CASE input[i] = "\n" -> Structural("Operator", i, i + 1)
    [] InteractiveComments /\ input[i] = "#" -> Structural("Comment", i, CommentEnd(input, i))
    [] OperatorLen(input, i) > 0 ->
         Structural(IF IsRedirect(input[i]) THEN "Redirect" ELSE "Operator",
                    i, i + OperatorLen(input, i))
    [] OTHER -> ScanWord(input, i)

Tokenize(input) ==
  LET f[i \in 1..(Len(input) + 1)] ==
        LET on(t) == <<t>> \o f[t.to]
        IN  CASE i > Len(input) -> <<>>
              [] i <= Len(input) /\ input[i] \in Blanks -> f[i + 1]
              [] OTHER -> on(TokenAt(input, i))
  IN  f[1]

-----------------------------------------------------------------------------
\* With a fault: bytes are counted, not characters.
OffsetAtFault(input, byte) == byte

(***************************************************************************)
(* Offsets: every byte position as a count of characters.  A position      *)
(* inside a whole character is never set.                                  *)
(***************************************************************************)
OffsetIn(input, chars, byte) ==
  LET behind == {k \in DOMAIN chars : chars[k].to <= byte}
      inside == \E k \in DOMAIN chars :
                  /\ chars[k].from <= byte /\ byte < chars[k].to
                  /\ WholeChar(SubSeq(input, chars[k].from, chars[k].to))
  IN  IF inside THEN 0 ELSE Cardinality(behind)

OffsetAt(input, byte) == OffsetIn(input, LossyChars(input), byte)

TokenSpan(input, t) == CharSpan(OffsetAt(input, t.from - 1), OffsetAt(input, t.to - 1))

-----------------------------------------------------------------------------
(***************************************************************************)
(* The meaning of a word.                                                  *)
(***************************************************************************)
RawWord(input, w) == SubSeq(input, w.from, w.to - 1)
Lookup(input, w) == IF w.ok THEN w.literal ELSE RawWord(input, w)

Named(input, w, names) == w.plain /\ Lookup(input, w) \in {<<n>> : n \in names}
IsReserved(input, w) == Named(input, w, Reserved)

Precommands == {"command", "exec", "nohup", "sudo"}
PrecommandOf(input, w) ==
  IF w.plain /\ RawWord(input, w) \in {<<p>> : p \in Precommands} THEN RawWord(input, w)[1] ELSE "none"

\* The options of a precommand whose value is a word of its own.
TakesValue(precommand, option) ==
  \/ precommand = "exec" /\ option = <<"-", "a">>
  \/ precommand = "sudo" /\ option = <<"-", "u">>

IsOptionWord(input, w) ==
  w.plain /\ Len(RawWord(input, w)) > 1 /\ RawWord(input, w)[1] = "-"
IsEndOfOptions(input, w) == w.plain /\ RawWord(input, w) = <<"-", "-">>

\* A name, then an equals sign.
IsAssignment(input, w) ==
  LET equal == SelectInSeq(RawWord(input, w), LAMBDA b : b = "=")
  IN  w.plain /\ equal > 1
      /\ ToSet(SubSeq(RawWord(input, w), 1, equal - 1)) \subseteq NameBytes

ReservedStartsCommand(raw) ==
  raw \in {<<r>> : r \in {"if", "then", "else", "elif", "while", "until", "do", "in", "!"}}

ResolveCommand(input, w) ==
  CASE IsReserved(input, w) -> "Reserved"
    [] ~IsReserved(input, w) /\ Named(input, w, Aliases) -> "Alias"
    [] ~Named(input, w, Reserved \cup Aliases) /\ Named(input, w, Functions) -> "Function"
    [] ~Named(input, w, Reserved \cup Aliases \cup Functions) /\ Named(input, w, Builtins) -> "Builtin"
    [] OTHER -> IF Lookup(input, w) \in Executables THEN "Command" ELSE "Unknown"

\* Where the analysis stands between two tokens.
Start == [command |-> TRUE, wrapper |-> "none", value |-> FALSE, optionsDone |-> FALSE,
          redirect |-> FALSE]

\* With a fault: a redirect before the command takes its place.
AfterRedirectFault(at) == [at EXCEPT !.redirect = FALSE, !.command = FALSE]

AfterRedirect(at) == [at EXCEPT !.redirect = FALSE]

AfterSeparator(at) == Start

AfterStructural(input, at, t) ==
  CASE t.kind = "Redirect" -> [at EXCEPT !.redirect = TRUE]
    [] t.kind = "Operator" /\ IsCommandSeparator(RawWord(input, t)) -> AfterSeparator(at)
    [] OTHER -> at

AfterWrapped(at) == [at EXCEPT !.command = FALSE, !.wrapper = "none"]

\* A word behind a precommand: its option, the value of one, an assignment,
\* or the command itself.
Wrapped(input, at, w) ==
  CASE at.value -> [kind |-> "Word", at |-> [at EXCEPT !.value = FALSE]]
    [] ~at.value /\ ~at.optionsDone /\ IsOptionWord(input, w) ->
         [kind |-> "Option", at |-> [at EXCEPT !.value = TakesValue(at.wrapper, RawWord(input, w))]]
    [] ~at.value /\ ~at.optionsDone /\ ~IsOptionWord(input, w) /\ IsEndOfOptions(input, w) ->
         [kind |-> "Option", at |-> [at EXCEPT !.optionsDone = TRUE]]
    [] OTHER ->
         IF IsAssignment(input, w) THEN [kind |-> "Assignment", at |-> at]
         ELSE [kind |-> ResolveCommand(input, w), at |-> AfterWrapped(at)]

InCommandPosition(input, at, w) ==
  CASE PrecommandOf(input, w) # "none" ->
         [kind |-> "Precommand",
          at |-> [at EXCEPT !.wrapper = PrecommandOf(input, w), !.value = FALSE, !.optionsDone = FALSE]]
    [] PrecommandOf(input, w) = "none" /\ IsReserved(input, w) ->
         [kind |-> "Reserved", at |-> [at EXCEPT !.command = ReservedStartsCommand(RawWord(input, w))]]
    [] OTHER -> [kind |-> ResolveCommand(input, w), at |-> [at EXCEPT !.command = FALSE]]

Classified(input, at, w) ==
  CASE at.redirect -> [kind |-> "Word", at |-> AfterRedirect(at)]
    [] ~at.redirect /\ at.wrapper # "none" -> Wrapped(input, at, w)
    [] ~at.redirect /\ at.wrapper = "none" /\ at.command /\ IsAssignment(input, w) ->
         [kind |-> "Assignment", at |-> at]
    [] ~at.redirect /\ at.wrapper = "none" /\ at.command /\ ~IsAssignment(input, w) ->
         InCommandPosition(input, at, w)
    [] OTHER -> [kind |-> IF IsOptionWord(input, w) THEN "Option" ELSE "Word", at |-> at]

IsPathCandidate(literal) == Contains(literal, "/") \/ literal \in {<<".">>, <<".", ".">>}
NamesPath(w) == w.ok /\ IsPathCandidate(w.literal) /\ w.literal \in Paths

TokensOf(input, w, kind) ==
  <<[kind |-> kind, span |-> TokenSpan(input, w)]>>
  \o [k \in DOMAIN w.decorations |->
        [kind |-> w.decorations[k].kind, span |-> TokenSpan(input, w.decorations[k])]]
  \o (IF NamesPath(w) THEN <<[kind |-> "Path", span |-> TokenSpan(input, w)]>> ELSE <<>>)

AfterWord(input, done, w, c) == [at |-> c.at, tokens |-> done.tokens \o TokensOf(input, w, c.kind)]

AnalyzeToken(input, done, t) ==
  IF t.kind = "Word" THEN AfterWord(input, done, t, Classified(input, done.at, t))
  ELSE [at |-> AfterStructural(input, done.at, t),
        tokens |-> Append(done.tokens, [kind |-> t.kind, span |-> TokenSpan(input, t)])]

Analyze(input) ==
  FoldLeft(LAMBDA done, t : AnalyzeToken(input, done, t), [at |-> Start, tokens |-> <<>>],
           Tokenize(input)).tokens

(***************************************************************************)
(* What is sent to the shell: the role and the range of each token, except *)
(* of a plain word.                                                        *)
(***************************************************************************)
Entries(sent) ==
  [k \in DOMAIN sent |-> [role |-> sent[k].kind, start |-> sent[k].span.start,
                          len |-> SpanLen(sent[k].span)]]

SerializeHighlights(tokens) == Entries(SelectSeq(tokens, LAMBDA t : t.kind # "Word"))

\* What the shell accepts of it, for a buffer of so many characters.
AcceptsHighlights(entries, chars) ==
  \A k \in DOMAIN entries : /\ entries[k].start <= chars /\ entries[k].len <= chars
                            /\ entries[k].start + entries[k].len <= chars
=============================================================================

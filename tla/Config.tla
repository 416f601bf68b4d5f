-------------------------------- MODULE Config --------------------------------
(***************************************************************************)
(* The settings file: what of it takes effect, what is warned about, and   *)
(* what the shell has once it has evaluated the output of zrush config     *)
(* (config.rs, keybind.rs).                                                *)
(*                                                                         *)
(* A TOML value is [type, data]; the data of a table is a function from    *)
(* keys to values, the data of an array a sequence of values.  A document  *)
(* is the data of a table.  A string is a sequence of characters, or of    *)
(* character names.                                                        *)
(***************************************************************************)
EXTENDS Integers, Sequences, SequencesExt, FiniteSetsExt

IntOptions ==
  [o \in {<<"display", "max-lines">>, <<"display", "delay-ms">>, <<"display", "min-input">>,
          <<"history", "limit">>} |->
     CASE o[2] = "max-lines" -> [lo |-> 1, hi |-> 1000, default |-> 10]
       [] o[2] = "delay-ms" -> [lo |-> 0, hi |-> 10000, default |-> 30]
       [] o[2] = "min-input" -> [lo |-> 0, hi |-> 100, default |-> 0]
       [] o[2] = "limit" -> [lo |-> 1, hi |-> 20000, default |-> 5000]]

BoolOptions == {<<"matching", "smart-case">>, <<"insert", "trailing-space">>, <<"syntax", "enabled">>}

EnumOptions ==
  [o \in {<<"matching", "mode">>, <<"insert", "tab">>} |->
     IF o[2] = "mode" THEN [all |-> {"prefix", "substring", "typo"}, default |-> "typo"]
     ELSE [all |-> {"common-prefix", "menu", "insert"}, default |-> "menu"]]

\* The highlight tables: their keys and the default specs.
DisplayHighlight ==
  [k \in {"selected", "match", "heading", "history-number"} |->
     CASE k = "selected" -> <<"standout">> [] k = "match" -> <<"underline">>
       [] k = "heading" -> <<"bold">> [] k = "history-number" -> <<"faint">>]
SyntaxHighlight ==
  [k \in {"command", "reserved", "alias", "function", "builtin", "precommand", "unknown", "assignment",
          "option", "redirect", "operator", "comment", "single-quote", "double-quote", "dollar-quote",
          "escape", "substitution", "path"} |->
     CASE k \in {"command", "alias", "function", "builtin"} -> <<"fg=green">>
       [] k \in {"reserved", "single-quote", "double-quote"} -> <<"fg=yellow">>
       [] k = "precommand" -> <<"fg=green", ",", "underline">>
       [] k = "unknown" -> <<"fg=red", ",", "bold">>
       [] k = "comment" -> <<"fg=black", ",", "bold">>
       [] k \in {"dollar-quote", "escape"} -> <<"fg=cyan">>
       [] k = "path" -> <<"underline">>
       [] OTHER -> <<>>]
HighlightTables == [t \in {"display", "syntax"} |-> IF t = "display" THEN DisplayHighlight ELSE SyntaxHighlight]

Tables == {"display", "matching", "insert", "history", "syntax", "keybind"}

-----------------------------------------------------------------------------
(***************************************************************************)
(* Key notations.  A notation is <<name>>, <<character>>, or "ctrl-" or    *)
(* "alt-" and what follows; its spec is a bindkey sequence or a key that   *)
(* the terminal's description resolves.                                    *)
(***************************************************************************)
Actions == <<"select-next", "select-prev", "select-left", "select-right", "confirm", "dismiss">>
DefaultNotations ==
  <<<<(<<"down">>), <<"ctrl-", "n">>>>, <<(<<"up">>), <<"ctrl-", "p">>>>,
    <<(<<"left">>), <<"ctrl-", "b">>>>, <<(<<"right">>), <<"ctrl-", "f">>>>,
    <<(<<"enter">>)>>, <<(<<"ctrl-", "g">>)>>>>

Lower == <<"a", "b", "f", "g", "i", "m", "n", "p", "x">>
Upper == <<"A", "B", "F", "G", "I", "M", "N", "P", "X">>
UpperOf(c) == Upper[CHOOSE k \in DOMAIN Lower : Lower[k] = c]
PlainChars == ToSet(Lower) \cup {"1", "^", "\\", "[", "-"}
TerminalKeys == {"up", "down", "left", "right", "shift-tab", "home", "end", "pgup", "pgdn", "delete"}

SeqSpec(bytes) == [kind |-> "seq", data |-> bytes]
NoSpec == [kind |-> "none", data |-> <<>>]

\* A character that bindkey would read as the start of an escape is escaped.
Escaped(c) == IF c \in {"^", "\\"} THEN <<"\\", c>> ELSE <<c>>

Normalize(notation) ==
  CASE notation = <<"enter">> -> SeqSpec(<<"^", "M">>)
    [] notation = <<"tab">> -> SeqSpec(<<"^", "I">>)
    [] notation = <<"escape">> -> SeqSpec(<<"^", "[">>)
    [] notation = <<"space">> -> SeqSpec(<<" ">>)
    [] notation = <<"ctrl-", "space">> -> SeqSpec(<<"^", "@">>)
    [] Len(notation) = 1 /\ notation[1] \in TerminalKeys -> [kind |-> "key", data |-> notation]
    [] Len(notation) = 2 /\ notation[1] = "ctrl-" /\ notation[2] \in ToSet(Lower) ->
         SeqSpec(<<"^", UpperOf(notation[2])>>)
    [] Len(notation) = 2 /\ notation[1] = "alt-" /\ notation[2] \in PlainChars ->
         SeqSpec(<<"^", "[">> \o Escaped(notation[2]))
    [] Len(notation) = 1 /\ notation[1] \in PlainChars -> SeqSpec(Escaped(notation[1]))
    [] OTHER -> NoSpec

TabSpec == SeqSpec(<<"^", "I">>)
DefaultSpecs ==
  [i \in DOMAIN Actions |-> [k \in DOMAIN DefaultNotations[i] |-> Normalize(DefaultNotations[i][k])]]

(***************************************************************************)
(* The keys of one action: its notations in order, without repetitions and *)
(* without what is no key or is reserved for Tab.  When nothing is left of *)
(* what was given, the default.                                            *)
(***************************************************************************)
Usable(notation) == Normalize(notation) # NoSpec /\ Normalize(notation) # TabSpec

ActionSpecs(i, notations) ==
  LET usable == SelectSeq(notations, Usable)
      specs == FoldLeft(LAMBDA list, n : IF Normalize(n) \in ToSet(list) THEN list ELSE Append(list, Normalize(n)),
                        <<>>, usable)
  IN  IF specs = <<>> /\ notations # <<>> THEN DefaultSpecs[i] ELSE specs

\* With a fault: only the later of the actions that share a key reverts.
RevertedFault(specs, i, spec) == spec \in ToSet(specs[i]) /\ \E j \in 1..(i - 1) : spec \in ToSet(specs[j])

Reverted(specs, i, spec) == spec \in ToSet(specs[i])

\* The first spec of two or more actions, as a set of at most one.
FirstCrossDuplicate(specs) ==
  LET shared(i, k) == \E j \in (i + 1)..Len(specs) : specs[i][k] \in ToSet(specs[j])
      at == {p \in UNION {{i} \X DOMAIN specs[i] : i \in DOMAIN specs} : shared(p[1], p[2])}
      first == CHOOSE p \in at : \A q \in at : p[1] < q[1] \/ (p[1] = q[1] /\ p[2] <= q[2])
  IN  IF at = {} THEN {} ELSE {specs[first[1]][first[2]]}

\* All actions that have it revert to their defaults.
Round(specs) ==
  LET shared == FirstCrossDuplicate(specs)
  IN  [i \in DOMAIN specs |->
         IF \E spec \in shared : Reverted(specs, i, spec) THEN DefaultSpecs[i] ELSE specs[i]]

\* The specs after each round; the last round changes nothing.
Rounds(specs) ==
  FoldLeft(LAMBDA done, n : Append(done, Round(Last(done))), <<specs>>, [n \in 1..(Len(Actions) + 1) |-> n])

-----------------------------------------------------------------------------
(***************************************************************************)
(* Loading.  Every item is judged by itself.                               *)
(***************************************************************************)
Entry(table, key) == IF key \in DOMAIN table THEN {table[key]} ELSE {}
SubTable(doc, t) == UNION {IF val.type = "table" THEN {val.data} ELSE {} : val \in Entry(doc, t)}
Given(doc, o) == UNION {Entry(table, o[2]) : table \in SubTable(doc, o[1])}

ValidInt(o, val) == val.type = "integer" /\ val.data \in IntOptions[o].lo..IntOptions[o].hi
ValidEnum(o, val) == val.type = "string" /\ val.data \in {<<m>> : m \in EnumOptions[o].all}
IntVal(doc, o) ==
  LET valid == {val \in Given(doc, o) : ValidInt(o, val)}
  IN  IF valid = {} THEN IntOptions[o].default ELSE (CHOOSE val \in valid : TRUE).data
BoolVal(doc, o) == \A val \in Given(doc, o) : val.type = "bool" => val.data
EnumVal(doc, o) ==
  LET valid == {val \in Given(doc, o) : ValidEnum(o, val)}
  IN  IF valid = {} THEN EnumOptions[o].default ELSE (CHOOSE val \in valid : TRUE).data[1]

HighlightVal(doc, t, k) ==
  LET given == UNION {IF val.type = "table" THEN Entry(val.data, k) ELSE {} :
                        val \in Given(doc, <<t, "highlight">>)}
      valid == {val \in given : val.type = "string"}
  IN  IF valid = {} THEN HighlightTables[t][k] ELSE (CHOOSE val \in valid : TRUE).data

\* The notations given for an action: none, or one list.
UserNotations(doc, action) ==
  LET strings(items) == LET s == SelectSeq(items, LAMBDA item : item.type = "string")
                        IN  [k \in DOMAIN s |-> s[k].data]
      read(val) == CASE val.type = "string" -> {<<val.data>>}
                     [] val.type = "array" -> IF strings(val.data) = <<>> /\ val.data # <<>> THEN {}
                                              ELSE {strings(val.data)}
                     [] OTHER -> {}
  IN  UNION {read(val) : val \in Given(doc, <<"keybind", action>>)}

KeybindRounds(doc) ==
  Rounds([i \in DOMAIN Actions |->
            LET user == UserNotations(doc, Actions[i])
            IN  IF user = {} THEN DefaultSpecs[i] ELSE ActionSpecs(i, CHOOSE list \in user : TRUE)])

Load(doc) ==
  [ints |-> [o \in DOMAIN IntOptions |-> IntVal(doc, o)],
   bools |-> [o \in BoolOptions |-> BoolVal(doc, o)],
   enums |-> [o \in DOMAIN EnumOptions |-> EnumVal(doc, o)],
   highlights |-> [t \in DOMAIN HighlightTables |-> [k \in DOMAIN HighlightTables[t] |-> HighlightVal(doc, t, k)]],
   keybinds |-> Last(KeybindRounds(doc))]

(***************************************************************************)
(* What is warned about: paths in the document.                            *)
(***************************************************************************)

ItemsWarned(items) == \E k \in DOMAIN items : items[k].type # "string"

KeybindWarned(doc, action) ==
  LET i == CHOOSE k \in DOMAIN Actions : Actions[k] = action
      rounds == KeybindRounds(doc)
  IN  \/ \E val \in Given(doc, <<"keybind", action>>) :
           val.type \notin {"string", "array"} \/ (val.type = "array" /\ ItemsWarned(val.data))
      \/ \E list \in UserNotations(doc, action) :
           \/ \E k \in DOMAIN list : ~Usable(list[k])
           \/ \E j, k \in DOMAIN list : j < k /\ Normalize(list[j]) = Normalize(list[k])
      \/ \E n \in DOMAIN rounds : \E spec \in FirstCrossDuplicate(rounds[n]) : Reverted(rounds[n], i, spec)

HighlightWarned(doc, t, val) ==
  IF val.type # "table" THEN {<<t, "highlight">>}
  ELSE {<<t, "highlight", k>> : k \in {k \in DOMAIN val.data : k \notin DOMAIN HighlightTables[t]
                                                            \/ val.data[k].type # "string"}}

KeyWarned(doc, t, k, val) ==
  LET o == <<t, k>>
  IN  CASE t \in DOMAIN HighlightTables /\ k = "highlight" -> HighlightWarned(doc, t, val)
        [] o \in DOMAIN IntOptions -> IF ValidInt(o, val) THEN {} ELSE {o}
        [] o \in BoolOptions -> IF val.type = "bool" THEN {} ELSE {o}
        [] o \in DOMAIN EnumOptions -> IF ValidEnum(o, val) THEN {} ELSE {o}
        [] t = "keybind" /\ k \in ToSet(Actions) -> IF KeybindWarned(doc, k) THEN {o} ELSE {}
        [] OTHER -> {o}

Warnings(doc) ==
  UNION {IF t \in Tables /\ doc[t].type = "table"
         THEN UNION {KeyWarned(doc, t, k, doc[t].data[k]) : k \in DOMAIN doc[t].data}
         ELSE {<<t>>} : t \in DOMAIN doc}

-----------------------------------------------------------------------------
(***************************************************************************)
(* The output, and what the shell reads from it: every value is one word   *)
(* in single quotes.                                                       *)
(***************************************************************************)

Sq(s) == <<"'">> \o FlattenSeq([k \in DOMAIN s |-> IF s[k] = "'" THEN <<"'", "\\", "'", "'">> ELSE <<s[k]>>])
         \o <<"'">>

\* The word the shell reads: quotes toggle, and a backslash outside quotes
\* takes the next character as it is.
ShellWord(text) ==
  LET step(s, c) == CASE s.escaped -> [s EXCEPT !.word = Append(@, c), !.escaped = FALSE]
                      [] ~s.escaped /\ c = "'" -> [s EXCEPT !.quoted = ~@]
                      [] ~s.escaped /\ ~s.quoted /\ c = "\\" -> [s EXCEPT !.escaped = TRUE]
                      [] OTHER -> [s EXCEPT !.word = Append(@, c), !.clean = @ /\ s.quoted]
      end == FoldLeft(step, [word |-> <<>>, quoted |-> FALSE, escaped |-> FALSE, clean |-> TRUE], text)
  IN  [word |-> end.word, complete |-> ~end.quoted /\ ~end.escaped /\ end.clean]
=============================================================================

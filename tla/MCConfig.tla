------------------------------- MODULE MCConfig -------------------------------
(***************************************************************************)
(* Settings files, one item added after the other.                         *)
(***************************************************************************)
EXTENDS Config

VARIABLES doc, about   \* the file, and whether its items are values or bindings

Put(table, key, value) == [k \in DOMAIN table \cup {key} |-> IF k = key THEN value ELSE table[k]]
Value(type, data) == [type |-> type, data |-> data]
Empty == [k \in {} |-> k]

Item(table, key, type, data) == [table |-> table, key |-> key, value |-> Value(type, data)]
Str(data) == Value("string", data)
Highlight(key, val) == Value("table", [k \in {key} |-> val])

\* Values of every table, right, out of range, of another type, misspelt.
ValueItems ==
  {Item("display", "max-lines", "integer", 1000), Item("display", "max-lines", "integer", 1001),
   Item("display", "max-lines", "string", <<"9">>), Item("history", "limit", "integer", 0),
   Item("matching", "mode", "string", <<"prefix">>), Item("matching", "mode", "string", <<"x">>),
   Item("matching", "smart-case", "bool", FALSE), Item("insert", "", "integer", 1),
   Item("nothing", "x", "integer", 1), Item("syntax", "nothing", "bool", TRUE),
   [table |-> "display", key |-> "highlight", value |-> Highlight("match", Str(<<"'", "\\", "'", " ", "a">>))],
   [table |-> "syntax", key |-> "highlight", value |-> Highlight("path", Value("integer", 1))],
   [table |-> "syntax", key |-> "highlight", value |-> Highlight("nothing", Str(<<>>))],
   Item("syntax", "highlight", "bool", TRUE)}

Notations == {<<"ctrl-", "p">>, <<"ctrl-", "m">>, <<"ctrl-", "g">>}
\* Bindings of every action that take keys of one another, of Tab, of none.
KeyItems ==
  {Item("keybind", a, "string", n) : a \in ToSet(Actions), n \in Notations}
  \cup {Item("keybind", a, "array", list) :
          a \in {"select-next", "dismiss"},
          list \in {<<>>, <<Value("integer", 1)>>, <<Str(<<"ctrl-", "p">>), Str(<<"ctrl-", "g">>)>>,
                    <<Str(<<"enter">>), Str(<<"ctrl-", "m">>)>>, <<Value("bool", TRUE), Str(<<"x">>)>>,
                    <<Str(<<"^">>), Str(<<"ctrl-", "i">>)>>,
                    <<Str(<<"tab">>), Str(<<"alt-", "\\">>)>>}}
  \cup {Item("keybind", "nothing", "string", <<"tab">>), Item("keybind", "dismiss", "integer", 1)}

Items == IF about = "values" THEN ValueItems ELSE KeyItems
MaxItems == 3

Init == doc = Empty /\ about \in {"values", "bindings"}

Size(d) ==
  Cardinality(UNION {IF d[t].type = "table" THEN {<<t, k>> : k \in DOMAIN d[t].data} ELSE {<<t>>} :
                       t \in DOMAIN d})

\* A key is given once (anything else is a syntax error).
Set(item) ==
  /\ Size(doc) < MaxItems
  /\ item.key = "" => item.table \notin DOMAIN doc
  /\ item.table \in DOMAIN doc => doc[item.table].type = "table" /\ item.key \notin DOMAIN doc[item.table].data
  /\ doc' = Put(doc, item.table,
                IF item.key = "" THEN item.value
                ELSE Value("table", Put(IF item.table \in DOMAIN doc THEN doc[item.table].data ELSE Empty,
                                        item.key, item.value)))

Next == UNCHANGED about /\ \E item \in Items : Set(item)

(***************************************************************************)
(* No key is bound to two actions and none to Tab, whatever is given; the  *)
(* rounds that see to it come to an end, as many as there are actions at   *)
(* most (resolve: its comment argues for termination).                     *)
(***************************************************************************)
KeysAreUnambiguous ==
  LET rounds == KeybindRounds(doc)
      specs == Last(rounds)
  IN  /\ rounds[Len(Actions) + 1] = specs
      /\ \A i, j \in DOMAIN specs : i # j => ToSet(specs[i]) \cap ToSet(specs[j]) = {}
      /\ \A i \in DOMAIN specs : TabSpec \notin ToSet(specs[i])

(***************************************************************************)
(* Nothing of the file is dropped without a word: what it says of a known  *)
(* option, highlight or action is in effect, or a warning names it or the  *)
(* table it is in (parse, apply_key, highlight_table, resolve).            *)
(***************************************************************************)
NothingIsDroppedSilently ==
  LET config == Load(doc)
      warnings == Warnings(doc)
      warned(path) == \E n \in 1..Len(path) : SubSeq(path, 1, n) \in warnings
      inEffect(t, k, val) ==
        LET o == <<t, k>>
        IN  CASE o \in DOMAIN IntOptions -> val.type = "integer" /\ config.ints[o] = val.data
              [] o \in BoolOptions -> val.type = "bool" /\ config.bools[o] = val.data
              [] o \in DOMAIN EnumOptions -> val.type = "string" /\ <<config.enums[o]>> = val.data
              [] t = "keybind" /\ k \in ToSet(Actions) ->
                   LET i == CHOOSE a \in DOMAIN Actions : Actions[a] = k
                       items == CASE val.type = "string" -> <<val>> [] val.type = "array" -> val.data
                                  [] OTHER -> <<Value("string", <<>>)>>
                   IN  /\ Len(items) = Len(config.keybinds[i])
                       /\ \A n \in DOMAIN items : items[n].type = "string"
                            /\ Normalize(items[n].data) = config.keybinds[i][n]
              [] OTHER -> FALSE
  IN  \A t \in DOMAIN doc :
        IF doc[t].type # "table" THEN warned(<<t>>)
        ELSE \A k \in DOMAIN doc[t].data :
               IF k = "highlight" /\ t \in DOMAIN HighlightTables /\ doc[t].data[k].type = "table"
               THEN \A j \in DOMAIN doc[t].data[k].data :
                      \/ warned(<<t, k, j>>)
                      \/ /\ j \in DOMAIN HighlightTables[t] /\ doc[t].data[k].data[j].type = "string"
                         /\ config.highlights[t][j] = doc[t].data[k].data[j].data
               ELSE warned(<<t, k>>) \/ inEffect(t, k, doc[t].data[k])

(***************************************************************************)
(* What bindkey reads from a key's sequence is the key: two notations of   *)
(* one key give one spec, and no character of a notation is taken for an   *)
(* escape (normalize).                                                     *)
(***************************************************************************)
Meant(notation) ==
  CASE notation = <<"enter">> -> <<(<<"ctrl", "M">>)>>
    [] notation = <<"escape">> -> <<(<<"ctrl", "[">>)>>
    [] notation = <<"space">> -> <<(<<" ">>)>>
    [] Len(notation) = 2 /\ notation[1] = "ctrl-" -> <<(<<"ctrl", UpperOf(notation[2])>>)>>
    [] Len(notation) = 2 /\ notation[1] = "alt-" -> <<(<<"ctrl", "[">>), <<notation[2]>>>>
    [] OTHER -> <<notation>>
BindkeyReads(bytes) ==
  LET f[k \in 1..(Len(bytes) + 2)] ==
        IF k > Len(bytes) THEN <<>>
        ELSE IF bytes[k] = "^" /\ k < Len(bytes) THEN <<(<<"ctrl", bytes[k + 1]>>)>> \o f[k + 2]
        ELSE IF bytes[k] = "\\" THEN (IF k < Len(bytes) THEN <<(<<bytes[k + 1]>>)>> ELSE <<>>) \o f[k + 2]
        ELSE <<(<<bytes[k]>>)>> \o f[k + 1]
  IN  f[1]
SpecsAreTheKeys ==
  \A i \in DOMAIN Actions : \A list \in UserNotations(doc, Actions[i]) : \A k \in DOMAIN list :
    Usable(list[k]) /\ Normalize(list[k]).kind = "seq" =>
      BindkeyReads(Normalize(list[k]).data) = Meant(list[k])

(***************************************************************************)
(* Evaluating the output gives the shell the very values, quotes and       *)
(* backslashes included, and runs nothing (sq, to_zsh).                    *)
(***************************************************************************)
ValuesSurviveQuoting ==
  LET config == Load(doc)
  IN  \A t \in DOMAIN HighlightTables : \A k \in DOMAIN HighlightTables[t] :
        LET read == ShellWord(Sq(config.highlights[t][k]))
        IN  read.complete /\ read.word = config.highlights[t][k]
=============================================================================

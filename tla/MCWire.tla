-------------------------------- MODULE MCWire --------------------------------
(***************************************************************************)
(* Bodies of small plans, as they are sent and with a few of their fields  *)
(* replaced, dropped or doubled.                                           *)
(***************************************************************************)
EXTENDS Wire

VARIABLE given

listing == given.listing
body    == given.body
changes == given.changes

Batches == <<[j |-> <<>>, x |-> <<>>], [j |-> <<"g">>, x |-> <<"h", "W", "T", "T">>]>>

\* Listings of up to two candidates, whole and cut, with and without window and
\* indicator, as sent and with any one field damaged.
Listings ==
  LET texts == {[batch |-> 1, text |-> <<"a">>], [batch |-> 2, text |-> <<"W", "T", "a", "b">>],
                [batch |-> 1, text |-> <<"a", "W", "T", "T", "W">>]}
      sizes == {[budget |-> 3, width |-> 8, offset |-> 0, selected |-> 0],
                [budget |-> 2, width |-> 4, offset |-> 1, selected |-> 2]}
  IN  [texts : UNION {[1..n -> texts] : n \in 0..2}, size : sizes, completion : BOOLEAN]

\* What a field may be replaced by.
Junk == {<<>>, <<"0">>, <<"1">>, <<"0", "3">>, <<"1", "x">>, <<"1", " ", "2">>, <<"1", " ", "2", " ", "1">>,
         <<"4", " ", "4">>, <<"0", " ", "1", " ", "1", " ", "1">>, <<"match", " ", "1", " ", "2", " ", "2">>,
         <<"match", " ", " ", "0", " ", "0", " ", "4">>, <<"\n", "1", "/", "2">>}
MaxChanges == 1

WithTexts(plan, texts) ==
  [cp |-> <<"a">>, inserts |-> [p \in DOMAIN plan.positions |-> texts[plan.positions[p]].text]] @@ plan

\* The plan of a listing.
PlanFor(l) ==
  LET candidates == [i \in DOMAIN l.texts |-> [batch |-> l.texts[i].batch]]
      sources == [i \in DOMAIN l.texts |-> [text |-> l.texts[i].text, number |-> NoSpan, offset |-> 0]]
      spans == [i \in DOMAIN l.texts |-> <<CharSpan(0, 1), CharSpan(2, 4)>>]
  IN  WithTexts(IF l.completion
                THEN BuildCompletion(candidates, Batches, sources, spans, l.size.budget,
                                     l.size.width, l.size.offset, l.size.selected)
                ELSE Build(candidates, Batches, sources, spans, l.size.budget, l.size.width,
                           FALSE, FALSE), l.texts)

Init == given \in {[listing |-> l, body |-> Serialize(PlanFor(l)), changes |-> 0] : l \in Listings}

Change(k) ==
  /\ changes < MaxChanges
  /\ \E damaged \in {[body EXCEPT ![k] = field] : field \in Junk \ {body[k]}}
                     \cup {RemoveAt(body, k), InsertAt(body, k, body[k])} :
       given' = [given EXCEPT !.body = damaged, !.changes = @ + 1]

Next == \E k \in DOMAIN body : Change(k)

Arrived(sent, got) ==
  /\ got.ok
  /\ got.cp = sent.cp /\ got.rows = sent.rows /\ got.highlights = sent.highlights
  /\ got.cells = sent.cells /\ got.nav = sent.nav /\ got.inserts = sent.inserts
  /\ got.indicators = sent.indicators
  /\ IF HasWindow(sent)
     THEN got.window = <<sent.window.offset, sent.window.total, sent.window.selected>>
     ELSE got.window = <<>>

(***************************************************************************)
(* What the worker sends arrives: the shell reads from the body the plan   *)
(* that was computed, part for part, also when candidates are not valid    *)
(* UTF-8 and the shell counts more characters than the worker              *)
(* (serialize, _zrush_parse_plan; cli-protocol.md, Offset Rules).          *)
(***************************************************************************)
PlansArriveWhole ==
  changes = 0 => Arrived(PlanFor(listing), ShellParse(body))

(***************************************************************************)
(* The two readers are one: a body that the reference reader accepts is    *)
(* accepted by the shell and read as the same plan; the shell accepts one  *)
(* more only for a range that its own count of characters still holds      *)
(* (parse, _zrush_parse_plan).                                             *)
(***************************************************************************)
ReadersAgree ==
  LET text == Joined(ShellParse(body).rows, "\n")
  IN  IF Parse(body).ok THEN ShellParse(body) = Parse(body)
      ELSE ShellParse(body).ok => ShellCharCount(text) > CharCount(text)
=============================================================================

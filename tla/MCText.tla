------------------------------- MODULE MCText -------------------------------
(***************************************************************************)
(* The operators of Text over every short byte string: a string grows byte *)
(* by byte, and what the worker computes from it is compared with what a   *)
(* character and a width are.                                              *)
(***************************************************************************)
EXTENDS Text

\* Every string of up to five bytes: ASCII, wide, and whole, cut or stray parts
\* of characters; the widths to cut to.
Bytes  == {"a", "Z", "W", "T"}
MaxLen == 5
Budget == 0..3

VARIABLE given

text == given.text

Init == given = [text |-> <<>>]
Next == Len(text) < MaxLen /\ \E b \in Bytes : given' = [given EXCEPT !.text = Append(@, b)]

(***************************************************************************)
(* The characters of a string partition its bytes, and each is a whole     *)
(* character or one maximal invalid sequence (lossy_chars).                *)
(***************************************************************************)
CharsPartitionBytes ==
  LET chars == LossyChars(text)
  IN  /\ \A i \in DOMAIN chars :
           /\ chars[i].from = (IF i = 1 THEN 1 ELSE chars[i - 1].to + 1)
           /\ chars[i].to = chars[i].from + Present(SubSeq(text, chars[i].from, Len(text))) - 1
      /\ text # <<>> => chars[Len(chars)].to = Len(text)

(***************************************************************************)
(* A string joined to another behind a space reads as the characters of    *)
(* both: offsets counted per piece hold in the joined text, whatever the   *)
(* pieces end or begin with (layout.rs concatenates cells, gutters, rows). *)
(***************************************************************************)
JoiningKeepsChars ==
  \A n \in 0..Len(text) :
    LET left == SubSeq(text, 1, n)
        right == SubSeq(text, n + 1, Len(text))
    IN  Decoded(left \o <<" ">> \o right) = Decoded(left) \o <<(<<" ">>)>> \o Decoded(right)

(***************************************************************************)
(* A cut text fits, is a prefix that ends between two characters, reports  *)
(* its own width and length, and the next character would not fit          *)
(* (truncate_to_width).                                                    *)
(***************************************************************************)
CutIsMaximal ==
  \A b \in Budget :
    LET cut == TruncateToWidth(text, b)
        chars == LossyChars(text)
    IN  /\ IsPrefix(cut.text, text)
        /\ cut.width = DisplayWidth(cut.text) /\ cut.width <= b
        /\ cut.chars = CharCount(cut.text)
        /\ Decoded(cut.text) = SubSeq(Decoded(text), 1, cut.chars)
        /\ cut.chars < Len(chars) => cut.width + WidthOf(text, chars[cut.chars + 1]) > b
=============================================================================

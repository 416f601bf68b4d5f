------------------------------ MODULE Records ------------------------------
(***************************************************************************)
(* Candidate payloads.  The shell joins what one compadd call, or its      *)
(* history, offers into NUL-terminated records of tagged fields            *)
(* (_zrush_encode_batch, _zrush_history_snapshot_payload); the worker      *)
(* keeps the bytes and remembers, as byte ranges, where each field lies    *)
(* (record.rs).  A byte is NUL, FS (\2), TS (\1) or any other string; a    *)
(* tag is one such byte.                                                   *)
(***************************************************************************)
EXTENDS Integers, Sequences, SequencesExt

RecSep == "NUL"
FieldSep == "FS"
TagSep == "TS"
FramingBytes == {RecSep, FieldSep, TagSep}

BatchTags == {"P", "p", "S", "s", "i", "I", "ip", "f", "es", "rd", "X", "J"}
CandidateTags == {"m", "d", "n"}

-----------------------------------------------------------------------------
(***************************************************************************)
(* Byte ranges of a payload, end-exclusive and counted from 0; an empty    *)
(* one stands for an absent field.                                         *)
(***************************************************************************)
ByteSpan(start, end) == [start |-> start, end |-> end]
Absent == ByteSpan(0, 0)
IsEmpty(span) == span.start = span.end
Slice(bytes, span) == SubSeq(bytes, span.start + 1, span.end)

\* With a fault, for checking the properties: the separators are not counted
\* in the offset of a piece.
PieceAtFault(base, cuts, k) == base + cuts[k] - (k - 1)

\* Where the piece behind the k-th cut lies in the payload.
PieceAt(base, cuts, k) == base + cuts[k]

\* The pieces between separators, each with its offset in the payload.
SpansBetween(input, cuts, base) ==
  [k \in 1..(Len(cuts) - 1) |->
     [at |-> PieceAt(base, cuts, k), bytes |-> SubSeq(input, cuts[k] + 1, cuts[k + 1] - 1)]]

SplitSpans(input, separator, base) ==
  SpansBetween(input, <<0>> \o SelectSeq([i \in DOMAIN input |-> i],
                                         LAMBDA i : input[i] = separator)
                      \o <<Len(input) + 1>>, base)

\* A field: its tag, and where its value lies.  Without a tag separator the
\* whole field is a tag with an empty value.
SplitField(piece) ==
  LET end == piece.at + Len(piece.bytes)
      sep == SelectInSeq(piece.bytes, LAMBDA b : b = TagSep)
  IN  IF sep = 0 THEN [tag |-> piece.bytes, span |-> ByteSpan(end, end)]
      ELSE [tag |-> SubSeq(piece.bytes, 1, sep - 1), span |-> ByteSpan(piece.at + sep, end)]

SplitFields(pieces) == [k \in DOMAIN pieces |-> SplitField(pieces[k])]
Fields(record) == SplitFields(SplitSpans(record.bytes, FieldSep, record.at))

\* The value of the first field with a tag; absent and empty are the same.
FirstValue(fields, tag) ==
  LET k == SelectInSeq(fields, LAMBDA f : f.tag = <<tag>>)
  IN  IF k = 0 THEN Absent ELSE fields[k].span

ParseBatchFields(fields) == [tag \in BatchTags |-> FirstValue(fields, tag)]

ParseCandidateFields(w, fields, batch) ==
  [w |-> w, batch |-> batch, fields |-> [tag \in CandidateTags |-> FirstValue(fields, tag)]]

HasHeader(stored) == stored.batches # <<>>

\* One record: a batch header, a candidate of the last header, or neither.
WithRecord(stored, first, rest) ==
  CASE first.tag = <<"b">> -> [stored EXCEPT !.batches = Append(@, ParseBatchFields(rest))]
    [] first.tag = <<"w">> /\ ~IsEmpty(first.span) /\ HasHeader(stored) ->
         [stored EXCEPT !.candidates =
            Append(@, ParseCandidateFields(first.span, rest, Len(stored.batches)))]
    [] OTHER -> stored

ParseFields(stored, fields) == WithRecord(stored, Head(fields), Tail(fields))
ParseRecord(stored, record) == ParseFields(stored, Fields(record))

FramingError == [error |-> TRUE]
WellFramed(bytes) == bytes = <<>> \/ Last(bytes) = RecSep

\* A payload whose last record is not terminated is refused as a whole.
Parse(bytes) ==
  IF ~WellFramed(bytes) THEN FramingError
  ELSE FoldLeft(ParseRecord, [error |-> FALSE, batches |-> <<>>, candidates |-> <<>>],
                SplitSpans(SubSeq(bytes, 1, Len(bytes) - 1), RecSep, 0))

-----------------------------------------------------------------------------
(***************************************************************************)
(* The views of a stored payload: the values themselves.                   *)
(***************************************************************************)
BatchOf(bytes, stored, k) == [tag \in BatchTags |-> Slice(bytes, stored.batches[k][tag])]

CandidateOf(bytes, stored, k) ==
  LET c == stored.candidates[k]
  IN  [w |-> Slice(bytes, c.w), batch |-> c.batch] @@
      [tag \in CandidateTags |-> Slice(bytes, c.fields[tag])]

MatchText(candidate) == IF candidate.m = <<>> THEN candidate.w ELSE candidate.m

-----------------------------------------------------------------------------
(***************************************************************************)
(* The senders.  A compadd call offers hits [word, decoded, shown] -- the  *)
(* word as inserted, without its quoting, and as displayed -- and values   *)
(* for the header; whatever holds a framing byte is blanked first.         *)
(***************************************************************************)
Clean(value) == IF \E b \in ToSet(value) : b \in FramingBytes THEN <<>> ELSE value

BadHit(hit) == Clean(hit.word) # hit.word \/ Clean(hit.decoded) # hit.decoded

Joined(pieces, separator) ==
  FoldLeft(LAMBDA out, p : out \o <<separator>> \o p, Head(pieces), Tail(pieces))

Field(tag, value) == <<tag, TagSep>> \o value
FieldIf(condition, tag, value) == IF condition THEN <<Field(tag, value)>> ELSE <<>>

\* The order in which a header's fields are sent.
HeaderTags == <<"P", "p", "S", "s", "i", "I", "ip", "f", "es", "rd", "X", "J">>

EncodeHeader(call) ==
  LET value(tag) == CASE tag \in {"f", "es"} -> <<"1">> [] OTHER -> Clean(call.vals[tag])
      sent(tag) == CASE tag = "f" -> call.isfile
                     [] tag = "es" -> call.asuf
                     [] tag = "rd" -> call.isfile /\ value(tag) # <<>>
                     [] OTHER -> value(tag) # <<>>
  IN  Joined(<<Field("b", <<>>)>>
             \o FlattenSeq([k \in DOMAIN HeaderTags |->
                  FieldIf(sent(HeaderTags[k]), HeaderTags[k], value(HeaderTags[k]))]), FieldSep)

EncodeHit(hit) ==
  Joined(<<Field("w", hit.word)>> \o FieldIf(hit.decoded # hit.word, "m", hit.decoded)
         \o FieldIf(Clean(hit.shown) # <<>>, "d", Clean(hit.shown)), FieldSep)

EncodeBatch(call) ==
  LET sent == SelectSeq(call.hits, LAMBDA h : ~BadHit(h) /\ h.word # <<>>)
      records == <<EncodeHeader(call)>> \o [k \in DOMAIN sent |-> EncodeHit(sent[k])]
  IN  IF call.hits = <<>> THEN <<>> ELSE Append(Joined(records, RecSep), RecSep)

(***************************************************************************)
(* The history, newest first, as far as a payload of so many bytes holds   *)
(* it.  An entry is [event, line].                                         *)
(***************************************************************************)
Excluded(line) == line = <<>> \/ Clean(line) # line
HistoryRecord(e) == Field("w", e.line) \o <<FieldSep>> \o Field("n", e.event)

\* The newest entries that fit: the walk stops at the first that does not.
Taken(kept, maxBytes) ==
  LET total(n) == FoldLeft(LAMBDA sum, e : sum + Len(e.line) + Len(e.event) + 6,
                           3, SubSeq(kept, 1, n))
      fit == {n \in 0..Len(kept) : n = 0 \/ total(n) <= maxBytes}
  IN  SubSeq(kept, 1, CHOOSE n \in fit : \A m \in fit : m <= n)

HistorySnapshotPayload(entries, maxBytes) ==
  LET taken == Taken(SelectSeq(entries, LAMBDA e : ~Excluded(e.line)), maxBytes)
      records == <<Field("b", <<>>)>> \o [k \in DOMAIN taken |-> HistoryRecord(taken[k])]
  IN  Append(Joined(records, RecSep), RecSep)

HistoryAppendPayload(e) ==
  Append(Joined(<<Field("b", <<>>), HistoryRecord(e)>>, RecSep), RecSep)
=============================================================================

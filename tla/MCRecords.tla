----------------------------- MODULE MCRecords -----------------------------
(***************************************************************************)
(* Payloads of every shape: a byte stream that grows piece by piece, well  *)
(* formed or not, or what the shell encodes of compadd calls and of its    *)
(* history.                                                                *)
(***************************************************************************)
EXTENDS Records, FiniteSets

\* What a byte stream grows by.
Pieces == {<<"NUL">>, <<"FS">>, <<"TS">>, <<"b">>, <<"w">>, <<"w", "TS", "x">>,
             <<"FS", "m", "TS", "y">>, <<"b", "TS", "NUL">>}

NoValues == [tag \in BatchTags |-> <<>>]
Hit(word, decoded, shown) == [word |-> word, decoded |-> decoded, shown |-> shown]
\* compadd calls with framing bytes in every place.
Calls ==
  {[hits |-> hits, vals |-> [NoValues EXCEPT !["P"] = p, !["rd"] = <<"r">>, !["J"] = <<"g">>],
    isfile |-> file, asuf |-> ~file] :
     hits \in {<<>>, <<Hit(<<"x">>, <<"x">>, <<>>)>>,
               <<Hit(<<"x", "TS">>, <<"x">>, <<>>), Hit(<<"\\", "y">>, <<"y">>, <<"z">>)>>,
               <<Hit(<<"q">>, <<"NUL">>, <<"z">>), Hit(<<>>, <<>>, <<>>), Hit(<<"y">>, <<"y">>, <<"FS">>)>>},
     p \in {<<>>, <<"p">>, <<"p", "NUL">>}, file \in BOOLEAN}
Entries == {[event |-> <<"1">>, line |-> l] : l \in {<<"x">>, <<"x", "y", "z">>, <<"x", "TS">>, <<>>}}
             \cup {[event |-> <<"1", "0">>, line |-> <<"y">>]}

MaxPieces == 5
MaxCalls  == 2
PayloadLimit == 21    \* a history payload of one or two entries

VARIABLE given

from    == given.from      \* where the payload comes from
payload == given.payload   \* the bytes the worker got
calls   == given.calls     \* the compadd calls they were encoded from
history == given.history   \* the shell's history, newest first
pieces  == given.pieces

Init == given \in [from : {"anywhere", "capture", "history"}, payload : {<<>>}, calls : {<<>>},
                   history : {<<>>}, pieces : {0}]

Receive(piece) ==
  /\ from = "anywhere" /\ pieces < MaxPieces
  /\ given' = [given EXCEPT !.payload = @ \o piece, !.pieces = @ + 1]

Capture(call) ==
  /\ from = "capture" /\ Len(calls) < MaxCalls
  /\ given' = [given EXCEPT !.payload = @ \o EncodeBatch(call), !.calls = Append(@, call)]

Remember(e) ==
  /\ from = "history" /\ Len(history) < MaxCalls + 1
  /\ given' = [given EXCEPT !.history = <<e>> \o @]

Next == \/ \E piece \in Pieces : Receive(piece)
        \/ \E call \in Calls : Capture(call)
        \/ \E e \in Entries : Remember(e)

Views(bytes, stored) ==
  [batches |-> [k \in DOMAIN stored.batches |-> BatchOf(bytes, stored, k)],
   candidates |-> [k \in DOMAIN stored.candidates |-> CandidateOf(bytes, stored, k)]]
Read(bytes) == Views(bytes, Parse(bytes))

(***************************************************************************)
(* A field is read from the record it stands in: its value lies between a  *)
(* tag separator behind its tag and the next separator, no earlier field   *)
(* of the record has the tag, and its batch is the last header before it   *)
(* (parse keeps byte offsets through two nested splits).                   *)
(***************************************************************************)
Starts(bytes, at) == at = 0 \/ bytes[at] = RecSep
RecordStart(bytes, at) == CHOOSE s \in 0..at : Starts(bytes, s) /\ \A t \in (s + 1)..at : ~Starts(bytes, t)
IsHeader(bytes, s) ==
  /\ Starts(bytes, s) /\ s < Len(bytes) /\ bytes[s + 1] = "b"
  /\ s + 2 <= Len(bytes) /\ bytes[s + 2] \in FramingBytes

ReadsAs(bytes, tag, span) ==
  LET before == SubSeq(bytes, RecordStart(bytes, span.start) + 1, span.start)
      value == Slice(bytes, span)
      n == Len(before)
  IN  IF value = <<>> THEN TRUE
      ELSE /\ {RecSep, FieldSep} \cap ToSet(value) = {}
           /\ bytes[span.end + 1] \in {RecSep, FieldSep}
           /\ n >= 2 /\ before[n] = TagSep /\ before[n - 1] = tag
           /\ n > 2 => before[n - 2] = FieldSep
           /\ tag # "w" => \A i \in 2..(n - 2) :
                ~(before[i - 1] = FieldSep /\ before[i] = tag /\ before[i + 1] \in FramingBytes)

FieldsAreTheirs(stored) ==
  ~stored.error =>
    \A k \in DOMAIN stored.candidates : \A c \in {stored.candidates[k]} :
      /\ ~IsEmpty(c.w) /\ ReadsAs(payload, "w", c.w)
      /\ c.w.start = RecordStart(payload, c.w.start) + 2
      /\ \A tag \in CandidateTags : ReadsAs(payload, tag, c.fields[tag])
      /\ c.batch \in DOMAIN stored.batches
      /\ c.batch = Cardinality({s \in 0..c.w.start : IsHeader(payload, s)})

FieldsComeFromTheirRecord ==
  from = "anywhere" => FieldsAreTheirs(Parse(payload))

(***************************************************************************)
(* The worker reads what the shell offered: one batch for every call with  *)
(* hits, with the options it was given, and under it the hits that can be  *)
(* sent, each with the text it is matched by (_zrush_encode_batch, parse). *)
(***************************************************************************)
OfferedBy(calling) == SelectSeq(calling, LAMBDA c : c.hits # <<>>)
Sendable(call) ==
  SelectSeq(call.hits, LAMBDA h : h.word # <<>> /\ \A b \in ToSet(h.word) \cup ToSet(h.decoded) :
                                    b \notin FramingBytes)

ReadAsOffered(read, offered) ==
  LET under(k) == SelectSeq(read.candidates, LAMBDA c : c.batch = k)
  IN  /\ Len(read.batches) = Len(offered)
      /\ \A k \in DOMAIN offered :
           /\ (read.batches[k]["f"] = <<"1">>) <=> offered[k].isfile
           /\ (read.batches[k]["es"] # <<>>) <=> offered[k].asuf
           /\ \A tag \in {"P", "S", "J"} : read.batches[k][tag] = Clean(offered[k].vals[tag])
           /\ Len(under(k)) = Len(Sendable(offered[k]))
           /\ \A j \in DOMAIN under(k) :
                /\ under(k)[j].w = Sendable(offered[k])[j].word
                /\ \/ MatchText(under(k)[j]) = Sendable(offered[k])[j].decoded
                   \/ Sendable(offered[k])[j].decoded = <<>>

SentIsRead ==
  from = "capture" => ~Parse(payload).error /\ ReadAsOffered(Read(payload), OfferedBy(calls))

(***************************************************************************)
(* A history payload holds the newest sendable entries, stays below the    *)
(* ceiling, and leaves out an older entry only when it would cross it; an  *)
(* append is read as the one entry a snapshot would have put first.        *)
(***************************************************************************)
ReadAs(entries, read) ==
  Len(read) <= Len(entries)
  /\ \A k \in DOMAIN read : read[k].w = entries[k].line /\ read[k].n = entries[k].event

NewestPrefix(sendable, bytes, read) ==
  /\ ~Parse(bytes).error /\ Len(read.batches) = 1
  /\ Len(bytes) <= PayloadLimit
  /\ ReadAs(sendable, read.candidates)
  /\ Len(read.candidates) < Len(sendable) =>
       Len(bytes) + Len(HistoryRecord(sendable[Len(read.candidates) + 1])) + 1 > PayloadLimit

AppendsOne(entry, candidates) == Len(candidates) = 1 /\ ReadAs(<<entry>>, candidates)

SnapshotHolds(sendable, bytes) ==
  /\ NewestPrefix(sendable, bytes, Read(bytes))
  /\ sendable # <<>> =>
       AppendsOne(sendable[1], Read(HistoryAppendPayload(sendable[1])).candidates)

HistoryIsNewestPrefix ==
  from = "history" => SnapshotHolds(SelectSeq(history, LAMBDA e : ~Excluded(e.line)),
                                    HistorySnapshotPayload(history, PayloadLimit))
=============================================================================

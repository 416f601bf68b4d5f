------------------------------ MODULE Framing ------------------------------
(***************************************************************************)
(* The byte stream between the shell and its worker.  Both ends frame a    *)
(* message as a netstring, "<length>:<payload>,".  The worker decodes with *)
(* a state machine fed by whatever one read returned (framing.rs); the     *)
(* shell appends what it read to a buffer and takes whole frames from its  *)
(* front (_zrush_netstring_take).  Here one byte stream arrives at both,   *)
(* cut into arbitrary chunks.                                              *)
(***************************************************************************)
EXTENDS Integers, Sequences, SequencesExt

CONSTANTS Digits,      \* the ASCII digits that occur
          Others,      \* bytes that are neither digit, colon nor comma
          WorkerMax,   \* the largest length a worker integer holds
          ShellMax,    \* the largest length a shell integer holds
          MaxBytes,    \* length of the stream
          MaxChunk     \* bytes one read may return

ASSUME FramingAssumption ==
  /\ Digits \subseteq 48..57
  /\ Others \subseteq (0..255) \ ((48..58) \cup {44})
  /\ {WorkerMax, ShellMax, MaxBytes, MaxChunk} \subseteq Nat
  /\ MaxChunk > 0

Colon == 58
Comma == 44
DigitValue(byte) == byte - 48
Bytes == Digits \cup Others \cup {Colon, Comma}
Chunks == UNION {[1..n -> Bytes] : n \in 1..MaxChunk}

VARIABLES fed,     \* the bytes received so far
          worker,  \* decoder state, messages decoded, error or "none"
          shell    \* rx buffer, messages taken, whether it is malformed

vars == <<fed, worker, shell>>

-----------------------------------------------------------------------------
(***************************************************************************)
(* The worker's decoder.                                                   *)
(***************************************************************************)
\* The accumulated decimal of a length, empty at a frame boundary.
NoDecimal == [value |-> 0, digits |-> 0, zero |-> FALSE]
AtLength(decimal) == [at |-> "length", decimal |-> decimal]
AtPayload(n, bytes) == [at |-> "payload", remaining |-> n, bytes |-> bytes]
AtComma(bytes) == [at |-> "comma", bytes |-> bytes]
Failed == [at |-> "failed"]

Push(decimal, digit) ==
  [value |-> decimal.value * 10 + digit, digits |-> decimal.digits + 1,
   zero |-> decimal.digits = 0 /\ digit = 0]

PushError(decimal, digit) ==
  CASE decimal.zero -> "LeadingZero"
    [] ~decimal.zero /\ decimal.value * 10 + digit > WorkerMax -> "LengthOverflow"
    [] OTHER -> "none"

\* One byte while a length is read: the next state or the error.
LengthByte(decimal, byte) ==
  CASE byte = Colon /\ decimal.digits = 0 -> [error |-> "MissingLength", next |-> Failed]
    [] byte = Colon /\ decimal.digits > 0 ->
         [error |-> "none", next |-> IF decimal.value = 0 THEN AtComma(<<>>)
                                     ELSE AtPayload(decimal.value, <<>>)]
    [] byte \in Digits /\ PushError(decimal, DigitValue(byte)) = "none" ->
         [error |-> "none", next |-> AtLength(Push(decimal, DigitValue(byte)))]
    [] byte \in Digits /\ PushError(decimal, DigitValue(byte)) # "none" ->
         [error |-> PushError(decimal, DigitValue(byte)), next |-> Failed]
    [] OTHER -> [error |-> "MissingColon", next |-> Failed]

\* With a fault: the messages completed before an error in one chunk are lost.
StopFault(messages, error) == [state |-> Failed, messages |-> <<>>, error |-> error]

\* An error poisons the decoder; what the chunk completed is reported with it.
Stop(messages, error) == [state |-> Failed, messages |-> messages, error |-> error]

\* Decode one chunk from a state, after the given completed messages.
RECURSIVE Feed(_, _, _)
Feed(state, input, completed) ==
  IF input = <<>> THEN [state |-> state, messages |-> completed, error |-> "none"]
  ELSE CASE state.at = "length" ->
              LET r == LengthByte(state.decimal, Head(input))
              IN  IF r.error # "none" THEN Stop(completed, r.error)
                  ELSE Feed(r.next, Tail(input), completed)
         [] state.at = "payload" ->
              LET take == IF state.remaining < Len(input) THEN state.remaining ELSE Len(input)
                  bytes == state.bytes \o SubSeq(input, 1, take)
              IN  Feed(IF take = state.remaining THEN AtComma(bytes)
                       ELSE AtPayload(state.remaining - take, bytes),
                       SubSeq(input, take + 1, Len(input)), completed)
         [] state.at = "comma" ->
              IF Head(input) # Comma THEN Stop(completed, "InvalidTrailingComma")
              ELSE Feed(AtLength(NoDecimal), Tail(input), Append(completed, state.bytes))
         [] OTHER -> Stop(completed, "DecoderFailed")

\* The end of the stream: clean only at a frame boundary.
Finish(state) ==
  CASE state = AtLength(NoDecimal) -> "none"
    [] state = Failed -> "DecoderFailed"
    [] OTHER -> "TruncatedFrame"

\* The digits of a length, most significant first.
RECURSIVE Decimal(_)
Decimal(n) == IF n < 10 THEN <<n + 48>> ELSE Append(Decimal(n \div 10), 48 + (n % 10))

Encode(payload) == Decimal(Len(payload)) \o <<Colon>> \o payload \o <<Comma>>

\* A whole payload decoded as a stream of fields, as for the fields of a
\* message: "none" and the fields, or the first error.
DecodeFields(message) ==
  LET r == Feed(AtLength(NoDecimal), message, <<>>)
      error == IF r.error # "none" THEN r.error ELSE Finish(r.state)
  IN  [error |-> error, fields |-> IF error = "none" THEN r.messages ELSE <<>>]

-----------------------------------------------------------------------------
(***************************************************************************)
(* The shell's side: a frame at the front of the buffer, 0 taken,          *)
(* 1 incomplete, 2 malformed.                                              *)
(***************************************************************************)
RECURSIVE Value(_)
Value(digits) ==
  IF digits = <<>> THEN 0 ELSE Value(Front(digits)) * 10 + DigitValue(Last(digits))

Incomplete == [status |-> 1, frame |-> <<>>, rest |-> <<>>]
Malformed == [status |-> 2, frame |-> <<>>, rest |-> <<>>]

Terminated(data, comma) == data[comma] = Comma

TakeAfterColon(data, colon) ==
  LET digits == SubSeq(data, 1, colon - 1)
      comma == colon + Value(digits) + 1
  IN  CASE ~(/\ digits # <<>> /\ ToSet(digits) \subseteq Digits
             /\ (digits = Decimal(0) \/ Head(digits) # 48)
             /\ Value(digits) <= ShellMax) -> Malformed
        [] OTHER -> IF comma > Len(data) THEN Incomplete
                    ELSE IF ~Terminated(data, comma) THEN Malformed
                    ELSE [status |-> 0, frame |-> SubSeq(data, colon + 1, comma - 1),
                          rest |-> SubSeq(data, comma + 1, Len(data))]

Take(data) ==
  IF ~Contains(data, Colon)
  THEN IF ToSet(data) \subseteq Digits THEN Incomplete ELSE Malformed
  ELSE TakeAfterColon(data, SelectInSeq(data, LAMBDA b : b = Colon))

\* All frames at the front of the buffer, until it is incomplete or malformed.
RECURSIVE TakeAll(_)
TakeAll(side) ==
  LET t == Take(side.rx)
  IN  CASE t.status = 0 ->
             TakeAll([side EXCEPT !.rx = t.rest, !.messages = Append(@, t.frame)])
        [] t.status = 1 -> side
        [] t.status = 2 -> [side EXCEPT !.broken = TRUE]

-----------------------------------------------------------------------------
Init ==
  /\ fed = <<>>
  /\ worker = [state |-> AtLength(NoDecimal), messages |-> <<>>, error |-> "none"]
  /\ shell = [rx |-> <<>>, messages |-> <<>>, broken |-> FALSE]

\* One read at each end.  The worker handles the messages of the chunk before
\* its error; the shell ends its session at the first malformed frame.
Read(chunk) ==
  /\ worker.error = "none"
  /\ Len(fed) + Len(chunk) <= MaxBytes
  /\ fed' = fed \o chunk
  /\ LET r == Feed(worker.state, chunk, <<>>)
     IN  worker' = [r EXCEPT !.messages = worker.messages \o @]
  /\ shell' = IF shell.broken THEN shell ELSE TakeAll([shell EXCEPT !.rx = @ \o chunk])

\* The worker's peer closes the stream.
Close ==
  /\ worker.error = "none"
  /\ Finish(worker.state) # "none"
  /\ worker' = [worker EXCEPT !.error = Finish(worker.state), !.state = Failed]
  /\ UNCHANGED <<fed, shell>>

Next == Close \/ \E chunk \in Chunks : Read(chunk)

Spec == Init /\ [][Next]_vars

-----------------------------------------------------------------------------
(***************************************************************************)
(* What a stream of bytes means, with no reference to how it arrives: its  *)
(* messages are the payloads of the frames it starts with, and it is good  *)
(* as long as what follows them can still become a frame.                  *)
(***************************************************************************)
Payload(s, n) == SubSeq(s, Len(Decimal(n)) + 2, Len(Decimal(n)) + 1 + n)
FrameLengths(s) ==
  {n \in 0..Len(s) : /\ Len(Decimal(n)) + n + 2 <= Len(s)
                     /\ IsPrefix(Encode(Payload(s, n)), s)}

RECURSIVE Messages(_, _)
Messages(s, max) ==
  LET ns == FrameLengths(s) \cap 0..max
  IN  IF ns = {} THEN <<>>
      ELSE LET frame == Payload(s, CHOOSE n \in ns : TRUE)
           IN  <<frame>> \o Messages(SubSeq(s, Len(Encode(frame)) + 1, Len(s)), max)

RECURSIVE Remainder(_, _)
Remainder(s, max) ==
  LET ns == FrameLengths(s) \cap 0..max
  IN  IF ns = {} THEN s
      ELSE LET frame == Payload(s, CHOOSE n \in ns : TRUE)
           IN  Remainder(SubSeq(s, Len(Encode(frame)) + 1, Len(s)), max)

CanBecomeFrame(s, max) ==
  \E n \in 0..max : LET header == Append(Decimal(n), Colon)
                    IN  \/ IsPrefix(s, header)
                        \/ IsPrefix(header, s) /\ Len(s) <= Len(header) + n

TypeOK ==
  /\ fed \in Seq(Bytes)
  /\ worker.error \in {"none", "MissingLength", "LeadingZero", "LengthOverflow",
                       "MissingColon", "InvalidTrailingComma", "TruncatedFrame"}
  /\ worker.state = Failed <=> worker.error # "none"
  /\ shell.broken \in BOOLEAN

(***************************************************************************)
(* The messages the worker handles and whether it gives up depend on the   *)
(* bytes alone: not on how reads cut them, and not on an error arriving in *)
(* the same read as good frames (framing.rs feed, FeedError).              *)
(***************************************************************************)
WorkerIgnoresChunking ==
  /\ worker.messages = Messages(fed, WorkerMax)
  /\ worker.error \notin {"none", "TruncatedFrame"}
       <=> ~CanBecomeFrame(Remainder(fed, WorkerMax), WorkerMax)

(***************************************************************************)
(* The shell takes the same messages from the same bytes, leaves the bytes *)
(* of an unfinished frame in its buffer, and breaks off only on a stream   *)
(* no continuation could repair (_zrush_netstring_take).                   *)
(***************************************************************************)
ShellIgnoresChunking ==
  /\ IsPrefix(shell.messages, Messages(fed, ShellMax))
  /\ shell.broken => ~CanBecomeFrame(Remainder(fed, ShellMax), ShellMax)
  /\ ~shell.broken => /\ shell.messages = Messages(fed, ShellMax)
                      /\ shell.rx = Remainder(fed, ShellMax)

(***************************************************************************)
(* The end of a stream is clean exactly when the bytes are the encodings   *)
(* of the messages handled, one after the other; the same decides whether  *)
(* a payload decodes as fields (decode_netstring_stream).                  *)
(***************************************************************************)
CleanEndIsWholeFrames ==
  LET whole == fed = FlattenSeq([i \in DOMAIN worker.messages |-> Encode(worker.messages[i])])
  IN  /\ whole <=> DecodeFields(fed).error = "none"
      /\ whole => DecodeFields(fed).fields = worker.messages
      /\ worker.error = "none" => (whole <=> Finish(worker.state) = "none")
      /\ worker.error = "TruncatedFrame" => ~whole
=============================================================================

---------------------------- MODULE HistoryIndex ----------------------------
(***************************************************************************)
(* The worker's history index: a generation stamp and the history lines it *)
(* holds, newest first.  The operators of this module are the operations   *)
(* of the index as functions of its value, which WorkerSession keeps in a  *)
(* variable.                                                               *)
(***************************************************************************)
LOCAL INSTANCE Integers
LOCAL INSTANCE Sequences

CONSTANTS Lines,         \* the distinct history lines
          RetentionCap   \* entries retained at most

\* Stamp 0 is the uninitialised index, which has no generation at all.
NoIndex == [stamp |-> 0, entries |-> <<>>]

Index(Stamps) == [stamp : Stamps, entries : Seq(Lines)]

\* The newest entries of a newest-first sequence.
Newest(lines, n) == SubSeq(lines, 1, IF Len(lines) < n THEN Len(lines) ELSE n)

\* Whether a plan naming this generation resolves to the index.
Holds(index, g) == g # 0 /\ index.stamp = g

\* With a fault, for checking the properties: the same generation again is
\* accepted.
AcceptsFault(index, g) == index.stamp = 0 \/ g >= index.stamp

\* A write is accepted only when its generation is greater than the stamp.
Accepts(index, g) == index.stamp = 0 \/ g > index.stamp

AcceptsAppend(index, g) == index.stamp # 0 /\ Accepts(index, g)

\* Replace every entry.
Install(g, lines) ==
  [stamp |-> g, entries |-> Newest(lines, RetentionCap)]

\* Prepend the payload in payload order and evict from the old end.
AppendTo(index, g, lines) ==
  [stamp |-> g, entries |-> Newest(lines \o index.entries, RetentionCap)]

(***************************************************************************)
(* The positions a query of at most `limit` entries lists, newest first:   *)
(* those of the scanned prefix whose line does not already occur before    *)
(* them.  A duplicate is not replaced by an entry beyond the prefix.       *)
(***************************************************************************)
Window(index, limit) ==
  LET scan == Len(Newest(Newest(index.entries, RetentionCap), limit))
  IN  {i \in 1..scan : \A j \in 1..(i - 1) : index.entries[j] # index.entries[i]}
=============================================================================

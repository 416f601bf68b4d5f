------------------------ MODULE WorkerSession_proofs ------------------------
(***************************************************************************)
(* Proofs about WorkerSession: type correctness and the safety invariants  *)
(* the model checker checks on small instances, for every number of        *)
(* identifiers, every candidate and history payload, every peer and every  *)
(* capacity of the response stream.                                        *)
(***************************************************************************)
EXTENDS WorkerSession, TLAPS

(***************************************************************************)
(* What the operators return.                                              *)
(***************************************************************************)
\* An identifier is a natural number, and a slot one of two names.
LEMMA IdType ==
  /\ Id \subseteq Nat /\ Ref \subseteq Nat /\ Id \subseteq Ref /\ 0 \in Ref
  /\ MaxId \in Nat /\ 0 \notin Id
BY MaxIdAssumption DEF Id, Ref

\* A slot that holds a generation holds parsed candidates under it, and the
\* lookup finds them.
LEMMA FoundIsHeld ==
  ASSUME NEW store \in [Slot -> Stored \cup {EmptySlot}], NEW g, HeldIn(store, g)
  PROVE  /\ g \in Id
         /\ Found(store, g) \in Stored
         /\ Found(store, g).gen = g
         /\ \E s \in Slot : store[s] = Found(store, g)
<1>1. PICK s \in Slot : store[s].gen = g /\ g # 0
  BY DEF HeldIn
<1>2. \A t \in Slot : store[t].gen = g => store[t] \in Stored /\ g \in Id
  BY <1>1 DEF Stored, EmptySlot
<1>3. Found(store, g) \in {store["live"], store["cache"]} /\ Found(store, g).gen = g
  BY <1>1 DEF Found, Slot
<1> QED
  BY <1>1, <1>2, <1>3 DEF Slot

\* Settling an input yields an input that is not pending, resolved to the
\* generation it was settled against if that one is held, and to none if not.
LEMMA SettledType ==
  ASSUME NEW store \in [Slot -> Stored \cup {EmptySlot}], NEW g, NEW in \in Inputs
  PROVE  /\ Settled(in, store, g) \in Inputs
         /\ Settled(in, store, g).gen = in.gen
         /\ Settled(in, store, g).pending = FALSE
         /\ Settled(in, store, g).resolved = IF HeldIn(store, g) THEN g ELSE 0
<1>1. (IF HeldIn(store, g) THEN g ELSE 0) \in Ref
  BY FoundIsHeld, IdType
<1> QED
  BY <1>1 DEF Settled, Inputs

\* The event that settles an input is a message of the response stream, a
\* plan of held candidates or the request for a capture.
LEMMA SettleEventType ==
  ASSUME NEW store \in [Slot -> Stored \cup {EmptySlot}], NEW g, NEW in \in Inputs
  PROVE  /\ SettleEvent(in, store, g) \in Written
         /\ SettleEvent(in, store, g).ref = in.gen
         /\ IsSettle(SettleEvent(in, store, g)) /\ IsEvent(SettleEvent(in, store, g))
         /\ SettleEvent(in, store, g).kind = "capture-required" => ~HeldIn(store, g)
<1>1. in.gen \in Ref
  BY DEF Inputs
<1>2. CASE HeldIn(store, g)
  <2>1. Found(store, g) \in Stored
    BY <1>2, FoundIsHeld
  <2> QED
    BY <1>1, <1>2, <2>1 DEF SettleEvent, PlanReady, Written, IsSettle, IsEvent, SettleKind, EventKind
<1>3. CASE ~HeldIn(store, g)
  BY <1>1, <1>3 DEF SettleEvent, CaptureRequired, Written, IsSettle, IsEvent, SettleKind, EventKind
<1> QED
  BY <1>2, <1>3

\* The responses and the answer to the handshake are messages of the stream.
LEMMA ResponseType ==
  ASSUME NEW id \in Ref
  PROVE  /\ Ok(id) \in Written
         /\ \A p \in Stored : Planned(id, p) \in Written
         /\ \A code \in ErrorCode : Refuse(id, code) \in Written
         /\ \A w \in SUBSET (1..RetentionCap) :
              [kind |-> "ok", ref |-> id, window |-> w] \in Written
         /\ \A kind \in {"ready", "incompatible"} : Handshake(kind) \in Written
BY DEF Ok, Planned, Refuse, Handshake, Written

\* An accepted input draws at most one message at once, its decoration.
LEMMA HighlightType ==
  ASSUME NEW g \in Ref, namespace \in OrBad(Namespaces)
  PROVE  Highlight(g) \in Seq(Written)
<1> DEFINE event == [kind |-> "syntax-highlight", ref |-> g, names |-> namespace]
<1>1. namespace # Nothing => event \in Written
  BY DEF Written, OrBad
<1>2. event \in Written => <<event>> \in Seq(Written)
  OBVIOUS
<1> QED
  BY <1>1, <1>2 DEF Highlight

\* What the history index holds is a sequence of lines no longer than its cap.
LEMMA NewestType ==
  ASSUME NEW lines \in Seq(Lines), NEW n \in Nat
  PROVE  /\ HI!Newest(lines, n) \in Seq(Lines)
         /\ Len(HI!Newest(lines, n)) <= n
BY DEF HI!Newest

\* A history window is a set of positions of the retained entries.
LEMMA WindowType ==
  ASSUME NEW index \in HI!Index(Ref), NEW limit \in Nat
  PROVE  HI!Window(index, limit) \in SUBSET (1..RetentionCap)
<1> DEFINE kept == HI!Newest(index.entries, RetentionCap)
<1>1. kept \in Seq(Lines) /\ Len(kept) <= RetentionCap
  BY NewestType, CapAssumption DEF HI!Index
<1>2. Len(HI!Newest(kept, limit)) \in Nat /\ Len(HI!Newest(kept, limit)) <= RetentionCap
  BY <1>1, CapAssumption DEF HI!Newest
<1> QED
  BY <1>2, CapAssumption DEF HI!Window

\* A message the peer sends has the fields of its kind.
LEMMA MessageFields ==
  ASSUME NEW m \in Sent
  PROVE  /\ m.kind = "input" => m.gen \in Id /\ m.cand \in Ref /\ m.quiet \in BOOLEAN
         /\ m.kind = "flush" => m.gen \in Id
         /\ m.kind = "namespace-snapshot" => m.id \in Ref /\ m.payload \in OrBad(Namespaces)
         /\ m.kind = "store" => /\ m.id \in Ref /\ m.slot \in Slot /\ m.gen \in Id
                                /\ m.bound \in Id /\ m.payload \in OrBad(Candidates)
         /\ m.kind \in {"history-snapshot", "history-append"} =>
              m.id \in Ref /\ m.gen \in Id /\ m.payload \in OrBad(HistoryPayloads)
         /\ m.kind = "plan" => m.id \in Ref /\ m.gen \in Id /\ m.limit \in Nat
         /\ m.kind = "completion" => m.id \in Ref /\ m.bound \in Id
         /\ m.kind = "invalid" => m.id \in Ref
<1>1. m \in Message
  BY DEF Sent
<1>2. RequestIds \subseteq Ref /\ Id \subseteq Nat
  BY PeerAssumption, IdType
<1> QED
  BY <1>1, <1>2 DEF Message

(***************************************************************************)
(* Type correctness.                                                       *)
(***************************************************************************)
\* A message answered by one response leaves the retained state alone, but
\* for the parts the handler says.
LEMMA RespondType ==
  ASSUME TypeOK, NEW r \in Written, Respond(r)
  PROVE  out' \in Seq(Written) /\ phase' = phase /\ out' = Append(out, r)
BY DEF TypeOK, Respond

\* Every handler of a message keeps the types of the state.
LEMMA ReceiveType ==
  ASSUME TypeOK, NEW m \in Sent, Receive(m)
  PROVE  TypeOK'
<1> USE MessageFields, IdType DEF OrBad
<1>1. CASE Hello(m)
  <2>1. Handshake("ready") \in Written /\ Handshake("incompatible") \in Written
    BY ResponseType
  <2>2. out' \in Seq(Written) /\ UNCHANGED retained
    BY <1>1, <2>1 DEF Hello, Fail, TypeOK
  <2>3. phase' \in {"ready", "discarding", "failed"}
    BY <1>1 DEF Hello, Fail
  <2> QED
    BY <2>2, <2>3 DEF TypeOK, retained
<1>2. CASE AcceptInput(m)
  <2> DEFINE accepted == [gen |-> m.gen, cand |-> m.cand, resolved |-> 0, pending |-> TRUE]
             event    == SettleEvent(accepted, slots, m.cand)
  <2>1. m.gen \in Id /\ m.cand \in Ref /\ accepted \in Inputs
    BY <1>2 DEF AcceptInput, Inputs
  <2>2. Settled(accepted, slots, m.cand) \in Inputs /\ event \in Written
    BY <2>1, SettledType, SettleEventType DEF TypeOK
  <2>3. Highlight(m.gen) \in Seq(Written)
    BY <2>1, HighlightType DEF TypeOK
  <2>4. <<event>> \in Seq(Written)
    BY <2>2
  <2>5. /\ out \o Highlight(m.gen) \in Seq(Written)
        /\ out \o Highlight(m.gen) \o <<event>> \in Seq(Written)
    BY <2>3, <2>4 DEF TypeOK
  <2>6. CASE Newer(m)
    <3> HIDE DEF accepted, event
    <3>1. /\ input' \in {accepted, Settled(accepted, slots, m.cand)}
          /\ out' \in {out \o Highlight(m.gen), out \o Highlight(m.gen) \o <<event>>}
          /\ UNCHANGED <<phase, namespace, slots, history>>
      BY <1>2, <2>6 DEF AcceptInput, accepted, event
    <3> QED
      BY <2>1, <2>2, <2>5, <3>1 DEF TypeOK
  <2>7. CASE ~Newer(m)
    BY <1>2, <2>7 DEF AcceptInput, Fail, TypeOK, retained
  <2> QED
    BY <2>6, <2>7
<1>3. CASE AcceptFlush(m)
  <2>1. /\ Settled(input, slots, input.cand) \in Inputs
        /\ SettleEvent(input, slots, input.cand) \in Written
    BY SettledType, SettleEventType DEF TypeOK
  <2> QED
    BY <1>3, <2>1 DEF AcceptFlush, TypeOK
<1>4. CASE ReplaceNamespace(m)
  <2>1. m.id \in Ref /\ m.payload \in OrBad(Namespaces)
    BY <1>4 DEF ReplaceNamespace
  <2>2. PICK r \in Written : Respond(r)
    BY <1>4, <2>1, ResponseType DEF ReplaceNamespace, ErrorCode
  <2> QED
    BY <1>4, <2>1, <2>2, RespondType DEF ReplaceNamespace, TypeOK
<1>5. CASE StoreCandidates(m)
  <2>1. m.id \in Ref /\ m.slot \in Slot /\ m.gen \in Id /\ m.payload \in OrBad(Candidates)
    BY <1>5 DEF StoreCandidates
  <2>2. Refuse(m.id, "superseded") \in Written /\ Refuse(m.id, "invalid-payload") \in Written
    BY <2>1, ResponseType DEF ErrorCode
  <2>3. CASE ~(input.gen = 0 \/ input.gen # m.bound) /\ m.payload # Nothing
    <3> DEFINE stored == [slots EXCEPT ![m.slot] = [gen |-> m.gen, data |-> m.payload]]
               event  == SettleEvent(input, stored, m.gen)
    <3>1. stored \in [Slot -> Stored \cup {EmptySlot}]
      BY <2>1, <2>3 DEF TypeOK, Stored
    <3>2. Settled(input, stored, m.gen) \in Inputs /\ event \in Written
      BY <3>1, SettledType, SettleEventType DEF TypeOK
    <3> HIDE DEF stored, event
    <3>3. <<Ok(m.id), event>> \in Seq(Written)
      <4>1. Ok(m.id) \in Written
        BY <2>1, ResponseType
      <4> QED
        BY <3>2, <4>1
    <3>4. /\ slots' = stored /\ input' = Settled(input, stored, m.gen)
          /\ out' = out \o <<Ok(m.id), event>>
          /\ UNCHANGED <<phase, namespace, history>>
      BY <1>5, <2>3 DEF StoreCandidates, stored, event
    <3> QED
      BY <3>1, <3>2, <3>3, <3>4 DEF TypeOK
  <2>4. CASE input.gen = 0 \/ input.gen # m.bound \/ m.payload = Nothing
    <3>1. PICK r \in Written : Respond(r)
      BY <1>5, <2>2, <2>4 DEF StoreCandidates
    <3> QED
      BY <1>5, <2>4, <3>1, RespondType DEF StoreCandidates, TypeOK
  <2> QED
    BY <2>3, <2>4
<1>6. CASE WriteHistory(m)
  <2>1. m.id \in Ref /\ m.gen \in Id /\ m.payload \in OrBad(HistoryPayloads)
    BY <1>6 DEF WriteHistory
  <2>2. PICK r \in Written : Respond(r)
    BY <1>6, <2>1, ResponseType DEF WriteHistory, ErrorCode
  <2>3. m.payload # Nothing =>
          /\ HI!Install(m.gen, m.payload) \in HI!Index(Ref)
          /\ HI!AppendTo(history, m.gen, m.payload) \in HI!Index(Ref)
    <3> SUFFICES ASSUME m.payload # Nothing
                 PROVE  /\ HI!Install(m.gen, m.payload) \in HI!Index(Ref)
                        /\ HI!AppendTo(history, m.gen, m.payload) \in HI!Index(Ref)
      OBVIOUS
    <3>1. m.payload \in Seq(Lines) /\ m.payload \o history.entries \in Seq(Lines)
      BY <2>1, PeerAssumption DEF TypeOK, HI!Index
    <3>2. RetentionCap \in Nat
      BY CapAssumption
    <3> QED
      BY <2>1, <3>1, <3>2, NewestType DEF HI!Install, HI!AppendTo, HI!Index
  <2>4. history' \in HI!Index(Ref)
    BY <1>6, <2>3 DEF WriteHistory, TypeOK
  <2> QED
    BY <1>6, <2>2, <2>4, RespondType DEF WriteHistory, TypeOK
<1>7. CASE HistoryPlan(m)
  <2>1. m.id \in Ref /\ m.limit \in Nat
    BY <1>7 DEF HistoryPlan
  <2>2. HI!Window(history, m.limit) \in SUBSET (1..RetentionCap)
    BY <2>1, WindowType DEF TypeOK
  <2>3. PICK r \in Written : Respond(r)
    BY <1>7, <2>1, <2>2, ResponseType DEF HistoryPlan, ErrorCode
  <2> QED
    BY <1>7, <2>3, RespondType DEF HistoryPlan, TypeOK, retained
<1>8. CASE CompletionPlan(m)
  <2>1. m.id \in Ref
    BY <1>8 DEF CompletionPlan
  <2>2. HeldIn(slots, input.resolved) => Found(slots, input.resolved) \in Stored
    BY FoundIsHeld DEF TypeOK
  <2>3. PICK r \in Written : Respond(r)
    BY <1>8, <2>1, <2>2, ResponseType DEF CompletionPlan, ErrorCode
  <2> QED
    BY <1>8, <2>3, RespondType DEF CompletionPlan, TypeOK, retained
<1>9. CASE InvalidRequest(m)
  <2>1. Refuse(m.id, "invalid-request") \in Written
    BY <1>9, ResponseType DEF InvalidRequest, ErrorCode
  <2> QED
    BY <1>9, <2>1, RespondType DEF InvalidRequest, TypeOK, retained
<1>10. CASE Malformed(m)
  BY <1>10 DEF Malformed, Fail, TypeOK, retained
<1>11. CASE Discard(m)
  BY <1>11 DEF Discard, vars, TypeOK
<1> QED
  BY <1>1, <1>2, <1>3, <1>4, <1>5, <1>6, <1>7, <1>8, <1>9, <1>10, <1>11 DEF Receive

\* So does every other step.
LEMMA TypeStep ==
  ASSUME TypeOK, [Next]_vars
  PROVE  TypeOK'
<1>1. ASSUME NEW m \in Sent, Receive(m)
      PROVE  TypeOK'
  BY <1>1, ReceiveType
<1>2. CASE SettleExpired
  <2>1. /\ Settled(input, slots, input.cand) \in Inputs
        /\ SettleEvent(input, slots, input.cand) \in Written
    BY SettledType, SettleEventType DEF TypeOK
  <2> QED
    BY <1>2, <2>1 DEF SettleExpired, TypeOK
<1>3. CASE Drain
  <2>1. Tail(out) \in Seq(Written)
    BY <1>3 DEF Drain, TypeOK
  <2> QED
    BY <1>3, <2>1 DEF Drain, TypeOK, retained
<1>4. CASE \E truncated \in BOOLEAN : EndOfRequests(truncated)
  BY <1>4 DEF EndOfRequests, TypeOK, retained
<1>5. CASE Abort
  BY <1>5 DEF Abort, TypeOK, retained
<1>6. CASE UNCHANGED vars
  BY <1>6 DEF vars, TypeOK
<1> QED
  BY <1>1, <1>2, <1>3, <1>4, <1>5, <1>6 DEF Next

\* The initial state is well typed.
LEMMA TypeInit == Init => TypeOK
BY IdType DEF Init, TypeOK, OrBad, NoInput, Inputs, HI!NoIndex, HI!Index

\* The retained state and the response stream always have their types:
\* whatever a peer sends, no handler stores or writes anything else.
THEOREM TypeCorrect == Spec => []TypeOK
<1>1. TypeOK /\ [Next]_vars => TypeOK'
  BY TypeStep
<1> QED
  BY <1>1, TypeInit, PTL DEF Spec

(***************************************************************************)
(* The candidates the current input is resolved to.                        *)
(***************************************************************************)
\* A settled input is resolved to none or to a held generation.
LEMMA SettledIsHeld ==
  ASSUME NEW store \in [Slot -> Stored \cup {EmptySlot}], NEW g, NEW in \in Inputs
  PROVE  LET r == Settled(in, store, g).resolved IN r # 0 => HeldIn(store, r)
BY SettledType

\* Every step keeps the current input resolved to held candidates: the only
\* step that replaces a slot settles the input again.
LEMMA ResolvedStep ==
  ASSUME TypeOK, ResolvedIsHeld, [Next]_vars
  PROVE  ResolvedIsHeld'
<1>1. CASE UNCHANGED <<slots, input>>
  BY <1>1 DEF ResolvedIsHeld, HeldIn
<1>2. ASSUME NEW g, UNCHANGED slots, input' = Settled(input, slots, g)
      PROVE  ResolvedIsHeld'
  BY <1>2, SettledIsHeld DEF ResolvedIsHeld, TypeOK
<1>3. ASSUME NEW m \in Sent, AcceptInput(m)
      PROVE  ResolvedIsHeld'
  <2> DEFINE accepted == [gen |-> m.gen, cand |-> m.cand, resolved |-> 0, pending |-> TRUE]
  <2>1. accepted \in Inputs /\ accepted.resolved = 0
    BY <1>3, MessageFields, IdType DEF AcceptInput, Inputs
  <2>2. UNCHANGED slots /\ input' \in {input, accepted, Settled(accepted, slots, m.cand)}
    BY <1>3 DEF AcceptInput, Fail, retained
  <2> HIDE DEF accepted
  <2> QED
    BY <2>1, <2>2, SettledIsHeld DEF ResolvedIsHeld, TypeOK, HeldIn
<1>4. ASSUME NEW m \in Sent, StoreCandidates(m)
      PROVE  ResolvedIsHeld'
  <2>1. CASE UNCHANGED <<slots, input>>
    BY <1>1, <2>1
  <2>2. CASE input' = Settled(input, slots', m.gen)
    BY <1>4, <2>2, SettledIsHeld, TypeStep DEF ResolvedIsHeld, TypeOK
  <2> QED
    BY <1>4, <2>1, <2>2 DEF StoreCandidates
<1>5. ASSUME NEW m \in Sent, Receive(m)
      PROVE  ResolvedIsHeld'
  <2>1. CASE AcceptFlush(m)
    BY <1>1, <1>2, <2>1 DEF AcceptFlush
  <2>2. CASE \/ Hello(m) \/ ReplaceNamespace(m) \/ WriteHistory(m) \/ HistoryPlan(m)
             \/ CompletionPlan(m) \/ InvalidRequest(m) \/ Malformed(m) \/ Discard(m)
    BY <1>1, <2>2 DEF Hello, Fail, ReplaceNamespace, WriteHistory, HistoryPlan,
       CompletionPlan, InvalidRequest, Malformed, Discard, retained, vars
  <2> QED
    BY <1>3, <1>4, <1>5, <2>1, <2>2 DEF Receive
<1>6. CASE SettleExpired
  BY <1>2, <1>6 DEF SettleExpired
<1>7. CASE Drain \/ Abort \/ (\E truncated \in BOOLEAN : EndOfRequests(truncated)) \/ UNCHANGED vars
  BY <1>1, <1>7 DEF Drain, Abort, EndOfRequests, retained, vars
<1> QED
  BY <1>5, <1>6, <1>7 DEF Next

\* The lookup of a completion never finds the candidates of the current input
\* gone: what the input is resolved to stays in the store.
THEOREM ResolvedHeld == Spec => []ResolvedIsHeld
<1>1. Init => ResolvedIsHeld
  BY DEF Init, ResolvedIsHeld, NoInput
<1>2. TypeOK /\ ResolvedIsHeld /\ [Next]_vars => ResolvedIsHeld'
  BY ResolvedStep
<1> QED
  BY <1>1, <1>2, TypeCorrect, PTL DEF Spec

(***************************************************************************)
(* The order of the events.  The three invariants about the response       *)
(* stream are not inductive one by one: that a capture is asked for at     *)
(* most once rests on a pending input being unanswered, and that rests on  *)
(* no event being ahead of the current input.  Follows is what any two     *)
(* messages of the stream owe each other, Behind what each owes the        *)
(* current input.                                                          *)
(***************************************************************************)
Follows(a, b) ==
  IsEvent(a) /\ IsEvent(b) =>
    /\ a.ref <= b.ref
    /\ a.ref = b.ref =>
         b.kind # "syntax-highlight" /\ (IsSettle(a) => b.kind # "capture-required")

Behind(a, in) ==
  IsEvent(a) => /\ a.ref <= in.gen
                /\ in.pending /\ IsSettle(a) => a.ref # in.gen

InOrder(o)  == \A i, j \in 1..Len(o) : i < j => Follows(o[i], o[j])
AllBehind(o, in) == \A i \in 1..Len(o) : Behind(o[i], in)

OrderInv == InOrder(out) /\ AllBehind(out, input)

\* The invariant is the conjunction of the three the model checker checks.
LEMMA OrderInvMeans ==
  ASSUME OrderInv, TypeOK
  PROVE  EventsInInputOrder /\ PendingIsUnanswered /\ CaptureAskedFirst
<1>1. \A m : IsSettle(m) => IsEvent(m)
  BY DEF IsSettle, IsEvent, EventKind
<1> QED
  BY <1>1 DEF OrderInv, InOrder, AllBehind, Follows, Behind, EventsInInputOrder,
     PendingIsUnanswered, CaptureAskedFirst

\* Writing one more message keeps the stream in order if the message follows
\* every one before it.
LEMMA AppendInOrder ==
  ASSUME NEW o \in Seq(Written), NEW e \in Written, NEW in,
         InOrder(o), \A i \in 1..Len(o) : Follows(o[i], e),
         AllBehind(o, in), Behind(e, in)
  PROVE  InOrder(Append(o, e)) /\ AllBehind(Append(o, e), in)
<1> DEFINE longer == Append(o, e)
<1>1. /\ Len(longer) = Len(o) + 1 /\ Len(o) \in Nat
      /\ \A i \in 1..Len(o) : longer[i] = o[i]
      /\ longer[Len(o) + 1] = e
  OBVIOUS
<1> HIDE DEF longer
<1>2. \A i \in 1..Len(longer) : i \in 1..Len(o) \/ i = Len(o) + 1
  BY <1>1
<1>3. InOrder(longer)
  <2> SUFFICES ASSUME NEW i \in 1..Len(longer), NEW j \in 1..Len(longer), i < j
               PROVE  Follows(longer[i], longer[j])
    BY DEF InOrder
  <2>1. i \in 1..Len(o)
    BY <1>1
  <2>2. CASE j \in 1..Len(o)
    BY <1>1, <2>1, <2>2 DEF InOrder
  <2>3. CASE j = Len(o) + 1
    BY <1>1, <2>1, <2>3
  <2> QED
    BY <1>2, <2>2, <2>3
<1>4. AllBehind(longer, in)
  BY <1>1, <1>2 DEF AllBehind
<1> QED
  BY <1>3, <1>4 DEF longer

\* A response is not an event: it may be written at any point.
LEMMA AppendResponse ==
  ASSUME NEW o \in Seq(Written), NEW e \in Written, NEW in, ~IsEvent(e),
         InOrder(o), AllBehind(o, in)
  PROVE  InOrder(Append(o, e)) /\ AllBehind(Append(o, e), in)
<1>1. Behind(e, in) /\ \A i \in 1..Len(o) : Follows(o[i], e)
  BY DEF Behind, Follows
<1> QED
  BY <1>1, AppendInOrder

\* A settle event may be written when everything is behind the input it is
\* for, provided it is a plan or the input was still pending.
LEMMA AppendSettle ==
  ASSUME NEW o \in Seq(Written), NEW e \in Written, NEW in \in Inputs, NEW in2 \in Inputs,
         IsSettle(e), e.ref = in.gen, in2.gen = in.gen, in2.pending = FALSE,
         e.kind = "capture-required" => in.pending,
         InOrder(o), AllBehind(o, in)
  PROVE  InOrder(Append(o, e)) /\ AllBehind(Append(o, e), in2)
<1>1. in.gen \in Nat /\ \A i \in 1..Len(o) : o[i].ref \in Nat
  <2>1. \A m \in Written : m.ref \in Ref
    BY IdType DEF Written
  <2>2. \A i \in 1..Len(o) : o[i] \in Written
    OBVIOUS
  <2> QED
    BY <2>1, <2>2, IdType DEF Inputs
<1>2. AllBehind(o, in2) /\ Behind(e, in2)
  BY <1>1 DEF AllBehind, Behind
<1>3. \A i \in 1..Len(o) : Follows(o[i], e)
  BY <1>1 DEF AllBehind, Behind, Follows, IsSettle, SettleKind
<1> QED
  BY <1>2, <1>3, AppendInOrder

\* Reading the head of the stream leaves the rest in order.
LEMMA TailInOrder ==
  ASSUME NEW o \in Seq(Written), NEW in, o # <<>>, InOrder(o), AllBehind(o, in)
  PROVE  InOrder(Tail(o)) /\ AllBehind(Tail(o), in)
<1>1. Len(Tail(o)) = Len(o) - 1 /\ Len(o) \in Nat
  OBVIOUS
<1>2. \A i \in 1..Len(Tail(o)) : Tail(o)[i] = o[i + 1] /\ i + 1 \in 1..Len(o)
  BY <1>1
<1> QED
  BY <1>1, <1>2 DEF InOrder, AllBehind

\* Every step keeps the order of the events.
LEMMA OrderStep ==
  ASSUME TypeOK, OrderInv, [Next]_vars
  PROVE  OrderInv'
<1> USE DEF OrderInv
<1>1. TypeOK' /\ input \in Inputs /\ input' \in Inputs /\ out \in Seq(Written)
  BY TypeStep DEF TypeOK
<1>2. ASSUME NEW m \in Sent, NEW r \in Written, Respond(r), ~IsEvent(r), UNCHANGED input
      PROVE  OrderInv'
  BY <1>1, <1>2, AppendResponse DEF Respond
<1>3. CASE UNCHANGED <<input, out>>
  BY <1>3
<1>4. ASSUME input.pending,
             input' = Settled(input, slots, input.cand),
             out' = Append(out, SettleEvent(input, slots, input.cand))
      PROVE  OrderInv'
  <2> HIDE DEF OrderInv
  <2>1. slots \in [Slot -> Stored \cup {EmptySlot}] /\ InOrder(out) /\ AllBehind(out, input)
    BY DEF TypeOK, OrderInv
  <2> DEFINE settled == Settled(input, slots, input.cand)
             event   == SettleEvent(input, slots, input.cand)
  <2>2. settled.gen = input.gen /\ settled.pending = FALSE /\ settled \in Inputs
    BY <1>1, <2>1, SettledType
  <2>3. event \in Written /\ IsSettle(event) /\ event.ref = input.gen
    BY <1>1, <2>1, SettleEventType
  <2> HIDE DEF settled, event
  <2>4. InOrder(Append(out, event)) /\ AllBehind(Append(out, event), settled)
    BY <1>1, <1>4, <2>1, <2>2, <2>3, AppendSettle
  <2> QED
    BY <1>4, <2>4 DEF OrderInv, settled, event
<1>5. ASSUME NEW m \in Sent, AcceptInput(m), Newer(m)
      PROVE  OrderInv'
  <2> DEFINE accepted == [gen |-> m.gen, cand |-> m.cand, resolved |-> 0, pending |-> TRUE]
             settled  == Settled(accepted, slots, m.cand)
             event    == SettleEvent(accepted, slots, m.cand)
             drawn    == out \o Highlight(m.gen)
  <2>1. /\ m.gen \in Id /\ m.cand \in Ref /\ m.gen \in Nat /\ m.gen > input.gen
        /\ input.gen \in Nat
    BY <1>1, <1>5, MessageFields, IdType DEF AcceptInput, Newer, Inputs
  <2>2. /\ accepted \in Inputs /\ accepted.gen = m.gen /\ accepted.pending
    BY <2>1, IdType DEF Inputs
  <2>3. \A i \in 1..Len(out) : out[i] \in Written /\ out[i].ref \in Nat
    <3>1. \A e \in Written : e.ref \in Ref
      BY IdType DEF Written
    <3>2. \A i \in 1..Len(out) : out[i] \in Written
      BY <1>1
    <3> QED
      BY <3>1, <3>2, IdType
  <2>4. AllBehind(out, accepted)
    BY <2>1, <2>2, <2>3 DEF AllBehind, Behind
  <2>5. drawn \in Seq(Written) /\ InOrder(drawn) /\ AllBehind(drawn, accepted)
    <3> DEFINE decoration == [kind |-> "syntax-highlight", ref |-> m.gen, names |-> namespace]
    <3>1. CASE namespace = Nothing
      BY <1>1, <2>4, <3>1 DEF Highlight
    <3>2. CASE namespace # Nothing
      <4>1. decoration \in Written
        BY <2>1, <3>2, IdType DEF Written, TypeOK, OrBad
      <4>2. Behind(decoration, accepted)
        BY <2>1, <2>2 DEF Behind, IsSettle, SettleKind
      <4>3. \A i \in 1..Len(out) : Follows(out[i], decoration)
        BY <2>1, <2>3 DEF AllBehind, Behind, Follows
      <4>4. drawn = Append(out, decoration)
        BY <1>1, <3>2 DEF Highlight
      <4> HIDE DEF decoration
      <4> QED
        BY <1>1, <2>4, <4>1, <4>2, <4>3, <4>4, AppendInOrder
    <3> QED
      BY <3>1, <3>2
  <2>6. /\ event \in Written /\ IsSettle(event) /\ event.ref = accepted.gen
        /\ settled \in Inputs /\ settled.gen = accepted.gen /\ settled.pending = FALSE
    BY <2>2, SettleEventType, SettledType DEF TypeOK
  <2> HIDE DEF accepted, settled, event, drawn
  <2>7. \/ input' = settled /\ out' = drawn \o <<event>>
        \/ input' = accepted /\ out' = drawn
    BY <1>5 DEF AcceptInput, accepted, settled, event, drawn
  <2>8. drawn \o <<event>> = Append(drawn, event)
    BY <2>5, <2>6
  <2> QED
    BY <2>2, <2>5, <2>6, <2>7, <2>8, AppendSettle
<1>6. ASSUME NEW m \in Sent, StoreCandidates(m)
      PROVE  OrderInv'
  <2>1. m.id \in Ref /\ m.slot \in Slot /\ m.gen \in Id
    BY <1>6, MessageFields DEF StoreCandidates
  <2>2. ASSUME NEW r \in {Refuse(m.id, "superseded"), Refuse(m.id, "invalid-payload")},
               Respond(r), UNCHANGED input
        PROVE  OrderInv'
    <3>1. r \in Written
      BY <2>1, <2>2, ResponseType DEF ErrorCode
    <3>2. r.kind = "error"
      BY <2>2 DEF Refuse
    <3>3. ~IsEvent(r)
      BY <3>2 DEF IsEvent, EventKind, SettleKind
    <3> QED
      BY <1>2, <2>2, <3>1, <3>3
  <2>3. ASSUME slots' = [slots EXCEPT ![m.slot] = [gen |-> m.gen, data |-> m.payload]],
               input' = Settled(input, slots', m.gen),
               out' = out \o <<Ok(m.id), SettleEvent(input, slots', m.gen)>>
        PROVE  OrderInv'
    <3> DEFINE event == SettleEvent(input, slots', m.gen)
    <3>1. slots' \in [Slot -> Stored \cup {EmptySlot}]
      BY <1>1 DEF TypeOK
    <3>2. HeldIn(slots', m.gen)
      BY <2>1, <2>3, IdType DEF HeldIn, TypeOK
    <3>3. /\ event \in Written /\ IsSettle(event) /\ event.ref = input.gen
          /\ event.kind # "capture-required"
          /\ input'.gen = input.gen /\ input'.pending = FALSE
      <4>1. /\ event \in Written /\ IsSettle(event) /\ event.ref = input.gen
            /\ event.kind # "capture-required"
        BY <1>1, <3>1, <3>2, SettleEventType
      <4>2. /\ Settled(input, slots', m.gen).gen = input.gen
            /\ Settled(input, slots', m.gen).pending = FALSE
        BY <1>1, <3>1, SettledType
      <4>3. input'.gen = input.gen /\ input'.pending = FALSE
        BY <2>3, <4>2
      <4> QED
        BY <4>1, <4>3
    <3>4. Ok(m.id) \in Written /\ ~IsEvent(Ok(m.id))
      BY <2>1, ResponseType DEF Ok, IsEvent, EventKind, SettleKind
    <3> DEFINE answered == Append(out, Ok(m.id))
    <3> HIDE DEF event
    <3>5. answered \in Seq(Written) /\ InOrder(answered) /\ AllBehind(answered, input)
      BY <1>1, <3>4, AppendResponse
    <3>6. out' = Append(answered, event)
      BY <1>1, <2>3, <3>3, <3>4 DEF event
    <3> QED
      BY <1>1, <3>3, <3>5, <3>6, AppendSettle
  <2> QED
    BY <1>6, <2>2, <2>3 DEF StoreCandidates
<1>7. ASSUME NEW m \in Sent, Hello(m)
      PROVE  OrderInv'
  <2>1. \A kind \in {"ready", "incompatible"} :
          Handshake(kind) \in Written /\ ~IsEvent(Handshake(kind))
    BY ResponseType, IdType DEF Handshake, IsEvent, EventKind, SettleKind
  <2>2. CASE UNCHANGED <<input, out>>
    BY <1>3, <2>2
  <2>3. CASE input' = input /\ \E kind \in {"ready", "incompatible"} : out' = Append(out, Handshake(kind))
    BY <1>1, <2>1, <2>3, AppendResponse
  <2> QED
    BY <1>7, <2>2, <2>3 DEF Hello, Fail, retained
<1>8. ASSUME NEW m \in Sent, ReplaceNamespace(m) \/ WriteHistory(m) \/ HistoryPlan(m)
                             \/ CompletionPlan(m) \/ InvalidRequest(m)
      PROVE  OrderInv'
  <2>1. PICK r : Respond(r) /\ r.kind \in {"ok", "error"}
    BY <1>8 DEF ReplaceNamespace, WriteHistory, HistoryPlan, CompletionPlan, InvalidRequest,
       Ok, Planned, Refuse
  <2>2. UNCHANGED input
    BY <1>8 DEF ReplaceNamespace, WriteHistory, HistoryPlan, CompletionPlan, InvalidRequest,
       retained
  <2>3. out' = Append(out, r) /\ ~IsEvent(r)
    BY <2>1 DEF Respond, IsEvent, EventKind, SettleKind
  <2>4. r \in Written
    BY <1>1, <2>3 DEF TypeOK
  <2> QED
    BY <1>2, <2>1, <2>2, <2>3, <2>4
<1>9. ASSUME NEW m \in Sent, Receive(m)
      PROVE  OrderInv'
  <2>1. CASE AcceptFlush(m)
    BY <1>3, <1>4, <2>1 DEF AcceptFlush
  <2>2. CASE AcceptInput(m) /\ ~Newer(m)
    BY <1>3, <2>2 DEF AcceptInput, Fail, retained
  <2>3. CASE Malformed(m) \/ Discard(m)
    BY <1>3, <2>3 DEF Malformed, Discard, Fail, retained, vars
  <2> QED
    BY <1>5, <1>6, <1>7, <1>8, <1>9, <2>1, <2>2, <2>3 DEF Receive
<1>10. CASE SettleExpired
  BY <1>4, <1>10 DEF SettleExpired
<1>11. CASE Drain
  BY <1>1, <1>11, TailInOrder DEF Drain, retained
<1>12. CASE Abort \/ (\E truncated \in BOOLEAN : EndOfRequests(truncated)) \/ UNCHANGED vars
  BY <1>3, <1>12 DEF Abort, EndOfRequests, retained, vars
<1> QED
  BY <1>9, <1>10, <1>11, <1>12 DEF Next

\* The inductive invariant of the response stream.
LEMMA OrderAlways == Spec => []OrderInv
<1>1. Init => OrderInv
  BY DEF Init, OrderInv, InOrder, AllBehind
<1>2. TypeOK /\ OrderInv /\ [Next]_vars => OrderInv'
  BY OrderStep
<1> QED
  BY <1>1, <1>2, TypeCorrect, PTL DEF Spec

\* Events leave the worker in the order of the inputs they answer, whatever
\* the quiet periods, flushes and stores do in between.
THEOREM EventsOrdered == Spec => []EventsInInputOrder
<1>1. OrderInv /\ TypeOK => EventsInInputOrder
  BY OrderInvMeans
<1> QED
  BY <1>1, OrderAlways, TypeCorrect, PTL

\* An input whose quiet period is still running has not been answered.
THEOREM PendingUnanswered == Spec => []PendingIsUnanswered
<1>1. OrderInv /\ TypeOK => PendingIsUnanswered
  BY OrderInvMeans
<1> QED
  BY <1>1, OrderAlways, TypeCorrect, PTL

\* A capture is asked for at most once per input and never after its plan.
THEOREM CaptureAskedOnce == Spec => []CaptureAskedFirst
<1>1. OrderInv /\ TypeOK => CaptureAskedFirst
  BY OrderInvMeans
<1> QED
  BY <1>1, OrderAlways, TypeCorrect, PTL

(***************************************************************************)
(* Action properties.                                                      *)
(***************************************************************************)
\* A write to the history index is accepted only under a greater stamp, and
\* nothing else writes to it.
LEMMA HistoryStep ==
  ASSUME TypeOK, [Next]_vars
  PROVE  /\ history'.stamp >= history.stamp
         /\ history'.stamp = history.stamp => history' = history
<1>1. history.stamp \in Nat
  BY IdType DEF TypeOK, HI!Index
<1>2. CASE UNCHANGED history
  BY <1>1, <1>2
<1>3. ASSUME NEW m \in Sent, WriteHistory(m)
      PROVE  /\ history'.stamp >= history.stamp
             /\ history'.stamp = history.stamp => history' = history
  <2>1. m.gen \in Id /\ m.gen \in Nat /\ m.gen # 0
    BY <1>3, MessageFields, IdType DEF WriteHistory
  <2>2. CASE history' \in {HI!Install(m.gen, m.payload), HI!AppendTo(history, m.gen, m.payload)}
             /\ HI!Accepts(history, m.gen)
    <3>1. history'.stamp = m.gen
      BY <2>2 DEF HI!Install, HI!AppendTo
    <3>2. m.gen > history.stamp
      BY <1>1, <2>1, <2>2 DEF HI!Accepts
    <3> QED
      BY <1>1, <2>1, <3>1, <3>2
  <2> QED
    BY <1>2, <1>3, <2>2 DEF WriteHistory, HI!AcceptsAppend
<1>4. CASE /\ \A m \in Sent : ~WriteHistory(m)
           /\ Next
  BY <1>2, <1>4 DEF Next, Receive, Hello, Fail, AcceptInput, AcceptFlush, ReplaceNamespace,
     StoreCandidates, HistoryPlan, CompletionPlan, InvalidRequest, Malformed, Discard,
     SettleExpired, Drain, EndOfRequests, Abort, retained, vars
<1> QED
  BY <1>2, <1>3, <1>4 DEF vars

\* The stamp of the history index never goes back, and what is listed under
\* one stamp never changes.
THEOREM HistoryOnlyForward == Spec => HistoryMovesForward
<1>1. TypeOK /\ [Next]_vars =>
        [/\ history'.stamp >= history.stamp
         /\ history'.stamp = history.stamp => history' = history]_vars
  BY HistoryStep
<1> QED
  BY <1>1, TypeCorrect, PTL DEF Spec, HistoryMovesForward

\* A step that writes only messages that are no refusals adds no refusal.
LEMMA NoRefusal ==
  ASSUME NEW o \in Seq(Written), out \in Seq(Written), out' = out \o o,
         \A i \in 1..Len(o) : o[i].kind # "error"
  PROVE  Added("error") = {}
<1>1. Len(out') = Len(out) + Len(o) /\ Len(out) \in Nat /\ Len(o) \in Nat
  OBVIOUS
<1>2. ASSUME NEW i \in (Len(out) + 1)..Len(out')
      PROVE  out'[i].kind # "error"
  <2>1. out'[i] = o[i - Len(out)] /\ i - Len(out) \in 1..Len(o)
    BY <1>1, <1>2
  <2> QED
    BY <2>1
<1> QED
  BY <1>2 DEF Added

\* A step that does not write, or reads, adds nothing.
LEMMA NothingAdded ==
  ASSUME out \in Seq(Written), out' = out \/ (out # <<>> /\ out' = Tail(out))
  PROVE  Added("error") = {}
<1>1. Len(out) \in Nat /\ Len(out') <= Len(out)
  OBVIOUS
<1>2. Len(out') \in Nat
  OBVIOUS
<1>3. (Len(out) + 1)..Len(out') = {}
  BY <1>1, <1>2
<1> QED
  BY <1>3 DEF Added

\* A handler that answers with one response may refuse only if it leaves the
\* retained state alone.
LEMMA RespondRefusal ==
  ASSUME TypeOK, NEW r \in Written, Respond(r), r.kind = "error" => UNCHANGED retained
  PROVE  Added("error") # {} => UNCHANGED retained /\ Len(out') = Len(out) + 1
<1>1. out \in Seq(Written) /\ out' = Append(out, r) /\ out' = out \o <<r>> /\ <<r>> \in Seq(Written)
  BY DEF TypeOK, Respond
<1>2. Len(out') = Len(out) + 1
  BY <1>1
<1>3. CASE r.kind # "error"
  <2>1. \A i \in 1..Len(<<r>>) : <<r>>[i].kind # "error"
    BY <1>3
  <2> QED
    BY <1>1, <2>1, NoRefusal
<1> QED
  BY <1>2, <1>3

\* Every step that refuses leaves the retained state alone and writes nothing
\* but the refusal.
LEMMA RefusalStep ==
  ASSUME TypeOK, [Next]_vars
  PROVE  Added("error") # {} => UNCHANGED retained /\ Len(out') = Len(out) + 1
<1> DEFINE Goal == Added("error") # {} => UNCHANGED retained /\ Len(out') = Len(out) + 1
<1>1. out \in Seq(Written) /\ TypeOK'
  BY TypeStep DEF TypeOK
<1>2. CASE UNCHANGED out \/ Drain
  BY <1>1, <1>2, NothingAdded DEF Drain
<1>3. ASSUME NEW m \in Sent,
             \/ ReplaceNamespace(m) \/ WriteHistory(m) \/ HistoryPlan(m)
             \/ CompletionPlan(m) \/ InvalidRequest(m)
      PROVE  Goal
  <2>1. PICK r : Respond(r) /\ (r.kind = "error" => UNCHANGED retained)
    BY <1>3 DEF ReplaceNamespace, WriteHistory, HistoryPlan, CompletionPlan, InvalidRequest,
       Ok, Planned, Refuse, retained
  <2>2. r \in Written
    BY <1>1, <2>1 DEF Respond, TypeOK
  <2> QED
    BY <2>1, <2>2, RespondRefusal
<1>4. ASSUME NEW m \in Sent, StoreCandidates(m)
      PROVE  Goal
  <2>1. m.id \in Ref /\ m.gen \in Id
    BY <1>4, MessageFields DEF StoreCandidates
  <2>2. CASE input.gen = 0 \/ input.gen # m.bound \/ m.payload = Nothing
    <3>1. PICK r : Respond(r)
      BY <1>4, <2>2 DEF StoreCandidates
    <3>2. r \in Written /\ UNCHANGED retained
      BY <1>1, <1>4, <2>2, <3>1 DEF StoreCandidates, Respond, TypeOK, retained
    <3> QED
      BY <3>1, <3>2, RespondRefusal
  <2>3. CASE out' = out \o <<Ok(m.id), SettleEvent(input, slots', m.gen)>>
    <3>1. Ok(m.id) \in Written /\ Ok(m.id).kind # "error"
      BY <2>1, ResponseType DEF Ok
    <3>2. /\ SettleEvent(input, slots', m.gen) \in Written
          /\ SettleEvent(input, slots', m.gen).kind # "error"
      BY <1>1, SettleEventType DEF TypeOK, IsSettle, SettleKind
    <3> DEFINE o == <<Ok(m.id), SettleEvent(input, slots', m.gen)>>
    <3>3. o \in Seq(Written) /\ \A i \in 1..Len(o) : o[i].kind # "error"
      BY <3>1, <3>2
    <3> QED
      BY <1>1, <2>3, <3>3, NoRefusal
  <2> QED
    BY <1>4, <2>2, <2>3 DEF StoreCandidates
<1>5. ASSUME NEW m \in Sent, AcceptInput(m)
      PROVE  Goal
  <2> DEFINE accepted == [gen |-> m.gen, cand |-> m.cand, resolved |-> 0, pending |-> TRUE]
             event    == SettleEvent(accepted, slots, m.cand)
  <2>1. m.gen \in Ref /\ accepted \in Inputs
    BY <1>5, MessageFields, IdType DEF AcceptInput, Inputs
  <2>2. event \in Written /\ event.kind # "error"
    BY <2>1, SettleEventType DEF TypeOK, IsSettle, SettleKind
  <2>3. /\ Highlight(m.gen) \in Seq(Written)
        /\ \A i \in 1..Len(Highlight(m.gen)) : Highlight(m.gen)[i].kind # "error"
    BY <2>1, HighlightType DEF TypeOK, Highlight
  <2> HIDE DEF event
  <2>4. /\ Highlight(m.gen) \o <<event>> \in Seq(Written)
        /\ \A i \in 1..Len(Highlight(m.gen) \o <<event>>) :
             (Highlight(m.gen) \o <<event>>)[i].kind # "error"
    BY <2>2, <2>3
  <2>5. \/ UNCHANGED out
        \/ out' = out \o Highlight(m.gen)
        \/ out' = out \o Highlight(m.gen) \o <<event>>
    BY <1>5 DEF AcceptInput, Fail, event
  <2>6. (out \o Highlight(m.gen)) \o <<event>> = out \o (Highlight(m.gen) \o <<event>>)
    BY <1>1, <2>2, <2>3
  <2> QED
    BY <1>1, <1>2, <2>3, <2>4, <2>5, <2>6, NoRefusal
<1>6. ASSUME NEW r \in Written, out' = Append(out, r), r.kind # "error"
      PROVE  Goal
  <2>1. <<r>> \in Seq(Written) /\ out' = out \o <<r>> /\ \A i \in 1..Len(<<r>>) : <<r>>[i].kind # "error"
    BY <1>1, <1>6
  <2> QED
    BY <1>1, <2>1, NoRefusal
<1>7. ASSUME NEW m \in Sent, Hello(m)
      PROVE  Goal
  <2>1. \A kind \in {"ready", "incompatible"} :
          Handshake(kind) \in Written /\ Handshake(kind).kind # "error"
    BY ResponseType, IdType DEF Handshake
  <2> QED
    BY <1>2, <1>6, <1>7, <2>1 DEF Hello, Fail
<1>8. CASE out' = Append(out, SettleEvent(input, slots, input.cand))
  <2>1. /\ SettleEvent(input, slots, input.cand) \in Written
        /\ SettleEvent(input, slots, input.cand).kind # "error"
    BY SettleEventType DEF TypeOK, IsSettle, SettleKind
  <2> QED
    BY <1>6, <1>8, <2>1
<1>9. ASSUME NEW m \in Sent, Receive(m)
      PROVE  Goal
  <2>1. CASE AcceptFlush(m)
    BY <1>2, <1>8, <2>1 DEF AcceptFlush
  <2>2. CASE Malformed(m) \/ Discard(m)
    BY <1>2, <2>2 DEF Malformed, Discard, Fail, vars
  <2> QED
    BY <1>3, <1>4, <1>5, <1>7, <1>9, <2>1, <2>2 DEF Receive
<1>10. CASE SettleExpired
  BY <1>8, <1>10 DEF SettleExpired
<1>11. CASE Abort \/ (\E truncated \in BOOLEAN : EndOfRequests(truncated)) \/ UNCHANGED vars
  BY <1>2, <1>11 DEF Abort, EndOfRequests, vars
<1> QED
  BY <1>2, <1>9, <1>10, <1>11 DEF Next

\* A refused request is answered once and leaves the slots, the history index,
\* the namespace and the current input as they were.
THEOREM RefusalsChangeNothing == Spec => RefusalChangesNothing
<1>1. TypeOK /\ [Next]_vars =>
        [Added("error") # {} => UNCHANGED retained /\ Len(out') = Len(out) + 1]_vars
  BY RefusalStep
<1> QED
  BY <1>1, TypeCorrect, PTL DEF Spec, RefusalChangesNothing
=============================================================================

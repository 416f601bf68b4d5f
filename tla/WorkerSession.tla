---------------------------- MODULE WorkerSession ----------------------------
(***************************************************************************)
(* One session of the persistent worker (`zrush worker`): the handshake,   *)
(* the retained state -- namespace snapshot, candidate slots, history      *)
(* index, current input with its quiet period -- and what each message     *)
(* does to it and writes to the response stream.                           *)
(*                                                                         *)
(* A message is a record whose `kind` is the first field on the wire; the  *)
(* layout, query and buffer a message carries are left out, because no     *)
(* branch of the session depends on them.  A plan is represented by the    *)
(* candidates it was computed from.  Time is abstract: a pending quiet     *)
(* period may expire before any message.                                   *)
(*                                                                         *)
(* A definition whose name ends in Fault is not part of the model: it is   *)
(* the definition after it with a fault a maintainer could introduce, for  *)
(* checking that the properties notice.                                    *)
(***************************************************************************)
EXTENDS Integers, Sequences

CONSTANTS
  MaxId,         \* largest identifier a message can carry
  Candidates,    \* what a parsed `store` payload can hold
  Namespaces,    \* what a parsed namespace payload can hold
  Lines,         \* distinct history lines
  RetentionCap,  \* entries the history index retains
  OutCap,        \* messages the response pipe holds before a write blocks
  Nothing        \* the absence of candidates, of a namespace

ASSUME MaxIdAssumption  == MaxId \in Nat \ {0}
ASSUME OutCapAssumption == OutCap \in Nat \ {0}
ASSUME CapAssumption    == RetentionCap \in Nat \ {0}
ASSUME NothingAssumption ==
  Nothing \notin Candidates /\ Nothing \notin Namespaces

VARIABLES
  phase,      \* handshake and end of the session
  namespace,  \* the namespace snapshot, or Nothing
  slots,      \* the candidate store
  history,    \* the history index
  input,      \* the last accepted input notification
  out         \* the response stream not yet read by the shell

retained == <<namespace, slots, history, input>>
vars == <<phase, namespace, slots, history, input, out>>

HI == INSTANCE HistoryIndex

Id   == 1..MaxId
Ref  == 0..MaxId     \* a reference: an identifier, or 0 for none
Slot == {"live", "cache"}

(***************************************************************************)
(* The retained state.                                                     *)
(***************************************************************************)
EmptySlot == [gen |-> 0, data |-> Nothing]
Stored    == [gen : Id, data : Candidates]

\* gen = 0 is "no input yet".  `pending` stands for the expiry being set.
NoInput == [gen |-> 0, cand |-> 0, resolved |-> 0, pending |-> FALSE]
Inputs  == [gen : Ref, cand : Ref, resolved : Ref, pending : BOOLEAN]

\* Look a generation up across every slot.
HeldIn(store, g) == g # 0 /\ \E s \in Slot : store[s].gen = g

Found(store, g)  == IF store["live"].gen = g THEN store["live"] ELSE store["cache"]

(***************************************************************************)
(* What the session writes: the answer to the handshake, events, which     *)
(* carry the input_generation they are for, and responses, which carry the *)
(* request_id they end -- either one in `ref`.                             *)
(***************************************************************************)
ErrorCode  == {"invalid-request", "invalid-payload", "unknown-generation", "superseded"}
SettleKind == {"plan-ready", "capture-required"}
EventKind  == SettleKind \cup {"syntax-highlight"}

Written ==
  [kind : {"ready", "incompatible"}, ref : {0}]
    \cup [kind : {"capture-required"}, ref : Ref]
    \cup [kind : {"plan-ready"}, ref : Ref, plan : Stored]
    \cup [kind : {"syntax-highlight"}, ref : Ref, names : Namespaces]
    \cup [kind : {"ok"}, ref : Ref]
    \cup [kind : {"ok"}, ref : Ref, plan : Stored]
    \cup [kind : {"ok"}, ref : Ref, window : SUBSET (1..RetentionCap)]
    \cup [kind : {"error"}, ref : Ref, code : ErrorCode]

Handshake(kind)  == [kind |-> kind, ref |-> 0]
CaptureRequired(g) == [kind |-> "capture-required", ref |-> g]
PlanReady(g, p)  == [kind |-> "plan-ready", ref |-> g, plan |-> p]
Ok(id)           == [kind |-> "ok", ref |-> id]
Planned(id, p)   == [kind |-> "ok", ref |-> id, plan |-> p]
Refuse(id, code) == [kind |-> "error", ref |-> id, code |-> code]

IsEvent(m)  == m.kind \in EventKind
IsSettle(m) == m.kind \in SettleKind

(***************************************************************************)
(* Settling the current input against one candidate generation.            *)
(***************************************************************************)
\* The expiry is left set.
SettledFault(in, store, g) ==
  [in EXCEPT !.resolved = IF HeldIn(store, g) THEN g ELSE 0]

\* The named generation is taken over without looking it up.
ResolvedFault(in, store, g) == [in EXCEPT !.pending = FALSE, !.resolved = g]

Settled(in, store, g) ==
  [in EXCEPT !.pending = FALSE, !.resolved = IF HeldIn(store, g) THEN g ELSE 0]

\* A plan even where nothing is held.
SettleEventFault(in, store, g) == PlanReady(in.gen, Found(store, g))

SettleEvent(in, store, g) ==
  IF HeldIn(store, g)
  THEN PlanReady(in.gen, Found(store, g))
  ELSE CaptureRequired(in.gen)

\* The highlight an accepted input draws at once, if there is a snapshot.
Highlight(g) ==
  IF namespace = Nothing THEN <<>>
  ELSE <<[kind |-> "syntax-highlight", ref |-> g, names |-> namespace]>>

Init ==
  /\ phase = "awaiting"
  /\ namespace = Nothing
  /\ slots = [s \in Slot |-> EmptySlot]
  /\ history = HI!NoIndex
  /\ input = NoInput
  /\ out = <<>>

(***************************************************************************)
(* The handlers.  A message that has no in-band answer ends the session.   *)
(***************************************************************************)
Fail == phase' = "failed" /\ UNCHANGED <<retained, out>>

Hello(m) ==
  /\ phase = "awaiting"
  /\ IF m.kind = "hello" /\ m.stamp # "malformed"
     THEN /\ phase' = IF m.stamp = "own" THEN "ready" ELSE "discarding"
          /\ out' = Append(out, Handshake(IF m.stamp = "own" THEN "ready" ELSE "incompatible"))
          /\ UNCHANGED retained
     ELSE Fail

\* An input of any generation is accepted.
NewerFault(m) == TRUE

\* Input generations are strictly monotonic within the session.
Newer(m) == m.gen > input.gen

AcceptInput(m) ==
  /\ phase = "ready"
  /\ m.kind = "input"
  /\ IF ~Newer(m)
     THEN Fail
     ELSE LET accepted  == [gen |-> m.gen, cand |-> m.cand, resolved |-> 0, pending |-> TRUE]
              settlesNow == ~m.quiet \/ HeldIn(slots, m.cand)
          IN  /\ IF settlesNow
                 THEN /\ input' = Settled(accepted, slots, m.cand)
                      /\ out' = out \o Highlight(m.gen) \o <<SettleEvent(accepted, slots, m.cand)>>
                 ELSE /\ input' = accepted
                      /\ out' = out \o Highlight(m.gen)
              /\ UNCHANGED <<phase, namespace, slots, history>>

AcceptFlush(m) ==
  /\ phase = "ready"
  /\ m.kind = "flush"
  /\ IF input.pending /\ input.gen = m.gen
     THEN /\ input' = Settled(input, slots, input.cand)
          /\ out' = Append(out, SettleEvent(input, slots, input.cand))
     ELSE UNCHANGED <<input, out>>
  /\ UNCHANGED <<phase, namespace, slots, history>>

\* Only an input that names a generation is settled by time.
SettleExpiredFault ==
  /\ phase = "ready"
  /\ input.pending /\ input.cand # 0
  /\ Len(out) < OutCap
  /\ input' = Settled(input, slots, input.cand)
  /\ out' = Append(out, SettleEvent(input, slots, input.cand))
  /\ UNCHANGED <<phase, namespace, slots, history>>

\* The quiet period ends with no message to notice it, or just before one.
SettleExpired ==
  /\ phase = "ready"
  /\ input.pending
  /\ Len(out) < OutCap
  /\ input' = Settled(input, slots, input.cand)
  /\ out' = Append(out, SettleEvent(input, slots, input.cand))
  /\ UNCHANGED <<phase, namespace, slots, history>>

Respond(response) ==
  /\ out' = Append(out, response)
  /\ UNCHANGED phase

\* The snapshot is replaced before the payload is validated.
ReplaceNamespaceFault(m) ==
  /\ phase = "ready"
  /\ m.kind = "namespace-snapshot"
  /\ namespace' = m.payload
  /\ Respond(IF m.payload = Nothing THEN Refuse(m.id, "invalid-payload") ELSE Ok(m.id))
  /\ UNCHANGED <<slots, history, input>>

ReplaceNamespace(m) ==
  /\ phase = "ready"
  /\ m.kind = "namespace-snapshot"
  /\ IF m.payload = Nothing
     THEN Respond(Refuse(m.id, "invalid-payload")) /\ UNCHANGED namespace
     ELSE Respond(Ok(m.id)) /\ namespace' = m.payload
  /\ UNCHANGED <<slots, history, input>>

\* An accepted store answers first and then settles the current input
\* against what it just stored, whether or not that input had settled.
StoreCandidates(m) ==
  /\ phase = "ready"
  /\ m.kind = "store"
  /\ IF input.gen = 0 \/ input.gen # m.bound
     THEN Respond(Refuse(m.id, "superseded")) /\ UNCHANGED <<slots, input>>
     ELSE IF m.payload = Nothing
     THEN Respond(Refuse(m.id, "invalid-payload")) /\ UNCHANGED <<slots, input>>
     ELSE /\ slots' = [slots EXCEPT ![m.slot] = [gen |-> m.gen, data |-> m.payload]]
          /\ input' = Settled(input, slots', m.gen)
          /\ out' = out \o <<Ok(m.id), SettleEvent(input, slots', m.gen)>>
          /\ UNCHANGED phase
  /\ UNCHANGED <<namespace, history>>

WriteHistory(m) ==
  /\ phase = "ready"
  /\ m.kind \in {"history-snapshot", "history-append"}
  /\ LET snapshot == m.kind = "history-snapshot"
         accepted == IF snapshot THEN HI!Accepts(history, m.gen)
                                 ELSE HI!AcceptsAppend(history, m.gen)
     IN  IF m.payload = Nothing
         THEN Respond(Refuse(m.id, "invalid-payload")) /\ UNCHANGED history
         ELSE IF ~accepted
         THEN Respond(Refuse(m.id, "unknown-generation")) /\ UNCHANGED history
         ELSE /\ history' = IF snapshot THEN HI!Install(m.gen, m.payload)
                                        ELSE HI!AppendTo(history, m.gen, m.payload)
              /\ Respond(Ok(m.id))
  /\ UNCHANGED <<namespace, slots, input>>

HistoryPlan(m) ==
  /\ phase = "ready"
  /\ m.kind = "plan"
  /\ Respond(IF HI!Holds(history, m.gen)
             THEN [kind |-> "ok", ref |-> m.id, window |-> HI!Window(history, m.limit)]
             ELSE Refuse(m.id, "unknown-generation"))
  /\ UNCHANGED retained

CompletionPlan(m) ==
  /\ phase = "ready"
  /\ m.kind = "completion"
  /\ Respond(IF input.gen = 0 \/ input.gen # m.bound
             THEN Refuse(m.id, "superseded")
             ELSE IF ~HeldIn(slots, input.resolved)
             THEN Refuse(m.id, "unknown-generation")
             ELSE Planned(m.id, Found(slots, input.resolved)))
  /\ UNCHANGED retained

\* A request whose fields do not parse but whose request_id does.
InvalidRequest(m) ==
  /\ phase = "ready"
  /\ m.kind = "invalid"
  /\ Respond(Refuse(m.id, "invalid-request"))
  /\ UNCHANGED retained

\* No usable request_id, a notification that does not parse, a second hello,
\* or corrupt framing.
Malformed(m) ==
  /\ phase = "ready"
  /\ m.kind \in {"malformed", "hello"}
  /\ Fail

\* After `incompatible` every byte is read and dropped.
Discard(m) == phase = "discarding" /\ UNCHANGED vars

Receive(m) ==
  /\ Len(out) < OutCap
  /\ \/ Hello(m)            \/ AcceptInput(m)     \/ AcceptFlush(m)
     \/ ReplaceNamespace(m) \/ StoreCandidates(m) \/ WriteHistory(m)
     \/ HistoryPlan(m)      \/ CompletionPlan(m)  \/ InvalidRequest(m)
     \/ Malformed(m)        \/ Discard(m)

Alive == phase \in {"awaiting", "ready", "discarding"}

\* End of the request stream, inside a frame or between two.
EndOfRequests(truncated) ==
  /\ Alive
  /\ phase' = IF truncated /\ phase # "discarding" THEN "failed" ELSE "ended"
  /\ UNCHANGED <<retained, out>>

\* The watchdog: a byte, EOF or an error on the abort-control descriptor.
Abort ==
  /\ Alive
  /\ phase' = "failed"
  /\ UNCHANGED <<retained, out>>

(***************************************************************************)
(* The session against a peer that sends any message of the given kinds.   *)
(***************************************************************************)
CONSTANTS
  Kinds,            \* the kinds of message the peer sends
  RequestIds,       \* the request identifiers it uses
  HistoryPayloads   \* the history payloads it sends

ASSUME PeerAssumption ==
  RequestIds \subseteq Id /\ HistoryPayloads \subseteq Seq(Lines)

OrBad(S) == S \cup {Nothing}   \* a payload, or one that does not parse

Message ==
  [kind : {"hello"}, stamp : {"own", "other", "malformed"}]
    \cup [kind : {"input"}, gen : Id, cand : Ref, quiet : BOOLEAN]
    \cup [kind : {"flush"}, gen : Id]
    \cup [kind : {"namespace-snapshot"}, id : RequestIds, payload : OrBad(Namespaces)]
    \cup [kind : {"store"}, id : RequestIds, slot : Slot, gen : Id, bound : Id,
          payload : OrBad(Candidates)]
    \cup [kind : {"history-snapshot", "history-append"}, id : RequestIds, gen : Id,
          payload : OrBad(HistoryPayloads)]
    \cup [kind : {"plan"}, id : RequestIds, gen : Id, limit : Id]
    \cup [kind : {"completion"}, id : RequestIds, bound : Id]
    \cup [kind : {"invalid"}, id : RequestIds]
    \cup [kind : {"malformed"}]

Sent == {m \in Message : m.kind \in Kinds}

\* The shell reads one message of the response stream.
Drain ==
  /\ out # <<>>
  /\ out' = Tail(out)
  /\ UNCHANGED <<phase, retained>>

Next ==
  \/ \E m \in Sent : Receive(m)
  \/ SettleExpired
  \/ Drain
  \/ \E truncated \in BOOLEAN : EndOfRequests(truncated)
  \/ Abort

Spec == Init /\ [][Next]_vars

\* The shell keeps reading the response stream, and no traffic can put a due
\* expiry off: select(2) returns at the deadline when no byte arrives, and the
\* loop settles a due input before each message when bytes do -- hence strong
\* fairness, since a full response pipe disables the action now and then.
FairSpec == Spec /\ SF_vars(SettleExpired) /\ WF_vars(Drain)

(***************************************************************************)
(* What the session guarantees.                                            *)
(***************************************************************************)
\* The retained state and the response stream have the types of the source.
TypeOK ==
  /\ phase \in {"awaiting", "ready", "discarding", "ended", "failed"}
  /\ namespace \in OrBad(Namespaces)
  /\ slots \in [Slot -> Stored \cup {EmptySlot}]
  /\ history \in HI!Index(Ref)
  /\ input \in Inputs
  /\ out \in Seq(Written)

\* The generation the current input was settled against is one the store
\* still holds: a later store into the same slot re-settles the input, so
\* the lookup of a `completion` never finds its candidates gone.
ResolvedIsHeld == input.resolved # 0 => HeldIn(slots, input.resolved)

\* A pending input has not been answered: no settle event for it is in the
\* response stream, so its quiet period is settled at most once.
PendingIsUnanswered ==
  input.pending => \A i \in 1..Len(out) : IsSettle(out[i]) => out[i].ref # input.gen

\* Events leave in the order of the inputs they answer, and none is ahead of
\* the current input.
EventsInInputOrder ==
  /\ \A i \in 1..Len(out) : IsEvent(out[i]) => out[i].ref <= input.gen
  /\ \A i, j \in 1..Len(out) :
       i < j /\ IsEvent(out[i]) /\ IsEvent(out[j]) => out[i].ref <= out[j].ref

\* For one input the decoration precedes its listing, and a capture is asked
\* for at most once and never after a plan: nothing that settles the input
\* comes before its `capture-required`, and no event at all before its
\* `syntax-highlight`.
CaptureAskedFirst ==
  \A i, j \in 1..Len(out) :
    i < j /\ IsEvent(out[i]) /\ IsEvent(out[j]) /\ out[i].ref = out[j].ref =>
      /\ out[j].kind # "syntax-highlight"
      /\ IsSettle(out[i]) => out[j].kind # "capture-required"

\* The messages a step adds at the end of the response stream.
Added(kind) ==
  {i \in (Len(out) + 1)..Len(out') : out'[i].kind = kind}

\* A refused request is answered exactly once and changes nothing: not the
\* slots, not the history index, not the namespace, not the current input.
RefusalChangesNothing ==
  [][Added("error") # {} => UNCHANGED retained /\ Len(out') = Len(out) + 1]_vars

\* The history stamp only grows, and content never changes under one stamp.
HistoryMovesForward ==
  [][/\ history'.stamp >= history.stamp
     /\ history'.stamp = history.stamp => history' = history]_vars

\* An accepted input is answered, replaced, or lost with its session.
PendingInputSettles ==
  \A g \in Id :
    (phase = "ready" /\ input.gen = g /\ input.pending)
       ~> (phase # "ready" \/ input.gen # g \/ ~input.pending)
=============================================================================

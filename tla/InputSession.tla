---------------------------- MODULE InputSession ----------------------------
(***************************************************************************)
(* The interactive shell and the worker answering what is being typed.     *)
(*                                                                         *)
(* The shell numbers every buffer change it reports (input_generation),    *)
(* captures candidates when the worker asks for them, hands the capture    *)
(* over in a `store`, and keeps two latches -- the reuse latch for the     *)
(* word being edited and the empty-word cache latch -- that name stored    *)
(* candidates a later input may reuse.  The worker is WorkerSession,       *)
(* reached through two FIFOs; it may die at any moment and is then         *)
(* replaced lazily by the next input.                                      *)
(*                                                                         *)
(* The shell's globals are the fields of one record, and each shell        *)
(* function that changes them is an operator from that record to the next  *)
(* one; a ZLE hook, key or descriptor callback is an action.  As in        *)
(* WorkerSession, a name that ends in Fault is a faulty variant of the     *)
(* definition after it and not part of the model.                          *)
(***************************************************************************)
EXTENDS Integers, Sequences, FiniteSets

CONSTANTS
  MaxId,        \* where the identifier counters are exhausted
  Words,        \* widened collection strings
  Empty,        \* the empty one, at command position
  Envs,         \* what the cache fingerprint and the directory can be
  OutCap,       \* messages the response FIFO holds
  MaxCrashes,   \* bound: times the worker dies by itself
  MaxFailures,  \* bound: captures that end in a read error
  Delays,       \* whether the configured quiet period is positive
  MaxFlushes,   \* bound: flush frames the worker has not read
  Direct,       \* kinds of frame the nonblocking write may take whole
  Delegated,    \* kinds of frame it may have to leave to a writer child
  ChangeKinds,  \* what the suppression rules and the key queue make of a change
  Nothing

ASSUME InputAssumption ==
  /\ MaxId \in Nat \ {0}
  /\ OutCap \in Nat \ {0}
  /\ MaxCrashes \in Nat /\ MaxFailures \in Nat /\ MaxFlushes \in Nat
  /\ Empty \in Words
  /\ Delays \subseteq BOOLEAN
  /\ Direct \cup Delegated = {"hello", "namespace-snapshot", "input", "flush", "store"}
  /\ ChangeKinds \subseteq {"blank", "short", "keys-wait", "decorate", "send"}
  /\ Envs # {} /\ Nothing \notin Envs
  /\ Nothing \notin [word : Words, env : Envs] /\ Nothing # "names"

VARIABLES
  sh,         \* the shell's globals
  line,       \* the line editor: off, editing, finishing
  wire,       \* the request FIFO, a delegated frame included
  phase, namespace, slots, history, input, out,   \* the worker
  crashes, failedCaptures                         \* used of the two bounds

worker  == <<phase, namespace, slots, history, input, out>>
bounds  == <<crashes, failedCaptures>>
vars    == <<sh, line, wire, worker, bounds>>

\* What a capture finds: everything that belongs to the word and directory it
\* was taken for.
Capture == [word : Words, env : Envs]

W == INSTANCE WorkerSession WITH
       Candidates <- Capture, Namespaces <- {"names"}, Lines <- {},
       RetentionCap <- 1, Kinds <- {}, RequestIds <- {}, HistoryPayloads <- {}

(***************************************************************************)
(* The shell's globals.                                                    *)
(***************************************************************************)
NoInput   == [gen |-> 0, cand |-> 0, pending |-> FALSE, latched |-> FALSE,
              decor |-> FALSE, drawn |-> FALSE]
NoCapture == [gen |-> 0, data |-> Nothing]
NoListing == [gen |-> 0, data |-> Nothing]
NoCache   == [gen |-> 0, env |-> Nothing]

(***************************************************************************)
(* `cur` is the valid input_generation with its flags; `drawn` says that   *)
(* its decoration was applied.  Three fields are for the properties only:  *)
(* `cur.cand`, the candidate generation the notification named; `tabGen`,  *)
(* the input a recorded Tab was pressed for; and `dropped`, the last       *)
(* candidate generation handed out when the reuse latch was last dropped.  *)
(* The reuse epoch is kept as the `fresh` flag of the store it was staged  *)
(* with: it is the current epoch as long as no drop happened since.        *)
(***************************************************************************)
Shell0 ==
  [word |-> Empty, env |-> CHOOSE e \in Envs : TRUE, edited |-> FALSE,
   cur |-> NoInput, query |-> Empty, tab |-> FALSE, tabGen |-> 0,
   shown |-> NoListing, collect |-> NoCapture,
   reuse |-> 0, reuseKey |-> <<Empty, Nothing>>, dropped |-> 0, cache |-> NoCache,
   link |-> "none", ready |-> FALSE, busy |-> FALSE, txq |-> <<>>, pending |-> {},
   requests |-> 0, candidates |-> 0, inputs |-> 0,
   failures |-> 0, disabled |-> FALSE]

Here(s) == [word |-> s.word, env |-> s.env]

Notification(m) == m.kind \in {"input", "flush"}

\* Every queued frame goes, requests included.
DropNotificationsFault(s) == [s EXCEPT !.txq = <<>>]

\* The queue without its notifications, in order.
Kept(q) ==
  LET kept[n \in 0..Len(q)] ==
        IF n = 0 THEN <<>>
        ELSE IF Notification(q[n]) THEN kept[n - 1] ELSE Append(kept[n - 1], q[n])
  IN  kept[Len(q)]

DropNotifications(s) == [s EXCEPT !.txq = Kept(@)]

\* The capture runs on.
CancelCollectionFault(s) == s

CancelCollection(s) == [s EXCEPT !.collect = NoCapture]

InputInvalidate(s) == CancelCollection(DropNotifications([s EXCEPT !.cur = NoInput]))

Teardown(s) == [s EXCEPT !.shown = NoListing, !.tab = FALSE, !.tabGen = 0]

\* The epoch is not advanced.
ReuseDropFault(s) == [s EXCEPT !.reuse = 0, !.dropped = s.candidates]

ReuseDrop(s) ==
  [s EXCEPT !.reuse = 0, !.dropped = s.candidates,
            !.pending = {[p EXCEPT !.fresh = FALSE] : p \in @}]

ReuseTrack(s) ==
  LET key == <<s.word, s.env>>
  IN  IF s.reuseKey = key THEN s ELSE [ReuseDrop(s) EXCEPT !.reuseKey = key]

CacheDrop(s) == [s EXCEPT !.cache = NoCache]

Enqueue(s, m) == [s EXCEPT !.txq = Append(@, m)]

(***************************************************************************)
(* Stopping.  The link stays "stopping" until the transport is finalised,  *)
(* at once or, in quarantine, by a later callback.                         *)
(***************************************************************************)
\* The queue survives the session.
BeginStopFault(s) ==
  [InputInvalidate(ReuseDrop(CacheDrop(s)))
     EXCEPT !.pending = {}, !.busy = FALSE, !.ready = FALSE,
            !.link = IF @ = "none" THEN "none" ELSE "stopping"]

BeginStop(s) ==
  [InputInvalidate(ReuseDrop(CacheDrop(s)))
     EXCEPT !.txq = <<>>, !.pending = {}, !.busy = FALSE, !.ready = FALSE,
            !.link = IF @ = "none" THEN "none" ELSE "stopping"]

SessionFail(s) ==
  IF s.link = "stopping" THEN s
  ELSE [Teardown(BeginStop(s)) EXCEPT !.failures = @ + 1, !.disabled = @ \/ s.failures >= 1]

\* A counter at its maximum disables zrush for this shell.
Exhausted(s) == [Teardown(BeginStop(s)) EXCEPT !.disabled = TRUE]

(***************************************************************************)
(* Requests and notifications.                                             *)
(***************************************************************************)
Request(s, entry, m) ==
  IF s.requests = MaxId THEN Exhausted(s)
  ELSE LET id == s.requests + 1
       IN  Enqueue([s EXCEPT !.requests = id,
                             !.pending = @ \cup {[entry EXCEPT !.id = id]}],
                   [m EXCEPT !.id = id])

NamespaceEntry ==
  [id |-> 0, kind |-> "namespace-snapshot", slot |-> "live", gen |-> 0, bound |-> 0,
   fresh |-> FALSE, env |-> Nothing]

\* A new session: both latches are dropped, and the namespace snapshot is
\* queued between the hello and whatever started the worker.
WorkerStart(s) ==
  Request([ReuseDrop(CacheDrop(s)) EXCEPT
             !.link = "up", !.ready = FALSE, !.txq = <<[kind |-> "hello", stamp |-> "own"]>>],
          NamespaceEntry,
          [kind |-> "namespace-snapshot", id |-> 0, payload |-> "names"])

\* The directory and the fingerprint are not compared.
CacheHitFault(s, young) == s.cache.gen > 0 /\ young

\* An empty-word input is served by the cache if it is valid here and young
\* enough; a miss forgets the cache.
CacheHit(s, young) == s.cache.gen > 0 /\ young /\ s.cache.env = s.env

Named(s, decor, young) ==
  IF decor THEN 0
  ELSE IF s.query # Empty THEN s.reuse
  ELSE IF CacheHit(s, young) THEN s.cache.gen ELSE 0

SendInput(s, decor, young, quiet) ==
  IF s.link = "stopping" \/ s.disabled THEN s
  ELSE LET up == IF s.link = "none" THEN WorkerStart(s) ELSE s
           at == ReuseTrack([up EXCEPT !.query = up.word])
           g  == at.inputs + 1
           c  == Named(at, decor, young)
           checked == IF ~decor /\ at.query = Empty /\ c = 0 THEN CacheDrop(at) ELSE at
       IN  IF up.link # "up" THEN up
           ELSE IF at.inputs = MaxId THEN Exhausted(checked)
           ELSE [Enqueue(DropNotifications(checked),
                         [kind |-> "input", gen |-> g, cand |-> c, quiet |-> quiet])
                   EXCEPT !.inputs = g,
                          !.cur = [gen |-> g, cand |-> c, pending |-> ~decor,
                                   latched |-> c # 0, decor |-> decor, drawn |-> FALSE]]

SendFlush(s) ==
  IF s.cur.gen = 0 \/ s.link # "up" THEN s
  ELSE Enqueue(s, [kind |-> "flush", gen |-> s.cur.gen])

StoreEntry(s, slot, g, bound) ==
  [id |-> 0, kind |-> "store", slot |-> slot, gen |-> g, bound |-> bound,
   fresh |-> slot = "live" /\ s.query # Empty,
   env |-> IF slot = "cache" THEN s.env ELSE Nothing]

\* What is staged with the store takes effect when its `ok` comes back.
RequestStore(s, slot, data, bound) ==
  IF s.link # "up" THEN Teardown(s)
  ELSE IF s.candidates = MaxId THEN Exhausted(s)
  ELSE LET g == s.candidates + 1
       IN  Request([s EXCEPT !.candidates = g], StoreEntry(s, slot, g, bound),
                   [kind |-> "store", id |-> 0, slot |-> slot, gen |-> g,
                    bound |-> bound, payload |-> data])

(***************************************************************************)
(* Reporting a buffer change: whitespace only, a word below min-input      *)
(* (with or without a decoration of its own), more keys waiting, or a      *)
(* listing owed.                                                           *)
(***************************************************************************)
Change ==
  [how : {"blank", "short", "keys-wait"}]
    \cup [how : {"decorate"}, young : {FALSE}, quiet : Delays]
    \cup [how : {"send"}, young : BOOLEAN, quiet : Delays]

\* Changes that make a difference: an empty buffer has the empty word, and
\* only a cache entry can be too old.
Changes(s) ==
  {c \in Change : /\ c.how \in ChangeKinds
                  /\ c.how = "blank" => s.word = Empty
                  /\ c.how = "send" /\ c.young => s.word = Empty /\ s.cache.gen # 0}

\* A recorded Tab outlives the change.
NotifyFault(s, c) ==
  LET t == ReuseTrack(s)
  IN  CASE c.how \in {"blank", "short"} -> Teardown(t)
        [] c.how = "keys-wait" -> t
        [] c.how = "decorate"  -> SendInput(Teardown(t), TRUE, c.young, c.quiet)
        [] c.how = "send"      -> SendInput(t, FALSE, c.young, c.quiet)

Notify(s, c) ==
  LET t == ReuseTrack([s EXCEPT !.tab = FALSE, !.tabGen = 0])
  IN  CASE c.how \in {"blank", "short"} -> Teardown(t)
        [] c.how = "keys-wait" -> t
        [] c.how = "decorate"  -> SendInput(Teardown(t), TRUE, c.young, c.quiet)
        [] c.how = "send"      -> SendInput(t, FALSE, c.young, c.quiet)

PreRedraw(s, c) == Notify(InputInvalidate([s EXCEPT !.edited = FALSE]), c)

(***************************************************************************)
(* What the shell does with a message of the worker.                       *)
(***************************************************************************)
StartCollection(s, starts) ==
  IF starts
  THEN [s EXCEPT !.collect = [gen |-> s.cur.gen, data |-> [word |-> s.query, env |-> s.env]]]
  ELSE CancelCollection(s)

\* A Tab recorded earlier acts on the plan: it selects, inserts and closes the
\* listing, or extends the word.  The buffer it leaves is seen at the next
\* redraw.
TabWithResults(s, act, w) ==
  CASE act = "select" -> s
    [] act = "extend" -> [s EXCEPT !.word = w, !.edited = TRUE]
    [] act = "insert" -> [Teardown(InputInvalidate(s)) EXCEPT !.word = w, !.edited = TRUE]

\* The press is applied and stays recorded.
SettlePlanFault(s, act, w) == IF s.tab THEN TabWithResults(s, act, w) ELSE s

SettlePlan(s, act, w) ==
  IF s.tab THEN TabWithResults([s EXCEPT !.tab = FALSE, !.tabGen = 0], act, w) ELSE s

\* Events of earlier inputs are applied.
CurrentFault(s, m) == TRUE

\* The whole correlation of an event is its input_generation.
Current(s, m) == m.ref = s.cur.gen

\* The listing remembers the input it was applied for, which the code does not.
HandleEvent(s, m, starts, act, w) ==
  LET t == [s EXCEPT !.failures = 0]
      u == [t EXCEPT !.cur.pending = FALSE]
  IN  IF ~Current(t, m) THEN t
      ELSE IF m.kind = "syntax-highlight" THEN [t EXCEPT !.cur.drawn = TRUE]
      ELSE IF t.cur.decor THEN t
      ELSE IF m.kind = "capture-required"
      THEN LET v == IF ~u.cur.latched THEN u
                    ELSE IF u.query = Empty THEN CacheDrop(u) ELSE ReuseDrop(u)
           IN  StartCollection([v EXCEPT !.cur.latched = FALSE], starts)
      ELSE SettlePlan([u EXCEPT !.shown = [gen |-> s.cur.gen, data |-> m.plan.data]],
                      act, w)

\* The cache latch is taken whatever the slot.
CommitStoreFault(s, p) ==
  LET t == [s EXCEPT !.cache = [gen |-> p.gen, env |-> p.env]]
  IN  IF p.fresh THEN [t EXCEPT !.reuse = p.gen] ELSE t

CommitStore(s, p) ==
  LET t == IF p.slot = "cache" THEN [s EXCEPT !.cache = [gen |-> p.gen, env |-> p.env]] ELSE s
  IN  IF p.fresh THEN [t EXCEPT !.reuse = p.gen] ELSE t

HandleResponse(s, m) ==
  IF \A p \in s.pending : p.id # m.ref THEN SessionFail(s)
  ELSE LET p == CHOOSE q \in s.pending : q.id = m.ref
           t == [s EXCEPT !.pending = @ \ {p},
                          !.failures = IF p.kind = "store" THEN 0 ELSE @]
       IN  IF p.kind # "store" THEN t
           ELSE IF m.kind = "ok" THEN CommitStore(t, p)
           ELSE IF p.bound = t.cur.gen /\ m.code # "superseded" THEN Teardown(t)
           ELSE t

\* Both ends are of one build here, so the first message is `ready`.
HandleMessage(s, m, starts, act, w) ==
  IF ~s.ready THEN [s EXCEPT !.ready = TRUE]
  ELSE IF m.kind \in W!EventKind THEN HandleEvent(s, m, starts, act, w)
  ELSE HandleResponse(s, m)

(***************************************************************************)
(* Every action of the shell ends here.  What is queued is handed to the   *)
(* request FIFO: whole frames by a nonblocking write until one does not    *)
(* fit, then that one through a writer child, one at a time.  A write to a *)
(* dead worker never succeeds directly.  Starting a session brings up a    *)
(* fresh worker; stopping one detaches the old worker, whose remaining     *)
(* output is drained unread.                                               *)
(***************************************************************************)
Handings(s, alive) ==
  LET direct(n) == alive /\ \A i \in 1..n : s.txq[i].kind \in Direct
      whole     == IF direct(Len(s.txq)) THEN {[frames |-> Len(s.txq), busy |-> FALSE]} ELSE {}
      delegable == {n \in 1..Len(s.txq) :
                     direct(n - 1) /\ (s.txq[n].kind \in Delegated \/ ~alive)}
  IN  IF s.busy \/ s.txq = <<>> THEN {[frames |-> 0, busy |-> s.busy]}
      ELSE whole \cup {[frames |-> n, busy |-> TRUE] : n \in delegable}

NoWorker(mode) ==
  /\ phase' = mode
  /\ namespace' = Nothing
  /\ slots' = [s \in W!Slot |-> W!EmptySlot]
  /\ history' = W!HI!NoIndex
  /\ input' = W!NoInput
  /\ out' = <<>>

Commit(s, rest) ==
  LET starts == sh.link # "up"
  IN  IF s.link # "up"
      THEN sh' = s /\ wire' = <<>> /\ NoWorker("ended")
      ELSE /\ \E h \in Handings(s, starts \/ W!Alive) :
                /\ sh' = [s EXCEPT !.busy = h.busy,
                                   !.txq = SubSeq(@, h.frames + 1, Len(@))]
                /\ wire' = (IF starts THEN <<>> ELSE wire) \o SubSeq(s.txq, 1, h.frames)
           /\ IF starts THEN NoWorker("awaiting")
              ELSE out' = rest /\ UNCHANGED <<phase, namespace, slots, history, input>>

Init ==
  /\ sh = Shell0
  /\ line = "off"
  /\ wire = <<>>
  /\ phase = "ended"
  /\ namespace = Nothing
  /\ slots = [s \in W!Slot |-> W!EmptySlot]
  /\ history = W!HI!NoIndex
  /\ input = W!NoInput
  /\ out = <<>>
  /\ crashes = 0 /\ failedCaptures = 0

(***************************************************************************)
(* The line editor.                                                        *)
(***************************************************************************)
\* precmd and zle-line-init; from "editing" when the last line was left by a
\* way that skips zle-line-finish.
NewPrompt(env) ==
  /\ line \in {"off", "editing"}
  /\ line' = "editing"
  /\ Commit(Teardown(InputInvalidate(ReuseDrop(
       [sh EXCEPT !.env = env, !.word = Empty, !.edited = FALSE]))), out)
  /\ UNCHANGED bounds

\* A key changes the buffer or the cursor, and the redraw hook reports it.
Edit(w) ==
  /\ line = "editing"
  /\ ~sh.disabled
  /\ LET typed == [sh EXCEPT !.word = w]
     IN  \E c \in Changes(typed) : Commit(PreRedraw(typed, c), out)
  /\ UNCHANGED <<line, bounds>>

\* What a key of zrush's own did to the buffer is reported like any change.
Key(s) ==
  IF ~s.edited THEN Commit(s, out)
  ELSE \E c \in Changes(s) : Commit(PreRedraw(s, c), out)

Unread(kind) == SelectSeq(wire \o sh.txq, LAMBDA m : m.kind = kind)

\* With nothing in flight and no listing the key is the predecessor's.
TabKey(act, w) ==
  /\ line = "editing"
  /\ ~sh.disabled
  /\ act = "select" => w = Empty
  /\ sh.cur.pending => Len(Unread("flush")) < MaxFlushes
  /\ LET pressed == [sh EXCEPT !.tab = TRUE, !.tabGen = sh.cur.gen]
     IN  IF sh.cur.pending THEN Key(SendFlush(pressed))
         ELSE IF sh.collect.gen # 0 THEN Key(pressed)
         ELSE sh.shown.gen # 0 /\ Key(TabWithResults(sh, act, w))
  /\ UNCHANGED <<line, bounds>>

\* Confirming a selected candidate, by Tab or by the confirm key.
Confirm(w) ==
  /\ line = "editing"
  /\ ~sh.disabled
  /\ sh.shown.gen # 0
  /\ Key(TabWithResults(sh, "insert", w))
  /\ UNCHANGED <<line, bounds>>

\* The hook reports a change a descriptor callback made: a Tab resolved by the
\* plan that arrived.
Redraw ==
  /\ line = "editing"
  /\ ~sh.disabled
  /\ sh.edited
  /\ \E c \in Changes(sh) : Commit(PreRedraw(sh, c), out)
  /\ UNCHANGED <<line, bounds>>

Dismiss ==
  /\ line = "editing"
  /\ ~sh.disabled
  /\ sh.shown.gen # 0
  /\ Commit(Teardown(InputInvalidate(sh)), out)
  /\ UNCHANGED <<line, bounds>>

\* zle-line-finish waits, up to a deadline, for the decoration of the line;
\* it sends the notification input pressure held back, but starts no worker.
BeginFinish(quiet) ==
  /\ line = "editing"
  /\ ~sh.disabled
  /\ sh.link = "up"
  /\ ~sh.cur.drawn
  /\ line' = "finishing"
  /\ Commit(IF sh.cur.gen = 0 THEN SendInput(sh, TRUE, FALSE, quiet) ELSE sh, out)
  /\ UNCHANGED bounds

\* Directly from "editing" where there is nothing to wait for.
EndFinish ==
  /\ line \in {"editing", "finishing"}
  /\ line' = "off"
  /\ Commit(IF sh.disabled THEN sh ELSE Teardown(InputInvalidate(sh)), out)
  /\ UNCHANGED bounds

(***************************************************************************)
(* Descriptor callbacks, which run while the line editor waits.            *)
(***************************************************************************)
Listening == line \in {"editing", "finishing"} /\ sh.link = "up"

ReadResponse(starts, act, w) ==
  /\ Listening
  /\ out # <<>>
  /\ sh.tab \/ act = "select"
  /\ act = "select" => w = Empty
  /\ starts \/ (failedCaptures < MaxFailures /\ Head(out).kind = "capture-required")
  /\ Commit(HandleMessage(sh, Head(out), starts, act, w), Tail(out))
  /\ failedCaptures' = failedCaptures + IF starts THEN 0 ELSE 1
  /\ UNCHANGED <<line, crashes>>

\* The writer slot is released and the queue behind it is not flushed.
WriterAckFault ==
  /\ Listening
  /\ sh.busy
  /\ sh' = [sh EXCEPT !.busy = FALSE]
  /\ UNCHANGED <<line, wire, worker, bounds>>

WriterAck ==
  /\ Listening
  /\ sh.busy
  /\ Commit([sh EXCEPT !.busy = FALSE], out)
  /\ UNCHANGED <<line, bounds>>

WriterFails ==
  /\ Listening
  /\ sh.busy
  /\ ~W!Alive
  /\ Commit(SessionFail(sh), out)
  /\ UNCHANGED <<line, bounds>>

SessionEof ==
  /\ Listening
  /\ ~W!Alive
  /\ out = <<>>
  /\ Commit(SessionFail(sh), out)
  /\ UNCHANGED <<line, bounds>>

\* The capture ends: its records go to the worker as one store, an empty-word
\* one that found something to the cache slot.
FinishCollection(found) ==
  /\ line = "editing"
  /\ sh.collect.gen # 0
  /\ LET c    == sh.collect
         slot == IF sh.query = Empty /\ found THEN "cache" ELSE "live"
         done == CancelCollection(sh)
     IN  Commit(IF c.gen # sh.cur.gen THEN done
                ELSE RequestStore(done, slot, c.data, c.gen), out)
  /\ UNCHANGED <<line, bounds>>

FailCollection ==
  /\ line = "editing"
  /\ sh.collect.gen # 0
  /\ failedCaptures < MaxFailures
  /\ failedCaptures' = failedCaptures + 1
  /\ Commit(CancelCollection(sh), out)
  /\ UNCHANGED <<line, crashes>>

\* The stopped worker is gone: its writer has ended and its output is at EOF.
FinishStop ==
  /\ sh.link = "stopping"
  /\ sh' = [sh EXCEPT !.link = "none"]
  /\ UNCHANGED <<line, wire, worker, bounds>>

(***************************************************************************)
(* The worker.                                                             *)
(***************************************************************************)
WorkerReceives ==
  /\ sh.link = "up"
  /\ wire # <<>>
  /\ W!Receive(Head(wire))
  /\ wire' = Tail(wire)
  /\ UNCHANGED <<sh, line, bounds>>

QuietPeriodEnds ==
  /\ sh.link = "up"
  /\ W!SettleExpired
  /\ UNCHANGED <<sh, line, wire, bounds>>

Crash ==
  /\ sh.link = "up"
  /\ crashes < MaxCrashes
  /\ W!Abort
  /\ crashes' = crashes + 1
  /\ UNCHANGED <<sh, line, wire, failedCaptures>>

TabActs == {"select", "extend", "insert"}

UserStep ==
  \/ \E env \in Envs : NewPrompt(env)
  \/ \E w \in Words : Edit(w) \/ Confirm(w)
  \/ \E act \in TabActs, w \in Words : TabKey(act, w)
  \/ Dismiss
  \/ \E quiet \in Delays : BeginFinish(quiet)

Reads    == \E starts \in BOOLEAN, act \in TabActs, w \in Words : ReadResponse(starts, act, w)
Collects == \E found \in BOOLEAN : FinishCollection(found)

Next ==
  \/ UserStep  \/ Redraw     \/ EndFinish
  \/ Reads     \/ WriterAck  \/ WriterFails  \/ SessionEof
  \/ Collects  \/ FailCollection
  \/ FinishStop
  \/ WorkerReceives \/ QuietPeriodEnds \/ Crash

Spec == Init /\ [][Next]_vars

(***************************************************************************)
(* The user and the failures owe nothing.  The editor serves its           *)
(* descriptors while it waits, the writer child and the capture end, a     *)
(* worker reads its requests, and a stopped one goes away.                 *)
(***************************************************************************)
Fairness ==
  /\ WF_vars(Redraw)          /\ WF_vars(Reads)      /\ WF_vars(Collects)
  /\ WF_vars(WriterAck)       /\ WF_vars(WriterFails) /\ WF_vars(SessionEof)
  /\ WF_vars(FinishStop)      /\ WF_vars(WorkerReceives)
  /\ WF_vars(line = "finishing" /\ EndFinish)
  /\ SF_vars(QuietPeriodEnds)

FairSpec == Spec /\ Fairness

(***************************************************************************)
(* What the two sides guarantee together.                                  *)
(***************************************************************************)
Link    == {"none", "up", "stopping"}
Gen     == 0..MaxId
Listing == [gen : {0}, data : {Nothing}] \cup [gen : 1..MaxId, data : Capture]

\* The shell's globals have the types of the source, and the worker its own.
TypeOK ==
  /\ line \in {"off", "editing", "finishing"}
  /\ Here(sh) \in Capture /\ sh.query \in Words
  /\ sh.cur \in [gen : Gen, cand : Gen, pending : BOOLEAN, latched : BOOLEAN,
                 decor : BOOLEAN, drawn : BOOLEAN]
  /\ sh.shown \in Listing /\ sh.collect \in Listing
  /\ {sh.tabGen, sh.reuse, sh.requests, sh.candidates, sh.inputs} \subseteq Gen
  /\ sh.cache.gen \in Gen /\ sh.cache.env \in Envs \cup {Nothing}
  /\ sh.link \in Link
  /\ {sh.tab, sh.edited, sh.ready, sh.busy, sh.disabled} \subseteq BOOLEAN
  /\ sh.link # "up" => sh.txq = <<>> /\ sh.pending = {} /\ wire = <<>> /\ out = <<>>
  /\ W!TypeOK

\* What is listed for the current input was captured for the very word,
\* directory and fingerprint that are being edited -- whether the candidates
\* were just collected or named by one of the two latches.
ListingMatchesInput ==
  sh.shown.gen = sh.cur.gen /\ sh.shown.gen # 0 /\ ~sh.edited => sh.shown.data = Here(sh)

StoreBound(g) == {p \in sh.pending : p.kind = "store" /\ p.bound = g}

\* The current input is answered along one path: while its event is awaited
\* nothing is collected for it, while it is collected nothing is stored for
\* it, and it is stored for at most once.
OneAnswerPerInput ==
  LET g == sh.cur.gen
  IN  g # 0 =>
        /\ sh.cur.pending => sh.collect.gen = 0 /\ StoreBound(g) = {}
        /\ sh.collect.gen # 0 => sh.collect.gen = g /\ StoreBound(g) = {}
        /\ Cardinality(StoreBound(g)) <= 1

\* A recorded Tab belongs to the current input, so it is never applied to the
\* candidates of a later one.
TabForCurrent == sh.tab => sh.tabGen # 0 /\ sh.tabGen = sh.cur.gen

\* The reuse latch never names candidates stored before the word was last
\* left: going back to a word does not bring them back, not even when the
\* `ok` of their store arrives late.
LatchFromThisVisit == sh.reuse # 0 => sh.reuse > sh.dropped

\* While a session lasts, a latch names what the worker's slot holds, or a
\* later store for that slot is still unanswered.
HeldUntilReplaced(g, slot) ==
  g # 0 => \/ slots[slot].gen = g
           \/ \E p \in sh.pending : p.kind = "store" /\ p.slot = slot /\ p.gen > g

LatchHeldUntilReplaced ==
  HeldUntilReplaced(sh.reuse, "live") /\ HeldUntilReplaced(sh.cache.gen, "cache")

\* The shell never makes its own session fail: the worker refuses no message
\* of it, every response belongs to a pending request, a store is refused
\* only because its input is gone, and `ready` comes first.
SessionFailsOnlyByCrash ==
  /\ phase = "failed" => crashes > 0
  /\ ~sh.ready /\ out # <<>> => Head(out).kind = "ready"
  /\ \A i \in 1..Len(out) :
       /\ out[i].kind \in {"ok", "error"} => \E p \in sh.pending : p.id = out[i].ref
       /\ out[i].kind = "error" => out[i].code = "superseded"

\* Every input that asks for a listing gets it, or is replaced, dismissed or
\* lost with its session (with no failing capture: MaxFailures = 0).
ListingArrives ==
  \A g \in 1..MaxId :
    (sh.cur.gen = g /\ ~sh.cur.decor /\ line = "editing")
       ~> (sh.cur.gen # g \/ sh.shown.gen = g \/ line # "editing")

\* A recorded Tab is applied or forgotten (again with no failing capture).
TabResolves == (sh.tab /\ line = "editing") ~> (~sh.tab \/ line # "editing")

(***************************************************************************)
(* What the documentation says and the code does not quite do.             *)
(***************************************************************************)
\* A Tab pressed before the candidates arrive is recorded: between the end of
\* a capture and the plan of its store it acts on the previous listing.
TabRecordedUntilListing ==
  [][\A act \in TabActs, w \in Words :
       TabKey(act, w) /\ StoreBound(sh.cur.gen) # {} => sh'.tab]_vars
=============================================================================

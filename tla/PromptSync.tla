------------------------------ MODULE PromptSync ------------------------------
(***************************************************************************)
(* How the shell keeps the worker's history index and namespace in step    *)
(* with its own (zrush.zsh, lines 1223-1317 and 2775-3026).  Both are      *)
(* brought up to date before a prompt, by requests nobody waits for; the   *)
(* shell remembers what it asked for, not what the worker holds.  Only the *)
(* history menu waits, under a deadline, and decides from two numbers      *)
(* whether the index needs to be sent again.                               *)
(*                                                                         *)
(* The state of the shell is the record sh, which the operators take as p. *)
(* A name that ends in Fault is a faulty variant of the definition after   *)
(* it and not part of the model.                                           *)
(***************************************************************************)
EXTENDS Integers, Sequences, FiniteSets, SequencesExt

CONSTANTS Lines,        \* history lines
          Excluded,     \* those of them that are never sent
          Names,        \* contents of the namespace
          Refused,      \* those of them that the worker does not accept
          None,         \* no namespace
          RetentionCap, \* entries of the index
          MaxUnacked,   \* unanswered appends at most
          MaxCommands, MaxRequests, MaxFaults   \* bounds of the run

ASSUME SyncAssumption ==
  /\ Excluded \subseteq Lines /\ Refused \subseteq Names /\ None \notin Names
  /\ {RetentionCap, MaxUnacked, MaxCommands, MaxRequests, MaxFaults} \subseteq Nat

VARIABLES sh,         \* the shell
          worker,     \* the worker's index and namespace
          requests, responses,   \* what is under way between them
          commands, faults       \* counters for the bounds

vars == <<sh, worker, requests, responses, commands, faults>>

INSTANCE HistoryIndex

NoWorker == [index |-> NoIndex, namespace |-> None]

Init ==
  /\ \E names \in Names :
       sh = [up |-> FALSE,
             history |-> <<>>, newest |-> 0, dropped |-> {},     \* newest is HISTCMD - 1
             gen |-> 0, head |-> 0, count |-> 0, unacked |-> 0,  \* _zrush_hist_*
             names |-> names, payload |-> names,
             signature |-> None, queued |-> None, latest |-> 0,
             pending |-> {}, tx |-> <<>>, id |-> 0, sync |-> 0, menu |-> <<>>]
  /\ worker = NoWorker /\ requests = <<>> /\ responses = <<>>
  /\ commands = 0 /\ faults = 0

-----------------------------------------------------------------------------
(***************************************************************************)
(* The latches and the session.                                            *)
(***************************************************************************)
HistReset(p) == [p EXCEPT !.gen = 0, !.head = 0, !.count = 0, !.unacked = 0]

HistLatch(p, gen, head, count) == [p EXCEPT !.gen = gen, !.head = head, !.count = count]

NamespaceLatchDrop(p) == [p EXCEPT !.signature = None, !.queued = None, !.latest = 0]

\* The end of a session takes all that was under way with it.
Down(p) == [NamespaceLatchDrop(HistReset(p)) EXCEPT !.up = FALSE, !.pending = {}, !.tx = <<>>, !.sync = 0]

\* A request is pending until it is answered, and its frame is queued behind
\* the others.  A generation is the identifier of its request.
Frame(id, kind, body) == [id |-> id, kind |-> kind, body |-> body]

Request(p, kind, body) ==
  LET frame == Frame(p.id + 1, kind, body)
  IN  [p EXCEPT !.id = @ + 1, !.pending = @ \cup {frame}, !.tx = Append(@, frame)]

RequestNamespace(p, names) ==
  IF ~p.up \/ names = p.queued THEN p
  ELSE [Request(p, "namespace", names) EXCEPT !.queued = names, !.latest = p.id + 1]

EnsureSession(p) ==
  IF p.up THEN p ELSE RequestNamespace([NamespaceLatchDrop(HistReset(p)) EXCEPT !.up = TRUE], p.payload)

-----------------------------------------------------------------------------
(***************************************************************************)
(* Before a prompt.                                                        *)
(***************************************************************************)
\* The positions of a set in their order, and the elements of s there.
Ascending(W) ==
  CHOOSE f \in [1..Cardinality(W) -> W] : /\ \A i, j \in DOMAIN f : i < j => f[i] < f[j]
                                         /\ \A w \in W : \E i \in DOMAIN f : f[i] = w

At(s, W) == [k \in 1..Cardinality(W) |-> s[Ascending(W)[k]]]

Sent(history) == At(history, {i \in DOMAIN history : history[i] \notin Excluded})
Skipped(p) == p.history = <<>> \/ Head(p.history) \in Excluded

\* With a fault: any change since is taken for one new event.
ContinuousFault(p) == TRUE

Continuous(p) == p.newest = p.head + 1

HistReconcile(p) ==
  IF p.gen = 0 \/ ~p.up \/ p.newest = p.head THEN p
  ELSE IF ~Continuous(p) \/ p.unacked >= MaxUnacked THEN HistReset(p)
  ELSE IF Skipped(p) THEN HistLatch(p, p.gen, p.newest, Len(p.history))
  ELSE [HistLatch(Request(p, "append", Head(p.history)), p.id + 1, p.newest, Len(p.history))
          EXCEPT !.unacked = @ + 1]

NamespaceRefresh(p) ==
  IF p.signature = p.names THEN p
  ELSE RequestNamespace([p EXCEPT !.signature = p.names, !.payload = p.names], p.names)

Precmd(p) == NamespaceRefresh(HistReconcile(p))

-----------------------------------------------------------------------------
(***************************************************************************)
(* The history menu.                                                       *)
(***************************************************************************)
Warm(p) == p.gen > 0 /\ p.newest = p.head /\ Len(p.history) = p.count

Snapshot(p) ==
  LET q == EnsureSession(HistReset(p))
  IN  [HistLatch(Request(q, "snapshot", Sent(p.history)), q.id + 1, p.newest, Len(p.history))
         EXCEPT !.unacked = 0]

OpenHistoryMenu(p) ==
  LET q == IF Warm(p) THEN p ELSE Snapshot(p)
  IN  [Request(q, "plan", q.gen) EXCEPT !.sync = q.id + 1]

-----------------------------------------------------------------------------
(***************************************************************************)
(* Responses.                                                              *)
(***************************************************************************)
\* With a fault: a refusal of the latest snapshot is taken for an answer.
NamespaceSettleFault(p, id, result) == p

NamespaceSettle(p, id, result) ==
  IF id = p.latest /\ result # "ok" THEN NamespaceLatchDrop(p) ELSE p

\* With a fault: an append is taken off the count although the count began anew.
AcknowledgeFault(p, kind) == IF kind = "append" THEN [p EXCEPT !.unacked = @ - 1] ELSE p

Acknowledge(p, kind) ==
  IF kind = "append" /\ p.unacked > 0 THEN [p EXCEPT !.unacked = @ - 1] ELSE p

\* What a response does to the shell.
Received(p, r) ==
  LET request == CHOOSE q \in p.pending : q.id = r.id
      a == [Acknowledge(p, request.kind) EXCEPT !.pending = @ \ {request}]
      b == IF request.kind = "namespace" THEN NamespaceSettle(a, r.id, r.result) ELSE a
      c == IF r.result = "unknown-generation" THEN HistReset(b) ELSE b
  IN  IF r.id # p.sync THEN c
      ELSE [c EXCEPT !.sync = 0, !.menu = IF r.result = "ok" THEN r.body ELSE <<>>]

-----------------------------------------------------------------------------
(***************************************************************************)
(* The steps of the shell.  It takes no command while it waits.            *)
(***************************************************************************)
\* The frames that were queued are written.
Become(q) ==
  /\ sh' = [q EXCEPT !.tx = <<>>] /\ q.id <= MaxRequests
  /\ requests' = requests \o q.tx

\* A frame that cannot be written ends the session.
Lost(q) ==
  /\ q.up /\ q.tx # <<>> /\ faults < MaxFaults
  /\ sh' = Down(q) /\ requests' = <<>> /\ responses' = <<>> /\ worker' = NoWorker
  /\ faults' = faults + 1

Does(q) ==
  \/ Become(q) /\ UNCHANGED <<worker, responses, faults>>
  \/ Lost(q)

\* A change of the history, with or without a prompt after it.
Changed(p, history, newest, dropped) ==
  [p EXCEPT !.history = history, !.newest = newest, !.dropped = @ \cup dropped, !.menu = <<>>]

Command(q) ==
  /\ sh.sync = 0 /\ commands < MaxCommands /\ commands' = commands + 1
  /\ Does(q)

\* A command line is executed and stored: behind the others, instead of an
\* equal one, or while the oldest one is dropped -- or not stored at all.
Without(history, line) == At(history, {i \in DOMAIN history : history[i] # line})
Execute ==
  \E line \in Lines :
    \/ Command(Precmd(Changed(sh, <<line>> \o sh.history, sh.newest + 1, {})))
    \/ Command(Precmd(Changed(sh, <<line>> \o Without(sh.history, line), sh.newest + 1, {})))
    \/ /\ sh.history # <<>>
       /\ Command(Precmd(Changed(sh, <<line>> \o Front(sh.history), sh.newest + 1, {Last(sh.history)})))
ExecuteUnstored == Command(Precmd([sh EXCEPT !.menu = <<>>]))
\* A function, an alias, an option or PATH is changed.
Rename == \E names \in Names : Command(Precmd([sh EXCEPT !.names = names, !.menu = <<>>]))
\* fc -p
Switch == Command(Precmd(Changed(sh, <<>>, 0, ToSet(sh.history))))
\* share_history, fc -R, a smaller HISTSIZE: while a line is edited.
Import == \E line \in Lines \ Excluded :
            Command(Changed(sh, <<line>> \o sh.history, sh.newest + 1, {}))
Shrink == /\ sh.history # <<>>
          /\ Command(Changed(sh, Front(sh.history), sh.newest, {Last(sh.history)}))
\* Anything that is typed starts a session.
Type == sh.sync = 0 /\ ~sh.up /\ Does(EnsureSession(sh)) /\ UNCHANGED commands

OpenMenu == sh.sync = 0 /\ Does(OpenHistoryMenu([sh EXCEPT !.menu = <<>>])) /\ UNCHANGED commands

Receive ==
  /\ responses # <<>>
  /\ sh' = Received(sh, Head(responses)) /\ responses' = Tail(responses)
  /\ UNCHANGED <<worker, requests, commands, faults>>

\* The worker dies, or the deadline of the menu passes.
SessionFail ==
  /\ sh.up /\ (sh.sync # 0 \/ faults < MaxFaults)
  /\ sh' = Down(sh) /\ requests' = <<>> /\ responses' = <<>> /\ worker' = NoWorker
  /\ faults' = IF sh.sync # 0 THEN faults ELSE faults + 1
  /\ UNCHANGED commands

-----------------------------------------------------------------------------
(***************************************************************************)
(* The worker answers in order (WorkerSession).                            *)
(***************************************************************************)
Answer(id, result, body, w) ==
  /\ worker' = w /\ requests' = Tail(requests)
  /\ responses' = Append(responses, [id |-> id, result |-> result, body |-> body])

WriteHistory(r, accepted, index) ==
  IF accepted THEN Answer(r.id, "ok", <<>>, [worker EXCEPT !.index = index])
  ELSE Answer(r.id, "unknown-generation", <<>>, worker)

Process ==
  /\ requests # <<>>
  /\ LET r == Head(requests)
     IN  CASE r.kind = "namespace" ->
                IF r.body \in Refused THEN Answer(r.id, "invalid-payload", <<>>, worker)
                ELSE Answer(r.id, "ok", <<>>, [worker EXCEPT !.namespace = r.body])
           [] r.kind = "snapshot" ->
                WriteHistory(r, Accepts(worker.index, r.id), Install(r.id, r.body))
           [] r.kind = "append" ->
                WriteHistory(r, AcceptsAppend(worker.index, r.id), AppendTo(worker.index, r.id, <<r.body>>))
           [] r.kind = "plan" ->
                IF Holds(worker.index, r.body)
                THEN Answer(r.id, "ok", At(worker.index.entries, Window(worker.index, RetentionCap)), worker)
                ELSE Answer(r.id, "unknown-generation", <<>>, worker)
  /\ UNCHANGED <<sh, commands, faults>>

Next ==
  \/ Execute \/ ExecuteUnstored \/ Rename \/ Switch \/ Import \/ Shrink
  \/ Type \/ OpenMenu \/ Receive \/ SessionFail \/ Process

Spec == Init /\ [][Next]_vars

-----------------------------------------------------------------------------
Pending(kind) == {r \in sh.pending : r.kind = kind}

\* The types of both sides; a request is pending as long as it or its response
\* is under way.
TypeOK ==
  /\ sh.tx = <<>> /\ sh.history \in Seq(Lines) /\ sh.names \in Names /\ sh.menu \in Seq(Lines)
  /\ \A r \in sh.pending : r.id \in 1..sh.id
  /\ {sh.queued, sh.signature, worker.namespace} \subseteq Names \cup {None}
  /\ {r.id : r \in sh.pending} = {r.id : r \in ToSet(requests)} \cup {r.id : r \in ToSet(responses)}

\* The newest occurrence of every line that may be sent.
Firsts(s) == {i \in DOMAIN s : \A j \in 1..(i - 1) : s[j] # s[i]}
Truth == LET sent == Sent(sh.history) IN At(sent, Firsts(sent))

(***************************************************************************)
(* The menu shows the shell's history, newest first and each line once,    *)
(* whether or not the index was sent again for it.  What it may show       *)
(* besides, behind the others, are lines the shell has dropped since       *)
(* (behavior.md, "History Menu").  Once there have been more lines than    *)
(* the index retains, it may end before the history does.                  *)
(***************************************************************************)
MenuShowsHistory ==
  sh.menu # <<>> => /\ \/ IsPrefix(Truth, sh.menu)
                       \/ commands > RetentionCap /\ IsPrefix(sh.menu, Truth)
                    /\ ToSet(sh.menu) \subseteq ToSet(Truth) \cup sh.dropped

\* What the menu shows is right in every state of the right types.
HistoryIsExact == TypeOK /\ MenuShowsHistory

(***************************************************************************)
(* Once all is answered the index has the generation that the next menu    *)
(* names: the shell moves its latch when it sends, and no write of its own *)
(* is ever refused.                                                        *)
(***************************************************************************)
LatchIsHeld == (sh.gen # 0 /\ requests = <<>>) => Holds(worker.index, sh.gen)

(***************************************************************************)
(* The count that bounds the unanswered appends is the number of them,     *)
(* although it is reset while some are unanswered.                         *)
(***************************************************************************)
UnackedIsExact ==
  /\ Cardinality(Pending("append")) <= MaxUnacked
  /\ (sh.gen # 0 /\ sh.sync = 0) => sh.unacked = Cardinality(Pending("append"))

(***************************************************************************)
(* When a session is up, the shell's names have been looked at since they  *)
(* changed, and no answer is outstanding, the worker holds these names:    *)
(* whatever order they changed in, and whatever it has refused.            *)
(***************************************************************************)
NamespaceIsCurrent ==
  (sh.up /\ sh.signature = sh.names /\ Pending("namespace") = {}) => worker.namespace = sh.names

(***************************************************************************)
(* What the shell takes for granted about the worker, without asking it,   *)
(* is so: the generation, the count and the names.                         *)
(***************************************************************************)
WorkerIsInStep == LatchIsHeld /\ UnackedIsExact /\ NamespaceIsCurrent
=============================================================================

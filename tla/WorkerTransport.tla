---------------------------- MODULE WorkerTransport ----------------------------
(***************************************************************************)
(* How the shell talks to its worker (zrush.zsh, lines 1207-2305).  The    *)
(* request and response FIFOs have names that every session opens anew.  A *)
(* frame that the pipe takes at once is written by the shell, any other by *)
(* a writer child that acknowledges it through a descriptor of its own.    *)
(* ZLE watches descriptors, and calls the handlers of all that were ready  *)
(* one after the other, whatever the first of them has changed.  A session *)
(* ends only when the response stream and the writer are both done; until  *)
(* then the transport is `stopping`, and a stop that outlasts its deadline *)
(* goes on in the handlers.                                                *)
(*                                                                         *)
(* The shell's globals are the record sh, everything else is w.  A name    *)
(* that ends in Fault is a faulty variant of the definition after it and   *)
(* not part of the model.                                                  *)
(***************************************************************************)
EXTENDS Integers, Sequences, FiniteSets, SequencesExt

CONSTANTS Capacity,     \* of the request FIFO, in chunks no longer than PIPE_BUF
          Budget,       \* messages handled in one wakeup
          MaxSessions, MaxRequests, MaxMessages,   \* bounds: of the run, and a session
          RequestParts, \* bound: lengths of the frames behind the greeting, in chunks
          MaxFaults     \* bound: failing system calls, killed processes

ASSUME TransportAssumption ==
  /\ Capacity \in Nat \ {0} /\ Budget \in Nat \ {0}
  /\ {MaxSessions, MaxRequests, MaxMessages, MaxFaults} \subseteq Nat
  /\ RequestParts \subseteq {1, 2}

VARIABLES sh,      \* the shell's globals
          w,       \* the pipes, the worker, the writer child
          calls    \* handlers that ZLE is about to call

vars == <<sh, w, calls>>

\* A descriptor is a number, given again once it is closed, and what it was
\* opened for, which the shell cannot see.
NoFd == [no |-> 0, for |-> <<"none", 0>>]
Kinds == {"data", "ack", "drain"}
NoCallback == [gen |-> 0, fd |-> NoFd]

Frame(n, parts) == [n |-> n, parts |-> parts]
NoFrame == Frame(0, 0)
NoWorker == [alive |-> FALSE, told |-> FALSE, part |-> NoFrame, read |-> 0]
NoWriter == [at |-> "none", frame |-> NoFrame, left |-> 0]

Init ==
  /\ sh = [stopping |-> FALSE, tainted |-> FALSE, disabled |-> FALSE, failures |-> 0,
           fd |-> [kind \in Kinds |-> NoFd], wfd |-> FALSE, nbwfd |-> FALSE, control |-> FALSE,
           txq |-> <<>>, rx |-> <<>>, callback |-> [kind \in Kinds |-> NoCallback],
           doing |-> "nothing", after |-> "nothing", unread |-> FALSE]
  /\ w = [request |-> <<>>, response |-> <<>>,
          worker |-> NoWorker, writer |-> NoWriter,
          session |-> 0, frames |-> 0, faults |-> 0,
          handed |-> <<>>, got |-> <<>>, emitted |-> 0, handled |-> <<>>,
          futile |-> 0]
  /\ calls = {}

Open(p, kind) == p.sh.fd[kind] # NoFd
Now == [sh |-> sh, w |-> w]
Become(p) == \E q \in {p} : sh' = q.sh /\ w' = q.w

\* What follows when all goes well, or when a system call fails.
Try(Result(_), failures) ==
  \E good \in {Result("ok")} :
    \/ Become(good)
    \/ /\ w.faults < MaxFaults
       /\ \E bad \in {Result(o) : o \in failures} \ {good} :
            Become([bad EXCEPT !.w.faults = @ + 1])

-----------------------------------------------------------------------------
(***************************************************************************)
(* Descriptors and their handlers.                                         *)
(***************************************************************************)
\* The lowest number that is free.
NewFd(p, for) ==
  LET used == {p.sh.fd[kind].no : kind \in Kinds}
  IN  [no |-> CHOOSE n \in 1..4 : n \notin used /\ \A m \in 1..(n - 1) : m \in used, for |-> for]

InvalidateCallback(p, kind) == [p EXCEPT !.sh.callback[kind] = NoCallback]

\* A generation is a number that no callback and no call under way has: the
\* code counts up, and compares for equality only.
NewGeneration(p) ==
  LET used == {p.sh.callback[kind].gen : kind \in Kinds} \cup {call.gen : call \in calls}
  IN  CHOOSE n \in 1..7 : n \notin used /\ \A m \in 1..(n - 1) : m \in used

RegisterCallback(p, kind, fd) ==
  [p EXCEPT !.sh.callback[kind] = [gen |-> NewGeneration(p), fd |-> fd]]

\* With a fault, for checking the properties: only the number is compared.
CallbackCurrentFault(p, call) == Open(p, call.kind) /\ call.fd.no = p.sh.fd[call.kind].no

CallbackCurrent(p, call) ==
  /\ call.gen = p.sh.callback[call.kind].gen
  /\ call.kind = "drain" => ~p.sh.stopping
  /\ Open(p, call.kind) /\ call.fd.no = p.sh.fd[call.kind].no

Close(p, kind) == [InvalidateCallback(p, kind) EXCEPT !.sh.fd[kind] = NoFd]

ReleaseWriter(p) == [Close(p, "ack") EXCEPT !.w.writer = NoWriter]
CloseRequest(p)  == [p EXCEPT !.sh.wfd = FALSE, !.sh.nbwfd = FALSE]
CloseControl(p)  == [p EXCEPT !.sh.control = FALSE]
CloseResponse(p) == [Close(p, "data") EXCEPT !.sh.rx = <<>>]

\* The ack descriptor: a byte, the end of the stream, or nothing yet.
PollWriter(p) == p.w.writer.at
\* With a fault: a writer that died keeps its slot.
WriterDoneFault(p) == PollWriter(p) = "acked"

WriterDone(p) == PollWriter(p) \in {"acked", "dead"}
\* The response descriptor: nobody else keeps it open for writing.
Eof(p) == ~p.w.worker.alive

-----------------------------------------------------------------------------
(***************************************************************************)
(* Ending a session.                                                       *)
(***************************************************************************)
BeginStop(p) == [Close(p, "drain") EXCEPT !.sh.stopping = TRUE, !.sh.txq = <<>>]

Finalize(p) ==
  LET q == CloseControl(CloseRequest(Close(p, "drain")))
  IN  [sh |-> [q.sh EXCEPT !.rx = <<>>, !.txq = <<>>, !.stopping = FALSE, !.unread = FALSE],
       w  |-> [q.w EXCEPT !.worker = [NoWorker EXCEPT !.alive = q.w.worker.alive], !.frames = 0,
                          !.handed = <<>>, !.got = <<>>, !.emitted = 0, !.handled = <<>>,
                          !.request = <<>>, !.response = <<>>]]

Done(p) == ~Open(p, "ack") /\ ~Open(p, "data")

\* A read that fails is no end of the stream, and nobody watches it any more:
\* the code only logs the failure, `unread` remembers it.
ReadFails(p) == [InvalidateCallback(p, "data") EXCEPT !.sh.unread = TRUE]
Drained(p) ==
  LET q == [p EXCEPT !.w.response = <<>>] IN IF Eof(p) THEN CloseResponse(q) ELSE q

StopProgress(p, outcome) ==
  LET a == IF Open(p, "ack") /\ WriterDone(p) THEN ReleaseWriter(p) ELSE p
      c == CASE ~Open(a, "data") -> a
             [] Open(a, "data") /\ outcome = "read" -> ReadFails(a)
             [] OTHER -> Drained(a)
  IN  IF Done(c) THEN Finalize(c) ELSE c

\* The worker is told through the control FIFO; the loop that follows is
\* AbortStep and AbortExpire.
Abort(p) ==
  LET a == IF p.sh.stopping THEN p ELSE BeginStop(p)
  IN  [CloseRequest(CloseControl(a)) EXCEPT !.w.worker.told = @ \/ a.sh.control, !.sh.doing = "abort"]

\* Behind the loop.
FailSession(p) == [Abort(p) EXCEPT !.sh.after = "failure"]
SessionFail(p) == IF p.sh.stopping THEN p ELSE FailSession(p)

Breaker(failures) == failures >= 2

Return(p) ==
  LET q == [p EXCEPT !.sh.doing = "nothing", !.sh.after = "nothing"]
  IN  CASE p.sh.after = "failure" ->
             [q EXCEPT !.sh.failures = @ + 1, !.sh.disabled = Breaker(p.sh.failures + 1)]
        [] p.sh.after = "source" /\ ~p.sh.stopping ->
             [q EXCEPT !.sh.failures = IF p.sh.disabled THEN 0 ELSE @,
                       !.sh.disabled = FALSE, !.sh.tainted = FALSE]
        [] OTHER -> q

AbortStep ==
  /\ sh.doing = "abort"
  /\ LET Result(o) == LET p == StopProgress(Now, o) IN IF p.sh.stopping THEN p ELSE Return(p)
     IN  Try(Result, {"read"})
  /\ UNCHANGED calls
AbortExpire ==
  /\ sh.doing = "abort"
  /\ LET Result(o) == Return(StopProgress(Now, o)) IN Try(Result, {"read"})
  /\ UNCHANGED calls

\* The healthy end, when the script is sourced again: the writer first, then
\* the end of the requests, then that of the responses.
Shutdown == /\ sh.doing = "nothing" /\ ~sh.stopping
            /\ Become([BeginStop(Now) EXCEPT !.sh.doing = "ack", !.sh.after = "source", !.w.futile = 0])
            /\ UNCHANGED calls
ShutdownAck ==
  /\ sh.doing = "ack"
  /\ Become(CASE ~Open(Now, "ack") -> [CloseRequest(Now) EXCEPT !.sh.doing = "eof", !.sh.rx = <<>>]
              [] Open(Now, "ack") /\ PollWriter(Now) = "acked" -> ReleaseWriter(Now)
              [] Open(Now, "ack") /\ PollWriter(Now) = "dead" -> Abort(Now)
              [] OTHER -> Now)
  /\ UNCHANGED calls
ShutdownEof ==
  /\ sh.doing = "eof"
  /\ LET p == [Now EXCEPT !.w.response = <<>>]
     IN  Become(CASE ~Open(p, "data") -> Return(Finalize(p))
                  [] Open(p, "data") /\ Eof(p) -> CloseResponse(p)
                  [] OTHER -> p)
  /\ UNCHANGED calls
\* The deadline, and also a read that fails.
ShutdownExpire == sh.doing \in {"ack", "eof"} /\ Become(Abort(Now)) /\ UNCHANGED calls

\* A worker that ends already is given up once more (its successor cannot be
\* installed, or the numbers are used up).
ShutdownAgain ==
  /\ sh.doing = "nothing" /\ sh.stopping
  /\ LET Result(o) == StopProgress(Now, o) IN Try(Result, {"read"})
  /\ UNCHANGED calls

-----------------------------------------------------------------------------
(***************************************************************************)
(* Sending.                                                                *)
(***************************************************************************)
Chunks(f) == [k \in 1..f.parts |-> [n |-> f.n, k |-> k, parts |-> f.parts]]

\* The first k frames can be written at once, whole.
Direct(p, k) ==
  /\ p.sh.nbwfd /\ p.w.worker.alive /\ k <= Capacity - Len(p.w.request)
  /\ \A i \in 1..k : p.sh.txq[i].parts = 1

WriteDirect(p) ==
  LET k == CHOOSE k \in 0..Len(p.sh.txq) : (k = 0 \/ Direct(p, k)) /\ ~(k < Len(p.sh.txq) /\ Direct(p, k + 1))
  IN  [p EXCEPT !.w.request = @ \o [i \in 1..k |-> Head(Chunks(p.sh.txq[i]))],
                !.w.handed = @ \o [i \in 1..k |-> p.sh.txq[i].n],
                !.sh.txq = SubSeq(@, k + 1, Len(@))]

\* The writer child, unless it cannot be started (its descriptor cannot be
\* watched): the frame it writes stays in the queue then.
Delegate(p, outcome) ==
  LET fd == NewFd(p, <<"ack", Head(p.sh.txq).n>>)
      spawned == [p EXCEPT !.sh.fd.ack = fd,
                           !.w.writer = [at |-> "writing", frame |-> Head(p.sh.txq),
                                            left |-> Head(p.sh.txq).parts],
                           !.w.handed = Append(@, Head(p.sh.txq).n)]
  IN  CASE outcome = "spawn" -> SessionFail([p EXCEPT !.sh.tainted = TRUE])
        [] outcome = "watch" -> SessionFail([spawned EXCEPT !.sh.tainted = TRUE])
        [] outcome = "ok" -> [RegisterCallback(spawned, "ack", fd) EXCEPT !.sh.txq = Tail(@)]

\* With a fault: a frame is handed over while the writer has another one.
BusyFault(p) == FALSE

Busy(p) == Open(p, "ack")

Flush(p, outcome) ==
  IF p.sh.stopping \/ p.sh.txq = <<>> \/ Busy(p) THEN p
  ELSE LET q == WriteDirect(p) IN IF q.sh.txq = <<>> THEN q ELSE Delegate(q, outcome)

ConsumeAck(p, outcome) ==
  CASE ~Open(p, "ack") \/ p.sh.stopping -> p
    [] Open(p, "ack") /\ ~p.sh.stopping /\ PollWriter(p) = "acked" -> Flush(ReleaseWriter(p), outcome)
    [] Open(p, "ack") /\ ~p.sh.stopping /\ PollWriter(p) = "dead" -> SessionFail(p)
    [] OTHER -> p

Up == Open(Now, "data") /\ ~sh.stopping

Request(parts) ==
  /\ sh.doing = "nothing" /\ Up /\ w.frames < 2 + MaxRequests
  /\ LET p == [Now EXCEPT !.sh.txq = Append(@, Frame(w.frames + 1, parts)), !.w.frames = @ + 1]
         Result(o) == Flush(p, o)
     IN  Try(Result, {"spawn", "watch"})
  /\ UNCHANGED calls

-----------------------------------------------------------------------------
(***************************************************************************)
(* Starting a session.                                                     *)
(***************************************************************************)
MayStart == ~sh.disabled /\ ~sh.stopping /\ ~sh.tainted

\* The descriptors are there, whatever else went wrong.  The FIFOs are empty:
\* they were closed by both sides.
Opened(p, alive, nb) ==
  [p EXCEPT !.sh.fd.data = NewFd(p, <<"data", p.w.session + 1>>), !.sh.wfd = TRUE, !.sh.nbwfd = nb,
            !.sh.control = TRUE, !.sh.rx = <<>>,
            !.w.session = @ + 1, !.w.futile = @ + 1,
            !.w.worker.alive = alive]

\* `hello`, then the namespace, which is long.
Greeting == <<Frame(1, 1), Frame(2, 2)>>

\* The worker cannot be spawned, its descriptor not watched, or both.
StartWith(p, o, nb) ==
  LET opened == Opened(p, o \notin {"endpoints", "spawn", "both"}, nb)
      watched(q) == RegisterCallback(q, "data", q.sh.fd.data)
  IN  CASE o = "endpoints" -> SessionFail([p EXCEPT !.w.futile = @ + 1])
        [] o = "spawn" -> FailSession(watched(BeginStop(opened)))
        [] o \in {"watch", "both"} ->
             FailSession([BeginStop(opened) EXCEPT !.sh.tainted = TRUE])
        [] OTHER -> Flush([watched(opened) EXCEPT !.sh.txq = Greeting, !.w.frames = 2],
                          CASE o = "writer" -> "spawn" [] o = "unwatched" -> "watch"
                            [] OTHER -> "ok")

Start ==
  /\ sh.doing = "nothing" /\ MayStart /\ ~Open(Now, "data")
  /\ w.session < MaxSessions
  /\ \E nb \in BOOLEAN :
       LET Result(o) == StartWith(Now, o, nb)
       IN  Try(Result, {"endpoints", "spawn", "watch", "both", "writer", "unwatched"})
  /\ UNCHANGED calls

\* The history menu asks for a session without looking at the runtime.
StartTainted ==
  /\ sh.doing = "nothing" /\ sh.tainted /\ ~sh.disabled /\ ~sh.stopping /\ ~Open(Now, "data")
  /\ Become(SessionFail([Now EXCEPT !.w.futile = @ + 1])) /\ UNCHANGED calls

-----------------------------------------------------------------------------
(***************************************************************************)
(* Reading.                                                                *)
(***************************************************************************)
\* The first message is ready, the second the answer to the namespace of the
\* greeting; any other ends the streak of failures.
Handled(p, messages) ==
  [p EXCEPT !.w.handled = @ \o messages,
            !.sh.failures = IF \E i \in DOMAIN messages : messages[i] > 2 THEN 0 ELSE @,
            !.w.futile = IF \E i \in DOMAIN messages : messages[i] > 2 THEN 0 ELSE @]

ArmDrain(p, outcome) ==
  IF Open(p, "drain") THEN p
  ELSE IF outcome # "ok" THEN SessionFail(p)
       ELSE LET fd == NewFd(p, <<"drain", Len(p.w.handled)>>)
            IN  RegisterCallback([p EXCEPT !.sh.fd.drain = fd], "drain", fd)

\* What is buffered comes first; the pipe is read when that is not a message.
Read(p, outcome) ==
  LET buffered == Len(p.sh.rx) >= Budget
      all == IF buffered THEN p.sh.rx ELSE p.sh.rx \o p.w.response
      taken == Handled([p EXCEPT !.w.response = IF buffered THEN @ ELSE <<>>,
                                 !.sh.rx = SubSeq(all, Budget + 1, Len(all))],
                       SubSeq(all, 1, IF Len(all) < Budget THEN Len(all) ELSE Budget))
  IN  CASE p.sh.stopping -> p
        [] ~p.sh.stopping /\ Len(all) >= Budget -> ArmDrain(taken, outcome)
        [] ~p.sh.stopping /\ Len(all) < Budget ->
             IF Eof(p) THEN SessionFail(CloseResponse(taken)) ELSE taken

\* Each handler reads what was not its own only after the session survived.
OnData(p, outcome) ==
  IF p.sh.stopping THEN StopProgress(p, outcome) ELSE Read(ConsumeAck(p, outcome), outcome)
OnAck(p, outcome) == IF p.sh.stopping THEN StopProgress(p, outcome) ELSE ConsumeAck(p, outcome)
OnDrain(p, outcome) == Read(Close(p, "drain"), outcome)

Handle(p, kind, outcome) ==
  CASE kind = "data" -> OnData(p, outcome) [] kind = "ack" -> OnAck(p, outcome)
    [] kind = "drain" -> OnDrain(p, outcome)

\* ZLE finds what is ready.
Ready(kind) ==
  /\ sh.callback[kind].gen > 0
  /\ CASE kind = "data" -> w.response # <<>> \/ Eof(Now)
       [] kind = "ack" -> WriterDone(Now)
       [] kind = "drain" -> TRUE

Poll ==
  /\ sh.doing = "nothing" /\ calls = {}
  /\ calls' = {[kind |-> kind, fd |-> sh.callback[kind].fd, gen |-> sh.callback[kind].gen] :
                 kind \in {kind \in Kinds : Ready(kind)}}
  /\ UNCHANGED <<sh, w>>

\* One of the handlers runs.
Call ==
  /\ sh.doing = "nothing"
  /\ \E call \in calls :
       /\ calls' = calls \ {call}
       /\ LET Result(o) == IF CallbackCurrent(Now, call) THEN Handle(Now, call.kind, o) ELSE Now
          IN  Try(Result, IF sh.stopping THEN {"read"} ELSE {"spawn", "watch"})

\* A malformed message, a read error, the deadline of the history menu.
SessionError ==
  /\ sh.doing = "nothing" /\ Up /\ w.faults < MaxFaults
  /\ Become(SessionFail([Now EXCEPT !.w.faults = @ + 1])) /\ UNCHANGED calls

-----------------------------------------------------------------------------
(***************************************************************************)
(* The processes.                                                          *)
(***************************************************************************)
Elsewhere(world) == w' = world /\ UNCHANGED <<sh, calls>>

\* The writer child closes its end before it acknowledges.
WriterWrites ==
  /\ w.writer.at = "writing" /\ w.worker.alive /\ Len(w.request) < Capacity
  /\ Elsewhere([w EXCEPT
       !.request = Append(@, Chunks(w.writer.frame)[w.writer.frame.parts - w.writer.left + 1]),
       !.writer.left = @ - 1, !.writer.at = IF w.writer.left = 1 THEN "acked" ELSE @])
WriterFails == w.writer.at = "writing" /\ ~w.worker.alive /\ Elsewhere([w EXCEPT !.writer.at = "dead"])
WriterKilled ==
  /\ w.writer.at = "writing" /\ w.faults < MaxFaults
  /\ Elsewhere([w EXCEPT !.writer.at = "dead", !.faults = @ + 1])

\* The worker puts frames together; anything else ends it.
WorkerReads ==
  LET c == Head(w.request)
      continues == c.k = w.worker.read + 1 /\ (c.k = 1 \/ c.n = w.worker.part.n)
  IN  /\ w.worker.alive /\ w.request # <<>>
      /\ Elsewhere(
           CASE ~continues ->
                  [w EXCEPT !.request = Tail(@), !.got = Append(@, 0), !.worker.alive = FALSE]
             [] continues /\ c.k = c.parts ->
                  [w EXCEPT !.request = Tail(@), !.got = Append(@, c.n),
                            !.worker.part = NoFrame, !.worker.read = 0]
             [] OTHER -> [w EXCEPT !.request = Tail(@), !.worker.part = Frame(c.n, c.parts), !.worker.read = c.k])
WorkerEmits ==
  /\ w.worker.alive
  /\ w.emitted < MaxMessages /\ w.emitted < Len(w.got)
  /\ Elsewhere([w EXCEPT !.emitted = @ + 1, !.response = Append(@, w.emitted + 1)])
WorkerEnds ==
  /\ w.worker.alive
  /\ \/ w.worker.told
     \/ w.request = <<>> /\ ~sh.wfd /\ w.writer.at # "writing"
  /\ Elsewhere([w EXCEPT !.worker.alive = FALSE])
WorkerCrashes ==
  /\ w.worker.alive /\ w.faults < MaxFaults
  /\ Elsewhere([w EXCEPT !.worker.alive = FALSE, !.faults = @ + 1])

ShellWaits == AbortStep \/ ShutdownAck \/ ShutdownEof
Next ==
  \/ Start \/ StartTainted \/ (\E parts \in RequestParts : Request(parts)) \/ Poll \/ Call \/ SessionError
  \/ ShellWaits \/ AbortExpire \/ Shutdown \/ ShutdownExpire \/ ShutdownAgain
  \/ WriterWrites \/ WriterFails \/ WriterKilled
  \/ WorkerReads \/ WorkerEmits \/ WorkerEnds \/ WorkerCrashes

(***************************************************************************)
(* ZLE goes on polling, makes all the calls of a poll, and every wait of   *)
(* the shell ends, if only at its deadline; the processes run.             *)
(***************************************************************************)
Fairness ==
  /\ WF_vars(Poll) /\ []<>(calls = {}) /\ []<>(sh.doing = "nothing")
  /\ WF_vars(WriterWrites \/ WriterFails) /\ WF_vars(WorkerReads \/ WorkerEnds)

Spec == Init /\ [][Next]_vars /\ Fairness

-----------------------------------------------------------------------------
(***************************************************************************)
(* A handler called for a descriptor that was closed since finds no other  *)
(* descriptor under its number (_zrush_worker_callback_current).           *)
(***************************************************************************)
CallbacksActOnTheirOwn ==
  \A call \in calls : CallbackCurrent(Now, call) => call.fd = sh.fd[call.kind]

(***************************************************************************)
(* Between handlers nothing waits for an event that nobody watches for:    *)
(* neither end of a stop, nor a frame in the queue, nor a message in the   *)
(* buffer -- unless the runtime is given up.  The one exception is the     *)
(* response stream of a stop that could not read it (zrush.zsh:1600).      *)
(***************************************************************************)
NothingWaitsUnwatched ==
  /\ sh.unread => sh.stopping
  /\ (sh.doing = "nothing" /\ ~sh.tainted) =>
       /\ \A kind \in Kinds :
            Open(Now, kind) =>
              sh.callback[kind].fd = sh.fd[kind] \/ (kind = "data" /\ sh.unread)
       /\ sh.stopping => Open(Now, "ack") \/ Open(Now, "data")
       /\ ~sh.stopping => /\ sh.txq # <<>> => Open(Now, "ack")
                          /\ sh.rx # <<>> => Open(Now, "drain")

(***************************************************************************)
(* A worker that never answers is started twice at most, and never beside  *)
(* one that still runs or whose writer still writes (behavior.md, "Worker  *)
(* Lifecycle").                                                            *)
(***************************************************************************)
RestartsAreBounded ==
  /\ w.futile <= 2
  /\ ~Open(Now, "data") => ~w.worker.alive
  /\ ~Open(Now, "ack") => w.writer.at # "writing"

\* The shell's and the worker's side of a session hold what they can hold.
TypeOK ==
  /\ sh.failures \in 0..2 /\ sh.doing \in {"nothing", "abort", "ack", "eof"}
  /\ sh.after \in {"nothing", "failure", "source"}
  /\ \A kind \in Kinds : sh.fd[kind].no \in 0..Cardinality(Kinds)
  /\ Len(w.request) <= Capacity /\ w.writer.left \in 0..2
  /\ \A call \in calls : call.kind \in Kinds /\ call.gen > 0

TransportIsSound == TypeOK /\ CallbacksActOnTheirOwn /\ NothingWaitsUnwatched /\ RestartsAreBounded

\* Each direction of a session.
Requests == INSTANCE Channel WITH
  Items <- 0..(2 + MaxRequests),
  sent <- w.handed \o [i \in DOMAIN sh.txq |-> sh.txq[i].n],
  got <- w.got
Responses == INSTANCE Channel WITH
  Items <- 1..MaxMessages, sent <- [i \in 1..w.emitted |-> i], got <- w.handled

(***************************************************************************)
(* The worker is given the frames of its session whole and in the order    *)
(* they were queued, however each of them was written, and the shell the   *)
(* worker's messages.                                                      *)
(***************************************************************************)
ChannelsKeepOrder == Requests!Spec /\ Responses!Spec

(***************************************************************************)
(* A stop comes to an end, within its deadline or in the handlers, unless  *)
(* a read of its response stream failed.  That one may last: until         *)
(* _zrush_worker_shutdown is called again nobody reads on.                 *)
(***************************************************************************)
StopEnds == (sh.stopping /\ ~sh.tainted) ~> (~sh.stopping \/ sh.tainted \/ sh.unread)
=============================================================================

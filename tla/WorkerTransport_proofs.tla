------------------------ MODULE WorkerTransport_proofs ------------------------
(***************************************************************************)
(* Proofs about WorkerTransport: for every capacity of the pipes, every    *)
(* budget, any number of sessions, requests, messages and faults, handlers *)
(* act on the descriptors they were registered for, nothing waits for an   *)
(* event nobody watches for, restarts are bounded, and each direction of a *)
(* session is a Channel.                                                   *)
(***************************************************************************)
EXTENDS TransportShell_proofs

\* Fewer calls are still told apart.
LEMMA FewerCalls ==
  ASSUME CallSet(calls), NEW cs \in SUBSET calls
  PROVE  CallSet(cs)
BY DEF CallSet

-----------------------------------------------------------------------------
(***************************************************************************)
(* The writer child.                                                       *)
(***************************************************************************)
\* A runtime is given up in any state.
LEMMA TaintedCommon ==
  ASSUME NEW p \in States, NEW cs, Handlers(p, cs), Moving(p), p.sh.disabled <=> p.sh.failures = 2,
         p.sh.unread => p.sh.stopping
  PROVE  LET q == [p EXCEPT !.sh.tainted = TRUE]
         IN  /\ Common(q, cs) /\ q.w = p.w /\ q.sh.stopping = p.sh.stopping /\ Queues(q) = Queues(p)
             /\ q.sh.disabled = p.sh.disabled /\ q.sh.failures = p.sh.failures
             /\ q.sh.fd = p.sh.fd
<1> DEFINE q == [p EXCEPT !.sh.tainted = TRUE]
<1>1. q \in States
  BY TRUE \in BOOLEAN, Zenon DEF States, Shells
<1>2. /\ q.w = p.w /\ q.sh.stopping = p.sh.stopping /\ Queues(q) = Queues(p)
      /\ q.sh.disabled = p.sh.disabled /\ q.sh.failures = p.sh.failures /\ q.sh.tainted = TRUE
      /\ q.sh.fd = p.sh.fd /\ q.sh.callback = p.sh.callback /\ q.sh.unread = p.sh.unread
  BY DEF States, Shells, Queues
<1> HIDE DEF q
<1>3. \A kind \in Kinds : Open(q, kind) <=> Open(p, kind)
  BY <1>2 DEF Open
<1>4. Handlers(q, cs)
  BY <1>2, <1>3 DEF Handlers
<1>5. Watched(q, cs)
  BY <1>1, <1>2, <1>4 DEF Watched, Registered
<1>6. Moving(q)
  BY <1>2, <1>3, SameMoving DEF Heard, Kinds
<1> QED
  BY <1>2, <1>5, <1>6 DEF Common, q

\* The first frame of the queue is the writer's, and not yet out of the queue.
Spawned(p) ==
  LET fd == NewFd(p, <<"ack", Head(p.sh.txq).n>>)
  IN  [p EXCEPT !.sh.fd.ack = fd,
                !.w.writer = [at |-> "writing", frame |-> Head(p.sh.txq),
                              left |-> Head(p.sh.txq).parts],
                !.w.handed = Append(@, Head(p.sh.txq).n)]

LEMMA SpawnedFields ==
  ASSUME NEW p, NEW cs, CallSet(cs), Running(p, cs), ~Open(p, "ack"), p.sh.txq # <<>>
  PROVE  LET q == Spawned(p)
         IN  /\ q \in States /\ Handlers(q, cs) /\ Moving(q)
             /\ q.sh.fd["ack"] = NewFd(p, <<"ack", Head(p.sh.txq).n>>) /\ Open(q, "ack")
             /\ \A kind \in Kinds \ {"ack"} : Open(q, kind) <=> Open(p, kind)
             /\ q.sh.callback = p.sh.callback /\ q.sh.unread = p.sh.unread /\ Switches(q) = Switches(p) /\ Queues(q) = Queues(p)
             /\ q.w.frames = p.w.frames /\ Len(q.w.handed) = Len(p.w.handed) + 1
             /\ q.w.response = p.w.response /\ q.w.futile = p.w.futile /\ Kept(q, p)
<1> DEFINE f == Head(p.sh.txq)
           fd == NewFd(p, <<"ack", f.n>>)
           writer == [at |-> "writing", frame |-> f, left |-> f.parts]
           handed == Append(p.w.handed, f.n)
           a == Len(p.w.handed)
           q == Spawned(p)
<1>0. /\ p \in States /\ Watched(p, cs) /\ Moving(p) /\ Queued(p)
      /\ "ack" \in Kinds /\ p.w.writer.at = "none"
  BY DEF Running, Common, Watched, Moving, Processes, Kinds
<1>1. /\ p.sh.txq \in Seq(Frames) /\ p.w.handed \in Seq(Nat) /\ a \in Nat
      /\ Len(p.sh.txq) \in Nat \ {0} /\ 1 \in DOMAIN p.sh.txq
  BY <1>0, StateFields
<1>2. f \in Frames /\ f = p.sh.txq[1]
  <2>1. p.sh.txq[1] \in Frames
    BY <1>1
  <2>2. f = p.sh.txq[1]
    BY <1>1, SeqIsSeq, SeqTail
  <2> QED
    BY <2>1, <2>2
<1>3. f.n = a + 1
  BY <1>0, <1>1, <1>2 DEF Queued
<1> HIDE DEF f
<1>4. f.n \in Nat /\ f.parts \in {1, 2}
  BY <1>2 DEF Frames
<1>5. fd \in Fds /\ fd # NoFd
  <2>1. <<"ack", f.n>> \in (Kinds \cup {"none"}) \X Nat
    BY <1>0, <1>4
  <2> QED
    BY <1>0, <2>1, NewFdType
<1>6. writer \in Writers
  BY <1>2, <1>4 DEF Writers, Frames
<1>7. /\ handed \in Seq(Nat) /\ Len(handed) = a + 1 /\ DOMAIN handed = 1..(a + 1)
      /\ handed[a + 1] = f.n /\ \A i \in 1..a : handed[i] = p.w.handed[i]
  <2>1. IsSeq(p.w.handed)
    BY <1>1, SeqIsSeq
  <2>2. /\ IsSeq(handed) /\ Len(handed) = a + 1
        /\ handed[a + 1] = f.n /\ \A i \in 1..a : handed[i] = p.w.handed[i]
    BY <2>1, SeqAppend
  <2>3. handed \in Seq(Nat)
    BY <1>1, <1>4
  <2> QED
    BY <2>2, <2>3, SeqFacts
<1>8. q = [p EXCEPT !.sh.fd.ack = fd, !.w.writer = writer, !.w.handed = handed]
  BY DEF Spawned, f
<1>9. fd = NewFd(p, <<"ack", Head(p.sh.txq).n>>)
  BY DEF f
<1>10. writer.at = "writing" /\ writer.frame = f /\ writer.left = f.parts
  OBVIOUS
<1>25. a \in Nat /\ a = Len(p.w.handed)
  BY <1>1
<1> HIDE DEF fd, writer, handed, q, a
<1>11. q \in States
  BY <1>0, <1>5, <1>6, <1>7, <1>8, Zenon DEF States, Shells, Worlds
<1>12. /\ q.w.request = p.w.request /\ q.w.handed = handed /\ q.w.worker = p.w.worker
       /\ q.w.writer = writer /\ q.w.response = p.w.response /\ q.w.frames = p.w.frames
       /\ q.w.futile = p.w.futile /\ q.w.got = p.w.got /\ q.w.emitted = p.w.emitted
       /\ q.w.handled = p.w.handled
  BY <1>0, <1>8 DEF States, Worlds
<1>13. /\ Queues(q) = Queues(p) /\ Switches(q) = Switches(p) /\ q.sh.callback = p.sh.callback /\ q.sh.unread = p.sh.unread
       /\ q.sh.fd["ack"] = fd /\ \A kind \in Kinds \ {"ack"} : q.sh.fd[kind] = p.sh.fd[kind]
  BY <1>0, <1>8 DEF States, Shells, Switches, Queues
<1>14. Open(q, "ack") /\ \A kind \in Kinds \ {"ack"} : Open(q, kind) <=> Open(p, kind)
  BY <1>5, <1>13 DEF Open
<1>15. Handlers(q, cs)
  <2>1. p.sh.callback["ack"] = NoCallback
    BY <1>0 DEF Watched, Handlers
  <2>2. \A kind \in Kinds \ {"ack"} : q.sh.fd[kind] = p.sh.fd[kind] /\ (Open(q, kind) <=> Open(p, kind))
    BY <1>13, <1>14
  <2> QED
    BY <1>0, <1>13, <2>1, <2>2 DEF Watched, Handlers
<1>16. Processes(q)
  <2>1. writer.left \in 1..writer.frame.parts
    BY <1>4, <1>10
  <2>2. "data" \in Kinds \ {"ack"}
    BY DEF Kinds
  <2> QED
    BY <1>0, <1>3, <1>4, <1>7, <1>10, <1>12, <1>14, <2>1, <2>2 DEF Moving, Processes
<1>17. Numbers(q)
  <2>1. InOrder(handed)
    <3> SUFFICES ASSUME NEW i \in 1..(a + 1) PROVE handed[i] = i
      BY <1>7 DEF InOrder
    <3>1. CASE i \in 1..a
      <4>1. i \in DOMAIN p.w.handed
        BY <1>1, <1>25, <3>1
      <4> QED
        BY <1>0, <1>7, <3>1, <4>1 DEF Moving, Numbers, InOrder
    <3>2. CASE i = a + 1
      BY <1>3, <1>7, <3>2
    <3> QED
      BY <1>25, <3>1, <3>2
  <2>2. Len(handed) <= 2 + MaxRequests
    <3> DEFINE l == Len(p.sh.txq)
    <3>1. a + l <= 2 + MaxRequests /\ l \in Nat \ {0}
      BY <1>0, <1>1, <1>25 DEF Queued
    <3> HIDE DEF l
    <3>2. a + 1 <= 2 + MaxRequests
      BY ONLY <1>25, <3>1, Bounds
    <3> QED
      BY <1>7, <3>2
  <2>3. Len(p.w.got) \in Nat
    BY <1>0, StateFields
  <2>4. InOrder(p.w.got) /\ Len(p.w.got) <= a
        /\ (p.w.worker.read = 1 => p.w.worker.part.n = Len(p.w.got) + 1 /\ Len(p.w.got) < a)
        /\ InOrder(p.w.handled) /\ Len(p.w.handled) <= p.w.emitted /\ p.w.emitted <= MaxMessages
    BY <1>0, <1>25 DEF Moving, Numbers
  <2>6. Len(p.w.got) <= Len(handed) /\ (Len(p.w.got) < a => Len(p.w.got) < Len(handed))
    BY <1>7, <1>25, <2>3, <2>4
  <2> QED
    BY <1>12, <2>1, <2>2, <2>4, <2>6 DEF Numbers
<1>18. Piped(q)
  <2>1. ReadsAt(q) = ReadsAt(p)
    BY <1>12 DEF ReadsAt
  <2>2. WritesAt(p) = <<a + 1, 1>>
    BY <1>0, <1>25 DEF WritesAt
  <2>3. WritesAt(q) = <<f.n, f.parts - f.parts + 1>>
    BY <1>10, <1>12 DEF WritesAt
  <2>4. WritesAt(q) = WritesAt(p)
    BY <1>3, <1>4, <2>2, <2>3
  <2>5. \A i \in DOMAIN p.w.request : p.w.request[i].n <= a => p.w.request[i].n <= Len(handed)
    <3> SUFFICES ASSUME NEW i \in DOMAIN p.w.request, p.w.request[i].n <= a
                 PROVE  p.w.request[i].n <= Len(handed)
      OBVIOUS
    <3>1. p.w.request[i] \in ChunkSet
      BY <1>0, StateFields
    <3>2. p.w.request[i].n \in Nat
      BY <3>1 DEF ChunkSet
    <3> QED
      BY <1>7, <1>25, <3>2
  <2>6. p.sh.stopping = FALSE
    BY DEF Running
  <2> QED
    BY <1>0, <1>12, <1>25, <2>1, <2>4, <2>5, <2>6 DEF Moving, Piped
<1> QED
  BY <1>7, <1>9, <1>11, <1>12, <1>13, <1>14, <1>15, <1>16, <1>17, <1>18, <1>25
     DEF Moving, Kept, Heard, q

\* What has become of a session that something was sent to.
Sent(q, p, cs) == Good(q, cs) /\ Kept(q, p) /\ (q.sh.stopping \/ Open(q, "data"))

\* The first frame of the queue is handed to a writer, or the session fails.
LEMMA DelegateGood ==
  ASSUME NEW p, NEW cs \in SUBSET calls, CallSet(calls), Running(p, cs), DrainComes(p),
         ~Open(p, "ack"), p.sh.txq # <<>>, NEW outcome \in {"spawn", "watch", "ok"}
  PROVE  Sent(Delegate(p, outcome), p, cs)
<1> DEFINE s == Spawned(p)
           fd == NewFd(p, <<"ack", Head(p.sh.txq).n>>)
<1>0. /\ CallSet(cs) /\ p \in States /\ Watched(p, cs) /\ Moving(p) /\ Queued(p) /\ Coming(p)
      /\ (p.sh.disabled <=> p.sh.failures = 2) /\ ~p.sh.disabled
      /\ p.w.futile <= p.sh.failures + 1 /\ p.sh.stopping = FALSE
      /\ ~p.sh.unread /\ (p.sh.unread => p.sh.stopping)
  BY FewerCalls, RunningGood DEF Running, Common, Watched
<1>1. /\ s \in States /\ Handlers(s, cs) /\ Moving(s)
      /\ s.sh.fd["ack"] = fd /\ Open(s, "ack")
      /\ \A kind \in Kinds \ {"ack"} : Open(s, kind) <=> Open(p, kind)
      /\ s.sh.callback = p.sh.callback /\ s.sh.unread = p.sh.unread /\ Switches(s) = Switches(p) /\ Queues(s) = Queues(p)
      /\ s.w.frames = p.w.frames /\ Len(s.w.handed) = Len(p.w.handed) + 1
      /\ s.w.response = p.w.response /\ s.w.futile = p.w.futile /\ Kept(s, p)
  BY <1>0, SpawnedFields
<1>2. /\ Delegate(p, "spawn") = SessionFail([p EXCEPT !.sh.tainted = TRUE])
      /\ Delegate(p, "watch") = SessionFail([s EXCEPT !.sh.tainted = TRUE])
      /\ Delegate(p, "ok") = [RegisterCallback(s, "ack", fd) EXCEPT !.sh.txq = Tail(@)]
  BY DEF Delegate, Spawned
<1> HIDE DEF s, fd
<1>3. CASE outcome = "spawn"
  <2> DEFINE q == [p EXCEPT !.sh.tainted = TRUE]
  <2>1. /\ Common(q, cs) /\ q.w = p.w /\ q.sh.stopping = p.sh.stopping
        /\ q.sh.disabled = p.sh.disabled /\ q.sh.failures = p.sh.failures
    BY <1>0, TaintedCommon DEF Watched
  <2>2. Delegate(p, outcome) = SessionFail(q)
    BY <1>2, <1>3
  <2> HIDE DEF q
  <2>3. /\ Good(SessionFail(q), cs) /\ Heard(SessionFail(q)) = Heard(q)
        /\ SessionFail(q).sh.stopping
    BY <1>0, <2>1, SessionFailGood
  <2> QED
    BY <2>1, <2>2, <2>3 DEF Sent, Kept, Heard
<1>4. CASE outcome = "watch"
  <2> DEFINE q == [s EXCEPT !.sh.tainted = TRUE]
  <2>0. /\ s.sh.disabled = p.sh.disabled /\ s.sh.failures = p.sh.failures
        /\ s.sh.stopping = p.sh.stopping /\ (s.sh.unread => s.sh.stopping)
    BY <1>0, <1>1 DEF Switches
  <2>1. /\ Common(q, cs) /\ q.w = s.w /\ q.sh.stopping = s.sh.stopping
        /\ q.sh.disabled = s.sh.disabled /\ q.sh.failures = s.sh.failures
    BY <1>0, <1>1, <2>0, TaintedCommon
  <2>2. Delegate(p, outcome) = SessionFail(q)
    BY <1>2, <1>4
  <2> HIDE DEF q
  <2>3. /\ Good(SessionFail(q), cs) /\ Heard(SessionFail(q)) = Heard(q)
        /\ SessionFail(q).sh.stopping
    BY <1>0, <1>1, <2>0, <2>1, SessionFailGood
  <2> QED
    BY <1>1, <2>1, <2>2, <2>3 DEF Sent, Kept, Heard
<1>5. CASE outcome = "ok"
  <2> DEFINE r == RegisterCallback(s, "ack", s.sh.fd["ack"])
             q == [r EXCEPT !.sh.txq = Tail(@)]
             t == Tail(p.sh.txq)
  <2>1. Delegate(p, outcome) = q
    BY <1>1, <1>2, <1>5
  <2>2. \A other \in Kinds : ~s.sh.tainted /\ other # "ack" /\ Open(s, other) =>
                               s.sh.callback[other] # NoCallback
    <3>1. s.sh.tainted = p.sh.tainted
      BY <1>1 DEF Switches
    <3> QED
      BY <1>0, <1>1, <3>1 DEF Watched, Registered
  <2>3. /\ Watched(r, cs) /\ r.w = s.w /\ Switches(r) = Switches(s) /\ Queues(r) = Queues(s)
        /\ \A other \in Kinds : Open(r, other) <=> Open(s, other)
    BY <1>1, <2>2, RegisterFields DEF Kinds
  <2> HIDE DEF r
  <2>4. r \in States /\ r.sh.txq = p.sh.txq /\ r.sh.rx = p.sh.rx
    BY <1>1, <2>3 DEF Watched, Queues
  <2>5. /\ t \in Seq(Frames) /\ Len(t) = Len(p.sh.txq) - 1 /\ Len(p.sh.txq) \in Nat \ {0}
        /\ \A i \in DOMAIN t : t[i] = p.sh.txq[i + 1] /\ i + 1 \in DOMAIN p.sh.txq /\ i \in Nat
    <3>1. p.sh.txq \in Seq(Frames) /\ IsSeq(p.sh.txq)
      BY <1>0, StateFields, SeqIsSeq
    <3>2. t \in Seq(Frames)
      BY <3>1
    <3> QED
      BY <3>1, <3>2, SeqTail, TailDomain
  <2>6. q = [r EXCEPT !.sh.txq = t]
    BY <2>4
  <2> HIDE DEF q, t
  <2>7. q \in States
    BY <2>4, <2>5, <2>6, Zenon DEF States, Shells
  <2>8. /\ q.w = r.w /\ Switches(q) = Switches(r) /\ q.sh.txq = t /\ q.sh.rx = r.sh.rx
        /\ q.sh.fd = r.sh.fd /\ q.sh.callback = r.sh.callback /\ q.sh.unread = r.sh.unread /\ q.sh.tainted = r.sh.tainted
    BY <2>4, <2>6 DEF States, Shells, Switches
  <2>9. Watched(q, cs) /\ \A kind \in Kinds : Open(q, kind) <=> Open(r, kind)
    BY <2>3, <2>7, <2>8, SameWatched
  <2>10. /\ q.w = s.w /\ Switches(q) = Switches(p) /\ q.sh.rx = p.sh.rx
         /\ \A kind \in Kinds : Open(q, kind) <=> Open(s, kind)
    BY <1>1, <2>3, <2>4, <2>8, <2>9
  <2>11. Moving(q)
    <3>1. q.sh.stopping = s.sh.stopping
      BY <1>1, <2>10 DEF Switches
    <3> QED
      BY <1>1, <2>10, <3>1, SameMoving DEF Heard, Kinds
  <2>12. Common(q, cs)
    BY <1>0, <2>9, <2>10, <2>11 DEF Common, Switches
  <2>13. Queued(q)
    <3> DEFINE a == Len(p.w.handed)
               l == Len(p.sh.txq)
    <3>0. a \in Nat /\ l \in Nat \ {0}
      BY <1>0, <2>5, StateFields
    <3>1. /\ \A i \in DOMAIN p.sh.txq : p.sh.txq[i].n = a + i
          /\ p.w.frames = a + l /\ p.w.frames <= 2 + MaxRequests
      BY <1>0 DEF Queued
    <3>2. Len(q.w.handed) = a + 1 /\ q.w.frames = p.w.frames /\ Len(t) = l - 1
      BY <1>1, <2>5, <2>10
    <3> HIDE DEF a, l
    <3>3. \A i \in DOMAIN t : t[i].n = (a + 1) + i
      <4> SUFFICES ASSUME NEW i \in DOMAIN t PROVE t[i].n = (a + 1) + i
        OBVIOUS
      <4>1. t[i] = p.sh.txq[i + 1] /\ i + 1 \in DOMAIN p.sh.txq /\ i \in Nat
        BY <2>5
      <4>2. t[i].n = a + (i + 1)
        BY <3>1, <4>1
      <4> QED
        BY ONLY <3>0, <4>1, <4>2
    <3>4. a + l = (a + 1) + (l - 1)
      BY ONLY <3>0
    <3> QED
      BY <2>8, <3>1, <3>2, <3>3, <3>4 DEF Queued
  <2>14. Coming(q)
    BY <1>0, <1>1, <2>10 DEF Coming, Kept, Heard
  <2>15. Streak(q)
    <3>1. Streak(p) /\ Open(p, "data") /\ q.w.futile = p.w.futile
      BY <1>1, <2>10 DEF Running
    <3>2. Open(q, "data")
      BY <1>1, <2>10, <3>1 DEF Kinds
    <3> QED
      BY <2>10, <3>1, <3>2 DEF Streak, Counts, Switches
  <2>16. Running(q, cs)
    BY <1>1, <2>10, <2>12, <2>13, <2>14, <2>15 DEF Running, Switches, Kinds
  <2>17. WriterComes(q) /\ DrainComes(q)
    BY <1>1, <2>10 DEF WriterComes, DrainComes, Kinds
  <2> QED
    BY <1>1, <2>1, <2>10, <2>16, <2>17, RunningGood DEF Sent, Running, Kept, Heard
<1> QED
  BY <1>3, <1>4, <1>5

\* The queue is written as far as the pipe takes it, and its rest by a writer.
LEMMA FlushGood ==
  ASSUME NEW p, NEW cs \in SUBSET calls, CallSet(calls), Running(p, cs), DrainComes(p),
         NEW outcome \in {"spawn", "watch", "ok"}
  PROVE  Sent(Flush(p, outcome), p, cs)
<1> DEFINE d == WriteDirect(p)
<1>0. CallSet(cs) /\ p.sh.stopping = FALSE
  BY FewerCalls DEF Running
<1>1. CASE p.sh.txq = <<>> \/ Busy(p)
  <2>1. Flush(p, outcome) = p
    BY <1>1 DEF Flush
  <2>2. WriterComes(p)
    BY <1>1 DEF WriterComes, Busy
  <2> QED
    BY <2>1, <2>2, RunningGood DEF Sent, Running, Kept
<1>2. CASE ~(p.sh.txq = <<>> \/ Busy(p))
  <2>1. Flush(p, outcome) = IF d.sh.txq = <<>> THEN d ELSE Delegate(d, outcome)
    BY <1>0, <1>2 DEF Flush
  <2>2. /\ Running(d, cs) /\ ~Open(d, "ack") /\ Kept(d, p)
        /\ d.sh.rx = p.sh.rx /\ (Open(d, "drain") <=> Open(p, "drain"))
    BY <1>0, <1>2, WriteDirectRunning DEF Busy
  <2> HIDE DEF d
  <2>3. DrainComes(d)
    BY <2>2 DEF DrainComes
  <2>4. CASE d.sh.txq = <<>>
    BY <2>1, <2>2, <2>3, <2>4, RunningGood DEF Sent, Running, WriterComes
  <2>5. CASE d.sh.txq # <<>>
    BY <2>1, <2>2, <2>3, <2>5, DelegateGood DEF Sent, Kept
  <2> QED
    BY <2>4, <2>5
<1> QED
  BY <1>1, <1>2

\* The frame of the writer is written, its session has failed, or neither yet.
LEMMA ConsumeAckGood ==
  ASSUME NEW p, NEW cs \in SUBSET calls, CallSet(calls), Running(p, cs),
         WriterComes(p), DrainComes(p), NEW outcome \in {"spawn", "watch", "ok"}
  PROVE  Sent(ConsumeAck(p, outcome), p, cs)
<1>0. /\ CallSet(cs) /\ p.sh.stopping = FALSE /\ Common(p, cs) /\ Watched(p, cs) /\ Moving(p)
      /\ ~p.sh.disabled /\ p.w.futile <= p.sh.failures + 1 /\ Good(p, cs)
  BY FewerCalls, RunningGood DEF Running, Common
<1>1. CASE Open(p, "ack") /\ PollWriter(p) = "acked"
  <2> DEFINE q == ReleaseWriter(p)
  <2>1. ConsumeAck(p, outcome) = Flush(q, outcome)
    BY <1>0, <1>1 DEF ConsumeAck
  <2>2. /\ Watched(q, cs) /\ Moving(q)
        /\ Switches(q) = Switches(p) /\ Queues(q) = Queues(p)
        /\ q.w = [p.w EXCEPT !.writer = NoWriter]
        /\ (Open(q, "data") <=> Open(p, "data")) /\ (Open(q, "drain") <=> Open(p, "drain"))
    <3>1. p.w.writer.at = "acked" \/ (p.w.writer.at = "dead" /\ p.sh.stopping)
      <4>1. p.w.writer.at = "acked"
        BY <1>1 DEF PollWriter
      <4> QED
        BY <4>1, Zenon
    <3>2. CallSet(cs) /\ Watched(p, cs) /\ Moving(p)
      BY <1>0
    <3> QED
      BY ONLY <3>1, <3>2, ReleaseWriterFields
  <2> HIDE DEF q
  <2>3. /\ q.w.handed = p.w.handed /\ q.w.frames = p.w.frames /\ q.w.response = p.w.response
        /\ q.w.futile = p.w.futile /\ Kept(q, p) /\ q.w.handled = p.w.handled
        /\ q.w.emitted = p.w.emitted
    BY <1>0, <2>2 DEF Watched, States, Worlds, Kept, Heard
  <2>4. Common(q, cs)
    BY <1>0, <2>2 DEF Common, Switches
  <2>5. Queued(q)
    BY <2>2, <2>3 DEF Running, Queued, Queues
  <2>6. Coming(q)
    BY <2>2, <2>3 DEF Running, Coming, Queues
  <2>7. Streak(q)
    BY <2>2, <2>3 DEF Running, Streak, Counts, Switches
  <2>8. Running(q, cs)
    BY <2>2, <2>4, <2>5, <2>6, <2>7 DEF Running, Switches
  <2>9. DrainComes(q)
    BY <2>2 DEF DrainComes, Queues
  <2> QED
    BY <2>1, <2>3, <2>8, <2>9, FlushGood DEF Sent, Kept
<1>2. CASE Open(p, "ack") /\ PollWriter(p) = "dead"
  <2>1. ConsumeAck(p, outcome) = SessionFail(p)
    BY <1>0, <1>2 DEF ConsumeAck
  <2> QED
    BY <1>0, <2>1, SessionFailGood DEF Sent, Kept
<1>3. CASE ~(Open(p, "ack") /\ PollWriter(p) \in {"acked", "dead"})
  <2>1. ConsumeAck(p, outcome) = p
    BY <1>3 DEF ConsumeAck
  <2> QED
    BY <1>0, <2>1 DEF Sent, Running, Kept
<1> QED
  BY <1>1, <1>2, <1>3

-----------------------------------------------------------------------------
(***************************************************************************)
(* Reading.  The worker is told nothing, and may have been heard.          *)
(***************************************************************************)
Listened(q, p) ==
  q.w.got = p.w.got /\ q.w.emitted = p.w.emitted /\ Len(p.w.handled) <= Len(q.w.handled)

Buffered(p) == Len(p.sh.rx) >= Budget
All(p) == IF Buffered(p) THEN p.sh.rx ELSE p.sh.rx \o p.w.response
Messages(p) == SubSeq(All(p), 1, IF Len(All(p)) < Budget THEN Len(All(p)) ELSE Budget)
Taken(p) ==
  Handled([p EXCEPT !.w.response = IF Buffered(p) THEN @ ELSE <<>>,
                    !.sh.rx = SubSeq(All(p), Budget + 1, Len(All(p)))],
          Messages(p))

\* A part of a sequence.
LEMMA SubSeqFields ==
  ASSUME NEW S, NEW s \in Seq(S), NEW a \in Nat \ {0}, NEW b \in Nat, b <= Len(s)
  PROVE  /\ SubSeq(s, a, b) \in Seq(S)
         /\ Len(SubSeq(s, a, b)) = IF b < a THEN 0 ELSE b - a + 1
         /\ \A i \in 1..Len(SubSeq(s, a, b)) :
              SubSeq(s, a, b)[i] = s[a + i - 1] /\ a + i - 1 \in 1..Len(s)
OBVIOUS

\* One sequence behind another.
LEMMA ConcatFields ==
  ASSUME NEW S, NEW s \in Seq(S), NEW t \in Seq(S)
  PROVE  /\ s \o t \in Seq(S) /\ Len(s \o t) = Len(s) + Len(t)
         /\ \A i \in 1..Len(s) : (s \o t)[i] = s[i]
         /\ \A i \in 1..Len(t) : (s \o t)[Len(s) + i] = t[i]
BY SeqIsSeq, SeqConcat

\* The messages of a wakeup continue what was handled, and leave the rest.
LEMMA MessagesFields ==
  ASSUME NEW p, p \in States, Coming(p)
  PROVE  LET ms == Messages(p)
             rest == SubSeq(All(p), Budget + 1, Len(All(p)))
             left == IF Buffered(p) THEN p.w.response ELSE <<>>
             h == Len(p.w.handled)
         IN  /\ ms \in Seq(Nat) /\ rest \in Seq(Nat) /\ left \in Seq(Nat)
             /\ \A i \in 1..Len(ms) : ms[i] = h + i
             /\ \A i \in DOMAIN rest : rest[i] = (h + Len(ms)) + i
             /\ \A i \in DOMAIN left : left[i] = (h + Len(ms)) + Len(rest) + i
             /\ p.w.emitted = (h + Len(ms)) + Len(rest) + Len(left)
             /\ Len(All(p)) \in Nat /\ (Len(All(p)) < Budget => rest = <<>>)
<1> DEFINE h == Len(p.w.handled)
           r == Len(p.sh.rx)
           v == Len(p.w.response)
           all == All(p)
           n == IF Len(all) < Budget THEN Len(all) ELSE Budget
           ms == SubSeq(all, 1, n)
           rest == SubSeq(all, Budget + 1, Len(all))
           left == IF Buffered(p) THEN p.w.response ELSE <<>>
<1>1. /\ p.sh.rx \in Seq(Nat) /\ p.w.response \in Seq(Nat) /\ p.w.handled \in Seq(Nat)
      /\ h \in Nat /\ r \in Nat /\ v \in Nat /\ Budget \in Nat \ {0}
  BY StateFields, Bounds
<1>2. /\ \A i \in 1..r : p.sh.rx[i] = h + i
      /\ \A i \in 1..v : p.w.response[i] = h + r + i
      /\ p.w.emitted = h + r + v
  <2>1. DOMAIN p.sh.rx = 1..r /\ DOMAIN p.w.response = 1..v
    BY <1>1
  <2> QED
    BY <2>1 DEF Coming
<1>3. Messages(p) = ms
  BY DEF Messages
<1>4. IsSeq(p.sh.rx) /\ IsSeq(p.w.response)
  BY <1>1, SeqIsSeq
<1>5. /\ all \in Seq(Nat) /\ left \in Seq(Nat)
      /\ Len(all) = IF r >= Budget THEN r ELSE r + v
      /\ Len(left) = IF r >= Budget THEN v ELSE 0
      /\ \A i \in 1..Len(all) : all[i] = h + i
      /\ \A i \in 1..Len(left) : r >= Budget /\ left[i] = h + r + i
  <2>1. CASE r >= Budget
    <3>1. all = p.sh.rx /\ left = p.w.response
      BY <2>1 DEF All, Buffered
    <3> HIDE DEF all, left
    <3> QED
      BY <1>1, <1>2, <2>1, <3>1
  <2>2. CASE ~(r >= Budget)
    <3>1. all = p.sh.rx \o p.w.response /\ left = <<>>
      BY <2>2 DEF All, Buffered
    <3> HIDE DEF all, left
    <3>2. all \in Seq(Nat) /\ left \in Seq(Nat) /\ Len(left) = 0
      BY <1>1, <3>1
    <3>3. /\ Len(all) = r + v
          /\ \A i \in 1..r : all[i] = p.sh.rx[i]
          /\ \A i \in 1..v : all[r + i] = p.w.response[i]
      <4> DEFINE x == p.sh.rx
                 y == p.w.response
      <4>1. x \in Seq(Nat) /\ y \in Seq(Nat)
        BY <1>1
      <4>2. all = x \o y /\ Len(x) = r /\ Len(y) = v
        BY <3>1
      <4> HIDE DEF x, y, r, v
      <4>3. Len(x \o y) = Len(x) + Len(y)
        BY ONLY <4>1, ConcatFields
      <4>4. \A i \in 1..Len(x) : (x \o y)[i] = x[i]
        BY ONLY <4>1, ConcatFields
      <4>5. \A i \in 1..Len(y) : (x \o y)[Len(x) + i] = y[i]
        BY ONLY <4>1, ConcatFields
      <4> QED
        BY ONLY <4>2, <4>3, <4>4, <4>5 DEF x, y
    <3> HIDE DEF h, r, v
    <3>4. \A i \in 1..(r + v) : all[i] = h + i
      <4> SUFFICES ASSUME NEW i \in 1..(r + v) PROVE all[i] = h + i
        OBVIOUS
      <4>1. CASE i \in 1..r
        BY <1>2, <3>3, <4>1
      <4>2. CASE i \notin 1..r
        <5> DEFINE j == i - r
        <5>1. j \in 1..v /\ r + j = i /\ j \in Nat
          BY ONLY <1>1, <4>2, i \in 1..(r + v)
        <5> HIDE DEF j
        <5>2. all[r + j] = h + r + j
          BY <1>2, <3>3, <5>1
        <5>3. h + r + j = h + i
          BY ONLY <1>1, <5>1
        <5> QED
          BY <5>1, <5>2, <5>3
      <4> QED
        BY <4>1, <4>2
    <3> QED
      BY <2>2, <3>2, <3>3, <3>4
  <2> QED
    BY <2>1, <2>2
<1> HIDE DEF all, left, h, r, v
<1>14. all \in Seq(Nat)
  BY ONLY <1>5
<1>15. Len(all) \in Nat
  BY ONLY <1>14
<1>6. /\ Len(all) \in Nat /\ n \in Nat /\ n <= Len(all) /\ n <= Budget
      /\ (Len(all) < Budget => n = Len(all)) /\ (Len(all) >= Budget => n = Budget)
  <2> DEFINE l == Len(all)
  <2>1. l \in Nat
    BY <1>15
  <2> HIDE DEF l
  <2> QED
    BY <1>1, <2>1 DEF l
<1> HIDE DEF n
<1>7. /\ ms \in Seq(Nat) /\ Len(ms) = n
      /\ \A i \in 1..n : ms[i] = all[i] /\ i \in 1..Len(all)
  <2>1. 1 \in Nat \ {0} /\ Len(all) \in Nat /\ n \in Nat /\ n <= Len(all) /\ all \in Seq(Nat)
    BY ONLY <1>6, <1>14
  <2>2. /\ ms \in Seq(Nat) /\ Len(ms) = IF n < 1 THEN 0 ELSE n - 1 + 1
        /\ \A i \in 1..Len(ms) : ms[i] = all[1 + i - 1] /\ 1 + i - 1 \in 1..Len(all)
    BY ONLY <2>1, SubSeqFields
  <2> HIDE DEF ms
  <2>3. Len(ms) = n
    BY ONLY <2>1, <2>2
  <2>4. \A i \in 1..n : 1 + i - 1 = i
    BY ONLY <2>1
  <2> QED
    BY ONLY <2>2, <2>3, <2>4
<1>8. /\ rest \in Seq(Nat) /\ Len(rest) = IF Len(all) < Budget THEN 0 ELSE Len(all) - Budget
      /\ \A i \in 1..Len(rest) : rest[i] = all[Budget + i] /\ Budget + i \in 1..Len(all)
      /\ DOMAIN rest = 1..Len(rest) /\ (Len(all) < Budget => rest = <<>>)
  <2> DEFINE l == Len(all)
             b == Budget + 1
  <2>1. l \in Nat /\ l <= l /\ all \in Seq(Nat) /\ b \in Nat \ {0} /\ b = Budget + 1
    BY ONLY <1>1, <1>14, <1>15
  <2>2. rest = SubSeq(all, b, l) /\ l = Len(all)
    OBVIOUS
  <2> HIDE DEF l, b, rest
  <2>3. /\ rest \in Seq(Nat) /\ Len(rest) = IF l < b THEN 0 ELSE l - b + 1
        /\ \A i \in 1..Len(rest) : rest[i] = all[b + i - 1] /\ b + i - 1 \in 1..l
    <3>1. /\ SubSeq(all, b, l) \in Seq(Nat)
          /\ Len(SubSeq(all, b, l)) = IF l < b THEN 0 ELSE l - b + 1
          /\ \A i \in 1..Len(SubSeq(all, b, l)) :
               SubSeq(all, b, l)[i] = all[b + i - 1] /\ b + i - 1 \in 1..Len(all)
      <4>1. l <= Len(all)
        BY <2>1, <2>2
      <4> QED
        BY ONLY <2>1, <4>1, SubSeqFields, SMTT(60)
    <3> QED
      BY ONLY <2>2, <3>1
  <2>4. Len(rest) = IF l < Budget THEN 0 ELSE l - Budget
    BY ONLY <1>1, <2>1, <2>3
  <2>5. \A i \in 1..Len(rest) : b + i - 1 = Budget + i
    BY ONLY <1>1, <2>1, <2>3
  <2>6. DOMAIN rest = 1..Len(rest) /\ (Len(rest) = 0 => rest = <<>>)
    BY ONLY <2>3
  <2> QED
    BY ONLY <2>2, <2>3, <2>4, <2>5, <2>6
<1> HIDE DEF ms, rest
<1>9. \A i \in 1..Len(ms) : ms[i] = h + i
  BY <1>5, <1>7
<1>10. \A i \in DOMAIN rest : rest[i] = (h + Len(ms)) + i
  <2> SUFFICES ASSUME NEW i \in 1..Len(rest) PROVE rest[i] = (h + Len(ms)) + i
    BY <1>8
  <2>1. rest[i] = h + (Budget + i)
    BY <1>5, <1>8
  <2>2. Len(all) >= Budget
    BY <1>1, <1>6, <1>8
  <2>3. Len(ms) = Budget
    BY <1>6, <1>7, <2>2
  <2>4. i \in Nat
    BY <1>8
  <2>5. h + (Budget + i) = (h + Budget) + i
    BY ONLY <1>1, <2>4
  <2> QED
    BY <2>1, <2>3, <2>5
<1>11. p.w.emitted = (h + Len(ms)) + Len(rest) + Len(left)
  <2>1. CASE r >= Budget
    <3>1. Len(all) = r /\ Len(ms) = Budget /\ Len(rest) = r - Budget /\ Len(left) = v
      BY <1>1, <1>5, <1>6, <1>7, <1>8, <2>1
    <3> QED
      BY <1>1, <1>2, <3>1
  <2>2. CASE ~(r >= Budget)
    <3>1. Len(all) = r + v /\ Len(left) = 0 /\ Len(ms) = n
      BY <1>5, <1>7, <2>2
    <3>2. CASE r + v < Budget
      <4>1. Len(ms) = r + v /\ Len(rest) = 0
        BY <1>6, <1>8, <3>1, <3>2
      <4> QED
        BY <1>1, <1>2, <3>1, <4>1
    <3>3. CASE ~(r + v < Budget)
      <4>1. Len(ms) = Budget /\ Len(rest) = (r + v) - Budget
        BY <1>1, <1>6, <1>8, <3>1, <3>3
      <4> QED
        BY <1>1, <1>2, <3>1, <4>1
    <3> QED
      BY <3>2, <3>3
  <2> QED
    BY <2>1, <2>2
<1>12. \A i \in DOMAIN left : left[i] = (h + Len(ms)) + Len(rest) + i
  <2> SUFFICES ASSUME NEW i \in 1..Len(left) PROVE left[i] = (h + Len(ms)) + Len(rest) + i
    BY <1>5
  <2>1. r >= Budget /\ left[i] = h + r + i
    BY <1>5
  <2>2. Len(all) = r /\ Len(ms) = Budget /\ Len(rest) = r - Budget
    BY <1>1, <1>5, <1>6, <1>7, <1>8, <2>1
  <2>3. i \in Nat
    BY <1>5
  <2>4. (h + Budget) + (r - Budget) + i = h + r + i
    BY ONLY <1>1, <2>3
  <2> QED
    BY <2>1, <2>2, <2>4
<1>13. /\ ms \in Seq(Nat) /\ rest \in Seq(Nat) /\ left \in Seq(Nat)
       /\ Len(all) \in Nat /\ (Len(all) < Budget => rest = <<>>)
  BY <1>5, <1>6, <1>7, <1>8
<1> QED
  BY <1>3, <1>9, <1>10, <1>11, <1>12, <1>13 DEF all, left, rest, h

\* The messages of a wakeup are handled.
LEMMA TakenRunning ==
  ASSUME NEW p, NEW cs, CallSet(cs), Running(p, cs)
  PROVE  LET q == Taken(p)
         IN  /\ Running(q, cs) /\ Listened(q, p) /\ q.sh.txq = p.sh.txq /\ q.w.worker = p.w.worker
             /\ \A kind \in Kinds : Open(q, kind) <=> Open(p, kind)
             /\ Len(All(p)) < Budget => q.sh.rx = <<>>
<1> DEFINE ms == Messages(p)
           rest == SubSeq(All(p), Budget + 1, Len(All(p)))
           left == IF Buffered(p) THEN p.w.response ELSE <<>>
           handled == p.w.handled \o ms
           h == Len(p.w.handled)
           ends == \E i \in DOMAIN ms : ms[i] > 2
           failures == IF ends THEN 0 ELSE p.sh.failures
           futile == IF ends THEN 0 ELSE p.w.futile
           o == [p EXCEPT !.w.response = left, !.sh.rx = rest]
           q == Taken(p)
<1>0. /\ p \in States /\ Watched(p, cs) /\ Moving(p) /\ Coming(p) /\ p.sh.disabled \in BOOLEAN
      /\ ~p.sh.disabled /\ p.w.futile <= p.sh.failures + 1 /\ (p.sh.disabled <=> p.sh.failures = 2)
      /\ Open(p, "data") /\ p.sh.stopping = FALSE
      /\ p.sh.after = "nothing" /\ p.sh.doing = "nothing" /\ (p.sh.unread => p.sh.stopping)
  BY RunningGood, StateFields DEF Running, Common, Watched
<1>1. /\ p.w.handled \in Seq(Nat) /\ h \in Nat /\ p.sh.failures \in 0..2 /\ p.w.futile \in Nat
      /\ p.w.response \in Seq(Nat)
  BY <1>0, StateFields
<1>2. /\ ms \in Seq(Nat) /\ rest \in Seq(Nat) /\ left \in Seq(Nat)
      /\ \A i \in 1..Len(ms) : ms[i] = h + i
      /\ \A i \in DOMAIN rest : rest[i] = (h + Len(ms)) + i
      /\ \A i \in DOMAIN left : left[i] = (h + Len(ms)) + Len(rest) + i
      /\ p.w.emitted = (h + Len(ms)) + Len(rest) + Len(left)
      /\ (Len(All(p)) < Budget => rest = <<>>)
  BY <1>0, MessagesFields
<1>3. o \in States /\ o.w.handled = p.w.handled /\ o.sh.failures = p.sh.failures
      /\ o.w.futile = p.w.futile
  <2>1. o.w.handled = p.w.handled /\ o.sh.failures = p.sh.failures /\ o.w.futile = p.w.futile
    BY <1>0 DEF States, Shells, Worlds
  <2> HIDE DEF rest, left
  <2>2. o \in States
    BY <1>0, <1>2, Zenon DEF States, Shells, Worlds
  <2> QED
    BY <2>1, <2>2
<1>4. q = [o EXCEPT !.w.handled = o.w.handled \o ms,
                    !.sh.failures = IF ends THEN 0 ELSE o.sh.failures,
                    !.w.futile = IF ends THEN 0 ELSE o.w.futile]
  <2>1. q = Handled(o, ms)
    BY DEF Taken, Messages
  <2> HIDE DEF o, ms, q
  <2> QED
    BY <2>1 DEF Handled
<1> HIDE DEF ms, q, ends, h
<1>5. q = [o EXCEPT !.w.handled = handled, !.sh.failures = failures, !.w.futile = futile]
  BY <1>3, <1>4
<1>6. /\ handled \in Seq(Nat) /\ Len(handled) = h + Len(ms) /\ Len(ms) \in Nat
  <2>1. p.w.handled \in Seq(Nat) /\ ms \in Seq(Nat)
    BY <1>1, <1>2
  <2>2. handled \in Seq(Nat)
    BY ONLY <2>1
  <2>3. Len(handled) = h + Len(ms)
    BY ONLY <2>1 DEF h
  <2> QED
    BY ONLY <2>1, <2>2, <2>3
<1>7. InOrder(handled)
  <2> DEFINE x == p.w.handled
  <2>1. x \in Seq(Nat) /\ ms \in Seq(Nat) /\ h = Len(x) /\ handled = x \o ms
    BY <1>1, <1>2 DEF h
  <2>2. \A i \in 1..h : x[i] = i
    BY <1>0, <2>1 DEF Moving, Numbers, InOrder
  <2> HIDE DEF x, handled
  <2>3. \A i \in 1..Len(x) : (x \o ms)[i] = x[i]
    BY ONLY <2>1, ConcatFields
  <2>4. \A i \in 1..Len(ms) : (x \o ms)[Len(x) + i] = ms[i]
    BY ONLY <2>1, ConcatFields
  <2> SUFFICES ASSUME NEW i \in 1..(h + Len(ms)) PROVE handled[i] = i
    BY <1>6 DEF InOrder
  <2>5. CASE i \in 1..h
    BY <2>1, <2>2, <2>3, <2>5
  <2>6. CASE i \notin 1..h
    <3> DEFINE j == i - h
    <3>1. j \in 1..Len(ms) /\ h + j = i
      BY ONLY <1>1, <1>6, <2>6, i \in 1..(h + Len(ms))
    <3> HIDE DEF j
    <3>2. handled[h + j] = ms[j] /\ ms[j] = h + j
      BY <1>2, <2>1, <2>4, <3>1
    <3> QED
      BY <3>1, <3>2
  <2> QED
    BY <2>5, <2>6
<1>8. failures \in 0..2 /\ futile \in Nat /\ futile <= failures + 1 /\ failures # 2
  BY <1>0, <1>1
<1> HIDE DEF o, rest, left, handled, failures, futile
<1>9. q \in States
  BY <1>3, <1>5, <1>6, <1>8, Zenon DEF States, Shells, Worlds
<1>10. /\ q.w.handled = handled /\ q.w.futile = futile /\ q.w.response = left
       /\ q.w.request = p.w.request /\ q.w.worker = p.w.worker /\ q.w.writer = p.w.writer
       /\ q.w.handed = p.w.handed /\ q.w.got = p.w.got /\ q.w.emitted = p.w.emitted
       /\ q.w.frames = p.w.frames
  <2>1. /\ o.w.response = left
        /\ o.w.request = p.w.request /\ o.w.worker = p.w.worker /\ o.w.writer = p.w.writer
        /\ o.w.handed = p.w.handed /\ o.w.got = p.w.got /\ o.w.emitted = p.w.emitted
        /\ o.w.frames = p.w.frames
    BY <1>0 DEF o, States, Worlds
  <2> QED
    BY <1>3, <1>5, <2>1 DEF States, Worlds
<1>11. /\ q.sh.failures = failures /\ q.sh.rx = rest /\ q.sh.txq = p.sh.txq
       /\ q.sh.stopping = p.sh.stopping /\ q.sh.tainted = p.sh.tainted
       /\ q.sh.disabled = p.sh.disabled /\ q.sh.doing = p.sh.doing /\ q.sh.after = p.sh.after
       /\ q.sh.fd = p.sh.fd /\ q.sh.callback = p.sh.callback /\ q.sh.unread = p.sh.unread
  <2>1. /\ o.sh.rx = rest /\ o.sh.txq = p.sh.txq
        /\ o.sh.stopping = p.sh.stopping /\ o.sh.tainted = p.sh.tainted
        /\ o.sh.disabled = p.sh.disabled /\ o.sh.doing = p.sh.doing /\ o.sh.after = p.sh.after
        /\ o.sh.fd = p.sh.fd /\ o.sh.callback = p.sh.callback /\ o.sh.unread = p.sh.unread
    BY <1>0 DEF o, States, Shells
  <2> QED
    BY <1>3, <1>5, <2>1 DEF States, Shells
<1>12. Watched(q, cs) /\ \A kind \in Kinds : Open(q, kind) <=> Open(p, kind)
  BY <1>0, <1>9, <1>11, SameWatched
<1>13. Coming(q)
  BY <1>2, <1>6, <1>10, <1>11 DEF Coming
<1>14. Moving(q)
  <2>1. Processes(q)
    BY <1>0, <1>10, <1>12 DEF Moving, Processes, Kinds
  <2>2. ReadsAt(q) = ReadsAt(p) /\ WritesAt(q) = WritesAt(p)
    BY <1>10 DEF ReadsAt, WritesAt
  <2>3. Piped(q)
    BY <1>0, <1>10, <1>11, <2>2 DEF Moving, Piped
  <2>4. Len(handled) <= p.w.emitted
    <3>1. Len(rest) \in Nat /\ Len(left) \in Nat
      BY <1>2
    <3> QED
      BY <1>1, <1>2, <1>6, <3>1
  <2>5. Numbers(q)
    BY <1>0, <1>7, <1>10, <2>4 DEF Moving, Numbers
  <2> QED
    BY <2>1, <2>3, <2>5 DEF Moving
<1>15. Common(q, cs)
  BY <1>0, <1>8, <1>11, <1>12, <1>14 DEF Common
<1>16. Streak(q)
  <2>1. Open(q, "data")
    BY <1>0, <1>12 DEF Kinds
  <2> QED
    BY <1>0, <1>8, <1>10, <1>11, <2>1 DEF Streak, Counts
<1>17. Queued(q)
  BY <1>10, <1>11 DEF Running, Queued
<1>18. Running(q, cs)
  BY <1>0, <1>11, <1>12, <1>13, <1>15, <1>16, <1>17 DEF Running, Kinds
<1>19. Listened(q, p)
  BY <1>1, <1>6, <1>10 DEF Listened, h
<1> QED
  BY <1>2, <1>10, <1>11, <1>12, <1>18, <1>19 DEF q, rest

\* The rest is come back to, or the session fails.
LEMMA ArmDrainGood ==
  ASSUME NEW p, NEW cs \in SUBSET calls, CallSet(calls), Running(p, cs), WriterComes(p),
         NEW outcome \in {"spawn", "watch", "ok"}
  PROVE  Sent(ArmDrain(p, outcome), p, cs)
<1>0. /\ CallSet(cs) /\ p \in States /\ Watched(p, cs) /\ Common(p, cs) /\ Moving(p)
      /\ (p.sh.disabled <=> p.sh.failures = 2) /\ ~p.sh.disabled /\ p.w.futile <= p.sh.failures + 1
      /\ ~p.sh.stopping /\ Open(p, "data") /\ ~p.sh.unread
  BY FewerCalls, RunningGood DEF Running, Common, Watched
<1>1. CASE Open(p, "drain")
  <2>1. ArmDrain(p, outcome) = p /\ DrainComes(p)
    BY <1>1 DEF ArmDrain, DrainComes
  <2> QED
    BY <1>0, <2>1, RunningGood DEF Sent, Kept
<1>2. CASE ~Open(p, "drain") /\ outcome # "ok"
  <2>1. ArmDrain(p, outcome) = SessionFail(p)
    BY <1>2 DEF ArmDrain
  <2> QED
    BY <1>0, <2>1, SessionFailGood DEF Sent, Kept
<1>3. CASE ~Open(p, "drain") /\ outcome = "ok"
  <2> DEFINE fd == NewFd(p, <<"drain", Len(p.w.handled)>>)
             s == [p EXCEPT !.sh.fd.drain = fd]
             q == RegisterCallback(s, "drain", s.sh.fd["drain"])
  <2>1. fd \in Fds /\ fd # NoFd
    <3>1. <<"drain", Len(p.w.handled)>> \in (Kinds \cup {"none"}) \X Nat /\ "drain" \in Kinds
      BY <1>0, StateFields DEF Kinds
    <3> QED
      BY <1>0, <1>3, <3>1, NewFdType
  <2>2. ArmDrain(p, outcome) = RegisterCallback(s, "drain", fd)
    BY <1>3 DEF ArmDrain
  <2> HIDE DEF fd
  <2>3. /\ s.w = p.w /\ Switches(s) = Switches(p) /\ Queues(s) = Queues(p)
        /\ s.sh.callback = p.sh.callback /\ s.sh.unread = p.sh.unread
        /\ s.sh.fd["drain"] = fd /\ \A kind \in Kinds \ {"drain"} : s.sh.fd[kind] = p.sh.fd[kind]
    BY <1>0 DEF States, Shells, Switches, Queues, Kinds
  <2>4. s \in States
    BY <1>0, <2>1, Zenon DEF States, Shells
  <2> HIDE DEF s
  <2>5. ArmDrain(p, outcome) = q
    BY <2>2, <2>3
  <2>6. Open(s, "drain") /\ \A kind \in Kinds \ {"drain"} : Open(s, kind) <=> Open(p, kind)
    BY <2>1, <2>3 DEF Open
  <2>7. Handlers(s, cs)
    <3>1. p.sh.callback["drain"] = NoCallback
      BY <1>0, <1>3 DEF Watched, Handlers, Kinds
    <3> QED
      BY <1>0, <2>3, <2>6, <3>1 DEF Watched, Handlers
  <2>8. \A other \in Kinds : ~s.sh.tainted /\ other # "drain" /\ Open(s, other) =>
                               s.sh.callback[other] # NoCallback
    <3>1. s.sh.tainted = p.sh.tainted
      BY <2>3 DEF Switches
    <3> QED
      BY <1>0, <2>3, <2>6, <3>1 DEF Watched, Registered
  <2>9. /\ Watched(q, cs) /\ q.w = s.w /\ Switches(q) = Switches(s) /\ Queues(q) = Queues(s)
        /\ \A other \in Kinds : Open(q, other) <=> Open(s, other)
    BY <2>4, <2>6, <2>7, <2>8, RegisterFields DEF Kinds
  <2> HIDE DEF q
  <2>10. /\ q.w = p.w /\ Switches(q) = Switches(p) /\ Queues(q) = Queues(p)
         /\ Open(q, "drain") /\ (Open(q, "ack") <=> Open(p, "ack"))
         /\ (Open(q, "data") <=> Open(p, "data"))
    BY <2>3, <2>6, <2>9 DEF Kinds
  <2>11. Moving(q)
    <3>1. q.sh.stopping = p.sh.stopping
      BY <2>10 DEF Switches
    <3> QED
      BY <1>0, <2>10, <3>1, SameMoving DEF Heard
  <2>12. Common(q, cs)
    BY <1>0, <2>9, <2>10, <2>11 DEF Common, Switches
  <2>13. Running(q, cs)
    BY <2>10, <2>12 DEF Running, Switches, Queues, Queued, Coming, Streak, Counts
  <2>14. WriterComes(q) /\ DrainComes(q)
    BY <2>10 DEF WriterComes, DrainComes, Queues
  <2> QED
    BY <1>0, <2>5, <2>10, <2>13, <2>14, RunningGood DEF Sent, Kept, Heard
<1> QED
  BY <1>1, <1>2, <1>3

\* What has become of a session that was listened to.
Read_(q, p, cs) == Good(q, cs) /\ Listened(q, p)

LEMMA ReadGood ==
  ASSUME NEW p, NEW cs \in SUBSET calls, CallSet(calls), Running(p, cs), WriterComes(p),
         NEW outcome \in {"spawn", "watch", "ok"}
  PROVE  Read_(Read(p, outcome), p, cs)
<1> DEFINE t == Taken(p)
<1>0. CallSet(cs) /\ p.sh.stopping = FALSE /\ p \in States /\ Coming(p)
  BY FewerCalls DEF Running, Common, Watched
<1>1. /\ Running(t, cs) /\ Listened(t, p) /\ t.sh.txq = p.sh.txq /\ t.w.worker = p.w.worker
      /\ \A kind \in Kinds : Open(t, kind) <=> Open(p, kind)
      /\ Len(All(p)) < Budget => t.sh.rx = <<>>
  BY <1>0, TakenRunning
<1>2. WriterComes(t)
  BY <1>1 DEF WriterComes, Kinds
<1>3. Len(All(p)) \in Nat /\ Budget \in Nat
  BY <1>0, MessagesFields, Bounds
<1>4. Read(p, outcome) = CASE Len(All(p)) >= Budget -> ArmDrain(t, outcome)
                           [] Len(All(p)) < Budget ->
                                IF Eof(p) THEN SessionFail(CloseResponse(t)) ELSE t
  <2>1. Read(p, outcome) =
          CASE p.sh.stopping -> p
            [] ~p.sh.stopping /\ Len(All(p)) >= Budget -> ArmDrain(t, outcome)
            [] ~p.sh.stopping /\ Len(All(p)) < Budget ->
                 IF Eof(p) THEN SessionFail(CloseResponse(t)) ELSE t
    BY ONLY DEF Read, Taken, All, Messages, Buffered
  <2> HIDE DEF t
  <2>2. CASE Len(All(p)) >= Budget
    BY ONLY <1>0, <1>3, <2>1, <2>2
  <2>3. CASE Len(All(p)) < Budget
    BY ONLY <1>0, <1>3, <2>1, <2>3
  <2> QED
    BY ONLY <1>3, <2>2, <2>3
<1> HIDE DEF t
<1>5. CASE Len(All(p)) >= Budget
  <2>1. Read(p, outcome) = ArmDrain(t, outcome)
    BY <1>3, <1>4, <1>5
  <2>2. Sent(ArmDrain(t, outcome), t, cs)
    BY <1>1, <1>2, ArmDrainGood
  <2> QED
    BY <1>1, <2>1, <2>2 DEF Sent, Kept, Heard, Read_, Listened
<1>6. CASE Len(All(p)) < Budget /\ Eof(p)
  <2> DEFINE c == CloseResponse(t)
  <2>1. Read(p, outcome) = SessionFail(c)
    BY <1>3, <1>4, <1>6
  <2>2. /\ Common(t, cs) /\ Watched(t, cs) /\ Moving(t) /\ Eof(t)
        /\ ~t.sh.disabled /\ t.w.futile <= t.sh.failures + 1 /\ t.sh.stopping = FALSE
    BY <1>1, <1>6, RunningGood DEF Running, Common, Eof
  <2>3. /\ Watched(c, cs) /\ Moving(c) /\ c.w = t.w /\ Switches(c) = Switches(t)
    BY <1>0, <2>2, CloseResponseFields
  <2> HIDE DEF c
  <2>4. Common(c, cs)
    BY <2>2, <2>3 DEF Common, Switches
  <2>5. /\ ~c.sh.stopping /\ ~c.sh.disabled /\ c.w.futile <= c.sh.failures + 1
    BY <2>2, <2>3 DEF Switches
  <2>6. Good(SessionFail(c), cs) /\ Heard(SessionFail(c)) = Heard(c)
    BY <1>0, <2>4, <2>5, SessionFailGood
  <2> QED
    BY <1>1, <2>1, <2>3, <2>6 DEF Heard, Read_, Listened
<1>7. CASE Len(All(p)) < Budget /\ ~Eof(p)
  <2>1. Read(p, outcome) = t
    BY <1>3, <1>4, <1>7
  <2>2. DrainComes(t)
    BY <1>1, <1>7 DEF DrainComes
  <2> QED
    BY <1>1, <1>2, <2>1, <2>2, RunningGood DEF Read_
<1> QED
  BY <1>3, <1>5, <1>6, <1>7

-----------------------------------------------------------------------------
(***************************************************************************)
(* Handlers.  A session is listened to, or over.                           *)
(***************************************************************************)
Served(q, p, cs) == Good(q, cs) /\ (Listened(q, p) \/ Ended(q))

\* A session that is being ended goes on with that.
LEMMA StoppingServed ==
  ASSUME NEW p, NEW cs, CallSet(cs), Good(p, cs), p.sh.stopping, p.sh.doing = "nothing",
         NEW outcome
  PROVE  Served(StopProgress(p, outcome), p, cs)
<1> DEFINE q == StopProgress(p, outcome)
<1>1. /\ Body(q, cs) /\ q.sh.doing = p.sh.doing /\ q.sh.after = p.sh.after
      /\ q.sh.stopping => Kept(q, p) /\ (Open(q, "ack") \/ Open(q, "data"))
      /\ ~q.sh.stopping => Ended(q)
  BY StopProgressBody DEF Good
<1>2. p.sh.after = "nothing" /\ p.w.handled \in Seq(Nat)
  BY StateFields DEF Good, Body, Common, Watched, Waiting
<1> HIDE DEF q
<1>3. Good(q, cs)
  BY <1>1, <1>2 DEF Good, Waiting
<1>4. Kept(q, p) => Listened(q, p)
  BY <1>2 DEF Kept, Heard, Listened
<1> QED
  BY <1>1, <1>3, <1>4 DEF Served, q

LEMMA OnDataServed ==
  ASSUME NEW p, NEW cs \in SUBSET calls, CallSet(calls), Good(p, cs), p.sh.doing = "nothing",
         Open(p, "data"), NEW outcome, p.sh.stopping \/ outcome \in {"spawn", "watch", "ok"}
  PROVE  Served(OnData(p, outcome), p, cs)
<1>0. CallSet(cs)
  BY FewerCalls
<1>1. CASE p.sh.stopping
  BY <1>0, <1>1, StoppingServed DEF OnData
<1>2. CASE ~p.sh.stopping
  <2> DEFINE c == ConsumeAck(p, outcome)
  <2>1. OnData(p, outcome) = Read(c, outcome)
    BY <1>2 DEF OnData
  <2>0. outcome \in {"spawn", "watch", "ok"}
    BY <1>2
  <2>2. Sent(c, p, cs)
    BY <1>2, <2>0, RunningGood, ConsumeAckGood
  <2> HIDE DEF c
  <2>3. CASE c.sh.stopping
    <3>1. Read(c, outcome) = c
      BY <2>3 DEF Read
    <3>2. p.w.handled \in Seq(Nat)
      BY StateFields DEF Good, Body, Common, Watched
    <3> QED
      BY <2>1, <2>2, <3>1, <3>2 DEF Sent, Kept, Heard, Served, Listened
  <2>4. CASE ~c.sh.stopping
    <3>1. Running(c, cs) /\ WriterComes(c)
      BY <2>2, <2>4, RunningGood DEF Sent
    <3>2. Read_(Read(c, outcome), c, cs)
      BY <2>0, <3>1, ReadGood
    <3> QED
      BY <2>1, <2>2, <3>2 DEF Sent, Kept, Heard, Served, Read_, Listened
  <2> QED
    BY <2>3, <2>4
<1> QED
  BY <1>1, <1>2

LEMMA OnAckServed ==
  ASSUME NEW p, NEW cs \in SUBSET calls, CallSet(calls), Good(p, cs), p.sh.doing = "nothing",
         Open(p, "ack"), NEW outcome, p.sh.stopping \/ outcome \in {"spawn", "watch", "ok"}
  PROVE  Served(OnAck(p, outcome), p, cs)
<1>0. CallSet(cs)
  BY FewerCalls
<1>1. CASE p.sh.stopping
  BY <1>0, <1>1, StoppingServed DEF OnAck
<1>2. CASE ~p.sh.stopping
  <2>1. OnAck(p, outcome) = ConsumeAck(p, outcome)
    BY <1>2 DEF OnAck
  <2>2. Open(p, "data")
    BY <1>2 DEF Good, Body, Live, NoSession
  <2>3. Sent(ConsumeAck(p, outcome), p, cs)
    <3>1. outcome \in {"spawn", "watch", "ok"}
      BY <1>2
    <3> QED
      BY <1>2, <2>2, <3>1, RunningGood, ConsumeAckGood
  <2>4. p.w.handled \in Seq(Nat)
    BY StateFields DEF Good, Body, Common, Watched
  <2> QED
    BY <2>1, <2>3, <2>4 DEF Sent, Kept, Heard, Served, Listened
<1> QED
  BY <1>1, <1>2

LEMMA OnDrainServed ==
  ASSUME NEW p, NEW cs \in SUBSET calls, CallSet(calls), Good(p, cs), p.sh.doing = "nothing",
         Open(p, "drain"), ~p.sh.stopping, NEW outcome \in {"spawn", "watch", "ok"}
  PROVE  Served(OnDrain(p, outcome), p, cs)
<1> DEFINE c == Close(p, "drain")
<1>0. CallSet(cs) /\ "drain" \in Kinds
  BY FewerCalls DEF Kinds
<1>1. Running(p, cs) /\ WriterComes(p)
  <2>1. Open(p, "data")
    BY DEF Good, Body, Live, NoSession
  <2> QED
    BY <2>1, RunningGood
<1>2. Common(p, cs) /\ Watched(p, cs) /\ p \in States /\ Moving(p)
  BY <1>1 DEF Running, Common, Watched
<1>3. /\ c.w = p.w /\ Switches(c) = Switches(p) /\ Queues(c) = Queues(p)
      /\ (Open(c, "ack") <=> Open(p, "ack")) /\ (Open(c, "data") <=> Open(p, "data"))
      /\ Watched(c, cs)
  BY <1>0, <1>2, CloseFields, CloseWatched DEF Kinds
<1>4. OnDrain(p, outcome) = Read(c, outcome)
  BY DEF OnDrain
<1> HIDE DEF c
<1>5. Moving(c)
  <2>1. c.sh.stopping = p.sh.stopping
    BY <1>3 DEF Switches
  <2> QED
    BY <1>2, <1>3, <2>1, SameMoving DEF Heard
<1>6. Common(c, cs)
  BY <1>2, <1>3, <1>5 DEF Common, Switches
<1>7. Running(c, cs)
  BY <1>1, <1>3, <1>6 DEF Running, Switches, Queues, Queued, Coming, Streak, Counts
<1>8. WriterComes(c)
  BY <1>1, <1>3 DEF WriterComes, Queues
<1>9. Read_(Read(c, outcome), c, cs)
  BY <1>7, <1>8, ReadGood
<1> QED
  BY <1>3, <1>4, <1>9 DEF Served, Read_, Listened

\* Any handler that still is the one of its descriptor.
LEMMA HandleServed ==
  ASSUME NEW p, NEW cs \in SUBSET calls, CallSet(calls), Good(p, cs), p.sh.doing = "nothing",
         NEW call \in calls, CallbackCurrent(p, call),
         NEW outcome, p.sh.stopping \/ outcome \in {"spawn", "watch", "ok"}
  PROVE  Served(Handle(p, call.kind, outcome), p, cs)
<1>1. call.kind \in {"data", "ack", "drain"} /\ Open(p, call.kind)
      /\ (call.kind = "drain" => ~p.sh.stopping)
  BY DEF CallSet, CallbackCurrent, Kinds
<1>2. CASE call.kind = "data"
  BY <1>1, <1>2, OnDataServed DEF Handle
<1>3. CASE call.kind = "ack"
  BY <1>1, <1>3, OnAckServed DEF Handle
<1>4. CASE call.kind = "drain"
  BY <1>1, <1>4, OnDrainServed DEF Handle
<1> QED
  BY <1>1, <1>2, <1>3, <1>4

-----------------------------------------------------------------------------
(***************************************************************************)
(* The other operations of the shell.                                      *)
(***************************************************************************)
LEMMA GoodParts ==
  ASSUME NEW p, NEW cs, Good(p, cs)
  PROVE  /\ p \in States /\ Watched(p, cs) /\ Moving(p) /\ Common(p, cs) /\ Streak(p) /\ Waiting(p)
         /\ (p.sh.disabled <=> p.sh.failures = 2)
         /\ p.sh.stopping \in BOOLEAN /\ p.sh.disabled \in BOOLEAN /\ p.sh.failures \in 0..2
         /\ p.w.futile \in Nat /\ p.w.handled \in Seq(Nat)
         /\ (p.sh.stopping => Quiet(p)) /\ (~p.sh.stopping => Live(p))
<1>1. /\ p \in States /\ Watched(p, cs) /\ Moving(p) /\ Common(p, cs) /\ Streak(p) /\ Waiting(p)
      /\ (p.sh.disabled <=> p.sh.failures = 2)
      /\ (p.sh.stopping => Quiet(p)) /\ (~p.sh.stopping => Live(p))
  BY DEF Good, Body, Common, Watched
<1> QED
  BY <1>1, StateFields

\* With fewer calls to make a state is as good.
LEMMA FewerGood ==
  ASSUME NEW p, NEW cs, NEW ds \in SUBSET cs, Good(p, cs)
  PROVE  Good(p, ds)
<1>1. Watched(p, ds)
  BY DEF Good, Body, Common, Watched, Handlers
<1> QED
  BY <1>1 DEF Good, Body, Common

\* The rest of a state stays good if the shell and the count of failures do.
LEMMA SameShellGood ==
  ASSUME NEW p, NEW q \in States, NEW cs, Good(p, cs), q.sh = p.sh, q.w.futile = p.w.futile,
         Moving(q), ~p.sh.stopping => Live(q)
  PROVE  Good(q, cs)
<1>1. \A kind \in Kinds : Open(q, kind) <=> Open(p, kind)
  BY DEF Open
<1>2. "ack" \in Kinds /\ "data" \in Kinds /\ "drain" \in Kinds
  BY DEF Kinds
<1>3. Watched(q, cs)
  BY <1>1 DEF Good, Body, Common, Watched, Handlers, Registered
<1>4. Common(q, cs)
  BY <1>3 DEF Good, Body, Common
<1>5. Streak(q)
  BY <1>1, <1>2 DEF Good, Body, Streak, Counts
<1>6. p.sh.stopping => Quiet(q)
  BY <1>1, <1>2 DEF Good, Body, Quiet
<1>7. Waiting(q)
  BY <1>1, <1>2 DEF Good, Waiting
<1> QED
  BY <1>4, <1>5, <1>6, <1>7 DEF Good, Body

\* A fault is counted.
LEMMA FaultGood ==
  ASSUME NEW p, NEW cs, Good(p, cs)
  PROVE  LET q == [p EXCEPT !.w.faults = @ + 1]
         IN  /\ Good(q, cs) /\ q.sh = p.sh /\ Heard(q) = Heard(p) /\ q.w.handed = p.w.handed
             /\ q.w.futile = p.w.futile
<1> DEFINE n == p.w.faults + 1
           q == [p EXCEPT !.w.faults = n]
<1>0. p \in States /\ n \in Nat /\ Moving(p) /\ (~p.sh.stopping => Live(p))
  BY GoodParts, StateFields
<1> HIDE DEF n
<1>1. q \in States
  BY <1>0, Zenon DEF States, Worlds
<1>2. /\ q.sh = p.sh /\ Heard(q) = Heard(p)
      /\ q.w.request = p.w.request /\ q.w.response = p.w.response
      /\ q.w.worker = p.w.worker /\ q.w.writer = p.w.writer
      /\ q.w.frames = p.w.frames /\ q.w.handed = p.w.handed /\ q.w.futile = p.w.futile
      /\ q.w.got = p.w.got /\ q.w.emitted = p.w.emitted /\ q.w.handled = p.w.handled
  BY <1>0 DEF States, Worlds, Heard
<1>3. q = [p EXCEPT !.w.faults = @ + 1]
  BY DEF n
<1> HIDE DEF q
<1>4. \A kind \in Kinds : Open(q, kind) <=> Open(p, kind)
  BY <1>2 DEF Open
<1>5. Moving(q)
  BY <1>0, <1>2, <1>4, SameMoving DEF Kinds
<1>6. ~p.sh.stopping => Live(q)
  BY <1>0, <1>2, <1>4 DEF Live, Queued, Coming, WriterComes, DrainComes, NoSession, Kinds
<1>7. Good(q, cs)
  BY <1>1, <1>2, <1>5, <1>6, SameShellGood
<1> QED
  BY <1>2, <1>3, <1>7

\* A frame is queued.
LEMMA QueuedRunning ==
  ASSUME NEW p, NEW cs, Good(p, cs), ~p.sh.stopping, Open(p, "data"),
         p.w.frames < 2 + MaxRequests, NEW parts \in {1, 2}
  PROVE  LET q == [p EXCEPT !.sh.txq = Append(@, Frame(p.w.frames + 1, parts)), !.w.frames = @ + 1]
         IN  Running(q, cs) /\ DrainComes(q) /\ Heard(q) = Heard(p)
<1> DEFINE f == Frame(p.w.frames + 1, parts)
           t == Append(p.sh.txq, f)
           n == p.w.frames + 1
           q == [p EXCEPT !.sh.txq = t, !.w.frames = n]
           a == Len(p.w.handed)
           l == Len(p.sh.txq)
<1>0. /\ p \in States /\ Watched(p, cs) /\ Moving(p) /\ Running(p, cs) /\ DrainComes(p)
      /\ Common(p, cs) /\ Queued(p) /\ Coming(p) /\ Streak(p)
  BY GoodParts, RunningGood DEF Running
<1>1. /\ p.sh.txq \in Seq(Frames) /\ p.w.frames \in Nat /\ a \in Nat /\ l \in Nat
      /\ IsSeq(p.sh.txq) /\ DOMAIN p.sh.txq = 1..l
  BY <1>0, StateFields, SeqIsSeq
<1>2. n \in Nat /\ n <= 2 + MaxRequests /\ n = p.w.frames + 1
  BY <1>1, Bounds
<1>3. f \in Frames /\ f.n = n
  BY <1>1 DEF Frame, Frames
<1>4. q = [p EXCEPT !.sh.txq = Append(@, Frame(p.w.frames + 1, parts)), !.w.frames = @ + 1]
  BY <1>0 DEF States, Worlds, Shells
<1> HIDE DEF f, n
<1>5. /\ t \in Seq(Frames) /\ Len(t) = l + 1 /\ DOMAIN t = 1..(l + 1)
      /\ t[l + 1] = f /\ \A i \in 1..l : t[i] = p.sh.txq[i]
  <2>1. t \in Seq(Frames)
    BY <1>1, <1>3
  <2>2. IsSeq(t) /\ Len(t) = l + 1 /\ t[l + 1] = f /\ \A i \in 1..l : t[i] = p.sh.txq[i]
    BY <1>1, SeqAppend
  <2> QED
    BY <2>1, <2>2, SeqFacts
<1> HIDE DEF t, a, l
<1>6. q \in States
  BY <1>0, <1>2, <1>5, Zenon DEF States, Shells, Worlds
<1>7. /\ Switches(q) = Switches(p) /\ q.sh.txq = t /\ q.sh.rx = p.sh.rx
      /\ q.sh.fd = p.sh.fd /\ q.sh.callback = p.sh.callback /\ q.sh.unread = p.sh.unread /\ q.sh.tainted = p.sh.tainted
      /\ q.sh.stopping = p.sh.stopping
  BY <1>0 DEF States, Shells, Switches
<1>8. /\ Heard(q) = Heard(p) /\ q.w.frames = n
      /\ q.w.request = p.w.request /\ q.w.response = p.w.response
      /\ q.w.worker = p.w.worker /\ q.w.writer = p.w.writer
      /\ q.w.handed = p.w.handed /\ q.w.futile = p.w.futile
      /\ q.w.emitted = p.w.emitted /\ q.w.handled = p.w.handled
  BY <1>0 DEF States, Worlds, Heard
<1> HIDE DEF q
<1>9. Watched(q, cs) /\ \A kind \in Kinds : Open(q, kind) <=> Open(p, kind)
  BY <1>0, <1>6, <1>7, SameWatched
<1>10. Moving(q)
  BY <1>0, <1>7, <1>8, <1>9, SameMoving DEF Kinds
<1>11. Common(q, cs)
  BY <1>0, <1>7, <1>9, <1>10 DEF Common, Switches
<1>12. Queued(q)
  <2>1. p.w.frames = a + l /\ \A i \in 1..l : p.sh.txq[i].n = a + i
    BY <1>0, <1>1 DEF Queued, a, l
  <2>2. \A i \in 1..(l + 1) : t[i].n = a + i
    <3> SUFFICES ASSUME NEW i \in 1..(l + 1) PROVE t[i].n = a + i
      OBVIOUS
    <3>1. CASE i \in 1..l
      BY <1>5, <2>1, <3>1
    <3>2. CASE i = l + 1
      <4>1. n = a + (l + 1)
        BY ONLY <1>1, <1>2, <2>1
      <4> QED
        BY <1>3, <1>5, <3>2, <4>1
    <3> QED
      BY <1>1, <3>1, <3>2
  <2>3. n = a + (l + 1)
    BY ONLY <1>1, <1>2, <2>1
  <2> QED
    BY <1>2, <1>5, <1>7, <1>8, <2>2, <2>3 DEF Queued, a
<1>13. Coming(q) /\ DrainComes(q)
  BY <1>0, <1>7, <1>8, <1>9 DEF Coming, DrainComes, Kinds
<1>14. Streak(q)
  BY <1>0, <1>7, <1>8, <1>9 DEF Streak, Counts, Switches, Kinds
<1>15. Running(q, cs)
  BY <1>0, <1>7, <1>9, <1>11, <1>12, <1>13, <1>14 DEF Running, Switches, Kinds
<1> QED
  BY <1>4, <1>8, <1>13, <1>15

\* A session fails before it is started.
LEMMA FutileFail ==
  ASSUME NEW p, NEW cs, CallSet(cs), Good(p, cs), ~p.sh.stopping, ~p.sh.disabled,
         p.sh.doing = "nothing", ~Open(p, "data")
  PROVE  LET q == SessionFail([p EXCEPT !.w.futile = @ + 1])
         IN  Good(q, cs) /\ Heard(q) = Heard(p)
<1> DEFINE n == p.w.futile + 1
           q == [p EXCEPT !.w.futile = n]
<1>0. /\ p \in States /\ n \in Nat /\ Moving(p) /\ Common(p, cs) /\ Watched(p, cs)
      /\ n <= p.sh.failures + 1
  <2>1. p \in States /\ p.w.futile \in Nat /\ p.sh.failures \in 0..2 /\ Moving(p) /\ Streak(p)
        /\ Watched(p, cs) /\ Common(p, cs) /\ p.sh.after = "nothing"
    BY GoodParts DEF Waiting
  <2>2. p.w.futile <= p.sh.failures + 0
    BY <2>1 DEF Streak, Counts
  <2> QED
    BY <2>1, <2>2
<1>1. q = [p EXCEPT !.w.futile = @ + 1]
  BY <1>0 DEF States, Worlds
<1> HIDE DEF n
<1>2. q \in States
  BY <1>0, Zenon DEF States, Worlds
<1>3. /\ q.sh = p.sh /\ Heard(q) = Heard(p) /\ q.w.futile = n
      /\ q.w.request = p.w.request /\ q.w.worker = p.w.worker /\ q.w.writer = p.w.writer
      /\ q.w.handed = p.w.handed
  BY <1>0 DEF States, Worlds, Heard
<1> HIDE DEF q
<1>4. Watched(q, cs) /\ \A kind \in Kinds : Open(q, kind) <=> Open(p, kind)
  BY <1>0, <1>2, <1>3, SameWatched
<1>5. Moving(q)
  BY <1>0, <1>3, <1>4, SameMoving DEF Kinds
<1>6. Common(q, cs)
  BY <1>0, <1>3, <1>4, <1>5 DEF Common
<1>7. Good(SessionFail(q), cs) /\ Heard(SessionFail(q)) = Heard(q)
  BY <1>0, <1>3, <1>6, SessionFailGood
<1> QED
  BY <1>1, <1>3, <1>7

\* The descriptors of a new session, which nothing watches yet.
LEMMA OpenedFields ==
  ASSUME NEW p, NEW cs, Good(p, cs), ~p.sh.stopping, ~p.sh.disabled, p.sh.doing = "nothing",
         ~Open(p, "data"), NEW alive \in BOOLEAN, NEW nb \in BOOLEAN
  PROVE  LET q == Opened(p, alive, nb)
         IN  /\ q \in States /\ Handlers(q, cs) /\ Moving(q)
             /\ Open(q, "data") /\ ~Open(q, "ack") /\ ~Open(q, "drain")
             /\ q.sh.callback["ack"] = NoCallback /\ q.sh.callback["drain"] = NoCallback
             /\ Switches(q) = Switches(p) /\ q.sh.txq = <<>> /\ q.sh.rx = <<>>
             /\ Heard(q) = Heard(p) /\ q.w.handed = <<>> /\ q.w.handled = <<>>
             /\ q.w.emitted = 0 /\ q.w.response = <<>>
             /\ q.w.futile <= p.sh.failures + 1 /\ (p.sh.disabled <=> p.sh.failures = 2)
<1> DEFINE fd == NewFd(p, <<"data", p.w.session + 1>>)
           n == p.w.session + 1
           futile == p.w.futile + 1
           o == [p EXCEPT !.sh.fd.data = fd, !.sh.wfd = TRUE, !.sh.nbwfd = nb,
                          !.sh.control = TRUE, !.sh.rx = <<>>]
           q == Opened(p, alive, nb)
<1>0. /\ p \in States /\ Watched(p, cs) /\ Moving(p) /\ Live(p) /\ Streak(p)
      /\ p.w.session \in Nat /\ p.w.futile \in Nat /\ p.sh.failures \in 0..2
      /\ p.sh.after = "nothing" /\ (p.sh.disabled <=> p.sh.failures = 2)
      /\ p.w.handed \in Seq(Nat) /\ p.w.handled \in Seq(Nat) /\ p.w.response \in Seq(Nat)
      /\ p.sh.rx \in Seq(Nat) /\ p.sh.txq \in Seq(Frames)
  BY GoodParts, StateFields DEF Waiting
<1>1. /\ ~Open(p, "ack") /\ ~Open(p, "drain") /\ p.w.writer.at = "none"
      /\ p.w.frames = 0 /\ p.w.emitted = 0 /\ p.w.request = <<>> /\ p.w.got = <<>>
      /\ p.w.worker.read = 0
  BY <1>0 DEF Live, NoSession, Moving, Processes
<1>2. p.w.handed = <<>> /\ p.sh.txq = <<>>
  <2> DEFINE a == Len(p.w.handed)
             l == Len(p.sh.txq)
  <2>1. a \in Nat /\ l \in Nat
    BY <1>0
  <2>2. p.w.frames = a + l
    BY <1>0 DEF Live, Queued
  <2> HIDE DEF a, l
  <2>3. a = 0 /\ l = 0
    BY ONLY <1>1, <2>1, <2>2
  <2> QED
    BY <1>0, <2>3 DEF a, l
<1>3. p.w.handled = <<>> /\ p.w.response = <<>> /\ p.sh.rx = <<>>
  <2> DEFINE a == Len(p.w.handled)
             l == Len(p.sh.rx)
             m == Len(p.w.response)
  <2>1. a \in Nat /\ l \in Nat /\ m \in Nat
    BY <1>0
  <2>2. p.w.emitted = a + l + m
    BY <1>0 DEF Live, Coming
  <2> HIDE DEF a, l, m
  <2>3. a = 0 /\ l = 0 /\ m = 0
    BY ONLY <1>1, <2>1, <2>2
  <2> QED
    BY <1>0, <2>3 DEF a, l, m
<1>4. futile \in Nat /\ futile <= p.sh.failures + 1
  <2>1. p.w.futile <= p.sh.failures + 0
    BY <1>0 DEF Streak, Counts
  <2> QED
    BY <1>0, <2>1
<1>5. fd \in Fds /\ fd # NoFd
  <2>1. <<"data", p.w.session + 1>> \in (Kinds \cup {"none"}) \X Nat /\ "data" \in Kinds
    BY <1>0 DEF Kinds
  <2> QED
    BY <1>0, <2>1, NewFdType
<1>6. n \in Nat
  BY <1>0
<1>7. /\ o.w = p.w /\ Switches(o) = Switches(p) /\ o.sh.txq = p.sh.txq /\ o.sh.rx = <<>>
      /\ o.sh.callback = p.sh.callback /\ o.sh.unread = p.sh.unread /\ o.sh.fd["data"] = fd
      /\ \A kind \in Kinds \ {"data"} : o.sh.fd[kind] = p.sh.fd[kind]
  <2>1. "data" \in Kinds /\ p.sh.fd \in [Kinds -> Fds]
    BY <1>0 DEF States, Shells, Kinds
  <2> HIDE DEF fd
  <2>2. o.w = p.w /\ o.sh.txq = p.sh.txq /\ o.sh.rx = <<>> /\ o.sh.callback = p.sh.callback /\ o.sh.unread = p.sh.unread
    BY <1>0 DEF States, Shells
  <2>3. Switches(o) = Switches(p)
    BY <1>0 DEF States, Shells, Switches
  <2>4. o.sh.fd["data"] = fd /\ \A kind \in Kinds \ {"data"} : o.sh.fd[kind] = p.sh.fd[kind]
    BY <1>0, <2>1 DEF States, Shells
  <2> QED
    BY <2>2, <2>3, <2>4
<1>8. o \in States
  <2>1. <<>> \in Seq(Nat) /\ TRUE \in BOOLEAN
    OBVIOUS
  <2> HIDE DEF fd
  <2> QED
    BY <1>0, <1>5, <2>1, ZenonT(60) DEF States, Shells
<1>9. q = [o EXCEPT !.w.session = n, !.w.futile = futile, !.w.worker.alive = alive]
  <2>1. q = [o EXCEPT !.w.session = @ + 1, !.w.futile = @ + 1, !.w.worker.alive = alive]
    BY DEF Opened
  <2>2. o.w.session = p.w.session /\ o.w.futile = p.w.futile
    BY <1>7
  <2> HIDE DEF o, q
  <2> QED
    BY <1>8, <2>1, <2>2 DEF States, Worlds
<1> HIDE DEF fd, n, futile, o, q
<1>10. q \in States
  BY <1>4, <1>6, <1>8, <1>9, Zenon DEF States, Worlds, Workers
<1>11. /\ q.sh = o.sh /\ q.w.futile = futile
       /\ q.w.request = p.w.request /\ q.w.response = p.w.response /\ q.w.writer = p.w.writer
       /\ q.w.handed = p.w.handed /\ q.w.got = p.w.got /\ q.w.emitted = p.w.emitted
       /\ q.w.handled = p.w.handled
       /\ q.w.worker.read = p.w.worker.read /\ q.w.worker.part = p.w.worker.part
  BY <1>7, <1>8, <1>9 DEF States, Worlds, Workers
<1>12. Open(q, "data") /\ ~Open(q, "ack") /\ ~Open(q, "drain")
  BY <1>1, <1>5, <1>7, <1>11 DEF Open, Kinds
<1>13. q.sh.callback = p.sh.callback /\ q.sh.unread = p.sh.unread /\ \A kind \in Kinds : p.sh.callback[kind] = NoCallback
  <2>1. \A kind \in Kinds : ~Open(p, kind)
    BY <1>1 DEF Kinds
  <2> QED
    BY <1>0, <1>7, <1>11, <2>1 DEF Watched, Handlers
<1>14. Handlers(q, cs)
  <2>1. \A c \in cs : c.gen = p.sh.callback[c.kind].gen => c.fd = p.sh.callback[c.kind].fd
    BY <1>0 DEF Watched, Handlers
  <2> QED
    BY <1>13, <2>1 DEF Handlers
<1>15. Processes(q)
  BY <1>1, <1>11, <1>12 DEF Processes
<1>16. Piped(q)
  <2>1. ReadsAt(q) = ReadsAt(p) /\ WritesAt(q) = WritesAt(p)
    BY <1>11 DEF ReadsAt, WritesAt
  <2>2. q.sh.stopping = p.sh.stopping
    BY <1>7, <1>11 DEF Switches
  <2> QED
    BY <1>0, <1>11, <2>1, <2>2 DEF Moving, Piped
<1>17. Numbers(q)
  BY <1>0, <1>11 DEF Moving, Numbers
<1>18. Switches(q) = Switches(p) /\ q.sh.txq = <<>> /\ q.sh.rx = <<>>
  BY <1>2, <1>7, <1>11 DEF Switches
<1> QED
  BY <1>0, <1>1, <1>2, <1>3, <1>4, <1>10, <1>11, <1>12, <1>13, <1>14, <1>15, <1>16, <1>17, <1>18
     DEF Moving, Heard, Kinds, q

\* A start that failed behind the descriptors is ended at once.
LEMMA StoppedFields ==
  ASSUME NEW p, NEW cs, CallSet(cs), p \in States, Handlers(p, cs), Moving(p),
         ~Open(p, "drain")
  PROVE  LET q == BeginStop(p)
         IN  /\ q \in States /\ Handlers(q, cs) /\ Moving(q) /\ q.sh.stopping /\ Quiet(q) /\ q.w = p.w
             /\ q.sh.disabled = p.sh.disabled /\ q.sh.failures = p.sh.failures
             /\ q.sh.callback["ack"] = p.sh.callback["ack"] /\ q.sh.callback["drain"] = NoCallback
             /\ (Open(q, "data") <=> Open(p, "data")) /\ (Open(q, "ack") <=> Open(p, "ack"))
<1> DEFINE c == Close(p, "drain")
           q == BeginStop(p)
<1>1. /\ c \in States /\ c.w = p.w /\ Switches(c) = Switches(p)
      /\ \A other \in Kinds : Open(c, other) <=> other # "drain" /\ Open(p, other)
      /\ \A other \in Kinds : c.sh.fd[other] = IF other = "drain" THEN NoFd ELSE p.sh.fd[other]
      /\ \A other \in Kinds :
           c.sh.callback[other] = IF other = "drain" THEN NoCallback ELSE p.sh.callback[other]
  BY CloseFields DEF Kinds
<1>2. q = [c EXCEPT !.sh.stopping = TRUE, !.sh.txq = <<>>]
  BY DEF BeginStop
<1> HIDE DEF c, q
<1>3. q \in States
  <2>1. <<>> \in Seq(Frames) /\ TRUE \in BOOLEAN
    OBVIOUS
  <2> QED
    BY <1>1, <1>2, <2>1, Zenon DEF States, Shells
<1>4. /\ q.w = p.w /\ q.sh.stopping = TRUE /\ q.sh.txq = <<>>
      /\ q.sh.disabled = c.sh.disabled /\ q.sh.failures = c.sh.failures
      /\ q.sh.fd = c.sh.fd /\ q.sh.callback = c.sh.callback /\ q.sh.unread = c.sh.unread
  BY <1>1, <1>2 DEF States, Shells
<1>5. \A kind \in Kinds : Open(q, kind) <=> Open(c, kind)
  BY <1>4 DEF Open
<1>6. Handlers(q, cs)
  <2>1. \A d \in cs : d.kind \in Kinds /\ d.gen # 0
    BY DEF CallSet
  <2>2. NoCallback.gen = 0
    BY Nothings
  <2> QED
    BY <1>1, <1>4, <1>5, <2>1, <2>2 DEF Handlers
<1>7. Moving(q)
  BY <1>1, <1>4, <1>5, SameMoving DEF Heard, Kinds
<1> QED
  BY <1>1, <1>3, <1>4, <1>5, <1>6, <1>7 DEF Switches, Quiet, Kinds, q

\* The result of a start.
LEMMA StartGood ==
  ASSUME NEW p, CallSet(calls), Good(p, calls), ~p.sh.stopping, ~p.sh.disabled, ~p.sh.tainted,
         p.sh.doing = "nothing", ~Open(p, "data"), NEW nb \in BOOLEAN,
         NEW o \in {"ok", "endpoints", "spawn", "watch", "both", "writer", "unwatched"}
  PROVE  Good(StartWith(p, o, nb), calls) /\ Heard(StartWith(p, o, nb)) = Heard(p)
<1> DEFINE alive == o \notin {"endpoints", "spawn", "both"}
           opened == Opened(p, alive, nb)
           b == BeginStop(opened)
<1>1. /\ opened \in States /\ Handlers(opened, calls) /\ Moving(opened)
      /\ Open(opened, "data") /\ ~Open(opened, "ack") /\ ~Open(opened, "drain")
      /\ opened.sh.callback["ack"] = NoCallback /\ opened.sh.callback["drain"] = NoCallback
      /\ Switches(opened) = Switches(p) /\ opened.sh.txq = <<>> /\ opened.sh.rx = <<>>
      /\ Heard(opened) = Heard(p) /\ opened.w.handed = <<>> /\ opened.w.handled = <<>>
      /\ opened.w.emitted = 0 /\ opened.w.response = <<>>
      /\ opened.w.futile <= p.sh.failures + 1 /\ (p.sh.disabled <=> p.sh.failures = 2)
  <2>1. alive \in BOOLEAN
    OBVIOUS
  <2> HIDE DEF alive
  <2> QED
    BY <2>1, OpenedFields
<1>2. /\ o = "endpoints" => StartWith(p, o, nb) = SessionFail([p EXCEPT !.w.futile = @ + 1])
      /\ o = "spawn" =>
           StartWith(p, o, nb) = FailSession(RegisterCallback(b, "data", b.sh.fd["data"]))
      /\ o \in {"watch", "both"} =>
           StartWith(p, o, nb) = FailSession([b EXCEPT !.sh.tainted = TRUE])
      /\ o \in {"ok", "writer", "unwatched"} =>
           StartWith(p, o, nb) =
             Flush([RegisterCallback(opened, "data", opened.sh.fd["data"])
                      EXCEPT !.sh.txq = Greeting, !.w.frames = 2],
                   CASE o = "writer" -> "spawn" [] o = "unwatched" -> "watch"
                     [] OTHER -> "ok")
  BY DEF StartWith
<1> HIDE DEF opened
<1>3. /\ b \in States /\ Handlers(b, calls) /\ Moving(b) /\ b.sh.stopping /\ Quiet(b)
      /\ b.w = opened.w
      /\ b.sh.disabled = opened.sh.disabled /\ b.sh.failures = opened.sh.failures
      /\ b.sh.callback["ack"] = NoCallback /\ b.sh.callback["drain"] = NoCallback
      /\ Open(b, "data") /\ ~Open(b, "ack")
  BY <1>1, StoppedFields
<1> HIDE DEF b
<1>4. /\ b.sh.disabled = p.sh.disabled /\ b.sh.failures = p.sh.failures
      /\ b.w.futile <= p.sh.failures + 1 /\ Heard(b) = Heard(p) /\ ~Open(b, "drain")
  BY <1>1, <1>3 DEF Switches, Heard, Quiet
<1>5. CASE o = "endpoints"
  BY <1>2, <1>5, FutileFail
<1>6. CASE o = "spawn"
  <2> DEFINE q == RegisterCallback(b, "data", b.sh.fd["data"])
  <2>1. /\ Watched(q, calls) /\ q.w = b.w /\ Switches(q) = Switches(b) /\ Queues(q) = Queues(b)
        /\ \A other \in Kinds : Open(q, other) <=> Open(b, other)
    <3>1. \A other \in Kinds : ~b.sh.tainted /\ other # "data" /\ Open(b, other) =>
                                 b.sh.callback[other] # NoCallback
      BY <1>3, <1>4 DEF Kinds
    <3> QED
      BY <1>3, <3>1, RegisterFields DEF Kinds
  <2> HIDE DEF q
  <2>2. /\ q.sh.disabled = p.sh.disabled /\ q.sh.failures = p.sh.failures /\ q.sh.stopping
        /\ Heard(q) = Heard(b) /\ q.w.futile <= q.sh.failures + 1 /\ q.sh.txq = b.sh.txq
    BY <1>3, <1>4, <2>1 DEF Switches, Queues, Heard
  <2>3. Moving(q)
    BY <1>3, <2>1, <2>2, SameMoving DEF Kinds
  <2>4. Common(q, calls) /\ Quiet(q)
    BY <1>1, <1>3, <2>1, <2>2, <2>3 DEF Common, Quiet, Kinds
  <2>5. Good(FailSession(q), calls) /\ Heard(FailSession(q)) = Heard(q)
    BY <2>2, <2>4, FailSessionGood
  <2> QED
    BY <1>2, <1>4, <1>6, <2>2, <2>5 DEF q
<1>7. CASE o \in {"watch", "both"}
  <2> DEFINE q == [b EXCEPT !.sh.tainted = TRUE]
  <2>1. /\ Common(q, calls) /\ q.w = b.w /\ q.sh.stopping = b.sh.stopping /\ Queues(q) = Queues(b)
        /\ q.sh.disabled = b.sh.disabled /\ q.sh.failures = b.sh.failures /\ q.sh.fd = b.sh.fd
    BY <1>1, <1>3, <1>4, TaintedCommon
  <2> HIDE DEF q
  <2>2. Quiet(q)
    BY <1>3, <2>1 DEF Quiet, Queues, Open
  <2>3. /\ ~q.sh.disabled /\ q.w.futile <= q.sh.failures + 1 /\ Heard(q) = Heard(p)
    BY <1>4, <2>1 DEF Heard
  <2>4. Good(FailSession(q), calls) /\ Heard(FailSession(q)) = Heard(q)
    BY <2>1, <2>2, <2>3, FailSessionGood
  <2> QED
    BY <1>2, <1>7, <2>3, <2>4 DEF q
<1>8. CASE o \in {"ok", "writer", "unwatched"}
  <2> DEFINE r == RegisterCallback(opened, "data", opened.sh.fd["data"])
             q == [r EXCEPT !.sh.txq = Greeting, !.w.frames = 2]
             how == CASE o = "writer" -> "spawn" [] o = "unwatched" -> "watch"
                      [] OTHER -> "ok"
  <2>1. /\ Watched(r, calls) /\ r.w = opened.w /\ Switches(r) = Switches(opened)
        /\ Queues(r) = Queues(opened) /\ \A other \in Kinds : Open(r, other) <=> Open(opened, other)
    <3>1. \A other \in Kinds : ~opened.sh.tainted /\ other # "data" /\ Open(opened, other) =>
                                 opened.sh.callback[other] # NoCallback
      BY <1>1 DEF Kinds
    <3> QED
      BY <1>1, <3>1, RegisterFields DEF Kinds
  <2> HIDE DEF r
  <2>2. r \in States /\ r.sh.rx = <<>>
    BY <1>1, <2>1 DEF Watched, Queues
  <2>3. /\ Greeting \in Seq(Frames) /\ Len(Greeting) = 2
        /\ \A i \in DOMAIN Greeting : Greeting[i].n = 0 + i
    <3>1. Greeting = <<[n |-> 1, parts |-> 1], [n |-> 2, parts |-> 2]>>
      BY DEF Greeting, Frame
    <3>2. [n |-> 1, parts |-> 1] \in Frames /\ [n |-> 2, parts |-> 2] \in Frames
      BY DEF Frames
    <3> DEFINE first == [n |-> 1, parts |-> 1]
               second == [n |-> 2, parts |-> 2]
    <3>3. first.n = 1 /\ second.n = 2
      OBVIOUS
    <3> HIDE DEF first, second
    <3>4. Greeting = <<first, second>> /\ first \in Frames /\ second \in Frames
      BY <3>1, <3>2 DEF first, second
    <3>5. <<first, second>> \in Seq(Frames)
      BY ONLY <3>4
    <3>6. Len(<<first, second>>) = 2 /\ DOMAIN <<first, second>> = 1..2
      BY ONLY TRUE
    <3>7. <<first, second>>[1].n = 1 /\ <<first, second>>[2].n = 2
      BY ONLY <3>3
    <3>8. \A i \in 1..2 : <<first, second>>[i].n = i /\ i = 0 + i
      <4>1. \A i \in 1..2 : (i = 1 \/ i = 2) /\ i = 0 + i
        BY ONLY TRUE
      <4> QED
        BY ONLY <3>7, <4>1
    <3> QED
      BY ONLY <3>4, <3>5, <3>6, <3>8
  <2>4. q \in States
    <3>1. 2 \in Nat
      OBVIOUS
    <3> QED
      BY <2>2, <2>3, <3>1, Zenon DEF States, Shells, Worlds
  <2>5. /\ Switches(q) = Switches(r) /\ q.sh.txq = Greeting /\ q.sh.rx = r.sh.rx
        /\ q.sh.fd = r.sh.fd /\ q.sh.callback = r.sh.callback /\ q.sh.unread = r.sh.unread /\ q.sh.tainted = r.sh.tainted
        /\ q.sh.stopping = r.sh.stopping
    BY <2>2 DEF States, Shells, Switches
  <2>6. /\ q.w.frames = 2 /\ Heard(q) = Heard(r) /\ q.w.futile = r.w.futile
        /\ q.w.request = r.w.request /\ q.w.response = r.w.response
        /\ q.w.worker = r.w.worker /\ q.w.writer = r.w.writer
        /\ q.w.handed = r.w.handed /\ q.w.emitted = r.w.emitted /\ q.w.handled = r.w.handled
    BY <2>2 DEF States, Worlds, Heard
  <2>7. StartWith(p, o, nb) = Flush(q, how)
    BY <1>2, <1>8 DEF r
  <2> HIDE DEF q
  <2>8. Watched(q, calls) /\ \A kind \in Kinds : Open(q, kind) <=> Open(r, kind)
    BY <2>1, <2>4, <2>5, SameWatched
  <2>9. Open(q, "data") /\ ~Open(q, "ack") /\ ~Open(q, "drain")
    BY <1>1, <2>1, <2>8 DEF Kinds
  <2>10. Moving(q)
    <3>1. Heard(q) = Heard(opened) /\ q.sh.stopping = opened.sh.stopping
      BY <2>1, <2>5, <2>6 DEF Heard, Switches
    <3> QED
      BY <1>1, <2>1, <2>6, <2>9, <3>1, SameMoving
  <2>11. /\ q.sh.disabled = p.sh.disabled /\ q.sh.failures = p.sh.failures
         /\ q.sh.stopping = p.sh.stopping /\ q.sh.doing = p.sh.doing /\ q.sh.after = p.sh.after
         /\ q.sh.unread = p.sh.unread
    BY <1>1, <2>1, <2>5 DEF Switches
  <2>12. Common(q, calls)
    <3>1. p.sh.unread => p.sh.stopping
      BY GoodParts DEF Common
    <3> QED
      BY <1>1, <2>8, <2>10, <2>11, <3>1 DEF Common
  <2>13. Queued(q)
    <3>1. q.w.handed = <<>> /\ q.sh.txq = Greeting /\ q.w.frames = 2
      BY <1>1, <2>1, <2>5, <2>6
    <3>2. 2 <= 2 + MaxRequests
      <4>1. MaxRequests \in Nat
        BY Bounds
      <4> QED
        BY ONLY <4>1
    <3>3. Len(q.w.handed) = 0 /\ Len(q.sh.txq) = 2
      BY <2>3, <3>1
    <3>4. \A i \in DOMAIN q.sh.txq : q.sh.txq[i].n = 0 + i
      BY <2>3, <3>1
    <3>5. 2 = 0 + 2
      OBVIOUS
    <3> HIDE DEF how
    <3> QED
      BY ONLY <3>1, <3>2, <3>3, <3>4, <3>5, Zenon DEF Queued
  <2>14. Coming(q)
    <3>1. /\ q.sh.rx = <<>> /\ q.w.response = <<>> /\ q.w.handled = <<>> /\ q.w.emitted = 0
      BY <1>1, <2>1, <2>2, <2>5, <2>6
    <3>2. DOMAIN q.sh.rx = {} /\ DOMAIN q.w.response = {}
      BY <3>1, SeqEmpty
    <3>3. Len(q.sh.rx) = 0 /\ Len(q.w.response) = 0 /\ Len(q.w.handled) = 0
      BY <3>1, SeqEmpty
    <3>4. q.w.emitted = Len(q.w.handled) + Len(q.sh.rx) + Len(q.w.response)
      BY <3>1, <3>3
    <3> QED
      BY ONLY <3>2, <3>4 DEF Coming
  <2>15. p.sh.after = "nothing" /\ p.sh.stopping = FALSE
    BY GoodParts DEF Waiting
  <2>16. Streak(q)
    BY <1>1, <2>1, <2>6, <2>9, <2>11, <2>15 DEF Streak, Counts
  <2>17. Running(q, calls) /\ DrainComes(q)
    BY <2>2, <2>5, <2>9, <2>11, <2>12, <2>13, <2>14, <2>15, <2>16 DEF Running, DrainComes
  <2>18. Sent(Flush(q, how), q, calls)
    <3>1. how \in {"spawn", "watch", "ok"}
      OBVIOUS
    <3> HIDE DEF how
    <3> QED
      BY <2>17, <3>1, FlushGood
  <2>19. Heard(q) = Heard(p)
    BY <1>1, <2>1, <2>6 DEF Heard
  <2> QED
    BY <2>7, <2>18, <2>19 DEF Sent, Kept
<1> QED
  BY <1>5, <1>6, <1>7, <1>8

\* A session is being ended, and the shell waits for it.
LEMMA StoppingGood ==
  ASSUME NEW q, NEW cs, Common(q, cs), Streak(q), Quiet(q), q.sh.stopping,
         q.sh.doing \in {"abort", "ack", "eof"}, q.sh.doing = "eof" => ~Open(q, "ack"),
         q.sh.after = "failure" => q.sh.doing = "abort"
  PROVE  Good(q, cs)
BY DEF Good, Body, Waiting

LEMMA ShutdownGood ==
  ASSUME NEW p, NEW cs, CallSet(cs), Good(p, cs)
  PROVE  LET q == [BeginStop(p) EXCEPT !.sh.doing = "ack", !.sh.after = "source", !.w.futile = 0]
         IN  Good(q, cs) /\ Kept(q, p)
<1> DEFINE b == BeginStop(p)
           q == [b EXCEPT !.sh.doing = "ack", !.sh.after = "source", !.w.futile = 0]
<1>0. Watched(p, cs) /\ Moving(p) /\ p.sh.failures \in 0..2 /\ (p.sh.disabled <=> p.sh.failures = 2)
  BY GoodParts
<1>1. /\ Watched(b, cs) /\ b.w = p.w /\ b.sh.stopping /\ Quiet(b) /\ Moving(b)
      /\ b.sh.disabled = p.sh.disabled /\ b.sh.failures = p.sh.failures
  BY <1>0, BeginStopFields
<1> HIDE DEF b
<1>2. b \in States
  BY <1>1 DEF Watched
<1>3. q \in States
  <2>1. /\ "ack" \in {"nothing", "abort", "ack", "eof"}
        /\ "source" \in {"nothing", "failure", "source"} /\ 0 \in Nat
    OBVIOUS
  <2> QED
    BY <1>2, <2>1, Zenon DEF States, Shells, Worlds
<1>4. /\ q.sh.doing = "ack" /\ q.sh.after = "source" /\ q.sh.stopping = b.sh.stopping
      /\ q.sh.disabled = b.sh.disabled /\ q.sh.failures = b.sh.failures /\ q.sh.txq = b.sh.txq
      /\ q.sh.fd = b.sh.fd /\ q.sh.callback = b.sh.callback /\ q.sh.unread = b.sh.unread /\ q.sh.tainted = b.sh.tainted
  BY <1>2 DEF States, Shells
<1>5. /\ Heard(q) = Heard(b) /\ q.w.futile = 0
      /\ q.w.request = b.w.request /\ q.w.worker = b.w.worker /\ q.w.writer = b.w.writer
      /\ q.w.handed = b.w.handed
  BY <1>2 DEF States, Worlds, Heard
<1> HIDE DEF q
<1>6. Watched(q, cs) /\ \A kind \in Kinds : Open(q, kind) <=> Open(b, kind)
  BY <1>1, <1>3, <1>4, SameWatched
<1>7. Moving(q)
  BY <1>1, <1>4, <1>5, <1>6, SameMoving DEF Kinds
<1>8. Common(q, cs) /\ Quiet(q)
  BY <1>0, <1>1, <1>4, <1>6, <1>7 DEF Common, Quiet, Kinds
<1>9. Streak(q)
  <2>1. q.sh.failures \in 0..2 /\ 0 <= q.sh.failures + 0
    BY <1>0, <1>1, <1>4
  <2> QED
    BY <1>1, <1>4, <1>5, <2>1 DEF Streak, Counts
<1>10. Good(q, cs)
  BY <1>1, <1>4, <1>8, <1>9, StoppingGood
<1>11. Kept(q, p)
  BY <1>1, <1>5 DEF Kept, Heard
<1> QED
  BY <1>10, <1>11 DEF q, b

\* The deadline of a stop, or a writer that died under it.
LEMMA AbortGood ==
  ASSUME NEW p, NEW cs, CallSet(cs), Good(p, cs), p.sh.stopping
  PROVE  Good(Abort(p), cs) /\ Kept(Abort(p), p)
<1> DEFINE q == Abort(p)
<1>1. Common(p, cs) /\ Quiet(p) /\ Streak(p)
  BY GoodParts
<1>2. /\ Common(q, cs) /\ Quiet(q) /\ q.sh.stopping /\ q.sh.doing = "abort"
      /\ q.sh.after = p.sh.after /\ q.sh.failures = p.sh.failures
      /\ q.sh.disabled = p.sh.disabled /\ q.w.futile = p.w.futile /\ Heard(q) = Heard(p)
  BY <1>1, AbortFields
<1> HIDE DEF q
<1>3. Streak(q)
  BY <1>1, <1>2 DEF Streak, Counts
<1> QED
  BY <1>2, <1>3, StoppingGood DEF Kept, q

\* The writer is waited for.
AckWaited(p) ==
  CASE ~Open(p, "ack") -> [CloseRequest(p) EXCEPT !.sh.doing = "eof", !.sh.rx = <<>>]
    [] Open(p, "ack") /\ PollWriter(p) = "acked" -> ReleaseWriter(p)
    [] Open(p, "ack") /\ PollWriter(p) = "dead" -> Abort(p)
    [] OTHER -> p

LEMMA AckWaitedGood ==
  ASSUME NEW p, NEW cs, CallSet(cs), Good(p, cs), p.sh.doing = "ack"
  PROVE  Good(AckWaited(p), cs) /\ Kept(AckWaited(p), p)
<1>0. /\ p \in States /\ Watched(p, cs) /\ Moving(p) /\ Common(p, cs) /\ Streak(p) /\ Quiet(p)
      /\ p.sh.stopping /\ p.sh.after # "failure" /\ (p.sh.disabled <=> p.sh.failures = 2)
  <2>1. p.sh.stopping /\ p.sh.after # "failure"
    BY GoodParts DEF Waiting
  <2> QED
    BY <2>1, GoodParts
<1>1. CASE ~Open(p, "ack")
  <2> DEFINE c == CloseRequest(p)
             q == [c EXCEPT !.sh.doing = "eof", !.sh.rx = <<>>]
  <2>1. AckWaited(p) = q
    BY <1>1 DEF AckWaited
  <2>2. /\ c \in States /\ c.w = p.w /\ Switches(c) = Switches(p) /\ c.sh.txq = p.sh.txq
        /\ c.sh.fd = p.sh.fd /\ c.sh.callback = p.sh.callback /\ c.sh.unread = p.sh.unread
    <3>1. c \in States
      BY <1>0, FALSE \in BOOLEAN, Zenon DEF States, Shells, CloseRequest
    <3> QED
      BY <1>0, <3>1 DEF States, Shells, CloseRequest, Switches
  <2> HIDE DEF c
  <2>3. q \in States
    <3>1. "eof" \in {"nothing", "abort", "ack", "eof"} /\ <<>> \in Seq(Nat)
      OBVIOUS
    <3> QED
      BY <2>2, <3>1, Zenon DEF States, Shells
  <2>4. /\ q.w = c.w /\ q.sh.doing = "eof" /\ q.sh.after = c.sh.after /\ q.sh.stopping = c.sh.stopping
        /\ q.sh.disabled = c.sh.disabled /\ q.sh.failures = c.sh.failures /\ q.sh.txq = c.sh.txq
        /\ q.sh.fd = c.sh.fd /\ q.sh.callback = c.sh.callback /\ q.sh.unread = c.sh.unread /\ q.sh.tainted = c.sh.tainted
    BY <2>2 DEF States, Shells
  <2> HIDE DEF q
  <2>5. Watched(q, cs) /\ \A kind \in Kinds : Open(q, kind) <=> Open(p, kind)
    BY <1>0, <2>2, <2>3, <2>4, SameWatched DEF Switches
  <2>6. Moving(q)
    <3>1. Heard(q) = Heard(p) /\ q.w = p.w /\ q.sh.stopping = p.sh.stopping
      BY <2>2, <2>4 DEF Heard, Switches
    <3> QED
      BY <1>0, <2>5, <3>1, SameMoving DEF Kinds
  <2>7. Common(q, cs) /\ Quiet(q) /\ Streak(q)
    BY <1>0, <2>2, <2>4, <2>5, <2>6 DEF Common, Quiet, Streak, Counts, Switches, Kinds
  <2>8. Good(q, cs)
    BY <1>0, <1>1, <2>2, <2>4, <2>5, <2>7, StoppingGood DEF Switches, Kinds
  <2> QED
    BY <2>1, <2>2, <2>4, <2>8 DEF Kept, Heard
<1>2. CASE Open(p, "ack") /\ PollWriter(p) = "acked"
  <2> DEFINE q == ReleaseWriter(p)
  <2>1. AckWaited(p) = q
    BY <1>2 DEF AckWaited
  <2>2. /\ Watched(q, cs) /\ Moving(q) /\ Switches(q) = Switches(p) /\ Queues(q) = Queues(p)
        /\ q.w = [p.w EXCEPT !.writer = NoWriter]
        /\ ~Open(q, "ack") /\ (Open(q, "drain") <=> Open(p, "drain"))
    BY <1>0, <1>2, ReleaseWriterFields DEF PollWriter
  <2> HIDE DEF q
  <2>3. Heard(q) = Heard(p) /\ q.w.futile = p.w.futile
    BY <1>0, <2>2 DEF States, Worlds, Heard
  <2>4. Common(q, cs) /\ Quiet(q)
    BY <1>0, <2>2 DEF Common, Quiet, Switches, Queues
  <2>5. Streak(q)
    BY <1>0, <2>2, <2>3, SameStreak DEF Course, Switches
  <2>6. Good(q, cs)
    BY <1>0, <2>2, <2>4, <2>5, StoppingGood DEF Switches
  <2> QED
    BY <2>1, <2>3, <2>6 DEF Kept
<1>3. CASE Open(p, "ack") /\ PollWriter(p) = "dead"
  <2>1. AckWaited(p) = Abort(p)
    BY <1>3 DEF AckWaited
  <2> QED
    BY <1>0, <2>1, AbortGood
<1>4. CASE Open(p, "ack") /\ PollWriter(p) \notin {"acked", "dead"}
  <2>1. AckWaited(p) = p
    BY <1>4 DEF AckWaited
  <2> QED
    BY <2>1 DEF Kept
<1> QED
  BY <1>1, <1>2, <1>3, <1>4

\* The end of the responses is waited for.
EofWaited(p) ==
  CASE ~Open(p, "data") -> Return(Finalize(p))
    [] Open(p, "data") /\ Eof(p) -> CloseResponse(p)
    [] OTHER -> p

LEMMA EofWaitedGood ==
  ASSUME NEW p, NEW cs, CallSet(cs), Good(p, cs), p.sh.doing = "eof"
  PROVE  LET q == EofWaited([p EXCEPT !.w.response = <<>>])
         IN  Good(q, cs) /\ (Kept(q, p) \/ Ended(q))
<1> DEFINE f == [p EXCEPT !.w.response = <<>>]
           q == EofWaited(f)
<1>0. /\ Common(p, cs) /\ Streak(p) /\ Quiet(p)
      /\ p.sh.stopping /\ p.sh.after # "failure" /\ ~Open(p, "ack")
  <2>1. p.sh.stopping /\ p.sh.after # "failure" /\ ~Open(p, "ack")
    BY GoodParts DEF Waiting
  <2> QED
    BY <2>1, GoodParts
<1>1. Common(f, cs) /\ f.sh = p.sh /\ Kept(f, p) /\ f.w.futile = p.w.futile
  BY <1>0, FlushedResponse
<1> SUFFICES Good(q, cs) /\ (Kept(q, p) \/ Ended(q))
  BY DEF f
<1> HIDE DEF f
<1>2. Streak(f) /\ Quiet(f) /\ \A kind : Open(f, kind) <=> Open(p, kind)
  BY <1>0, <1>1 DEF Streak, Counts, Quiet, Open
<1>3. Good(f, cs)
  BY <1>0, <1>1, <1>2, StoppingGood
<1>4. CASE ~Open(f, "data")
  <2> DEFINE z == Finalize(f)
  <2>1. q = Return(z)
    BY <1>4 DEF EofWaited
  <2>2. /\ Body(z, cs) /\ ~z.sh.stopping /\ \A kind \in Kinds : ~Open(z, kind)
        /\ z.w.got = <<>> /\ z.w.handled = <<>>
    BY <1>0, <1>1, <1>2, <1>4, FinalizeBody DEF Done
  <2> HIDE DEF z
  <2>3. Good(Return(z), cs) /\ Return(z).w = z.w
    BY <2>2, ReturnGood
  <2> HIDE DEF q
  <2> QED
    BY <2>1, <2>2, <2>3 DEF Ended
<1>5. CASE Open(f, "data") /\ Eof(f)
  <2> DEFINE c == CloseResponse(f)
  <2>1. q = c
    BY <1>5 DEF EofWaited
  <2>2. /\ Watched(c, cs) /\ Moving(c) /\ c.w = f.w
        /\ Switches(c) = Switches(f) /\ c.sh.txq = f.sh.txq
        /\ ~Open(c, "data") /\ (Open(c, "ack") <=> Open(f, "ack"))
        /\ (Open(c, "drain") <=> Open(f, "drain"))
    BY <1>1, <1>5, CloseResponseFields DEF Common
  <2> HIDE DEF c
  <2>3. Common(c, cs) /\ Quiet(c)
    BY <1>1, <1>2, <2>2 DEF Common, Quiet, Switches
  <2>4. Streak(c)
    BY <1>0, <1>1, <1>2, <2>2, SameStreak DEF Course, Switches
  <2>5. Good(c, cs)
    BY <1>0, <1>1, <1>2, <2>2, <2>3, <2>4, StoppingGood DEF Switches
  <2> HIDE DEF q
  <2> QED
    BY <1>1, <2>1, <2>2, <2>5 DEF Kept, Heard
<1>6. CASE Open(f, "data") /\ ~Eof(f)
  <2>1. q = f
    BY <1>6 DEF EofWaited
  <2> QED
    BY <1>1, <1>3, <2>1
<1> QED
  BY <1>4, <1>5, <1>6

\* The loop of an abort, and its deadline.
LEMMA AbortedGood ==
  ASSUME NEW p, NEW cs, CallSet(cs), Good(p, cs), p.sh.doing = "abort", NEW outcome
  PROVE  LET s == StopProgress(p, outcome)
             q == IF s.sh.stopping THEN s ELSE Return(s)
         IN  /\ Good(q, cs) /\ (Kept(q, p) \/ Ended(q))
             /\ Good(Return(s), cs) /\ (Kept(Return(s), p) \/ Ended(Return(s)))
<1> DEFINE s == StopProgress(p, outcome)
           q == IF s.sh.stopping THEN s ELSE Return(s)
<1>0. Body(p, cs) /\ p.sh.stopping /\ (p.sh.after = "failure" => p.sh.doing = "abort")
  BY DEF Good, Waiting
<1>1. /\ Body(s, cs) /\ s.sh.doing = p.sh.doing /\ s.sh.after = p.sh.after
      /\ s.sh.stopping => Kept(s, p) /\ (Open(s, "ack") \/ Open(s, "data"))
      /\ ~s.sh.stopping => Ended(s) /\ \A kind \in Kinds : ~Open(s, kind)
  BY <1>0, StopProgressBody
<1> HIDE DEF s
<1>2. Good(Return(s), cs) /\ Return(s).w = s.w /\ Return(s).sh.stopping = s.sh.stopping
  BY <1>1, ReturnGood
<1>3. Kept(Return(s), p) \/ Ended(Return(s))
  BY <1>1, <1>2 DEF Kept, Heard, Ended
<1>4. s.sh.stopping => Good(s, cs)
  BY <1>0, <1>1 DEF Good, Waiting
<1> QED
  BY <1>1, <1>2, <1>3, <1>4 DEF s

-----------------------------------------------------------------------------
(***************************************************************************)
(* The processes.                                                          *)
(***************************************************************************)
In(p, v) == [p EXCEPT !.w = v]

LEMMA InFields ==
  ASSUME NEW p \in States, NEW v \in Worlds
  PROVE  /\ In(p, v) \in States /\ In(p, v).sh = p.sh /\ In(p, v).w = v
         /\ \A kind : Open(In(p, v), kind) <=> Open(p, kind)
<1>1. In(p, v) \in States /\ In(p, v).sh = p.sh /\ In(p, v).w = v
  BY DEF In, States
<1> QED
  BY <1>1 DEF Open

LEMMA InGood ==
  ASSUME NEW p, NEW cs, Good(p, cs), NEW v \in Worlds, v.futile = p.w.futile,
         Moving(In(p, v)), ~p.sh.stopping => Live(In(p, v))
  PROVE  Good(In(p, v), cs)
<1> DEFINE q == In(p, v)
<1>1. q \in States /\ q.sh = p.sh /\ q.w = v
  BY GoodParts, InFields
<1> HIDE DEF q
<1> QED
  BY <1>1, SameShellGood DEF q

\* The chunk that the writer is at, and what is left to it behind that.
WriterChunk(p) == Chunks(p.w.writer.frame)[p.w.writer.frame.parts - p.w.writer.left + 1]
Wrote(p) ==
  [p.w EXCEPT !.request = Append(@, WriterChunk(p)), !.writer.left = @ - 1,
              !.writer.at = IF p.w.writer.left = 1 THEN "acked" ELSE @]

LEMMA WroteGood ==
  ASSUME NEW p, NEW cs, Good(p, cs), p.w.writer.at = "writing", p.w.worker.alive,
         Len(p.w.request) < Capacity
  PROVE  Good(In(p, Wrote(p)), cs) /\ Kept(In(p, Wrote(p)), p)
<1> DEFINE f == p.w.writer.frame
           left == p.w.writer.left
           k == f.parts - left + 1
           c == WriterChunk(p)
           m == Len(p.w.request)
           request == Append(p.w.request, c)
           at == IF left = 1 THEN "acked" ELSE "writing"
           v == Wrote(p)
           q == In(p, v)
<1>0. /\ p \in States /\ Moving(p) /\ (~p.sh.stopping => Live(p))
      /\ p.w.request \in Seq(ChunkSet) /\ p.w.writer \in Writers /\ p.w \in Worlds
      /\ m \in Nat /\ m < Capacity /\ Capacity \in Nat
  BY GoodParts, StateFields, Bounds
<1>1. /\ f.n = Len(p.w.handed) /\ f.parts \in {1, 2} /\ left \in 1..f.parts /\ f.n \in Nat
      /\ f \in Frames /\ Open(p, "data") /\ Open(p, "ack")
  <2>1. /\ f.n = Len(p.w.handed) /\ f.parts \in {1, 2} /\ left \in 1..f.parts
        /\ Open(p, "data") /\ Open(p, "ack")
    BY <1>0 DEF Moving, Processes
  <2>2. f \in [n : Nat, parts : {0, 1, 2}]
    BY <1>0 DEF Writers
  <2> QED
    BY <2>1, <2>2 DEF Frames
<1>2. k \in 1..f.parts /\ k \in {1, 2} /\ left \in {1, 2} /\ left - 1 \in {0, 1, 2}
  <2> DEFINE parts == f.parts
  <2>1. k = parts - left + 1 /\ parts \in {1, 2} /\ left \in 1..parts
    BY <1>1
  <2> SUFFICES k \in 1..parts /\ k \in {1, 2} /\ left \in {1, 2} /\ left - 1 \in {0, 1, 2}
    OBVIOUS
  <2> HIDE DEF k, parts, left
  <2> QED
    BY ONLY <2>1
<1>3. c = [n |-> f.n, k |-> k, parts |-> f.parts]
  BY <1>1, <1>2, ChunksFields DEF WriterChunk
<1>4. /\ c \in ChunkSet /\ c.n = f.n /\ c.k = k /\ c.parts = f.parts
      /\ At(c) = WritesAt(p)
  <2>1. c \in ChunkSet /\ c.n = f.n /\ c.k = k /\ c.parts = f.parts
    BY <1>1, <1>2, <1>3 DEF ChunkSet
  <2> HIDE DEF c
  <2> QED
    BY <2>1 DEF At, WritesAt
<1>5. /\ request \in Seq(ChunkSet) /\ Len(request) = m + 1 /\ DOMAIN request = 1..(m + 1)
      /\ request[m + 1] = c /\ (\A i \in 1..m : request[i] = p.w.request[i])
      /\ DOMAIN p.w.request = 1..m /\ request # <<>>
  <2> HIDE DEF c
  <2>1. IsSeq(p.w.request) /\ DOMAIN p.w.request = 1..m /\ request \in Seq(ChunkSet)
    BY <1>0, <1>4, SeqIsSeq
  <2>2. IsSeq(request) /\ Len(request) = m + 1 /\ request[m + 1] = c /\ \A i \in 1..m : request[i] = p.w.request[i]
    BY <2>1, SeqAppend
  <2>3. DOMAIN request = 1..(m + 1) /\ m + 1 # 0
    BY <1>0, <2>2, SeqFacts
  <2> QED
    BY <2>1, <2>2, <2>3, SeqEmpty
<1> HIDE DEF c, request
<1>6. v = [p.w EXCEPT !.request = request, !.writer.left = left - 1, !.writer.at = at]
  BY <1>0 DEF Worlds, Writers, Wrote, request, c
<1>7. at \in {"none", "writing", "acked", "dead"} /\ (left = 1 => at = "acked") /\ (left # 1 => at = "writing")
  OBVIOUS
<1> HIDE DEF v, at
<1>8. v \in Worlds
  <2> DEFINE l == left - 1
  <2>1. l \in {0, 1, 2}
    BY <1>2
  <2>2. v = [p.w EXCEPT !.request = request, !.writer.left = l, !.writer.at = at]
    BY <1>6
  <2> HIDE DEF l
  <2> QED
    BY <1>0, <1>5, <1>7, <2>1, <2>2, Zenon DEF Worlds, Writers
<1>9. /\ v.request = request /\ v.worker = p.w.worker /\ v.response = p.w.response
      /\ v.frames = p.w.frames /\ v.handed = p.w.handed /\ v.got = p.w.got
      /\ v.emitted = p.w.emitted /\ v.handled = p.w.handled /\ v.futile = p.w.futile
  BY <1>0, <1>6 DEF Worlds
<1>10. v.writer.at = at /\ v.writer.frame = f /\ v.writer.left = left - 1
  BY <1>0, <1>6 DEF Worlds, Writers
<1>11. q.sh = p.sh /\ q.w = v /\ \A kind : Open(q, kind) <=> Open(p, kind)
  BY <1>0, <1>8, InFields
<1> HIDE DEF q
<1>12. Processes(q)
  <2>1. left # 1 => left - 1 \in 1..f.parts
    BY <1>1
  <2> QED
    BY <1>1, <1>7, <1>9, <1>10, <1>11, <2>1 DEF Processes
<1>13. ReadsAt(q) = ReadsAt(p)
  BY <1>9, <1>11 DEF ReadsAt
<1>14. WritesAt(q) = After(c)
  <2>1. CASE left = 1
    <3>1. k = f.parts
      BY <1>1, <2>1
    <3> QED
      BY <1>1, <1>4, <1>7, <1>9, <1>10, <1>11, <2>1, <3>1 DEF After, WritesAt
  <2>2. CASE left # 1
    <3>1. left = 2 /\ f.parts = 2 /\ k = 1
      BY <1>1, <2>2
    <3>2. f.parts - (left - 1) + 1 = 2 /\ k + 1 = 2 /\ k # f.parts
      BY <3>1
    <3> HIDE DEF k, f, left
    <3> QED
      BY <1>4, <1>7, <1>10, <1>11, <2>2, <3>2 DEF After, WritesAt
  <2> QED
    BY <2>1, <2>2
<1>15. Piped(q)
  <2>0. /\ \A i \in 1..m : p.w.request[i].k <= p.w.request[i].parts
                            /\ p.w.request[i].n <= Len(p.w.handed)
        /\ \A i \in 1..m : At(p.w.request[i]) = IF i = 1 THEN ReadsAt(p) ELSE After(p.w.request[i - 1])
        /\ WritesAt(p) = IF p.w.request = <<>> THEN ReadsAt(p) ELSE After(p.w.request[m])
    BY <1>0, <1>5 DEF Moving, Piped
  <2>1. p.w.request = <<>> <=> m = 0
    BY <1>0
  <2>2. Len(v.request) <= Capacity
    BY <1>0, <1>5, <1>9
  <2>3. ASSUME NEW i \in 1..(m + 1)
        PROVE  /\ request[i].k <= request[i].parts /\ request[i].n <= Len(p.w.handed)
               /\ At(request[i]) = IF i = 1 THEN ReadsAt(p) ELSE After(request[i - 1])
    <3>1. CASE i \in 1..m
      <4>1. request[i] = p.w.request[i] /\ (i # 1 => i - 1 \in 1..m)
        BY <1>5, <3>1
      <4>2. i # 1 => request[i - 1] = p.w.request[i - 1]
        BY <1>5, <4>1
      <4> QED
        BY <2>0, <3>1, <4>1, <4>2
    <3>2. CASE i = m + 1
      <4>1. request[i] = c /\ k <= f.parts /\ f.n <= f.n /\ i - 1 = m
        BY <1>0, <1>1, <1>2, <1>5, <3>2
      <4>2. CASE m = 0
        BY <1>1, <1>4, <2>0, <2>1, <3>2, <4>1, <4>2
      <4>3. CASE m # 0
        <5>1. m \in 1..m /\ i # 1
          BY <1>0, <3>2, <4>3
        <5>2. request[i - 1] = p.w.request[m]
          BY <1>5, <4>1, <5>1
        <5> HIDE DEF k, f
        <5> QED
          BY <1>1, <1>4, <2>0, <2>1, <4>1, <4>3, <5>1, <5>2
      <4> QED
        BY <4>2, <4>3
    <3> QED
      BY <1>0, <3>1, <3>2
  <2> QED
    BY <1>5, <1>9, <1>11, <1>13, <1>14, <2>2, <2>3 DEF Piped
<1>16. Numbers(q)
  BY <1>0, <1>9, <1>11 DEF Moving, Numbers
<1>17. ~p.sh.stopping => Live(q)
  <2> SUFFICES ASSUME ~p.sh.stopping PROVE Live(q)
    OBVIOUS
  <2>1. Queued(q)
    BY <1>0, <1>9, <1>11 DEF Live, Queued
  <2>2. Coming(q)
    BY <1>0, <1>9, <1>11 DEF Live, Coming
  <2>3. WriterComes(q) /\ DrainComes(q) /\ Open(q, "data")
    BY <1>0, <1>1, <1>11 DEF Live, WriterComes, DrainComes
  <2> QED
    BY <2>1, <2>2, <2>3 DEF Live
<1>18. Good(q, cs)
  BY <1>8, <1>9, <1>12, <1>15, <1>16, <1>17, InGood DEF Moving, q
<1>19. Kept(q, p)
  BY <1>9, <1>11 DEF Kept, Heard
<1> QED
  BY <1>18, <1>19 DEF q, v

\* A process is gone.
LEMMA WriterDiedGood ==
  ASSUME NEW p, NEW cs, Good(p, cs), p.w.writer.at = "writing"
  PROVE  LET v == [p.w EXCEPT !.writer.at = "dead"]
         IN  Good(In(p, v), cs) /\ Kept(In(p, v), p)
<1> DEFINE v == [p.w EXCEPT !.writer.at = "dead"]
           q == In(p, v)
<1>0. p \in States /\ Moving(p) /\ (~p.sh.stopping => Live(p)) /\ p.w.writer \in Writers /\ p.w \in Worlds
  BY GoodParts, StateFields
<1>1. v \in Worlds
  <2>1. "dead" \in {"none", "writing", "acked", "dead"}
    OBVIOUS
  <2> QED
    BY <1>0, <2>1, Zenon DEF Worlds, Writers
<1>2. /\ v.request = p.w.request /\ v.worker = p.w.worker /\ v.response = p.w.response
      /\ v.frames = p.w.frames /\ v.handed = p.w.handed /\ v.got = p.w.got
      /\ v.emitted = p.w.emitted /\ v.handled = p.w.handled /\ v.futile = p.w.futile
  BY <1>0 DEF Worlds
<1>3. v.writer.at = "dead" /\ v.writer.frame = p.w.writer.frame /\ v.writer.left = p.w.writer.left
  BY <1>0 DEF Worlds, Writers
<1> SUFFICES Good(q, cs) /\ Kept(q, p)
  OBVIOUS
<1> HIDE DEF v
<1>4. q.sh = p.sh /\ q.w = v /\ \A kind : Open(q, kind) <=> Open(p, kind)
  BY <1>0, <1>1, InFields
<1> HIDE DEF q
<1>5. Processes(q) /\ Numbers(q)
  BY <1>0, <1>2, <1>3, <1>4 DEF Moving, Processes, Numbers
<1>6. ReadsAt(q) = ReadsAt(p) /\ WritesAt(q) = WritesAt(p)
  BY <1>2, <1>3, <1>4 DEF ReadsAt, WritesAt
<1>7. Piped(q)
  BY <1>0, <1>2, <1>3, <1>4, <1>6 DEF Moving, Piped
<1>8. ~p.sh.stopping => Live(q)
  BY <1>0, <1>2, <1>4 DEF Live, Queued, Coming, WriterComes, DrainComes, NoSession
<1>9. Good(q, cs)
  BY <1>1, <1>2, <1>5, <1>7, <1>8, InGood DEF Moving, q
<1> QED
  BY <1>2, <1>4, <1>9 DEF Kept, Heard

LEMMA WorkerGoneGood ==
  ASSUME NEW p, NEW cs, Good(p, cs)
  PROVE  LET v == [p.w EXCEPT !.worker.alive = FALSE]
         IN  Good(In(p, v), cs) /\ Kept(In(p, v), p)
<1> DEFINE v == [p.w EXCEPT !.worker.alive = FALSE]
           q == In(p, v)
<1>0. p \in States /\ Moving(p) /\ (~p.sh.stopping => Live(p)) /\ p.w.worker \in Workers /\ p.w \in Worlds
  BY GoodParts, StateFields
<1>1. v \in Worlds
  BY <1>0, FALSE \in BOOLEAN, Zenon DEF Worlds, Workers
<1>2. /\ v.request = p.w.request /\ v.writer = p.w.writer /\ v.response = p.w.response
      /\ v.frames = p.w.frames /\ v.handed = p.w.handed /\ v.got = p.w.got
      /\ v.emitted = p.w.emitted /\ v.handled = p.w.handled /\ v.futile = p.w.futile
  BY <1>0 DEF Worlds
<1>3. /\ v.worker.alive = FALSE /\ v.worker.read = p.w.worker.read /\ v.worker.part = p.w.worker.part
  BY <1>0 DEF Worlds, Workers
<1> SUFFICES Good(q, cs) /\ Kept(q, p)
  OBVIOUS
<1> HIDE DEF v
<1>4. q.sh = p.sh /\ q.w = v /\ \A kind : Open(q, kind) <=> Open(p, kind)
  BY <1>0, <1>1, InFields
<1> HIDE DEF q
<1>5. Processes(q) /\ Numbers(q)
  BY <1>0, <1>2, <1>3, <1>4 DEF Moving, Processes, Numbers
<1>6. ReadsAt(q) = ReadsAt(p) /\ WritesAt(q) = WritesAt(p)
  BY <1>2, <1>3, <1>4 DEF ReadsAt, WritesAt
<1>7. Piped(q)
  BY <1>0, <1>2, <1>3, <1>4, <1>6 DEF Moving, Piped
<1>8. ~p.sh.stopping => Live(q)
  BY <1>0, <1>2, <1>3, <1>4 DEF Live, Queued, Coming, WriterComes, DrainComes, NoSession
<1>9. Good(q, cs)
  BY <1>1, <1>2, <1>5, <1>7, <1>8, InGood DEF Moving, q
<1> QED
  BY <1>2, <1>4, <1>9 DEF Kept, Heard

\* The chunk that the worker reads next is the one it waits for.
Next_(p) == Head(p.w.request)

LEMMA NextChunk ==
  ASSUME NEW p, NEW cs, Good(p, cs), p.w.request # <<>>
  PROVE  LET c == Next_(p)
         IN  /\ c \in ChunkSet /\ c = p.w.request[1] /\ At(c) = ReadsAt(p)
             /\ c.k = p.w.worker.read + 1 /\ c.n = Len(p.w.got) + 1
             /\ c.k = 1 \/ c.n = p.w.worker.part.n
             /\ c.k \in {1, 2} /\ c.parts \in {1, 2} /\ c.k <= c.parts
             /\ c.n \in Nat /\ c.n <= Len(p.w.handed)
<1> DEFINE c == Next_(p)
<1>0. /\ p \in States /\ Moving(p) /\ p.w.request \in Seq(ChunkSet) /\ p.w.worker \in Workers
  BY GoodParts, StateFields
<1>1. IsSeq(p.w.request) /\ 1 \in DOMAIN p.w.request /\ c = p.w.request[1]
  <2>1. IsSeq(p.w.request)
    BY <1>0, SeqIsSeq
  <2> QED
    BY <2>1, TailDomain DEF Next_
<1>2. c \in ChunkSet
  BY <1>0, <1>1
<1>3. At(c) = ReadsAt(p) /\ c.k <= c.parts /\ c.n <= Len(p.w.handed)
  <2>1. /\ p.w.request[1].k <= p.w.request[1].parts /\ p.w.request[1].n <= Len(p.w.handed)
        /\ At(p.w.request[1]) = IF 1 = 1 THEN ReadsAt(p) ELSE After(p.w.request[1 - 1])
    BY <1>0, <1>1 DEF Moving, Piped
  <2> HIDE DEF c
  <2> QED
    BY <1>1, <2>1
<1> HIDE DEF c
<1>4. c.k = p.w.worker.read + 1 /\ c.n = Len(p.w.got) + 1
  BY <1>3 DEF At, ReadsAt
<1>5. p.w.worker.read \in {0, 1} /\ (p.w.worker.read = 1 => p.w.worker.part.n = Len(p.w.got) + 1)
  BY <1>0 DEF Moving, Numbers, Workers
<1>6. c.k = 1 \/ c.n = p.w.worker.part.n
  BY <1>4, <1>5
<1>7. c.k \in {1, 2} /\ c.parts \in {1, 2} /\ c.n \in Nat
  BY <1>2 DEF ChunkSet
<1> QED
  BY <1>1, <1>2, <1>3, <1>4, <1>6, <1>7 DEF c

\* The worker reads on, and the pipe with it.
LEMMA ReadPiped ==
  ASSUME NEW p, NEW q, p \in States, Piped(p), p.w.request # <<>>,
         q.w.request = Tail(p.w.request), q.w.handed = p.w.handed, q.w.writer = p.w.writer,
         q.sh = p.sh, ReadsAt(q) = After(Head(p.w.request))
  PROVE  Piped(q)
<1> DEFINE r == p.w.request
           t == Tail(r)
           m == Len(r)
           l == Len(t)
<1>0. r \in Seq(ChunkSet) /\ Capacity \in Nat /\ IsSeq(r)
  BY StateFields, SeqIsSeq, Bounds
<1>1. /\ IsSeq(t) /\ l = m - 1 /\ m \in Nat \ {0} /\ Head(r) = r[1]
      /\ \A i \in 1..l : t[i] = r[i + 1]
  BY <1>0, SeqTail
<1>2. DOMAIN r = 1..m /\ DOMAIN t = 1..l /\ (t = <<>> => l = 0)
  BY <1>0, <1>1, SeqFacts, SeqEmpty
<1>3. l = 0 => t = <<>>
  <2>1. t \in Seq(ChunkSet)
    BY <1>0
  <2> HIDE DEF t
  <2> QED
    BY <2>1
<1>4. WritesAt(q) = WritesAt(p)
  BY DEF WritesAt
<1>5. /\ m <= Capacity
      /\ \A i \in 1..m : r[i].k <= r[i].parts /\ r[i].n <= Len(p.w.handed)
      /\ \A i \in 1..m : At(r[i]) = IF i = 1 THEN ReadsAt(p) ELSE After(r[i - 1])
      /\ ~p.sh.stopping \/ p.w.writer.at # "none" => WritesAt(p) = After(r[m])
  BY <1>2 DEF Piped
<1> HIDE DEF r, t, m, l
<1>6. l <= Capacity
  BY ONLY <1>0, <1>1, <1>5
<1>7. ASSUME NEW i \in 1..l
      PROVE  /\ t[i].k <= t[i].parts /\ t[i].n <= Len(p.w.handed)
             /\ At(t[i]) = IF i = 1 THEN After(r[1]) ELSE After(t[i - 1])
  <2>1. i + 1 \in 1..m /\ i + 1 # 1 /\ (i + 1) - 1 = i /\ (i # 1 => i - 1 \in 1..l /\ (i - 1) + 1 = i)
    BY ONLY <1>1, <1>7
  <2>2. t[i] = r[i + 1] /\ (i # 1 => t[i - 1] = r[i])
    BY ONLY <1>1, <1>7, <2>1
  <2>3. At(r[i + 1]) = After(r[i])
    BY ONLY <1>5, <2>1
  <2> QED
    BY ONLY <1>5, <2>1, <2>2, <2>3
<1>8. ~p.sh.stopping \/ p.w.writer.at # "none" =>
         WritesAt(p) = IF t = <<>> THEN After(r[1]) ELSE After(t[l])
  <2>1. CASE t = <<>>
    <3>1. m = 1
      BY ONLY <1>1, <1>2, <2>1
    <3> QED
      BY ONLY <1>5, <2>1, <3>1
  <2>2. CASE t # <<>>
    <3>1. l \in 1..l /\ l + 1 = m
      BY ONLY <1>1, <1>3, <2>2
    <3>2. t[l] = r[m]
      BY ONLY <1>1, <3>1
    <3> QED
      BY ONLY <1>5, <2>2, <3>2
  <2> QED
    BY <2>1, <2>2
<1>9. q.w.request = t /\ ReadsAt(q) = After(r[1])
  BY <1>1 DEF r, t
<1> QED
  BY <1>2, <1>4, <1>6, <1>7, <1>8, <1>9 DEF Piped, l

\* A chunk in the middle of a frame, and the last one.
GotPart(p) ==
  [p.w EXCEPT !.request = Tail(@), !.worker.part = Frame(Next_(p).n, Next_(p).parts),
              !.worker.read = Next_(p).k]
GotFrame(p) ==
  [p.w EXCEPT !.request = Tail(@), !.got = Append(@, Next_(p).n),
              !.worker.part = NoFrame, !.worker.read = 0]

\* What the worker does with the channels.
Worked(q, p) ==
  /\ q.sh = p.sh /\ q.w.handed = p.w.handed /\ q.w.handled = p.w.handled
  /\ Len(p.w.got) <= Len(q.w.got)

LEMMA GotPartGood ==
  ASSUME NEW p, NEW cs, Good(p, cs), p.w.worker.alive, p.w.request # <<>>,
         Next_(p).k # Next_(p).parts
  PROVE  Good(In(p, GotPart(p)), cs) /\ Kept(In(p, GotPart(p)), p)
<1> DEFINE c == Next_(p)
           n == c.n
           part == Frame(c.n, c.parts)
           k == c.k
           request == Tail(p.w.request)
           v == GotPart(p)
           q == In(p, v)
<1>0. /\ p \in States /\ Moving(p) /\ (~p.sh.stopping => Live(p)) /\ p.w.worker \in Workers /\ p.w \in Worlds
      /\ p.w.request \in Seq(ChunkSet) /\ p.w.handed \in Seq(Nat)
  BY GoodParts, StateFields
<1>1. /\ c \in ChunkSet /\ c.k = p.w.worker.read + 1 /\ n = Len(p.w.got) + 1
      /\ c.k \in {1, 2} /\ c.parts \in {1, 2} /\ c.k <= c.parts
      /\ n \in Nat /\ n <= Len(p.w.handed)
  BY NextChunk
<1>2. v = [p.w EXCEPT !.request = request, !.worker.part = part, !.worker.read = k]
  BY <1>0 DEF GotPart, Worlds, Workers
<1> HIDE DEF v
<1>3. k = 1 /\ c.parts = 2
  <2>1. c.k # c.parts
    OBVIOUS
  <2> HIDE DEF c
  <2> QED
    BY <1>1, <2>1
<1>4. part \in [n : Nat, parts : {0, 1, 2}] /\ part.n = n /\ request \in Seq(ChunkSet) /\ k \in {0, 1}
  <2>1. request \in Seq(ChunkSet)
    BY <1>0
  <2> HIDE DEF request, c
  <2> QED
    BY <1>1, <1>3, <2>1 DEF Frame
<1>5. v \in Worlds
  <2> HIDE DEF request, c, part, k
  <2> QED
    BY <1>0, <1>2, <1>4, Zenon DEF Worlds, Workers
<1> HIDE DEF request, part
<1>6. /\ v.request = request /\ v.writer = p.w.writer /\ v.response = p.w.response
      /\ v.frames = p.w.frames /\ v.handed = p.w.handed /\ v.got = p.w.got
      /\ v.emitted = p.w.emitted /\ v.handled = p.w.handled /\ v.futile = p.w.futile
  BY <1>0, <1>2 DEF Worlds
<1>7. v.worker.part = part /\ v.worker.read = k /\ v.worker.alive = p.w.worker.alive
  BY <1>0, <1>2 DEF Worlds, Workers
<1>8. q.sh = p.sh /\ q.w = v /\ \A kind : Open(q, kind) <=> Open(p, kind)
  BY <1>0, <1>5, InFields
<1> HIDE DEF q
<1>9. Processes(q)
  BY <1>0, <1>6, <1>7, <1>8 DEF Moving, Processes
<1>10. Numbers(q)
  <2>1. Len(p.w.got) < Len(p.w.handed)
    <3> DEFINE a == Len(p.w.got)
               b == Len(p.w.handed)
    <3>1. a \in Nat /\ b \in Nat /\ n = a + 1 /\ n <= b
      BY <1>0, <1>1, StateFields
    <3> HIDE DEF a, b, n
    <3> QED
      BY <3>1 DEF a, b
  <2> QED
    BY <1>0, <1>1, <1>4, <1>6, <1>7, <1>8, <2>1 DEF Moving, Numbers
<1>11. ReadsAt(q) = After(c)
  <2>1. ReadsAt(q) = <<Len(p.w.got) + 1, k + 1>>
    BY <1>6, <1>7, <1>8 DEF ReadsAt
  <2>2. After(c) = <<n, k + 1>>
    BY DEF After
  <2> QED
    BY <1>1, <2>1, <2>2
<1>12. Piped(q)
  BY <1>0, <1>6, <1>8, <1>11, ReadPiped DEF Moving, Next_, request
<1>13. ~p.sh.stopping => Live(q)
  <2> SUFFICES ASSUME ~p.sh.stopping PROVE Live(q)
    OBVIOUS
  <2>1. Queued(q)
    BY <1>0, <1>6, <1>8 DEF Live, Queued
  <2>2. Coming(q)
    BY <1>0, <1>6, <1>8 DEF Live, Coming
  <2>3. WriterComes(q) /\ DrainComes(q) /\ Open(q, "data")
    BY <1>0, <1>8 DEF Live, WriterComes, DrainComes, Moving, Processes
  <2> QED
    BY <2>1, <2>2, <2>3 DEF Live
<1>14. Good(q, cs)
  BY <1>5, <1>6, <1>9, <1>10, <1>12, <1>13, InGood DEF Moving, q
<1>15. Kept(q, p)
  BY <1>6, <1>8 DEF Kept, Heard
<1> QED
  BY <1>14, <1>15 DEF q, v

LEMMA GotFrameGood ==
  ASSUME NEW p, NEW cs, Good(p, cs), p.w.worker.alive, p.w.request # <<>>,
         Next_(p).k = Next_(p).parts
  PROVE  Good(In(p, GotFrame(p)), cs) /\ Worked(In(p, GotFrame(p)), p)
<1> DEFINE c == Next_(p)
           n == c.n
           a == Len(p.w.got)
           b == Len(p.w.handed)
           got == Append(p.w.got, n)
           request == Tail(p.w.request)
           v == GotFrame(p)
           q == In(p, v)
<1>0. /\ p \in States /\ Moving(p) /\ (~p.sh.stopping => Live(p)) /\ p.w.worker \in Workers /\ p.w \in Worlds
      /\ p.w.request \in Seq(ChunkSet) /\ p.w.got \in Seq(Nat) /\ a \in Nat /\ b \in Nat
  BY GoodParts, StateFields
<1>1. n = a + 1 /\ n \in Nat /\ n <= b
  BY NextChunk
<1>2. v = [p.w EXCEPT !.request = request, !.got = got, !.worker.part = NoFrame, !.worker.read = 0]
  BY <1>0 DEF GotFrame, Worlds, Workers
<1> HIDE DEF v, n
<1>3. /\ got \in Seq(Nat) /\ Len(got) = a + 1 /\ DOMAIN got = 1..(a + 1)
      /\ got[a + 1] = n /\ \A i \in 1..a : got[i] = p.w.got[i]
  <2>1. got \in Seq(Nat) /\ IsSeq(p.w.got)
    BY <1>0, <1>1, SeqIsSeq
  <2>2. /\ IsSeq(got) /\ Len(got) = a + 1 /\ got[a + 1] = n
        /\ \A i \in 1..a : got[i] = p.w.got[i]
    BY <2>1, SeqAppend
  <2> QED
    BY <2>1, <2>2, SeqFacts
<1>4. NoFrame \in [n : Nat, parts : {0, 1, 2}] /\ request \in Seq(ChunkSet) /\ 0 \in {0, 1}
  <2>1. request \in Seq(ChunkSet)
    BY <1>0
  <2>2. NoFrame = [n |-> 0, parts |-> 0]
    BY DEF NoFrame, Frame
  <2> QED
    BY <2>1, <2>2
<1> HIDE DEF request, got
<1>5. v \in Worlds
  BY <1>0, <1>2, <1>3, <1>4, Zenon DEF Worlds, Workers
<1>6. /\ v.request = request /\ v.writer = p.w.writer /\ v.response = p.w.response
      /\ v.frames = p.w.frames /\ v.handed = p.w.handed /\ v.got = got
      /\ v.emitted = p.w.emitted /\ v.handled = p.w.handled /\ v.futile = p.w.futile
  BY <1>0, <1>2 DEF Worlds
<1>7. v.worker.read = 0 /\ v.worker.alive = p.w.worker.alive
  BY <1>0, <1>2 DEF Worlds, Workers
<1>8. q.sh = p.sh /\ q.w = v /\ \A kind : Open(q, kind) <=> Open(p, kind)
  BY <1>0, <1>5, InFields
<1> HIDE DEF q, a, b
<1>9. Processes(q)
  BY <1>0, <1>6, <1>7, <1>8 DEF Moving, Processes
<1>10. Numbers(q)
  <2>1. InOrder(got)
    <3> SUFFICES ASSUME NEW i \in 1..(a + 1) PROVE got[i] = i
      BY <1>3 DEF InOrder
    <3>1. CASE i \in 1..a
      <4>1. DOMAIN p.w.got = 1..a
        BY <1>0 DEF a
      <4>2. p.w.got[i] = i
        BY <1>0, <3>1, <4>1 DEF Moving, Numbers, InOrder
      <4> QED
        BY <1>3, <3>1, <4>2
    <3>2. CASE i = a + 1
      BY <1>1, <1>3, <3>2
    <3> QED
      BY <1>0, <3>1, <3>2
  <2>2. Len(got) <= Len(p.w.handed)
    BY <1>1, <1>3 DEF b
  <2> QED
    BY <1>0, <1>6, <1>7, <1>8, <2>1, <2>2 DEF Moving, Numbers
<1>11. ReadsAt(q) = After(c)
  <2>1. ReadsAt(q) = <<(a + 1) + 1, 0 + 1>>
    BY <1>3, <1>6, <1>7, <1>8 DEF ReadsAt
  <2>2. After(c) = <<n + 1, 1>>
    BY DEF After, n
  <2>3. 0 + 1 = 1
    OBVIOUS
  <2> QED
    BY <1>1, <2>1, <2>2, <2>3
<1>12. Piped(q)
  BY <1>0, <1>6, <1>8, <1>11, ReadPiped DEF Moving, Next_, request
<1>13. ~p.sh.stopping => Live(q)
  <2> SUFFICES ASSUME ~p.sh.stopping PROVE Live(q)
    OBVIOUS
  <2>1. Queued(q)
    BY <1>0, <1>6, <1>8 DEF Live, Queued
  <2>2. Coming(q)
    BY <1>0, <1>6, <1>8 DEF Live, Coming
  <2>3. WriterComes(q) /\ DrainComes(q) /\ Open(q, "data")
    BY <1>0, <1>8 DEF Live, WriterComes, DrainComes, Moving, Processes
  <2> QED
    BY <2>1, <2>2, <2>3 DEF Live
<1>14. Good(q, cs)
  BY <1>5, <1>6, <1>9, <1>10, <1>12, <1>13, InGood DEF Moving, q
<1>15. Worked(q, p)
  <2>1. Len(p.w.got) <= Len(got)
    BY <1>0, <1>3 DEF a
  <2> QED
    BY <1>6, <1>8, <2>1 DEF Worked
<1> QED
  BY <1>14, <1>15 DEF q, v

\* The worker sends a message.
Emitted(p) == [p.w EXCEPT !.emitted = @ + 1, !.response = Append(@, p.w.emitted + 1)]

LEMMA EmittedGood ==
  ASSUME NEW p, NEW cs, Good(p, cs), p.w.worker.alive, p.w.emitted < MaxMessages
  PROVE  Good(In(p, Emitted(p)), cs) /\ Worked(In(p, Emitted(p)), p)
<1> DEFINE n == p.w.emitted + 1
           m == Len(p.w.response)
           response == Append(p.w.response, n)
           v == Emitted(p)
           q == In(p, v)
<1>0. /\ p \in States /\ Moving(p) /\ (~p.sh.stopping => Live(p)) /\ p.w \in Worlds
      /\ p.w.response \in Seq(Nat) /\ m \in Nat /\ p.w.emitted \in Nat /\ MaxMessages \in Nat
      /\ p.w.handled \in Seq(Nat) /\ p.sh.rx \in Seq(Nat) /\ p.w.got \in Seq(Nat)
  BY GoodParts, StateFields, Bounds
<1>1. n \in Nat /\ n = p.w.emitted + 1 /\ n <= MaxMessages
  BY <1>0
<1>2. v = [p.w EXCEPT !.emitted = n, !.response = response]
  BY <1>0 DEF Emitted, Worlds
<1> HIDE DEF v, n
<1>3. /\ response \in Seq(Nat) /\ Len(response) = m + 1 /\ DOMAIN response = 1..(m + 1)
      /\ response[m + 1] = n /\ \A i \in 1..m : response[i] = p.w.response[i]
  <2>1. response \in Seq(Nat) /\ IsSeq(p.w.response)
    BY <1>0, <1>1, SeqIsSeq
  <2>2. /\ IsSeq(response) /\ Len(response) = m + 1 /\ response[m + 1] = n
        /\ \A i \in 1..m : response[i] = p.w.response[i]
    BY <2>1, SeqAppend
  <2> QED
    BY <2>1, <2>2, SeqFacts
<1> HIDE DEF response
<1>5. v \in Worlds
  BY <1>0, <1>1, <1>2, <1>3, Zenon DEF Worlds
<1>6. /\ v.request = p.w.request /\ v.writer = p.w.writer /\ v.response = response
      /\ v.worker = p.w.worker
      /\ v.frames = p.w.frames /\ v.handed = p.w.handed /\ v.got = p.w.got
      /\ v.emitted = n /\ v.handled = p.w.handled /\ v.futile = p.w.futile
  BY <1>0, <1>2 DEF Worlds
<1>8. q.sh = p.sh /\ q.w = v /\ \A kind : Open(q, kind) <=> Open(p, kind)
  BY <1>0, <1>5, InFields
<1> HIDE DEF q
<1>9. Processes(q)
  BY <1>0, <1>6, <1>8 DEF Moving, Processes
<1>10. Numbers(q)
  <2>1. Len(p.w.handled) <= n
    <3> DEFINE h == Len(p.w.handled)
    <3>1. h \in Nat /\ h <= p.w.emitted
      BY <1>0 DEF Moving, Numbers
    <3> HIDE DEF h
    <3>2. h <= n
      BY ONLY <1>0, <1>1, <3>1
    <3> QED
      BY <3>2 DEF h
  <2> QED
    BY <1>0, <1>1, <1>6, <1>8, <2>1 DEF Moving, Numbers
<1>11. ReadsAt(q) = ReadsAt(p) /\ WritesAt(q) = WritesAt(p)
  BY <1>6, <1>8 DEF ReadsAt, WritesAt
<1>12. Piped(q)
  BY <1>0, <1>6, <1>8, <1>11 DEF Moving, Piped
<1>13. ~p.sh.stopping => Live(q)
  <2> SUFFICES ASSUME ~p.sh.stopping PROVE Live(q)
    OBVIOUS
  <2>1. Queued(q)
    BY <1>0, <1>6, <1>8 DEF Live, Queued
  <2>2. Coming(q)
    <3> DEFINE h == Len(p.w.handled)
               r == Len(p.sh.rx)
    <3>1. h \in Nat /\ r \in Nat /\ DOMAIN p.w.response = 1..m
      BY <1>0
    <3>2. /\ \A i \in DOMAIN p.sh.rx : p.sh.rx[i] = h + i
          /\ \A i \in 1..m : p.w.response[i] = h + r + i
          /\ p.w.emitted = h + r + m
      BY <1>0, <3>1 DEF Live, Coming
    <3> HIDE DEF h, r, m
    <3>3. n = h + r + (m + 1)
      BY ONLY <1>0, <1>1, <3>1, <3>2
    <3>4. \A i \in 1..(m + 1) : response[i] = h + r + i
      <4> SUFFICES ASSUME NEW i \in 1..(m + 1) PROVE response[i] = h + r + i
        OBVIOUS
      <4>1. i \in 1..m \/ i = m + 1
        BY ONLY <1>0, i \in 1..(m + 1)
      <4> QED
        BY ONLY <1>3, <3>2, <3>3, <4>1
    <3> QED
      BY <1>3, <1>6, <1>8, <3>2, <3>3, <3>4 DEF Coming, h, r
  <2>3. WriterComes(q) /\ DrainComes(q) /\ Open(q, "data")
    BY <1>0, <1>8 DEF Live, WriterComes, DrainComes, Moving, Processes
  <2> QED
    BY <2>1, <2>2, <2>3 DEF Live
<1>14. Good(q, cs)
  BY <1>5, <1>6, <1>9, <1>10, <1>12, <1>13, InGood DEF Moving, q
<1>15. Worked(q, p)
  <2>1. Len(p.w.got) <= Len(p.w.got)
    BY <1>0
  <2> QED
    BY <1>6, <1>8, <2>1 DEF Worked
<1> QED
  BY <1>14, <1>15 DEF q, v

-----------------------------------------------------------------------------
(***************************************************************************)
(* The steps of the specification: each keeps the invariant, and does one  *)
(* thing to the channels.                                                  *)
(***************************************************************************)
Step(q, p) == Listened(q, p) \/ Ended(q) \/ Worked(q, p)

LEMMA KeptStep ==
  ASSUME NEW p, NEW q, p \in States, Kept(q, p)
  PROVE  Step(q, p)
<1>1. p.w.handled \in Seq(Nat)
  BY StateFields
<1>2. q.w.got = p.w.got /\ q.w.emitted = p.w.emitted /\ q.w.handled = p.w.handled
  BY DEF Kept, Heard
<1>3. Len(p.w.handled) <= Len(p.w.handled)
  BY <1>1
<1> QED
  BY <1>2, <1>3 DEF Step, Listened

\* The state is what an operator computes, with or without a fault.
LEMMA BecomeNow ==
  ASSUME NEW p \in States, Become(p)
  PROVE  Now' = p
<1>1. sh' = p.sh /\ w' = p.w
  BY DEF Become
<1>2. p = [sh |-> p.sh, w |-> p.w]
  BY DEF States
<1> QED
  BY <1>1, <1>2 DEF Now

LEMMA TriedNow ==
  ASSUME NEW p, NEW r, NEW cs, Good(r, cs), Step(r, p),
         Become(r) \/ Become([r EXCEPT !.w.faults = @ + 1])
  PROVE  Good(Now', cs) /\ Step(Now', p)
<1> DEFINE f == [r EXCEPT !.w.faults = @ + 1]
<1>1. CASE Become(r)
  <2>1. Now' = r
    BY <1>1, GoodParts, BecomeNow
  <2> QED
    BY <2>1
<1>2. CASE Become(f)
  <2>1. /\ Good(f, cs) /\ f.sh = r.sh /\ Heard(f) = Heard(r) /\ f.w.handed = r.w.handed
    BY FaultGood
  <2> HIDE DEF f
  <2>2. Now' = f
    BY <1>2, <2>1, GoodParts, BecomeNow
  <2>3. Step(f, p)
    BY <2>1 DEF Step, Listened, Ended, Worked, Heard
  <2> QED
    BY <2>1, <2>2, <2>3
<1> QED
  BY <1>1, <1>2

LEMMA NowParts ==
  ASSUME TransportInv
  PROVE  Now.sh = sh /\ Now.w = w /\ Now \in States /\ CallSet(calls) /\ Good(Now, calls)
<1>1. Good(Now, calls) /\ CallSet(calls)
  BY DEF TransportInv
<1> QED
  BY <1>1, GoodParts DEF Now

\* A step of the shell or of a process that ZLE does not see.
LEMMA StepKeeps ==
  ASSUME CallSet(calls), Good(Now', calls), Step(Now', Now), UNCHANGED calls
  PROVE  TransportInv' /\ Step(Now', Now)
BY DEF TransportInv

-----------------------------------------------------------------------------
LEMMA RequestStep ==
  ASSUME TransportInv, NEW parts \in RequestParts, Request(parts)
  PROVE  TransportInv' /\ Step(Now', Now)
<1> DEFINE p == [Now EXCEPT !.sh.txq = Append(@, Frame(w.frames + 1, parts)), !.w.frames = @ + 1]
           F(o) == Flush(p, o)
<1>0. /\ Now.sh = sh /\ Now.w = w /\ Now \in States /\ CallSet(calls) /\ Good(Now, calls)
      /\ parts \in {1, 2}
  BY NowParts, Bounds
<1>1. PICK o \in {"spawn", "watch", "ok"} :
        Become(F(o)) \/ Become([F(o) EXCEPT !.w.faults = @ + 1])
  BY DEF Request, Try
<1>2. Open(Now, "data") /\ ~sh.stopping /\ w.frames < 2 + MaxRequests /\ UNCHANGED calls
  BY DEF Request, Up
<1>3. p = [Now EXCEPT !.sh.txq = Append(@, Frame(Now.w.frames + 1, parts)), !.w.frames = @ + 1]
  BY <1>0
<1> HIDE DEF p
<1>4. Running(p, calls) /\ DrainComes(p) /\ Heard(p) = Heard(Now)
  BY <1>0, <1>2, <1>3, QueuedRunning
<1>5. Sent(F(o), p, calls)
  BY <1>0, <1>4, FlushGood
<1> HIDE DEF F
<1>6. Good(F(o), calls) /\ Kept(F(o), Now)
  BY <1>4, <1>5 DEF Sent, Kept
<1>7. Good(Now', calls) /\ Step(Now', Now)
  BY <1>0, <1>1, <1>6, KeptStep, TriedNow
<1> QED
  BY <1>0, <1>2, <1>7, StepKeeps

LEMMA StartStep ==
  ASSUME TransportInv, Start
  PROVE  TransportInv' /\ Step(Now', Now)
<1>0. Now.sh = sh /\ Now.w = w /\ Now \in States /\ CallSet(calls) /\ Good(Now, calls)
  BY NowParts
<1>1. PICK nb \in BOOLEAN, o \in {"ok", "endpoints", "spawn", "watch", "both", "writer", "unwatched"} :
        \/ Become(StartWith(Now, o, nb))
        \/ Become([StartWith(Now, o, nb) EXCEPT !.w.faults = @ + 1])
  BY DEF Start, Try
<1>2. /\ sh.doing = "nothing" /\ ~sh.disabled /\ ~sh.stopping /\ ~sh.tainted
      /\ ~Open(Now, "data") /\ UNCHANGED calls
  BY DEF Start, MayStart
<1>3. Good(StartWith(Now, o, nb), calls) /\ Heard(StartWith(Now, o, nb)) = Heard(Now)
  BY <1>0, <1>2, StartGood
<1> DEFINE r == StartWith(Now, o, nb)
<1> HIDE DEF r
<1>4. Good(r, calls) /\ Kept(r, Now)
  BY <1>3 DEF Kept, r
<1>5. Good(Now', calls) /\ Step(Now', Now)
  <2>1. Become(r) \/ Become([r EXCEPT !.w.faults = @ + 1])
    BY <1>1 DEF r
  <2> QED
    BY <1>0, <1>4, <2>1, KeptStep, TriedNow
<1> QED
  BY <1>0, <1>2, <1>5, StepKeeps

LEMMA StartTaintedStep ==
  ASSUME TransportInv, StartTainted
  PROVE  TransportInv' /\ Step(Now', Now)
<1> DEFINE r == SessionFail([Now EXCEPT !.w.futile = @ + 1])
<1>0. Now.sh = sh /\ Now.w = w /\ Now \in States /\ CallSet(calls) /\ Good(Now, calls)
  BY NowParts
<1>1. /\ sh.doing = "nothing" /\ ~sh.disabled /\ ~sh.stopping
      /\ ~Open(Now, "data") /\ UNCHANGED calls /\ Become(r)
  BY DEF StartTainted
<1>2. Good(r, calls) /\ Heard(r) = Heard(Now)
  BY <1>0, <1>1, FutileFail
<1> HIDE DEF r
<1>3. Good(Now', calls) /\ Step(Now', Now)
  BY <1>0, <1>1, <1>2, KeptStep, TriedNow DEF Kept
<1> QED
  BY <1>0, <1>1, <1>3, StepKeeps

LEMMA SessionErrorStep ==
  ASSUME TransportInv, SessionError
  PROVE  TransportInv' /\ Step(Now', Now)
<1> DEFINE f == [Now EXCEPT !.w.faults = @ + 1]
           r == SessionFail(f)
<1>0. Now.sh = sh /\ Now.w = w /\ Now \in States /\ CallSet(calls) /\ Good(Now, calls)
  BY NowParts
<1>1. Open(Now, "data") /\ ~sh.stopping /\ UNCHANGED calls /\ Become(r)
  BY DEF SessionError, Up
<1>2. Good(f, calls) /\ f.sh = Now.sh /\ Heard(f) = Heard(Now)
  BY <1>0, FaultGood
<1> HIDE DEF f
<1>3. Open(f, "data") /\ ~f.sh.stopping
  BY <1>0, <1>1, <1>2 DEF Open
<1>4. Running(f, calls) /\ Common(f, calls)
  BY <1>2, <1>3, RunningGood DEF Running
<1>5. ~f.sh.disabled /\ f.w.futile <= f.sh.failures + 1
  BY <1>4, RunningGood
<1>6. Good(r, calls) /\ Heard(r) = Heard(f)
  BY <1>0, <1>3, <1>4, <1>5, SessionFailGood
<1> HIDE DEF r
<1>7. Good(Now', calls) /\ Step(Now', Now)
  BY <1>0, <1>1, <1>2, <1>6, KeptStep, TriedNow DEF Kept
<1> QED
  BY <1>0, <1>1, <1>7, StepKeeps

LEMMA CallStep ==
  ASSUME TransportInv, Call
  PROVE  TransportInv' /\ Step(Now', Now)
<1>0. Now.sh = sh /\ Now.w = w /\ Now \in States /\ CallSet(calls) /\ Good(Now, calls)
  BY NowParts
<1>1. PICK call \in calls, o \in {"spawn", "watch", "read", "ok"} :
        /\ sh.doing = "nothing" /\ calls' = calls \ {call}
        /\ sh.stopping \/ o \in {"spawn", "watch", "ok"}
        /\ LET r == IF CallbackCurrent(Now, call) THEN Handle(Now, call.kind, o) ELSE Now
           IN  Become(r) \/ Become([r EXCEPT !.w.faults = @ + 1])
  BY DEF Call, Try
<1> DEFINE cs == calls \ {call}
           r == IF CallbackCurrent(Now, call) THEN Handle(Now, call.kind, o) ELSE Now
<1>2. cs \in SUBSET calls /\ CallSet(cs) /\ Good(Now, cs)
  <2>1. cs \in SUBSET calls
    OBVIOUS
  <2> HIDE DEF cs
  <2> QED
    BY <1>0, <2>1, FewerCalls, FewerGood
<1>3. calls' = cs
  BY <1>1
<1> HIDE DEF cs
<1>4. Good(r, cs) /\ Step(r, Now)
  <2>1. CASE CallbackCurrent(Now, call)
    <3> DEFINE h == Handle(Now, call.kind, o)
    <3>1. Served(h, Now, cs)
      BY <1>0, <1>1, <1>2, <2>1, HandleServed
    <3>2. r = h
      BY <2>1
    <3> HIDE DEF h, r
    <3> QED
      BY <3>1, <3>2 DEF Served, Step
  <2>2. CASE ~CallbackCurrent(Now, call)
    <3>1. r = Now /\ Kept(Now, Now)
      BY <2>2 DEF Kept
    <3> HIDE DEF r
    <3> QED
      BY <1>0, <1>2, <3>1, KeptStep
  <2> QED
    BY <2>1, <2>2
<1>5. Become(r) \/ Become([r EXCEPT !.w.faults = @ + 1])
  BY <1>1
<1> HIDE DEF r
<1>6. Good(Now', cs) /\ Step(Now', Now)
  BY <1>4, <1>5, TriedNow
<1> QED
  BY <1>2, <1>3, <1>6 DEF TransportInv

LEMMA PollStep ==
  ASSUME TransportInv, Poll
  PROVE  TransportInv' /\ Step(Now', Now)
<1> DEFINE kinds == {kind \in Kinds : Ready(kind)}
           made(kind) == [kind |-> kind, fd |-> sh.callback[kind].fd, gen |-> sh.callback[kind].gen]
           cs == {made(kind) : kind \in kinds}
<1>0. Now.sh = sh /\ Now.w = w /\ Now \in States /\ CallSet(calls) /\ Good(Now, calls)
  BY NowParts
<1>1. calls' = cs /\ sh' = sh /\ w' = w
  BY DEF Poll
<1>2. Now' = Now
  BY <1>1 DEF Now
<1>3. \A kind \in kinds : kind \in Kinds /\ sh.callback[kind].gen > 0
  BY DEF Ready
<1>4. \A kind \in Kinds : sh.callback[kind] \in Callbacks
  BY <1>0, StateFields
<1>5. \A kind \in kinds :
        /\ made(kind) \in [kind : Kinds, fd : Fds, gen : 1..7] /\ made(kind).kind = kind
        /\ made(kind).fd = sh.callback[kind].fd /\ made(kind).gen = sh.callback[kind].gen
  <2> SUFFICES ASSUME NEW kind \in kinds
               PROVE  /\ made(kind) \in [kind : Kinds, fd : Fds, gen : 1..7] /\ made(kind).kind = kind
                      /\ made(kind).fd = sh.callback[kind].fd /\ made(kind).gen = sh.callback[kind].gen
    OBVIOUS
  <2>1. sh.callback[kind].fd \in Fds /\ sh.callback[kind].gen \in 1..7 /\ kind \in Kinds
    BY <1>3, <1>4 DEF Callbacks
  <2> QED
    BY <2>1
<1> HIDE DEF kinds, made
<1>6. CallSet(cs)
  BY <1>5 DEF CallSet
<1>7. Handlers(Now, cs)
  BY <1>0, <1>5 DEF Good, Body, Common, Watched, Handlers
<1> HIDE DEF cs
<1>8. Good(Now, cs)
  BY <1>0, <1>7 DEF Good, Body, Common, Watched
<1>9. Step(Now, Now)
  BY <1>0, KeptStep DEF Kept
<1> QED
  BY <1>1, <1>2, <1>6, <1>8, <1>9 DEF TransportInv

LEMMA AbortStepStep ==
  ASSUME TransportInv, AbortStep
  PROVE  TransportInv' /\ Step(Now', Now)
<1>0. Now.sh = sh /\ Now.w = w /\ Now \in States /\ CallSet(calls) /\ Good(Now, calls)
  BY NowParts
<1> DEFINE R(o) ==
             LET s == StopProgress(Now, o) IN IF s.sh.stopping THEN s ELSE Return(s)
<1>5. PICK o \in {"read", "ok"} : Become(R(o)) \/ Become([R(o) EXCEPT !.w.faults = @ + 1])
  BY DEF AbortStep, Try
<1> DEFINE r == R(o)
<1>1. /\ sh.doing = "abort" /\ UNCHANGED calls
      /\ Become(r) \/ Become([r EXCEPT !.w.faults = @ + 1])
  BY <1>5 DEF AbortStep
<1>2. Good(r, calls) /\ (Kept(r, Now) \/ Ended(r))
  BY <1>0, <1>1, AbortedGood
<1> HIDE DEF r
<1>3. Step(r, Now)
  BY <1>0, <1>2, KeptStep DEF Step
<1>4. Good(Now', calls) /\ Step(Now', Now)
  BY <1>1, <1>2, <1>3, TriedNow
<1> QED
  BY <1>0, <1>1, <1>4, StepKeeps

LEMMA AbortExpireStep ==
  ASSUME TransportInv, AbortExpire
  PROVE  TransportInv' /\ Step(Now', Now)
<1>0. Now.sh = sh /\ Now.w = w /\ Now \in States /\ CallSet(calls) /\ Good(Now, calls)
  BY NowParts
<1> DEFINE R(o) == Return(StopProgress(Now, o))
<1>5. PICK o \in {"read", "ok"} : Become(R(o)) \/ Become([R(o) EXCEPT !.w.faults = @ + 1])
  BY DEF AbortExpire, Try
<1> DEFINE r == R(o)
<1>1. /\ sh.doing = "abort" /\ UNCHANGED calls
      /\ Become(r) \/ Become([r EXCEPT !.w.faults = @ + 1])
  BY <1>5 DEF AbortExpire
<1>2. Good(r, calls) /\ (Kept(r, Now) \/ Ended(r))
  BY <1>0, <1>1, AbortedGood
<1> HIDE DEF r
<1>3. Step(r, Now)
  BY <1>0, <1>2, KeptStep DEF Step
<1>4. Good(Now', calls) /\ Step(Now', Now)
  BY <1>1, <1>2, <1>3, TriedNow
<1> QED
  BY <1>0, <1>1, <1>4, StepKeeps

LEMMA ShutdownAgainStep ==
  ASSUME TransportInv, ShutdownAgain
  PROVE  TransportInv' /\ Step(Now', Now)
<1>0. Now.sh = sh /\ Now.w = w /\ Now \in States /\ CallSet(calls) /\ Good(Now, calls)
  BY NowParts
<1> DEFINE R(o) == StopProgress(Now, o)
<1>1. PICK o \in {"read", "ok"} : Become(R(o)) \/ Become([R(o) EXCEPT !.w.faults = @ + 1])
  BY DEF ShutdownAgain, Try
<1> DEFINE r == R(o)
<1>2. /\ sh.doing = "nothing" /\ sh.stopping /\ UNCHANGED calls
      /\ Become(r) \/ Become([r EXCEPT !.w.faults = @ + 1])
  BY <1>1 DEF ShutdownAgain
<1>3. Served(r, Now, calls)
  BY <1>0, <1>2, StoppingServed
<1> HIDE DEF r
<1>4. Good(Now', calls) /\ Step(Now', Now)
  BY <1>2, <1>3, TriedNow DEF Served, Step
<1> QED
  BY <1>0, <1>2, <1>4, StepKeeps

LEMMA ShutdownStep ==
  ASSUME TransportInv, Shutdown
  PROVE  TransportInv' /\ Step(Now', Now)
<1> DEFINE r == [BeginStop(Now) EXCEPT !.sh.doing = "ack", !.sh.after = "source", !.w.futile = 0]
<1>0. Now.sh = sh /\ Now.w = w /\ Now \in States /\ CallSet(calls) /\ Good(Now, calls)
  BY NowParts
<1>1. Become(r) /\ UNCHANGED calls
  BY DEF Shutdown
<1>2. Good(r, calls) /\ Kept(r, Now)
  BY <1>0, ShutdownGood
<1> HIDE DEF r
<1>3. Good(Now', calls) /\ Step(Now', Now)
  BY <1>0, <1>1, <1>2, KeptStep, TriedNow
<1> QED
  BY <1>0, <1>1, <1>3, StepKeeps

LEMMA ShutdownExpireStep ==
  ASSUME TransportInv, ShutdownExpire
  PROVE  TransportInv' /\ Step(Now', Now)
<1> DEFINE r == Abort(Now)
<1>0. Now.sh = sh /\ Now.w = w /\ Now \in States /\ CallSet(calls) /\ Good(Now, calls)
  BY NowParts
<1>1. sh.doing \in {"ack", "eof"} /\ Become(r) /\ UNCHANGED calls
  BY DEF ShutdownExpire
<1>2. Now.sh.stopping
  BY <1>0, <1>1, GoodParts DEF Waiting
<1>3. Good(r, calls) /\ Kept(r, Now)
  BY <1>0, <1>2, AbortGood
<1> HIDE DEF r
<1>4. Good(Now', calls) /\ Step(Now', Now)
  BY <1>0, <1>1, <1>3, KeptStep, TriedNow
<1> QED
  BY <1>0, <1>1, <1>4, StepKeeps

LEMMA ShutdownAckStep ==
  ASSUME TransportInv, ShutdownAck
  PROVE  TransportInv' /\ Step(Now', Now)
<1> DEFINE r == AckWaited(Now)
<1>0. Now.sh = sh /\ Now.w = w /\ Now \in States /\ CallSet(calls) /\ Good(Now, calls)
  BY NowParts
<1>1. sh.doing = "ack" /\ Become(r) /\ UNCHANGED calls
  BY DEF ShutdownAck, AckWaited
<1>2. Good(r, calls) /\ Kept(r, Now)
  BY <1>0, <1>1, AckWaitedGood
<1> HIDE DEF r
<1>3. Good(Now', calls) /\ Step(Now', Now)
  BY <1>0, <1>1, <1>2, KeptStep, TriedNow
<1> QED
  BY <1>0, <1>1, <1>3, StepKeeps

LEMMA ShutdownEofStep ==
  ASSUME TransportInv, ShutdownEof
  PROVE  TransportInv' /\ Step(Now', Now)
<1> DEFINE r == EofWaited([Now EXCEPT !.w.response = <<>>])
<1>0. Now.sh = sh /\ Now.w = w /\ Now \in States /\ CallSet(calls) /\ Good(Now, calls)
  BY NowParts
<1>1. sh.doing = "eof" /\ Become(r) /\ UNCHANGED calls
  BY DEF ShutdownEof, EofWaited
<1>2. Good(r, calls) /\ (Kept(r, Now) \/ Ended(r))
  BY <1>0, <1>1, EofWaitedGood
<1> HIDE DEF r
<1>3. Step(r, Now)
  BY <1>0, <1>2, KeptStep DEF Step
<1>4. Good(Now', calls) /\ Step(Now', Now)
  BY <1>1, <1>2, <1>3, TriedNow
<1> QED
  BY <1>0, <1>1, <1>4, StepKeeps

\* The processes change the world and nothing else.
LEMMA ElsewhereKeeps ==
  ASSUME TransportInv, NEW v, Good(In(Now, v), calls), Step(In(Now, v), Now),
         Elsewhere(v) \/ Elsewhere([v EXCEPT !.faults = @ + 1])
  PROVE  TransportInv' /\ Step(Now', Now)
<1> DEFINE r == In(Now, v)
<1>0. r = [sh |-> sh, w |-> v] /\ UNCHANGED calls /\ CallSet(calls)
  BY NowParts DEF In, Now, Elsewhere
<1>1. Become(r) \/ Become([r EXCEPT !.w.faults = @ + 1])
  <2>1. CASE Elsewhere(v)
    BY <1>0, <2>1 DEF Elsewhere, Become
  <2>2. CASE Elsewhere([v EXCEPT !.faults = @ + 1])
    <3> DEFINE f == [r EXCEPT !.w.faults = @ + 1]
    <3>1. f.sh = sh /\ f.w = [v EXCEPT !.faults = @ + 1]
      BY <1>0
    <3> HIDE DEF f
    <3> QED
      BY <2>2, <3>1 DEF Elsewhere, Become, f
  <2> QED
    BY <2>1, <2>2
<1> HIDE DEF r
<1>2. Good(Now', calls) /\ Step(Now', Now)
  BY <1>1, TriedNow DEF r
<1> QED
  BY <1>0, <1>2, StepKeeps

LEMMA WriterWritesStep ==
  ASSUME TransportInv, WriterWrites
  PROVE  TransportInv' /\ Step(Now', Now)
<1> DEFINE v == Wrote(Now)
<1>0. Now.sh = sh /\ Now.w = w /\ Now \in States /\ CallSet(calls) /\ Good(Now, calls)
  BY NowParts
<1>1. w.writer.at = "writing" /\ w.worker.alive /\ Len(w.request) < Capacity
  BY DEF WriterWrites
<1>2. Elsewhere(v)
  BY <1>0 DEF WriterWrites, Wrote, WriterChunk
<1>3. Good(In(Now, v), calls) /\ Kept(In(Now, v), Now)
  BY <1>0, <1>1, WroteGood
<1> HIDE DEF v
<1> QED
  BY <1>0, <1>2, <1>3, KeptStep, ElsewhereKeeps

LEMMA WriterDiesStep ==
  ASSUME TransportInv, WriterFails \/ WriterKilled
  PROVE  TransportInv' /\ Step(Now', Now)
<1> DEFINE v == [w EXCEPT !.writer.at = "dead"]
<1>0. Now.sh = sh /\ Now.w = w /\ Now \in States /\ CallSet(calls) /\ Good(Now, calls)
  BY NowParts
<1>1. w.writer.at = "writing"
  BY DEF WriterFails, WriterKilled
<1>2. Elsewhere(v) \/ Elsewhere([v EXCEPT !.faults = @ + 1])
  <2>1. w \in Worlds
    BY <1>0, StateFields
  <2>2. [v EXCEPT !.faults = @ + 1] = [w EXCEPT !.writer.at = "dead", !.faults = @ + 1]
    BY <2>1 DEF Worlds
  <2> QED
    BY <2>2 DEF WriterFails, WriterKilled
<1>3. Good(In(Now, v), calls) /\ Kept(In(Now, v), Now)
  BY <1>0, <1>1, WriterDiedGood
<1> HIDE DEF v
<1> QED
  BY <1>0, <1>2, <1>3, KeptStep, ElsewhereKeeps

LEMMA WorkerReadsStep ==
  ASSUME TransportInv, WorkerReads
  PROVE  TransportInv' /\ Step(Now', Now)
<1> DEFINE c == Next_(Now)
<1>0. Now.sh = sh /\ Now.w = w /\ Now \in States /\ CallSet(calls) /\ Good(Now, calls)
  BY NowParts
<1>1. w.worker.alive /\ w.request # <<>> /\ c = Head(w.request)
  BY <1>0 DEF WorkerReads, Next_
<1>2. c.k = w.worker.read + 1 /\ (c.k = 1 \/ c.n = w.worker.part.n)
  BY <1>0, <1>1, NextChunk
<1> HIDE DEF c
<1>3. CASE c.k = c.parts
  <2> DEFINE v == GotFrame(Now)
  <2>1. Elsewhere(v)
    BY <1>0, <1>1, <1>2, <1>3 DEF WorkerReads, GotFrame, c
  <2>2. Good(In(Now, v), calls) /\ Worked(In(Now, v), Now)
    BY <1>0, <1>1, <1>3, GotFrameGood DEF c
  <2> HIDE DEF v
  <2> QED
    BY <2>1, <2>2, ElsewhereKeeps DEF Step
<1>4. CASE c.k # c.parts
  <2> DEFINE v == GotPart(Now)
  <2>1. Elsewhere(v)
    BY <1>0, <1>1, <1>2, <1>4 DEF WorkerReads, GotPart, c
  <2>2. Good(In(Now, v), calls) /\ Kept(In(Now, v), Now)
    BY <1>0, <1>1, <1>4, GotPartGood DEF c
  <2> HIDE DEF v
  <2> QED
    BY <1>0, <2>1, <2>2, KeptStep, ElsewhereKeeps
<1> QED
  BY <1>3, <1>4

LEMMA WorkerEmitsStep ==
  ASSUME TransportInv, WorkerEmits
  PROVE  TransportInv' /\ Step(Now', Now)
<1> DEFINE v == Emitted(Now)
<1>0. Now.sh = sh /\ Now.w = w /\ Now \in States /\ CallSet(calls) /\ Good(Now, calls)
  BY NowParts
<1>1. w.worker.alive /\ w.emitted < MaxMessages
  BY DEF WorkerEmits
<1>2. Elsewhere(v)
  BY <1>0 DEF WorkerEmits, Emitted
<1>3. Good(In(Now, v), calls) /\ Worked(In(Now, v), Now)
  BY <1>0, <1>1, EmittedGood
<1> HIDE DEF v
<1> QED
  BY <1>2, <1>3, ElsewhereKeeps DEF Step

LEMMA WorkerGoneStep ==
  ASSUME TransportInv, WorkerEnds \/ WorkerCrashes
  PROVE  TransportInv' /\ Step(Now', Now)
<1> DEFINE v == [w EXCEPT !.worker.alive = FALSE]
<1>0. Now.sh = sh /\ Now.w = w /\ Now \in States /\ CallSet(calls) /\ Good(Now, calls)
  BY NowParts
<1>2. Elsewhere(v) \/ Elsewhere([v EXCEPT !.faults = @ + 1])
  <2>1. w \in Worlds
    BY <1>0, StateFields
  <2>2. [v EXCEPT !.faults = @ + 1] = [w EXCEPT !.worker.alive = FALSE, !.faults = @ + 1]
    BY <2>1 DEF Worlds
  <2> QED
    BY <2>2 DEF WorkerEnds, WorkerCrashes
<1>3. Good(In(Now, v), calls) /\ Kept(In(Now, v), Now)
  BY <1>0, WorkerGoneGood
<1> HIDE DEF v
<1> QED
  BY <1>0, <1>2, <1>3, KeptStep, ElsewhereKeeps

-----------------------------------------------------------------------------
(***************************************************************************)
(* The invariant.                                                          *)
(***************************************************************************)
\* In the beginning there is nothing.
LEMMA InitInv == Init => TransportInv
<1> SUFFICES ASSUME Init PROVE TransportInv
  OBVIOUS
<1>1. /\ sh = [stopping |-> FALSE, tainted |-> FALSE, disabled |-> FALSE, failures |-> 0,
               fd |-> [kind \in Kinds |-> NoFd], wfd |-> FALSE, nbwfd |-> FALSE, control |-> FALSE,
               txq |-> <<>>, rx |-> <<>>, callback |-> [kind \in Kinds |-> NoCallback],
               doing |-> "nothing", after |-> "nothing", unread |-> FALSE]
      /\ w = [request |-> <<>>, response |-> <<>>,
              worker |-> NoWorker, writer |-> NoWriter,
              session |-> 0, frames |-> 0, faults |-> 0,
              handed |-> <<>>, got |-> <<>>, emitted |-> 0, handled |-> <<>>,
              futile |-> 0]
      /\ calls = {}
  BY DEF Init
<1>2. sh \in Shells
  <2>1. <<>> \in Seq(Frames) /\ <<>> \in Seq(Nat) /\ FALSE \in BOOLEAN /\ 0 \in 0..2
        /\ "nothing" \in {"nothing", "abort", "ack", "eof"}
        /\ "nothing" \in {"nothing", "failure", "source"}
    OBVIOUS
  <2>2. [kind \in Kinds |-> NoFd] \in [Kinds -> Fds]
        /\ [kind \in Kinds |-> NoCallback] \in [Kinds -> Callbacks]
    BY Nothings
  <2> QED
    BY <1>1, <2>1, <2>2, Zenon DEF Shells
<1>3. w \in Worlds
  <2>1. <<>> \in Seq(ChunkSet) /\ <<>> \in Seq(Nat) /\ 0 \in Nat
    OBVIOUS
  <2> QED
    BY <1>1, <2>1, Nothings, Zenon DEF Worlds
<1>4. /\ sh.stopping = FALSE /\ sh.disabled = FALSE /\ sh.failures = 0 /\ sh.doing = "nothing"
      /\ sh.after = "nothing" /\ sh.txq = <<>> /\ sh.rx = <<>> /\ sh.unread = FALSE
      /\ \A kind \in Kinds : sh.fd[kind] = NoFd /\ sh.callback[kind] = NoCallback
  BY <1>1
<1>5. /\ w.request = <<>> /\ w.response = <<>> /\ w.worker = NoWorker /\ w.writer = NoWriter
      /\ w.frames = 0 /\ w.handed = <<>> /\ w.got = <<>> /\ w.emitted = 0 /\ w.handled = <<>>
      /\ w.futile = 0
  BY <1>1
<1>6. Now \in States /\ Now.sh = sh /\ Now.w = w
  BY <1>2, <1>3 DEF Now, States
<1>7. CallSet(calls) /\ Handlers(Now, calls)
  BY <1>1, <1>4, <1>6 DEF CallSet, Handlers
<1>8. \A kind \in Kinds : ~Open(Now, kind)
  BY <1>4, <1>6 DEF Open
<1>9. "ack" \in Kinds /\ "data" \in Kinds /\ "drain" \in Kinds
  BY DEF Kinds
<1>10. Watched(Now, calls)
  BY <1>6, <1>7, <1>8 DEF Watched, Registered
<1>11. Len(<<>>) = 0 /\ DOMAIN <<>> = {}
  BY SeqEmpty
<1>12. Processes(Now) /\ ReadsAt(Now) = WritesAt(Now)
  <2>1. /\ Now.w.writer.at = "none" /\ Now.w.worker.alive = FALSE /\ Now.w.worker.read = 0
        /\ 0 + 1 = 1
    BY <1>5, <1>6, Nothings
  <2> QED
    BY <1>5, <1>6, <1>8, <1>9, <2>1 DEF Processes, ReadsAt, WritesAt
<1>13. Piped(Now)
  <2>1. 0 <= Capacity
    BY Bounds
  <2> QED
    BY <1>5, <1>6, <1>11, <1>12, <2>1 DEF Piped
<1>14. Numbers(Now)
  <2>1. 0 <= 0 /\ 0 <= 2 + MaxRequests /\ 0 <= MaxMessages
    BY Bounds
  <2>2. Now.w.worker.read = 0
    BY <1>5, <1>6, Nothings
  <2> QED
    BY <1>5, <1>6, <1>11, <2>1, <2>2 DEF Numbers, InOrder
<1>15. Common(Now, calls)
  BY <1>4, <1>6, <1>10, <1>12, <1>13, <1>14 DEF Common, Moving
<1>16. Streak(Now)
  BY <1>4, <1>5, <1>6 DEF Streak, Counts
<1>17. Live(Now)
  <2>1. 0 = 0 + 0 /\ 0 + 0 = 0 /\ 0 + 0 + 0 = 0 /\ 0 <= 2 + MaxRequests
    BY Bounds
  <2>2. Queued(Now)
    BY <1>4, <1>5, <1>6, <1>11, <2>1 DEF Queued
  <2>3. Coming(Now)
    BY <1>4, <1>5, <1>6, <1>11, <2>1 DEF Coming
  <2>4. WriterComes(Now) /\ DrainComes(Now)
    BY <1>4, <1>6 DEF WriterComes, DrainComes
  <2>5. NoSession(Now)
    BY <1>5, <1>6, <1>8, <1>9, Nothings DEF NoSession
  <2> QED
    BY <2>2, <2>3, <2>4, <2>5 DEF Live
<1> QED
  BY <1>4, <1>6, <1>7, <1>15, <1>16, <1>17 DEF TransportInv, Good, Body, Waiting

\* A step of the specification keeps the invariant.
LEMMA NextInv == TransportInv /\ [Next]_vars => TransportInv' /\ Step(Now', Now)
<1> SUFFICES ASSUME TransportInv, [Next]_vars PROVE TransportInv' /\ Step(Now', Now)
  OBVIOUS
<1>1. CASE UNCHANGED vars
  <2>1. Now' = Now /\ calls' = calls
    BY <1>1 DEF vars, Now
  <2>2. Now \in States /\ CallSet(calls) /\ Good(Now, calls)
    BY NowParts
  <2>3. Step(Now, Now)
    BY <2>2, KeptStep DEF Kept
  <2> QED
    BY <2>1, <2>2, <2>3 DEF TransportInv
<1>2. CASE Next
  <2>1. CASE Start \/ StartTainted \/ SessionError \/ \E parts \in RequestParts : Request(parts)
    BY <2>1, StartStep, StartTaintedStep, SessionErrorStep, RequestStep
  <2>2. CASE Poll \/ Call
    BY <2>2, PollStep, CallStep
  <2>3. CASE ShellWaits \/ AbortExpire \/ Shutdown \/ ShutdownExpire \/ ShutdownAgain
    BY <2>3, AbortStepStep, ShutdownAckStep, ShutdownEofStep, AbortExpireStep, ShutdownStep,
       ShutdownExpireStep, ShutdownAgainStep DEF ShellWaits
  <2>4. CASE WriterWrites \/ WriterFails \/ WriterKilled
    BY <2>4, WriterWritesStep, WriterDiesStep
  <2>5. CASE WorkerReads \/ WorkerEmits \/ WorkerEnds \/ WorkerCrashes
    BY <2>5, WorkerReadsStep, WorkerEmitsStep, WorkerGoneStep
  <2> QED
    BY <1>2, <2>1, <2>2, <2>3, <2>4, <2>5 DEF Next
<1> QED
  BY <1>1, <1>2

\* The strengthened invariant.
THEOREM TransportInvHolds == Spec => []TransportInv
<1>1. TransportInv /\ [Next]_vars => TransportInv'
  BY NextInv
<1> QED
  BY <1>1, InitInv, PTL DEF Spec

\* A handler acts on no descriptor but its own, everything that is waited for
\* is watched, and a worker that never answers is started twice at most.
THEOREM TransportSound == Spec => []TransportIsSound
<1>1. TransportInv => TransportIsSound
  <2> SUFFICES ASSUME TransportInv PROVE TransportIsSound
    OBVIOUS
  <2>0. /\ Now.sh = sh /\ Now.w = w /\ Now \in States /\ CallSet(calls) /\ Good(Now, calls)
        /\ Watched(Now, calls) /\ Moving(Now) /\ Streak(Now) /\ Waiting(Now)
        /\ (~sh.stopping => Live(Now)) /\ (sh.disabled <=> sh.failures = 2)
    BY NowParts, GoodParts
  <2>1. /\ \A kind \in Kinds : sh.fd[kind] \in Fds /\ sh.callback[kind] \in Callbacks
        /\ sh.failures \in 0..2 /\ w.futile \in Nat /\ w.writer \in Writers
        /\ sh.doing \in {"nothing", "abort", "ack", "eof"}
        /\ sh.after \in {"nothing", "failure", "source"}
    BY <2>0, StateFields
  <2>2. \A call \in calls : call.kind \in Kinds /\ call.gen \in 1..7
    BY <2>0 DEF CallSet
  <2>3. \A kind \in Kinds :
          \/ sh.callback[kind].gen = 0
          \/ sh.callback[kind].gen > 0 /\ sh.callback[kind].fd = sh.fd[kind]
    BY <2>0, Nothings DEF Watched, Handlers
  <2>4. TypeOK
    <3>1. \A kind \in Kinds : sh.fd[kind].no \in 0..Cardinality(Kinds)
      BY <2>1, KindsCount DEF Fds
    <3>2. Len(w.request) <= Capacity
      BY <2>0 DEF Moving, Piped
    <3>3. w.writer.left \in 0..2
      BY <2>1 DEF Writers
    <3>4. \A call \in calls : call.kind \in Kinds /\ call.gen > 0
      BY <2>2
    <3> QED
      BY <2>1, <3>1, <3>2, <3>3, <3>4 DEF TypeOK
  <2>5. CallbacksActOnTheirOwn
    <3> SUFFICES ASSUME NEW call \in calls, CallbackCurrent(Now, call)
                 PROVE  call.fd = sh.fd[call.kind]
      BY DEF CallbacksActOnTheirOwn
    <3>1. call.kind \in Kinds /\ call.gen \in 1..7 /\ call.gen = sh.callback[call.kind].gen
      BY <2>0, <2>2 DEF CallbackCurrent
    <3>2. call.fd = sh.callback[call.kind].fd
      BY <2>0, <3>1 DEF Watched, Handlers
    <3> QED
      BY <2>3, <3>1, <3>2
  <2>6. NothingWaitsUnwatched
    <3>0. sh.unread => sh.stopping
      BY <2>0, GoodParts DEF Common
    <3> SUFFICES ASSUME sh.doing = "nothing", ~sh.tainted
                 PROVE  /\ \A kind \in Kinds :
                             Open(Now, kind) =>
                               \/ sh.callback[kind].fd = sh.fd[kind]
                               \/ kind = "data" /\ sh.unread
                        /\ sh.stopping => Open(Now, "ack") \/ Open(Now, "data")
                        /\ ~sh.stopping => /\ sh.txq # <<>> => Open(Now, "ack")
                                           /\ sh.rx # <<>> => Open(Now, "drain")
      BY <3>0 DEF NothingWaitsUnwatched
    <3>1. \A kind \in Kinds :
            Open(Now, kind) =>
              sh.callback[kind].fd = sh.fd[kind] \/ (kind = "data" /\ sh.unread)
      BY <2>0 DEF Watched, Registered, Handlers
    <3>2. sh.stopping => Open(Now, "ack") \/ Open(Now, "data")
      BY <2>0 DEF Waiting
    <3>3. ~sh.stopping => WriterComes(Now) /\ DrainComes(Now)
      BY <2>0 DEF Live
    <3> QED
      BY <2>0, <3>1, <3>2, <3>3 DEF WriterComes, DrainComes
  <2>7. RestartsAreBounded
    <3>1. w.futile <= 2
      <4>1. CASE sh.failures = 2
        <5>1. w.futile <= sh.failures + 0
          BY <2>0, <4>1 DEF Streak, Counts
        <5> QED
          BY <2>1, <4>1, <5>1
      <4>2. CASE sh.failures # 2
        <5>1. w.futile <= sh.failures + 1 \/ w.futile <= sh.failures + 0
          BY <2>0 DEF Streak
        <5> QED
          BY <2>1, <4>2, <5>1
      <4> QED
        BY <4>1, <4>2
    <3>2. /\ ~Open(Now, "data") => ~w.worker.alive
          /\ ~Open(Now, "ack") => w.writer.at # "writing"
      BY <2>0 DEF Moving, Processes
    <3> QED
      BY <3>1, <3>2 DEF RestartsAreBounded
  <2> QED
    BY <2>4, <2>5, <2>6, <2>7 DEF TransportIsSound
<1> QED
  BY <1>1, TransportInvHolds, PTL

-----------------------------------------------------------------------------
(***************************************************************************)
(* The refinement: each direction of a session is a Channel.               *)
(***************************************************************************)
Parts(p) == [i \in DOMAIN p.sh.txq |-> p.sh.txq[i].n]
Requested(p) == p.w.handed \o Parts(p)
Answered(p) == [i \in 1..p.w.emitted |-> i]

\* Of two sequences of numbers in order one continues the other.
LEMMA InOrderPrefix ==
  ASSUME NEW s \in Seq(Nat), NEW t \in Seq(Nat), InOrder(s), InOrder(t), Len(s) <= Len(t)
  PROVE  IsPrefix(s, t)
<1> DEFINE a == Len(s)
           u == SubSeq(s, 1, a)
           v == SubSeq(t, 1, a)
<1>1. a \in Nat /\ a <= Len(s) /\ a <= Len(t) /\ 1 \in Nat \ {0} /\ DOMAIN s = 1..a
      /\ Len(t) \in Nat /\ DOMAIN t = 1..Len(t)
  OBVIOUS
<1> HIDE DEF a
<1>2. /\ u \in Seq(Nat) /\ Len(u) = (IF a < 1 THEN 0 ELSE a - 1 + 1)
      /\ \A i \in 1..Len(u) : u[i] = s[1 + i - 1]
  BY <1>1, SubSeqFields
<1>3. /\ v \in Seq(Nat) /\ Len(v) = (IF a < 1 THEN 0 ELSE a - 1 + 1)
      /\ \A i \in 1..Len(v) : v[i] = t[1 + i - 1]
  BY <1>1, SubSeqFields
<1> HIDE DEF u, v
<1>4. Len(u) = a /\ Len(v) = a
  BY ONLY <1>1, <1>2, <1>3
<1>5. ASSUME NEW i \in 1..a PROVE u[i] = v[i]
  <2>1. 1 + i - 1 = i /\ i \in 1..Len(t)
    BY ONLY <1>1, i \in 1..a
  <2>2. u[i] = s[i] /\ v[i] = t[i]
    BY ONLY <1>2, <1>3, <1>4, <2>1, i \in 1..a
  <2>3. s[i] = i /\ t[i] = i
    BY <1>1, <2>1 DEF InOrder
  <2> QED
    BY ONLY <2>2, <2>3
<1>6. u = v
  BY <1>2, <1>3, <1>4, <1>5
<1> QED
  BY <1>1, <1>6 DEF IsPrefix, u, v, a

\* What was handed over and what is queued, in order.
LEMMA RequestedFields ==
  ASSUME NEW p, NEW cs, Good(p, cs)
  PROVE  /\ Requested(p) \in Seq(0..(2 + MaxRequests)) /\ Requested(p) \in Seq(Nat)
         /\ InOrder(Requested(p)) /\ IsPrefix(p.w.got, Requested(p))
<1> DEFINE a == Len(p.w.handed)
           l == Len(p.sh.txq)
           e == Parts(p)
           s == Requested(p)
           max == 2 + MaxRequests
<1>0. /\ p \in States /\ Numbers(p) /\ (~p.sh.stopping => Queued(p))
      /\ (p.sh.stopping => p.sh.txq = <<>>)
      /\ p.w.handed \in Seq(Nat) /\ p.w.got \in Seq(Nat) /\ p.sh.txq \in Seq(Frames)
      /\ p.sh.stopping \in BOOLEAN
  BY GoodParts, StateFields DEF Moving, Live, Quiet
<1>1. /\ a \in Nat /\ l \in Nat /\ max \in Nat /\ DOMAIN p.sh.txq = 1..l
      /\ IsSeq(p.w.handed) /\ DOMAIN p.w.handed = 1..a
      /\ \A i \in 1..l : p.sh.txq[i] \in Frames
  BY <1>0, SeqIsSeq, Bounds
<1>2. a + l <= max /\ \A i \in 1..l : p.sh.txq[i].n = a + i
  <2>1. CASE p.sh.stopping
    <3>1. l = 0 /\ a <= max
      BY <1>0, <2>1, SeqEmpty DEF Numbers
    <3> HIDE DEF a, l, max
    <3> QED
      BY <1>1, <3>1
  <2>2. CASE ~p.sh.stopping
    BY <1>0, <1>1, <2>2 DEF Queued
  <2> QED
    BY <2>1, <2>2
<1>3. e \in Seq(Nat) /\ Len(e) = l /\ \A i \in 1..l : e[i] = a + i
  <2>1. e = [i \in 1..l |-> p.sh.txq[i].n]
    BY <1>1 DEF Parts
  <2>2. \A i \in 1..l : p.sh.txq[i].n \in Nat
    BY <1>1 DEF Frames
  <2> HIDE DEF e, l
  <2> QED
    BY <1>1, <1>2, <2>1, <2>2
<1> HIDE DEF e
<1>4. /\ s \in Seq(Nat) /\ Len(s) = a + l /\ \A i \in 1..a : s[i] = p.w.handed[i]
      /\ \A i \in 1..l : s[a + i] = e[i]
  <2>1. s = p.w.handed \o e
    BY DEF Requested, e
  <2> DEFINE h == p.w.handed
  <2>2. h \in Seq(Nat) /\ a = Len(h)
    BY <1>0
  <2> HIDE DEF h
  <2>3. h \o e \in Seq(Nat) /\ Len(h \o e) = Len(h) + Len(e)
    BY <1>3, <2>2, ConcatFields
  <2>4. \A i \in 1..Len(h) : (h \o e)[i] = h[i]
    BY <1>3, <2>2, ConcatFields
  <2>5. \A i \in 1..Len(e) : (h \o e)[Len(h) + i] = e[i]
    BY <1>3, <2>2, ConcatFields
  <2>6. s = h \o e
    BY <2>1 DEF h
  <2> HIDE DEF s, a, l
  <2> QED
    BY <1>3, <2>2, <2>3, <2>4, <2>5, <2>6 DEF h
<1> HIDE DEF s
<1>5. DOMAIN s = 1..(a + l) /\ IsSeq(s)
  BY <1>4, SeqIsSeq
<1>6. \A i \in 1..a : p.w.handed[i] = i
  BY <1>0, <1>1 DEF Numbers, InOrder
<1> HIDE DEF a, l, max
<1>7. ASSUME NEW i \in 1..(a + l) PROVE s[i] = i /\ i \in 0..max
  <2>1. i \in Nat /\ i <= max
    BY <1>1, <1>2
  <2>2. CASE i \in 1..a
    <3>1. s[i] = p.w.handed[i] /\ p.w.handed[i] = i
      BY <1>4, <1>6, <2>2
    <3> QED
      BY <1>1, <2>1, <3>1
  <2>3. CASE i \notin 1..a
    <3>1. i - a \in 1..l /\ a + (i - a) = i
      BY <1>1, <2>3
    <3>2. s[a + (i - a)] = e[i - a] /\ e[i - a] = a + (i - a)
      BY <1>3, <1>4, <3>1
    <3> QED
      BY <1>1, <2>1, <3>1, <3>2
  <2> QED
    BY <2>2, <2>3
<1>8. InOrder(s)
  BY <1>5, <1>7 DEF InOrder
<1>9. s \in Seq(0..max)
  <2>1. \A i \in 1..Len(s) : s[i] \in 0..max
    BY <1>4, <1>7
  <2> QED
    BY <1>5, <2>1, SeqFacts
<1>10. IsPrefix(p.w.got, s)
  <2>1. InOrder(p.w.got) /\ Len(p.w.got) <= a
    BY <1>0 DEF Numbers, a
  <2>2. Len(p.w.got) \in Nat
    BY <1>0
  <2>3. Len(p.w.got) <= Len(s)
    <3> DEFINE g == Len(p.w.got)
    <3> HIDE DEF g
    <3>1. g <= a + l
      BY <1>1, <2>1, <2>2 DEF g
    <3> QED
      BY <1>4, <3>1 DEF g
  <2> QED
    BY <1>0, <1>4, <1>8, <2>1, <2>3, InOrderPrefix
<1> QED
  BY <1>4, <1>8, <1>9, <1>10 DEF s, max

\* The messages of the worker, in order.
LEMMA AnsweredFields ==
  ASSUME NEW p, NEW cs, Good(p, cs)
  PROVE  Answered(p) \in Seq(1..MaxMessages) /\ IsPrefix(p.w.handled, Answered(p))
<1> DEFINE n == p.w.emitted
           s == Answered(p)
<1>0. /\ n \in Nat /\ n <= MaxMessages /\ MaxMessages \in Nat /\ p.w.handled \in Seq(Nat)
      /\ InOrder(p.w.handled) /\ Len(p.w.handled) <= n
  BY GoodParts, StateFields, Bounds DEF Moving, Numbers
<1>1. s = [i \in 1..n |-> i]
  BY DEF Answered
<1> HIDE DEF n, s
<1>2. s \in Seq(1..MaxMessages) /\ s \in Seq(Nat) /\ Len(s) = n
  BY <1>0, <1>1
<1>3. InOrder(s)
  BY <1>1 DEF InOrder
<1>4. IsPrefix(p.w.handled, s)
  BY <1>0, <1>2, <1>3, InOrderPrefix
<1> QED
  BY <1>2, <1>4 DEF s

\* A step that the Channel of the requests can make, and the other Channel.
LEMMA RequestsStep ==
  ASSUME NEW p, NEW q, NEW cs, NEW ds, Good(p, cs), Good(q, ds), Step(q, p)
  PROVE  \/ IsPrefix(p.w.got, Requested(q)) /\ q.w.got = p.w.got
         \/ /\ IsPrefix(p.w.got, q.w.got) /\ IsPrefix(q.w.got, Requested(q))
            /\ Requested(q) = Requested(p)
         \/ q.w.got = <<>>
<1>1. CASE Listened(q, p) \/ Ended(q)
  BY <1>1, RequestedFields DEF Listened, Ended
<1>2. CASE Worked(q, p)
  <2>1. Requested(q) = Requested(p)
    BY <1>2 DEF Worked, Requested, Parts
  <2>2. /\ p.w.got \in Seq(Nat) /\ q.w.got \in Seq(Nat) /\ InOrder(p.w.got) /\ InOrder(q.w.got)
    BY GoodParts, StateFields DEF Moving, Numbers
  <2>3. IsPrefix(p.w.got, q.w.got)
    BY <1>2, <2>2, InOrderPrefix DEF Worked
  <2> QED
    BY <2>1, <2>3, RequestedFields
<1> QED
  BY <1>1, <1>2 DEF Step

LEMMA ResponsesStep ==
  ASSUME NEW p, NEW q, NEW cs, NEW ds, Good(p, cs), Good(q, ds), Step(q, p)
  PROVE  \/ IsPrefix(p.w.handled, Answered(q)) /\ q.w.handled = p.w.handled
         \/ /\ IsPrefix(p.w.handled, q.w.handled) /\ IsPrefix(q.w.handled, Answered(q))
            /\ Answered(q) = Answered(p)
         \/ q.w.handled = <<>>
<1>1. CASE Worked(q, p) \/ Ended(q)
  BY <1>1, AnsweredFields DEF Worked, Ended
<1>2. CASE Listened(q, p)
  <2>1. Answered(q) = Answered(p)
    BY <1>2 DEF Listened, Answered
  <2>2. /\ p.w.handled \in Seq(Nat) /\ q.w.handled \in Seq(Nat)
        /\ InOrder(p.w.handled) /\ InOrder(q.w.handled)
    BY GoodParts, StateFields DEF Moving, Numbers
  <2>3. IsPrefix(p.w.handled, q.w.handled)
    BY <1>2, <2>2, InOrderPrefix DEF Listened
  <2> QED
    BY <2>1, <2>3, AnsweredFields
<1> QED
  BY <1>1, <1>2 DEF Step

\* The worker is given the frames of its session whole and in order, and the
\* shell the messages of the worker.
THEOREM ChannelsAreKept == Spec => ChannelsKeepOrder
<1>1. Init => Requests!Init /\ Responses!Init
  <2> SUFFICES ASSUME Init PROVE Requests!Init /\ Responses!Init
    OBVIOUS
  <2>1. /\ w.handed = <<>> /\ w.got = <<>> /\ w.emitted = 0 /\ w.handled = <<>> /\ sh.txq = <<>>
    BY DEF Init
  <2>2. <<>> \o [i \in DOMAIN <<>> |-> <<>>[i].n] = <<>>
    <3>1. [i \in DOMAIN <<>> |-> <<>>[i].n] = <<>>
      BY SeqEmpty
    <3> QED
      BY <3>1
  <2>3. [i \in 1..0 |-> i] = <<>>
    OBVIOUS
  <2> QED
    BY <2>1, <2>2, <2>3 DEF Requests!Init, Responses!Init
<1>2. TransportInv /\ [Next]_vars =>
        /\ [Requests!Send \/ Requests!Arrive \/ Requests!NewSession]_(Requests!channelVars)
        /\ [Responses!Send \/ Responses!Arrive \/ Responses!NewSession]_(Responses!channelVars)
  <2> SUFFICES ASSUME TransportInv, [Next]_vars
               PROVE  /\ Requests!Send \/ Requests!Arrive \/ Requests!NewSession
                      /\ Responses!Send \/ Responses!Arrive \/ Responses!NewSession
    OBVIOUS
  <2>1. TransportInv' /\ Step(Now', Now)
    BY NextInv
  <2>2. Good(Now, calls) /\ Good(Now', calls')
    BY <2>1 DEF TransportInv
  <2> DEFINE requested == w.handed \o [i \in DOMAIN sh.txq |-> sh.txq[i].n]
             answered == [i \in 1..w.emitted |-> i]
  <2>3. /\ Requested(Now) = requested /\ Requested(Now') = requested'
        /\ Answered(Now) = answered /\ Answered(Now') = answered'
    BY DEF Requested, Parts, Answered, Now
  <2>4. /\ Now.w.got = w.got /\ Now'.w.got = w'.got
        /\ Now.w.handled = w.handled /\ Now'.w.handled = w'.handled
    BY DEF Now
  <2>5. requested' \in Seq(0..(2 + MaxRequests)) /\ answered' \in Seq(1..MaxMessages)
    BY <2>2, <2>3, RequestedFields, AnsweredFields
  <2>6. \/ IsPrefix(w.got, requested') /\ w'.got = w.got
        \/ IsPrefix(w.got, w'.got) /\ IsPrefix(w'.got, requested') /\ requested' = requested
        \/ w'.got = <<>>
    <3> DEFINE p == Now
               q == Now'
    <3>1. Good(p, calls) /\ Good(q, calls') /\ Step(q, p)
      BY <2>1, <2>2
    <3> HIDE DEF p, q
    <3>2. \/ IsPrefix(p.w.got, Requested(q)) /\ q.w.got = p.w.got
          \/ /\ IsPrefix(p.w.got, q.w.got) /\ IsPrefix(q.w.got, Requested(q))
             /\ Requested(q) = Requested(p)
          \/ q.w.got = <<>>
      BY <3>1, RequestsStep
    <3> HIDE DEF requested
    <3> QED
      BY <2>3, <2>4, <3>2 DEF p, q
  <2>7. \/ IsPrefix(w.handled, answered') /\ w'.handled = w.handled
        \/ IsPrefix(w.handled, w'.handled) /\ IsPrefix(w'.handled, answered') /\ answered' = answered
        \/ w'.handled = <<>>
    <3> DEFINE p == Now
               q == Now'
    <3>1. Good(p, calls) /\ Good(q, calls') /\ Step(q, p)
      BY <2>1, <2>2
    <3> HIDE DEF p, q
    <3>2. \/ IsPrefix(p.w.handled, Answered(q)) /\ q.w.handled = p.w.handled
          \/ /\ IsPrefix(p.w.handled, q.w.handled) /\ IsPrefix(q.w.handled, Answered(q))
             /\ Answered(q) = Answered(p)
          \/ q.w.handled = <<>>
      BY <3>1, ResponsesStep
    <3> HIDE DEF answered
    <3> QED
      BY <2>3, <2>4, <3>2 DEF p, q
  <2>8. Requests!Send \/ Requests!Arrive \/ Requests!NewSession
    BY <2>5, <2>6 DEF Requests!Send, Requests!Arrive, Requests!NewSession, Requests!IsPrefix, IsPrefix
  <2>9. Responses!Send \/ Responses!Arrive \/ Responses!NewSession
    BY <2>5, <2>7 DEF Responses!Send, Responses!Arrive, Responses!NewSession, Responses!IsPrefix, IsPrefix
  <2> QED
    BY <2>8, <2>9
<1> QED
  BY <1>1, <1>2, TransportInvHolds, PTL DEF Spec, ChannelsKeepOrder, Requests!Spec, Responses!Spec
=============================================================================

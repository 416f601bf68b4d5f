------------------------- MODULE TransportShell_proofs -------------------------
(***************************************************************************)
(* What the operations of WorkerTransport keep: the strengthened invariant *)
(* of the state of the shell, the pipes and the processes, and a lemma for *)
(* each operation that closes, registers, ends, returns or sends.          *)
(***************************************************************************)
EXTENDS WorkerTransport, SequenceFacts, FiniteSetTheorems

(***************************************************************************)
(* The types.                                                              *)
(***************************************************************************)
Fds == [no : 0..3, for : (Kinds \cup {"none"}) \X Nat]
Callbacks == [gen : 0..7, fd : Fds]
Frames == [n : Nat, parts : {1, 2}]
ChunkSet == [n : Nat, k : {1, 2}, parts : {1, 2}]
Workers == [alive : BOOLEAN, told : BOOLEAN, part : [n : Nat, parts : {0, 1, 2}], read : {0, 1}]
Writers == [at : {"none", "writing", "acked", "dead"}, frame : [n : Nat, parts : {0, 1, 2}],
            left : {0, 1, 2}]

Shells ==
  [stopping : BOOLEAN, tainted : BOOLEAN, disabled : BOOLEAN, failures : 0..2,
   fd : [Kinds -> Fds], wfd : BOOLEAN, nbwfd : BOOLEAN, control : BOOLEAN,
   txq : Seq(Frames), rx : Seq(Nat), callback : [Kinds -> Callbacks],
   doing : {"nothing", "abort", "ack", "eof"}, after : {"nothing", "failure", "source"},
   unread : BOOLEAN]

Worlds ==
  [request : Seq(ChunkSet), response : Seq(Nat), worker : Workers, writer : Writers,
   session : Nat, frames : Nat, faults : Nat, handed : Seq(Nat), got : Seq(Nat),
   emitted : Nat, handled : Seq(Nat), futile : Nat]

States == [sh : Shells, w : Worlds]

(***************************************************************************)
(* The strengthened invariant of a state p and the calls cs that ZLE is    *)
(* about to make.  What holds whether or not the session is being ended:   *)
(***************************************************************************)
\* Generations are told apart, and a callback is for the descriptor of its
\* kind; nothing is open unwatched unless the runtime is given up, or it is
\* the response stream of a stop that failed to read it.
CallSet(cs) ==
  /\ cs \subseteq [kind : Kinds, fd : Fds, gen : 1..7]
  /\ \A c, d \in cs : c.kind = d.kind => c = d

Handlers(p, cs) ==
  /\ \A kind \in Kinds :
       \/ p.sh.callback[kind] = NoCallback
       \/ p.sh.callback[kind].gen > 0 /\ p.sh.callback[kind].fd = p.sh.fd[kind] /\ Open(p, kind)
  /\ \A c \in cs : c.gen = p.sh.callback[c.kind].gen => c.fd = p.sh.callback[c.kind].fd

Registered(p) ==
  ~p.sh.tainted =>
    \A kind \in Kinds :
      Open(p, kind) => p.sh.callback[kind] # NoCallback \/ (kind = "data" /\ p.sh.unread)

\* The processes are there as long as the shell has their descriptors.
Processes(p) ==
  /\ Open(p, "ack") <=> p.w.writer.at # "none"
  /\ p.w.writer.at \in {"writing", "dead"} =>
       /\ p.w.writer.frame.n = Len(p.w.handed)
       /\ p.w.writer.frame.parts \in {1, 2} /\ p.w.writer.left \in 1..p.w.writer.frame.parts
  /\ ~Open(p, "data") => ~p.w.worker.alive

\* Frames are numbered through the session, their chunks through the frame.
InOrder(s) == \A i \in DOMAIN s : s[i] = i

At(c) == <<c.n, c.k>>
After(c) == IF c.k = c.parts THEN <<c.n + 1, 1>> ELSE <<c.n, c.k + 1>>

\* Where the worker reads on, where the shell's side writes on.
ReadsAt(p) == <<Len(p.w.got) + 1, p.w.worker.read + 1>>
WritesAt(p) ==
  IF p.w.writer.at \in {"writing", "dead"}
  THEN <<p.w.writer.frame.n, p.w.writer.frame.parts - p.w.writer.left + 1>>
  ELSE <<Len(p.w.handed) + 1, 1>>

\* The chunks in the pipe continue what was read, one by one, up to there --
\* unless the writer was given up in the middle of a frame.
Piped(p) ==
  /\ Len(p.w.request) <= Capacity
  /\ \A i \in DOMAIN p.w.request :
       /\ p.w.request[i].k <= p.w.request[i].parts /\ p.w.request[i].n <= Len(p.w.handed)
       /\ At(p.w.request[i]) = IF i = 1 THEN ReadsAt(p) ELSE After(p.w.request[i - 1])
  /\ ~p.sh.stopping \/ p.w.writer.at # "none" =>
       WritesAt(p) = IF p.w.request = <<>> THEN ReadsAt(p) ELSE After(p.w.request[Len(p.w.request)])

Numbers(p) ==
  /\ InOrder(p.w.handed) /\ Len(p.w.handed) <= 2 + MaxRequests
  /\ InOrder(p.w.got) /\ Len(p.w.got) <= Len(p.w.handed)
  /\ p.w.worker.read = 1 => p.w.worker.part.n = Len(p.w.got) + 1 /\ Len(p.w.got) < Len(p.w.handed)
  /\ InOrder(p.w.handled) /\ Len(p.w.handled) <= p.w.emitted /\ p.w.emitted <= MaxMessages

Watched(p, cs) == p \in States /\ Handlers(p, cs) /\ Registered(p)
Moving(p) == Processes(p) /\ Piped(p) /\ Numbers(p)
Common(p, cs) ==
  /\ Watched(p, cs) /\ Moving(p)
  /\ p.sh.disabled <=> p.sh.failures = 2
  /\ p.sh.unread => p.sh.stopping

\* A session that is being ended writes no more.
Quiet(p) == p.sh.txq = <<>> /\ ~Open(p, "drain")

(***************************************************************************)
(* A session that is not being ended: the queues continue what was handed  *)
(* over and handled, and what is queued is waited for.  Without a response *)
(* stream there is no session.                                             *)
(***************************************************************************)
Queued(p) ==
  /\ \A i \in DOMAIN p.sh.txq : p.sh.txq[i].n = Len(p.w.handed) + i
  /\ p.w.frames = Len(p.w.handed) + Len(p.sh.txq) /\ p.w.frames <= 2 + MaxRequests

Coming(p) ==
  /\ \A i \in DOMAIN p.sh.rx : p.sh.rx[i] = Len(p.w.handled) + i
  /\ \A i \in DOMAIN p.w.response : p.w.response[i] = Len(p.w.handled) + Len(p.sh.rx) + i
  /\ p.w.emitted = Len(p.w.handled) + Len(p.sh.rx) + Len(p.w.response)

WriterComes(p) == p.sh.txq # <<>> => Open(p, "ack")
DrainComes(p) == p.sh.rx # <<>> => Open(p, "drain")

NoSession(p) ==
  /\ ~Open(p, "ack") /\ ~Open(p, "drain")
  /\ p.w.frames = 0 /\ p.w.emitted = 0
  /\ p.w.worker.read = 0 /\ p.w.request = <<>> /\ p.w.got = <<>>

Live(p) ==
  /\ Queued(p) /\ Coming(p) /\ WriterComes(p) /\ DrainComes(p)
  /\ ~Open(p, "data") => NoSession(p)

\* A session counts for the breaker until it has failed.
Counts(p) == (Open(p, "data") /\ ~p.sh.stopping) \/ p.sh.after = "failure"
Streak(p) ==
  /\ p.sh.disabled => (p.sh.stopping \/ ~Open(p, "data")) /\ p.sh.after # "failure"
  /\ p.sh.after = "source" => p.w.futile = 0
  /\ p.w.futile <= p.sh.failures + (IF Counts(p) THEN 1 ELSE 0)

Body(p, cs) ==
  /\ Common(p, cs) /\ Streak(p)
  /\ p.sh.stopping => Quiet(p)
  /\ ~p.sh.stopping => Live(p)

\* What the shell is waiting for.
Waiting(p) ==
  /\ ~p.sh.stopping => p.sh.doing = "nothing"
  /\ p.sh.stopping /\ p.sh.doing = "nothing" => Open(p, "ack") \/ Open(p, "data")
  /\ p.sh.doing = "eof" => ~Open(p, "ack")
  /\ p.sh.doing = "nothing" => p.sh.after = "nothing"
  /\ p.sh.after = "failure" => p.sh.doing = "abort"

Good(p, cs) == Body(p, cs) /\ Waiting(p)

TransportInv == CallSet(calls) /\ Good(Now, calls)

-----------------------------------------------------------------------------
(***************************************************************************)
(* Types of the constants.                                                 *)
(***************************************************************************)
LEMMA Bounds ==
  /\ Capacity \in Nat \ {0} /\ Budget \in Nat \ {0}
  /\ MaxSessions \in Nat /\ MaxRequests \in Nat /\ MaxMessages \in Nat /\ MaxFaults \in Nat
  /\ \A parts \in RequestParts : parts \in {1, 2}
BY TransportAssumption

\* What is there when nothing is.
LEMMA Nothings ==
  /\ NoFd \in Fds /\ NoCallback \in Callbacks /\ NoWriter \in Writers /\ NoWorker \in Workers
  /\ NoFd.no = 0 /\ NoCallback.gen = 0 /\ NoCallback.fd = NoFd
  /\ NoWriter.at = "none" /\ NoWorker.alive = FALSE /\ NoWorker.read = 0
<1>1. NoFd \in Fds /\ NoFd.no = 0
  BY DEF NoFd, Fds
<1>2. NoCallback \in Callbacks /\ NoCallback.gen = 0 /\ NoCallback.fd = NoFd
  BY <1>1 DEF NoCallback, Callbacks
<1>3. NoWriter \in Writers /\ NoWriter.at = "none"
  BY DEF NoWriter, Writers, NoFrame, Frame
<1>4. NoWorker \in Workers /\ NoWorker.alive = FALSE /\ NoWorker.read = 0
  BY DEF NoWorker, Workers, NoFrame, Frame
<1> QED
  BY <1>1, <1>2, <1>3, <1>4

\* A state made of a shell and a world of the right types.
LEMMA StateFields ==
  ASSUME NEW p \in States
  PROVE  /\ p.sh \in Shells /\ p.w \in Worlds
         /\ p.sh.stopping \in BOOLEAN /\ p.sh.tainted \in BOOLEAN /\ p.sh.disabled \in BOOLEAN
         /\ p.sh.nbwfd \in BOOLEAN /\ p.sh.unread \in BOOLEAN
         /\ p.sh.failures \in 0..2 /\ p.sh.fd \in [Kinds -> Fds]
         /\ p.sh.callback \in [Kinds -> Callbacks]
         /\ p.sh.txq \in Seq(Frames) /\ p.sh.rx \in Seq(Nat)
         /\ p.sh.doing \in {"nothing", "abort", "ack", "eof"}
         /\ p.sh.after \in {"nothing", "failure", "source"}
         /\ p.w.request \in Seq(ChunkSet) /\ p.w.response \in Seq(Nat)
         /\ p.w.worker \in Workers /\ p.w.writer \in Writers
         /\ p.w.frames \in Nat /\ p.w.handed \in Seq(Nat) /\ p.w.got \in Seq(Nat)
         /\ p.w.emitted \in Nat /\ p.w.handled \in Seq(Nat) /\ p.w.futile \in Nat
         /\ p.w.session \in Nat /\ p.w.faults \in Nat
BY DEF States, Shells, Worlds

-----------------------------------------------------------------------------
(***************************************************************************)
(* Descriptors and their handlers.  The parts of a state that the          *)
(* operators on descriptors leave as they are:                             *)
(***************************************************************************)
Switches(p) ==
  <<p.sh.stopping, p.sh.tainted, p.sh.disabled, p.sh.failures, p.sh.doing, p.sh.after, p.sh.unread>>
Queues(p) == <<p.sh.txq, p.sh.rx>>
Heard(p) == <<p.w.got, p.w.emitted, p.w.handled>>

\* Closing a descriptor changes it and its callback only.
LEMMA CloseFields ==
  ASSUME NEW p \in States, NEW kind \in Kinds
  PROVE  /\ Close(p, kind) \in States /\ Close(p, kind).w = p.w
         /\ Switches(Close(p, kind)) = Switches(p) /\ Queues(Close(p, kind)) = Queues(p)
         /\ Close(p, kind).sh.nbwfd = p.sh.nbwfd /\ Close(p, kind).sh.control = p.sh.control
         /\ \A other \in Kinds : Open(Close(p, kind), other) <=> other # kind /\ Open(p, other)
         /\ \A other \in Kinds :
              Close(p, kind).sh.fd[other] = IF other = kind THEN NoFd ELSE p.sh.fd[other]
         /\ \A other \in Kinds :
              Close(p, kind).sh.callback[other] =
                IF other = kind THEN NoCallback ELSE p.sh.callback[other]
<1>1. Close(p, kind) \in States
  BY Nothings, Zenon DEF Close, InvalidateCallback, States, Shells
<1>2. /\ Close(p, kind).w = p.w
      /\ Switches(Close(p, kind)) = Switches(p) /\ Queues(Close(p, kind)) = Queues(p)
      /\ Close(p, kind).sh.nbwfd = p.sh.nbwfd /\ Close(p, kind).sh.control = p.sh.control
  BY DEF Close, InvalidateCallback, States, Shells, Switches, Queues
<1>3. \A other \in Kinds :
        /\ Close(p, kind).sh.fd[other] = IF other = kind THEN NoFd ELSE p.sh.fd[other]
        /\ Close(p, kind).sh.callback[other] =
                IF other = kind THEN NoCallback ELSE p.sh.callback[other]
  BY DEF Close, InvalidateCallback, States, Shells
<1>4. \A other \in Kinds : Open(Close(p, kind), other) <=> other # kind /\ Open(p, other)
  BY <1>3 DEF Open
<1> QED
  BY <1>1, <1>2, <1>3, <1>4

\* A closed descriptor has no callback, and no call finds one.
LEMMA CloseWatched ==
  ASSUME NEW p, NEW cs, NEW kind \in Kinds, CallSet(cs), Watched(p, cs)
  PROVE  Watched(Close(p, kind), cs)
<1> DEFINE q == Close(p, kind)
<1>0. p \in States
  BY DEF Watched
<1>1. /\ q \in States /\ Switches(q) = Switches(p)
      /\ \A other \in Kinds : Open(q, other) <=> other # kind /\ Open(p, other)
      /\ \A other \in Kinds : q.sh.fd[other] = IF other = kind THEN NoFd ELSE p.sh.fd[other]
      /\ \A other \in Kinds :
           q.sh.callback[other] = IF other = kind THEN NoCallback ELSE p.sh.callback[other]
  BY <1>0, CloseFields
<1> HIDE DEF q
<1>2. q.sh.tainted = p.sh.tainted /\ q.sh.unread = p.sh.unread
  BY <1>1 DEF Switches
<1>3. \A c \in cs : c.kind \in Kinds /\ c.gen # 0
  BY DEF CallSet
<1>4. NoCallback.gen = 0
  BY Nothings
<1>5. Handlers(q, cs)
  BY <1>1, <1>3, <1>4 DEF Watched, Handlers
<1>6. Registered(q)
  BY <1>1, <1>2 DEF Watched, Registered
<1> QED
  BY <1>1, <1>5, <1>6 DEF Watched, q

\* Nothing else about a state decides what its handlers do.
LEMMA SameWatched ==
  ASSUME NEW p, NEW q \in States, NEW cs, NEW ds \in SUBSET cs, Watched(p, cs),
         q.sh.fd = p.sh.fd, q.sh.callback = p.sh.callback, p.sh.tainted => q.sh.tainted,
         p.sh.unread => q.sh.unread
  PROVE  /\ Watched(q, ds) /\ \A kind \in Kinds : Open(q, kind) <=> Open(p, kind)
<1>1. \A kind \in Kinds : Open(q, kind) <=> Open(p, kind)
  BY DEF Open
<1>2. Handlers(q, ds)
  BY <1>1 DEF Watched, Handlers
<1>3. Registered(q)
  BY <1>1 DEF Watched, Registered
<1> QED
  BY <1>1, <1>2, <1>3 DEF Watched

\* A number is free: two of the three descriptors at most are open.
LEMMA NewFdType ==
  ASSUME NEW p \in States, NEW kind \in Kinds, ~Open(p, kind), NEW for \in (Kinds \cup {"none"}) \X Nat
  PROVE  NewFd(p, for) \in Fds /\ NewFd(p, for) # NoFd
<1> DEFINE used == {p.sh.fd[k].no : k \in Kinds}
           New(n) == n \notin used /\ \A m \in 1..(n - 1) : m \in used
<1>1. \E a, b \in 0..3 : used = {0, a, b}
  <2>1. \A k \in Kinds : p.sh.fd[k].no \in 0..3
    BY StateFields DEF Fds
  <2>2. p.sh.fd[kind].no = 0
    BY Nothings DEF Open
  <2>3. used = {p.sh.fd["data"].no, p.sh.fd["ack"].no, p.sh.fd["drain"].no}
    BY DEF Kinds
  <2> QED
    BY <2>1, <2>2, <2>3 DEF Kinds
<1>2. PICK a \in 0..3, b \in 0..3 : used = {0, a, b}
  BY <1>1
<1> HIDE DEF used
<1>3. \E n \in 1..4 : New(n)
  <2>1. CASE 1 \notin used
    BY <2>1
  <2>2. CASE 1 \in used /\ 2 \notin used
    BY <2>2
  <2>3. CASE 1 \in used /\ 2 \in used
    <3>1. 3 \notin used
      BY <1>2, <2>3
    <3>2. \A m \in 1..(3 - 1) : m = 1 \/ m = 2
      OBVIOUS
    <3> QED
      BY <2>3, <3>1, <3>2
  <2> QED
    BY <2>1, <2>2, <2>3
<1>4. \A n \in 1..4 : New(n) => n \in 1..3
  <2> SUFFICES ASSUME New(4) PROVE FALSE
    OBVIOUS
  <2>1. 1 \in used /\ 2 \in used /\ 3 \in used
    OBVIOUS
  <2> QED
    BY <1>2, <2>1
<1> DEFINE no == CHOOSE n \in 1..4 : New(n)
<1>5. no \in 1..3
  BY <1>3, <1>4
<1>6. NewFd(p, for) = [no |-> no, for |-> for]
  BY DEF NewFd, used
<1> HIDE DEF no
<1>7. NewFd(p, for).no # 0 /\ NoFd.no = 0
  BY <1>5, <1>6, Nothings
<1> QED
  BY <1>5, <1>6, <1>7 DEF Fds

\* There are three kinds of descriptors.
LEMMA KindsCount == IsFiniteSet(Kinds) /\ Cardinality(Kinds) = 3
<1>1. Kinds = {"data"} \cup {"ack"} \cup {"drain"}
  BY DEF Kinds
<1>2. IsFiniteSet({"data"}) /\ Cardinality({"data"}) = 1
  BY FS_Singleton
<1>3. IsFiniteSet({"data"} \cup {"ack"}) /\ Cardinality({"data"} \cup {"ack"}) = 2
  BY <1>2, FS_AddElement
<1>4. /\ IsFiniteSet(({"data"} \cup {"ack"}) \cup {"drain"})
      /\ Cardinality(({"data"} \cup {"ack"}) \cup {"drain"}) = 3
  BY <1>3, FS_AddElement
<1> QED
  BY <1>1, <1>4

\* The numbers of three callbacks and three calls leave one free.
LEMMA NewGenerationType ==
  ASSUME NEW p \in States, CallSet(calls)
  PROVE  /\ NewGeneration(p) \in 1..7
         /\ \A kind \in Kinds : p.sh.callback[kind].gen # NewGeneration(p)
         /\ \A c \in calls : c.gen # NewGeneration(p)
<1> DEFINE mine == {p.sh.callback[kind].gen : kind \in Kinds}
           theirs == {c.gen : c \in calls}
           used == mine \cup theirs
           New(n) == n \notin used /\ \A m \in 1..(n - 1) : m \in used
<1>1. IsFiniteSet(Kinds) /\ Cardinality(Kinds) = 3
  BY KindsCount
<1>2. IsFiniteSet(mine) /\ Cardinality(mine) <= 3
  <2> DEFINE f == [kind \in Kinds |-> p.sh.callback[kind].gen]
  <2>1. f \in Surjection(Kinds, mine)
    BY DEF Surjection
  <2> QED
    BY <1>1, <2>1, FS_Surjection
<1>3. IsFiniteSet(theirs) /\ Cardinality(theirs) <= 3
  <2> DEFINE kinds == {c.kind : c \in calls}
             g == [k \in kinds |-> (CHOOSE c \in calls : c.kind = k).gen]
  <2>1. kinds \subseteq Kinds
    BY DEF CallSet
  <2>2. IsFiniteSet(kinds) /\ Cardinality(kinds) <= 3
    BY <1>1, <2>1, FS_Subset
  <2>3. \A c \in calls : g[c.kind] = c.gen
    BY DEF CallSet
  <2>4. g \in Surjection(kinds, theirs)
    <3>1. \A k \in kinds : g[k] \in theirs
      BY <2>3
    <3>2. \A n \in theirs : \E k \in kinds : g[k] = n
      <4>1. \A c \in calls : c.kind \in kinds /\ g[c.kind] = c.gen
        BY <2>3
      <4> HIDE DEF g, kinds
      <4> QED
        BY ONLY <4>1
    <3>3. g \in [kinds -> theirs]
      BY <3>1
    <3> HIDE DEF g, kinds, theirs
    <3> QED
      BY ONLY <3>2, <3>3 DEF Surjection
  <2> HIDE DEF g, kinds, theirs
  <2>5. IsFiniteSet(theirs) /\ Cardinality(theirs) <= Cardinality(kinds)
    BY ONLY <2>2, <2>4, FS_Surjection
  <2>6. Cardinality(theirs) \in Nat /\ Cardinality(kinds) \in Nat
    BY ONLY <2>2, <2>5, FS_CardinalityType
  <2> QED
    BY ONLY <2>2, <2>5, <2>6
<1>4. IsFiniteSet(used) /\ Cardinality(used) <= 6
  <2>1. /\ IsFiniteSet(mine \cup theirs)
        /\ Cardinality(mine \cup theirs)
             = Cardinality(mine) + Cardinality(theirs) - Cardinality(mine \cap theirs)
    BY <1>2, <1>3, FS_Union
  <2>2. IsFiniteSet(mine \cap theirs)
    BY <1>2, FS_Intersection
  <2>3. /\ Cardinality(mine) \in Nat /\ Cardinality(theirs) \in Nat
        /\ Cardinality(mine \cap theirs) \in Nat
    BY <1>2, <1>3, <2>2, FS_CardinalityType
  <2> HIDE DEF mine, theirs
  <2> DEFINE x == Cardinality(mine)
             y == Cardinality(theirs)
             z == Cardinality(mine \cap theirs)
  <2>4. Cardinality(used) = x + y - z
    BY <2>1
  <2>5. x \in Nat /\ y \in Nat /\ z \in Nat /\ x <= 3 /\ y <= 3
    BY ONLY <1>2, <1>3, <2>3
  <2>6. IsFiniteSet(used)
    BY <2>1
  <2> HIDE DEF x, y, z, used
  <2> QED
    BY ONLY <2>4, <2>5, <2>6
<1>5. ~(1..7 \subseteq used)
  <2> SUFFICES ASSUME 1..7 \subseteq used PROVE FALSE
    OBVIOUS
  <2>1. Cardinality(1..7) = 7
    <3>1. \A a, b \in Int : Cardinality(a..b) = IF a > b THEN 0 ELSE b - a + 1
      BY FS_Interval
    <3>2. Cardinality(1..7) = IF 1 > 7 THEN 0 ELSE 7 - 1 + 1
      <4>1. 1 \in Int /\ 7 \in Int
        OBVIOUS
      <4> QED
        BY ONLY <3>1, <4>1, Zenon
    <3> QED
      BY ONLY <3>2
  <2>2. Cardinality(1..7) <= Cardinality(used)
    <3> DEFINE seven == 1..7
    <3>1. seven \subseteq used
      OBVIOUS
    <3> HIDE DEF seven, used
    <3>2. Cardinality(seven) <= Cardinality(used)
      BY ONLY <1>4, <3>1, FS_Subset
    <3> QED
      BY ONLY <3>2 DEF seven
  <2>3. Cardinality(used) \in Nat
    BY ONLY <1>4, FS_CardinalityType
  <2> HIDE DEF used
  <2> QED
    BY ONLY <1>4, <2>1, <2>2, <2>3
<1> HIDE DEF used
<1>6. \E n \in 1..7 : New(n)
  <2> DEFINE T == {n \in 1..7 : n \notin used}
  <2>1. T \subseteq Nat /\ T # {}
    BY <1>5
  <2>2. PICK n \in T : \A m \in T : n <= m
    BY <2>1, LeastNat
  <2>3. \A m \in 1..(n - 1) : m \in used
    BY <2>2
  <2> QED
    BY <2>2, <2>3
<1> DEFINE no == CHOOSE n \in 1..7 : New(n)
<1>7. no \in 1..7 /\ no \notin used
  BY <1>6
<1>8. NewGeneration(p) = no
  BY DEF NewGeneration, used
<1> HIDE DEF no
<1> QED
  BY <1>7, <1>8 DEF used

\* A descriptor that nothing is registered for is given a callback.
LEMMA RegisterFields ==
  ASSUME NEW p, NEW cs \in SUBSET calls, NEW kind \in Kinds, CallSet(calls), p \in States,
         Handlers(p, cs), Open(p, kind),
         \A other \in Kinds : ~p.sh.tainted /\ other # kind /\ Open(p, other) =>
                                p.sh.callback[other] # NoCallback
  PROVE  LET q == RegisterCallback(p, kind, p.sh.fd[kind])
         IN  /\ Watched(q, cs) /\ q.w = p.w /\ Switches(q) = Switches(p) /\ Queues(q) = Queues(p)
             /\ q.sh.fd = p.sh.fd /\ \A other \in Kinds : Open(q, other) <=> Open(p, other)
<1> DEFINE callback == [gen |-> NewGeneration(p), fd |-> p.sh.fd[kind]]
           q == RegisterCallback(p, kind, p.sh.fd[kind])
<1>1. callback \in Callbacks /\ callback.gen > 0 /\ callback.fd = p.sh.fd[kind]
      /\ callback # NoCallback /\ \A c \in calls : c.gen # callback.gen
  <2>1. p.sh.fd[kind] \in Fds /\ NewGeneration(p) \in 1..7 /\ NoCallback.gen = 0
    BY StateFields, NewGenerationType, Nothings
  <2>2. callback.gen = NewGeneration(p) /\ callback.fd = p.sh.fd[kind] /\ callback \in Callbacks
    BY <2>1 DEF Callbacks
  <2> HIDE DEF callback
  <2> QED
    BY <2>1, <2>2, NewGenerationType
<1>2. q = [p EXCEPT !.sh.callback[kind] = callback]
  BY DEF RegisterCallback
<1> HIDE DEF callback, q
<1>3. q \in States
  BY <1>1, <1>2, Zenon DEF States, Shells
<1>4. /\ q.w = p.w /\ Switches(q) = Switches(p) /\ Queues(q) = Queues(p) /\ q.sh.fd = p.sh.fd
      /\ q.sh.tainted = p.sh.tainted
      /\ \A other \in Kinds :
           q.sh.callback[other] = IF other = kind THEN callback ELSE p.sh.callback[other]
  BY <1>2 DEF States, Shells, Switches, Queues
<1>5. \A other \in Kinds : Open(q, other) <=> Open(p, other)
  BY <1>4 DEF Open
<1>6. Handlers(q, cs)
  <2>1. \A c \in cs : c \in calls /\ c.kind \in Kinds
    BY DEF CallSet
  <2> QED
    BY <1>1, <1>4, <1>5, <2>1 DEF Handlers
<1>7. Registered(q)
  BY <1>1, <1>4, <1>5 DEF Registered
<1> QED
  BY <1>3, <1>4, <1>5, <1>6, <1>7 DEF Watched, q

-----------------------------------------------------------------------------
(***************************************************************************)
(* Ending a session.                                                       *)
(***************************************************************************)
\* What is common to all states does not depend on the rest.
LEMMA SameMoving ==
  ASSUME NEW p, NEW q, Moving(p), q.w.request = p.w.request, q.w.worker = p.w.worker,
         q.w.writer = p.w.writer, q.w.handed = p.w.handed, Heard(q) = Heard(p),
         p.sh.stopping => q.sh.stopping,
         Open(q, "ack") <=> Open(p, "ack"), Open(q, "data") <=> Open(p, "data")
  PROVE  Moving(q)
<1>1. q.w.got = p.w.got /\ q.w.emitted = p.w.emitted /\ q.w.handled = p.w.handled
  BY DEF Heard
<1>2. Processes(q)
  BY DEF Moving, Processes
<1>3. ReadsAt(q) = ReadsAt(p) /\ WritesAt(q) = WritesAt(p)
  BY <1>1 DEF ReadsAt, WritesAt
<1>4. Piped(q)
  BY <1>3 DEF Moving, Piped
<1>5. Numbers(q)
  BY <1>1 DEF Moving, Numbers
<1> QED
  BY <1>2, <1>4, <1>5 DEF Moving

\* The writer's slot is given up: its frame is written, or the session ends.
LEMMA ReleaseWriterFields ==
  ASSUME NEW p, NEW cs, CallSet(cs), Watched(p, cs), Moving(p),
         p.w.writer.at = "acked" \/ (p.w.writer.at = "dead" /\ p.sh.stopping)
  PROVE  LET q == ReleaseWriter(p)
         IN  /\ Watched(q, cs) /\ Moving(q)
             /\ Switches(q) = Switches(p) /\ Queues(q) = Queues(p)
             /\ q.w = [p.w EXCEPT !.writer = NoWriter]
             /\ q.sh.nbwfd = p.sh.nbwfd
             /\ ~Open(q, "ack") /\ (Open(q, "data") <=> Open(p, "data"))
             /\ (Open(q, "drain") <=> Open(p, "drain"))
<1> DEFINE c == Close(p, "ack")
           q == ReleaseWriter(p)
<1>0. p \in States /\ "ack" \in Kinds
  BY DEF Watched, Kinds
<1>1. /\ c \in States /\ c.w = p.w /\ Switches(c) = Switches(p) /\ Queues(c) = Queues(p)
      /\ c.sh.nbwfd = p.sh.nbwfd
      /\ ~Open(c, "ack") /\ (Open(c, "data") <=> Open(p, "data"))
      /\ (Open(c, "drain") <=> Open(p, "drain"))
  BY <1>0, CloseFields DEF Kinds
<1>2. Watched(c, cs)
  BY <1>0, CloseWatched
<1>3. q = [c EXCEPT !.w.writer = NoWriter]
  BY DEF ReleaseWriter
<1> HIDE DEF c, q
<1>4. q \in States
  BY <1>1, <1>3, Nothings, Zenon DEF States, Worlds
<1>5. q.sh = c.sh /\ q.w = [p.w EXCEPT !.writer = NoWriter]
  BY <1>1, <1>3 DEF States
<1>6. /\ Switches(q) = Switches(p) /\ Queues(q) = Queues(p) /\ q.sh.nbwfd = p.sh.nbwfd
      /\ \A kind \in Kinds : Open(q, kind) <=> Open(c, kind)
  BY <1>1, <1>5 DEF Switches, Queues, Open
<1>7. Watched(q, cs)
  BY <1>2, <1>4, <1>5, SameWatched
<1>8. /\ q.w.request = p.w.request /\ q.w.worker = p.w.worker /\ q.w.handed = p.w.handed
      /\ q.w.got = p.w.got /\ q.w.emitted = p.w.emitted /\ q.w.handled = p.w.handled
      /\ q.w.writer.at = "none" /\ q.sh.stopping = p.sh.stopping
  BY <1>0, <1>5, <1>6, Nothings DEF States, Worlds, Switches
<1>9. Moving(q)
  <2>1. Processes(q)
    BY <1>1, <1>6, <1>8 DEF Moving, Processes, Kinds
  <2>2. ReadsAt(q) = ReadsAt(p)
    BY <1>8 DEF ReadsAt
  <2>3. ~p.sh.stopping => WritesAt(q) = WritesAt(p)
    BY <1>8 DEF WritesAt
  <2>4. Piped(q)
    BY <1>8, <2>2, <2>3 DEF Moving, Piped
  <2>5. Numbers(q)
    BY <1>8 DEF Moving, Numbers
  <2> QED
    BY <2>1, <2>4, <2>5 DEF Moving
<1> QED
  BY <1>1, <1>5, <1>6, <1>7, <1>9 DEF q, Kinds

\* The response stream is given up once it has ended.
LEMMA CloseResponseFields ==
  ASSUME NEW p, NEW cs, CallSet(cs), Watched(p, cs), Moving(p), Eof(p)
  PROVE  LET q == CloseResponse(p)
         IN  /\ Watched(q, cs) /\ Moving(q) /\ q.w = p.w
             /\ Switches(q) = Switches(p) /\ q.sh.txq = p.sh.txq /\ q.sh.rx = <<>>
             /\ ~Open(q, "data") /\ (Open(q, "ack") <=> Open(p, "ack"))
             /\ (Open(q, "drain") <=> Open(p, "drain"))
<1> DEFINE c == Close(p, "data")
           q == CloseResponse(p)
<1>0. p \in States /\ "data" \in Kinds
  BY DEF Watched, Kinds
<1>1. /\ c \in States /\ c.w = p.w /\ Switches(c) = Switches(p) /\ Queues(c) = Queues(p)
      /\ ~Open(c, "data") /\ (Open(c, "ack") <=> Open(p, "ack"))
      /\ (Open(c, "drain") <=> Open(p, "drain"))
  BY <1>0, CloseFields DEF Kinds
<1>2. Watched(c, cs)
  BY <1>0, CloseWatched
<1>3. q = [c EXCEPT !.sh.rx = <<>>]
  BY DEF CloseResponse
<1> HIDE DEF c, q
<1>4. q \in States
  <2>1. <<>> \in Seq(Nat)
    OBVIOUS
  <2> QED
    BY <1>1, <1>3, <2>1, Zenon DEF States, Shells
<1>5. /\ q.w = c.w /\ Switches(q) = Switches(c) /\ q.sh.txq = c.sh.txq /\ q.sh.rx = <<>>
      /\ q.sh.fd = c.sh.fd /\ q.sh.callback = c.sh.callback /\ q.sh.unread = c.sh.unread /\ q.sh.tainted = c.sh.tainted
  BY <1>1, <1>3 DEF States, Shells, Switches
<1>6. Watched(q, cs) /\ \A kind \in Kinds : Open(q, kind) <=> Open(c, kind)
  BY <1>2, <1>4, <1>5, SameWatched
<1>7. /\ ~Open(q, "data") /\ (Open(q, "ack") <=> Open(p, "ack"))
      /\ (Open(q, "drain") <=> Open(p, "drain"))
  BY <1>1, <1>6 DEF Kinds
<1>8. Moving(q)
  <2>1. q.w = p.w /\ q.sh.stopping = p.sh.stopping
    BY <1>1, <1>5 DEF Switches
  <2>2. Processes(q)
    BY <1>7, <2>1 DEF Moving, Processes, Eof
  <2>3. ReadsAt(q) = ReadsAt(p) /\ WritesAt(q) = WritesAt(p)
    BY <2>1 DEF ReadsAt, WritesAt
  <2>4. Piped(q) /\ Numbers(q)
    BY <2>1, <2>3 DEF Moving, Piped, Numbers
  <2> QED
    BY <2>2, <2>4 DEF Moving
<1> QED
  BY <1>1, <1>5, <1>6, <1>7, <1>8 DEF Queues, q

\* Nothing more is queued for a session that is ended.
LEMMA BeginStopFields ==
  ASSUME NEW p, NEW cs, CallSet(cs), Watched(p, cs)
  PROVE  LET q == BeginStop(p)
         IN  /\ Watched(q, cs) /\ q.w = p.w /\ q.sh.stopping /\ Quiet(q)
             /\ q.sh.tainted = p.sh.tainted /\ q.sh.disabled = p.sh.disabled
             /\ q.sh.failures = p.sh.failures /\ q.sh.doing = p.sh.doing /\ q.sh.after = p.sh.after
             /\ (Open(q, "ack") <=> Open(p, "ack")) /\ (Open(q, "data") <=> Open(p, "data"))
             /\ (Moving(p) => Moving(q))
<1> DEFINE c == Close(p, "drain")
           q == BeginStop(p)
<1>0. p \in States /\ "drain" \in Kinds
  BY DEF Watched, Kinds
<1>1. /\ c \in States /\ c.w = p.w /\ Switches(c) = Switches(p)
      /\ \A kind \in Kinds : Open(c, kind) <=> kind # "drain" /\ Open(p, kind)
  BY <1>0, CloseFields
<1>2. Watched(c, cs)
  BY <1>0, CloseWatched
<1>3. q = [c EXCEPT !.sh.stopping = TRUE, !.sh.txq = <<>>]
  BY DEF BeginStop
<1> HIDE DEF c, q
<1>4. q \in States
  <2>1. <<>> \in Seq(Frames) /\ TRUE \in BOOLEAN
    OBVIOUS
  <2> QED
    BY <1>1, <1>3, <2>1, Zenon DEF States, Shells
<1>5. /\ q.w = c.w /\ q.sh.stopping = TRUE /\ q.sh.txq = <<>> /\ q.sh.tainted = c.sh.tainted
      /\ q.sh.disabled = c.sh.disabled /\ q.sh.failures = c.sh.failures
      /\ q.sh.doing = c.sh.doing /\ q.sh.after = c.sh.after
      /\ q.sh.fd = c.sh.fd /\ q.sh.callback = c.sh.callback /\ q.sh.unread = c.sh.unread
  BY <1>1, <1>3 DEF States, Shells
<1>6. Watched(q, cs) /\ \A kind \in Kinds : Open(q, kind) <=> Open(c, kind)
  BY <1>2, <1>4, <1>5, SameWatched
<1>7. /\ ~Open(q, "drain") /\ (Open(q, "ack") <=> Open(p, "ack"))
      /\ (Open(q, "data") <=> Open(p, "data"))
  BY <1>1, <1>6 DEF Kinds
<1>8. Moving(p) => Moving(q)
  <2>1. Heard(q) = Heard(p)
    BY <1>1, <1>5 DEF Heard
  <2> QED
    BY <1>1, <1>5, <1>7, <2>1, SameMoving
<1> QED
  BY <1>1, <1>5, <1>6, <1>7, <1>8 DEF Switches, Quiet, q

\* The worker is told to go, and the shell waits for it.
LEMMA AbortFields ==
  ASSUME NEW p, NEW cs, CallSet(cs), Common(p, cs), p.sh.stopping => Quiet(p)
  PROVE  LET q == Abort(p)
         IN  /\ Common(q, cs) /\ Quiet(q) /\ q.sh.stopping /\ q.sh.doing = "abort"
             /\ q.sh.after = p.sh.after /\ q.sh.failures = p.sh.failures
             /\ q.sh.disabled = p.sh.disabled /\ q.w.futile = p.w.futile /\ Heard(q) = Heard(p)
             /\ q.sh.tainted = p.sh.tainted
<1> DEFINE a == IF p.sh.stopping THEN p ELSE BeginStop(p)
           q == Abort(p)
<1>0. p \in States /\ Watched(p, cs) /\ Moving(p) /\ p.sh.stopping \in BOOLEAN
  BY StateFields DEF Common, Watched
<1>1. /\ Watched(a, cs) /\ Moving(a) /\ a.w = p.w /\ a.sh.stopping = TRUE /\ Quiet(a)
      /\ a.sh.tainted = p.sh.tainted /\ a.sh.disabled = p.sh.disabled
      /\ a.sh.failures = p.sh.failures /\ a.sh.after = p.sh.after
  <2>1. CASE p.sh.stopping
    BY <1>0, <2>1
  <2>2. CASE ~p.sh.stopping
    <3>1. a = BeginStop(p)
      BY <2>2
    <3>2. a.sh.stopping /\ Watched(a, cs)
      BY <1>0, <3>1, BeginStopFields
    <3>3. a.sh.stopping = TRUE
      BY <3>2, StateFields DEF Watched
    <3> HIDE DEF a
    <3> QED
      BY <1>0, <3>1, <3>3, BeginStopFields
  <2> QED
    BY <2>1, <2>2
<1>2. q = [a EXCEPT !.sh.control = FALSE, !.sh.wfd = FALSE, !.sh.nbwfd = FALSE,
                    !.w.worker.told = @ \/ a.sh.control, !.sh.doing = "abort"]
  BY DEF Abort, CloseRequest, CloseControl
<1> HIDE DEF a, q
<1>3. a \in States /\ a.sh.control \in BOOLEAN /\ a.w.worker \in Workers /\ a.w.worker.told \in BOOLEAN
  BY <1>1 DEF Watched, States, Shells, Worlds, Workers
<1>4. q \in States
  <2>1. (a.w.worker.told \/ a.sh.control) \in BOOLEAN
    BY <1>3
  <2>2. "abort" \in {"nothing", "abort", "ack", "eof"} /\ FALSE \in BOOLEAN
    OBVIOUS
  <2> QED
    BY <1>2, <1>3, <2>1, <2>2, ZenonT(60) DEF States, Shells, Worlds, Workers
<1>5. /\ q.sh.stopping = TRUE /\ q.sh.txq = a.sh.txq /\ q.sh.tainted = a.sh.tainted
      /\ q.sh.disabled = a.sh.disabled /\ q.sh.failures = a.sh.failures
      /\ q.sh.doing = "abort" /\ q.sh.after = a.sh.after
      /\ q.sh.fd = a.sh.fd /\ q.sh.callback = a.sh.callback /\ q.sh.unread = a.sh.unread
  BY <1>1, <1>2, <1>3 DEF States, Shells
<1>6. /\ q.w.request = a.w.request /\ q.w.writer = a.w.writer /\ q.w.handed = a.w.handed
      /\ Heard(q) = Heard(a) /\ q.w.futile = a.w.futile
      /\ q.w.worker.alive = a.w.worker.alive /\ q.w.worker.part = a.w.worker.part
      /\ q.w.worker.read = a.w.worker.read
  BY <1>2, <1>3 DEF States, Worlds, Workers, Heard
<1>7. Watched(q, cs) /\ \A kind \in Kinds : Open(q, kind) <=> Open(a, kind)
  BY <1>1, <1>4, <1>5, SameWatched
<1>8. Moving(q)
  <2>1. q.w.got = a.w.got /\ q.w.emitted = a.w.emitted /\ q.w.handled = a.w.handled
    BY <1>6 DEF Heard
  <2>2. Processes(q)
    BY <1>1, <1>6, <1>7 DEF Moving, Processes, Kinds
  <2>3. ReadsAt(q) = ReadsAt(a) /\ WritesAt(q) = WritesAt(a)
    BY <1>6, <2>1 DEF ReadsAt, WritesAt
  <2>4. Piped(q) /\ Numbers(q)
    BY <1>1, <1>5, <1>6, <2>1, <2>3 DEF Moving, Piped, Numbers
  <2> QED
    BY <2>2, <2>4 DEF Moving
<1>9. Quiet(q)
  BY <1>1, <1>5, <1>7 DEF Quiet, Kinds
<1>10. Common(q, cs)
  BY <1>1, <1>5, <1>7, <1>8 DEF Common
<1> QED
  BY <1>1, <1>5, <1>6, <1>9, <1>10 DEF q, Heard

\* A failing session is ended, and its failure counted once that is done.
LEMMA FailSessionGood ==
  ASSUME NEW p, NEW cs, CallSet(cs), Common(p, cs), p.sh.stopping => Quiet(p),
         ~p.sh.disabled, p.w.futile <= p.sh.failures + 1
  PROVE  /\ Good(FailSession(p), cs) /\ Heard(FailSession(p)) = Heard(p)
         /\ FailSession(p).sh.stopping
<1> DEFINE a == Abort(p)
           q == FailSession(p)
<1>1. /\ Common(a, cs) /\ Quiet(a) /\ a.sh.stopping /\ a.sh.doing = "abort"
      /\ a.sh.failures = p.sh.failures /\ a.sh.disabled = p.sh.disabled
      /\ a.w.futile = p.w.futile /\ Heard(a) = Heard(p)
  BY AbortFields
<1>2. q = [a EXCEPT !.sh.after = "failure"]
  BY DEF FailSession
<1> HIDE DEF a, q
<1>3. a \in States /\ Watched(a, cs) /\ Moving(a)
  BY <1>1 DEF Common, Watched
<1>4. q \in States
  <2>1. "failure" \in {"nothing", "failure", "source"}
    OBVIOUS
  <2> QED
    BY <1>2, <1>3, <2>1, Zenon DEF States, Shells
<1>5. /\ q.w = a.w /\ q.sh.stopping = a.sh.stopping /\ q.sh.txq = a.sh.txq
      /\ q.sh.tainted = a.sh.tainted /\ q.sh.disabled = a.sh.disabled
      /\ q.sh.failures = a.sh.failures /\ q.sh.doing = a.sh.doing /\ q.sh.after = "failure"
      /\ q.sh.fd = a.sh.fd /\ q.sh.callback = a.sh.callback /\ q.sh.unread = a.sh.unread
  BY <1>2, <1>3 DEF States, Shells
<1>6. Watched(q, cs) /\ \A kind \in Kinds : Open(q, kind) <=> Open(a, kind)
  BY <1>3, <1>4, <1>5, SameWatched
<1>7. Moving(q)
  BY <1>3, <1>5, <1>6, SameMoving DEF Heard, Kinds
<1>8. Common(q, cs) /\ Quiet(q)
  BY <1>1, <1>5, <1>6, <1>7 DEF Common, Quiet, Kinds
<1>9. Streak(q)
  BY <1>1, <1>5 DEF Streak, Counts
<1>10. Waiting(q)
  BY <1>1, <1>5 DEF Waiting
<1> QED
  BY <1>1, <1>5, <1>8, <1>9, <1>10 DEF Good, Body, Heard, q

LEMMA SessionFailGood ==
  ASSUME NEW p, NEW cs, CallSet(cs), Common(p, cs), ~p.sh.stopping,
         ~p.sh.disabled, p.w.futile <= p.sh.failures + 1
  PROVE  /\ Good(SessionFail(p), cs) /\ Heard(SessionFail(p)) = Heard(p)
         /\ SessionFail(p).sh.stopping
BY FailSessionGood DEF SessionFail

\* The streak of failures depends on these only while a session is ended.
Course(p) == <<p.sh.stopping, p.sh.disabled, p.sh.failures, p.sh.doing, p.sh.after>>

LEMMA SameStreak ==
  ASSUME NEW p, NEW q, Streak(p), p.sh.stopping, Course(q) = Course(p), q.w.futile = p.w.futile
  PROVE  Streak(q)
BY DEF Streak, Counts, Course

\* Behind the end of a session nothing of it is left.
LEMMA FinalizeBody ==
  ASSUME NEW p, NEW cs, CallSet(cs), Common(p, cs), Streak(p), p.sh.stopping, Done(p)
  PROVE  LET q == Finalize(p)
         IN  /\ Body(q, cs) /\ ~q.sh.stopping /\ \A kind \in Kinds : ~Open(q, kind)
             /\ q.sh.doing = p.sh.doing /\ q.sh.after = p.sh.after
             /\ q.w.got = <<>> /\ q.w.handled = <<>>
<1> DEFINE c == Close(p, "drain")
           worker == [NoWorker EXCEPT !.alive = p.w.worker.alive]
           q == Finalize(p)
<1>0. p \in States /\ "drain" \in Kinds /\ Watched(p, cs) /\ Moving(p)
  BY DEF Common, Watched, Kinds
<1>1. /\ c \in States /\ c.w = p.w /\ Switches(c) = Switches(p)
      /\ \A kind \in Kinds : Open(c, kind) <=> kind # "drain" /\ Open(p, kind)
  BY <1>0, CloseFields
<1>2. Watched(c, cs)
  BY <1>0, CloseWatched
<1>3. worker \in Workers /\ worker.alive = p.w.worker.alive /\ worker.read = 0
  <2>1. p.w.worker.alive \in BOOLEAN
    BY <1>0 DEF States, Worlds, Workers
  <2> QED
    BY <2>1, Nothings DEF Workers
<1> DEFINE x == CloseControl(CloseRequest(c))
           y == [x.sh EXCEPT !.rx = <<>>, !.txq = <<>>, !.stopping = FALSE, !.unread = FALSE]
           z == [p.w EXCEPT !.worker = worker, !.frames = 0,
                            !.handed = <<>>, !.got = <<>>, !.emitted = 0, !.handled = <<>>,
                            !.request = <<>>, !.response = <<>>]
<1>4. q = [sh |-> y, w |-> z]
  <2>1. x.w = p.w
    <3>1. CloseRequest(c) \in [sh : {CloseRequest(c).sh}, w : {c.w}]
      BY <1>1 DEF CloseRequest, States
    <3> QED
      BY <1>1, <3>1 DEF CloseControl
  <2>2. q = [sh |-> [x.sh EXCEPT !.rx = <<>>, !.txq = <<>>, !.stopping = FALSE, !.unread = FALSE],
             w |-> [x.w EXCEPT !.worker = [NoWorker EXCEPT !.alive = x.w.worker.alive],
                               !.frames = 0, !.handed = <<>>, !.got = <<>>, !.emitted = 0,
                               !.handled = <<>>, !.request = <<>>, !.response = <<>>]]
    BY DEF Finalize
  <2> HIDE DEF x, q
  <2> QED
    BY <2>1, <2>2
<1> HIDE DEF c, worker, q
<1>15. x \in States /\ x.w = p.w /\ Switches(x) = Switches(c)
       /\ x.sh.fd = c.sh.fd /\ x.sh.callback = c.sh.callback /\ x.sh.unread = c.sh.unread
  <2>1. x \in States
    BY <1>1, FALSE \in BOOLEAN, Zenon DEF States, Shells, CloseControl, CloseRequest
  <2> QED
    BY <1>1, <2>1 DEF States, Shells, CloseControl, CloseRequest, Switches
<1>5. q \in States
  <2>1. /\ <<>> \in Seq(Nat) /\ <<>> \in Seq(Frames) /\ <<>> \in Seq(ChunkSet)
        /\ 0 \in Nat /\ FALSE \in BOOLEAN /\ x.sh \in Shells /\ p.w \in Worlds
    BY <1>0, <1>15 DEF States
  <2> HIDE DEF x
  <2>2. y \in Shells
    BY <2>1, Zenon DEF Shells
  <2>3. z \in Worlds
    BY <1>3, <2>1, Zenon DEF Worlds
  <2> HIDE DEF y, z
  <2> QED
    BY <1>4, <1>15, <2>2, <2>3, Zenon DEF States
<1> HIDE DEF x
<1>16. q.sh = y /\ q.w = z
  BY <1>4, <1>15 DEF States
<1>6. /\ q.sh.stopping = FALSE /\ q.sh.txq = <<>> /\ q.sh.rx = <<>> /\ q.sh.tainted = c.sh.tainted
      /\ q.sh.disabled = c.sh.disabled /\ q.sh.failures = c.sh.failures
      /\ q.sh.doing = c.sh.doing /\ q.sh.after = c.sh.after
      /\ q.sh.fd = c.sh.fd /\ q.sh.callback = c.sh.callback /\ q.sh.unread = FALSE
  BY <1>15, <1>16 DEF States, Shells, Switches
<1>7. /\ q.w.worker = worker /\ q.w.frames = 0 /\ q.w.handed = <<>> /\ q.w.got = <<>>
      /\ q.w.emitted = 0 /\ q.w.handled = <<>> /\ q.w.request = <<>> /\ q.w.response = <<>>
      /\ q.w.writer = p.w.writer /\ q.w.futile = p.w.futile
  BY <1>0, <1>16 DEF States, Worlds
<1>9. \A kind \in Kinds : ~Open(q, kind)
  BY <1>1, <1>6 DEF Done, Open, Kinds
<1>8. Watched(q, cs)
  <2>1. \A kind \in Kinds : ~Open(c, kind)
    BY <1>1 DEF Done, Kinds
  <2>2. Handlers(q, cs)
    BY <1>2, <1>6, <2>1 DEF Watched, Handlers
  <2>3. Registered(q)
    BY <1>9 DEF Registered
  <2> QED
    BY <1>5, <2>2, <2>3 DEF Watched
<1>10. q.w.writer.at = "none" /\ ~q.w.worker.alive
  BY <1>0, <1>3, <1>7 DEF Moving, Processes, Done
<1>11. Moving(q)
  <2>1. Processes(q)
    BY <1>9, <1>10 DEF Processes, Kinds
  <2>2. ReadsAt(q) = <<1, 1>> /\ WritesAt(q) = <<1, 1>>
    BY <1>3, <1>7, <1>10 DEF ReadsAt, WritesAt
  <2>3. Piped(q)
    BY <1>7, <2>2, Bounds DEF Piped
  <2>4. Numbers(q)
    BY <1>3, <1>7, Bounds DEF Numbers, InOrder
  <2> QED
    BY <2>1, <2>3, <2>4 DEF Moving
<1>12. Common(q, cs)
  BY <1>1, <1>6, <1>8, <1>11 DEF Common, Switches
<1>13. Live(q)
  BY <1>3, <1>6, <1>7, <1>9, Bounds
     DEF Live, Queued, Coming, WriterComes, DrainComes, NoSession, Kinds
<1>14. Streak(q)
  BY <1>1, <1>6, <1>7, <1>9 DEF Streak, Counts, Switches, Kinds
<1> QED
  BY <1>1, <1>6, <1>7, <1>9, <1>12, <1>13, <1>14 DEF Body, Switches, q

\* What a step that is not the worker's may do to the channels.
Kept(q, p) == Heard(q) = Heard(p)
Ended(q) == q.w.got = <<>> /\ q.w.handled = <<>>

\* Whatever the response stream holds is thrown away.
LEMMA FlushedResponse ==
  ASSUME NEW p, NEW cs, CallSet(cs), Common(p, cs)
  PROVE  LET q == [p EXCEPT !.w.response = <<>>]
         IN  /\ Common(q, cs) /\ q.sh = p.sh /\ Kept(q, p) /\ q.w.futile = p.w.futile
             /\ q.w.worker = p.w.worker /\ q.w.writer = p.w.writer
<1> DEFINE q == [p EXCEPT !.w.response = <<>>]
<1>0. p \in States /\ Watched(p, cs) /\ Moving(p)
  BY DEF Common, Watched
<1>1. q \in States
  <2>1. <<>> \in Seq(Nat)
    OBVIOUS
  <2> QED
    BY <1>0, <2>1, Zenon DEF States, Worlds
<1>2. /\ q.sh = p.sh /\ q.w.request = p.w.request /\ q.w.worker = p.w.worker
      /\ q.w.writer = p.w.writer /\ q.w.handed = p.w.handed /\ Heard(q) = Heard(p)
      /\ q.w.futile = p.w.futile
  BY <1>0 DEF States, Worlds, Heard
<1> HIDE DEF q
<1>3. Watched(q, cs) /\ \A kind \in Kinds : Open(q, kind) <=> Open(p, kind)
  BY <1>0, <1>1, <1>2, SameWatched
<1>4. Moving(q)
  BY <1>0, <1>2, <1>3, SameMoving DEF Kinds
<1>5. Common(q, cs)
  BY <1>2, <1>3, <1>4 DEF Common
<1> QED
  BY <1>2, <1>5 DEF q, Kept

\* What remains of a session that is being ended, when some of it is done.
Nearer(q, p, cs) ==
  /\ Common(q, cs) /\ Course(q) = Course(p) /\ Quiet(q) /\ Kept(q, p)
  /\ q.w.futile = p.w.futile /\ (Open(q, "ack") => Open(p, "ack"))

\* The response stream is not watched any more, but still open.
LEMMA ReadFailsNearer ==
  ASSUME NEW p, NEW cs, CallSet(cs), Common(p, cs), Quiet(p), p.sh.stopping
  PROVE  Nearer(ReadFails(p), p, cs)
<1> DEFINE q == ReadFails(p)
<1>0. p \in States /\ Watched(p, cs) /\ Moving(p) /\ "data" \in Kinds
  BY DEF Common, Watched, Kinds
<1>1. q \in States
  BY <1>0, TRUE \in BOOLEAN, Nothings, Zenon DEF ReadFails, InvalidateCallback, States, Shells
<1>2. /\ q.w = p.w /\ Course(q) = Course(p) /\ Queues(q) = Queues(p)
      /\ q.sh.tainted = p.sh.tainted /\ q.sh.unread = TRUE /\ q.sh.fd = p.sh.fd
  BY <1>0 DEF ReadFails, InvalidateCallback, States, Shells, Course, Queues
<1>3. \A kind \in Kinds :
        q.sh.callback[kind] = IF kind = "data" THEN NoCallback ELSE p.sh.callback[kind]
  BY <1>0 DEF ReadFails, InvalidateCallback, States, Shells
<1> HIDE DEF q
<1>4. \A kind \in Kinds : Open(q, kind) <=> Open(p, kind)
  BY <1>2 DEF Open
<1>5. Watched(q, cs)
  <2>1. \A c \in cs : c.kind \in Kinds /\ c.gen # 0
    BY DEF CallSet
  <2>2. NoCallback.gen = 0
    BY Nothings
  <2>3. Handlers(q, cs)
    BY <1>0, <1>2, <1>3, <1>4, <2>1, <2>2 DEF Watched, Handlers
  <2>4. Registered(q)
    BY <1>0, <1>2, <1>3, <1>4 DEF Watched, Registered
  <2> QED
    BY <1>1, <2>3, <2>4 DEF Watched
<1>6. Moving(q)
  BY <1>0, <1>2, <1>4, SameMoving DEF Heard, Course, Kinds
<1>7. Common(q, cs)
  BY <1>2, <1>5, <1>6 DEF Common, Course
<1> QED
  BY <1>2, <1>4, <1>7 DEF Nearer, Quiet, Queues, Kept, Heard, Kinds, q

\* Whatever it holds is thrown away, and it is closed when it has ended.
LEMMA DrainedNearer ==
  ASSUME NEW p, NEW cs, CallSet(cs), Common(p, cs), Quiet(p), p.sh.stopping
  PROVE  Nearer(Drained(p), p, cs)
<1> DEFINE b == [p EXCEPT !.w.response = <<>>]
           c == CloseResponse(b)
<1>1. /\ Common(b, cs) /\ b.sh = p.sh /\ Kept(b, p) /\ b.w.futile = p.w.futile
      /\ b.w.worker = p.w.worker
  BY FlushedResponse
<1>2. Drained(p) = IF Eof(p) THEN c ELSE b
  BY DEF Drained
<1> HIDE DEF b
<1>3. Nearer(b, p, cs)
  BY <1>1 DEF Nearer, Course, Quiet, Open
<1>4. CASE Eof(p)
  <2>1. Eof(b) /\ Watched(b, cs) /\ Moving(b)
    BY <1>1, <1>4 DEF Common, Eof
  <2>2. /\ Watched(c, cs) /\ Moving(c) /\ c.w = b.w /\ Switches(c) = Switches(b)
        /\ c.sh.txq = b.sh.txq /\ (Open(c, "ack") <=> Open(b, "ack"))
        /\ (Open(c, "drain") <=> Open(b, "drain"))
    BY <2>1, CloseResponseFields
  <2> HIDE DEF c
  <2>3. Common(c, cs)
    BY <1>1, <2>2 DEF Common, Switches
  <2>4. Nearer(c, p, cs)
    BY <1>3, <2>2, <2>3 DEF Nearer, Course, Switches, Quiet, Kept, Heard
  <2> QED
    BY <1>2, <1>4, <2>4
<1> QED
  BY <1>2, <1>3, <1>4

\* A session that is being ended comes closer to its end, or ends.
LEMMA StopProgressBody ==
  ASSUME NEW p, NEW cs, CallSet(cs), Body(p, cs), p.sh.stopping, NEW outcome
  PROVE  LET q == StopProgress(p, outcome)
         IN  /\ Body(q, cs) /\ q.sh.doing = p.sh.doing /\ q.sh.after = p.sh.after
             /\ q.sh.stopping => Kept(q, p) /\ (Open(q, "ack") \/ Open(q, "data"))
             /\ ~q.sh.stopping => Ended(q) /\ \A kind \in Kinds : ~Open(q, kind)
             /\ Open(q, "ack") => Open(p, "ack")
<1> DEFINE a == IF Open(p, "ack") /\ WriterDone(p) THEN ReleaseWriter(p) ELSE p
           c == CASE ~Open(a, "data") -> a
                  [] Open(a, "data") /\ outcome = "read" -> ReadFails(a)
                  [] OTHER -> Drained(a)
           q == StopProgress(p, outcome)
<1>0. q = IF Done(c) THEN Finalize(c) ELSE c
  BY DEF StopProgress
<1> HIDE DEF q
<1>1. p \in States /\ Watched(p, cs) /\ Moving(p) /\ Common(p, cs) /\ Streak(p) /\ Quiet(p)
  BY DEF Body, Common, Watched
<1>2. Nearer(a, p, cs)
  <2>1. CASE ~(Open(p, "ack") /\ WriterDone(p))
    BY <1>1, <2>1 DEF Nearer, Kept
  <2>2. CASE Open(p, "ack") /\ WriterDone(p)
    <3>1. a = ReleaseWriter(p)
      BY <2>2
    <3> HIDE DEF a
    <3>2. p.w.writer.at = "acked" \/ (p.w.writer.at = "dead" /\ p.sh.stopping)
      BY <2>2 DEF WriterDone, PollWriter
    <3>3. /\ Watched(a, cs) /\ Moving(a) /\ Switches(a) = Switches(p) /\ Queues(a) = Queues(p)
          /\ a.w = [p.w EXCEPT !.writer = NoWriter] /\ (Open(a, "drain") <=> Open(p, "drain"))
          /\ ~Open(a, "ack")
      BY <1>1, <3>1, <3>2, ReleaseWriterFields
    <3>4. Kept(a, p) /\ a.w.futile = p.w.futile
      BY <1>1, <3>3 DEF States, Worlds, Kept, Heard
    <3>5. Common(a, cs)
      BY <1>1, <3>3 DEF Common, Switches
    <3> QED
      BY <1>1, <3>3, <3>4, <3>5 DEF Nearer, Course, Switches, Quiet, Queues
  <2> QED
    BY <2>1, <2>2
<1> HIDE DEF a
<1>3. Common(a, cs) /\ Quiet(a) /\ a.sh.stopping
  BY <1>2 DEF Nearer, Course
<1>4. Nearer(c, p, cs)
  <2>1. c = a \/ c = ReadFails(a) \/ c = Drained(a)
    OBVIOUS
  <2>2. Nearer(ReadFails(a), a, cs) /\ Nearer(Drained(a), a, cs)
    BY <1>3, ReadFailsNearer, DrainedNearer
  <2> HIDE DEF c
  <2> QED
    BY <1>2, <2>1, <2>2 DEF Nearer, Kept
<1> HIDE DEF c
<1>5. Streak(c) /\ c.sh.stopping
  BY <1>1, <1>4, SameStreak DEF Nearer, Course
<1>6. CASE Done(c)
  <2>1. /\ Body(q, cs) /\ ~q.sh.stopping /\ \A kind \in Kinds : ~Open(q, kind)
        /\ q.sh.doing = c.sh.doing /\ q.sh.after = c.sh.after /\ Ended(q)
    BY <1>0, <1>4, <1>5, <1>6, FinalizeBody DEF Nearer, Ended
  <2> QED
    BY <1>4, <2>1 DEF Nearer, Course, q, Kinds
<1>7. CASE ~Done(c)
  <2>1. q = c
    BY <1>0, <1>7
  <2>2. Body(c, cs)
    BY <1>4, <1>5 DEF Nearer, Body
  <2> QED
    BY <1>4, <1>5, <1>7, <2>1, <2>2 DEF Nearer, Course, Done, q
<1> QED
  BY <1>6, <1>7

\* The shell is done waiting, and counts a failure, or begins anew.
LEMMA ReturnGood ==
  ASSUME NEW p, NEW cs, CallSet(cs), Body(p, cs),
         p.sh.stopping => Open(p, "ack") \/ Open(p, "data"),
         ~p.sh.stopping => \A kind \in Kinds : ~Open(p, kind)
  PROVE  /\ Good(Return(p), cs) /\ Return(p).w = p.w
         /\ Return(p).sh.stopping = p.sh.stopping
<1> DEFINE q == Return(p)
<1>0. p \in States /\ Watched(p, cs) /\ Moving(p) /\ Common(p, cs) /\ Streak(p)
      /\ p.sh.failures \in 0..2 /\ p.sh.disabled \in BOOLEAN /\ p.sh.stopping \in BOOLEAN
      /\ p.sh.after \in {"nothing", "failure", "source"} /\ p.w.futile \in Nat
  BY StateFields DEF Body, Common, Watched
<1> DEFINE r == [p EXCEPT !.sh.doing = "nothing", !.sh.after = "nothing"]
<1>1. /\ r \in States /\ r.w = p.w /\ r.sh.doing = "nothing" /\ r.sh.after = "nothing"
      /\ r.sh.stopping = p.sh.stopping /\ r.sh.tainted = p.sh.tainted /\ Queues(r) = Queues(p)
      /\ r.sh.disabled = p.sh.disabled /\ r.sh.failures = p.sh.failures
      /\ r.sh.fd = p.sh.fd /\ r.sh.callback = p.sh.callback /\ r.sh.unread = p.sh.unread
  <2>1. /\ "nothing" \in {"nothing", "abort", "ack", "eof"}
        /\ "nothing" \in {"nothing", "failure", "source"}
    OBVIOUS
  <2>2. r \in States
    BY <1>0, <2>1, Zenon DEF States, Shells
  <2> QED
    BY <1>0, <2>2 DEF States, Shells, Queues
<1> HIDE DEF r
<1>2. /\ q \in States /\ q.w = p.w /\ q.sh.doing = "nothing" /\ q.sh.after = "nothing"
      /\ q.sh.stopping = p.sh.stopping /\ Queues(q) = Queues(p)
      /\ q.sh.fd = p.sh.fd /\ q.sh.callback = p.sh.callback /\ q.sh.unread = p.sh.unread
      /\ q.sh.tainted = p.sh.tainted \/ ~p.sh.stopping
      /\ CASE p.sh.after = "failure" ->
                q.sh.failures = p.sh.failures + 1 /\ q.sh.disabled = Breaker(p.sh.failures + 1)
           [] p.sh.after = "source" /\ ~p.sh.stopping ->
                /\ q.sh.failures = IF p.sh.disabled THEN 0 ELSE p.sh.failures
                /\ q.sh.disabled = FALSE
           [] OTHER -> q.sh.failures = p.sh.failures /\ q.sh.disabled = p.sh.disabled
  <2>1. CASE p.sh.after = "failure"
    <3>1. q = [r EXCEPT !.sh.failures = r.sh.failures + 1,
                        !.sh.disabled = Breaker(p.sh.failures + 1)]
      BY <1>1, <2>1 DEF Return, r
    <3> HIDE DEF q
    <3>2. r.sh.failures + 1 \in 0..2 /\ Breaker(p.sh.failures + 1) \in BOOLEAN
      BY <1>0, <1>1, <2>1 DEF Common, Streak, Breaker
    <3>3. q \in States
      BY <1>1, <3>1, <3>2, Zenon DEF States, Shells
    <3>4. /\ q.w = r.w /\ q.sh.doing = r.sh.doing /\ q.sh.after = r.sh.after
          /\ q.sh.stopping = r.sh.stopping /\ Queues(q) = Queues(r)
          /\ q.sh.fd = r.sh.fd /\ q.sh.callback = r.sh.callback /\ q.sh.unread = r.sh.unread /\ q.sh.tainted = r.sh.tainted
          /\ q.sh.failures = r.sh.failures + 1 /\ q.sh.disabled = Breaker(p.sh.failures + 1)
      BY <1>1, <3>1 DEF States, Shells, Queues
    <3> QED
      BY <1>1, <2>1, <3>3, <3>4
  <2>2. CASE p.sh.after = "source" /\ ~p.sh.stopping
    <3> DEFINE failures == IF p.sh.disabled THEN 0 ELSE r.sh.failures
    <3>1. q = [r EXCEPT !.sh.failures = failures, !.sh.disabled = FALSE, !.sh.tainted = FALSE]
      BY <1>1, <2>2 DEF Return, r
    <3>2. failures \in 0..2 /\ FALSE \in BOOLEAN
      BY <1>0, <1>1
    <3> HIDE DEF q, failures
    <3>3. q \in States
      BY <1>1, <3>1, <3>2, Zenon DEF States, Shells
    <3>4. /\ q.w = r.w /\ q.sh.doing = r.sh.doing /\ q.sh.after = r.sh.after
          /\ q.sh.stopping = r.sh.stopping /\ Queues(q) = Queues(r)
          /\ q.sh.fd = r.sh.fd /\ q.sh.callback = r.sh.callback /\ q.sh.unread = r.sh.unread
          /\ q.sh.failures = failures /\ q.sh.disabled = FALSE
      BY <1>1, <3>1 DEF States, Shells, Queues
    <3> QED
      BY <1>1, <2>2, <3>3, <3>4 DEF failures
  <2>3. CASE ~(p.sh.after = "failure" \/ (p.sh.after = "source" /\ ~p.sh.stopping))
    <3>1. q = r
      BY <2>3 DEF Return, r
    <3> QED
      BY <1>1, <2>3, <3>1
  <2> QED
    BY <2>1, <2>2, <2>3
<1> HIDE DEF q
<1>3. \A kind \in Kinds : Open(q, kind) <=> Open(p, kind)
  BY <1>2 DEF Open
<1>4. Watched(q, cs)
  <2>1. Handlers(q, cs)
    BY <1>0, <1>2, <1>3 DEF Watched, Handlers
  <2>2. Registered(q)
    BY <1>0, <1>2, <1>3 DEF Watched, Registered
  <2> QED
    BY <1>2, <2>1, <2>2 DEF Watched
<1>5. Moving(q)
  BY <1>0, <1>2, <1>3, SameMoving DEF Heard, Kinds
<1>6. q.sh.disabled <=> q.sh.failures = 2
  <2>1. p.sh.disabled <=> p.sh.failures = 2
    BY <1>0 DEF Common
  <2>2. p.sh.after = "failure" => ~p.sh.disabled
    BY <1>0 DEF Streak
  <2>3. CASE p.sh.after = "failure"
    <3>1. q.sh.failures = p.sh.failures + 1 /\ q.sh.disabled = Breaker(p.sh.failures + 1)
      BY <1>2, <2>3
    <3>2. p.sh.failures \in 0..1
      BY ONLY <1>0, <2>1, <2>2, <2>3
    <3>3. Breaker(p.sh.failures + 1) <=> p.sh.failures + 1 = 2
      BY ONLY <3>2 DEF Breaker
    <3> QED
      BY ONLY <3>1, <3>3
  <2>4. CASE p.sh.after = "source" /\ ~p.sh.stopping
    <3>1. q.sh.failures = (IF p.sh.disabled THEN 0 ELSE p.sh.failures) /\ q.sh.disabled = FALSE
      BY <1>2, <2>4
    <3> QED
      BY ONLY <2>1, <3>1
  <2>5. CASE ~(p.sh.after = "failure" \/ (p.sh.after = "source" /\ ~p.sh.stopping))
    BY <1>2, <2>1, <2>5
  <2> QED
    BY ONLY <2>3, <2>4, <2>5
<1>7. Streak(q)
  BY <1>0, <1>2, <1>3 DEF Streak, Counts, Breaker, Kinds
<1>8. p.sh.stopping => Quiet(q)
  BY <1>2, <1>3 DEF Body, Quiet, Queues, Kinds
<1>9. ~p.sh.stopping => Live(q)
  <2>1. q.sh.txq = p.sh.txq /\ q.sh.rx = p.sh.rx
    BY <1>2 DEF Queues
  <2> QED
    BY <1>2, <1>3, <2>1
       DEF Body, Live, Queued, Coming, WriterComes, DrainComes, NoSession, Kinds
<1>10. Waiting(q)
  BY <1>2, <1>3 DEF Waiting, Kinds
<1> QED
  BY <1>2, <1>4, <1>5, <1>6, <1>7, <1>8, <1>9, <1>10 DEF Good, Body, Common, q

-----------------------------------------------------------------------------
(***************************************************************************)
(* Sending.  A session with frames in its queue that nobody writes yet, or *)
(* messages in its buffer that nobody will come back to yet:               *)
(***************************************************************************)
Running(p, cs) ==
  /\ Common(p, cs) /\ Streak(p) /\ p.sh.stopping = FALSE
  /\ p.sh.doing = "nothing" /\ p.sh.after = "nothing"
  /\ Open(p, "data") /\ Queued(p) /\ Coming(p)

LEMMA RunningGood ==
  ASSUME NEW p, NEW cs
  PROVE  /\ Running(p, cs) /\ WriterComes(p) /\ DrainComes(p) => Good(p, cs)
         /\ Good(p, cs) /\ Open(p, "data") /\ ~p.sh.stopping =>
              Running(p, cs) /\ WriterComes(p) /\ DrainComes(p)
         /\ Running(p, cs) => ~p.sh.disabled /\ p.w.futile <= p.sh.failures + 1
<1>1. Running(p, cs) /\ WriterComes(p) /\ DrainComes(p) => Good(p, cs)
  BY DEF Running, Good, Body, Live, Waiting
<1>2. ASSUME Good(p, cs), Open(p, "data"), ~p.sh.stopping
      PROVE  Running(p, cs) /\ WriterComes(p) /\ DrainComes(p)
  <2>1. p.sh.stopping = FALSE
    BY <1>2, StateFields DEF Good, Body, Common, Watched
  <2> QED
    BY <1>2, <2>1 DEF Running, Good, Body, Live, Waiting
<1>3. ASSUME Running(p, cs)
      PROVE  ~p.sh.disabled /\ p.w.futile <= p.sh.failures + 1
  BY <1>3 DEF Running, Streak, Counts
<1> QED
  BY <1>1, <1>2, <1>3

\* The chunks of a frame.
LEMMA ChunksFields ==
  ASSUME NEW f \in Frames
  PROVE  /\ \A k \in 1..f.parts : Chunks(f)[k] = [n |-> f.n, k |-> k, parts |-> f.parts]
         /\ Head(Chunks(f)) = [n |-> f.n, k |-> 1, parts |-> f.parts]
<1> DEFINE n == f.n
           parts == f.parts
           s == [k \in 1..parts |-> [n |-> n, k |-> k, parts |-> parts]]
<1>1. n \in Nat /\ parts \in {1, 2}
  BY DEF Frames
<1>2. Chunks(f) = s
  BY DEF Chunks
<1> HIDE DEF n, parts
<1>3. \A k \in 1..parts : s[k] = [n |-> n, k |-> k, parts |-> parts]
  OBVIOUS
<1>4. 1 \in 1..parts
  BY <1>1
<1>5. IsSeq(s) /\ s # <<>>
  <2>1. s \in Seq([n : {n}, k : 1..parts, parts : {parts}])
    <3> DEFINE S == [n : {n}, k : 1..parts, parts : {parts}]
    <3>1. \A k \in 1..parts : [n |-> n, k |-> k, parts |-> parts] \in S
      OBVIOUS
    <3>2. s \in [1..parts -> S]
      BY <3>1
    <3> HIDE DEF s, S
    <3>3. parts \in Nat
      BY <1>1
    <3>4. s \in Seq(S)
      BY ONLY <3>2, <3>3
    <3> QED
      BY <3>4 DEF S
  <2>2. DOMAIN s = 1..parts
    OBVIOUS
  <2> HIDE DEF s
  <2>3. IsSeq(s)
    BY <2>1, SeqIsSeq
  <2> QED
    BY <1>4, <2>2, <2>3, SeqEmpty
<1>6. Head(s) = s[1]
  <2> HIDE DEF s
  <2> QED
    BY <1>5, SeqTail
<1> QED
  BY <1>2, <1>3, <1>4, <1>6 DEF n, parts

\* How many frames are written at once: some of the first, single chunks that fit.
LEMMA WriteDirectCount ==
  ASSUME NEW p \in States
  PROVE  LET k == CHOOSE k \in 0..Len(p.sh.txq) :
                    (k = 0 \/ Direct(p, k)) /\ ~(k < Len(p.sh.txq) /\ Direct(p, k + 1))
         IN  k \in 0..Len(p.sh.txq) /\ (k = 0 \/ Direct(p, k))
<1> DEFINE n == Len(p.sh.txq)
           Most(k) == (k = 0 \/ Direct(p, k)) /\ ~(k < n /\ Direct(p, k + 1))
<1>1. n \in Nat
  BY StateFields
<1> HIDE DEF n
<1>2. \E k \in 0..n : Most(k)
  <2> SUFFICES ASSUME \A k \in 0..n : ~Most(k) PROVE FALSE
    OBVIOUS
  <2> DEFINE T == {k \in Nat : k <= n => k = 0 \/ Direct(p, k)}
  <2>1. 0 \in T
    OBVIOUS
  <2>2. \A k \in Nat : k \in T => k + 1 \in T
    <3> SUFFICES ASSUME NEW k \in Nat, k \in T, k + 1 <= n PROVE Direct(p, k + 1)
      OBVIOUS
    <3>1. k \in 0..n /\ k < n /\ (k = 0 \/ Direct(p, k))
      BY <1>1
    <3> QED
      BY <3>1
  <2>3. n \in T
    <3> HIDE DEF T
    <3>1. \A k \in Nat : k \in T
      BY ONLY <2>1, <2>2, SetInduction
    <3> QED
      BY <1>1, <3>1
  <2>4. Most(n)
    BY <1>1, <2>3
  <2> QED
    BY <1>1, <2>4
<1> QED
  BY <1>2 DEF n

LEMMA WriteDirectRunning ==
  ASSUME NEW p, NEW cs, CallSet(cs), Running(p, cs), ~Open(p, "ack")
  PROVE  LET q == WriteDirect(p)
         IN  /\ Running(q, cs) /\ ~Open(q, "ack") /\ Kept(q, p)
             /\ q.sh.rx = p.sh.rx /\ (Open(q, "drain") <=> Open(p, "drain"))
<1> DEFINE k == CHOOSE k \in 0..Len(p.sh.txq) :
                  (k = 0 \/ Direct(p, k)) /\ ~(k < Len(p.sh.txq) /\ Direct(p, k + 1))
           d == [i \in 1..k |-> Head(Chunks(p.sh.txq[i]))]
           e == [i \in 1..k |-> p.sh.txq[i].n]
           t == SubSeq(p.sh.txq, k + 1, Len(p.sh.txq))
           q == WriteDirect(p)
<1>0. /\ p \in States /\ Watched(p, cs) /\ Moving(p) /\ Queued(p)
      /\ "ack" \in Kinds /\ p.w.writer.at = "none"
  BY DEF Running, Common, Watched, Moving, Processes, Kinds, Live
<1>1. /\ p.sh.txq \in Seq(Frames) /\ p.w.request \in Seq(ChunkSet) /\ p.w.handed \in Seq(Nat)
      /\ Len(p.w.handed) \in Nat /\ Len(p.sh.txq) \in Nat /\ Len(p.w.request) \in Nat
  BY <1>0, StateFields
<1>2. k \in 0..Len(p.sh.txq) /\ (k = 0 \/ Direct(p, k))
  BY <1>0, WriteDirectCount
<1> HIDE DEF k
<1>3. k \in Nat /\ k <= Len(p.sh.txq) /\ Len(p.w.request) + k <= Capacity
  BY <1>0, <1>1, <1>2, Bounds DEF Direct, Moving, Piped
<1>4. \A i \in 1..k : /\ i \in 1..Len(p.sh.txq) /\ p.sh.txq[i] \in Frames
                      /\ p.sh.txq[i].n = Len(p.w.handed) + i /\ p.sh.txq[i].parts = 1
  <2>1. \A i \in 1..k : i \in 1..Len(p.sh.txq) /\ p.sh.txq[i] \in Frames
    BY <1>1, <1>3
  <2> QED
    BY <1>0, <1>1, <1>2, <2>1 DEF Queued, Direct
<1>5. /\ d \in Seq(ChunkSet) /\ Len(d) = k
      /\ \A i \in 1..k : d[i] = [n |-> Len(p.w.handed) + i, k |-> 1, parts |-> 1]
  <2>1. \A i \in 1..k : d[i] = [n |-> Len(p.w.handed) + i, k |-> 1, parts |-> 1]
    BY <1>4, ChunksFields
  <2>2. \A i \in 1..k : d[i] \in ChunkSet
    <3> SUFFICES ASSUME NEW i \in 1..k PROVE d[i] \in ChunkSet
      OBVIOUS
    <3> DEFINE n == Len(p.w.handed) + i
    <3>1. n \in Nat
      BY <1>1, <1>3
    <3>2. d[i] = [n |-> n, k |-> 1, parts |-> 1]
      BY <2>1
    <3> HIDE DEF n, d
    <3> QED
      BY ONLY <3>1, <3>2 DEF ChunkSet
  <2>3. d \in [1..k -> ChunkSet]
    BY <2>2
  <2> HIDE DEF d
  <2> QED
    BY <1>3, <2>1, <2>3
<1>6. /\ e \in Seq(Nat) /\ Len(e) = k /\ \A i \in 1..k : e[i] = Len(p.w.handed) + i
  <2>1. \A i \in 1..k : e[i] = Len(p.w.handed) + i
    BY <1>4
  <2>2. e \in [1..k -> Nat]
    BY <1>1, <2>1
  <2> HIDE DEF e
  <2> QED
    BY <1>3, <2>1, <2>2
<1>7. /\ t \in Seq(Frames) /\ Len(t) = Len(p.sh.txq) - k
      /\ \A i \in DOMAIN t : t[i] = p.sh.txq[k + i] /\ k + i \in 1..Len(p.sh.txq)
  BY <1>1, <1>3, SMTT(30)
<1>8. q = [p EXCEPT !.w.request = p.w.request \o d, !.w.handed = p.w.handed \o e, !.sh.txq = t]
  BY DEF WriteDirect, k
<1> HIDE DEF d, e, t, q
<1> DEFINE request == p.w.request \o d
           handed == p.w.handed \o e
           a == Len(p.w.handed)
           m == Len(p.w.request)
<1>9. /\ request \in Seq(ChunkSet) /\ Len(request) = m + k /\ DOMAIN request = 1..(m + k)
      /\ \A i \in 1..m : request[i] = p.w.request[i]
      /\ \A i \in 1..k : request[m + i] = d[i]
  <2>1. IsSeq(p.w.request) /\ IsSeq(d) /\ Len(d) = k /\ m \in Nat
    BY <1>1, <1>5, SeqIsSeq
  <2>2. /\ IsSeq(request) /\ Len(request) = m + k
        /\ \A i \in 1..m : request[i] = p.w.request[i]
        /\ \A i \in 1..k : request[m + i] = d[i]
    BY <2>1, SeqConcat
  <2>3. request \in Seq(ChunkSet)
    BY <1>1, <1>5
  <2> QED
    BY <2>2, <2>3, SeqFacts
<1>10. /\ handed \in Seq(Nat) /\ Len(handed) = a + k /\ DOMAIN handed = 1..(a + k)
       /\ \A i \in 1..a : handed[i] = p.w.handed[i]
       /\ \A i \in 1..k : handed[a + i] = e[i]
  <2>1. IsSeq(p.w.handed) /\ IsSeq(e) /\ Len(e) = k /\ a \in Nat
    BY <1>1, <1>6, SeqIsSeq
  <2>2. /\ IsSeq(handed) /\ Len(handed) = a + k
        /\ \A i \in 1..a : handed[i] = p.w.handed[i]
        /\ \A i \in 1..k : handed[a + i] = e[i]
    BY <2>1, SeqConcat
  <2>3. handed \in Seq(Nat)
    BY <1>1, <1>6
  <2> QED
    BY <2>2, <2>3, SeqFacts
<1>11. q = [p EXCEPT !.w.request = request, !.w.handed = handed, !.sh.txq = t]
  BY <1>8
<1>25. a \in Nat /\ m \in Nat /\ a = Len(p.w.handed) /\ m = Len(p.w.request)
  BY <1>1
<1> HIDE DEF request, handed, a, m
<1>12. q \in States
  BY <1>0, <1>7, <1>9, <1>10, <1>11, Zenon DEF States, Shells, Worlds
<1>13. /\ q.w.request = request /\ q.w.handed = handed /\ q.w.worker = p.w.worker
       /\ q.w.writer = p.w.writer /\ q.w.response = p.w.response /\ q.w.frames = p.w.frames
       /\ q.w.futile = p.w.futile /\ q.w.got = p.w.got /\ q.w.emitted = p.w.emitted
       /\ q.w.handled = p.w.handled
  BY <1>0, <1>11 DEF States, Worlds
<1>14. /\ q.sh.txq = t /\ q.sh.rx = p.sh.rx /\ Switches(q) = Switches(p)
       /\ q.sh.fd = p.sh.fd /\ q.sh.callback = p.sh.callback /\ q.sh.unread = p.sh.unread /\ q.sh.tainted = p.sh.tainted
  BY <1>0, <1>11 DEF States, Shells, Switches
<1>15. Watched(q, cs) /\ \A kind \in Kinds : Open(q, kind) <=> Open(p, kind)
  BY <1>0, <1>12, <1>14, SameWatched
<1>16. Queued(q)
  <2>1. \A i \in DOMAIN t : t[i].n = Len(handed) + i
    <3> SUFFICES ASSUME NEW i \in DOMAIN t PROVE t[i].n = Len(handed) + i
      OBVIOUS
    <3>1. t[i] = p.sh.txq[k + i] /\ k + i \in 1..Len(p.sh.txq) /\ i \in Nat
      BY <1>7
    <3>2. p.sh.txq[k + i].n = a + (k + i)
      BY <1>0, <1>1, <1>25, <3>1 DEF Queued
    <3> QED
      BY ONLY <1>3, <1>10, <1>25, <3>1, <3>2
  <2>2. q.w.frames = Len(handed) + Len(t)
    <3>1. /\ q.w.frames = a + Len(p.sh.txq) /\ Len(handed) = a + k
          /\ Len(t) = Len(p.sh.txq) - k /\ Len(p.sh.txq) \in Nat
      BY <1>0, <1>1, <1>7, <1>10, <1>13, <1>25 DEF Queued
    <3> DEFINE l == Len(p.sh.txq)
    <3>2. l \in Nat /\ q.w.frames = a + l /\ Len(t) = l - k
      BY <3>1
    <3> HIDE DEF l
    <3>3. a + l = (a + k) + (l - k)
      BY ONLY <1>3, <1>25, <3>2
    <3> QED
      BY ONLY <3>1, <3>2, <3>3
  <2> QED
    BY <1>0, <1>13, <1>14, <2>1, <2>2 DEF Queued
<1>17. Processes(q)
  BY <1>0, <1>13, <1>15 DEF Moving, Processes, Kinds
<1>18. Numbers(q)
  <2>1. InOrder(handed)
    <3> SUFFICES ASSUME NEW i \in 1..(a + k) PROVE handed[i] = i
      BY <1>10 DEF InOrder
    <3>1. CASE i <= a
      <4>1. i \in 1..a /\ i \in DOMAIN p.w.handed
        BY <1>1, <1>25, <3>1
      <4>2. p.w.handed[i] = i
        BY <1>0, <4>1 DEF Moving, Numbers, InOrder
      <4> QED
        BY <1>10, <4>1, <4>2
    <3>2. CASE i > a
      <4> DEFINE j == i - a
      <4>1. j \in 1..k /\ a + j = i
        BY <1>3, <1>25, <3>2
      <4> HIDE DEF j
      <4>2. handed[a + j] = e[j] /\ e[j] = a + j
        BY <1>6, <1>10, <1>25, <4>1
      <4> QED
        BY <4>1, <4>2
    <3> QED
      BY <1>3, <1>25, <3>1, <3>2
  <2>2. Len(handed) <= 2 + MaxRequests
    <3>1. /\ p.w.frames = a + Len(p.sh.txq) /\ p.w.frames <= 2 + MaxRequests
          /\ Len(handed) = a + k
      BY <1>0, <1>10, <1>25 DEF Queued
    <3> DEFINE l == Len(p.sh.txq)
    <3>2. l \in Nat /\ k <= l /\ a + l <= 2 + MaxRequests
      BY <1>1, <1>3, <3>1
    <3> HIDE DEF l
    <3>3. a + k <= 2 + MaxRequests
      BY ONLY <1>3, <1>25, <3>2, Bounds
    <3> QED
      BY ONLY <3>1, <3>3
  <2>3. Len(p.w.got) \in Nat
    BY <1>0, StateFields
  <2>4. InOrder(p.w.got) /\ Len(p.w.got) <= a
        /\ (p.w.worker.read = 1 => p.w.worker.part.n = Len(p.w.got) + 1 /\ Len(p.w.got) < a)
        /\ InOrder(p.w.handled) /\ Len(p.w.handled) <= p.w.emitted /\ p.w.emitted <= MaxMessages
    BY <1>0, <1>25 DEF Moving, Numbers
  <2>5. Len(handed) = a + k
    BY <1>10
  <2>6. Len(p.w.got) <= Len(handed) /\ (Len(p.w.got) < a => Len(p.w.got) < Len(handed))
    BY <1>3, <1>25, <2>3, <2>4, <2>5
  <2> QED
    BY <1>13, <2>1, <2>2, <2>4, <2>6 DEF Numbers
<1>19. Piped(q)
  <2>1. ReadsAt(q) = ReadsAt(p)
    BY <1>13 DEF ReadsAt
  <2>2. WritesAt(p) = <<a + 1, 1>> /\ WritesAt(q) = <<a + k + 1, 1>>
    BY <1>0, <1>10, <1>13, <1>25 DEF WritesAt
  <2>3. <<a + 1, 1>> = IF p.w.request = <<>> THEN ReadsAt(p) ELSE After(p.w.request[m])
    BY <1>0, <1>25, <2>2 DEF Moving, Piped, Running
  <2>4. \A i \in 1..k : After(d[i]) = <<a + i + 1, 1>> /\ At(d[i]) = <<a + i, 1>>
                        /\ d[i].k <= d[i].parts /\ d[i].n = a + i
    <3> SUFFICES ASSUME NEW i \in 1..k
                 PROVE  /\ After(d[i]) = <<a + i + 1, 1>> /\ At(d[i]) = <<a + i, 1>>
                        /\ d[i].k <= d[i].parts /\ d[i].n = a + i
      OBVIOUS
    <3>1. d[i].n = a + i /\ d[i].k = 1 /\ d[i].parts = 1
      BY <1>5, <1>25
    <3> QED
      BY ONLY <3>1 DEF After, At
  <2>5. ASSUME NEW i \in 1..(m + k)
        PROVE  /\ request[i].k <= request[i].parts /\ request[i].n <= a + k
               /\ At(request[i]) = IF i = 1 THEN ReadsAt(p) ELSE After(request[i - 1])
    <3>1. CASE i <= m
      <4>1. i \in 1..m /\ i \in DOMAIN p.w.request /\ request[i] = p.w.request[i]
        BY <1>1, <1>9, <1>25, <3>1
      <4>2. i # 1 => i - 1 \in 1..m
        BY <1>25, <4>1
      <4>3. i # 1 => request[i - 1] = p.w.request[i - 1]
        BY <1>9, <4>2
      <4>4. /\ p.w.request[i].k <= p.w.request[i].parts /\ p.w.request[i].n <= a
            /\ At(p.w.request[i]) = IF i = 1 THEN ReadsAt(p) ELSE After(p.w.request[i - 1])
        BY <1>0, <1>25, <4>1 DEF Moving, Piped
      <4>5. p.w.request[i] \in ChunkSet
        BY <1>1, <4>1
      <4>6. p.w.request[i].n \in Nat
        BY <4>5 DEF ChunkSet
      <4>7. p.w.request[i].n <= a + k
        BY ONLY <1>3, <1>25, <4>4, <4>6
      <4> QED
        BY <4>1, <4>3, <4>4, <4>7
    <3>2. CASE i > m
      <4> DEFINE j == i - m
      <4>1. j \in 1..k /\ m + j = i /\ j \in Nat
        BY <1>3, <1>25, <3>2
      <4> HIDE DEF j
      <4>2. request[i] = d[j]
        BY <1>9, <4>1
      <4>3. j # 1 => j - 1 \in 1..k /\ m + (j - 1) = i - 1 /\ i # 1
        BY ONLY <1>3, <1>25, <4>1
      <4>6. j # 1 => request[i - 1] = d[j - 1]
        <5> SUFFICES ASSUME j # 1 PROVE request[i - 1] = d[j - 1]
          OBVIOUS
        <5> DEFINE l == j - 1
        <5>1. l \in 1..k /\ m + l = i - 1
          BY <4>3
        <5> HIDE DEF l
        <5>2. request[m + l] = d[l]
          BY <1>9, <5>1
        <5> QED
          BY <5>1, <5>2 DEF l
      <4>7. m = 0 <=> p.w.request = <<>>
        BY <1>1, <1>25
      <4>8. j = 1 => i - 1 = m /\ (m = 0 <=> i = 1)
        BY ONLY <1>25, <4>1
      <4>4. j = 1 => /\ m = 0 => i = 1 /\ p.w.request = <<>>
                     /\ m > 0 => i # 1 /\ request[i - 1] = p.w.request[m] /\ p.w.request # <<>>
        <5>1. m > 0 => m \in 1..m
          BY <1>25
        <5>2. m > 0 => request[m] = p.w.request[m]
          BY <1>9, <5>1
        <5>3. m > 0 => m # 0
          BY <1>25
        <5> QED
          BY <4>7, <4>8, <5>2, <5>3
      <4>5. At(request[i]) = IF i = 1 THEN ReadsAt(p) ELSE After(request[i - 1])
        <5>4. At(d[j]) = <<a + j, 1>>
          BY <2>4, <4>1
        <5>1. CASE j = 1 /\ m = 0
          <6>1. i = 1 /\ <<a + 1, 1>> = ReadsAt(p) /\ j = 1
            BY <2>3, <4>4, <5>1
          <6> QED
            BY <4>2, <5>4, <6>1
        <5>2. CASE j = 1 /\ m > 0
          <6>1. i # 1 /\ request[i - 1] = p.w.request[m] /\ <<a + 1, 1>> = After(p.w.request[m]) /\ j = 1
            BY <2>3, <4>4, <5>2
          <6> QED
            BY <4>2, <5>4, <6>1
        <5>3. CASE j # 1
          <6> DEFINE l == j - 1
          <6>1. l \in 1..k /\ a + l + 1 = a + j /\ i # 1 /\ request[i - 1] = d[l]
            BY <1>25, <4>1, <4>3, <4>6, <5>3
          <6> HIDE DEF l
          <6>2. After(d[l]) = <<a + l + 1, 1>>
            BY <2>4, <6>1
          <6> QED
            BY <4>2, <5>4, <6>1, <6>2
        <5> QED
          BY <1>25, <5>1, <5>2, <5>3
      <4>9. a + j <= a + k
        BY ONLY <1>3, <1>25, <4>1
      <4> QED
        BY <2>4, <4>1, <4>2, <4>5, <4>9
    <3> QED
      BY <1>3, <1>25, <3>1, <3>2
  <2>6. <<a + k + 1, 1>> = IF request = <<>> THEN ReadsAt(p) ELSE After(request[Len(request)])
    <3>1. CASE k = 0
      <4>1. Len(request) = m /\ IsSeq(request) /\ IsSeq(p.w.request)
        BY <1>1, <1>9, <1>25, <3>1, SeqIsSeq
      <4>2. (request = <<>> <=> m = 0) /\ (p.w.request = <<>> <=> m = 0)
        BY <1>1, <1>9, <1>25, <4>1
      <4>3. m # 0 => m \in 1..m
        BY <1>25
      <4>4. m # 0 => request[m] = p.w.request[m]
        BY <1>9, <4>3
      <4>5. a + k + 1 = a + 1
        BY <1>25, <3>1
      <4> QED
        BY <2>3, <4>1, <4>2, <4>4, <4>5
    <3>2. CASE k > 0
      <4>1. k \in 1..k /\ Len(request) = m + k /\ m + k # 0
        BY <1>3, <1>9, <1>25, <3>2
      <4>2. request # <<>>
        BY <4>1, SeqEmpty
      <4>3. request[Len(request)] = d[k] /\ After(d[k]) = <<a + k + 1, 1>>
        BY <1>9, <2>4, <4>1
      <4> QED
        BY <4>2, <4>3
    <3> QED
      BY <1>3, <3>1, <3>2
  <2>7. Len(request) = m + k /\ m + k <= Capacity /\ DOMAIN request = 1..(m + k)
        /\ Len(handed) = a + k
    BY <1>3, <1>9, <1>10, <1>25
  <2> QED
    BY <1>13, <2>1, <2>2, <2>5, <2>6, <2>7 DEF Piped
<1>20. Common(q, cs)
  BY <1>14, <1>15, <1>17, <1>18, <1>19 DEF Running, Common, Moving, Switches
<1>21. Coming(q) /\ Kept(q, p)
  BY <1>13, <1>14 DEF Running, Coming, Kept, Heard
<1>22. Streak(q)
  BY <1>13, <1>14, <1>15 DEF Running, Streak, Counts, Switches, Kinds
<1> QED
  BY <1>14, <1>15, <1>16, <1>20, <1>21, <1>22 DEF Running, Switches, Kinds, q
=============================================================================

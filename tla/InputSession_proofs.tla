-------------------------- MODULE InputSession_proofs --------------------------
(***************************************************************************)
(* Proofs about InputSession: what is listed was captured for what is      *)
(* being edited, every input is answered along one path, a latch names     *)
(* what the worker holds, a recorded Tab is for the current input, and the *)
(* shell never makes its own session fail -- for all words, environments   *)
(* and bounds, every transport and every number of crashes.                *)
(***************************************************************************)
EXTENDS InputSession, SequenceFacts, FiniteSetTheorems

(***************************************************************************)
(* What is under way: the frames of the shell, the messages of the worker, *)
(* and the entries of the requests it has not answered.                    *)
(***************************************************************************)
Id   == 1..MaxId
Slot == {"live", "cache"}

Frame ==
  [kind : {"hello"}, stamp : {"own"}]
    \cup [kind : {"namespace-snapshot"}, id : Id, payload : {"names"}]
    \cup [kind : {"input"}, gen : Id, cand : Gen, quiet : BOOLEAN]
    \cup [kind : {"flush"}, gen : Id]
    \cup [kind : {"store"}, id : Id, slot : Slot, gen : Id, bound : Id, payload : Capture]

Stored == [gen : Id, data : Capture]

Answer ==
  [kind : {"ready"}, ref : {0}]
    \cup [kind : {"capture-required"}, ref : Id]
    \cup [kind : {"plan-ready"}, ref : Id, plan : Stored]
    \cup [kind : {"syntax-highlight"}, ref : Id, names : {"names"}]
    \cup [kind : {"ok"}, ref : Id]
    \cup [kind : {"error"}, ref : Id, code : {"superseded"}]

Entry ==
  [id : Id, kind : {"namespace-snapshot", "store"}, slot : Slot, gen : Gen, bound : Gen,
   fresh : BOOLEAN, env : Envs \cup {Nothing}]

IsRequest(m)  == m.kind \in {"namespace-snapshot", "store"}
IsResponse(m) == m.kind \in {"ok", "error"}
IsSettle(m)   == m.kind \in {"plan-ready", "capture-required"}
IsEvent(m)    == m.kind \in {"plan-ready", "capture-required", "syntax-highlight"}

(***************************************************************************)
(* The worker as a shell step sees it; its messages are a parameter of     *)
(* their own.  Before a session it is the worker that the session starts.  *)
(***************************************************************************)
Seen == [wire |-> wire, phase |-> IF sh.link = "up" THEN phase ELSE "awaiting",
         slots |-> slots, input |-> input]

NoSlots == [x \in Slot |-> [gen |-> 0, data |-> Nothing]]
NoWork  == [gen |-> 0, cand |-> 0, resolved |-> 0, pending |-> FALSE]

Fresh(w, o) ==
  w.wire = <<>> /\ w.phase = "awaiting" /\ w.slots = NoSlots /\ w.input = NoWork /\ o = <<>>

Works ==
  [wire : Seq(Frame), phase : {"awaiting", "ready", "failed"},
   slots : [Slot -> Stored \cup {[gen |-> 0, data |-> Nothing]}],
   input : [gen : Gen, cand : Gen, resolved : Gen, pending : BOOLEAN]]

\* Every frame the worker has not read.
Unheard(s, w) == w.wire \o s.txq

(***************************************************************************)
(* The shell's record.                                                     *)
(***************************************************************************)
Shells(pending) ==
  [word : Words, env : Envs, edited : BOOLEAN,
   cur : [gen : Gen, cand : Gen, pending : BOOLEAN, latched : BOOLEAN,
          decor : BOOLEAN, drawn : BOOLEAN],
   query : Words, tab : BOOLEAN, tabGen : Gen, shown : Listing, collect : Listing,
   reuse : Gen, reuseKey : Words \X (Envs \cup {Nothing}), dropped : Gen,
   cache : [gen : Gen, env : Envs \cup {Nothing}],
   link : Link, ready : BOOLEAN, busy : BOOLEAN, txq : Seq(Frame), pending : {pending},
   requests : Gen, candidates : Gen, inputs : Gen, failures : Nat, disabled : BOOLEAN]

IsShell(s) == s \in Shells(s.pending)

(***************************************************************************)
(* The strengthened invariant, in parts: what holds of a session whatever  *)
(* is being edited, and what holds of the current input.                   *)
(***************************************************************************)
\* What the candidates of each generation are for.
KeyOf(s)  == [word |-> s.reuseKey[1], env |-> s.reuseKey[2]]
Target(s) == [word |-> s.query, env |-> s.env]
Blank(e)  == [word |-> Empty, env |-> e]

\* The candidates of generation g, held or on their way, are d.
Holds(s, w, g, d) ==
  /\ \A x \in Slot : w.slots[x].gen = g => w.slots[x].data = d
  /\ \A i \in DOMAIN Unheard(s, w) :
       Unheard(s, w)[i].kind = "store" /\ Unheard(s, w)[i].gen = g
         => Unheard(s, w)[i].payload = d

\* The pending requests.  A store that is not fresh is of an earlier visit to
\* a word, or of the empty one.
Asked(s) ==
  /\ \A p \in s.pending :
       /\ p \in Entry /\ p.id <= s.requests /\ p.gen <= s.candidates /\ p.bound <= s.inputs
       /\ p.kind = "store" => p.gen # 0 /\ p.bound # 0
       /\ p.fresh => /\ p.kind = "store" /\ p.slot = "live" /\ p.gen > s.dropped
                     /\ s.reuseKey[1] # Empty
       /\ p.kind = "store" /\ p.slot = "live" /\ ~p.fresh =>
            p.gen <= s.dropped \/ s.reuseKey[1] = Empty
  /\ \A p, q \in s.pending : p.id = q.id => p = q
  /\ \A p, q \in s.pending :
       p.id < q.id /\ p.kind = "store" /\ q.kind = "store" => p.gen < q.gen

\* The frames, in order.
Framed(s, w, q) ==
  /\ w.phase = "awaiting" => q # <<>> /\ q[1].kind = "hello"
  /\ \A i \in DOMAIN q : q[i].kind = "hello" => i = 1 /\ w.phase # "ready"
  /\ \A i \in DOMAIN q : q[i].kind = "input" => q[i].gen > w.input.gen /\ q[i].gen <= s.inputs
  /\ \A i, j \in DOMAIN q :
       i < j /\ q[i].kind = "input" /\ q[j].kind = "input" => q[i].gen < q[j].gen
  /\ \A i, j \in DOMAIN q : i < j /\ IsRequest(q[i]) /\ IsRequest(q[j]) => q[i].id < q[j].id
  /\ \A i \in DOMAIN q : IsRequest(q[i]) =>
       \E p \in s.pending :
         /\ p.id = q[i].id /\ p.kind = q[i].kind
         /\ p.kind = "store" => p.slot = q[i].slot /\ p.gen = q[i].gen /\ p.bound = q[i].bound
  /\ \A i \in DOMAIN q, x \in Slot : q[i].kind = "store" => w.slots[x].gen < q[i].gen

\* The worker's messages, in order.
Answered(s, w, o) ==
  /\ o \in Seq(Answer)
  /\ w.phase = "awaiting" => o = <<>> /\ ~s.ready
  /\ w.phase = "ready" /\ ~s.ready => o # <<>>
  /\ ~s.ready /\ o # <<>> => o[1].kind = "ready"
  /\ \A i \in DOMAIN o : o[i].kind = "ready" => i = 1 /\ ~s.ready
  /\ \A i \in DOMAIN o : IsEvent(o[i]) => o[i].ref <= w.input.gen
  /\ w.input.pending => \A i \in DOMAIN o : IsSettle(o[i]) => o[i].ref # w.input.gen
  /\ \A i, j \in DOMAIN o : i < j /\ IsSettle(o[i]) /\ o[j].kind = "capture-required" =>
       o[i].ref # o[j].ref
  /\ \A i, j \in DOMAIN o : i < j /\ IsResponse(o[i]) /\ IsResponse(o[j]) => o[i].ref < o[j].ref
  /\ \A i \in DOMAIN o : IsResponse(o[i]) => \E p \in s.pending : p.id = o[i].ref

\* Responses are for requests before those the worker has not read.
AnsweredFirst(o, q) ==
  \A i \in DOMAIN o, j \in DOMAIN q : IsResponse(o[i]) /\ IsRequest(q[j]) => o[i].ref < q[j].id

Retained(s, w) ==
  /\ w \in Works /\ w.input.gen <= s.inputs /\ (w.input.pending => w.input.gen # 0)
  /\ \A x \in Slot : w.slots[x].gen <= s.candidates
  /\ w.slots["live"].gen = w.slots["cache"].gen => w.slots["live"].gen = 0

\* The stores that were accepted and whose `ok` the shell has not read.
Accepted(s, o) ==
  {p \in s.pending : p.kind = "store" /\ \E i \in DOMAIN o : o[i].kind = "ok" /\ o[i].ref = p.id}

\* A slot holds generation g or one accepted after it.
HeldOrReplaced(s, w, o, x, g) ==
  w.slots[x].gen = g \/ \E q \in Accepted(s, o) : q.slot = x /\ q.gen > g

Latches(s, w, o) ==
  /\ \A p \in Accepted(s, o) : HeldOrReplaced(s, w, o, p.slot, p.gen)
  /\ s.reuse # 0 => HeldOrReplaced(s, w, o, "live", s.reuse)
  /\ s.cache.gen # 0 => HeldOrReplaced(s, w, o, "cache", s.cache.gen)

Meanings(s, w) ==
  /\ s.reuse # 0 => Holds(s, w, s.reuse, KeyOf(s))
  /\ s.cache.gen # 0 => Holds(s, w, s.cache.gen, Blank(s.cache.env))
  /\ \A p \in s.pending :
       /\ p.fresh => Holds(s, w, p.gen, KeyOf(s))
       /\ p.kind = "store" /\ p.slot = "cache" => Holds(s, w, p.gen, Blank(p.env))

\* What the latches name.
Visit(s) ==
  /\ s.dropped <= s.candidates /\ s.reuse <= s.candidates /\ s.cache.gen <= s.candidates
  /\ s.reuse # 0 => s.reuse > s.dropped /\ s.reuseKey[1] # Empty
  /\ s.shown.gen <= s.inputs

Down(s, w, o) ==
  /\ s.pending = {} /\ s.txq = <<>> /\ s.reuse = 0 /\ s.cache.gen = 0
  /\ s.cur.gen = 0
  /\ s.link = "none" => Fresh(w, o)

Session(s, w, o) ==
  /\ IsShell(s) /\ Visit(s) /\ Retained(s, w) /\ o \in Seq(Answer)
  /\ s.link # "up" => Down(s, w, o)
  /\ s.link = "up" =>
       /\ Asked(s) /\ Framed(s, w, Unheard(s, w)) /\ Answered(s, w, o)
       /\ AnsweredFirst(o, Unheard(s, w)) /\ Latches(s, w, o) /\ Meanings(s, w)

\* Whether an event of the worker is still owed to the current input.
Owed(s) == s.cur.pending \/ s.cur.decor

BoundTo(s, g) == {p \in s.pending : p.kind = "store" /\ p.bound = g}

Now(s, w, o) ==
  /\ s.cur.gen = 0 => ~s.cur.pending
  /\ s.collect.gen \in {0, s.cur.gen}
  /\ s.cur.gen # 0 =>
       /\ s.cur.gen <= s.inputs /\ s.cur.cand <= s.candidates
       /\ s.reuseKey = <<s.query, s.env>>
       /\ s.cur.pending => s.collect.gen = 0 /\ BoundTo(s, s.cur.gen) = {}
       /\ s.collect.gen # 0 => s.collect.data = Target(s) /\ BoundTo(s, s.cur.gen) = {}
       /\ \A p, q \in BoundTo(s, s.cur.gen) : p = q
       /\ s.cur.cand # 0 => Holds(s, w, s.cur.cand, Target(s))
       /\ s.shown.gen = s.cur.gen => s.shown.data = Target(s)
       /\ w.input.gen = s.cur.gen =>
            w.input.cand = s.cur.cand /\ (w.input.pending => Owed(s))
       /\ \A i \in DOMAIN Unheard(s, w) :
            LET m == Unheard(s, w)[i]
            IN  /\ m.kind = "input" /\ m.gen = s.cur.gen => m.cand = s.cur.cand /\ Owed(s)
                /\ m.kind = "store" /\ m.bound = s.cur.gen => m.payload = Target(s)
       /\ \A i \in DOMAIN o :
            /\ o[i].kind = "capture-required" /\ o[i].ref = s.cur.gen => Owed(s)
            /\ o[i].kind = "plan-ready" /\ o[i].ref = s.cur.gen => o[i].plan.data = Target(s)

Recorded(s) == s.tab => s.tabGen # 0 /\ s.tabGen = s.cur.gen
AsSent(s)   == s.cur.gen # 0 /\ ~s.edited => s.word = s.query

\* All of it, as it is before and after every step of the shell.
Good(s, w, o) == Session(s, w, o) /\ Now(s, w, o) /\ Recorded(s) /\ AsSent(s)

InputInv ==
  /\ line \in {"off", "editing", "finishing"}
  /\ namespace \in {Nothing, "names"} /\ history = W!HI!NoIndex
  /\ Good(sh, Seen, out)
  /\ crashes \in Nat
  /\ sh.link = "up" => (phase = "failed" => crashes > 0)
  /\ sh.link # "up" => Fresh(Seen, out) /\ phase = "ended"


(***************************************************************************)
(* The queue without its notifications: a selection of its frames, in      *)
(* their order.                                                            *)
(***************************************************************************)
\* The function that Kept defines by recursion, up to n.
IsKept(q, f, n) ==
  f = [k \in 0..n |-> IF k = 0 THEN <<>>
        ELSE IF Notification(q[k]) THEN f[k - 1] ELSE Append(f[k - 1], q[k])]

\* The recursion has a solution.
LEMMA KeptExists ==
  ASSUME NEW S, NEW q \in Seq(S)
  PROVE  \E f : IsKept(q, f, Len(q))
<1> DEFINE T == {n \in Nat : \E f : IsKept(q, f, n)}
<1>1. 0 \in T
  <2> DEFINE f == [k \in 0..0 |-> <<>>]
  <2>1. IsKept(q, f, 0)
    BY DEF IsKept
  <2> QED
    BY <2>1
<1>2. ASSUME NEW n \in Nat, n \in T
      PROVE  n + 1 \in T
  <2>1. PICK f : IsKept(q, f, n)
    BY <1>2
  <2> DEFINE next == IF Notification(q[n + 1]) THEN f[n] ELSE Append(f[n], q[n + 1])
             g    == [k \in 0..(n + 1) |-> IF k = n + 1 THEN next ELSE f[k]]
  <2>2. \A k \in 0..n : f[k] = IF k = 0 THEN <<>>
          ELSE IF Notification(q[k]) THEN f[k - 1] ELSE Append(f[k - 1], q[k])
    BY <2>1 DEF IsKept
  <2> HIDE DEF next
  <2>3. \A k \in 0..n : g[k] = f[k] /\ (k # 0 => g[k - 1] = f[k - 1])
    OBVIOUS
  <2>4. g[n + 1] = next /\ g[n] = f[n]
    OBVIOUS
  <2>5. \A k \in 0..(n + 1) : g[k] = IF k = 0 THEN <<>>
          ELSE IF Notification(q[k]) THEN g[k - 1] ELSE Append(g[k - 1], q[k])
    <3> SUFFICES ASSUME NEW k \in 0..(n + 1)
                 PROVE  g[k] = IF k = 0 THEN <<>>
                    ELSE IF Notification(q[k]) THEN g[k - 1] ELSE Append(g[k - 1], q[k])
      OBVIOUS
    <3> HIDE DEF g
    <3>1. CASE k = n + 1
      <4>1. k # 0 /\ k - 1 = n
        BY <3>1
      <4> QED
        BY <2>4, <3>1, <4>1 DEF next
    <3>2. CASE k # n + 1
      <4>1. k \in 0..n
        BY <3>2
      <4> QED
        BY <2>2, <2>3, <4>1
    <3> QED
      BY <3>1, <3>2
  <2>6. g = [k \in 0..(n + 1) |-> g[k]]
    OBVIOUS
  <2> HIDE DEF g
  <2>7. IsKept(q, g, n + 1)
    BY <2>5, <2>6 DEF IsKept
  <2> QED
    BY <2>7
<1> HIDE DEF T
<1>3. \A n \in Nat : n \in T
  BY <1>1, <1>2, SetInduction
<1> QED
  BY <1>3 DEF T

\* And what is kept is its value at the end.
LEMMA KeptEq ==
  ASSUME NEW S, NEW q \in Seq(S)
  PROVE  \E f : IsKept(q, f, Len(q)) /\ Kept(q) = f[Len(q)]
<1> DEFINE f == CHOOSE f : IsKept(q, f, Len(q))
<1>1. IsKept(q, f, Len(q))
  BY KeptExists
<1>2. Kept(q) = f[Len(q)]
  BY DEF Kept, IsKept
<1> QED
  BY <1>1, <1>2

\* The positions h of r select, among the first n of q, all but notifications.
SelectsTo(h, q, r, n) ==
  /\ h \in [1..Len(r) -> 1..n]
  /\ \A i, j \in 1..Len(r) : i < j => h[i] < h[j]
  /\ \A i \in 1..Len(r) : r[i] = q[h[i]] /\ ~Notification(r[i])
  /\ \A i \in 1..n : ~Notification(q[i]) => \E k \in 1..Len(r) : h[k] = i

\* The positions kept are those of the frames that are no notifications.
LEMMA KeptSelects ==
  ASSUME NEW S, NEW q \in Seq(S)
  PROVE  Kept(q) \in Seq(S) /\ \E h : SelectsTo(h, q, Kept(q), Len(q))
<1>1. PICK f : IsKept(q, f, Len(q)) /\ Kept(q) = f[Len(q)]
  BY KeptEq
<1>2. /\ f[0] = <<>>
      /\ \A k \in 1..Len(q) : f[k] = IF Notification(q[k]) THEN f[k - 1] ELSE Append(f[k - 1], q[k])
  <2>0. Len(q) \in Nat
    OBVIOUS
  <2>1. \A k \in 0..Len(q) : f[k] = IF k = 0 THEN <<>>
          ELSE IF Notification(q[k]) THEN f[k - 1] ELSE Append(f[k - 1], q[k])
    BY <1>1, <2>0 DEF IsKept
  <2> QED
    BY <2>0, <2>1
<1> DEFINE T == {n \in Nat : n <= Len(q) => f[n] \in Seq(S) /\ \E h : SelectsTo(h, q, f[n], n)}
<1>3. 0 \in T
  <2> DEFINE none == [k \in 1..0 |-> 0]
  <2>1. SelectsTo(none, q, <<>>, 0)
    BY DEF SelectsTo
  <2>2. f[0] \in Seq(S) /\ \E h : SelectsTo(h, q, f[0], 0)
    BY <1>2, <2>1
  <2> QED
    BY <2>2
<1>4. ASSUME NEW n \in Nat, n \in T
      PROVE  n + 1 \in T
  <2> SUFFICES ASSUME n + 1 <= Len(q)
               PROVE  f[n + 1] \in Seq(S) /\ \E h : SelectsTo(h, q, f[n + 1], n + 1)
    OBVIOUS
  <2>1. n <= Len(q) /\ n + 1 \in 1..Len(q) /\ (n + 1) - 1 = n /\ q[n + 1] \in S
    OBVIOUS
  <2> DEFINE r == f[n]
             e == q[n + 1]
  <2>2. r \in Seq(S) /\ \E h : SelectsTo(h, q, r, n)
    BY <1>4, <2>1
  <2>3. PICK h : SelectsTo(h, q, r, n)
    BY <2>2
  <2>4. f[n + 1] = IF Notification(e) THEN r ELSE Append(r, e)
    BY <1>2, <2>1
  <2> HIDE DEF r, e
  <2>5. CASE Notification(e)
    <3>1. SelectsTo(h, q, r, n + 1)
      BY <2>1, <2>3, <2>5 DEF SelectsTo, e
    <3> QED
      BY <2>2, <2>4, <2>5, <3>1
  <2>6. CASE ~Notification(e)
    <3> DEFINE t == Append(r, e)
               g == [k \in 1..(Len(r) + 1) |-> IF k = Len(r) + 1 THEN n + 1 ELSE h[k]]
    <3>1. /\ t \in Seq(S) /\ Len(t) = Len(r) + 1 /\ Len(r) \in Nat
          /\ \A i \in 1..Len(r) : t[i] = r[i]
          /\ t[Len(r) + 1] = e
      BY <2>1, <2>2 DEF e
    <3> HIDE DEF t
    <3>2. g \in [1..Len(t) -> 1..(n + 1)]
      BY <2>3, <3>1 DEF SelectsTo
    <3>3. /\ g[Len(r) + 1] = n + 1
          /\ \A i \in 1..Len(r) : g[i] = h[i]
      BY <3>1
    <3> HIDE DEF g
    <3>4. \A i, j \in 1..Len(t) : i < j => g[i] < g[j]
      <4> SUFFICES ASSUME NEW i \in 1..Len(t), NEW j \in 1..Len(t), i < j
                   PROVE  g[i] < g[j]
        OBVIOUS
      <4>1. i \in 1..Len(r) /\ h[i] \in 1..n /\ g[i] = h[i]
        <5>1. i \in 1..Len(r)
          BY ONLY <3>1, i \in 1..Len(t), j \in 1..Len(t), i < j
        <5>2. h \in [1..Len(r) -> 1..n]
          BY ONLY <2>3 DEF SelectsTo
        <5> QED
          BY ONLY <3>3, <5>1, <5>2
      <4>2. CASE j = Len(r) + 1
        BY <3>3, <4>1, <4>2
      <4>3. CASE j # Len(r) + 1
        <5>1. j \in 1..Len(r) /\ g[j] = h[j]
          BY <3>1, <3>3, <4>3
        <5> QED
          BY <2>3, <4>1, <5>1 DEF SelectsTo
      <4> QED
        BY <4>2, <4>3
    <3>5. \A i \in 1..Len(t) : t[i] = q[g[i]] /\ ~Notification(t[i])
      BY <2>3, <2>6, <3>1, <3>3 DEF SelectsTo, e
    <3>6. \A i \in 1..(n + 1) : ~Notification(q[i]) => \E k \in 1..Len(t) : g[k] = i
      <4> SUFFICES ASSUME NEW i \in 1..(n + 1), ~Notification(q[i])
                   PROVE  \E k \in 1..Len(t) : g[k] = i
        OBVIOUS
      <4>1. CASE i = n + 1
        <5>1. Len(r) + 1 \in 1..Len(t) /\ g[Len(r) + 1] = i
          BY <3>1, <3>3, <4>1
        <5> QED
          BY <5>1
      <4>2. CASE i # n + 1
        <5>1. PICK k \in 1..Len(r) : h[k] = i
          BY <2>3, <4>2 DEF SelectsTo
        <5>2. k \in 1..Len(t) /\ g[k] = i
          BY <3>1, <3>3, <5>1
        <5> QED
          BY <5>2
      <4> QED
        BY <4>1, <4>2
    <3>7. SelectsTo(g, q, t, n + 1)
      BY <3>2, <3>4, <3>5, <3>6 DEF SelectsTo
    <3> QED
      BY <2>4, <2>6, <3>1, <3>7 DEF t
  <2> QED
    BY <2>5, <2>6
<1> HIDE DEF T
<1>5. Len(q) \in T
  BY <1>3, <1>4, SetInduction
<1> QED
  BY <1>1, <1>5 DEF T

\* Every element of r is one of q, and their order is that of q.
Within(r, q) ==
  /\ \A i \in DOMAIN r : \E a \in DOMAIN q : r[i] = q[a]
  /\ \A i, j \in DOMAIN r : i < j => \E a, b \in DOMAIN q : a < b /\ r[i] = q[a] /\ r[j] = q[b]

\* Behind the frames in the FIFO, too, and a hello in front stays there.
LEMMA KeptWithin ==
  ASSUME NEW S, NEW v \in Seq(S), NEW t \in Seq(S)
  PROVE  /\ Kept(t) \in Seq(S) /\ Within(v \o Kept(t), v \o t)
         /\ v \o t # <<>> /\ (v \o t)[1].kind = "hello" =>
              v \o Kept(t) # <<>> /\ (v \o Kept(t))[1] = (v \o t)[1]
<1> DEFINE k == Kept(t)
           q == v \o t
           r == v \o k
<1>1. k \in Seq(S) /\ \E h : SelectsTo(h, t, k, Len(t))
  BY KeptSelects
<1> HIDE DEF k
<1>2. PICK h : SelectsTo(h, t, k, Len(t))
  BY <1>1
<1>3. /\ Len(q) = Len(v) + Len(t) /\ DOMAIN q = 1..Len(q) /\ Len(v) \in Nat /\ Len(t) \in Nat
      /\ \A i \in 1..Len(v) : q[i] = v[i]
      /\ \A i \in 1..Len(t) : q[Len(v) + i] = t[i]
  OBVIOUS
<1>4. /\ Len(r) = Len(v) + Len(k) /\ DOMAIN r = 1..Len(r) /\ Len(k) \in Nat
      /\ \A i \in 1..Len(v) : r[i] = v[i]
      /\ \A i \in 1..Len(k) : r[Len(v) + i] = k[i]
  BY <1>1
<1> DEFINE g == [i \in 1..Len(r) |-> IF i <= Len(v) THEN i ELSE Len(v) + h[i - Len(v)]]
<1>0. q \in Seq(S) /\ r \in Seq(S)
  BY <1>1
<1> HIDE DEF q, r
<1>5. \A i \in 1..Len(r) : i > Len(v) => i - Len(v) \in 1..Len(k) /\ Len(v) + (i - Len(v)) = i
  BY <1>3, <1>4
<1>6. \A i \in 1..Len(k) : h[i] \in 1..Len(t) /\ k[i] = t[h[i]]
  BY <1>2 DEF SelectsTo
<1>7. \A i \in 1..Len(r) : /\ i <= Len(v) => g[i] = i
                           /\ i > Len(v) => g[i] = Len(v) + h[i - Len(v)]
  BY <1>3, <1>4
<1> HIDE DEF g
<1>8. \A i \in 1..Len(r) : g[i] \in 1..Len(q) /\ r[i] = q[g[i]]
  <2> SUFFICES ASSUME NEW i \in 1..Len(r)
               PROVE  g[i] \in 1..Len(q) /\ r[i] = q[g[i]]
    OBVIOUS
  <2>1. CASE i <= Len(v)
    BY <1>3, <1>4, <1>7, <2>1
  <2>2. CASE i > Len(v)
    <3>1. /\ i - Len(v) \in 1..Len(k) /\ Len(v) + (i - Len(v)) = i
          /\ h[i - Len(v)] \in 1..Len(t) /\ k[i - Len(v)] = t[h[i - Len(v)]]
          /\ g[i] = Len(v) + h[i - Len(v)]
      BY <1>5, <1>6, <1>7, <2>2
    <3>2. r[i] = k[i - Len(v)]
      BY <1>4, <3>1
    <3> QED
      BY <1>3, <3>1, <3>2
  <2> QED
    BY <1>3, <1>4, <2>1, <2>2
<1>9. \A i, j \in 1..Len(r) : i < j => g[i] < g[j]
  <2> SUFFICES ASSUME NEW i \in 1..Len(r), NEW j \in 1..Len(r), i < j
               PROVE  g[i] < g[j]
    OBVIOUS
  <2>1. CASE j <= Len(v)
    <3>1. g[i] = i /\ g[j] = j
      BY <1>3, <1>7, <2>1
    <3> QED
      BY ONLY <3>1, i < j
  <2>2. CASE i <= Len(v) /\ j > Len(v)
    <3>1. /\ j - Len(v) \in 1..Len(k) /\ h[j - Len(v)] \in 1..Len(t)
          /\ g[j] = Len(v) + h[j - Len(v)] /\ g[i] = i
      BY <1>5, <1>6, <1>7, <2>2
    <3> QED
      BY <1>3, <1>4, <2>2, <3>1
  <2>3. CASE i > Len(v) /\ j > Len(v)
    <3>1. /\ i - Len(v) \in 1..Len(k) /\ j - Len(v) \in 1..Len(k)
          /\ g[i] = Len(v) + h[i - Len(v)] /\ g[j] = Len(v) + h[j - Len(v)]
      BY <1>5, <1>7, <2>3
    <3>2. i - Len(v) < j - Len(v)
      BY <1>3, <1>4
    <3>3. h[i - Len(v)] < h[j - Len(v)]
      BY <1>2, <3>1, <3>2 DEF SelectsTo
    <3>4. Len(v) \in Nat /\ h[i - Len(v)] \in Nat /\ h[j - Len(v)] \in Nat
      <4>1. h[i - Len(v)] \in 1..Len(t) /\ h[j - Len(v)] \in 1..Len(t)
        BY ONLY <1>6, <3>1
      <4> QED
        BY ONLY <1>3, <4>1
    <3> DEFINE x == h[i - Len(v)]
               y == h[j - Len(v)]
    <3>5. x < y /\ x \in Nat /\ y \in Nat /\ Len(v) \in Nat /\ g[i] = Len(v) + x /\ g[j] = Len(v) + y
      BY <3>1, <3>3, <3>4
    <3> HIDE DEF x, y
    <3> QED
      BY ONLY <3>5
  <2> QED
    BY <1>3, <1>4, <2>1, <2>2, <2>3
<1>10. Within(r, q)
  <2>1. ASSUME NEW i \in DOMAIN r
        PROVE  \E a \in DOMAIN q : r[i] = q[a]
    BY <1>3, <1>4, <1>8
  <2>2. ASSUME NEW i \in DOMAIN r, NEW j \in DOMAIN r, i < j
        PROVE  \E a, b \in DOMAIN q : a < b /\ r[i] = q[a] /\ r[j] = q[b]
    <3>1. /\ g[i] \in DOMAIN q /\ g[j] \in DOMAIN q /\ g[i] < g[j]
          /\ r[i] = q[g[i]] /\ r[j] = q[g[j]]
      BY <1>3, <1>4, <1>8, <1>9, <2>2
    <3> QED
      BY <3>1
  <2> QED
    BY <2>1, <2>2 DEF Within
<1>11. ASSUME q # <<>>, q[1].kind = "hello"
       PROVE  r # <<>> /\ r[1] = q[1]
  <2>1. Len(q) > 0
    BY <1>0, <1>11
  <2>2. CASE Len(v) > 0
    <3>1. Len(r) > 0 /\ 1 \in 1..Len(v)
      BY <1>3, <1>4, <2>2
    <3>2. r[1] = q[1]
      BY <1>3, <1>4, <3>1
    <3> QED
      BY <1>0, <3>1, <3>2
  <2>3. CASE Len(v) = 0
    <3>1. 1 \in 1..Len(t) /\ q[1] = t[1]
      BY <1>3, <2>1, <2>3
    <3>2. ~Notification(t[1])
      BY <1>11, <3>1 DEF Notification
    <3>3. PICK i \in 1..Len(k) : h[i] = 1
      BY <1>2, <3>1, <3>2 DEF SelectsTo
    <3>4. 1 \in 1..Len(k) /\ (1 < i => h[1] < h[i])
      BY <1>2, <1>4, <3>3 DEF SelectsTo
    <3>5. i = 1
      BY <1>4, <1>6, <3>3, <3>4
    <3>6. k[1] = t[1] /\ r[1] = k[1]
      BY <1>4, <1>6, <2>3, <3>3, <3>4, <3>5
    <3>7. Len(r) > 0
      BY <1>3, <1>4, <3>4
    <3> QED
      BY <1>0, <3>1, <3>6, <3>7
  <2> QED
    BY <1>3, <2>2, <2>3
<1> QED
  BY <1>1, <1>10, <1>11 DEF k, q, r

(***************************************************************************)
(* The fields of the records.                                              *)
(***************************************************************************)
\* Nothing is no capture, and every capture is of a word in an environment.
LEMMA ConstantTypes ==
  /\ MaxId \in Nat \ {0} /\ Empty \in Words /\ Nothing \notin Envs
  /\ Nothing \notin Capture /\ Nothing # "names" /\ Delays \subseteq BOOLEAN
  /\ \A c : c \in Capture <=> c = [word |-> c.word, env |-> c.env] /\ c.word \in Words /\ c.env \in Envs
  /\ \A a \in Words, e \in Envs : [word |-> a, env |-> e] \in Capture
BY InputAssumption DEF Capture

\* A frame of each kind.
LEMMA FrameFields ==
  ASSUME NEW m \in Frame
  PROVE  /\ m.kind \in {"hello", "namespace-snapshot", "input", "flush", "store"}
         /\ m.kind = "hello" => m.stamp = "own"
         /\ m.kind = "namespace-snapshot" => m.id \in Id /\ m.payload = "names"
         /\ m.kind = "input" => m.gen \in Id /\ m.cand \in Gen /\ m.quiet \in BOOLEAN
         /\ m.kind = "flush" => m.gen \in Id
         /\ m.kind = "store" => /\ m.id \in Id /\ m.slot \in Slot /\ m.gen \in Id /\ m.bound \in Id
                                /\ m.payload \in Capture
<1>1. CASE m \in [kind : {"hello"}, stamp : {"own"}]
  BY <1>1
<1>2. CASE m \in [kind : {"namespace-snapshot"}, id : Id, payload : {"names"}]
  BY <1>2
<1>3. CASE m \in [kind : {"input"}, gen : Id, cand : Gen, quiet : BOOLEAN]
  BY <1>3
<1>4. CASE m \in [kind : {"flush"}, gen : Id]
  BY <1>4
<1>5. CASE m \in [kind : {"store"}, id : Id, slot : Slot, gen : Id, bound : Id, payload : Capture]
  BY <1>5
<1> QED
  BY <1>1, <1>2, <1>3, <1>4, <1>5 DEF Frame

\* A message of the worker.
LEMMA AnswerFields ==
  ASSUME NEW m \in Answer
  PROVE  /\ m.kind \in {"ready", "capture-required", "plan-ready", "syntax-highlight", "ok", "error"}
         /\ m.kind = "ready" => m.ref = 0
         /\ m.kind # "ready" => m.ref \in Id
         /\ m.kind = "plan-ready" => m.plan \in Stored
         /\ m.kind = "error" => m.code = "superseded"
<1>1. CASE m \in [kind : {"ready"}, ref : {0}]
  BY <1>1
<1>2. CASE m \in [kind : {"capture-required"}, ref : Id]
  BY <1>2
<1>3. CASE m \in [kind : {"plan-ready"}, ref : Id, plan : Stored]
  BY <1>3
<1>4. CASE m \in [kind : {"syntax-highlight"}, ref : Id, names : {"names"}]
  BY <1>4
<1>5. CASE m \in [kind : {"ok"}, ref : Id]
  BY <1>5
<1>6. CASE m \in [kind : {"error"}, ref : Id, code : {"superseded"}]
  BY <1>6
<1> QED
  BY <1>1, <1>2, <1>3, <1>4, <1>5, <1>6 DEF Answer

\* The entry of a pending request.
LEMMA EntryFields ==
  ASSUME NEW p \in Entry
  PROVE  /\ p.id \in Id /\ p.kind \in {"namespace-snapshot", "store"} /\ p.slot \in Slot
         /\ p.gen \in Gen /\ p.bound \in Gen /\ p.fresh \in BOOLEAN /\ p.env \in Envs \cup {Nothing}
BY DEF Entry

\* The shell's globals.
LEMMA ShellFields ==
  ASSUME NEW s, IsShell(s)
  PROVE  /\ s.word \in Words /\ s.env \in Envs /\ s.edited \in BOOLEAN /\ s.query \in Words
         /\ s.cur.gen \in Gen /\ s.cur.cand \in Gen /\ s.cur.pending \in BOOLEAN
         /\ s.cur.latched \in BOOLEAN /\ s.cur.decor \in BOOLEAN
         /\ s.tab \in BOOLEAN /\ s.tabGen \in Gen /\ s.shown \in Listing /\ s.collect \in Listing
         /\ s.reuse \in Gen /\ s.reuseKey \in Words \X (Envs \cup {Nothing}) /\ s.dropped \in Gen
         /\ s.cache.gen \in Gen /\ s.cache.env \in Envs \cup {Nothing}
         /\ s.link \in Link /\ s.ready \in BOOLEAN /\ s.busy \in BOOLEAN /\ s.txq \in Seq(Frame)
         /\ s.requests \in Gen /\ s.candidates \in Gen /\ s.inputs \in Gen
         /\ s.failures \in Nat /\ s.disabled \in BOOLEAN
BY DEF IsShell, Shells

\* A listing is of candidates or of none.
LEMMA ListingFields ==
  ASSUME NEW l \in Listing
  PROVE  l.gen \in Gen /\ (l.gen # 0 => l.data \in Capture)
BY ConstantTypes DEF Listing, Gen

\* The values that stand for no input, no listing, no capture and no cache.
LEMMA NoRecords ==
  /\ NoListing \in Listing /\ NoListing.gen = 0
  /\ NoCapture \in Listing /\ NoCapture.gen = 0
  /\ NoCache \in [gen : Gen, env : Envs \cup {Nothing}] /\ NoCache.gen = 0
  /\ NoInput \in [gen : Gen, cand : Gen, pending : BOOLEAN, latched : BOOLEAN,
                  decor : BOOLEAN, drawn : BOOLEAN]
  /\ NoInput.gen = 0 /\ NoInput.cand = 0 /\ NoInput.pending = FALSE
BY ConstantTypes DEF NoListing, NoCapture, NoCache, NoInput, Listing, Gen

(***************************************************************************)
(* What each operation does to the record.  The fields no part of the      *)
(* invariant reads -- the writer slot, the count of failures, whether      *)
(* zrush is disabled -- are left out.                                      *)
(***************************************************************************)
Typing(s)   == <<s.word, s.env, s.edited, s.query>>
Tabbing(s)  == <<s.tab, s.tabGen>>
Reading(s)  == <<s.cur, s.collect>>
Naming(s)   == <<s.reuse, s.reuseKey, s.dropped, s.cache>>
Sending(s)  == <<s.link, s.ready, s.txq, s.pending>>
Counting(s) == <<s.requests, s.candidates, s.inputs>>

\* Cancelling a capture changes nothing else.
LEMMA CancelFields ==
  ASSUME NEW s, IsShell(s)
  PROVE  /\ IsShell(CancelCollection(s))
         /\ CancelCollection(s).cur = s.cur /\ CancelCollection(s).collect = NoCapture
         /\ CancelCollection(s).shown = s.shown
         /\ Typing(CancelCollection(s)) = Typing(s) /\ Tabbing(CancelCollection(s)) = Tabbing(s)
         /\ Naming(CancelCollection(s)) = Naming(s) /\ Sending(CancelCollection(s)) = Sending(s)
         /\ Counting(CancelCollection(s)) = Counting(s)
BY NoRecords DEF CancelCollection, IsShell, Shells, Typing, Tabbing, Naming, Sending, Counting

\* Removing a listing forgets a recorded Tab and changes nothing else.
LEMMA TeardownFields ==
  ASSUME NEW s, IsShell(s)
  PROVE  /\ IsShell(Teardown(s))
         /\ Teardown(s).tab = FALSE /\ Teardown(s).shown = NoListing
         /\ Typing(Teardown(s)) = Typing(s) /\ Reading(Teardown(s)) = Reading(s)
         /\ Naming(Teardown(s)) = Naming(s) /\ Sending(Teardown(s)) = Sending(s)
         /\ Counting(Teardown(s)) = Counting(s)
<1>1. IsShell(Teardown(s))
  BY NoRecords, ConstantTypes, Zenon DEF Teardown, IsShell, Shells, Gen
<1> QED
  BY <1>1 DEF Teardown, IsShell, Shells, Typing, Reading, Naming, Sending, Counting

\* Dropping the cache latch changes nothing else.
LEMMA CacheDropFields ==
  ASSUME NEW s, IsShell(s)
  PROVE  /\ IsShell(CacheDrop(s))
         /\ CacheDrop(s).cache = NoCache
         /\ CacheDrop(s).reuse = s.reuse /\ CacheDrop(s).reuseKey = s.reuseKey
         /\ CacheDrop(s).dropped = s.dropped /\ CacheDrop(s).shown = s.shown
         /\ Typing(CacheDrop(s)) = Typing(s) /\ Tabbing(CacheDrop(s)) = Tabbing(s)
         /\ Reading(CacheDrop(s)) = Reading(s) /\ Sending(CacheDrop(s)) = Sending(s)
         /\ Counting(CacheDrop(s)) = Counting(s)
BY NoRecords DEF CacheDrop, IsShell, Shells, Typing, Tabbing, Reading, Sending, Counting

\* The pending entries, none of them fresh.
Staled(S) == {[p EXCEPT !.fresh = FALSE] : p \in S}

\* Dropping the reuse latch stales the pending stores.
LEMMA ReuseDropFields ==
  ASSUME NEW s, IsShell(s)
  PROVE  /\ IsShell(ReuseDrop(s))
         /\ ReuseDrop(s).reuse = 0 /\ ReuseDrop(s).dropped = s.candidates
         /\ ReuseDrop(s).reuseKey = s.reuseKey /\ ReuseDrop(s).cache = s.cache
         /\ ReuseDrop(s).pending = Staled(s.pending)
         /\ ReuseDrop(s).link = s.link /\ ReuseDrop(s).ready = s.ready
         /\ ReuseDrop(s).txq = s.txq /\ ReuseDrop(s).shown = s.shown
         /\ Typing(ReuseDrop(s)) = Typing(s) /\ Tabbing(ReuseDrop(s)) = Tabbing(s)
         /\ Reading(ReuseDrop(s)) = Reading(s) /\ Counting(ReuseDrop(s)) = Counting(s)
<1>1. 0 \in Gen
  BY ConstantTypes DEF Gen
<1>2. s \in Shells(s.pending)
  BY DEF IsShell
<1>3. ReuseDrop(s).pending = Staled(s.pending)
  BY <1>2 DEF ReuseDrop, Shells, Staled
<1>4. ReuseDrop(s) \in Shells(Staled(s.pending))
  BY <1>1, <1>2, Zenon DEF ReuseDrop, Shells, Staled
<1> QED
  BY <1>2, <1>3, <1>4 DEF ReuseDrop, IsShell, Shells, Typing, Tabbing, Reading, Counting

\* Invalidating the input drops its notifications and its capture.
LEMMA InvalidateFields ==
  ASSUME NEW s, IsShell(s)
  PROVE  /\ IsShell(InputInvalidate(s))
         /\ InputInvalidate(s).cur = NoInput /\ InputInvalidate(s).collect = NoCapture
         /\ InputInvalidate(s).txq = Kept(s.txq)
         /\ InputInvalidate(s).link = s.link /\ InputInvalidate(s).ready = s.ready
         /\ InputInvalidate(s).pending = s.pending /\ InputInvalidate(s).shown = s.shown
         /\ Typing(InputInvalidate(s)) = Typing(s) /\ Tabbing(InputInvalidate(s)) = Tabbing(s)
         /\ Naming(InputInvalidate(s)) = Naming(s) /\ Counting(InputInvalidate(s)) = Counting(s)
<1>1. Kept(s.txq) \in Seq(Frame)
  BY KeptSelects, ShellFields
<1> DEFINE t == [s EXCEPT !.cur = NoInput]
           u == DropNotifications(t)
<1>2. /\ IsShell(t) /\ t.cur = NoInput /\ t.txq = s.txq
      /\ t.link = s.link /\ t.ready = s.ready /\ t.pending = s.pending /\ t.shown = s.shown
      /\ Typing(t) = Typing(s) /\ Tabbing(t) = Tabbing(s)
      /\ Naming(t) = Naming(s) /\ Counting(t) = Counting(s)
  BY NoRecords DEF IsShell, Shells, Typing, Tabbing, Naming, Counting
<1> HIDE DEF t
<1>3. /\ IsShell(u) /\ u.cur = t.cur /\ u.txq = Kept(t.txq)
      /\ u.link = t.link /\ u.ready = t.ready /\ u.pending = t.pending /\ u.shown = t.shown
      /\ Typing(u) = Typing(t) /\ Tabbing(u) = Tabbing(t)
      /\ Naming(u) = Naming(t) /\ Counting(u) = Counting(t)
  <2>1. u = [t EXCEPT !.txq = Kept(t.txq)]
    BY DEF DropNotifications
  <2>2. t \in Shells(t.pending) /\ Kept(t.txq) \in Seq(Frame)
    BY ONLY <1>1, <1>2 DEF IsShell
  <2> HIDE DEF u
  <2>3. /\ u.cur = t.cur /\ u.txq = Kept(t.txq)
        /\ u.link = t.link /\ u.ready = t.ready /\ u.pending = t.pending /\ u.shown = t.shown
        /\ Typing(u) = Typing(t) /\ Tabbing(u) = Tabbing(t)
        /\ Naming(u) = Naming(t) /\ Counting(u) = Counting(t)
    BY ONLY <2>1, <2>2 DEF Shells, Typing, Tabbing, Naming, Counting
  <2>4. u \in Shells(t.pending)
    BY ONLY <2>1, <2>2, Zenon DEF Shells
  <2> QED
    BY ONLY <2>3, <2>4 DEF IsShell
<1>4. InputInvalidate(s) = CancelCollection(u)
  BY DEF InputInvalidate, t
<1> HIDE DEF u
<1> QED
  BY <1>2, <1>3, <1>4, CancelFields DEF Sending

\* What a session that is being stopped leaves.
LEMMA BeginStopFields ==
  ASSUME NEW s, IsShell(s)
  PROVE  /\ IsShell(BeginStop(s))
         /\ BeginStop(s).cur = NoInput /\ BeginStop(s).collect = NoCapture
         /\ BeginStop(s).reuse = 0 /\ BeginStop(s).cache = NoCache
         /\ BeginStop(s).dropped = s.candidates /\ BeginStop(s).reuseKey = s.reuseKey
         /\ BeginStop(s).txq = <<>> /\ BeginStop(s).pending = {} /\ BeginStop(s).ready = FALSE
         /\ BeginStop(s).link = (IF s.link = "none" THEN "none" ELSE "stopping")
         /\ BeginStop(s).shown = s.shown
         /\ Typing(BeginStop(s)) = Typing(s) /\ Tabbing(BeginStop(s)) = Tabbing(s)
         /\ Counting(BeginStop(s)) = Counting(s)
<1> DEFINE c == CacheDrop(s)
           d == ReuseDrop(c)
           i == InputInvalidate(d)
<1>1. /\ IsShell(c) /\ c.cache = NoCache /\ c.reuseKey = s.reuseKey /\ c.shown = s.shown
      /\ c.link = s.link /\ c.candidates = s.candidates
      /\ Typing(c) = Typing(s) /\ Tabbing(c) = Tabbing(s) /\ Counting(c) = Counting(s)
  BY CacheDropFields DEF Sending, Counting
<1> HIDE DEF c
<1>2. /\ IsShell(d) /\ d.reuse = 0 /\ d.dropped = c.candidates /\ d.cache = c.cache
      /\ d.reuseKey = c.reuseKey /\ d.shown = c.shown /\ d.link = c.link
      /\ Typing(d) = Typing(c) /\ Tabbing(d) = Tabbing(c) /\ Counting(d) = Counting(c)
  BY <1>1, ReuseDropFields
<1> HIDE DEF d
<1>3. /\ IsShell(i) /\ i.cur = NoInput /\ i.collect = NoCapture /\ i.link = d.link
      /\ i.reuse = d.reuse /\ i.dropped = d.dropped /\ i.cache = d.cache
      /\ i.reuseKey = d.reuseKey /\ i.shown = d.shown
      /\ Typing(i) = Typing(d) /\ Tabbing(i) = Tabbing(d) /\ Counting(i) = Counting(d)
  BY <1>2, InvalidateFields DEF Naming
<1> HIDE DEF i
<1>4. BeginStop(s) = [i EXCEPT !.txq = <<>>, !.pending = {}, !.busy = FALSE, !.ready = FALSE,
                               !.link = IF @ = "none" THEN "none" ELSE "stopping"]
  BY DEF BeginStop, c, d, i
<1> DEFINE b == [i EXCEPT !.txq = <<>>, !.pending = {}, !.busy = FALSE, !.ready = FALSE,
                          !.link = IF @ = "none" THEN "none" ELSE "stopping"]
           link == IF i.link = "none" THEN "none" ELSE "stopping"
<1>5. i \in Shells(i.pending) /\ <<>> \in Seq(Frame) /\ link \in Link /\ FALSE \in BOOLEAN
  BY <1>3 DEF IsShell, Link
<1>6. /\ b.cur = i.cur /\ b.collect = i.collect /\ b.reuse = i.reuse /\ b.cache = i.cache
      /\ b.dropped = i.dropped /\ b.reuseKey = i.reuseKey
      /\ b.txq = <<>> /\ b.pending = {} /\ b.ready = FALSE /\ b.link = link /\ b.shown = i.shown
      /\ Typing(b) = Typing(i) /\ Tabbing(b) = Tabbing(i) /\ Counting(b) = Counting(i)
  BY <1>5 DEF Shells, Typing, Tabbing, Counting
<1>7. b \in Shells({})
  <2>1. b = [i EXCEPT !.txq = <<>>, !.pending = {}, !.busy = FALSE, !.ready = FALSE,
                      !.link = link]
    BY <1>5 DEF Shells
  <2> HIDE DEF link, b
  <2> QED
    BY <1>5, <2>1, Zenon DEF Shells
<1> HIDE DEF b
<1>8. IsShell(b)
  BY <1>6, <1>7 DEF IsShell
<1>9. b = BeginStop(s)
  BY <1>4 DEF b
<1> HIDE DEF link
<1>10. link = IF s.link = "none" THEN "none" ELSE "stopping"
  BY <1>1, <1>2, <1>3 DEF link
<1>11. b.dropped = s.candidates
  BY <1>1, <1>2, <1>3, <1>6
<1>12. /\ Typing(b) = Typing(s) /\ Tabbing(b) = Tabbing(s) /\ Counting(b) = Counting(s)
  BY <1>1, <1>2, <1>3, <1>6
<1> QED
  BY <1>1, <1>2, <1>3, <1>6, <1>8, <1>9, <1>10, <1>11, <1>12

\* The session is over, and nothing of it is left but the counters.
Stopped(t, s) ==
  /\ IsShell(t)
  /\ t.cur = NoInput /\ t.collect = NoCapture /\ t.shown = NoListing /\ t.tab = FALSE
  /\ t.reuse = 0 /\ t.cache = NoCache /\ t.dropped = s.candidates /\ t.reuseKey = s.reuseKey
  /\ t.txq = <<>> /\ t.pending = {} /\ t.ready = FALSE
  /\ t.link = (IF s.link = "none" THEN "none" ELSE "stopping")
  /\ Typing(t) = Typing(s) /\ Counting(t) = Counting(s)

\* The listing is removed from a stopped session.
LEMMA TornDown ==
  ASSUME NEW s, IsShell(s)
  PROVE  Stopped(Teardown(BeginStop(s)), s)
<1> DEFINE b == BeginStop(s)
<1>1. /\ IsShell(b) /\ b.cur = NoInput /\ b.collect = NoCapture
      /\ b.reuse = 0 /\ b.cache = NoCache /\ b.dropped = s.candidates /\ b.reuseKey = s.reuseKey
      /\ b.txq = <<>> /\ b.pending = {} /\ b.ready = FALSE
      /\ b.link = (IF s.link = "none" THEN "none" ELSE "stopping")
      /\ Typing(b) = Typing(s) /\ Counting(b) = Counting(s)
  BY BeginStopFields
<1> HIDE DEF b
<1> DEFINE t == Teardown(b)
<1>2. /\ IsShell(t) /\ t.tab = FALSE /\ t.shown = NoListing
      /\ Typing(t) = Typing(b) /\ Reading(t) = Reading(b) /\ Naming(t) = Naming(b)
      /\ Sending(t) = Sending(b) /\ Counting(t) = Counting(b)
  BY <1>1, TeardownFields
<1> HIDE DEF t
<1>3. /\ t.cur = b.cur /\ t.collect = b.collect /\ t.reuse = b.reuse /\ t.cache = b.cache
      /\ t.dropped = b.dropped /\ t.reuseKey = b.reuseKey
      /\ t.txq = b.txq /\ t.pending = b.pending /\ t.ready = b.ready /\ t.link = b.link
  BY <1>2 DEF Reading, Naming, Sending
<1>4. Stopped(t, s)
  BY <1>1, <1>2, <1>3 DEF Stopped
<1> QED
  BY <1>4 DEF b, t

\* A counter at its maximum stops the session.
LEMMA ExhaustedStops ==
  ASSUME NEW s, IsShell(s)
  PROVE  Stopped(Exhausted(s), s)
<1> DEFINE b == Teardown(BeginStop(s))
<1>1. Stopped(b, s)
  BY TornDown
<1>2. Exhausted(s) = [b EXCEPT !.disabled = TRUE]
  BY DEF Exhausted, b
<1> HIDE DEF b
<1> DEFINE t == [b EXCEPT !.disabled = TRUE]
<1>3. /\ IsShell(t) /\ t.cur = b.cur /\ t.collect = b.collect /\ t.shown = b.shown /\ t.tab = b.tab
      /\ t.reuse = b.reuse /\ t.cache = b.cache /\ t.dropped = b.dropped
      /\ t.reuseKey = b.reuseKey /\ t.txq = b.txq /\ t.pending = b.pending
      /\ t.ready = b.ready /\ t.link = b.link
      /\ Typing(t) = Typing(b) /\ Counting(t) = Counting(b)
  <2>1. b \in Shells(b.pending)
    BY ONLY <1>1 DEF Stopped, IsShell
  <2>2. t \in Shells(b.pending)
    BY ONLY <2>1, TRUE \in BOOLEAN, Zenon DEF Shells
  <2>3. /\ t.cur = b.cur /\ t.collect = b.collect /\ t.shown = b.shown /\ t.tab = b.tab
        /\ t.reuse = b.reuse /\ t.cache = b.cache /\ t.dropped = b.dropped
        /\ t.reuseKey = b.reuseKey /\ t.txq = b.txq /\ t.pending = b.pending
        /\ t.ready = b.ready /\ t.link = b.link
        /\ Typing(t) = Typing(b) /\ Counting(t) = Counting(b)
    BY ONLY <2>1 DEF Shells, Typing, Counting
  <2> QED
    BY ONLY <2>2, <2>3 DEF IsShell
<1>4. t = Exhausted(s)
  BY <1>2
<1> HIDE DEF t
<1> QED
  BY <1>1, <1>3, <1>4 DEF Stopped

\* A failure stops the session.
LEMMA SessionFailStops ==
  ASSUME NEW s, IsShell(s), s.link # "stopping"
  PROVE  Stopped(SessionFail(s), s)
<1> DEFINE b == Teardown(BeginStop(s))
<1>1. Stopped(b, s)
  BY TornDown
<1>2. SessionFail(s) = [b EXCEPT !.failures = @ + 1, !.disabled = @ \/ s.failures >= 1]
  BY DEF SessionFail, b
<1> HIDE DEF b
<1> DEFINE t == [b EXCEPT !.failures = @ + 1, !.disabled = @ \/ s.failures >= 1]
<1>3. /\ t.cur = b.cur /\ t.collect = b.collect /\ t.shown = b.shown /\ t.tab = b.tab
      /\ t.reuse = b.reuse /\ t.cache = b.cache /\ t.dropped = b.dropped
      /\ t.reuseKey = b.reuseKey /\ t.txq = b.txq /\ t.pending = b.pending
      /\ t.ready = b.ready /\ t.link = b.link
      /\ Typing(t) = Typing(b) /\ Counting(t) = Counting(b)
  BY <1>1 DEF Stopped, IsShell, Shells, Typing, Counting
<1>4. IsShell(t)
  <2>1. IsShell(b)
    BY <1>1 DEF Stopped
  <2>2. b.failures \in Nat /\ b.disabled \in BOOLEAN /\ s.failures \in Nat
    BY <2>1, ShellFields
  <2>3. (b.disabled \/ s.failures >= 1) \in BOOLEAN
    BY <2>2
  <2>4. b.failures + 1 \in Nat /\ b \in Shells(b.pending)
    BY <2>1, <2>2 DEF IsShell
  <2>5. t \in Shells(b.pending)
    BY <2>3, <2>4, Zenon DEF Shells
  <2>6. t.pending = b.pending
    BY <1>3
  <2> QED
    BY ONLY <2>5, <2>6 DEF IsShell
<1>5. t = SessionFail(s)
  BY <1>2
<1> HIDE DEF t
<1> QED
  BY <1>1, <1>3, <1>4, <1>5 DEF Stopped

\* The key is the word and the environment; where it was not, the latch is dropped.
LEMMA ReuseTrackFields ==
  ASSUME NEW s, IsShell(s)
  PROVE  /\ IsShell(ReuseTrack(s)) /\ ReuseTrack(s).reuseKey = <<s.word, s.env>>
         /\ ReuseTrack(s).cache = s.cache /\ ReuseTrack(s).shown = s.shown
         /\ ReuseTrack(s).link = s.link /\ ReuseTrack(s).ready = s.ready
         /\ ReuseTrack(s).txq = s.txq
         /\ Typing(ReuseTrack(s)) = Typing(s) /\ Tabbing(ReuseTrack(s)) = Tabbing(s)
         /\ Reading(ReuseTrack(s)) = Reading(s) /\ Counting(ReuseTrack(s)) = Counting(s)
         /\ \/ ReuseTrack(s) = s
            \/ /\ ReuseTrack(s).reuse = 0 /\ ReuseTrack(s).dropped = s.candidates
               /\ ReuseTrack(s).pending = Staled(s.pending)
<1> DEFINE key == <<s.word, s.env>>
<1>0. key \in Words \X (Envs \cup {Nothing})
  BY ShellFields
<1>1. CASE s.reuseKey = key
  <2>1. ReuseTrack(s) = s
    BY <1>1 DEF ReuseTrack
  <2> QED
    BY <1>1, <2>1
<1>2. CASE s.reuseKey # key
  <2> DEFINE d == ReuseDrop(s)
             t == [d EXCEPT !.reuseKey = key]
  <2>1. ReuseTrack(s) = t
    BY <1>2 DEF ReuseTrack
  <2> HIDE DEF key
  <2>2. /\ IsShell(d) /\ d.reuse = 0 /\ d.dropped = s.candidates /\ d.cache = s.cache
        /\ d.pending = Staled(s.pending) /\ d.link = s.link /\ d.ready = s.ready
        /\ d.txq = s.txq /\ d.shown = s.shown
        /\ Typing(d) = Typing(s) /\ Tabbing(d) = Tabbing(s)
        /\ Reading(d) = Reading(s) /\ Counting(d) = Counting(s)
    BY ReuseDropFields
  <2> HIDE DEF d
  <2>3. /\ IsShell(t) /\ t.reuseKey = key
        /\ t.reuse = d.reuse /\ t.dropped = d.dropped /\ t.cache = d.cache
        /\ t.pending = d.pending /\ t.link = d.link /\ t.ready = d.ready
        /\ t.txq = d.txq /\ t.shown = d.shown
        /\ Typing(t) = Typing(d) /\ Tabbing(t) = Tabbing(d)
        /\ Reading(t) = Reading(d) /\ Counting(t) = Counting(d)
    <3>1. d \in Shells(d.pending) /\ key \in Words \X (Envs \cup {Nothing})
      BY ONLY <1>0, <2>2 DEF IsShell
    <3>2. t \in Shells(d.pending)
      BY ONLY <3>1, Zenon DEF Shells
    <3>3. /\ t.reuseKey = key
          /\ t.reuse = d.reuse /\ t.dropped = d.dropped /\ t.cache = d.cache
          /\ t.pending = d.pending /\ t.link = d.link /\ t.ready = d.ready
          /\ t.txq = d.txq /\ t.shown = d.shown
          /\ Typing(t) = Typing(d) /\ Tabbing(t) = Tabbing(d)
          /\ Reading(t) = Reading(d) /\ Counting(t) = Counting(d)
      BY ONLY <3>1 DEF Shells, Typing, Tabbing, Reading, Counting
    <3> QED
      BY ONLY <3>2, <3>3 DEF IsShell
  <2> HIDE DEF t
  <2> QED
    BY <2>1, <2>2, <2>3 DEF key
<1> QED
  BY <1>1, <1>2

(***************************************************************************)
(* Forgetting keeps the session's part of the invariant: the listing, the  *)
(* current input, queued notifications, latches, and all of it.            *)
(***************************************************************************)
LEMMA UnheardType ==
  ASSUME NEW s, NEW w, NEW o, Session(s, w, o)
  PROVE  /\ Unheard(s, w) \in Seq(Frame) /\ w.wire \in Seq(Frame) /\ s.txq \in Seq(Frame)
         /\ IsSeq(Unheard(s, w)) /\ DOMAIN Unheard(s, w) = 1..Len(Unheard(s, w))
         /\ \A i \in DOMAIN Unheard(s, w) : Unheard(s, w)[i] \in Frame
<1>1. w.wire \in Seq(Frame) /\ s.txq \in Seq(Frame)
  BY ShellFields DEF Session, Retained, Works
<1>2. Unheard(s, w) \in Seq(Frame)
  BY <1>1 DEF Unheard
<1> QED
  BY <1>1, <1>2, SeqIsSeq

\* What the session's part of the invariant does not read may change.
LEMMA SessionSame ==
  ASSUME NEW s, NEW t, NEW w, NEW o, Session(s, w, o), IsShell(t),
         Naming(t) = Naming(s), Sending(t) = Sending(s), Counting(t) = Counting(s),
         t.shown.gen <= s.inputs, s.link # "up" => t.cur.gen = 0
  PROVE  Session(t, w, o)
<1>1. /\ t.reuse = s.reuse /\ t.reuseKey = s.reuseKey /\ t.dropped = s.dropped /\ t.cache = s.cache
      /\ t.link = s.link /\ t.ready = s.ready /\ t.txq = s.txq /\ t.pending = s.pending
      /\ t.requests = s.requests /\ t.candidates = s.candidates /\ t.inputs = s.inputs
  BY DEF Naming, Sending, Counting
<1>2. Unheard(t, w) = Unheard(s, w) /\ KeyOf(t) = KeyOf(s)
  BY <1>1 DEF Unheard, KeyOf
<1>3. \A g, d : Holds(s, w, g, d) => Holds(t, w, g, d)
  BY <1>2 DEF Holds
<1>4. Visit(t) /\ Retained(t, w) /\ o \in Seq(Answer)
  BY <1>1 DEF Session, Visit, Retained
<1>5. s.link # "up" => Down(t, w, o)
  BY <1>1 DEF Session, Down
<1>6. ASSUME s.link = "up"
      PROVE  /\ Asked(t) /\ Framed(t, w, Unheard(t, w)) /\ Answered(t, w, o)
             /\ AnsweredFirst(o, Unheard(t, w)) /\ Latches(t, w, o) /\ Meanings(t, w)
  <2>1. Asked(t)
    BY <1>1, <1>6 DEF Session, Asked
  <2>2. Framed(t, w, Unheard(t, w)) /\ Answered(t, w, o) /\ AnsweredFirst(o, Unheard(t, w))
    BY <1>1, <1>2, <1>6 DEF Session, Framed, Answered
  <2>3. Accepted(t, o) = Accepted(s, o)
    BY <1>1 DEF Accepted
  <2>4. Latches(t, w, o)
    BY <1>1, <1>6, <2>3 DEF Session, Latches, HeldOrReplaced
  <2>5. Meanings(t, w)
    BY <1>1, <1>2, <1>3, <1>6 DEF Session, Meanings
  <2> QED
    BY <2>1, <2>2, <2>4, <2>5
<1> QED
  BY <1>1, <1>4, <1>5, <1>6 DEF Session

\* The listing goes.
LEMMA TeardownSession ==
  ASSUME NEW s, NEW w, NEW o, Session(s, w, o)
  PROVE  Session(Teardown(s), w, o)
<1> DEFINE t == Teardown(s)
<1>1. IsShell(s)
  BY DEF Session
<1>2. /\ IsShell(t) /\ t.shown = NoListing /\ Reading(t) = Reading(s)
      /\ Naming(t) = Naming(s) /\ Sending(t) = Sending(s) /\ Counting(t) = Counting(s)
  BY <1>1, TeardownFields
<1> HIDE DEF t
<1>3. t.shown.gen <= s.inputs
  BY <1>1, <1>2, NoRecords, ShellFields DEF Gen
<1>4. s.link # "up" => t.cur.gen = 0
  BY <1>2 DEF Reading, Session, Down
<1>5. Session(t, w, o)
  BY <1>2, <1>3, <1>4, SessionSame
<1> QED
  BY <1>5 DEF t

\* All of it goes: whatever the worker has been sent and has written is lost.
LEMMA StoppedSession ==
  ASSUME NEW s, NEW t, NEW w, NEW o, Session(s, w, o), Stopped(t, s)
  PROVE  /\ Session(t, w, o) /\ Now(t, w, o) /\ Recorded(t) /\ AsSent(t)
         /\ t.link # "up"
<1>1. IsShell(s) /\ IsShell(t) /\ Visit(s) /\ Retained(s, w) /\ o \in Seq(Answer)
  BY DEF Session, Stopped
<1>2. /\ t.reuse = 0 /\ t.cache.gen = 0 /\ t.shown.gen = 0 /\ t.cur.gen = 0 /\ t.collect.gen = 0
      /\ t.cur.pending = FALSE /\ t.dropped = s.candidates
      /\ t.requests = s.requests /\ t.candidates = s.candidates /\ t.inputs = s.inputs
      /\ t.pending = {} /\ t.txq = <<>> /\ t.tab = FALSE
      /\ t.link = (IF s.link = "none" THEN "none" ELSE "stopping")
  BY NoRecords DEF Stopped, Counting
<1>3. Visit(t) /\ Retained(t, w)
  BY <1>1, <1>2, ShellFields DEF Visit, Retained, Gen
<1>4. t.link = "none" => Fresh(w, o)
  BY <1>2 DEF Session, Down
<1>5. Down(t, w, o) /\ t.link # "up"
  BY <1>2, <1>4 DEF Down
<1>6. Session(t, w, o)
  BY <1>1, <1>3, <1>5 DEF Session
<1>7. Now(t, w, o)
  BY <1>2 DEF Now
<1> QED
  BY <1>2, <1>5, <1>6, <1>7 DEF Recorded, AsSent

\* Notifications taken out of the queue.
LEMMA KeptSession ==
  ASSUME NEW s, NEW t, NEW w, NEW o, Session(s, w, o), IsShell(t),
         Naming(t) = Naming(s), Counting(t) = Counting(s), t.shown.gen <= s.inputs,
         t.link = s.link, t.ready = s.ready, t.pending = s.pending, t.txq = Kept(s.txq),
         s.link # "up" => t.cur.gen = 0
  PROVE  /\ Session(t, w, o)
         /\ Unheard(t, w) \in Seq(Frame) /\ Within(Unheard(t, w), Unheard(s, w))
<1> DEFINE q == Unheard(s, w)
           r == Unheard(t, w)
<1>1. /\ t.reuse = s.reuse /\ t.reuseKey = s.reuseKey /\ t.dropped = s.dropped /\ t.cache = s.cache
      /\ t.requests = s.requests /\ t.candidates = s.candidates /\ t.inputs = s.inputs
  BY DEF Naming, Counting
<1>2. KeyOf(t) = KeyOf(s)
  BY <1>1 DEF KeyOf
<1>3. w.wire \in Seq(Frame) /\ s.txq \in Seq(Frame)
  BY UnheardType
<1>4. /\ r \in Seq(Frame) /\ Within(r, q)
      /\ q # <<>> /\ q[1].kind = "hello" => r # <<>> /\ r[1] = q[1]
  <2> DEFINE v == w.wire
             x == s.txq
  <2> HIDE DEF v, x
  <2>1. /\ Kept(x) \in Seq(Frame)
        /\ Within(v \o Kept(x), v \o x)
        /\ v \o x # <<>> /\ (v \o x)[1].kind = "hello" =>
             v \o Kept(x) # <<>> /\ (v \o Kept(x))[1] = (v \o x)[1]
    <3>1. v \in Seq(Frame) /\ x \in Seq(Frame)
      BY <1>3 DEF v, x
    <3> QED
      BY <3>1, KeptWithin
  <2>2. r = v \o Kept(x) /\ q = v \o x
    BY DEF Unheard, v, x
  <2>3. v \o Kept(x) \in Seq(Frame)
    BY <1>3, <2>1 DEF v
  <2> HIDE DEF q, r
  <2> QED
    BY <2>1, <2>2, <2>3
<1>5. ASSUME NEW g, NEW d, Holds(s, w, g, d)
      PROVE  Holds(t, w, g, d)
  BY <1>4, <1>5 DEF Holds, Within
<1>6. Visit(t) /\ Retained(t, w) /\ o \in Seq(Answer)
  BY <1>1 DEF Session, Visit, Retained
<1>7. s.link # "up" => Down(t, w, o)
  <2> SUFFICES ASSUME s.link # "up"
               PROVE  Down(t, w, o)
    OBVIOUS
  <2>1. Down(s, w, o)
    BY DEF Session
  <2>2. s.txq = <<>>
    BY <2>1 DEF Down
  <2>3. t.txq = <<>>
    <3>0. <<>> \in Seq(Frame) /\ Len(<<>>) = 0
      OBVIOUS
    <3>1. Kept(<<>>) \in Seq(Frame) /\ \E h : SelectsTo(h, <<>>, Kept(<<>>), Len(<<>>))
      BY <3>0, KeptSelects
    <3>2. PICK h : SelectsTo(h, <<>>, Kept(<<>>), 0)
      BY <3>0, <3>1
    <3>3. h \in [1..Len(Kept(<<>>)) -> 1..0]
      BY <3>2 DEF SelectsTo
    <3>4. Len(Kept(<<>>)) = 0
      <4>1. Len(Kept(<<>>)) \in Nat
        BY <3>1
      <4>2. Len(Kept(<<>>)) > 0 => 1 \in 1..Len(Kept(<<>>))
        BY <4>1
      <4>3. 1 \in 1..Len(Kept(<<>>)) => h[1] \in 1..0
        BY <3>3
      <4> QED
        BY <4>1, <4>2, <4>3
    <3> QED
      BY <2>2, <3>1, <3>4
  <2> QED
    BY <1>1, <2>1, <2>3 DEF Down
<1>8. ASSUME s.link = "up"
      PROVE  /\ Asked(t) /\ Framed(t, w, r) /\ Answered(t, w, o)
             /\ AnsweredFirst(o, r) /\ Latches(t, w, o) /\ Meanings(t, w)
  <2>0. /\ Asked(s) /\ Framed(s, w, q) /\ Answered(s, w, o)
        /\ AnsweredFirst(o, q) /\ Latches(s, w, o) /\ Meanings(s, w)
    BY <1>8 DEF Session
  <2> HIDE DEF q, r
  <2>1. Asked(t)
    BY <1>1, <2>0 DEF Asked
  <2>2. Answered(t, w, o)
    BY <1>1, <2>0 DEF Answered
  <2>3. AnsweredFirst(o, r)
    BY <1>4, <2>0 DEF AnsweredFirst, Within
  <2>4. Accepted(t, o) = Accepted(s, o)
    BY <1>1 DEF Accepted
  <2>5. Latches(t, w, o)
    BY <1>1, <2>0, <2>4 DEF Latches, HeldOrReplaced
  <2>6. Meanings(t, w)
    BY <1>1, <1>2, <1>5, <2>0, Zenon DEF Meanings
  <2>7. Framed(t, w, r)
    <3>1. w.phase = "awaiting" => r # <<>> /\ r[1].kind = "hello"
      BY <1>4, <2>0 DEF Framed
    <3>2. DOMAIN r = 1..Len(r) /\ Len(r) \in Nat /\ DOMAIN q \subseteq Nat
      BY <1>4, UnheardType DEF q
    <3>3. \A i \in DOMAIN r : r[i].kind = "hello" => i = 1 /\ w.phase # "ready"
      <4> SUFFICES ASSUME NEW i \in DOMAIN r, r[i].kind = "hello"
                   PROVE  i = 1 /\ w.phase # "ready"
        OBVIOUS
      <4>1. w.phase # "ready"
        BY <1>4, <2>0 DEF Within, Framed
      <4>2. i = 1
        <5> SUFFICES ASSUME 1 < i
                     PROVE  FALSE
          BY <3>2
        <5>1. 1 \in DOMAIN r
          BY <3>2
        <5>2. PICK a \in DOMAIN q, b \in DOMAIN q : a < b /\ r[1] = q[a] /\ r[i] = q[b]
          BY <1>4, <5>1 DEF Within
        <5>3. b = 1 /\ a \in 1..Len(q)
          BY <2>0, <5>2, UnheardType DEF Framed, q
        <5> QED
          BY <5>2, <5>3, <3>2
      <4> QED
        BY <4>1, <4>2
    <3>4. \A i \in DOMAIN r : /\ r[i].kind = "input" => r[i].gen > w.input.gen /\ r[i].gen <= s.inputs
                              /\ IsRequest(r[i]) => \E p \in s.pending :
                                   /\ p.id = r[i].id /\ p.kind = r[i].kind
                                   /\ p.kind = "store" => /\ p.slot = r[i].slot /\ p.gen = r[i].gen
                                                          /\ p.bound = r[i].bound
                              /\ \A x \in Slot : r[i].kind = "store" => w.slots[x].gen < r[i].gen
      BY <1>4, <2>0 DEF Within, Framed
    <3>5. \A i, j \in DOMAIN r : i < j =>
            /\ r[i].kind = "input" /\ r[j].kind = "input" => r[i].gen < r[j].gen
            /\ IsRequest(r[i]) /\ IsRequest(r[j]) => r[i].id < r[j].id
      BY <1>4, <2>0 DEF Within, Framed
    <3> QED
      BY <1>1, <3>1, <3>3, <3>4, <3>5 DEF Framed
  <2> QED
    BY <2>1, <2>2, <2>3, <2>5, <2>6, <2>7
<1> QED
  BY <1>1, <1>4, <1>6, <1>7, <1>8 DEF Session

\* The current input is given up.
LEMMA InvalidateSession ==
  ASSUME NEW s, NEW w, NEW o, Session(s, w, o)
  PROVE  /\ Session(InputInvalidate(s), w, o) /\ Now(InputInvalidate(s), w, o)
         /\ AsSent(InputInvalidate(s))
<1> DEFINE t == InputInvalidate(s)
<1>1. IsShell(s) /\ s.shown.gen <= s.inputs
  BY DEF Session, Visit
<1>2. /\ IsShell(t) /\ t.cur = NoInput /\ t.collect = NoCapture /\ t.txq = Kept(s.txq)
      /\ t.link = s.link /\ t.ready = s.ready /\ t.pending = s.pending /\ t.shown = s.shown
      /\ Naming(t) = Naming(s) /\ Counting(t) = Counting(s)
  BY <1>1, InvalidateFields
<1> HIDE DEF t
<1>3. t.cur.gen = 0 /\ t.cur.pending = FALSE /\ t.collect.gen = 0
  BY <1>2, NoRecords
<1>4. t.shown.gen <= s.inputs
  BY <1>1, <1>2
<1>5. Session(t, w, o)
  BY <1>2, <1>3, <1>4, KeptSession
<1>6. Now(t, w, o) /\ AsSent(t)
  BY <1>3 DEF Now, AsSent
<1> QED
  BY <1>5, <1>6 DEF t

\* Two entries of one request.
Alike(p, q) ==
  p.id = q.id /\ p.kind = q.kind /\ p.slot = q.slot /\ p.gen = q.gen /\ p.bound = q.bound /\ p.env = q.env

\* Entries that lost their freshness are otherwise what they were.
LEMMA StaledFields ==
  ASSUME NEW S, \A p \in S : p \in Entry
  PROVE  /\ \A q \in Staled(S) : /\ q \in Entry /\ q.fresh = FALSE
                                 /\ \E p \in S : q = [p EXCEPT !.fresh = FALSE] /\ Alike(q, p)
         /\ \A p \in S : \E q \in Staled(S) : Alike(q, p)
<1>1. ASSUME NEW p \in S
      PROVE  /\ [p EXCEPT !.fresh = FALSE] \in Entry /\ [p EXCEPT !.fresh = FALSE].fresh = FALSE
             /\ Alike([p EXCEPT !.fresh = FALSE], p)
             /\ [p EXCEPT !.fresh = FALSE] \in Staled(S)
  <2>1. p \in Entry
    OBVIOUS
  <2> QED
    BY <2>1 DEF Entry, Alike, Staled
<1> QED
  BY <1>1 DEF Staled

\* The reuse latch is dropped, and so is what was staged with a store.
LEMMA DropSession ==
  ASSUME NEW s, NEW t, NEW w, NEW o, Session(s, w, o), IsShell(t),
         t.reuse = 0, t.dropped = s.candidates, t.cache = s.cache, t.pending = Staled(s.pending),
         t.link = s.link, t.ready = s.ready, t.txq = s.txq, Counting(t) = Counting(s),
         t.shown.gen <= s.inputs, s.link # "up" => t.cur.gen = 0
  PROVE  Session(t, w, o)
<1>1. t.requests = s.requests /\ t.candidates = s.candidates /\ t.inputs = s.inputs
  BY DEF Counting
<1>2. Unheard(t, w) = Unheard(s, w)
  BY DEF Unheard
<1>3. \A g, d : Holds(s, w, g, d) => Holds(t, w, g, d)
  BY <1>2 DEF Holds
<1>0. IsShell(s)
  BY DEF Session
<1>4. Visit(t) /\ Retained(t, w) /\ o \in Seq(Answer)
  BY <1>0, <1>1, ShellFields DEF Session, Visit, Retained, Gen
<1>5. s.link # "up" => Down(t, w, o)
  BY DEF Session, Down, Staled
<1>6. ASSUME s.link = "up"
      PROVE  /\ Asked(t) /\ Framed(t, w, Unheard(t, w)) /\ Answered(t, w, o)
             /\ AnsweredFirst(o, Unheard(t, w)) /\ Latches(t, w, o) /\ Meanings(t, w)
  <2>0. /\ Asked(s) /\ Framed(s, w, Unheard(s, w)) /\ Answered(s, w, o)
        /\ AnsweredFirst(o, Unheard(s, w)) /\ Latches(s, w, o) /\ Meanings(s, w)
    BY <1>6 DEF Session
  <2>1. /\ \A q \in t.pending : /\ q \in Entry /\ q.fresh = FALSE
                                /\ \E p \in s.pending : q = [p EXCEPT !.fresh = FALSE] /\ Alike(q, p)
        /\ \A p \in s.pending : \E q \in t.pending : Alike(q, p)
    <3>1. \A p \in s.pending : p \in Entry
      BY <2>0 DEF Asked
    <3>2. /\ \A q \in Staled(s.pending) :
               /\ q \in Entry /\ q.fresh = FALSE
               /\ \E p \in s.pending : q = [p EXCEPT !.fresh = FALSE] /\ Alike(q, p)
          /\ \A p \in s.pending : \E q \in Staled(s.pending) : Alike(q, p)
      BY ONLY <3>1, StaledFields, Zenon
    <3>3. t.pending = Staled(s.pending)
      OBVIOUS
    <3> QED
      BY ONLY <3>2, <3>3
  <2>2. Asked(t)
    <3>1. ASSUME NEW q \in t.pending
          PROVE  /\ q \in Entry /\ q.id <= t.requests /\ q.gen <= t.candidates /\ q.bound <= t.inputs
                 /\ q.kind = "store" => q.gen # 0 /\ q.bound # 0
                 /\ ~q.fresh /\ q.gen <= t.dropped
      BY <1>1, <2>0, <2>1, <3>1 DEF Asked, Alike
    <3>2. ASSUME NEW p \in t.pending, NEW q \in t.pending, p.id = q.id
          PROVE  p = q
      <4>1. PICK a \in s.pending : p = [a EXCEPT !.fresh = FALSE] /\ Alike(p, a)
        BY <2>1
      <4>2. PICK b \in s.pending : q = [b EXCEPT !.fresh = FALSE] /\ Alike(q, b)
        BY <2>1
      <4>3. a.id = b.id
        BY <3>2, <4>1, <4>2 DEF Alike
      <4>4. a = b
        BY <2>0, <4>3 DEF Asked
      <4> QED
        BY <4>1, <4>2, <4>4
    <3>3. \A p, q \in t.pending :
            p.id < q.id /\ p.kind = "store" /\ q.kind = "store" => p.gen < q.gen
      BY <2>0, <2>1 DEF Asked, Alike
    <3> QED
      BY <3>1, <3>2, <3>3 DEF Asked
  <2>3. \A i \in DOMAIN Unheard(s, w) : IsRequest(Unheard(s, w)[i]) =>
          \E p \in t.pending :
            /\ p.id = Unheard(s, w)[i].id /\ p.kind = Unheard(s, w)[i].kind
            /\ p.kind = "store" => /\ p.slot = Unheard(s, w)[i].slot /\ p.gen = Unheard(s, w)[i].gen
                                   /\ p.bound = Unheard(s, w)[i].bound
    <3> SUFFICES ASSUME NEW i \in DOMAIN Unheard(s, w), IsRequest(Unheard(s, w)[i])
                 PROVE  \E p \in t.pending :
            /\ p.id = Unheard(s, w)[i].id /\ p.kind = Unheard(s, w)[i].kind
            /\ p.kind = "store" => /\ p.slot = Unheard(s, w)[i].slot /\ p.gen = Unheard(s, w)[i].gen
                                   /\ p.bound = Unheard(s, w)[i].bound
      OBVIOUS
    <3>1. PICK p \in s.pending :
            /\ p.id = Unheard(s, w)[i].id /\ p.kind = Unheard(s, w)[i].kind
            /\ p.kind = "store" => /\ p.slot = Unheard(s, w)[i].slot /\ p.gen = Unheard(s, w)[i].gen
                                   /\ p.bound = Unheard(s, w)[i].bound
      BY <2>0 DEF Framed
    <3>2. PICK q \in t.pending : Alike(q, p)
      BY <2>1
    <3> QED
      BY <3>1, <3>2 DEF Alike
  <2>4. Framed(t, w, Unheard(t, w))
    BY <1>1, <1>2, <2>0, <2>3 DEF Framed
  <2>5. \A i \in DOMAIN o : IsResponse(o[i]) => \E p \in t.pending : p.id = o[i].ref
    BY <2>0, <2>1 DEF Answered, Alike
  <2>6. Answered(t, w, o) /\ AnsweredFirst(o, Unheard(t, w))
    BY <1>2, <2>0, <2>5 DEF Answered
  <2>7. ASSUME NEW x, NEW g, HeldOrReplaced(s, w, o, x, g)
        PROVE  HeldOrReplaced(t, w, o, x, g)
    <3>1. CASE w.slots[x].gen = g
      BY <3>1 DEF HeldOrReplaced
    <3>2. CASE w.slots[x].gen # g
      <4>1. PICK p \in Accepted(s, o) : p.slot = x /\ p.gen > g
        BY <2>7, <3>2 DEF HeldOrReplaced
      <4>2. PICK q \in t.pending : Alike(q, p)
        BY <2>1, <4>1 DEF Accepted
      <4>3. q \in Accepted(t, o) /\ q.slot = x /\ q.gen > g
        BY <4>1, <4>2 DEF Accepted, Alike
      <4> QED
        BY <4>3 DEF HeldOrReplaced
    <3> QED
      BY <3>1, <3>2
  <2>8. Latches(t, w, o)
    <3>1. ASSUME NEW q \in Accepted(t, o)
          PROVE  HeldOrReplaced(t, w, o, q.slot, q.gen)
      <4>1. PICK p \in s.pending : Alike(q, p)
        BY <2>1, <3>1 DEF Accepted
      <4>2. p \in Accepted(s, o)
        BY <3>1, <4>1 DEF Accepted, Alike
      <4>3. HeldOrReplaced(s, w, o, q.slot, q.gen)
        BY <2>0, <4>1, <4>2 DEF Latches, Alike
      <4> QED
        BY <2>7, <4>3
    <3> QED
      BY <2>0, <2>7, <3>1 DEF Latches
  <2>9. Meanings(t, w)
    <3>1. ASSUME NEW q \in t.pending, q.kind = "store", q.slot = "cache"
          PROVE  Holds(t, w, q.gen, Blank(q.env))
      <4>1. PICK p \in s.pending : Alike(q, p)
        BY <2>1, <3>1
      <4>2. Holds(s, w, q.gen, Blank(q.env))
        BY <2>0, <3>1, <4>1 DEF Meanings, Alike
      <4> QED
        BY <1>3, <4>2
    <3>2. t.cache.gen # 0 => Holds(t, w, t.cache.gen, Blank(t.cache.env))
      BY <1>3, <2>0 DEF Meanings
    <3> QED
      BY <2>1, <3>1, <3>2 DEF Meanings
  <2> QED
    BY <2>2, <2>4, <2>6, <2>8, <2>9
<1> QED
  BY <1>4, <1>5, <1>6 DEF Session

\* Dropping the reuse latch keeps the session.
LEMMA ReuseDropSession ==
  ASSUME NEW s, NEW w, NEW o, Session(s, w, o)
  PROVE  Session(ReuseDrop(s), w, o)
<1> DEFINE t == ReuseDrop(s)
<1>1. IsShell(s) /\ s.shown.gen <= s.inputs /\ (s.link # "up" => s.cur.gen = 0)
  BY DEF Session, Visit, Down
<1>2. /\ IsShell(t) /\ t.reuse = 0 /\ t.dropped = s.candidates /\ t.cache = s.cache
      /\ t.pending = Staled(s.pending) /\ t.link = s.link /\ t.ready = s.ready /\ t.txq = s.txq
      /\ t.shown = s.shown /\ Reading(t) = Reading(s) /\ Counting(t) = Counting(s)
  BY <1>1, ReuseDropFields
<1> HIDE DEF t
<1>3. t.cur = s.cur
  BY <1>2 DEF Reading
<1>4. Session(t, w, o)
  BY <1>1, <1>2, <1>3, DropSession
<1> QED
  BY <1>4 DEF t

\* The reuse latch follows the word and the environment.
LEMMA ReuseTrackSession ==
  ASSUME NEW s, NEW w, NEW o, Session(s, w, o)
  PROVE  Session(ReuseTrack(s), w, o)
<1> DEFINE t == ReuseTrack(s)
<1>1. IsShell(s) /\ s.shown.gen <= s.inputs /\ (s.link # "up" => s.cur.gen = 0)
  BY DEF Session, Visit, Down
<1>2. CASE t = s
  BY <1>2
<1>3. CASE t # s
  <2>1. /\ IsShell(t) /\ t.reuse = 0 /\ t.dropped = s.candidates /\ t.cache = s.cache
        /\ t.pending = Staled(s.pending) /\ t.link = s.link /\ t.ready = s.ready /\ t.txq = s.txq
        /\ t.shown = s.shown /\ Reading(t) = Reading(s) /\ Counting(t) = Counting(s)
    BY <1>1, <1>3, ReuseTrackFields
  <2> HIDE DEF t
  <2>2. t.cur = s.cur
    BY <2>1 DEF Reading
  <2>3. Session(t, w, o)
    BY <1>1, <2>1, <2>2, DropSession
  <2> QED
    BY <2>3 DEF t
<1> QED
  BY <1>2, <1>3

\* The cache latch is dropped.
LEMMA CacheDropSession ==
  ASSUME NEW s, NEW w, NEW o, Session(s, w, o)
  PROVE  Session(CacheDrop(s), w, o)
<1> DEFINE t == CacheDrop(s)
<1>1. IsShell(s)
  BY DEF Session
<1>2. /\ IsShell(t) /\ t.cache.gen = 0 /\ t.shown = s.shown
      /\ t.reuse = s.reuse /\ t.reuseKey = s.reuseKey /\ t.dropped = s.dropped
      /\ t.cur = s.cur /\ t.link = s.link /\ t.ready = s.ready /\ t.txq = s.txq
      /\ t.pending = s.pending
      /\ t.requests = s.requests /\ t.candidates = s.candidates /\ t.inputs = s.inputs
  BY <1>1, CacheDropFields, NoRecords DEF Reading, Sending, Counting
<1> HIDE DEF t
<1>3. Unheard(t, w) = Unheard(s, w) /\ KeyOf(t) = KeyOf(s)
  BY <1>2 DEF Unheard, KeyOf
<1>4. \A g, d : Holds(s, w, g, d) => Holds(t, w, g, d)
  BY <1>3 DEF Holds
<1>5. Visit(t) /\ Retained(t, w) /\ o \in Seq(Answer)
  BY <1>1, <1>2, ShellFields DEF Session, Visit, Retained, Gen
<1>6. s.link # "up" => Down(t, w, o)
  BY <1>2 DEF Session, Down
<1>7. ASSUME s.link = "up"
      PROVE  /\ Asked(t) /\ Framed(t, w, Unheard(t, w)) /\ Answered(t, w, o)
             /\ AnsweredFirst(o, Unheard(t, w)) /\ Latches(t, w, o) /\ Meanings(t, w)
  <2>1. Asked(t)
    BY <1>2, <1>7 DEF Session, Asked
  <2>2. Framed(t, w, Unheard(t, w)) /\ Answered(t, w, o) /\ AnsweredFirst(o, Unheard(t, w))
    BY <1>2, <1>3, <1>7 DEF Session, Framed, Answered
  <2>3. Accepted(t, o) = Accepted(s, o)
    BY <1>2 DEF Accepted
  <2>4. Latches(t, w, o)
    BY <1>2, <1>7, <2>3 DEF Session, Latches, HeldOrReplaced
  <2>5. Meanings(t, w)
    BY <1>2, <1>3, <1>4, <1>7 DEF Session, Meanings
  <2> QED
    BY <2>1, <2>2, <2>4, <2>5
<1>8. Session(t, w, o)
  BY <1>2, <1>5, <1>6, <1>7 DEF Session
<1> QED
  BY <1>8 DEF t

(***************************************************************************)
(* Sending keeps the session's part, too.                                  *)
(***************************************************************************)
\* The entry e of the request f that is queued in t.
Entered(t, e, f) ==
  /\ e \in Entry /\ e.id = f.id /\ e.kind = f.kind /\ e.bound <= t.inputs
  /\ f.kind = "namespace-snapshot" => e.gen = 0 /\ e.fresh = FALSE
  /\ f.kind = "store" =>
       /\ e.slot = f.slot /\ e.gen = f.gen /\ e.bound = f.bound
       /\ e.fresh => e.slot = "live" /\ t.reuseKey[1] # Empty /\ f.payload = KeyOf(t)
       /\ e.slot = "live" /\ ~e.fresh => t.reuseKey[1] = Empty
       /\ e.slot = "cache" => ~e.fresh /\ f.payload = Blank(e.env)

\* In t one more frame is queued than in s: a flush, an input of the next
\* generation, or a request with the next identifier, a store also of the
\* next candidate generation.
Queued(t, s, f, e) ==
  /\ f \in Frame /\ f.kind # "hello"
  /\ IsShell(t) /\ Naming(t) = Naming(s) /\ t.link = s.link /\ t.ready = s.ready
  /\ t.shown.gen <= t.inputs /\ t.txq = Append(s.txq, f)
  /\ IF f.kind = "input" THEN f.gen = s.inputs + 1 /\ t.inputs = f.gen
                         ELSE t.inputs = s.inputs
  /\ IF f.kind = "store" THEN f.gen = s.candidates + 1 /\ t.candidates = f.gen
                         ELSE t.candidates = s.candidates
  /\ IF IsRequest(f)
     THEN /\ f.id = s.requests + 1 /\ t.requests = f.id
          /\ t.pending = s.pending \cup {e} /\ Entered(t, e, f)
     ELSE t.requests = s.requests /\ t.pending = s.pending

\* A frame joins the queue, a request with its entry.
LEMMA EnqueueSession ==
  ASSUME NEW s, NEW t, NEW w, NEW o, NEW f, NEW e,
         Session(s, w, o), s.link = "up", Queued(t, s, f, e)
  PROVE  Session(t, w, o) /\ Unheard(t, w) = Append(Unheard(s, w), f)
<1> DEFINE q == Unheard(s, w)
           r == Unheard(t, w)
           n == Len(q) + 1
<1> SUFFICES ASSUME f \in Frame, f.kind # "hello",
                    IsShell(t), Naming(t) = Naming(s), t.link = s.link, t.ready = s.ready,
                    t.shown.gen <= t.inputs, t.txq = Append(s.txq, f),
                    IF f.kind = "input" THEN f.gen = s.inputs + 1 /\ t.inputs = f.gen
                                        ELSE t.inputs = s.inputs,
                    IF f.kind = "store" THEN f.gen = s.candidates + 1 /\ t.candidates = f.gen
                                        ELSE t.candidates = s.candidates,
                    IF IsRequest(f)
                    THEN /\ f.id = s.requests + 1 /\ t.requests = f.id
                         /\ t.pending = s.pending \cup {e} /\ Entered(t, e, f)
                    ELSE t.requests = s.requests /\ t.pending = s.pending
             PROVE  Session(t, w, o) /\ r = Append(q, f)
  BY DEF Queued
<1>1. IsShell(s) /\ Visit(s) /\ Retained(s, w) /\ o \in Seq(Answer)
  BY DEF Session
<1>2. /\ Asked(s) /\ Framed(s, w, q) /\ Answered(s, w, o)
      /\ AnsweredFirst(o, q) /\ Latches(s, w, o) /\ Meanings(s, w)
  BY DEF Session
<1>3. /\ t.reuse = s.reuse /\ t.reuseKey = s.reuseKey /\ t.dropped = s.dropped /\ t.cache = s.cache
      /\ KeyOf(t) = KeyOf(s)
  BY DEF Naming, KeyOf
<1>4. /\ s.requests \in Nat /\ s.candidates \in Nat /\ s.inputs \in Nat
      /\ t.requests \in Nat /\ t.candidates \in Nat /\ t.inputs \in Nat
      /\ s.reuse \in Nat /\ s.cache.gen \in Nat /\ s.dropped \in Nat
  <2>1. /\ s.requests \in Gen /\ s.candidates \in Gen /\ s.inputs \in Gen
        /\ s.reuse \in Gen /\ s.cache.gen \in Gen /\ s.dropped \in Gen
    BY <1>1, ShellFields
  <2>2. t.requests \in Gen /\ t.candidates \in Gen /\ t.inputs \in Gen
    BY ShellFields
  <2>3. Gen \subseteq Nat
    BY ConstantTypes DEF Gen
  <2> QED
    BY ONLY <2>1, <2>2, <2>3
<1>5. s.inputs <= t.inputs /\ s.candidates <= t.candidates /\ s.requests <= t.requests
  <2>1. t.inputs = s.inputs \/ t.inputs = s.inputs + 1
    OBVIOUS
  <2>2. t.candidates = s.candidates \/ t.candidates = s.candidates + 1
    OBVIOUS
  <2>3. t.requests = s.requests \/ t.requests = s.requests + 1
    OBVIOUS
  <2> QED
    BY ONLY <1>4, <2>1, <2>2, <2>3
<1>6. q \in Seq(Frame) /\ IsSeq(q) /\ w.wire \in Seq(Frame) /\ s.txq \in Seq(Frame)
  BY UnheardType
<1>7. r = Append(q, f)
  <2> DEFINE a == w.wire
             b == s.txq
  <2>1. IsSeq(a) /\ IsSeq(b)
    BY <1>6, SeqIsSeq
  <2>2. r = a \o Append(b, f) /\ q = a \o b
    BY DEF Unheard
  <2> HIDE DEF a, b, q, r
  <2>3. a \o Append(b, f) = Append(a \o b, f)
    BY <2>1, ConcatAppend
  <2> QED
    BY <2>2, <2>3
<1>8. /\ DOMAIN r = DOMAIN q \cup {n} /\ n \in Nat
      /\ \A i \in DOMAIN q : r[i] = q[i] /\ i \in Nat /\ i < n
      /\ r[n] = f /\ r \in Seq(Frame)
  BY <1>6, <1>7, AppendDomain
<1>9. q # <<>> => r # <<>> /\ r[1] = q[1] /\ 1 \in DOMAIN q
  BY <1>6, <1>7
<1>10. DOMAIN q = 1..Len(q) /\ \A i \in DOMAIN q : q[i] \in Frame
  BY UnheardType
<1>11. /\ w \in Works /\ w.input.gen <= s.inputs
       /\ \A x \in Slot : w.slots[x].gen <= s.candidates /\ w.slots[x].gen \in Nat
  <2>1. w \in Works /\ w.input.gen <= s.inputs /\ \A x \in Slot : w.slots[x].gen <= s.candidates
    BY <1>1 DEF Retained
  <2>2. w.slots \in [Slot -> Stored \cup {[gen |-> 0, data |-> Nothing]}]
    BY <2>1 DEF Works
  <2>3. \A x \in Stored \cup {[gen |-> 0, data |-> Nothing]} : x.gen \in Nat
    BY ConstantTypes DEF Stored, Id
  <2> QED
    BY <2>1, <2>2, <2>3
<1>12. w.input.gen \in Nat
  BY <1>11, ConstantTypes DEF Works, Gen
<1>13. f.kind = "input" => f.gen \in Nat /\ f.gen > s.inputs
  BY <1>4
<1>14. f.kind = "store" => f.gen \in Nat /\ f.gen > s.candidates
  BY <1>4
<1>15. IsRequest(f) => f.id \in Nat /\ f.id > s.requests
  BY <1>4
<1>16. \A p \in s.pending :
         /\ p \in Entry /\ p.id \in Nat /\ p.id <= s.requests
         /\ p.gen \in Nat /\ p.gen <= s.candidates /\ p.bound \in Nat /\ p.bound <= s.inputs
  BY <1>2, EntryFields, ConstantTypes DEF Asked, Id, Gen
<1> HIDE DEF q, r, n
<1>17. \A i \in DOMAIN q : /\ q[i].kind = "store" => q[i].gen \in Nat /\ q[i].gen <= s.candidates
                           /\ IsRequest(q[i]) => q[i].id \in Nat /\ q[i].id <= s.requests
  <2> SUFFICES ASSUME NEW i \in DOMAIN q
               PROVE  /\ q[i].kind = "store" => q[i].gen \in Nat /\ q[i].gen <= s.candidates
                      /\ IsRequest(q[i]) => q[i].id \in Nat /\ q[i].id <= s.requests
    OBVIOUS
  <2>1. IsRequest(q[i]) => \E p \in s.pending :
          /\ p.id = q[i].id /\ p.kind = q[i].kind
          /\ p.kind = "store" => p.gen = q[i].gen
    BY ONLY <1>2 DEF Framed
  <2> QED
    BY ONLY <1>16, <2>1 DEF IsRequest
<1>18. Retained(t, w)
  <2>1. /\ w.input.pending => w.input.gen # 0
        /\ w.slots["live"].gen = w.slots["cache"].gen => w.slots["live"].gen = 0
    BY ONLY <1>1 DEF Retained
  <2>2. w.input.gen <= t.inputs
    BY ONLY <1>4, <1>5, <1>11, <1>12
  <2>3. \A x \in Slot : w.slots[x].gen <= t.candidates
    BY ONLY <1>4, <1>5, <1>11
  <2>4. w \in Works
    BY ONLY <1>11
  <2> QED
    BY ONLY <2>1, <2>2, <2>3, <2>4 DEF Retained
<1>19. Visit(t)
  <2>1. t.shown.gen <= t.inputs
    OBVIOUS
  <2> QED
    BY ONLY <1>1, <1>3, <1>4, <1>5, <2>1 DEF Visit, KeyOf
<1>20. Asked(t)
  <2>1. ASSUME NEW p \in s.pending
        PROVE  /\ p \in Entry /\ p.id <= t.requests /\ p.gen <= t.candidates /\ p.bound <= t.inputs
               /\ p.kind = "store" => p.gen # 0 /\ p.bound # 0
               /\ p.fresh => /\ p.kind = "store" /\ p.slot = "live" /\ p.gen > t.dropped
                             /\ t.reuseKey[1] # Empty
               /\ p.kind = "store" /\ p.slot = "live" /\ ~p.fresh =>
                    p.gen <= t.dropped \/ t.reuseKey[1] = Empty
    BY ONLY <1>2, <1>3, <1>4, <1>5, <1>16, <2>1 DEF Asked, KeyOf
  <2>2. CASE ~IsRequest(f)
    BY <1>2, <2>1, <2>2 DEF Asked
  <2>3. CASE IsRequest(f)
    <3>1. e \in Entry /\ e.id = f.id /\ e.kind = f.kind /\ e.bound <= t.inputs
      BY <2>3 DEF Entered
    <3>2. f.kind # "store" => e.gen = 0 /\ e.fresh = FALSE
      BY <2>3 DEF Entered, IsRequest
    <3>3. f.kind = "store" =>
             /\ e.gen = f.gen /\ e.gen > s.dropped /\ e.gen <= t.candidates /\ e.gen # 0
             /\ e.bound # 0
             /\ e.fresh => e.slot = "live" /\ t.reuseKey[1] # Empty
             /\ e.slot = "live" /\ ~e.fresh => t.reuseKey[1] = Empty
      <4> SUFFICES ASSUME f.kind = "store"
                   PROVE  /\ e.gen = f.gen /\ e.gen > s.dropped /\ e.gen <= t.candidates /\ e.gen # 0
                          /\ e.bound # 0
                          /\ e.fresh => e.slot = "live" /\ t.reuseKey[1] # Empty
                          /\ e.slot = "live" /\ ~e.fresh => t.reuseKey[1] = Empty
        OBVIOUS
      <4>1. /\ e.gen = f.gen /\ e.bound = f.bound
            /\ e.fresh => e.slot = "live" /\ t.reuseKey[1] # Empty
            /\ e.slot = "live" /\ ~e.fresh => t.reuseKey[1] = Empty
        BY <2>3 DEF Entered
      <4>2. f.bound # 0
        BY FrameFields, ConstantTypes DEF Id
      <4>3. f.gen = t.candidates /\ f.gen \in Nat /\ f.gen > s.candidates
        BY <1>14
      <4>4. s.dropped <= s.candidates
        BY ONLY <1>1 DEF Visit
      <4> QED
        BY ONLY <1>4, <4>1, <4>2, <4>3, <4>4
    <3>4. /\ e \in Entry /\ e.id <= t.requests /\ e.gen <= t.candidates /\ e.bound <= t.inputs
          /\ e.kind = "store" => e.gen # 0 /\ e.bound # 0
          /\ e.fresh => /\ e.kind = "store" /\ e.slot = "live" /\ e.gen > t.dropped
                        /\ t.reuseKey[1] # Empty
          /\ e.kind = "store" /\ e.slot = "live" /\ ~e.fresh =>
               e.gen <= t.dropped \/ t.reuseKey[1] = Empty
      <4>1. e.id <= t.requests /\ e.gen <= t.candidates
        <5>1. e.id = t.requests
          BY <2>3, <3>1
        <5>2. e.gen <= t.candidates
          BY ONLY <1>4, <2>3, <3>1, <3>2, <3>3 DEF IsRequest
        <5> QED
          BY ONLY <1>4, <5>1, <5>2
      <4>2. t.dropped = s.dropped
        BY <1>3
      <4> QED
        BY ONLY <3>1, <3>2, <3>3, <4>1, <4>2
    <3>5. t.pending = s.pending \cup {e}
      BY <2>3
    <3>6. \A p \in s.pending : p.id < e.id /\ p.id # e.id /\ ~(e.id < p.id)
      BY <1>4, <1>15, <1>16, <2>3, <3>1
    <3>7. \A p \in s.pending : e.kind = "store" => p.gen < e.gen
      BY <1>4, <1>14, <1>16, <3>1, <3>3
    <3>8. \A p, d \in t.pending : p.id = d.id => p = d
      BY <1>2, <3>5, <3>6 DEF Asked
    <3>9. ~(e.id < e.id)
      BY <1>15, <2>3, <3>1
    <3>10. \A p, d \in t.pending :
            p.id < d.id /\ p.kind = "store" /\ d.kind = "store" => p.gen < d.gen
      BY <1>2, <3>5, <3>6, <3>7, <3>9 DEF Asked
    <3> QED
      BY <2>1, <3>4, <3>5, <3>8, <3>10 DEF Asked
  <2> QED
    BY <2>2, <2>3
<1>21. s.pending \subseteq t.pending
  OBVIOUS
<1>22. Framed(t, w, r)
  <2>1. w.phase = "awaiting" => r # <<>> /\ r[1].kind = "hello"
    BY <1>2, <1>9 DEF Framed
  <2>2. \A i \in DOMAIN r : r[i].kind = "hello" => i = 1 /\ w.phase # "ready"
    BY <1>2, <1>8 DEF Framed
  <2>3. \A i \in DOMAIN r : r[i].kind = "input" => r[i].gen > w.input.gen /\ r[i].gen <= t.inputs
    <3>1. \A i \in DOMAIN q : q[i].kind = "input" => q[i].gen \in Nat
      <4>1. \A m \in Frame : m.kind = "input" => m.gen \in Nat
        BY FrameFields, ConstantTypes DEF Id
      <4> QED
        BY ONLY <1>10, <4>1
    <3>2. \A i \in DOMAIN q : q[i].kind = "input" => q[i].gen > w.input.gen /\ q[i].gen <= s.inputs
      BY ONLY <1>2 DEF Framed
    <3>3. \A i \in DOMAIN q : q[i].kind = "input" => q[i].gen > w.input.gen /\ q[i].gen <= t.inputs
      BY ONLY <1>4, <1>5, <3>1, <3>2
    <3>4. f.kind = "input" => f.gen > w.input.gen /\ f.gen <= t.inputs
      <4> SUFFICES ASSUME f.kind = "input" PROVE f.gen > w.input.gen /\ f.gen <= t.inputs
        OBVIOUS
      <4>1. t.inputs = f.gen /\ f.gen \in Nat /\ f.gen > s.inputs
        BY <1>13
      <4>2. w.input.gen <= s.inputs
        BY ONLY <1>11
      <4> QED
        BY ONLY <1>4, <1>12, <4>1, <4>2
    <3> QED
      BY ONLY <1>8, <3>3, <3>4
  <2>4. \A i, j \in DOMAIN r :
          i < j /\ r[i].kind = "input" /\ r[j].kind = "input" => r[i].gen < r[j].gen
    <3>1. \A i \in DOMAIN q : q[i].kind = "input" => q[i].gen \in Nat /\ q[i].gen <= s.inputs
      <4>1. \A m \in Frame : m.kind = "input" => m.gen \in Nat
        BY FrameFields, ConstantTypes DEF Id
      <4>2. \A i \in DOMAIN q : q[i].kind = "input" => q[i].gen <= s.inputs
        BY <1>2 DEF Framed
      <4> QED
        BY ONLY <1>10, <4>1, <4>2
    <3>2. \A i, j \in DOMAIN q :
            i < j /\ q[i].kind = "input" /\ q[j].kind = "input" => q[i].gen < q[j].gen
      BY <1>2 DEF Framed
    <3> QED
      BY ONLY <1>4, <1>8, <1>13, <3>1, <3>2
  <2>5. \A i, j \in DOMAIN r :
          i < j /\ IsRequest(r[i]) /\ IsRequest(r[j]) => r[i].id < r[j].id
    <3>1. \A i, j \in DOMAIN q : i < j /\ IsRequest(q[i]) /\ IsRequest(q[j]) => q[i].id < q[j].id
      BY <1>2 DEF Framed
    <3> QED
      BY ONLY <1>4, <1>8, <1>15, <1>17, <3>1
  <2>6. \A i \in DOMAIN r : IsRequest(r[i]) =>
          \E p \in t.pending :
            /\ p.id = r[i].id /\ p.kind = r[i].kind
            /\ p.kind = "store" => p.slot = r[i].slot /\ p.gen = r[i].gen /\ p.bound = r[i].bound
    <3> SUFFICES ASSUME NEW i \in DOMAIN r, IsRequest(r[i])
                 PROVE  \E p \in t.pending :
            /\ p.id = r[i].id /\ p.kind = r[i].kind
            /\ p.kind = "store" => p.slot = r[i].slot /\ p.gen = r[i].gen /\ p.bound = r[i].bound
      OBVIOUS
    <3>1. CASE i \in DOMAIN q
      BY <1>2, <1>8, <1>21, <3>1 DEF Framed
    <3>2. CASE i = n
      <4>1. r[i] = f /\ IsRequest(f) /\ e \in t.pending /\ Entered(t, e, f)
        BY <1>8, <3>2
      <4> QED
        BY <4>1 DEF Entered
    <3> QED
      BY <1>8, <3>1, <3>2
  <2>7. \A i \in DOMAIN r, x \in Slot : r[i].kind = "store" => w.slots[x].gen < r[i].gen
    <3>1. \A i \in DOMAIN q, x \in Slot : q[i].kind = "store" => w.slots[x].gen < q[i].gen
      BY ONLY <1>2 DEF Framed
    <3>2. \A x \in Slot : f.kind = "store" => w.slots[x].gen < f.gen
      BY ONLY <1>4, <1>11, <1>14
    <3> QED
      BY ONLY <1>8, <3>1, <3>2
  <2> QED
    BY <2>1, <2>2, <2>3, <2>4, <2>5, <2>6, <2>7 DEF Framed
<1>23. Answered(t, w, o)
  BY <1>2, <1>21 DEF Answered
<1>24. AnsweredFirst(o, r)
  <2>1. \A i \in DOMAIN o : IsResponse(o[i]) => o[i].ref \in Nat /\ o[i].ref <= s.requests
    BY <1>2, <1>16 DEF Answered
  <2> QED
    BY ONLY <1>2, <1>4, <1>8, <1>15, <2>1 DEF AnsweredFirst
<1>25. Accepted(t, o) = Accepted(s, o)
  <2>1. CASE ~IsRequest(f)
    BY <2>1 DEF Accepted
  <2>2. CASE IsRequest(f)
    <3>1. t.pending = s.pending \cup {e} /\ e.id = f.id
      BY <2>2 DEF Entered
    <3>2. \A i \in DOMAIN o : IsResponse(o[i]) => o[i].ref \in Nat /\ o[i].ref <= s.requests
      BY <1>2, <1>16 DEF Answered
    <3>3. \A i \in DOMAIN o : ~(o[i].kind = "ok" /\ o[i].ref = e.id)
      BY <1>4, <1>15, <2>2, <3>1, <3>2 DEF IsResponse
    <3> QED
      BY <3>1, <3>3 DEF Accepted
  <2> QED
    BY <2>1, <2>2
<1>26. Latches(t, w, o)
  BY <1>2, <1>3, <1>25 DEF Latches, HeldOrReplaced
<1>27. ASSUME NEW g, NEW d, Holds(s, w, g, d), g <= s.candidates, g \in Nat
       PROVE  Holds(t, w, g, d)
  <2>1. f.kind = "store" => f.gen # g
    BY <1>4, <1>14, <1>27
  <2> QED
    BY <1>8, <1>27, <2>1 DEF Holds, q, r
<1>28. Meanings(t, w)
  <2>1. t.reuse # 0 => Holds(t, w, t.reuse, KeyOf(t))
    BY <1>1, <1>2, <1>3, <1>4, <1>27 DEF Meanings, Visit
  <2>2. t.cache.gen # 0 => Holds(t, w, t.cache.gen, Blank(t.cache.env))
    BY <1>1, <1>2, <1>3, <1>4, <1>27 DEF Meanings, Visit
  <2>3. ASSUME NEW p \in s.pending
        PROVE  /\ p.fresh => Holds(t, w, p.gen, KeyOf(t))
               /\ p.kind = "store" /\ p.slot = "cache" => Holds(t, w, p.gen, Blank(p.env))
    BY <1>2, <1>3, <1>16, <1>27 DEF Meanings
  <2>4. ASSUME IsRequest(f)
        PROVE  /\ e.fresh => Holds(t, w, e.gen, KeyOf(t))
               /\ e.kind = "store" /\ e.slot = "cache" => Holds(t, w, e.gen, Blank(e.env))
    <3>1. ASSUME f.kind = "store"
          PROVE  Holds(t, w, f.gen, f.payload)
      <4>1. \A x \in Slot : w.slots[x].gen # f.gen
        BY <1>4, <1>11, <1>14, <3>1
      <4>2. \A i \in DOMAIN q : q[i].kind = "store" => q[i].gen # f.gen
        BY <1>4, <1>14, <1>17, <3>1
      <4> QED
        BY <1>8, <4>1, <4>2 DEF Holds, r
    <3>2. Entered(t, e, f) /\ (f.kind = "namespace-snapshot" \/ f.kind = "store")
      BY <2>4 DEF IsRequest
    <3> QED
      BY <3>1, <3>2 DEF Entered
  <2>5. CASE IsRequest(f)
    <3>1. t.pending = s.pending \cup {e}
      BY <2>5
    <3> QED
      BY <2>1, <2>2, <2>3, <2>4, <2>5, <3>1 DEF Meanings
  <2>6. CASE ~IsRequest(f)
    BY <2>1, <2>2, <2>3, <2>6 DEF Meanings
  <2> QED
    BY <2>5, <2>6
<1>29. Session(t, w, o)
  BY <1>1, <1>18, <1>19, <1>20, <1>22, <1>23, <1>24, <1>26, <1>28 DEF Session, r
<1> QED
  BY <1>7, <1>29

\* The counter of candidate generations may run ahead.
LEMMA CandidatesSession ==
  ASSUME NEW s, NEW t, NEW w, NEW o, Session(s, w, o), IsShell(t),
         Naming(t) = Naming(s), Sending(t) = Sending(s), t.shown.gen <= s.inputs,
         t.requests = s.requests, t.inputs = s.inputs, s.candidates <= t.candidates,
         s.link # "up" => t.cur.gen = 0
  PROVE  Session(t, w, o)
<1>1. /\ t.reuse = s.reuse /\ t.reuseKey = s.reuseKey /\ t.dropped = s.dropped /\ t.cache = s.cache
      /\ t.link = s.link /\ t.ready = s.ready /\ t.txq = s.txq /\ t.pending = s.pending
  BY DEF Naming, Sending
<1>0. /\ s.candidates \in Nat /\ t.candidates \in Nat
      /\ s.dropped \in Nat /\ s.reuse \in Nat /\ s.cache.gen \in Nat
  <2>1. /\ s.candidates \in Gen /\ s.dropped \in Gen /\ s.reuse \in Gen /\ s.cache.gen \in Gen
    BY ShellFields DEF Session
  <2>2. t.candidates \in Gen
    BY ShellFields
  <2> QED
    BY <2>1, <2>2, ConstantTypes DEF Gen
<1>2. Unheard(t, w) = Unheard(s, w) /\ KeyOf(t) = KeyOf(s)
  BY <1>1 DEF Unheard, KeyOf
<1>3. \A g, d : Holds(s, w, g, d) => Holds(t, w, g, d)
  BY <1>2 DEF Holds
<1>4. Visit(t) /\ o \in Seq(Answer)
  BY <1>0, <1>1 DEF Session, Visit
<1>5. Retained(t, w)
  <2>1. Retained(s, w)
    BY DEF Session
  <2>2. \A x \in Slot : w.slots[x].gen \in Nat
    <3>1. w.slots \in [Slot -> Stored \cup {[gen |-> 0, data |-> Nothing]}]
      BY <2>1 DEF Retained, Works
    <3>2. \A x \in Stored \cup {[gen |-> 0, data |-> Nothing]} : x.gen \in Nat
      BY ConstantTypes DEF Stored, Id
    <3> QED
      BY <3>1, <3>2
  <2> QED
    BY <1>0, <2>1, <2>2 DEF Retained
<1>6. s.link # "up" => Down(t, w, o)
  BY <1>1 DEF Session, Down
<1>7. ASSUME s.link = "up"
      PROVE  /\ Asked(t) /\ Framed(t, w, Unheard(t, w)) /\ Answered(t, w, o)
             /\ AnsweredFirst(o, Unheard(t, w)) /\ Latches(t, w, o) /\ Meanings(t, w)
  <2>0. \A p \in s.pending : p.gen \in Nat
    BY <1>7, EntryFields, ConstantTypes DEF Session, Asked, Gen
  <2>1. Asked(t)
    BY <1>0, <1>1, <1>7, <2>0 DEF Session, Asked
  <2>2. Framed(t, w, Unheard(t, w)) /\ Answered(t, w, o) /\ AnsweredFirst(o, Unheard(t, w))
    BY <1>1, <1>2, <1>7 DEF Session, Framed, Answered
  <2>3. Accepted(t, o) = Accepted(s, o)
    BY <1>1 DEF Accepted
  <2>4. Latches(t, w, o)
    BY <1>1, <1>7, <2>3 DEF Session, Latches, HeldOrReplaced
  <2>5. Meanings(t, w)
    BY <1>1, <1>2, <1>3, <1>7 DEF Session, Meanings
  <2> QED
    BY <2>1, <2>2, <2>4, <2>5
<1> QED
  BY <1>1, <1>4, <1>5, <1>6, <1>7 DEF Session

\* A request is queued with its entry, or exhausts the identifiers.
LEMMA RequestFields ==
  ASSUME NEW s, IsShell(s), NEW entry, NEW m, s.requests # MaxId,
         [entry EXCEPT !.id = s.requests + 1] \in Entry,
         [m EXCEPT !.id = s.requests + 1] \in Frame
  PROVE  LET t == Request(s, entry, m)
         IN  /\ IsShell(t) /\ t.requests = s.requests + 1
             /\ t.pending = s.pending \cup {[entry EXCEPT !.id = s.requests + 1]}
             /\ t.txq = Append(s.txq, [m EXCEPT !.id = s.requests + 1])
             /\ t.link = s.link /\ t.ready = s.ready
             /\ t.candidates = s.candidates /\ t.inputs = s.inputs /\ t.shown = s.shown
             /\ Naming(t) = Naming(s) /\ Typing(t) = Typing(s) /\ Tabbing(t) = Tabbing(s)
             /\ Reading(t) = Reading(s)
<1> DEFINE id == s.requests + 1
           e == [entry EXCEPT !.id = id]
           f == [m EXCEPT !.id = id]
           u == [s EXCEPT !.requests = id, !.pending = @ \cup {e}]
           t == Enqueue(u, f)
<1>1. id \in Gen
  BY ShellFields, ConstantTypes DEF Gen
<1>2. s \in Shells(s.pending) /\ s.txq \in Seq(Frame)
  BY ShellFields DEF IsShell
<1>3. Request(s, entry, m) = t
  BY DEF Request
<1>4. u \in Shells(s.pending \cup {e})
  <2> HIDE DEF id, e
  <2> QED
    BY <1>1, <1>2, Zenon DEF Shells
<1>5. /\ u.requests = id /\ u.pending = s.pending \cup {e} /\ u.txq = s.txq
      /\ u.link = s.link /\ u.ready = s.ready
      /\ u.candidates = s.candidates /\ u.inputs = s.inputs /\ u.shown = s.shown
      /\ Naming(u) = Naming(s) /\ Typing(u) = Typing(s) /\ Tabbing(u) = Tabbing(s)
      /\ Reading(u) = Reading(s)
  BY <1>2 DEF Shells, Naming, Typing, Tabbing, Reading
<1>6. f \in Frame
  OBVIOUS
<1> HIDE DEF e, f, u, id
<1>7. Append(u.txq, f) \in Seq(Frame)
  BY <1>2, <1>5, <1>6
<1>8. /\ t \in Shells(s.pending \cup {e}) /\ t.txq = Append(u.txq, f) /\ t.pending = u.pending
      /\ t.requests = u.requests /\ t.link = u.link /\ t.ready = u.ready
      /\ t.candidates = u.candidates /\ t.inputs = u.inputs /\ t.shown = u.shown
      /\ Naming(t) = Naming(u) /\ Typing(t) = Typing(u) /\ Tabbing(t) = Tabbing(u)
      /\ Reading(t) = Reading(u)
  BY <1>4, <1>7 DEF Enqueue, Shells, Naming, Typing, Tabbing, Reading
<1>9. IsShell(t)
  BY <1>5, <1>8 DEF IsShell
<1> HIDE DEF t
<1> QED
  BY <1>3, <1>5, <1>8, <1>9 DEF e, f, id

\* What a new session keeps of the shell.
Carried(t, s) ==
  /\ Typing(t) = Typing(s) /\ Tabbing(t) = Tabbing(s) /\ Reading(t) = Reading(s)
  /\ t.shown = s.shown /\ t.inputs = s.inputs /\ t.candidates = s.candidates

\* A new session: a hello and the namespace snapshot, and neither latch.
LEMMA WorkerStartSession ==
  ASSUME NEW s, NEW w, NEW o, Session(s, w, o), s.link = "none"
  PROVE  LET t == WorkerStart(s)
         IN  \/ t.link = "up" /\ Session(t, w, o) /\ Carried(t, s)
             \/ t.link # "up" /\ Good(t, w, o)
<1> DEFINE c == CacheDrop(s)
           d == ReuseDrop(c)
           hello == [kind |-> "hello", stamp |-> "own"]
           u == [d EXCEPT !.link = "up", !.ready = FALSE, !.txq = <<hello>>]
           m == [kind |-> "namespace-snapshot", id |-> 0, payload |-> "names"]
<1>1. IsShell(s) /\ Down(s, w, o) /\ Fresh(w, o) /\ Retained(s, w) /\ Visit(s)
  BY DEF Session, Down
<1>2. /\ IsShell(c) /\ c.cache.gen = 0 /\ c.pending = {} /\ c.shown = s.shown
      /\ c.candidates = s.candidates
      /\ Typing(c) = Typing(s) /\ Tabbing(c) = Tabbing(s) /\ Reading(c) = Reading(s)
      /\ Counting(c) = Counting(s)
  BY <1>1, CacheDropFields, NoRecords DEF Sending, Counting, Down
<1> HIDE DEF c
<1>3. /\ IsShell(d) /\ d.reuse = 0 /\ d.dropped = s.candidates /\ d.cache.gen = 0
      /\ d.pending = {} /\ d.shown = s.shown
      /\ Typing(d) = Typing(s) /\ Tabbing(d) = Tabbing(s) /\ Reading(d) = Reading(s)
      /\ Counting(d) = Counting(s)
  BY <1>2, ReuseDropFields DEF Staled
<1> HIDE DEF d
<1>4. hello \in Frame /\ <<hello>> \in Seq(Frame) /\ "up" \in Link
  BY DEF Frame, Link
<1>5. /\ u.reuse = 0 /\ u.dropped = s.candidates /\ u.cache.gen = 0
      /\ u.pending = {} /\ u.shown = s.shown /\ u.link = "up" /\ u.ready = FALSE
      /\ u.txq = <<hello>>
      /\ Typing(u) = Typing(s) /\ Tabbing(u) = Tabbing(s) /\ Reading(u) = Reading(s)
      /\ Counting(u) = Counting(s)
  BY <1>3 DEF IsShell, Shells, Typing, Tabbing, Reading, Counting
<1>6. IsShell(u)
  <2>1. d \in Shells({}) /\ FALSE \in BOOLEAN
    BY <1>3 DEF IsShell
  <2> HIDE DEF hello
  <2>2. [d EXCEPT !.link = "up", !.ready = FALSE, !.txq = <<hello>>] \in Shells({})
    BY <1>4, <2>1, Zenon DEF Shells
  <2> QED
    BY <1>5, <2>2 DEF IsShell
<1>7. WorkerStart(s) = Request(u, NamespaceEntry, m)
  BY DEF WorkerStart, c, d
<1> HIDE DEF u
<1>8. u.requests = s.requests /\ u.candidates = s.candidates /\ u.inputs = s.inputs /\ u.cur = s.cur
  BY <1>5 DEF Counting, Reading
<1>9. Session(u, w, o)
  <2>1. w.wire = <<>> /\ w.phase = "awaiting" /\ w.slots = NoSlots /\ w.input = NoWork /\ o = <<>>
    BY <1>1 DEF Fresh
  <2>2. Unheard(u, w) = <<hello>>
    BY <1>4, <1>5, <2>1 DEF Unheard
  <2>3. /\ Len(<<hello>>) = 1 /\ DOMAIN <<hello>> = {1} /\ <<hello>>[1] = hello
        /\ <<hello>> # <<>> /\ hello.kind = "hello"
    OBVIOUS
  <2> HIDE DEF hello
  <2>4. Visit(u) /\ Retained(u, w) /\ o \in Seq(Answer)
    BY <1>1, <1>5, <1>8, <2>1, ShellFields DEF Visit, Retained, Gen
  <2>5. Asked(u)
    BY <1>5 DEF Asked
  <2>6. Framed(u, w, Unheard(u, w))
    BY <2>1, <2>2, <2>3 DEF Framed, IsRequest
  <2>7. Answered(u, w, o) /\ AnsweredFirst(o, Unheard(u, w))
    BY <1>5, <2>1 DEF Answered, AnsweredFirst, NoWork
  <2>8. Latches(u, w, o) /\ Meanings(u, w)
    BY <1>5 DEF Latches, Accepted, Meanings
  <2> QED
    BY <1>5, <1>6, <2>4, <2>5, <2>6, <2>7, <2>8 DEF Session
<1>10. CASE u.requests = MaxId
  <2>1. WorkerStart(s) = Exhausted(u)
    BY <1>7, <1>10 DEF Request
  <2>2. Stopped(Exhausted(u), u)
    BY <1>6, ExhaustedStops
  <2>3. Good(Exhausted(u), w, o) /\ Exhausted(u).link # "up"
    BY <1>9, <2>2, StoppedSession DEF Good
  <2> QED
    BY <2>1, <2>3
<1>11. CASE u.requests # MaxId
  <2> DEFINE e == [NamespaceEntry EXCEPT !.id = u.requests + 1]
             f == [m EXCEPT !.id = u.requests + 1]
             t == Request(u, NamespaceEntry, m)
  <2>1. u.requests + 1 \in Id
    BY <1>6, <1>11, ShellFields, ConstantTypes DEF Gen, Id
  <2>2. /\ e.id = u.requests + 1 /\ e.kind = "namespace-snapshot" /\ e.gen = 0 /\ e.bound = 0
        /\ e.fresh = FALSE
        /\ f.id = u.requests + 1 /\ f.kind = "namespace-snapshot"
    BY DEF NamespaceEntry
  <2>3. f \in Frame
    <3>1. m \in [kind : {"namespace-snapshot"}, id : {0}, payload : {"names"}]
      OBVIOUS
    <3> HIDE DEF m
    <3>2. f \in [kind : {"namespace-snapshot"}, id : Id, payload : {"names"}]
      BY <2>1, <3>1
    <3> QED
      BY <3>2 DEF Frame
  <2>4. e \in Entry
    <3>1. NamespaceEntry \in [id : {0}, kind : {"namespace-snapshot", "store"}, slot : Slot,
            gen : Gen, bound : Gen, fresh : BOOLEAN, env : Envs \cup {Nothing}]
      BY ConstantTypes DEF NamespaceEntry, Slot, Gen
    <3> QED
      BY <2>1, <3>1 DEF Entry
  <2>5. /\ IsShell(t) /\ t.requests = u.requests + 1 /\ t.pending = u.pending \cup {e}
        /\ t.txq = Append(u.txq, f) /\ t.link = u.link /\ t.ready = u.ready
        /\ t.candidates = u.candidates /\ t.inputs = u.inputs /\ t.shown = u.shown
        /\ Naming(t) = Naming(u) /\ Typing(t) = Typing(u) /\ Tabbing(t) = Tabbing(u)
        /\ Reading(t) = Reading(u)
    BY <1>6, <1>11, <2>3, <2>4, RequestFields
  <2>6. Entered(t, e, f)
    <3>1. t.inputs \in Nat
      BY <2>5, ShellFields, ConstantTypes DEF Gen
    <3> HIDE DEF e, f, t
    <3> QED
      BY <2>2, <2>4, <3>1 DEF Entered
  <2>7. t.shown.gen <= t.inputs
    BY <1>9, <2>5 DEF Session, Visit
  <2> HIDE DEF e, f, t
  <2>8. Session(t, w, o)
    <3>1. IsRequest(f) /\ f.kind # "hello" /\ f.kind # "input" /\ f.kind # "store" /\ f.id = u.requests + 1
      BY <2>2 DEF IsRequest
    <3>2. Queued(t, u, f, e)
      BY <2>3, <2>5, <2>6, <2>7, <3>1 DEF Queued
    <3> QED
      BY <1>5, <1>9, <3>2, EnqueueSession
  <2>9. t.link = "up" /\ Carried(t, s)
    BY <1>5, <1>8, <2>5 DEF Carried
  <2> QED
    BY <1>7, <2>8, <2>9 DEF t
<1> QED
  BY <1>10, <1>11

\* The new input is the last frame queued and nothing refers to it yet; if it
\* names candidates they are those of its word and environment.
LEMMA AnnounceGood ==
  ASSUME NEW s, NEW t, NEW w, NEW o, NEW decor \in BOOLEAN, NEW c, NEW f,
         Session(s, w, o), Session(t, w, o), t.link = "up",
         Unheard(t, w) = Append(Unheard(s, w), f), f.kind = "input", f.gen = t.cur.gen, f.cand = c,
         t.cur.gen = s.inputs + 1, t.cur.cand = c, t.cur.pending = ~decor, t.cur.decor = decor,
         t.collect.gen = 0, t.inputs = s.inputs + 1, t.pending = s.pending,
         s.link = "up", t.shown = s.shown, t.tab = FALSE,
         t.reuseKey = <<t.query, t.env>>, t.query = t.word,
         c = 0 \/ (c = t.reuse /\ t.query # Empty)
               \/ (c = t.cache.gen /\ t.query = Empty /\ t.cache.env = t.env)
  PROVE  Good(t, w, o)
<1> DEFINE g == t.cur.gen
           q == Unheard(s, w)
           r == Unheard(t, w)
<1>1. /\ s.inputs \in Nat /\ g \in Nat /\ s.inputs < g /\ g # 0 /\ g <= t.inputs
      /\ t.candidates \in Nat
  BY ShellFields, ConstantTypes DEF Session, Gen
<1>2. t.cur.cand <= t.candidates
  BY <1>1 DEF Session, Visit
<1>3. \A p \in t.pending : p.bound \in Nat /\ p.bound <= s.inputs
  BY EntryFields, ConstantTypes DEF Session, Asked, Gen
<1>4. BoundTo(t, g) = {}
  BY <1>1, <1>3 DEF BoundTo
<1>5. KeyOf(t) = Target(t)
  BY DEF KeyOf, Target
<1>6. t.cur.cand # 0 => Holds(t, w, t.cur.cand, Target(t))
  <2>1. Meanings(t, w)
    BY DEF Session
  <2>2. CASE c = t.reuse /\ t.query # Empty
    BY <1>5, <2>1, <2>2 DEF Meanings
  <2>3. CASE c = t.cache.gen /\ t.query = Empty /\ t.cache.env = t.env
    <3>1. Blank(t.cache.env) = Target(t)
      BY <2>3 DEF Blank, Target
    <3> QED
      BY <2>1, <2>3, <3>1 DEF Meanings
  <2> QED
    BY <2>2, <2>3
<1>7. t.shown.gen # g
  <2>1. s.shown.gen <= s.inputs
    BY DEF Session, Visit
  <2>2. s.shown.gen \in Nat
    BY ShellFields, ListingFields, ConstantTypes DEF Session, Gen
  <2> QED
    BY <1>1, <2>1, <2>2
<1>8. w.input.gen # g /\ w.input.gen \in Nat /\ w.input.gen <= s.inputs
  <2>1. w.input.gen <= s.inputs /\ w \in Works
    BY DEF Session, Retained
  <2>2. w.input.gen \in Nat
    BY <2>1, ConstantTypes DEF Works, Gen
  <2> QED
    BY <1>1, <2>1, <2>2
<1>9. \A i \in DOMAIN r :
         /\ r[i].kind = "input" /\ r[i].gen = g => r[i].cand = t.cur.cand /\ Owed(t)
         /\ r[i].kind = "store" /\ r[i].bound = g => r[i].payload = Target(t)
  <2>1. Owed(t)
    BY DEF Owed
  <2>2. IsSeq(q) /\ q \in Seq(Frame) /\ \A i \in DOMAIN q : q[i] \in Frame
    BY UnheardType
  <2> HIDE DEF q, r, g
  <2>3. /\ DOMAIN r = DOMAIN q \cup {Len(q) + 1} /\ r[Len(q) + 1] = f
        /\ \A i \in DOMAIN q : r[i] = q[i]
    BY <2>2, AppendDomain DEF q, r
  <2>4. \A i \in DOMAIN q : q[i].kind = "input" => q[i].gen # g
    <3>1. \A i \in DOMAIN q : q[i].kind = "input" => q[i].gen <= s.inputs
      BY DEF Session, Framed, q
    <3>2. \A i \in DOMAIN q : q[i].kind = "input" => q[i].gen \in Nat
      BY <2>2, FrameFields, ConstantTypes DEF Id
    <3> QED
      BY <1>1, <3>1, <3>2
  <2>5. \A i \in DOMAIN q : q[i].kind = "store" => q[i].bound # g
    <3>1. \A i \in DOMAIN q : IsRequest(q[i]) =>
            \E p \in s.pending : p.kind = q[i].kind /\ (p.kind = "store" => p.bound = q[i].bound)
      BY DEF Session, Framed, q
    <3> QED
      BY <1>1, <1>3, <3>1 DEF IsRequest
  <2> QED
    BY <2>1, <2>3, <2>4, <2>5 DEF g
<1>10. \A i \in DOMAIN o : IsEvent(o[i]) => o[i].ref # g
  <2>1. \A i \in DOMAIN o : IsEvent(o[i]) => o[i].ref <= w.input.gen
    BY DEF Session, Answered
  <2>2. \A i \in DOMAIN o : IsEvent(o[i]) => o[i].ref \in Nat
    <3>1. o \in Seq(Answer)
      BY DEF Session
    <3>2. \A i \in DOMAIN o : o[i] \in Answer
      BY <3>1
    <3> QED
      BY <3>2, AnswerFields, ConstantTypes DEF Id, IsEvent
  <2> QED
    BY <1>1, <1>8, <2>1, <2>2
<1> HIDE DEF g, q, r
<1>11. Now(t, w, o)
  <2>1. \A i \in DOMAIN o : /\ o[i].kind = "capture-required" => o[i].ref # g
                            /\ o[i].kind = "plan-ready" => o[i].ref # g
    BY <1>10 DEF IsEvent
  <2> QED
    BY <1>1, <1>2, <1>4, <1>6, <1>7, <1>8, <1>9, <2>1 DEF Now, g, r
<1>12. Recorded(t) /\ AsSent(t)
  BY DEF Recorded, AsSent
<1> QED
  BY <1>11, <1>12 DEF Good

\* The queue loses its notifications and nothing else changes.
LEMMA DropNotificationsFields ==
  ASSUME NEW s, IsShell(s)
  PROVE  LET t == DropNotifications(s)
         IN  /\ IsShell(t) /\ t.txq = Kept(s.txq) /\ t.shown = s.shown
             /\ t.link = s.link /\ t.ready = s.ready /\ t.pending = s.pending
             /\ Typing(t) = Typing(s) /\ Tabbing(t) = Tabbing(s) /\ Reading(t) = Reading(s)
             /\ Naming(t) = Naming(s) /\ Counting(t) = Counting(s)
<1>1. Kept(s.txq) \in Seq(Frame)
  BY KeptSelects, ShellFields
<1> QED
  BY <1>1 DEF DropNotifications, IsShell, Shells, Typing, Tabbing, Reading, Naming, Counting

\* What an input names: nothing, the reuse latch for a word, or the cache
\* latch for the empty word of this environment.
LEMMA NamedIsLatched ==
  ASSUME NEW s, NEW decor \in BOOLEAN, NEW young \in BOOLEAN
  PROVE  LET c == Named(s, decor, young)
         IN  \/ c = 0
             \/ c = s.reuse /\ s.query # Empty
             \/ c = s.cache.gen /\ s.query = Empty /\ s.cache.env = s.env
BY DEF Named, CacheHit

\* The numbered input, queued behind what is left of the queue.
Numbered(s, g, decor, c, quiet) ==
  [Enqueue(DropNotifications(s), [kind |-> "input", gen |-> g, cand |-> c, quiet |-> quiet])
     EXCEPT !.inputs = g,
            !.cur = [gen |-> g, cand |-> c, pending |-> ~decor, latched |-> c # 0,
                     decor |-> decor, drawn |-> FALSE]]

\* A numbered input is good from the start.
LEMMA NumberedGood ==
  ASSUME NEW s, NEW w, NEW o, NEW decor \in BOOLEAN, NEW quiet \in Delays, NEW c \in Gen,
         NEW g, g = s.inputs + 1,
         Session(s, w, o), s.link = "up", s.inputs # MaxId,
         s.cur.gen = 0, s.collect.gen = 0, s.tab = FALSE,
         s.reuseKey = <<s.query, s.env>>, s.query = s.word,
         c = 0 \/ (c = s.reuse /\ s.query # Empty)
               \/ (c = s.cache.gen /\ s.query = Empty /\ s.cache.env = s.env)
  PROVE  Good(Numbered(s, g, decor, c, quiet), w, o)
<1> DEFINE f   == [kind |-> "input", gen |-> g, cand |-> c, quiet |-> quiet]
           cur == [gen |-> g, cand |-> c, pending |-> ~decor, latched |-> c # 0,
                   decor |-> decor, drawn |-> FALSE]
           k   == DropNotifications(s)
           x   == Enqueue(k, f)
           t   == [x EXCEPT !.inputs = g, !.cur = cur]
<1>1. IsShell(s) /\ s.shown.gen <= s.inputs
  BY DEF Session, Visit
<1>2. s.inputs \in Gen /\ g \in Gen /\ g \in Id /\ g \in Nat
  BY <1>1, ShellFields, ConstantTypes DEF Gen, Id
<1>3. f \in Frame /\ f.kind = "input" /\ f.gen = g /\ f.cand = c /\ ~IsRequest(f)
  <2>1. quiet \in BOOLEAN
    BY ConstantTypes
  <2>2. f \in [kind : {"input"}, gen : Id, cand : Gen, quiet : BOOLEAN]
    BY <1>2, <2>1
  <2> QED
    BY <2>2 DEF Frame, IsRequest
<1>4. /\ cur \in [gen : Gen, cand : Gen, pending : BOOLEAN, latched : BOOLEAN,
                  decor : BOOLEAN, drawn : BOOLEAN]
      /\ cur.gen = g /\ cur.cand = c /\ cur.pending = ~decor /\ cur.decor = decor
  BY <1>2
<1>5. /\ IsShell(k) /\ k.txq = Kept(s.txq) /\ k.shown = s.shown
      /\ k.link = s.link /\ k.ready = s.ready /\ k.pending = s.pending
      /\ Typing(k) = Typing(s) /\ Tabbing(k) = Tabbing(s) /\ Reading(k) = Reading(s)
      /\ Naming(k) = Naming(s) /\ Counting(k) = Counting(s)
  BY <1>1, DropNotificationsFields
<1> HIDE DEF f, cur, k
<1>6. Session(k, w, o)
  BY <1>1, <1>5, KeptSession
<1>7. /\ IsShell(x) /\ x.txq = Append(k.txq, f) /\ x.shown = k.shown
      /\ x.link = k.link /\ x.ready = k.ready /\ x.pending = k.pending
      /\ Typing(x) = Typing(k) /\ Tabbing(x) = Tabbing(k) /\ Reading(x) = Reading(k)
      /\ Naming(x) = Naming(k) /\ Counting(x) = Counting(k)
  <2>1. Append(k.txq, f) \in Seq(Frame)
    BY <1>3, <1>5, ShellFields
  <2> QED
    BY <1>5, <2>1 DEF Enqueue, IsShell, Shells, Typing, Tabbing, Reading, Naming, Counting
<1> HIDE DEF x
<1>8. /\ t.inputs = g /\ t.cur = cur /\ t.txq = x.txq /\ t.shown = x.shown /\ t.collect = x.collect
      /\ t.link = x.link /\ t.ready = x.ready /\ t.pending = x.pending
      /\ t.requests = x.requests /\ t.candidates = x.candidates
      /\ Typing(t) = Typing(x) /\ Tabbing(t) = Tabbing(x) /\ Naming(t) = Naming(x)
  BY <1>7 DEF IsShell, Shells, Typing, Tabbing, Naming
<1>9. IsShell(t)
  <2>1. x \in Shells(x.pending)
    BY <1>7 DEF IsShell
  <2>2. t \in Shells(x.pending)
    BY <1>2, <1>4, <2>1, Zenon DEF Shells
  <2> QED
    BY <1>8, <2>2 DEF IsShell
<1> HIDE DEF t
<1>10. /\ k.inputs = s.inputs /\ k.candidates = s.candidates /\ k.requests = s.requests
       /\ x.inputs = s.inputs /\ x.candidates = s.candidates /\ x.requests = s.requests
  BY <1>5, <1>7 DEF Counting
<1>11. s.inputs \in Nat /\ s.shown.gen \in Nat
  BY <1>1, <1>2, ShellFields, ListingFields, ConstantTypes DEF Gen
<1>12. Queued(t, k, f, f)
  <2>1. f.kind # "hello" /\ f.kind # "store"
    BY <1>3
  <2>2. Naming(t) = Naming(k) /\ t.link = k.link /\ t.ready = k.ready /\ t.txq = Append(k.txq, f)
    BY <1>7, <1>8
  <2>3. t.shown.gen <= t.inputs
    BY <1>1, <1>5, <1>7, <1>8, <1>11
  <2>4. f.gen = k.inputs + 1 /\ t.inputs = f.gen
    BY <1>3, <1>8, <1>10
  <2>5. t.candidates = k.candidates /\ t.requests = k.requests /\ t.pending = k.pending
    BY <1>7, <1>8, <1>10
  <2> QED
    BY <1>3, <1>9, <2>1, <2>2, <2>3, <2>4, <2>5 DEF Queued
<1>13. Session(t, w, o) /\ Unheard(t, w) = Append(Unheard(k, w), f)
  BY <1>5, <1>6, <1>12, EnqueueSession
<1>14. /\ t.collect.gen = 0 /\ t.tab = FALSE /\ t.reuseKey = s.reuseKey /\ t.reuse = s.reuse
       /\ t.cache = s.cache /\ t.query = s.query /\ t.word = s.word /\ t.env = s.env
       /\ t.shown = k.shown /\ t.link = "up" /\ k.link = "up" /\ t.pending = k.pending
  BY <1>5, <1>7, <1>8 DEF Typing, Tabbing, Naming, Reading
<1>15. t.cur.gen = k.inputs + 1 /\ t.inputs = k.inputs + 1 /\ t.cur.gen = f.gen /\ t.cur.cand = c
  BY <1>3, <1>4, <1>8, <1>10
<1>16. t.cur.pending = ~decor /\ t.cur.decor = decor
  BY <1>4, <1>8
<1>17. \/ c = 0
       \/ c = t.reuse /\ t.query # Empty
       \/ c = t.cache.gen /\ t.query = Empty /\ t.cache.env = t.env
  BY <1>14
<1>18. t.reuseKey = <<t.query, t.env>> /\ t.query = t.word
  BY <1>14
<1>19. f.kind = "input" /\ f.gen = t.cur.gen /\ f.cand = c
  BY <1>3, <1>15
<1>20. Good(t, w, o)
  BY ONLY <1>6, <1>13, <1>14, <1>15, <1>16, <1>17, <1>18, <1>19, AnnounceGood, decor \in BOOLEAN
<1> QED
  BY <1>20 DEF t, x, k, cur, f, Numbered

\* Sending an input, starting a worker for it if there is none.
LEMMA SendInputGood ==
  ASSUME NEW s, NEW w, NEW o, NEW decor \in BOOLEAN, NEW young \in BOOLEAN, NEW quiet \in Delays,
         Good(s, w, o), s.cur.gen = 0
  PROVE  Good(SendInput(s, decor, young, quiet), w, o)
<1> DEFINE up == IF s.link = "none" THEN WorkerStart(s) ELSE s
           a  == [up EXCEPT !.query = up.word]
           at == ReuseTrack(a)
           c  == Named(at, decor, young)
           checked == IF ~decor /\ at.query = Empty /\ c = 0 THEN CacheDrop(at) ELSE at
           g  == at.inputs + 1
           t  == Numbered(checked, g, decor, c, quiet)
<1>0. Session(s, w, o) /\ Now(s, w, o) /\ Recorded(s) /\ IsShell(s)
  BY DEF Good, Session
<1>1. CASE s.link = "stopping" \/ s.disabled
  BY <1>1 DEF SendInput
<1>2. CASE ~(s.link = "stopping" \/ s.disabled)
  <2>1. SendInput(s, decor, young, quiet) =
          IF up.link # "up" THEN up ELSE IF at.inputs = MaxId THEN Exhausted(checked) ELSE t
    BY <1>2 DEF SendInput, Numbered
  <2>2. s.collect.gen = 0 /\ s.tab = FALSE
    BY <1>0, ShellFields DEF Now, Recorded
  <2>3. \/ up.link = "up" /\ Session(up, w, o) /\ Carried(up, s)
        \/ up.link # "up" /\ Good(up, w, o)
    <3>1. CASE s.link = "none"
      <4>1. up = WorkerStart(s)
        BY <3>1
      <4> HIDE DEF up
      <4> QED
        BY <1>0, <3>1, <4>1, WorkerStartSession
    <3>2. CASE s.link # "none"
      <4>1. s.link = "up"
        BY <1>0, <1>2, <3>2, ShellFields DEF Link
      <4> QED
        BY <1>0, <3>2, <4>1 DEF Carried
    <3> QED
      BY <3>1, <3>2
  <2> HIDE DEF up
  <2>4. CASE up.link # "up"
    BY <2>1, <2>3, <2>4
  <2>5. CASE up.link = "up"
    <3>1. /\ Session(up, w, o) /\ IsShell(up) /\ up.shown.gen <= up.inputs
          /\ up.cur.gen = 0 /\ up.collect.gen = 0 /\ up.tab = FALSE
      BY <2>2, <2>3, <2>5 DEF Carried, Session, Visit, Reading, Tabbing
    <3>2. /\ IsShell(a) /\ a.query = up.word /\ a.word = up.word /\ a.env = up.env
          /\ a.shown = up.shown
          /\ Tabbing(a) = Tabbing(up) /\ Reading(a) = Reading(up) /\ Naming(a) = Naming(up)
          /\ Sending(a) = Sending(up) /\ Counting(a) = Counting(up)
      BY <3>1 DEF IsShell, Shells, Tabbing, Reading, Naming, Sending, Counting
    <3> HIDE DEF a
    <3>3. Session(a, w, o)
      BY <2>5, <3>1, <3>2, SessionSame
    <3>4. Session(at, w, o)
      BY <3>3, ReuseTrackSession
    <3>5. /\ IsShell(at) /\ at.reuseKey = <<a.word, a.env>> /\ at.link = a.link
          /\ Typing(at) = Typing(a) /\ Tabbing(at) = Tabbing(a)
          /\ Reading(at) = Reading(a) /\ Counting(at) = Counting(a)
      BY <3>2, ReuseTrackFields
    <3> HIDE DEF at
    <3>6. /\ at.link = "up" /\ at.cur.gen = 0 /\ at.collect.gen = 0 /\ at.tab = FALSE
          /\ at.query = at.word /\ at.reuseKey = <<at.query, at.env>>
      BY <2>5, <3>1, <3>2, <3>5 DEF Typing, Tabbing, Reading, Sending
    <3>7. \/ c = 0
          \/ c = at.reuse /\ at.query # Empty
          \/ c = at.cache.gen /\ at.query = Empty /\ at.cache.env = at.env
      BY NamedIsLatched
    <3>8. c \in Gen
      BY <3>5, <3>7, ShellFields, ConstantTypes DEF Gen
    <3> HIDE DEF c
    <3>9. /\ Session(checked, w, o) /\ checked.link = "up"
          /\ checked.cur.gen = 0 /\ checked.collect.gen = 0 /\ checked.tab = FALSE
          /\ checked.query = checked.word /\ checked.reuseKey = <<checked.query, checked.env>>
          /\ checked.inputs = at.inputs
          /\ \/ c = 0
             \/ c = checked.reuse /\ checked.query # Empty
             \/ c = checked.cache.gen /\ checked.query = Empty /\ checked.cache.env = checked.env
      <4>1. CASE ~decor /\ at.query = Empty /\ c = 0
        <5>1. checked = CacheDrop(at)
          BY <4>1
        <5> HIDE DEF checked
        <5>2. Session(checked, w, o)
          BY <3>4, <5>1, CacheDropSession
        <5>3. /\ checked.reuseKey = at.reuseKey /\ Typing(checked) = Typing(at)
              /\ Tabbing(checked) = Tabbing(at) /\ Reading(checked) = Reading(at)
              /\ Sending(checked) = Sending(at) /\ Counting(checked) = Counting(at)
          BY <3>5, <5>1, CacheDropFields
        <5> QED
          BY <3>6, <4>1, <5>2, <5>3 DEF Typing, Tabbing, Reading, Sending, Counting
      <4>2. CASE ~(~decor /\ at.query = Empty /\ c = 0)
        <5>1. checked = at
          BY <4>2
        <5> HIDE DEF checked
        <5> QED
          BY <3>4, <3>6, <3>7, <5>1
      <4> QED
        BY <4>1, <4>2
    <3> HIDE DEF checked
    <3>10. CASE at.inputs = MaxId
      <4>1. Good(Exhausted(checked), w, o)
        <5>1. IsShell(checked)
          BY <3>9 DEF Session
        <5>2. Stopped(Exhausted(checked), checked)
          BY <5>1, ExhaustedStops
        <5> QED
          BY <3>9, <5>2, StoppedSession DEF Good
      <4> QED
        BY <2>1, <2>5, <3>10, <4>1
    <3>11. CASE at.inputs # MaxId
      <4>1. g = checked.inputs + 1 /\ checked.inputs # MaxId
        BY <3>9, <3>11
      <4> HIDE DEF g
      <4>2. Good(t, w, o)
        BY <3>8, <3>9, <4>1, NumberedGood
      <4> QED
        BY <2>1, <2>5, <3>11, <4>2
    <3> QED
      BY <3>10, <3>11
  <2> QED
    BY <2>4, <2>5
<1> QED
  BY <1>1, <1>2

\* With no current input nothing is left to say of one.
LEMMA IdleGood ==
  ASSUME NEW s, NEW w, NEW o, Session(s, w, o),
         s.cur.gen = 0, s.cur.pending = FALSE, s.collect.gen = 0, s.tab = FALSE
  PROVE  Good(s, w, o)
BY DEF Good, Now, Recorded, AsSent

\* What is said of the current input reads these fields.
LEMMA NowSame ==
  ASSUME NEW s, NEW t, NEW w, NEW o, Now(s, w, o),
         t.cur = s.cur, t.query = s.query, t.env = s.env, t.reuseKey = s.reuseKey,
         t.collect = s.collect \/ t.collect.gen = 0,
         t.shown = s.shown \/ t.shown.gen = 0,
         t.txq = s.txq, t.pending \subseteq s.pending,
         t.candidates = s.candidates, t.inputs = s.inputs
  PROVE  Now(t, w, o)
<1>1. /\ Unheard(t, w) = Unheard(s, w) /\ Target(t) = Target(s) /\ Owed(t) = Owed(s)
      /\ BoundTo(t, t.cur.gen) \subseteq BoundTo(s, s.cur.gen)
  BY DEF Unheard, Target, Owed, BoundTo
<1>2. \A g, d : Holds(s, w, g, d) => Holds(t, w, g, d)
  BY <1>1 DEF Holds
<1> QED
  BY <1>1, <1>2 DEF Now

\* The listing closes.
LEMMA TeardownGood ==
  ASSUME NEW s, NEW w, NEW o, Good(s, w, o)
  PROVE  Good(Teardown(s), w, o)
<1> DEFINE t == Teardown(s)
<1>1. Session(s, w, o) /\ Now(s, w, o) /\ AsSent(s) /\ IsShell(s)
  BY DEF Good, Session
<1>2. Session(t, w, o)
  BY <1>1, TeardownSession
<1>3. /\ t.tab = FALSE /\ t.shown.gen = 0
      /\ Typing(t) = Typing(s) /\ Reading(t) = Reading(s) /\ Naming(t) = Naming(s)
      /\ Sending(t) = Sending(s) /\ Counting(t) = Counting(s)
  BY <1>1, TeardownFields, NoRecords
<1> HIDE DEF t
<1>4. /\ t.cur = s.cur /\ t.collect = s.collect /\ t.query = s.query /\ t.env = s.env
      /\ t.word = s.word /\ t.edited = s.edited /\ t.reuseKey = s.reuseKey
      /\ t.txq = s.txq /\ t.pending = s.pending
      /\ t.candidates = s.candidates /\ t.inputs = s.inputs
  BY <1>3 DEF Typing, Reading, Naming, Sending, Counting
<1>5. Now(t, w, o)
  BY <1>1, <1>3, <1>4, NowSame
<1>6. Good(t, w, o)
  BY <1>1, <1>2, <1>3, <1>4, <1>5 DEF Good, Recorded, AsSent
<1> QED
  BY <1>6 DEF t

\* The capture ends.
LEMMA CancelGood ==
  ASSUME NEW s, NEW w, NEW o, Good(s, w, o)
  PROVE  Good(CancelCollection(s), w, o)
<1> DEFINE t == CancelCollection(s)
<1>1. Session(s, w, o) /\ Now(s, w, o) /\ Recorded(s) /\ AsSent(s) /\ IsShell(s)
      /\ s.shown.gen <= s.inputs /\ (s.link # "up" => s.cur.gen = 0)
  BY DEF Good, Session, Visit, Down
<1>2. /\ IsShell(t) /\ t.cur = s.cur /\ t.collect.gen = 0 /\ t.shown = s.shown
      /\ Typing(t) = Typing(s) /\ Tabbing(t) = Tabbing(s) /\ Naming(t) = Naming(s)
      /\ Sending(t) = Sending(s) /\ Counting(t) = Counting(s)
  BY <1>1, CancelFields, NoRecords
<1> HIDE DEF t
<1>3. Session(t, w, o)
  BY <1>1, <1>2, SessionSame
<1>4. /\ t.query = s.query /\ t.env = s.env /\ t.tab = s.tab /\ t.tabGen = s.tabGen
      /\ t.word = s.word /\ t.edited = s.edited /\ t.reuseKey = s.reuseKey
      /\ t.txq = s.txq /\ t.pending = s.pending
      /\ t.candidates = s.candidates /\ t.inputs = s.inputs
  BY <1>2 DEF Typing, Tabbing, Naming, Sending, Counting
<1>5. Now(t, w, o)
  BY <1>1, <1>2, <1>4, NowSame
<1>6. Good(t, w, o)
  BY <1>1, <1>2, <1>3, <1>4, <1>5 DEF Good, Recorded, AsSent
<1> QED
  BY <1>6 DEF t

\* The word or the environment changes while no input is current.
LEMMA RetypedGood ==
  ASSUME NEW s, NEW t, NEW w, NEW o, Good(s, w, o), s.cur.gen = 0, s.tab = FALSE, IsShell(t),
         Reading(t) = Reading(s), Tabbing(t) = Tabbing(s), t.shown = s.shown,
         Naming(t) = Naming(s), Sending(t) = Sending(s), Counting(t) = Counting(s)
  PROVE  Good(t, w, o)
<1>1. Session(s, w, o) /\ Now(s, w, o) /\ s.shown.gen <= s.inputs
  BY DEF Good, Session, Visit
<1>2. t.cur = s.cur /\ t.collect = s.collect /\ t.tab = FALSE
  BY DEF Reading, Tabbing
<1>3. Session(t, w, o)
  BY <1>1, <1>2, SessionSame
<1>4. s.collect.gen = 0 /\ s.cur.pending = FALSE
  BY <1>1, ShellFields DEF Now, Session
<1> QED
  BY <1>2, <1>3, <1>4, IdleGood

\* The current input is given up, and the record Tab with it if it is forgotten.
LEMMA InvalidateGood ==
  ASSUME NEW s, NEW w, NEW o, Session(s, w, o)
  PROVE  Good(Teardown(InputInvalidate(s)), w, o)
<1> DEFINE i == InputInvalidate(s)
           t == Teardown(i)
<1>1. IsShell(s)
  BY DEF Session
<1>2. Session(i, w, o) /\ IsShell(i) /\ i.cur = NoInput /\ i.collect = NoCapture
  BY <1>1, InvalidateSession, InvalidateFields
<1> HIDE DEF i
<1>3. Session(t, w, o) /\ t.tab = FALSE /\ Reading(t) = Reading(i)
  BY <1>2, TeardownSession, TeardownFields
<1> HIDE DEF t
<1>4. t.cur.gen = 0 /\ t.cur.pending = FALSE /\ t.collect.gen = 0
  BY <1>2, <1>3, NoRecords DEF Reading
<1>5. Good(t, w, o)
  BY <1>3, <1>4, IdleGood
<1> QED
  BY <1>5 DEF t, i

\* A change that is reported while no input is current.
LEMMA NotifyGood ==
  ASSUME NEW s, NEW w, NEW o, NEW c \in Change, Session(s, w, o),
         s.cur.gen = 0, s.cur.pending = FALSE, s.collect.gen = 0
  PROVE  Good(Notify(s, c), w, o)
<1> DEFINE u == [s EXCEPT !.tab = FALSE, !.tabGen = 0]
           t == ReuseTrack(u)
<1>1. IsShell(s) /\ s.shown.gen <= s.inputs /\ 0 \in Gen
  BY ConstantTypes DEF Session, Visit, Gen
<1>2. /\ u.tab = FALSE /\ u.shown = s.shown /\ u.pending = s.pending
      /\ Reading(u) = Reading(s) /\ Naming(u) = Naming(s)
      /\ Sending(u) = Sending(s) /\ Counting(u) = Counting(s)
  BY <1>1 DEF IsShell, Shells, Reading, Naming, Sending, Counting
<1>3. IsShell(u)
  <2>1. s \in Shells(s.pending) /\ FALSE \in BOOLEAN
    BY <1>1 DEF IsShell
  <2>2. u \in Shells(s.pending)
    BY <1>1, <2>1, Zenon DEF Shells
  <2> QED
    BY <1>2, <2>2 DEF IsShell
<1> HIDE DEF u
<1>4. u.cur = s.cur /\ u.collect = s.collect
  BY <1>2 DEF Reading
<1>5. Session(u, w, o)
  BY <1>1, <1>2, <1>3, <1>4, SessionSame
<1>6. Session(t, w, o) /\ Tabbing(t) = Tabbing(u) /\ Reading(t) = Reading(u)
  BY <1>3, <1>5, ReuseTrackSession, ReuseTrackFields
<1>7. Notify(s, c) =
        CASE c.how \in {"blank", "short"} -> Teardown(t)
          [] c.how = "keys-wait" -> t
          [] c.how = "decorate"  -> SendInput(Teardown(t), TRUE, c.young, c.quiet)
          [] c.how = "send"      -> SendInput(t, FALSE, c.young, c.quiet)
  BY DEF Notify, u
<1> HIDE DEF t
<1>8. t.cur.gen = 0 /\ t.cur.pending = FALSE /\ t.collect.gen = 0 /\ t.tab = FALSE
  BY <1>2, <1>4, <1>6 DEF Reading, Tabbing
<1>9. Good(t, w, o)
  BY <1>6, <1>8, IdleGood
<1>10. Good(Teardown(t), w, o) /\ Teardown(t).cur = t.cur
  <2>1. IsShell(t)
    BY <1>6 DEF Session
  <2> QED
    BY <1>9, <2>1, TeardownGood, TeardownFields DEF Reading
<1>11. CASE c.how \in {"blank", "short"}
  <2>1. Notify(s, c) = Teardown(t)
    BY <1>7, <1>11
  <2> QED
    BY <1>10, <2>1
<1>12. CASE c.how = "keys-wait"
  <2>1. Notify(s, c) = t
    BY <1>7, <1>12
  <2> QED
    BY <1>9, <2>1
<1>13. CASE c.how = "decorate"
  <2>1. c.young \in BOOLEAN /\ c.quiet \in Delays
    BY <1>13 DEF Change
  <2>2. Notify(s, c) = SendInput(Teardown(t), TRUE, c.young, c.quiet)
    BY <1>7, <1>13
  <2>3. Good(SendInput(Teardown(t), TRUE, c.young, c.quiet), w, o)
    BY <1>8, <1>10, <2>1, SendInputGood
  <2> QED
    BY <2>2, <2>3
<1>14. CASE c.how = "send"
  <2>1. c.young \in BOOLEAN /\ c.quiet \in Delays
    BY <1>14 DEF Change
  <2>2. Notify(s, c) = SendInput(t, FALSE, c.young, c.quiet)
    BY <1>7, <1>14
  <2>3. Good(SendInput(t, FALSE, c.young, c.quiet), w, o)
    BY <1>8, <1>9, <2>1, SendInputGood
  <2> QED
    BY <2>2, <2>3
<1> QED
  BY <1>11, <1>12, <1>13, <1>14 DEF Change

\* The redraw hook gives the current input up and reports the change.
LEMMA PreRedrawGood ==
  ASSUME NEW s, NEW w, NEW o, NEW c \in Change, Session(s, w, o)
  PROVE  Good(PreRedraw(s, c), w, o)
<1> DEFINE u == [s EXCEPT !.edited = FALSE]
           i == InputInvalidate(u)
<1>1. IsShell(s) /\ s.shown.gen <= s.inputs /\ (s.link # "up" => s.cur.gen = 0)
  BY DEF Session, Visit, Down
<1>2. /\ IsShell(u) /\ u.shown = s.shown /\ u.cur = s.cur /\ Naming(u) = Naming(s)
      /\ Sending(u) = Sending(s) /\ Counting(u) = Counting(s)
  BY <1>1 DEF IsShell, Shells, Naming, Sending, Counting
<1> HIDE DEF u
<1>3. Session(u, w, o)
  BY <1>1, <1>2, SessionSame
<1>4. Session(i, w, o) /\ i.cur = NoInput /\ i.collect = NoCapture
  BY <1>2, <1>3, InvalidateSession, InvalidateFields
<1>5. PreRedraw(s, c) = Notify(i, c)
  BY DEF PreRedraw, u
<1> HIDE DEF i
<1>6. i.cur.gen = 0 /\ i.cur.pending = FALSE /\ i.collect.gen = 0
  BY <1>4, NoRecords
<1> QED
  BY <1>4, <1>5, <1>6, NotifyGood

\* Tab acts on the listing.
LEMMA TabGood ==
  ASSUME NEW s, NEW w, NEW o, NEW act \in TabActs, NEW v \in Words, Good(s, w, o)
  PROVE  Good(TabWithResults(s, act, v), w, o)
<1>1. Session(s, w, o) /\ Now(s, w, o) /\ Recorded(s) /\ IsShell(s)
      /\ s.shown.gen <= s.inputs /\ (s.link # "up" => s.cur.gen = 0)
  BY DEF Good, Session, Visit, Down
<1>2. CASE act = "select"
  BY <1>2 DEF TabWithResults
<1>3. CASE act = "extend"
  <2> DEFINE t == [s EXCEPT !.word = v, !.edited = TRUE]
  <2>1. TabWithResults(s, act, v) = t
    BY <1>3 DEF TabWithResults
  <2>2. /\ t.edited = TRUE /\ t.query = s.query /\ t.env = s.env /\ t.pending = s.pending
        /\ t.shown = s.shown /\ Tabbing(t) = Tabbing(s) /\ Reading(t) = Reading(s)
        /\ Naming(t) = Naming(s) /\ Sending(t) = Sending(s) /\ Counting(t) = Counting(s)
    BY <1>1 DEF IsShell, Shells, Tabbing, Reading, Naming, Sending, Counting
  <2>3. IsShell(t)
    <3>1. s \in Shells(s.pending) /\ TRUE \in BOOLEAN
      BY <1>1 DEF IsShell
    <3>2. t \in Shells(s.pending)
      BY <3>1, Zenon DEF Shells
    <3> QED
      BY <2>2, <3>2 DEF IsShell
  <2> HIDE DEF t
  <2>4. /\ t.cur = s.cur /\ t.collect = s.collect /\ t.tab = s.tab /\ t.tabGen = s.tabGen
        /\ t.reuseKey = s.reuseKey /\ t.txq = s.txq
        /\ t.candidates = s.candidates /\ t.inputs = s.inputs
    BY <2>2 DEF Tabbing, Reading, Naming, Sending, Counting
  <2>5. Session(t, w, o)
    BY <1>1, <2>2, <2>3, <2>4, SessionSame
  <2>6. Now(t, w, o)
    BY <1>1, <2>2, <2>4, NowSame
  <2>7. Good(t, w, o)
    BY <1>1, <2>2, <2>4, <2>5, <2>6 DEF Good, Recorded, AsSent
  <2> QED
    BY <2>1, <2>7
<1>4. CASE act = "insert"
  <2> DEFINE i == Teardown(InputInvalidate(s))
             t == [i EXCEPT !.word = v, !.edited = TRUE]
  <2>1. TabWithResults(s, act, v) = t
    BY <1>4 DEF TabWithResults
  <2>2. Good(i, w, o)
    BY <1>1, InvalidateGood
  <2>3. IsShell(i) /\ i.cur.gen = 0 /\ i.tab = FALSE
    <3>1. IsShell(InputInvalidate(s)) /\ InputInvalidate(s).cur = NoInput
      BY <1>1, InvalidateFields
    <3> QED
      BY <3>1, TeardownFields, NoRecords DEF Reading
  <2> HIDE DEF i
  <2>4. /\ t.shown = i.shown /\ Tabbing(t) = Tabbing(i) /\ Reading(t) = Reading(i)
        /\ t.pending = i.pending
        /\ Naming(t) = Naming(i) /\ Sending(t) = Sending(i) /\ Counting(t) = Counting(i)
    BY <2>3 DEF IsShell, Shells, Tabbing, Reading, Naming, Sending, Counting
  <2>5. IsShell(t)
    <3>1. i \in Shells(i.pending) /\ TRUE \in BOOLEAN
      BY <2>3 DEF IsShell
    <3>2. t \in Shells(i.pending)
      BY <3>1, Zenon DEF Shells
    <3> QED
      BY <2>4, <3>2 DEF IsShell
  <2> HIDE DEF t
  <2>6. Good(t, w, o)
    BY <2>2, <2>3, <2>4, <2>5, RetypedGood
  <2> QED
    BY <2>1, <2>6
<1> QED
  BY <1>2, <1>3, <1>4 DEF TabActs

\* A flush for the current input is queued.
LEMMA SendFlushGood ==
  ASSUME NEW s, NEW w, NEW o, Good(s, w, o)
  PROVE  Good(SendFlush(s), w, o)
<1> DEFINE f == [kind |-> "flush", gen |-> s.cur.gen]
           t == Enqueue(s, f)
           q == Unheard(s, w)
           r == Unheard(t, w)
<1>1. Session(s, w, o) /\ Now(s, w, o) /\ Recorded(s) /\ AsSent(s) /\ IsShell(s)
      /\ s.shown.gen <= s.inputs
  BY DEF Good, Session, Visit
<1>2. CASE s.cur.gen = 0 \/ s.link # "up"
  BY <1>2 DEF SendFlush
<1>3. CASE ~(s.cur.gen = 0 \/ s.link # "up")
  <2>1. f \in Frame /\ f.kind = "flush" /\ ~IsRequest(f)
    <3>1. s.cur.gen \in Id
      BY <1>1, <1>3, ShellFields, ConstantTypes DEF Gen, Id
    <3> QED
      BY <3>1 DEF Frame, IsRequest
  <2> HIDE DEF f
  <2>2. /\ IsShell(t) /\ t.txq = Append(s.txq, f) /\ t.shown = s.shown
        /\ t.link = s.link /\ t.ready = s.ready /\ t.pending = s.pending
        /\ Typing(t) = Typing(s) /\ Tabbing(t) = Tabbing(s) /\ Reading(t) = Reading(s)
        /\ Naming(t) = Naming(s) /\ Counting(t) = Counting(s)
    <3>1. Append(s.txq, f) \in Seq(Frame)
      BY <1>1, <2>1, ShellFields
    <3> QED
      BY <1>1, <3>1 DEF Enqueue, IsShell, Shells, Typing, Tabbing, Reading, Naming, Counting
  <2>3. SendFlush(s) = t
    BY <1>3 DEF SendFlush, f
  <2> HIDE DEF t
  <2>4. /\ t.cur = s.cur /\ t.collect = s.collect /\ t.tab = s.tab /\ t.tabGen = s.tabGen
        /\ t.query = s.query /\ t.env = s.env /\ t.word = s.word /\ t.edited = s.edited
        /\ t.reuseKey = s.reuseKey /\ t.requests = s.requests
        /\ t.candidates = s.candidates /\ t.inputs = s.inputs
    BY <2>2 DEF Typing, Tabbing, Reading, Naming, Counting
  <2>5. Queued(t, s, f, f)
    <3>1. f.kind # "hello" /\ f.kind # "input" /\ f.kind # "store"
      BY <2>1
    <3>2. t.shown.gen <= t.inputs
      BY <1>1, <2>2, <2>4
    <3> QED
      BY <2>1, <2>2, <2>4, <3>1, <3>2 DEF Queued
  <2>6. Session(t, w, o) /\ r = Append(q, f)
    BY <1>1, <1>3, <2>5, EnqueueSession
  <2>7. IsSeq(q)
    BY <1>1, UnheardType
  <2> HIDE DEF q, r
  <2>8. /\ DOMAIN r = DOMAIN q \cup {Len(q) + 1} /\ r[Len(q) + 1] = f
        /\ \A i \in DOMAIN q : r[i] = q[i]
    BY <2>6, <2>7, AppendDomain
  <2>9. \A i \in DOMAIN r : r[i].kind # "flush" => i \in DOMAIN q /\ r[i] = q[i]
    BY <2>1, <2>8
  <2>10. /\ Target(t) = Target(s) /\ Owed(t) = Owed(s) /\ BoundTo(t, t.cur.gen) = BoundTo(s, s.cur.gen)
    BY <2>2, <2>4 DEF Target, Owed, BoundTo
  <2>11. \A g, d : Holds(s, w, g, d) => Holds(t, w, g, d)
    BY <2>9 DEF Holds, q, r
  <2>12. \A i \in DOMAIN r :
           /\ r[i].kind = "input" /\ r[i].gen = s.cur.gen => r[i].cand = s.cur.cand /\ Owed(s)
           /\ r[i].kind = "store" /\ r[i].bound = s.cur.gen => r[i].payload = Target(s)
    BY <1>1, <1>3, <2>9 DEF Now, q
  <2>13. Now(t, w, o)
    BY <1>1, <1>3, <2>2, <2>4, <2>10, <2>11, <2>12 DEF Now, r
  <2>14. Good(t, w, o)
    BY <1>1, <2>4, <2>6, <2>13 DEF Good, Recorded, AsSent
  <2> QED
    BY <2>3, <2>14
<1> QED
  BY <1>2, <1>3

\* Adding one frame that says nothing of other inputs keeps what is held.
LEMMA HeldBehind ==
  ASSUME NEW s, NEW t, NEW w, NEW f, IsSeq(Unheard(s, w)),
         Unheard(t, w) = Append(Unheard(s, w), f), NEW g, NEW d, Holds(s, w, g, d),
         f.kind = "store" => f.gen # g
  PROVE  Holds(t, w, g, d)
<1> DEFINE q == Unheard(s, w)
           r == Unheard(t, w)
<1> HIDE DEF q, r
<1>1. /\ DOMAIN r = DOMAIN q \cup {Len(q) + 1} /\ r[Len(q) + 1] = f
      /\ \A i \in DOMAIN q : r[i] = q[i]
  BY AppendDomain DEF q, r
<1> QED
  BY <1>1 DEF Holds, q, r

\* A store for the current input is queued: it is the only one, and carries
\* what the current input needs.
LEMMA StoredGood ==
  ASSUME NEW s, NEW t, NEW w, NEW o, NEW f, NEW e, Good(s, w, o), s.link = "up", s.cur.gen # 0,
         Queued(t, s, f, e), f.kind = "store", f.bound = s.cur.gen, f.payload = Target(s),
         s.cur.pending = FALSE, BoundTo(s, s.cur.gen) = {},
         t.cur = s.cur, t.collect.gen = 0, t.shown = s.shown,
         Typing(t) = Typing(s), Tabbing(t) = Tabbing(s)
  PROVE  Good(t, w, o)
<1> DEFINE q == Unheard(s, w)
           r == Unheard(t, w)
<1>1. Session(s, w, o) /\ Now(s, w, o) /\ Recorded(s) /\ AsSent(s) /\ IsShell(s)
  BY DEF Good, Session
<1>2. Session(t, w, o) /\ r = Append(q, f)
  BY <1>1, EnqueueSession
<1>3. IsSeq(q)
  BY <1>1, UnheardType
<1>4. /\ Naming(t) = Naming(s) /\ t.inputs = s.inputs /\ t.pending = s.pending \cup {e}
      /\ f.gen = s.candidates + 1 /\ t.candidates = f.gen
  BY DEF Queued, IsRequest
<1>5. s.candidates \in Nat /\ s.cur.cand \in Nat /\ s.cur.cand <= s.candidates
  BY <1>1, ShellFields, ConstantTypes DEF Now, Gen
<1>6. f.gen # s.cur.cand /\ s.cur.cand <= t.candidates
  BY <1>4, <1>5
<1>7. /\ t.query = s.query /\ t.env = s.env /\ t.word = s.word /\ t.edited = s.edited
      /\ t.tab = s.tab /\ t.tabGen = s.tabGen /\ t.reuseKey = s.reuseKey
  BY <1>4 DEF Typing, Tabbing, Naming
<1>8. Target(t) = Target(s) /\ Owed(t) = Owed(s) /\ BoundTo(t, t.cur.gen) \subseteq {e}
  BY <1>4, <1>7 DEF Target, Owed, BoundTo
<1>9. t.cur.cand # 0 => Holds(t, w, t.cur.cand, Target(t))
  <2>1. s.cur.cand # 0 => Holds(s, w, s.cur.cand, Target(s))
    BY <1>1 DEF Now
  <2> QED
    BY <1>2, <1>3, <1>6, <1>8, <2>1, HeldBehind
<1> HIDE DEF q, r
<1>10. /\ DOMAIN r = DOMAIN q \cup {Len(q) + 1} /\ r[Len(q) + 1] = f
       /\ \A i \in DOMAIN q : r[i] = q[i]
  BY <1>2, <1>3, AppendDomain
<1>11. \A i \in DOMAIN q :
         /\ q[i].kind = "input" /\ q[i].gen = s.cur.gen => q[i].cand = s.cur.cand /\ Owed(s)
         /\ q[i].kind = "store" /\ q[i].bound = s.cur.gen => q[i].payload = Target(s)
  BY <1>1 DEF Now, q
<1>12. \A i \in DOMAIN r :
         /\ r[i].kind = "input" /\ r[i].gen = s.cur.gen => r[i].cand = s.cur.cand /\ Owed(s)
         /\ r[i].kind = "store" /\ r[i].bound = s.cur.gen => r[i].payload = Target(s)
  BY <1>10, <1>11
<1>13. /\ s.cur.gen <= t.inputs /\ t.reuseKey = <<t.query, t.env>>
       /\ t.shown.gen = t.cur.gen => t.shown.data = Target(t)
       /\ w.input.gen = t.cur.gen => w.input.cand = t.cur.cand /\ (w.input.pending => Owed(t))
       /\ \A i \in DOMAIN o :
            /\ o[i].kind = "capture-required" /\ o[i].ref = t.cur.gen => Owed(t)
            /\ o[i].kind = "plan-ready" /\ o[i].ref = t.cur.gen => o[i].plan.data = Target(t)
  BY <1>1, <1>4, <1>7, <1>8 DEF Now
<1>14. Now(t, w, o)
  BY <1>6, <1>8, <1>9, <1>12, <1>13 DEF Now, r
<1> QED
  BY <1>1, <1>2, <1>7, <1>14 DEF Good, Recorded, AsSent

\* The records of a capture are handed over.
LEMMA RequestStoreGood ==
  ASSUME NEW s, NEW w, NEW o, Good(s, w, o), NEW slot \in Slot,
         slot = "cache" => s.query = Empty,
         s.collect.gen # 0
  PROVE  Good(RequestStore(CancelCollection(s), slot, s.collect.data, s.collect.gen), w, o)
<1> DEFINE d == CancelCollection(s)
           data == s.collect.data
           g == d.candidates + 1
           x == [d EXCEPT !.candidates = g]
           entry == StoreEntry(d, slot, g, s.collect.gen)
           m == [kind |-> "store", id |-> 0, slot |-> slot, gen |-> g,
                 bound |-> s.collect.gen, payload |-> data]
           e == [entry EXCEPT !.id = x.requests + 1]
           f == [m EXCEPT !.id = x.requests + 1]
           t == Request(x, entry, m)
<1>1. Session(s, w, o) /\ Now(s, w, o) /\ IsShell(s)
  BY DEF Good, Session
<1>2. /\ s.collect.gen = s.cur.gen /\ s.cur.gen # 0 /\ s.cur.pending = FALSE
      /\ data = Target(s) /\ BoundTo(s, s.cur.gen) = {} /\ s.reuseKey = <<s.query, s.env>>
      /\ s.cur.gen <= s.inputs
  BY <1>1, ShellFields DEF Now
<1>3. s.link = "up"
  BY <1>1, <1>2 DEF Session, Down
<1>4. /\ IsShell(d) /\ d.cur = s.cur /\ d.collect = NoCapture /\ d.shown = s.shown
      /\ Typing(d) = Typing(s) /\ Tabbing(d) = Tabbing(s) /\ Naming(d) = Naming(s)
      /\ Sending(d) = Sending(s) /\ Counting(d) = Counting(s)
  BY <1>1, CancelFields
<1>5. Good(d, w, o)
  BY CancelGood
<1> HIDE DEF d
<1>6. Session(d, w, o) /\ d.link = "up" /\ d.shown.gen <= d.inputs
  BY <1>3, <1>4, <1>5 DEF Good, Session, Visit, Sending
<1>7. /\ d.query = s.query /\ d.env = s.env /\ d.reuseKey = s.reuseKey /\ d.pending = s.pending
      /\ d.inputs = s.inputs
  BY <1>4 DEF Typing, Naming, Sending, Counting
<1>8. RequestStore(d, slot, data, s.collect.gen) =
        IF d.candidates = MaxId THEN Exhausted(d) ELSE t
  BY <1>6 DEF RequestStore
<1>9. CASE d.candidates = MaxId
  <2>1. Stopped(Exhausted(d), d)
    BY <1>4, ExhaustedStops
  <2>2. Good(Exhausted(d), w, o)
    BY <1>6, <2>1, StoppedSession DEF Good
  <2>3. RequestStore(d, slot, data, s.collect.gen) = Exhausted(d)
    BY <1>8, <1>9
  <2> QED
    BY <2>2, <2>3 DEF d
<1>10. CASE d.candidates # MaxId
  <2>1. d.candidates \in Gen /\ g \in Gen /\ g \in Id /\ d.candidates <= g
    BY <1>4, <1>10, ShellFields, ConstantTypes DEF Gen, Id
  <2>2. /\ x.candidates = g /\ x.cur = d.cur /\ x.collect = d.collect /\ x.shown = d.shown
        /\ Typing(x) = Typing(d) /\ Tabbing(x) = Tabbing(d) /\ Naming(x) = Naming(d)
        /\ Sending(x) = Sending(d) /\ x.requests = d.requests /\ x.inputs = d.inputs
    BY <1>4 DEF IsShell, Shells, Typing, Tabbing, Naming, Sending
  <2>3. IsShell(x)
    BY <1>4, <2>1 DEF IsShell, Shells
  <2> HIDE DEF x
  <2>4. Session(x, w, o)
    BY <1>6, <2>1, <2>2, <2>3, CandidatesSession
  <2>5. CASE x.requests = MaxId
    <3>1. t = Exhausted(x)
      BY <2>5 DEF Request
    <3>2. Stopped(Exhausted(x), x)
      BY <2>3, ExhaustedStops
    <3>3. Good(t, w, o)
      BY <2>4, <3>1, <3>2, StoppedSession DEF Good
    <3>4. RequestStore(d, slot, data, s.collect.gen) = t
      BY <1>8, <1>10
    <3> QED
      BY <3>3, <3>4 DEF d
  <2>6. CASE x.requests # MaxId
    <3>1. x.requests + 1 \in Id /\ s.collect.gen \in Id
      BY <1>1, <1>2, <2>3, <2>6, ShellFields, ConstantTypes DEF Gen, Id
    <3>2. data \in Capture
      BY <1>1, <1>2, ShellFields, ConstantTypes DEF Target
    <3>3. /\ f.id = x.requests + 1 /\ f.kind = "store" /\ f.slot = slot /\ f.gen = g
          /\ f.bound = s.collect.gen /\ f.payload = data /\ f \in Frame
      <4>1. m \in [kind : {"store"}, id : {0}, slot : Slot, gen : Id, bound : Id, payload : Capture]
        BY <2>1, <3>1, <3>2
      <4>2. f \in [kind : {"store"}, id : Id, slot : Slot, gen : Id, bound : Id, payload : Capture]
        BY <3>1, <4>1
      <4>3. f \in Frame
        BY <4>2 DEF Frame
      <4> HIDE DEF g
      <4> QED
        BY <4>3
    <3>4. /\ e.id = x.requests + 1 /\ e.kind = "store" /\ e.slot = slot /\ e.gen = g
          /\ e.bound = s.collect.gen /\ e.fresh = (slot = "live" /\ s.query # Empty)
          /\ e.env = (IF slot = "cache" THEN s.env ELSE Nothing) /\ e \in Entry
      <4>1. /\ (slot = "live" /\ s.query # Empty) \in BOOLEAN
            /\ (IF slot = "cache" THEN s.env ELSE Nothing) \in Envs \cup {Nothing}
            /\ s.collect.gen \in Gen
        BY <1>1, <3>1, ShellFields, ConstantTypes DEF Gen, Id
      <4>2. entry = [id |-> 0, kind |-> "store", slot |-> slot, gen |-> g, bound |-> s.collect.gen,
                     fresh |-> slot = "live" /\ s.query # Empty,
                     env |-> IF slot = "cache" THEN s.env ELSE Nothing]
        BY <1>7 DEF StoreEntry
      <4> HIDE DEF g
      <4>3. entry \in [id : {0}, kind : {"namespace-snapshot", "store"}, slot : Slot,
              gen : Gen, bound : Gen, fresh : BOOLEAN, env : Envs \cup {Nothing}]
        BY <2>1, <4>1, <4>2
      <4>4. e \in Entry
        BY <3>1, <4>3 DEF Entry
      <4> QED
        BY <4>2, <4>4
    <3> HIDE DEF e, f
    <3>5. /\ IsShell(t) /\ t.requests = x.requests + 1 /\ t.pending = x.pending \cup {e}
          /\ t.txq = Append(x.txq, f) /\ t.link = x.link /\ t.ready = x.ready
          /\ t.candidates = x.candidates /\ t.inputs = x.inputs /\ t.shown = x.shown
          /\ Naming(t) = Naming(x) /\ Typing(t) = Typing(x) /\ Tabbing(t) = Tabbing(x)
          /\ Reading(t) = Reading(x)
      <4>1. [entry EXCEPT !.id = x.requests + 1] \in Entry /\ [m EXCEPT !.id = x.requests + 1] \in Frame
        BY <3>3, <3>4 DEF e, f
      <4> HIDE DEF entry, m
      <4> QED
        BY <2>3, <2>6, <4>1, RequestFields DEF e, f
    <3> HIDE DEF t, entry, m
    <3>6. /\ Naming(t) = Naming(d) /\ t.link = d.link /\ t.ready = d.ready /\ t.txq = Append(d.txq, f)
          /\ t.pending = d.pending \cup {e} /\ t.inputs = d.inputs /\ t.shown = d.shown
          /\ t.requests = d.requests + 1 /\ t.candidates = g /\ t.reuseKey = d.reuseKey
          /\ t.cur = d.cur /\ t.collect = NoCapture
          /\ Typing(t) = Typing(d) /\ Tabbing(t) = Tabbing(d)
      BY <1>4, <2>2, <3>5 DEF Naming, Sending, Reading
    <3>7. Entered(t, e, f)
      <4>0. t.reuseKey[1] = s.query /\ t.reuseKey[2] = s.env
        <5>1. t.reuseKey = <<s.query, s.env>>
          BY <1>2, <1>7, <3>6
        <5> QED
          BY <5>1
      <4>1. e.fresh => t.reuseKey[1] # Empty /\ f.payload = KeyOf(t)
        <5>1. KeyOf(t) = Target(s)
          BY <4>0 DEF KeyOf, Target
        <5> QED
          BY <1>2, <3>3, <3>4, <4>0, <5>1
      <4>2. e.slot = "live" /\ ~e.fresh => t.reuseKey[1] = Empty
        BY <3>4, <4>0
      <4>3. e.slot = "cache" => ~e.fresh /\ f.payload = Blank(e.env)
        BY <1>2, <3>3, <3>4 DEF Blank, Target
      <4>4. e.bound <= t.inputs
        BY <1>2, <1>7, <3>4, <3>6
      <4>5. e.fresh => e.slot = "live"
        BY <3>4
      <4> QED
        BY <3>3, <3>4, <4>1, <4>2, <4>3, <4>4, <4>5 DEF Entered
    <3>8. Queued(t, d, f, e)
      <4>1. f.kind # "hello" /\ f.kind # "input" /\ IsRequest(f)
        BY <3>3 DEF IsRequest
      <4>2. t.shown.gen <= t.inputs
        BY <1>6, <3>6
      <4>3. f.id = d.requests + 1 /\ t.requests = f.id
        BY <2>2, <3>3, <3>5
      <4>4. f.gen = d.candidates + 1 /\ t.candidates = f.gen
        BY <3>3, <3>6
      <4> QED
        BY <3>3, <3>5, <3>6, <3>7, <4>1, <4>2, <4>3, <4>4 DEF Queued
    <3>9. /\ d.cur.gen # 0 /\ f.kind = "store" /\ f.bound = d.cur.gen /\ f.payload = Target(d)
          /\ d.cur.pending = FALSE /\ BoundTo(d, d.cur.gen) = {} /\ t.collect.gen = 0
      BY <1>2, <1>4, <1>7, <3>3, <3>6, NoRecords DEF Target, BoundTo
    <3>10. Good(t, w, o)
      BY <1>5, <1>6, <3>6, <3>8, <3>9, StoredGood
    <3>11. RequestStore(d, slot, data, s.collect.gen) = t
      BY <1>8, <1>10
    <3> QED
      BY <3>10, <3>11 DEF d
  <2> QED
    BY <2>5, <2>6
<1> QED
  BY <1>9, <1>10

(***************************************************************************)
(* Reading a message of the worker.                                        *)
(***************************************************************************)
\* What a sequence of messages is, and what is behind its head.
LEMMA AnswersType ==
  ASSUME NEW o, o \in Seq(Answer), o # <<>>
  PROVE  /\ IsSeq(o) /\ Tail(o) \in Seq(Answer) /\ Head(o) \in Answer /\ 1 \in DOMAIN o
         /\ Head(o) = o[1]
         /\ \A i \in DOMAIN o : o[i] \in Answer
         /\ \A i \in DOMAIN Tail(o) :
              i \in Nat /\ i + 1 \in DOMAIN o /\ Tail(o)[i] = o[i + 1] /\ 1 < i + 1 /\ i + 1 # 1
<1>1. IsSeq(o)
  BY SeqIsSeq
<1>2. Tail(o) \in Seq(Answer) /\ Head(o) \in Answer /\ \A i \in DOMAIN o : o[i] \in Answer
  OBVIOUS
<1>3. /\ 1 \in DOMAIN o /\ Head(o) = o[1]
      /\ \A i \in DOMAIN Tail(o) : i \in Nat /\ i + 1 \in DOMAIN o /\ Tail(o)[i] = o[i + 1] /\ 1 < i + 1
  BY <1>1, TailDomain
<1>4. \A i \in Nat : 1 < i + 1 => i + 1 # 1
  OBVIOUS
<1> QED
  BY <1>1, <1>2, <1>3, <1>4

\* A message that is no response is taken away, the first of them `ready`.
LEMMA HeadSession ==
  ASSUME NEW s, NEW t, NEW w, NEW o, Session(s, w, o), s.link = "up", o # <<>>,
         ~IsResponse(Head(o)), IsShell(t), Naming(t) = Naming(s), Counting(t) = Counting(s),
         t.link = s.link, t.txq = s.txq, t.pending = s.pending, t.ready = TRUE,
         t.shown.gen <= s.inputs
  PROVE  Session(t, w, Tail(o))
<1> DEFINE x == Tail(o)
<1>1. /\ t.reuse = s.reuse /\ t.reuseKey = s.reuseKey /\ t.dropped = s.dropped /\ t.cache = s.cache
      /\ t.requests = s.requests /\ t.candidates = s.candidates /\ t.inputs = s.inputs
  BY DEF Naming, Counting
<1>2. Unheard(t, w) = Unheard(s, w) /\ KeyOf(t) = KeyOf(s)
  BY <1>1 DEF Unheard, KeyOf
<1>3. \A g, d : Holds(s, w, g, d) => Holds(t, w, g, d)
  BY <1>2 DEF Holds
<1>4. /\ Asked(s) /\ Framed(s, w, Unheard(s, w)) /\ Answered(s, w, o)
      /\ AnsweredFirst(o, Unheard(s, w)) /\ Latches(s, w, o) /\ Meanings(s, w)
      /\ o \in Seq(Answer)
  BY DEF Session
<1>5. /\ x \in Seq(Answer) /\ Head(o) = o[1] /\ 1 \in DOMAIN o
      /\ \A i \in DOMAIN x : i \in Nat /\ i + 1 \in DOMAIN o /\ x[i] = o[i + 1]
                             /\ 1 < i + 1 /\ i + 1 # 1
  BY <1>4, AnswersType
<1>6. \A i \in DOMAIN o : o[i].kind = "ok" => i # 1 /\ i - 1 \in DOMAIN x /\ x[i - 1] = o[i]
  <2>1. IsSeq(o)
    BY <1>4, SeqIsSeq
  <2>2. \A i \in DOMAIN o : i # 1 => i - 1 \in DOMAIN x /\ x[i - 1] = o[i]
    BY <2>1, TailDomain
  <2> QED
    BY <1>5, <2>2 DEF IsResponse
<1> HIDE DEF x
<1>7. Visit(t) /\ Retained(t, w)
  BY <1>1 DEF Session, Visit, Retained
<1>8. Asked(t)
  BY <1>1, <1>4 DEF Asked
<1>9. Framed(t, w, Unheard(t, w))
  BY <1>1, <1>2, <1>4 DEF Framed
<1>10. Answered(t, w, x)
  <2>1. w.phase # "awaiting"
    BY <1>4 DEF Answered
  <2>2. \A i \in DOMAIN x : x[i].kind # "ready"
    BY <1>4, <1>5 DEF Answered
  <2>3. \A i \in DOMAIN x : IsEvent(x[i]) => x[i].ref <= w.input.gen
    BY <1>4, <1>5 DEF Answered
  <2>4. w.input.pending => \A i \in DOMAIN x : IsSettle(x[i]) => x[i].ref # w.input.gen
    BY <1>4, <1>5 DEF Answered
  <2>5. \A i, j \in DOMAIN x : i < j => i + 1 < j + 1
    BY <1>5
  <2>6. \A i, j \in DOMAIN x : i < j /\ IsSettle(x[i]) /\ x[j].kind = "capture-required" =>
          x[i].ref # x[j].ref
    BY <1>4, <1>5, <2>5 DEF Answered
  <2>7. \A i, j \in DOMAIN x : i < j /\ IsResponse(x[i]) /\ IsResponse(x[j]) => x[i].ref < x[j].ref
    BY <1>4, <1>5, <2>5 DEF Answered
  <2>8. \A i \in DOMAIN x : IsResponse(x[i]) => \E p \in t.pending : p.id = x[i].ref
    BY <1>4, <1>5 DEF Answered
  <2> QED
    BY <1>5, <2>1, <2>2, <2>3, <2>4, <2>6, <2>7, <2>8 DEF Answered
<1>11. AnsweredFirst(x, Unheard(t, w))
  BY <1>2, <1>4, <1>5 DEF AnsweredFirst
<1>12. Accepted(t, x) = Accepted(s, o)
  BY <1>5, <1>6 DEF Accepted
<1>13. Latches(t, w, x)
  BY <1>1, <1>4, <1>12 DEF Latches, HeldOrReplaced
<1>14. Meanings(t, w)
  BY <1>1, <1>2, <1>3, <1>4 DEF Meanings
<1> QED
  BY <1>5, <1>7, <1>8, <1>9, <1>10, <1>11, <1>13, <1>14 DEF Session, x

\* The fewer messages, the less is said of the current input.
LEMMA NowTail ==
  ASSUME NEW s, NEW w, NEW o, o \in Seq(Answer), o # <<>>, Now(s, w, o)
  PROVE  Now(s, w, Tail(o))
<1>1. \A i \in DOMAIN Tail(o) : i + 1 \in DOMAIN o /\ Tail(o)[i] = o[i + 1]
  BY AnswersType
<1> QED
  BY <1>1 DEF Now

\* The event that settles the current input is the last it is owed.
LEMMA SettledGood ==
  ASSUME NEW s, NEW t, NEW w, NEW o, Good(s, w, o), s.link = "up", o # <<>>,
         IsSettle(Head(o)), Head(o).ref = s.cur.gen, s.cur.decor = FALSE,
         IsShell(t), Naming(t) = Naming(s), Counting(t) = Counting(s), Sending(t) = Sending(s),
         t.ready = TRUE, Typing(t) = Typing(s), Tabbing(t) = Tabbing(s),
         t.cur.gen = s.cur.gen, t.cur.cand = s.cur.cand, t.cur.pending = FALSE,
         t.cur.decor = FALSE, t.collect = s.collect,
         t.shown = s.shown \/ (t.shown.gen = s.cur.gen /\ t.shown.data = Target(s))
  PROVE  Good(t, w, Tail(o))
<1> DEFINE x == Tail(o)
           g == s.cur.gen
<1>1. /\ Session(s, w, o) /\ Now(s, w, o) /\ Recorded(s) /\ AsSent(s) /\ IsShell(s)
      /\ Answered(s, w, o) /\ Framed(s, w, Unheard(s, w)) /\ o \in Seq(Answer)
      /\ w \in Works /\ s.shown.gen <= s.inputs
  BY DEF Good, Session, Retained, Visit
<1>2. /\ Head(o) \in Answer /\ 1 \in DOMAIN o /\ Head(o) = o[1]
      /\ \A i \in DOMAIN x : i \in Nat /\ i + 1 \in DOMAIN o /\ x[i] = o[i + 1] /\ 1 < i + 1
  BY <1>1, AnswersType
<1>3. IsEvent(Head(o)) /\ ~IsResponse(Head(o)) /\ g \in Nat /\ g # 0
  BY <1>2, AnswerFields, ConstantTypes DEF IsSettle, IsEvent, IsResponse, Id
<1>4. g <= s.inputs
  BY <1>1, <1>3 DEF Now
<1>5. /\ t.txq = s.txq /\ t.pending = s.pending /\ t.link = s.link
      /\ t.query = s.query /\ t.env = s.env /\ t.word = s.word /\ t.edited = s.edited
      /\ t.tab = s.tab /\ t.tabGen = s.tabGen /\ t.reuseKey = s.reuseKey
      /\ t.candidates = s.candidates /\ t.inputs = s.inputs
  BY DEF Sending, Typing, Tabbing, Naming, Counting
<1>6. Session(t, w, x)
  BY <1>1, <1>3, <1>4, <1>5, HeadSession
<1>7. /\ Unheard(t, w) = Unheard(s, w) /\ Target(t) = Target(s)
      /\ BoundTo(t, g) = BoundTo(s, g)
  BY <1>5 DEF Unheard, Target, BoundTo
<1>8. \A e, d : Holds(s, w, e, d) => Holds(t, w, e, d)
  BY <1>7 DEF Holds
<1>9. g <= w.input.gen /\ w.input.gen \in Nat
  <2>1. w.input.gen \in Nat
    BY <1>1, ConstantTypes DEF Works, Gen
  <2> QED
    BY <1>1, <1>2, <1>3, <2>1 DEF Answered
<1>10. w.input.gen = g => ~w.input.pending
  BY <1>1, <1>2 DEF Answered
<1>11. \A i \in DOMAIN Unheard(s, w) : Unheard(s, w)[i].kind = "input" => Unheard(s, w)[i].gen # g
  <2>1. \A i \in DOMAIN Unheard(s, w) : Unheard(s, w)[i] \in Frame
    BY <1>1, UnheardType
  <2>2. \A i \in DOMAIN Unheard(s, w) : Unheard(s, w)[i].kind = "input" =>
          Unheard(s, w)[i].gen > w.input.gen /\ Unheard(s, w)[i].gen \in Nat
    BY <1>1, <2>1, FrameFields, ConstantTypes DEF Framed, Id
  <2> QED
    BY <1>3, <1>9, <2>2
<1>12. \A i \in DOMAIN x : x[i].kind = "capture-required" => x[i].ref # g
  BY <1>1, <1>2 DEF Answered
<1>13. \A i \in DOMAIN x : x[i].kind = "plan-ready" /\ x[i].ref = g => x[i].plan.data = Target(s)
  BY <1>1, <1>2, <1>3 DEF Now
<1>14. /\ t.cur.gen \in Nat /\ t.cur.gen # 0 /\ t.cur.gen = g
       /\ t.collect.gen \in {0, g} /\ t.cur.gen <= t.inputs /\ t.cur.cand <= t.candidates
       /\ t.reuseKey = <<t.query, t.env>>
       /\ t.collect.gen # 0 => t.collect.data = Target(s) /\ BoundTo(s, g) = {}
       /\ \A p, q \in BoundTo(s, g) : p = q
       /\ t.cur.cand # 0 => Holds(s, w, t.cur.cand, Target(s))
       /\ t.shown.gen = g => t.shown.data = Target(s)
       /\ w.input.gen = g => w.input.cand = t.cur.cand
  BY <1>1, <1>3, <1>4, <1>5 DEF Now
<1>15. \A i \in DOMAIN Unheard(s, w) :
         Unheard(s, w)[i].kind = "store" /\ Unheard(s, w)[i].bound = g =>
           Unheard(s, w)[i].payload = Target(s)
  BY <1>1, <1>3 DEF Now
<1> HIDE DEF x, g
<1>16. Now(t, w, x)
  BY <1>7, <1>8, <1>10, <1>11, <1>12, <1>13, <1>14, <1>15 DEF Now
<1>17. Recorded(t) /\ AsSent(t)
  BY <1>1, <1>5, <1>14 DEF Recorded, AsSent, g
<1> QED
  BY <1>6, <1>16, <1>17 DEF Good, x

\* What the invariant does not read may change.
LEMMA GoodSame ==
  ASSUME NEW s, NEW t, NEW w, NEW o, Good(s, w, o), IsShell(t),
         Typing(t) = Typing(s), Tabbing(t) = Tabbing(s), Naming(t) = Naming(s),
         Sending(t) = Sending(s), Counting(t) = Counting(s),
         t.shown = s.shown, t.collect = s.collect,
         t.cur.gen = s.cur.gen, t.cur.cand = s.cur.cand, t.cur.pending = s.cur.pending,
         t.cur.decor = s.cur.decor
  PROVE  Good(t, w, o)
<1>1. Session(s, w, o) /\ Now(s, w, o) /\ Recorded(s) /\ AsSent(s) /\ s.shown.gen <= s.inputs
      /\ (s.link # "up" => s.cur.gen = 0)
  BY DEF Good, Session, Visit, Down
<1>2. /\ t.query = s.query /\ t.env = s.env /\ t.word = s.word /\ t.edited = s.edited
      /\ t.tab = s.tab /\ t.tabGen = s.tabGen /\ t.reuseKey = s.reuseKey
      /\ t.txq = s.txq /\ t.pending = s.pending
      /\ t.candidates = s.candidates /\ t.inputs = s.inputs
  BY DEF Typing, Tabbing, Naming, Sending, Counting
<1>3. Session(t, w, o)
  BY <1>1, SessionSame
<1>4. /\ Unheard(t, w) = Unheard(s, w) /\ Target(t) = Target(s) /\ Owed(t) = Owed(s)
      /\ BoundTo(t, t.cur.gen) = BoundTo(s, s.cur.gen)
  BY <1>2 DEF Unheard, Target, Owed, BoundTo
<1>5. \A g, d : Holds(s, w, g, d) => Holds(t, w, g, d)
  BY <1>4 DEF Holds
<1>6. Now(t, w, o)
  BY <1>1, <1>2, <1>4, <1>5 DEF Now
<1> QED
  BY <1>1, <1>2, <1>3, <1>6 DEF Good, Recorded, AsSent

\* A message that changes nothing is taken away.
LEMMA PassedGood ==
  ASSUME NEW s, NEW w, NEW o, Good(s, w, o), s.link = "up", s.ready = TRUE, o # <<>>,
         ~IsResponse(Head(o))
  PROVE  Good(s, w, Tail(o))
<1>1. Session(s, w, o) /\ Now(s, w, o) /\ Recorded(s) /\ AsSent(s) /\ IsShell(s)
      /\ o \in Seq(Answer) /\ s.shown.gen <= s.inputs
  BY DEF Good, Session, Visit
<1>2. Session(s, w, Tail(o))
  BY <1>1, HeadSession
<1>3. Now(s, w, Tail(o))
  BY <1>1, NowTail
<1> QED
  BY <1>1, <1>2, <1>3 DEF Good

\* A latch that failed is dropped.
LEMMA CacheDropGood ==
  ASSUME NEW s, NEW w, NEW o, Good(s, w, o)
  PROVE  Good(CacheDrop(s), w, o)
<1> DEFINE t == CacheDrop(s)
<1>1. Session(s, w, o) /\ Now(s, w, o) /\ Recorded(s) /\ AsSent(s) /\ IsShell(s)
  BY DEF Good, Session
<1>2. Session(t, w, o)
  BY <1>1, CacheDropSession
<1>3. /\ t.reuseKey = s.reuseKey /\ t.shown = s.shown
      /\ Typing(t) = Typing(s) /\ Tabbing(t) = Tabbing(s)
      /\ Reading(t) = Reading(s) /\ Sending(t) = Sending(s) /\ Counting(t) = Counting(s)
  BY <1>1, CacheDropFields
<1> HIDE DEF t
<1>4. /\ t.cur = s.cur /\ t.collect = s.collect /\ t.query = s.query /\ t.env = s.env
      /\ t.word = s.word /\ t.edited = s.edited /\ t.tab = s.tab /\ t.tabGen = s.tabGen
      /\ t.txq = s.txq /\ t.pending = s.pending
      /\ t.candidates = s.candidates /\ t.inputs = s.inputs
  BY <1>3 DEF Typing, Tabbing, Reading, Sending, Counting
<1>5. Now(t, w, o)
  BY <1>1, <1>3, <1>4, NowSame
<1>6. Good(t, w, o)
  BY <1>1, <1>2, <1>4, <1>5 DEF Good, Recorded, AsSent
<1> QED
  BY <1>6 DEF t

\* Dropping the reuse latch keeps what holds of the current input.
LEMMA ReuseDropGood ==
  ASSUME NEW s, NEW w, NEW o, Good(s, w, o), s.link = "up", BoundTo(s, s.cur.gen) = {}
  PROVE  Good(ReuseDrop(s), w, o) /\ BoundTo(ReuseDrop(s), s.cur.gen) = {}
<1> DEFINE t == ReuseDrop(s)
<1>1. Session(s, w, o) /\ Now(s, w, o) /\ Recorded(s) /\ AsSent(s) /\ IsShell(s) /\ Asked(s)
  BY DEF Good, Session
<1>2. Session(t, w, o)
  BY <1>1, ReuseDropSession
<1>3. /\ t.reuseKey = s.reuseKey /\ t.shown = s.shown /\ t.txq = s.txq /\ t.pending = Staled(s.pending)
      /\ Typing(t) = Typing(s) /\ Tabbing(t) = Tabbing(s)
      /\ Reading(t) = Reading(s) /\ Counting(t) = Counting(s)
  BY <1>1, ReuseDropFields
<1> HIDE DEF t
<1>4. /\ t.cur = s.cur /\ t.collect = s.collect /\ t.query = s.query /\ t.env = s.env
      /\ t.word = s.word /\ t.edited = s.edited /\ t.tab = s.tab /\ t.tabGen = s.tabGen
      /\ t.candidates = s.candidates /\ t.inputs = s.inputs
  BY <1>3 DEF Typing, Tabbing, Reading, Counting
<1>5. BoundTo(t, s.cur.gen) = {}
  <2>1. \A q \in t.pending : \E p \in s.pending : Alike(q, p)
    <3>1. \A p \in s.pending : p \in Entry
      BY <1>1 DEF Asked
    <3>2. /\ \A q \in Staled(s.pending) :
               /\ q \in Entry /\ q.fresh = FALSE
               /\ \E p \in s.pending : q = [p EXCEPT !.fresh = FALSE] /\ Alike(q, p)
          /\ \A p \in s.pending : \E q \in Staled(s.pending) : Alike(q, p)
      BY <3>1, StaledFields, Zenon
    <3> QED
      BY <1>3, <3>2, Zenon
  <2> QED
    BY <2>1 DEF BoundTo, Alike
<1>6. Unheard(t, w) = Unheard(s, w) /\ Target(t) = Target(s) /\ Owed(t) = Owed(s)
  BY <1>3, <1>4 DEF Unheard, Target, Owed
<1>7. \A g, d : Holds(s, w, g, d) => Holds(t, w, g, d)
  BY <1>6 DEF Holds
<1>8. Now(t, w, o)
  BY <1>1, <1>3, <1>4, <1>5, <1>6, <1>7 DEF Now
<1>9. Good(t, w, o)
  BY <1>1, <1>2, <1>4, <1>8 DEF Good, Recorded, AsSent
<1> QED
  BY <1>5, <1>9 DEF t

\* A capture starts for the current input.
LEMMA StartGood ==
  ASSUME NEW s, NEW w, NEW o, NEW starts \in BOOLEAN, Good(s, w, o), s.link = "up",
         s.cur.gen # 0, s.cur.pending = FALSE, BoundTo(s, s.cur.gen) = {}
  PROVE  Good(StartCollection(s, starts), w, o)
<1>1. CASE ~starts
  BY <1>1, CancelGood DEF StartCollection
<1>2. CASE starts
  <2> DEFINE c == [gen |-> s.cur.gen, data |-> [word |-> s.query, env |-> s.env]]
             t == [s EXCEPT !.collect = c]
  <2>1. Session(s, w, o) /\ Now(s, w, o) /\ Recorded(s) /\ AsSent(s) /\ IsShell(s)
        /\ s.shown.gen <= s.inputs
    BY DEF Good, Session, Visit
  <2>2. c.gen = s.cur.gen /\ c.data = Target(s) /\ c \in Listing
    <3>1. s.cur.gen \in 1..MaxId /\ s.query \in Words /\ s.env \in Envs
      BY <2>1, ShellFields, ConstantTypes DEF Gen
    <3>2. [word |-> s.query, env |-> s.env] \in Capture
      BY <3>1, ConstantTypes
    <3> QED
      BY <3>1, <3>2 DEF Listing, Target
  <2> HIDE DEF c
  <2>3. /\ IsShell(t) /\ t.cur = s.cur /\ t.collect = c /\ t.shown = s.shown
        /\ Typing(t) = Typing(s) /\ Tabbing(t) = Tabbing(s) /\ Naming(t) = Naming(s)
        /\ Sending(t) = Sending(s) /\ Counting(t) = Counting(s)
    BY <2>1, <2>2 DEF IsShell, Shells, Typing, Tabbing, Naming, Sending, Counting
  <2>4. StartCollection(s, starts) = t
    BY <1>2 DEF StartCollection, c
  <2> HIDE DEF t
  <2>5. Session(t, w, o)
    BY <2>1, <2>3, SessionSame
  <2>6. /\ t.query = s.query /\ t.env = s.env /\ t.word = s.word /\ t.edited = s.edited
        /\ t.tab = s.tab /\ t.tabGen = s.tabGen /\ t.reuseKey = s.reuseKey
        /\ t.txq = s.txq /\ t.pending = s.pending
        /\ t.candidates = s.candidates /\ t.inputs = s.inputs
    BY <2>3 DEF Typing, Tabbing, Naming, Sending, Counting
  <2>7. /\ Unheard(t, w) = Unheard(s, w) /\ Target(t) = Target(s) /\ Owed(t) = Owed(s)
        /\ BoundTo(t, t.cur.gen) = BoundTo(s, s.cur.gen)
    BY <2>3, <2>6 DEF Unheard, Target, Owed, BoundTo
  <2>8. \A g, d : Holds(s, w, g, d) => Holds(t, w, g, d)
    BY <2>7 DEF Holds
  <2>9. Now(t, w, o)
    BY <2>1, <2>2, <2>3, <2>6, <2>7, <2>8 DEF Now
  <2>10. Good(t, w, o)
    BY <2>1, <2>3, <2>5, <2>6, <2>9 DEF Good, Recorded, AsSent
  <2> QED
    BY <2>4, <2>10
<1> QED
  BY <1>1, <1>2

\* An event: of an earlier input, a decoration, a capture to start, or a plan
\* to list -- on which a Tab recorded for it acts.
LEMMA HandleEventGood ==
  ASSUME NEW s, NEW w, NEW o, NEW starts \in BOOLEAN, NEW act \in TabActs, NEW v \in Words,
         Good(s, w, o), s.link = "up", s.ready = TRUE, o # <<>>, IsEvent(Head(o))
  PROVE  Good(HandleEvent(s, Head(o), starts, act, v), w, Tail(o))
<1> DEFINE m == Head(o)
           t == [s EXCEPT !.failures = 0]
           u == [t EXCEPT !.cur.pending = FALSE]
           y == IF ~u.cur.latched THEN u
                ELSE IF u.query = Empty THEN CacheDrop(u) ELSE ReuseDrop(u)
           l == [u EXCEPT !.shown = [gen |-> s.cur.gen, data |-> m.plan.data]]
<1>1. m \in Answer /\ m = o[1] /\ 1 \in DOMAIN o
  BY AnswersType DEF Good, Session
<1>2. m.kind \in {"plan-ready", "capture-required", "syntax-highlight"}
  BY DEF IsEvent
<1> HIDE DEF m
<1>3. m.ref \in Id /\ m.ref # 0 /\ (m.kind = "plan-ready" => m.plan \in Stored)
  BY <1>1, <1>2, AnswerFields, ConstantTypes DEF Id
<1>4. IsShell(s)
  BY DEF Good, Session
<1>5. /\ IsShell(t) /\ t.cur = s.cur /\ t.collect = s.collect /\ t.shown = s.shown
      /\ Typing(t) = Typing(s) /\ Tabbing(t) = Tabbing(s) /\ Naming(t) = Naming(s)
      /\ Sending(t) = Sending(s) /\ Counting(t) = Counting(s)
  BY <1>4 DEF IsShell, Shells, Typing, Tabbing, Naming, Sending, Counting
<1> HIDE DEF t
<1>6. Good(t, w, o) /\ t.link = "up" /\ t.ready = TRUE
  BY <1>5, GoodSame DEF Sending
<1>7. Good(t, w, Tail(o))
  BY <1>2, <1>6, PassedGood DEF IsResponse, m
<1>8. HandleEvent(s, m, starts, act, v) =
        IF ~Current(t, m) THEN t
        ELSE IF m.kind = "syntax-highlight" THEN [t EXCEPT !.cur.drawn = TRUE]
        ELSE IF t.cur.decor THEN t
        ELSE IF m.kind = "capture-required"
        THEN StartCollection([y EXCEPT !.cur.latched = FALSE], starts)
        ELSE SettlePlan(l, act, v)
  BY DEF HandleEvent, t
<1>9. CASE ~Current(t, m)
  <2>1. HandleEvent(s, m, starts, act, v) = t
    BY <1>8, <1>9
  <2> QED
    BY <1>7, <2>1 DEF m
<1>10. CASE Current(t, m) /\ m.kind = "syntax-highlight"
  <2> DEFINE d == [t EXCEPT !.cur.drawn = TRUE]
  <2>1. HandleEvent(s, m, starts, act, v) = d
    BY <1>8, <1>10
  <2>2. /\ IsShell(d) /\ d.cur.gen = t.cur.gen /\ d.cur.cand = t.cur.cand
        /\ d.cur.pending = t.cur.pending /\ d.cur.decor = t.cur.decor
        /\ d.collect = t.collect /\ d.shown = t.shown
        /\ Typing(d) = Typing(t) /\ Tabbing(d) = Tabbing(t) /\ Naming(d) = Naming(t)
        /\ Sending(d) = Sending(t) /\ Counting(d) = Counting(t)
    BY <1>5 DEF IsShell, Shells, Typing, Tabbing, Naming, Sending, Counting
  <2> HIDE DEF d
  <2>3. Good(d, w, Tail(o))
    BY <1>7, <2>2, GoodSame
  <2> QED
    BY <2>1, <2>3 DEF m
<1>11. CASE Current(t, m) /\ m.kind # "syntax-highlight" /\ t.cur.decor
  <2>1. HandleEvent(s, m, starts, act, v) = t
    BY <1>8, <1>11
  <2> QED
    BY <1>7, <2>1 DEF m
<1>12. ASSUME Current(t, m), m.kind # "syntax-highlight", ~t.cur.decor
       PROVE  /\ Good(u, w, Tail(o)) /\ IsShell(u) /\ u.link = "up"
              /\ u.cur.gen = t.cur.gen /\ u.cur.gen # 0 /\ u.cur.pending = FALSE
              /\ Session(t, w, o) /\ Now(t, w, o) /\ t.cur.decor = FALSE
              /\ u.cur.cand = t.cur.cand /\ u.cur.decor = FALSE
              /\ u.collect = t.collect /\ u.shown = t.shown
              /\ Typing(u) = Typing(t) /\ Tabbing(u) = Tabbing(t) /\ Naming(u) = Naming(t)
              /\ Sending(u) = Sending(t) /\ Counting(u) = Counting(t)
  <2>0. t.cur.decor = FALSE
    BY <1>5, <1>12, ShellFields
  <2>1. /\ IsShell(u) /\ u.cur.gen = t.cur.gen /\ u.cur.cand = t.cur.cand
        /\ u.cur.pending = FALSE /\ u.cur.decor = t.cur.decor
        /\ u.collect = t.collect /\ u.shown = t.shown
        /\ Typing(u) = Typing(t) /\ Tabbing(u) = Tabbing(t) /\ Naming(u) = Naming(t)
        /\ Sending(u) = Sending(t) /\ Counting(u) = Counting(t)
    BY <1>5 DEF IsShell, Shells, Typing, Tabbing, Naming, Sending, Counting
  <2> HIDE DEF u
  <2>2. IsSettle(Head(o)) /\ Head(o).ref = t.cur.gen /\ t.cur.gen # 0
    BY <1>2, <1>3, <1>12 DEF IsSettle, Current, m
  <2>3. u.link = "up" /\ u.ready = TRUE
    BY <1>6, <2>1 DEF Sending
  <2>4. u.cur.decor = FALSE
    BY <2>0, <2>1
  <2>5. Good(u, w, Tail(o))
    BY <1>6, <2>0, <2>1, <2>2, <2>3, <2>4, SettledGood
  <2> QED
    BY <1>6, <2>0, <2>1, <2>2, <2>3, <2>4, <2>5 DEF Good
<1>13. CASE Current(t, m) /\ m.kind = "capture-required" /\ ~t.cur.decor
  <2>0. /\ Good(u, w, Tail(o)) /\ IsShell(u) /\ u.link = "up"
        /\ u.cur.gen = t.cur.gen /\ u.cur.gen # 0 /\ u.cur.pending = FALSE
        /\ Now(t, w, o) /\ t.cur.decor = FALSE /\ Sending(u) = Sending(t)
    BY <1>12, <1>13
  <2>1. BoundTo(t, t.cur.gen) = {}
    <3>1. o[1].kind = "capture-required" /\ o[1].ref = t.cur.gen
      BY <1>1, <1>13 DEF Current
    <3>2. Owed(t)
      BY <1>1, <2>0, <3>1 DEF Now
    <3>3. t.cur.pending
      BY <2>0, <3>2 DEF Owed
    <3> QED
      BY <2>0, <3>3 DEF Now
  <2> HIDE DEF u
  <2>2. BoundTo(u, u.cur.gen) = {}
    BY <2>0, <2>1 DEF BoundTo, Sending
  <2>3. /\ Good(y, w, Tail(o)) /\ IsShell(y) /\ y.link = "up" /\ y.cur = u.cur
        /\ BoundTo(y, y.cur.gen) = {}
    <3>1. CASE ~u.cur.latched
      BY <2>0, <2>2, <3>1
    <3>2. CASE u.cur.latched /\ u.query = Empty
      <4>1. y = CacheDrop(u)
        BY <3>2
      <4> HIDE DEF y
      <4>2. Good(y, w, Tail(o))
        BY <2>0, <4>1, CacheDropGood
      <4>3. IsShell(y) /\ Reading(y) = Reading(u) /\ Sending(y) = Sending(u)
        BY <2>0, <4>1, CacheDropFields
      <4>4. y.cur = u.cur /\ y.link = u.link /\ y.pending = u.pending
        BY <4>3 DEF Reading, Sending
      <4> QED
        BY <2>0, <2>2, <4>2, <4>3, <4>4 DEF BoundTo
    <3>3. CASE u.cur.latched /\ u.query # Empty
      <4>1. y = ReuseDrop(u)
        BY <3>3
      <4> HIDE DEF y
      <4>2. Good(y, w, Tail(o)) /\ BoundTo(y, u.cur.gen) = {}
        BY <2>0, <2>2, <4>1, ReuseDropGood
      <4>3. IsShell(y) /\ Reading(y) = Reading(u) /\ y.link = u.link
        BY <2>0, <4>1, ReuseDropFields
      <4> QED
        BY <2>0, <4>2, <4>3 DEF Reading
    <3> QED
      BY <3>1, <3>2, <3>3
  <2> DEFINE z == [y EXCEPT !.cur.latched = FALSE]
  <2>4. HandleEvent(s, m, starts, act, v) = StartCollection(z, starts)
    BY <1>8, <1>13
  <2> HIDE DEF y
  <2>5. /\ IsShell(z) /\ z.cur.gen = y.cur.gen /\ z.cur.cand = y.cur.cand
        /\ z.cur.pending = y.cur.pending /\ z.cur.decor = y.cur.decor
        /\ z.collect = y.collect /\ z.shown = y.shown
        /\ Typing(z) = Typing(y) /\ Tabbing(z) = Tabbing(y) /\ Naming(z) = Naming(y)
        /\ Sending(z) = Sending(y) /\ Counting(z) = Counting(y)
    BY <2>3 DEF IsShell, Shells, Typing, Tabbing, Naming, Sending, Counting
  <2> HIDE DEF z
  <2>6. Good(z, w, Tail(o))
    BY <2>3, <2>5, GoodSame
  <2>7. z.link = "up" /\ z.cur.gen # 0 /\ z.cur.pending = FALSE /\ BoundTo(z, z.cur.gen) = {}
    BY <2>0, <2>3, <2>5 DEF Sending, BoundTo
  <2> QED
    BY <2>4, <2>6, <2>7, StartGood DEF m
<1>14. CASE Current(t, m) /\ m.kind = "plan-ready" /\ ~t.cur.decor
  <2>0. /\ IsShell(u) /\ u.link = "up"
        /\ u.cur.gen = t.cur.gen /\ u.cur.gen # 0 /\ u.cur.pending = FALSE
        /\ Session(t, w, o) /\ Now(t, w, o) /\ t.cur.decor = FALSE
        /\ u.cur.cand = t.cur.cand /\ u.cur.decor = FALSE
        /\ u.collect = t.collect /\ u.shown = t.shown
        /\ Typing(u) = Typing(t) /\ Tabbing(u) = Tabbing(t) /\ Naming(u) = Naming(t)
        /\ Sending(u) = Sending(t) /\ Counting(u) = Counting(t)
    BY <1>12, <1>14
  <2>1. m.plan.data = Target(t) /\ m.plan.data \in Capture /\ t.cur.gen = m.ref
    <3>1. o[1].kind = "plan-ready" /\ o[1].ref = t.cur.gen /\ t.cur.gen # 0
      BY <1>1, <1>14, <2>0 DEF Current
    <3>2. m.plan.data \in Capture
      BY <1>3, <1>14 DEF Stored
    <3> QED
      BY <1>1, <2>0, <3>1, <3>2 DEF Now
  <2> HIDE DEF u
  <2> DEFINE k == [gen |-> s.cur.gen, data |-> m.plan.data]
  <2>2. k.gen = t.cur.gen /\ k.data = Target(t) /\ k \in Listing
    BY <1>3, <1>5, <2>1 DEF Listing, Id
  <2> HIDE DEF k
  <2>3. /\ IsShell(l) /\ l.cur = u.cur /\ l.collect = u.collect /\ l.shown = k
        /\ Typing(l) = Typing(u) /\ Tabbing(l) = Tabbing(u) /\ Naming(l) = Naming(u)
        /\ Sending(l) = Sending(u) /\ Counting(l) = Counting(u)
    BY <2>0, <2>2 DEF IsShell, Shells, Typing, Tabbing, Naming, Sending, Counting, k
  <2>4. HandleEvent(s, m, starts, act, v) = SettlePlan(l, act, v)
    BY <1>8, <1>14
  <2> HIDE DEF l
  <2>5. IsSettle(Head(o)) /\ Head(o).ref = t.cur.gen
    BY <1>14 DEF IsSettle, Current, m
  <2>6. l.ready = TRUE
    BY <1>6, <2>0, <2>3 DEF Sending
  <2>7. /\ Naming(l) = Naming(t) /\ Counting(l) = Counting(t) /\ Sending(l) = Sending(t)
        /\ Typing(l) = Typing(t) /\ Tabbing(l) = Tabbing(t)
        /\ l.cur.gen = t.cur.gen /\ l.cur.cand = t.cur.cand /\ l.cur.pending = FALSE
        /\ l.cur.decor = FALSE /\ l.collect = t.collect
        /\ l.shown.gen = t.cur.gen /\ l.shown.data = Target(t)
    BY <2>0, <2>2, <2>3
  <2>8. Good(l, w, Tail(o))
    BY <1>6, <2>0, <2>3, <2>5, <2>6, <2>7, SettledGood
  <2>9. CASE ~l.tab
    <3>1. HandleEvent(s, m, starts, act, v) = l
      BY <2>4, <2>9 DEF SettlePlan
    <3> QED
      BY <2>8, <3>1 DEF m
  <2>10. CASE l.tab
    <3> DEFINE x == [l EXCEPT !.tab = FALSE, !.tabGen = 0]
    <3>1. HandleEvent(s, m, starts, act, v) = TabWithResults(x, act, v)
      BY <2>4, <2>10 DEF SettlePlan
    <3>2. /\ x.cur = l.cur /\ x.collect = l.collect /\ x.shown = l.shown /\ x.tab = FALSE
          /\ x.pending = l.pending
          /\ Typing(x) = Typing(l) /\ Naming(x) = Naming(l)
          /\ Sending(x) = Sending(l) /\ Counting(x) = Counting(l)
      BY <2>3 DEF IsShell, Shells, Typing, Naming, Sending, Counting
    <3>3. IsShell(x)
      <4>1. l \in Shells(l.pending) /\ FALSE \in BOOLEAN /\ 0 \in Gen
        BY <2>3, ConstantTypes DEF IsShell, Gen
      <4>2. x \in Shells(l.pending)
        BY <4>1, Zenon DEF Shells
      <4> QED
        BY <3>2, <4>2 DEF IsShell
    <3> HIDE DEF x
    <3>4. Session(l, w, Tail(o)) /\ Now(l, w, Tail(o)) /\ AsSent(l) /\ l.shown.gen <= l.inputs
          /\ (l.link # "up" => l.cur.gen = 0)
      BY <2>8 DEF Good, Session, Visit, Down
    <3>5. Session(x, w, Tail(o))
      BY <3>2, <3>3, <3>4, SessionSame
    <3>6. /\ x.query = l.query /\ x.env = l.env /\ x.word = l.word /\ x.edited = l.edited
          /\ x.reuseKey = l.reuseKey /\ x.txq = l.txq
          /\ x.candidates = l.candidates /\ x.inputs = l.inputs
      BY <3>2 DEF Typing, Naming, Sending, Counting
    <3>7. Now(x, w, Tail(o))
      BY <3>2, <3>4, <3>6, NowSame
    <3>8. Good(x, w, Tail(o))
      BY <3>2, <3>4, <3>5, <3>6, <3>7 DEF Good, Recorded, AsSent
    <3> QED
      BY <3>1, <3>8, TabGood DEF m
  <2> QED
    BY <2>9, <2>10
<1> QED
  BY <1>2, <1>9, <1>10, <1>11, <1>13, <1>14

\* A response ends its request, and the `ok` of a store sets the latches it
\* was staged with.
Ended(t, s, m, p) ==
  /\ IsShell(t) /\ Counting(t) = Counting(s) /\ t.shown.gen <= s.inputs
  /\ t.link = s.link /\ t.ready = s.ready /\ t.txq = s.txq
  /\ t.reuseKey = s.reuseKey /\ t.dropped = s.dropped
  /\ t.pending = s.pending \ {p}
  /\ IF m.kind = "ok" /\ p.kind = "store"
     THEN /\ t.cache = (IF p.slot = "cache" THEN [gen |-> p.gen, env |-> p.env] ELSE s.cache)
          /\ t.reuse = (IF p.fresh THEN p.gen ELSE s.reuse)
     ELSE t.cache = s.cache /\ t.reuse = s.reuse

\* A request that was answered leaves the pending set.
LEMMA EndedSession ==
  ASSUME NEW s, NEW t, NEW w, NEW o, NEW p \in s.pending, Session(s, w, o), s.link = "up",
         s.ready = TRUE, o # <<>>, IsResponse(Head(o)), p.id = Head(o).ref, Ended(t, s, Head(o), p)
  PROVE  Session(t, w, Tail(o))
<1> DEFINE x == Tail(o)
           m == Head(o)
           sets == m.kind = "ok" /\ p.kind = "store"
<1>1. /\ t.requests = s.requests /\ t.candidates = s.candidates /\ t.inputs = s.inputs
      /\ t.shown.gen <= s.inputs /\ IsShell(t)
      /\ t.link = s.link /\ t.ready = s.ready /\ t.txq = s.txq
      /\ t.reuseKey = s.reuseKey /\ t.dropped = s.dropped /\ t.pending = s.pending \ {p}
  BY DEF Ended, Counting
<1>2. /\ sets => /\ t.cache = (IF p.slot = "cache" THEN [gen |-> p.gen, env |-> p.env] ELSE s.cache)
                 /\ t.reuse = (IF p.fresh THEN p.gen ELSE s.reuse)
      /\ ~sets => t.cache = s.cache /\ t.reuse = s.reuse
  BY DEF Ended
<1>3. Unheard(t, w) = Unheard(s, w) /\ KeyOf(t) = KeyOf(s)
  BY <1>1 DEF Unheard, KeyOf
<1>4. \A g, d : Holds(s, w, g, d) => Holds(t, w, g, d)
  BY <1>3 DEF Holds
<1>5. /\ Asked(s) /\ Framed(s, w, Unheard(s, w)) /\ Answered(s, w, o)
      /\ AnsweredFirst(o, Unheard(s, w)) /\ Latches(s, w, o) /\ Meanings(s, w)
      /\ o \in Seq(Answer) /\ Visit(s) /\ Retained(s, w) /\ IsShell(s)
  BY DEF Session
<1>6. /\ x \in Seq(Answer) /\ m = o[1] /\ 1 \in DOMAIN o /\ m \in Answer
      /\ \A i \in DOMAIN o : o[i] \in Answer
      /\ \A i \in DOMAIN x : i \in Nat /\ i + 1 \in DOMAIN o /\ x[i] = o[i + 1]
                             /\ 1 < i + 1 /\ i + 1 # 1
  BY <1>5, AnswersType
<1>7. \A i \in DOMAIN o : i # 1 => 1 < i /\ i - 1 \in DOMAIN x /\ x[i - 1] = o[i]
  <2>1. IsSeq(o)
    BY <1>5, SeqIsSeq
  <2> QED
    BY <2>1, TailDomain
<1>8. /\ p \in Entry /\ p.id \in Nat /\ p.gen \in Nat
      /\ \A q \in s.pending : q \in Entry /\ q.id \in Nat /\ q.gen \in Nat
      /\ s.reuse \in Nat /\ s.dropped \in Nat /\ s.cache.gen \in Nat
  <2>1. \A q \in s.pending : q \in Entry
    BY <1>5 DEF Asked
  <2>2. s.reuse \in Gen /\ s.dropped \in Gen /\ s.cache.gen \in Gen
    BY <1>5, ShellFields
  <2> QED
    BY <2>1, <2>2, EntryFields, ConstantTypes DEF Id, Gen
<1>9. p.id = m.ref /\ IsResponse(m)
  OBVIOUS
<1> HIDE DEF x, m, sets
<1>10. \A q \in s.pending : q.id = m.ref => q = p
  BY <1>5, <1>9 DEF Asked
<1>11. Visit(t)
  <2>1. p.fresh => p.kind = "store" /\ p.slot = "live" /\ p.gen > s.dropped /\ s.reuseKey[1] # Empty
    BY <1>5 DEF Asked
  <2>2. p.gen <= s.candidates
    BY <1>5 DEF Asked
  <2>3. t.reuse <= t.candidates /\ (t.reuse # 0 => t.reuse > t.dropped /\ t.reuseKey[1] # Empty)
    BY <1>1, <1>2, <1>5, <2>1, <2>2 DEF Visit
  <2>4. t.cache.gen <= t.candidates
    BY <1>1, <1>2, <1>5, <2>2 DEF Visit
  <2> QED
    BY <1>1, <1>5, <2>3, <2>4 DEF Visit
<1>12. Retained(t, w)
  BY <1>1, <1>5 DEF Retained
<1>13. Asked(t)
  BY <1>1, <1>5 DEF Asked
<1>14. \A i \in DOMAIN Unheard(s, w) : IsRequest(Unheard(s, w)[i]) => Unheard(s, w)[i].id # p.id
  <2>1. \A i \in DOMAIN Unheard(s, w) : IsRequest(Unheard(s, w)[i]) => m.ref < Unheard(s, w)[i].id
    BY <1>5, <1>6, <1>9 DEF AnsweredFirst
  <2> QED
    BY <1>8, <1>9, <2>1
<1>15. Framed(t, w, Unheard(t, w))
  <2>1. \A i \in DOMAIN Unheard(s, w) : IsRequest(Unheard(s, w)[i]) =>
          \E q \in t.pending :
            /\ q.id = Unheard(s, w)[i].id /\ q.kind = Unheard(s, w)[i].kind
            /\ q.kind = "store" => /\ q.slot = Unheard(s, w)[i].slot /\ q.gen = Unheard(s, w)[i].gen
                                   /\ q.bound = Unheard(s, w)[i].bound
    <3> SUFFICES ASSUME NEW i \in DOMAIN Unheard(s, w), IsRequest(Unheard(s, w)[i])
                 PROVE  \E q \in t.pending :
            /\ q.id = Unheard(s, w)[i].id /\ q.kind = Unheard(s, w)[i].kind
            /\ q.kind = "store" => /\ q.slot = Unheard(s, w)[i].slot /\ q.gen = Unheard(s, w)[i].gen
                                   /\ q.bound = Unheard(s, w)[i].bound
      OBVIOUS
    <3>1. PICK q \in s.pending :
            /\ q.id = Unheard(s, w)[i].id /\ q.kind = Unheard(s, w)[i].kind
            /\ q.kind = "store" => /\ q.slot = Unheard(s, w)[i].slot /\ q.gen = Unheard(s, w)[i].gen
                                   /\ q.bound = Unheard(s, w)[i].bound
      BY <1>5 DEF Framed
    <3>2. q \in t.pending
      BY <1>1, <1>14, <3>1
    <3> QED
      BY <3>1, <3>2
  <2> QED
    BY <1>1, <1>3, <1>5, <2>1 DEF Framed
<1>16. \A i \in DOMAIN o : i # 1 /\ IsResponse(o[i]) => m.ref < o[i].ref /\ o[i].ref # p.id
  <2>1. \A i \in DOMAIN o : i # 1 /\ IsResponse(o[i]) => m.ref < o[i].ref
    BY <1>5, <1>6, <1>7, <1>9 DEF Answered
  <2>2. \A i \in DOMAIN o : IsResponse(o[i]) => o[i].ref \in Nat
    BY <1>6, AnswerFields, ConstantTypes DEF IsResponse, Id
  <2> QED
    BY <1>8, <1>9, <2>1, <2>2
<1>17. Answered(t, w, x)
  <2>1. w.phase # "awaiting" /\ t.ready = TRUE
    BY <1>1, <1>5 DEF Answered
  <2>2. \A i \in DOMAIN x : x[i].kind # "ready"
    BY <1>5, <1>6 DEF Answered
  <2>3. \A i \in DOMAIN x : IsEvent(x[i]) => x[i].ref <= w.input.gen
    BY <1>5, <1>6 DEF Answered
  <2>4. w.input.pending => \A i \in DOMAIN x : IsSettle(x[i]) => x[i].ref # w.input.gen
    BY <1>5, <1>6 DEF Answered
  <2>5. \A i, j \in DOMAIN x : i < j => i + 1 < j + 1
    BY <1>6
  <2>6. \A i, j \in DOMAIN x : i < j /\ IsSettle(x[i]) /\ x[j].kind = "capture-required" =>
          x[i].ref # x[j].ref
    BY <1>5, <1>6, <2>5 DEF Answered
  <2>7. \A i, j \in DOMAIN x : i < j /\ IsResponse(x[i]) /\ IsResponse(x[j]) => x[i].ref < x[j].ref
    BY <1>5, <1>6, <2>5 DEF Answered
  <2>8. \A i \in DOMAIN x : IsResponse(x[i]) => \E q \in t.pending : q.id = x[i].ref
    <3>1. \A i \in DOMAIN x : IsResponse(x[i]) => x[i].ref # p.id
      BY <1>6, <1>16
    <3>2. \A i \in DOMAIN x : IsResponse(x[i]) => \E q \in s.pending : q.id = x[i].ref
      BY <1>5, <1>6 DEF Answered
    <3> QED
      BY <1>1, <3>1, <3>2
  <2> QED
    BY <1>6, <2>1, <2>2, <2>3, <2>4, <2>6, <2>7, <2>8 DEF Answered
<1>18. AnsweredFirst(x, Unheard(t, w))
  BY <1>3, <1>5, <1>6 DEF AnsweredFirst
<1>19. \A q \in Accepted(s, o) : q # p => q \in Accepted(t, x)
  <2> SUFFICES ASSUME NEW q \in Accepted(s, o), q # p
               PROVE  q \in Accepted(t, x)
    OBVIOUS
  <2>1. PICK i \in DOMAIN o : o[i].kind = "ok" /\ o[i].ref = q.id
    BY DEF Accepted
  <2>2. i # 1
    BY <1>6, <1>10, <2>1 DEF Accepted
  <2>3. i - 1 \in DOMAIN x /\ x[i - 1] = o[i]
    BY <1>7, <2>2
  <2> QED
    BY <1>1, <2>1, <2>3 DEF Accepted
<1>20. \A q \in Accepted(t, x) : q \in Accepted(s, o) /\ q # p /\ q.id > p.id /\ q.kind = "store"
  <2> SUFFICES ASSUME NEW q \in Accepted(t, x)
               PROVE  q \in Accepted(s, o) /\ q # p /\ q.id > p.id /\ q.kind = "store"
    OBVIOUS
  <2>1. q \in s.pending /\ q # p /\ q.kind = "store"
    BY <1>1 DEF Accepted
  <2>2. PICK i \in DOMAIN x : x[i].kind = "ok" /\ x[i].ref = q.id
    BY DEF Accepted
  <2>3. i + 1 \in DOMAIN o /\ i + 1 # 1 /\ o[i + 1].kind = "ok" /\ o[i + 1].ref = q.id
    BY <1>6, <2>2
  <2>4. q.id > p.id
    BY <1>8, <1>9, <1>16, <2>1, <2>3 DEF IsResponse
  <2> QED
    BY <2>1, <2>3, <2>4 DEF Accepted
<1>21. p \in Accepted(s, o) <=> sets
  <2>1. sets => p \in Accepted(s, o)
    BY <1>6, <1>9 DEF Accepted, sets
  <2>2. ASSUME p \in Accepted(s, o)
        PROVE  sets
    <3>1. PICK i \in DOMAIN o : o[i].kind = "ok" /\ o[i].ref = p.id
      BY <2>2 DEF Accepted
    <3>2. i = 1
      BY <1>16, <3>1 DEF IsResponse
    <3> QED
      BY <1>6, <2>2, <3>1, <3>2 DEF Accepted, sets
  <2> QED
    BY <2>1, <2>2
<1>22. ASSUME NEW y, NEW g \in Nat, HeldOrReplaced(s, w, o, y, g), ~(sets /\ p.slot = y /\ p.gen > g)
       PROVE  HeldOrReplaced(t, w, x, y, g)
  <2>1. CASE w.slots[y].gen = g
    BY <2>1 DEF HeldOrReplaced
  <2>2. CASE w.slots[y].gen # g
    <3>1. PICK q \in Accepted(s, o) : q.slot = y /\ q.gen > g
      BY <1>22, <2>2 DEF HeldOrReplaced
    <3>2. q # p
      BY <1>21, <1>22, <3>1
    <3>3. q \in Accepted(t, x)
      BY <1>19, <3>2
    <3> QED
      BY <3>1, <3>3 DEF HeldOrReplaced
  <2> QED
    BY <2>1, <2>2
<1>23. \A y : ~(sets /\ p.slot = y /\ p.gen > p.gen)
  BY <1>8
<1>24. sets => HeldOrReplaced(t, w, x, p.slot, p.gen)
  BY <1>5, <1>8, <1>21, <1>22, <1>23 DEF Latches
<1>25. Latches(t, w, x)
  <2>1. ASSUME NEW q \in Accepted(t, x)
        PROVE  HeldOrReplaced(t, w, x, q.slot, q.gen)
    <3>1. q \in Accepted(s, o) /\ q \in s.pending /\ q.id > p.id /\ q.kind = "store"
      BY <1>20 DEF Accepted
    <3>2. HeldOrReplaced(s, w, o, q.slot, q.gen)
      BY <1>5, <3>1 DEF Latches
    <3>3. ~(sets /\ p.gen > q.gen)
      BY <1>5, <1>8, <3>1 DEF Asked, sets
    <3> QED
      BY <1>8, <1>22, <3>1, <3>2, <3>3
  <2>2. t.reuse # 0 => HeldOrReplaced(t, w, x, "live", t.reuse)
    <3>1. CASE sets /\ p.fresh
      <4>1. t.reuse = p.gen /\ p.slot = "live"
        BY <1>2, <1>5, <3>1 DEF Asked
      <4> QED
        BY <1>24, <3>1, <4>1
    <3>2. CASE ~(sets /\ p.fresh)
      <4>1. t.reuse = s.reuse
        BY <1>2, <3>2
      <4> SUFFICES ASSUME s.reuse # 0
                   PROVE  HeldOrReplaced(t, w, x, "live", s.reuse)
        BY <4>1
      <4>2. HeldOrReplaced(s, w, o, "live", s.reuse)
        BY <1>5 DEF Latches
      <4>3. ~(sets /\ p.slot = "live" /\ p.gen > s.reuse)
        <5> SUFFICES ASSUME sets, p.slot = "live", p.gen > s.reuse
                     PROVE  FALSE
          OBVIOUS
        <5>1. p.gen <= s.dropped \/ s.reuseKey[1] = Empty
          BY <1>5, <3>2 DEF Asked, sets
        <5>2. s.reuse > s.dropped /\ s.reuseKey[1] # Empty
          BY <1>5 DEF Visit
        <5> QED
          BY <1>8, <5>1, <5>2
      <4> QED
        BY <1>8, <1>22, <4>2, <4>3
    <3> QED
      BY <3>1, <3>2
  <2>3. t.cache.gen # 0 => HeldOrReplaced(t, w, x, "cache", t.cache.gen)
    <3>1. CASE sets /\ p.slot = "cache"
      <4>1. t.cache.gen = p.gen
        BY <1>2, <3>1
      <4> QED
        BY <1>24, <3>1, <4>1
    <3>2. CASE ~(sets /\ p.slot = "cache")
      <4>1. t.cache = s.cache
        BY <1>2, <3>2
      <4>2. s.cache.gen # 0 => HeldOrReplaced(s, w, o, "cache", s.cache.gen)
        BY <1>5 DEF Latches
      <4> QED
        BY <1>8, <1>22, <3>2, <4>1, <4>2
    <3> QED
      BY <3>1, <3>2
  <2> QED
    BY <2>1, <2>2, <2>3 DEF Latches
<1>26. Meanings(t, w)
  <2>1. t.reuse # 0 => Holds(t, w, t.reuse, KeyOf(t))
    BY <1>2, <1>3, <1>4, <1>5 DEF Meanings
  <2>2. t.cache.gen # 0 => Holds(t, w, t.cache.gen, Blank(t.cache.env))
    <3>1. CASE sets /\ p.slot = "cache"
      <4>1. t.cache.gen = p.gen /\ t.cache.env = p.env
        BY <1>2, <3>1
      <4>2. Holds(s, w, p.gen, Blank(p.env))
        BY <1>5, <3>1 DEF Meanings, sets
      <4> QED
        BY <1>4, <4>1, <4>2
    <3>2. CASE ~(sets /\ p.slot = "cache")
      <4>1. t.cache = s.cache
        BY <1>2, <3>2
      <4> QED
        BY <1>4, <1>5, <4>1 DEF Meanings
    <3> QED
      BY <3>1, <3>2
  <2>3. \A q \in t.pending : q \in s.pending
    BY <1>1
  <2>4. \A q \in t.pending :
          /\ q.fresh => Holds(t, w, q.gen, KeyOf(t))
          /\ q.kind = "store" /\ q.slot = "cache" => Holds(t, w, q.gen, Blank(q.env))
    BY <1>3, <1>4, <1>5, <2>3 DEF Meanings
  <2> QED
    BY <2>1, <2>2, <2>4 DEF Meanings
<1> QED
  BY <1>1, <1>6, <1>11, <1>12, <1>13, <1>15, <1>17, <1>18, <1>25, <1>26 DEF Session, x

\* Every response is of a pending request, and no store is refused but for
\* an input that is gone.
LEMMA HandleResponseGood ==
  ASSUME NEW s, NEW w, NEW o, Good(s, w, o), s.link = "up", s.ready = TRUE,
         o # <<>>, IsResponse(Head(o))
  PROVE  Good(HandleResponse(s, Head(o)), w, Tail(o))
<1> DEFINE m == Head(o)
           p == CHOOSE q \in s.pending : q.id = m.ref
           r == [s EXCEPT !.pending = @ \ {p}, !.failures = IF p.kind = "store" THEN 0 ELSE @]
<1>1. Session(s, w, o) /\ Now(s, w, o) /\ Recorded(s) /\ AsSent(s) /\ IsShell(s)
      /\ Answered(s, w, o) /\ Asked(s) /\ o \in Seq(Answer) /\ s.shown.gen <= s.inputs
  BY DEF Good, Session, Visit
<1>2. m = o[1] /\ 1 \in DOMAIN o /\ m \in Answer
  BY <1>1, AnswersType
<1>3. \E q \in s.pending : q.id = m.ref
  BY <1>1, <1>2 DEF Answered
<1>4. p \in s.pending /\ p.id = m.ref
  BY <1>3
<1>5. m.kind = "ok" \/ (m.kind = "error" /\ m.code = "superseded")
  BY <1>2, AnswerFields DEF IsResponse
<1>6. HandleResponse(s, m) =
        IF p.kind # "store" THEN r ELSE IF m.kind = "ok" THEN CommitStore(r, p) ELSE r
  <2>1. ~\A q \in s.pending : q.id # m.ref
    BY <1>3
  <2>2. HandleResponse(s, m) =
          IF p.kind # "store" THEN r
          ELSE IF m.kind = "ok" THEN CommitStore(r, p)
          ELSE IF p.bound = r.cur.gen /\ m.code # "superseded" THEN Teardown(r)
          ELSE r
    BY <2>1 DEF HandleResponse
  <2> HIDE DEF r, p, m
  <2> QED
    BY <1>5, <2>2
<1> HIDE DEF p
<1>7. /\ r.pending = s.pending \ {p} /\ r.cur = s.cur /\ r.collect = s.collect /\ r.shown = s.shown
      /\ r.link = s.link /\ r.ready = s.ready /\ r.txq = s.txq
      /\ Typing(r) = Typing(s) /\ Tabbing(r) = Tabbing(s) /\ Naming(r) = Naming(s)
      /\ Counting(r) = Counting(s)
  BY <1>1 DEF IsShell, Shells, Typing, Tabbing, Naming, Counting
<1>8. IsShell(r)
  <2> DEFINE n == IF p.kind = "store" THEN 0 ELSE s.failures
             left == s.pending \ {p}
  <2>1. s \in Shells(s.pending) /\ n \in Nat
    BY <1>1, ShellFields DEF IsShell
  <2>2. r = [s EXCEPT !.pending = left, !.failures = n]
    BY <1>1 DEF IsShell, Shells
  <2> HIDE DEF n, left, r
  <2>3. [s EXCEPT !.pending = left, !.failures = n] \in Shells(left)
    BY <2>1, Zenon DEF Shells
  <2> QED
    BY <1>7, <2>2, <2>3 DEF IsShell, left
<1> HIDE DEF r
<1> DEFINE t == HandleResponse(s, m)
<1>9. /\ Ended(t, s, m, p) /\ t.cur = s.cur /\ t.collect = s.collect /\ t.shown = s.shown
      /\ Typing(t) = Typing(s) /\ Tabbing(t) = Tabbing(s)
  <2>0. /\ r.reuse = s.reuse /\ r.cache = s.cache /\ r.reuseKey = s.reuseKey /\ r.dropped = s.dropped
    BY <1>7 DEF Naming
  <2>1. CASE ~(m.kind = "ok" /\ p.kind = "store")
    <3>1. t = r
      BY <1>6, <2>1
    <3> HIDE DEF t, m
    <3> QED
      BY <1>1, <1>7, <1>8, <2>0, <2>1, <3>1 DEF Ended
  <2>2. CASE m.kind = "ok" /\ p.kind = "store"
    <3> DEFINE c == [gen |-> p.gen, env |-> p.env]
               y == IF p.slot = "cache" THEN [r EXCEPT !.cache = c] ELSE r
               z == IF p.fresh THEN [y EXCEPT !.reuse = p.gen] ELSE y
    <3>1. t = z
      BY <1>6, <2>2 DEF CommitStore
    <3> HIDE DEF t, m
    <3>2. c \in [gen : Gen, env : Envs \cup {Nothing}] /\ p.gen \in Gen
      BY <1>1, <1>4, EntryFields DEF Asked
    <3> HIDE DEF c
    <3>3. /\ IsShell(y) /\ y.cache = (IF p.slot = "cache" THEN c ELSE s.cache)
          /\ y.reuse = s.reuse /\ y.reuseKey = s.reuseKey /\ y.dropped = s.dropped
          /\ y.pending = r.pending /\ y.cur = r.cur /\ y.collect = r.collect /\ y.shown = r.shown
          /\ y.link = r.link /\ y.ready = r.ready /\ y.txq = r.txq
          /\ Typing(y) = Typing(r) /\ Tabbing(y) = Tabbing(r) /\ Counting(y) = Counting(r)
      <4>1. CASE p.slot = "cache"
        <5>1. y = [r EXCEPT !.cache = c]
          BY <4>1
        <5>2. r \in Shells(r.pending)
          BY <1>8 DEF IsShell
        <5> HIDE DEF y
        <5>3. /\ y \in Shells(r.pending) /\ y.cache = c
              /\ y.reuse = r.reuse /\ y.reuseKey = r.reuseKey /\ y.dropped = r.dropped
              /\ y.pending = r.pending /\ y.cur = r.cur /\ y.collect = r.collect
              /\ y.shown = r.shown /\ y.link = r.link /\ y.ready = r.ready /\ y.txq = r.txq
          BY ONLY <3>2, <5>1, <5>2 DEF Shells
        <5>4. Typing(y) = Typing(r) /\ Tabbing(y) = Tabbing(r) /\ Counting(y) = Counting(r)
          BY ONLY <5>1, <5>2 DEF Shells, Typing, Tabbing, Counting
        <5> QED
          BY <2>0, <4>1, <5>3, <5>4 DEF IsShell
      <4>2. CASE p.slot # "cache"
        <5>1. y = r
          BY <4>2
        <5> HIDE DEF y
        <5> QED
          BY <1>8, <2>0, <4>2, <5>1
      <4> QED
        BY <4>1, <4>2
    <3> HIDE DEF y
    <3>4. /\ IsShell(z) /\ z.reuse = (IF p.fresh THEN p.gen ELSE s.reuse)
          /\ z.cache = y.cache /\ z.reuseKey = y.reuseKey /\ z.dropped = y.dropped
          /\ z.pending = y.pending /\ z.cur = y.cur /\ z.collect = y.collect /\ z.shown = y.shown
          /\ z.link = y.link /\ z.ready = y.ready /\ z.txq = y.txq
          /\ Typing(z) = Typing(y) /\ Tabbing(z) = Tabbing(y) /\ Counting(z) = Counting(y)
      <4>1. CASE p.fresh
        <5>1. z = [y EXCEPT !.reuse = p.gen]
          BY <4>1
        <5>2. y \in Shells(y.pending)
          BY <3>3 DEF IsShell
        <5> HIDE DEF z
        <5>3. /\ z \in Shells(y.pending) /\ z.reuse = p.gen
              /\ z.cache = y.cache /\ z.reuseKey = y.reuseKey /\ z.dropped = y.dropped
              /\ z.pending = y.pending /\ z.cur = y.cur /\ z.collect = y.collect
              /\ z.shown = y.shown /\ z.link = y.link /\ z.ready = y.ready /\ z.txq = y.txq
          BY ONLY <3>2, <5>1, <5>2 DEF Shells
        <5>4. Typing(z) = Typing(y) /\ Tabbing(z) = Tabbing(y) /\ Counting(z) = Counting(y)
          BY ONLY <5>1, <5>2 DEF Shells, Typing, Tabbing, Counting
        <5> QED
          BY <4>1, <5>3, <5>4 DEF IsShell
      <4>2. CASE ~p.fresh
        <5>1. z = y
          BY <4>2
        <5> HIDE DEF z
        <5> QED
          BY <3>3, <4>2, <5>1
      <4> QED
        BY <4>1, <4>2
    <3> HIDE DEF z
    <3> QED
      BY <1>1, <1>7, <2>2, <3>1, <3>3, <3>4 DEF Ended, c
  <2> QED
    BY <2>1, <2>2
<1> HIDE DEF t
<1>10. Session(t, w, Tail(o))
  BY <1>1, <1>4, <1>9, EndedSession
<1>11. /\ t.query = s.query /\ t.env = s.env /\ t.word = s.word /\ t.edited = s.edited
       /\ t.tab = s.tab /\ t.tabGen = s.tabGen /\ t.reuseKey = s.reuseKey /\ t.txq = s.txq
       /\ t.pending \subseteq s.pending /\ t.candidates = s.candidates /\ t.inputs = s.inputs
  BY <1>9 DEF Ended, Typing, Tabbing, Counting
<1>12. Now(t, w, o)
  BY <1>1, <1>9, <1>11, NowSame
<1>13. Now(t, w, Tail(o))
  BY <1>1, <1>12, NowTail
<1>14. Good(t, w, Tail(o))
  BY <1>1, <1>9, <1>10, <1>11, <1>13 DEF Good, Recorded, AsSent
<1> QED
  BY <1>14 DEF t, m

\* Any message: the first of a session is `ready`.
LEMMA HandleMessageGood ==
  ASSUME NEW s, NEW w, NEW o, NEW starts \in BOOLEAN, NEW act \in TabActs, NEW v \in Words,
         Good(s, w, o), s.link = "up", o # <<>>
  PROVE  Good(HandleMessage(s, Head(o), starts, act, v), w, Tail(o))
<1> DEFINE m == Head(o)
<1>1. Session(s, w, o) /\ Now(s, w, o) /\ Recorded(s) /\ AsSent(s) /\ IsShell(s)
      /\ Answered(s, w, o) /\ o \in Seq(Answer) /\ s.shown.gen <= s.inputs
  BY DEF Good, Session, Visit
<1>2. m = o[1] /\ 1 \in DOMAIN o /\ m \in Answer
  BY <1>1, AnswersType
<1>3. CASE ~s.ready
  <2> DEFINE t == [s EXCEPT !.ready = TRUE]
  <2>1. m.kind = "ready"
    BY <1>1, <1>2, <1>3 DEF Answered
  <2>2. /\ IsShell(t) /\ t.ready = TRUE /\ t.link = s.link /\ t.txq = s.txq /\ t.pending = s.pending
        /\ t.shown = s.shown /\ t.cur = s.cur /\ t.collect = s.collect
        /\ Typing(t) = Typing(s) /\ Tabbing(t) = Tabbing(s) /\ Naming(t) = Naming(s)
        /\ Counting(t) = Counting(s)
    BY <1>1 DEF IsShell, Shells, Typing, Tabbing, Naming, Counting
  <2>3. HandleMessage(s, m, starts, act, v) = t
    BY <1>3 DEF HandleMessage
  <2> HIDE DEF t
  <2>4. Session(t, w, Tail(o))
    BY <1>1, <2>1, <2>2, HeadSession DEF IsResponse
  <2>5. /\ t.query = s.query /\ t.env = s.env /\ t.word = s.word /\ t.edited = s.edited
        /\ t.tab = s.tab /\ t.tabGen = s.tabGen /\ t.reuseKey = s.reuseKey
        /\ t.candidates = s.candidates /\ t.inputs = s.inputs
    BY <2>2 DEF Typing, Tabbing, Naming, Counting
  <2>6. Now(t, w, o)
    BY <1>1, <2>2, <2>5, NowSame
  <2>7. Now(t, w, Tail(o))
    BY <1>1, <2>6, NowTail
  <2>8. Good(t, w, Tail(o))
    BY <1>1, <2>2, <2>4, <2>5, <2>7 DEF Good, Recorded, AsSent
  <2> QED
    BY <2>3, <2>8
<1>4. CASE s.ready
  <2>1. s.ready = TRUE
    BY <1>1, <1>4, ShellFields
  <2>2. m.kind # "ready"
    BY <1>1, <1>2, <1>4 DEF Answered
  <2>3. IsEvent(m) \/ IsResponse(m)
    BY <1>2, <2>2, AnswerFields DEF IsEvent, IsResponse
  <2>4. CASE IsEvent(m)
    <3>1. HandleMessage(s, m, starts, act, v) = HandleEvent(s, m, starts, act, v)
      BY <1>4, <2>4 DEF HandleMessage, W!EventKind, W!SettleKind, IsEvent
    <3> QED
      BY <2>1, <2>4, <3>1, HandleEventGood
  <2>5. CASE IsResponse(m)
    <3>1. HandleMessage(s, m, starts, act, v) = HandleResponse(s, m)
      BY <1>4, <2>5 DEF HandleMessage, W!EventKind, W!SettleKind, IsResponse
    <3> QED
      BY <2>1, <2>5, <3>1, HandleResponseGood
  <2> QED
    BY <2>3, <2>4, <2>5
<1> QED
  BY <1>3, <1>4

(***************************************************************************)
(* A shell step ends by handing frames to the request FIFO, by bringing up *)
(* a fresh worker, or by letting the old one go.                           *)
(***************************************************************************)
\* Taking frames from the front of the queue and adding them to the FIFO
\* leaves the same frames unheard.
LEMMA HandedOver ==
  ASSUME NEW wr \in Seq(Frame), NEW q \in Seq(Frame), NEW n \in 0..Len(q)
  PROVE  /\ SubSeq(q, 1, n) \in Seq(Frame) /\ SubSeq(q, n + 1, Len(q)) \in Seq(Frame)
         /\ wr \o SubSeq(q, 1, n) \in Seq(Frame)
         /\ (wr \o SubSeq(q, 1, n)) \o SubSeq(q, n + 1, Len(q)) = wr \o q
<1> DEFINE a == SubSeq(q, 1, n)
           b == SubSeq(q, n + 1, Len(q))
<1>1. Len(q) \in Nat /\ n \in Nat /\ n <= Len(q)
  OBVIOUS
<1>2. a \in Seq(Frame) /\ Len(a) = n /\ \A i \in 1..n : a[i] = q[i]
  OBVIOUS
<1>3. b \in Seq(Frame) /\ Len(b) = Len(q) - n /\ \A i \in 1..(Len(q) - n) : b[i] = q[n + i]
  OBVIOUS
<1> HIDE DEF a, b
<1>4. a \o b = q
  <2>1. /\ a \o b \in Seq(Frame) /\ Len(a \o b) = Len(a) + Len(b)
        /\ \A i \in 1..(Len(a) + Len(b)) :
             (a \o b)[i] = IF i <= Len(a) THEN a[i] ELSE b[i - Len(a)]
    BY <1>2, <1>3
  <2>2. Len(a \o b) = Len(q)
    BY <1>1, <1>2, <1>3, <2>1
  <2>3. \A i \in 1..Len(a \o b) : (a \o b)[i] = q[i]
    BY <1>1, <1>2, <1>3, <2>1
  <2> QED
    BY <2>1, <2>2, <2>3, SeqEqual
<1>5. wr \o a \in Seq(Frame) /\ (wr \o a) \o b = wr \o (a \o b)
  BY <1>2, <1>3
<1> QED
  BY <1>2, <1>3, <1>4, <1>5 DEF a, b

\* Only the FIFO and the queue differ, and what is unheard does not.
LEMMA HandedGood ==
  ASSUME NEW s, NEW t, NEW w, NEW v, NEW o, Good(s, w, o), s.link = "up", IsShell(t), v \in Works,
         Typing(t) = Typing(s), Tabbing(t) = Tabbing(s), Reading(t) = Reading(s),
         Naming(t) = Naming(s), Counting(t) = Counting(s),
         t.shown = s.shown, t.link = s.link, t.ready = s.ready, t.pending = s.pending,
         v.phase = w.phase, v.slots = w.slots, v.input = w.input,
         Unheard(t, v) = Unheard(s, w)
  PROVE  Good(t, v, o)
<1>1. Session(s, w, o) /\ Now(s, w, o) /\ Recorded(s) /\ AsSent(s)
  BY DEF Good
<1>2. /\ t.query = s.query /\ t.env = s.env /\ t.word = s.word /\ t.edited = s.edited
      /\ t.tab = s.tab /\ t.tabGen = s.tabGen /\ t.cur = s.cur /\ t.collect = s.collect
      /\ t.reuse = s.reuse /\ t.reuseKey = s.reuseKey /\ t.dropped = s.dropped /\ t.cache = s.cache
      /\ t.requests = s.requests /\ t.candidates = s.candidates /\ t.inputs = s.inputs
  BY DEF Typing, Tabbing, Reading, Naming, Counting
<1>3. /\ Target(t) = Target(s) /\ Owed(t) = Owed(s) /\ KeyOf(t) = KeyOf(s)
      /\ BoundTo(t, t.cur.gen) = BoundTo(s, s.cur.gen) /\ Accepted(t, o) = Accepted(s, o)
  BY <1>2 DEF Target, Owed, KeyOf, BoundTo, Accepted
<1>4. \A g, d : Holds(s, w, g, d) => Holds(t, v, g, d)
  BY DEF Holds
<1>5. \A x, g : HeldOrReplaced(s, w, o, x, g) => HeldOrReplaced(t, v, o, x, g)
  BY <1>3 DEF HeldOrReplaced
<1>6. Visit(t) /\ Retained(t, v)
  BY <1>1, <1>2 DEF Session, Visit, Retained
<1>7. /\ Asked(t) /\ Framed(t, v, Unheard(t, v)) /\ Answered(t, v, o)
      /\ AnsweredFirst(o, Unheard(t, v))
  BY <1>1, <1>2 DEF Session, Asked, Framed, Answered
<1>8. Latches(t, v, o)
  BY <1>1, <1>2, <1>3, <1>5 DEF Session, Latches
<1>9. Meanings(t, v)
  BY <1>1, <1>2, <1>3, <1>4 DEF Session, Meanings
<1>10. Session(t, v, o)
  BY <1>1, <1>6, <1>7, <1>8, <1>9 DEF Session
<1>11. Now(t, v, o)
  BY <1>1, <1>2, <1>3, <1>4 DEF Now
<1> QED
  BY <1>1, <1>2, <1>10, <1>11 DEF Good, Recorded, AsSent

\* A worker that has read nothing and written nothing.
LEMMA FreshWorks ==
  ASSUME NEW v, v = [wire |-> <<>>, phase |-> "awaiting", slots |-> NoSlots, input |-> NoWork]
  PROVE  v \in Works /\ Fresh(v, <<>>) /\ \A x \in Slot : v.slots[x].gen = 0
<1>1. <<>> \in Seq(Frame) /\ 0 \in Gen /\ [gen |-> 0, data |-> Nothing] \in {[gen |-> 0, data |-> Nothing]}
  BY ConstantTypes DEF Gen
<1>2. NoSlots \in [Slot -> Stored \cup {[gen |-> 0, data |-> Nothing]}]
  BY DEF NoSlots
<1>3. NoWork \in [gen : Gen, cand : Gen, resolved : Gen, pending : BOOLEAN]
  BY <1>1 DEF NoWork
<1>4. v \in Works
  BY <1>1, <1>2, <1>3 DEF Works
<1> QED
  BY <1>4 DEF Fresh, NoSlots

\* With no session the state of the worker does not matter.
LEMMA DownGood ==
  ASSUME NEW s, NEW w, NEW v, NEW o, Good(s, w, o), s.link # "up",
         v = [wire |-> <<>>, phase |-> "awaiting", slots |-> NoSlots, input |-> NoWork]
  PROVE  Good(s, v, <<>>)
<1>1. /\ IsShell(s) /\ Visit(s) /\ Recorded(s) /\ AsSent(s) /\ Now(s, w, o)
      /\ s.pending = {} /\ s.txq = <<>> /\ s.reuse = 0 /\ s.cache.gen = 0 /\ s.cur.gen = 0
  BY DEF Good, Session, Down
<1>2. v \in Works /\ Fresh(v, <<>>) /\ \A x \in Slot : v.slots[x].gen = 0
  BY FreshWorks
<1>3. s.inputs \in Gen /\ s.candidates \in Gen /\ v.input.gen = 0 /\ v.input.pending = FALSE
  BY <1>1, <1>2, ShellFields DEF Fresh, NoWork
<1>4. Retained(s, v)
  BY <1>2, <1>3 DEF Retained, Gen, Slot
<1>5. Session(s, v, <<>>)
  BY <1>1, <1>2, <1>4 DEF Session, Down
<1>6. Now(s, v, <<>>)
  BY <1>1 DEF Now
<1> QED
  BY <1>1, <1>5, <1>6 DEF Good

\* What the invariant says of the state after a step.
After ==
  /\ namespace' \in {Nothing, "names"} /\ history' = W!HI!NoIndex
  /\ Good(sh', Seen', out')
  /\ sh'.link = "up" => (phase' = "failed" => crashes > 0)
  /\ sh'.link # "up" => Fresh(Seen', out') /\ phase' = "ended"

\* A shell step that ends in a good record leaves a good state.
LEMMA CommitGood ==
  ASSUME NEW s, NEW rest, InputInv, Good(s, Seen, rest), sh.link # "up" => rest = <<>>,
         Commit(s, rest)
  PROVE  After
<1>1. IsShell(s) /\ s.txq \in Seq(Frame) /\ Seen \in Works /\ wire \in Seq(Frame)
  <2>1. IsShell(s) /\ Seen \in Works
    BY DEF Good, Session, Retained
  <2>2. Seen.wire = wire /\ Seen.wire \in Seq(Frame)
    BY <2>1 DEF Seen, Works
  <2> QED
    BY <2>1, <2>2, ShellFields
<1>2. NoSlots = [x \in W!Slot |-> W!EmptySlot] /\ NoWork = W!NoInput
  BY DEF NoSlots, NoWork, W!Slot, W!EmptySlot, W!NoInput, Slot
<1>3. CASE s.link # "up"
  <2>1. sh' = s /\ wire' = <<>> /\ NoWorker("ended")
    BY <1>3 DEF Commit
  <2>2. /\ Seen' = [wire |-> <<>>, phase |-> "awaiting", slots |-> NoSlots, input |-> NoWork]
        /\ out' = <<>> /\ namespace' = Nothing /\ history' = W!HI!NoIndex /\ phase' = "ended"
    BY <1>2, <1>3, <2>1 DEF NoWorker, Seen
  <2>3. Good(s, Seen', <<>>) /\ Fresh(Seen', <<>>)
    BY <1>3, <2>2, DownGood, FreshWorks
  <2> QED
    BY <1>3, <2>1, <2>2, <2>3 DEF After
<1>4. CASE s.link = "up"
  <2> DEFINE starts == sh.link # "up"
             base == IF starts THEN <<>> ELSE wire
  <2>1. PICK h \in Handings(s, starts \/ W!Alive) :
          /\ sh' = [s EXCEPT !.busy = h.busy, !.txq = SubSeq(@, h.frames + 1, Len(@))]
          /\ wire' = base \o SubSeq(s.txq, 1, h.frames)
    BY <1>4 DEF Commit
  <2>2. h.frames \in 0..Len(s.txq) /\ h.busy \in BOOLEAN
    <3> DEFINE n == Len(s.txq)
               direct(k) == (starts \/ W!Alive) /\ \A i \in 1..k : s.txq[i].kind \in Direct
               delegable == {k \in 1..n : direct(k - 1) /\ (s.txq[k].kind \in Delegated
                                                            \/ ~(starts \/ W!Alive))}
    <3>1. s.busy \in BOOLEAN /\ n \in Nat
      BY <1>1, ShellFields
    <3>2. \/ h = [frames |-> 0, busy |-> s.busy]
          \/ h = [frames |-> n, busy |-> FALSE]
          \/ \E k \in delegable : h = [frames |-> k, busy |-> TRUE]
      BY DEF Handings
    <3>3. \A k \in delegable : k \in 0..n
      BY <3>1
    <3> HIDE DEF delegable, n
    <3>4. 0 \in 0..n /\ n \in 0..n
      BY <3>1
    <3>5. h.frames \in 0..n /\ h.busy \in BOOLEAN
      <4>1. CASE h = [frames |-> 0, busy |-> s.busy]
        BY <3>1, <3>4, <4>1
      <4>2. CASE h = [frames |-> n, busy |-> FALSE]
        BY <3>4, <4>2
      <4>3. ASSUME NEW k \in delegable, h = [frames |-> k, busy |-> TRUE]
            PROVE  h.frames \in 0..n /\ h.busy \in BOOLEAN
        BY <3>3, <4>3
      <4> QED
        BY <3>2, <4>1, <4>2, <4>3
    <3> QED
      BY <3>5 DEF n
  <2>3. base = wire /\ Seen.wire = wire
    BY DEF InputInv, Fresh, Seen
  <2> DEFINE q == SubSeq(s.txq, h.frames + 1, Len(s.txq))
             x == wire \o SubSeq(s.txq, 1, h.frames)
  <2>4. q \in Seq(Frame) /\ x \in Seq(Frame) /\ x \o q = wire \o s.txq
    BY <1>1, <2>2, HandedOver
  <2>5. /\ Seen'.wire = x /\ Seen'.phase = Seen.phase /\ Seen'.slots = Seen.slots
        /\ Seen'.input = Seen.input /\ out' = rest /\ history' = W!HI!NoIndex
        /\ namespace' \in {Nothing, "names"} /\ (phase' = "failed" => crashes > 0)
        /\ sh'.link = "up"
        /\ Seen' = [wire |-> x, phase |-> Seen.phase, slots |-> Seen.slots, input |-> Seen.input]
    <3>1. sh'.link = "up" /\ wire' = x
      BY <1>1, <1>4, <2>1, <2>3 DEF IsShell, Shells
    <3>2. CASE starts
      <4>1. NoWorker("awaiting")
        BY <1>4, <3>2 DEF Commit
      <4>2. /\ phase' = "awaiting" /\ namespace' = Nothing /\ history' = W!HI!NoIndex
            /\ slots' = NoSlots /\ input' = NoWork /\ out' = <<>>
        BY <1>2, <4>1 DEF NoWorker
      <4>3. Seen.phase = "awaiting" /\ slots = NoSlots /\ input = NoWork /\ rest = <<>>
        BY <3>2 DEF InputInv, Fresh, Seen
      <4> QED
        BY <3>1, <4>2, <4>3 DEF Seen
    <3>3. CASE ~starts
      <4>1. /\ out' = rest /\ phase' = phase /\ namespace' = namespace /\ slots' = slots
            /\ history' = history /\ input' = input
        BY <1>4, <3>3 DEF Commit
      <4>2. /\ namespace \in {Nothing, "names"} /\ history = W!HI!NoIndex
            /\ (phase = "failed" => crashes > 0) /\ sh.link = "up"
        BY <3>3 DEF InputInv
      <4> QED
        BY <3>1, <4>1, <4>2 DEF Seen
    <3> QED
      BY <3>2, <3>3
  <2> HIDE DEF q, x
  <2>6. Seen' \in Works
    BY <1>1, <2>4, <2>5 DEF Works
  <2>7. /\ IsShell(sh') /\ sh'.txq = q
        /\ Typing(sh') = Typing(s) /\ Tabbing(sh') = Tabbing(s) /\ Reading(sh') = Reading(s)
        /\ Naming(sh') = Naming(s) /\ Counting(sh') = Counting(s)
        /\ sh'.shown = s.shown /\ sh'.link = s.link /\ sh'.ready = s.ready /\ sh'.pending = s.pending
    <3>1. sh' = [s EXCEPT !.busy = h.busy, !.txq = q]
      BY <2>1 DEF q
    <3>2. s \in Shells(s.pending)
      BY <1>1 DEF IsShell
    <3>3. sh' \in Shells(s.pending)
      BY <2>2, <2>4, <3>1, <3>2, Zenon DEF Shells
    <3>4. /\ sh'.txq = q /\ sh'.shown = s.shown /\ sh'.link = s.link /\ sh'.ready = s.ready
          /\ sh'.pending = s.pending /\ Typing(sh') = Typing(s) /\ Tabbing(sh') = Tabbing(s)
          /\ Reading(sh') = Reading(s) /\ Naming(sh') = Naming(s) /\ Counting(sh') = Counting(s)
      BY <3>1, <3>2 DEF Shells, Typing, Tabbing, Reading, Naming, Counting
    <3> QED
      BY <3>3, <3>4 DEF IsShell
  <2>8. Unheard(sh', Seen') = Unheard(s, Seen)
    BY <2>3, <2>4, <2>5, <2>7 DEF Unheard
  <2>9. Good(sh', Seen', rest)
    BY <1>4, <2>5, <2>6, <2>7, <2>8, HandedGood
  <2> QED
    BY <2>5, <2>9 DEF After
<1> QED
  BY <1>3, <1>4

(***************************************************************************)
(* The steps of the shell.                                                 *)
(***************************************************************************)
\* A step that commits a good record keeps the invariant.
LEMMA CommitInv ==
  ASSUME NEW s, NEW rest, InputInv, Good(s, Seen, rest), sh.link # "up" => rest = <<>>,
         Commit(s, rest), line' \in {"off", "editing", "finishing"}, crashes' = crashes
  PROVE  InputInv'
<1>1. After
  BY CommitGood
<1>2. crashes \in Nat
  BY DEF InputInv
<1> QED
  BY <1>1, <1>2 DEF After, InputInv

\* Outside a session nothing is left to read.
LEMMA NothingToRead ==
  ASSUME InputInv
  PROVE  /\ Good(sh, Seen, out) /\ Session(sh, Seen, out) /\ IsShell(sh)
         /\ sh.link # "up" => out = <<>>
BY DEF InputInv, Fresh, Good, Session

\* What the user typed is not read by what the session guarantees.
LEMMA TypedSession ==
  ASSUME NEW s, NEW t, NEW w, NEW o, Session(s, w, o), IsShell(t), t.shown = s.shown, t.cur = s.cur,
         Naming(t) = Naming(s), Sending(t) = Sending(s), Counting(t) = Counting(s)
  PROVE  Session(t, w, o)
<1>1. t.shown.gen <= s.inputs /\ (s.link # "up" => t.cur.gen = 0)
  BY DEF Session, Visit, Down
<1> QED
  BY <1>1, SessionSame

\* A prompt begins.
LEMMA NewPromptInv ==
  ASSUME NEW env \in Envs, InputInv, NewPrompt(env)
  PROVE  InputInv'
<1> DEFINE t == [sh EXCEPT !.env = env, !.word = Empty, !.edited = FALSE]
<1>1. Session(sh, Seen, out) /\ IsShell(sh) /\ (sh.link # "up" => out = <<>>)
  BY NothingToRead
<1>2. t \in Shells(sh.pending)
  BY <1>1, ConstantTypes, Zenon DEF IsShell, Shells
<1>3. /\ t.pending = sh.pending /\ t.shown = sh.shown /\ t.cur = sh.cur
      /\ Naming(t) = Naming(sh) /\ Sending(t) = Sending(sh) /\ Counting(t) = Counting(sh)
  BY <1>1 DEF IsShell, Shells, Naming, Sending, Counting
<1>4. /\ Commit(Teardown(InputInvalidate(ReuseDrop(t))), out)
      /\ line' \in {"off", "editing", "finishing"} /\ crashes' = crashes
  BY DEF NewPrompt, bounds
<1> HIDE DEF t
<1>5. Session(t, Seen, out)
  BY <1>1, <1>2, <1>3, TypedSession DEF IsShell
<1>6. Good(Teardown(InputInvalidate(ReuseDrop(t))), Seen, out)
  BY <1>5, ReuseDropSession, InvalidateGood
<1> QED
  BY <1>1, <1>4, <1>6, CommitInv

\* The buffer changes.
LEMMA EditInv ==
  ASSUME NEW x \in Words, InputInv, Edit(x)
  PROVE  InputInv'
<1> DEFINE t == [sh EXCEPT !.word = x]
<1>1. Session(sh, Seen, out) /\ IsShell(sh) /\ (sh.link # "up" => out = <<>>)
  BY NothingToRead
<1>2. /\ IsShell(t) /\ t.shown = sh.shown /\ t.cur = sh.cur
      /\ Naming(t) = Naming(sh) /\ Sending(t) = Sending(sh) /\ Counting(t) = Counting(sh)
  BY <1>1 DEF IsShell, Shells, Naming, Sending, Counting
<1>3. PICK c \in Changes(t) : Commit(PreRedraw(t, c), out)
  BY DEF Edit
<1>4. line' \in {"off", "editing", "finishing"} /\ crashes' = crashes
  BY DEF Edit, bounds
<1> HIDE DEF t
<1>5. Good(PreRedraw(t, c), Seen, out)
  BY <1>1, <1>2, TypedSession, PreRedrawGood DEF Changes
<1> QED
  BY <1>1, <1>3, <1>4, <1>5, CommitInv

\* A key, and the redraw that reports what it did to the buffer.
LEMMA KeyInv ==
  ASSUME NEW s, InputInv, Good(s, Seen, out), Key(s),
         line' \in {"off", "editing", "finishing"}, crashes' = crashes
  PROVE  InputInv'
<1>1. sh.link # "up" => out = <<>>
  BY NothingToRead
<1>2. CASE ~s.edited
  <2>1. Commit(s, out)
    BY <1>2 DEF Key
  <2> QED
    BY <1>1, <2>1, CommitInv
<1>3. CASE s.edited
  <2>1. PICK c \in Changes(s) : Commit(PreRedraw(s, c), out)
    BY <1>3 DEF Key
  <2>2. Good(PreRedraw(s, c), Seen, out)
    BY PreRedrawGood DEF Changes, Good
  <2> QED
    BY <1>1, <2>1, <2>2, CommitInv
<1> QED
  BY <1>2, <1>3

\* A Tab is recorded for the current input.
LEMMA PressedGood ==
  ASSUME NEW s, NEW w, NEW o, Good(s, w, o), s.cur.gen # 0
  PROVE  Good([s EXCEPT !.tab = TRUE, !.tabGen = s.cur.gen], w, o)
<1> DEFINE t == [s EXCEPT !.tab = TRUE, !.tabGen = s.cur.gen]
<1>1. Session(s, w, o) /\ Now(s, w, o) /\ AsSent(s) /\ IsShell(s)
  BY DEF Good, Session
<1>2. s.cur.gen \in Gen
  BY <1>1, ShellFields
<1>3. t \in Shells(s.pending)
  BY <1>1, <1>2, Zenon DEF IsShell, Shells
<1>4. /\ t.shown = s.shown /\ t.cur = s.cur /\ t.collect = s.collect /\ t.pending = s.pending
      /\ t.tabGen = s.cur.gen
      /\ Naming(t) = Naming(s) /\ Sending(t) = Sending(s) /\ Counting(t) = Counting(s)
      /\ Typing(t) = Typing(s)
  BY <1>1 DEF IsShell, Shells, Naming, Sending, Counting, Typing
<1> HIDE DEF t
<1>5. Session(t, w, o)
  BY <1>1, <1>3, <1>4, TypedSession DEF IsShell
<1>6. /\ t.query = s.query /\ t.env = s.env /\ t.word = s.word /\ t.edited = s.edited
      /\ t.reuseKey = s.reuseKey /\ t.txq = s.txq
      /\ t.candidates = s.candidates /\ t.inputs = s.inputs
  BY <1>4 DEF Typing, Naming, Sending, Counting
<1>7. Now(t, w, o)
  BY <1>1, <1>4, <1>6, NowSame
<1>8. Good(t, w, o)
  BY <1>1, <1>4, <1>5, <1>6, <1>7 DEF Good, Recorded, AsSent
<1> QED
  BY <1>8 DEF t

\* The Tab key.
LEMMA TabKeyInv ==
  ASSUME NEW act \in TabActs, NEW x \in Words, InputInv, TabKey(act, x)
  PROVE  InputInv'
<1> DEFINE t == [sh EXCEPT !.tab = TRUE, !.tabGen = sh.cur.gen]
<1>1. Good(sh, Seen, out) /\ IsShell(sh)
  BY NothingToRead
<1>2. line' \in {"off", "editing", "finishing"} /\ crashes' = crashes
  BY DEF TabKey, bounds
<1>3. CASE sh.cur.pending
  <2>1. Key(SendFlush(t))
    BY <1>3 DEF TabKey
  <2>2. sh.cur.gen # 0
    BY <1>1, <1>3 DEF Good, Now
  <2>3. Good(SendFlush(t), Seen, out)
    BY <1>1, <2>2, PressedGood, SendFlushGood
  <2> QED
    BY <1>2, <2>1, <2>3, KeyInv
<1>4. CASE ~sh.cur.pending /\ sh.collect.gen # 0
  <2>1. Key(t)
    BY <1>4 DEF TabKey
  <2>2. sh.cur.gen # 0
    BY <1>1, <1>4 DEF Good, Now
  <2>3. Good(t, Seen, out)
    BY <1>1, <2>2, PressedGood
  <2> QED
    BY <1>2, <2>1, <2>3, KeyInv
<1>5. CASE ~sh.cur.pending /\ sh.collect.gen = 0
  <2>1. Key(TabWithResults(sh, act, x))
    BY <1>5 DEF TabKey
  <2>2. Good(TabWithResults(sh, act, x), Seen, out)
    BY <1>1, TabGood
  <2> QED
    BY <1>2, <2>1, <2>2, KeyInv
<1> QED
  BY <1>3, <1>4, <1>5

\* The confirm key.
LEMMA ConfirmInv ==
  ASSUME NEW x \in Words, InputInv, Confirm(x)
  PROVE  InputInv'
<1>1. Key(TabWithResults(sh, "insert", x)) /\ line' \in {"off", "editing", "finishing"}
      /\ crashes' = crashes
  BY DEF Confirm, bounds
<1>2. Good(TabWithResults(sh, "insert", x), Seen, out)
  BY NothingToRead, TabGood DEF TabActs
<1> QED
  BY <1>1, <1>2, KeyInv

\* The redraw hook after a callback changed the buffer.
LEMMA RedrawInv ==
  ASSUME InputInv, Redraw
  PROVE  InputInv'
<1>1. PICK c \in Changes(sh) : Commit(PreRedraw(sh, c), out)
  BY DEF Redraw
<1>2. line' \in {"off", "editing", "finishing"} /\ crashes' = crashes
  BY DEF Redraw, bounds
<1>3. Session(sh, Seen, out) /\ (sh.link # "up" => out = <<>>)
  BY NothingToRead
<1>4. Good(PreRedraw(sh, c), Seen, out)
  BY <1>3, PreRedrawGood DEF Changes
<1> QED
  BY <1>1, <1>2, <1>3, <1>4, CommitInv

\* The listing is dismissed.
LEMMA DismissInv ==
  ASSUME InputInv, Dismiss
  PROVE  InputInv'
<1>1. /\ Commit(Teardown(InputInvalidate(sh)), out)
      /\ line' \in {"off", "editing", "finishing"} /\ crashes' = crashes
  BY DEF Dismiss, bounds
<1>2. Session(sh, Seen, out) /\ (sh.link # "up" => out = <<>>)
  BY NothingToRead
<1>3. Good(Teardown(InputInvalidate(sh)), Seen, out)
  BY <1>2, InvalidateGood
<1> QED
  BY <1>1, <1>2, <1>3, CommitInv

\* The line is accepted while its decoration is still awaited.
LEMMA BeginFinishInv ==
  ASSUME NEW quiet \in Delays, InputInv, BeginFinish(quiet)
  PROVE  InputInv'
<1>1. /\ Commit(IF sh.cur.gen = 0 THEN SendInput(sh, TRUE, FALSE, quiet) ELSE sh, out)
      /\ line' \in {"off", "editing", "finishing"} /\ crashes' = crashes
  BY DEF BeginFinish, bounds
<1>2. Good(sh, Seen, out) /\ (sh.link # "up" => out = <<>>)
  BY NothingToRead
<1>3. CASE sh.cur.gen = 0
  <2>1. Good(SendInput(sh, TRUE, FALSE, quiet), Seen, out)
    BY <1>2, <1>3, SendInputGood
  <2> QED
    BY <1>1, <1>2, <1>3, <2>1, CommitInv
<1>4. CASE sh.cur.gen # 0
  BY <1>1, <1>2, <1>4, CommitInv
<1> QED
  BY <1>3, <1>4

\* The line editor is left.
LEMMA EndFinishInv ==
  ASSUME InputInv, EndFinish
  PROVE  InputInv'
<1>1. /\ Commit(IF sh.disabled THEN sh ELSE Teardown(InputInvalidate(sh)), out)
      /\ line' \in {"off", "editing", "finishing"} /\ crashes' = crashes
  BY DEF EndFinish, bounds
<1>2. Good(sh, Seen, out) /\ Session(sh, Seen, out) /\ (sh.link # "up" => out = <<>>)
  BY NothingToRead
<1>3. Good(Teardown(InputInvalidate(sh)), Seen, out)
  BY <1>2, InvalidateGood
<1>4. CASE sh.disabled
  BY <1>1, <1>2, <1>4, CommitInv
<1>5. CASE ~sh.disabled
  BY <1>1, <1>2, <1>3, <1>5, CommitInv
<1> QED
  BY <1>4, <1>5

\* A message of the worker is read.
LEMMA ReadResponseInv ==
  ASSUME NEW starts \in BOOLEAN, NEW act \in TabActs, NEW x \in Words, InputInv,
         ReadResponse(starts, act, x)
  PROVE  InputInv'
<1>1. /\ Commit(HandleMessage(sh, Head(out), starts, act, x), Tail(out))
      /\ sh.link = "up" /\ out # <<>> /\ crashes' = crashes /\ line' = line
  BY DEF ReadResponse, Listening
<1>2. Good(sh, Seen, out) /\ line \in {"off", "editing", "finishing"}
  BY DEF InputInv
<1>3. Good(HandleMessage(sh, Head(out), starts, act, x), Seen, Tail(out))
  BY <1>1, <1>2, HandleMessageGood
<1> QED
  BY <1>1, <1>2, <1>3, CommitInv

\* The writer child has written its frame.
LEMMA WriterAckInv ==
  ASSUME InputInv, WriterAck
  PROVE  InputInv'
<1> DEFINE t == [sh EXCEPT !.busy = FALSE]
<1>1. Commit(t, out) /\ sh.link = "up" /\ crashes' = crashes /\ line' = line
  BY DEF WriterAck, Listening, bounds
<1>2. Good(sh, Seen, out) /\ IsShell(sh) /\ line \in {"off", "editing", "finishing"}
  BY NothingToRead DEF InputInv
<1>3. /\ IsShell(t) /\ t.shown = sh.shown /\ t.collect = sh.collect /\ t.cur = sh.cur
      /\ Typing(t) = Typing(sh) /\ Tabbing(t) = Tabbing(sh) /\ Naming(t) = Naming(sh)
      /\ Sending(t) = Sending(sh) /\ Counting(t) = Counting(sh)
  BY <1>2 DEF IsShell, Shells, Typing, Tabbing, Naming, Sending, Counting
<1> HIDE DEF t
<1>4. Good(t, Seen, out)
  BY <1>2, <1>3, GoodSame
<1> QED
  BY <1>1, <1>2, <1>4, CommitInv

\* The session is given up.
LEMMA SessionFailInv ==
  ASSUME InputInv, Commit(SessionFail(sh), out), sh.link = "up", crashes' = crashes, line' = line
  PROVE  InputInv'
<1>1. Session(sh, Seen, out) /\ IsShell(sh) /\ line \in {"off", "editing", "finishing"}
  BY NothingToRead DEF InputInv
<1>2. Stopped(SessionFail(sh), sh)
  BY <1>1, SessionFailStops
<1>3. Good(SessionFail(sh), Seen, out)
  BY <1>1, <1>2, StoppedSession DEF Good
<1> QED
  BY <1>1, <1>3, CommitInv

\* A capture ends.
LEMMA FinishCollectionInv ==
  ASSUME NEW found \in BOOLEAN, InputInv, FinishCollection(found)
  PROVE  InputInv'
<1> DEFINE slot == IF sh.query = Empty /\ found THEN "cache" ELSE "live"
           stored == RequestStore(CancelCollection(sh), slot, sh.collect.data, sh.collect.gen)
<1>1. /\ Commit(IF sh.collect.gen # sh.cur.gen THEN CancelCollection(sh) ELSE stored, out)
      /\ sh.collect.gen # 0 /\ line' \in {"off", "editing", "finishing"} /\ crashes' = crashes
  BY DEF FinishCollection, bounds
<1>2. Good(sh, Seen, out) /\ (sh.link # "up" => out = <<>>)
  BY NothingToRead
<1>3. Good(CancelCollection(sh), Seen, out)
  BY <1>2, CancelGood
<1>4. Good(stored, Seen, out)
  <2>1. slot \in Slot /\ (slot = "cache" => sh.query = Empty)
    BY DEF Slot
  <2> QED
    BY <1>1, <1>2, <2>1, RequestStoreGood
<1> HIDE DEF stored
<1>5. CASE sh.collect.gen # sh.cur.gen
  BY <1>1, <1>2, <1>3, <1>5, CommitInv
<1>6. CASE sh.collect.gen = sh.cur.gen
  BY <1>1, <1>2, <1>4, <1>6, CommitInv
<1> QED
  BY <1>5, <1>6

\* A capture fails.
LEMMA FailCollectionInv ==
  ASSUME InputInv, FailCollection
  PROVE  InputInv'
<1>1. /\ Commit(CancelCollection(sh), out)
      /\ line' \in {"off", "editing", "finishing"} /\ crashes' = crashes
  BY DEF FailCollection
<1>2. Good(sh, Seen, out) /\ (sh.link # "up" => out = <<>>)
  BY NothingToRead
<1>3. Good(CancelCollection(sh), Seen, out)
  BY <1>2, CancelGood
<1> QED
  BY <1>1, <1>2, <1>3, CommitInv

\* The stopped worker is gone.
LEMMA FinishStopInv ==
  ASSUME InputInv, FinishStop
  PROVE  InputInv'
<1>1. /\ sh.link = "stopping" /\ sh' = [sh EXCEPT !.link = "none"]
      /\ line' = line /\ wire' = wire /\ phase' = phase /\ namespace' = namespace
      /\ slots' = slots /\ history' = history /\ input' = input /\ out' = out /\ crashes' = crashes
  BY DEF FinishStop, worker, bounds
<1>2. /\ Good(sh, Seen, out) /\ IsShell(sh) /\ Session(sh, Seen, out) /\ Fresh(Seen, out)
      /\ Down(sh, Seen, out)
  BY <1>1, NothingToRead DEF InputInv, Session
<1>3. /\ IsShell(sh') /\ sh'.link = "none" /\ sh'.cur = sh.cur /\ sh'.collect = sh.collect
      /\ sh'.shown = sh.shown /\ sh'.txq = sh.txq /\ sh'.pending = sh.pending
      /\ Typing(sh') = Typing(sh) /\ Tabbing(sh') = Tabbing(sh) /\ Naming(sh') = Naming(sh)
      /\ Counting(sh') = Counting(sh)
  BY <1>1, <1>2 DEF IsShell, Shells, Link, Typing, Tabbing, Naming, Counting
<1>4. Seen' = Seen
  BY <1>1, <1>3 DEF Seen
<1>5. /\ sh'.query = sh.query /\ sh'.env = sh.env /\ sh'.word = sh.word /\ sh'.edited = sh.edited
      /\ sh'.tab = sh.tab /\ sh'.tabGen = sh.tabGen /\ sh'.reuseKey = sh.reuseKey
      /\ sh'.reuse = sh.reuse /\ sh'.dropped = sh.dropped /\ sh'.cache = sh.cache
      /\ sh'.requests = sh.requests /\ sh'.candidates = sh.candidates /\ sh'.inputs = sh.inputs
  BY <1>3 DEF Typing, Tabbing, Naming, Counting
<1>6. Down(sh', Seen', out')
  BY <1>1, <1>2, <1>3, <1>4, <1>5 DEF Down
<1>7. Session(sh', Seen', out')
  BY <1>1, <1>2, <1>3, <1>4, <1>5, <1>6 DEF Session, Visit, Retained
<1>8. Now(sh', Seen', out')
  BY <1>1, <1>2, <1>3, <1>4, <1>5, NowSame DEF Good
<1>9. Good(sh', Seen', out')
  BY <1>2, <1>3, <1>5, <1>7, <1>8 DEF Good, Recorded, AsSent
<1> QED
  BY <1>1, <1>2, <1>3, <1>4, <1>9 DEF InputInv

(***************************************************************************)
(* The steps of the worker, in parts: it takes a frame, changes its input  *)
(* or a slot, and writes a message.                                        *)
(***************************************************************************)
\* All of a session but what the latches name, which a store changes in two
\* parts.
Apart(s, w, o) ==
  /\ IsShell(s) /\ Visit(s) /\ Retained(s, w) /\ o \in Seq(Answer)
  /\ Asked(s) /\ Framed(s, w, Unheard(s, w)) /\ Answered(s, w, o)
  /\ AnsweredFirst(o, Unheard(s, w)) /\ Meanings(s, w)
  /\ Now(s, w, o) /\ Recorded(s) /\ AsSent(s)

\* The two together are all of it.
LEMMA ApartGood ==
  ASSUME NEW s, NEW w, NEW o, s.link = "up"
  PROVE  Good(s, w, o) <=> Apart(s, w, o) /\ Latches(s, w, o)
BY DEF Good, Session, Apart

\* The frames behind the one the worker takes.
LEMMA UnheardTail ==
  ASSUME NEW s, NEW w, NEW v, NEW o, Session(s, w, o), w.wire # <<>>, v.wire = Tail(w.wire)
  PROVE  /\ v.wire \in Seq(Frame) /\ Head(w.wire) \in Frame /\ Head(w.wire) = Unheard(s, w)[1]
         /\ 1 \in DOMAIN Unheard(s, w) /\ IsSeq(Unheard(s, w)) /\ Unheard(s, w) # <<>>
         /\ Unheard(s, v) = Tail(Unheard(s, w))
         /\ \A i \in DOMAIN Unheard(s, v) :
              /\ i \in Nat /\ i + 1 \in DOMAIN Unheard(s, w) /\ 1 < i + 1
              /\ Unheard(s, v)[i] = Unheard(s, w)[i + 1]
<1>1. Unheard(s, w) \in Seq(Frame) /\ w.wire \in Seq(Frame) /\ s.txq \in Seq(Frame)
      /\ IsSeq(Unheard(s, w))
  BY UnheardType
<1> DEFINE a == w.wire
           b == s.txq
<1>2. a \in Seq(Frame) /\ a # <<>> /\ b \in Seq(Frame)
  BY <1>1
<1> HIDE DEF a, b
<1>3. Tail(a) \in Seq(Frame) /\ Head(a) \in Frame
  BY <1>2
<1>4. Head(a) = (a \o b)[1] /\ Tail(a) \o b = Tail(a \o b) /\ a \o b # <<>>
  <2>1. /\ Len(a) \in Nat \ {0} /\ Len(b) \in Nat /\ Len(Tail(a)) = Len(a) - 1
        /\ Head(a) = a[1] /\ \A i \in 1..(Len(a) - 1) : Tail(a)[i] = a[i + 1]
    BY <1>2
  <2>2. /\ a \o b \in Seq(Frame) /\ Len(a \o b) = Len(a) + Len(b)
        /\ \A i \in 1..(Len(a) + Len(b)) : (a \o b)[i] = IF i <= Len(a) THEN a[i] ELSE b[i - Len(a)]
    BY <1>2
  <2>3. /\ Tail(a) \o b \in Seq(Frame) /\ Len(Tail(a) \o b) = Len(a) - 1 + Len(b)
        /\ \A i \in 1..(Len(a) - 1 + Len(b)) :
             (Tail(a) \o b)[i] = IF i <= Len(a) - 1 THEN Tail(a)[i] ELSE b[i - (Len(a) - 1)]
    BY <1>2, <1>3, <2>1
  <2>4. a \o b # <<>> /\ Head(a) = (a \o b)[1]
    BY <2>1, <2>2
  <2>5. /\ Tail(a \o b) \in Seq(Frame) /\ Len(Tail(a \o b)) = Len(a) + Len(b) - 1
        /\ \A i \in 1..(Len(a) + Len(b) - 1) : Tail(a \o b)[i] = (a \o b)[i + 1]
    BY <2>1, <2>2, <2>4
  <2>6. \A i \in 1..(Len(a) + Len(b) - 1) : (Tail(a) \o b)[i] = Tail(a \o b)[i]
    BY <2>1, <2>2, <2>3, <2>5
  <2>7. Tail(a) \o b = Tail(a \o b)
    BY <2>1, <2>3, <2>5, <2>6, SeqEqual
  <2> QED
    BY <2>4, <2>7
<1>5. /\ v.wire = Tail(a) /\ Unheard(s, w) = a \o b /\ Unheard(s, v) = Tail(Unheard(s, w))
      /\ Unheard(s, w) # <<>> /\ Head(w.wire) = Unheard(s, w)[1] /\ Head(w.wire) = Head(a)
  BY <1>4 DEF Unheard, a, b
<1>6. /\ 1 \in DOMAIN Unheard(s, w)
      /\ \A i \in DOMAIN Tail(Unheard(s, w)) :
           /\ i \in Nat /\ i + 1 \in DOMAIN Unheard(s, w) /\ 1 < i + 1
           /\ Tail(Unheard(s, w))[i] = Unheard(s, w)[i + 1]
  BY <1>1, <1>5, TailDomain
<1> QED
  BY <1>1, <1>3, <1>5, <1>6

\* A worker that is ready takes a frame: no other frame is disturbed.
LEMMA TakenGood ==
  ASSUME NEW s, NEW w, NEW v, NEW o, Good(s, w, o), s.link = "up", w.phase = "ready",
         w.wire # <<>>, v.wire = Tail(w.wire), v.phase = w.phase, v.slots = w.slots,
         v.input = w.input, v \in Works
  PROVE  Good(s, v, o)
<1>1. Apart(s, w, o) /\ Latches(s, w, o) /\ Session(s, w, o)
  BY ApartGood DEF Good
<1> DEFINE q == Unheard(s, w)
           r == Unheard(s, v)
<1>2. \A i \in DOMAIN r : i \in Nat /\ i + 1 \in DOMAIN q /\ 1 < i + 1 /\ r[i] = q[i + 1]
  BY <1>1, UnheardTail
<1>3. \A g, d : Holds(s, w, g, d) => Holds(s, v, g, d)
  BY <1>2 DEF Holds
<1>4. Meanings(s, v)
  BY <1>1, <1>3 DEF Apart, Meanings
<1>5. Latches(s, v, o)
  BY <1>1 DEF Latches, HeldOrReplaced
<1>6. Framed(s, v, r)
  <2>1. Framed(s, w, q)
    BY <1>1 DEF Apart
  <2> HIDE DEF q, r
  <2>2. \A i \in DOMAIN r : r[i].kind # "hello"
    BY <1>2, <2>1 DEF Framed
  <2>3. \A i, j \in DOMAIN r : i < j => i + 1 < j + 1
    BY <1>2
  <2>4. \A i \in DOMAIN r : r[i].kind = "input" => r[i].gen > v.input.gen /\ r[i].gen <= s.inputs
    BY <1>2, <2>1 DEF Framed
  <2>5. /\ \A i, j \in DOMAIN r :
             i < j /\ r[i].kind = "input" /\ r[j].kind = "input" => r[i].gen < r[j].gen
        /\ \A i, j \in DOMAIN r : i < j /\ IsRequest(r[i]) /\ IsRequest(r[j]) => r[i].id < r[j].id
    BY <1>2, <2>1, <2>3 DEF Framed
  <2>6. \A i \in DOMAIN r : IsRequest(r[i]) =>
          \E p \in s.pending :
            /\ p.id = r[i].id /\ p.kind = r[i].kind
            /\ p.kind = "store" => p.slot = r[i].slot /\ p.gen = r[i].gen /\ p.bound = r[i].bound
    BY <1>2, <2>1 DEF Framed
  <2>7. \A i \in DOMAIN r, x \in Slot : r[i].kind = "store" => v.slots[x].gen < r[i].gen
    BY <1>2, <2>1 DEF Framed
  <2> QED
    BY <2>2, <2>4, <2>5, <2>6, <2>7 DEF Framed
<1>7. Answered(s, v, o) /\ AnsweredFirst(o, r)
  BY <1>1, <1>2 DEF Apart, Answered, AnsweredFirst
<1>8. Now(s, v, o)
  BY <1>1, <1>2, <1>3 DEF Apart, Now
<1>9. Retained(s, v)
  BY <1>1 DEF Apart, Retained
<1>10. Apart(s, v, o)
  BY <1>1, <1>4, <1>6, <1>7, <1>8, <1>9 DEF Apart
<1> QED
  BY <1>5, <1>10, ApartGood

\* What lets the worker write message e.
Writable(s, w, o, e) ==
  /\ e \in Answer /\ e.kind # "ready"
  /\ IsEvent(e) => e.ref <= w.input.gen
  /\ IsSettle(e) => ~w.input.pending \/ e.ref # w.input.gen
  /\ e.kind = "capture-required" =>
       /\ \A i \in DOMAIN o : IsSettle(o[i]) => o[i].ref # e.ref
       /\ e.ref = s.cur.gen => Owed(s)
  /\ e.kind = "plan-ready" /\ e.ref = s.cur.gen => e.plan.data = Target(s)
  /\ IsResponse(e) =>
       /\ \A i \in DOMAIN o : IsResponse(o[i]) => o[i].ref < e.ref
       /\ \A j \in DOMAIN Unheard(s, w) :
            IsRequest(Unheard(s, w)[j]) => e.ref < Unheard(s, w)[j].id
       /\ \E p \in s.pending : p.id = e.ref

\* The worker writes a message.
LEMMA WrittenApart ==
  ASSUME NEW s, NEW w, NEW o, NEW e, Apart(s, w, o), w.phase = "ready", Writable(s, w, o, e)
  PROVE  Apart(s, w, Append(o, e))
<1> DEFINE x == Append(o, e)
           n == Len(o) + 1
<1>1. IsSeq(o) /\ o \in Seq(Answer) /\ x \in Seq(Answer)
  BY SeqIsSeq DEF Apart, Writable
<1>2. /\ DOMAIN x = DOMAIN o \cup {n} /\ n \in Nat /\ x[n] = e
      /\ \A i \in DOMAIN o : x[i] = o[i] /\ i \in Nat /\ i < n
  BY <1>1, AppendDomain
<1>3. /\ Answered(s, w, o) /\ AnsweredFirst(o, Unheard(s, w)) /\ Now(s, w, o)
  BY DEF Apart
<1> HIDE DEF x, n
<1>4. \A i \in DOMAIN x : \/ i \in DOMAIN o /\ x[i] = o[i] /\ i < n
                          \/ i = n /\ x[i] = e
  BY <1>2
<1>5. Answered(s, w, x)
  <2>1. s.ready \/ o # <<>>
    BY <1>3 DEF Answered
  <2>2. o # <<>> => 1 \in DOMAIN o
    BY <1>1, TailDomain
  <2>3. x # <<>> /\ (~s.ready => x[1].kind = "ready")
    BY <1>1, <1>2, <1>3, <2>1, <2>2, SeqEmpty DEF Answered
  <2>4. \A i \in DOMAIN x : x[i].kind = "ready" => i = 1 /\ ~s.ready
    BY <1>3, <1>4 DEF Answered, Writable
  <2>5. \A i \in DOMAIN x : IsEvent(x[i]) => x[i].ref <= w.input.gen
    BY <1>3, <1>4 DEF Answered, Writable
  <2>6. w.input.pending => \A i \in DOMAIN x : IsSettle(x[i]) => x[i].ref # w.input.gen
    BY <1>3, <1>4 DEF Answered, Writable
  <2>7. \A i, j \in DOMAIN x : i < j => i \in DOMAIN o /\ x[i] = o[i]
    BY <1>2, <1>4
  <2>8. \A i, j \in DOMAIN x : i < j /\ IsSettle(x[i]) /\ x[j].kind = "capture-required" =>
          x[i].ref # x[j].ref
    BY <1>3, <1>4, <2>7 DEF Answered, Writable
  <2>9. \A i, j \in DOMAIN x : i < j /\ IsResponse(x[i]) /\ IsResponse(x[j]) => x[i].ref < x[j].ref
    BY <1>3, <1>4, <2>7 DEF Answered, Writable
  <2>10. \A i \in DOMAIN x : IsResponse(x[i]) => \E p \in s.pending : p.id = x[i].ref
    BY <1>3, <1>4 DEF Answered, Writable
  <2> QED
    BY <1>1, <2>3, <2>4, <2>5, <2>6, <2>8, <2>9, <2>10 DEF Answered
<1>6. AnsweredFirst(x, Unheard(s, w))
  BY <1>3, <1>4 DEF AnsweredFirst, Writable
<1>7. Now(s, w, x)
  <2>1. \A i \in DOMAIN x :
          /\ x[i].kind = "capture-required" /\ x[i].ref = s.cur.gen /\ s.cur.gen # 0 => Owed(s)
          /\ x[i].kind = "plan-ready" /\ x[i].ref = s.cur.gen /\ s.cur.gen # 0 =>
               x[i].plan.data = Target(s)
    BY <1>3, <1>4 DEF Now, Writable
  <2> QED
    BY <1>3, <2>1 DEF Now
<1>8. Apart(s, w, x)
  BY <1>1, <1>5, <1>6, <1>7 DEF Apart
<1> QED
  BY <1>8 DEF x

\* A message that accepts no store leaves the latches what they are.
LEMMA WrittenGood ==
  ASSUME NEW s, NEW w, NEW o, NEW e, Good(s, w, o), s.link = "up", w.phase = "ready",
         Writable(s, w, o, e),
         \A p \in s.pending : p.kind = "store" /\ e.kind = "ok" => p.id # e.ref
  PROVE  Good(s, w, Append(o, e))
<1> DEFINE x == Append(o, e)
           n == Len(o) + 1
<1>1. Apart(s, w, o) /\ Latches(s, w, o)
  BY ApartGood
<1>2. IsSeq(o)
  BY <1>1, SeqIsSeq DEF Apart
<1>3. /\ DOMAIN x = DOMAIN o \cup {n} /\ x[n] = e
      /\ \A i \in DOMAIN o : x[i] = o[i]
  BY <1>2, AppendDomain
<1>4. Apart(s, w, x)
  BY <1>1, WrittenApart
<1> HIDE DEF x, n
<1>5. Accepted(s, x) = Accepted(s, o)
  BY <1>3 DEF Accepted
<1>6. Latches(s, w, x)
  BY <1>1, <1>5 DEF Latches, HeldOrReplaced
<1>7. Good(s, w, x)
  BY <1>4, <1>6, ApartGood
<1> QED
  BY <1>7 DEF x

\* The worker's input changes: its generation stays or becomes that of a
\* frame it took before every input it has not read.
LEMMA InputChanges ==
  ASSUME NEW s, NEW w, NEW v, NEW o, Good(s, w, o), s.link = "up", w.phase = "ready",
         v \in Works, v.wire = w.wire, v.phase = w.phase, v.slots = w.slots,
         v.input.gen = w.input.gen \/ v.input.gen > w.input.gen,
         v.input.gen <= s.inputs, v.input.pending => v.input.gen # 0,
         \A i \in DOMAIN Unheard(s, w) :
           Unheard(s, w)[i].kind = "input" => Unheard(s, w)[i].gen > v.input.gen,
         v.input.pending => v.input.gen > w.input.gen \/ w.input.pending,
         s.cur.gen # 0 /\ v.input.gen = s.cur.gen =>
           v.input.cand = s.cur.cand /\ (v.input.pending => Owed(s))
  PROVE  Good(s, v, o)
<1>1. Apart(s, w, o) /\ Latches(s, w, o)
  BY ApartGood
<1>2. Unheard(s, v) = Unheard(s, w)
  BY DEF Unheard
<1>3. \A g, d : Holds(s, w, g, d) => Holds(s, v, g, d)
  BY <1>2 DEF Holds
<1>4. /\ w.input.gen \in Nat /\ v.input.gen \in Nat
      /\ \A i \in DOMAIN o : IsEvent(o[i]) => o[i].ref \in Nat
      /\ \A i \in DOMAIN o : o[i] \in Answer
  <2>1. w.input.gen \in Gen /\ v.input.gen \in Gen
    BY <1>1 DEF Apart, Retained, Works
  <2>2. \A i \in DOMAIN o : o[i] \in Answer
    BY <1>1 DEF Apart
  <2>3. \A i \in DOMAIN o : IsEvent(o[i]) => o[i].ref \in Id
    BY <2>2, AnswerFields DEF IsEvent
  <2> QED
    BY <2>1, <2>2, <2>3, ConstantTypes DEF Gen, Id
<1>5. Framed(s, v, Unheard(s, v))
  BY <1>1, <1>2 DEF Apart, Framed
<1>6. Answered(s, v, o)
  <2>1. Answered(s, w, o)
    BY <1>1 DEF Apart
  <2>2. \A i \in DOMAIN o : IsEvent(o[i]) => o[i].ref <= v.input.gen
    BY <1>4, <2>1 DEF Answered
  <2>3. v.input.pending => \A i \in DOMAIN o : IsSettle(o[i]) => o[i].ref # v.input.gen
    BY <1>4, <2>1 DEF Answered, IsEvent, IsSettle
  <2> QED
    BY <2>1, <2>2, <2>3 DEF Answered
<1>7. Meanings(s, v)
  BY <1>1, <1>3 DEF Apart, Meanings
<1>8. Latches(s, v, o)
  BY <1>1 DEF Latches, HeldOrReplaced
<1>9. Now(s, v, o)
  BY <1>1, <1>2, <1>3 DEF Apart, Now
<1>10. Retained(s, v)
  BY <1>1 DEF Apart, Retained
<1>11. Apart(s, v, o)
  BY <1>1, <1>2, <1>5, <1>6, <1>7, <1>9, <1>10 DEF Apart
<1> QED
  BY <1>8, <1>11, ApartGood

\* The worker settles its input and says so.
LEMMA SettleGood ==
  ASSUME NEW s, NEW w, NEW v, NEW o, NEW e, Good(s, w, o), s.link = "up", w.phase = "ready",
         w.input.gen # 0, e \in Answer, IsSettle(e), e.ref = w.input.gen,
         e.kind = "capture-required" => w.input.pending,
         e.kind = "plan-ready" /\ e.ref = s.cur.gen => e.plan.data = Target(s),
         v \in Works, v.wire = w.wire, v.phase = w.phase, v.slots = w.slots,
         v.input.gen = w.input.gen, v.input.cand = w.input.cand, v.input.pending = FALSE
  PROVE  Good(s, v, Append(o, e))
<1>1. Apart(s, w, o) /\ Session(s, w, o)
  BY ApartGood DEF Good
<1>2. /\ Framed(s, w, Unheard(s, w)) /\ Answered(s, w, o) /\ Now(s, w, o) /\ Retained(s, w)
      /\ w.input.gen \in Nat
  <2>1. w.input.gen \in Gen
    BY <1>1 DEF Apart, Retained, Works
  <2> QED
    BY <1>1, <2>1 DEF Apart, Gen
<1>3. Good(s, v, o)
  BY <1>2, InputChanges DEF Framed, Now, Retained
<1>4. Writable(s, v, o, e)
  <2>1. e.kind # "ready" /\ ~IsResponse(e) /\ e.ref <= v.input.gen
    BY <1>2 DEF IsSettle, IsResponse
  <2>2. e.kind = "capture-required" =>
          /\ \A i \in DOMAIN o : IsSettle(o[i]) => o[i].ref # e.ref
          /\ e.ref = s.cur.gen => Owed(s)
    BY <1>2 DEF Answered, Now
  <2> QED
    BY <2>1, <2>2 DEF Writable
<1> QED
  BY <1>3, <1>4, WrittenGood DEF IsSettle

\* A plan is of the candidates that a generation names.
LEMMA FoundStored ==
  ASSUME NEW s, NEW w, NEW o, NEW g \in Gen, Session(s, w, o), W!HeldIn(w.slots, g)
  PROVE  /\ W!Found(w.slots, g) \in Stored
         /\ \A d : Holds(s, w, g, d) => W!Found(w.slots, g).data = d
<1>1. /\ g # 0 /\ \E x \in Slot : w.slots[x].gen = g
      /\ w.slots \in [Slot -> Stored \cup {[gen |-> 0, data |-> Nothing]}]
  BY DEF W!HeldIn, W!Slot, Slot, Session, Retained, Works
<1>2. PICK x \in Slot : W!Found(w.slots, g) = w.slots[x] /\ w.slots[x].gen = g
  BY <1>1 DEF W!Found, Slot
<1>3. w.slots[x] \in Stored
  BY <1>1, <1>2
<1> QED
  BY <1>2, <1>3 DEF Holds

\* The settle event for the worker's input against the generation it named.
LEMMA NamedEvent ==
  ASSUME NEW s, NEW w, NEW o, Good(s, w, o), s.link = "up", w.phase = "ready",
         w.input.gen # 0, w.input.pending,
         NEW e, e = W!SettleEvent(w.input, w.slots, w.input.cand)
  PROVE  /\ e \in Answer /\ IsSettle(e) /\ e.ref = w.input.gen
         /\ e.kind = "plan-ready" /\ e.ref = s.cur.gen => e.plan.data = Target(s)
<1>1. Session(s, w, o) /\ Now(s, w, o) /\ Retained(s, w) /\ w \in Works
  BY DEF Good, Session, Retained
<1>2. w.input.gen \in Id /\ w.input.cand \in Gen
  BY <1>1, ConstantTypes DEF Works, Gen, Id
<1>3. CASE W!HeldIn(w.slots, w.input.cand)
  <2> DEFINE f == W!Found(w.slots, w.input.cand)
  <2>1. e = [kind |-> "plan-ready", ref |-> w.input.gen, plan |-> f]
    BY <1>3 DEF W!SettleEvent, W!PlanReady
  <2>2. f \in Stored /\ (\A d : Holds(s, w, w.input.cand, d) => f.data = d)
    BY <1>1, <1>2, <1>3, FoundStored
  <2>3. w.input.cand # 0
    BY <1>3 DEF W!HeldIn
  <2> HIDE DEF f
  <2>4. e.ref = s.cur.gen => f.data = Target(s)
    BY <1>1, <2>1, <2>2, <2>3 DEF Now
  <2>5. e \in Answer
    BY <1>2, <2>1, <2>2 DEF Answer
  <2> QED
    BY <2>1, <2>4, <2>5 DEF IsSettle
<1>4. CASE ~W!HeldIn(w.slots, w.input.cand)
  <2>1. e = [kind |-> "capture-required", ref |-> w.input.gen]
    BY <1>4 DEF W!SettleEvent, W!CaptureRequired
  <2> QED
    BY <1>2, <2>1 DEF Answer, IsSettle
<1> QED
  BY <1>3, <1>4

\* A request that is taken: what was answered came before it, what is unheard
\* comes after it, and it is pending.
LEMMA RequestTaken ==
  ASSUME NEW s, NEW w, NEW v, NEW o, Good(s, w, o), s.link = "up", w.wire # <<>>,
         IsRequest(Head(w.wire)), v.wire = Tail(w.wire)
  PROVE  /\ \A i \in DOMAIN o : IsResponse(o[i]) => o[i].ref < Head(w.wire).id
         /\ \A j \in DOMAIN Unheard(s, v) :
              IsRequest(Unheard(s, v)[j]) => Head(w.wire).id < Unheard(s, v)[j].id
         /\ \E p \in s.pending :
              /\ p.id = Head(w.wire).id /\ p.kind = Head(w.wire).kind
              /\ p.kind = "store" => /\ p.slot = Head(w.wire).slot /\ p.gen = Head(w.wire).gen
                                     /\ p.bound = Head(w.wire).bound
<1> DEFINE q == Unheard(s, w)
           r == Unheard(s, v)
           m == Head(w.wire)
<1>1. Session(s, w, o) /\ Framed(s, w, q) /\ AnsweredFirst(o, q)
  BY DEF Good, Session
<1>2. /\ m = q[1] /\ 1 \in DOMAIN q
      /\ \A i \in DOMAIN r : i + 1 \in DOMAIN q /\ 1 < i + 1 /\ r[i] = q[i + 1]
  BY <1>1, UnheardTail
<1>3. IsRequest(m)
  OBVIOUS
<1> HIDE DEF q, r, m
<1>4. \A i \in DOMAIN o : IsResponse(o[i]) => o[i].ref < m.id
  BY <1>1, <1>2, <1>3 DEF AnsweredFirst
<1>5. \A j \in DOMAIN r : IsRequest(r[j]) => m.id < r[j].id
  BY <1>1, <1>2, <1>3 DEF Framed
<1>6. \E p \in s.pending :
        /\ p.id = m.id /\ p.kind = m.kind
        /\ p.kind = "store" => p.slot = m.slot /\ p.gen = m.gen /\ p.bound = m.bound
  BY <1>1, <1>2, <1>3 DEF Framed
<1> QED
  BY <1>4, <1>5, <1>6 DEF r, m

\* A response to the request that was taken.
LEMMA ReplyWritable ==
  ASSUME NEW s, NEW w, NEW v, NEW o, NEW e, Good(s, w, o), s.link = "up", w.wire # <<>>,
         IsRequest(Head(w.wire)), v.wire = Tail(w.wire),
         e \in Answer, IsResponse(e), e.ref = Head(w.wire).id
  PROVE  Writable(s, v, o, e)
<1>1. /\ \A i \in DOMAIN o : IsResponse(o[i]) => o[i].ref < e.ref
      /\ \A j \in DOMAIN Unheard(s, v) :
           IsRequest(Unheard(s, v)[j]) => e.ref < Unheard(s, v)[j].id
      /\ \E p \in s.pending : p.id = e.ref
  BY RequestTaken
<1>2. e.kind \in {"ok", "error"}
  BY DEF IsResponse
<1>3. e.kind # "ready" /\ ~IsEvent(e) /\ ~IsSettle(e)
      /\ e.kind # "capture-required" /\ e.kind # "plan-ready"
  BY <1>2 DEF IsEvent, IsSettle
<1> QED
  BY <1>1, <1>3 DEF Writable

\* The request is refused, or is not a store.
LEMMA ReplyGood ==
  ASSUME NEW s, NEW w, NEW v, NEW o, NEW e, Good(s, w, o), s.link = "up", w.phase = "ready",
         w.wire # <<>>, IsRequest(Head(w.wire)), e \in Answer, IsResponse(e),
         e.ref = Head(w.wire).id, Head(w.wire).kind = "store" => e.kind # "ok",
         v.wire = Tail(w.wire), v.phase = w.phase, v.slots = w.slots, v.input = w.input, v \in Works
  PROVE  Good(s, v, Append(o, e))
<1>1. Good(s, v, o)
  BY TakenGood
<1>2. Writable(s, v, o, e)
  BY ReplyWritable
<1>3. \A p \in s.pending : p.kind = "store" /\ e.kind = "ok" => p.id # e.ref
  <2>1. PICK p \in s.pending : p.id = Head(w.wire).id /\ p.kind = Head(w.wire).kind
    BY RequestTaken
  <2>2. \A p1, p2 \in s.pending : p1.id = p2.id => p1 = p2
    BY DEF Good, Session, Asked
  <2> QED
    BY <2>1, <2>2
<1> QED
  BY <1>1, <1>2, <1>3, WrittenGood

\* The worker once it took store m and put it into its slot.
Storing(w, m) ==
  [wire |-> Tail(w.wire), phase |-> w.phase, input |-> w.input,
   slots |-> [w.slots EXCEPT ![m.slot] = [gen |-> m.gen, data |-> m.payload]]]

\* What holds of each slot once the store that was taken is accepted.
LEMMA SlotsAfter ==
  ASSUME NEW s, NEW w, NEW v, NEW o, NEW m, Good(s, w, o), s.link = "up", w.phase = "ready",
         w.wire # <<>>, m = Head(w.wire), m.kind = "store", v = Storing(w, m)
  PROVE  /\ m \in Frame /\ m.slot \in Slot /\ m.gen \in Nat /\ m.gen # 0 /\ m.payload \in Capture
         /\ v \in Works /\ Retained(s, v)
         /\ v.slots[m.slot].gen = m.gen
         /\ \A x \in Slot : w.slots[x].gen \in Nat /\ w.slots[x].gen < m.gen
         /\ \A x \in Slot : x # m.slot => v.slots[x] = w.slots[x]
         /\ \A g, d : Holds(s, w, g, d) => Holds(s, v, g, d)
<1>1. Session(s, w, o)
  BY DEF Good
<1>2. v.wire = Tail(w.wire)
  BY DEF Storing
<1>3. /\ v.wire \in Seq(Frame) /\ Head(w.wire) \in Frame /\ Head(w.wire) = Unheard(s, w)[1]
      /\ 1 \in DOMAIN Unheard(s, w)
      /\ \A i \in DOMAIN Unheard(s, v) :
           /\ i \in Nat /\ i + 1 \in DOMAIN Unheard(s, w) /\ 1 < i + 1
           /\ Unheard(s, v)[i] = Unheard(s, w)[i + 1]
  <2>1. /\ v.wire \in Seq(Frame) /\ Head(w.wire) \in Frame /\ Head(w.wire) = Unheard(s, w)[1]
        /\ 1 \in DOMAIN Unheard(s, w)
    BY ONLY w.wire # <<>>, <1>1, <1>2, UnheardTail
  <2>2. \A i \in DOMAIN Unheard(s, v) :
          /\ i \in Nat /\ i + 1 \in DOMAIN Unheard(s, w) /\ 1 < i + 1
          /\ Unheard(s, v)[i] = Unheard(s, w)[i + 1]
    BY ONLY w.wire # <<>>, <1>1, <1>2, UnheardTail
  <2> QED
    BY <2>1, <2>2
<1> DEFINE q == Unheard(s, w)
           r == Unheard(s, v)
           c == [gen |-> m.gen, data |-> m.payload]
           t == [w.slots EXCEPT ![m.slot] = c]
<1>4. Framed(s, w, q) /\ Retained(s, w) /\ w \in Works /\ Asked(s)
  BY <1>1 DEF Session, Retained
<1>5. /\ v.phase = "ready" /\ v.input = w.input /\ v.slots = t
      /\ v = [wire |-> v.wire, phase |-> "ready", slots |-> t, input |-> w.input]
  BY DEF Storing
<1>6. /\ m = q[1] /\ 1 \in DOMAIN q /\ m \in Frame
      /\ \A i \in DOMAIN r : i + 1 \in DOMAIN q /\ r[i] = q[i + 1]
  BY <1>3
<1>7. m.slot \in Slot /\ m.gen \in Id /\ m.payload \in Capture
  BY <1>6, FrameFields
<1>8. m.gen \in Nat /\ m.gen # 0 /\ c \in Stored /\ c.gen = m.gen /\ c.data = m.payload
  BY <1>7, ConstantTypes DEF Id, Stored
<1>9. /\ w.slots \in [Slot -> Stored \cup {[gen |-> 0, data |-> Nothing]}]
      /\ w.input \in [gen : Gen, cand : Gen, resolved : Gen, pending : BOOLEAN]
  BY <1>4 DEF Works
<1>10. \A x \in Slot : w.slots[x].gen \in Nat
  BY <1>9, ConstantTypes DEF Stored, Id
<1>11. \A x \in Slot : w.slots[x].gen < m.gen
  BY <1>4, <1>6 DEF Framed
<1>12. m.gen <= s.candidates
  <2>1. PICK p \in s.pending : p.id = m.id /\ p.kind = "store" /\ p.gen = m.gen
    BY <1>4, <1>6 DEF Framed, IsRequest
  <2> QED
    BY <1>4, <2>1 DEF Asked
<1> HIDE DEF c
<1>13. /\ t \in [Slot -> Stored \cup {[gen |-> 0, data |-> Nothing]}]
       /\ t[m.slot] = c /\ \A x \in Slot : x # m.slot => t[x] = w.slots[x]
  BY <1>7, <1>8, <1>9
<1> HIDE DEF t, q, r
<1>14. v \in Works
  BY <1>3, <1>5, <1>9, <1>13 DEF Works
<1>15. \A x \in Slot : v.slots[x].gen <= s.candidates
  BY <1>4, <1>5, <1>7, <1>8, <1>12, <1>13 DEF Retained
<1>16. v.slots["live"].gen = v.slots["cache"].gen => v.slots["live"].gen = 0
  BY <1>4, <1>5, <1>7, <1>8, <1>10, <1>11, <1>13 DEF Retained, Slot
<1>17. Retained(s, v)
  BY <1>4, <1>5, <1>14, <1>15, <1>16 DEF Retained
<1>18. ASSUME NEW g, NEW d, Holds(s, w, g, d)
       PROVE  Holds(s, v, g, d)
  <2>1. /\ \A x \in Slot : w.slots[x].gen = g => w.slots[x].data = d
        /\ \A i \in DOMAIN q : q[i].kind = "store" /\ q[i].gen = g => q[i].payload = d
    BY <1>18 DEF Holds, q
  <2>2. \A x \in Slot : v.slots[x].gen = g => v.slots[x].data = d
    BY <1>5, <1>6, <1>7, <1>8, <1>13, <2>1
  <2>3. \A i \in DOMAIN r : r[i].kind = "store" /\ r[i].gen = g => r[i].payload = d
    BY <1>6, <2>1
  <2> QED
    BY <2>2, <2>3 DEF Holds, r
<1>19. /\ \A x \in Slot : w.slots[x].gen \in Nat /\ w.slots[x].gen < m.gen
       /\ \A x \in Slot : x # m.slot => v.slots[x] = w.slots[x]
       /\ v.slots[m.slot].gen = m.gen
  BY <1>5, <1>8, <1>10, <1>11, <1>13
<1> QED
  BY ONLY <1>6, <1>7, <1>8, <1>14, <1>17, <1>18, <1>19

\* A store is accepted.
LEMMA StoreGood ==
  ASSUME NEW s, NEW w, NEW v, NEW o, NEW m, Good(s, w, o), s.link = "up", w.phase = "ready",
         w.wire # <<>>, m = Head(w.wire), m.kind = "store", v = Storing(w, m)
  PROVE  Good(s, v, Append(o, [kind |-> "ok", ref |-> m.id]))
<1>1. /\ m \in Frame /\ m.slot \in Slot /\ m.gen \in Nat /\ m.gen # 0 /\ m.payload \in Capture
      /\ v \in Works /\ Retained(s, v)
      /\ v.slots[m.slot].gen = m.gen
      /\ \A x \in Slot : w.slots[x].gen \in Nat /\ w.slots[x].gen < m.gen
      /\ \A x \in Slot : x # m.slot => v.slots[x] = w.slots[x]
      /\ \A g, d : Holds(s, w, g, d) => Holds(s, v, g, d)
  BY SlotsAfter
<1> DEFINE u == [wire |-> Tail(w.wire), phase |-> w.phase, input |-> w.input, slots |-> w.slots]
           e == [kind |-> "ok", ref |-> m.id]
           x == Append(o, e)
           r == Unheard(s, v)
<1>2. v.wire = Tail(w.wire) /\ v.phase = "ready" /\ v.input = w.input
  BY DEF Storing
<1>3. u \in Works
  <2>1. v.wire \in Seq(Frame) /\ w \in Works
    BY <1>1 DEF Works, Good, Session, Retained
  <2> QED
    BY <1>2, <2>1 DEF Works
<1>4. u.wire = v.wire /\ u.phase = "ready" /\ u.input = v.input /\ u.slots = w.slots
  BY <1>2
<1> HIDE DEF u
<1>5. Good(s, u, o)
  BY <1>2, <1>3, <1>4, TakenGood
<1>6. Apart(s, u, o) /\ Latches(s, u, o) /\ Unheard(s, u) = r /\ Session(s, w, o) /\ Framed(s, w, Unheard(s, w))
      /\ Apart(s, w, o) /\ Latches(s, w, o)
  BY <1>4, <1>5, ApartGood DEF Unheard, Good, Session
<1>7. PICK p \in s.pending :
        p.id = m.id /\ p.kind = "store" /\ p.slot = m.slot /\ p.gen = m.gen /\ p.bound = m.bound
  BY RequestTaken, <1>2 DEF IsRequest
<1>8. /\ \A j \in DOMAIN r : IsRequest(r[j]) => m.id < r[j].id
      /\ \A p1, p2 \in s.pending : p1.id = p2.id => p1 = p2
      /\ \A p1, p2 \in s.pending :
           p1.id < p2.id /\ p1.kind = "store" /\ p2.kind = "store" => p1.gen < p2.gen
      /\ \A p1 \in s.pending : p1.gen \in Nat
  <2>1. \A j \in DOMAIN r : IsRequest(r[j]) => m.id < r[j].id
    <3>1. IsRequest(m) /\ m = Head(w.wire) /\ v.wire = Tail(w.wire)
      BY <1>2 DEF IsRequest
    <3>2. \A j \in DOMAIN Unheard(s, v) :
            IsRequest(Unheard(s, v)[j]) => Head(w.wire).id < Unheard(s, v)[j].id
      BY <3>1, RequestTaken
    <3> QED
      BY <3>1, <3>2
  <2>2. Asked(s)
    BY <1>6 DEF Apart
  <2>3. \A p1 \in s.pending : p1.gen \in Gen
    BY <2>2, EntryFields DEF Asked
  <2>4. \A p1 \in s.pending : p1.gen \in Nat
    BY <2>3, ConstantTypes DEF Gen
  <2>5. /\ \A p1, p2 \in s.pending : p1.id = p2.id => p1 = p2
        /\ \A p1, p2 \in s.pending :
             p1.id < p2.id /\ p1.kind = "store" /\ p2.kind = "store" => p1.gen < p2.gen
    BY <2>2 DEF Asked
  <2> QED
    BY ONLY <2>1, <2>4, <2>5
<1> HIDE DEF r
<1>9. Framed(s, v, r)
  <2>1. Framed(s, u, r)
    BY <1>6 DEF Apart
  <2>2. ASSUME NEW i \in DOMAIN r, r[i].kind = "store", NEW y \in Slot
        PROVE  v.slots[y].gen < r[i].gen
    <3>1. PICK p2 \in s.pending : p2.id = r[i].id /\ p2.kind = "store" /\ p2.gen = r[i].gen
      BY <2>1, <2>2 DEF Framed, IsRequest
    <3>2. m.gen < r[i].gen
      BY <1>7, <1>8, <2>2, <3>1 DEF IsRequest
    <3>3. CASE y = m.slot
      BY <1>1, <3>2, <3>3
    <3>4. CASE y # m.slot
      BY <1>1, <1>4, <2>1, <2>2, <3>4 DEF Framed
    <3> QED
      BY <3>3, <3>4
  <2> QED
    BY <1>2, <1>4, <2>1, <2>2 DEF Framed
<1>10. Answered(s, v, o) /\ AnsweredFirst(o, r)
  BY <1>2, <1>4, <1>6 DEF Apart, Answered
<1>11. Meanings(s, v)
  BY <1>1, <1>6 DEF Apart, Meanings
<1>12. Now(s, v, o)
  <2>1. Now(s, u, o) /\ Unheard(s, v) = Unheard(s, u)
    BY <1>6 DEF Apart, r
  <2>2. s.cur.gen # 0 /\ s.cur.cand # 0 => Holds(s, v, s.cur.cand, Target(s))
    BY <1>1, <1>6 DEF Apart, Now
  <2>3. v.input = u.input
    BY <1>4
  <2> QED
    BY ONLY <2>1, <2>2, <2>3 DEF Now
<1>13. Apart(s, v, o)
  BY <1>1, <1>6, <1>9, <1>10, <1>11, <1>12 DEF Apart, r
<1>14. e \in Answer /\ IsResponse(e) /\ e.ref = m.id
  BY <1>1, FrameFields DEF Answer, IsResponse
<1> HIDE DEF e
<1>15. Writable(s, v, o, e)
  BY <1>2, <1>14, ReplyWritable DEF IsRequest
<1>16. Apart(s, v, x)
  BY <1>2, <1>13, <1>15, WrittenApart
<1>17. p \in Accepted(s, x) /\ Accepted(s, o) \subseteq Accepted(s, x)
       /\ \A q \in Accepted(s, x) : q \in Accepted(s, o) \/ q = p
  <2>1. /\ DOMAIN x = DOMAIN o \cup {Len(o) + 1} /\ x[Len(o) + 1] = e
        /\ \A i \in DOMAIN o : x[i] = o[i]
    BY <1>6, SeqIsSeq, AppendDomain DEF Apart
  <2>2. e.kind = "ok"
    BY DEF e
  <2> HIDE DEF x
  <2> QED
    BY <1>7, <1>8, <1>14, <2>1, <2>2 DEF Accepted
<1>18. ASSUME NEW y \in Slot, NEW g \in Nat, HeldOrReplaced(s, w, o, y, g)
       PROVE  HeldOrReplaced(s, v, x, y, g)
  <2>1. CASE y # m.slot
    BY <1>1, <1>17, <1>18, <2>1 DEF HeldOrReplaced
  <2>2. CASE y = m.slot
    <3>1. CASE w.slots[y].gen = g
      BY <1>1, <1>7, <1>17, <2>2, <3>1 DEF HeldOrReplaced
    <3>2. CASE w.slots[y].gen # g
      BY <1>17, <1>18, <3>2 DEF HeldOrReplaced
    <3> QED
      BY <3>1, <3>2
  <2> QED
    BY <2>1, <2>2
<1>19. HeldOrReplaced(s, v, x, p.slot, p.gen)
  BY <1>1, <1>7 DEF HeldOrReplaced
<1>20. Latches(s, v, x)
  <2>1. s.reuse \in Nat /\ s.cache.gen \in Nat
    BY <1>6, ShellFields DEF Apart, Gen
  <2>2. \A q \in Accepted(s, o) : q.slot \in Slot /\ q.gen \in Nat
    BY <1>6, <1>8, EntryFields DEF Apart, Asked, Accepted
  <2>3. \A q \in Accepted(s, x) : HeldOrReplaced(s, v, x, q.slot, q.gen)
    BY <1>6, <1>17, <1>18, <1>19, <2>2 DEF Latches
  <2> HIDE DEF x
  <2>4. /\ s.reuse # 0 => HeldOrReplaced(s, v, x, "live", s.reuse)
        /\ s.cache.gen # 0 => HeldOrReplaced(s, v, x, "cache", s.cache.gen)
    BY <1>6, <1>18, <2>1 DEF Latches, Slot
  <2> QED
    BY <2>3, <2>4 DEF Latches
<1> QED
  BY <1>16, <1>20, ApartGood DEF x, e

(***************************************************************************)
(* The handlers of the worker, as far as the shell has any use for them.   *)
(***************************************************************************)
Retaining == [gen : Gen, cand : Gen, resolved : Gen, pending : BOOLEAN]

\* The worker as it is during a session.
LEMMA SeenUp ==
  ASSUME InputInv, sh.link = "up"
  PROVE  /\ Seen.wire = wire /\ Seen.phase = phase /\ Seen.slots = slots /\ Seen.input = input
         /\ Good(sh, Seen, out) /\ Session(sh, Seen, out) /\ Retained(sh, Seen) /\ Seen \in Works
         /\ IsShell(sh) /\ Framed(sh, Seen, Unheard(sh, Seen)) /\ Answered(sh, Seen, out)
         /\ Now(sh, Seen, out) /\ Asked(sh) /\ out \in Seq(Answer) /\ IsSeq(out)
         /\ wire \in Seq(Frame) /\ phase \in {"awaiting", "ready", "failed"}
         /\ slots \in [Slot -> Stored \cup {[gen |-> 0, data |-> Nothing]}] /\ input \in Retaining
<1>1. Seen.wire = wire /\ Seen.phase = phase /\ Seen.slots = slots /\ Seen.input = input
  BY DEF Seen
<1>2. /\ Good(sh, Seen, out) /\ Session(sh, Seen, out) /\ Retained(sh, Seen) /\ Seen \in Works
      /\ IsShell(sh) /\ Framed(sh, Seen, Unheard(sh, Seen)) /\ Answered(sh, Seen, out)
      /\ Now(sh, Seen, out) /\ Asked(sh) /\ out \in Seq(Answer)
  BY DEF InputInv, Good, Session, Retained
<1>3. IsSeq(out)
  BY <1>2, SeqIsSeq
<1>4. /\ wire \in Seq(Frame) /\ phase \in {"awaiting", "ready", "failed"}
      /\ slots \in [Slot -> Stored \cup {[gen |-> 0, data |-> Nothing]}] /\ input \in Retaining
  BY <1>1, <1>2 DEF Works, Retaining
<1> QED
  BY <1>1, <1>2, <1>3, <1>4

\* A step of the worker that leaves a good state.
LEMMA HeardInv ==
  ASSUME InputInv, sh.link = "up", UNCHANGED <<sh, line, history>>, crashes' = crashes,
         namespace' \in {Nothing, "names"}, phase' # "failed", Good(sh, Seen', out')
  PROVE  InputInv'
BY DEF InputInv

\* The first message of a session.
LEMMA HelloInv ==
  ASSUME InputInv, sh.link = "up", wire # <<>>, wire' = Tail(wire), UNCHANGED <<sh, line, bounds>>,
         W!Hello(Head(wire))
  PROVE  InputInv'
<1> DEFINE q == Unheard(sh, Seen)
           r == Unheard(sh, Seen')
           e == [kind |-> "ready", ref |-> 0]
<1>1. /\ Seen.wire = wire /\ Seen.phase = phase /\ Seen.slots = slots /\ Seen.input = input
      /\ Session(sh, Seen, out) /\ Framed(sh, Seen, q) /\ Answered(sh, Seen, out)
      /\ Now(sh, Seen, out) /\ Retained(sh, Seen) /\ Seen \in Works
      /\ phase = "awaiting" /\ Head(wire) \in Frame
      /\ slots \in [Slot -> Stored \cup {[gen |-> 0, data |-> Nothing]}] /\ input \in Retaining
  BY SeenUp DEF W!Hello
<1>2. Seen'.wire = Tail(Seen.wire) /\ Seen.wire # <<>>
  BY <1>1 DEF Seen
<1>3. \A v : v.wire = Tail(Seen.wire) =>
        /\ Head(wire) = q[1] /\ v.wire \in Seq(Frame) /\ 1 \in DOMAIN q
        /\ \A i \in DOMAIN Unheard(sh, v) :
             /\ i \in Nat /\ i + 1 \in DOMAIN q /\ 1 < i + 1
             /\ Unheard(sh, v)[i] = q[i + 1]
  <2>1. Session(sh, Seen, out) /\ Seen.wire = wire
    BY <1>1
  <2> TAKE v
  <2> HAVE v.wire = Tail(Seen.wire)
  <2>2. Head(wire) = q[1] /\ v.wire \in Seq(Frame) /\ 1 \in DOMAIN q
    BY <1>2, <2>1, UnheardTail
  <2>3. \A i \in DOMAIN Unheard(sh, v) :
          /\ i \in Nat /\ i + 1 \in DOMAIN Unheard(sh, Seen) /\ 1 < i + 1
          /\ Unheard(sh, v)[i] = Unheard(sh, Seen)[i + 1]
    <3>1. /\ IsSeq(Unheard(sh, Seen)) /\ Unheard(sh, Seen) # <<>>
          /\ Unheard(sh, v) = Tail(Unheard(sh, Seen))
      BY <1>2, <2>1, UnheardTail
    <3> QED
      BY <3>1, TailDomain
  <2> QED
    BY <2>2, <2>3
<1>4. /\ Head(wire) = q[1] /\ Seen'.wire \in Seq(Frame) /\ 1 \in DOMAIN q
      /\ \A i \in DOMAIN r : i \in Nat /\ i + 1 \in DOMAIN q /\ 1 < i + 1 /\ r[i] = q[i + 1]
  BY <1>2, <1>3
<1>5. Head(wire).kind = "hello" /\ Head(wire).stamp = "own"
  BY <1>1, <1>4, FrameFields DEF Framed
<1>6. out = <<>> /\ sh.ready = FALSE
  BY <1>1, ShellFields DEF Answered, Session
<1>7. /\ phase' = "ready" /\ out' = Append(out, e) /\ namespace' = namespace /\ slots' = slots
      /\ history' = history /\ input' = input
  BY <1>5 DEF W!Hello, W!Handshake, W!retained
<1>8. /\ Seen'.phase = "ready" /\ Seen'.slots = slots /\ Seen'.input = input
      /\ Seen' = [wire |-> Seen'.wire, phase |-> "ready", slots |-> slots, input |-> input]
  BY <1>7 DEF Seen
<1>9. Seen' \in Works
  BY <1>1, <1>4, <1>8 DEF Works, Retaining
<1>10. e \in Answer /\ e.kind = "ready"
  BY DEF Answer
<1>11. out' \in Seq(Answer) /\ DOMAIN out' = {1} /\ out'[1] = e /\ out' # <<>>
  <2>1. out' = <<e>>
    BY <1>6, <1>7
  <2> HIDE DEF e
  <2> QED
    BY <1>10, <2>1
<1> HIDE DEF q, r, e
<1>12. Framed(sh, Seen', r)
  BY <1>1, <1>4, <1>8 DEF Framed
<1>13. Answered(sh, Seen', out')
  BY <1>1, <1>6, <1>8, <1>10, <1>11 DEF Answered, IsEvent, IsResponse, IsSettle
<1>14. AnsweredFirst(out', r)
  BY <1>10, <1>11 DEF AnsweredFirst, IsResponse
<1>15. \A g, d : Holds(sh, Seen, g, d) => Holds(sh, Seen', g, d)
  BY <1>1, <1>4, <1>8 DEF Holds, q, r
<1>16. Accepted(sh, out) = {} /\ Accepted(sh, out') = {}
  BY <1>6, <1>10, <1>11 DEF Accepted
<1>17. Latches(sh, Seen', out') /\ Meanings(sh, Seen')
  BY <1>1, <1>8, <1>15, <1>16 DEF Session, Latches, HeldOrReplaced, Meanings
<1>18. Retained(sh, Seen')
  BY <1>1, <1>8, <1>9 DEF Retained
<1>19. Session(sh, Seen', out')
  BY <1>1, <1>11, <1>12, <1>13, <1>14, <1>17, <1>18 DEF Session, r
<1>20. Now(sh, Seen', out')
  BY <1>1, <1>4, <1>8, <1>10, <1>11, <1>15 DEF Now, q, r
<1>21. Good(sh, Seen', out')
  BY <1>19, <1>20 DEF Good, InputInv
<1> QED
  BY <1>7, <1>21, HeardInv DEF bounds, InputInv

\* What settling leaves of the input.
LEMMA SettledInput ==
  ASSUME NEW in \in Retaining, NEW store, NEW g \in Gen
  PROVE  /\ W!Settled(in, store, g) \in Retaining
         /\ W!Settled(in, store, g).gen = in.gen /\ W!Settled(in, store, g).cand = in.cand
         /\ W!Settled(in, store, g).pending = FALSE
<1> DEFINE k == IF W!HeldIn(store, g) THEN g ELSE 0
<1>1. k \in Gen
  BY ConstantTypes DEF Gen
<1>2. W!Settled(in, store, g) = [in EXCEPT !.pending = FALSE, !.resolved = k]
  BY DEF W!Settled
<1> HIDE DEF k
<1> QED
  BY <1>1, <1>2 DEF Retaining

\* The worker with other frames to read and another input.
With(wr, in) == [wire |-> wr, phase |-> "ready", slots |-> slots, input |-> in]

\* The fields of that worker.
LEMMA WithFields ==
  ASSUME InputInv, sh.link = "up", NEW wr \in Seq(Frame), NEW in \in Retaining
  PROVE  /\ With(wr, in) \in Works /\ With(wr, in).wire = wr /\ With(wr, in).phase = "ready"
         /\ With(wr, in).slots = slots /\ With(wr, in).input = in
BY SeenUp DEF With, Works, Retaining

\* The worker takes the frame it reads.
LEMMA Taking ==
  ASSUME InputInv, sh.link = "up", wire # <<>>, phase = "ready"
  PROVE  /\ Good(sh, With(Tail(wire), input), out) /\ Tail(wire) \in Seq(Frame)
         /\ Head(wire) \in Frame /\ Head(wire) = Unheard(sh, Seen)[1] /\ 1 \in DOMAIN Unheard(sh, Seen)
         /\ Head(wire).kind # "hello"
<1>1. /\ Seen.wire = wire /\ Seen.phase = "ready" /\ Seen.slots = slots /\ Seen.input = input
      /\ Good(sh, Seen, out) /\ Session(sh, Seen, out) /\ Seen.wire # <<>>
      /\ Framed(sh, Seen, Unheard(sh, Seen)) /\ input \in Retaining
  BY SeenUp
<1>2. Tail(wire) \in Seq(Frame)
  BY <1>1, SeenUp
<1> DEFINE v == With(Tail(wire), input)
<1>3. v \in Works /\ v.wire = Tail(wire) /\ v.phase = "ready" /\ v.slots = slots /\ v.input = input
  BY <1>1, <1>2, WithFields
<1> HIDE DEF v
<1>4. Good(sh, v, out)
  BY <1>1, <1>3, TakenGood
<1>5. Head(wire) \in Frame /\ Head(wire) = Unheard(sh, Seen)[1] /\ 1 \in DOMAIN Unheard(sh, Seen)
  BY <1>1, <1>3, UnheardTail
<1>6. Head(wire).kind # "hello"
  BY <1>1, <1>5 DEF Framed
<1> QED
  BY <1>2, <1>4, <1>5, <1>6 DEF v

\* A settle event for the worker's input, whatever frames it has read.
LEMMA SettlingInv ==
  ASSUME NEW wr \in Seq(Frame), NEW in \in Retaining, NEW o, InputInv, sh.link = "up",
         Good(sh, With(wr, in), o), in.pending, UNCHANGED <<sh, line, history, bounds>>,
         wire' = wr, phase' = "ready", namespace' \in {Nothing, "names"}, slots' = slots,
         input' = W!Settled(in, slots, in.cand),
         out' = Append(o, W!SettleEvent(in, slots, in.cand))
  PROVE  InputInv'
<1> DEFINE u == With(wr, in)
           e == W!SettleEvent(in, slots, in.cand)
<1>1. u \in Works /\ u.wire = wr /\ u.phase = "ready" /\ u.slots = slots /\ u.input = in
  BY WithFields
<1>2. in.cand \in Gen
  BY DEF Retaining
<1>3. /\ input' \in Retaining /\ input'.gen = in.gen /\ input'.cand = in.cand
      /\ input'.pending = FALSE
  BY <1>2, SettledInput
<1>4. Seen' = With(wr, input')
  BY DEF With, Seen
<1>5. /\ Seen' \in Works /\ Seen'.wire = wr /\ Seen'.phase = "ready" /\ Seen'.slots = slots
      /\ Seen'.input = input'
  BY <1>3, <1>4, WithFields
<1> HIDE DEF u
<1>6. Good(sh, u, o)
  BY DEF u
<1>7. u.input.gen # 0 /\ u.input.pending
  BY <1>1, <1>6 DEF Good, Session, Retained
<1>8. e = W!SettleEvent(u.input, u.slots, u.input.cand)
  BY <1>1
<1> HIDE DEF e
<1>9. /\ e \in Answer /\ IsSettle(e) /\ e.ref = u.input.gen
      /\ e.kind = "plan-ready" /\ e.ref = sh.cur.gen => e.plan.data = Target(sh)
  BY <1>1, <1>6, <1>7, <1>8, NamedEvent
<1>10. Good(sh, Seen', Append(o, e))
  BY <1>1, <1>3, <1>5, <1>6, <1>7, <1>9, SettleGood
<1> QED
  BY <1>10, HeardInv DEF e, bounds

\* A flush settles the input it names, if that is still unsettled.
LEMMA AcceptFlushInv ==
  ASSUME InputInv, sh.link = "up", wire # <<>>, wire' = Tail(wire), UNCHANGED <<sh, line, bounds>>,
         W!AcceptFlush(Head(wire))
  PROVE  InputInv'
<1>1. /\ phase = "ready" /\ phase' = phase /\ namespace' = namespace /\ slots' = slots
      /\ history' = history /\ namespace \in {Nothing, "names"}
  BY DEF W!AcceptFlush, InputInv
<1>2. Good(sh, With(Tail(wire), input), out) /\ Tail(wire) \in Seq(Frame) /\ input \in Retaining
  BY <1>1, Taking, SeenUp
<1>3. CASE input.pending /\ input.gen = Head(wire).gen
  <2>1. /\ input' = W!Settled(input, slots, input.cand)
        /\ out' = Append(out, W!SettleEvent(input, slots, input.cand))
    BY <1>3 DEF W!AcceptFlush
  <2> QED
    BY <1>1, <1>2, <1>3, <2>1, SettlingInv DEF bounds
<1>4. CASE ~(input.pending /\ input.gen = Head(wire).gen)
  <2>1. input' = input /\ out' = out
    BY <1>4 DEF W!AcceptFlush
  <2>2. Seen' = With(Tail(wire), input)
    BY <1>1, <2>1 DEF Seen, With
  <2> QED
    BY <1>1, <1>2, <2>1, <2>2, HeardInv DEF bounds
<1> QED
  BY <1>3, <1>4

\* The quiet period ends.
LEMMA SettleExpiredInv ==
  ASSUME InputInv, QuietPeriodEnds
  PROVE  InputInv'
<1>1. /\ sh.link = "up" /\ UNCHANGED <<sh, line, history, bounds>> /\ wire' = wire
      /\ phase = "ready" /\ phase' = "ready" /\ namespace' = namespace /\ slots' = slots
      /\ input.pending /\ input' = W!Settled(input, slots, input.cand)
      /\ out' = Append(out, W!SettleEvent(input, slots, input.cand))
  BY DEF QuietPeriodEnds, W!SettleExpired
<1>2. wire \in Seq(Frame) /\ input \in Retaining /\ namespace' \in {Nothing, "names"}
  BY <1>1, SeenUp DEF InputInv
<1>3. Seen = With(wire, input)
  BY <1>1 DEF Seen, With
<1>4. Good(sh, With(wire, input), out)
  BY <1>1, <1>3, SeenUp
<1> QED
  BY <1>1, <1>2, <1>4, SettlingInv

\* An input is accepted, drawn, and settled at once where it asks for that.
LEMMA AcceptInputInv ==
  ASSUME InputInv, sh.link = "up", wire # <<>>, wire' = Tail(wire), UNCHANGED <<sh, line, bounds>>,
         W!AcceptInput(Head(wire))
  PROVE  InputInv'
<1> DEFINE m == Head(wire)
           in == [gen |-> m.gen, cand |-> m.cand, resolved |-> 0, pending |-> TRUE]
           u == With(Tail(wire), input)
           v == With(Tail(wire), in)
           o == out \o W!Highlight(m.gen)
           q == Unheard(sh, Seen)
<1>1. /\ phase = "ready" /\ m.kind = "input" /\ namespace \in {Nothing, "names"}
      /\ IsSeq(out) /\ out \in Seq(Answer) /\ input \in Retaining
  BY SeenUp DEF W!AcceptInput, InputInv
<1>2. /\ Good(sh, u, out) /\ Tail(wire) \in Seq(Frame) /\ m \in Frame /\ m = q[1] /\ 1 \in DOMAIN q
      /\ Framed(sh, Seen, q) /\ Now(sh, Seen, out)
      /\ Seen.wire = wire /\ Seen.input = input /\ Session(sh, Seen, out)
  BY <1>1, Taking, SeenUp
<1>3. m.gen \in Id /\ m.cand \in Gen /\ m.gen > input.gen /\ m.gen <= sh.inputs
  <2>1. m.gen > input.gen /\ m.gen <= sh.inputs
    BY <1>1, <1>2 DEF Framed
  <2> QED
    BY <1>1, <1>2, <2>1, FrameFields
<1>4. m.gen = sh.cur.gen => m.cand = sh.cur.cand /\ Owed(sh)
  BY <1>1, <1>2, <1>3, ConstantTypes DEF Now, Id
<1>5. in \in Retaining /\ in.gen = m.gen /\ in.cand = m.cand /\ in.pending = TRUE /\ m.gen # 0
  BY <1>3, ConstantTypes DEF Retaining, Id, Gen
<1>6. /\ u.wire = Tail(wire) /\ u.phase = "ready" /\ u.slots = slots /\ u.input = input
      /\ v \in Works /\ v.wire = Tail(wire) /\ v.phase = "ready" /\ v.slots = slots /\ v.input = in
  BY <1>1, <1>2, <1>5, WithFields
<1>7. W!Newer(m)
  BY <1>3 DEF W!Newer
<1> DEFINE now == ~m.quiet \/ W!HeldIn(slots, m.cand)
<1>8. /\ phase' = "ready" /\ namespace' = namespace /\ slots' = slots /\ history' = history
      /\ now => /\ input' = W!Settled(in, slots, m.cand)
                /\ out' = out \o W!Highlight(m.gen) \o <<W!SettleEvent(in, slots, m.cand)>>
      /\ ~now => input' = in /\ out' = out \o W!Highlight(m.gen)
  BY <1>1, <1>7 DEF W!AcceptInput
<1> HIDE DEF u, v, in, now, o, q, m
<1>9. \A i \in DOMAIN Unheard(sh, u) :
        Unheard(sh, u)[i].kind = "input" => Unheard(sh, u)[i].gen > m.gen
  <2>1. IsSeq(q) /\ q # <<>> /\ Unheard(sh, u) = Tail(q)
    <3>1. u.wire = Tail(Seen.wire) /\ Seen.wire # <<>>
      BY <1>2, <1>6
    <3> QED
      BY <1>2, <3>1, UnheardTail DEF q
  <2>2. \A i \in DOMAIN Tail(q) : i + 1 \in DOMAIN q /\ 1 < i + 1 /\ Tail(q)[i] = q[i + 1]
    BY <2>1, TailDomain
  <2> QED
    BY <1>1, <1>2, <2>1, <2>2 DEF Framed
<1>10. Good(sh, v, out)
  <2>1. /\ v.wire = u.wire /\ v.phase = u.phase /\ v.slots = u.slots /\ u.phase = "ready"
        /\ v \in Works
    BY <1>6
  <2>2. /\ v.input.gen > u.input.gen /\ v.input.gen <= sh.inputs /\ v.input.gen # 0
    BY <1>3, <1>5, <1>6
  <2>3. \A i \in DOMAIN Unheard(sh, u) :
          Unheard(sh, u)[i].kind = "input" => Unheard(sh, u)[i].gen > v.input.gen
    BY <1>5, <1>6, <1>9
  <2>4. v.input.gen = sh.cur.gen => v.input.cand = sh.cur.cand /\ Owed(sh)
    BY <1>4, <1>5, <1>6
  <2> QED
    BY ONLY <1>2, <2>1, <2>2, <2>3, <2>4, InputChanges, sh.link = "up"
<1>11. Good(sh, v, o) /\ IsSeq(o)
  <2>1. CASE namespace = Nothing
    <3>1. o = out
      BY <1>1, <2>1, SeqFacts DEF o, W!Highlight
    <3> QED
      BY <1>1, <1>10, <3>1
  <2>2. CASE namespace # Nothing
    <3> DEFINE e == [kind |-> "syntax-highlight", ref |-> m.gen, names |-> "names"]
    <3>1. o = out \o <<e>>
      BY <1>1, <2>2 DEF o, W!Highlight
    <3>2. e \in Answer /\ e.kind = "syntax-highlight" /\ e.ref = m.gen
      BY <1>3 DEF Answer
    <3> HIDE DEF e
    <3>3. o = Append(out, e)
      BY <1>1, <3>1, <3>2
    <3>4. Writable(sh, v, out, e)
      BY <1>5, <1>6, <3>2, <1>3, ConstantTypes DEF Writable, IsEvent, IsSettle, IsResponse, Id
    <3>5. Good(sh, v, Append(out, e))
      BY <1>6, <1>10, <3>2, <3>4, WrittenGood
    <3> QED
      BY <1>1, <3>3, <3>5, SeqAppend
  <2> QED
    BY <2>1, <2>2
<1>12. CASE now
  <2> DEFINE e == W!SettleEvent(in, slots, in.cand)
  <2>1. input' = W!Settled(in, slots, in.cand) /\ out' = o \o <<e>>
    BY <1>5, <1>8, <1>12 DEF o
  <2> HIDE DEF e
  <2>2. o \o <<e>> = Append(o, e)
    <3>1. o \in Seq(ToSet(o))
      BY <1>11 DEF IsSeq
    <3> QED
      BY <3>1
  <2>3. out' = Append(o, W!SettleEvent(in, slots, in.cand))
    BY <2>1, <2>2 DEF e
  <2> QED
    BY <1>1, <1>2, <1>5, <1>8, <1>11, <2>1, <2>3, SettlingInv DEF v, bounds
<1>13. CASE ~now
  <2>1. input' = in /\ out' = o
    BY <1>8, <1>13 DEF o
  <2>2. Seen' = v
    BY <1>8, <2>1 DEF Seen, With, v
  <2> QED
    BY <1>1, <1>8, <1>11, <2>1, <2>2, HeardInv DEF bounds
<1> QED
  BY <1>12, <1>13

\* The namespace arrives.
LEMMA ReplaceNamespaceInv ==
  ASSUME InputInv, sh.link = "up", wire # <<>>, wire' = Tail(wire), UNCHANGED <<sh, line, bounds>>,
         W!ReplaceNamespace(Head(wire))
  PROVE  InputInv'
<1> DEFINE m == Head(wire)
           e == [kind |-> "ok", ref |-> m.id]
           u == With(Tail(wire), input)
<1>1. /\ phase = "ready" /\ m.kind = "namespace-snapshot" /\ input \in Retaining
      /\ Seen.wire = wire /\ Seen.phase = phase /\ Seen.slots = slots /\ Seen.input = input
      /\ Good(sh, Seen, out)
  BY SeenUp DEF W!ReplaceNamespace
<1>2. m \in Frame /\ Tail(wire) \in Seq(Frame)
  BY <1>1, Taking
<1>3. m.id \in Id /\ m.payload = "names" /\ m.payload # Nothing
  BY <1>1, <1>2, FrameFields, ConstantTypes
<1>4. /\ out' = Append(out, e) /\ phase' = "ready" /\ namespace' = "names" /\ slots' = slots
      /\ history' = history /\ input' = input
  BY <1>1, <1>3 DEF W!ReplaceNamespace, W!Respond, W!Ok
<1>5. e \in Answer /\ e.kind = "ok" /\ e.ref = m.id
  BY <1>3 DEF Answer
<1>6. /\ u \in Works /\ u.wire = Tail(wire) /\ u.phase = "ready" /\ u.slots = slots
      /\ u.input = input
  BY <1>1, <1>2, WithFields
<1>7. Seen' = u
  BY <1>4 DEF Seen, With
<1> HIDE DEF u, e
<1>8. Good(sh, u, Append(out, e))
  BY <1>1, <1>5, <1>6, ReplyGood DEF IsRequest, IsResponse
<1> QED
  BY <1>4, <1>7, <1>8, HeardInv DEF bounds

\* A store arrives.
LEMMA StoreCandidatesInv ==
  ASSUME InputInv, sh.link = "up", wire # <<>>, wire' = Tail(wire), UNCHANGED <<sh, line, bounds>>,
         W!StoreCandidates(Head(wire))
  PROVE  InputInv'
<1> DEFINE m == Head(wire)
           u == With(Tail(wire), input)
<1>1. /\ phase = "ready" /\ m.kind = "store" /\ input \in Retaining
      /\ Seen.wire = wire /\ Seen.phase = phase /\ Seen.slots = slots /\ Seen.input = input
      /\ Good(sh, Seen, out) /\ namespace \in {Nothing, "names"}
      /\ IsSeq(out) /\ out \in Seq(Answer)
  BY SeenUp DEF W!StoreCandidates, InputInv
<1>2. /\ m \in Frame /\ Tail(wire) \in Seq(Frame) /\ m = Unheard(sh, Seen)[1]
      /\ 1 \in DOMAIN Unheard(sh, Seen)
  BY <1>1, Taking
<1>3. /\ m.id \in Id /\ m.slot \in Slot /\ m.gen \in Id /\ m.bound \in Id /\ m.payload \in Capture
      /\ m.payload # Nothing
  BY <1>1, <1>2, FrameFields, ConstantTypes
<1>4. namespace' = namespace /\ history' = history
  BY DEF W!StoreCandidates
<1>5. CASE input.gen = 0 \/ input.gen # m.bound
  <2> DEFINE e == [kind |-> "error", ref |-> m.id, code |-> "superseded"]
  <2>1. out' = Append(out, e) /\ phase' = "ready" /\ slots' = slots /\ input' = input
    BY <1>1, <1>5 DEF W!StoreCandidates, W!Respond, W!Refuse
  <2>2. e \in Answer /\ e.kind = "error" /\ e.ref = m.id
    BY <1>3 DEF Answer
  <2>3. /\ u \in Works /\ u.wire = Tail(wire) /\ u.phase = "ready" /\ u.slots = slots
        /\ u.input = input
    BY <1>1, <1>2, WithFields
  <2>4. Seen' = u
    BY <2>1 DEF Seen, With
  <2> HIDE DEF u, e
  <2>5. Good(sh, u, Append(out, e))
    BY <1>1, <2>2, <2>3, ReplyGood DEF IsRequest, IsResponse
  <2> QED
    BY <1>1, <1>4, <2>1, <2>4, <2>5, HeardInv DEF bounds
<1>6. CASE input.gen # 0 /\ input.gen = m.bound
  <2> DEFINE x == Storing(Seen, m)
             a == [kind |-> "ok", ref |-> m.id]
             e == W!SettleEvent(input, x.slots, m.gen)
             o == Append(out, a)
  <2>1. /\ slots' = [slots EXCEPT ![m.slot] = [gen |-> m.gen, data |-> m.payload]]
        /\ input' = W!Settled(input, slots', m.gen)
        /\ out' = out \o <<W!Ok(m.id), W!SettleEvent(input, slots', m.gen)>>
        /\ phase' = "ready"
    BY <1>1, <1>3, <1>6 DEF W!StoreCandidates
  <2>2. /\ x.slots = slots' /\ x.wire = Tail(wire) /\ x.phase = "ready" /\ x.input = input
    BY <1>1, <2>1 DEF Storing
  <2>3. out' = Append(o, e)
    <3>1. out' = out \o <<a, e>>
      BY <2>1, <2>2 DEF W!Ok
    <3> DEFINE S == ToSet(out) \cup {a, e}
    <3>2. out \in Seq(S) /\ a \in S /\ e \in S
      BY <1>1, SeqFacts DEF ToSet
    <3> HIDE DEF a, e, S
    <3> QED
      BY <3>1, <3>2
  <2>4. Good(sh, x, o)
    BY <1>1, StoreGood
  <2>5. /\ x.slots[m.slot].gen = m.gen
        /\ \A d : Holds(sh, Seen, m.gen, d) => Holds(sh, x, m.gen, d)
        /\ x \in Works
    BY <1>1, SlotsAfter
  <2>6. m.gen \in Gen /\ m.gen # 0 /\ input.gen \in Id
    BY <1>1, <1>3, <1>6, ConstantTypes DEF Id, Gen, Retaining
  <2>7. W!HeldIn(x.slots, m.gen)
    BY <1>3, <2>5, <2>6 DEF W!HeldIn, W!Slot, Slot
  <2> DEFINE f == W!Found(x.slots, m.gen)
  <2>8. e = [kind |-> "plan-ready", ref |-> input.gen, plan |-> f]
    BY <2>7 DEF W!SettleEvent, W!PlanReady
  <2> HIDE DEF x, e, o, a
  <2>9. f \in Stored /\ \A d : Holds(sh, x, m.gen, d) => f.data = d
    BY <2>4, <2>6, <2>7, FoundStored DEF Good
  <2>10. f.data = m.payload
    <3>1. \E y \in Slot : f = x.slots[y] /\ x.slots[y].gen = m.gen
      BY <2>7 DEF W!HeldIn, W!Found, W!Slot, Slot
    <3>2. x.slots["live"].gen = x.slots["cache"].gen => x.slots["live"].gen = 0
      BY <2>4 DEF Good, Session, Retained
    <3>3. f = x.slots[m.slot]
      BY <1>3, <2>5, <2>6, <3>1, <3>2 DEF Slot
    <3>4. x.slots[m.slot].data = m.payload
      <4>1. Slot = DOMAIN slots
        BY <1>1 DEF Good, Session, Retained, Works
      <4> QED
        BY <1>3, <2>1, <2>2, <4>1
    <3> QED
      BY <3>3, <3>4
  <2> HIDE DEF f
  <2>11. e \in Answer /\ IsSettle(e) /\ e.ref = input.gen /\ e.kind = "plan-ready" /\ e.plan = f
    BY <2>6, <2>8, <2>9 DEF Answer, IsSettle
  <2>12. e.ref = sh.cur.gen => e.plan.data = Target(sh)
    <3>1. Now(sh, Seen, out)
      BY <1>1 DEF Good
    <3> HIDE DEF m
    <3>2. m.bound = sh.cur.gen /\ sh.cur.gen # 0 => m.payload = Target(sh)
      BY ONLY <1>1, <1>2, <3>1 DEF Now
    <3> QED
      BY <1>6, <2>10, <2>11, <3>2
  <2>13. /\ input' \in Retaining /\ input'.gen = input.gen /\ input'.cand = input.cand
         /\ input'.pending = FALSE
    <3>1. input' = W!Settled(input, x.slots, m.gen)
      BY ONLY <2>1, <2>2
    <3>2. input \in Retaining /\ m.gen \in Gen
      BY <1>1, <2>6
    <3> DEFINE n == W!Settled(input, x.slots, m.gen)
    <3>3. n \in Retaining /\ n.gen = input.gen /\ n.cand = input.cand /\ n.pending = FALSE
      BY ONLY <3>2, SettledInput
    <3> HIDE DEF n
    <3>4. input' = n
      BY <3>1 DEF n
    <3> QED
      BY <3>3, <3>4
  <2>14. /\ Seen' = [wire |-> Tail(wire), phase |-> "ready", slots |-> x.slots, input |-> input']
    BY <2>1, <2>2 DEF Seen
  <2>15. /\ Seen'.wire = x.wire /\ Seen'.phase = x.phase /\ Seen'.slots = x.slots
         /\ Seen'.input = input' /\ Seen' \in Works
    BY <2>2, <2>5, <2>13, <2>14 DEF Works, Retaining
  <2>16. Good(sh, Seen', Append(o, e))
    BY <1>6, <2>2, <2>4, <2>11, <2>12, <2>13, <2>15, SettleGood
  <2> QED
    BY <1>1, <1>4, <2>1, <2>3, <2>16, HeardInv DEF bounds
<1> QED
  BY <1>5, <1>6

\* A worker that dies leaves its FIFOs and its slots as they are.
LEMMA DeadGood ==
  ASSUME NEW s, NEW w, NEW v, NEW o, Good(s, w, o), s.link = "up", v \in Works,
         v.wire = w.wire, v.phase = "failed", v.slots = w.slots, v.input = w.input
  PROVE  Good(s, v, o)
<1>1. Apart(s, w, o) /\ Latches(s, w, o)
  BY ApartGood
<1>2. Unheard(s, v) = Unheard(s, w)
  BY DEF Unheard
<1>3. \A g, d : Holds(s, w, g, d) => Holds(s, v, g, d)
  BY <1>2 DEF Holds
<1>4. Framed(s, v, Unheard(s, v))
  BY <1>1, <1>2 DEF Apart, Framed
<1>5. Answered(s, v, o)
  BY <1>1 DEF Apart, Answered
<1>6. Meanings(s, v) /\ Latches(s, v, o)
  BY <1>1, <1>3 DEF Apart, Meanings, Latches, HeldOrReplaced
<1>7. Now(s, v, o)
  BY <1>1, <1>2, <1>3 DEF Apart, Now
<1>8. Retained(s, v)
  BY <1>1 DEF Apart, Retained
<1>9. Apart(s, v, o)
  BY <1>1, <1>2, <1>4, <1>5, <1>6, <1>7, <1>8 DEF Apart
<1> QED
  BY <1>6, <1>9, ApartGood

\* The worker dies.
LEMMA CrashInv ==
  ASSUME InputInv, Crash
  PROVE  InputInv'
<1>1. /\ sh.link = "up" /\ phase' = "failed" /\ crashes' = crashes + 1
      /\ UNCHANGED <<sh, line, wire, namespace, slots, history, input, out>>
  BY DEF Crash, W!Abort, W!retained
<1>2. /\ Seen.wire = wire /\ Seen.slots = slots /\ Seen.input = input
      /\ Good(sh, Seen, out) /\ Seen \in Works
  BY <1>1, SeenUp
<1>3. Seen' = [wire |-> wire, phase |-> "failed", slots |-> slots, input |-> input]
  BY <1>1 DEF Seen
<1>4. /\ Seen' \in Works /\ Seen'.wire = Seen.wire /\ Seen'.phase = "failed"
      /\ Seen'.slots = Seen.slots /\ Seen'.input = Seen.input
  BY <1>2, <1>3 DEF Works
<1>5. ASSUME NEW v \in Works, v.wire = Seen.wire, v.phase = "failed", v.slots = Seen.slots,
             v.input = Seen.input
      PROVE  Good(sh, v, out)
  BY <1>1, <1>2, <1>5, DeadGood
<1>6. Good(sh', Seen', out')
  BY <1>1, <1>4, <1>5
<1>7. crashes' \in Nat /\ crashes' > 0
  BY <1>1 DEF InputInv
<1> QED
  BY <1>1, <1>6, <1>7 DEF InputInv

\* The worker reads a frame of the shell: the other kinds of message are not
\* among them.
LEMMA WorkerReceivesInv ==
  ASSUME InputInv, WorkerReceives
  PROVE  InputInv'
<1> DEFINE m == Head(wire)
<1>1. /\ sh.link = "up" /\ wire # <<>> /\ wire' = Tail(wire) /\ UNCHANGED <<sh, line, bounds>>
      /\ W!Receive(m)
  BY DEF WorkerReceives
<1>2. phase = "ready" => /\ m \in Frame /\ m.kind # "hello"
  BY <1>1, Taking
<1>3. phase = "ready" =>
        m.kind \notin {"hello", "malformed", "history-snapshot", "history-append", "plan",
                      "completion", "invalid"}
  BY <1>2, FrameFields
<1>4. phase # "discarding"
  BY <1>1, SeenUp
<1>5. W!Hello(m) \/ W!AcceptInput(m) \/ W!AcceptFlush(m) \/ W!ReplaceNamespace(m) \/ W!StoreCandidates(m)
  BY <1>1, <1>3, <1>4
     DEF W!Receive, W!WriteHistory, W!HistoryPlan, W!CompletionPlan, W!InvalidRequest, W!Malformed,
         W!Discard
<1> QED
  BY <1>1, <1>5, HelloInv, AcceptInputInv, AcceptFlushInv, ReplaceNamespaceInv, StoreCandidatesInv

(***************************************************************************)
(* The invariant.                                                          *)
(***************************************************************************)
\* Before the first prompt there is no session.
LEMMA InitInv ==
  ASSUME Init
  PROVE  InputInv
<1> DEFINE e == CHOOSE x \in Envs : TRUE
<1>1. e \in Envs
  BY InputAssumption
<1>2. /\ sh = Shell0 /\ line = "off" /\ wire = <<>> /\ phase = "ended" /\ namespace = Nothing
      /\ slots = NoSlots /\ history = W!HI!NoIndex /\ input = NoWork /\ out = <<>> /\ crashes = 0
  BY DEF Init, W!Slot, W!EmptySlot, W!NoInput, NoSlots, NoWork, Slot
<1>3. /\ Seen.wire = <<>> /\ Seen.phase = "awaiting" /\ Seen.slots = NoSlots /\ Seen.input = NoWork
      /\ Seen = [wire |-> <<>>, phase |-> "awaiting", slots |-> NoSlots, input |-> NoWork]
      /\ sh.link = "none"
  BY <1>2 DEF Seen, Shell0
<1>4. Fresh(Seen, out)
  BY <1>2, <1>3 DEF Fresh
<1>5. sh = [word |-> Empty, env |-> e, edited |-> FALSE,
            cur |-> NoInput, query |-> Empty, tab |-> FALSE, tabGen |-> 0,
            shown |-> NoListing, collect |-> NoCapture,
            reuse |-> 0, reuseKey |-> <<Empty, Nothing>>, dropped |-> 0, cache |-> NoCache,
            link |-> "none", ready |-> FALSE, busy |-> FALSE, txq |-> <<>>, pending |-> {},
            requests |-> 0, candidates |-> 0, inputs |-> 0,
            failures |-> 0, disabled |-> FALSE]
  BY <1>2 DEF Shell0
<1> HIDE DEF e
<1>6. /\ NoInput \in [gen : Gen, cand : Gen, pending : BOOLEAN, latched : BOOLEAN,
                      decor : BOOLEAN, drawn : BOOLEAN]
      /\ NoListing \in Listing /\ NoCapture \in Listing
      /\ NoCache \in [gen : Gen, env : Envs \cup {Nothing}]
      /\ <<Empty, Nothing>> \in Words \X (Envs \cup {Nothing})
      /\ Empty \in Words /\ 0 \in Gen /\ 0 \in Nat /\ <<>> \in Seq(Frame) /\ "none" \in Link
  BY InputAssumption, ConstantTypes DEF NoInput, NoListing, NoCapture, NoCache, Listing, Gen, Link
<1>7. /\ sh.pending = {} /\ sh.txq = <<>> /\ sh.reuse = 0 /\ sh.cache.gen = 0 /\ sh.cur.gen = 0
      /\ sh.cur.pending = FALSE /\ sh.collect.gen = 0 /\ sh.shown.gen = 0 /\ sh.tab = FALSE
      /\ sh.dropped = 0 /\ sh.candidates = 0 /\ sh.inputs = 0
  BY <1>5 DEF NoInput, NoCapture, NoListing, NoCache
<1>8. IsShell(sh)
  <2>1. sh \in Shells({})
    BY <1>1, <1>5, <1>6, Zenon DEF Shells
  <2> QED
    BY <1>7, <2>1 DEF IsShell
<1>9. Seen \in Works
  <2>1. NoSlots \in [Slot -> Stored \cup {[gen |-> 0, data |-> Nothing]}]
    BY DEF NoSlots
  <2>2. NoWork \in [gen : Gen, cand : Gen, resolved : Gen, pending : BOOLEAN]
    BY <1>6 DEF NoWork
  <2> QED
    BY <1>3, <1>6, <2>1, <2>2 DEF Works
<1>10. Retained(sh, Seen)
  BY <1>3, <1>7, <1>9 DEF Retained, NoWork, NoSlots, Slot
<1>11. Session(sh, Seen, out)
  <2>1. out \in Seq(Answer)
    BY <1>2
  <2> QED
    BY <1>3, <1>4, <1>7, <1>8, <1>10, <2>1 DEF Session, Visit, Down
<1>12. Good(sh, Seen, out)
  BY <1>7, <1>11 DEF Good, Now, Recorded, AsSent
<1> QED
  BY <1>2, <1>3, <1>4, <1>12 DEF InputInv

\* Every step keeps the invariant.
LEMMA StepInv ==
  ASSUME InputInv, [Next]_vars
  PROVE  InputInv'
<1>1. CASE UserStep
  <2>1. ASSUME NEW env \in Envs, NewPrompt(env) PROVE InputInv'
    BY <2>1, NewPromptInv
  <2>2. ASSUME NEW w \in Words, Edit(w) PROVE InputInv'
    BY <2>2, EditInv
  <2>3. ASSUME NEW w \in Words, Confirm(w) PROVE InputInv'
    BY <2>3, ConfirmInv
  <2>4. ASSUME NEW act \in TabActs, NEW w \in Words, TabKey(act, w) PROVE InputInv'
    BY <2>4, TabKeyInv
  <2>5. ASSUME Dismiss PROVE InputInv'
    BY <2>5, DismissInv
  <2>6. ASSUME NEW quiet \in Delays, BeginFinish(quiet) PROVE InputInv'
    BY <2>6, BeginFinishInv
  <2> QED
    BY <1>1, <2>1, <2>2, <2>3, <2>4, <2>5, <2>6 DEF UserStep
<1>2. CASE Redraw
  BY <1>2, RedrawInv
<1>3. CASE EndFinish
  BY <1>3, EndFinishInv
<1>4. CASE Reads
  BY <1>4, ReadResponseInv DEF Reads
<1>5. CASE WriterAck
  BY <1>5, WriterAckInv
<1>6. CASE WriterFails
  BY <1>6, SessionFailInv DEF WriterFails, Listening, bounds
<1>7. CASE SessionEof
  BY <1>7, SessionFailInv DEF SessionEof, Listening, bounds
<1>8. CASE Collects
  BY <1>8, FinishCollectionInv DEF Collects
<1>9. CASE FailCollection
  BY <1>9, FailCollectionInv
<1>10. CASE FinishStop
  BY <1>10, FinishStopInv
<1>11. CASE WorkerReceives
  BY <1>11, WorkerReceivesInv
<1>12. CASE QuietPeriodEnds
  BY <1>12, SettleExpiredInv
<1>13. CASE Crash
  BY <1>13, CrashInv
<1>14. CASE UNCHANGED vars
  <2>1. UNCHANGED <<sh, line, wire, phase, namespace, slots, history, input, out, crashes>>
    BY <1>14 DEF vars, worker, bounds
  <2>2. Seen' = Seen
    BY <2>1 DEF Seen
  <2> QED
    BY <2>1, <2>2 DEF InputInv
<1> QED
  BY <1>1, <1>2, <1>3, <1>4, <1>5, <1>6, <1>7, <1>8, <1>9, <1>10, <1>11, <1>12, <1>13, <1>14 DEF Next

\* InputInv is an invariant: together the shell and the worker stay as it
\* says, for all words and environments, however the transport hands frames
\* over and however often the worker dies.
THEOREM InputInvHolds == Spec => []InputInv
<1>1. Init => InputInv
  BY InitInv
<1>2. InputInv /\ [Next]_vars => InputInv'
  BY StepInv
<1> QED
  BY <1>1, <1>2, PTL DEF Spec

(***************************************************************************)
(* What the runs check of a session, for every instance.                   *)
(***************************************************************************)
\* The worker's messages are among those of a session with any peer.
LEMMA AnswerIsWritten == Answer \subseteq W!Written
<1> SUFFICES ASSUME NEW m \in Answer
             PROVE  m \in W!Written
  OBVIOUS
<1>1. Id \subseteq W!Ref /\ 0 \in W!Ref /\ Stored \subseteq W!Stored
  BY ConstantTypes DEF Id, W!Ref, Stored, W!Stored, W!Id
<1>2. CASE m \in [kind : {"ready"}, ref : {0}]
  BY <1>2 DEF W!Written
<1>3. CASE m \in [kind : {"capture-required"}, ref : Id]
  <2>1. m \in [kind : {"capture-required"}, ref : W!Ref]
    BY <1>1, <1>3
  <2> QED
    BY <2>1 DEF W!Written
<1>4. CASE m \in [kind : {"plan-ready"}, ref : Id, plan : Stored]
  <2>1. m \in [kind : {"plan-ready"}, ref : W!Ref, plan : W!Stored]
    BY <1>1, <1>4
  <2> QED
    BY <2>1 DEF W!Written
<1>5. CASE m \in [kind : {"syntax-highlight"}, ref : Id, names : {"names"}]
  <2>1. m \in [kind : {"syntax-highlight"}, ref : W!Ref, names : {"names"}]
    BY <1>1, <1>5
  <2> QED
    BY <2>1 DEF W!Written
<1>6. CASE m \in [kind : {"ok"}, ref : Id]
  <2>1. m \in [kind : {"ok"}, ref : W!Ref]
    BY <1>1, <1>6
  <2> QED
    BY <2>1 DEF W!Written
<1>7. CASE m \in [kind : {"error"}, ref : Id, code : {"superseded"}]
  <2>1. m \in [kind : {"error"}, ref : W!Ref, code : W!ErrorCode]
    BY <1>1, <1>7 DEF W!ErrorCode
  <2> QED
    BY <2>1 DEF W!Written
<1> QED
  BY <1>2, <1>3, <1>4, <1>5, <1>6, <1>7 DEF Answer

\* What InputInv says of both sides outside and inside a session.
LEMMA InvParts ==
  ASSUME InputInv
  PROVE  /\ IsShell(sh) /\ Visit(sh) /\ Now(sh, Seen, out) /\ Recorded(sh) /\ AsSent(sh)
         /\ out \in Seq(Answer) /\ Seen \in Works /\ Seen.wire = wire /\ Seen.slots = slots
         /\ Seen.input = input
         /\ sh.link = "up" => /\ Asked(sh) /\ Answered(sh, Seen, out) /\ Latches(sh, Seen, out)
                              /\ Seen.phase = phase
         /\ sh.link # "up" => /\ phase = "ended" /\ wire = <<>> /\ out = <<>>
                              /\ sh.pending = {} /\ sh.txq = <<>> /\ sh.reuse = 0 /\ sh.cache.gen = 0
<1>1. Seen.wire = wire /\ Seen.slots = slots /\ Seen.input = input /\ (sh.link = "up" => Seen.phase = phase)
  BY DEF Seen
<1>2. Good(sh, Seen, out) /\ Session(sh, Seen, out)
  BY DEF InputInv, Good
<1>3. /\ IsShell(sh) /\ Visit(sh) /\ Now(sh, Seen, out) /\ Recorded(sh) /\ AsSent(sh)
      /\ out \in Seq(Answer) /\ Seen \in Works
  BY <1>2 DEF Good, Session, Retained
<1>4. sh.link = "up" => Asked(sh) /\ Answered(sh, Seen, out) /\ Latches(sh, Seen, out)
  BY <1>2 DEF Session
<1>5. sh.link # "up" => /\ phase = "ended" /\ wire = <<>> /\ out = <<>>
                        /\ sh.pending = {} /\ sh.txq = <<>> /\ sh.reuse = 0 /\ sh.cache.gen = 0
  BY <1>1, <1>2 DEF InputInv, Session, Down, Fresh
<1> QED
  BY <1>1, <1>3, <1>4, <1>5

\* The shell's globals and the worker's state have their types.
THEOREM TypeCorrect == Spec => []TypeOK
<1>1. InputInv => TypeOK
  <2> SUFFICES ASSUME InputInv
               PROVE  TypeOK
    OBVIOUS
  <2>1. /\ IsShell(sh) /\ out \in Seq(Answer) /\ Seen \in Works /\ Seen.slots = slots
        /\ Seen.input = input
        /\ sh.link # "up" => /\ phase = "ended" /\ wire = <<>> /\ out = <<>>
                             /\ sh.pending = {} /\ sh.txq = <<>>
        /\ sh.link = "up" => Seen.phase = phase
    BY InvParts
  <2>2. sh.cur \in [gen : Gen, cand : Gen, pending : BOOLEAN, latched : BOOLEAN,
                    decor : BOOLEAN, drawn : BOOLEAN]
    BY <2>1 DEF IsShell, Shells
  <2>3. Here(sh) \in Capture
    BY <2>1, ShellFields DEF Here, Capture
  <2>4. W!TypeOK
    <3>1. phase \in {"awaiting", "ready", "discarding", "ended", "failed"}
      <4>1. Seen.phase \in {"awaiting", "ready", "failed"}
        BY <2>1 DEF Works
      <4> QED
        BY <2>1, <4>1
    <3>2. namespace \in W!OrBad({"names"})
      BY DEF InputInv, W!OrBad
    <3>3. slots \in [W!Slot -> W!Stored \cup {W!EmptySlot}]
      BY <2>1 DEF Works, W!Slot, Slot, W!Stored, Stored, W!EmptySlot, W!Id, Id
    <3>4. history \in W!HI!Index(W!Ref)
      BY ConstantTypes DEF InputInv, W!HI!NoIndex, W!HI!Index, W!Ref
    <3>5. input \in W!Inputs
      BY <2>1 DEF Works, W!Inputs, W!Ref, Gen
    <3>6. out \in Seq(W!Written)
      BY <2>1, AnswerIsWritten
    <3> QED
      BY <3>1, <3>2, <3>3, <3>4, <3>5, <3>6 DEF W!TypeOK
  <2>5. /\ sh.query \in Words /\ sh.shown \in Listing /\ sh.collect \in Listing
        /\ {sh.tabGen, sh.reuse, sh.requests, sh.candidates, sh.inputs} \subseteq Gen
        /\ sh.cache.gen \in Gen /\ sh.cache.env \in Envs \cup {Nothing} /\ sh.link \in Link
        /\ {sh.tab, sh.edited, sh.ready, sh.busy, sh.disabled} \subseteq BOOLEAN
    BY <2>1, ShellFields
  <2>6. line \in {"off", "editing", "finishing"}
    BY DEF InputInv
  <2> QED
    BY <2>1, <2>2, <2>3, <2>4, <2>5, <2>6 DEF TypeOK
<1> QED
  BY <1>1, InputInvHolds, PTL

\* What is listed for the current input was captured for what is edited.
THEOREM ListingIsForTheInput == Spec => []ListingMatchesInput
<1>1. InputInv => ListingMatchesInput
  <2> SUFFICES ASSUME InputInv, sh.shown.gen = sh.cur.gen, sh.shown.gen # 0, ~sh.edited
               PROVE  sh.shown.data = Here(sh)
    BY DEF ListingMatchesInput
  <2>1. Now(sh, Seen, out) /\ AsSent(sh)
    BY InvParts
  <2>2. sh.shown.data = Target(sh)
    BY <2>1 DEF Now
  <2>3. sh.word = sh.query
    BY <2>1 DEF AsSent
  <2> QED
    BY <2>2, <2>3 DEF Target, Here
<1> QED
  BY <1>1, InputInvHolds, PTL

\* Every input is answered along one path.
THEOREM OnePathPerInput == Spec => []OneAnswerPerInput
<1>1. InputInv => OneAnswerPerInput
  <2> SUFFICES ASSUME InputInv, sh.cur.gen # 0
               PROVE  /\ sh.cur.pending => sh.collect.gen = 0 /\ StoreBound(sh.cur.gen) = {}
                      /\ sh.collect.gen # 0 =>
                           sh.collect.gen = sh.cur.gen /\ StoreBound(sh.cur.gen) = {}
                      /\ Cardinality(StoreBound(sh.cur.gen)) <= 1
    BY DEF OneAnswerPerInput
  <2> DEFINE B == StoreBound(sh.cur.gen)
  <2>1. B = BoundTo(sh, sh.cur.gen)
    BY DEF StoreBound, BoundTo
  <2>2. Now(sh, Seen, out)
    BY InvParts
  <2> HIDE DEF B
  <2>3. /\ sh.cur.pending => sh.collect.gen = 0 /\ B = {}
        /\ sh.collect.gen \in {0, sh.cur.gen} /\ (sh.collect.gen # 0 => B = {})
        /\ \A p, q \in B : p = q
    BY <2>1, <2>2 DEF Now
  <2>4. Cardinality(B) <= 1
    <3>1. CASE B = {}
      BY <3>1, FS_EmptySet
    <3>2. CASE B # {}
      <4>1. PICK p : p \in B
        BY <3>2
      <4>2. B = {p}
        BY <2>3, <4>1
      <4> QED
        BY <4>2, FS_Singleton
    <3> QED
      BY <3>1, <3>2
  <2> QED
    BY <2>3, <2>4 DEF B
<1> QED
  BY <1>1, InputInvHolds, PTL

\* A recorded Tab belongs to the current input.
THEOREM TabIsForCurrent == Spec => []TabForCurrent
<1>1. InputInv => TabForCurrent
  BY InvParts DEF Recorded, TabForCurrent
<1> QED
  BY <1>1, InputInvHolds, PTL

\* The reuse latch names candidates of this visit to the word.
THEOREM LatchIsOfThisVisit == Spec => []LatchFromThisVisit
<1>1. InputInv => LatchFromThisVisit
  BY InvParts DEF Visit, LatchFromThisVisit
<1> QED
  BY <1>1, InputInvHolds, PTL

\* A latch names what the worker holds, or what is about to be replaced.
THEOREM LatchIsHeld == Spec => []LatchHeldUntilReplaced
<1>1. InputInv => LatchHeldUntilReplaced
  <2> SUFFICES ASSUME InputInv
               PROVE  LatchHeldUntilReplaced
    OBVIOUS
  <2>1. CASE sh.link = "up"
    <3>1. Latches(sh, Seen, out) /\ Seen.slots = slots
      BY <2>1, InvParts
    <3>2. \A p \in Accepted(sh, out) : p \in sh.pending /\ p.kind = "store"
      BY DEF Accepted
    <3>3. sh.reuse # 0 => HeldOrReplaced(sh, Seen, out, "live", sh.reuse)
      BY <3>1 DEF Latches
    <3>4. sh.cache.gen # 0 => HeldOrReplaced(sh, Seen, out, "cache", sh.cache.gen)
      BY <3>1 DEF Latches
    <3> QED
      BY <3>1, <3>2, <3>3, <3>4 DEF HeldOrReplaced, LatchHeldUntilReplaced, HeldUntilReplaced
  <2>2. CASE sh.link # "up"
    BY <2>2, InvParts DEF LatchHeldUntilReplaced, HeldUntilReplaced
  <2> QED
    BY <2>1, <2>2
<1> QED
  BY <1>1, InputInvHolds, PTL

\* The shell never makes its own session fail.
THEOREM OnlyACrashFails == Spec => []SessionFailsOnlyByCrash
<1>1. InputInv => SessionFailsOnlyByCrash
  <2> SUFFICES ASSUME InputInv
               PROVE  SessionFailsOnlyByCrash
    OBVIOUS
  <2>1. CASE sh.link = "up"
    <3>1. Answered(sh, Seen, out) /\ out \in Seq(Answer)
      BY <2>1, InvParts
    <3>2. phase = "failed" => crashes > 0
      BY <2>1 DEF InputInv
    <3>3. Len(out) \in Nat /\ DOMAIN out = 1..Len(out) /\ \A i \in 1..Len(out) : out[i] \in Answer
      BY <3>1
    <3>4. ~sh.ready /\ out # <<>> => Head(out).kind = "ready"
      BY <3>1 DEF Answered
    <3>5. ASSUME NEW i \in 1..Len(out)
          PROVE  /\ out[i].kind \in {"ok", "error"} => \E p \in sh.pending : p.id = out[i].ref
                 /\ out[i].kind = "error" => out[i].code = "superseded"
      BY <3>1, <3>3, AnswerFields DEF Answered, IsResponse
    <3> QED
      BY <3>2, <3>4, <3>5 DEF SessionFailsOnlyByCrash
  <2>2. CASE sh.link # "up"
    <3>1. phase = "ended" /\ out = <<>>
      BY <2>2, InvParts
    <3> QED
      BY <3>1 DEF SessionFailsOnlyByCrash
  <2> QED
    BY <2>1, <2>2
<1> QED
  BY <1>1, InputInvHolds, PTL
================================================================================

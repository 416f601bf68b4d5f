--------------------------- MODULE PromptSync_proofs ---------------------------
(***************************************************************************)
(* Proofs about PromptSync: the worker holds the generation the shell      *)
(* would name and the names it last sent, the count of unanswered appends  *)
(* is exact, and the menu shows the shell's history -- for every number of *)
(* commands, requests, failures and unanswered appends, every retention    *)
(* cap, all histories and all names.                                       *)
(***************************************************************************)
EXTENDS PromptSync, SequenceFacts, FiniteSetTheorems

\* The bounds are numbers, and no name is the absence of names.
LEMMA ConstantTypes ==
  MaxUnacked \in Nat /\ None \notin Names /\ Refused \subseteq Names
BY SyncAssumption

(***************************************************************************)
(* The strengthened invariant relates what the shell knows, p, to the      *)
(* requests rs that are under way (the frames it has queued included), to  *)
(* the responses resp, and to the worker.                                  *)
(***************************************************************************)
Kinds == {"namespace", "snapshot", "append", "plan"}

\* Requests and responses pass in the order of their identifiers, and one of
\* the two is under way for every pending request.
Ordered(p, rs, resp) ==
  /\ \A i, j \in DOMAIN rs : i < j => rs[i].id < rs[j].id
  /\ \A i, j \in DOMAIN resp : i < j => resp[i].id < resp[j].id
  /\ \A i \in DOMAIN resp, j \in DOMAIN rs : resp[i].id < rs[j].id
  /\ \A i \in DOMAIN rs : rs[i] \in p.pending
  /\ \A i \in DOMAIN resp : \E q \in p.pending : q.id = resp[i].id
  /\ \A q \in p.pending : \/ \E i \in DOMAIN rs : rs[i] = q
                          \/ \E i \in DOMAIN resp : resp[i].id = q.id
  /\ \A q, r \in p.pending : q.id = r.id => q = r
  /\ \A q \in p.pending : q.id \in 1..p.id /\ q.kind \in Kinds
  /\ ~p.up => p.pending = {}

IsNamespace(r) == r.kind = "namespace"
IsWrite(r)     == r.kind \in {"snapshot", "append"}

(***************************************************************************)
(* The names.  A chain leads from the shell's to the worker's: the         *)
(* signature is that of the payload queued last; the last snapshot under   *)
(* way is the latest one, and carries that payload; and once it has been   *)
(* processed the worker either holds it or has answered with a refusal,    *)
(* which will drop the signature.                                          *)
(***************************************************************************)
Latched(p) ==
  /\ p.latest <= p.id
  /\ (p.queued = None) = (p.latest = 0)
  /\ \A q \in p.pending : q.id = p.latest => IsNamespace(q)

Signed(p) ==
  /\ p.signature # None => p.payload = p.signature
  /\ p.up /\ p.signature # None => p.queued = p.signature
  /\ ~p.up => p.queued = None

LastIsLatest(p, rs) ==
  \A i \in DOMAIN rs : IsNamespace(rs[i]) =>
    \E j \in DOMAIN rs : i <= j /\ rs[j].id = p.latest /\ rs[j].body = p.queued

HeldOrRefused(p, rs, resp, ns) ==
  (p.queued # None /\ \A i \in DOMAIN rs : rs[i].id # p.latest) =>
    ns = p.queued \/ \E i \in DOMAIN resp : resp[i].id = p.latest /\ resp[i].result # "ok"

(***************************************************************************)
(* The history.  The generation the shell would name is that of the last   *)
(* write under way, or of the worker's index when there is none; and every *)
(* write under way will be accepted.                                       *)
(***************************************************************************)
WritesAccepted(p, rs, stamp) ==
  /\ stamp \in 0..p.id
  /\ \A i \in DOMAIN rs : stamp < rs[i].id
  /\ \A i \in DOMAIN rs : rs[i].kind = "append" =>
       stamp # 0 \/ \E j \in DOMAIN rs : j < i /\ rs[j].kind = "snapshot"

LastIsNamed(p, rs, stamp) ==
  p.gen # 0 =>
    \/ stamp = p.gen /\ \A i \in DOMAIN rs : ~IsWrite(rs[i])
    \/ \E j \in DOMAIN rs : /\ IsWrite(rs[j]) /\ rs[j].id = p.gen
                            /\ \A i \in DOMAIN rs : j < i => ~IsWrite(rs[i])

\* All that relates the shell to what is under way and to the worker, but for
\* the signature, which a refresh replaces first.
Linked(p, rs, resp, w) ==
  /\ Ordered(p, rs, resp)
  /\ Latched(p) /\ LastIsLatest(p, rs) /\ HeldOrRefused(p, rs, resp, w.namespace)
  /\ ~p.up => p.gen = 0
  /\ WritesAccepted(p, rs, w.index.stamp) /\ LastIsNamed(p, rs, w.index.stamp)

(***************************************************************************)
(* The count.  Opening the menu may start it anew while appends are        *)
(* unanswered; but then the shell waits for an answer that is behind all   *)
(* of theirs, and until then sends nothing.                                *)
(***************************************************************************)
Appends(p) == {r \in p.pending : r.kind = "append"}

Waiting(p) ==
  p.sync # 0 => /\ \E q \in p.pending : q.id = p.sync
                /\ \A q \in p.pending : q.id <= p.sync
                /\ \A q \in p.pending : q.id = p.sync => q.kind = "plan"

Counted(p) ==
  /\ IsFiniteSet(p.pending)
  /\ Cardinality(Appends(p)) <= MaxUnacked
  /\ p.gen # 0 => p.unacked = Cardinality(Appends(p)) \/ (p.sync # 0 /\ p.unacked = 0)
  /\ Waiting(p)

(***************************************************************************)
(* The record of the shell.  The types of the history and of the menu play *)
(* no part here.                                                           *)
(***************************************************************************)
Shells(p, pending, tx, menu) ==
  [up : BOOLEAN, history : {p.history}, newest : {p.newest}, dropped : {p.dropped},
   gen : Nat, head : {p.head}, count : {p.count}, unacked : Nat,
   names : Names, payload : Names, signature : Names \cup {None},
   queued : Names \cup {None}, latest : Nat,
   pending : {pending}, tx : {tx}, id : Nat, sync : Nat, menu : {menu}]

IsShell(p) == p \in Shells(p, p.pending, p.tx, p.menu)

IsWorker(w) == w \in [index : {w.index}, namespace : {w.namespace}]

SyncInv ==
  /\ IsShell(sh) /\ sh.tx = <<>> /\ IsSeq(requests) /\ IsSeq(responses) /\ IsWorker(worker)
  /\ Linked(sh, requests, responses, worker) /\ Signed(sh) /\ Counted(sh)

(***************************************************************************)
(* What the operators do to the record.                                    *)
(***************************************************************************)
\* The part of the record that the invariant is about.
View(p) == <<p.up, p.gen, p.unacked, p.payload, p.signature, p.queued, p.latest,
             p.pending, p.tx, p.id, p.sync>>

\* Only the latches of the history are reset.
LEMMA HistResetView ==
  ASSUME NEW p, IsShell(p)
  PROVE  /\ IsShell(HistReset(p))
         /\ View(HistReset(p)) = <<p.up, 0, 0, p.payload, p.signature, p.queued, p.latest,
                                   p.pending, p.tx, p.id, p.sync>>
<1>1. IsShell(HistReset(p))
  BY DEF IsShell, Shells, HistReset
<1> QED
  BY <1>1 DEF IsShell, Shells, HistReset, View

\* Latching a generation leaves the count alone.
LEMMA HistLatchView ==
  ASSUME NEW p, IsShell(p), NEW g \in Nat, NEW h, NEW c
  PROVE  /\ IsShell(HistLatch(p, g, h, c))
         /\ View(HistLatch(p, g, h, c)) =
              <<p.up, g, p.unacked, p.payload, p.signature, p.queued, p.latest,
                p.pending, p.tx, p.id, p.sync>>
<1>1. IsShell(HistLatch(p, g, h, c))
  BY DEF IsShell, Shells, HistLatch
<1> QED
  BY <1>1 DEF IsShell, Shells, HistLatch, View

\* Dropping the latches of the namespace leaves the payload.
LEMMA NamespaceLatchDropView ==
  ASSUME NEW p, IsShell(p)
  PROVE  /\ IsShell(NamespaceLatchDrop(p))
         /\ View(NamespaceLatchDrop(p)) = <<p.up, p.gen, p.unacked, p.payload, None, None, 0,
                                            p.pending, p.tx, p.id, p.sync>>
<1>1. IsShell(NamespaceLatchDrop(p))
  BY DEF IsShell, Shells, NamespaceLatchDrop
<1> QED
  BY <1>1 DEF IsShell, Shells, NamespaceLatchDrop, View

\* The end of a session leaves nothing but the payload and the identifier.
LEMMA DownView ==
  ASSUME NEW p, IsShell(p)
  PROVE  /\ IsShell(Down(p))
         /\ View(Down(p)) = <<FALSE, 0, 0, p.payload, None, None, 0, {}, <<>>, p.id, 0>>
<1> DEFINE d == NamespaceLatchDrop(HistReset(p))
<1>1. /\ IsShell(d)
      /\ View(d) = <<p.up, 0, 0, p.payload, None, None, 0, p.pending, p.tx, p.id, p.sync>>
  BY HistResetView, NamespaceLatchDropView DEF View
<1> HIDE DEF d
<1>2. Down(p) = [d EXCEPT !.up = FALSE, !.pending = {}, !.tx = <<>>, !.sync = 0]
  BY DEF Down, d
<1>3. Down(p) \in Shells(d, {}, <<>>, d.menu)
  <2>1. 0 \in Nat
    OBVIOUS
  <2> QED
    BY <1>1, <1>2, <2>1, ZenonT(60) DEF IsShell, Shells
<1>4. IsShell(Down(p))
  BY <1>3 DEF IsShell, Shells
<1> QED
  BY <1>1, <1>2, <1>4 DEF IsShell, Shells, View

\* A request is one more pending request and one more queued frame.
LEMMA RequestView ==
  ASSUME NEW p, IsShell(p), NEW kind, NEW body
  PROVE  LET f == Frame(p.id + 1, kind, body)
         IN  /\ IsShell(Request(p, kind, body))
             /\ View(Request(p, kind, body)) =
                  <<p.up, p.gen, p.unacked, p.payload, p.signature, p.queued, p.latest,
                    p.pending \cup {f}, Append(p.tx, f), p.id + 1, p.sync>>
<1> DEFINE f == Frame(p.id + 1, kind, body)
<1>1. Request(p, kind, body) =
        [p EXCEPT !.id = p.id + 1, !.pending = p.pending \cup {f}, !.tx = Append(p.tx, f)]
  BY DEF Request
<1> HIDE DEF f
<1>2. Request(p, kind, body) \in Shells(p, p.pending \cup {f}, Append(p.tx, f), p.menu)
  <2>1. p.id + 1 \in Nat
    BY DEF IsShell, Shells
  <2> QED
    BY <1>1, <2>1, ZenonT(60) DEF IsShell, Shells
<1>4. IsShell(Request(p, kind, body))
  BY <1>2 DEF IsShell, Shells
<1>3. View(Request(p, kind, body)) =
        <<p.up, p.gen, p.unacked, p.payload, p.signature, p.queued, p.latest,
          p.pending \cup {f}, Append(p.tx, f), p.id + 1, p.sync>>
  BY <1>1, <1>4 DEF IsShell, Shells, View
<1> QED
  BY <1>3, <1>4 DEF f

\* The invariant depends on the view only.
LEMMA SameView ==
  ASSUME NEW p, NEW q, View(p) = View(q), NEW rs, NEW resp, NEW w
  PROVE  /\ Linked(p, rs, resp, w) <=> Linked(q, rs, resp, w)
         /\ Signed(p) <=> Signed(q)
         /\ Counted(p) <=> Counted(q)
<1>1. /\ p.up = q.up /\ p.gen = q.gen /\ p.unacked = q.unacked /\ p.payload = q.payload
      /\ p.signature = q.signature /\ p.queued = q.queued /\ p.latest = q.latest
      /\ p.pending = q.pending /\ p.tx = q.tx /\ p.id = q.id /\ p.sync = q.sync
  BY DEF View
<1> QED
  BY <1>1 DEF Linked, Ordered, Latched, LastIsLatest, HeldOrRefused, WritesAccepted, LastIsNamed,
     Signed, Counted, Appends, Waiting

(***************************************************************************)
(* A frame is queued behind those under way.                               *)
(***************************************************************************)
\* A fresh identifier keeps the order.
LEMMA RequestOrdered ==
  ASSUME NEW p, NEW q, NEW rs, NEW resp, NEW f, IsSeq(rs),
         p.id \in Nat, p.up, Ordered(p, rs, resp),
         f.id = p.id + 1, f.kind \in Kinds,
         q.pending = p.pending \cup {f}, q.id = p.id + 1, q.up = p.up
  PROVE  Ordered(q, Append(rs, f), resp)
<1> DEFINE rs2 == Append(rs, f)
           n   == Len(rs) + 1
<1>1. /\ DOMAIN rs2 = DOMAIN rs \cup {n} /\ rs2[n] = f /\ n \in Nat
      /\ \A i \in DOMAIN rs : rs2[i] = rs[i] /\ i \in Nat /\ i < n
  BY ONLY IsSeq(rs), AppendDomain
<1>2. \A r \in p.pending : r.id \in 1..p.id /\ r.id \in Nat /\ r.id < f.id
  BY DEF Ordered
<1> HIDE DEF rs2, n
<1>3. \A i, j \in DOMAIN rs2 : i < j => rs2[i].id < rs2[j].id
  <2> SUFFICES ASSUME NEW i \in DOMAIN rs2, NEW j \in DOMAIN rs2, i < j
               PROVE  rs2[i].id < rs2[j].id
    OBVIOUS
  <2>1. i \in DOMAIN rs
    BY <1>1
  <2>2. CASE j \in DOMAIN rs
    BY <1>1, <2>1, <2>2 DEF Ordered
  <2>3. CASE j = n
    BY <1>1, <1>2, <2>1, <2>3 DEF Ordered
  <2> QED
    BY <1>1, <2>2, <2>3
<1>4. \A i \in DOMAIN resp, j \in DOMAIN rs2 : resp[i].id < rs2[j].id
  <2> SUFFICES ASSUME NEW i \in DOMAIN resp, NEW j \in DOMAIN rs2
               PROVE  resp[i].id < rs2[j].id
    OBVIOUS
  <2>1. PICK r \in p.pending : r.id = resp[i].id
    BY DEF Ordered
  <2>2. CASE j \in DOMAIN rs
    BY <1>1, <2>2 DEF Ordered
  <2>3. CASE j = n
    BY <1>1, <1>2, <2>1, <2>3
  <2> QED
    BY <1>1, <2>2, <2>3
<1>5. /\ \A i \in DOMAIN rs2 : rs2[i] \in q.pending
      /\ \A i \in DOMAIN resp : \E r \in q.pending : r.id = resp[i].id
      /\ \A r \in q.pending : \/ \E i \in DOMAIN rs2 : rs2[i] = r
                              \/ \E i \in DOMAIN resp : resp[i].id = r.id
  BY <1>1 DEF Ordered
<1>6. /\ \A r, t \in q.pending : r.id = t.id => r = t
      /\ \A r \in q.pending : r.id \in 1..q.id /\ r.kind \in Kinds
  BY <1>2 DEF Ordered
<1>7. \A i, j \in DOMAIN resp : i < j => resp[i].id < resp[j].id
  BY DEF Ordered
<1> QED
  BY <1>3, <1>4, <1>5, <1>6, <1>7 DEF Ordered, rs2

\* A request that is no snapshot of the namespace leaves the chain of the names
\* alone; one that is becomes its end.
LEMMA RequestNames ==
  ASSUME NEW p, NEW q, NEW rs, NEW resp, NEW f, NEW ns, IsSeq(rs),
         p.id \in Nat, p.latest \in Nat, Ordered(p, rs, resp),
         f.id = p.id + 1, q.pending = p.pending \cup {f}, q.id = p.id + 1,
         Latched(p), LastIsLatest(p, rs), HeldOrRefused(p, rs, resp, ns),
         \/ ~IsNamespace(f) /\ q.queued = p.queued /\ q.latest = p.latest
         \/ IsNamespace(f) /\ q.queued = f.body /\ f.body # None /\ q.latest = f.id
  PROVE  /\ Latched(q) /\ LastIsLatest(q, Append(rs, f))
         /\ HeldOrRefused(q, Append(rs, f), resp, ns)
<1> DEFINE rs2 == Append(rs, f)
           n   == Len(rs) + 1
<1>1. /\ DOMAIN rs2 = DOMAIN rs \cup {n} /\ rs2[n] = f /\ n \in Nat
      /\ \A i \in DOMAIN rs : rs2[i] = rs[i] /\ i \in Nat /\ i < n
  BY ONLY IsSeq(rs), AppendDomain
<1>2. \A r \in p.pending : r.id \in 1..p.id /\ r.id \in Nat /\ r.id < f.id
  BY DEF Ordered
<1> HIDE DEF rs2, n
<1>3. CASE ~IsNamespace(f) /\ q.queued = p.queued /\ q.latest = p.latest
  <2>1. f.id # q.latest
    BY <1>3 DEF Latched
  <2>2. Latched(q)
    BY <1>3, <2>1 DEF Latched
  <2>3. LastIsLatest(q, rs2)
    BY <1>1, <1>3 DEF LastIsLatest
  <2>4. HeldOrRefused(q, rs2, resp, ns)
    BY <1>1, <1>3 DEF HeldOrRefused
  <2> QED
    BY <2>2, <2>3, <2>4 DEF rs2
<1>4. CASE IsNamespace(f) /\ q.queued = f.body /\ f.body # None /\ q.latest = f.id
  <2>1. Latched(q)
    BY <1>2, <1>4 DEF Latched
  <2>2. LastIsLatest(q, rs2)
    <3>1. \A i \in DOMAIN rs2 : i <= n
      BY <1>1
    <3> QED
      BY <1>1, <1>4, <3>1 DEF LastIsLatest
  <2>3. HeldOrRefused(q, rs2, resp, ns)
    BY <1>1, <1>4 DEF HeldOrRefused
  <2> QED
    BY <2>1, <2>2, <2>3 DEF rs2
<1> QED
  BY <1>3, <1>4

\* A request that is no write leaves the generation alone; a write names its
\* own, and an append is sent only when a generation is known.
LEMMA RequestHistory ==
  ASSUME NEW p, NEW q, NEW rs, NEW f, NEW stamp, IsSeq(rs),
         p.id \in Nat, p.gen \in Nat,
         f.id = p.id + 1, q.id = p.id + 1,
         WritesAccepted(p, rs, stamp), LastIsNamed(p, rs, stamp),
         \/ ~IsWrite(f) /\ q.gen \in {0, p.gen}
         \/ IsWrite(f) /\ q.gen = f.id /\ (f.kind = "snapshot" \/ p.gen # 0)
  PROVE  WritesAccepted(q, Append(rs, f), stamp) /\ LastIsNamed(q, Append(rs, f), stamp)
<1> DEFINE rs2 == Append(rs, f)
           n   == Len(rs) + 1
<1>1. /\ DOMAIN rs2 = DOMAIN rs \cup {n} /\ rs2[n] = f /\ n \in Nat
      /\ \A i \in DOMAIN rs : rs2[i] = rs[i] /\ i \in Nat /\ i < n
  BY ONLY IsSeq(rs), AppendDomain
<1> HIDE DEF rs2, n
<1>2. /\ stamp \in Nat /\ stamp <= p.id /\ stamp \in 0..q.id
      /\ \A i \in DOMAIN rs2 : stamp < rs2[i].id
  BY <1>1 DEF WritesAccepted
<1>3. \A i \in DOMAIN rs2 : rs2[i].kind = "append" =>
        stamp # 0 \/ \E j \in DOMAIN rs2 : j < i /\ rs2[j].kind = "snapshot"
  <2> SUFFICES ASSUME NEW i \in DOMAIN rs2, rs2[i].kind = "append", stamp = 0
               PROVE  \E j \in DOMAIN rs2 : j < i /\ rs2[j].kind = "snapshot"
    OBVIOUS
  <2>1. CASE i \in DOMAIN rs
    <3>1. PICK j \in DOMAIN rs : j < i /\ rs[j].kind = "snapshot"
      BY <1>1, <2>1 DEF WritesAccepted
    <3> QED
      BY <1>1, <3>1
  <2>2. CASE i = n
    <3>1. p.gen # 0
      BY <1>1, <2>2 DEF IsWrite
    <3>2. PICK j \in DOMAIN rs : IsWrite(rs[j])
      BY <3>1 DEF LastIsNamed
    <3>3. PICK k \in DOMAIN rs : rs[k].kind = "snapshot"
      BY <3>2 DEF WritesAccepted, IsWrite
    <3> QED
      BY <1>1, <2>2, <3>3
  <2> QED
    BY <1>1, <2>1, <2>2
<1>4. LastIsNamed(q, rs2, stamp)
  <2>1. CASE ~IsWrite(f) /\ q.gen = 0
    BY <2>1 DEF LastIsNamed
  <2>2. CASE ~IsWrite(f) /\ q.gen = p.gen
    <3> SUFFICES ASSUME p.gen # 0
                 PROVE  \/ stamp = p.gen /\ \A i \in DOMAIN rs2 : ~IsWrite(rs2[i])
                        \/ \E j \in DOMAIN rs2 : /\ IsWrite(rs2[j]) /\ rs2[j].id = p.gen
                                                 /\ \A i \in DOMAIN rs2 : j < i => ~IsWrite(rs2[i])
      BY <2>2 DEF LastIsNamed
    <3>1. CASE stamp = p.gen /\ \A i \in DOMAIN rs : ~IsWrite(rs[i])
      BY <1>1, <2>2, <3>1
    <3>2. ASSUME NEW j \in DOMAIN rs, IsWrite(rs[j]), rs[j].id = p.gen,
                 \A i \in DOMAIN rs : j < i => ~IsWrite(rs[i])
          PROVE  \E k \in DOMAIN rs2 : /\ IsWrite(rs2[k]) /\ rs2[k].id = p.gen
                                       /\ \A i \in DOMAIN rs2 : k < i => ~IsWrite(rs2[i])
      <4>1. j \in DOMAIN rs2 /\ IsWrite(rs2[j]) /\ rs2[j].id = p.gen
        BY <1>1, <3>2
      <4>2. \A i \in DOMAIN rs2 : j < i => ~IsWrite(rs2[i])
        BY <1>1, <2>2, <3>2
      <4> QED
        BY <4>1, <4>2
    <3> QED
      BY <3>1, <3>2 DEF LastIsNamed
  <2>3. CASE IsWrite(f) /\ q.gen = f.id
    <3>1. \A i \in DOMAIN rs2 : ~(n < i)
      BY <1>1
    <3> QED
      BY <1>1, <2>3, <3>1 DEF LastIsNamed
  <2> QED
    BY <2>1, <2>2, <2>3
<1> QED
  BY <1>2, <1>3, <1>4 DEF WritesAccepted, rs2

(***************************************************************************)
(* What each function of the shell does to the invariant.                  *)
(***************************************************************************)
\* The shell on its way through one action: its frames are queued behind the
\* requests under way.
Good(p) ==
  IsShell(p) /\ IsSeq(p.tx) /\ Linked(p, requests \o p.tx, responses, worker)

\* Only the view counts.
LEMMA GoodView ==
  ASSUME NEW p, NEW q, Good(p), IsShell(q), View(p) = View(q)
  PROVE  Good(q) /\ (Signed(p) => Signed(q)) /\ (Counted(p) => Counted(q))
<1>1. q.tx = p.tx
  BY DEF View
<1> QED
  BY <1>1, SameView DEF Good

\* Forgetting the generation is always allowed.
LEMMA GoodForget ==
  ASSUME NEW p, Good(p)
  PROVE  Good(HistReset(p)) /\ (Signed(p) => Signed(HistReset(p)))
<1> DEFINE q == HistReset(p)
<1>1. /\ IsShell(q) /\ q.up = p.up /\ q.gen = 0 /\ q.payload = p.payload
      /\ q.signature = p.signature /\ q.queued = p.queued /\ q.latest = p.latest
      /\ q.pending = p.pending /\ q.tx = p.tx /\ q.id = p.id
  BY HistResetView DEF Good, View
<1> HIDE DEF q
<1>2. Linked(q, requests \o q.tx, responses, worker)
  <2> DEFINE rs == requests \o p.tx
  <2>1. Linked(p, rs, responses, worker) /\ requests \o q.tx = rs
    BY <1>1 DEF Good
  <2> HIDE DEF rs
  <2>2. Ordered(q, rs, responses)
    BY <1>1, <2>1 DEF Linked, Ordered
  <2>3. Latched(q) /\ LastIsLatest(q, rs) /\ HeldOrRefused(q, rs, responses, worker.namespace)
    BY <1>1, <2>1 DEF Linked, Latched, LastIsLatest, HeldOrRefused
  <2>4. WritesAccepted(q, rs, worker.index.stamp) /\ LastIsNamed(q, rs, worker.index.stamp)
    BY <1>1, <2>1 DEF Linked, WritesAccepted, LastIsNamed
  <2> QED
    BY <1>1, <2>1, <2>2, <2>3, <2>4 DEF Linked
<1> QED
  BY <1>1, <1>2 DEF Good, Signed, q

\* A request of a session that is up, with the latches that go with it.
LEMMA RequestGood ==
  ASSUME IsSeq(requests), NEW p, NEW q, NEW f, Good(p), p.up, IsShell(q),
         f.id = p.id + 1, f.kind \in Kinds, q.up = p.up, q.pending = p.pending \cup {f},
         q.tx = Append(p.tx, f), q.id = p.id + 1,
         \/ ~IsNamespace(f) /\ q.queued = p.queued /\ q.latest = p.latest
         \/ IsNamespace(f) /\ q.queued = f.body /\ f.body # None /\ q.latest = f.id,
         \/ ~IsWrite(f) /\ q.gen \in {0, p.gen}
         \/ IsWrite(f) /\ q.gen = f.id /\ (f.kind = "snapshot" \/ p.gen # 0)
  PROVE  Good(q)
<1> DEFINE rs == requests \o p.tx
<1>1. p.id \in Nat /\ p.latest \in Nat /\ p.gen \in Nat
  BY DEF Good, IsShell, Shells
<1>2. IsSeq(rs) /\ IsSeq(q.tx) /\ requests \o q.tx = Append(rs, f)
  BY SeqConcat, SeqAppend, ConcatAppend DEF Good
<1>3. Linked(p, rs, responses, worker)
  BY DEF Good
<1> HIDE DEF rs
<1>4. Ordered(q, Append(rs, f), responses)
  BY <1>1, <1>2, <1>3, RequestOrdered DEF Linked
<1>5. /\ Latched(q) /\ LastIsLatest(q, Append(rs, f))
      /\ HeldOrRefused(q, Append(rs, f), responses, worker.namespace)
  BY <1>1, <1>2, <1>3, RequestNames DEF Linked
<1>6. /\ WritesAccepted(q, Append(rs, f), worker.index.stamp)
      /\ LastIsNamed(q, Append(rs, f), worker.index.stamp)
  BY <1>1, <1>2, <1>3, RequestHistory DEF Linked
<1> QED
  BY <1>2, <1>4, <1>5, <1>6 DEF Good, Linked

\* A snapshot of the namespace is sent unless it is the one queued last; either
\* way the signature may be that of these names.
LEMMA RequestNamespaceGood ==
  ASSUME IsSeq(requests), NEW p, Good(p), NEW names \in Names,
         p.signature \in {None, names}, p.payload = names, ~p.up => p.queued = None
  PROVE  LET q == RequestNamespace(p, names)
         IN  /\ Good(q) /\ Signed(q)
             /\ q.up = p.up /\ q.gen = p.gen /\ q.unacked = p.unacked /\ q.sync = p.sync
             /\ \/ q.pending = p.pending /\ q.id = p.id
                \/ q.pending = p.pending \cup {Frame(p.id + 1, "namespace", names)} /\ q.id = p.id + 1
<1> DEFINE q == RequestNamespace(p, names)
           f == Frame(p.id + 1, "namespace", names)
           r == Request(p, "namespace", names)
<1>1. CASE ~p.up \/ names = p.queued
  <2>1. q = p
    BY <1>1 DEF RequestNamespace
  <2> QED
    BY <1>1, <2>1 DEF Signed
<1>2. CASE p.up /\ names # p.queued
  <2>1. q = [r EXCEPT !.queued = names, !.latest = p.id + 1]
    BY <1>2 DEF RequestNamespace
  <2>2. /\ IsShell(p) /\ IsShell(r)
        /\ View(r) = <<p.up, p.gen, p.unacked, p.payload, p.signature, p.queued, p.latest,
                       p.pending \cup {f}, Append(p.tx, f), p.id + 1, p.sync>>
    BY RequestView DEF Good
  <2>3. p.id + 1 \in Nat /\ names \in Names \cup {None}
    <3>1. p.id \in Nat
      BY DEF Good, IsShell, Shells
    <3> QED
      BY <3>1
  <2>4. f.id = p.id + 1 /\ f.kind = "namespace" /\ f.body = names
    BY DEF Frame
  <2> HIDE DEF q, f, r
  <2>5. IsShell(q)
    BY <2>1, <2>2, <2>3 DEF IsShell, Shells
  <2>6. /\ q.up = r.up /\ q.gen = r.gen /\ q.unacked = r.unacked /\ q.payload = r.payload
        /\ q.signature = r.signature /\ q.pending = r.pending /\ q.tx = r.tx /\ q.id = r.id
        /\ q.sync = r.sync /\ q.queued = names /\ q.latest = p.id + 1
    BY <2>1, <2>2 DEF IsShell, Shells
  <2>7. /\ q.up = p.up /\ q.gen = p.gen /\ q.unacked = p.unacked /\ q.payload = p.payload
        /\ q.signature = p.signature /\ q.pending = p.pending \cup {f}
        /\ q.tx = Append(p.tx, f) /\ q.id = p.id + 1 /\ q.sync = p.sync
    BY <2>2, <2>6 DEF View
  <2>8. names # None
    BY ConstantTypes
  <2>9. IsNamespace(f) /\ ~IsWrite(f) /\ f.kind \in Kinds
    BY <2>4 DEF IsNamespace, IsWrite, Kinds
  <2>10. Good(q)
    BY <1>2, <2>4, <2>5, <2>6, <2>7, <2>8, <2>9, RequestGood
  <2>11. Signed(q)
    BY <1>2, <2>6, <2>7 DEF Signed
  <2> QED
    BY <2>7, <2>10, <2>11 DEF q, f
<1> QED
  BY <1>1, <1>2

\* A session is brought up with all that belongs to the last one forgotten.
LEMMA EnsureSessionGood ==
  ASSUME IsSeq(requests), IsSeq(responses), NEW p, Good(p), Signed(p)
  PROVE  LET q == EnsureSession(p)
         IN  /\ Good(q) /\ Signed(q) /\ q.up /\ q.sync = p.sync
             /\ q.gen \in {0, p.gen} /\ (q.gen # 0 => q.unacked = p.unacked)
             /\ \/ q.pending = p.pending /\ q.id = p.id
                \/ \E f : /\ f.kind = "namespace" /\ f.id = p.id + 1
                          /\ q.pending = p.pending \cup {f} /\ q.id = p.id + 1
<1> DEFINE q == EnsureSession(p)
           d == NamespaceLatchDrop(HistReset(p))
           r == [d EXCEPT !.up = TRUE]
<1>1. CASE p.up
  BY <1>1 DEF EnsureSession
<1>2. CASE ~p.up
  <2>1. /\ IsShell(d)
        /\ View(d) = <<p.up, 0, 0, p.payload, None, None, 0, p.pending, p.tx, p.id, p.sync>>
    BY HistResetView, NamespaceLatchDropView DEF Good, View
  <2> HIDE DEF d
  <2>2. IsShell(r)
    BY <2>1 DEF IsShell, Shells
  <2>3. View(r) = <<TRUE, 0, 0, p.payload, None, None, 0, p.pending, p.tx, p.id, p.sync>>
    BY <2>1, <2>2 DEF IsShell, Shells, View
  <2> HIDE DEF r
  <2>4. /\ r.up = TRUE /\ r.gen = 0 /\ r.payload = p.payload /\ r.signature = None
        /\ r.queued = None /\ r.latest = 0 /\ r.pending = p.pending /\ r.tx = p.tx
        /\ r.id = p.id /\ r.sync = p.sync
    BY <2>3 DEF View
  <2>5. Good(r)
    <3> DEFINE rs == requests \o p.tx
    <3>1. Linked(p, rs, responses, worker) /\ p.pending = {} /\ requests \o r.tx = rs
      BY <1>2, <2>4 DEF Good, Linked, Ordered
    <3> HIDE DEF rs
    <3>2. DOMAIN rs = {} /\ DOMAIN responses = {}
      BY <3>1 DEF Linked, Ordered
    <3>3. Ordered(r, rs, responses)
      BY <2>4, <3>1, <3>2 DEF Ordered
    <3>4. p.id \in Nat
      BY DEF Good, IsShell, Shells
    <3>5. Latched(r) /\ LastIsLatest(r, rs) /\ HeldOrRefused(r, rs, responses, worker.namespace)
      BY <2>4, <3>1, <3>2, <3>4 DEF Latched, LastIsLatest, HeldOrRefused
    <3>6. WritesAccepted(r, rs, worker.index.stamp) /\ LastIsNamed(r, rs, worker.index.stamp)
      BY <2>4, <3>1, <3>2 DEF Linked, WritesAccepted, LastIsNamed
    <3> QED
      BY <2>2, <2>4, <3>1, <3>3, <3>5, <3>6 DEF Good, Linked
  <2>6. q = RequestNamespace(r, p.payload) /\ p.payload \in Names
    BY <1>2 DEF EnsureSession, r, d, Good, IsShell, Shells
  <2> HIDE DEF q
  <2>7. /\ Good(q) /\ Signed(q)
        /\ q.up = r.up /\ q.gen = r.gen /\ q.unacked = r.unacked /\ q.sync = r.sync
        /\ \/ q.pending = r.pending /\ q.id = r.id
           \/ /\ q.pending = r.pending \cup {Frame(r.id + 1, "namespace", p.payload)}
              /\ q.id = r.id + 1
    BY <2>4, <2>5, <2>6, RequestNamespaceGood
  <2>8. /\ Frame(r.id + 1, "namespace", p.payload).kind = "namespace"
        /\ Frame(r.id + 1, "namespace", p.payload).id = r.id + 1
    BY DEF Frame
  <2> QED
    BY <2>4, <2>7, <2>8 DEF q
<1> QED
  BY <1>1, <1>2

\* A request that is no append is not counted.
LEMMA UncountedRequest ==
  ASSUME NEW p, NEW q, NEW f, Counted(p), p.sync = 0, q.sync = 0, f.kind # "append",
         q.pending = p.pending \/ q.pending = p.pending \cup {f},
         q.gen # 0 => p.gen # 0 /\ q.unacked = p.unacked
  PROVE  Counted(q)
<1>1. Appends(q) = Appends(p)
  BY DEF Appends
<1>2. IsFiniteSet(q.pending)
  BY FS_AddElement DEF Counted
<1> QED
  BY <1>1, <1>2 DEF Counted, Waiting

\* The history latches follow the history, or an append is sent.
LEMMA HistReconcileGood ==
  ASSUME IsSeq(requests), NEW p, Good(p), Signed(p), Counted(p), p.sync = 0
  PROVE  LET q == HistReconcile(p)
         IN  Good(q) /\ Signed(q) /\ Counted(q) /\ q.sync = 0
<1> DEFINE q == HistReconcile(p)
<1>1. IsShell(p) /\ p.gen \in Nat /\ p.id \in Nat /\ p.unacked \in Nat
  BY DEF Good, IsShell, Shells
<1>2. CASE q = p
  BY <1>2
<1>3. CASE q = HistReset(p)
  <2>1. q.gen = 0 /\ q.pending = p.pending /\ q.sync = 0
    BY <1>1, <1>3, HistResetView DEF View
  <2>2. Counted(q)
    BY <2>1 DEF Counted, Waiting, Appends
  <2> QED
    BY <1>3, <2>1, <2>2, GoodForget
<1>4. CASE q = HistLatch(p, p.gen, p.newest, Len(p.history))
  <2>1. IsShell(q) /\ View(q) = View(p)
    BY <1>1, <1>4, HistLatchView DEF View
  <2>2. q.sync = p.sync
    BY <2>1 DEF View
  <2> QED
    BY <2>1, <2>2, GoodView
<1>5. CASE /\ p.gen # 0 /\ p.up /\ p.unacked < MaxUnacked
           /\ q = [HistLatch(Request(p, "append", Head(p.history)), p.id + 1, p.newest, Len(p.history))
                     EXCEPT !.unacked = @ + 1]
  <2> DEFINE f == Frame(p.id + 1, "append", Head(p.history))
             r == Request(p, "append", Head(p.history))
             s == HistLatch(r, p.id + 1, p.newest, Len(p.history))
  <2>1. /\ IsShell(r)
        /\ View(r) = <<p.up, p.gen, p.unacked, p.payload, p.signature, p.queued, p.latest,
                       p.pending \cup {f}, Append(p.tx, f), p.id + 1, p.sync>>
    BY <1>1, RequestView
  <2> HIDE DEF r, f
  <2>0. p.gen # 0 /\ p.up /\ p.unacked < MaxUnacked /\ p.id + 1 \in Nat
    BY <1>1, <1>5
  <2>2. /\ IsShell(s)
        /\ View(s) = <<r.up, p.id + 1, r.unacked, r.payload, r.signature, r.queued, r.latest,
                       r.pending, r.tx, r.id, r.sync>>
    BY ONLY <2>0, <2>1, HistLatchView
  <2>3. q = [s EXCEPT !.unacked = s.unacked + 1]
    BY <1>5 DEF s, r
  <2>4. s.up = p.up /\ s.gen = p.id + 1 /\ s.unacked = p.unacked /\ s.payload = p.payload
        /\ s.signature = p.signature /\ s.queued = p.queued /\ s.latest = p.latest
        /\ s.pending = p.pending \cup {f} /\ s.tx = Append(p.tx, f) /\ s.id = p.id + 1
        /\ s.sync = p.sync
    BY <2>1, <2>2 DEF View
  <2> HIDE DEF s, q
  <2>5. s.unacked + 1 \in Nat
    BY <1>1, <2>4
  <2>6. IsShell(q)
    BY <2>2, <2>3, <2>5 DEF IsShell, Shells
  <2>7. /\ q.up = s.up /\ q.gen = s.gen /\ q.unacked = s.unacked + 1 /\ q.payload = s.payload
        /\ q.signature = s.signature /\ q.queued = s.queued /\ q.latest = s.latest
        /\ q.pending = s.pending /\ q.tx = s.tx /\ q.id = s.id /\ q.sync = s.sync
    BY <2>2, <2>3, <2>5 DEF IsShell, Shells
  <2>8. f.id = p.id + 1 /\ f.kind = "append"
    BY DEF f, Frame
  <2>9. ~IsNamespace(f) /\ IsWrite(f) /\ f.kind \in Kinds
    BY <2>8 DEF IsNamespace, IsWrite, Kinds
  <2>10. Good(q)
    <3>1. /\ q.up = p.up /\ q.gen = f.id /\ q.queued = p.queued /\ q.latest = p.latest
          /\ q.pending = p.pending \cup {f} /\ q.tx = Append(p.tx, f) /\ q.id = p.id + 1
      BY <2>4, <2>7, <2>8
    <3> QED
      BY ONLY IsSeq(requests), Good(p), <2>0, <2>6, <2>8, <2>9, <3>1, RequestGood
  <2>11. Signed(q)
    BY <2>4, <2>7 DEF Signed
  <2>12. Counted(q)
    <3>1. Appends(q) = Appends(p) \cup {f} /\ f \notin Appends(p)
      <4>1. \A t \in p.pending : t.id \in 1..p.id
        BY DEF Good, Linked, Ordered
      <4>2. f \notin p.pending
        BY <1>1, <2>8, <4>1
      <4> QED
        BY <2>4, <2>7, <2>8, <4>2 DEF Appends
    <3>2. IsFiniteSet(p.pending) /\ IsFiniteSet(Appends(p)) /\ Appends(p) \subseteq p.pending
      <4>1. Appends(p) \subseteq p.pending /\ IsFiniteSet(p.pending)
        BY DEF Appends, Counted
      <4> QED
        BY <4>1, FS_Subset
    <3>3. IsFiniteSet(q.pending)
      BY <2>4, <2>7, <3>2, FS_AddElement
    <3>4. Cardinality(Appends(q)) = Cardinality(Appends(p)) + 1
      BY <3>1, <3>2, FS_AddElement
    <3>5. p.unacked = Cardinality(Appends(p))
      BY <2>0 DEF Counted
    <3>6. Cardinality(Appends(q)) <= MaxUnacked /\ q.unacked = Cardinality(Appends(q))
      BY <1>1, <2>0, <2>4, <2>7, <3>4, <3>5, ConstantTypes
    <3> QED
      BY <2>4, <2>7, <3>3, <3>6 DEF Counted, Waiting
  <2> QED
    BY <2>4, <2>7, <2>10, <2>11, <2>12 DEF q
<1>6. p.gen # 0 /\ p.up /\ ~(p.unacked >= MaxUnacked) => p.unacked < MaxUnacked
  BY <1>1, ConstantTypes
<1> QED
  BY <1>2, <1>3, <1>4, <1>5, <1>6 DEF HistReconcile

\* The names are looked at, and sent if they changed.
LEMMA NamespaceRefreshGood ==
  ASSUME IsSeq(requests), NEW p, Good(p), Signed(p), Counted(p), p.sync = 0
  PROVE  LET q == NamespaceRefresh(p)
         IN  Good(q) /\ Signed(q) /\ Counted(q) /\ q.sync = 0
<1> DEFINE q == NamespaceRefresh(p)
           r == [p EXCEPT !.signature = p.names, !.payload = p.names]
<1>1. CASE p.signature = p.names
  BY <1>1 DEF NamespaceRefresh
<1>2. CASE p.signature # p.names
  <2>1. IsShell(p) /\ p.names \in Names /\ p.names \in Names \cup {None}
    BY DEF Good, IsShell, Shells
  <2>2. IsShell(r)
    BY <2>1 DEF IsShell, Shells
  <2>3. /\ r.up = p.up /\ r.gen = p.gen /\ r.unacked = p.unacked /\ r.queued = p.queued
        /\ r.latest = p.latest /\ r.pending = p.pending /\ r.tx = p.tx /\ r.id = p.id
        /\ r.sync = p.sync /\ r.signature = p.names /\ r.payload = p.names
    BY <2>1 DEF IsShell, Shells
  <2>4. q = RequestNamespace(r, p.names)
    BY <1>2 DEF NamespaceRefresh
  <2> HIDE DEF r, q
  <2>5. Good(r)
    <3> DEFINE rs == requests \o p.tx
    <3>1. Linked(p, rs, responses, worker) /\ requests \o r.tx = rs
      BY <2>3 DEF Good
    <3> HIDE DEF rs
    <3>2. Ordered(r, rs, responses)
      BY <2>3, <3>1 DEF Linked, Ordered
    <3>3. Latched(r) /\ LastIsLatest(r, rs) /\ HeldOrRefused(r, rs, responses, worker.namespace)
      BY <2>3, <3>1 DEF Linked, Latched, LastIsLatest, HeldOrRefused
    <3>4. WritesAccepted(r, rs, worker.index.stamp) /\ LastIsNamed(r, rs, worker.index.stamp)
      BY <2>3, <3>1 DEF Linked, WritesAccepted, LastIsNamed
    <3> QED
      BY <2>2, <2>3, <3>1, <3>2, <3>3, <3>4 DEF Good, Linked
  <2>6. ~r.up => r.queued = None
    BY <2>3 DEF Signed
  <2>7. /\ Good(q) /\ Signed(q)
        /\ q.up = r.up /\ q.gen = r.gen /\ q.unacked = r.unacked /\ q.sync = r.sync
        /\ \/ q.pending = r.pending /\ q.id = r.id
           \/ /\ q.pending = r.pending \cup {Frame(r.id + 1, "namespace", p.names)}
              /\ q.id = r.id + 1
    BY <2>1, <2>3, <2>4, <2>5, <2>6, RequestNamespaceGood
  <2>8. Frame(r.id + 1, "namespace", p.names).kind # "append"
    BY DEF Frame
  <2>9. Counted(q)
    BY <2>3, <2>7, <2>8, UncountedRequest
  <2> QED
    BY <2>3, <2>7, <2>9 DEF q
<1> QED
  BY <1>1, <1>2

\* What is done before a prompt.
LEMMA PrecmdGood ==
  ASSUME IsSeq(requests), NEW p, Good(p), Signed(p), Counted(p), p.sync = 0
  PROVE  Good(Precmd(p)) /\ Signed(Precmd(p)) /\ Counted(Precmd(p))
BY HistReconcileGood, NamespaceRefreshGood DEF Precmd

\* The history, the names and the menu are no part of the view.
LEMMA ChangedView ==
  ASSUME NEW p, IsShell(p)
  PROVE  /\ \A history, newest, dropped :
              LET q == Changed(p, history, newest, dropped) IN IsShell(q) /\ View(q) = View(p)
         /\ \A names \in Names :
              LET q == [p EXCEPT !.names = names, !.menu = <<>>] IN IsShell(q) /\ View(q) = View(p)
         /\ LET q == [p EXCEPT !.menu = <<>>] IN IsShell(q) /\ View(q) = View(p)
<1>1. ASSUME NEW history, NEW newest, NEW dropped
      PROVE  LET q == Changed(p, history, newest, dropped) IN IsShell(q) /\ View(q) = View(p)
  BY DEF Changed, IsShell, Shells, View
<1>2. ASSUME NEW names \in Names
      PROVE  LET q == [p EXCEPT !.names = names, !.menu = <<>>] IN IsShell(q) /\ View(q) = View(p)
  BY DEF IsShell, Shells, View
<1>3. LET q == [p EXCEPT !.menu = <<>>] IN IsShell(q) /\ View(q) = View(p)
  BY DEF IsShell, Shells, View
<1> QED
  BY <1>1, <1>2, <1>3

\* The count is that of the appends, or starts anew.
Restarted(p) ==
  /\ IsFiniteSet(p.pending) /\ Cardinality(Appends(p)) <= MaxUnacked
  /\ p.gen # 0 /\ p.up /\ p.unacked \in {0, Cardinality(Appends(p))}

\* The history is sent anew under a generation of its own.
LEMMA SnapshotGood ==
  ASSUME IsSeq(requests), IsSeq(responses), NEW p, Good(p), Signed(p), Counted(p)
  PROVE  LET q == Snapshot(p) IN Good(q) /\ Signed(q) /\ Restarted(q) /\ q.sync = p.sync
<1> DEFINE h == HistReset(p)
           e == EnsureSession(h)
           f == Frame(e.id + 1, "snapshot", Sent(p.history))
           r == Request(e, "snapshot", Sent(p.history))
           s == HistLatch(r, e.id + 1, p.newest, Len(p.history))
           q == Snapshot(p)
<1>1. Good(h) /\ Signed(h) /\ h.gen = 0 /\ h.pending = p.pending /\ h.id = p.id /\ h.sync = p.sync
  <2>1. IsShell(p)
    BY DEF Good
  <2> QED
    BY <2>1, GoodForget, HistResetView DEF View
<1> HIDE DEF h
<1>2. /\ Good(e) /\ Signed(e) /\ e.up /\ e.sync = h.sync
      /\ \/ e.pending = h.pending
         \/ \E n : n.kind = "namespace" /\ e.pending = h.pending \cup {n}
  BY <1>1, EnsureSessionGood
<1>3. q = [s EXCEPT !.unacked = 0]
  BY DEF Snapshot, s, r, e, h
<1> HIDE DEF e, q
<1>4. IsShell(e) /\ e.id \in Nat /\ e.id + 1 \in Nat
  BY <1>2 DEF Good, IsShell, Shells
<1>5. /\ IsShell(r)
      /\ View(r) = <<e.up, e.gen, e.unacked, e.payload, e.signature, e.queued, e.latest,
                     e.pending \cup {f}, Append(e.tx, f), e.id + 1, e.sync>>
  BY <1>4, RequestView
<1>6. f.id = e.id + 1 /\ f.kind = "snapshot" /\ ~IsNamespace(f) /\ IsWrite(f) /\ f.kind \in Kinds
  BY DEF Frame, IsNamespace, IsWrite, Kinds
<1> HIDE DEF r, f
<1>7. /\ IsShell(s)
      /\ View(s) = <<r.up, e.id + 1, r.unacked, r.payload, r.signature, r.queued, r.latest,
                     r.pending, r.tx, r.id, r.sync>>
  BY ONLY <1>4, <1>5, HistLatchView
<1> HIDE DEF s
<1>8. /\ IsShell(q)
      /\ View(q) = <<s.up, s.gen, 0, s.payload, s.signature, s.queued, s.latest,
                     s.pending, s.tx, s.id, s.sync>>
  <2>1. IsShell(q)
    BY <1>3, <1>7 DEF IsShell, Shells
  <2> QED
    BY <1>3, <1>7, <2>1 DEF IsShell, Shells, View
<1>9. /\ q.up = e.up /\ q.gen = f.id /\ q.unacked = 0 /\ q.payload = e.payload
      /\ q.signature = e.signature /\ q.queued = e.queued /\ q.latest = e.latest
      /\ q.pending = e.pending \cup {f} /\ q.tx = Append(e.tx, f) /\ q.id = e.id + 1
      /\ q.sync = e.sync
  BY <1>5, <1>6, <1>7, <1>8 DEF View
<1>10. Good(q)
  BY ONLY IsSeq(requests), <1>2, <1>6, <1>8, <1>9, RequestGood
<1>11. Signed(q)
  BY <1>2, <1>9 DEF Signed
<1>12. Restarted(q)
  <2>1. Appends(q) = Appends(p)
    BY <1>1, <1>2, <1>6, <1>9 DEF Appends
  <2>2. IsFiniteSet(e.pending)
    BY <1>1, <1>2, FS_AddElement DEF Counted
  <2>3. IsFiniteSet(q.pending)
    BY <1>9, <2>2, FS_AddElement
  <2>4. q.gen # 0
    BY <1>4, <1>6, <1>9
  <2> QED
    BY <1>2, <1>9, <2>1, <2>3, <2>4 DEF Restarted, Counted
<1> QED
  BY <1>1, <1>2, <1>9, <1>10, <1>11, <1>12 DEF q

\* The menu names the generation and waits; nothing is sent behind its request.
LEMMA OpenHistoryMenuGood ==
  ASSUME IsSeq(requests), IsSeq(responses), NEW p, Good(p), Signed(p), Counted(p), p.sync = 0
  PROVE  LET q == OpenHistoryMenu(p) IN Good(q) /\ Signed(q) /\ Counted(q)
<1> DEFINE e == IF Warm(p) THEN p ELSE Snapshot(p)
           f == Frame(e.id + 1, "plan", e.gen)
           r == Request(e, "plan", e.gen)
           q == OpenHistoryMenu(p)
<1>1. Good(e) /\ Signed(e) /\ Restarted(e)
  <2>1. CASE Warm(p)
    <3>1. p.gen # 0 /\ p.up
      BY <2>1 DEF Warm, Good, IsShell, Shells, Linked
    <3> QED
      BY <2>1, <3>1 DEF Counted, Restarted
  <2>2. CASE ~Warm(p)
    BY <2>2, SnapshotGood
  <2> QED
    BY <2>1, <2>2
<1>2. q = [r EXCEPT !.sync = e.id + 1]
  BY DEF OpenHistoryMenu
<1> HIDE DEF e, q
<1>3. IsShell(e) /\ e.id \in Nat /\ e.id + 1 \in Nat
  BY <1>1 DEF Good, IsShell, Shells
<1>4. /\ IsShell(r)
      /\ View(r) = <<e.up, e.gen, e.unacked, e.payload, e.signature, e.queued, e.latest,
                     e.pending \cup {f}, Append(e.tx, f), e.id + 1, e.sync>>
  BY <1>3, RequestView
<1>5. f.id = e.id + 1 /\ f.kind = "plan" /\ ~IsNamespace(f) /\ ~IsWrite(f) /\ f.kind \in Kinds
  BY DEF Frame, IsNamespace, IsWrite, Kinds
<1> HIDE DEF r, f
<1>6. /\ IsShell(q)
      /\ View(q) = <<r.up, r.gen, r.unacked, r.payload, r.signature, r.queued, r.latest,
                     r.pending, r.tx, r.id, e.id + 1>>
  <2>1. IsShell(q)
    BY <1>2, <1>3, <1>4 DEF IsShell, Shells
  <2> QED
    BY <1>2, <1>4, <2>1 DEF IsShell, Shells, View
<1>7. /\ q.up = e.up /\ q.gen = e.gen /\ q.unacked = e.unacked /\ q.payload = e.payload
      /\ q.signature = e.signature /\ q.queued = e.queued /\ q.latest = e.latest
      /\ q.pending = e.pending \cup {f} /\ q.tx = Append(e.tx, f) /\ q.id = e.id + 1
      /\ q.sync = f.id
  BY <1>4, <1>5, <1>6 DEF View
<1>8. Good(q)
  <2>1. e.up /\ q.gen \in {0, e.gen}
    BY <1>1, <1>7 DEF Restarted
  <2> QED
    BY ONLY IsSeq(requests), <1>1, <1>5, <1>6, <1>7, <2>1, RequestGood
<1>9. Signed(q)
  BY <1>1, <1>7 DEF Signed
<1>10. Counted(q)
  <2>1. Appends(q) = Appends(e)
    BY <1>5, <1>7 DEF Appends
  <2>2. IsFiniteSet(q.pending)
    BY <1>1, <1>7, FS_AddElement DEF Restarted
  <2>3. \A t \in e.pending : t.id \in 1..e.id
    BY <1>1 DEF Good, Linked, Ordered
  <2>4. \A t \in e.pending : t.id < f.id /\ t.id <= f.id
    BY <1>3, <1>5, <2>3
  <2>5. Waiting(q)
    BY <1>3, <1>5, <1>7, <2>4 DEF Waiting
  <2>6. q.sync # 0
    BY <1>3, <1>5, <1>7
  <2> QED
    BY <1>1, <1>7, <2>1, <2>2, <2>5, <2>6 DEF Counted, Restarted
<1> QED
  BY <1>8, <1>9, <1>10 DEF q

(***************************************************************************)
(* The steps of the shell.                                                 *)
(***************************************************************************)
\* Between two steps no frame is queued.
LEMMA SyncGood ==
  ASSUME SyncInv
  PROVE  Good(sh) /\ Signed(sh) /\ Counted(sh) /\ IsSeq(requests) /\ IsSeq(responses)
<1>1. requests \o <<>> = requests /\ IsSeq(<<>>)
  BY SeqEmpty, SeqFacts DEF SyncInv
<1> QED
  BY <1>1 DEF SyncInv, Good

\* What the shell has become is written out.
LEMMA BecomeStep ==
  ASSUME SyncInv, NEW q, Good(q), Signed(q), Counted(q), Become(q),
         UNCHANGED <<worker, responses>>
  PROVE  SyncInv'
<1>1. sh' = [q EXCEPT !.tx = <<>>] /\ requests' = requests \o q.tx /\ IsShell(q)
  BY DEF Become, Good
<1>2. /\ sh'.up = q.up /\ sh'.gen = q.gen /\ sh'.unacked = q.unacked /\ sh'.payload = q.payload
      /\ sh'.signature = q.signature /\ sh'.queued = q.queued /\ sh'.latest = q.latest
      /\ sh'.pending = q.pending /\ sh'.id = q.id /\ sh'.sync = q.sync /\ sh'.tx = <<>>
  BY <1>1 DEF IsShell, Shells
<1>3. IsShell(sh')
  BY <1>1 DEF IsShell, Shells
<1>4. IsSeq(requests') /\ IsSeq(responses') /\ IsWorker(worker')
  BY <1>1, SeqConcat DEF SyncInv, Good
<1>5. Linked(q, requests', responses', worker')
  BY <1>1 DEF Good
<1>6. /\ Ordered(sh', requests', responses')
      /\ Latched(sh') /\ LastIsLatest(sh', requests')
      /\ HeldOrRefused(sh', requests', responses', worker'.namespace)
  BY <1>2, <1>5 DEF Linked, Ordered, Latched, LastIsLatest, HeldOrRefused
<1>7. /\ WritesAccepted(sh', requests', worker'.index.stamp)
      /\ LastIsNamed(sh', requests', worker'.index.stamp)
      /\ ~sh'.up => sh'.gen = 0
  BY <1>2, <1>5 DEF Linked, WritesAccepted, LastIsNamed
<1>8. Signed(sh') /\ Counted(sh')
  BY <1>2 DEF Signed, Counted, Appends, Waiting
<1> QED
  BY <1>2, <1>3, <1>4, <1>6, <1>7, <1>8 DEF SyncInv, Linked

\* The end of a session leaves nothing under way.
LEMMA DownStep ==
  ASSUME NEW q, IsShell(q), sh' = Down(q),
         requests' = <<>>, responses' = <<>>, worker' = NoWorker
  PROVE  SyncInv'
<1>1. /\ IsShell(sh')
      /\ View(sh') = <<FALSE, 0, 0, q.payload, None, None, 0, {}, <<>>, q.id, 0>>
  BY DownView
<1>2. /\ sh'.up = FALSE /\ sh'.gen = 0 /\ sh'.signature = None
      /\ sh'.queued = None /\ sh'.latest = 0 /\ sh'.pending = {} /\ sh'.tx = <<>>
      /\ sh'.id = q.id /\ sh'.sync = 0
  BY <1>1 DEF View
<1>3. q.id \in Nat
  BY DEF IsShell, Shells
<1>4. IsSeq(<<>>) /\ DOMAIN <<>> = {}
  BY SeqEmpty
<1>5. worker'.namespace = None /\ worker'.index.stamp = 0 /\ IsWorker(worker')
  BY DEF NoWorker, NoIndex, IsWorker
<1>6. Ordered(sh', <<>>, <<>>)
  BY <1>2, <1>4 DEF Ordered
<1>7. Latched(sh') /\ LastIsLatest(sh', <<>>) /\ HeldOrRefused(sh', <<>>, <<>>, None)
  BY <1>2, <1>3, <1>4 DEF Latched, LastIsLatest, HeldOrRefused
<1>8. WritesAccepted(sh', <<>>, 0) /\ LastIsNamed(sh', <<>>, 0)
  BY <1>2, <1>3, <1>4 DEF WritesAccepted, LastIsNamed
<1>9. Signed(sh')
  BY <1>2 DEF Signed
<1>10. Counted(sh')
  <2>1. Appends(sh') = {}
    BY <1>2 DEF Appends
  <2>2. IsFiniteSet({}) /\ Cardinality({}) = 0
    BY FS_EmptySet
  <2> QED
    BY <1>2, <2>1, <2>2, ConstantTypes DEF Counted, Waiting
<1> QED
  BY <1>1, <1>2, <1>4, <1>5, <1>6, <1>7, <1>8, <1>9, <1>10 DEF SyncInv, Linked

\* What a shell does on its way is written, or ends the session.
LEMMA DoesStep ==
  ASSUME SyncInv, NEW q, Good(q), Signed(q), Counted(q), Does(q)
  PROVE  SyncInv'
<1>1. CASE Become(q) /\ UNCHANGED <<worker, responses, faults>>
  BY <1>1, BecomeStep
<1>2. CASE Lost(q)
  BY <1>2, DownStep DEF Lost, Good
<1> QED
  BY <1>1, <1>2 DEF Does

\* The commands, and the opening of the menu.
LEMMA ShellStep ==
  ASSUME SyncInv,
         Execute \/ ExecuteUnstored \/ Rename \/ Switch \/ Import \/ Shrink \/ Type \/ OpenMenu
  PROVE  SyncInv'
<1>1. Good(sh) /\ Signed(sh) /\ Counted(sh) /\ IsSeq(requests) /\ IsSeq(responses)
  BY SyncGood
<1>2. ASSUME NEW q, IsShell(q), View(q) = View(sh)
      PROVE  Good(q) /\ Signed(q) /\ Counted(q) /\ q.sync = sh.sync
  <2>1. q.sync = sh.sync
    BY <1>2 DEF View
  <2> QED
    BY <1>1, <1>2, <2>1, GoodView
<1>3. ASSUME NEW q, IsShell(q), View(q) = View(sh), Command(q)
      PROVE  SyncInv'
  BY <1>2, <1>3, DoesStep DEF Command
<1>4. ASSUME NEW q, IsShell(q), View(q) = View(sh), Command(Precmd(q))
      PROVE  SyncInv'
  <2>1. Good(q) /\ Signed(q) /\ Counted(q) /\ q.sync = 0
    BY <1>2, <1>4 DEF Command
  <2>2. Good(Precmd(q)) /\ Signed(Precmd(q)) /\ Counted(Precmd(q))
    BY <1>1, <2>1, PrecmdGood
  <2> QED
    BY <1>4, <2>2, DoesStep DEF Command
<1>5. /\ \A history, newest, dropped : LET q == Changed(sh, history, newest, dropped)
                                       IN  IsShell(q) /\ View(q) = View(sh)
      /\ \A names \in Names : LET q == [sh EXCEPT !.names = names, !.menu = <<>>]
                              IN  IsShell(q) /\ View(q) = View(sh)
      /\ LET q == [sh EXCEPT !.menu = <<>>] IN IsShell(q) /\ View(q) = View(sh)
  BY <1>1, ChangedView DEF Good
<1>6. CASE Execute
  <2>1. PICK history, newest, dropped : Command(Precmd(Changed(sh, history, newest, dropped)))
    BY <1>6, Zenon DEF Execute
  <2> QED
    BY <1>4, <1>5, <2>1
<1>7. CASE ExecuteUnstored
  BY <1>4, <1>5, <1>7 DEF ExecuteUnstored
<1>8. CASE Rename
  BY <1>4, <1>5, <1>8 DEF Rename
<1>9. CASE Switch
  BY <1>4, <1>5, <1>9, Zenon DEF Switch
<1>10. CASE Import
  <2>1. PICK history, newest, dropped : Command(Changed(sh, history, newest, dropped))
    BY <1>10, Zenon DEF Import
  <2> QED
    BY <1>3, <1>5, <2>1
<1>11. CASE Shrink
  <2>1. PICK history, newest, dropped : Command(Changed(sh, history, newest, dropped))
    BY <1>11, Zenon DEF Shrink
  <2> QED
    BY <1>3, <1>5, <2>1
<1>12. CASE Type
  <2>1. sh.sync = 0 /\ Does(EnsureSession(sh)) /\ ~sh.up
    BY <1>12 DEF Type
  <2> DEFINE q == EnsureSession(sh)
  <2>2. /\ Good(q) /\ Signed(q) /\ q.sync = sh.sync
        /\ q.gen \in {0, sh.gen} /\ (q.gen # 0 => q.unacked = sh.unacked)
        /\ \/ q.pending = sh.pending
           \/ \E f : f.kind = "namespace" /\ q.pending = sh.pending \cup {f}
    BY <1>1, EnsureSessionGood
  <2> HIDE DEF q
  <2>3. Counted(q)
    <3>1. CASE q.pending = sh.pending
      <4>1. Appends(q) = Appends(sh)
        BY <3>1 DEF Appends
      <4> QED
        BY <1>1, <2>1, <2>2, <3>1, <4>1 DEF Counted, Waiting
    <3>2. CASE q.pending # sh.pending
      <4>1. PICK f : f.kind = "namespace" /\ q.pending = sh.pending \cup {f}
        BY <2>2, <3>2
      <4> QED
        BY <1>1, <2>1, <2>2, <4>1, UncountedRequest
    <3> QED
      BY <3>1, <3>2
  <2> QED
    BY <2>1, <2>2, <2>3, DoesStep DEF q
<1>13. CASE OpenMenu
  <2> DEFINE p == [sh EXCEPT !.menu = <<>>]
  <2>1. sh.sync = 0 /\ Does(OpenHistoryMenu(p))
    BY <1>13 DEF OpenMenu
  <2>2. Good(p) /\ Signed(p) /\ Counted(p) /\ p.sync = 0
    BY <1>2, <1>5, <2>1
  <2> HIDE DEF p
  <2>3. LET q == OpenHistoryMenu(p) IN Good(q) /\ Signed(q) /\ Counted(q)
    BY <1>1, <2>2, OpenHistoryMenuGood
  <2> QED
    BY <2>1, <2>3, DoesStep
<1> QED
  BY <1>6, <1>7, <1>8, <1>9, <1>10, <1>11, <1>12, <1>13

(***************************************************************************)
(* A response.                                                             *)
(***************************************************************************)
\* What a response r to the request q makes of the shell, p: the request is no
\* longer pending; a refusal of the latest snapshot of the namespace drops its
\* latches; an unknown generation is forgotten; an append is no longer counted;
\* and what the shell waits for is over.
Settled(p, x, q, r) ==
  /\ x.up = p.up /\ x.id = p.id /\ x.tx = p.tx /\ x.payload = p.payload
  /\ x.pending = p.pending \ {q}
  /\ IF IsNamespace(q) /\ r.id = p.latest /\ r.result # "ok"
     THEN x.signature = None /\ x.queued = None /\ x.latest = 0
     ELSE x.signature = p.signature /\ x.queued = p.queued /\ x.latest = p.latest
  /\ \/ x.gen = 0
     \/ /\ x.gen = p.gen
        /\ x.unacked = IF q.kind = "append" /\ p.unacked > 0 THEN p.unacked - 1 ELSE p.unacked
  /\ x.sync = IF r.id = p.sync THEN 0 ELSE p.sync

\* Received does just that.
LEMMA ReceivedSettles ==
  ASSUME NEW p, IsShell(p), NEW r, NEW q \in p.pending, q.id = r.id,
         \A t \in p.pending : t.id = q.id => t = q
  PROVE  IsShell(Received(p, r)) /\ Settled(p, Received(p, r), q, r)
<1> DEFINE k == Acknowledge(p, q.kind)
           a == [k EXCEPT !.pending = k.pending \ {q}]
           b == IF q.kind = "namespace" THEN NamespaceSettle(a, r.id, r.result) ELSE a
           c == IF r.result = "unknown-generation" THEN HistReset(b) ELSE b
           menu == IF r.result = "ok" THEN r.body ELSE <<>>
           x == Received(p, r)
<1>1. (CHOOSE t \in p.pending : t.id = r.id) = q
  OBVIOUS
<1>2. x = IF r.id # p.sync THEN c ELSE [c EXCEPT !.sync = 0, !.menu = menu]
  BY <1>1 DEF Received
<1>3. /\ IsShell(k)
      /\ View(k) = <<p.up, p.gen,
                     IF q.kind = "append" /\ p.unacked > 0 THEN p.unacked - 1 ELSE p.unacked,
                     p.payload, p.signature, p.queued, p.latest, p.pending, p.tx, p.id, p.sync>>
  <2>1. CASE q.kind = "append" /\ p.unacked > 0
    <3>1. p.unacked - 1 \in Nat
      BY <2>1 DEF IsShell, Shells
    <3>2. k = [p EXCEPT !.unacked = p.unacked - 1]
      BY <2>1 DEF Acknowledge
    <3>3. IsShell(k)
      BY <3>1, <3>2 DEF IsShell, Shells
    <3> QED
      BY <2>1, <3>2, <3>3 DEF IsShell, Shells, View
  <2>2. CASE ~(q.kind = "append" /\ p.unacked > 0)
    BY <2>2 DEF Acknowledge, View
  <2> QED
    BY <2>1, <2>2
<1> HIDE DEF k
<1>4. /\ IsShell(a)
      /\ View(a) = <<k.up, k.gen, k.unacked, k.payload, k.signature, k.queued, k.latest,
                     p.pending \ {q}, k.tx, k.id, k.sync>>
  <2>1. k.pending = p.pending
    BY <1>3 DEF View
  <2>2. IsShell(a)
    BY <1>3 DEF IsShell, Shells
  <2> QED
    BY <1>3, <2>1, <2>2 DEF IsShell, Shells, View
<1> HIDE DEF a
<1>5. a.latest = p.latest
  BY <1>3, <1>4 DEF View
<1>6. /\ IsShell(b)
      /\ b.up = a.up /\ b.gen = a.gen /\ b.unacked = a.unacked /\ b.payload = a.payload
      /\ b.pending = a.pending /\ b.tx = a.tx /\ b.id = a.id /\ b.sync = a.sync
      /\ IF IsNamespace(q) /\ r.id = p.latest /\ r.result # "ok"
         THEN b.signature = None /\ b.queued = None /\ b.latest = 0
         ELSE b.signature = a.signature /\ b.queued = a.queued /\ b.latest = a.latest
  <2>1. CASE IsNamespace(q) /\ r.id = p.latest /\ r.result # "ok"
    <3>1. b = NamespaceLatchDrop(a)
      BY <1>5, <2>1 DEF NamespaceSettle, IsNamespace
    <3> QED
      BY <1>4, <2>1, <3>1, NamespaceLatchDropView DEF View
  <2>2. CASE ~(IsNamespace(q) /\ r.id = p.latest /\ r.result # "ok")
    <3>1. b = a
      BY <1>5, <2>2 DEF NamespaceSettle, IsNamespace
    <3> QED
      BY <1>4, <2>2, <3>1
  <2> QED
    BY <2>1, <2>2
<1> HIDE DEF b
<1>7. /\ IsShell(c)
      /\ c.up = b.up /\ c.payload = b.payload /\ c.pending = b.pending /\ c.tx = b.tx
      /\ c.id = b.id /\ c.sync = b.sync
      /\ c.signature = b.signature /\ c.queued = b.queued /\ c.latest = b.latest
      /\ c.gen = 0 \/ (c.gen = b.gen /\ c.unacked = b.unacked)
  BY <1>6, HistResetView DEF View
<1> HIDE DEF c, menu
<1>8. /\ IsShell(x)
      /\ x.up = c.up /\ x.payload = c.payload /\ x.pending = c.pending /\ x.tx = c.tx
      /\ x.id = c.id /\ x.sync = IF r.id = p.sync THEN 0 ELSE p.sync
      /\ x.signature = c.signature /\ x.queued = c.queued /\ x.latest = c.latest
      /\ x.gen = c.gen /\ x.unacked = c.unacked
  <2>1. c.sync = p.sync
    BY <1>3, <1>4, <1>6, <1>7 DEF View
  <2>2. CASE r.id # p.sync
    BY <1>2, <1>7, <2>1, <2>2
  <2>3. CASE r.id = p.sync
    <3>1. x = [c EXCEPT !.sync = 0, !.menu = menu]
      BY <1>2, <2>3
    <3>2. x \in Shells(c, c.pending, c.tx, menu)
      <4>1. 0 \in Nat
        OBVIOUS
      <4> QED
        BY <1>7, <3>1, <4>1, ZenonT(60) DEF IsShell, Shells
    <3>3. IsShell(x)
      BY <3>2 DEF IsShell, Shells
    <3> QED
      BY <1>7, <2>3, <3>1, <3>3 DEF IsShell, Shells
  <2> QED
    BY <2>2, <2>3
<1> HIDE DEF x
<1>9. Settled(p, x, q, r)
  <2>1. /\ x.up = p.up /\ x.id = p.id /\ x.tx = p.tx /\ x.payload = p.payload
        /\ x.pending = p.pending \ {q} /\ x.sync = IF r.id = p.sync THEN 0 ELSE p.sync
    BY <1>3, <1>4, <1>6, <1>7, <1>8 DEF View
  <2>2. IF IsNamespace(q) /\ r.id = p.latest /\ r.result # "ok"
        THEN x.signature = None /\ x.queued = None /\ x.latest = 0
        ELSE x.signature = p.signature /\ x.queued = p.queued /\ x.latest = p.latest
    BY <1>3, <1>4, <1>6, <1>7, <1>8 DEF View
  <2>3. \/ x.gen = 0
        \/ /\ x.gen = p.gen
           /\ x.unacked = IF q.kind = "append" /\ p.unacked > 0 THEN p.unacked - 1 ELSE p.unacked
    BY <1>3, <1>4, <1>6, <1>7, <1>8 DEF View
  <2> QED
    BY <2>1, <2>2, <2>3 DEF Settled
<1> QED
  BY <1>8, <1>9 DEF x

\* The oldest response keeps the order, and the chain of the names.
LEMMA SettledLinks ==
  ASSUME NEW p, NEW x, NEW q \in p.pending, NEW rs, NEW resp, NEW w, IsSeq(resp), resp # <<>>,
         p.latest \in Nat, p.id \in Nat, None \notin Names,
         Linked(p, rs, resp, w), q.id = Head(resp).id, Settled(p, x, q, Head(resp))
  PROVE  Linked(x, rs, Tail(resp), w)
<1> DEFINE r == Head(resp)
           t == Tail(resp)
<1>1. /\ 1 \in DOMAIN resp /\ r = resp[1]
      /\ \A i \in DOMAIN t : i \in Nat /\ i + 1 \in DOMAIN resp /\ t[i] = resp[i + 1] /\ 1 < i + 1
      /\ \A i \in DOMAIN resp :
           i \in Nat /\ 1 <= i /\ (i # 1 => 1 < i /\ i - 1 \in DOMAIN t /\ t[i - 1] = resp[i])
  BY TailDomain
<1>2. Ordered(p, rs, resp) /\ Settled(p, x, q, r) /\ q.id = r.id
  BY DEF Linked
<1> HIDE DEF r, t
<1>3. /\ x.pending = p.pending \ {q} /\ x.id = p.id /\ x.up = p.up
      /\ x.gen \in {0, p.gen}
  BY <1>2 DEF Settled
<1>4. \A u \in p.pending : u.id \in 1..p.id /\ u.id \in Nat /\ u.id # 0 /\ (u.id = q.id => u = q)
  BY <1>2 DEF Ordered
<1>5. \A i \in DOMAIN rs : rs[i] \in p.pending /\ r.id < rs[i].id /\ rs[i].id # r.id /\ rs[i] # q
  <2> SUFFICES ASSUME NEW i \in DOMAIN rs
               PROVE  rs[i] \in p.pending /\ r.id < rs[i].id /\ rs[i].id # r.id /\ rs[i] # q
    OBVIOUS
  <2>1. rs[i] \in p.pending /\ resp[1].id < rs[i].id
    BY <1>1, <1>2 DEF Ordered
  <2>2. rs[i].id \in Nat /\ q.id \in Nat
    BY <1>4, <2>1
  <2> QED
    BY <1>1, <1>2, <2>1, <2>2
<1>6. Ordered(x, rs, t)
  <2>1. \A i, j \in DOMAIN t : i < j => t[i].id < t[j].id
    <3> SUFFICES ASSUME NEW i \in DOMAIN t, NEW j \in DOMAIN t, i < j
                 PROVE  t[i].id < t[j].id
      OBVIOUS
    <3>1. i + 1 < j + 1 /\ i + 1 \in DOMAIN resp /\ j + 1 \in DOMAIN resp
      BY <1>1
    <3> QED
      BY <1>1, <1>2, <3>1 DEF Ordered
  <2>2. \A i \in DOMAIN t, j \in DOMAIN rs : t[i].id < rs[j].id
    BY <1>1, <1>2 DEF Ordered
  <2>3. \A i \in DOMAIN t : \E u \in x.pending : u.id = t[i].id
    <3> SUFFICES ASSUME NEW i \in DOMAIN t
                 PROVE  \E u \in x.pending : u.id = t[i].id
      OBVIOUS
    <3>1. i + 1 \in DOMAIN resp /\ 1 < i + 1 /\ t[i] = resp[i + 1]
      BY <1>1
    <3>2. PICK u \in p.pending : u.id = resp[i + 1].id
      BY <1>2, <3>1 DEF Ordered
    <3>3. resp[1].id < resp[i + 1].id
      BY <1>1, <1>2, <3>1 DEF Ordered
    <3>4. u.id # q.id
      BY <1>1, <1>2, <1>4, <3>2, <3>3
    <3> QED
      BY <1>3, <3>1, <3>2, <3>4
  <2>4. \A u \in x.pending : \/ \E i \in DOMAIN rs : rs[i] = u
                             \/ \E i \in DOMAIN t : t[i].id = u.id
    <3> SUFFICES ASSUME NEW u \in x.pending, \A i \in DOMAIN rs : rs[i] # u
                 PROVE  \E i \in DOMAIN t : t[i].id = u.id
      OBVIOUS
    <3>1. u \in p.pending /\ u # q
      BY <1>3
    <3>2. PICK i \in DOMAIN resp : resp[i].id = u.id
      BY <1>2, <3>1 DEF Ordered
    <3>3. i # 1
      BY <1>1, <1>2, <1>4, <3>1, <3>2
    <3> QED
      BY <1>1, <3>2, <3>3
  <2>5. /\ \A i \in DOMAIN rs : rs[i] \in x.pending
        /\ \A i, j \in DOMAIN rs : i < j => rs[i].id < rs[j].id
        /\ \A u, v \in x.pending : u.id = v.id => u = v
        /\ \A u \in x.pending : u.id \in 1..x.id /\ u.kind \in Kinds
        /\ ~x.up => x.pending = {}
    BY <1>2, <1>3, <1>5 DEF Ordered
  <2> QED
    BY <2>1, <2>2, <2>3, <2>4, <2>5 DEF Ordered
<1>7. CASE IsNamespace(q) /\ r.id = p.latest /\ r.result # "ok"
  <2>1. x.signature = None /\ x.queued = None /\ x.latest = 0
    BY <1>2, <1>7 DEF Settled
  <2>2. Latched(x)
    BY <1>3, <1>4, <2>1 DEF Latched
  <2>3. LastIsLatest(x, rs)
    BY <1>5, <1>7 DEF LastIsLatest, Linked
  <2>4. HeldOrRefused(x, rs, t, w.namespace)
    BY <2>1 DEF HeldOrRefused
  <2> QED
    BY <2>2, <2>3, <2>4, <1>3, <1>6 DEF Linked, WritesAccepted, LastIsNamed, t
<1>8. CASE ~(IsNamespace(q) /\ r.id = p.latest /\ r.result # "ok")
  <2>1. x.signature = p.signature /\ x.queued = p.queued /\ x.latest = p.latest
    BY <1>2, <1>8 DEF Settled
  <2>2. Latched(x)
    BY <1>3, <2>1 DEF Latched, Linked
  <2>3. LastIsLatest(x, rs)
    BY <2>1 DEF LastIsLatest, Linked
  <2>4. HeldOrRefused(x, rs, t, w.namespace)
    <3> SUFFICES ASSUME p.queued # None, \A i \in DOMAIN rs : rs[i].id # p.latest, w.namespace # p.queued
                 PROVE  \E i \in DOMAIN t : t[i].id = p.latest /\ t[i].result # "ok"
      BY <2>1 DEF HeldOrRefused
    <3>1. PICK i \in DOMAIN resp : resp[i].id = p.latest /\ resp[i].result # "ok"
      BY DEF Linked, HeldOrRefused
    <3>2. i # 1
      BY <1>1, <1>2, <1>8, <3>1 DEF Linked, Latched
    <3> QED
      BY <1>1, <3>1, <3>2
  <2> QED
    BY <2>2, <2>3, <2>4, <1>3, <1>6 DEF Linked, WritesAccepted, LastIsNamed, t
<1> QED
  BY <1>7, <1>8

\* An answered append is no longer counted; and when the answer the shell waits
\* for arrives, none is left.
LEMMA SettledCounts ==
  ASSUME NEW p, NEW x, NEW q \in p.pending, NEW rs, NEW resp, IsSeq(resp), resp # <<>>,
         p.id \in Nat, p.unacked \in Nat, p.sync \in Nat,
         Ordered(p, rs, resp), Counted(p), q.id = Head(resp).id, Settled(p, x, q, Head(resp))
  PROVE  Counted(x)
<1> DEFINE r == Head(resp)
<1>1. 1 \in DOMAIN resp /\ r = resp[1] /\ \A i \in DOMAIN resp : i \in Nat /\ (i # 1 => 1 < i)
  BY TailDomain
<1>2. Settled(p, x, q, r) /\ q.id = r.id
  OBVIOUS
<1> HIDE DEF r
<1>3. x.pending = p.pending \ {q} /\ x.sync = IF r.id = p.sync THEN 0 ELSE p.sync
  BY <1>2 DEF Settled
<1>4. \A u \in p.pending : u.id \in Nat /\ (u.id = q.id => u = q)
  BY DEF Ordered
<1>5. \A u \in p.pending : u # q => q.id < u.id
  <2> SUFFICES ASSUME NEW u \in p.pending, u # q
               PROVE  q.id < u.id
    OBVIOUS
  <2>1. CASE \E i \in DOMAIN rs : rs[i] = u
    BY <1>1, <1>2, <2>1 DEF Ordered
  <2>2. ASSUME NEW i \in DOMAIN resp, resp[i].id = u.id
        PROVE  q.id < u.id
    <3>1. i # 1
      BY <1>1, <1>2, <1>4, <2>2
    <3> QED
      BY <1>1, <1>2, <2>2, <3>1 DEF Ordered
  <2> QED
    BY <2>1, <2>2 DEF Ordered
<1>6. IsFiniteSet(p.pending) /\ IsFiniteSet(Appends(p)) /\ Cardinality(Appends(p)) \in Nat
  <2>1. Appends(p) \subseteq p.pending /\ IsFiniteSet(p.pending)
    BY DEF Appends, Counted
  <2>2. IsFiniteSet(Appends(p))
    BY <2>1, FS_Subset
  <2> QED
    BY <2>1, <2>2, FS_CardinalityType
<1>7. IsFiniteSet(x.pending)
  BY <1>3, <1>6, FS_Subset
<1>8. Waiting(x)
  <2> SUFFICES ASSUME x.sync # 0
               PROVE  Waiting(x)
    BY DEF Waiting
  <2>1. x.sync = p.sync /\ r.id # p.sync
    BY <1>3
  <2> QED
    BY <1>2, <1>3, <2>1 DEF Counted, Waiting
<1>9. CASE q.kind = "append"
  <2>1. q \in Appends(p) /\ Appends(x) = Appends(p) \ {q}
    BY <1>3, <1>9 DEF Appends
  <2>2. Cardinality(Appends(x)) = Cardinality(Appends(p)) - 1 /\ Cardinality(Appends(x)) \in Nat
    <3>1. Cardinality(Appends(x)) = Cardinality(Appends(p)) - 1
      BY <1>6, <2>1, FS_RemoveElement
    <3>2. IsFiniteSet(Appends(x))
      BY <1>6, <2>1, FS_Subset
    <3> QED
      BY <3>1, <3>2, FS_CardinalityType
  <2>3. Cardinality(Appends(x)) <= MaxUnacked
    BY <1>6, <2>2, ConstantTypes DEF Counted
  <2>4. x.sync = p.sync
    BY <1>2, <1>3, <1>9 DEF Counted, Waiting
  <2>5. x.gen # 0 => x.unacked = Cardinality(Appends(x)) \/ (x.sync # 0 /\ x.unacked = 0)
    <3> SUFFICES ASSUME x.gen # 0
                 PROVE  x.unacked = Cardinality(Appends(x)) \/ (x.sync # 0 /\ x.unacked = 0)
      OBVIOUS
    <3>1. /\ p.gen # 0
          /\ x.unacked = IF p.unacked > 0 THEN p.unacked - 1 ELSE p.unacked
      BY <1>2, <1>9 DEF Settled
    <3>2. p.unacked = Cardinality(Appends(p)) \/ (p.sync # 0 /\ p.unacked = 0)
      BY <3>1 DEF Counted
    <3> QED
      BY <1>6, <2>2, <2>4, <3>1, <3>2
  <2> QED
    BY <1>7, <1>8, <2>3, <2>5 DEF Counted
<1>10. CASE q.kind # "append"
  <2>1. Appends(x) = Appends(p)
    BY <1>3, <1>10 DEF Appends
  <2>2. x.gen # 0 => p.gen # 0 /\ x.unacked = p.unacked
    BY <1>2, <1>10 DEF Settled
  <2>3. CASE r.id # p.sync
    BY <1>3, <1>7, <1>8, <2>1, <2>2, <2>3 DEF Counted
  <2>4. CASE r.id = p.sync /\ p.sync # 0
    <3>1. \A u \in p.pending : u.id <= q.id
      BY <1>2, <2>4 DEF Counted, Waiting
    <3>2. \A u \in p.pending : u = q
      BY <1>4, <1>5, <3>1
    <3>3. Appends(p) = {}
      BY <1>10, <3>2 DEF Appends
    <3>4. Cardinality(Appends(p)) = 0
      BY <3>3, FS_EmptySet
    <3> QED
      BY <1>7, <1>8, <2>1, <2>2, <3>4, ConstantTypes DEF Counted
  <2>5. CASE r.id = p.sync /\ p.sync = 0
    BY <1>3, <1>7, <1>8, <2>1, <2>2, <2>5 DEF Counted
  <2> QED
    BY <2>3, <2>4, <2>5
<1> QED
  BY <1>9, <1>10

\* The step that takes a response.
LEMMA ReceiveStep ==
  ASSUME SyncInv, Receive
  PROVE  SyncInv'
<1> DEFINE r == Head(responses)
<1>1. /\ responses # <<>> /\ sh' = Received(sh, r) /\ responses' = Tail(responses)
      /\ UNCHANGED <<worker, requests>>
  BY DEF Receive
<1>2. /\ IsShell(sh) /\ sh.tx = <<>> /\ IsSeq(requests) /\ IsSeq(responses) /\ IsWorker(worker)
      /\ Linked(sh, requests, responses, worker) /\ Signed(sh) /\ Counted(sh)
  BY DEF SyncInv
<1>3. IsSeq(responses') /\ 1 \in DOMAIN responses /\ r = responses[1]
  BY <1>1, <1>2, TailDomain
<1>4. PICK q \in sh.pending : q.id = r.id
  BY <1>2, <1>3 DEF Linked, Ordered
<1>5. IsShell(sh') /\ Settled(sh, sh', q, r)
  BY <1>1, <1>2, <1>4, ReceivedSettles DEF Linked, Ordered
<1>6. sh.latest \in Nat /\ sh.id \in Nat /\ sh.unacked \in Nat /\ sh.sync \in Nat
  BY <1>2 DEF IsShell, Shells
<1>7. Linked(sh', requests, responses', worker)
  BY <1>1, <1>2, <1>4, <1>5, <1>6, SettledLinks, ConstantTypes
<1>8. Counted(sh')
  BY <1>1, <1>2, <1>4, <1>5, <1>6, SettledCounts DEF Linked
<1>9. Signed(sh')
  BY <1>2, <1>5 DEF Signed, Settled
<1>10. sh'.tx = <<>>
  BY <1>2, <1>5 DEF Settled
<1> QED
  BY <1>1, <1>2, <1>3, <1>5, <1>7, <1>8, <1>9, <1>10 DEF SyncInv

(***************************************************************************)
(* The worker.                                                             *)
(***************************************************************************)
\* What a request makes of the index; no write is refused (ProcessAnswers).
Written(x, r) ==
  IF r.kind = "snapshot" THEN Install(r.id, r.body)
  ELSE IF r.kind = "append" THEN AppendTo(x, r.id, <<r.body>>)
  ELSE x

\* What it does with the oldest request: an answer a, and a worker w2.
Processed(r, a, w, w2) ==
  /\ a.id = r.id
  /\ IF IsNamespace(r) THEN w2.namespace = r.body \/ (w2.namespace = w.namespace /\ a.result # "ok")
     ELSE w2.namespace = w.namespace
  /\ w2.index.stamp = IF IsWrite(r) THEN r.id ELSE w.index.stamp
  /\ w2.index = Written(w.index, r)
  /\ r.kind = "plan" /\ a.result = "ok" => a.body = At(w.index.entries, Window(w.index, RetentionCap))

\* Every write is accepted, because its generation is the greatest so far and
\* an append is behind a snapshot.
LEMMA ProcessAnswers ==
  ASSUME SyncInv, Process
  PROVE  /\ IsWorker(worker')
         /\ \E a : /\ responses' = Append(responses, a)
                   /\ Processed(Head(requests), a, worker, worker')
<1> DEFINE r == Head(requests)
<1>1. /\ IsSeq(requests) /\ requests # <<>> /\ IsWorker(worker)
      /\ Linked(sh, requests, responses, worker)
  BY DEF SyncInv, Process
<1>2. 1 \in DOMAIN requests /\ r = requests[1] /\ \A i \in DOMAIN requests : i \in Nat /\ 1 <= i
  BY <1>1, TailDomain
<1>3. r \in sh.pending /\ r.kind \in Kinds /\ r.id \in Nat /\ r.id # 0
  BY <1>1, <1>2 DEF Linked, Ordered
<1>4. worker.index.stamp \in Nat /\ worker.index.stamp < r.id
  BY <1>1, <1>2 DEF Linked, WritesAccepted
<1>5. Accepts(worker.index, r.id)
  BY <1>3, <1>4 DEF Accepts
<1>6. r.kind = "append" => AcceptsAppend(worker.index, r.id)
  <2> SUFFICES ASSUME r.kind = "append"
               PROVE  worker.index.stamp # 0
    BY <1>5 DEF AcceptsAppend
  <2>1. worker.index.stamp # 0 \/ \E j \in DOMAIN requests : j < 1 /\ requests[j].kind = "snapshot"
    BY <1>1, <1>2 DEF Linked, WritesAccepted
  <2> QED
    BY <1>2, <2>1
<1> HIDE DEF r
<1>7. CASE r.kind = "namespace"
  <2>1. CASE r.body \in Refused
    <3>1. Answer(r.id, "invalid-payload", <<>>, worker)
      BY <1>7, <2>1 DEF Process, r
    <3> DEFINE a == [id |-> r.id, result |-> "invalid-payload", body |-> <<>>]
    <3>2. worker' = worker /\ responses' = Append(responses, a)
      BY <3>1 DEF Answer
    <3>3. Processed(r, a, worker, worker')
      BY <1>7, <3>2 DEF Processed, IsNamespace, IsWrite, Written
    <3> QED
      BY <1>1, <3>2, <3>3 DEF r
  <2>2. CASE r.body \notin Refused
    <3>1. Answer(r.id, "ok", <<>>, [worker EXCEPT !.namespace = r.body])
      BY <1>7, <2>2 DEF Process, r
    <3> DEFINE a == [id |-> r.id, result |-> "ok", body |-> <<>>]
    <3>2. worker' = [worker EXCEPT !.namespace = r.body] /\ responses' = Append(responses, a)
      BY <3>1 DEF Answer
    <3>3. worker'.namespace = r.body /\ worker'.index = worker.index /\ IsWorker(worker')
      BY <1>1, <3>2 DEF IsWorker
    <3>4. Processed(r, a, worker, worker')
      BY <1>7, <3>3 DEF Processed, IsNamespace, IsWrite, Written
    <3> QED
      BY <3>2, <3>3, <3>4 DEF r
  <2> QED
    BY <2>1, <2>2
<1>8. ASSUME IsWrite(r), NEW index, index.stamp = r.id, index = Written(worker.index, r),
             WriteHistory(r, TRUE, index)
      PROVE  /\ IsWorker(worker')
             /\ \E a : responses' = Append(responses, a) /\ Processed(r, a, worker, worker')
  <2> DEFINE a == [id |-> r.id, result |-> "ok", body |-> <<>>]
  <2>1. worker' = [worker EXCEPT !.index = index] /\ responses' = Append(responses, a)
    BY <1>8 DEF WriteHistory, Answer
  <2>2. worker'.namespace = worker.namespace /\ worker'.index = index /\ IsWorker(worker')
    BY <1>1, <2>1 DEF IsWorker
  <2>3. Processed(r, a, worker, worker')
    BY <1>8, <2>2 DEF Processed, IsNamespace, IsWrite
  <2> QED
    BY <2>1, <2>2, <2>3
<1>9. CASE r.kind = "snapshot"
  <2> DEFINE index == Install(r.id, r.body)
  <2>1. WriteHistory(r, Accepts(worker.index, r.id), index)
    BY <1>9 DEF Process, r
  <2>2. index.stamp = r.id /\ index = Written(worker.index, r)
    BY <1>9 DEF Install, Written
  <2> HIDE DEF index
  <2>3. WriteHistory(r, TRUE, index)
    BY <1>5, <2>1 DEF WriteHistory
  <2> QED
    BY <1>8, <1>9, <2>2, <2>3 DEF IsWrite, r
<1>10. CASE r.kind = "append"
  <2> DEFINE index == AppendTo(worker.index, r.id, <<r.body>>)
  <2>1. WriteHistory(r, AcceptsAppend(worker.index, r.id), index)
    BY <1>10 DEF Process, r
  <2>2. index.stamp = r.id /\ index = Written(worker.index, r)
    BY <1>10 DEF AppendTo, Written
  <2> HIDE DEF index
  <2>3. WriteHistory(r, TRUE, index)
    BY <1>6, <1>10, <2>1 DEF WriteHistory
  <2> QED
    BY <1>8, <1>10, <2>2, <2>3 DEF IsWrite, r
<1>11. CASE r.kind = "plan"
  <2> DEFINE menu == At(worker.index.entries, Window(worker.index, RetentionCap))
             Means(result, body) == result = "ok" => body = menu
  <2>1. IF Holds(worker.index, r.body) THEN Answer(r.id, "ok", menu, worker)
        ELSE Answer(r.id, "unknown-generation", <<>>, worker)
    BY <1>11 DEF Process, r
  <2>2. PICK result, body : Answer(r.id, result, body, worker) /\ Means(result, body)
    <3> HIDE DEF menu
    <3>1. Means("ok", menu) /\ Means("unknown-generation", <<>>)
      OBVIOUS
    <3> HIDE DEF Means
    <3> QED
      BY <2>1, <3>1
  <2> DEFINE a == [id |-> r.id, result |-> result, body |-> body]
  <2>3. worker' = worker /\ responses' = Append(responses, a)
    BY <2>2 DEF Answer
  <2>4. Processed(r, a, worker, worker')
    BY <1>11, <2>2, <2>3 DEF Processed, IsNamespace, IsWrite, Written
  <2> QED
    BY <1>1, <2>3, <2>4 DEF r
<1> QED
  BY <1>3, <1>7, <1>9, <1>10, <1>11 DEF Kinds

\* The answer is behind the other answers, and before what is still under way.
LEMMA ProcessedOrdered ==
  ASSUME NEW p, NEW rs, NEW resp, NEW a, IsSeq(rs), rs # <<>>, IsSeq(resp), p.id \in Nat,
         Ordered(p, rs, resp), a.id = Head(rs).id
  PROVE  Ordered(p, Tail(rs), Append(resp, a))
<1> DEFINE t == Tail(rs)
           u == Append(resp, a)
           n == Len(resp) + 1
<1>1. /\ 1 \in DOMAIN rs /\ a.id = rs[1].id
      /\ \A i \in DOMAIN t : i \in Nat /\ i + 1 \in DOMAIN rs /\ t[i] = rs[i + 1] /\ 1 < i + 1
      /\ \A i \in DOMAIN rs :
           i \in Nat /\ 1 <= i /\ (i # 1 => 1 < i /\ i - 1 \in DOMAIN t /\ t[i - 1] = rs[i])
  BY TailDomain
<1>2. /\ DOMAIN u = DOMAIN resp \cup {n} /\ u[n] = a /\ n \in Nat
      /\ \A i \in DOMAIN resp : u[i] = resp[i] /\ i \in Nat /\ i < n
  BY ONLY IsSeq(resp), AppendDomain
<1> HIDE DEF t, u, n
<1>3. \A q \in p.pending : q.id \in Nat
  BY DEF Ordered
<1>4. rs[1] \in p.pending
  BY <1>1 DEF Ordered
<1>5. \A i, j \in DOMAIN t : i < j => t[i].id < t[j].id
  <2> SUFFICES ASSUME NEW i \in DOMAIN t, NEW j \in DOMAIN t, i < j
               PROVE  t[i].id < t[j].id
    OBVIOUS
  <2>1. i + 1 < j + 1 /\ i + 1 \in DOMAIN rs /\ j + 1 \in DOMAIN rs
    BY <1>1
  <2> QED
    BY <1>1, <2>1 DEF Ordered
<1>6. \A i, j \in DOMAIN u : i < j => u[i].id < u[j].id
  <2> SUFFICES ASSUME NEW i \in DOMAIN u, NEW j \in DOMAIN u, i < j
               PROVE  u[i].id < u[j].id
    OBVIOUS
  <2>1. i \in DOMAIN resp
    BY <1>2
  <2>2. CASE j \in DOMAIN resp
    BY <1>2, <2>1, <2>2 DEF Ordered
  <2>3. CASE j = n
    BY <1>1, <1>2, <2>1, <2>3 DEF Ordered
  <2> QED
    BY <1>2, <2>2, <2>3
<1>7. \A i \in DOMAIN u, j \in DOMAIN t : u[i].id < t[j].id
  <2> SUFFICES ASSUME NEW i \in DOMAIN u, NEW j \in DOMAIN t
               PROVE  u[i].id < t[j].id
    OBVIOUS
  <2>1. j + 1 \in DOMAIN rs /\ t[j] = rs[j + 1] /\ 1 < j + 1
    BY <1>1
  <2>2. CASE i \in DOMAIN resp
    BY <1>2, <2>1, <2>2 DEF Ordered
  <2>3. CASE i = n
    BY <1>1, <1>2, <2>1, <2>3 DEF Ordered
  <2> QED
    BY <1>2, <2>2, <2>3
<1>8. \A i \in DOMAIN t : t[i] \in p.pending
  BY <1>1 DEF Ordered
<1>9. \A i \in DOMAIN u : \E q \in p.pending : q.id = u[i].id
  <2> SUFFICES ASSUME NEW i \in DOMAIN u
               PROVE  \E q \in p.pending : q.id = u[i].id
    OBVIOUS
  <2>1. CASE i \in DOMAIN resp
    BY <1>2, <2>1 DEF Ordered
  <2>2. CASE i = n
    BY <1>1, <1>2, <1>4, <2>2
  <2> QED
    BY <1>2, <2>1, <2>2
<1>10. \A q \in p.pending : \/ \E i \in DOMAIN t : t[i] = q
                            \/ \E i \in DOMAIN u : u[i].id = q.id
  <2> SUFFICES ASSUME NEW q \in p.pending, \A i \in DOMAIN t : t[i] # q
               PROVE  \E i \in DOMAIN u : u[i].id = q.id
    OBVIOUS
  <2>1. ASSUME NEW i \in DOMAIN rs, rs[i] = q
        PROVE  \E k \in DOMAIN u : u[k].id = q.id
    <3>1. i = 1
      BY <1>1, <2>1
    <3> QED
      BY <1>1, <1>2, <2>1, <3>1
  <2>2. ASSUME NEW i \in DOMAIN resp, resp[i].id = q.id
        PROVE  \E k \in DOMAIN u : u[k].id = q.id
    BY <1>2, <2>2
  <2> QED
    BY <2>1, <2>2 DEF Ordered
<1>11. /\ \A q, r \in p.pending : q.id = r.id => q = r
       /\ \A q \in p.pending : q.id \in 1..p.id /\ q.kind \in Kinds
       /\ ~p.up => p.pending = {}
  BY DEF Ordered
<1> QED
  BY <1>5, <1>6, <1>7, <1>8, <1>9, <1>10, <1>11 DEF Ordered, t, u

\* A snapshot of the names that is the latest is held, or its refusal is on its
\* way; an earlier one is not the last under way.
LEMMA ProcessedNames ==
  ASSUME NEW p, NEW rs, NEW resp, NEW a, NEW w, NEW w2, IsSeq(rs), rs # <<>>, IsSeq(resp),
         p.id \in Nat, Ordered(p, rs, resp), Latched(p), LastIsLatest(p, rs),
         HeldOrRefused(p, rs, resp, w.namespace), Processed(Head(rs), a, w, w2)
  PROVE  /\ LastIsLatest(p, Tail(rs))
         /\ HeldOrRefused(p, Tail(rs), Append(resp, a), w2.namespace)
<1> DEFINE t == Tail(rs)
           u == Append(resp, a)
           n == Len(resp) + 1
           r == Head(rs)
<1>1. /\ 1 \in DOMAIN rs /\ r = rs[1]
      /\ \A i \in DOMAIN t : i \in Nat /\ i + 1 \in DOMAIN rs /\ t[i] = rs[i + 1] /\ 1 < i + 1
      /\ \A i \in DOMAIN rs :
           i \in Nat /\ 1 <= i /\ (i # 1 => 1 < i /\ i - 1 \in DOMAIN t /\ t[i - 1] = rs[i])
  BY TailDomain
<1>2. /\ DOMAIN u = DOMAIN resp \cup {n} /\ u[n] = a /\ n \in Nat
      /\ \A i \in DOMAIN resp : u[i] = resp[i] /\ i \in Nat /\ i < n
  BY ONLY IsSeq(resp), AppendDomain
<1>3. Processed(r, a, w, w2) /\ r \in p.pending
  BY <1>1 DEF Ordered
<1> HIDE DEF t, u, n, r
<1>4. LastIsLatest(p, t)
  <2> SUFFICES ASSUME NEW i \in DOMAIN t, IsNamespace(t[i])
               PROVE  \E j \in DOMAIN t : i <= j /\ t[j].id = p.latest /\ t[j].body = p.queued
    BY DEF LastIsLatest
  <2>1. i \in Nat /\ i + 1 \in DOMAIN rs /\ t[i] = rs[i + 1] /\ 1 < i + 1
    BY <1>1
  <2>2. PICK j \in DOMAIN rs : i + 1 <= j /\ rs[j].id = p.latest /\ rs[j].body = p.queued
    BY <2>1 DEF LastIsLatest
  <2>3. j - 1 \in DOMAIN t /\ t[j - 1] = rs[j] /\ i <= j - 1
    BY <1>1, <2>1, <2>2
  <2> QED
    BY <2>2, <2>3
<1>5. HeldOrRefused(p, t, u, w2.namespace)
  <2> SUFFICES ASSUME p.queued # None, \A i \in DOMAIN t : t[i].id # p.latest, w2.namespace # p.queued
               PROVE  \E i \in DOMAIN u : u[i].id = p.latest /\ u[i].result # "ok"
    BY DEF HeldOrRefused
  <2>1. \A j \in DOMAIN rs : rs[j].id = p.latest => j = 1
    BY <1>1
  <2>2. CASE r.id = p.latest
    <3>1. IsNamespace(r)
      BY <1>3, <2>2 DEF Latched
    <3>2. r.body = p.queued
      BY <1>1, <2>1, <3>1 DEF LastIsLatest
    <3>3. a.id = p.latest /\ a.result # "ok"
      BY <1>3, <2>2, <3>1, <3>2 DEF Processed
    <3> QED
      BY <1>2, <3>3
  <2>3. CASE r.id # p.latest
    <3>1. \A j \in DOMAIN rs : rs[j].id # p.latest
      BY <1>1, <2>1, <2>3
    <3>2. ~IsNamespace(r)
      BY <1>1, <3>1 DEF LastIsLatest
    <3>3. w.namespace # p.queued
      BY <1>3, <3>2 DEF Processed
    <3>4. PICK i \in DOMAIN resp : resp[i].id = p.latest /\ resp[i].result # "ok"
      BY <3>1, <3>3 DEF HeldOrRefused
    <3> QED
      BY <1>2, <3>4
  <2> QED
    BY <2>2, <2>3
<1> QED
  BY <1>4, <1>5 DEF t, u

\* The index has the generation of the write, which is less than those of the
\* writes behind it.
LEMMA ProcessedHistory ==
  ASSUME NEW p, NEW rs, NEW resp, NEW a, NEW w, NEW w2, IsSeq(rs), rs # <<>>, p.id \in Nat,
         Ordered(p, rs, resp), Processed(Head(rs), a, w, w2),
         WritesAccepted(p, rs, w.index.stamp), LastIsNamed(p, rs, w.index.stamp)
  PROVE  WritesAccepted(p, Tail(rs), w2.index.stamp) /\ LastIsNamed(p, Tail(rs), w2.index.stamp)
<1> DEFINE t == Tail(rs)
           r == Head(rs)
           stamp == w.index.stamp
           next  == w2.index.stamp
<1>1. /\ 1 \in DOMAIN rs /\ r = rs[1]
      /\ \A i \in DOMAIN t : i \in Nat /\ i + 1 \in DOMAIN rs /\ t[i] = rs[i + 1] /\ 1 < i + 1
      /\ \A i \in DOMAIN rs :
           i \in Nat /\ 1 <= i /\ (i # 1 => 1 < i /\ i - 1 \in DOMAIN t /\ t[i - 1] = rs[i])
  BY TailDomain
<1>2. next = (IF IsWrite(r) THEN r.id ELSE stamp) /\ r \in p.pending /\ r.id \in 1..p.id
  BY <1>1 DEF Processed, Ordered
<1>3. /\ stamp \in 0..p.id /\ \A i \in DOMAIN rs : stamp < rs[i].id
      /\ \A i \in DOMAIN rs : rs[i].kind = "append" =>
           stamp # 0 \/ \E j \in DOMAIN rs : j < i /\ rs[j].kind = "snapshot"
  BY DEF WritesAccepted
<1>4. \A i \in DOMAIN t : r.id < t[i].id
  BY <1>1 DEF Ordered
<1>5. LastIsNamed(p, rs, stamp)
  OBVIOUS
<1> HIDE DEF t, r, stamp, next
<1>6. WritesAccepted(p, t, next)
  <2>1. next \in 0..p.id /\ \A i \in DOMAIN t : next < t[i].id
    BY <1>1, <1>2, <1>3, <1>4
  <2>2. \A i \in DOMAIN t : t[i].kind = "append" =>
          next # 0 \/ \E j \in DOMAIN t : j < i /\ t[j].kind = "snapshot"
    <3> SUFFICES ASSUME NEW i \in DOMAIN t, t[i].kind = "append", next = 0
                 PROVE  \E j \in DOMAIN t : j < i /\ t[j].kind = "snapshot"
      OBVIOUS
    <3>1. ~IsWrite(r) /\ stamp = 0
      BY <1>2
    <3>2. i \in Nat /\ i + 1 \in DOMAIN rs /\ t[i] = rs[i + 1]
      BY <1>1
    <3>3. PICK j \in DOMAIN rs : j < i + 1 /\ rs[j].kind = "snapshot"
      BY <1>3, <3>1, <3>2
    <3>4. j # 1
      BY <1>1, <3>1, <3>3 DEF IsWrite
    <3> QED
      BY <1>1, <3>2, <3>3, <3>4
  <2> QED
    BY <2>1, <2>2 DEF WritesAccepted
<1>7. LastIsNamed(p, t, next)
  <2> SUFFICES ASSUME p.gen # 0
               PROVE  LastIsNamed(p, t, next)
    BY DEF LastIsNamed
  <2>1. CASE stamp = p.gen /\ \A i \in DOMAIN rs : ~IsWrite(rs[i])
    BY <1>1, <1>2, <2>1 DEF LastIsNamed
  <2>2. ASSUME NEW j \in DOMAIN rs, IsWrite(rs[j]), rs[j].id = p.gen,
               \A i \in DOMAIN rs : j < i => ~IsWrite(rs[i])
        PROVE  LastIsNamed(p, t, next)
    <3>1. CASE j = 1
      <4>1. next = p.gen
        BY <1>1, <1>2, <2>2, <3>1
      <4>2. \A i \in DOMAIN t : ~IsWrite(t[i])
        BY <1>1, <2>2, <3>1
      <4> QED
        BY <4>1, <4>2 DEF LastIsNamed
    <3>2. CASE j # 1
      <4>1. j - 1 \in DOMAIN t /\ t[j - 1] = rs[j] /\ j \in Nat
        BY <1>1, <3>2
      <4>2. \A i \in DOMAIN t : j - 1 < i => ~IsWrite(t[i])
        BY <1>1, <2>2, <4>1
      <4> QED
        BY <2>2, <4>1, <4>2 DEF LastIsNamed
    <3> QED
      BY <3>1, <3>2
  <2> QED
    BY <1>5, <2>1, <2>2 DEF LastIsNamed
<1> QED
  BY <1>6, <1>7 DEF t, stamp, next

\* The step of the worker.
LEMMA ProcessStep ==
  ASSUME SyncInv, Process
  PROVE  SyncInv'
<1>1. /\ IsShell(sh) /\ sh.tx = <<>> /\ IsSeq(requests) /\ IsSeq(responses)
      /\ Linked(sh, requests, responses, worker) /\ Signed(sh) /\ Counted(sh)
  BY DEF SyncInv
<1>2. requests # <<>> /\ requests' = Tail(requests) /\ sh' = sh
  <2>1. requests # <<>> /\ sh' = sh
    BY DEF Process
  <2>2. Head(requests) \in sh.pending /\ Head(requests).kind \in Kinds
    BY <1>1, <2>1, TailDomain DEF Linked, Ordered
  <2>3. \E id, result, body, w : Answer(id, result, body, w)
    BY <2>2, Zenon DEF Process, WriteHistory, Kinds
  <2> QED
    BY <2>1, <2>3 DEF Answer
<1>3. PICK a : responses' = Append(responses, a) /\ Processed(Head(requests), a, worker, worker')
  BY ProcessAnswers
<1>4. IsWorker(worker')
  BY ProcessAnswers
<1>5. IsSeq(requests') /\ IsSeq(responses')
  BY <1>1, <1>2, <1>3, SeqTail, SeqAppend
<1>6. sh.id \in Nat /\ a.id = Head(requests).id
  BY <1>1, <1>3 DEF IsShell, Shells, Processed
<1>7. Ordered(sh, Tail(requests), Append(responses, a))
  BY <1>1, <1>2, <1>6, ProcessedOrdered DEF Linked
<1>8. /\ LastIsLatest(sh, Tail(requests))
      /\ HeldOrRefused(sh, Tail(requests), Append(responses, a), worker'.namespace)
  BY <1>1, <1>2, <1>3, <1>6, ProcessedNames DEF Linked
<1>9. /\ WritesAccepted(sh, Tail(requests), worker'.index.stamp)
      /\ LastIsNamed(sh, Tail(requests), worker'.index.stamp)
  BY <1>1, <1>2, <1>3, <1>6, ProcessedHistory DEF Linked
<1> QED
  BY <1>1, <1>2, <1>3, <1>4, <1>5, <1>7, <1>8, <1>9 DEF SyncInv, Linked

-----------------------------------------------------------------------------
(***************************************************************************)
(* The theorems.                                                           *)
(***************************************************************************)
\* A shell that has just begun.
LEMMA SyncInit == Init => SyncInv
<1> SUFFICES ASSUME Init
             PROVE  SyncInv
  OBVIOUS
<1>1. IsShell(sh)
  BY DEF Init, IsShell, Shells
<1>2. /\ sh.up = FALSE /\ sh.gen = 0 /\ sh.signature = None /\ sh.queued = None
      /\ sh.latest = 0 /\ sh.pending = {} /\ sh.tx = <<>> /\ sh.id = 0 /\ sh.sync = 0
  BY DEF Init
<1>3. requests = <<>> /\ responses = <<>> /\ IsSeq(<<>>) /\ DOMAIN <<>> = {}
  BY SeqEmpty DEF Init
<1>4. worker.namespace = None /\ worker.index.stamp = 0 /\ IsWorker(worker)
  BY DEF Init, NoWorker, NoIndex, IsWorker
<1>5. Ordered(sh, requests, responses)
  BY <1>2, <1>3 DEF Ordered
<1>6. /\ Latched(sh) /\ LastIsLatest(sh, requests)
      /\ HeldOrRefused(sh, requests, responses, worker.namespace)
  BY <1>2, <1>3 DEF Latched, LastIsLatest, HeldOrRefused
<1>7. WritesAccepted(sh, requests, worker.index.stamp) /\ LastIsNamed(sh, requests, worker.index.stamp)
  BY <1>2, <1>3, <1>4 DEF WritesAccepted, LastIsNamed
<1>8. Signed(sh)
  BY <1>2 DEF Signed
<1>9. Counted(sh)
  <2>1. Appends(sh) = {}
    BY <1>2 DEF Appends
  <2>2. IsFiniteSet({}) /\ Cardinality({}) = 0
    BY FS_EmptySet
  <2> QED
    BY <1>2, <2>1, <2>2, ConstantTypes DEF Counted, Waiting
<1> QED
  BY <1>1, <1>2, <1>3, <1>4, <1>5, <1>6, <1>7, <1>8, <1>9 DEF SyncInv, Linked

\* A step of the shell, a response, the end of a session, or a step of the worker.
LEMMA SyncNext == SyncInv /\ [Next]_vars => SyncInv'
<1> SUFFICES ASSUME SyncInv, [Next]_vars
             PROVE  SyncInv'
  OBVIOUS
<1>1. CASE Execute \/ ExecuteUnstored \/ Rename \/ Switch \/ Import \/ Shrink \/ Type \/ OpenMenu
  BY <1>1, ShellStep
<1>2. CASE Receive
  BY <1>2, ReceiveStep
<1>3. CASE SessionFail
  BY <1>3, DownStep DEF SessionFail, SyncInv
<1>4. CASE Process
  BY <1>4, ProcessStep
<1>5. CASE UNCHANGED vars
  BY <1>5 DEF vars, SyncInv
<1> QED
  BY <1>1, <1>2, <1>3, <1>4, <1>5 DEF Next

\* The strengthened invariant holds in every reachable state.
THEOREM SyncInvHolds == Spec => []SyncInv
BY SyncInit, SyncNext, PTL DEF Spec

\* No write of the shell is ever refused, so the generation it would name is the
\* one the index has once all is processed (_zrush_hist_reconcile).
LEMMA GenerationIsHeld == SyncInv => LatchIsHeld
<1> SUFFICES ASSUME SyncInv, sh.gen # 0, requests = <<>>
             PROVE  Holds(worker.index, sh.gen)
  BY DEF LatchIsHeld
<1>1. DOMAIN requests = {}
  BY SeqEmpty
<1>2. worker.index.stamp = sh.gen
  BY <1>1 DEF SyncInv, Linked, LastIsNamed
<1> QED
  BY <1>2 DEF Holds

\* The count of unanswered appends is their number whenever the shell may send
\* another one (_zrush_hist_unacked).
LEMMA CountIsExact == SyncInv => UnackedIsExact
<1>1. Pending("append") = Appends(sh)
  BY DEF Pending, Appends
<1> QED
  BY <1>1 DEF SyncInv, Counted, UnackedIsExact

\* Nothing pending means that the chain from the shell's names to the worker's
\* is closed: the worker holds what the shell last looked at
\* (_zrush_namespace_refresh, _zrush_namespace_settle).
LEMMA NamesAreHeld == SyncInv => NamespaceIsCurrent
<1> SUFFICES ASSUME SyncInv, sh.up, sh.signature = sh.names, Pending("namespace") = {}
             PROVE  worker.namespace = sh.names
  BY DEF NamespaceIsCurrent
<1>1. sh.names \in Names /\ sh.names # None
  BY ConstantTypes DEF SyncInv, IsShell, Shells
<1>2. sh.queued = sh.names
  BY <1>1 DEF SyncInv, Signed
<1>3. \A q \in sh.pending : ~IsNamespace(q) /\ q.id # sh.latest
  BY DEF Pending, IsNamespace, SyncInv, Linked, Latched
<1>4. \A i \in DOMAIN requests : requests[i].id # sh.latest
  BY <1>3 DEF SyncInv, Linked, Ordered
<1>5. \A i \in DOMAIN responses : responses[i].id # sh.latest
  BY <1>3 DEF SyncInv, Linked, Ordered
<1> QED
  BY <1>1, <1>2, <1>4, <1>5 DEF SyncInv, Linked, HeldOrRefused

\* What the shell takes for granted about the worker is so in every reachable
\* state: the generation, the count of unanswered appends, and the names.
THEOREM ShellIsRight == Spec => []WorkerIsInStep
BY SyncInvHolds, GenerationIsHeld, CountIsExact, NamesAreHeld, PTL DEF WorkerIsInStep

-----------------------------------------------------------------------------
(***************************************************************************)
(* The history and its menu.  The index that the requests under way lead   *)
(* to is compared with the shell's history: of two lines, which comes      *)
(* before which (Leads).  The first lemmas are about sequences and those   *)
(* two, the next about the operators of the shell, and the last about the  *)
(* steps.                                                                  *)
(*                                                                         *)
(* Positions of a sequence in their order, and what is at them.            *)
(***************************************************************************)
\* f lists the elements of W in ascending order.
Lists(f, W) ==
  /\ \A i, j \in DOMAIN f : i < j => f[i] < f[j]
  /\ \A w \in W : \E i \in DOMAIN f : f[i] = w

\* Every set of the first n positions has such a list.
LEMMA ListExists ==
  \A n \in Nat : \A W \in SUBSET (1..n) :
    Cardinality(W) \in 0..n /\ \E f \in [1..Cardinality(W) -> W] : Lists(f, W)
<1> DEFINE Listed(W) == \E f \in [1..Cardinality(W) -> W] : Lists(f, W)
           T == {n \in Nat : \A W \in SUBSET (1..n) : Cardinality(W) \in 0..n /\ Listed(W)}
<1>1. 0 \in T
  <2> SUFFICES ASSUME NEW W \in SUBSET (1..0)
               PROVE  Cardinality(W) \in 0..0 /\ Listed(W)
    OBVIOUS
  <2>0. 1..0 = {}
    OBVIOUS
  <2>1. W = {} /\ Cardinality(W) = 0
    BY <2>0, FS_EmptySet
  <2>2. [i \in 1..0 |-> i] \in [1..Cardinality(W) -> W] /\ Lists([i \in 1..0 |-> i], W)
    BY <2>1 DEF Lists
  <2>3. Listed(W)
    BY <2>2
  <2> HIDE DEF Listed
  <2> QED
    BY <2>1, <2>3
<1>2. ASSUME NEW n \in Nat, n \in T
      PROVE  n + 1 \in T
  <2> SUFFICES ASSUME NEW W \in SUBSET (1..(n + 1))
               PROVE  Cardinality(W) \in 0..(n + 1) /\ Listed(W)
    OBVIOUS
  <2> DEFINE V == W \ {n + 1}
             m == Cardinality(V)
  <2>1. V \in SUBSET (1..n)
    OBVIOUS
  <2>2. m \in 0..n /\ Listed(V) /\ IsFiniteSet(V)
    <3>1. IsFiniteSet(V)
      <4>1. IsFiniteSet(1..n)
        BY FS_Interval, 1 \in Int, n \in Int
      <4> QED
        BY <2>1, <4>1, FS_Subset
    <3> HIDE DEF Listed
    <3> QED
      BY <1>2, <2>1, <3>1
  <2>3. CASE n + 1 \notin W
    <3>1. V = W
      BY <2>3
    <3> HIDE DEF Listed, V
    <3> QED
      BY <2>2, <3>1
  <2>4. CASE n + 1 \in W
    <3>1. W = V \cup {n + 1} /\ n + 1 \notin V
      BY <2>4
    <3>2. Cardinality(W) = m + 1
      BY <2>2, <3>1, FS_AddElement
    <3>3. PICK f \in [1..m -> V] : Lists(f, V)
      BY <2>2
    <3> HIDE DEF V, m
    <3> DEFINE g == [i \in 1..(m + 1) |-> IF i = m + 1 THEN n + 1 ELSE f[i]]
    <3>4. g \in [1..(m + 1) -> W]
      BY <2>2, <3>1, <3>3
    <3>5. \A i, j \in 1..(m + 1) : i < j => g[i] < g[j]
      <4> SUFFICES ASSUME NEW i \in 1..(m + 1), NEW j \in 1..(m + 1), i < j
                   PROVE  g[i] < g[j]
        OBVIOUS
      <4>1. i \in 1..m /\ f[i] \in V /\ g[i] = f[i] /\ f[i] \in 1..n
        <5>1. m \in Nat
          BY <2>2
        <5>2. i \in 1..m /\ i # m + 1
          BY <5>1
        <5> QED
          BY <2>1, <3>3, <5>2
      <4>2. CASE j = m + 1
        BY <4>1, <4>2
      <4>3. CASE j # m + 1
        <5>1. j \in 1..m /\ g[j] = f[j]
          BY <2>2, <4>3
        <5>2. f[i] < f[j]
          BY <3>3, <4>1, <5>1 DEF Lists
        <5> QED
          BY <4>1, <5>1, <5>2
      <4> QED
        BY <4>2, <4>3
    <3>6. \A w \in W : \E i \in 1..(m + 1) : g[i] = w
      <4> SUFFICES ASSUME NEW w \in W
                   PROVE  \E i \in 1..(m + 1) : g[i] = w
        OBVIOUS
      <4>1. CASE w = n + 1
        BY <2>2, <4>1
      <4>2. CASE w # n + 1
        <5>1. PICK i \in 1..m : f[i] = w
          BY <3>1, <3>3, <4>2 DEF Lists
        <5> QED
          BY <2>2, <5>1
      <4> QED
        BY <4>1, <4>2
    <3>7. Listed(W)
      BY <3>2, <3>4, <3>5, <3>6 DEF Lists
    <3> QED
      BY <2>2, <3>2, <3>7
  <2> QED
    BY <2>3, <2>4
<1> HIDE DEF T
<1>3. \A n \in Nat : n \in T
  BY <1>1, <1>2, SetInduction
<1> QED
  BY <1>3 DEF T

\* What is at some positions of a sequence is a sequence that keeps their order.
LEMMA AtIs ==
  ASSUME NEW S, NEW s \in Seq(S), NEW W \in SUBSET (DOMAIN s)
  PROVE  LET t == At(s, W)
         IN  /\ t \in Seq(S) /\ Len(t) \in 0..Len(s)
             /\ \E f \in [1..Len(t) -> W] : Lists(f, W) /\ \A k \in 1..Len(t) : t[k] = s[f[k]]
<1> DEFINE m == Cardinality(W)
           f == Ascending(W)
           t == At(s, W)
<1>1. W \in SUBSET (1..Len(s)) /\ Len(s) \in Nat
  OBVIOUS
<1>2. m \in 0..Len(s) /\ \E g \in [1..m -> W] : Lists(g, W)
  BY <1>1, ListExists
<1>3. f \in [1..m -> W] /\ Lists(f, W)
  <2>1. f = CHOOSE g \in [1..m -> W] : Lists(g, W)
    BY DEF Ascending, Lists
  <2> QED
    BY <1>2, <2>1
<1>4. t = [k \in 1..m |-> s[f[k]]]
  BY DEF At
<1> HIDE DEF m, f, t
<1>5. m \in Nat /\ t \in [1..m -> S]
  BY <1>1, <1>2, <1>3, <1>4
<1>6. t \in Seq(S) /\ Len(t) = m
  BY <1>5, SeqDef
<1> QED
  BY <1>2, <1>3, <1>4, <1>6 DEF t

\* y is in s, in front of all that is x.
Before(s, y, x) == \E i \in DOMAIN s : s[i] = y /\ \A j \in 1..i : s[j] # x

\* If all that is y is taken, it stays in front of x.
LEMMA AtKeepsBefore ==
  ASSUME NEW S, NEW s \in Seq(S), NEW W \in SUBSET (DOMAIN s), NEW y, NEW x,
         \A i \in DOMAIN s : s[i] = y => i \in W, Before(s, y, x)
  PROVE  Before(At(s, W), y, x)
<1> DEFINE t == At(s, W)
<1>1. PICK f \in [1..Len(t) -> W] :
        /\ t \in Seq(S) /\ Len(t) \in 0..Len(s) /\ Lists(f, W)
        /\ \A k \in 1..Len(t) : t[k] = s[f[k]]
  BY AtIs
<1>2. PICK i \in DOMAIN s : s[i] = y /\ \A j \in 1..i : s[j] # x
  BY DEF Before
<1>3. PICK k \in 1..Len(t) : f[k] = i
  BY <1>1, <1>2 DEF Lists
<1> HIDE DEF t
<1>4. ASSUME NEW j \in 1..k
      PROVE  t[j] # x
  <2>1. j \in 1..Len(t) /\ f[j] \in W /\ f[j] \in Nat /\ 1 <= f[j] /\ i \in Nat /\ k \in Nat
    BY <1>1, <1>2, <1>3
  <2>2. j < k => f[j] < f[k]
    BY <1>1, <1>3, <2>1 DEF Lists
  <2>3. f[j] \in 1..i
    BY <1>3, <2>1, <2>2
  <2> QED
    BY <1>1, <1>2, <2>1, <2>3
<1>5. t[k] = y /\ k \in DOMAIN t
  BY <1>1, <1>2, <1>3
<1> QED
  BY <1>4, <1>5 DEF Before, t

\* If all that is x is taken, what is in front of it was.
LEMMA AtHadBefore ==
  ASSUME NEW S, NEW s \in Seq(S), NEW W \in SUBSET (DOMAIN s), NEW y, NEW x,
         \A i \in DOMAIN s : s[i] = x => i \in W, Before(At(s, W), y, x)
  PROVE  Before(s, y, x)
<1> DEFINE t == At(s, W)
<1>1. PICK f \in [1..Len(t) -> W] :
        /\ t \in Seq(S) /\ Len(t) \in 0..Len(s) /\ Lists(f, W)
        /\ \A k \in 1..Len(t) : t[k] = s[f[k]]
  BY AtIs
<1>2. PICK k \in DOMAIN t : t[k] = y /\ \A j \in 1..k : t[j] # x
  BY DEF Before
<1> HIDE DEF t
<1>3. k \in 1..Len(t) /\ f[k] \in DOMAIN s /\ s[f[k]] = y
  BY <1>1, <1>2
<1>4. ASSUME NEW j \in 1..f[k]
      PROVE  s[j] # x
  <2> SUFFICES ASSUME s[j] = x
               PROVE  FALSE
    OBVIOUS
  <2>1. j \in DOMAIN s /\ j \in Nat /\ f[k] \in Nat /\ j <= f[k]
    BY <1>3
  <2>2. j \in W
    BY <2>1
  <2>3. PICK i \in 1..Len(t) : f[i] = j
    BY <1>1, <2>2 DEF Lists
  <2>4. ~(k < i)
    <3>1. k < i => f[k] < f[i]
      BY <1>1, <1>3, <2>3 DEF Lists
    <3> QED
      BY <2>1, <2>3, <3>1
  <2>5. i \in 1..k
    BY <1>3, <2>3, <2>4
  <2> QED
    BY <1>1, <1>2, <2>3, <2>5
<1> QED
  BY <1>3, <1>4 DEF Before

\* The elements at some positions.
LEMMA AtElements ==
  ASSUME NEW S, NEW s \in Seq(S), NEW W \in SUBSET (DOMAIN s)
  PROVE  /\ At(s, W) \in Seq(S) /\ Len(At(s, W)) \in 0..Len(s)
         /\ ToSet(At(s, W)) = {s[i] : i \in W}
<1> DEFINE t == At(s, W)
<1>1. PICK f \in [1..Len(t) -> W] :
        /\ t \in Seq(S) /\ Len(t) \in 0..Len(s) /\ Lists(f, W)
        /\ \A k \in 1..Len(t) : t[k] = s[f[k]]
  BY AtIs
<1> HIDE DEF t
<1>2. DOMAIN t = 1..Len(t) /\ DOMAIN f = 1..Len(t)
  BY <1>1
<1>3. ToSet(t) = {s[i] : i \in W}
  BY <1>1, <1>2 DEF Lists, ToSet
<1> QED
  BY <1>1, <1>3 DEF t

\* The bounds are numbers.
LEMMA HistoryTypes ==
  Excluded \subseteq Lines /\ RetentionCap \in Nat
BY SyncAssumption

\* The first n lines.
LEMMA NewestIs ==
  ASSUME NEW S, NEW s \in Seq(S), NEW n \in Nat
  PROVE  LET t == Newest(s, n)
         IN  /\ t \in Seq(S) /\ Len(t) \in 0..n /\ Len(t) <= Len(s)
             /\ Len(s) <= n => t = s
             /\ \A i \in 1..Len(t) : t[i] = s[i]
             /\ Len(s) > n => Len(t) = n
<1> DEFINE m == IF Len(s) < n THEN Len(s) ELSE n
           t == Newest(s, n)
<1>1. t = SubSeq(s, 1, m) /\ m \in 0..n /\ m <= Len(s) /\ Len(s) \in Nat /\ m \in Nat
  BY DEF Newest
<1>2. m = Len(s) \/ (Len(s) > n /\ m = n)
  OBVIOUS
<1>3. Len(s) <= n => m = Len(s)
  OBVIOUS
<1> HIDE DEF m, t
<1>4. t \in Seq(S) /\ Len(t) = m /\ \A i \in 1..m : t[i] = s[i]
  BY <1>1
<1>5. m = Len(s) => t = s
  BY <1>1, <1>4
<1> QED
  BY <1>1, <1>2, <1>3, <1>4, <1>5 DEF t

(***************************************************************************)
(* The history and the entries of the index.                               *)
(***************************************************************************)
\* The lines that may be sent.
Kept(history) == ToSet(history) \ Excluded

\* The history's lines that are sent keep their order.
LEMMA SentIs ==
  ASSUME NEW h \in Seq(Lines)
  PROVE  /\ Sent(h) \in Seq(Lines) /\ Len(Sent(h)) \in 0..Len(h) /\ ToSet(Sent(h)) = Kept(h)
         /\ \A x \in Kept(h), y \in Lines :
              /\ Before(Sent(h), y, x) => y \in Kept(h) /\ Before(h, y, x)
              /\ y \in Kept(h) /\ Before(h, y, x) => Before(Sent(h), y, x)
<1> DEFINE W == {i \in DOMAIN h : h[i] \notin Excluded}
<1>1. Sent(h) = At(h, W) /\ W \in SUBSET (DOMAIN h)
  BY DEF Sent
<1>2. /\ Sent(h) \in Seq(Lines) /\ Len(Sent(h)) \in 0..Len(h)
      /\ ToSet(Sent(h)) = {h[i] : i \in W}
  BY <1>1, AtElements
<1>3. {h[i] : i \in W} = Kept(h)
  BY DEF Kept, ToSet
<1>4. ASSUME NEW x \in Kept(h), NEW y, Before(Sent(h), y, x)
      PROVE  y \in Kept(h) /\ Before(h, y, x)
  <2>1. y \in ToSet(Sent(h))
    BY <1>4 DEF Before, ToSet
  <2>2. \A i \in DOMAIN h : h[i] = x => i \in W
    BY DEF Kept
  <2> HIDE DEF W
  <2> QED
    BY <1>1, <1>2, <1>3, <1>4, <2>1, <2>2, AtHadBefore
<1>5. ASSUME NEW x, NEW y \in Kept(h), Before(h, y, x)
      PROVE  Before(Sent(h), y, x)
  <2>1. \A i \in DOMAIN h : h[i] = y => i \in W
    BY DEF Kept
  <2> HIDE DEF W
  <2> QED
    BY <1>1, <1>5, <2>1, AtKeepsBefore
<1> QED
  BY <1>2, <1>3, <1>4, <1>5

\* So do the others when a line is taken away.
LEMMA WithoutIs ==
  ASSUME NEW h \in Seq(Lines), NEW line
  PROVE  LET g == Without(h, line)
         IN  /\ g \in Seq(Lines) /\ Len(g) \in 0..Len(h) /\ ToSet(g) = ToSet(h) \ {line}
             /\ \A x, y : y # line /\ Before(h, y, x) => Before(g, y, x)
<1> DEFINE W == {i \in DOMAIN h : h[i] # line}
           g == Without(h, line)
<1>1. g = At(h, W) /\ W \in SUBSET (DOMAIN h)
  BY DEF Without
<1>2. g \in Seq(Lines) /\ Len(g) \in 0..Len(h) /\ ToSet(g) = {h[i] : i \in W}
  BY <1>1, AtElements
<1>3. {h[i] : i \in W} = ToSet(h) \ {line}
  BY DEF ToSet
<1>4. ASSUME NEW x, NEW y, y # line, Before(h, y, x)
      PROVE  Before(g, y, x)
  <2>1. \A i \in DOMAIN h : h[i] = y => i \in W
    BY <1>4
  <2> HIDE DEF W, g
  <2> QED
    BY <1>1, <1>4, <2>1, AtKeepsBefore
<1> QED
  BY <1>2, <1>3, <1>4

\* Every line once, at its first place.
Distinct(s) == At(s, Firsts(s))

\* Every element has a first occurrence.
LEMMA FirstExists ==
  ASSUME NEW S, NEW s \in Seq(S), NEW j \in DOMAIN s
  PROVE  \E i \in Firsts(s) : s[i] = s[j] /\ i <= j
<1> DEFINE T == {i \in DOMAIN s : s[i] = s[j]}
<1>1. T \subseteq Nat /\ j \in T
  OBVIOUS
<1> HIDE DEF T
<1>2. PICK i \in T : \A k \in T : i <= k
  BY <1>1, LeastNat
<1>3. i \in DOMAIN s /\ s[i] = s[j] /\ i <= j /\ i \in Nat
  BY <1>1, <1>2 DEF T
<1>4. ASSUME NEW k \in 1..(i - 1), s[k] = s[i]
      PROVE  FALSE
  <2>1. k \in DOMAIN s /\ ~(i <= k)
    BY <1>3
  <2>2. k \in T
    BY <1>3, <1>4, <2>1 DEF T
  <2> QED
    BY <1>2, <2>1, <2>2
<1> QED
  BY <1>3, <1>4 DEF Firsts

\* The first occurrences are each line once, in the order in which the lines first
\* occur.
LEMMA DistinctIs ==
  ASSUME NEW S, NEW s \in Seq(S)
  PROVE  LET d == Distinct(s)
         IN  /\ d \in Seq(S) /\ ToSet(d) = ToSet(s)
             /\ \A i, j \in 1..Len(d) : d[i] = d[j] => i = j
             /\ \A k \in 1..Len(d) : \A x : (\A i \in 1..k : d[i] # x) => Before(s, d[k], x)
             /\ \A k \in 1..Len(d) : \A y : Before(s, y, d[k]) => \E i \in 1..Len(d) : i < k /\ d[i] = y
<1> DEFINE W == Firsts(s)
           d == Distinct(s)
<1>1. W \in SUBSET (DOMAIN s) /\ d = At(s, W) /\ Len(s) \in Nat /\ DOMAIN s = 1..Len(s)
  BY DEF Distinct, Firsts
<1>2. \A i, j \in W : s[i] = s[j] => i = j
  <2> SUFFICES ASSUME NEW i \in W, NEW j \in W, s[i] = s[j], i < j
               PROVE  FALSE
    BY <1>1
  <2>1. i \in 1..(j - 1)
    BY <1>1
  <2> QED
    BY <2>1 DEF Firsts
<1>3. \A j \in DOMAIN s : \E i \in W : s[i] = s[j] /\ i <= j
  BY FirstExists
<1> HIDE DEF W
<1>4. PICK f \in [1..Len(d) -> W] :
        /\ d \in Seq(S) /\ Len(d) \in 0..Len(s) /\ Lists(f, W)
        /\ \A k \in 1..Len(d) : d[k] = s[f[k]]
  BY <1>1, AtIs
<1>5. ToSet(d) = {s[i] : i \in W}
  BY <1>1, AtElements
<1>6. {s[i] : i \in W} = ToSet(s)
  BY <1>1, <1>3 DEF ToSet
<1> HIDE DEF d
<1>7. \A k \in 1..Len(d) : f[k] \in W /\ f[k] \in DOMAIN s /\ f[k] \in Nat
  BY <1>1, <1>4
<1>8. \A i, j \in 1..Len(d) : i < j => f[i] < f[j]
  BY <1>4 DEF Lists
<1>9. \A i, j \in 1..Len(d) : d[i] = d[j] => i = j
  <2> SUFFICES ASSUME NEW i \in 1..Len(d), NEW j \in 1..Len(d), d[i] = d[j], i < j
               PROVE  FALSE
    BY <1>4
  <2>1. f[i] = f[j]
    BY <1>2, <1>4, <1>7
  <2> QED
    BY <1>7, <1>8, <2>1
<1>10. ASSUME NEW k \in 1..Len(d), NEW x, \A i \in 1..k : d[i] # x
       PROVE  Before(s, d[k], x)
  <2>1. ASSUME NEW j \in 1..f[k], s[j] = x
        PROVE  FALSE
    <3>1. j \in DOMAIN s /\ j <= f[k] /\ j \in Nat
      BY <1>1, <1>7
    <3>2. PICK p \in W : s[p] = x /\ p <= j
      BY <1>3, <2>1, <3>1
    <3>3. PICK i \in 1..Len(d) : f[i] = p
      BY <1>4 DEF Lists
    <3>4. ~(k < i)
      BY <1>7, <1>8, <3>1, <3>2, <3>3
    <3>5. i \in 1..k
      BY <1>4, <3>4
    <3> QED
      BY <1>4, <1>10, <3>2, <3>3, <3>5
  <2>2. f[k] \in DOMAIN s /\ s[f[k]] = d[k]
    BY <1>4, <1>7
  <2> QED
    BY <2>1, <2>2 DEF Before
<1>11. ASSUME NEW k \in 1..Len(d), NEW y, Before(s, y, d[k])
       PROVE  \E i \in 1..Len(d) : i < k /\ d[i] = y
  <2>1. PICK j \in DOMAIN s : s[j] = y /\ \A i \in 1..j : s[i] # d[k]
    BY <1>11 DEF Before
  <2>2. PICK p \in W : s[p] = y /\ p <= j
    BY <1>3, <2>1
  <2>3. PICK i \in 1..Len(d) : f[i] = p
    BY <1>4 DEF Lists
  <2>4. j \in Nat /\ ~(f[k] <= j)
    <3>1. s[f[k]] = d[k] /\ f[k] \in 1..Len(s)
      BY <1>1, <1>4, <1>7
    <3> QED
      BY <1>1, <2>1, <3>1
  <2>5. f[i] < f[k] /\ d[i] = y
    BY <1>4, <1>7, <2>2, <2>3, <2>4
  <2>6. i < k
    BY <1>7, <1>8, <2>5
  <2> QED
    BY <2>5, <2>6
<1> QED
  BY <1>4, <1>5, <1>6, <1>9, <1>10, <1>11 DEF d

\* They are the lines of the sequence, each once.
LEMMA DistinctElements ==
  ASSUME NEW S, NEW s \in Seq(S)
  PROVE  /\ Distinct(s) \in Seq(S) /\ ToSet(Distinct(s)) = ToSet(s)
         /\ \A i, j \in 1..Len(Distinct(s)) : Distinct(s)[i] = Distinct(s)[j] => i = j
BY DistinctIs

\* A line that is not among the first k of them is behind these.
LEMMA DistinctFront ==
  ASSUME NEW S, NEW s \in Seq(S), NEW k \in 1..Len(Distinct(s)), NEW x,
         \A i \in 1..k : Distinct(s)[i] # x
  PROVE  Before(s, Distinct(s)[k], x)
BY DistinctIs

\* A line that occurs before the k-th of them is one of those before it.
LEMMA DistinctOrder ==
  ASSUME NEW S, NEW s \in Seq(S), NEW k \in 1..Len(Distinct(s)), NEW y,
         Before(s, y, Distinct(s)[k])
  PROVE  \E i \in 1..Len(Distinct(s)) : i < k /\ Distinct(s)[i] = y
BY DistinctIs

(***************************************************************************)
(* The entries e lead the history h after c commands and changes: what     *)
(* they have in front of a line that may be sent, the history has in front *)
(* of it as well; and they have all of these lines if that is not too many *)
(* for the index.                                                          *)
(***************************************************************************)
Leads(h, e, c) ==
  /\ \A x \in Kept(h), y \in Lines : Before(e, y, x) => y \in Kept(h) /\ Before(h, y, x)
  /\ c <= RetentionCap => Kept(h) \subseteq ToSet(e)

\* Then each line once of the one is the beginning of each line once of the other.
LEMMA LeadsAgree ==
  ASSUME NEW h \in Seq(Lines), NEW e \in Seq(Lines), NEW c \in Nat, Leads(h, e, c)
  PROVE  LET t == Distinct(Sent(h))
             d == Distinct(e)
         IN  /\ t \in Seq(Lines) /\ d \in Seq(Lines) /\ ToSet(t) = Kept(h) /\ ToSet(d) = ToSet(e)
             /\ IsPrefix(t, d) \/ (c > RetentionCap /\ IsPrefix(d, t))
<1> DEFINE s == Sent(h)
           t == Distinct(s)
           d == Distinct(e)
<1>1. /\ s \in Seq(Lines) /\ ToSet(s) = Kept(h)
      /\ \A x \in Kept(h), y \in Lines : y \in Kept(h) /\ Before(h, y, x) => Before(s, y, x)
  BY SentIs
<1> HIDE DEF s
<1>2. /\ t \in Seq(Lines) /\ ToSet(t) = ToSet(s)
      /\ \A i, j \in 1..Len(t) : t[i] = t[j] => i = j
      /\ \A k \in 1..Len(t) : \A y : Before(s, y, t[k]) => \E i \in 1..Len(t) : i < k /\ t[i] = y
  <2>1. s \in Seq(Lines)
    BY <1>1
  <2>2. ASSUME NEW k \in 1..Len(t), NEW y, Before(s, y, t[k])
        PROVE  \E i \in 1..Len(t) : i < k /\ t[i] = y
    BY ONLY <2>1, <2>2, DistinctOrder
  <2>3. /\ t \in Seq(Lines) /\ ToSet(t) = ToSet(s)
        /\ \A i, j \in 1..Len(t) : t[i] = t[j] => i = j
    BY ONLY <2>1, DistinctElements
  <2> HIDE DEF t
  <2> QED
    BY <2>2, <2>3
<1>3. /\ d \in Seq(Lines) /\ ToSet(d) = ToSet(e)
      /\ \A i, j \in 1..Len(d) : d[i] = d[j] => i = j
      /\ \A k \in 1..Len(d) : \A x : (\A i \in 1..k : d[i] # x) => Before(e, d[k], x)
  BY DistinctFront, DistinctElements
<1> HIDE DEF t, d
<1> DEFINE n == Len(t)
           m == Len(d)
           Equal(k) == k <= n /\ k <= m => d[k] = t[k]
           P == {k \in Nat : \A i \in 1..k : Equal(i)}
<1>4. n \in Nat /\ m \in Nat /\ DOMAIN t = 1..n /\ DOMAIN d = 1..m
  BY <1>2, <1>3
<1> HIDE DEF n, m
<1>5. 0 \in P
  OBVIOUS
<1>6. ASSUME NEW k \in Nat, k \in P
      PROVE  k + 1 \in P
  <2> SUFFICES ASSUME k + 1 <= n, k + 1 <= m, d[k + 1] # t[k + 1]
               PROVE  FALSE
    <3>1. Equal(k + 1) => k + 1 \in P
      <4> SUFFICES ASSUME Equal(k + 1), NEW i \in 1..(k + 1)
                   PROVE  Equal(i)
        BY DEF P
      <4>1. i = k + 1 \/ i \in 1..k
        OBVIOUS
      <4> QED
        BY <1>6, <4>1
    <3> QED
      BY <3>1
  <2> DEFINE y == d[k + 1]
             x == t[k + 1]
  <2>1. /\ k + 1 \in 1..n /\ k + 1 \in 1..m /\ x \in ToSet(t) /\ y \in ToSet(d) /\ y \in Lines
        /\ \A i \in 1..k : d[i] = t[i] /\ i \in 1..n /\ i \in 1..m /\ i # k + 1
    <3>1. k + 1 \in 1..n /\ k + 1 \in 1..m
      BY <1>4
    <3>2. x \in ToSet(t) /\ y \in ToSet(d) /\ y \in Lines
      BY <1>3, <1>4, <3>1 DEF ToSet
    <3>3. \A i \in 1..k : i \in 1..n /\ i \in 1..m /\ i # k + 1 /\ i <= n /\ i <= m
      BY <1>4
    <3>4. \A i \in 1..k : d[i] = t[i]
      BY <1>6, <3>3
    <3> QED
      BY <3>1, <3>2, <3>3, <3>4
  <2>2. \A i \in 1..(k + 1) : d[i] # x
    <3>1. \A i \in 1..(k + 1) : i = k + 1 \/ i \in 1..k
      OBVIOUS
    <3> QED
      BY <1>2, <2>1, <3>1 DEF n
  <2>3. Before(e, y, x)
    BY <1>3, <2>1, <2>2 DEF m
  <2>4. y \in Kept(h) /\ Before(s, y, x)
    BY <1>1, <1>2, <2>1, <2>3 DEF Leads
  <2>5. PICK i \in 1..k : t[i] = y
    <3>1. k + 1 \in 1..Len(t) /\ Before(s, y, t[k + 1])
      BY <2>1, <2>4 DEF n
    <3>2. PICK i \in 1..Len(t) : i < k + 1 /\ t[i] = y
      BY <1>2, <3>1
    <3> QED
      BY <3>2
  <2> QED
    BY <1>3, <2>1, <2>5 DEF m
<1> HIDE DEF P
<1>7. \A k \in Nat : k \in P
  BY <1>5, <1>6, SetInduction
<1>8. \A k \in 1..n : k <= m => d[k] = t[k]
  <2> SUFFICES ASSUME NEW k \in 1..n, k <= m
               PROVE  d[k] = t[k]
    OBVIOUS
  <2>1. k \in Nat /\ k \in 1..k /\ k <= n
    BY <1>4
  <2>2. k \in P
    BY <1>7, <2>1
  <2> QED
    BY <2>1, <2>2 DEF P
<1>11. t \in Seq(Lines) /\ d \in Seq(Lines) /\ ToSet(t) = Kept(h) /\ ToSet(d) = ToSet(e)
  BY <1>1, <1>2, <1>3
<1>9. CASE n <= m
  <2>1. IsPrefix(t, d)
    <3>1. SubSeq(t, 1, n) = t
      BY <1>2 DEF n
    <3>2. SubSeq(d, 1, n) \in Seq(Lines) /\ Len(SubSeq(d, 1, n)) = n /\ \A i \in 1..n : SubSeq(d, 1, n)[i] = d[i]
      BY <1>3, <1>4, <1>9 DEF m
    <3>3. SubSeq(d, 1, n) = t
      BY <1>2, <1>4, <1>8, <1>9, <3>2 DEF n
    <3> QED
      BY <1>9, <3>1, <3>3 DEF IsPrefix, n, m
  <2> QED
    BY <1>11, <2>1 DEF t, d, s
<1>10. CASE m < n
  <2>1. IsPrefix(d, t)
    <3>1. SubSeq(d, 1, m) = d
      BY <1>3 DEF m
    <3>2. SubSeq(t, 1, m) \in Seq(Lines) /\ Len(SubSeq(t, 1, m)) = m /\ \A i \in 1..m : SubSeq(t, 1, m)[i] = t[i]
      BY <1>2, <1>4, <1>10 DEF n
    <3>3. SubSeq(t, 1, m) = d
      BY <1>3, <1>4, <1>8, <1>10, <3>2 DEF m
    <3>4. m <= n
      BY <1>4, <1>10
    <3> QED
      BY <3>1, <3>3, <3>4 DEF IsPrefix, n, m
  <2>2. c > RetentionCap
    <3> SUFFICES ASSUME c <= RetentionCap
                 PROVE  FALSE
      BY HistoryTypes
    <3>1. m + 1 \in 1..n /\ \A i \in 1..m : i \in 1..n /\ i # m + 1 /\ i <= m
      BY <1>4, <1>10
    <3>2. t[m + 1] \in ToSet(d)
      BY <1>1, <1>2, <1>3, <1>4, <3>1 DEF Leads, ToSet
    <3>3. PICK i \in 1..m : d[i] = t[m + 1]
      BY <1>4, <3>2 DEF ToSet
    <3>4. t[i] = t[m + 1]
      BY <1>8, <3>1, <3>3
    <3> QED
      BY <1>2, <3>1, <3>4 DEF n
  <2> QED
    BY <1>11, <2>1, <2>2 DEF t, d, s
<1> QED
  BY <1>4, <1>9, <1>10

\* A line in front of the others.
LEMMA ConsIs ==
  ASSUME NEW l \in Lines, NEW s \in Seq(Lines)
  PROVE  LET t == <<l>> \o s
         IN  /\ t \in Seq(Lines) /\ t # <<>> /\ Len(t) = Len(s) + 1 /\ Head(t) = l
             /\ ToSet(t) = ToSet(s) \cup {l}
             /\ \A y, x : Before(t, y, x) <=> x # l /\ (y = l \/ Before(s, y, x))
<1> DEFINE t == <<l>> \o s
           n == Len(s)
<1>1. /\ t \in Seq(Lines) /\ Len(t) = n + 1 /\ n \in Nat /\ t[1] = l
      /\ \A i \in 1..n : t[i + 1] = s[i]
      /\ DOMAIN s = 1..n /\ DOMAIN t = 1..(n + 1)
  OBVIOUS
<1> HIDE DEF t, n
<1>2. \A i \in 1..(n + 1) : i = 1 \/ (i - 1 \in 1..n /\ t[i] = s[i - 1])
  <2> SUFFICES ASSUME NEW i \in 1..(n + 1), i # 1
               PROVE  i - 1 \in 1..n /\ t[i] = s[i - 1]
    OBVIOUS
  <2>1. i - 1 \in 1..n /\ (i - 1) + 1 = i
    BY <1>1
  <2> QED
    BY <1>1, <2>1
<1>3. 1 \in 1..(n + 1) /\ \A i \in 1..n : i + 1 \in 1..(n + 1)
  BY <1>1
<1>4. ToSet(t) = ToSet(s) \cup {l}
  <2>1. ASSUME NEW x \in ToSet(t)
        PROVE  x \in ToSet(s) \cup {l}
    <3>1. PICK i \in 1..(n + 1) : t[i] = x
      BY <1>1 DEF ToSet
    <3> QED
      BY <1>1, <1>2, <3>1 DEF ToSet
  <2>2. ASSUME NEW x \in ToSet(s) \cup {l}
        PROVE  x \in ToSet(t)
    BY <1>1, <1>3 DEF ToSet
  <2> QED
    BY <2>1, <2>2
<1>5. t # <<>> /\ Head(t) = l
  BY <1>1
<1>6. ASSUME NEW y, NEW x, Before(t, y, x)
      PROVE  x # l /\ (y = l \/ Before(s, y, x))
  <2>1. PICK i \in 1..(n + 1) : t[i] = y /\ \A j \in 1..i : t[j] # x
    BY <1>1, <1>6 DEF Before
  <2>2. x # l
    BY <1>1, <2>1
  <2>3. CASE i = 1
    BY <1>1, <2>1, <2>2, <2>3
  <2>4. CASE i # 1
    <3>1. i - 1 \in 1..n /\ s[i - 1] = y
      BY <1>2, <2>1, <2>4
    <3>2. ASSUME NEW j \in 1..(i - 1)
          PROVE  s[j] # x
      <4>1. j \in 1..n /\ j + 1 \in 1..i
        BY <1>1, <3>1
      <4> QED
        BY <1>1, <2>1, <4>1
    <3> QED
      BY <1>1, <2>2, <3>1, <3>2 DEF Before
  <2> QED
    BY <2>3, <2>4
<1>7. ASSUME NEW y, NEW x, x # l, y = l \/ Before(s, y, x)
      PROVE  Before(t, y, x)
  <2>1. CASE y = l
    <3>1. 1 \in DOMAIN t /\ \A j \in 1..1 : t[j] # x
      BY <1>1, <1>7
    <3> QED
      BY <1>1, <2>1, <3>1 DEF Before
  <2>2. CASE Before(s, y, x)
    <3>1. PICK i \in 1..n : s[i] = y /\ \A j \in 1..i : s[j] # x
      BY <1>1, <2>2 DEF Before
    <3>2. ASSUME NEW j \in 1..(i + 1)
          PROVE  t[j] # x
      <4>1. j \in 1..(n + 1) /\ (j # 1 => j - 1 \in 1..i)
        BY <1>1
      <4> QED
        BY <1>1, <1>2, <1>7, <3>1, <4>1
    <3>3. i + 1 \in DOMAIN t /\ t[i + 1] = y
      BY <1>1, <1>3, <3>1
    <3> QED
      BY <3>2, <3>3 DEF Before
  <2> QED
    BY <1>7, <2>1, <2>2
<1> QED
  BY <1>1, <1>4, <1>5, <1>6, <1>7 DEF t, n

\* The first lines have in front of x what all have.
LEMMA PrefixBefore ==
  ASSUME NEW s \in Seq(Lines), NEW t \in Seq(Lines), Len(t) <= Len(s),
         \A i \in 1..Len(t) : t[i] = s[i]
  PROVE  /\ ToSet(t) \subseteq ToSet(s)
         /\ \A y, x : Before(t, y, x) => Before(s, y, x)
         /\ \A y, x : x \in ToSet(t) /\ Before(s, y, x) => y \in ToSet(t) /\ Before(t, y, x)
<1> DEFINE n == Len(s)
           m == Len(t)
<1>1. n \in Nat /\ m \in Nat /\ m <= n /\ DOMAIN s = 1..n /\ DOMAIN t = 1..m
  OBVIOUS
<1>2. \A i \in 1..m : t[i] = s[i] /\ i \in 1..n
  BY <1>1
<1> HIDE DEF n, m
<1>3. ToSet(t) \subseteq ToSet(s)
  BY <1>1, <1>2 DEF ToSet
<1>4. \A i \in 1..m : \A j \in 1..i : j \in 1..m
  BY <1>1
<1>5. ASSUME NEW y, NEW x, Before(t, y, x)
      PROVE  Before(s, y, x)
  BY <1>1, <1>2, <1>4, <1>5 DEF Before
<1>6. ASSUME NEW y, NEW x, x \in ToSet(t), Before(s, y, x)
      PROVE  y \in ToSet(t) /\ Before(t, y, x)
  <2>1. PICK k \in 1..m : t[k] = x
    BY <1>1, <1>6 DEF ToSet
  <2>2. PICK i \in 1..n : s[i] = y /\ \A j \in 1..i : s[j] # x
    BY <1>1, <1>6 DEF Before
  <2>3. ~(k <= i)
    <3>1. k <= i => k \in 1..i
      BY <1>1
    <3> QED
      BY <1>2, <2>1, <2>2, <3>1
  <2>4. i \in 1..m
    BY <1>1, <2>3
  <2> QED
    BY <1>1, <1>2, <1>4, <2>2, <2>4 DEF ToSet, Before
<1> QED
  BY <1>3, <1>5, <1>6

-----------------------------------------------------------------------------
\* There is nothing to lead.
LEMMA LeadsEmpty ==
  ASSUME NEW e, NEW c
  PROVE  Leads(<<>>, e, c)
<1>1. Kept(<<>>) = {}
  BY SeqEmpty DEF Kept, ToSet
<1> QED
  BY <1>1 DEF Leads

\* More commands ask for less.
LEMMA LeadsLater ==
  ASSUME NEW h, NEW e, NEW c \in Nat, NEW d \in Nat, c <= d, Leads(h, e, c)
  PROVE  Leads(h, e, d)
<1>1. d <= RetentionCap => c <= RetentionCap
  BY HistoryTypes
<1> QED
  BY <1>1 DEF Leads

\* What the index drops is behind the others.
LEMMA LeadsNewest ==
  ASSUME NEW h \in Seq(Lines), NEW e \in Seq(Lines), NEW c \in Nat, Len(e) <= c, Leads(h, e, c)
  PROVE  Leads(h, Newest(e, RetentionCap), c)
<1> DEFINE t == Newest(e, RetentionCap)
<1>1. /\ t \in Seq(Lines) /\ Len(t) <= Len(e) /\ \A i \in 1..Len(t) : t[i] = e[i]
      /\ Len(e) <= RetentionCap => t = e
  BY NewestIs, HistoryTypes
<1> HIDE DEF t
<1>2. \A y, x : Before(t, y, x) => Before(e, y, x)
  BY <1>1, PrefixBefore
<1>3. c <= RetentionCap => t = e
  <2>1. Len(e) \in Nat
    OBVIOUS
  <2>2. c <= RetentionCap => Len(e) <= RetentionCap
    BY <2>1, HistoryTypes
  <2> QED
    BY <1>1, <2>2
<1>4. Leads(h, t, c)
  BY <1>2, <1>3 DEF Leads
<1> QED
  BY <1>4 DEF t

\* The whole history, sent.
LEMMA LeadsSent ==
  ASSUME NEW h \in Seq(Lines), NEW c \in Nat, Len(h) <= c
  PROVE  Leads(h, Newest(Sent(h), RetentionCap), c)
<1>1. /\ Sent(h) \in Seq(Lines) /\ Len(Sent(h)) \in 0..Len(h) /\ ToSet(Sent(h)) = Kept(h)
      /\ \A x \in Kept(h), y \in Lines : Before(Sent(h), y, x) => y \in Kept(h) /\ Before(h, y, x)
  BY SentIs
<1>2. Leads(h, Sent(h), c)
  BY <1>1 DEF Leads
<1>3. Len(Sent(h)) <= c
  BY <1>1
<1> QED
  BY <1>1, <1>2, <1>3, LeadsNewest

\* What the index would hold if the newest line were sent.
Ahead(h, e) ==
  IF h = <<>> \/ Head(h) \in Excluded THEN e ELSE Newest(<<Head(h)>> \o e, RetentionCap)

\* A new line, with the others that are not it as they were.
LEMMA LeadsMore ==
  ASSUME NEW h \in Seq(Lines), NEW e \in Seq(Lines), NEW c \in Nat, Len(e) <= c, Leads(h, e, c),
         NEW l \in Lines, NEW g \in Seq(Lines), ToSet(g) \cup {l} = ToSet(h) \cup {l},
         \A x, y : y # l /\ Before(h, y, x) => Before(g, y, x)
  PROVE  Leads(<<l>> \o g, Ahead(<<l>> \o g, e), c + 1)
<1> DEFINE h2 == <<l>> \o g
<1>1. /\ h2 \in Seq(Lines) /\ h2 # <<>> /\ Head(h2) = l /\ ToSet(h2) = ToSet(g) \cup {l}
      /\ \A y, x : Before(h2, y, x) <=> x # l /\ (y = l \/ Before(g, y, x))
  BY ConsIs
<1> HIDE DEF h2
<1>2. c + 1 \in Nat /\ c <= c + 1 /\ Leads(h, e, c + 1)
  BY LeadsLater
<1>3. Kept(h2) = (Kept(h) \cup {l}) \ Excluded
  BY <1>1 DEF Kept
<1>4. CASE l \in Excluded
  <2>1. Ahead(h2, e) = e
    BY <1>1, <1>4 DEF Ahead
  <2>2. Kept(h2) = Kept(h) /\ l \notin Kept(h)
    BY <1>3, <1>4 DEF Kept
  <2>3. ASSUME NEW x \in Kept(h2), NEW y \in Lines, Before(e, y, x)
        PROVE  y \in Kept(h2) /\ Before(h2, y, x)
    <3>1. y \in Kept(h) /\ Before(h, y, x) /\ y # l /\ x # l
      BY <1>2, <2>2, <2>3 DEF Leads
    <3> QED
      BY <1>1, <2>2, <3>1
  <2>4. Leads(h2, e, c + 1)
    BY <1>2, <2>2, <2>3 DEF Leads
  <2> QED
    BY <2>1, <2>4 DEF h2
<1>5. CASE l \notin Excluded
  <2> DEFINE t == <<l>> \o e
  <2>1. /\ t \in Seq(Lines) /\ Len(t) = Len(e) + 1 /\ ToSet(t) = ToSet(e) \cup {l}
        /\ \A y, x : Before(t, y, x) <=> x # l /\ (y = l \/ Before(e, y, x))
    BY ConsIs
  <2>2. Ahead(h2, e) = Newest(t, RetentionCap)
    BY <1>1, <1>5 DEF Ahead
  <2> HIDE DEF t
  <2>3. Kept(h2) = Kept(h) \cup {l}
    BY <1>3, <1>5 DEF Kept
  <2>4. ASSUME NEW x \in Kept(h2), NEW y \in Lines, Before(t, y, x)
        PROVE  y \in Kept(h2) /\ Before(h2, y, x)
    <3>1. x # l /\ x \in Kept(h)
      BY <2>1, <2>3, <2>4
    <3>2. CASE y = l
      BY <1>1, <2>3, <3>1, <3>2
    <3>3. CASE y # l
      <4>1. Before(e, y, x)
        BY <2>1, <2>4, <3>3
      <4>2. y \in Kept(h) /\ Before(h, y, x)
        BY <1>2, <3>1, <4>1 DEF Leads
      <4> QED
        BY <1>1, <2>3, <3>1, <3>3, <4>2
    <3> QED
      BY <3>2, <3>3
  <2>5. Leads(h2, t, c + 1)
    BY <1>2, <2>1, <2>3, <2>4 DEF Leads
  <2>6. Len(t) <= c + 1
    <3>1. Len(e) \in Nat
      OBVIOUS
    <3> QED
      BY <2>1, <3>1
  <2>7. Leads(h2, Newest(t, RetentionCap), c + 1)
    BY <1>1, <1>2, <2>1, <2>5, <2>6, LeadsNewest
  <2> QED
    BY <2>2, <2>7 DEF h2
<1> QED
  BY <1>4, <1>5

\* Without its oldest line.
LEMMA FrontIs ==
  ASSUME NEW h \in Seq(Lines), h # <<>>
  PROVE  /\ Front(h) \in Seq(Lines) /\ Len(Front(h)) = Len(h) - 1 /\ Len(h) \in Nat \ {0}
         /\ ToSet(h) = ToSet(Front(h)) \cup {Last(h)}
         /\ \A i \in 1..Len(Front(h)) : Front(h)[i] = h[i]
         /\ Front(h) # <<>> => Head(Front(h)) = Head(h)
<1> DEFINE n == Len(h)
           g == Front(h)
<1>1. n \in Nat \ {0} /\ DOMAIN h = 1..n
  OBVIOUS
<1>2. g \in Seq(Lines) /\ Len(g) = n - 1 /\ \A i \in 1..(n - 1) : g[i] = h[i]
  BY <1>1 DEF Front
<1> HIDE DEF n, g
<1>3. DOMAIN g = 1..(n - 1) /\ \A i \in 1..n : i \in 1..(n - 1) \/ i = n
  BY <1>1, <1>2
<1>4. \A i \in 1..(n - 1) : i \in 1..n
  BY <1>1
<1>5. Last(h) = h[n] /\ n \in 1..n
  BY <1>1 DEF Last, n
<1>6. ToSet(h) = ToSet(g) \cup {Last(h)}
  BY <1>1, <1>2, <1>3, <1>4, <1>5 DEF ToSet
<1>7. g # <<>> => Head(g) = Head(h)
  <2> SUFFICES ASSUME g # <<>>
               PROVE  Head(g) = Head(h)
    OBVIOUS
  <2>1. Head(g) = g[1] /\ 1 \in 1..(n - 1) /\ Head(h) = h[1]
    BY <1>1, <1>2
  <2> QED
    BY <1>2, <2>1
<1> QED
  BY <1>1, <1>2, <1>6, <1>7 DEF n, g

\* What leads a history leads it without its oldest line.
LEMMA LeadsFront ==
  ASSUME NEW h \in Seq(Lines), h # <<>>, NEW e, NEW c, Leads(h, e, c)
  PROVE  Leads(Front(h), e, c)
<1> DEFINE g == Front(h)
<1>1. /\ g \in Seq(Lines) /\ Len(g) <= Len(h) /\ \A i \in 1..Len(g) : g[i] = h[i]
  BY FrontIs
<1> HIDE DEF g
<1>2. /\ ToSet(g) \subseteq ToSet(h)
      /\ \A y, x : x \in ToSet(g) /\ Before(h, y, x) => y \in ToSet(g) /\ Before(g, y, x)
  BY <1>1, PrefixBefore
<1>3. Leads(g, e, c)
  BY <1>2 DEF Leads, Kept
<1> QED
  BY <1>3 DEF g

(***************************************************************************)
(* The index behind the requests under way.                                *)
(***************************************************************************)
\* The requests rs, one after the other, make y of the index x.
Ends(x, rs, y) ==
  \E f : /\ f[0] = x
         /\ \A i \in DOMAIN rs : f[i] = Written(f[i - 1], rs[i])
         /\ y = f[Len(rs)]

\* No request, no change.
LEMMA EndsEmpty ==
  ASSUME NEW x
  PROVE  Ends(x, <<>>, x)
<1> DEFINE f == [i \in {0} |-> x]
<1>1. f[0] = x /\ Len(<<>>) = 0 /\ DOMAIN <<>> = {}
  BY SeqEmpty
<1> QED
  BY <1>1, Zenon DEF Ends

\* A request behind the others changes what they made.
LEMMA EndsAppend ==
  ASSUME NEW x, NEW rs, NEW y, NEW r, IsSeq(rs), Ends(x, rs, y)
  PROVE  Ends(x, Append(rs, r), Written(y, r))
<1> DEFINE rs2 == Append(rs, r)
           n == Len(rs)
<1>1. PICK f : f[0] = x /\ (\A i \in DOMAIN rs : f[i] = Written(f[i - 1], rs[i])) /\ y = f[n]
  BY Zenon DEF Ends
<1>2. /\ DOMAIN rs = 1..n /\ n \in Nat /\ Len(rs2) = n + 1 /\ DOMAIN rs2 = 1..(n + 1)
      /\ rs2[n + 1] = r /\ \A i \in 1..n : rs2[i] = rs[i]
  <2>1. n \in Nat /\ DOMAIN rs = 1..n
    BY SeqFacts
  <2>2. /\ IsSeq(rs2) /\ Len(rs2) = n + 1 /\ rs2[n + 1] = r
        /\ \A i \in 1..n : rs2[i] = rs[i]
    BY SeqAppend
  <2>3. DOMAIN rs2 = 1..(n + 1)
    BY <2>2, SeqFacts
  <2> QED
    BY <2>1, <2>2, <2>3
<1> HIDE DEF rs2, n
<1> DEFINE z == Written(y, r)
           g == [i \in 0..(n + 1) |-> IF i = n + 1 THEN z ELSE f[i]]
<1> HIDE DEF z
<1>3. g[0] = x /\ g[n + 1] = z /\ g[n] = y
  BY <1>1, <1>2
<1>4. ASSUME NEW i \in 1..(n + 1)
      PROVE  g[i] = Written(g[i - 1], rs2[i])
  <2>1. CASE i = n + 1
    <3>1. g[i] = z /\ g[i - 1] = y /\ rs2[i] = r
      BY <1>2, <1>3, <2>1
    <3> QED
      BY <3>1 DEF z
  <2>2. CASE i # n + 1
    <3>1. i \in 1..n /\ g[i] = f[i] /\ g[i - 1] = f[i - 1] /\ rs2[i] = rs[i]
      BY <1>2, <2>2
    <3> QED
      BY <1>1, <1>2, <3>1
  <2> QED
    BY <2>1, <2>2
<1> HIDE DEF g
<1>5. Ends(x, rs2, z)
  BY <1>2, <1>3, <1>4 DEF Ends
<1> QED
  BY <1>5 DEF rs2, z

\* Once the oldest is processed, the others make the same of the index.
LEMMA EndsTail ==
  ASSUME NEW x, NEW rs, NEW y, IsSeq(rs), rs # <<>>, Ends(x, rs, y)
  PROVE  /\ Ends(Written(x, Head(rs)), Tail(rs), y)
         /\ Len(rs) = 1 => y = Written(x, Head(rs))
<1> DEFINE t == Tail(rs)
           n == Len(rs)
<1>1. PICK f : f[0] = x /\ (\A i \in DOMAIN rs : f[i] = Written(f[i - 1], rs[i])) /\ y = f[n]
  BY Zenon DEF Ends
<1>2. /\ n \in Nat \ {0} /\ DOMAIN rs = 1..n /\ Len(t) = n - 1 /\ DOMAIN t = 1..(n - 1)
      /\ Head(rs) = rs[1] /\ \A i \in 1..(n - 1) : t[i] = rs[i + 1]
  <2>1. /\ IsSeq(t) /\ Len(t) = n - 1 /\ n \in Nat \ {0} /\ Head(rs) = rs[1]
        /\ \A i \in 1..Len(t) : t[i] = rs[i + 1]
    BY SeqTail
  <2>2. DOMAIN rs = 1..n /\ DOMAIN t = 1..Len(t)
    BY <2>1, SeqFacts
  <2> QED
    BY <2>1, <2>2
<1> HIDE DEF t, n
<1> DEFINE g == [i \in 0..(n - 1) |-> f[i + 1]]
<1>3. 1 \in DOMAIN rs /\ 1 - 1 = 0
  BY <1>2
<1>4. f[1] = Written(x, Head(rs))
  BY <1>1, <1>2, <1>3
<1>5. g[0] = f[1] /\ g[n - 1] = f[n]
  BY <1>2
<1>6. ASSUME NEW i \in 1..(n - 1)
      PROVE  g[i] = Written(g[i - 1], t[i])
  <2>1. /\ i + 1 \in DOMAIN rs /\ (i + 1) - 1 = i /\ g[i] = f[i + 1] /\ g[i - 1] = f[i]
        /\ t[i] = rs[i + 1]
    BY <1>2
  <2> QED
    BY <1>1, <2>1
<1> HIDE DEF g
<1>7. Ends(f[1], t, y)
  BY <1>1, <1>2, <1>5, <1>6 DEF Ends
<1> QED
  BY <1>1, <1>4, <1>7 DEF t, n

(***************************************************************************)
(* What the shell may take for granted about the entries e of that index,  *)
(* of which there are n at most, after c commands and changes.  It need    *)
(* not know it: the two numbers it compares, HISTCMD and the one it        *)
(* latched, tell whether the entries lead the history, or would if its     *)
(* newest line were sent.                                                  *)
(***************************************************************************)
Told(p, e, n, c) ==
  /\ p.history \in Seq(Lines) /\ Len(p.history) <= c /\ p.newest \in Nat /\ p.head \in Nat
  /\ e \in Seq(Lines) /\ Len(e) <= n /\ Len(e) <= RetentionCap
  /\ ToSet(e) \subseteq (ToSet(p.history) \cup p.dropped) \ Excluded
  /\ p.gen # 0 /\ p.newest = p.head => Leads(p.history, e, c)
  /\ p.gen # 0 /\ p.newest = p.head + 1 => Leads(p.history, Ahead(p.history, e), c)

\* The history goes on from where it was latched.
Caught(p) == p.gen # 0 => p.newest >= p.head

\* The history is the same and the latch is, or it is reset.
Kin(p, q) ==
  /\ q.history = p.history /\ q.newest = p.newest /\ q.dropped = p.dropped /\ q.menu = p.menu
  /\ \/ q.gen = p.gen /\ q.head = p.head
     \/ q.gen = 0 /\ q.head = 0

\* A reset latch asks for nothing.
LEMMA ToldKin ==
  ASSUME NEW p, NEW q, NEW e, NEW n, NEW c, Kin(p, q), Told(p, e, n, c)
  PROVE  Told(q, e, n, c) /\ (Caught(p) => Caught(q))
BY DEF Kin, Told, Caught

\* The bounds may grow.
LEMMA ToldLater ==
  ASSUME NEW p, NEW e, NEW n \in Nat, NEW c \in Nat, Told(p, e, n, c),
         NEW m \in Nat, NEW d \in Nat, n <= m, c <= d
  PROVE  Told(p, e, m, d)
<1>1. p.history \in Seq(Lines) /\ Len(p.history) \in Nat /\ e \in Seq(Lines) /\ Len(e) \in Nat
  BY DEF Told
<1>2. Len(p.history) <= d /\ Len(e) <= m
  BY <1>1 DEF Told
<1> QED
  BY <1>2, LeadsLater DEF Told

\* A line is added: the others are those of h, which the entries led.
LEMMA ToldMore ==
  ASSUME NEW p, NEW q, NEW e, NEW c \in Nat, Told(p, e, c, c), Caught(p), p.gen \in Nat,
         NEW h \in Seq(Lines), NEW g \in Seq(Lines), NEW l \in Lines, NEW D,
         p.gen # 0 /\ p.newest = p.head => Leads(h, e, c),
         Len(g) <= c, ToSet(g) \cup {l} = ToSet(h) \cup {l}, ToSet(p.history) \subseteq ToSet(h) \cup D,
         \A x, y : y # l /\ Before(h, y, x) => Before(g, y, x),
         q.history = <<l>> \o g, q.newest = p.newest + 1, q.dropped = p.dropped \cup D,
         q.gen = p.gen, q.head = p.head
  PROVE  Told(q, e, c, c + 1) /\ Caught(q)
<1>1. /\ q.history \in Seq(Lines) /\ Len(q.history) = Len(g) + 1 /\ ToSet(q.history) = ToSet(g) \cup {l}
  BY ConsIs
<1>2. Len(q.history) <= c + 1
  <2>1. Len(g) \in Nat
    OBVIOUS
  <2> QED
    BY <1>1, <2>1
<1>3. /\ e \in Seq(Lines) /\ Len(e) <= c /\ Len(e) <= RetentionCap /\ p.newest \in Nat /\ p.head \in Nat
      /\ ToSet(e) \subseteq (ToSet(p.history) \cup p.dropped) \ Excluded
  BY DEF Told
<1>4. ToSet(e) \subseteq (ToSet(q.history) \cup q.dropped) \ Excluded
  BY <1>1, <1>3
<1>5. q.newest \in Nat /\ (q.gen # 0 => q.newest # q.head /\ q.newest >= q.head)
  BY <1>3 DEF Caught
<1>6. ASSUME q.gen # 0, q.newest = q.head + 1
      PROVE  Leads(q.history, Ahead(q.history, e), c + 1)
  <2>1. p.newest = p.head
    BY <1>3, <1>6
  <2>2. Leads(h, e, c)
    BY <1>6, <2>1
  <2>3. e \in Seq(Lines) /\ Len(e) <= c
    BY <1>3
  <2>4. Leads(<<l>> \o g, Ahead(<<l>> \o g, e), c + 1)
    BY ONLY <2>2, <2>3, ToSet(g) \cup {l} = ToSet(h) \cup {l},
            \A x, y : y # l /\ Before(h, y, x) => Before(g, y, x), LeadsMore
  <2> QED
    BY <2>4
<1> QED
  BY <1>1, <1>2, <1>3, <1>4, <1>5, <1>6 DEF Told, Caught

\* The oldest line goes.
LEMMA ToldShrink ==
  ASSUME NEW p, NEW q, NEW e, NEW n, NEW c \in Nat, Told(p, e, n, c), p.history # <<>>,
         q.history = Front(p.history), q.newest = p.newest, q.dropped = p.dropped \cup {Last(p.history)},
         q.gen = p.gen, q.head = p.head
  PROVE  Told(q, e, n, c) /\ (Caught(p) => Caught(q))
<1>1. p.history \in Seq(Lines) /\ Len(p.history) <= c
  BY DEF Told
<1>2. /\ q.history \in Seq(Lines) /\ Len(q.history) = Len(p.history) - 1 /\ Len(p.history) \in Nat
      /\ ToSet(p.history) = ToSet(q.history) \cup {Last(p.history)}
      /\ q.history # <<>> => Head(q.history) = Head(p.history)
  BY <1>1, FrontIs
<1>3. Len(q.history) <= c
  BY <1>1, <1>2
<1>4. Leads(p.history, e, c) => Leads(q.history, e, c)
  BY <1>1, LeadsFront
<1>5. Leads(p.history, Ahead(p.history, e), c) => Leads(q.history, Ahead(q.history, e), c)
  <2>1. CASE q.history = <<>>
    BY <2>1, LeadsEmpty
  <2>2. CASE q.history # <<>>
    <3>1. Ahead(q.history, e) = Ahead(p.history, e)
      BY <1>2, <2>2 DEF Ahead
    <3> QED
      BY <1>1, <3>1, LeadsFront
  <2> QED
    BY <2>1, <2>2
<1> QED
  BY <1>2, <1>3, <1>4, <1>5 DEF Told, Caught

\* Another history begins.
LEMMA ToldSwitch ==
  ASSUME NEW p, NEW q, NEW e, NEW n, NEW c \in Nat, Told(p, e, n, c),
         q.history = <<>>, q.newest = 0, q.dropped = p.dropped \cup ToSet(p.history),
         q.gen = p.gen, q.head = p.head
  PROVE  Told(q, e, n, c)
<1>1. <<>> \in Seq(Lines) /\ Len(<<>>) <= c
  OBVIOUS
<1>2. ToSet(e) \subseteq (ToSet(q.history) \cup q.dropped) \ Excluded
  BY DEF Told
<1> QED
  BY <1>1, <1>2, LeadsEmpty DEF Told

\* The part of the record that the history is about.
Rest(p) == <<p.history, p.newest, p.dropped, p.head, p.menu>>

\* The operators leave it alone, but for the latched number.
LEMMA LatchRest ==
  ASSUME NEW p, IsShell(p)
  PROVE  /\ Rest(HistReset(p)) = <<p.history, p.newest, p.dropped, 0, p.menu>>
         /\ Rest(NamespaceLatchDrop(p)) = Rest(p)
         /\ \A g, h, c : Rest(HistLatch(p, g, h, c)) = <<p.history, p.newest, p.dropped, h, p.menu>>
<1>1. Rest(HistReset(p)) = <<p.history, p.newest, p.dropped, 0, p.menu>>
  BY DEF IsShell, Shells, HistReset, Rest
<1>2. Rest(NamespaceLatchDrop(p)) = Rest(p)
  BY DEF IsShell, Shells, NamespaceLatchDrop, Rest
<1>3. ASSUME NEW g, NEW h, NEW c
      PROVE  Rest(HistLatch(p, g, h, c)) = <<p.history, p.newest, p.dropped, h, p.menu>>
  BY DEF IsShell, Shells, HistLatch, Rest
<1> QED
  BY <1>1, <1>2, <1>3

\* A request is not about the history.
LEMMA RequestRest ==
  ASSUME NEW p, IsShell(p), NEW kind, NEW body
  PROVE  Rest(Request(p, kind, body)) = Rest(p)
<1> DEFINE f == Frame(p.id + 1, kind, body)
           i == p.id + 1
           P == p.pending \cup {f}
           T == Append(p.tx, f)
<1>1. Request(p, kind, body) = [p EXCEPT !.id = i, !.pending = P, !.tx = T]
  BY DEF Request
<1> HIDE DEF f, i, P, T
<1> QED
  BY <1>1 DEF IsShell, Shells, Rest

\* The end of a session resets the latch.
LEMMA DownRest ==
  ASSUME NEW p, IsShell(p)
  PROVE  Rest(Down(p)) = <<p.history, p.newest, p.dropped, 0, p.menu>>
<1> DEFINE h == HistReset(p)
           d == NamespaceLatchDrop(h)
<1>1. IsShell(h) /\ Rest(h) = <<p.history, p.newest, p.dropped, 0, p.menu>>
  BY HistResetView, LatchRest
<1>2. IsShell(d) /\ Rest(d) = Rest(h)
  BY <1>1, NamespaceLatchDropView, LatchRest
<1>3. Down(p) = [d EXCEPT !.up = FALSE, !.pending = {}, !.tx = <<>>, !.sync = 0]
  BY DEF Down
<1> HIDE DEF d, h
<1>4. Rest(Down(p)) = Rest(d)
  BY <1>2, <1>3 DEF IsShell, Shells, Rest
<1> QED
  BY <1>1, <1>2, <1>4

-----------------------------------------------------------------------------
(***************************************************************************)
(* The shell on its way through one action.                                *)
(***************************************************************************)
\* Names are sent, and nothing else, as a namespace.
NamesOnly(rs) == \A i \in DOMAIN rs : IsNamespace(rs[i]) => rs[i].body \in Names

Right(p, n, c) ==
  /\ NamesOnly(requests \o p.tx)
  /\ \E x : Ends(worker.index, requests \o p.tx, x) /\ Told(p, x.entries, n, c)

\* A reset latch, and nothing sent.
LEMMA RightKin ==
  ASSUME NEW p, NEW q, NEW n, NEW c, Kin(p, q), q.tx = p.tx, Right(p, n, c)
  PROVE  Right(q, n, c)
BY ToldKin DEF Right

\* A request that is no write.
LEMMA RightRequest ==
  ASSUME NEW p, NEW q, NEW n, NEW c, NEW f, IsSeq(requests), IsSeq(p.tx), Kin(p, q),
         q.tx = Append(p.tx, f), Right(p, n, c),
         f.kind = "plan" \/ (f.kind = "namespace" /\ f.body \in Names)
  PROVE  Right(q, n, c)
<1> DEFINE rs == requests \o p.tx
<1>1. IsSeq(rs) /\ requests \o q.tx = Append(rs, f)
  BY SeqConcat, ConcatAppend
<1>2. PICK x : Ends(worker.index, rs, x) /\ Told(p, x.entries, n, c)
  BY DEF Right
<1>3. NamesOnly(rs)
  BY DEF Right
<1> HIDE DEF rs
<1>4. Written(x, f) = x
  BY DEF Written
<1>5. Ends(worker.index, Append(rs, f), x)
  BY <1>1, <1>2, <1>4, EndsAppend
<1>6. Told(q, x.entries, n, c)
  BY <1>2, ToldKin
<1>7. NamesOnly(Append(rs, f))
  BY <1>1, <1>3, AppendDomain DEF NamesOnly, IsNamespace
<1> QED
  BY <1>1, <1>5, <1>6, <1>7 DEF Right

\* A snapshot of the names.
LEMMA RequestNamespaceRight ==
  ASSUME NEW p, NEW n, NEW c, IsSeq(requests), IsShell(p), IsSeq(p.tx), Right(p, n, c), NEW names \in Names
  PROVE  LET q == RequestNamespace(p, names) IN Right(q, n, c) /\ Kin(p, q)
<1> DEFINE q == RequestNamespace(p, names)
           f == Frame(p.id + 1, "namespace", names)
           r == Request(p, "namespace", names)
<1>1. CASE ~p.up \/ names = p.queued
  <2>1. q = p
    BY <1>1 DEF RequestNamespace
  <2> QED
    BY <2>1 DEF Kin
<1>2. CASE p.up /\ names # p.queued
  <2>1. q = [r EXCEPT !.queued = names, !.latest = p.id + 1]
    BY <1>2 DEF RequestNamespace
  <2>2. /\ IsShell(r) /\ Rest(r) = Rest(p)
        /\ View(r) = <<p.up, p.gen, p.unacked, p.payload, p.signature, p.queued, p.latest,
                       p.pending \cup {f}, Append(p.tx, f), p.id + 1, p.sync>>
    BY RequestView, RequestRest
  <2>3. f.kind = "namespace" /\ f.body = names
    BY DEF Frame
  <2> HIDE DEF q, r, f
  <2>4. /\ q.gen = r.gen /\ q.tx = r.tx /\ q.history = r.history /\ q.newest = r.newest
        /\ q.dropped = r.dropped /\ q.head = r.head /\ q.menu = r.menu
    BY <2>1, <2>2 DEF IsShell, Shells
  <2>5. Kin(p, q) /\ q.tx = Append(p.tx, f)
    BY <2>2, <2>4 DEF Rest, View, Kin
  <2>6. Right(q, n, c)
    BY <2>3, <2>5, RightRequest
  <2> QED
    BY <2>5, <2>6 DEF q
<1> QED
  BY <1>1, <1>2

\* A session that is brought up begins with the names.
LEMMA EnsureSessionRight ==
  ASSUME NEW p, NEW n, NEW c, IsSeq(requests), IsShell(p), IsSeq(p.tx), Right(p, n, c)
  PROVE  LET q == EnsureSession(p) IN Right(q, n, c) /\ Kin(p, q)
<1> DEFINE q == EnsureSession(p)
           h == HistReset(p)
           d == NamespaceLatchDrop(h)
           r == [d EXCEPT !.up = TRUE]
<1>1. CASE p.up
  BY <1>1 DEF EnsureSession, Kin
<1>2. CASE ~p.up
  <2>1. /\ IsShell(h) /\ Rest(h) = <<p.history, p.newest, p.dropped, 0, p.menu>>
        /\ h.gen = 0 /\ h.tx = p.tx
    BY HistResetView, LatchRest DEF View
  <2> HIDE DEF h
  <2>2. IsShell(d) /\ Rest(d) = Rest(h) /\ d.gen = h.gen /\ d.tx = h.tx
    BY <2>1, NamespaceLatchDropView, LatchRest DEF View
  <2> HIDE DEF d
  <2>3. IsShell(r) /\ Rest(r) = Rest(d) /\ r.gen = d.gen /\ r.tx = d.tx
    BY <2>2 DEF IsShell, Shells, Rest
  <2>4. q = RequestNamespace(r, p.payload) /\ p.payload \in Names
    BY <1>2 DEF EnsureSession, IsShell, Shells, d, h
  <2> HIDE DEF r, q
  <2>5. Kin(p, r) /\ r.tx = p.tx
    BY <2>1, <2>2, <2>3 DEF Kin, Rest
  <2>6. Right(r, n, c)
    BY <2>5, RightKin
  <2>7. Right(q, n, c) /\ Kin(r, q)
    BY <2>3, <2>4, <2>5, <2>6, RequestNamespaceRight
  <2>8. Kin(p, q)
    BY <2>5, <2>7, <2>1, <2>2, <2>3 DEF Kin
  <2> QED
    BY <2>7, <2>8 DEF q
<1> QED
  BY <1>1, <1>2

\* The bounds may grow.
LEMMA RightLater ==
  ASSUME NEW p, NEW n \in Nat, NEW c \in Nat, Right(p, n, c),
         NEW m \in Nat, NEW d \in Nat, n <= m, c <= d
  PROVE  Right(p, m, d)
BY ToldLater DEF Right

\* The history is the same, and latched if any is.
Level(p, q) ==
  /\ q.history = p.history /\ q.newest = p.newest /\ q.dropped = p.dropped /\ q.menu = p.menu
  /\ q.gen # 0 => q.head = q.newest

\* A newest line that is not sent is passed over.
LEMMA ToldSkipped ==
  ASSUME NEW p, NEW q, NEW e, NEW c \in Nat, Told(p, e, c, c + 1), p.gen # 0,
         p.newest = p.head + 1, Skipped(p), Level(p, q), q.head = q.newest
  PROVE  Told(q, e, c + 1, c + 1)
<1>1. Told(p, e, c + 1, c + 1)
  BY ToldLater
<1>2. Ahead(p.history, e) = e
  BY DEF Ahead, Skipped
<1>3. Leads(p.history, e, c + 1)
  BY <1>1, <1>2 DEF Told
<1>4. q.newest \in Nat /\ q.newest # q.head + 1
  BY <1>1 DEF Told, Level
<1> QED
  BY <1>1, <1>3, <1>4 DEF Told, Level

\* A newest line that is sent is one more entry.
LEMMA ToldSent ==
  ASSUME NEW p, NEW q, NEW e, NEW c \in Nat, Told(p, e, c, c + 1), p.gen # 0,
         p.newest = p.head + 1, ~Skipped(p), Level(p, q), q.head = q.newest
  PROVE  Told(q, Newest(<<Head(p.history)>> \o e, RetentionCap), c + 1, c + 1)
<1> DEFINE l == Head(p.history)
           t == <<l>> \o e
           e2 == Newest(t, RetentionCap)
<1>1. /\ p.history \in Seq(Lines) /\ p.history # <<>> /\ l \notin Excluded
      /\ e \in Seq(Lines) /\ Len(e) <= c /\ Len(e) \in Nat
      /\ ToSet(e) \subseteq (ToSet(p.history) \cup p.dropped) \ Excluded
  BY DEF Told, Skipped
<1>2. l \in Lines /\ l \in ToSet(p.history)
  <2>1. 1 \in DOMAIN p.history /\ l = p.history[1]
    BY <1>1
  <2> QED
    BY <1>1, <2>1 DEF ToSet
<1>3. t \in Seq(Lines) /\ Len(t) = Len(e) + 1 /\ ToSet(t) = ToSet(e) \cup {l}
  BY <1>1, <1>2, ConsIs
<1>4. Ahead(p.history, e) = e2
  BY <1>1 DEF Ahead
<1> HIDE DEF l, t
<1>5. /\ e2 \in Seq(Lines) /\ Len(e2) \in 0..RetentionCap /\ Len(e2) <= Len(t)
      /\ \A i \in 1..Len(e2) : e2[i] = t[i]
  BY <1>3, NewestIs, HistoryTypes
<1> HIDE DEF e2
<1>6. ToSet(e2) \subseteq ToSet(t)
  BY <1>3, <1>5, PrefixBefore
<1>7. Len(e2) <= c + 1 /\ Len(e2) <= RetentionCap
  BY <1>1, <1>3, <1>5, HistoryTypes
<1>8. Leads(p.history, e2, c + 1)
  BY <1>4 DEF Told
<1>9. q.newest \in Nat /\ q.newest # q.head + 1
  BY DEF Told, Level
<1>10. ToSet(e2) \subseteq (ToSet(p.history) \cup p.dropped) \ Excluded
  BY <1>1, <1>2, <1>3, <1>6
<1>11. Told(q, e2, c + 1, c + 1)
  BY <1>5, <1>7, <1>8, <1>9, <1>10 DEF Told, Level
<1> QED
  BY <1>11 DEF e2, t, l

\* The whole history is sent.
LEMMA ToldWhole ==
  ASSUME NEW p, NEW q, NEW e, NEW c \in Nat, Told(p, e, c, c), Level(p, q), q.head = q.newest
  PROVE  Told(q, Newest(Sent(p.history), RetentionCap), c, c)
<1> DEFINE s == Sent(p.history)
           e2 == Newest(s, RetentionCap)
<1>1. p.history \in Seq(Lines) /\ Len(p.history) <= c
  BY DEF Told
<1>2. s \in Seq(Lines) /\ Len(s) \in 0..Len(p.history) /\ ToSet(s) = Kept(p.history)
  BY <1>1, SentIs
<1>3. Leads(p.history, e2, c)
  BY <1>1, LeadsSent
<1> HIDE DEF s
<1>4. /\ e2 \in Seq(Lines) /\ Len(e2) \in 0..RetentionCap /\ Len(e2) <= Len(s)
      /\ \A i \in 1..Len(e2) : e2[i] = s[i]
  BY <1>2, NewestIs, HistoryTypes
<1> HIDE DEF e2
<1>5. ToSet(e2) \subseteq ToSet(s)
  BY <1>2, <1>4, PrefixBefore
<1>6. Len(e2) <= c /\ Len(e2) <= RetentionCap
  <2>1. Len(p.history) \in Nat
    BY <1>1
  <2> QED
    BY <1>1, <1>2, <1>4, <2>1, HistoryTypes
<1>7. ToSet(e2) \subseteq (ToSet(p.history) \cup p.dropped) \ Excluded
  BY <1>2, <1>5 DEF Kept
<1>8. q.newest \in Nat /\ q.newest # q.head + 1
  BY DEF Told, Level
<1>9. Told(q, e2, c, c)
  BY <1>1, <1>3, <1>4, <1>6, <1>7, <1>8 DEF Told, Level
<1> QED
  BY <1>9 DEF e2, s

\* A write that is sent.
LEMMA RightWrite ==
  ASSUME NEW p, NEW q, NEW f, NEW n, NEW c, IsSeq(requests), IsSeq(p.tx), q.tx = Append(p.tx, f),
         NamesOnly(requests \o p.tx), ~IsNamespace(f),
         NEW x, Ends(worker.index, requests \o p.tx, x), Told(q, Written(x, f).entries, n, c)
  PROVE  Right(q, n, c)
<1> DEFINE rs == requests \o p.tx
<1>1. IsSeq(rs) /\ requests \o q.tx = Append(rs, f)
  BY SeqConcat, ConcatAppend
<1> HIDE DEF rs
<1>2. Ends(worker.index, Append(rs, f), Written(x, f))
  BY <1>1, EndsAppend DEF rs
<1>3. NamesOnly(Append(rs, f))
  <2>1. NamesOnly(rs)
    BY DEF rs
  <2> QED
    BY <1>1, <2>1, AppendDomain DEF NamesOnly
<1> QED
  BY <1>1, <1>2, <1>3 DEF Right

\* Before a prompt the latch follows the history, or an append is sent.
LEMMA HistReconcileRight ==
  ASSUME NEW p, NEW c \in Nat, IsSeq(requests), Good(p), Right(p, c, c + 1)
  PROVE  LET q == HistReconcile(p) IN Right(q, c + 1, c + 1) /\ Level(p, q)
<1> DEFINE q == HistReconcile(p)
<1>1. IsShell(p) /\ IsSeq(p.tx) /\ (~p.up => p.gen = 0) /\ p.gen \in Nat /\ p.id + 1 \in Nat
  BY DEF Good, Linked, IsShell, Shells
<1>2. PICK x : Ends(worker.index, requests \o p.tx, x) /\ Told(p, x.entries, c, c + 1)
  BY DEF Right
<1>3. NamesOnly(requests \o p.tx)
  BY DEF Right
<1>4. Right(p, c + 1, c + 1)
  BY RightLater
<1>5. CASE p.gen = 0 \/ ~p.up \/ p.newest = p.head
  <2>1. q = p
    BY <1>5 DEF HistReconcile
  <2> QED
    BY <1>1, <1>4, <1>5, <2>1 DEF Level
<1>6. CASE q = HistReset(p)
  <2>1. Rest(q) = <<p.history, p.newest, p.dropped, 0, p.menu>> /\ q.gen = 0 /\ q.tx = p.tx
    BY <1>1, <1>6, HistResetView, LatchRest DEF View
  <2> HIDE DEF q
  <2>2. Kin(p, q) /\ Level(p, q)
    BY <2>1 DEF Rest, Kin, Level
  <2>3. Right(q, c + 1, c + 1)
    BY <1>4, <2>1, <2>2, RightKin
  <2> QED
    BY <2>2, <2>3 DEF q
<1>7. CASE /\ p.gen # 0 /\ Continuous(p) /\ Skipped(p)
           /\ q = HistLatch(p, p.gen, p.newest, Len(p.history))
  <2>1. Rest(q) = <<p.history, p.newest, p.dropped, p.newest, p.menu>> /\ q.tx = p.tx
    BY <1>1, <1>7, HistLatchView, LatchRest DEF View
  <2> HIDE DEF q
  <2>2. Level(p, q) /\ q.head = q.newest
    BY <2>1 DEF Rest, Level
  <2>3. Told(q, x.entries, c + 1, c + 1)
    BY <1>2, <1>7, <2>2, ToldSkipped DEF Continuous
  <2>4. Right(q, c + 1, c + 1)
    BY <1>2, <1>3, <2>1, <2>3 DEF Right
  <2> QED
    BY <2>2, <2>4 DEF q
<1>8. CASE /\ p.gen # 0 /\ Continuous(p) /\ ~Skipped(p)
           /\ q = [HistLatch(Request(p, "append", Head(p.history)), p.id + 1, p.newest, Len(p.history))
                     EXCEPT !.unacked = @ + 1]
  <2> DEFINE f == Frame(p.id + 1, "append", Head(p.history))
             r == Request(p, "append", Head(p.history))
             s == HistLatch(r, p.id + 1, p.newest, Len(p.history))
  <2>1. IsShell(r) /\ Rest(r) = Rest(p) /\ r.tx = Append(p.tx, f)
    BY <1>1, RequestView, RequestRest DEF View
  <2>2. q = [s EXCEPT !.unacked = s.unacked + 1]
    BY <1>8
  <2>3. f.kind = "append" /\ f.body = Head(p.history)
    BY DEF Frame
  <2> HIDE DEF r, f
  <2>4. /\ IsShell(s) /\ Rest(s) = <<r.history, r.newest, r.dropped, p.newest, r.menu>>
        /\ s.tx = r.tx
    BY <1>1, <2>1, HistLatchView, LatchRest DEF View
  <2> HIDE DEF s, q
  <2>5. Rest(q) = Rest(s) /\ q.tx = s.tx
    BY <2>2, <2>4 DEF IsShell, Shells, Rest
  <2>6. Level(p, q) /\ q.head = q.newest /\ q.tx = Append(p.tx, f)
    BY <2>1, <2>4, <2>5 DEF Rest, Level
  <2>7. Written(x, f).entries = Newest(<<Head(p.history)>> \o x.entries, RetentionCap)
    BY <2>3 DEF Written, AppendTo
  <2>8. Told(q, Written(x, f).entries, c + 1, c + 1)
    BY <1>2, <1>8, <2>6, <2>7, ToldSent DEF Continuous
  <2>9. ~IsNamespace(f)
    BY <2>3 DEF IsNamespace
  <2>10. Right(q, c + 1, c + 1)
    BY ONLY IsSeq(requests), <1>1, <1>2, <1>3, <2>6, <2>8, <2>9, RightWrite
  <2> QED
    BY <2>6, <2>10 DEF q
<1> QED
  BY <1>5, <1>6, <1>7, <1>8 DEF HistReconcile

\* The names are brought up to date.
LEMMA NamespaceRefreshRight ==
  ASSUME NEW p, NEW n, NEW c, IsSeq(requests), IsShell(p), IsSeq(p.tx), Right(p, n, c)
  PROVE  LET q == NamespaceRefresh(p) IN Right(q, n, c) /\ Kin(p, q)
<1> DEFINE q == NamespaceRefresh(p)
           r == [p EXCEPT !.signature = p.names, !.payload = p.names]
<1>1. CASE p.signature = p.names
  BY <1>1 DEF NamespaceRefresh, Kin
<1>2. CASE p.signature # p.names
  <2>1. p.names \in Names /\ p.names \in Names \cup {None}
    BY DEF IsShell, Shells
  <2>2. q = RequestNamespace(r, p.names)
    BY <1>2 DEF NamespaceRefresh
  <2>3. IsShell(r) /\ Kin(p, r) /\ r.tx = p.tx
    BY <2>1 DEF IsShell, Shells, Kin
  <2> HIDE DEF r, q
  <2>4. Right(r, n, c)
    BY <2>3, RightKin
  <2>5. Right(q, n, c) /\ Kin(r, q)
    BY <2>1, <2>2, <2>3, <2>4, RequestNamespaceRight
  <2>6. Kin(p, q)
    BY <2>3, <2>5 DEF Kin
  <2> QED
    BY <2>5, <2>6 DEF q
<1> QED
  BY <1>1, <1>2

\* Before a prompt both are, and the index has what the history has.
LEMMA PrecmdRight ==
  ASSUME NEW p, NEW c \in Nat, IsSeq(requests), Good(p), Signed(p), Counted(p), p.sync = 0,
         Right(p, c, c + 1)
  PROVE  LET q == Precmd(p) IN Right(q, c + 1, c + 1) /\ Level(p, q)
<1> DEFINE h == HistReconcile(p)
           q == Precmd(p)
<1>1. Right(h, c + 1, c + 1) /\ Level(p, h)
  BY HistReconcileRight
<1>2. IsShell(h) /\ IsSeq(h.tx)
  BY HistReconcileGood DEF Good
<1>3. q = NamespaceRefresh(h)
  BY DEF Precmd
<1> HIDE DEF h, q
<1>4. Right(q, c + 1, c + 1) /\ Kin(h, q)
  BY <1>1, <1>2, <1>3, NamespaceRefreshRight
<1>5. Level(p, q)
  BY <1>1, <1>4 DEF Kin, Level
<1> QED
  BY <1>4, <1>5 DEF q

\* The whole history is sent.
LEMMA SnapshotRight ==
  ASSUME NEW p, NEW c \in Nat, IsSeq(requests), IsSeq(responses), Good(p), Signed(p), Right(p, c, c)
  PROVE  LET q == Snapshot(p) IN Right(q, c, c) /\ Level(p, q)
<1> DEFINE h == HistReset(p)
           e == EnsureSession(h)
           f == Frame(e.id + 1, "snapshot", Sent(p.history))
           r == Request(e, "snapshot", Sent(p.history))
           s == HistLatch(r, e.id + 1, p.newest, Len(p.history))
           q == Snapshot(p)
<1>0. IsShell(p) /\ IsSeq(p.tx)
  BY DEF Good
<1>1. Good(h) /\ Signed(h) /\ IsShell(h) /\ IsSeq(h.tx) /\ Kin(p, h) /\ h.tx = p.tx
  BY <1>0, GoodForget, HistResetView, LatchRest DEF Good, View, Rest, Kin
<1> HIDE DEF h
<1>2. Right(h, c, c)
  BY <1>1, RightKin
<1>3. Right(e, c, c) /\ Kin(h, e) /\ Good(e)
  BY <1>1, <1>2, EnsureSessionRight, EnsureSessionGood
<1>4. q = [s EXCEPT !.unacked = 0]
  BY DEF Snapshot, h
<1> HIDE DEF e, q
<1>5. IsShell(e) /\ IsSeq(e.tx) /\ e.id + 1 \in Nat
  BY <1>3 DEF Good, IsShell, Shells
<1>6. IsShell(r) /\ Rest(r) = Rest(e) /\ r.tx = Append(e.tx, f)
  BY <1>5, RequestView, RequestRest DEF View
<1>7. f.kind = "snapshot" /\ f.body = Sent(p.history)
  BY DEF Frame
<1> HIDE DEF r, f
<1>8. IsShell(s) /\ Rest(s) = <<r.history, r.newest, r.dropped, p.newest, r.menu>> /\ s.tx = r.tx
  BY <1>5, <1>6, HistLatchView, LatchRest DEF View
<1> HIDE DEF s
<1>9. Rest(q) = Rest(s) /\ q.tx = s.tx
  BY <1>4, <1>8 DEF IsShell, Shells, Rest
<1>10. Level(p, q) /\ q.head = q.newest /\ q.tx = Append(e.tx, f)
  BY <1>1, <1>3, <1>6, <1>8, <1>9 DEF Rest, Level, Kin
<1>11. PICK x : Ends(worker.index, requests \o e.tx, x) /\ Told(e, x.entries, c, c)
  BY <1>3 DEF Right
<1>12. Level(e, q)
  BY <1>1, <1>3, <1>10 DEF Level, Kin
<1>13. e.history = p.history
  BY <1>1, <1>3 DEF Kin
<1>14. Written(x, f).entries = Newest(Sent(e.history), RetentionCap)
  BY <1>7, <1>13 DEF Written, Install
<1>15. Told(q, Written(x, f).entries, c, c)
  BY <1>10, <1>11, <1>12, <1>14, ToldWhole
<1>16. ~IsNamespace(f) /\ NamesOnly(requests \o e.tx)
  BY <1>3, <1>7 DEF IsNamespace, Right
<1>17. Right(q, c, c)
  BY ONLY IsSeq(requests), <1>5, <1>10, <1>11, <1>15, <1>16, RightWrite
<1> QED
  BY <1>10, <1>17 DEF q

\* The menu is asked for, of an index that leads the history.
LEMMA OpenHistoryMenuRight ==
  ASSUME NEW p, NEW c \in Nat, IsSeq(requests), IsSeq(responses), Good(p), Signed(p), Counted(p),
         p.sync = 0, Right(p, c, c)
  PROVE  LET q == OpenHistoryMenu(p)
         IN  /\ Right(q, c, c) /\ Level(p, q) /\ q.gen # 0
             /\ \E t, f : IsSeq(t) /\ q.tx = Append(t, f) /\ f.id = q.sync
<1> DEFINE e == IF Warm(p) THEN p ELSE Snapshot(p)
           f == Frame(e.id + 1, "plan", e.gen)
           r == Request(e, "plan", e.gen)
           q == OpenHistoryMenu(p)
<1>1. Right(e, c, c) /\ Level(p, e) /\ Good(e) /\ e.gen # 0
  <2>1. CASE Warm(p)
    <3>1. p.gen # 0 /\ p.newest = p.head
      BY <2>1 DEF Warm, Good, IsShell, Shells
    <3> QED
      BY <2>1, <3>1 DEF Level
  <2>2. CASE ~Warm(p)
    <3>1. LET s == Snapshot(p) IN Right(s, c, c) /\ Level(p, s) /\ Good(s) /\ Restarted(s)
      BY SnapshotRight, SnapshotGood
    <3> QED
      BY <2>2, <3>1 DEF Restarted
  <2> QED
    BY <2>1, <2>2
<1>2. q = [r EXCEPT !.sync = e.id + 1]
  BY DEF OpenHistoryMenu
<1> HIDE DEF e, q
<1>3. IsShell(e) /\ IsSeq(e.tx)
  BY <1>1 DEF Good
<1>4. IsShell(r) /\ Rest(r) = Rest(e) /\ r.tx = Append(e.tx, f) /\ r.gen = e.gen
  BY <1>3, RequestView, RequestRest DEF View
<1>5. f.kind = "plan" /\ f.id = e.id + 1
  BY DEF Frame
<1> HIDE DEF r, f
<1>6. Rest(q) = Rest(r) /\ q.tx = r.tx /\ q.gen = r.gen /\ q.sync = e.id + 1
  BY <1>2, <1>4 DEF IsShell, Shells, Rest
<1>7. Kin(e, q) /\ q.tx = Append(e.tx, f)
  BY <1>4, <1>6 DEF Rest, Kin
<1>8. Right(q, c, c)
  BY ONLY IsSeq(requests), <1>1, <1>3, <1>5, <1>7, RightRequest
<1>9. Level(p, q) /\ q.gen # 0
  BY <1>1, <1>4, <1>6, <1>7 DEF Level, Kin
<1>10. IsSeq(e.tx) /\ q.tx = Append(e.tx, f) /\ f.id = q.sync
  BY <1>3, <1>5, <1>6, <1>7
<1> QED
  BY <1>8, <1>9, <1>10 DEF q

\* A menu m that shows the history of the shell p after c commands and changes.
Shows(p, c, m) ==
  /\ m \in Seq(Lines)
  /\ m # <<>> => LET truth == Distinct(Sent(p.history))
                 IN  /\ \/ IsPrefix(truth, m)
                        \/ c > RetentionCap /\ IsPrefix(m, truth)
                     /\ ToSet(m) \subseteq ToSet(truth) \cup p.dropped

\* The answer to the request the shell waits for.
Replied(p, resp, c) ==
  \A i \in DOMAIN resp :
    p.sync # 0 /\ resp[i].id = p.sync /\ resp[i].result = "ok" => Shows(p, c, resp[i].body)

\* While it waits, nothing is sent, and its history stays as it is.
Waits(p, rs, index, c) ==
  \E x : /\ Ends(index, rs, x) /\ Told(p, x.entries, c, c)
         /\ p.sync # 0 => Leads(p.history, x.entries, c)

HistoryInv ==
  /\ SyncInv /\ commands \in Nat /\ Caught(sh)
  /\ NamesOnly(requests) /\ worker.namespace \in Names \cup {None}
  /\ Waits(sh, requests, worker.index, commands)
  /\ Shows(sh, commands, sh.menu) /\ Replied(sh, responses, commands)

\* An index that leads the history is shown as the history.
LEMMA LeadsShows ==
  ASSUME NEW p, NEW e, NEW c \in Nat, NEW n, Told(p, e, n, c), Leads(p.history, e, c)
  PROVE  Shows(p, c, Distinct(e))
<1> DEFINE t == Distinct(Sent(p.history))
           d == Distinct(e)
<1>1. /\ p.history \in Seq(Lines) /\ e \in Seq(Lines)
      /\ ToSet(e) \subseteq (ToSet(p.history) \cup p.dropped) \ Excluded
  BY DEF Told
<1>2. /\ t \in Seq(Lines) /\ d \in Seq(Lines) /\ ToSet(t) = Kept(p.history) /\ ToSet(d) = ToSet(e)
      /\ IsPrefix(t, d) \/ (c > RetentionCap /\ IsPrefix(d, t))
  BY <1>1, LeadsAgree
<1> HIDE DEF t, d
<1>3. ToSet(d) \subseteq ToSet(t) \cup p.dropped
  BY <1>1, <1>2 DEF Kept
<1>4. Shows(p, c, d)
  BY <1>2, <1>3 DEF Shows, t
<1> QED
  BY <1>4 DEF d

\* The menu that the worker lists is that of all its entries.
LEMMA WindowIs ==
  ASSUME NEW x, x.entries \in Seq(Lines), Len(x.entries) <= RetentionCap
  PROVE  At(x.entries, Window(x, RetentionCap)) = Distinct(x.entries)
<1>1. Newest(x.entries, RetentionCap) = x.entries
  BY NewestIs, HistoryTypes
<1>2. Window(x, RetentionCap) = {i \in 1..Len(x.entries) : \A j \in 1..(i - 1) : x.entries[j] # x.entries[i]}
  BY <1>1 DEF Window
<1>3. DOMAIN x.entries = 1..Len(x.entries)
  OBVIOUS
<1> QED
  BY <1>2, <1>3 DEF Distinct, Firsts

-----------------------------------------------------------------------------
\* What the shell has become is written.
LEMMA BecomeHistory ==
  ASSUME NEW q, SyncInv', commands' \in Nat, IsShell(q), Become(q), UNCHANGED <<worker, responses>>,
         worker.namespace \in Names \cup {None},
         Right(q, commands', commands'), Caught(q), Shows(q, commands', q.menu),
         \/ q.sync = 0
         \/ q.gen # 0 /\ q.newest = q.head /\ \A i \in DOMAIN responses : responses[i].id # q.sync
  PROVE  HistoryInv'
<1>1. sh' = [q EXCEPT !.tx = <<>>] /\ requests' = requests \o q.tx
  BY DEF Become
<1>2. /\ sh'.history = q.history /\ sh'.newest = q.newest /\ sh'.dropped = q.dropped /\ sh'.head = q.head
      /\ sh'.menu = q.menu /\ sh'.gen = q.gen /\ sh'.sync = q.sync
  BY <1>1 DEF IsShell, Shells
<1>3. PICK x : Ends(worker.index, requests', x) /\ Told(q, x.entries, commands', commands')
  BY <1>1 DEF Right
<1>4. NamesOnly(requests')
  BY <1>1 DEF Right
<1>5. Told(sh', x.entries, commands', commands') /\ Caught(sh')
  <2>1. Kin(q, sh')
    BY <1>2 DEF Kin
  <2> QED
    BY <1>3, <2>1, ToldKin
<1>6. sh'.sync # 0 => Leads(sh'.history, x.entries, commands')
  BY <1>2, <1>3 DEF Told
<1>7. Waits(sh', requests', worker'.index, commands')
  BY <1>3, <1>5, <1>6 DEF Waits
<1>8. Shows(sh', commands', sh'.menu)
  BY <1>2 DEF Shows
<1>9. Replied(sh', responses', commands')
  BY <1>2 DEF Replied
<1> QED
  BY <1>4, <1>5, <1>7, <1>8, <1>9 DEF HistoryInv

\* Nothing is left under way, and there is no generation to name.
LEMMA DownHistory ==
  ASSUME NEW q, SyncInv', commands' \in Nat, IsShell(q), sh' = Down(q),
         requests' = <<>>, responses' = <<>>, worker' = NoWorker,
         q.history \in Seq(Lines), Len(q.history) <= commands', q.newest \in Nat,
         Shows(q, commands', q.menu)
  PROVE  HistoryInv'
<1>1. /\ Rest(sh') = <<q.history, q.newest, q.dropped, 0, q.menu>> /\ sh'.gen = 0 /\ sh'.sync = 0
  BY DownRest, DownView DEF View
<1>2. /\ sh'.history = q.history /\ sh'.newest = q.newest /\ sh'.dropped = q.dropped /\ sh'.head = 0
      /\ sh'.menu = q.menu
  BY <1>1 DEF Rest
<1>3. Ends(NoIndex, <<>>, NoIndex) /\ NoIndex.entries = <<>>
  BY EndsEmpty DEF NoIndex
<1>4. worker'.index = NoIndex /\ worker'.namespace = None
  BY DEF NoWorker
<1>5. DOMAIN <<>> = {} /\ <<>> \in Seq(Lines) /\ Len(<<>>) = 0 /\ ToSet(<<>>) = {}
  BY SeqEmpty DEF ToSet
<1>6. Told(sh', <<>>, commands', commands')
  BY <1>1, <1>2, <1>5, HistoryTypes DEF Told
<1>7. Waits(sh', requests', worker'.index, commands')
  BY <1>1, <1>3, <1>4, <1>6 DEF Waits
<1>8. NamesOnly(requests') /\ Replied(sh', responses', commands')
  BY <1>5 DEF NamesOnly, Replied
<1>9. Shows(sh', commands', sh'.menu)
  BY <1>2 DEF Shows
<1>10. Caught(sh')
  BY <1>1 DEF Caught
<1> QED
  BY <1>4, <1>7, <1>8, <1>9, <1>10 DEF HistoryInv

\* What the shell has become is written, or the session ends.
LEMMA DoesHistory ==
  ASSUME NEW q, SyncInv', commands' \in Nat, IsShell(q), Does(q),
         worker.namespace \in Names \cup {None},
         Right(q, commands', commands'), Caught(q), Shows(q, commands', q.menu),
         \/ q.sync = 0
         \/ q.gen # 0 /\ q.newest = q.head /\ \A i \in DOMAIN responses : responses[i].id # q.sync
  PROVE  HistoryInv'
<1>1. CASE Become(q) /\ UNCHANGED <<worker, responses, faults>>
  BY <1>1, BecomeHistory
<1>2. CASE Lost(q)
  <2>1. q.history \in Seq(Lines) /\ Len(q.history) <= commands' /\ q.newest \in Nat
    BY DEF Right, Told
  <2>2. sh' = Down(q) /\ requests' = <<>> /\ responses' = <<>> /\ worker' = NoWorker
    BY <1>2 DEF Lost
  <2> QED
    BY <2>1, <2>2, DownHistory
<1> QED
  BY <1>1, <1>2 DEF Does

-----------------------------------------------------------------------------
\* Between two steps.
LEMMA HistoryRight ==
  ASSUME HistoryInv
  PROVE  /\ Right(sh, commands, commands) /\ Caught(sh) /\ IsShell(sh)
         /\ sh.history \in Seq(Lines) /\ Len(sh.history) <= commands /\ sh.newest \in Nat
         /\ Good(sh) /\ Signed(sh) /\ Counted(sh) /\ IsSeq(requests) /\ IsSeq(responses)
         /\ commands \in Nat /\ worker.namespace \in Names \cup {None}
<1>1. SyncInv /\ Caught(sh) /\ NamesOnly(requests) /\ Waits(sh, requests, worker.index, commands)
  BY DEF HistoryInv
<1>2. Good(sh) /\ Signed(sh) /\ Counted(sh) /\ IsSeq(requests) /\ IsSeq(responses)
  BY <1>1, SyncGood
<1>3. requests \o sh.tx = requests
  BY <1>1, <1>2, SeqFacts DEF SyncInv
<1>4. PICK x : Ends(worker.index, requests, x) /\ Told(sh, x.entries, commands, commands)
  BY <1>1 DEF Waits
<1>5. Right(sh, commands, commands)
  BY <1>1, <1>3, <1>4 DEF Right
<1> QED
  BY <1>1, <1>2, <1>4, <1>5 DEF Told, HistoryInv, Good

\* An empty menu shows nothing that is not so.
LEMMA EmptyShows ==
  ASSUME NEW p, NEW c
  PROVE  Shows(p, c, <<>>)
BY DEF Shows

\* A change of the history or the names, and what is done before a prompt.
LEMMA CommandHistory ==
  ASSUME HistoryInv, SyncInv', NEW r, IsShell(r), View(r) = View(sh), r.menu = <<>>,
         \/ Right(r, commands, commands + 1) /\ Command(Precmd(r))
         \/ Right(r, commands + 1, commands + 1) /\ Caught(r) /\ Command(r)
  PROVE  HistoryInv'
<1>1. /\ Good(sh) /\ Signed(sh) /\ Counted(sh) /\ IsSeq(requests) /\ IsSeq(responses)
      /\ commands \in Nat /\ worker.namespace \in Names \cup {None}
  BY HistoryRight
<1>2. sh.sync = 0 /\ commands' = commands + 1 /\ commands' \in Nat
  BY <1>1 DEF Command
<1>3. Good(r) /\ Signed(r) /\ Counted(r) /\ r.sync = 0
  <2>1. r.sync = sh.sync
    BY DEF View
  <2> QED
    BY <1>1, <1>2, <2>1, GoodView
<1>4. CASE Right(r, commands, commands + 1) /\ Command(Precmd(r))
  <2> DEFINE q == Precmd(r)
  <2>1. Right(q, commands + 1, commands + 1) /\ Level(r, q)
    BY <1>1, <1>3, <1>4, PrecmdRight
  <2>2. Good(q) /\ Does(q) /\ q.sync = 0
    <3>1. LET h == HistReconcile(r) IN Good(h) /\ Signed(h) /\ Counted(h) /\ h.sync = 0
      BY <1>1, <1>3, HistReconcileGood
    <3>2. Good(q) /\ q.sync = 0
      BY <1>1, <3>1, NamespaceRefreshGood DEF Precmd
    <3> QED
      BY <1>4, <3>2 DEF Command
  <2> HIDE DEF q
  <2>3. Shows(q, commands', q.menu)
    BY <2>1, EmptyShows DEF Level
  <2>4. Caught(q)
    <3>1. q.newest \in Nat
      BY <2>1 DEF Right, Told
    <3> QED
      BY <2>1, <3>1 DEF Caught, Level
  <2> QED
    BY <1>1, <1>2, <2>1, <2>2, <2>3, <2>4, DoesHistory DEF Good
<1>5. CASE Right(r, commands + 1, commands + 1) /\ Caught(r) /\ Command(r)
  <2>1. Does(r) /\ Shows(r, commands', r.menu)
    BY <1>5, EmptyShows DEF Command
  <2> QED
    BY <1>1, <1>2, <1>3, <1>5, <2>1, DoesHistory
<1> QED
  BY <1>4, <1>5

\* The history is changed and its menu cleared; the rest stays.
LEMMA ChangedRest ==
  ASSUME NEW p, IsShell(p), NEW h, NEW n, NEW D
  PROVE  LET q == Changed(p, h, n, D)
         IN  /\ IsShell(q) /\ View(q) = View(p) /\ q.gen = p.gen /\ q.tx = p.tx
             /\ q.history = h /\ q.newest = n /\ q.dropped = p.dropped \cup D /\ q.head = p.head
             /\ q.menu = <<>>
<1> DEFINE q == Changed(p, h, n, D)
<1>1. IsShell(q) /\ View(q) = View(p)
  BY DEF Changed, IsShell, Shells, View
<1>2. /\ q.history = h /\ q.newest = n /\ q.dropped = p.dropped \cup D /\ q.head = p.head
      /\ q.menu = <<>> /\ q.gen = p.gen /\ q.tx = p.tx
  BY DEF Changed, IsShell, Shells
<1> QED
  BY <1>1, <1>2

\* A line is added to the lines g, which are those of h but for itself.
LEMMA RightMore ==
  ASSUME NEW p, NEW c \in Nat, IsShell(p), Right(p, c, c), Caught(p),
         NEW h \in Seq(Lines), NEW g \in Seq(Lines), NEW l \in Lines, NEW D,
         \A e : Leads(p.history, e, c) => Leads(h, e, c),
         Len(g) <= c, ToSet(g) \cup {l} = ToSet(h) \cup {l}, ToSet(p.history) \subseteq ToSet(h) \cup D,
         \A x, y : y # l /\ Before(h, y, x) => Before(g, y, x)
  PROVE  LET q == Changed(p, <<l>> \o g, p.newest + 1, D)
         IN  Right(q, c, c + 1) /\ Caught(q)
<1> DEFINE t == <<l>> \o g
           n == p.newest + 1
           q == Changed(p, t, n, D)
<1> HIDE DEF t, n
<1>1. /\ q.gen = p.gen /\ q.tx = p.tx /\ q.head = p.head /\ q.history = t
      /\ q.newest = n /\ q.dropped = p.dropped \cup D
  BY ChangedRest
<1> HIDE DEF q
<1>2. p.gen \in Nat
  BY DEF IsShell, Shells
<1>3. PICK x : Ends(worker.index, requests \o p.tx, x) /\ Told(p, x.entries, c, c)
  BY DEF Right
<1>4. p.gen # 0 /\ p.newest = p.head => Leads(h, x.entries, c)
  BY <1>3 DEF Told
<1>5. Told(q, x.entries, c, c + 1) /\ Caught(q)
  BY <1>1, <1>2, <1>3, <1>4, ToldMore DEF t, n
<1>6. NamesOnly(requests \o q.tx)
  BY <1>1 DEF Right
<1> QED
  BY <1>1, <1>3, <1>5, <1>6 DEF Right, q, t, n

\* A command line is stored.
LEMMA ExecuteHistory ==
  ASSUME HistoryInv, SyncInv', Execute
  PROVE  HistoryInv'
<1> DEFINE h == sh.history
           c == commands
<1>1. /\ Right(sh, c, c) /\ Caught(sh) /\ IsShell(sh) /\ h \in Seq(Lines) /\ Len(h) <= c
      /\ Len(h) \in Nat /\ c \in Nat
  BY HistoryRight
<1> HIDE DEF h, c
<1>2. PICK line \in Lines :
        \/ Command(Precmd(Changed(sh, <<line>> \o h, sh.newest + 1, {})))
        \/ Command(Precmd(Changed(sh, <<line>> \o Without(h, line), sh.newest + 1, {})))
        \/ /\ h # <<>>
           /\ Command(Precmd(Changed(sh, <<line>> \o Front(h), sh.newest + 1, {Last(h)})))
  BY Zenon DEF Execute, h
<1>3. ASSUME NEW g \in Seq(Lines), NEW D, Right(Changed(sh, <<line>> \o g, sh.newest + 1, D), c, c + 1),
             Command(Precmd(Changed(sh, <<line>> \o g, sh.newest + 1, D)))
      PROVE  HistoryInv'
  <2> DEFINE r == Changed(sh, <<line>> \o g, sh.newest + 1, D)
  <2>1. IsShell(r) /\ View(r) = View(sh) /\ r.menu = <<>>
    BY <1>1, ChangedRest
  <2>2. Right(r, c, c + 1) /\ Command(Precmd(r))
    BY <1>3
  <2> HIDE DEF r
  <2> QED
    BY <2>1, <2>2, CommandHistory DEF c
<1>4. CASE Command(Precmd(Changed(sh, <<line>> \o h, sh.newest + 1, {})))
  <2>1. Right(Changed(sh, <<line>> \o h, sh.newest + 1, {}), c, c + 1)
    BY <1>1, RightMore DEF h
  <2> QED
    BY <1>1, <1>3, <1>4, <2>1
<1>5. CASE Command(Precmd(Changed(sh, <<line>> \o Without(h, line), sh.newest + 1, {})))
  <2> DEFINE g == Without(h, line)
  <2>1. /\ g \in Seq(Lines) /\ Len(g) \in 0..Len(h) /\ ToSet(g) = ToSet(h) \ {line}
        /\ \A x, y : y # line /\ Before(h, y, x) => Before(g, y, x)
    BY <1>1, WithoutIs
  <2> HIDE DEF g
  <2>2. Len(g) <= c /\ ToSet(g) \cup {line} = ToSet(h) \cup {line}
    BY <1>1, <2>1
  <2>3. Right(Changed(sh, <<line>> \o g, sh.newest + 1, {}), c, c + 1)
    BY <1>1, <2>1, <2>2, RightMore DEF h
  <2>4. Command(Precmd(Changed(sh, <<line>> \o g, sh.newest + 1, {})))
    BY <1>5 DEF g
  <2> QED
    BY <1>3, <2>1, <2>3, <2>4
<1>6. CASE /\ h # <<>>
           /\ Command(Precmd(Changed(sh, <<line>> \o Front(h), sh.newest + 1, {Last(h)})))
  <2> DEFINE g == Front(h)
             D == {Last(h)}
  <2>1. g \in Seq(Lines) /\ Len(g) = Len(h) - 1 /\ ToSet(h) = ToSet(g) \cup D
    BY <1>1, <1>6, FrontIs
  <2>2. \A e : Leads(h, e, c) => Leads(g, e, c)
    BY <1>1, <1>6, LeadsFront
  <2>3. Command(Precmd(Changed(sh, <<line>> \o g, sh.newest + 1, D)))
    BY <1>6
  <2> HIDE DEF g, D
  <2>4. Len(g) <= c /\ ToSet(h) \subseteq ToSet(g) \cup D
    BY <1>1, <2>1
  <2>5. Right(Changed(sh, <<line>> \o g, sh.newest + 1, D), c, c + 1)
    BY <1>1, <2>1, <2>2, <2>4, RightMore DEF h
  <2> QED
    BY <1>3, <2>1, <2>3, <2>5
<1> QED
  BY <1>2, <1>4, <1>5, <1>6

\* The history is the same, or another one.
LEMMA PromptHistory ==
  ASSUME HistoryInv, SyncInv', ExecuteUnstored \/ Rename \/ Switch
  PROVE  HistoryInv'
<1>1. /\ Right(sh, commands, commands) /\ Caught(sh) /\ IsShell(sh) /\ commands \in Nat
  BY HistoryRight
<1>2. commands + 1 \in Nat /\ commands <= commands + 1
  BY <1>1
<1>3. Right(sh, commands, commands + 1)
  BY <1>1, <1>2, RightLater
<1>5. CASE ExecuteUnstored
  <2> DEFINE r == [sh EXCEPT !.menu = <<>>]
  <2>1. IsShell(r) /\ View(r) = View(sh)
    BY <1>1, ChangedView
  <2>2. /\ r.menu = <<>> /\ r.history = sh.history /\ r.newest = sh.newest /\ r.dropped = sh.dropped
        /\ r.head = sh.head /\ r.gen = sh.gen /\ r.tx = sh.tx
    BY <1>1 DEF IsShell, Shells
  <2>3. Command(Precmd(r))
    BY <1>5 DEF ExecuteUnstored
  <2> HIDE DEF r
  <2>4. Right(r, commands, commands + 1)
    BY <1>3, <2>2 DEF Right, Told
  <2> QED
    BY <2>1, <2>2, <2>3, <2>4, CommandHistory
<1>6. CASE Rename
  <2>1. PICK names \in Names : Command(Precmd([sh EXCEPT !.names = names, !.menu = <<>>]))
    BY <1>6 DEF Rename
  <2> DEFINE r == [sh EXCEPT !.names = names, !.menu = <<>>]
  <2>2. IsShell(r) /\ View(r) = View(sh)
    BY <1>1, ChangedView
  <2>3. /\ r.menu = <<>> /\ r.history = sh.history /\ r.newest = sh.newest /\ r.dropped = sh.dropped
        /\ r.head = sh.head /\ r.gen = sh.gen /\ r.tx = sh.tx
    BY <1>1 DEF IsShell, Shells
  <2>4. Command(Precmd(r))
    BY <2>1
  <2> HIDE DEF r
  <2>5. Right(r, commands, commands + 1)
    BY <1>3, <2>3 DEF Right, Told
  <2> QED
    BY <2>2, <2>3, <2>4, <2>5, CommandHistory
<1>7. CASE Switch
  <2> DEFINE r == Changed(sh, <<>>, 0, ToSet(sh.history))
  <2>1. /\ IsShell(r) /\ View(r) = View(sh) /\ r.gen = sh.gen /\ r.tx = sh.tx
        /\ r.history = <<>> /\ r.newest = 0 /\ r.dropped = sh.dropped \cup ToSet(sh.history)
        /\ r.head = sh.head /\ r.menu = <<>>
    BY <1>1, ChangedRest
  <2>2. Command(Precmd(r))
    BY <1>7 DEF Switch
  <2> HIDE DEF r
  <2>3. PICK x : Ends(worker.index, requests \o sh.tx, x) /\ Told(sh, x.entries, commands, commands + 1)
    BY <1>3 DEF Right
  <2>4. Told(r, x.entries, commands, commands + 1)
    BY <1>2, <2>1, <2>3, ToldSwitch
  <2>5. Right(r, commands, commands + 1)
    BY <1>3, <2>1, <2>3, <2>4 DEF Right
  <2> QED
    BY <2>1, <2>2, <2>5, CommandHistory
<1> QED
  BY <1>5, <1>6, <1>7

\* Lines come and go while a line is edited.
LEMMA EditHistory ==
  ASSUME HistoryInv, SyncInv', Import \/ Shrink
  PROVE  HistoryInv'
<1> DEFINE h == sh.history
           c == commands
<1>1. /\ Right(sh, c, c) /\ Caught(sh) /\ IsShell(sh) /\ h \in Seq(Lines) /\ Len(h) <= c
      /\ c \in Nat /\ c + 1 \in Nat /\ c <= c + 1
  BY HistoryRight
<1> HIDE DEF h, c
<1>2. CASE Import
  <2>1. PICK line \in Lines : Command(Changed(sh, <<line>> \o h, sh.newest + 1, {}))
    BY <1>2 DEF Import, h
  <2> DEFINE r == Changed(sh, <<line>> \o h, sh.newest + 1, {})
  <2>2. Right(r, c, c + 1) /\ Caught(r)
    BY <1>1, RightMore DEF h
  <2>3. IsShell(r) /\ View(r) = View(sh) /\ r.menu = <<>>
    BY <1>1, ChangedRest
  <2>4. Command(r)
    BY <2>1
  <2> HIDE DEF r
  <2>5. Right(r, c + 1, c + 1)
    BY <1>1, <2>2, RightLater
  <2> QED
    BY <2>2, <2>3, <2>4, <2>5, CommandHistory DEF c
<1>3. CASE Shrink
  <2> DEFINE r == Changed(sh, Front(h), sh.newest, {Last(h)})
  <2>1. h # <<>> /\ Command(r)
    BY <1>3 DEF Shrink, h
  <2>2. /\ IsShell(r) /\ View(r) = View(sh) /\ r.gen = sh.gen /\ r.tx = sh.tx
        /\ r.history = Front(h) /\ r.newest = sh.newest /\ r.dropped = sh.dropped \cup {Last(h)}
        /\ r.head = sh.head /\ r.menu = <<>>
    BY <1>1, ChangedRest
  <2> HIDE DEF r
  <2>3. PICK x : Ends(worker.index, requests \o sh.tx, x) /\ Told(sh, x.entries, c, c)
    BY <1>1 DEF Right
  <2>4. Told(r, x.entries, c, c) /\ Caught(r)
    BY <1>1, <2>1, <2>2, <2>3, ToldShrink DEF h
  <2>5. Right(r, c, c)
    BY <1>1, <2>2, <2>3, <2>4 DEF Right
  <2>6. Right(r, c + 1, c + 1)
    BY <1>1, <2>5, RightLater
  <2> QED
    BY <2>1, <2>2, <2>4, <2>6, CommandHistory DEF c
<1> QED
  BY <1>2, <1>3

\* A session is brought up, or the menu is opened.
LEMMA SessionHistory ==
  ASSUME HistoryInv, SyncInv', Type \/ OpenMenu
  PROVE  HistoryInv'
<1>1. /\ Right(sh, commands, commands) /\ Caught(sh) /\ IsShell(sh) /\ Good(sh) /\ Signed(sh) /\ Counted(sh)
      /\ IsSeq(requests) /\ IsSeq(responses) /\ commands \in Nat /\ worker.namespace \in Names \cup {None}
      /\ IsSeq(sh.tx)
  BY HistoryRight DEF Good
<1>2. CASE Type
  <2> DEFINE q == EnsureSession(sh)
  <2>1. sh.sync = 0 /\ Does(q) /\ commands' = commands
    BY <1>2 DEF Type
  <2>2. Right(q, commands, commands) /\ Kin(sh, q)
    BY <1>1, EnsureSessionRight
  <2>3. IsShell(q) /\ q.sync = 0
    BY <1>1, <2>1, EnsureSessionGood DEF Good
  <2> HIDE DEF q
  <2>4. Caught(q)
    BY <1>1, <2>2 DEF Caught, Kin
  <2>5. Shows(q, commands, q.menu)
    BY <2>2 DEF HistoryInv, Shows, Kin
  <2> QED
    BY <1>1, <2>1, <2>2, <2>3, <2>4, <2>5, DoesHistory
<1>3. CASE OpenMenu
  <2> DEFINE p == [sh EXCEPT !.menu = <<>>]
             q == OpenHistoryMenu(p)
  <2>1. sh.sync = 0 /\ Does(q) /\ commands' = commands
    BY <1>3 DEF OpenMenu
  <2>2. IsShell(p) /\ View(p) = View(sh)
    BY <1>1, ChangedView
  <2>3. /\ p.menu = <<>> /\ p.history = sh.history /\ p.newest = sh.newest /\ p.dropped = sh.dropped
        /\ p.head = sh.head /\ p.gen = sh.gen /\ p.tx = sh.tx /\ p.sync = sh.sync
    BY <1>1 DEF IsShell, Shells
  <2> HIDE DEF p
  <2>4. Good(p) /\ Signed(p) /\ Counted(p)
    BY <1>1, <2>2, GoodView
  <2>5. Right(p, commands, commands)
    BY <1>1, <2>3 DEF Right, Told
  <2>6. /\ Right(q, commands, commands) /\ Level(p, q) /\ q.gen # 0
        /\ \E t, f : IsSeq(t) /\ q.tx = Append(t, f) /\ f.id = q.sync
    BY <1>1, <2>1, <2>3, <2>4, <2>5, OpenHistoryMenuRight
  <2>7. Good(q)
    BY <1>1, <2>1, <2>3, <2>4, OpenHistoryMenuGood
  <2> HIDE DEF q
  <2>8. \A i \in DOMAIN responses : responses[i].id # q.sync
    <3>1. PICK t, f : IsSeq(t) /\ q.tx = Append(t, f) /\ f.id = q.sync
      BY <2>6
    <3> DEFINE rs == requests \o t
               n == Len(rs) + 1
    <3>2. IsSeq(rs) /\ requests \o q.tx = Append(rs, f)
      BY <1>1, <3>1, SeqConcat, ConcatAppend
    <3> HIDE DEF rs
    <3>3. n \in DOMAIN Append(rs, f) /\ Append(rs, f)[n] = f
      BY <3>2, AppendDomain
    <3>4. /\ \A i \in DOMAIN responses, j \in DOMAIN Append(rs, f) : responses[i].id < Append(rs, f)[j].id
          /\ \A i \in DOMAIN responses : \E r \in q.pending : r.id = responses[i].id
          /\ \A r \in q.pending : r.id \in 1..q.id
      BY <2>7, <3>2 DEF Good, Linked, Ordered
    <3> HIDE DEF n
    <3>5. \A i \in DOMAIN responses : responses[i].id \in Nat /\ responses[i].id < q.sync
      BY <3>1, <3>3, <3>4
    <3>6. q.sync \in Nat
      BY <2>7 DEF Good, IsShell, Shells
    <3> QED
      BY <3>5, <3>6
  <2>9. Shows(q, commands, q.menu)
    BY <2>3, <2>6, EmptyShows DEF Level
  <2>10. Caught(q) /\ q.newest = q.head
    <3>1. q.newest \in Nat
      BY <2>6 DEF Right, Told
    <3> QED
      BY <2>6, <3>1 DEF Caught, Level
  <2>11. IsShell(q)
    BY <2>7 DEF Good
  <2> QED
    BY <1>1, <2>1, <2>6, <2>8, <2>9, <2>10, <2>11, DoesHistory
<1> QED
  BY <1>2, <1>3

(***************************************************************************)
(* Responses, and the worker.                                              *)
(***************************************************************************)
\* A response leaves the history and its latches, or resets these, and the
\* menu is the answer to the request the shell waits for.
LEMMA ReceivedRest ==
  ASSUME NEW p, IsShell(p), NEW r, NEW q \in p.pending, q.id = r.id,
         \A t \in p.pending : t.id = q.id => t = q
  PROVE  LET x == Received(p, r)
         IN  /\ x.history = p.history /\ x.newest = p.newest /\ x.dropped = p.dropped
             /\ \/ x.gen = p.gen /\ x.head = p.head
                \/ x.gen = 0 /\ x.head = 0
             /\ x.menu = IF r.id # p.sync THEN p.menu
                         ELSE IF r.result = "ok" THEN r.body ELSE <<>>
<1> DEFINE k == Acknowledge(p, q.kind)
           a == [k EXCEPT !.pending = k.pending \ {q}]
           b == IF q.kind = "namespace" THEN NamespaceSettle(a, r.id, r.result) ELSE a
           c == IF r.result = "unknown-generation" THEN HistReset(b) ELSE b
           menu == IF r.result = "ok" THEN r.body ELSE <<>>
           x == Received(p, r)
<1>1. (CHOOSE t \in p.pending : t.id = r.id) = q
  OBVIOUS
<1>2. x = IF r.id # p.sync THEN c ELSE [c EXCEPT !.sync = 0, !.menu = menu]
  BY <1>1 DEF Received
<1>3. IsShell(k) /\ Rest(k) = Rest(p) /\ k.gen = p.gen
  <2>1. CASE q.kind = "append" /\ p.unacked > 0
    <3>1. p.unacked - 1 \in Nat
      BY <2>1 DEF IsShell, Shells
    <3>2. k = [p EXCEPT !.unacked = p.unacked - 1]
      BY <2>1 DEF Acknowledge
    <3> QED
      BY <3>1, <3>2 DEF IsShell, Shells, Rest
  <2>2. CASE ~(q.kind = "append" /\ p.unacked > 0)
    BY <2>2 DEF Acknowledge
  <2> QED
    BY <2>1, <2>2
<1> HIDE DEF k
<1>4. IsShell(a) /\ Rest(a) = Rest(k) /\ a.gen = k.gen
  BY <1>3 DEF IsShell, Shells, Rest
<1> HIDE DEF a
<1>5. IsShell(b) /\ Rest(b) = Rest(a) /\ b.gen = a.gen
  <2>1. b = a \/ b = NamespaceLatchDrop(a)
    BY DEF NamespaceSettle
  <2>2. LET d == NamespaceLatchDrop(a) IN IsShell(d) /\ Rest(d) = Rest(a) /\ d.gen = a.gen
    BY <1>4, NamespaceLatchDropView, LatchRest DEF View
  <2> QED
    BY <1>4, <2>1, <2>2
<1> HIDE DEF b
<1>6. IsShell(c) /\ Kin(b, c)
  <2>1. CASE r.result = "unknown-generation"
    <3>1. /\ IsShell(HistReset(b)) /\ HistReset(b).gen = 0
          /\ Rest(HistReset(b)) = <<b.history, b.newest, b.dropped, 0, b.menu>>
      BY <1>5, HistResetView, LatchRest DEF View
    <3>2. c = HistReset(b)
      BY <2>1
    <3> HIDE DEF c
    <3> QED
      BY <3>1, <3>2 DEF Rest, Kin
  <2>2. CASE r.result # "unknown-generation"
    BY <1>5, <2>2 DEF Kin
  <2> QED
    BY <2>1, <2>2
<1> HIDE DEF c, menu
<1>7. Kin(p, c)
  BY <1>3, <1>4, <1>5, <1>6 DEF Kin, Rest
<1>8. CASE r.id # p.sync
  <2>1. x = c
    BY <1>2, <1>8
  <2> QED
    BY <1>7, <1>8, <2>1 DEF Kin
<1>9. CASE r.id = p.sync
  <2>1. x = [c EXCEPT !.sync = 0, !.menu = menu]
    BY <1>2, <1>9
  <2>2. /\ x.history = c.history /\ x.newest = c.newest /\ x.dropped = c.dropped /\ x.gen = c.gen
        /\ x.head = c.head /\ x.menu = menu
    BY <1>6, <2>1 DEF IsShell, Shells
  <2> HIDE DEF x
  <2> QED
    BY <1>7, <1>9, <2>2 DEF Kin, menu, x
<1> QED
  BY <1>8, <1>9

\* The step that takes a response.
LEMMA ReceiveHistory ==
  ASSUME HistoryInv, SyncInv', Receive
  PROVE  HistoryInv'
<1> DEFINE r == Head(responses)
<1>1. /\ responses # <<>> /\ sh' = Received(sh, r) /\ responses' = Tail(responses)
      /\ UNCHANGED <<worker, requests, commands>>
  BY DEF Receive
<1>2. /\ IsShell(sh) /\ IsSeq(responses) /\ Ordered(sh, requests, responses)
      /\ NamesOnly(requests) /\ worker.namespace \in Names \cup {None} /\ commands \in Nat /\ Caught(sh)
      /\ Waits(sh, requests, worker.index, commands) /\ Shows(sh, commands, sh.menu)
      /\ Replied(sh, responses, commands)
  BY DEF HistoryInv, SyncInv, Linked
<1>3. /\ 1 \in DOMAIN responses /\ r = responses[1]
      /\ \A i \in DOMAIN responses' : i + 1 \in DOMAIN responses /\ responses'[i] = responses[i + 1]
  BY <1>1, <1>2, TailDomain
<1>4. PICK q \in sh.pending : q.id = r.id
  BY <1>2, <1>3 DEF Ordered
<1>5. \A t \in sh.pending : t.id = q.id => t = q
  BY <1>2 DEF Ordered
<1>6. r.id # 0
  BY <1>2, <1>4 DEF Ordered
<1> HIDE DEF r
<1>7. sh'.sync = IF r.id = sh.sync THEN 0 ELSE sh.sync
  BY <1>1, <1>2, <1>4, <1>5, ReceivedSettles DEF Settled
<1>8. /\ sh'.history = sh.history /\ sh'.newest = sh.newest /\ sh'.dropped = sh.dropped
      /\ \/ sh'.gen = sh.gen /\ sh'.head = sh.head
         \/ sh'.gen = 0 /\ sh'.head = 0
      /\ sh'.menu = IF r.id # sh.sync THEN sh.menu ELSE IF r.result = "ok" THEN r.body ELSE <<>>
  BY <1>1, <1>2, <1>4, <1>5, ReceivedRest
<1>9. Waits(sh', requests', worker'.index, commands')
  <2>1. PICK x : /\ Ends(worker.index, requests, x) /\ Told(sh, x.entries, commands, commands)
                 /\ sh.sync # 0 => Leads(sh.history, x.entries, commands)
    BY <1>2 DEF Waits
  <2>2. Told(sh', x.entries, commands, commands)
    BY <1>8, <2>1 DEF Told
  <2>3. sh'.sync # 0 => Leads(sh'.history, x.entries, commands)
    BY <1>7, <1>8, <2>1
  <2> QED
    BY <1>1, <2>1, <2>2, <2>3 DEF Waits
<1>10. ASSUME NEW m, Shows(sh, commands, m)
       PROVE  Shows(sh', commands', m)
  BY <1>1, <1>8, <1>10 DEF Shows
<1>11. Shows(sh', commands', sh'.menu)
  <2>1. CASE r.id # sh.sync
    BY <1>2, <1>8, <1>10, <2>1
  <2>2. CASE r.id = sh.sync /\ r.result = "ok"
    BY <1>2, <1>3, <1>6, <1>8, <1>10, <2>2 DEF Replied
  <2>3. CASE r.id = sh.sync /\ r.result # "ok"
    BY <1>8, <2>3, EmptyShows
  <2> QED
    BY <2>1, <2>2, <2>3
<1>12. Replied(sh', responses', commands')
  <2> SUFFICES ASSUME NEW i \in DOMAIN responses',
                      sh'.sync # 0, responses'[i].id = sh'.sync, responses'[i].result = "ok"
               PROVE  Shows(sh', commands', responses'[i].body)
    BY DEF Replied
  <2>1. Shows(sh, commands, responses'[i].body)
    BY <1>2, <1>3, <1>7 DEF Replied
  <2> QED
    BY <1>10, <2>1
<1>13. Caught(sh')
  BY <1>2, <1>8 DEF Caught
<1> QED
  BY <1>1, <1>2, <1>9, <1>11, <1>12, <1>13 DEF HistoryInv

\* What the shell waits for is the only request that can still be processed
\* once it has come to the front.
LEMMA LastRequest ==
  ASSUME SyncInv, requests # <<>>, sh.sync # 0, Head(requests).id = sh.sync
  PROVE  Len(requests) = 1 /\ Head(requests).kind = "plan"
<1>1. /\ IsSeq(requests) /\ Ordered(sh, requests, responses) /\ Waiting(sh) /\ IsShell(sh)
  BY DEF SyncInv, Linked, Counted
<1>2. Len(requests) \in Nat \ {0} /\ DOMAIN requests = 1..Len(requests) /\ Head(requests) = requests[1]
  BY <1>1, SeqTail, SeqFacts
<1>3. Head(requests) \in sh.pending
  BY <1>1, <1>2 DEF Ordered
<1>4. ASSUME Len(requests) # 1
      PROVE  FALSE
  <2>1. 1 \in DOMAIN requests /\ 2 \in DOMAIN requests
    BY <1>2, <1>4
  <2>2. requests[2] \in sh.pending /\ requests[1].id < requests[2].id
    BY <1>1, <2>1 DEF Ordered
  <2>3. requests[2].id <= sh.sync /\ requests[2].id \in Nat /\ sh.sync \in Nat
    BY <1>1, <2>2 DEF Ordered, Waiting, IsShell, Shells
  <2> QED
    BY <1>2, <2>2, <2>3
<1> QED
  BY <1>1, <1>3, <1>4 DEF Waiting

\* The step of the worker: the answer that the shell waits for lists an index
\* that leads its history.
LEMMA ProcessHistory ==
  ASSUME HistoryInv, SyncInv', Process
  PROVE  HistoryInv'
<1> DEFINE r == Head(requests)
<1>1. /\ SyncInv /\ IsSeq(requests) /\ IsSeq(responses) /\ IsShell(sh)
      /\ Ordered(sh, requests, responses)
      /\ NamesOnly(requests) /\ worker.namespace \in Names \cup {None} /\ commands \in Nat /\ Caught(sh)
      /\ Waits(sh, requests, worker.index, commands) /\ Shows(sh, commands, sh.menu)
      /\ Replied(sh, responses, commands)
  BY DEF HistoryInv, SyncInv, Linked
<1>2. requests # <<>> /\ sh' = sh /\ commands' = commands
  BY DEF Process
<1>3. requests' = Tail(requests)
  <2>1. Head(requests).kind \in Kinds
    BY <1>1, <1>2, TailDomain DEF Ordered
  <2>2. \E id, result, body, w : Answer(id, result, body, w)
    BY <2>1, Zenon DEF Process, WriteHistory, Kinds
  <2> QED
    BY <2>2 DEF Answer
<1>4. PICK a : responses' = Append(responses, a) /\ Processed(r, a, worker, worker')
  BY <1>1, ProcessAnswers
<1>5. /\ 1 \in DOMAIN requests /\ r = requests[1]
      /\ \A i \in DOMAIN requests' : i + 1 \in DOMAIN requests /\ requests'[i] = requests[i + 1]
  BY <1>1, <1>2, <1>3, TailDomain
<1>6. PICK x : /\ Ends(worker.index, requests, x) /\ Told(sh, x.entries, commands, commands)
               /\ sh.sync # 0 => Leads(sh.history, x.entries, commands)
  BY <1>1 DEF Waits
<1>7. /\ Ends(worker'.index, requests', x)
      /\ Len(requests) = 1 => x = Written(worker.index, r)
  BY <1>1, <1>2, <1>3, <1>4, <1>6, EndsTail DEF Processed
<1> HIDE DEF r
<1>8. Waits(sh', requests', worker'.index, commands')
  BY <1>2, <1>6, <1>7 DEF Waits
<1>9. NamesOnly(requests')
  BY <1>1, <1>5 DEF NamesOnly
<1>10. worker'.namespace \in Names \cup {None}
  BY <1>1, <1>4, <1>5 DEF Processed, NamesOnly
<1>11. ASSUME sh.sync # 0, a.id = sh.sync, a.result = "ok"
       PROVE  Shows(sh, commands, a.body)
  <2>1. Len(requests) = 1 /\ r.kind = "plan"
    BY <1>1, <1>2, <1>4, <1>11, LastRequest DEF Processed, r
  <2>2. x = worker.index /\ a.body = At(worker.index.entries, Window(worker.index, RetentionCap))
    BY <1>4, <1>7, <1>11, <2>1 DEF Processed, Written
  <2>3. x.entries \in Seq(Lines) /\ Len(x.entries) <= RetentionCap
    BY <1>6 DEF Told
  <2>4. a.body = Distinct(x.entries)
    BY <2>2, <2>3, WindowIs
  <2>5. Shows(sh, commands, Distinct(x.entries))
    BY <1>1, <1>6, <1>11, LeadsShows
  <2> QED
    BY <2>4, <2>5
<1>12. Replied(sh', responses', commands')
  <2> DEFINE n == Len(responses) + 1
  <2>1. /\ DOMAIN responses' = DOMAIN responses \cup {n} /\ responses'[n] = a
        /\ \A i \in DOMAIN responses : responses'[i] = responses[i]
    BY <1>1, <1>4, AppendDomain
  <2> HIDE DEF n
  <2> QED
    BY <1>1, <1>2, <1>11, <2>1 DEF Replied
<1> QED
  BY <1>1, <1>2, <1>8, <1>9, <1>10, <1>12 DEF HistoryInv

-----------------------------------------------------------------------------
(***************************************************************************)
(* The theorems about the history.                                         *)
(***************************************************************************)
\* A shell that has just begun has no history.
LEMMA HistoryInit == Init => HistoryInv
<1> SUFFICES ASSUME Init
             PROVE  HistoryInv
  OBVIOUS
<1>1. SyncInv /\ commands = 0 /\ requests = <<>> /\ responses = <<>> /\ worker = NoWorker
  BY SyncInit DEF Init
<1>2. /\ sh.history = <<>> /\ sh.newest = 0 /\ sh.dropped = {} /\ sh.gen = 0 /\ sh.head = 0
      /\ sh.sync = 0 /\ sh.menu = <<>>
  BY DEF Init
<1>3. Ends(NoIndex, <<>>, NoIndex) /\ NoIndex.entries = <<>>
  BY EndsEmpty DEF NoIndex
<1>4. worker.index = NoIndex /\ worker.namespace = None
  BY <1>1 DEF NoWorker
<1>5. DOMAIN <<>> = {} /\ <<>> \in Seq(Lines) /\ Len(<<>>) = 0 /\ ToSet(<<>>) = {}
  BY SeqEmpty DEF ToSet
<1>6. Told(sh, <<>>, commands, commands)
  BY <1>1, <1>2, <1>5, HistoryTypes DEF Told
<1>7. Waits(sh, requests, worker.index, commands)
  BY <1>1, <1>2, <1>3, <1>4, <1>6 DEF Waits
<1>8. NamesOnly(requests) /\ Replied(sh, responses, commands)
  BY <1>1, <1>5 DEF NamesOnly, Replied
<1>9. Shows(sh, commands, sh.menu) /\ Caught(sh)
  BY <1>2, EmptyShows DEF Caught
<1> QED
  BY <1>1, <1>4, <1>7, <1>8, <1>9 DEF HistoryInv

\* A command, a request, a response, the end of a session, or an answer.
LEMMA HistoryNext == HistoryInv /\ [Next]_vars => HistoryInv'
<1> SUFFICES ASSUME HistoryInv, [Next]_vars
             PROVE  HistoryInv'
  OBVIOUS
<1>1. SyncInv'
  BY SyncNext DEF HistoryInv
<1>2. CASE Execute
  BY <1>1, <1>2, ExecuteHistory
<1>3. CASE ExecuteUnstored \/ Rename \/ Switch
  BY <1>1, <1>3, PromptHistory
<1>4. CASE Import \/ Shrink
  BY <1>1, <1>4, EditHistory
<1>5. CASE Type \/ OpenMenu
  BY <1>1, <1>5, SessionHistory
<1>6. CASE Receive
  BY <1>1, <1>6, ReceiveHistory
<1>7. CASE SessionFail
  <2>1. /\ sh' = Down(sh) /\ requests' = <<>> /\ responses' = <<>> /\ worker' = NoWorker
        /\ commands' = commands
    BY <1>7 DEF SessionFail
  <2>2. /\ IsShell(sh) /\ sh.history \in Seq(Lines) /\ Len(sh.history) <= commands /\ sh.newest \in Nat
        /\ commands \in Nat
    BY HistoryRight
  <2>3. Shows(sh, commands, sh.menu)
    BY DEF HistoryInv
  <2> QED
    BY <1>1, <2>1, <2>2, <2>3, DownHistory
<1>8. CASE Process
  BY <1>1, <1>8, ProcessHistory
<1>9. CASE UNCHANGED vars
  <2>1. /\ sh' = sh /\ worker' = worker /\ requests' = requests /\ responses' = responses
        /\ commands' = commands
    BY <1>9 DEF vars
  <2> QED
    BY <1>1, <2>1 DEF HistoryInv
<1> QED
  BY <1>2, <1>3, <1>4, <1>5, <1>6, <1>7, <1>8, <1>9 DEF Next

\* What the shell may take for granted about the entries of the index, and the
\* answer on its way, hold in every reachable state.
THEOREM HistoryInvHolds == Spec => []HistoryInv
BY HistoryInit, HistoryNext, PTL DEF Spec

\* The menu is that of the invariant, and the types are those of its parts.
LEMMA HistoryIsRight == HistoryInv => HistoryIsExact
<1> SUFFICES ASSUME HistoryInv
             PROVE  HistoryIsExact
  OBVIOUS
<1>1. /\ IsShell(sh) /\ sh.tx = <<>> /\ IsSeq(requests) /\ IsSeq(responses)
      /\ Ordered(sh, requests, responses) /\ Shows(sh, commands, sh.menu)
      /\ worker.namespace \in Names \cup {None}
  BY DEF HistoryInv, SyncInv, Linked
<1>2. sh.history \in Seq(Lines)
  BY HistoryRight
<1>3. TypeOK
  <2>1. sh.names \in Names /\ {sh.queued, sh.signature, worker.namespace} \subseteq Names \cup {None}
    BY <1>1 DEF IsShell, Shells
  <2>2. sh.menu \in Seq(Lines)
    BY <1>1 DEF Shows
  <2>3. \A r \in sh.pending : r.id \in 1..sh.id
    BY <1>1 DEF Ordered
  <2>4. {r.id : r \in sh.pending} = {r.id : r \in ToSet(requests)} \cup {r.id : r \in ToSet(responses)}
    BY <1>1 DEF Ordered, ToSet
  <2> QED
    BY <1>1, <1>2, <2>1, <2>2, <2>3, <2>4 DEF TypeOK
<1>4. MenuShowsHistory
  <2>1. Truth = Distinct(Sent(sh.history))
    BY DEF Truth, Distinct
  <2> QED
    BY <1>1, <2>1 DEF MenuShowsHistory, Shows
<1> QED
  BY <1>3, <1>4 DEF HistoryIsExact

\* Whenever the menu is shown, it shows the shell's history, newest first and
\* each line once, whether the two numbers told that the index could be
\* relied on or the history was sent again (_zrush_hist_reconcile and
\* _zrush_open_history_menu): for histories of any lines and any length, and
\* every retention cap.
THEOREM HistoryIsShown == Spec => []HistoryIsExact
BY HistoryInvHolds, HistoryIsRight, PTL
=============================================================================

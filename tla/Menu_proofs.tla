------------------------------- MODULE Menu_proofs -------------------------------
(***************************************************************************)
(* Proofs about Menu: a pending move belongs to the line and the input of  *)
(* this moment, and keys wait in the queue only behind one -- for every    *)
(* set of lines, listings, window sizes and keys, and all bounds.  What a  *)
(* window shows plays no part: a plan is for one input, and that is all    *)
(* that is used of it.                                                     *)
(***************************************************************************)
EXTENDS Menu, SequenceFacts

(***************************************************************************)
(* The record of the shell.  What is listed and what is drawn may be       *)
(* anything; a plan is of an input.                                        *)
(***************************************************************************)
Fields == {"line", "seen", "gen", "inputs", "plan", "selected", "pending", "queue", "ids", "tx",
           "inserted"}

IsShell(p) ==
  /\ DOMAIN p = Fields
  /\ p.gen \in Nat /\ p.inputs \in Nat /\ p.ids \in Nat /\ p.queue \in Seq(Keys) /\ IsSeq(p.tx)
  /\ p.plan.gen \in Nat /\ p.pending.id \in Nat

(***************************************************************************)
(* The strengthened invariant.  A pending move was made in the listing of  *)
(* an input whose listing is no more to come, neither now nor later, so    *)
(* that a listing that arrives meanwhile is another one.                   *)
(***************************************************************************)
\* The line and the input are those of the move.
Moving(p) ==
  /\ p.gen > 0 => p.gen = p.inputs
  /\ p.pending.id > 0 => /\ p.pending.line = p.line /\ p.gen > 0
                         /\ p.selected > 0 \/ p.plan.gen # p.pending.from

Queued(p) == p.queue # <<>> => p.pending.id > 0

\* The listing of input g has been sent to the shell and is not on its way.
Delivered(g, in, resp) ==
  /\ g \in Nat /\ g <= in.gen /\ (g = in.gen /\ g > 0 => in.resolved)
  /\ \A i \in DOMAIN resp : resp[i].kind = "plan-ready" => g < resp[i].gen

Listed(p, in, resp) ==
  /\ Delivered(p.plan.gen, in, resp)
  /\ p.pending.id > 0 => Delivered(p.pending.from, in, resp)

\* Inputs reach the worker in order; those it has not read are newer than its own.
Ahead(p, in, rs) ==
  /\ in.gen \in Nat /\ in.gen <= p.inputs
  /\ \A i \in DOMAIN rs : rs[i].kind = "input" =>
       rs[i].gen \in Nat /\ in.gen < rs[i].gen /\ rs[i].gen <= p.inputs
  /\ \A i, j \in DOMAIN rs :
       i < j /\ rs[i].kind = "input" /\ rs[j].kind = "input" => rs[i].gen < rs[j].gen

\* An input is listed once, and its windows follow its listing.
Behind(in, resp) ==
  /\ \A i \in DOMAIN resp : resp[i].kind # "error" =>
       /\ resp[i].plan.gen = resp[i].gen /\ resp[i].gen \in Nat
       /\ resp[i].gen <= in.gen /\ (resp[i].gen = in.gen => in.resolved)
  /\ \A i, j \in DOMAIN resp :
       i < j /\ resp[i].kind # "error" /\ resp[j].kind = "plan-ready" => resp[i].gen < resp[j].gen

MenuInv ==
  /\ IsShell(ui) /\ ui.tx = <<>> /\ IsSeq(requests) /\ IsSeq(responses)
  /\ DOMAIN input = {"gen", "line", "resolved", "size"} /\ input.resolved \in BOOLEAN
  /\ Moving(ui) /\ Queued(ui) /\ Listed(ui, input, responses)
  /\ Ahead(ui, input, requests) /\ Behind(input, responses)


-----------------------------------------------------------------------------
(***************************************************************************)
(* What the operations on the record change, and what they leave.          *)
(***************************************************************************)
\* Nothing is listed, nothing is pending.
LEMMA Nothings == NoPlan.gen = 0 /\ NoPending.id = 0
BY DEF NoPlan, NoPending

\* The line was changed: no input, no pending move, no queue.
LEMMA InputInvalidateFields ==
  ASSUME NEW u, IsShell(u)
  PROVE  LET v == InputInvalidate(u)
         IN  /\ IsShell(v) /\ v.gen = 0 /\ v.pending = NoPending /\ v.queue = <<>>
             /\ v.line = u.line /\ v.inputs = u.inputs /\ v.plan = u.plan /\ v.tx = u.tx
             /\ v.ids = u.ids /\ v.selected = u.selected
<1> DEFINE v == InputInvalidate(u)
<1>1. /\ DOMAIN v = Fields /\ v.gen = 0 /\ v.pending = NoPending /\ v.queue = <<>>
      /\ v.line = u.line /\ v.inputs = u.inputs /\ v.plan = u.plan /\ v.tx = u.tx
      /\ v.ids = u.ids /\ v.selected = u.selected
  BY DEF InputInvalidate, CompletionReset, IsShell, Fields
<1>2. <<>> \in Seq(Keys) /\ 0 \in Nat
  OBVIOUS
<1> HIDE DEF v
<1>3. IsShell(v)
  BY <1>1, <1>2, Nothings DEF IsShell
<1> QED
  BY <1>1, <1>3 DEF v

\* The listing is taken down.
LEMMA TeardownFields ==
  ASSUME NEW u, IsShell(u)
  PROVE  LET v == Teardown(u)
         IN  /\ IsShell(v) /\ v.plan = NoPlan /\ v.pending = NoPending /\ v.queue = <<>>
             /\ v.line = u.line /\ v.inputs = u.inputs /\ v.gen = u.gen /\ v.tx = u.tx
             /\ v.ids = u.ids /\ v.selected = 0
<1> DEFINE v == Teardown(u)
<1>1. /\ DOMAIN v = Fields /\ v.plan = NoPlan /\ v.pending = NoPending /\ v.queue = <<>>
      /\ v.line = u.line /\ v.inputs = u.inputs /\ v.gen = u.gen /\ v.tx = u.tx
      /\ v.ids = u.ids /\ v.selected = 0
  BY DEF Teardown, CompletionReset, IsShell, Fields
<1>2. <<>> \in Seq(Keys) /\ 0 \in Nat
  OBVIOUS
<1> HIDE DEF v
<1>3. IsShell(v)
  BY <1>1, <1>2, Nothings DEF IsShell
<1> QED
  BY <1>1, <1>3 DEF v

(***************************************************************************)
(* What a key does to a state in which nothing is pending: at most a move, *)
(* of this line and input, in this listing, and a request for it.          *)
(***************************************************************************)
Asks(v, u) ==
  /\ v.pending.id > 0 /\ v.pending.line = v.line /\ v.pending.from = u.plan.gen
  /\ v.gen > 0 /\ v.selected > 0
  /\ \E f : f.kind = "completion" /\ v.tx = Append(u.tx, f)

Acts(v, u) ==
  /\ IsShell(v) /\ v.inputs = u.inputs /\ v.gen \in {0, u.gen}
  /\ v.plan.gen \in {0, u.plan.gen} /\ v.queue \in {<<>>, u.queue}
  /\ (v.pending.id = 0 /\ v.tx = u.tx) \/ Asks(v, u)

\* A move out of the window.
LEMMA ReplanActs ==
  ASSUME NEW u, IsShell(u), u.selected > 0, NEW size, NEW target
  PROVE  Acts(CompletionReplan(u, size, target), u)
<1> DEFINE v == CompletionReplan(u, size, target)
<1>1. CASE u.gen = 0
  <2>1. v = Teardown(u)
    BY <1>1 DEF CompletionReplan
  <2> HIDE DEF v
  <2>2. /\ IsShell(v) /\ v.plan.gen = 0 /\ v.pending.id = 0 /\ v.queue = <<>>
        /\ v.inputs = u.inputs /\ v.gen = u.gen /\ v.tx = u.tx
    BY <2>1, TeardownFields, Nothings
  <2> QED
    BY <2>2 DEF Acts, v
<1>2. CASE u.gen # 0
  <2> DEFINE move == [id |-> u.ids + 1, target |-> target, line |-> u.line, from |-> u.plan.gen]
             f == [kind |-> "completion", id |-> u.ids + 1, gen |-> u.gen,
                   offset |-> u.plan.offset, selected |-> target, size |-> size]
             tx == Append(u.tx, f)
  <2>1. v = [u EXCEPT !.ids = @ + 1, !.pending = move, !.tx = Append(@, f)]
    BY <1>2 DEF CompletionReplan
  <2>2. u.ids + 1 \in Nat /\ u.ids + 1 > 0
    BY DEF IsShell
  <2>3. /\ move.id = u.ids + 1 /\ move.line = u.line /\ move.from = u.plan.gen
        /\ f.kind = "completion"
    OBVIOUS
  <2> HIDE DEF move, f
  <2>4. IsSeq(tx)
    BY SeqAppend DEF IsShell
  <2>5. /\ DOMAIN v = Fields /\ v.ids = u.ids + 1 /\ v.pending = move /\ v.tx = tx
        /\ v.gen = u.gen /\ v.inputs = u.inputs /\ v.plan = u.plan /\ v.queue = u.queue
        /\ v.line = u.line /\ v.selected = u.selected
    BY <2>1 DEF IsShell, Fields
  <2> HIDE DEF v
  <2>6. IsShell(v)
    BY <2>2, <2>3, <2>4, <2>5 DEF IsShell
  <2>7. u.gen > 0
    BY <1>2 DEF IsShell
  <2>8. Asks(v, u)
    BY <2>2, <2>3, <2>5, <2>7 DEF Asks
  <2> QED
    BY <2>5, <2>6, <2>8 DEF Acts, v
<1> QED
  BY <1>1, <1>2

\* Nothing but the candidate drawn as selected is changed.
LEMMA SelectActs ==
  ASSUME NEW u, IsShell(u), u.pending.id = 0, NEW to
  PROVE  Acts([u EXCEPT !.selected = to], u)
<1> DEFINE v == [u EXCEPT !.selected = to]
<1>1. /\ DOMAIN v = Fields /\ v.gen = u.gen /\ v.inputs = u.inputs /\ v.ids = u.ids
      /\ v.queue = u.queue /\ v.tx = u.tx /\ v.plan = u.plan /\ v.pending = u.pending
  BY DEF IsShell, Fields
<1> HIDE DEF v
<1>2. IsShell(v)
  BY <1>1 DEF IsShell
<1> QED
  BY <1>1, <1>2 DEF Acts, v

\* A key that moves the selection.
LEMMA SelectDirActs ==
  ASSUME NEW u, IsShell(u), u.selected > 0, u.pending.id = 0, NEW size, NEW dir
  PROVE  Acts(SelectDir(u, size, dir), u)
<1> DEFINE to == u.plan.nav[u.selected][dir]
           v == SelectDir(u, size, dir)
<1>1. v = u \/ v = CompletionReplan(u, size, Target(u, dir)) \/ v = [u EXCEPT !.selected = to]
  BY DEF SelectDir
<1>2. Acts(u, u)
  BY DEF Acts
<1> HIDE DEF v, to
<1> QED
  BY <1>1, <1>2, ReplanActs, SelectActs DEF v

\* A key that ends the listing, whatever else it does.
LEMMA EndsActs ==
  ASSUME NEW u, IsShell(u)
  PROVE  /\ Acts(Teardown(InputInvalidate(u)), u) /\ Acts(OpenHistoryMenu(u), u)
         /\ Acts(ConfirmPos(u), u) /\ Teardown(InputInvalidate(u)).queue = <<>>
<1>1. ASSUME NEW x, IsShell(x), x.inputs = u.inputs, x.tx = u.tx
      PROVE  LET v == Teardown(InputInvalidate(x))
             IN  /\ IsShell(v) /\ v.inputs = u.inputs /\ v.gen = 0 /\ v.plan.gen = 0
                 /\ v.queue = <<>> /\ v.pending.id = 0 /\ v.tx = u.tx
  <2> DEFINE y == InputInvalidate(x)
  <2>1. IsShell(y) /\ y.gen = 0 /\ y.inputs = x.inputs /\ y.tx = x.tx
    BY <1>1, InputInvalidateFields
  <2> HIDE DEF y
  <2>2. /\ IsShell(Teardown(y)) /\ Teardown(y).plan = NoPlan /\ Teardown(y).pending = NoPending
        /\ Teardown(y).queue = <<>> /\ Teardown(y).inputs = y.inputs /\ Teardown(y).gen = y.gen
        /\ Teardown(y).tx = y.tx
    BY <2>1, TeardownFields
  <2> QED
    BY <1>1, <2>1, <2>2, Nothings DEF y
<1>2. Acts(Teardown(InputInvalidate(u)), u) /\ Teardown(InputInvalidate(u)).queue = <<>>
  BY <1>1 DEF Acts
<1>3. Acts(OpenHistoryMenu(u), u)
  <2> DEFINE v == Teardown(InputInvalidate(u))
             r == OpenHistoryMenu(u)
  <2>1. /\ IsShell(v) /\ v.inputs = u.inputs /\ v.gen = 0 /\ v.plan.gen = 0
        /\ v.queue = <<>> /\ v.pending.id = 0 /\ v.tx = u.tx
    BY <1>1
  <2>2. r = [v EXCEPT !.seen = u.line]
    BY DEF OpenHistoryMenu
  <2> HIDE DEF v
  <2>3. /\ DOMAIN r = Fields /\ r.gen = v.gen /\ r.inputs = v.inputs /\ r.ids = v.ids
        /\ r.queue = v.queue /\ r.tx = v.tx /\ r.plan = v.plan /\ r.pending = v.pending
    BY <2>1, <2>2 DEF IsShell, Fields
  <2> HIDE DEF r
  <2>4. IsShell(r)
    BY <2>1, <2>3 DEF IsShell
  <2> QED
    BY <2>1, <2>3, <2>4 DEF Acts, r
<1>4. Acts(ConfirmPos(u), u)
  <2> DEFINE line == CHOOSE l \in Lines \ {Blank} : l # u.line
             inserted == <<u.plan.line, u.plan.offset + u.selected>>
             x == [u EXCEPT !.inserted = inserted, !.line = line, !.seen = None]
  <2>1. ConfirmPos(u) = Teardown(InputInvalidate(x))
    BY DEF ConfirmPos
  <2> HIDE DEF line, inserted
  <2>2. /\ DOMAIN x = Fields /\ x.gen = u.gen /\ x.inputs = u.inputs /\ x.ids = u.ids
        /\ x.queue = u.queue /\ x.tx = u.tx /\ x.plan = u.plan /\ x.pending = u.pending
    BY DEF IsShell, Fields
  <2> HIDE DEF x
  <2>3. IsShell(x)
    BY <2>2 DEF IsShell
  <2> QED
    BY <1>1, <2>1, <2>2, <2>3 DEF Acts
<1> QED
  BY <1>2, <1>3, <1>4

\* Any key; one that dismisses acts while a move is pending, too.
LEMMA DispatchActionActs ==
  ASSUME NEW u, IsShell(u), NEW size, NEW key, u.pending.id = 0 \/ key = "dismiss"
  PROVE  LET v == DispatchAction(u, size, key)
         IN  v = u \/ (Acts(v, u) /\ (u.pending.id # 0 => v.queue = <<>>))
<1> DEFINE v == DispatchAction(u, size, key)
<1>1. CASE key = "dismiss"
  <2>1. v = u \/ v = Teardown(InputInvalidate(u))
    BY <1>1 DEF DispatchAction
  <2> HIDE DEF v
  <2> QED
    BY <2>1, EndsActs DEF v
<1>2. CASE key # "dismiss"
  <2>0. u.pending.id = 0
    BY <1>2
  <2>1. \/ v = u \/ v = [u EXCEPT !.selected = 1] \/ v = OpenHistoryMenu(u) \/ v = ConfirmPos(u)
        \/ u.selected > 0 /\ \E dir \in {"next", "prev", "left", "right"} : v = SelectDir(u, size, dir)
    BY <1>2 DEF DispatchAction
  <2> HIDE DEF v
  <2>2. CASE v = u
    BY <2>2 DEF v
  <2>3. CASE v = [u EXCEPT !.selected = 1]
    BY <2>0, <2>3, SelectActs DEF v
  <2>4. CASE v = OpenHistoryMenu(u) \/ v = ConfirmPos(u)
    BY <2>0, <2>4, EndsActs DEF v
  <2>5. CASE u.selected > 0 /\ \E dir \in {"next", "prev", "left", "right"} : v = SelectDir(u, size, dir)
    BY <2>0, <2>5, SelectDirActs DEF v
  <2> QED
    BY <2>1, <2>2, <2>3, <2>4, <2>5
<1> QED
  BY <1>1, <1>2

-----------------------------------------------------------------------------
(***************************************************************************)
(* The queued keys, one after the other.                                   *)
(***************************************************************************)
\* Nothing but requests for windows is sent.
Only(tx) == IsSeq(tx) /\ \A i \in DOMAIN tx : tx[i].kind = "completion"

\* What n of the keys queued in u have led to.
Drained(v, u, n) ==
  /\ IsShell(v) /\ v.inputs = u.inputs /\ v.gen \in {0, u.gen} /\ v.plan.gen \in {0, u.plan.gen}
  /\ Only(v.tx)
  /\ v.pending.id > 0 => /\ v.pending.line = v.line /\ v.gen > 0 /\ v.selected > 0
                         /\ v.pending.from \in {0, u.plan.gen}
  /\ v.pending.id > 0 \/ v.queue = <<>> \/ Len(v.queue) + n <= Len(u.queue)

\* What is sent stays of that kind.
LEMMA OnlyAppend ==
  ASSUME NEW tx, Only(tx), NEW f, f.kind = "completion"
  PROVE  Only(Append(tx, f))
BY AppendDomain DEF Only

\* The next key, if it is its turn.
LEMMA NextKeyDrains ==
  ASSUME NEW u, IsShell(u), NEW v, NEW n \in Nat, Drained(v, u, n), NEW size, NEW line
  PROVE  Drained(NextKey(v, size, line), u, n + 1)
<1>0. Len(u.queue) \in Nat /\ Len(v.queue) \in Nat /\ v.pending.id \in Nat /\ v.plan.gen \in Nat
  BY DEF Drained, IsShell
<1>1. CASE v.pending.id > 0 \/ v.queue = <<>>
  <2>1. NextKey(v, size, line) = v
    BY <1>1 DEF NextKey
  <2> QED
    BY <1>1, <2>1 DEF Drained
<1>2. CASE ~(v.pending.id > 0 \/ v.queue = <<>>)
  <2> DEFINE x == [v EXCEPT !.queue = Tail(@)]
             w == DispatchAction(x, size, Head(v.queue))
             z == IF w.line # line THEN InputInvalidate(w) ELSE w
  <2>1. NextKey(v, size, line) = z
    BY <1>2 DEF NextKey
  <2>2. /\ DOMAIN x = Fields /\ x.gen = v.gen /\ x.inputs = v.inputs /\ x.ids = v.ids
        /\ x.queue = Tail(v.queue) /\ x.tx = v.tx /\ x.plan = v.plan /\ x.pending = v.pending
        /\ x.selected = v.selected
    BY DEF Drained, IsShell, Fields
  <2> HIDE DEF x
  <2>3. Tail(v.queue) \in Seq(Keys) /\ Len(Tail(v.queue)) = Len(v.queue) - 1
    BY <1>2 DEF Drained, IsShell
  <2>4. IsShell(x) /\ x.pending.id = 0
    BY <1>0, <1>2, <2>2, <2>3 DEF Drained, IsShell
  <2>5. w = x \/ Acts(w, x)
    BY <2>4, DispatchActionActs
  <2> HIDE DEF w
  <2>6. /\ IsShell(w) /\ w.inputs = u.inputs /\ w.gen \in {0, u.gen} /\ w.plan.gen \in {0, u.plan.gen}
        /\ w.queue = <<>> \/ Len(w.queue) + (n + 1) <= Len(u.queue)
        /\ w.pending.id > 0 => /\ w.pending.line = w.line /\ w.gen > 0 /\ w.selected > 0
                               /\ w.pending.from \in {0, u.plan.gen}
    <3>1. /\ IsShell(w) /\ w.inputs = x.inputs /\ w.gen \in {0, x.gen}
          /\ w.plan.gen \in {0, x.plan.gen} /\ w.queue \in {<<>>, x.queue}
      BY <2>4, <2>5 DEF Acts
    <3>2. w.pending.id > 0 => /\ w.pending.line = w.line /\ w.gen > 0 /\ w.selected > 0
                              /\ w.pending.from = x.plan.gen
      BY <2>4, <2>5 DEF Acts, Asks
    <3>3. /\ v.inputs = u.inputs /\ v.gen \in {0, u.gen} /\ v.plan.gen \in {0, u.plan.gen}
          /\ v.pending.id > 0 \/ v.queue = <<>> \/ Len(v.queue) + n <= Len(u.queue)
      BY DEF Drained
    <3>4. w.queue = <<>> \/ Len(w.queue) + (n + 1) <= Len(u.queue)
      <4> DEFINE a == Len(v.queue)
                 b == Len(u.queue)
                 c == Len(w.queue)
      <4>1. a \in Nat /\ b \in Nat /\ a + n <= b
        BY <1>0, <1>2, <3>3
      <4>2. w.queue # <<>> => c = a - 1
        BY <2>2, <2>3, <3>1
      <4> HIDE DEF a, b, c
      <4>3. c = a - 1 => c + (n + 1) <= b
        BY <4>1
      <4> QED
        BY <4>2, <4>3 DEF b, c
    <3> QED
      BY <2>2, <3>1, <3>2, <3>3, <3>4
  <2>7. Only(w.tx)
    <3>1. CASE w.tx = x.tx
      BY <2>2, <3>1 DEF Drained
    <3>2. CASE \E f : f.kind = "completion" /\ w.tx = Append(x.tx, f)
      BY <2>2, <3>2, OnlyAppend DEF Drained
    <3> QED
      BY <2>5, <3>1, <3>2 DEF Acts, Asks
  <2>8. CASE w.line # line
    <3> DEFINE y == InputInvalidate(w)
    <3>1. /\ IsShell(y) /\ y.gen = 0 /\ y.pending = NoPending /\ y.queue = <<>>
          /\ y.inputs = w.inputs /\ y.plan = w.plan /\ y.tx = w.tx
      BY <2>6, InputInvalidateFields
    <3>2. z = y
      BY <2>8
    <3> HIDE DEF y, z
    <3>3. Drained(y, u, n + 1)
      BY <2>6, <2>7, <3>1, Nothings DEF Drained
    <3> QED
      BY <2>1, <3>2, <3>3
  <2>9. CASE w.line = line
    <3>1. z = w
      BY <2>9
    <3> HIDE DEF z
    <3>2. Drained(w, u, n + 1)
      BY <2>6, <2>7 DEF Drained
    <3> QED
      BY <2>1, <3>1, <3>2
  <2> QED
    BY <2>8, <2>9
<1> QED
  BY <1>1, <1>2

\* The function that CompletionDrain defines by recursion, up to n.
IsDrain(u, size, f, n) ==
  f = [k \in 0..n |-> IF k = 0 THEN u ELSE NextKey(f[k - 1], size, u.line)]

\* The recursion has a solution.
LEMMA DrainExists ==
  ASSUME NEW u, NEW size, NEW m \in Nat
  PROVE  \E f : IsDrain(u, size, f, m)
<1> DEFINE T == {n \in Nat : \E f : IsDrain(u, size, f, n)}
<1>1. 0 \in T
  <2> DEFINE f == [k \in 0..0 |-> u]
  <2>1. IsDrain(u, size, f, 0)
    BY DEF IsDrain
  <2> QED
    BY <2>1
<1>2. ASSUME NEW n \in Nat, n \in T
      PROVE  n + 1 \in T
  <2>1. PICK f : IsDrain(u, size, f, n)
    BY <1>2
  <2> DEFINE next == NextKey(f[n], size, u.line)
             g    == [k \in 0..(n + 1) |-> IF k = n + 1 THEN next ELSE f[k]]
  <2>2. \A k \in 0..n : f[k] = IF k = 0 THEN u ELSE NextKey(f[k - 1], size, u.line)
    BY <2>1 DEF IsDrain
  <2> HIDE DEF next
  <2>3. \A k \in 0..n : g[k] = f[k] /\ (k # 0 => g[k - 1] = f[k - 1])
    OBVIOUS
  <2>4. g[n + 1] = next /\ g[n] = f[n]
    OBVIOUS
  <2>5. \A k \in 0..(n + 1) : g[k] = IF k = 0 THEN u ELSE NextKey(g[k - 1], size, u.line)
    <3> SUFFICES ASSUME NEW k \in 0..(n + 1)
                 PROVE  g[k] = IF k = 0 THEN u ELSE NextKey(g[k - 1], size, u.line)
      OBVIOUS
    <3> HIDE DEF g
    <3>1. CASE k = n + 1
      <4>1. k # 0 /\ k - 1 = n
        BY <3>1
      <4> QED
        BY <2>4, <3>1, <4>1 DEF next
    <3>2. CASE k # n + 1
      <4>1. k \in 0..n
        BY <3>2
      <4> QED
        BY <2>2, <2>3, <4>1
    <3> QED
      BY <3>1, <3>2
  <2>6. g = [k \in 0..(n + 1) |-> g[k]]
    OBVIOUS
  <2> HIDE DEF g
  <2>7. IsDrain(u, size, g, n + 1)
    BY <2>5, <2>6 DEF IsDrain
  <2> QED
    BY <2>7
<1> HIDE DEF T
<1>3. \A n \in Nat : n \in T
  BY <1>1, <1>2, SetInduction
<1> QED
  BY <1>3 DEF T

\* All of them: what is left in the queue waits behind a pending move.
LEMMA DrainDrains ==
  ASSUME NEW u, IsShell(u), u.pending.id = 0, Only(u.tx), NEW size
  PROVE  LET v == CompletionDrain(u, size)
         IN  Drained(v, u, Len(u.queue)) /\ (v.queue # <<>> => v.pending.id > 0)
<1> DEFINE m == Len(u.queue)
           f == CHOOSE f : IsDrain(u, size, f, m)
<1>0. m \in Nat
  BY DEF IsShell
<1>1. CompletionDrain(u, size) = f[m]
  BY DEF CompletionDrain, IsDrain
<1> HIDE DEF m
<1>2. IsDrain(u, size, f, m)
  BY <1>0, DrainExists
<1> HIDE DEF f
<1>3. \A k \in 0..m : f[k] = IF k = 0 THEN u ELSE NextKey(f[k - 1], size, u.line)
  BY <1>0, <1>2 DEF IsDrain
<1> DEFINE T == {n \in Nat : n <= m => Drained(f[n], u, n)}
<1>4. 0 \in T
  <2>1. f[0] = u
    BY <1>0, <1>3
  <2>2. Drained(u, u, 0)
    BY <1>0 DEF Drained, m
  <2> QED
    BY <2>1, <2>2
<1>5. ASSUME NEW n \in Nat, n \in T
      PROVE  n + 1 \in T
  <2> SUFFICES ASSUME n + 1 <= m
               PROVE  Drained(f[n + 1], u, n + 1)
    OBVIOUS
  <2>1. n + 1 \in 0..m /\ n + 1 # 0 /\ (n + 1) - 1 = n /\ n <= m
    BY <1>0
  <2>2. f[n + 1] = NextKey(f[n], size, u.line)
    BY <1>3, <2>1
  <2>3. Drained(f[n], u, n)
    BY <1>5, <2>1
  <2> QED
    BY <2>2, <2>3, NextKeyDrains
<1> HIDE DEF T
<1>6. \A n \in Nat : n \in T
  BY <1>4, <1>5, SetInduction
<1>7. Drained(f[m], u, m)
  BY <1>0, <1>6 DEF T
<1>8. f[m].queue # <<>> => f[m].pending.id > 0
  <2>1. f[m].queue \in Seq(Keys)
    BY <1>7 DEF Drained, IsShell
  <2>2. Len(f[m].queue) \in Nat /\ (Len(f[m].queue) + m <= m => f[m].queue = <<>>)
    BY <1>0, <2>1
  <2> QED
    BY <1>7, <2>2 DEF Drained, m
<1> QED
  BY <1>1, <1>7, <1>8 DEF m

-----------------------------------------------------------------------------
(***************************************************************************)
(* What a step of the shell promises, and what that keeps.                 *)
(***************************************************************************)
Stepped(v, u, in, resp) ==
  /\ IsShell(v) /\ Moving(v) /\ Queued(v) /\ Listed(v, in, resp)
  /\ \/ v.inputs = u.inputs /\ Only(v.tx)
     \/ /\ v.inputs = u.inputs + 1
        /\ \E f : f.kind = "input" /\ f.gen = v.inputs /\ v.tx = Append(<<>>, f)

\* Inputs stay in order behind requests for windows.
LEMMA OnlyKeepsAhead ==
  ASSUME NEW u, u.inputs \in Nat, NEW in, NEW rs, IsSeq(rs), Ahead(u, in, rs),
         NEW v, v.inputs = u.inputs, NEW tx, Only(tx)
  PROVE  IsSeq(rs \o tx) /\ Ahead(v, in, rs \o tx)
<1> DEFINE n == Len(rs)
           q == rs \o tx
<1>1. n \in Nat /\ DOMAIN rs = 1..n /\ Len(tx) \in Nat /\ DOMAIN tx = 1..Len(tx)
  BY SeqFacts DEF Only
<1>2. /\ IsSeq(q) /\ Len(q) = n + Len(tx)
      /\ \A i \in 1..n : q[i] = rs[i]
      /\ \A i \in 1..Len(tx) : q[n + i] = tx[i]
  BY SeqConcat DEF Only
<1> HIDE DEF q
<1>3. DOMAIN q = 1..(n + Len(tx))
  BY <1>2, SeqFacts
<1>4. ASSUME NEW i \in DOMAIN q, q[i].kind = "input"
      PROVE  i \in DOMAIN rs /\ q[i] = rs[i]
  <2> SUFFICES ASSUME i \notin 1..n PROVE FALSE
    BY <1>1, <1>2
  <2>1. i - n \in 1..Len(tx) /\ n + (i - n) = i
    BY <1>1, <1>3
  <2>2. tx[i - n].kind = "completion"
    BY <1>1, <2>1 DEF Only
  <2>3. q[i] = tx[i - n]
    BY <1>2, <2>1
  <2> QED
    BY <1>4, <2>2, <2>3
<1> HIDE DEF n
<1>5. Ahead(v, in, q)
  BY <1>4 DEF Ahead
<1> QED
  BY <1>2, <1>5 DEF q

\* A new input is newer than all of them.
LEMMA InputKeepsAhead ==
  ASSUME NEW u, u.inputs \in Nat, NEW in, NEW rs, IsSeq(rs), Ahead(u, in, rs),
         NEW v, v.inputs = u.inputs + 1, NEW f, f.gen = v.inputs
  PROVE  IsSeq(rs \o Append(<<>>, f)) /\ Ahead(v, in, rs \o Append(<<>>, f))
<1> DEFINE n == Len(rs) + 1
           q == Append(rs, f)
<1>1. rs \o Append(<<>>, f) = q
  <2>1. rs \o Append(<<>>, f) = Append(rs \o <<>>, f)
    BY SeqEmpty, ConcatAppend
  <2>2. rs \o <<>> = rs
    BY SeqFacts
  <2> QED
    BY <2>1, <2>2
<1>2. /\ DOMAIN q = DOMAIN rs \cup {n} /\ IsSeq(q) /\ n \in Nat /\ q[n] = f
      /\ \A i \in DOMAIN rs : q[i] = rs[i] /\ i \in Nat /\ i < n
  BY ONLY IsSeq(rs), AppendDomain
<1> HIDE DEF q, n
<1>3. in.gen \in Nat /\ in.gen <= v.inputs /\ in.gen < v.inputs /\ v.inputs \in Nat
  BY DEF Ahead
<1>4. \A i \in DOMAIN rs : rs[i].kind = "input" =>
        rs[i].gen \in Nat /\ in.gen < rs[i].gen /\ rs[i].gen < v.inputs
  BY DEF Ahead
<1>5. \A i \in DOMAIN q : q[i].kind = "input" =>
        q[i].gen \in Nat /\ in.gen < q[i].gen /\ q[i].gen <= v.inputs
  BY <1>2, <1>3, <1>4
<1>6. ASSUME NEW i \in DOMAIN q, NEW j \in DOMAIN q, i < j, q[i].kind = "input", q[j].kind = "input"
      PROVE  q[i].gen < q[j].gen
  <2>1. i \in DOMAIN rs
    BY <1>2, <1>6
  <2>2. CASE j = n
    BY <1>2, <1>4, <1>6, <2>1, <2>2
  <2>3. CASE j # n
    BY <1>2, <1>6, <2>1, <2>3 DEF Ahead
  <2> QED
    BY <2>2, <2>3
<1>7. Ahead(v, in, q)
  BY <1>3, <1>5, <1>6 DEF Ahead
<1> QED
  BY <1>1, <1>2, <1>7

\* What was not on its way is not, once less is.
LEMMA LessIsDelivered ==
  ASSUME NEW g, NEW in, NEW resp, IsSeq(resp), resp # <<>>, Delivered(g, in, resp)
  PROVE  Delivered(g, in, Tail(resp))
BY TailDomain DEF Delivered

\* Nothing is before any listing.
LEMMA NothingIsDelivered ==
  ASSUME NEW g, NEW in, in.gen \in Nat, NEW resp, Delivered(g, in, resp), Behind(in, resp)
  PROVE  Delivered(0, in, resp)
<1>1. ASSUME NEW i \in DOMAIN resp, resp[i].kind = "plan-ready"
      PROVE  0 < resp[i].gen
  BY <1>1 DEF Delivered, Behind
<1> QED
  BY <1>1 DEF Delivered

\* What an answer lists is older than every listing behind it.
LEMMA HeadIsDelivered ==
  ASSUME NEW in, NEW resp, IsSeq(resp), resp # <<>>, Behind(in, resp), Head(resp).kind # "error"
  PROVE  /\ Delivered(Head(resp).gen, in, Tail(resp))
         /\ Head(resp).plan.gen = Head(resp).gen
<1>1. /\ IsSeq(Tail(resp)) /\ 1 \in DOMAIN resp /\ Head(resp) = resp[1]
      /\ \A i \in DOMAIN Tail(resp) :
           i \in Nat /\ i + 1 \in DOMAIN resp /\ Tail(resp)[i] = resp[i + 1] /\ 1 < i + 1
  BY TailDomain
<1>2. /\ resp[1].plan.gen = resp[1].gen /\ resp[1].gen \in Nat /\ resp[1].gen <= in.gen
      /\ resp[1].gen = in.gen => in.resolved
  BY <1>1 DEF Behind
<1>3. \A i \in DOMAIN Tail(resp) : Tail(resp)[i].kind = "plan-ready" => resp[1].gen < Tail(resp)[i].gen
  BY <1>1 DEF Behind
<1> QED
  BY <1>1, <1>2, <1>3 DEF Delivered

\* Nothing of what is behind it is out of order.
LEMMA TailIsBehind ==
  ASSUME NEW in, NEW resp, IsSeq(resp), resp # <<>>, Behind(in, resp)
  PROVE  Behind(in, Tail(resp))
<1>1. \A i \in DOMAIN Tail(resp) :
        i \in Nat /\ i + 1 \in DOMAIN resp /\ Tail(resp)[i] = resp[i + 1]
  BY TailDomain
<1>2. \A i, j \in DOMAIN Tail(resp) : i < j => i + 1 < j + 1
  BY <1>1
<1> QED
  BY <1>1, <1>2 DEF Behind

\* Frames are sent as they are queued.
LEMMA BecomeInv ==
  ASSUME MenuInv, NEW v, Become(v), UNCHANGED input, IsSeq(responses'), Behind(input, responses'),
         Stepped(v, ui, input, responses')
  PROVE  MenuInv'
<1> DEFINE u == ui
           w == ui'
           rs == requests
           resp == responses'
           in == input
<1>1. w = [v EXCEPT !.tx = <<>>] /\ requests' = rs \o v.tx /\ input' = in
  BY DEF Become
<1>2. /\ IsShell(u) /\ IsSeq(rs) /\ Ahead(u, in, rs)
      /\ DOMAIN in = {"gen", "line", "resolved", "size"} /\ in.resolved \in BOOLEAN
  BY DEF MenuInv
<1>3. IsSeq(resp) /\ Behind(in, resp) /\ Stepped(v, u, in, resp)
  OBVIOUS
<1> HIDE DEF u, w, rs, resp, in
<1>4. IsShell(v) /\ Moving(v) /\ Queued(v) /\ Listed(v, in, resp)
  BY <1>3 DEF Stepped
<1>5. /\ DOMAIN w = Fields /\ w.gen = v.gen /\ w.inputs = v.inputs /\ w.ids = v.ids
      /\ w.queue = v.queue /\ w.tx = <<>> /\ w.plan = v.plan /\ w.pending = v.pending
      /\ w.selected = v.selected /\ w.line = v.line
  BY <1>1, <1>4 DEF IsShell, Fields
<1>6. IsShell(w)
  BY <1>4, <1>5, SeqEmpty DEF IsShell
<1>7. Moving(w) /\ Queued(w) /\ Listed(w, in, resp)
  BY <1>4, <1>5 DEF Moving, Queued, Listed
<1>8. u.inputs \in Nat
  BY <1>2 DEF IsShell
<1>9. IsSeq(rs \o v.tx) /\ Ahead(w, in, rs \o v.tx)
  <2>1. CASE v.inputs = u.inputs /\ Only(v.tx)
    BY <1>2, <1>5, <1>8, <2>1, OnlyKeepsAhead
  <2>2. CASE /\ v.inputs = u.inputs + 1
             /\ \E f : f.kind = "input" /\ f.gen = v.inputs /\ v.tx = Append(<<>>, f)
    BY <1>2, <1>5, <1>8, <2>2, InputKeepsAhead
  <2> QED
    BY <1>3, <2>1, <2>2 DEF Stepped
<1> QED
  BY <1>1, <1>2, <1>3, <1>5, <1>6, <1>7, <1>9 DEF MenuInv, w, resp, in

-----------------------------------------------------------------------------
(***************************************************************************)
(* What each handler of the shell does to the strengthened invariant.      *)
(***************************************************************************)
\* The state of the shell between its steps, for the lemmas below.
Ready(u, in, resp) ==
  /\ IsShell(u) /\ u.tx = <<>> /\ Moving(u) /\ Queued(u) /\ Listed(u, in, resp)
  /\ in.gen \in Nat /\ Behind(in, resp) /\ Delivered(0, in, resp)

\* Nothing is sent.
LEMMA NoneSent == Only(<<>>)
BY SeqEmpty DEF Only

\* The line was changed, and the hook runs.
LEMMA HookSteps ==
  ASSUME NEW in, NEW resp, NEW u, Ready(u, in, resp), NEW x, DOMAIN x = Fields, x.gen = u.gen,
         x.inputs = u.inputs, x.ids = u.ids, x.queue = u.queue, x.tx = u.tx, x.plan = u.plan,
         x.pending = u.pending, NEW size, NEW sent
  PROVE  Stepped(Hook(x, size, sent), u, in, resp)
<1> DEFINE y == [x EXCEPT !.seen = x.line]
           v == InputInvalidate(y)
           w == [v EXCEPT !.selected = 0]
<1>1. /\ DOMAIN y = Fields /\ y.gen = u.gen /\ y.inputs = u.inputs /\ y.ids = u.ids
      /\ y.queue = u.queue /\ y.tx = u.tx /\ y.plan = u.plan /\ y.pending = u.pending
  BY DEF Fields
<1> DEFINE hook == Hook(x, size, sent)
<1>2. hook = IF sent \/ v.line = Blank THEN NotifyInput(v, size) ELSE w
  BY DEF Hook
<1> HIDE DEF hook, y
<1>3. IsShell(y)
  BY <1>1 DEF IsShell, Ready
<1>4. /\ IsShell(v) /\ v.gen = 0 /\ v.pending = NoPending /\ v.queue = <<>>
      /\ v.inputs = u.inputs /\ v.plan = u.plan /\ v.tx = <<>>
  BY <1>1, <1>3, InputInvalidateFields DEF Ready
<1> HIDE DEF v
<1>5. /\ DOMAIN w = Fields /\ w.gen = 0 /\ w.inputs = u.inputs /\ w.ids = v.ids /\ w.line = v.line
      /\ w.queue = <<>> /\ w.tx = <<>> /\ w.plan = u.plan /\ w.pending = NoPending
  BY <1>4 DEF IsShell, Fields
<1> DEFINE f == [kind |-> "input", gen |-> w.inputs + 1, line |-> w.line, size |-> size]
           z == [w EXCEPT !.gen = w.inputs + 1, !.inputs = @ + 1, !.tx = Append(@, f)]
<1>6. NotifyInput(v, size) = IF w.line = Blank THEN Teardown(w) ELSE z
  BY DEF NotifyInput
<1>13. f.kind = "input" /\ f.gen = w.inputs + 1
  OBVIOUS
<1> HIDE DEF w, f
<1>7. IsShell(w)
  BY <1>4, <1>5, SeqEmpty DEF IsShell
<1>8. ASSUME NEW k, IsShell(k), k.gen = 0, k.inputs = u.inputs, k.pending = NoPending,
             k.queue = <<>>, k.tx = <<>>, k.plan \in {u.plan, NoPlan}
      PROVE  Stepped(k, u, in, resp)
  <2>1. Moving(k) /\ Queued(k)
    BY <1>8, Nothings DEF Moving, Queued
  <2>2. Listed(k, in, resp)
    BY <1>8, Nothings DEF Listed, Ready
  <2> QED
    BY <1>8, <2>1, <2>2, NoneSent DEF Stepped
<1>9. CASE hook = w
  BY <1>5, <1>7, <1>8, <1>9 DEF hook
<1>10. CASE hook = Teardown(w)
  <2> DEFINE k == Teardown(w)
  <2>1. /\ IsShell(k) /\ k.plan = NoPlan /\ k.pending = NoPending /\ k.queue = <<>>
        /\ k.inputs = w.inputs /\ k.gen = w.gen /\ k.tx = w.tx
    BY <1>7, TeardownFields
  <2> HIDE DEF k
  <2>2. Stepped(k, u, in, resp)
    BY <1>5, <1>8, <2>1
  <2> QED
    BY <1>10, <2>2 DEF k, hook
<1>11. CASE hook = z
  <2>1. /\ DOMAIN z = Fields /\ z.gen = u.inputs + 1 /\ z.inputs = u.inputs + 1 /\ z.ids = w.ids
        /\ z.queue = <<>> /\ z.tx = Append(<<>>, f) /\ z.plan = u.plan /\ z.pending = NoPending
    BY <1>5 DEF Fields
  <2> HIDE DEF z
  <2>2. IsSeq(Append(<<>>, f))
    BY SeqEmpty, SeqAppend
  <2>7. u.inputs + 1 \in Nat
    BY DEF Ready, IsShell
  <2>3. IsShell(z)
    BY <1>5, <1>7, <2>1, <2>2, <2>7, Nothings DEF IsShell
  <2>4. Moving(z) /\ Queued(z)
    BY <2>1, Nothings DEF Moving, Queued
  <2>5. Listed(z, in, resp)
    BY <2>1, Nothings DEF Listed, Ready
  <2>6. Stepped(z, u, in, resp)
    BY <1>5, <1>13, <2>1, <2>3, <2>4, <2>5 DEF Stepped
  <2> QED
    BY <1>11, <2>6 DEF hook
<1> QED
  BY <1>2, <1>6, <1>9, <1>10, <1>11

\* A key that waits, or acts.
LEMMA DispatchSteps ==
  ASSUME NEW in, NEW resp, NEW u, Ready(u, in, resp), NEW size, NEW key \in Keys
  PROVE  Stepped(Dispatch(u, size, key), u, in, resp)
<1> DEFINE q == Append(u.queue, key)
           x == [u EXCEPT !.queue = Append(@, key)]
           v == DispatchAction(u, size, key)
           d == Dispatch(u, size, key)
<1>1. (Queues(u, key) /\ d = x) \/ (~Queues(u, key) /\ d = v)
  BY DEF Dispatch
<1> HIDE DEF d
<1>2. CASE Queues(u, key) /\ d = x
  <2>1. u.pending.id > 0
    BY <1>2 DEF Queues
  <2>2. q \in Seq(Keys)
    BY DEF Ready, IsShell
  <2>3. /\ DOMAIN x = Fields /\ x.gen = u.gen /\ x.inputs = u.inputs /\ x.ids = u.ids
        /\ x.queue = q /\ x.tx = u.tx /\ x.plan = u.plan /\ x.pending = u.pending
        /\ x.selected = u.selected /\ x.line = u.line
    BY DEF Ready, IsShell, Fields
  <2> HIDE DEF x, q
  <2>4. IsShell(x)
    BY <2>2, <2>3 DEF Ready, IsShell
  <2>5. Moving(x) /\ Queued(x) /\ Listed(x, in, resp)
    BY <2>1, <2>3 DEF Ready, Moving, Queued, Listed
  <2>6. Stepped(x, u, in, resp)
    BY <2>3, <2>4, <2>5, NoneSent DEF Stepped, Ready
  <2> QED
    BY <1>2, <2>6 DEF d
<1>3. CASE ~Queues(u, key) /\ d = v
  <2>0. IsShell(u) /\ u.pending.id \in Nat
    BY DEF Ready, IsShell
  <2>1. u.pending.id = 0 \/ key = "dismiss"
    BY <1>3, <2>0 DEF Queues
  <2>2. v = u \/ (Acts(v, u) /\ (u.pending.id # 0 => v.queue = <<>>))
    BY <2>0, <2>1, DispatchActionActs
  <2> HIDE DEF v
  <2>3. CASE v = u
    <3>1. Stepped(u, u, in, resp)
      BY NoneSent DEF Stepped, Ready
    <3> QED
      BY <1>3, <2>3, <3>1 DEF d
  <2>4. CASE Acts(v, u) /\ (u.pending.id # 0 => v.queue = <<>>)
    <3>1. Moving(v)
      BY <2>4 DEF Moving, Ready, Acts, Asks
    <3>2. Queued(v)
      BY <2>0, <2>4 DEF Queued, Ready, Acts, Asks
    <3>3. Listed(v, in, resp)
      <4>1. v.plan.gen \in {0, u.plan.gen} /\ (v.pending.id > 0 => v.pending.from = u.plan.gen)
        BY <2>4 DEF Acts, Asks
      <4>2. Delivered(0, in, resp) /\ Delivered(u.plan.gen, in, resp)
        BY DEF Ready, Listed
      <4> QED
        BY <4>1, <4>2 DEF Listed
    <3>4. Only(v.tx)
      <4>1. u.tx = <<>>
        BY DEF Ready
      <4> QED
        BY <2>4, <4>1, NoneSent, OnlyAppend DEF Acts, Asks
    <3>5. IsShell(v) /\ v.inputs = u.inputs
      BY <2>4 DEF Acts
    <3>6. Stepped(v, u, in, resp)
      BY <3>1, <3>2, <3>3, <3>4, <3>5 DEF Stepped
    <3> QED
      BY <1>3, <3>6 DEF d
  <2> QED
    BY <2>2, <2>3, <2>4
<1> QED
  BY <1>1, <1>2, <1>3 DEF d

\* The window a pending move asked for is drawn, and the queue is worked off.
LEMMA ApplySteps ==
  ASSUME NEW in, NEW resp, NEW u, Ready(u, in, resp), NEW size, NEW m, CompletionCurrent(u, m),
         m.plan.gen = m.gen, Delivered(m.gen, in, resp)
  PROVE  Stepped(ApplyCompletion(u, size, m), u, in, resp)
<1> DEFINE at == Least(Answered(u, m), m.plan.count)
           x == [u EXCEPT !.plan = m.plan, !.selected = at, !.pending = NoPending]
           v == CompletionDrain(x, size)
<1>1. ApplyCompletion(u, size, m) = v
  BY DEF ApplyCompletion
<1> HIDE DEF at
<1>2. /\ DOMAIN x = Fields /\ x.gen = u.gen /\ x.inputs = u.inputs /\ x.ids = u.ids
      /\ x.queue = u.queue /\ x.tx = u.tx /\ x.plan = m.plan /\ x.pending = NoPending
  BY DEF Ready, IsShell, Fields
<1>3. m.gen \in Nat
  BY DEF Delivered
<1> HIDE DEF x
<1>4. IsShell(x) /\ x.pending.id = 0 /\ Only(x.tx)
  BY <1>2, <1>3, Nothings, NoneSent DEF Ready, IsShell
<1>5. Drained(v, x, Len(x.queue)) /\ (v.queue # <<>> => v.pending.id > 0)
  BY <1>4, DrainDrains
<1> HIDE DEF v
<1>6. /\ IsShell(v) /\ v.inputs = u.inputs /\ v.gen \in {0, u.gen} /\ v.plan.gen \in {0, m.gen}
      /\ Only(v.tx)
      /\ v.pending.id > 0 => /\ v.pending.line = v.line /\ v.gen > 0 /\ v.selected > 0
                             /\ v.pending.from \in {0, m.gen}
  BY <1>2, <1>5 DEF Drained
<1>7. Moving(v) /\ Queued(v)
  BY <1>5, <1>6 DEF Ready, Moving, Queued
<1>8. Listed(v, in, resp)
  BY <1>6 DEF Ready, Listed
<1>9. Stepped(v, u, in, resp)
  BY <1>6, <1>7, <1>8 DEF Stepped
<1> QED
  BY <1>1, <1>9

\* A listing, the answer to a pending move, or one to a move that was given up.
LEMMA MessageSteps ==
  ASSUME NEW in, NEW resp, NEW u, Ready(u, in, resp), NEW size, NEW m,
         m.kind # "error" => m.plan.gen = m.gen /\ Delivered(m.gen, in, resp),
         m.kind = "plan-ready" /\ u.pending.id > 0 => u.pending.from # m.gen
  PROVE  Stepped(HandleMessage(u, size, m), u, in, resp)
<1> DEFINE x == [u EXCEPT !.plan = m.plan, !.selected = m.plan.selected]
           h == HandleMessage(u, size, m)
<1>1. \/ m.kind = "plan-ready" /\ h = x
      \/ m.kind = "ok" /\ CompletionCurrent(u, m) /\ h = ApplyCompletion(u, size, m)
      \/ h = CompletionReset(u)
      \/ h = Teardown(InputInvalidate(u))
      \/ h = u
  BY DEF HandleMessage
<1> HIDE DEF h
<1>2. CASE m.kind = "plan-ready" /\ h = x
  <2>1. /\ DOMAIN x = Fields /\ x.gen = u.gen /\ x.inputs = u.inputs /\ x.ids = u.ids
        /\ x.queue = u.queue /\ x.tx = u.tx /\ x.plan = m.plan /\ x.pending = u.pending
        /\ x.line = u.line
    BY DEF Ready, IsShell, Fields
  <2>2. m.gen \in Nat /\ m.plan.gen = m.gen /\ Delivered(m.gen, in, resp)
    BY <1>2 DEF Delivered
  <2> HIDE DEF x
  <2>3. IsShell(x)
    BY <2>1, <2>2 DEF Ready, IsShell
  <2>4. Moving(x)
    BY <1>2, <2>1, <2>2 DEF Ready, Moving
  <2>5. Queued(x) /\ Listed(x, in, resp)
    BY <2>1, <2>2 DEF Ready, Queued, Listed
  <2>6. Stepped(x, u, in, resp)
    BY <2>1, <2>3, <2>4, <2>5, NoneSent DEF Stepped, Ready
  <2> QED
    BY <1>2, <2>6 DEF h
<1>3. CASE m.kind = "ok" /\ CompletionCurrent(u, m) /\ h = ApplyCompletion(u, size, m)
  BY <1>3, ApplySteps DEF h
<1>4. ASSUME NEW k, IsShell(k), k.gen \in {0, u.gen}, k.inputs = u.inputs, k.pending = NoPending,
             k.queue = <<>>, k.tx = <<>>, k.plan \in {u.plan, NoPlan}
      PROVE  Stepped(k, u, in, resp)
  <2>1. Moving(k) /\ Queued(k)
    BY <1>4, Nothings DEF Moving, Queued, Ready
  <2>2. Listed(k, in, resp)
    BY <1>4, Nothings DEF Listed, Ready
  <2> QED
    BY <1>4, <2>1, <2>2, NoneSent DEF Stepped
<1>5. CASE h = CompletionReset(u)
  <2> DEFINE k == CompletionReset(u)
  <2>1. /\ DOMAIN k = Fields /\ k.gen = u.gen /\ k.inputs = u.inputs /\ k.ids = u.ids
        /\ k.queue = <<>> /\ k.tx = u.tx /\ k.plan = u.plan /\ k.pending = NoPending
    BY DEF Ready, IsShell, Fields, CompletionReset
  <2> HIDE DEF k
  <2>2. IsShell(k)
    BY <2>1, Nothings DEF Ready, IsShell
  <2>3. Stepped(k, u, in, resp)
    BY <1>4, <2>1, <2>2 DEF Ready
  <2> QED
    BY <1>5, <2>3 DEF h, k
<1>6. CASE h = Teardown(InputInvalidate(u))
  <2> DEFINE y == InputInvalidate(u)
             k == Teardown(y)
  <2>1. IsShell(y) /\ y.gen = 0 /\ y.inputs = u.inputs /\ y.tx = <<>>
    BY InputInvalidateFields DEF Ready
  <2> HIDE DEF y
  <2>2. /\ IsShell(k) /\ k.plan = NoPlan /\ k.pending = NoPending /\ k.queue = <<>>
        /\ k.inputs = y.inputs /\ k.gen = y.gen /\ k.tx = y.tx
    BY <2>1, TeardownFields
  <2> HIDE DEF k
  <2>3. Stepped(k, u, in, resp)
    BY <1>4, <2>1, <2>2
  <2> QED
    BY <1>6, <2>3 DEF h, k, y
<1>7. CASE h = u
  <2>1. Stepped(u, u, in, resp)
    BY NoneSent DEF Stepped, Ready
  <2> QED
    BY <1>7, <2>1 DEF h
<1> QED
  BY <1>1, <1>2, <1>3, <1>5, <1>6, <1>7

-----------------------------------------------------------------------------
(***************************************************************************)
(* The strengthened invariant holds: one lemma for each actor.             *)
(***************************************************************************)
\* A plan is for the input it was made for.
LEMMA PlanGen ==
  ASSUME NEW line, NEW gen, NEW size, NEW offset, NEW selected
  PROVE  PlanFor(line, gen, size, offset, selected).gen = gen
BY DEF PlanFor

LEMMA InitInv == Init => MenuInv
<1> SUFFICES ASSUME Init PROVE MenuInv
  OBVIOUS
<1>1. requests = <<>> /\ responses = <<>>
  BY DEF Init
<1>2. /\ DOMAIN ui = Fields /\ ui.gen = 0 /\ ui.inputs = 0 /\ ui.plan = NoPlan /\ ui.ids = 0
      /\ ui.pending = NoPending /\ ui.queue = <<>> /\ ui.tx = <<>>
  BY DEF Init, Shell0, Fields
<1>3. DOMAIN input = {"gen", "line", "resolved", "size"} /\ input.resolved = FALSE /\ input.gen = 0
  BY DEF Init, NoInput
<1>4. <<>> \in Seq(Keys) /\ 0 \in Nat
  OBVIOUS
<1>5. IsShell(ui)
  BY <1>2, <1>4, Nothings, SeqEmpty DEF IsShell
<1>6. Moving(ui) /\ Queued(ui)
  BY <1>2, Nothings DEF Moving, Queued
<1>7. Listed(ui, input, responses)
  BY <1>1, <1>2, <1>3, Nothings, SeqEmpty DEF Listed, Delivered
<1>8. Ahead(ui, input, requests) /\ Behind(input, responses)
  BY <1>1, <1>2, <1>3, SeqEmpty DEF Ahead, Behind
<1> QED
  BY <1>1, <1>2, <1>3, <1>5, <1>6, <1>7, <1>8, SeqEmpty DEF MenuInv

\* Between steps the shell is ready for the next one.
LEMMA ReadyNow ==
  ASSUME MenuInv
  PROVE  Ready(ui, input, responses)
<1>1. input.gen \in Nat /\ Delivered(ui.plan.gen, input, responses) /\ Behind(input, responses)
  BY DEF MenuInv, Ahead, Listed
<1>2. Delivered(0, input, responses)
  BY <1>1, NothingIsDelivered
<1> QED
  BY <1>1, <1>2 DEF MenuInv, Ready

\* And so it is for the message it takes.
LEMMA ReadyLess ==
  ASSUME NEW u, NEW in, NEW resp, IsSeq(resp), resp # <<>>, Ready(u, in, resp)
  PROVE  Ready(u, in, Tail(resp))
<1>1. Listed(u, in, Tail(resp)) /\ Delivered(0, in, Tail(resp))
  BY LessIsDelivered DEF Ready, Listed
<1>2. Behind(in, Tail(resp))
  BY TailIsBehind DEF Ready
<1> QED
  BY <1>1, <1>2 DEF Ready

\* The line is edited, or drawn again after a confirmation, or a key is pressed.
LEMMA ShellInv ==
  ASSUME MenuInv,
         \/ \E line \in Lines, sent \in BOOLEAN : Edit(line, sent)
         \/ \E key \in Keys : Press(key)
         \/ PreRedraw
  PROVE  MenuInv'
<1>1. Ready(ui, input, responses) /\ IsSeq(responses) /\ Behind(input, responses)
  BY ReadyNow DEF MenuInv
<1>2. responses' = responses /\ input' = input
  BY DEF Edit, Press, PreRedraw
<1>3. \E v : Become(v) /\ Stepped(v, ui, input, responses)
  <2> DEFINE u == ui
             in == input
             resp == responses
  <2>1. Ready(u, in, resp)
    BY <1>1
  <2>2. CASE \E line \in Lines, sent \in BOOLEAN : Edit(line, sent)
    <3>1. PICK line \in Lines, sent \in BOOLEAN : Edit(line, sent)
      BY <2>2
    <3> DEFINE x == [u EXCEPT !.line = line]
               v == Hook(x, window.size, sent)
    <3>2. Become(v)
      BY <3>1 DEF Edit
    <3> HIDE DEF u, in, resp
    <3>3. /\ DOMAIN x = Fields /\ x.gen = u.gen /\ x.inputs = u.inputs /\ x.ids = u.ids
          /\ x.queue = u.queue /\ x.tx = u.tx /\ x.plan = u.plan /\ x.pending = u.pending
      BY <2>1 DEF Ready, IsShell, Fields
    <3> HIDE DEF x
    <3>4. Stepped(v, u, in, resp)
      BY <2>1, <3>3, HookSteps
    <3> QED
      BY <3>2, <3>4 DEF u, in, resp
  <2>3. CASE \E key \in Keys : Press(key)
    <3>1. PICK key \in Keys : Press(key)
      BY <2>3
    <3>2. Become(Dispatch(u, window.size, key))
      BY <3>1 DEF Press
    <3> HIDE DEF u, in, resp
    <3>3. Stepped(Dispatch(u, window.size, key), u, in, resp)
      BY <2>1, DispatchSteps
    <3> QED
      BY <3>2, <3>3 DEF u, in, resp
  <2>4. CASE PreRedraw
    <3>1. Become(Hook(u, window.size, TRUE))
      BY <2>4 DEF PreRedraw
    <3> HIDE DEF u, in, resp
    <3>2. DOMAIN u = Fields
      BY <2>1 DEF Ready, IsShell
    <3>3. Stepped(Hook(u, window.size, TRUE), u, in, resp)
      BY <2>1, <3>2, HookSteps
    <3> QED
      BY <3>1, <3>3 DEF u, in, resp
  <2> QED
    BY <2>2, <2>3, <2>4
<1>4. PICK v : Become(v) /\ Stepped(v, ui, input, responses)
  BY <1>3
<1>5. IsSeq(responses') /\ Behind(input, responses') /\ Stepped(v, ui, input, responses')
  BY <1>1, <1>2, <1>4
<1> QED
  BY <1>2, <1>4, <1>5, BecomeInv

\* A message arrives.
LEMMA DeliverInv ==
  ASSUME MenuInv, Deliver
  PROVE  MenuInv'
<1> DEFINE u == ui
           in == input
           resp == responses
           m == Head(resp)
           v == HandleMessage(u, window.size, m)
<1>1. resp # <<>> /\ responses' = Tail(resp) /\ input' = in /\ Become(v)
  BY DEF Deliver
<1>2. Ready(u, in, resp) /\ IsSeq(resp)
  BY ReadyNow DEF MenuInv
<1> HIDE DEF u, in, resp, m, v
<1>3. Ready(u, in, Tail(resp)) /\ IsSeq(Tail(resp)) /\ Behind(in, Tail(resp))
  BY <1>1, <1>2, ReadyLess, SeqTail, TailIsBehind DEF Ready
<1>4. m.kind # "error" => m.plan.gen = m.gen /\ Delivered(m.gen, in, Tail(resp))
  BY <1>1, <1>2, HeadIsDelivered DEF Ready, m
<1>5. ASSUME m.kind = "plan-ready", u.pending.id > 0
      PROVE  u.pending.from # m.gen
  <2>1. 1 \in DOMAIN resp /\ m = resp[1]
    BY <1>1, <1>2, TailDomain DEF m
  <2>2. Delivered(u.pending.from, in, resp)
    BY <1>2, <1>5 DEF Ready, Listed
  <2>3. u.pending.from \in Nat /\ u.pending.from < m.gen
    BY <1>5, <2>1, <2>2 DEF Delivered
  <2>4. m.gen \in Nat
    BY <1>2, <1>5, <2>1 DEF Ready, Behind
  <2> QED
    BY <2>3, <2>4
<1>6. Stepped(v, u, in, Tail(resp))
  BY <1>3, <1>4, <1>5, MessageSteps DEF v
<1>7. IsSeq(responses') /\ Behind(input, responses') /\ Stepped(v, ui, input, responses')
  BY <1>1, <1>3, <1>6 DEF u, in
<1> QED
  BY <1>1, <1>7, BecomeInv DEF in

\* The input that is settled is listed once.
LEMMA ResolveInv ==
  ASSUME MenuInv, Resolve
  PROVE  MenuInv'
<1> DEFINE in == input
           new == input'
           resp == responses
           plan == PlanFor(input.line, input.gen, input.size, 0, 0)
           m == [kind |-> "plan-ready", gen |-> input.gen, id |-> 0, asked |-> None, plan |-> plan]
           p == ui
           rs == requests
<1>1. /\ in.gen > 0 /\ ~in.resolved /\ new = [in EXCEPT !.resolved = TRUE]
      /\ responses' = Append(resp, m) /\ ui' = p /\ requests' = rs
  BY DEF Resolve
<1>2. plan.gen = in.gen
  BY PlanGen
<1> HIDE DEF plan
<1>3. m.kind = "plan-ready" /\ m.gen = in.gen /\ m.plan.gen = in.gen
  BY <1>2
<1>4. /\ IsShell(p) /\ p.tx = <<>> /\ IsSeq(rs) /\ IsSeq(resp)
      /\ DOMAIN in = {"gen", "line", "resolved", "size"} /\ in.resolved \in BOOLEAN
      /\ Moving(p) /\ Queued(p) /\ Listed(p, in, resp) /\ Ahead(p, in, rs) /\ Behind(in, resp)
  BY DEF MenuInv
<1> HIDE DEF in, new, resp, m, p, rs
<1>5. DOMAIN new = {"gen", "line", "resolved", "size"} /\ new.resolved = TRUE /\ new.gen = in.gen
  BY <1>1, <1>4
<1>6. in.gen \in Nat
  BY <1>4 DEF Ahead
<1> DEFINE n == Len(resp) + 1
           q == Append(resp, m)
<1>7. /\ DOMAIN q = DOMAIN resp \cup {n} /\ IsSeq(q) /\ n \in Nat /\ q[n] = m
      /\ \A i \in DOMAIN resp : q[i] = resp[i] /\ i \in Nat /\ i < n
  BY <1>4, AppendDomain
<1> HIDE DEF q, n
<1>8. ASSUME NEW g, Delivered(g, in, resp)
      PROVE  Delivered(g, new, q)
  <2>1. g \in Nat /\ g < in.gen
    BY <1>1, <1>6, <1>8 DEF Delivered
  <2>2. \A i \in DOMAIN q : q[i].kind = "plan-ready" => g < q[i].gen
    BY <1>3, <1>7, <1>8, <2>1 DEF Delivered
  <2> QED
    BY <1>5, <1>6, <2>1, <2>2 DEF Delivered
<1>9. Listed(p, new, q)
  BY <1>4, <1>8 DEF Listed
<1>10. Ahead(p, new, rs)
  BY <1>4, <1>5 DEF Ahead
<1>11. Behind(new, q)
  <2>1. \A i \in DOMAIN resp : resp[i].kind # "error" =>
          /\ resp[i].plan.gen = resp[i].gen /\ resp[i].gen \in Nat /\ resp[i].gen < in.gen
    BY <1>1, <1>4, <1>6 DEF Behind
  <2>2. \A i \in DOMAIN q : q[i].kind # "error" =>
          /\ q[i].plan.gen = q[i].gen /\ q[i].gen \in Nat
          /\ q[i].gen <= new.gen /\ (q[i].gen = new.gen => new.resolved)
    BY <1>3, <1>5, <1>6, <1>7, <2>1
  <2>3. ASSUME NEW i \in DOMAIN q, NEW j \in DOMAIN q, i < j, q[i].kind # "error",
               q[j].kind = "plan-ready"
        PROVE  q[i].gen < q[j].gen
    <3>1. i \in DOMAIN resp
      BY <1>7, <2>3
    <3>2. CASE j = n
      BY <1>3, <1>7, <2>1, <2>3, <3>1, <3>2
    <3>3. CASE j # n
      BY <1>4, <1>7, <2>3, <3>1, <3>3 DEF Behind
    <3> QED
      BY <3>2, <3>3
  <2> QED
    BY <2>2, <2>3 DEF Behind
<1> QED
  BY <1>1, <1>4, <1>5, <1>7, <1>9, <1>10, <1>11 DEF MenuInv, p, rs, new, q

\* The worker takes a newer input, which it has not settled.
LEMMA AcceptInputInv ==
  ASSUME MenuInv, requests # <<>>, requests' = Tail(requests), UNCHANGED ui,
         Head(requests).kind = "input", AcceptInput(Head(requests))
  PROVE  MenuInv'
<1> DEFINE in == input
           new == input'
           resp == responses
           p == ui
           rs == requests
           m == Head(rs)
<1>1. /\ new = [gen |-> m.gen, line |-> m.line, resolved |-> FALSE, size |-> m.size]
      /\ responses' = resp /\ ui' = p /\ requests' = Tail(rs) /\ rs # <<>> /\ m.kind = "input"
  BY DEF AcceptInput
<1>2. /\ IsShell(p) /\ p.tx = <<>> /\ IsSeq(rs) /\ IsSeq(resp)
      /\ Moving(p) /\ Queued(p) /\ Listed(p, in, resp) /\ Ahead(p, in, rs) /\ Behind(in, resp)
  BY DEF MenuInv
<1> HIDE DEF in, new, resp, p, rs
<1>3. /\ IsSeq(Tail(rs)) /\ 1 \in DOMAIN rs /\ m = rs[1]
      /\ \A i \in DOMAIN Tail(rs) :
           i \in Nat /\ i + 1 \in DOMAIN rs /\ Tail(rs)[i] = rs[i + 1] /\ 1 < i + 1
  BY <1>1, <1>2, TailDomain
<1> HIDE DEF m
<1>4. DOMAIN new = {"gen", "line", "resolved", "size"} /\ new.resolved = FALSE /\ new.gen = m.gen
  BY <1>1
<1>5. in.gen \in Nat /\ m.gen \in Nat /\ in.gen < m.gen /\ m.gen <= p.inputs
  BY <1>1, <1>2, <1>3 DEF Ahead
<1>6. ASSUME NEW g, Delivered(g, in, resp)
      PROVE  Delivered(g, new, resp)
  BY <1>4, <1>5, <1>6 DEF Delivered
<1>7. Listed(p, new, resp)
  BY <1>2, <1>6 DEF Listed
<1>8. Ahead(p, new, Tail(rs))
  <2>1. \A i \in DOMAIN Tail(rs) : Tail(rs)[i].kind = "input" =>
          Tail(rs)[i].gen \in Nat /\ m.gen < Tail(rs)[i].gen /\ Tail(rs)[i].gen <= p.inputs
    BY <1>1, <1>2, <1>3 DEF Ahead
  <2>2. ASSUME NEW i \in DOMAIN Tail(rs), NEW j \in DOMAIN Tail(rs), i < j,
               Tail(rs)[i].kind = "input", Tail(rs)[j].kind = "input"
        PROVE  Tail(rs)[i].gen < Tail(rs)[j].gen
    <3>1. i + 1 < j + 1
      BY <1>3, <2>2
    <3> QED
      BY <1>2, <1>3, <2>2, <3>1 DEF Ahead
  <2> QED
    BY <1>4, <1>5, <2>1, <2>2 DEF Ahead
<1>9. Behind(new, resp)
  <2>1. \A i \in DOMAIN resp : resp[i].kind # "error" =>
          /\ resp[i].plan.gen = resp[i].gen /\ resp[i].gen \in Nat /\ resp[i].gen < new.gen
    BY <1>2, <1>4, <1>5 DEF Behind
  <2>2. \A i \in DOMAIN resp : resp[i].kind # "error" =>
          resp[i].gen <= new.gen /\ (resp[i].gen = new.gen => new.resolved)
    BY <1>4, <1>5, <2>1
  <2> QED
    BY <1>2, <2>1, <2>2 DEF Behind
<1>10. new.resolved \in BOOLEAN
  BY <1>4
<1> QED
  BY <1>1, <1>2, <1>3, <1>4, <1>7, <1>8, <1>9, <1>10 DEF MenuInv, p, rs, new, resp

\* The worker answers a request for a window: what is no listing is in no order.
LEMMA CompletionPlanInv ==
  ASSUME MenuInv, requests # <<>>, requests' = Tail(requests), UNCHANGED ui,
         Head(requests).kind = "completion", CompletionPlan(Head(requests))
  PROVE  MenuInv'
<1> DEFINE in == input
           resp == responses
           p == ui
           rs == requests
           m == Head(rs)
           found == m.gen = input.gen /\ input.resolved
           plan == PlanFor(input.line, m.gen, m.size, m.offset, m.selected)
           answer == [kind |-> IF found THEN "ok" ELSE "error", gen |-> m.gen, id |-> m.id,
                      asked |-> m, plan |-> IF found THEN plan ELSE NoPlan]
<1>1. /\ responses' = Append(resp, answer) /\ ui' = p /\ requests' = Tail(rs) /\ rs # <<>>
      /\ m.kind = "completion" /\ input' = in
  BY DEF CompletionPlan
<1>2. plan.gen = m.gen
  BY PlanGen
<1> HIDE DEF plan
<1>3. \/ answer.kind = "error"
      \/ /\ answer.kind = "ok" /\ answer.gen = in.gen /\ in.resolved /\ answer.plan.gen = answer.gen
  BY <1>2
<1>4. /\ IsShell(p) /\ p.tx = <<>> /\ IsSeq(rs) /\ IsSeq(resp)
      /\ DOMAIN in = {"gen", "line", "resolved", "size"} /\ in.resolved \in BOOLEAN
      /\ Moving(p) /\ Queued(p) /\ Listed(p, in, resp) /\ Ahead(p, in, rs) /\ Behind(in, resp)
  BY DEF MenuInv
<1> HIDE DEF in, resp, p, rs, answer, m
<1>5. in.gen \in Nat
  BY <1>4 DEF Ahead
<1> DEFINE n == Len(resp) + 1
           q == Append(resp, answer)
           t == Tail(rs)
<1>6. /\ DOMAIN q = DOMAIN resp \cup {n} /\ IsSeq(q) /\ n \in Nat /\ q[n] = answer
      /\ \A i \in DOMAIN resp : q[i] = resp[i] /\ i \in Nat /\ i < n
  BY <1>4, AppendDomain
<1>7. IsSeq(t) /\ \A i \in DOMAIN t : i \in Nat /\ i + 1 \in DOMAIN rs /\ t[i] = rs[i + 1]
  BY <1>1, <1>4, TailDomain
<1> HIDE DEF q, n, t
<1>8. ASSUME NEW g, Delivered(g, in, resp)
      PROVE  Delivered(g, in, q)
  BY <1>3, <1>6, <1>8 DEF Delivered
<1>9. Listed(p, in, q)
  BY <1>4, <1>8 DEF Listed
<1>10. Ahead(p, in, t)
  <2>1. \A i, j \in DOMAIN t : i < j => i + 1 < j + 1
    BY <1>7
  <2> QED
    BY <1>4, <1>7, <2>1 DEF Ahead
<1>11. Behind(in, q)
  <2>1. \A i \in DOMAIN q : q[i].kind # "error" =>
          /\ q[i].plan.gen = q[i].gen /\ q[i].gen \in Nat
          /\ q[i].gen <= in.gen /\ (q[i].gen = in.gen => in.resolved)
    BY <1>3, <1>4, <1>5, <1>6 DEF Behind
  <2>2. ASSUME NEW i \in DOMAIN q, NEW j \in DOMAIN q, i < j, q[i].kind # "error",
               q[j].kind = "plan-ready"
        PROVE  q[i].gen < q[j].gen
    <3>1. j \in DOMAIN resp /\ i \in DOMAIN resp
      BY <1>3, <1>6, <2>2
    <3> QED
      BY <1>4, <1>6, <2>2, <3>1 DEF Behind
  <2> QED
    BY <2>1, <2>2 DEF Behind
<1> QED
  BY <1>1, <1>4, <1>6, <1>7, <1>9, <1>10, <1>11 DEF MenuInv, p, in, t, q

\* Every step.
LEMMA NextInv == MenuInv /\ [Next]_vars => MenuInv'
<1> SUFFICES ASSUME MenuInv, [Next]_vars PROVE MenuInv'
  OBVIOUS
<1>1. CASE \/ \E line \in Lines, sent \in BOOLEAN : Edit(line, sent)
           \/ \E key \in Keys : Press(key)
           \/ PreRedraw
  BY <1>1, ShellInv
<1>2. CASE Deliver
  BY <1>2, DeliverInv
<1>3. CASE Resolve
  BY <1>3, ResolveInv
<1>4. CASE WorkerRead
  <2>1. requests # <<>> /\ requests' = Tail(requests) /\ UNCHANGED ui
    BY <1>4 DEF WorkerRead
  <2>2. \/ Head(requests).kind = "input" /\ AcceptInput(Head(requests))
        \/ Head(requests).kind = "completion" /\ CompletionPlan(Head(requests))
    BY <1>4 DEF WorkerRead
  <2> QED
    BY <2>1, <2>2, AcceptInputInv, CompletionPlanInv
<1>5. CASE UNCHANGED <<ui, requests, input, responses>>
  BY <1>5 DEF MenuInv
<1>6. ASSUME NEW size \in Windows, Resize(size)
      PROVE  UNCHANGED <<ui, requests, input, responses>>
  BY <1>6 DEF Resize
<1>7. UNCHANGED vars => UNCHANGED <<ui, requests, input, responses>>
  BY DEF vars
<1> QED
  BY <1>1, <1>2, <1>3, <1>4, <1>5, <1>6, <1>7 DEF Next

(***************************************************************************)
(* The strengthened invariant holds of every behaviour.                    *)
(***************************************************************************)
THEOREM MenuInvHolds == Spec => []MenuInv
BY InitInv, NextInv, PTL DEF Spec

(***************************************************************************)
(* A pending move belongs to the line and input of this moment, and keys   *)
(* wait only behind one: whatever order edits, keys, listings and answers  *)
(* come in (_zrush_completion_current, _zrush_completion_drain,            *)
(* _zrush_input_invalidate).                                               *)
(***************************************************************************)
THEOREM MovesAreCurrent == Spec => []PendingIsCurrent
<1>1. MenuInv => PendingIsCurrent
  BY DEF MenuInv, IsShell, Moving, Queued, PendingIsCurrent
<1> QED
  BY <1>1, MenuInvHolds, PTL
================================================================================

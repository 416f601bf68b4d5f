-------------------------------- MODULE Menu --------------------------------
(***************************************************************************)
(* Moving through a completion listing that does not fit on the screen.    *)
(* The shell holds one window of it with a navigation table; a move that   *)
(* leaves the window asks the worker for another one, and the keys pressed *)
(* until the answer comes are queued.  Meanwhile the line may be edited,   *)
(* the listing dismissed and the terminal resized.                         *)
(*                                                                         *)
(* The worker is reduced to what a `completion` request depends on: the    *)
(* current input and whether it is resolved (WorkerSession has the rest).  *)
(* A name that ends in Fault is a faulty variant of the definition after   *)
(* it and not part of the model.                                           *)
(***************************************************************************)
EXTENDS Geometry, FiniteSets

CONSTANTS
  Lines,        \* what can be typed; Blank is the empty line
  Blank,
  Listings,     \* [Lines -> sequences of groups]
  Windows,      \* the terminal's [rows, width]
  Keys,         \* keys that are pressed
  MaxInputs,    \* bound: notifications
  MaxRequests,  \* bound: requests and queued keys
  MaxResizes,   \* bound: resizes of the terminal
  None

ASSUME MenuAssumption ==
  /\ Blank \in Lines /\ Windows \subseteq [rows : Nat \ {0}, width : Nat \ {0}]
  /\ {MaxInputs, MaxRequests, MaxResizes} \subseteq Nat
  /\ Keys \subseteq {"select-next", "select-prev", "select-left", "select-right",
                     "confirm", "dismiss"}

VARIABLES ui,         \* the shell's globals
          window,     \* the terminal's size, and the resizes so far
          requests,   \* to the worker
          input,      \* the worker's current input
          responses   \* to the shell

vars == <<ui, window, requests, input, responses>>

Total(line) == FoldLeft(LAMBDA sum, g : sum + Len(g.members), 0, Listings[line])

-----------------------------------------------------------------------------
(***************************************************************************)
(* The worker's plan for a line: a window with its navigation table.       *)
(***************************************************************************)
PlanOf(line, w, placed, count) ==
  [line |-> line, offset |-> w.offset, count |-> count,
   selected |-> w.selected, rows |-> w.rows,
   nav |-> BuildNavigation(Bounds(placed), count, FALSE, w.offset + count < w.total)]

Shown(line, w, placed) == PlanOf(line, w, placed, Count(placed))

WindowIn(line, size, w) ==
  Shown(line, w, WindowGeometry(Listings[line], w.rows, size.width, MaxCols, w.offset))

WindowPlan(line, size, offset, selected) ==
  WindowIn(line, size, CompletionWindow(Listings[line], Total(line), size.rows, size.width,
                                        offset, selected))

\* All of them, for the checker to compute once.
AtMost == CHOOSE n \in {Total(l) : l \in Lines} : \A l \in Lines : Total(l) <= n
Plans == [line \in Lines, size \in Windows, offset \in 0..AtMost, selected \in 0..(AtMost + 1) |->
            WindowPlan(line, size, offset, selected)]

PlanFor(line, gen, size, offset, selected) ==
  LET plan == Plans[line, size, offset, selected]
  IN  [field \in DOMAIN plan \cup {"gen"} |-> IF field = "gen" THEN gen ELSE plan[field]]

NoInput == [gen |-> 0, line |-> None, resolved |-> FALSE, size |-> None]

-----------------------------------------------------------------------------
(***************************************************************************)
(* The shell.  `from` and `inserted` are for the properties only: the      *)
(* listing a pending move began in, and what was confirmed last.           *)
(***************************************************************************)
NoPlan == [line |-> None, gen |-> 0, offset |-> 0, count |-> 0, selected |-> 0, rows |-> 0,
           nav |-> <<>>]
NoPending == [id |-> 0, target |-> 0, line |-> None, from |-> 0]

Shell0 == [line |-> Blank, seen |-> Blank, gen |-> 0, inputs |-> 0, plan |-> NoPlan,
           selected |-> 0, pending |-> NoPending, queue |-> <<>>, ids |-> 0, tx |-> <<>>,
           inserted |-> <<>>]

CompletionReset(u) == [u EXCEPT !.pending = NoPending, !.queue = <<>>]

\* With a fault: a pending move survives a change of the line.
InputInvalidateFault(u) == [u EXCEPT !.gen = 0]

InputInvalidate(u) == [CompletionReset(u) EXCEPT !.gen = 0]

Teardown(u) == [CompletionReset(u) EXCEPT !.plan = NoPlan, !.selected = 0]

Listing(u) == u.plan.count > 0

NotifyInput(u, size) ==
  LET v == [u EXCEPT !.selected = 0]
  IN  IF v.line = Blank THEN Teardown(v)
      ELSE [v EXCEPT !.gen = v.inputs + 1, !.inputs = @ + 1,
                     !.tx = Append(@, [kind |-> "input", gen |-> v.inputs + 1,
                                       line |-> v.line, size |-> size])]

CompletionCurrent(u, m) ==
  /\ m.id = u.pending.id /\ m.gen = u.gen /\ u.gen > 0
  /\ u.line = u.pending.line

CompletionReplan(u, size, target) ==
  IF u.gen = 0 THEN Teardown(u)
  ELSE [u EXCEPT
          !.ids = @ + 1,
          !.pending = [id |-> u.ids + 1, target |-> target, line |-> u.line, from |-> u.plan.gen],
          !.tx = Append(@, [kind |-> "completion", id |-> u.ids + 1, gen |-> u.gen,
                            offset |-> u.plan.offset, selected |-> target, size |-> size])]

\* With a fault: a move out of the window is counted from the window's start.
TargetFault(u, dir) == IF dir = "next" THEN u.selected + 1 ELSE u.plan.offset + u.selected - 1

\* The candidate a move out of the window asks for.
Target(u, dir) == u.plan.offset + u.selected + (IF dir = "next" THEN 1 ELSE -1)

SelectDir(u, size, dir) ==
  LET to == u.plan.nav[u.selected][dir]
      leaves == to = 0 /\ (dir = "next" \/ (dir = "prev" /\ u.plan.offset > 0))
  IN  CASE u.selected \notin DOMAIN u.plan.nav -> u
        [] u.selected \in DOMAIN u.plan.nav /\ leaves -> CompletionReplan(u, size, Target(u, dir))
        [] OTHER -> [u EXCEPT !.selected = to]

\* The history menu replaces the listing; it is not part of this module.
OpenHistoryMenu(u) == [Teardown(InputInvalidate(u)) EXCEPT !.seen = u.line]

ConfirmPos(u) ==
  Teardown(InputInvalidate(
    [u EXCEPT !.inserted = <<u.plan.line, u.plan.offset + u.selected>>,
              !.line = CHOOSE l \in Lines \ {Blank} : l # u.line, !.seen = None]))

\* What a key does once nothing is pending; a key that does not apply goes to
\* the widget it was bound to before.
DispatchAction(u, size, key) ==
  CASE key = "select-next" /\ u.selected > 0 -> SelectDir(u, size, "next")
    [] key = "select-next" /\ u.selected = 0 -> IF Listing(u) THEN [u EXCEPT !.selected = 1] ELSE u
    [] key = "select-prev" /\ u.selected > 0 -> SelectDir(u, size, "prev")
    [] key = "select-prev" /\ u.selected = 0 -> OpenHistoryMenu(u)
    [] key = "select-left" /\ u.selected > 0 -> SelectDir(u, size, "left")
    [] key = "select-right" /\ u.selected > 0 -> SelectDir(u, size, "right")
    [] key = "confirm" /\ u.selected \in 1..u.plan.count -> ConfirmPos(u)
    [] key = "dismiss" /\ (u.selected > 0 \/ Listing(u)) -> Teardown(InputInvalidate(u))
    [] OTHER -> u

Queues(u, key) == u.pending.id > 0 /\ key # "dismiss"

Dispatch(u, size, key) ==
  IF Queues(u, key) THEN [u EXCEPT !.queue = Append(@, key)] ELSE DispatchAction(u, size, key)

\* The queued keys, until one leaves the window or changes the line.
NextKey(v, size, line) ==
  LET w == DispatchAction([v EXCEPT !.queue = Tail(@)], size, Head(v.queue))
  IN  IF v.pending.id > 0 \/ v.queue = <<>> THEN v
      ELSE IF w.line # line THEN InputInvalidate(w) ELSE w

CompletionDrain(u, size) ==
  LET drained[n \in 0..Len(u.queue)] ==
        IF n = 0 THEN u ELSE NextKey(drained[n - 1], size, u.line)
  IN  drained[Len(u.queue)]

Answered(u, m) == m.plan.selected

ApplyCompletion(u, size, m) ==
  CompletionDrain([u EXCEPT !.plan = m.plan, !.selected = Least(Answered(u, m), m.plan.count),
                            !.pending = NoPending], size)

\* With a fault: a refused move is not given up.
HandleMessageFault(u, size, m) ==
  CASE m.kind = "plan-ready" /\ m.gen = u.gen ->
         [u EXCEPT !.plan = m.plan, !.selected = m.plan.selected]
    [] m.kind = "ok" /\ CompletionCurrent(u, m) -> ApplyCompletion(u, size, m)
    [] OTHER -> u

HandleMessage(u, size, m) ==
  CASE m.kind = "plan-ready" /\ m.gen = u.gen ->
         [u EXCEPT !.plan = m.plan, !.selected = m.plan.selected]
    [] m.kind = "ok" /\ CompletionCurrent(u, m) -> ApplyCompletion(u, size, m)
    [] m.kind = "ok" /\ ~CompletionCurrent(u, m) /\ m.id = u.pending.id -> CompletionReset(u)
    [] m.kind = "error" /\ CompletionCurrent(u, m) -> Teardown(InputInvalidate(u))
    [] OTHER -> u

-----------------------------------------------------------------------------
Init ==
  /\ ui = Shell0 /\ requests = <<>> /\ responses = <<>> /\ input = NoInput
  /\ window \in [size : Windows, resizes : {0}]

\* Frames are sent as they are queued.
Become(u) == \E v \in {u} : ui' = [v EXCEPT !.tx = <<>>] /\ requests' = requests \o v.tx

\* The hook that runs before the line is drawn again, once it has changed.
\* Nothing is sent while more keys wait in the queue.
Hook(u, size, sent) ==
  LET v == InputInvalidate([u EXCEPT !.seen = u.line])
  IN  IF sent \/ v.line = Blank THEN NotifyInput(v, size) ELSE [v EXCEPT !.selected = 0]

Edit(line, sent) ==
  /\ line # ui.line /\ ui.inputs < MaxInputs
  /\ Become(Hook([ui EXCEPT !.line = line], window.size, sent))
  /\ UNCHANGED <<window, input, responses>>

\* The redraw behind a confirmation.
PreRedraw ==
  /\ ui.seen # ui.line /\ ui.inputs < MaxInputs
  /\ Become(Hook(ui, window.size, TRUE))
  /\ UNCHANGED <<window, input, responses>>

Press(key) ==
  /\ ui.ids + Len(ui.queue) < MaxRequests
  /\ Become(Dispatch(ui, window.size, key))
  /\ UNCHANGED <<window, input, responses>>

Resize(size) ==
  /\ window.resizes < MaxResizes
  /\ window' = [size |-> size, resizes |-> window.resizes + 1]
  /\ UNCHANGED <<ui, requests, input, responses>>

Deliver ==
  /\ responses # <<>>
  /\ Become(HandleMessage(ui, window.size, Head(responses)))
  /\ responses' = Tail(responses)
  /\ UNCHANGED <<window, input>>

\* The worker settles its input: held candidates, or those it asked for.
Resolve ==
  /\ input.gen > 0 /\ ~input.resolved
  /\ input' = [input EXCEPT !.resolved = TRUE]
  /\ responses' = Append(responses,
       [kind |-> "plan-ready", gen |-> input.gen, id |-> 0, asked |-> None,
        plan |-> PlanFor(input.line, input.gen, input.size, 0, 0)])
  /\ UNCHANGED <<ui, window, requests>>

AcceptInput(m) ==
  /\ input' = [gen |-> m.gen, line |-> m.line, resolved |-> FALSE, size |-> m.size]
  /\ UNCHANGED responses

\* The answer to a `completion` request; `asked` is for the properties only.
CompletionPlan(m) ==
  LET found == m.gen = input.gen /\ input.resolved
      answer == [kind |-> IF found THEN "ok" ELSE "error", gen |-> m.gen, id |-> m.id, asked |-> m,
                 plan |-> IF found THEN PlanFor(input.line, m.gen, m.size, m.offset, m.selected)
                          ELSE NoPlan]
  IN  responses' = Append(responses, answer) /\ UNCHANGED input

WorkerRead ==
  /\ requests # <<>> /\ requests' = Tail(requests)
  /\ \/ Head(requests).kind = "input" /\ AcceptInput(Head(requests))
     \/ Head(requests).kind = "completion" /\ CompletionPlan(Head(requests))
  /\ UNCHANGED <<ui, window>>

Next ==
  \/ \E line \in Lines, sent \in BOOLEAN : Edit(line, sent)
  \/ \E key \in Keys : Press(key)
  \/ \E size \in Windows : Resize(size)
  \/ PreRedraw \/ Deliver \/ Resolve \/ WorkerRead

Spec == Init /\ [][Next]_vars

Fairness == WF_vars(Deliver) /\ WF_vars(Resolve) /\ WF_vars(WorkerRead)
FairSpec == Spec /\ Fairness

-----------------------------------------------------------------------------
TypeOK ==
  /\ ui.line \in Lines /\ ui.gen \in 0..MaxInputs /\ ui.selected \in 0..ui.plan.count
  /\ input.gen <= ui.inputs

Answers == {responses[i] : i \in {i \in DOMAIN responses : responses[i].kind = "ok"}}

(***************************************************************************)
(* A pending move belongs to the line and input of this moment: whatever   *)
(* changes either gives it up, so an answer that is refused although it    *)
(* names the pending request never comes -- an error refused that way      *)
(* would leave the move pending and every later key queued.  Keys wait in  *)
(* the queue only behind a pending move (_zrush_completion_current).       *)
(***************************************************************************)
PendingIsCurrent ==
  /\ ui.queue # <<>> => ui.pending.id > 0
  /\ ui.pending.id > 0 => /\ ui.pending.line = ui.line /\ ui.gen > 0 /\ ui.gen = ui.inputs
                          /\ ui.selected > 0 \/ ui.plan.gen # ui.pending.from

(***************************************************************************)
(* A window moves as little as it takes to show the selected candidate: of *)
(* all offsets whose window shows it, the answer has the one nearest to    *)
(* the offset asked for.  A listing that fits is shown from its start.     *)
(* (build_completion; cli-protocol.md and behavior.md promise the least    *)
(* movement, and the bisection finds it only if window ends are monotone.) *)
(* What is selected is in the window the shell shows.                      *)
(***************************************************************************)
ScrollIsMinimal ==
  /\ TypeOK
  /\ \A r \in Answers :
       LET groups == Listings[r.plan.line]
           selected == Least(r.asked.selected, Total(r.plan.line))
           end(o) == WindowEnd(groups, r.plan.rows, r.asked.size.width, o)
           shows(o) == o < selected /\ selected <= end(o)
           distance(o) == Most(o - r.asked.offset, r.asked.offset - o)
           fits == ~Overflows(groups, r.asked.size.rows, r.asked.size.width, Total(r.plan.line))
       IN  selected > 0 =>
             /\ shows(r.plan.offset) /\ r.plan.selected = selected - r.plan.offset
             /\ IF fits THEN r.plan.offset = 0
                ELSE \A o \in 0..(Total(r.plan.line) - 1) :
                       shows(o) => distance(r.plan.offset) <= distance(o)

(***************************************************************************)
(* A selection no key was pressed for never appears: an answer selects     *)
(* only in the listing its move began in (behavior.md: after a change of   *)
(* the input the listing starts unselected at its first window).           *)
(***************************************************************************)
ListingStartsUnselected ==
  [][(Deliver /\ ui'.selected > 0) => ui.pending.from = ui'.plan.gen]_vars

(***************************************************************************)
(* A key pressed while a move is pending has its effect in the end: every  *)
(* pending move is answered or given up.                                   *)
(***************************************************************************)
EveryMoveEnds ==
  (ui.pending.id > 0) ~> (ui.pending.id = 0)

-----------------------------------------------------------------------------
(***************************************************************************)
(* The abstract selection.  The chosen candidate is where the queued keys  *)
(* will have led to once the pending move is answered; keys behind a       *)
(* confirmation, or behind the one that opens the history menu, are void.  *)
(***************************************************************************)
Led(c, key, total) ==
  CASE c.done -> c
    [] ~c.done /\ key = "select-next" -> [c EXCEPT !.at = Least(@ + 1, total)]
    [] ~c.done /\ key = "select-prev" -> [at |-> Minus(c.at, 1), done |-> c.at = 0]
    [] OTHER -> [c EXCEPT !.done = c.at > 0]

Drawn == IF ui.selected > 0 THEN ui.plan.offset + ui.selected ELSE 0

Intended ==
  IF ui.plan.line = None THEN 0
  ELSE LET total == Total(ui.plan.line)
           from == IF ui.pending.id > 0 THEN Least(ui.pending.target, total) ELSE Drawn
       IN  FoldLeft(LAMBDA c, key : Led(c, key, total), [at |-> from, done |-> FALSE], ui.queue).at
=============================================================================

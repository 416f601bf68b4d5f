------------------------------- MODULE MCMenu -------------------------------
(***************************************************************************)
(* Two lines with listings of several groups, for Menu: one member per row *)
(* or two, with and without a heading.  Sessions in which left and right   *)
(* are never pressed are told apart: in these a key's effect does not      *)
(* depend on what is on the screen.                                        *)
(***************************************************************************)
EXTENDS Menu

MCWindows == {[rows |-> 3, width |-> 8], [rows |-> 1, width |-> 8], [rows |-> 4, width |-> 4]}
MCOneWindow == {[rows |-> 3, width |-> 8]}

Group(key, members, width) ==
  [key |-> key, heading |-> key, members |-> [i \in 1..members |-> i], maxWidth |-> width]

MCListings ==
  [l \in Lines |-> CASE l = "a" -> <<Group(<<>>, 2, 8), Group(<<"g">>, 4, 3), Group(<<"h">>, 1, 3)>>
                     [] l = "b" -> <<Group(<<"g">>, 3, 8)>>
                     [] OTHER -> <<>>]

VARIABLE jumps   \* whether left and right are pressed in this session

Pressed == IF jumps THEN Keys ELSE Keys \ {"select-left", "select-right"}

MCInit == Init /\ jumps \in BOOLEAN
MCNext ==
  /\ UNCHANGED jumps
  /\ \/ \E line \in Lines, sent \in BOOLEAN : Edit(line, sent)
     \/ \E key \in Pressed : Press(key)
     \/ \E size \in Windows : Resize(size)
     \/ PreRedraw \/ Deliver \/ Resolve \/ WorkerRead
MCSpec == MCInit /\ [][MCNext]_<<vars, jumps>> /\ Fairness

InOrder(value, otherwise) == IF jumps THEN otherwise ELSE value

Chosen == INSTANCE Selection WITH
  Sizes <- [l \in Lines |-> Total(l)],
  Later <- "later",
  awaited <- InOrder(CASE ui.gen > ui.plan.gen -> ui.line
                       [] ui.gen < ui.plan.gen -> "later"
                       [] OTHER -> None, None),
  shown <- InOrder(ui.plan.line, None),
  chosen <- InOrder(Intended, 0),
  drawn <- InOrder(Drawn, 0),
  moving <- ~jumps /\ ui.pending.id > 0,
  inserted <- InOrder(ui.inserted, <<>>)

(***************************************************************************)
(* Windows, queues and late answers never change which candidate the keys  *)
(* lead to, what is inserted, or whether a listing is shown.               *)
(***************************************************************************)
KeysActInOrder == Chosen!Spec
=============================================================================

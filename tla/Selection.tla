----------------------------- MODULE Selection -----------------------------
(***************************************************************************)
(* What selecting in a completion listing promises (behavior.md,           *)
(* "Selection and Keybindings"), with no window and no worker: the keys    *)
(* move over all candidates one by one in the order they are pressed, a    *)
(* confirmation inserts the candidate they led to, and a listing appears   *)
(* only as the answer to the line that still awaits one.  The screen may   *)
(* lag behind the keys.                                                    *)
(***************************************************************************)
EXTENDS Integers

CONSTANTS Lines,  \* what can be typed
          Sizes,  \* [Lines -> Nat], how many candidates each line has
          Later,  \* the line has changed, but nobody has been asked yet
          None

VARIABLES awaited,   \* the line whose listing is awaited, Later or None
          shown,     \* the line whose listing is shown, or None
          chosen,    \* the candidate the keys have led to, 0 for none
          drawn,     \* the candidate the screen shows as selected
          moving,    \* whether the screen lags behind the keys
          inserted   \* the last line and candidate confirmed

selectionVars == <<awaited, shown, chosen, drawn, moving, inserted>>

Unselected == chosen' = 0 /\ drawn' = 0

Type(line) == /\ awaited' \in {line, Later} /\ Unselected
              /\ shown' \in {shown, None}
              /\ UNCHANGED inserted

Show == /\ awaited \in Lines /\ awaited' = None
        /\ shown' = awaited /\ Unselected
        /\ UNCHANGED inserted

(***************************************************************************)
(* The listing is replaced while moves over it are in progress: they go on *)
(* in the new one.                                                         *)
(***************************************************************************)
ShowWhileMoving ==
  /\ awaited \in Lines /\ awaited' = None
  /\ moving /\ moving'
  /\ shown' = awaited /\ chosen' \in 0..Sizes[awaited] /\ drawn' = 0
  /\ UNCHANGED inserted

MoveNext == /\ shown # None /\ chosen < Sizes[shown]
            /\ chosen' = chosen + 1 /\ drawn' \in {drawn, chosen'}
            /\ UNCHANGED <<awaited, shown, inserted>>

MovePrev == /\ shown # None /\ chosen > 0
            /\ chosen' = chosen - 1 /\ drawn' \in {drawn, chosen'}
            /\ UNCHANGED <<awaited, shown, inserted>>

\* A listing left from before an edit may start further down than its first
\* candidate.
StartInOldListing ==
  /\ awaited # None /\ shown # None /\ chosen = 0
  /\ chosen' \in 1..Sizes[shown] /\ drawn' = chosen'
  /\ UNCHANGED <<awaited, shown, inserted>>

CatchUp == /\ moving /\ shown # None /\ drawn' \in 0..Sizes[shown]
           /\ UNCHANGED <<awaited, shown, chosen, inserted>>

Confirm == /\ shown # None /\ chosen > 0 /\ inserted' = <<shown, chosen>>
           /\ awaited' = None /\ shown' = None /\ Unselected

Abandon == /\ shown' \in {shown, None} /\ awaited' = None /\ Unselected
           /\ UNCHANGED inserted

Init == /\ awaited = None /\ shown = None /\ inserted = <<>>
        /\ chosen = 0 /\ drawn = 0 /\ moving = FALSE

Steps == /\ \/ Show \/ MoveNext \/ MovePrev \/ StartInOldListing \/ CatchUp
            \/ Confirm \/ Abandon \/ \E line \in Lines : Type(line)
         /\ moving' \in BOOLEAN /\ (moving' \/ drawn' = chosen')

Spec == Init /\ [][Steps \/ ShowWhileMoving]_selectionVars
=============================================================================

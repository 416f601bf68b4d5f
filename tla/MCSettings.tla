----------------------------- MODULE MCSettings -----------------------------
(***************************************************************************)
(* The settings file, and the key bindings applied from it again and again *)
(* while other plugins bind the same keys: what a file means, and what     *)
(* becomes of the keys it names.                                           *)
(***************************************************************************)
EXTENDS Keybinds

VARIABLES part,        \* what is looked at: the file or the keys
          doc, about   \* the file

File == INSTANCE MCConfig

Bind(action, key) == [action |-> action, key |-> key]

\* Tab alone, another key, two actions whose keys the terminal sends alike,
\* and a key that the terminal sends like Tab.
MCConfigs == {<<>>, <<Bind("next", 2)>>, <<Bind("next", 2), Bind("prev", 2)>>, <<Bind("next", 1)>>}

MCInit == part \in {"file", "keys"} /\ Init /\ File!Init /\ (part = "keys" => about = "values")
MCNext ==
  /\ UNCHANGED part
  /\ \/ part = "file" /\ File!Next /\ UNCHANGED vars
     \/ part = "keys" /\ Next /\ UNCHANGED <<doc, about>>
MCSpec == MCInit /\ [][MCNext]_<<part, doc, about, vars>>

-----------------------------------------------------------------------------
(***************************************************************************)
(* What a file says is in effect or warned about, no key is bound to two   *)
(* actions, bindkey reads the very keys that were written, and the shell   *)
(* evaluates the very values (config.rs, keybind.rs).                      *)
(***************************************************************************)
SettingsTakeEffect ==
  /\ File!NothingIsDroppedSilently /\ File!KeysAreUnambiguous
  /\ File!SpecsAreTheKeys /\ File!ValuesSurviveQuoting

(***************************************************************************)
(* However often bindings are applied between other plugins' changes, each *)
(* chain of predecessors is whole and one layer of zrush in it acts        *)
(* (_zrush_apply_keybinds, _zrush_dispatch).                               *)
(***************************************************************************)
LayersAreTransparent == TypeOK /\ NoPredecessorIsLost /\ OneLayerActs
=============================================================================

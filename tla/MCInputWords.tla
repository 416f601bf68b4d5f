---------------------------- MODULE MCInputWords ----------------------------
(***************************************************************************)
(* Longer sessions of InputSession: within one environment, or at command  *)
(* position in several, where only the empty word is typed.  The words     *)
(* other than the empty one are interchangeable.                           *)
(***************************************************************************)
EXTENDS MCInputSession, TLC

VARIABLE scope   \* what varies in this session

WordSymmetry == Permutations(Words \ {Empty})

MCInit == Init /\ scope \in {"words", "places"}
MCNext == /\ Next /\ UNCHANGED scope
          /\ scope = "words"  => sh'.env = (CHOOSE env \in Envs : TRUE)
          /\ scope = "places" => sh'.word = Empty
MCSpec == MCInit /\ [][MCNext]_<<vars, scope>>
=============================================================================

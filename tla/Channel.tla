------------------------------ MODULE Channel ------------------------------
(***************************************************************************)
(* One direction of the byte stream between the shell and a worker session *)
(* as its users see it: what arrives is what was sent, whole, in order and *)
(* from this session only.  What has not arrived may be withdrawn, and a   *)
(* session may end with anything undelivered.                              *)
(***************************************************************************)
EXTENDS Naturals, Sequences, SequencesExt

CONSTANT Items

VARIABLES sent,   \* the items of this session, in the order they were sent
          got     \* those that arrived

channelVars == <<sent, got>>

Init == sent = <<>> /\ got = <<>>

\* Items are added behind what has arrived; some of the undelivered are dropped.
Send == /\ sent' \in Seq(Items) /\ IsPrefix(got, sent')
        /\ UNCHANGED got

Arrive == /\ IsPrefix(got, got') /\ IsPrefix(got', sent')
          /\ UNCHANGED sent

NewSession == got' = <<>> /\ sent' \in Seq(Items)

Spec == Init /\ [][Send \/ Arrive \/ NewSession]_channelVars
=============================================================================

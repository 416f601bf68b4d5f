--------------------------- MODULE MCInputSession ---------------------------
(***************************************************************************)
(* InputSession for TLC: every kind of change to the buffer, every frame.  *)
(***************************************************************************)
EXTENDS InputSession

MCChangeKinds == {"blank", "short", "keys-wait", "decorate", "send"}
MCFrames      == {"hello", "namespace-snapshot", "input", "flush", "store"}
=============================================================================

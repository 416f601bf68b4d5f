---------------------------- MODULE MCPromptSync ----------------------------
(***************************************************************************)
(* The synchronisation for TLC: four commands or changes besides the menus *)
(* and sessions, seven requests, one failure.                              *)
(***************************************************************************)
EXTENDS PromptSync
=============================================================================

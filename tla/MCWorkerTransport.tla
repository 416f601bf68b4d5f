-------------------------- MODULE MCWorkerTransport --------------------------
(***************************************************************************)
(* The transport for TLC: two sessions, a short request besides the two    *)
(* frames each session begins with, one fault.                             *)
(***************************************************************************)
EXTENDS WorkerTransport
=============================================================================

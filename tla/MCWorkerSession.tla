-------------------------- MODULE MCWorkerSession --------------------------
(***************************************************************************)
(* WorkerSession for TLC.  The history index shares nothing with the       *)
(* inputs and the candidate slots but the response stream, so it is        *)
(* explored in sessions that have neither.                                 *)
(***************************************************************************)
EXTENDS WorkerSession

MCHistoryPayloads == {<<>>} \cup {<<l>> : l \in Lines} \cup {<<l, k>> : l, k \in Lines}

MCKinds == {"hello", "namespace-snapshot", "input", "flush", "store", "completion",
            "history-snapshot", "history-append", "plan", "invalid", "malformed"}

Few == history.stamp # 0 => input = NoInput /\ \A s \in DOMAIN slots : slots[s] = EmptySlot

MCSpec == Init /\ [][Next /\ Few']_vars /\ SF_vars(SettleExpired) /\ WF_vars(Drain)
=============================================================================

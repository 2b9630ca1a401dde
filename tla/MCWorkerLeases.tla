--------------------------- MODULE MCWorkerLeases ---------------------------
(***************************************************************************)
(* WorkerLeases for TLC: one or two workers, two sessions.                 *)
(***************************************************************************)
EXTENDS WorkerLeases, TLC

CONSTANTS s1, s2, g1, g2

MCOneWorker == {1}
MCTwoWorkers == {1, 2}
MCTwo == {s1, s2}
MCOneGpu == {g1}
MCTwoGpus == {g1, g2}
MCOrdinaryFaults == {"open_fails", "finish_fails", "abort_fails", "send_fails", "worker_fails"}
MCLeakingFaults == {"vad_factory_fails", "abort_fails", "worker_fails", "close"}
Symmetry == Permutations(Sessions) \cup Permutations(Gpus)
=============================================================================

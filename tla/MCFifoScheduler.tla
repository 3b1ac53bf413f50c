--------------------------- MODULE MCFifoScheduler ---------------------------
(* FifoScheduler with three workers and three pids: no symmetry, because    *)
(* the run checks liveness.                                                 *)
EXTENDS FifoScheduler

=============================================================================

-------------------------- MODULE MCThreadedRuntime --------------------------
(***************************************************************************)
(* Instances of ThreadedRuntime for TLC.                                    *)
(***************************************************************************)
EXTENDS ThreadedRuntime, TLC

\* Worker threads run the same code.
WorkerSymmetry == Permutations(Workers)

Program(pids, toks, slices, root, child) ==
  [pids |-> pids, toks |-> toks, fuel |-> slices, root |-> root, child |-> child,
   foreign |-> FALSE, faults |-> {}]

\* Grandchildren are awaited.
Joining == Program(3, 0, 4, {"spawn", "await_result", "done"}, {"spawn", "await", "done"})
\* Two children race to be the one wait_any returns.
Racing == Program(3, 0, 3, {"spawn", "wait_any", "cancel", "done"}, {"done"})
JoinPrograms == {Joining, Racing}

\* Requests for I/O that are refused, cancelled or completed in vain.
FailingIo ==
  [Program(2, 2, 3, {"spawn", "await", "cancel", "io"}, {"fail", "io"})
     EXCEPT !.faults = {"spawn", "deliver", "io"}]
\* Every way to join, with pids that are not the caller's children.
FailingJoins ==
  [Program(2, 0, 3, {"spawn", "await_result", "wait_any", "yield", "done"},
           {"await", "wait_any", "cancel", "yield", "fail", "done"})
     EXCEPT !.foreign = TRUE, !.faults = {"spawn", "deliver"}]
FaultPrograms == {FailingIo, FailingJoins}

\* A child in an I/O request is awaited.
WaitingForIo == Program(2, 1, 3, {"spawn", "await", "done"}, {"io", "done"})
ProgressPrograms == {WaitingForIo}

\* Children that outlive the parent that does not wait for them.
Orphaning == Program(3, 0, 7, {"spawn", "done"}, {"spawn", "await", "yield", "done"})
OrphanPrograms == {Orphaning}

=============================================================================

------------------------------ MODULE IoService ------------------------------
(***************************************************************************)
(* What the IoBackend trait (hiko-vm/src/io_backend.rs) promises the        *)
(* runtimes that use it.  A token is used for one request.  An accepted     *)
(* request completes once, unless it is cancelled: a cancelled request that *)
(* was not started is dropped, one that was started still completes, late.  *)
(* A backend that is shut down drops requests and accepts no more.          *)
(***************************************************************************)
CONSTANT Tok

VARIABLES
  io,    \* token -> how far its request is
  open   \* the backend has not been shut down

Init == io = [k \in Tok |-> "new"] /\ open = TRUE

\* register_for accepts the request.
Submit(k) ==
  /\ open /\ io[k] = "new"
  /\ io' = [io EXCEPT ![k] = "running"]

\* A call with an unknown or completed token does nothing.
Cancel(k) ==
  IF io[k] = "running"
  THEN \E s \in {"gone", "late"} : io' = [io EXCEPT ![k] = s]
  ELSE UNCHANGED io

Complete(k) ==
  /\ io[k] \in {"running", "late"}
  /\ io' = [io EXCEPT ![k] = "done"]

\* poll hands over every completion.
Completed == {k \in Tok : io[k] = "done"}
Poll == io' = [k \in Tok |-> IF k \in Completed THEN "gone" ELSE io[k]]

\* Shutting down drops, in one go or in several, requests under way.
Drop ==
  /\ open' = FALSE
  /\ \E K \in SUBSET {k \in Tok : io[k] \in {"running", "late"}} :
       io' = [k \in Tok |-> IF k \in K THEN "gone" ELSE io[k]]

Next ==
  \/ Drop
  \/ /\ UNCHANGED open
     /\ Poll \/ \E k \in Tok : Submit(k) \/ Cancel(k) \/ Complete(k)

Spec == Init /\ [][Next]_<<io, open>>

=============================================================================

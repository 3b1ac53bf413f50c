----------------------------- MODULE MCIoBackend -----------------------------
(* IoBackend on a small pool.                                               *)
EXTENDS IoBackend, TLC

CONSTANTS Sleeps, Https, Files  \* tokens used for a sleep, for HTTP, for files

MCRequests ==
  [k \in Toks |-> {what \in {"sleep", "http", "file"} :
                     k \in CASE what = "sleep" -> Sleeps
                             [] what = "http" -> Https
                             [] what = "file" -> Files}]

MCSymmetry ==
  Permutations(Threads) \cup Permutations(Toks) \cup Permutations(Owners)

=============================================================================

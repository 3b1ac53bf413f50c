------------------------------ MODULE Lifecycle ------------------------------
(***************************************************************************)
(* The life of a process as programs observe it (ChildState and             *)
(* ChildRecord in hiko-vm/src/runtime_ops.rs and process.rs), without       *)
(* threads, tables or queues.  A terminated child keeps its outcome until   *)
(* its parent joins it, once; the outcomes of the children of a terminated  *)
(* process are discarded.                                                   *)
(***************************************************************************)
CONSTANTS Pid, Root

VARIABLES
  state,     \* pid -> "unborn", "live", "terminated" or "reaped"
  parent     \* pid -> parent, meaningful once born

vars == <<state, parent>>

Init ==
  /\ state = [p \in Pid |-> IF p = Root THEN "live" ELSE "unborn"]
  /\ parent = [p \in Pid |-> 0]

ParentLive(c) == c # Root /\ state[parent[c]] = "live"

Spawn(p, c) ==
  /\ state[p] = "live" /\ state[c] = "unborn"
  /\ state' = [state EXCEPT ![c] = "live"]
  /\ parent' = [parent EXCEPT ![c] = p]

\* Without a live parent nobody can observe the outcome, so it may be dropped
\* at once.
Terminate(c) ==
  /\ state[c] = "live"
  /\ \/ state' = [state EXCEPT ![c] = "terminated"]
     \/ /\ c # Root /\ ~ParentLive(c)
        /\ state' = [state EXCEPT ![c] = "reaped"]
  /\ UNCHANGED parent

\* The parent consumes the outcome.
Join(c) ==
  /\ state[c] = "terminated" /\ ParentLive(c)
  /\ state' = [state EXCEPT ![c] = "reaped"]
  /\ UNCHANGED parent

Discard(c) ==
  /\ c # Root /\ state[c] = "terminated" /\ ~ParentLive(c)
  /\ state' = [state EXCEPT ![c] = "reaped"]
  /\ UNCHANGED parent

Next ==
  \E c \in Pid :
    \/ \E p \in Pid : Spawn(p, c)
    \/ Terminate(c) \/ Join(c) \/ Discard(c)

\* A terminated parent's children do not keep their outcomes forever.
Spec == Init /\ [][Next]_vars
FairSpec == Spec /\ \A c \in Pid : WF_vars(Discard(c))

=============================================================================

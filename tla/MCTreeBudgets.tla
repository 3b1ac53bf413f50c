---------------------------- MODULE MCTreeBudgets ----------------------------
(* TreeBudgets on small trees: limits tight enough for every refusal.       *)
EXTENDS TreeBudgets, TLC

CONSTANTS MaxLive, MaxSpawns, MaxFuel, MaxMem, MaxRes, MaxKind

MCLimit ==
  [b \in {"live", "spawns", "fuel", "mem", "res"} \cup Kinds |->
     CASE b = "live" -> MaxLive [] b = "spawns" -> MaxSpawns
       [] b = "fuel" -> MaxFuel [] b = "mem" -> MaxMem
       [] b = "res" -> MaxRes [] OTHER -> MaxKind]

ProcSymmetry == Permutations(Procs \ {Root})

=============================================================================

------------------------------ MODULE MCRuntime ------------------------------
(* Runtime on small process trees.                                          *)
EXTENDS Runtime
=============================================================================

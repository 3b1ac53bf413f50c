--------------------------- MODULE MCProcessHeaps ---------------------------
EXTENDS ProcessHeaps

\* What the programs of the two processes do.
AllOps ==
  <<{"const", "closure", "rec", "rng", "tuple", "nil", "cons", "pop", "define",
     "call", "yield", "spawn"},
    {"global", "finish"}>>
=============================================================================

------------------------- MODULE MCRestartCoalescer -------------------------
(* Small instances of RestartCoalescer for TLC: the goroutines of each kind  *)
(* are interchangeable.                                                      *)
EXTENDS RestartCoalescer, TLC

Symmetry == Permutations(Triggers) \cup Permutations(Manuals)
=============================================================================

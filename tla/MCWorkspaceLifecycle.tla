------------------------ MODULE MCWorkspaceLifecycle ------------------------
(* Small instances of WorkspaceLifecycle for TLC: operator requests are      *)
(* interchangeable.                                                          *)
EXTENDS WorkspaceLifecycle, TLC

Symmetry == Permutations(Operators)
=============================================================================

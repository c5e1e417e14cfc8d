---------------------------- MODULE MCApprovalGate ----------------------------
(* A small instance of ApprovalGate for TLC. *)
EXTENDS ApprovalGate, TLC

CONSTANTS c1, c2

Symmetry == Permutations({c1, c2})
=============================================================================

---------------------------- MODULE MCDelegation ----------------------------
(* Three delegations under one key, requested by two handlers. *)
EXTENDS Delegation
=============================================================================

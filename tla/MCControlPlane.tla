---------------------------- MODULE MCControlPlane ----------------------------
(* ControlPlane for TLC: machines are numbered, requests are values.          *)
EXTENDS ControlPlane
===============================================================================

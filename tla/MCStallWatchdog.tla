--------------------------- MODULE MCStallWatchdog ---------------------------
(* A small instance of StallWatchdog for TLC. *)
EXTENDS StallWatchdog
=============================================================================

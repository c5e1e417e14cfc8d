----------------------------- MODULE MCPollInbox -----------------------------
(* A small instance of PollInbox for TLC. *)
EXTENDS PollInbox
=============================================================================

----------------------------- MODULE MCA2AQueue -----------------------------
(* Small instances of A2AQueue for TLC. *)
EXTENDS A2AQueueLease

CONSTANTS
    t1, t2,   \* two ticks of the schedule s1
    k1,       \* a request with a messageId
    u1,       \* a request without one
    s1

MCTickOf == [m \in Messages |-> IF m \in {t1, t2} THEN s1 ELSE NoKey]
=============================================================================

---------------------------- MODULE A2AQueueLease ----------------------------
(***************************************************************************)
(* The queue of a2a_queue.go implements LeaseQueue.  A row is a job: its   *)
(* status gives the job's state, and the failures charged to it are the    *)
(* job's charges.  The column attempts is not mapped: that claims          *)
(* increment it, transient retries decrement it and the cap compares it is *)
(* how the code counts charges.                                            *)
(***************************************************************************)
EXTENDS A2AQueue

StateOf(s) ==
    CASE s = "queued"     -> "waiting"
      [] s = "dispatched" -> "leased"
      [] s = "completed"  -> "done"
      [] s = "failed"     -> "spent"
      [] s = "dropped"    -> "withdrawn"

JobOf(r) == [body |-> r.msg, state |-> StateOf(r.status), charges |-> r.burned]

Lease == INSTANCE LeaseQueue WITH
    Bodies  <- Messages,
    Workers <- Drainers,
    Cap     <- MaxAttempts,
    jobs    <- [i \in Ids |-> JobOf(queue[i])],
    lease   <- item

\* Every step of the queue's statements, in any interleaving and with failed
\* updates and crashes, is a step of LeaseQueue or changes nothing of it:
\* DequeueNext leases a waiting job, the Mark... updates end the lease of the
\* drainer that runs them, and the attempt cap is exact.
ImplementsLease == Lease!Spec
=============================================================================

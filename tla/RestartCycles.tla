---------------------------- MODULE RestartCycles ----------------------------
(***************************************************************************)
(* What the rest of the platform relies on when it calls RestartByID, and  *)
(* what it may not do around it: the contract of the coalescer and of the  *)
(* restart/provision gate (workspace_restart.go), without goroutines,      *)
(* debounce, stages and rows.  A request is noted; a cycle begins on a     *)
(* noted request and uses the note up, so that a later request is noted    *)
(* for the next cycle; there is one cycle at a time; it works only with    *)
(* the gate, which it shares with the dispatchers of manual restart,       *)
(* create, resume and provider switch; and it gives the gate back.         *)
(***************************************************************************)
CONSTANTS
    Users,     \* goroutines of the other dispatchers
    Cycle,     \* the cycle, as a holder of the gate
    Free,      \* nobody
    Mortal     \* whether the process may die and come back

VARIABLES
    wanted,    \* a request is noted
    stage,     \* of the cycle: none, waiting for the gate, at work
    gate

cvars == <<wanted, stage, gate>>

\* A process may come up with the provision of a create at work.
Init ==
    /\ wanted = "no"
    /\ \/ stage = "idle" /\ gate = Free
       \/ stage = "work" /\ gate = Cycle

Note ==
    /\ wanted' = "yes"
    /\ UNCHANGED <<stage, gate>>

Begin ==
    /\ stage = "idle" /\ wanted = "yes"
    /\ stage' = "wait" /\ wanted' = "no"
    /\ UNCHANGED gate

Enter ==
    /\ stage = "wait" /\ gate = Free
    /\ stage' = "work" /\ gate' = Cycle
    /\ UNCHANGED wanted

End ==
    /\ stage = "work" /\ gate = Cycle
    /\ stage' = "idle" /\ gate' = Free
    /\ UNCHANGED wanted

UserEnters(u) ==
    /\ gate = Free /\ gate' = u
    /\ UNCHANGED <<wanted, stage>>

UserLeaves(u) ==
    /\ gate = u /\ gate' = Free
    /\ UNCHANGED <<wanted, stage>>

\* A new process: mutexes and flags are memory.
Crash == Mortal /\ wanted' = "no" /\ stage' = "idle" /\ gate' = Free

Next ==
    \/ Note \/ Begin \/ Enter \/ End
    \/ \E u \in Users : UserEnters(u) \/ UserLeaves(u)
    \/ Crash

Spec == Init /\ [][Next]_cvars
=============================================================================

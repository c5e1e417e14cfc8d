-------------------------- MODULE RestartCoalescer --------------------------
(***************************************************************************)
(* Restarts of one workspace                                               *)
(* (workspace-server/internal/handlers/workspace_restart.go): RestartByID  *)
(* with its debounce, the pending-flag loop of coalesceRestart, the cycle  *)
(* runRestartCycle, and the per-workspace gate that cycle shares with the  *)
(* dispatchers of manual restart, create and resume.                       *)
(*                                                                         *)
(* Every critical section of restartState.mu is one step; so is every      *)
(* stage of a cycle.  A configuration is the number of secret writes it    *)
(* has seen: `written` is what the database holds, `booted` what the       *)
(* newest container was started with.                                      *)
(***************************************************************************)
EXTENDS Integers, FiniteSets

CONSTANTS
    Triggers,     \* goroutines running RestartByID
    Manuals,      \* goroutines of manual restart, create and resume
    NoThread,
    MaxRequests,  \* bound: requests of all kinds
    MaxPanics     \* bound: panics inside a cycle

Threads == Triggers \cup Manuals

ASSUME RestartConstants ==
    /\ Triggers \cap Manuals = {}
    /\ NoThread \notin Threads
    /\ MaxRequests \in Nat
    /\ MaxPanics \in Nat

VARIABLES
    running, pending,  \* restartState
    stamp,      \* restartStartedAt: zero, within the debounce window, older
    gate,       \* who holds the restart/provision gate
    blocked,    \* the row or an ancestor forbids automatic restarts
    written,    \* configuration in the database
    booted,     \* configuration of the newest container
    pc,
    again,      \* `iteration > 0` of a runner
    want,       \* configuration a request is about (0: none)
    got,        \* configuration a cycle has loaded
    requests, panics,
    \* history, read by properties only
    accepted,   \* newest configuration coalesceRestart took a request for
    taken,      \* `accepted` when the running cycle consumed the flag
    excused,    \* newest configuration whose cycle was skipped or failed
    marks,      \* requests coalesceRestart took
    cycles      \* cycles started

state == <<running, pending, stamp>>
history == <<accepted, taken, excused, marks, cycles>>
vars == <<state, gate, blocked, written, booted, pc, again, want, got,
          requests, panics, history>>

InCycle   == {"select", "stop", "load", "start"}  \* the gate is held
RunnerPCs == {"top", "lock", "exit"} \cup InCycle

TypeOK ==
    /\ running \in {"yes", "no"} /\ pending \in {"yes", "no"}
    /\ stamp \in {"zero", "fresh", "old"}
    /\ gate \in Threads \cup {NoThread}
    /\ blocked \in {"yes", "no"}
    /\ written \in Nat /\ booted \in Nat
    /\ pc \in [Threads -> {"idle", "check", "mark"} \cup RunnerPCs]
    /\ \A m \in Manuals : pc[m] \in {"idle", "stop", "load", "start"}
    /\ again \in [Triggers -> {"yes", "no"}]
    /\ want \in [Triggers -> Nat]
    /\ got \in [Threads -> Nat]
    /\ requests \in Nat /\ panics \in Nat
    /\ accepted \in Nat /\ taken \in Nat /\ excused \in Nat
    /\ marks \in Nat /\ cycles \in Nat

Init ==
    /\ running = "no" /\ pending = "no" /\ stamp = "zero"
    /\ gate = NoThread
    /\ blocked = "no"
    /\ written = 0 /\ booted = 0
    /\ pc = [t \in Threads |-> "idle"]
    /\ again = [t \in Triggers |-> "no"]
    /\ want = [t \in Triggers |-> 0]
    /\ got = [t \in Threads |-> 0]
    /\ requests = 0 /\ panics = 0
    /\ accepted = 0 /\ taken = 0 /\ excused = 0 /\ marks = 0 /\ cycles = 0

Larger(a, b) == IF a > b THEN a ELSE b
Goto(t, l) == pc' = [pc EXCEPT ![t] = l]

-----------------------------------------------------------------------------
(* Requests.                                                               *)

\* A handler asks for a restart by starting `go RestartByID(...)`.
Request(t, v) ==
    /\ pc[t] = "idle" /\ requests < MaxRequests
    /\ requests' = requests + 1
    /\ want' = [want EXCEPT ![t] = v]
    /\ Goto(t, "check")

\* The secrets handler commits a write, then asks.
SetSecret(t) ==
    /\ written' = written + 1
    /\ Request(t, written + 1)
    /\ UNCHANGED <<state, gate, blocked, booted, again, got, panics, history>>

\* A probe that finds the container dead asks too, unless a cycle is running.
DeclareContainerDead(t) ==
    /\ running = "no"
    /\ Request(t, 0)
    /\ UNCHANGED <<state, gate, blocked, written, booted, again, got, panics,
                   history>>

\* A sweep that finds the workspace offline or stalled asks in any case.
OnWorkspaceOffline(t) ==
    /\ Request(t, 0)
    /\ UNCHANGED <<state, gate, blocked, written, booted, again, got, panics,
                   history>>

-----------------------------------------------------------------------------
(* RestartByID and coalesceRestart.                                        *)

\* shouldDebounceRestart: inside the window the request is dropped.
ShouldDebounceRestart(t) ==
    /\ pc[t] = "check"
    /\ Goto(t, IF stamp = "fresh" THEN "idle" ELSE "mark")
    /\ UNCHANGED <<state, gate, blocked, written, booted, again, want, got,
                   requests, panics, history>>

\* Faulty variants: a caller that finds a runner is dropped (TryLock), or the
\* flag survives the cycle it asked for.
NotesIfIdle == pending' = IF running = "yes" THEN pending ELSE "yes"
KeepsPending == UNCHANGED pending

NotesPending == pending' = "yes"
InFlight == running = "yes"
ConsumesPending == pending' = "no"

\* The request is noted; it becomes the runner unless there is one.
Mark(t) ==
    /\ pc[t] = "mark"
    /\ NotesPending
    /\ IF InFlight
       THEN /\ Goto(t, "idle")
            /\ UNCHANGED <<running, stamp, again>>
       ELSE /\ Goto(t, "top")
            /\ running' = "yes"
            /\ stamp' = "fresh"
            /\ again' = [again EXCEPT ![t] = "no"]
    /\ accepted' = Larger(accepted, want[t])
    /\ marks' = marks + 1
    /\ UNCHANGED <<gate, blocked, written, booted, want, got, requests, panics,
                   taken, excused, cycles>>

\* The head of the drain loop: consume the flag, or leave.
Top(t) ==
    /\ pc[t] = "top" /\ pending = "yes"
    /\ ConsumesPending
    /\ stamp' = IF again[t] = "yes" THEN "fresh" ELSE stamp
    /\ again' = [again EXCEPT ![t] = "yes"]
    /\ Goto(t, "lock")
    /\ taken' = accepted
    /\ cycles' = cycles + 1
    /\ UNCHANGED <<running, gate, blocked, written, booted, want, got, requests,
                   panics, accepted, excused, marks>>

Leave(t) ==
    /\ pc[t] = "top" /\ pending = "no"
    /\ Goto(t, "exit")
    /\ UNCHANGED <<state, gate, blocked, written, booted, again, want, got,
                   requests, panics, history>>

\* The deferred function: a critical section of its own.
ClearRunning(t) ==
    /\ pc[t] = "exit"
    /\ running' = "no"
    /\ Goto(t, "idle")
    /\ UNCHANGED <<pending, stamp, gate, blocked, written, booted, again, want,
                   got, requests, panics, history>>

-----------------------------------------------------------------------------
(* One cycle, and the two gated dispatchers outside the coalescer.         *)

\* Faulty variants: nobody takes the gate, or nobody gives it back.
NoGate(t) == UNCHANGED gate
EndsLocked(t) == UNCHANGED gate /\ Goto(t, IF t \in Triggers THEN "top" ELSE "idle")

\* acquireRestartProvisionGate, then gate.Lock().
TakesGate(t) == gate = NoThread /\ gate' = t

Lock(t) ==
    /\ pc[t] = "lock"
    /\ TakesGate(t)
    /\ Goto(t, "select")
    /\ UNCHANGED <<state, blocked, written, booted, again, want, got, requests,
                   panics, history>>

\* RestartWorkspaceAutoOpts, the manual restart.
RestartWorkspaceAutoOpts(m) ==
    /\ pc[m] = "idle" /\ requests < MaxRequests
    /\ requests' = requests + 1
    /\ TakesGate(m)
    /\ Goto(m, "stop")
    /\ UNCHANGED <<state, blocked, written, booted, again, want, got, panics,
                   history>>

\* provisionWorkspaceAuto, for create and resume: nothing to stop.
ProvisionWorkspaceAuto(m) ==
    /\ pc[m] = "idle" /\ requests < MaxRequests
    /\ requests' = requests + 1
    /\ TakesGate(m)
    /\ Goto(m, "load")
    /\ UNCHANGED <<state, blocked, written, booted, again, want, got, panics,
                   history>>

\* The cycle of t is over and the gate open: back to the loop, or done.
EndsCycle(t) ==
    /\ gate' = NoThread
    /\ Goto(t, IF t \in Triggers THEN "top" ELSE "idle")

\* A cycle that started no container excuses what it had consumed.
Excuse(t) == excused' = IF t \in Triggers THEN Larger(excused, taken)
                                          ELSE excused

\* The row allows a restart.
Select(t) ==
    /\ pc[t] = "select" /\ blocked = "no"
    /\ Goto(t, "stop")
    /\ UNCHANGED <<state, gate, blocked, written, booted, again, want, got,
                   requests, panics, history>>

\* Removed, paused, hibernated, external, or below a paused ancestor.
Skips(t) ==
    /\ pc[t] = "select" /\ blocked = "yes"
    /\ EndsCycle(t)
    /\ Excuse(t)
    /\ UNCHANGED <<state, blocked, written, booted, again, want, got, requests,
                   panics, accepted, taken, marks, cycles>>

\* Stop proceeds to the provision even when it fails.
Stop(t) ==
    /\ pc[t] = "stop"
    /\ Goto(t, "load")
    /\ UNCHANGED <<state, gate, blocked, written, booted, again, want, got,
                   requests, panics, history>>

\* prepareProvisionContext reads the secrets.
Load(t) ==
    /\ pc[t] = "load"
    /\ got' = [got EXCEPT ![t] = written]
    /\ Goto(t, "start")
    /\ UNCHANGED <<state, gate, blocked, written, booted, again, want, requests,
                   panics, history>>

Start(t) ==
    /\ pc[t] = "start"
    /\ booted' = got[t]
    /\ EndsCycle(t)
    /\ UNCHANGED <<state, blocked, written, again, want, got, requests, panics,
                   history>>

\* The preparation aborts, or the start fails, or either panics: the provision
\* recovers by itself and marks the workspace failed.
ProvisionFails(t) ==
    /\ pc[t] \in {"load", "start"}
    /\ EndsCycle(t)
    /\ Excuse(t)
    /\ UNCHANGED <<state, blocked, written, booted, again, want, got, requests,
                   panics, accepted, taken, marks, cycles>>

\* A panic elsewhere in the cycle leaves the loop; `pending` stays.
Panic(t) ==
    /\ t \in Triggers /\ pc[t] \in {"select", "stop"}
    /\ panics < MaxPanics
    /\ panics' = panics + 1
    /\ gate' = NoThread
    /\ Goto(t, "exit")
    /\ Excuse(t)
    /\ UNCHANGED <<state, blocked, written, booted, again, want, got, requests,
                   accepted, taken, marks, cycles>>

-----------------------------------------------------------------------------
\* RestartDebounceWindow has passed since the last cycle started.
StampAges ==
    /\ stamp = "fresh" /\ stamp' = "old"
    /\ UNCHANGED <<running, pending, gate, blocked, written, booted, pc, again,
                   want, got, requests, panics, history>>

\* Pause, hibernate, resume or removal of the workspace or an ancestor.
BlockFlips ==
    /\ blocked' = IF blocked = "yes" THEN "no" ELSE "yes"
    /\ UNCHANGED <<state, gate, written, booted, pc, again, want, got, requests,
                   panics, history>>

Asks(t) == SetSecret(t) \/ DeclareContainerDead(t) \/ OnWorkspaceOffline(t)
Coalesce(t) == \/ ShouldDebounceRestart(t) \/ Mark(t) \/ Top(t) \/ Leave(t)
               \/ ClearRunning(t) \/ Lock(t) \/ Select(t) \/ Skips(t)
Provision(t) == Stop(t) \/ Load(t) \/ Start(t) \/ ProvisionFails(t)

Next ==
    \/ \E t \in Triggers : Asks(t) \/ Coalesce(t) \/ Panic(t)
    \/ \E m \in Manuals : RestartWorkspaceAutoOpts(m) \/ ProvisionWorkspaceAuto(m)
    \/ \E t \in Threads : Provision(t)
    \/ StampAges
    \/ BlockFlips

Spec == Init /\ [][Next]_vars

\* Goroutines make progress, a waiter gets the mutex it keeps asking for.
Fairness == /\ \A t \in Triggers : WF_vars(Coalesce(t)) /\ SF_vars(Lock(t))
            /\ \A t \in Threads : WF_vars(Provision(t))
LiveSpec == Spec /\ Fairness

-----------------------------------------------------------------------------
(* Properties.                                                             *)

\* `running` is set exactly while one goroutine is between coalesceRestart's
\* first critical section and its deferred one, panics included.
OneRunner ==
    /\ \A t, u \in Triggers : pc[t] \in RunnerPCs /\ pc[u] \in RunnerPCs => t = u
    /\ running = "yes" <=> \E t \in Triggers : pc[t] \in RunnerPCs

\* The gate is held exactly while some Stop+Start is in progress, and by the
\* goroutine in it: no two provisioner.Start calls overlap, whichever mix of
\* RestartByID, manual restart, create and resume runs.
GateGuardsProvision ==
    \A t \in Threads : pc[t] \in InCycle <=> gate = t

Covered(v) == v <= booted \/ v <= excused

\* A write whose request coalesceRestart took is in the newest container, or
\* its cycle was refused or failed, or the flag is set, or the runner has yet
\* to load the secrets (or has loaded them and starts the container).
AcceptedCovered ==
    \/ Covered(accepted)
    \/ pending = "yes"
    \/ \E t \in Triggers : \/ pc[t] \in {"lock", "select", "stop", "load"}
                           \/ pc[t] = "start" /\ got[t] >= accepted

\* Every cycle was asked for: N requests never cause more than N cycles, and
\* a flag still set is worth one of them.
CyclesEarned == cycles + (IF pending = "yes" THEN 1 ELSE 0) <= marks

\* A container is never replaced by one with older secrets, although manual
\* and automatic restarts load and start on their own.
BootNeverRegresses == [][booted' >= booted]_vars

\* A runner finishes once requests stop: skipped, failed and panicking cycles
\* give the gate back and clear `running`, so the next request is not locked
\* out.
RunnerEnds == (running = "yes") ~> (running = "no")

\* One cycle for all triggers; between cycles the runner is at the head of its
\* loop or on its way out.
Cycles == INSTANCE RestartCycles WITH
    Users  <- Manuals, Cycle <- "cycle", Free <- NoThread, Mortal <- FALSE,
    wanted <- pending,
    stage  <- IF \E t \in Triggers : pc[t] = "lock" THEN "wait"
              ELSE IF \E t \in Triggers : pc[t] \in InCycle THEN "work"
              ELSE "idle",
    gate   <- IF gate \in Triggers THEN "cycle" ELSE gate

\* Any number of goroutines in RestartByID behave as one cycle with one note:
\* the flag is used up exactly when a cycle begins, a cycle begins only after
\* the one before has ended, works with the gate and gives it back, panics,
\* skips and failures included.
ImplementsCycles == Cycles!Spec

\* coalesceRestart: "If one is already running, return - that runner will see
\* pending=true on its next loop iteration ... NOT dropped."
PendingHasRunner == pending = "yes" => running = "yes"

\* RestartByID: "writes that committed mid-restart are guaranteed to land".
FinalSeesLatest ==
    (\A t \in Threads : pc[t] = "idle") => Covered(written)
=============================================================================

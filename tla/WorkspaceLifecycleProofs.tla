---------------------- MODULE WorkspaceLifecycleProofs ----------------------
(***************************************************************************)
(* WorkspaceLifecycle, for any number of operator requests, messages and   *)
(* failures: the types, who can bring a removed row back, and that the     *)
(* cycle and the dispatchers keep the contract of RestartCycles.  Then,    *)
(* for the workspaces on the control plane, which machines can get lost,   *)
(* and the same contract.                                                  *)
(***************************************************************************)
EXTENDS WorkspaceLifecycle, ControlPlane, WellFoundedInduction, TLAPS

\* While the row is removed, every request and cycle that is past its check
\* of the status was in flight when the row was removed.
InFlightRecorded ==
    status = "removed" =>
        /\ \A o \in Operators : pc[o] \notin {"idle", "delete"} => o \in stale
        /\ auto \in {"stop", "mark", "start"} => "auto" \in stale

Inv == TypeOK /\ InFlightRecorded

\* Create leaves the row typed, in provisioning, with nothing removed.
LEMMA InitInv == Init => Inv
<1> SUFFICES ASSUME Init PROVE Inv
  OBVIOUS
<1>1. TypeOK
  <2>1. PICK c \in Operators :
          pc = [o \in Operators |-> IF o = c THEN "provision" ELSE "idle"]
    BY DEF Init
  <2> QED
    BY <2>1, LifecycleConstants DEF Init, TypeOK, Statuses, Switch
<1>2. InFlightRecorded
  BY DEF Init, InFlightRecorded
<1> QED
  BY <1>1, <1>2 DEF Inv

\* Every step of an operator request keeps the types.
LEMMA OperatorTypes ==
    ASSUME TypeOK, NEW o \in Operators, Operate(o) PROVE TypeOK'
<1> USE DEF TypeOK, Statuses, Switch, Goto, Begin, Fails, StopContainer,
            ClearWorkspaceKeys, MarkStopped, redis, row, box, cycle, agent,
            probes, bounds
<1>1. CASE Delete(o)
  BY <1>1 DEF Delete
<1>2. CASE DeleteStop(o)
  BY <1>2 DEF DeleteStop
<1>3. CASE HibernateClaim(o)
  BY <1>3 DEF HibernateClaim
<1>4. CASE HibernateStop(o)
  BY <1>4 DEF HibernateStop
<1>5. CASE HibernateMark(o)
  BY <1>5 DEF HibernateMark
<1>6. CASE Pause(o)
  BY <1>6 DEF Pause
<1>7. CASE PauseStop(o)
  BY <1>7 DEF PauseStop
<1>8. CASE PauseMark(o)
  BY <1>8 DEF PauseMark
<1>9. CASE Resume(o)
  BY <1>9 DEF Resume
<1>10. CASE ResumeMark(o)
  BY <1>10 DEF ResumeMark
<1>11. CASE Restart(o)
  BY <1>11 DEF Restart
<1>12. CASE RestartMark(o)
  BY <1>12 DEF RestartMark
<1>13. CASE OperatorLock(o)
  BY <1>13 DEF OperatorLock
<1>14. CASE OperatorStop(o)
  BY <1>14 DEF OperatorStop
<1>15. CASE OperatorStart(o)
  BY <1>15 DEF OperatorStart, Provision
<1> QED
  BY <1>1, <1>2, <1>3, <1>4, <1>5, <1>6, <1>7, <1>8, <1>9, <1>10, <1>11,
     <1>12, <1>13, <1>14, <1>15 DEF Operate

\* So do the restart cycle and the agent's requests.
LEMMA CycleTypes == ASSUME TypeOK, RunRestartCycle PROVE TypeOK'
<1> USE DEF TypeOK, Statuses, Switch, Fails, StopContainer, redis, row, box,
            agent, probes, bounds
<1>1. CASE AutoBegin
  BY <1>1 DEF AutoBegin
<1>2. CASE AutoLock
  BY <1>2 DEF AutoLock
<1>3. CASE AutoSelect
  BY <1>3 DEF AutoSelect
<1>4. CASE AutoStop
  BY <1>4 DEF AutoStop
<1>5. CASE AutoMark
  BY <1>5 DEF AutoMark
<1>6. CASE AutoStart
  BY <1>6 DEF AutoStart, Provision
<1> QED
  BY <1>1, <1>2, <1>3, <1>4, <1>5, <1>6 DEF RunRestartCycle

\* Heartbeats and registrations write known statuses only.
LEMMA AgentTypes == ASSUME TypeOK, AgentRequests PROVE TypeOK'
<1> USE DEF TypeOK, Statuses, Switch, redis, row, box, cycle, probes, bounds
<1>1. CASE AgentSends
  BY <1>1 DEF AgentSends
<1>2. CASE Register
  BY <1>2 DEF Register, Answered
<1>3. CASE Heartbeat
  BY <1>3 DEF Heartbeat
<1>4. CASE EvaluateStatusRead
  BY <1>4 DEF EvaluateStatusRead
<1>5. CASE EvaluateStatusWrite
  BY <1>5 DEF EvaluateStatusWrite, Evaluated, Answered
<1> QED
  BY <1>1, <1>2, <1>3, <1>4, <1>5 DEF AgentRequests

\* The sweeps, the two timers and what happens to the container.
LEMMA SweepTypes ==
    ASSUME TypeOK,
           \/ HealthSweep \/ LivenessExpired \/ SweepStuckProvisioning
           \/ SweepOrphans \/ CacheExpires \/ ContainerDies \/ FinishesTask
    PROVE  TypeOK'
<1> USE DEF TypeOK, Statuses, Switch, Fails, StopContainer, ClearWorkspaceKeys,
            redis, row, box, cycle, agent, probes, bounds
<1>1. CASE HealthSweep
  BY <1>1 DEF HealthSweep, HealthSelect, HealthProbe, HealthFlip, MarkOffline
<1>2. CASE LivenessExpired
  BY <1>2 DEF LivenessExpired
<1>3. CASE SweepStuckProvisioning
  BY <1>3 DEF SweepStuckProvisioning
<1>4. CASE SweepOrphans
  BY <1>4 DEF SweepOrphans, OrphanSelect, OrphanStop
<1>5. CASE CacheExpires
  BY <1>5 DEF CacheExpires
<1>6. CASE ContainerDies
  BY <1>6 DEF ContainerDies
<1>7. CASE FinishesTask
  BY <1>7 DEF FinishesTask
<1> QED
  BY <1>1, <1>2, <1>3, <1>4, <1>5, <1>6, <1>7

\* And a proxied message.
LEMMA MessageTypes ==
    ASSUME TypeOK, NEW s \in Senders, ProxyMessage(s) PROVE TypeOK'
<1> USE DEF TypeOK, Statuses, Switch, Onward, redis, row, box, cycle, agent,
            probes, bounds
<1>1. CASE ProxyWakes(s)
  BY <1>1 DEF ProxyWakes
<1>2. CASE ProxyResolve(s)
  BY <1>2 DEF ProxyResolve
<1>3. CASE ProxyProbe(s)
  BY <1>3 DEF ProxyProbe
<1>4. CASE ProxyForward(s)
  BY <1>4 DEF ProxyForward
<1>5. CASE ProxyFlip(s)
  BY <1>5 DEF ProxyFlip, MarkOffline, ClearWorkspaceKeys
<1> QED
  BY <1>1, <1>2, <1>3, <1>4, <1>5 DEF ProxyMessage

\* Every step keeps the types.
LEMMA NextTypes == ASSUME TypeOK, [Next]_vars PROVE TypeOK'
<1>1. CASE \E o \in Operators : Operate(o)
  BY <1>1, OperatorTypes
<1>2. CASE RunRestartCycle
  BY <1>2, CycleTypes
<1>3. CASE AgentRequests
  BY <1>3, AgentTypes
<1>4. CASE \/ HealthSweep \/ LivenessExpired \/ SweepStuckProvisioning
           \/ SweepOrphans \/ CacheExpires \/ ContainerDies \/ FinishesTask
  BY <1>4, SweepTypes
<1>5. CASE \E s \in Senders : ProxyMessage(s)
  BY <1>5, MessageTypes
<1>6. CASE UNCHANGED vars
  BY <1>6 DEF vars, TypeOK, redis, row, box, cycle, agent, probes, bounds
<1> QED
  BY <1>1, <1>2, <1>3, <1>4, <1>5, <1>6 DEF Next

-----------------------------------------------------------------------------
(* Who writes the status of a removed row.                                 *)

\* A step of an operator request that leaves a removed row to another status
\* belongs to a request past its own check; any other keeps what is recorded.
LEMMA OperatorRecords ==
    ASSUME Inv, NEW o \in Operators, Operate(o)
    PROVE  /\ InFlightRecorded'
           /\ status = "removed" /\ status' # "removed" =>
                o \in stale /\ pc[o] # pc'[o]
<1> USE DEF Inv, TypeOK, InFlightRecorded, Goto, Begin, row, cycle
<1>1. CASE Delete(o)
  BY <1>1 DEF Delete
<1>2. CASE DeleteStop(o) \/ HibernateStop(o) \/ PauseStop(o) \/ OperatorStop(o)
  BY <1>2 DEF DeleteStop, HibernateStop, PauseStop, OperatorStop
<1>3. CASE HibernateClaim(o) \/ Pause(o) \/ Resume(o) \/ Restart(o)
  BY <1>3 DEF HibernateClaim, Pause, Resume, Restart
<1>4. CASE HibernateMark(o) \/ PauseMark(o)
  BY <1>4 DEF HibernateMark, PauseMark, MarkStopped
<1>5. CASE ResumeMark(o) \/ RestartMark(o)
  BY <1>5 DEF ResumeMark, RestartMark
<1>6. CASE OperatorLock(o)
  BY <1>6 DEF OperatorLock
<1>7. CASE OperatorStart(o)
  BY <1>7 DEF OperatorStart, Provision
<1> QED
  BY <1>1, <1>2, <1>3, <1>4, <1>5, <1>6, <1>7 DEF Operate

\* The same of the restart cycle, whose check is the select under the gate.
LEMMA CycleRecords ==
    ASSUME Inv, RunRestartCycle
    PROVE  /\ InFlightRecorded'
           /\ status = "removed" /\ status' # "removed" =>
                "auto" \in stale /\ auto # auto'
<1> USE DEF Inv, TypeOK, InFlightRecorded, row
<1>1. CASE AutoBegin \/ AutoLock \/ AutoSelect
  BY <1>1 DEF AutoBegin, AutoLock, AutoSelect
<1>2. CASE AutoStop
  BY <1>2 DEF AutoStop
<1>3. CASE AutoMark
  BY <1>3 DEF AutoMark
<1>4. CASE AutoStart
  BY <1>4 DEF AutoStart, Provision
<1> QED
  BY <1>1, <1>2, <1>3, <1>4 DEF RunRestartCycle

\* Nobody else writes over `removed`, or touches what is recorded.
LEMMA OthersSpareRemoved ==
    ASSUME Inv,
           \/ AgentRequests
           \/ HealthSweep \/ LivenessExpired \/ SweepStuckProvisioning
           \/ SweepOrphans \/ CacheExpires \/ ContainerDies \/ FinishesTask
           \/ \E s \in Senders : ProxyMessage(s)
           \/ UNCHANGED vars
    PROVE  /\ InFlightRecorded'
           /\ status = "removed" => status' = "removed"
<1> USE DEF row, cycle
<1>1. /\ pc' = pc /\ auto' = auto /\ stale' = stale
      /\ status' = "removed" <=> status = "removed"
  <2>1. CASE AgentRequests
    BY <2>1 DEF AgentRequests, AgentSends, Register, Heartbeat,
                EvaluateStatusRead, EvaluateStatusWrite, Evaluated
  <2>2. CASE HealthSweep
    BY <2>2 DEF HealthSweep, HealthSelect, HealthProbe, HealthFlip, MarkOffline
  <2>3. CASE LivenessExpired \/ SweepStuckProvisioning
    BY <2>3 DEF LivenessExpired, SweepStuckProvisioning
  <2>4. CASE SweepOrphans
    BY <2>4 DEF SweepOrphans, OrphanSelect, OrphanStop
  <2>5. CASE CacheExpires \/ ContainerDies \/ FinishesTask
    BY <2>5 DEF CacheExpires, ContainerDies, FinishesTask
  <2>6. ASSUME NEW s \in Senders, ProxyMessage(s)
        PROVE  /\ pc' = pc /\ auto' = auto /\ stale' = stale
               /\ status' = "removed" <=> status = "removed"
    BY <2>6 DEF ProxyMessage, ProxyWakes, ProxyResolve, ProxyProbe,
                ProxyForward, ProxyFlip, MarkOffline
  <2>7. CASE UNCHANGED vars
    BY <2>7 DEF vars
  <2> QED
    BY <2>1, <2>2, <2>3, <2>4, <2>5, <2>6, <2>7
<1> QED
  BY <1>1 DEF Inv, InFlightRecorded

\* The invariant is inductive.
LEMMA StepInv == Inv /\ [Next]_vars => Inv'
<1> SUFFICES ASSUME Inv, [Next]_vars PROVE Inv'
  OBVIOUS
<1>1. TypeOK'
  BY NextTypes DEF Inv
<1>2. InFlightRecorded'
  BY OperatorRecords, CycleRecords, OthersSpareRemoved DEF Next
<1> QED
  BY <1>1, <1>2 DEF Inv

\* The inductive invariant holds in every reachable state.
THEOREM LifecycleInvariance == Spec => []Inv
  BY InitInv, StepInv, PTL DEF Spec

\* For any number of requests, messages and failures, the row, Redis, the
\* container and all control states keep their types: no writer ever leaves a
\* status that a managed workspace does not have.
THEOREM LifecycleTypes == Spec => []TypeOK
<1>1. Inv => TypeOK
  BY DEF Inv
<1> QED
  BY <1>1, LifecycleInvariance, PTL

\* For any number of requests, messages and failures, only a request or a
\* restart cycle that was in flight when the row was removed brings it back.
THEOREM ResurrectionsInFlight == Spec => OnlyInFlightResurrects
<1> DEFINE Resurrects == status = "removed" /\ status' # "removed" =>
             \/ \E o \in stale : o # "auto" /\ pc[o] # pc'[o]
             \/ "auto" \in stale /\ auto # auto'
<1>1. Inv /\ [Next]_vars => [Resurrects]_vars
  <2> SUFFICES ASSUME Inv, [Next]_vars, status = "removed", status' # "removed"
               PROVE  \/ \E o \in stale : o # "auto" /\ pc[o] # pc'[o]
                      \/ "auto" \in stale /\ auto # auto'
    OBVIOUS
  <2>1. \/ \E o \in Operators : Operate(o)
        \/ RunRestartCycle
    BY OthersSpareRemoved DEF Next
  <2>2. CASE \E o \in Operators : Operate(o)
    BY <2>2, OperatorRecords, LifecycleConstants
  <2>3. CASE RunRestartCycle
    BY <2>3, CycleRecords
  <2> QED
    BY <2>1, <2>2, <2>3
<1>2. Spec => [][Resurrects]_vars
  BY <1>1, LifecycleInvariance, PTL DEF Spec
<1> QED
  BY <1>2 DEF OnlyInFlightResurrects

-----------------------------------------------------------------------------
(* The restart cycle and the operator requests keep the contract of        *)
(* RestartCycles.                                                          *)

\* Whoever is between the gate's Lock and Unlock is its holder.
GateHeld ==
    /\ auto \notin {"idle", "lock"} => gate = "auto"
    /\ \A o \in Operators : pc[o] \in {"stop", "start"} => gate = o

\* A step that neither moves the cycle nor enters or leaves the gate is a
\* request for a restart, or nothing the contract speaks of.
LEMMA QuietCycles ==
    ASSUME GateHeld, UNCHANGED <<auto, gate>>, wanted' \in {wanted, "yes"},
           \A o \in Operators : pc'[o] \in {"stop", "start"} => pc[o] \in {"stop", "start"}
    PROVE  GateHeld' /\ [LifecycleCycles!Next]_(LifecycleCycles!cvars)
<1>1. GateHeld'
  BY DEF GateHeld
<1>2. CASE wanted' = wanted
  <2>1. UNCHANGED LifecycleCycles!cvars
    BY <1>2 DEF LifecycleCycles!cvars
  <2> QED
    BY <1>1, <2>1
<1>3. CASE wanted' = "yes"
  <2>1. LifecycleCycles!Note
    BY <1>3 DEF LifecycleCycles!Note
  <2> QED
    BY <1>1, <2>1 DEF LifecycleCycles!Next
<1> QED
  BY <1>2, <1>3

\* An operator request enters the gate when it is open and leaves it when its
\* provision is over; nothing else it does touches cycle or gate.
LEMMA OperatorCycles ==
    ASSUME TypeOK, GateHeld, NEW o \in Operators, Operate(o)
    PROVE  GateHeld' /\ [LifecycleCycles!Next]_(LifecycleCycles!cvars)
<1> USE DEF Goto, Begin
<1>0. o # "auto" /\ o # "free"
  BY LifecycleConstants
<1>1. CASE OperatorLock(o)
  <2>1. LifecycleCycles!UserEnters(o)
    BY <1>1 DEF OperatorLock, LifecycleCycles!UserEnters, cycle
  <2>2. GateHeld'
    BY <1>0, <1>1, LifecycleConstants DEF OperatorLock, GateHeld, TypeOK, cycle
  <2> QED
    BY <2>1, <2>2 DEF LifecycleCycles!Next
<1>2. CASE OperatorStart(o)
  <2>1. gate = o /\ gate' = "free" /\ UNCHANGED <<auto, wanted>>
    BY <1>2 DEF OperatorStart, Provision, GateHeld, cycle
  <2>2. LifecycleCycles!UserLeaves(o)
    BY <2>1 DEF LifecycleCycles!UserLeaves
  <2>3. GateHeld'
    BY <1>0, <1>2, <2>1 DEF OperatorStart, GateHeld, TypeOK
  <2> QED
    BY <2>2, <2>3 DEF LifecycleCycles!Next
<1>3. CASE \/ Delete(o) \/ DeleteStop(o)
           \/ HibernateClaim(o) \/ HibernateStop(o) \/ HibernateMark(o)
           \/ Pause(o) \/ PauseStop(o) \/ PauseMark(o)
           \/ Resume(o) \/ ResumeMark(o) \/ Restart(o) \/ RestartMark(o)
           \/ OperatorStop(o)
  <2>1. UNCHANGED <<auto, wanted, gate>>
    BY <1>3 DEF Delete, DeleteStop, HibernateClaim, HibernateStop, HibernateMark, Pause,
       PauseStop, PauseMark, Resume, ResumeMark, Restart, RestartMark, OperatorStop, cycle
  <2>2. \E l : /\ pc' = [pc EXCEPT ![o] = l]
               /\ l \in {"stop", "start"} => pc[o] \in {"stop", "start"}
    BY <1>3 DEF Delete, DeleteStop, HibernateClaim, HibernateStop, HibernateMark, Pause,
       PauseStop, PauseMark, Resume, ResumeMark, Restart, RestartMark, OperatorStop
  <2> QED
    BY <2>1, <2>2, QuietCycles DEF TypeOK
<1> QED
  BY <1>1, <1>2, <1>3 DEF Operate

\* The cycle: AutoBegin uses the note up, AutoLock enters the gate, and a
\* refusal or the end of the provision leaves it.
LEMMA AutoCycles ==
    ASSUME TypeOK, GateHeld, RunRestartCycle
    PROVE  GateHeld' /\ [LifecycleCycles!Next]_(LifecycleCycles!cvars)
<1>0. \A o \in Operators : o # "auto" /\ o # "free"
  BY LifecycleConstants
<1>1. CASE AutoBegin
  <2>1. LifecycleCycles!Begin
    BY <1>1 DEF AutoBegin, LifecycleCycles!Begin
  <2>2. GateHeld'
    BY <1>1 DEF AutoBegin, GateHeld
  <2> QED
    BY <2>1, <2>2 DEF LifecycleCycles!Next
<1>2. CASE AutoLock
  <2>1. LifecycleCycles!Enter
    BY <1>2 DEF AutoLock, LifecycleCycles!Enter
  <2>2. GateHeld'
    BY <1>0, <1>2 DEF AutoLock, GateHeld
  <2> QED
    BY <2>1, <2>2 DEF LifecycleCycles!Next
<1>3. CASE (AutoSelect /\ auto' = "idle") \/ AutoStart
  <2>1. /\ auto \in {"select", "start"} /\ auto' = "idle" /\ gate = "auto"
        /\ gate' = "free" /\ UNCHANGED <<wanted, pc>>
    BY <1>3 DEF AutoSelect, AutoStart, Provision, GateHeld
  <2>2. LifecycleCycles!End
    BY <2>1 DEF LifecycleCycles!End
  <2>3. GateHeld'
    BY <1>0, <2>1 DEF GateHeld
  <2> QED
    BY <2>2, <2>3 DEF LifecycleCycles!Next
<1>4. CASE (AutoSelect /\ auto' # "idle") \/ AutoStop \/ AutoMark
  <2>1. /\ auto \in {"select", "stop", "mark"} /\ auto' \in {"stop", "mark", "start"}
        /\ UNCHANGED <<wanted, gate, pc>>
    BY <1>4 DEF AutoSelect, AutoStop, AutoMark
  <2>2. UNCHANGED LifecycleCycles!cvars
    BY <2>1 DEF LifecycleCycles!cvars
  <2>3. GateHeld'
    BY <2>1 DEF GateHeld
  <2> QED
    BY <2>2, <2>3
<1> QED
  BY <1>1, <1>2, <1>3, <1>4 DEF RunRestartCycle

\* Sweeps, expiries, messages and the agent at most ask for a restart.
LEMMA OthersCycles ==
    ASSUME GateHeld,
           \/ AgentRequests
           \/ HealthSweep \/ LivenessExpired \/ SweepStuckProvisioning
           \/ SweepOrphans \/ CacheExpires \/ ContainerDies \/ FinishesTask
           \/ \E s \in Senders : ProxyMessage(s)
           \/ UNCHANGED vars
    PROVE  GateHeld' /\ [LifecycleCycles!Next]_(LifecycleCycles!cvars)
<1>1. UNCHANGED <<pc, auto, gate>> /\ wanted' \in {wanted, "yes"}
  <2> USE DEF cycle
  <2>1. CASE AgentRequests
    BY <2>1 DEF AgentRequests, AgentSends, Register, Heartbeat,
                EvaluateStatusRead, EvaluateStatusWrite
  <2>2. CASE HealthSweep
    BY <2>2 DEF HealthSweep, HealthSelect, HealthProbe, HealthFlip, MarkOffline
  <2>3. CASE LivenessExpired \/ SweepStuckProvisioning \/ SweepOrphans
    BY <2>3 DEF LivenessExpired, SweepStuckProvisioning, SweepOrphans, OrphanSelect, OrphanStop
  <2>4. CASE CacheExpires \/ ContainerDies \/ FinishesTask
    BY <2>4 DEF CacheExpires, ContainerDies, FinishesTask
  <2>5. ASSUME NEW s \in Senders, ProxyMessage(s)
        PROVE  UNCHANGED <<pc, auto, gate>> /\ wanted' \in {wanted, "yes"}
    BY <2>5 DEF ProxyMessage, ProxyWakes, ProxyResolve, ProxyProbe,
                ProxyForward, ProxyFlip, MarkOffline
  <2>6. CASE UNCHANGED vars
    BY <2>6 DEF vars
  <2> QED
    BY <2>1, <2>2, <2>3, <2>4, <2>5, <2>6
<1> QED
  BY <1>1, QuietCycles

\* The lifecycle keeps the contract of the coalescer and the gate, whatever
\* requests, sweeps, messages and failures interleave: a cycle uses up one
\* note, works with the gate alone, and gives it back on every way out
\* (runRestartCycle, provisionWorkspaceAuto, RestartWorkspaceAutoOpts).
THEOREM LifecycleKeepsCycles == Spec => LifecycleImplementsCycles
<1>1. Init => GateHeld /\ LifecycleCycles!Init
  <2> SUFFICES ASSUME Init PROVE GateHeld /\ LifecycleCycles!Init
    OBVIOUS
  <2>1. \A o \in Operators : pc[o] \in {"provision", "idle"}
    BY DEF Init
  <2>2. auto = "idle" /\ wanted = "no" /\ gate = "free"
    BY DEF Init
  <2> QED
    BY <2>1, <2>2 DEF GateHeld, LifecycleCycles!Init
<1>2. TypeOK /\ GateHeld /\ [Next]_vars =>
        GateHeld' /\ [LifecycleCycles!Next]_(LifecycleCycles!cvars)
  BY OperatorCycles, AutoCycles, OthersCycles DEF Next
<1> QED
  BY <1>1, <1>2, LifecycleTypes, PTL DEF Spec, LifecycleImplementsCycles, LifecycleCycles!Spec

-----------------------------------------------------------------------------
(* The workspaces on the control plane: ControlPlane.                      *)

\* Machines somebody has been told of, or that the row's writers gave up.
Noted == announced \cup unknown \cup displaced

\* An id of a machine that was made.
Made(b) == b # None => machines[b] # "none"

\* A machine that may leave the row without a word.
Spent(b) == Running(b) => b \in Noted

\* The steps under the restart/provision gate: a whole restart cycle, and the
\* provisioning of a switch.
Gated(t) ==
    \/ me[t].pc \in {"select", "mark", "start", "persist", "fail"}
    \/ t = Restarter /\ me[t].pc \in {"stop", "terminate"}

\* Which goroutine does what.
JobOK(t) ==
    IF t = Restarter
    THEN me[t].job = "restart" /\ me[t].pc \notin {"claim", "write", "revert"}
    ELSE /\ me[t].pc \notin {"select", "mark"}
         /\ me[t].pc \in {"stop", "terminate"} => me[t].job \in {"switch", "delete"}
         /\ me[t].pc \in {"claim", "write", "revert", "lock", "start", "persist", "fail"} =>
               me[t].job = "switch"

\* A goroutine: it has the gate where it needs it; an id in its hands is that
\* of a machine; what a cycle overwrites, and what a switch clears, is spent;
\* and an id on its way to the row is new to the row and to the reconciler.
HandOK(t) ==
    /\ Gated(t) => cpGate = t
    /\ JobOK(t)
    /\ me[t].pc \in {"terminate", "write", "persist"} => Made(me[t].hold)
    /\ t = Restarter /\ me[t].pc = "terminate" => inst \in {me[t].hold, None}
    /\ t = Restarter /\ me[t].pc \in {"mark", "start", "persist"} => Spent(inst)
    /\ me[t].pc = "write" => Spent(me[t].hold)
    /\ me[t].pc = "persist" => /\ me[t].hold # None /\ me[t].hold # inst
                               /\ rec.pc # "idle" => me[t].hold # rec.hold

\* The loops: the sweep clears what is spent, and what the reconciler found
\* dead is dead if the row still names it.
LoopsOK ==
    /\ sweep.pc \in {"terminate", "clear"} => Made(sweep.hold)
    /\ sweep.pc = "clear" => Spent(sweep.hold)
    /\ rec.pc # "idle" => rec.hold # None /\ Made(rec.hold)
    /\ rec.pc = "confirm" /\ inst = rec.hold => ~Running(inst)

LeakInv ==
    /\ ConstantsOK /\ CPTypeOK
    /\ \A t \in Threads : HandOK(t)
    /\ LoopsOK /\ LeaksAnnounced

\* Machines age: a machine that was made is not made again.
Aging ==
    /\ \A b \in Boxes : machines[b] # "none" =>
          machines'[b] # "none" /\ (machines'[b] = "running" => machines[b] = "running")
    /\ Noted \subseteq Noted'

LEMMA Aged ==
    ASSUME LeakInv, Aging, NEW b \in Ids, Made(b)
    PROVE  /\ Made(b)' /\ (Spent(b) => Spent(b)') /\ (~Running(b) => ~Running(b)')
  BY DEF LeakInv, Aging, Made, Spent, Running, Ids, ConstantsOK

\* The control plane numbers its machines in order, and always has a next one
\* while there are machines left.
LEMMA NextBoxIsNew ==
    ASSUME LeakInv, BoxesLeft
    PROVE  NextBox \in Boxes /\ machines[NextBox] = "none"
  <1> DEFINE T == {b \in Boxes : machines[b] = "none"}
             R == OpToRel(<, Nat)
  <1>1. T # {} /\ T \subseteq Nat
    BY DEF BoxesLeft, Boxes
  <1>2. IsWellFoundedOn(R, Nat)
    BY NatLessThanWellFounded
  <1>3. \E x \in T : \A y \in T : ~(<<y, x>> \in R)
    BY <1>1, <1>2, WFMin
  <1>4. PICK x \in T : \A y \in T : ~(y < x)
    BY <1>1, <1>3 DEF OpToRel
  <1>5. \E b \in Boxes : machines[b] = "none" /\ \A c \in Boxes : c < b => machines[c] # "none"
    BY <1>4
  <1> QED
    BY <1>5 DEF NextBox

\* Ids in the row, in hands and in the loops.
LEMMA IdsTyped ==
    ASSUME LeakInv
    PROVE  /\ inst \in Ids /\ Made(inst) /\ None \notin Boxes
           /\ \A t \in Threads : me[t].hold \in Ids
           /\ sweep.hold \in Ids /\ rec.hold \in Ids
           /\ ~Running(None)
  BY DEF LeakInv, CPTypeOK, ConstantsOK, Made, Running

\* A goroutine that does not step keeps its part of the invariant, as long as
\* the row is cleared at most, unless it has no business with the row.
LEMMA OthersKept ==
    ASSUME LeakInv, Aging, NEW t \in Threads, me'[t] = me[t],
           Gated(t) => cpGate' = cpGate /\ inst' \in {inst, None},
           rec'.pc # "idle" => rec'.hold = inst \/ (rec.pc # "idle" /\ rec'.hold = rec.hold)
    PROVE  HandOK(t)'
  <1>0. HandOK(t) /\ LoopsOK
    BY DEF LeakInv
  <1>1. (Gated(t) => cpGate = t) /\ (Gated(t)' <=> Gated(t))
    BY <1>0 DEF HandOK, Gated
  <1>2. JobOK(t)'
    BY <1>0 DEF HandOK, JobOK
  <1>3. me[t].pc \in {"terminate", "write", "persist"} => Made(me[t].hold)'
    BY <1>0, IdsTyped, Aged DEF HandOK
  <1>4. me[t].pc = "write" => Spent(me[t].hold)'
    BY <1>0, IdsTyped, Aged DEF HandOK
  <1>6. t = Restarter /\ me[t].pc \in {"mark", "start", "persist"} => Spent(inst)'
    <2>1. SUFFICES ASSUME t = Restarter, me[t].pc \in {"mark", "start", "persist"}
                   PROVE  Spent(inst)'
      OBVIOUS
    <2>2. Spent(inst) /\ inst' \in {inst, None}
      BY <1>0, <2>1 DEF HandOK, Gated
    <2>3. CASE inst' = None
      BY <2>3 DEF Spent, Running
    <2>4. CASE inst' = inst
      BY <2>2, <2>4, IdsTyped, Aged DEF Spent, Running
    <2> QED
      BY <2>2, <2>3, <2>4
  <1>7. t = Restarter /\ me[t].pc = "terminate" => inst' \in {me[t].hold, None}
    BY <1>0 DEF HandOK, Gated
  <1>8. me[t].pc = "persist" => /\ me[t].hold # None /\ me[t].hold # inst'
                                /\ rec'.pc # "idle" => me[t].hold # rec'.hold
    BY <1>0 DEF HandOK, Gated
  <1> QED
    BY <1>1, <1>2, <1>3, <1>4, <1>6, <1>7, <1>8 DEF HandOK

\* The loops keep theirs while others write the row: a new id is not the one
\* the reconciler holds.
LEMMA LoopsKept ==
    ASSUME LeakInv, Aging, UNCHANGED <<sweep, rec>>,
           rec.pc # "idle" => inst' = inst \/ inst' # rec.hold
    PROVE  LoopsOK'
  <1>0. LoopsOK
    BY DEF LeakInv
  <1>1. sweep.pc \in {"terminate", "clear"} => Made(sweep.hold)'
    BY <1>0, IdsTyped, Aged DEF LoopsOK
  <1>2. sweep.pc = "clear" => Spent(sweep.hold)'
    BY <1>0, IdsTyped, Aged DEF LoopsOK
  <1>3. rec.pc # "idle" => rec.hold # None /\ Made(rec.hold)'
    BY <1>0, IdsTyped, Aged DEF LoopsOK
  <1>4. rec.pc = "confirm" /\ inst' = rec.hold => ~Running(inst)'
    <2>1. SUFFICES ASSUME rec.pc = "confirm", inst' = rec.hold  PROVE ~Running(inst)'
      OBVIOUS
    <2>2. inst' = inst /\ ~Running(inst)
      BY <1>0, <2>1 DEF LoopsOK
    <2>3. ~(inst # None /\ machines'[inst] = "running")
      BY <2>2, IdsTyped, Aged DEF Running
    <2> QED
      BY <2>2, <2>3 DEF Running
  <1> QED
    BY <1>1, <1>2, <1>3, <1>4 DEF LoopsOK

\* Nothing leaks when what is new is in hands or noted, what leaves the row is
\* noted, and what leaves a goroutine's hands is in the row or noted.
LEMMA LeaksKept ==
    ASSUME LeakInv, Aging,
           \A b \in Boxes : machines[b] = "none" /\ machines'[b] = "running" =>
              b \in Noted' \/ \E t \in Threads : me'[t].pc = "persist" /\ me'[t].hold = b,
           inst' # inst /\ inst # None => inst \in Noted' \/ machines'[inst] # "running",
           \A t \in Threads : me[t].pc = "persist" =>
              \/ me'[t].pc = "persist" /\ me'[t].hold = me[t].hold
              \/ inst' = me[t].hold \/ me[t].hold \in Noted'
    PROVE  LeaksAnnounced'
  <1>1. SUFFICES ASSUME NEW b \in Boxes, machines'[b] = "running"
                 PROVE  \/ b = inst' \/ b \in Noted'
                        \/ \E t \in Threads : me'[t].pc = "persist" /\ me'[t].hold = b
    BY DEF LeaksAnnounced, Running, Noted
  <1>2. b # None
    BY IdsTyped
  <1>3. CASE machines[b] = "none"
    BY <1>1, <1>3
  <1>4. CASE machines[b] # "none"
    <2>1. Running(b) /\ Noted \subseteq Noted'
      BY <1>1, <1>2, <1>4 DEF Aging, Running
    <2>2. b = inst \/ b \in Noted \/ \E t \in Threads : me[t].pc = "persist" /\ me[t].hold = b
      BY <2>1 DEF LeakInv, LeaksAnnounced, Noted
    <2> QED
      BY <1>1, <1>2, <2>1, <2>2
  <1> QED
    BY <1>3, <1>4

\* The types, without the clause on the gate, which HandOK has.
MeSet == [pc : {"idle", "lock", "select", "claim", "stop", "terminate",
                "mark", "write", "revert", "start", "persist", "fail"},
          job : {"restart", "switch", "delete"}, hold : Ids,
          status : CPStatuses, provider : Providers]

Shape ==
    /\ cpStatus \in CPStatuses /\ inst \in Ids /\ provider \in Providers
    /\ machines \in [Boxes -> {"none", "running", "gone"}]
    /\ inst # None => machines[inst] # "none"
    /\ cpGate \in Threads \cup {None}
    /\ me \in [Threads -> MeSet]
    /\ cpWanted \in BOOLEAN
    /\ sweep \in [pc : {"idle", "stop", "terminate", "clear"}, hold : Ids]
    /\ rec \in [pc : {"idle", "probe", "confirm"}, hold : Ids]
    /\ cpOps \in 0..MaxCPOps /\ faults \in 0..MaxFaults
    /\ announced \subseteq Boxes /\ unknown \subseteq Boxes /\ displaced \subseteq Boxes

LEMMA ShapeOf == ASSUME LeakInv PROVE Shape
  BY DEF LeakInv, CPTypeOK, Shape, MeSet

LEMMA TypesOf ==
    ASSUME Shape', \A t \in Threads : HandOK(t)'
    PROVE  CPTypeOK'
  BY DEF CPTypeOK, Shape, MeSet, HandOK, Gated

\* A step of goroutine t.
LEMMA ThreadStep ==
    ASSUME LeakInv, NEW t \in Threads, Shape', Aging, UNCHANGED <<sweep, rec>>,
           \A u \in Threads : u # t => me'[u] = me[u],
           (cpGate' = cpGate /\ inst' \in {inst, None}) \/ cpGate \in {t, None},
           inst' \in {inst, None} \/ (me[t].pc = "persist" /\ inst' = me[t].hold),
           HandOK(t)',
           \A b \in Boxes : machines[b] = "none" /\ machines'[b] = "running" =>
              b \in Noted' \/ (me'[t].pc = "persist" /\ me'[t].hold = b),
           inst' # inst /\ inst # None => inst \in Noted' \/ machines'[inst] # "running",
           me[t].pc = "persist" => inst' = me[t].hold \/ me[t].hold \in Noted'
    PROVE  LeakInv'
  <1>1. ASSUME NEW u \in Threads, u # t  PROVE HandOK(u)'
    <2>1. me'[u] = me[u] /\ HandOK(u)
      BY <1>1 DEF LeakInv
    <2>2. Gated(u) => cpGate' = cpGate /\ inst' \in {inst, None}
      <3>1. u # None
        BY DEF LeakInv, ConstantsOK
      <3> QED
        BY <1>1, <2>1, <3>1 DEF HandOK
    <2> QED
      BY <2>1, <2>2, OthersKept
  <1>2. \A u \in Threads : HandOK(u)'
    BY <1>1
  <1>3. LoopsOK'
    <2>1. rec.pc # "idle" => inst' = inst \/ inst' # rec.hold
      BY DEF LeakInv, HandOK, LoopsOK
    <2> QED
      BY <2>1, LoopsKept
  <1>4. LeaksAnnounced'
    <2>1. \A b \in Boxes : machines[b] = "none" /\ machines'[b] = "running" =>
             b \in Noted' \/ \E u \in Threads : me'[u].pc = "persist" /\ me'[u].hold = b
      OBVIOUS
    <2>2. \A u \in Threads : me[u].pc = "persist" =>
             \/ me'[u].pc = "persist" /\ me'[u].hold = me[u].hold
             \/ inst' = me[u].hold \/ me[u].hold \in Noted'
      OBVIOUS
    <2> QED
      BY <2>1, <2>2, LeaksKept
  <1> QED
    BY <1>2, <1>3, <1>4, TypesOf DEF LeakInv, ConstantsOK, Boxes, Threads

\* Where a move and an end leave the goroutine.
LEMMA Moved ==
    ASSUME Shape, NEW t \in Threads, NEW l, NEW b \in Ids, Moves(t, l, b),
           l \in {"idle", "lock", "select", "claim", "stop", "terminate",
                  "mark", "write", "revert", "start", "persist", "fail"}
    PROVE  /\ me' \in [Threads -> MeSet]
           /\ me'[t].pc = l /\ me'[t].hold = b /\ me'[t].job = me[t].job
           /\ \A u \in Threads : u # t => me'[u] = me[u]
  <1>1. me \in [Threads -> MeSet] /\ me[t] \in MeSet
    BY DEF Shape
  <1>2. me' = [me EXCEPT ![t] = [me[t] EXCEPT !.pc = l, !.hold = b]]
    BY DEF Moves
  <1>3. [me[t] EXCEPT !.pc = l, !.hold = b] \in MeSet
    BY <1>1 DEF MeSet
  <1>4. me' \in [Threads -> MeSet]
    BY <1>1, <1>2, <1>3
  <1> QED
    BY <1>1, <1>2, <1>4 DEF MeSet

LEMMA Ended ==
    ASSUME LeakInv, NEW t \in Threads, Ends(t)
    PROVE  /\ me' \in [Threads -> MeSet]
           /\ me'[t].pc = "idle" /\ me'[t].hold = None /\ me'[t].job = "restart"
           /\ \A u \in Threads : u # t => me'[u] = me[u]
  <1>1. Idle \in MeSet
    BY DEF Idle, MeSet, Ids, CPStatuses, Providers
  <1> QED
    BY <1>1, ShapeOf DEF Shape, Ends, Idle

\* A goroutine that ends has nothing to answer for.
LEMMA EndedOK ==
    ASSUME NEW t \in Threads, me'[t].pc = "idle", me'[t].job = "restart"
    PROVE  HandOK(t)'
  BY DEF HandOK, Gated, JobOK

\* What a stop does to the machines: the one it names may go.
LEMMA TerminatedAges ==
    ASSUME LeakInv, NEW b \in Ids, Made(b), machines' \in {machines, Terminated(b)}
    PROVE  /\ machines' \in [Boxes -> {"none", "running", "gone"}]
           /\ \A c \in Boxes : machines'[c] = machines[c] \/ machines'[c] = "gone"
           /\ \A c \in Boxes : machines[c] # "none" => machines'[c] # "none"
           /\ \A c \in Boxes : machines'[c] = "running" => machines[c] = "running"
  BY ShapeOf DEF Shape, Terminated, Ids, Made

\* A step that leaves row, machines and ghosts alone lets nothing age.
LEMMA StillAges == ASSUME machines' = machines, Noted \subseteq Noted' PROVE Aging
  BY DEF Aging

LEMMA StopSteps ==
    ASSUME LeakInv, NEW t \in Threads,
           StopResolves(t) \/ StopTerminates(t) \/ StopAbandoned(t)
    PROVE  LeakInv'
  <1>0. Shape /\ HandOK(t) /\ ConstantsOK /\ inst \in Ids /\ Made(inst)
        /\ me[t].hold \in Ids /\ t # None
    BY ShapeOf, IdsTyped DEF LeakInv, ConstantsOK
  <1>1. CASE StopResolves(t)
    <2>1. me[t].pc = "stop" /\ Moves(t, "terminate", inst)
          /\ UNCHANGED <<cpStatus, inst, provider, machines, cpGate, cpWanted, sweep, rec,
                         cpOps, faults, announced, unknown, displaced>>
      BY <1>1 DEF StopResolves, cpRow, loops, ghosts
    <2>2. /\ me' \in [Threads -> MeSet]
          /\ me'[t].pc = "terminate" /\ me'[t].hold = inst /\ me'[t].job = me[t].job
          /\ \A u \in Threads : u # t => me'[u] = me[u]
      BY <1>0, <2>1, Moved
    <2>3. Shape' /\ Aging
      BY <1>0, <2>1, <2>2, StillAges DEF Shape, Noted
    <2>4. HandOK(t)'
      BY <1>0, <2>1, <2>2 DEF HandOK, Gated, JobOK, Made
    <2> QED
      BY <1>0, <2>1, <2>2, <2>3, <2>4, ThreadStep
  <1>2. CASE StopTerminates(t)
    <2>0. me[t].pc = "terminate" /\ Made(me[t].hold) /\ JobOK(t)
      BY <1>0, <1>2 DEF StopTerminates, HandOK
    <2>1. /\ UNCHANGED <<cpStatus, inst, provider, cpGate, cpWanted, sweep, rec, cpOps, unknown, displaced>>
          /\ AfterStop(t)
          /\ \/ machines' = Terminated(me[t].hold) /\ UNCHANGED <<faults, announced>>
             \/ /\ me[t].hold # None /\ faults' \in 0..MaxFaults
                /\ machines' \in {machines, Terminated(me[t].hold)}
                /\ announced' = announced \cup {me[t].hold}
      BY <1>0, <1>2 DEF StopTerminates, cpRow, loops, TerminateFails, Fault,
         LeakSuspect, Shape, ConstantsOK
    <2>2. machines' \in {machines, Terminated(me[t].hold)}
      BY <2>1
    <2>3. /\ machines' \in [Boxes -> {"none", "running", "gone"}]
          /\ \A c \in Boxes : machines[c] # "none" => machines'[c] # "none"
          /\ \A c \in Boxes : machines'[c] = "running" => machines[c] = "running"
      BY <1>0, <2>0, <2>2, TerminatedAges
    <2>4. /\ faults' \in 0..MaxFaults /\ announced' \subseteq Boxes
          /\ Noted \subseteq Noted'
      BY <1>0, <2>1 DEF Shape, Ids, Noted
    <2>5. Aging
      BY <2>3, <2>4 DEF Aging
    <2>6. Spent(me[t].hold)' \/ me'[t].hold # me[t].hold
      <3>1. CASE machines' = Terminated(me[t].hold)
        BY <1>0, <3>1 DEF Spent, Running, Terminated, Ids, Shape
      <3>2. CASE announced' = announced \cup {me[t].hold}
        BY <3>2 DEF Spent, Noted
      <3> QED
        BY <2>1, <3>1, <3>2
    <2>7. me[t].hold # None => me[t].hold \in Noted' \/ machines'[me[t].hold] # "running"
      <3>1. CASE machines' = Terminated(me[t].hold)
        BY <1>0, <3>1 DEF Terminated, Ids, Shape
      <3>2. CASE announced' = announced \cup {me[t].hold}
        BY <3>2 DEF Noted
      <3> QED
        BY <2>1, <3>1, <3>2
    <2>8. ASSUME me' \in [Threads -> MeSet]  PROVE Shape'
      BY <1>0, <2>1, <2>3, <2>4, <2>8 DEF Shape, Ids
    <2>9. ASSUME me' \in [Threads -> MeSet], HandOK(t)',
                 \A u \in Threads : u # t => me'[u] = me[u]
          PROVE  LeakInv'
      <3>1. Shape'
        BY <2>8, <2>9
      <3> QED
        BY <2>0, <2>1, <2>3, <2>5, <2>9, <3>1, ThreadStep
    <2>10. CASE me[t].job = "restart"
      <3>1. t = Restarter
        BY <2>0, <2>10 DEF JobOK
      <3>2. Moves(t, "mark", None)
        BY <2>1, <2>10 DEF AfterStop
      <3>3. None \in Ids
        BY DEF Ids
      <3>4. /\ me' \in [Threads -> MeSet]
            /\ me'[t].pc = "mark" /\ me'[t].hold = None /\ me'[t].job = me[t].job
            /\ \A u \in Threads : u # t => me'[u] = me[u]
        BY <1>0, <3>2, <3>3, Moved
      <3>5. inst \in {me[t].hold, None} /\ cpGate = t
        BY <1>0, <2>0, <3>1 DEF HandOK, Gated
      <3>6. Spent(inst)'
        BY <2>1, <2>7, <3>5 DEF Spent, Running
      <3>7. HandOK(t)'
        BY <2>0, <2>1, <2>10, <3>1, <3>4, <3>5, <3>6 DEF HandOK, Gated, JobOK
      <3> QED
        BY <2>9, <3>4, <3>7
    <2>11. CASE me[t].job = "switch"
      <3>1. t # Restarter
        BY <2>0, <2>11 DEF JobOK
      <3>2. Moves(t, "write", me[t].hold)
        BY <2>1, <2>11 DEF AfterStop, GoesTo
      <3>3. /\ me' \in [Threads -> MeSet]
            /\ me'[t].pc = "write" /\ me'[t].hold = me[t].hold /\ me'[t].job = me[t].job
            /\ \A u \in Threads : u # t => me'[u] = me[u]
        BY <1>0, <3>2, Moved
      <3>4. Made(me[t].hold)' /\ Spent(me[t].hold)'
        <4>1. me[t].hold # None => machines'[me[t].hold] # "none"
          BY <1>0, <2>0, <2>3 DEF Made, Ids
        <4> QED
          BY <2>6, <3>3, <4>1 DEF Made
      <3>5. HandOK(t)'
        BY <2>11, <3>1, <3>3, <3>4 DEF HandOK, Gated, JobOK
      <3> QED
        BY <2>9, <3>3, <3>5
    <2>12. CASE me[t].job = "delete"
      <3>0. me[t].job # "restart" /\ me[t].job # "switch"
        BY <2>12
      <3>1. Ends(t)
        BY <2>1, <2>12, <3>0 DEF AfterStop
      <3>2. /\ me' \in [Threads -> MeSet]
            /\ me'[t].pc = "idle" /\ me'[t].job = "restart"
            /\ \A u \in Threads : u # t => me'[u] = me[u]
        BY <3>1, Ended
      <3> QED
        BY <2>9, <3>2, EndedOK
    <2> QED
      BY <1>0, <2>10, <2>11, <2>12 DEF Shape, MeSet
  <1>3. CASE StopAbandoned(t)
    <2>0. me[t].pc = "terminate" /\ Made(me[t].hold) /\ JobOK(t) /\ me[t].job # "restart"
      BY <1>0, <1>3 DEF StopAbandoned, HandOK
    <2>1. /\ UNCHANGED <<cpStatus, inst, provider, cpGate, cpWanted, sweep, rec, cpOps,
                         announced, unknown, displaced>>
          /\ faults' \in 0..MaxFaults
          /\ machines' \in {machines, Terminated(me[t].hold)}
          /\ IF me[t].job = "switch" THEN Moves(t, "revert", me[t].hold) ELSE Ends(t)
      BY <1>0, <1>3 DEF StopAbandoned, cpRow, loops, ghosts, TerminateFails, Fault,
         GoesTo, Shape, ConstantsOK
    <2>2. /\ machines' \in [Boxes -> {"none", "running", "gone"}]
          /\ \A c \in Boxes : machines[c] # "none" => machines'[c] # "none"
          /\ \A c \in Boxes : machines'[c] = "running" => machines[c] = "running"
      BY <1>0, <2>0, <2>1, TerminatedAges
    <2>3. Aging
      BY <2>1, <2>2 DEF Aging, Noted
    <2>4. /\ me' \in [Threads -> MeSet] /\ HandOK(t)'
          /\ \A u \in Threads : u # t => me'[u] = me[u]
      <3>1. CASE me[t].job = "switch"
        <4>1. /\ me' \in [Threads -> MeSet]
              /\ me'[t].pc = "revert" /\ me'[t].job = "switch"
              /\ \A u \in Threads : u # t => me'[u] = me[u]
          BY <1>0, <2>1, <3>1, Moved
        <4>2. t # Restarter
          BY <2>0 DEF JobOK
        <4> QED
          BY <4>1, <4>2 DEF HandOK, Gated, JobOK
      <3>2. CASE me[t].job # "switch"
        BY <2>1, <3>2, Ended, EndedOK
      <3> QED
        BY <3>1, <3>2
    <2>5. Shape'
      BY <1>0, <2>1, <2>2, <2>4 DEF Shape, Ids
    <2> QED
      BY <2>0, <2>1, <2>2, <2>3, <2>4, <2>5, ThreadStep
  <1> QED
    BY <1>1, <1>2, <1>3

\* The row, the machines, the loops and what is noted, unchanged.
Aside == UNCHANGED <<inst, machines, sweep, rec, announced, unknown, displaced>>

\* A step that only moves a goroutine, changes the status or takes or leaves
\* the gate.
LEMMA PlainStep ==
    ASSUME LeakInv, NEW t \in Threads, Aside,
           cpStatus' \in CPStatuses, provider' \in Providers,
           cpGate' \in Threads \cup {None}, cpWanted' \in BOOLEAN,
           cpOps' \in 0..MaxCPOps, faults' \in 0..MaxFaults,
           me' \in [Threads -> MeSet],
           \A u \in Threads : u # t => me'[u] = me[u],
           cpGate' = cpGate \/ cpGate \in {t, None},
           me[t].pc # "persist", HandOK(t)'
    PROVE  LeakInv'
  <1>1. Shape' /\ Aging
    BY ShapeOf, StillAges DEF Aside, Shape, Noted
  <1>2. machines' = machines /\ inst' = inst /\ UNCHANGED <<sweep, rec>>
    BY DEF Aside
  <1> QED
    BY <1>1, <1>2, ThreadStep

\* A new machine ages nobody.
LEMMA NewMachine ==
    ASSUME LeakInv, BoxesLeft, machines' = [machines EXCEPT ![NextBox] = "running"]
    PROVE  /\ NextBox \in Boxes /\ NextBox \in Ids /\ NextBox # None
           /\ machines[NextBox] = "none" /\ machines'[NextBox] = "running"
           /\ machines' \in [Boxes -> {"none", "running", "gone"}]
           /\ \A c \in Boxes : c # NextBox => machines'[c] = machines[c]
           /\ \A c \in Boxes : machines[c] # "none" => machines'[c] = machines[c]
  <1>1. NextBox \in Boxes /\ machines[NextBox] = "none"
    BY NextBoxIsNew
  <1>2. None \notin Boxes
    BY IdsTyped
  <1> HIDE DEF NextBox
  <1> QED
    BY <1>1, <1>2, ShapeOf DEF Shape, Ids

LEMMA ProvisionSteps ==
    ASSUME LeakInv, NEW t \in Threads,
           \/ StartMakes(t) \/ StartFails(t) \/ Persist(t)
           \/ PersistFails(t) \/ MarkProvisionFailed(t)
    PROVE  LeakInv'
  <1>0. Shape /\ HandOK(t) /\ LoopsOK /\ ConstantsOK /\ inst \in Ids /\ Made(inst)
        /\ me[t].hold \in Ids /\ t # None /\ rec.hold \in Ids
    BY ShapeOf, IdsTyped DEF LeakInv, ConstantsOK
  <1>1. CASE StartMakes(t)
    <2>1. /\ me[t].pc = "start" /\ BoxesLeft
          /\ machines' = [machines EXCEPT ![NextBox] = "running"]
          /\ Moves(t, "persist", NextBox)
          /\ UNCHANGED <<cpStatus, inst, provider, cpGate, cpWanted, sweep, rec,
                         cpOps, faults, announced, unknown, displaced>>
      BY <1>1 DEF StartMakes, cpRow, loops, ghosts
    <2>2. /\ NextBox \in Boxes /\ NextBox \in Ids /\ NextBox # None
          /\ machines[NextBox] = "none" /\ machines'[NextBox] = "running"
          /\ machines' \in [Boxes -> {"none", "running", "gone"}]
          /\ \A c \in Boxes : c # NextBox => machines'[c] = machines[c]
          /\ \A c \in Boxes : machines[c] # "none" => machines'[c] = machines[c]
      BY <2>1, NewMachine
    <2> HIDE DEF NextBox
    <2>3. /\ me' \in [Threads -> MeSet]
          /\ me'[t].pc = "persist" /\ me'[t].hold = NextBox /\ me'[t].job = me[t].job
          /\ \A u \in Threads : u # t => me'[u] = me[u]
      BY <1>0, <2>1, <2>2, Moved
    <2>4. Aging
      BY <2>1, <2>2 DEF Aging, Noted
    <2>5. Shape'
      BY <1>0, <2>1, <2>2, <2>3 DEF Shape, Ids
    <2>6. NextBox # inst /\ (rec.pc # "idle" => NextBox # rec.hold)
      BY <1>0, <2>2 DEF Made, LoopsOK
    <2>7. t = Restarter => Spent(inst)'
      <3>1. t = Restarter => Spent(inst)
        BY <1>0, <2>1 DEF HandOK
      <3>2. inst # None => machines'[inst] = machines[inst]
        BY <1>0, <2>2 DEF Made, Ids
      <3> QED
        BY <2>1, <3>1, <3>2 DEF Spent, Running, Noted
    <2>8. HandOK(t)'
      BY <1>0, <2>1, <2>2, <2>3, <2>6, <2>7 DEF HandOK, Gated, JobOK, Made
    <2> QED
      BY <2>1, <2>2, <2>3, <2>4, <2>5, <2>8, ThreadStep
  <1>2. CASE StartFails(t)
    <2>1. /\ me[t].pc = "start" /\ Moves(t, "fail", me[t].hold)
          /\ UNCHANGED <<cpStatus, inst, provider, cpGate, cpWanted, sweep, rec, cpOps,
                         announced, displaced>>
          /\ \/ UNCHANGED <<machines, faults, unknown>>
             \/ /\ faults' \in 0..MaxFaults /\ BoxesLeft
                /\ machines' = [machines EXCEPT ![NextBox] = "running"]
                /\ unknown' = unknown \cup {NextBox}
      BY <1>0, <1>2 DEF StartFails, cpRow, loops, GoesTo, Fault, Shape, ConstantsOK
    <2>2. /\ me' \in [Threads -> MeSet]
          /\ me'[t].pc = "fail" /\ me'[t].job = me[t].job
          /\ \A u \in Threads : u # t => me'[u] = me[u]
      BY <1>0, <2>1, Moved
    <2>3. HandOK(t)'
      BY <1>0, <2>1, <2>2 DEF HandOK, Gated, JobOK
    <2>4. CASE UNCHANGED <<machines, faults, unknown>>
      BY <1>0, <2>1, <2>2, <2>3, <2>4, PlainStep DEF Aside, Shape
    <2>5. CASE /\ faults' \in 0..MaxFaults /\ BoxesLeft
               /\ machines' = [machines EXCEPT ![NextBox] = "running"]
               /\ unknown' = unknown \cup {NextBox}
      <3>1. /\ NextBox \in Boxes
            /\ machines' \in [Boxes -> {"none", "running", "gone"}]
            /\ \A c \in Boxes : c # NextBox => machines'[c] = machines[c]
            /\ \A c \in Boxes : machines[c] # "none" => machines'[c] = machines[c]
        BY <2>5, NewMachine
      <3> HIDE DEF NextBox
      <3>2. Noted' = Noted \cup {NextBox}
        BY <2>1, <2>5 DEF Noted
      <3>3. Aging
        BY <3>1, <3>2 DEF Aging
      <3>4. Shape'
        BY <1>0, <2>1, <2>2, <2>5, <3>1 DEF Shape, Ids
      <3>5. \A b \in Boxes : machines[b] = "none" /\ machines'[b] = "running" => b \in Noted'
        BY <3>1, <3>2
      <3> QED
        BY <2>1, <2>2, <2>3, <3>3, <3>4, <3>5, ThreadStep
    <2> QED
      BY <2>1, <2>4, <2>5
  <1>3. CASE Persist(t)
    <2>1. /\ me[t].pc = "persist" /\ inst' = me[t].hold /\ Ends(t) /\ cpGate' = None
          /\ displaced' = displaced \cup (IF me[t].job = "switch" /\ Running(inst) THEN {inst} ELSE {})
          /\ UNCHANGED <<cpStatus, provider, machines, cpWanted, sweep, rec, cpOps, faults,
                         announced, unknown>>
      BY <1>3 DEF Persist, EndsProvision, loops
    <2>2. /\ me' \in [Threads -> MeSet]
          /\ me'[t].pc = "idle" /\ me'[t].job = "restart"
          /\ \A u \in Threads : u # t => me'[u] = me[u]
      BY <2>1, Ended
    <2>3. cpGate = t /\ Made(me[t].hold) /\ me[t].hold # None
      BY <1>0, <2>1 DEF HandOK, Gated
    <2>4. displaced' \subseteq Boxes /\ Noted \subseteq Noted'
      BY <1>0, <2>1 DEF Shape, Running, Ids, Noted
    <2>5. Aging
      BY <2>1, <2>4, StillAges
    <2>6. Shape'
      BY <1>0, <2>1, <2>2, <2>3, <2>4 DEF Shape, Made
    <2>7. inst # None => inst \in Noted' \/ machines'[inst] # "running"
      <3>1. CASE t = Restarter
        <4>1. Spent(inst)
          BY <1>0, <2>1, <3>1 DEF HandOK
        <4> QED
          BY <2>1, <2>4, <4>1 DEF Spent, Running
      <3>2. CASE t # Restarter
        <4>1. me[t].job = "switch"
          BY <1>0, <2>1, <3>2 DEF HandOK, JobOK
        <4> QED
          BY <2>1, <4>1 DEF Running, Noted
      <3> QED
        BY <3>1, <3>2
    <2> QED
      BY <2>1, <2>2, <2>3, <2>5, <2>6, <2>7, EndedOK, ThreadStep
  <1>4. CASE PersistFails(t)
    <2>1. /\ me[t].pc = "persist" /\ faults' \in 0..MaxFaults /\ Moves(t, "fail", me[t].hold)
          /\ announced' = announced \cup {me[t].hold}
          /\ UNCHANGED <<cpStatus, inst, provider, machines, cpGate, cpWanted, sweep, rec, cpOps,
                         unknown, displaced>>
      BY <1>0, <1>4 DEF PersistFails, cpRow, loops, GoesTo, Fault, Shape, ConstantsOK
    <2>2. /\ me' \in [Threads -> MeSet]
          /\ me'[t].pc = "fail" /\ me'[t].job = me[t].job
          /\ \A u \in Threads : u # t => me'[u] = me[u]
      BY <1>0, <2>1, Moved
    <2>3. HandOK(t)' /\ me[t].hold # None
      BY <1>0, <2>1, <2>2 DEF HandOK, Gated, JobOK
    <2>4. Noted' = Noted \cup {me[t].hold}
      BY <2>1 DEF Noted
    <2>5. Aging
      BY <2>1, <2>4, StillAges
    <2>6. Shape'
      BY <1>0, <2>1, <2>2, <2>3 DEF Shape, Ids
    <2> QED
      BY <2>1, <2>2, <2>3, <2>4, <2>5, <2>6, ThreadStep
  <1>5. CASE MarkProvisionFailed(t)
    <2>1. /\ me[t].pc = "fail" /\ Ends(t) /\ cpGate' = None
          /\ cpStatus' \in CPStatuses /\ faults' \in 0..MaxFaults
          /\ UNCHANGED <<inst, provider, machines, cpWanted, sweep, rec, cpOps,
                         announced, unknown, displaced>>
      BY <1>0, <1>5 DEF MarkProvisionFailed, EndsProvision, loops, ghosts, Fault,
         CPStatuses, Shape, ConstantsOK
    <2>2. /\ me' \in [Threads -> MeSet]
          /\ me'[t].pc = "idle" /\ me'[t].job = "restart"
          /\ \A u \in Threads : u # t => me'[u] = me[u]
      BY <2>1, Ended
    <2>3. cpGate = t
      BY <1>0, <2>1 DEF HandOK, Gated
    <2> QED
      BY <1>0, <2>1, <2>2, <2>3, EndedOK, PlainStep DEF Aside, Shape
  <1> QED
    BY <1>1, <1>2, <1>3, <1>4, <1>5

LEMMA CycleSteps ==
    ASSUME LeakInv, Cycle
    PROVE  LeakInv'
  <1>0. Shape /\ HandOK(Restarter) /\ ConstantsOK /\ Restarter \in Threads
        /\ me[Restarter].hold \in Ids
    BY ShapeOf, IdsTyped DEF LeakInv, Threads
  <1>1. CASE CycleStarts
    <2>1. /\ me[Restarter].pc = "idle" /\ cpWanted' = FALSE
          /\ Moves(Restarter, "lock", me[Restarter].hold)
          /\ UNCHANGED <<cpStatus, inst, provider, machines, cpGate, sweep, rec, cpOps, faults,
                         announced, unknown, displaced>>
      BY <1>1 DEF CycleStarts, cpRow, loops, ghosts, GoesTo
    <2>2. /\ me' \in [Threads -> MeSet]
          /\ me'[Restarter].pc = "lock" /\ me'[Restarter].job = me[Restarter].job
          /\ \A u \in Threads : u # Restarter => me'[u] = me[u]
      BY <1>0, <2>1, Moved
    <2>3. HandOK(Restarter)'
      BY <1>0, <2>1, <2>2 DEF HandOK, Gated, JobOK
    <2> QED
      BY <1>0, <2>1, <2>2, <2>3, PlainStep DEF Aside, Shape
  <1>2. CASE CycleSelects
    <2>1. /\ me[Restarter].pc = "select"
          /\ \/ Moves(Restarter, "stop", me[Restarter].hold) /\ cpGate' = cpGate
             \/ Ends(Restarter) /\ cpGate' = None
          /\ UNCHANGED <<cpStatus, inst, provider, machines, cpWanted, sweep, rec, cpOps, faults,
                         announced, unknown, displaced>>
      BY <1>2 DEF CycleSelects, EndsProvision, cpRow, loops, ghosts, GoesTo
    <2>2. cpGate = Restarter
      BY <1>0, <2>1 DEF HandOK, Gated
    <2>3. /\ me' \in [Threads -> MeSet] /\ HandOK(Restarter)'
          /\ \A u \in Threads : u # Restarter => me'[u] = me[u]
      <3>1. CASE Moves(Restarter, "stop", me[Restarter].hold) /\ cpGate' = cpGate
        <4>1. /\ me' \in [Threads -> MeSet]
              /\ me'[Restarter].pc = "stop" /\ me'[Restarter].job = me[Restarter].job
              /\ \A u \in Threads : u # Restarter => me'[u] = me[u]
          BY <1>0, <3>1, Moved
        <4> QED
          BY <1>0, <2>2, <3>1, <4>1 DEF HandOK, Gated, JobOK
      <3>2. CASE Ends(Restarter)
        BY <1>0, <3>2, Ended, EndedOK
      <3> QED
        BY <2>1, <3>1, <3>2
    <2>4. cpGate' \in Threads \cup {None}
      BY <1>0, <2>1, <2>2
    <2> QED
      BY <1>0, <2>1, <2>2, <2>3, <2>4, PlainStep DEF Aside, Shape
  <1>3. CASE CycleMarks
    <2>1. /\ me[Restarter].pc = "mark" /\ cpStatus' \in CPStatuses /\ faults' \in 0..MaxFaults
          /\ Moves(Restarter, "start", me[Restarter].hold)
          /\ UNCHANGED <<inst, provider, machines, cpGate, cpWanted, sweep, rec, cpOps,
                         announced, unknown, displaced>>
      BY <1>0, <1>3 DEF CycleMarks, Fault, CPStatuses, loops, ghosts, GoesTo,
         Shape, ConstantsOK
    <2>2. /\ me' \in [Threads -> MeSet]
          /\ me'[Restarter].pc = "start" /\ me'[Restarter].job = me[Restarter].job
          /\ \A u \in Threads : u # Restarter => me'[u] = me[u]
      BY <1>0, <2>1, Moved
    <2>3. Spent(inst)'
      BY <1>0, <2>1 DEF HandOK, Spent, Running, Noted
    <2>4. HandOK(Restarter)'
      BY <1>0, <2>1, <2>2, <2>3 DEF HandOK, Gated, JobOK
    <2> QED
      BY <1>0, <2>1, <2>2, <2>4, PlainStep DEF Aside, Shape
  <1>4. CASE CycleLocks
    <2>1. /\ me[Restarter].pc = "lock" /\ cpGate = None /\ cpGate' = Restarter
          /\ Moves(Restarter, "select", me[Restarter].hold)
          /\ UNCHANGED <<cpStatus, inst, provider, machines, cpWanted, sweep, rec, cpOps, faults,
                         announced, unknown, displaced>>
      BY <1>4 DEF CycleLocks, cpRow, loops, ghosts, GoesTo
    <2>2. /\ me' \in [Threads -> MeSet]
          /\ me'[Restarter].pc = "select" /\ me'[Restarter].job = me[Restarter].job
          /\ \A u \in Threads : u # Restarter => me'[u] = me[u]
      BY <1>0, <2>1, Moved
    <2>3. HandOK(Restarter)'
      BY <1>0, <2>1, <2>2 DEF HandOK, Gated, JobOK
    <2> QED
      BY <1>0, <2>1, <2>2, <2>3, PlainStep DEF Aside, Shape
  <1> QED
    BY <1>1, <1>2, <1>3, <1>4 DEF Cycle

LEMMA OperatorSteps ==
    ASSUME LeakInv, NEW o \in CPOperators, SwitchProvider(o) \/ CascadeDelete(o) \/ Switches(o)
    PROVE  LeakInv'
  <1>0. Shape /\ HandOK(o) /\ ConstantsOK /\ o \in Threads /\ o # Restarter /\ o # None
        /\ me[o].hold \in Ids /\ inst \in Ids /\ Made(inst) /\ me[o] \in MeSet
    BY ShapeOf, IdsTyped DEF LeakInv, Threads, ConstantsOK, Shape
  <1>1. CASE SwitchProvider(o)
    <2>1. /\ me[o].pc = "idle" /\ cpOps' \in 0..MaxCPOps
          /\ me' = [me EXCEPT ![o] = [pc |-> "claim", job |-> "switch", hold |-> None,
                                      status |-> cpStatus, provider |-> provider]]
          /\ UNCHANGED <<cpStatus, inst, provider, machines, cpGate, cpWanted, sweep, rec, faults,
                         announced, unknown, displaced>>
      BY <1>0, <1>1 DEF SwitchProvider, Arrives, cpRow, loops, ghosts, Shape, ConstantsOK
    <2>2. [pc |-> "claim", job |-> "switch", hold |-> None,
           status |-> cpStatus, provider |-> provider] \in MeSet
      BY <1>0 DEF MeSet, Shape, Ids
    <2>3. /\ me' \in [Threads -> MeSet] /\ me'[o].pc = "claim" /\ me'[o].job = "switch"
          /\ \A u \in Threads : u # o => me'[u] = me[u]
      BY <1>0, <2>1, <2>2 DEF Shape
    <2>4. HandOK(o)'
      BY <1>0, <2>3 DEF HandOK, Gated, JobOK
    <2> QED
      BY <1>0, <2>1, <2>3, <2>4, PlainStep DEF Aside, Shape
  <1>2. CASE CascadeDelete(o)
    <2>1. /\ me[o].pc = "idle" /\ cpOps' \in 0..MaxCPOps
          /\ cpStatus' \in CPStatuses /\ faults' \in 0..MaxFaults
          /\ me' = [me EXCEPT ![o].pc = "stop", ![o].job = "delete"]
          /\ UNCHANGED <<inst, provider, machines, cpGate, cpWanted, sweep, rec,
                         announced, unknown, displaced>>
      BY <1>0, <1>2 DEF CascadeDelete, Arrives, Fault, CPStatuses, loops, ghosts,
         Shape, ConstantsOK
    <2>2. /\ me' \in [Threads -> MeSet] /\ me'[o].pc = "stop" /\ me'[o].job = "delete"
          /\ \A u \in Threads : u # o => me'[u] = me[u]
      BY <1>0, <2>1 DEF Shape, MeSet
    <2>3. HandOK(o)'
      BY <1>0, <2>2 DEF HandOK, Gated, JobOK
    <2> QED
      BY <1>0, <2>1, <2>2, <2>3, PlainStep DEF Aside, Shape
  <1>3. CASE SwitchClaims(o)
    <2>1. /\ me[o].pc = "claim" /\ cpStatus' \in CPStatuses
          /\ Moves(o, "stop", me[o].hold) \/ Ends(o)
          /\ UNCHANGED <<inst, provider, machines, cpGate, cpWanted, sweep, rec, cpOps, faults,
                         announced, unknown, displaced>>
      BY <1>0, <1>3 DEF SwitchClaims, GoesTo, CPStatuses, loops, ghosts, Shape
    <2>2. /\ me' \in [Threads -> MeSet] /\ HandOK(o)'
          /\ \A u \in Threads : u # o => me'[u] = me[u]
      <3>1. CASE Moves(o, "stop", me[o].hold)
        <4>1. /\ me' \in [Threads -> MeSet]
              /\ me'[o].pc = "stop" /\ me'[o].job = me[o].job
              /\ \A u \in Threads : u # o => me'[u] = me[u]
          BY <1>0, <3>1, Moved
        <4> QED
          BY <1>0, <2>1, <4>1 DEF HandOK, Gated, JobOK
      <3>2. CASE Ends(o)
        BY <1>0, <3>2, Ended, EndedOK
      <3> QED
        BY <2>1, <3>1, <3>2
    <2> QED
      BY <1>0, <2>1, <2>2, PlainStep DEF Aside, Shape
  <1>4. CASE SwitchWrites(o)
    <2>0. me[o].pc = "write" /\ Made(me[o].hold) /\ Spent(me[o].hold) /\ me[o].job = "switch"
      BY <1>0, <1>4 DEF SwitchWrites, HandOK, JobOK
    <2>1. CASE /\ inst' = None /\ provider' = Other(me[o].provider)
               /\ displaced' = displaced \cup LostByClear(me[o].hold)
               /\ Moves(o, "lock", me[o].hold)
               /\ UNCHANGED <<cpStatus, machines, cpGate, cpWanted, sweep, rec, cpOps, faults,
                              announced, unknown>>
      <3>1. /\ me' \in [Threads -> MeSet]
            /\ me'[o].pc = "lock" /\ me'[o].job = me[o].job
            /\ \A u \in Threads : u # o => me'[u] = me[u]
        BY <1>0, <2>1, Moved
      <3>2. HandOK(o)'
        BY <1>0, <2>0, <3>1 DEF HandOK, Gated, JobOK
      <3>3. provider' \in Providers
        <4>1. \E q \in Providers : q # me[o].provider
          BY DEF Providers
        <4> QED
          BY <2>1, <4>1 DEF Other
      <3>4. displaced' \subseteq Boxes /\ Noted \subseteq Noted'
        BY <1>0, <2>1 DEF Shape, LostByClear, Running, Ids, Noted
      <3>5. Aging
        BY <2>1, <3>4, StillAges
      <3>6. Shape'
        BY <1>0, <2>1, <3>1, <3>3, <3>4 DEF Shape, Ids
      <3>7. inst # None => inst \in Noted' \/ machines'[inst] # "running"
        <4>1. CASE inst = me[o].hold
          BY <2>0, <2>1, <3>4, <4>1 DEF Spent, Running
        <4>2. CASE inst # me[o].hold
          BY <2>1, <4>2 DEF LostByClear, Running, Noted
        <4> QED
          BY <4>1, <4>2
      <3> QED
        BY <1>0, <2>0, <2>1, <3>1, <3>2, <3>5, <3>6, <3>7, ThreadStep
    <2>2. CASE /\ Moves(o, "revert", me[o].hold) /\ faults' \in 0..MaxFaults
               /\ UNCHANGED <<cpStatus, inst, provider, machines, cpGate, cpWanted, sweep, rec, cpOps,
                              announced, unknown, displaced>>
      <3>1. /\ me' \in [Threads -> MeSet]
            /\ me'[o].pc = "revert" /\ me'[o].job = me[o].job
            /\ \A u \in Threads : u # o => me'[u] = me[u]
        BY <1>0, <2>2, Moved
      <3>2. HandOK(o)'
        BY <1>0, <2>0, <3>1 DEF HandOK, Gated, JobOK
      <3> QED
        BY <1>0, <2>0, <2>2, <3>1, <3>2, PlainStep DEF Aside, Shape
    <2> QED
      BY <1>0, <1>4, <2>1, <2>2 DEF SwitchWrites, GoesTo, Fault, loops, Shape, ConstantsOK
  <1>5. CASE SwitchReverts(o)
    <2>1. /\ me[o].pc = "revert" /\ Ends(o) /\ cpStatus' \in CPStatuses
          /\ UNCHANGED <<inst, provider, machines, cpGate, cpWanted, sweep, rec, cpOps, faults,
                         announced, unknown, displaced>>
      BY <1>0, <1>5 DEF SwitchReverts, loops, ghosts, Shape, MeSet
    <2> QED
      BY <1>0, <2>1, Ended, EndedOK, PlainStep DEF Aside, Shape
  <1>6. CASE SwitchProvisions(o)
    <2>1. /\ me[o].pc = "lock" /\ cpGate = None /\ cpGate' = o
          /\ Moves(o, "start", me[o].hold)
          /\ UNCHANGED <<cpStatus, inst, provider, machines, cpWanted, sweep, rec, cpOps, faults,
                         announced, unknown, displaced>>
      BY <1>6 DEF SwitchProvisions, GoesTo, cpRow, loops, ghosts
    <2>2. /\ me' \in [Threads -> MeSet]
          /\ me'[o].pc = "start" /\ me'[o].job = me[o].job
          /\ \A u \in Threads : u # o => me'[u] = me[u]
      BY <1>0, <2>1, Moved
    <2>3. HandOK(o)'
      BY <1>0, <2>1, <2>2 DEF HandOK, Gated, JobOK
    <2> QED
      BY <1>0, <2>1, <2>2, <2>3, PlainStep DEF Aside, Shape
  <1> QED
    BY <1>1, <1>2, <1>3, <1>4, <1>5, <1>6 DEF Switches

\* A step of a loop, of an agent or of a machine: no goroutine moves.
LEMMA LoopStep ==
    ASSUME LeakInv, Shape', Aging, UNCHANGED <<me, cpGate>>, inst' \in {inst, None},
           rec'.pc # "idle" => rec'.hold = inst \/ (rec.pc # "idle" /\ rec'.hold = rec.hold),
           \A b \in Boxes : machines'[b] = "running" => machines[b] = "running",
           inst' # inst /\ inst # None => inst \in Noted' \/ machines'[inst] # "running",
           LoopsOK'
    PROVE  LeakInv'
  <1>1. ASSUME NEW t \in Threads  PROVE HandOK(t)'
    <2>1. me'[t] = me[t] /\ cpGate' = cpGate
      OBVIOUS
    <2> QED
      BY <2>1, OthersKept
  <1>2. LeaksAnnounced'
    <2>1. \A b \in Boxes : machines[b] = "none" /\ machines'[b] = "running" =>
             b \in Noted' \/ \E u \in Threads : me'[u].pc = "persist" /\ me'[u].hold = b
      OBVIOUS
    <2> QED
      BY <2>1, LeaksKept
  <1> QED
    BY <1>1, <1>2, TypesOf DEF LeakInv, ConstantsOK, Boxes, Threads

\* A step that leaves the loops where they are, and machines to age.
LEMMA QuietStep ==
    ASSUME LeakInv, Shape', Aging, UNCHANGED <<me, cpGate, inst, sweep, rec>>,
           \A b \in Boxes : machines'[b] = "running" => machines[b] = "running"
    PROVE  LeakInv'
  <1>1. LoopsOK'
    BY LoopsKept
  <1> QED
    BY <1>1, LoopStep

LEMMA OutsideSteps ==
    ASSUME LeakInv, RestartByID \/ MachineRegisters \/ \E b \in Boxes : BoxDies(b)
    PROVE  LeakInv'
  <1>0. Shape /\ ConstantsOK
    BY ShapeOf DEF LeakInv
  <1>1. CASE RestartByID \/ MachineRegisters
    <2>0. cpWanted' \in BOOLEAN
      <3>1. CASE RestartByID
        BY <3>1 DEF RestartByID
      <3>2. CASE MachineRegisters
        <4>1. cpWanted' = cpWanted
          BY <3>2 DEF MachineRegisters
        <4> QED
          BY <1>0, <4>1 DEF Shape
      <3> QED
        BY <1>1, <3>1, <3>2
    <2>1. /\ UNCHANGED <<inst, provider, machines, cpGate, me, sweep, rec, faults,
                         announced, unknown, displaced>>
          /\ cpStatus' \in CPStatuses /\ cpOps' \in 0..MaxCPOps
      BY <1>0, <1>1 DEF RestartByID, MachineRegisters, Arrives, cpRow, local, loops,
         ghosts, CPStatuses, Shape, ConstantsOK
    <2>2. Shape' /\ Aging
      BY <1>0, <2>0, <2>1, StillAges DEF Shape, Noted
    <2> QED
      BY <2>1, <2>2, QuietStep
  <1>2. CASE \E b \in Boxes : BoxDies(b)
    <2>0. PICK b \in Boxes : BoxDies(b)
      BY <1>2
    <2>1. /\ UNCHANGED <<cpStatus, inst, provider, cpGate, me, cpWanted, sweep, rec, cpOps,
                         announced, unknown, displaced>>
          /\ machines' = Terminated(b) /\ Made(b) /\ b \in Ids /\ faults' \in 0..MaxFaults
      BY <1>0, <2>0 DEF BoxDies, Fault, Running, cpRow, local, loops, ghosts,
         Made, Shape, ConstantsOK, Ids
    <2>2. /\ machines' \in [Boxes -> {"none", "running", "gone"}]
          /\ \A c \in Boxes : machines[c] # "none" => machines'[c] # "none"
          /\ \A c \in Boxes : machines'[c] = "running" => machines[c] = "running"
      BY <2>1, TerminatedAges
    <2>3. Aging
      BY <2>1, <2>2 DEF Aging, Noted
    <2>4. Shape'
      BY <1>0, <2>1, <2>2 DEF Shape, Ids
    <2> QED
      BY <2>1, <2>2, <2>3, <2>4, QuietStep
  <1> QED
    BY <1>1, <1>2

\* The sweep clears the row only of what it has seen stopped.
LEMMA SweepSteps ==
    ASSUME LeakInv, Sweeper
    PROVE  LeakInv'
  <1>0. Shape /\ LoopsOK /\ ConstantsOK /\ inst \in Ids /\ Made(inst)
        /\ sweep.hold \in Ids /\ rec.hold \in Ids /\ None \in Ids
    BY ShapeOf, IdsTyped DEF LeakInv, Ids
  <1>1. CASE SweepSelects \/ SweepResolves
    <2>1. /\ UNCHANGED <<cpStatus, inst, provider, machines, cpGate, me, cpWanted, rec, cpOps, faults,
                         announced, unknown, displaced>>
          /\ \/ sweep' = [sweep EXCEPT !.pc = "stop"]
             \/ sweep' = [pc |-> "terminate", hold |-> inst]
      BY <1>1 DEF SweepSelects, SweepResolves, cpRow, local, ghosts
    <2>2. /\ sweep' \in [pc : {"idle", "stop", "terminate", "clear"}, hold : Ids]
          /\ sweep'.pc = "stop" \/ (sweep'.pc = "terminate" /\ sweep'.hold = inst)
      BY <1>0, <2>1 DEF Shape
    <2>3. Shape' /\ Aging
      BY <1>0, <2>1, <2>2, StillAges DEF Shape, Noted
    <2>4. LoopsOK'
      BY <1>0, <2>1, <2>2 DEF LoopsOK, Made, Spent, Running, Noted
    <2> QED
      BY <2>1, <2>3, <2>4, LoopStep
  <1>2. CASE SweepTerminates
    <2>0. sweep.pc = "terminate" /\ Made(sweep.hold)
      BY <1>0, <1>2 DEF SweepTerminates, LoopsOK
    <2>1. /\ UNCHANGED <<cpStatus, inst, provider, cpGate, me, cpWanted, rec, cpOps,
                         announced, unknown, displaced>>
          /\ faults' \in 0..MaxFaults /\ machines' \in {machines, Terminated(sweep.hold)}
          /\ \/ machines' = Terminated(sweep.hold) /\ sweep' = [sweep EXCEPT !.pc = "clear"]
             \/ sweep' = AtRest
      BY <1>0, <1>2 DEF SweepTerminates, TerminateFails, AfterFailedStop, Fault,
         cpRow, local, ghosts, Shape, ConstantsOK
    <2>2. /\ machines' \in [Boxes -> {"none", "running", "gone"}]
          /\ \A c \in Boxes : machines[c] # "none" => machines'[c] # "none"
          /\ \A c \in Boxes : machines'[c] = "running" => machines[c] = "running"
      BY <1>0, <2>0, <2>1, TerminatedAges
    <2>3. Aging
      BY <2>1, <2>2 DEF Aging, Noted
    <2>4. /\ sweep' \in [pc : {"idle", "stop", "terminate", "clear"}, hold : Ids]
          /\ sweep'.pc \in {"clear", "idle"}
          /\ sweep'.pc = "clear" => sweep'.hold = sweep.hold /\ machines' = Terminated(sweep.hold)
      BY <1>0, <2>1 DEF Shape, AtRest
    <2>5. Shape'
      BY <1>0, <2>1, <2>2, <2>4 DEF Shape, Ids
    <2>6. LoopsOK'
      <3>1. sweep'.pc = "clear" => Made(sweep.hold)' /\ Spent(sweep.hold)'
        <4>1. SUFFICES ASSUME sweep'.pc = "clear"  PROVE Made(sweep.hold)' /\ Spent(sweep.hold)'
          OBVIOUS
        <4>2. sweep'.hold = sweep.hold /\ machines' = Terminated(sweep.hold)
          BY <2>4, <4>1
        <4>3. sweep.hold # None => machines'[sweep.hold] = "gone"
          BY <1>0, <4>2 DEF Terminated, Shape, Ids
        <4> QED
          BY <4>2, <4>3 DEF Made, Spent, Running
      <3>2. rec.pc # "idle" => rec.hold # None /\ Made(rec.hold)'
        BY <1>0, <2>1, <2>2 DEF LoopsOK, Made, Ids
      <3>3. rec.pc = "confirm" /\ inst = rec.hold => ~Running(inst)'
        BY <1>0, <2>1, <2>2 DEF LoopsOK, Running, Ids
      <3> QED
        BY <2>1, <2>4, <3>1, <3>2, <3>3 DEF LoopsOK
    <2> QED
      BY <1>0, <2>1, <2>2, <2>3, <2>5, <2>6, LoopStep
  <1>3. CASE SweepClears
    <2>0. sweep.pc = "clear" /\ Spent(sweep.hold)
      BY <1>0, <1>3 DEF SweepClears, LoopsOK
    <2>1. /\ UNCHANGED <<cpStatus, provider, machines, cpGate, me, cpWanted, rec, cpOps,
                         announced, unknown>>
          /\ faults' \in 0..MaxFaults /\ sweep' = AtRest
          /\ \/ inst' = None /\ displaced' = displaced \cup LostByClear(sweep.hold)
             \/ UNCHANGED <<inst, displaced>>
      BY <1>0, <1>3 DEF SweepClears, Fault, local, Shape, ConstantsOK
    <2>2. displaced' \subseteq Boxes /\ Noted \subseteq Noted'
      BY <1>0, <2>1 DEF Shape, LostByClear, Running, Ids, Noted
    <2>3. Aging
      BY <2>1, <2>2, StillAges
    <2>4. sweep' \in [pc : {"idle", "stop", "terminate", "clear"}, hold : Ids] /\ sweep'.pc = "idle"
      BY <1>0, <2>1 DEF AtRest
    <2>5. Shape'
      BY <1>0, <2>1, <2>2, <2>4 DEF Shape, Ids
    <2>6. inst' # inst /\ inst # None => inst \in Noted' \/ machines'[inst] # "running"
      <3>1. CASE inst = sweep.hold
        BY <2>0, <2>1, <2>2, <3>1 DEF Spent, Running
      <3>2. CASE inst # sweep.hold
        BY <2>1, <3>2 DEF LostByClear, Running, Noted
      <3> QED
        BY <3>1, <3>2
    <2>7. LoopsOK'
      <3>1. ~(None # None /\ machines'[None] = "running")
        OBVIOUS
      <3> QED
        BY <1>0, <2>1, <2>4, <3>1 DEF LoopsOK, Made, Running
    <2> QED
      BY <1>0, <2>1, <2>3, <2>5, <2>6, <2>7, LoopStep
  <1> QED
    BY <1>1, <1>2, <1>3 DEF Sweeper

\* The reconciler holds the id the row named, and goes on to restart only when
\* the machine the row names is not running.
LEMMA ReconcilerSteps ==
    ASSUME LeakInv, Reconciler
    PROVE  LeakInv'
  <1>0. Shape /\ LoopsOK /\ ConstantsOK /\ inst \in Ids /\ Made(inst)
        /\ sweep.hold \in Ids /\ rec.hold \in Ids /\ None \in Ids
    BY ShapeOf, IdsTyped DEF LeakInv, Ids
  <1>5. cpWanted' \in BOOLEAN
    <2>1. CASE Reconfirm
      <3>1. CASE cpWanted' = (cpWanted \/ Reconfirmed)
        BY <3>1
      <3>2. CASE cpWanted' = cpWanted
        BY <1>0, <3>2 DEF Shape
      <3> QED
        BY <2>1, <3>1, <3>2 DEF Reconfirm
    <2>2. CASE ReconcileSelects \/ Probe
      <3>1. cpWanted' = cpWanted
        BY <2>2 DEF ReconcileSelects, Probe
      <3> QED
        BY <1>0, <3>1 DEF Shape
    <2> QED
      BY <2>1, <2>2 DEF Reconciler
  <1>1. /\ UNCHANGED <<cpStatus, inst, provider, machines, cpGate, me, sweep, cpOps,
                       announced, unknown, displaced>>
        /\ faults' \in 0..MaxFaults
        /\ \/ rec' = AtRest
           \/ rec' = [pc |-> "probe", hold |-> inst] /\ inst # None
           \/ rec' = [rec EXCEPT !.pc = "confirm"] /\ rec.pc = "probe" /\ ~Running(inst)
    <2>1. CASE ReconcileSelects
      BY <1>0, <2>1 DEF ReconcileSelects, Reconciled, cpRow, local, ghosts, Shape
    <2>2. CASE Probe
      BY <1>0, <2>2 DEF Probe, NotRunning, Fault, cpRow, local, ghosts, Shape,
         ConstantsOK
    <2>3. CASE Reconfirm
      BY <1>0, <2>3 DEF Reconfirm, Fault, cpRow, local, ghosts, Shape, ConstantsOK
    <2> QED
      BY <2>1, <2>2, <2>3 DEF Reconciler
  <1>2. /\ rec' \in [pc : {"idle", "probe", "confirm"}, hold : Ids]
        /\ \/ rec'.pc = "idle"
           \/ rec'.pc = "probe" /\ rec'.hold = inst /\ inst # None
           \/ rec'.pc = "confirm" /\ rec'.hold = rec.hold /\ rec.pc = "probe" /\ ~Running(inst)
    BY <1>0, <1>1 DEF Shape, AtRest
  <1>3. Shape' /\ Aging
    BY <1>0, <1>5, <1>1, <1>2, StillAges DEF Shape, Noted
  <1>4. LoopsOK'
    BY <1>0, <1>1, <1>2 DEF LoopsOK, Made, Spent, Running, Noted
  <1> QED
    BY <1>1, <1>2, <1>3, <1>4, LoopStep

\* A crash takes the ids on their way to the row along.
LEMMA CrashStep ==
    ASSUME LeakInv, Crash
    PROVE  LeakInv'
  <1>0. Shape /\ ConstantsOK /\ \A t \in Threads : HandOK(t)
    BY ShapeOf DEF LeakInv
  <1>1. /\ UNCHANGED <<cpStatus, inst, provider, machines, cpOps, announced, displaced>>
        /\ faults' \in 0..MaxFaults /\ me' = [t \in Threads |-> Idle]
        /\ cpGate' = None /\ cpWanted' = FALSE /\ sweep' = AtRest /\ rec' = AtRest
        /\ unknown' = unknown \cup {me[t].hold : t \in {u \in Threads : me[u].pc = "persist"}}
    BY <1>0 DEF Crash, Fault, cpRow, Shape, ConstantsOK
  <1>2. Idle \in MeSet /\ Idle.pc = "idle" /\ Idle.job = "restart"
    BY DEF Idle, MeSet, Ids, CPStatuses, Providers
  <1>3. /\ me' \in [Threads -> MeSet]
        /\ \A t \in Threads : me'[t].pc = "idle" /\ me'[t].job = "restart"
    BY <1>1, <1>2
  <1>4. sweep'.pc = "idle" /\ sweep'.hold = None /\ rec'.pc = "idle" /\ rec'.hold = None
        /\ sweep' \in [pc : {"idle", "stop", "terminate", "clear"}, hold : Ids]
        /\ rec' \in [pc : {"idle", "probe", "confirm"}, hold : Ids]
    BY <1>1 DEF AtRest, Ids
  <1>5. unknown' \subseteq Boxes /\ Noted \subseteq Noted'
    <2>1. \A t \in Threads : me[t].pc = "persist" => me[t].hold \in Boxes
      BY <1>0, IdsTyped DEF HandOK, Ids
    <2> QED
      BY <1>0, <1>1, <2>1 DEF Shape, Noted
  <1>6. Shape'
    BY <1>0, <1>1, <1>3, <1>4, <1>5 DEF Shape
  <1>7. Aging
    BY <1>1, <1>5, StillAges
  <1>8. \A t \in Threads : HandOK(t)'
    BY <1>3, EndedOK
  <1>9. LoopsOK'
    BY <1>4 DEF LoopsOK
  <1>10. LeaksAnnounced'
    <2>1. \A t \in Threads : me[t].pc = "persist" => me[t].hold \in Noted'
      BY <1>1 DEF Noted
    <2> QED
      BY <1>1, <1>7, <2>1, LeaksKept
  <1> QED
    BY <1>0, <1>6, <1>8, <1>9, <1>10, TypesOf DEF LeakInv, ConstantsOK, Boxes, Threads

LEMMA LeakInit ==
    ASSUME ConstantsOK, CPInit
    PROVE  LeakInv
  <1>1. /\ cpStatus = "provisioning" /\ inst = None /\ provider = "aws"
        /\ machines = [b \in Boxes |-> "none"] /\ cpGate = Restarter
        /\ me = [t \in Threads |-> IF t = Restarter THEN [Idle EXCEPT !.pc = "start"] ELSE Idle]
        /\ cpWanted = FALSE /\ sweep = AtRest /\ rec = AtRest /\ cpOps = 0 /\ faults = 0
        /\ announced = {} /\ unknown = {} /\ displaced = {}
    BY DEF CPInit
  <1>2. /\ Idle \in MeSet /\ Idle.pc = "idle" /\ Idle.job = "restart"
        /\ [Idle EXCEPT !.pc = "start"] \in MeSet
        /\ [Idle EXCEPT !.pc = "start"].pc = "start"
        /\ [Idle EXCEPT !.pc = "start"].job = "restart"
    BY DEF Idle, MeSet, Ids, CPStatuses, Providers
  <1>3. /\ me \in [Threads -> MeSet]
        /\ \A t \in Threads : /\ me[t].job = "restart"
                                 /\ me[t].pc = IF t = Restarter THEN "start" ELSE "idle"
    BY <1>1, <1>2
  <1>4. /\ sweep.pc = "idle" /\ rec.pc = "idle"
        /\ sweep \in [pc : {"idle", "stop", "terminate", "clear"}, hold : Ids]
        /\ rec \in [pc : {"idle", "probe", "confirm"}, hold : Ids]
    BY <1>1 DEF AtRest, Ids
  <1>5. Shape
    <2>1. cpWanted \in BOOLEAN
      BY <1>1
    <2>2. cpOps \in 0..MaxCPOps /\ faults \in 0..MaxFaults
      BY <1>1 DEF ConstantsOK
    <2>3. machines \in [Boxes -> {"none", "running", "gone"}]
      BY <1>1
    <2>4. cpStatus \in CPStatuses /\ provider \in Providers
          /\ inst \in Ids /\ inst = None /\ cpGate \in Threads \cup {None}
          /\ announced \subseteq Boxes /\ unknown \subseteq Boxes /\ displaced \subseteq Boxes
      BY <1>1 DEF Ids, CPStatuses, Providers, Threads
    <2> QED
      BY <1>3, <1>4, <2>1, <2>2, <2>3, <2>4 DEF Shape
  <1>6. ASSUME NEW t \in Threads  PROVE HandOK(t)
    <2>1. Spent(inst)
      BY <1>1 DEF Spent, Running
    <2>2. CASE t = Restarter
      <3>1. me[t].pc = "start" /\ me[t].job = "restart"
        BY <1>3, <2>2
      <3> QED
        BY <1>1, <2>1, <2>2, <3>1 DEF HandOK, Gated, JobOK
    <2>3. CASE t # Restarter
      <3>1. me[t].pc = "idle" /\ me[t].job = "restart"
        BY <1>3, <2>3
      <3> QED
        BY <2>3, <3>1 DEF HandOK, Gated, JobOK
    <2> QED
      BY <2>2, <2>3
  <1>7. CPTypeOK
    BY <1>5, <1>6 DEF CPTypeOK, Shape, MeSet, HandOK, Gated
  <1>8. LoopsOK /\ LeaksAnnounced
    BY <1>1, <1>4 DEF LoopsOK, LeaksAnnounced, Running
  <1> QED
    BY <1>6, <1>7, <1>8 DEF LeakInv

LEMMA LeakStutter ==
    ASSUME LeakInv, UNCHANGED cpVars
    PROVE  LeakInv'
  <1>1. UNCHANGED <<cpStatus, inst, provider, machines, cpGate, me, cpWanted, sweep, rec, cpOps,
                    faults, announced, unknown, displaced>>
    BY DEF cpVars, cpRow, local, loops, ghosts
  <1>2. Shape' /\ Aging
    BY <1>1, ShapeOf, StillAges DEF Shape, Noted
  <1> QED
    BY <1>1, <1>2, QuietStep

LEMMA LeakNext ==
    ASSUME LeakInv, [CPNext]_cpVars
    PROVE  LeakInv'
  <1>1. ASSUME NEW t \in Threads, Works(t)  PROVE LeakInv'
    BY <1>1, StopSteps, ProvisionSteps DEF Works
  <1>2. ASSUME NEW o \in CPOperators, SwitchProvider(o) \/ CascadeDelete(o) \/ Switches(o)  PROVE LeakInv'
    BY <1>2, OperatorSteps
  <1>3. CASE RestartByID \/ MachineRegisters \/ \E b \in Boxes : BoxDies(b)
    BY <1>3, OutsideSteps
  <1>4. CASE Cycle
    BY <1>4, CycleSteps
  <1>5. CASE Sweeper
    BY <1>5, SweepSteps
  <1>6. CASE Reconciler
    BY <1>6, ReconcilerSteps
  <1>7. CASE Crash
    BY <1>7, CrashStep
  <1>8. CASE UNCHANGED cpVars
    BY <1>8, LeakStutter
  <1> QED
    BY <1>1, <1>2, <1>3, <1>4, <1>5, <1>6, <1>7, <1>8 DEF CPNext

\* A restart the reconciler asks for: the re-read has found in the row the id
\* that the SELECT found, and that machine was not running at the probe.
LEMMA ReconcilerLooksTwice ==
    ASSUME LeakInv, [CPNext]_cpVars, rec.pc = "confirm", ~cpWanted, cpWanted', rec'.pc = "idle"
    PROVE  inst # None /\ ~Running(inst)
  <1>1. CASE rec' = rec
    BY <1>1
  <1>2. CASE cpWanted' = cpWanted
    BY <1>2
  <1>3. CASE Reconfirm
    <2>1. LoopsOK
      BY DEF LeakInv
    <2>2. CASE cpWanted' = (cpWanted \/ Reconfirmed)
      <3>1. Reconfirmed
        BY <2>2
      <3> QED
        BY <2>1, <3>1 DEF Reconfirmed, LoopsOK
    <2>3. CASE cpWanted' = cpWanted
      BY <2>3
    <2> QED
      BY <1>3, <2>2, <2>3 DEF Reconfirm
  <1>4. CASE ReconcileSelects \/ Probe
    BY <1>4, <1>2 DEF ReconcileSelects, Probe
  <1>5. CASE Crash
    <2>1. cpWanted' = FALSE
      BY <1>5 DEF Crash
    <2> QED
      BY <2>1
  <1>6. ASSUME NEW t \in Threads, Works(t)  PROVE cpWanted' = cpWanted
    BY <1>6 DEF Works, StopResolves, StopTerminates, StopAbandoned, StartMakes,
       StartFails, Persist, PersistFails, MarkProvisionFailed
  <1>7. ASSUME NEW o \in CPOperators, SwitchProvider(o) \/ CascadeDelete(o) \/ Switches(o)
        PROVE  cpWanted' = cpWanted
    BY <1>7 DEF SwitchProvider, CascadeDelete, Switches, SwitchClaims, SwitchWrites,
       SwitchReverts, SwitchProvisions
  <1>8. CASE RestartByID \/ Cycle
    <2>1. rec' = rec
      BY <1>8 DEF RestartByID, Cycle, CycleStarts, CycleLocks, CycleSelects,
         CycleMarks, loops
    <2> QED
      BY <1>1, <2>1
  <1>9. CASE Sweeper \/ MachineRegisters \/ \E b \in Boxes : BoxDies(b)
    <2>1. cpWanted' = cpWanted
      BY <1>9 DEF Sweeper, SweepSelects, SweepResolves, SweepTerminates,
         SweepClears, MachineRegisters, BoxDies
    <2> QED
      BY <1>2, <2>1
  <1>10. CASE UNCHANGED cpVars
    BY <1>2, <1>10 DEF cpVars
  <1> QED
    BY <1>2, <1>3, <1>4, <1>5, <1>6, <1>7, <1>8, <1>9, <1>10 DEF CPNext, Reconciler

\* LeakInv is an invariant of the control-plane backend.
LEMMA LeakInvariance ==
    CPSpec => []LeakInv
  <1>1. CPInit => LeakInv
    BY LeakInit, ControlPlaneAssumption
  <1>2. LeakInv /\ [CPNext]_cpVars => LeakInv'
    BY LeakNext
  <1> QED
    BY <1>1, <1>2, PTL DEF CPSpec

\* The row, the machines, the goroutines of restart and switch and the two loops
\* keep their types, for any number of machines, requests and faults.
THEOREM MachineTypes == CPSpec => []CPTypeOK
BY LeakInvariance, PTL DEF LeakInv

\* No machine is lost without a word: however restarts, provider switches,
\* deletes, the two loops, failed calls and crashes interleave, a running
\* machine is the one the row names, or in the hands of the goroutine that
\* made it, or announced, or one the platform never learnt of, or one whose id
\* a switch or the sweep wrote over.
THEOREM MachinesAccounted ==
    CPSpec => []LeaksAnnounced
  <1>1. LeakInv => LeaksAnnounced
    BY DEF LeakInv
  <1> QED
    BY <1>1, LeakInvariance, PTL

\* reconcileOnce restarts no living machine, although IsRunning resolves the
\* instance id for itself and may have asked about another machine: the re-read
\* of reconfirmStillOfflineCandidate is enough.
THEOREM ReconcilerSparesLiving ==
    CPSpec => SparesLiving
  <1>1. LeakInv /\ [CPNext]_cpVars =>
          [rec.pc = "confirm" /\ ~cpWanted /\ cpWanted' /\ rec'.pc = "idle"
              => inst # None /\ ~Running(inst)]_cpVars
    BY ReconcilerLooksTwice
  <1> QED
    BY <1>1, LeakInvariance, PTL DEF CPSpec, SparesLiving

-----------------------------------------------------------------------------
(* The cycle and the provider switches on the control plane keep the       *)
(* contract of RestartCycles.                                              *)

\* A restart cycle past the gate's Lock holds the gate, and so does a switch
\* that provisions.
LEMMA WorkHoldsGate ==
    ASSUME LeakInv
    PROVE  /\ me[Restarter].pc \notin {"idle", "lock"} => cpGate = Restarter
           /\ me[Restarter].job = "restart"
           /\ \A t \in Threads : me[t].pc \in {"persist", "fail"} => cpGate = t
  <1>1. Restarter \in Threads /\ me[Restarter] \in MeSet
    BY ShapeOf DEF Shape, Threads
  <1>2. HandOK(Restarter) /\ \A t \in Threads : HandOK(t)
    BY <1>1 DEF LeakInv
  <1>3. me[Restarter].pc \notin {"idle", "lock"} => Gated(Restarter)
    BY <1>1, <1>2 DEF HandOK, JobOK, Gated, MeSet
  <1> QED
    BY <1>2, <1>3 DEF HandOK, JobOK, Gated

\* Where goroutines are after a move and after an end.
LEMMA MovesTo ==
    ASSUME LeakInv, NEW t \in Threads, NEW l, NEW b, Moves(t, l, b)
    PROVE  me'[t].pc = l /\ \A u \in Threads : u # t => me'[u] = me[u]
  BY ShapeOf DEF Shape, Moves, MeSet

\* The cycle stays where it is, or moves on with the gate in hand.
LEMMA CycleWorksOn ==
    ASSUME UNCHANGED <<cpWanted, cpGate>>,
           \/ me'[Restarter].pc = me[Restarter].pc
           \/ {me[Restarter].pc, me'[Restarter].pc} \cap {"idle", "lock"} = {}
    PROVE  [MachineCycles!Next]_(MachineCycles!cvars)
  BY DEF MachineCycles!cvars

\* The cycle is over.
LEMMA CycleEnds ==
    ASSUME LeakInv, UNCHANGED cpWanted, me[Restarter].pc \notin {"idle", "lock"},
           me'[Restarter].pc = "idle", cpGate' = None
    PROVE  [MachineCycles!Next]_(MachineCycles!cvars)
  <1>1. MachineCycles!End
    BY WorkHoldsGate DEF MachineCycles!End
  <1> QED
    BY <1>1 DEF MachineCycles!Next

\* Stops, starts and the statements around them, of the cycle or of a switch.
LEMMA WorkCycles ==
    ASSUME LeakInv, NEW t \in Threads, Works(t)
    PROVE  [MachineCycles!Next]_(MachineCycles!cvars)
  <1>0. /\ me[Restarter].job = "restart" /\ Restarter \in Threads
        /\ t # Restarter => t \in CPOperators
    BY WorkHoldsGate DEF Threads
  <1>1. CASE Persist(t) \/ MarkProvisionFailed(t)
    <2>1. me[t].pc \in {"persist", "fail"} /\ cpGate' = None /\ UNCHANGED cpWanted
      BY <1>1 DEF Persist, MarkProvisionFailed, EndsProvision
    <2>2. /\ me'[t].pc = "idle" /\ cpGate = t
          /\ \A u \in Threads : u # t => me'[u] = me[u]
      BY <1>1, <2>1, Ended, WorkHoldsGate DEF Persist, MarkProvisionFailed, EndsProvision
    <2>3. CASE t = Restarter
      BY <2>1, <2>2, <2>3, CycleEnds
    <2>4. CASE t # Restarter
      <3>1. MachineCycles!UserLeaves(t)
        BY <1>0, <2>1, <2>2, <2>4 DEF MachineCycles!UserLeaves
      <3> QED
        BY <1>0, <2>4, <3>1 DEF MachineCycles!Next
    <2> QED
      BY <2>3, <2>4
  <1>2. CASE \/ StopResolves(t) \/ StopTerminates(t) \/ StopAbandoned(t)
             \/ StartMakes(t) \/ StartFails(t) \/ PersistFails(t)
    <2>1. /\ UNCHANGED <<cpWanted, cpGate>>
          /\ me[t].pc \in {"stop", "terminate", "start", "persist"}
      BY <1>2 DEF StopResolves, StopTerminates, StopAbandoned, StartMakes, StartFails,
         PersistFails
    <2>2. CASE t # Restarter
      <3>0. me[t].job \in {"restart", "switch", "delete"}
        BY ShapeOf DEF Shape, MeSet
      <3>1. \/ Ends(t)
            \/ \E l, b : Moves(t, l, b)
        BY <1>2, <3>0 DEF StopResolves, StopTerminates, StopAbandoned, StartMakes, StartFails,
           PersistFails, AfterStop, GoesTo
      <3>2. me'[Restarter] = me[Restarter]
        BY <1>0, <2>2, <3>1, MovesTo, Ended
      <3> QED
        BY <2>1, <3>2, CycleWorksOn
    <2>3. CASE t = Restarter
      <3>1. \E l \in {"terminate", "mark", "persist", "fail"} : \E b : Moves(t, l, b)
        BY <1>0, <1>2, <2>3 DEF StopResolves, StopTerminates, StopAbandoned, StartMakes,
           StartFails, PersistFails, AfterStop, GoesTo
      <3>2. me'[t].pc \in {"terminate", "mark", "persist", "fail"}
        BY <3>1, MovesTo
      <3> QED
        BY <2>1, <2>3, <3>2, CycleWorksOn
    <2> QED
      BY <2>2, <2>3
  <1> QED
    BY <1>1, <1>2 DEF Works

\* The cycle up to its stop, and its mark.
LEMMA CycleCycles ==
    ASSUME LeakInv, Cycle
    PROVE  [MachineCycles!Next]_(MachineCycles!cvars)
  <1>0. Restarter \in Threads /\ cpWanted \in BOOLEAN
    BY ShapeOf DEF Threads, Shape
  <1>1. CASE CycleStarts
    <2>1. /\ me[Restarter].pc = "idle" /\ me'[Restarter].pc = "lock"
          /\ cpWanted /\ cpWanted' = FALSE /\ cpGate' = cpGate
      BY <1>0, <1>1, MovesTo DEF CycleStarts, GoesTo
    <2>2. MachineCycles!Begin
      BY <2>1 DEF MachineCycles!Begin
    <2> QED
      BY <2>2 DEF MachineCycles!Next
  <1>2. CASE CycleLocks
    <2>1. /\ me[Restarter].pc = "lock" /\ me'[Restarter].pc = "select"
          /\ cpGate = None /\ cpGate' = Restarter /\ UNCHANGED cpWanted
      BY <1>0, <1>2, MovesTo DEF CycleLocks, GoesTo
    <2>2. MachineCycles!Enter
      BY <2>1 DEF MachineCycles!Enter
    <2> QED
      BY <2>2 DEF MachineCycles!Next
  <1>3. CASE CycleSelects
    <2>1. me[Restarter].pc = "select" /\ UNCHANGED cpWanted
      BY <1>3 DEF CycleSelects
    <2>2. CASE GoesTo(Restarter, "stop") /\ UNCHANGED cpGate
      <3>1. me'[Restarter].pc = "stop"
        BY <1>0, <2>2, MovesTo DEF GoesTo
      <3> QED
        BY <2>1, <2>2, <3>1, CycleWorksOn
    <2>3. CASE EndsProvision(Restarter)
      <3>1. me'[Restarter].pc = "idle" /\ cpGate' = None
        BY <1>0, <2>3, Ended DEF EndsProvision
      <3> QED
        BY <2>1, <3>1, CycleEnds
    <2> QED
      BY <1>3, <2>2, <2>3 DEF CycleSelects
  <1>4. CASE CycleMarks
    <2>1. /\ me[Restarter].pc = "mark" /\ me'[Restarter].pc = "start"
          /\ UNCHANGED <<cpWanted, cpGate>>
      BY <1>0, <1>4, MovesTo DEF CycleMarks, GoesTo
    <2> QED
      BY <2>1, CycleWorksOn
  <1> QED
    BY <1>1, <1>2, <1>3, <1>4 DEF Cycle

\* Requests of operators: only a switch that provisions enters the gate.
LEMMA SwitchCycles ==
    ASSUME LeakInv, NEW o \in CPOperators,
           SwitchProvider(o) \/ CascadeDelete(o) \/ Switches(o)
    PROVE  [MachineCycles!Next]_(MachineCycles!cvars)
  <1>0. o \in Threads /\ Restarter \in Threads /\ o # Restarter
    BY DEF LeakInv, ConstantsOK, Threads
  <1>1. CASE SwitchProvider(o) \/ CascadeDelete(o)
    <2>1. UNCHANGED <<cpWanted, cpGate>>
      BY <1>1 DEF SwitchProvider, CascadeDelete
    <2>2. me'[Restarter] = me[Restarter]
      BY <1>0, <1>1, ShapeOf DEF SwitchProvider, CascadeDelete, Shape
    <2> QED
      BY <2>1, <2>2, CycleWorksOn
  <1>2. CASE SwitchClaims(o) \/ SwitchWrites(o) \/ SwitchReverts(o)
    <2>1. /\ UNCHANGED <<cpWanted, cpGate>>
          /\ Ends(o) \/ \E l, b : Moves(o, l, b)
      BY <1>2 DEF SwitchClaims, SwitchWrites, SwitchReverts, GoesTo
    <2>2. me'[Restarter] = me[Restarter]
      BY <1>0, <2>1, MovesTo, Ended
    <2> QED
      BY <2>1, <2>2, CycleWorksOn
  <1>3. CASE SwitchProvisions(o)
    <2>1. me'[Restarter] = me[Restarter]
      BY <1>0, <1>3, MovesTo DEF SwitchProvisions, GoesTo
    <2>2. MachineCycles!UserEnters(o)
      BY <1>3, <2>1 DEF SwitchProvisions, MachineCycles!UserEnters
    <2> QED
      BY <2>2 DEF MachineCycles!Next
  <1> QED
    BY <1>1, <1>2, <1>3 DEF Switches

\* The callers of RestartByID, the loops, the machines and the process.
LEMMA OutsideCycles ==
    ASSUME LeakInv,
           \/ RestartByID \/ Sweeper \/ Reconciler \/ MachineRegisters
           \/ (\E b \in Boxes : BoxDies(b)) \/ Crash \/ UNCHANGED cpVars
    PROVE  [MachineCycles!Next]_(MachineCycles!cvars)
  <1>0. Restarter \in Threads /\ cpWanted \in BOOLEAN
    BY ShapeOf DEF Threads, Shape
  <1>1. CASE RestartByID \/ Reconfirm
    <2>1. UNCHANGED <<cpGate, me>> /\ (cpWanted' = TRUE \/ cpWanted' = cpWanted)
      BY <1>0, <1>1 DEF RestartByID, Reconfirm, local
    <2>2. CASE cpWanted' = TRUE
      <3>1. MachineCycles!Note
        BY <2>1, <2>2 DEF MachineCycles!Note
      <3> QED
        BY <3>1 DEF MachineCycles!Next
    <2>3. CASE cpWanted' = cpWanted
      BY <2>1, <2>3, CycleWorksOn
    <2> QED
      BY <2>1, <2>2, <2>3
  <1>2. CASE \/ Sweeper \/ ReconcileSelects \/ Probe \/ MachineRegisters
             \/ (\E b \in Boxes : BoxDies(b)) \/ UNCHANGED cpVars
    <2>1. UNCHANGED <<cpWanted, cpGate, me>>
      BY <1>2 DEF Sweeper, SweepSelects, SweepResolves, SweepTerminates, SweepClears,
         ReconcileSelects, Probe, MachineRegisters, BoxDies, cpVars, local
    <2> QED
      BY <2>1, CycleWorksOn
  <1>3. CASE Crash
    <2>1. me'[Restarter].pc = "idle" /\ cpGate' = None /\ cpWanted' = FALSE
      BY <1>0, <1>3 DEF Crash, Idle
    <2>2. MachineCycles!Crash
      BY <2>1 DEF MachineCycles!Crash
    <2> QED
      BY <2>2 DEF MachineCycles!Next
  <1> QED
    BY <1>1, <1>2, <1>3 DEF Reconciler

\* On the control plane, too, the restart cycle and the provisioning of a
\* switch keep the contract of the coalescer and the gate, whatever stops,
\* starts and statements fail and whenever the process dies
\* (runRestartCycle, provisionWorkspaceCP, SwitchProvider).
THEOREM MachinesKeepCycles == CPSpec => MachinesImplementCycles
  <1>1. CPInit => MachineCycles!Init
    <2> SUFFICES ASSUME CPInit PROVE MachineCycles!Init
      OBVIOUS
    <2>1. cpWanted = FALSE /\ cpGate = Restarter /\ me[Restarter].pc = "start"
      BY DEF CPInit, Threads, Idle
    <2> QED
      BY <2>1 DEF MachineCycles!Init
  <1>2. LeakInv /\ [CPNext]_cpVars => [MachineCycles!Next]_(MachineCycles!cvars)
    BY WorkCycles, CycleCycles, SwitchCycles, OutsideCycles DEF CPNext
  <1> QED
    BY <1>1, <1>2, LeakInvariance, PTL DEF CPSpec, MachinesImplementCycles, MachineCycles!Spec

=============================================================================

----------------------------- MODULE ControlPlane -----------------------------
(***************************************************************************)
(* Workspaces on the control plane (SaaS): which machine a workspace runs  *)
(* on, and whether the platform still knows it.  provisionWorkspaceCP and  *)
(* cpStopWithRetryErr over CPProvisioner, the restart cycle, SwitchProvider *)
(* and CascadeDelete, the orphan sweeper and the instance reconciler.      *)
(*                                                                         *)
(* The row's instance_id is the platform's only trace of a machine.  It is *)
(* read by each Stop and IsRunning for itself and written by four paths of *)
(* which only the provisioning ones hold the restart/provision gate.  One  *)
(* step is one SQL statement or one call of the control plane.  Machines   *)
(* are numbered in the order the control plane makes them.                 *)
(***************************************************************************)
EXTENDS Naturals, FiniteSets

CONSTANTS
    CPOperators, \* goroutines of switch and delete requests
    Restarter,   \* the goroutine of RestartByID
    None,        \* the NULL instance_id, no machine, no holder
    MaxBoxes,    \* bound: machines the control plane can make
    MaxCPOps,    \* bound: requests of operators and calls of RestartByID
    MaxFaults    \* bound: failed statements and calls, lost machines, crashes

Boxes == 1..MaxBoxes
Threads == CPOperators \cup {Restarter}

ConstantsOK ==
    /\ Restarter \notin CPOperators
    /\ None \notin Boxes /\ None \notin Threads
    /\ MaxBoxes \in Nat \ {0} /\ MaxCPOps \in Nat /\ MaxFaults \in Nat

ASSUME ControlPlaneAssumption == ConstantsOK

VARIABLES
    cpStatus, inst, provider,  \* columns of the row
    machines,    \* at the control plane
    cpGate,      \* holder of the restart/provision gate
    me,          \* each goroutine: its place, its job, the instance id in its
                 \* hands, and the status and provider SwitchProvider read
    cpWanted,    \* RestartByID was called
    sweep, rec,  \* the orphan sweeper and the reconciler
    cpOps, faults,
    \* history, read by properties only
    announced,   \* machines with a LEAK-SUSPECT line or a failure event
    unknown,     \* machines whose id never reached the row's writer
    displaced    \* machines whose id another writer removed from the row

cpRow  == <<cpStatus, inst, provider>>
local  == <<cpGate, me>>
loops  == <<sweep, rec>>
ghosts == <<announced, unknown, displaced>>
cpVars == <<cpRow, machines, local, cpWanted, loops, cpOps, faults, ghosts>>

CPStatuses == {"provisioning", "online", "failed", "removed"}
Ids == Boxes \cup {None}
Providers == {"aws", "hetzner"}

CPTypeOK ==
    /\ cpStatus \in CPStatuses /\ inst \in Ids /\ provider \in Providers
    /\ machines \in [Boxes -> {"none", "running", "gone"}]
    /\ inst # None => machines[inst] # "none"
    /\ cpGate \in Threads \cup {None}
    /\ me \in [Threads -> [pc : {"idle", "lock", "select", "claim", "stop", "terminate",
                                 "mark", "write", "revert", "start", "persist", "fail"},
                           job : {"restart", "switch", "delete"}, hold : Ids,
                           status : CPStatuses, provider : Providers]]
    /\ \A t \in Threads : me[t].pc \in {"start", "persist", "fail"} => cpGate = t
    /\ cpWanted \in BOOLEAN
    /\ sweep \in [pc : {"idle", "stop", "terminate", "clear"}, hold : Ids]
    /\ rec \in [pc : {"idle", "probe", "confirm"}, hold : Ids]
    /\ cpOps \in 0..MaxCPOps /\ faults \in 0..MaxFaults
    /\ announced \subseteq Boxes /\ unknown \subseteq Boxes /\ displaced \subseteq Boxes

Running(b) == b # None /\ machines[b] = "running"
AtRest == [pc |-> "idle", hold |-> None]
Idle == [pc |-> "idle", job |-> "restart", hold |-> None,
         status |-> "provisioning", provider |-> "aws"]

\* Create has inserted the row and holds the gate (provisionWorkspaceAuto).
CPInit ==
    /\ cpStatus = "provisioning" /\ inst = None /\ provider = "aws"
    /\ machines = [b \in Boxes |-> "none"]
    /\ cpGate = Restarter
    /\ me = [t \in Threads |-> IF t = Restarter THEN [Idle EXCEPT !.pc = "start"] ELSE Idle]
    /\ cpWanted = FALSE
    /\ sweep = AtRest /\ rec = AtRest
    /\ cpOps = 0 /\ faults = 0
    /\ announced = {} /\ unknown = {} /\ displaced = {}

Moves(t, l, b) == me' = [me EXCEPT ![t].pc = l, ![t].hold = b]
GoesTo(t, l) == Moves(t, l, me[t].hold)
Ends(t) == me' = [me EXCEPT ![t] = Idle]
Fault == faults < MaxFaults /\ faults' = faults + 1
Arrives == cpOps < MaxCPOps /\ cpOps' = cpOps + 1

-----------------------------------------------------------------------------
(* CPProvisioner.                                                          *)

\* DELETE /cp/workspaces/:id: the machine goes, and the answer says so.
Terminated(b) == IF b = None THEN machines ELSE [machines EXCEPT ![b] = "gone"]

\* The call fails; the machine may be gone all the same.
TerminateFails(b) == b # None /\ Fault /\ machines' \in {machines, Terminated(b)}

\* resolveInstanceID, at the start of each stop.
StopResolves(t) ==
    /\ me[t].pc = "stop" /\ Moves(t, "terminate", inst)
    /\ UNCHANGED <<cpRow, machines, cpGate, cpWanted, loops, cpOps, faults, ghosts>>

AfterStop(t) ==
    CASE me[t].job = "restart" -> Moves(t, "mark", None)
      [] me[t].job = "switch"  -> GoesTo(t, "write")
      [] me[t].job = "delete"  -> Ends(t)

\* LEAK-SUSPECT (it names the workspace), and on the switch and delete paths a
\* row of structure_events.
LeakSuspect(b) == announced \cup {b}

\* cpStopWithRetryErr.  Every caller goes on when the attempts are used up.
StopTerminates(t) ==
    /\ me[t].pc = "terminate" /\ AfterStop(t)
    /\ \/ machines' = Terminated(me[t].hold) /\ UNCHANGED <<faults, announced>>
       \/ TerminateFails(me[t].hold) /\ announced' = LeakSuspect(me[t].hold)
    /\ UNCHANGED <<cpRow, cpGate, cpWanted, loops, cpOps, unknown, displaced>>

\* The request's context ends between two attempts: nothing is announced, and
\* the next statement of a switch fails with the same context.
StopAbandoned(t) ==
    /\ me[t].pc = "terminate" /\ me[t].job # "restart"
    /\ TerminateFails(me[t].hold)
    /\ IF me[t].job = "switch" THEN GoesTo(t, "revert") ELSE Ends(t)
    /\ UNCHANGED <<cpRow, cpGate, cpWanted, loops, cpOps, ghosts>>

-----------------------------------------------------------------------------
(* provisionWorkspaceCP, under the gate.                                   *)

NextBox == CHOOSE b \in Boxes :
              machines[b] = "none" /\ \A c \in Boxes : c < b => machines[c] # "none"
BoxesLeft == \E b \in Boxes : machines[b] = "none"

\* mintWorkspaceSecrets revokes the tokens of the machines before, then Start.
StartMakes(t) ==
    /\ me[t].pc = "start" /\ BoxesLeft
    /\ machines' = [machines EXCEPT ![NextBox] = "running"]
    /\ Moves(t, "persist", NextBox)
    /\ UNCHANGED <<cpRow, cpGate, cpWanted, loops, cpOps, faults, ghosts>>

\* The control plane refuses; or its answer is lost and the machine is there.
StartFails(t) ==
    /\ me[t].pc = "start" /\ GoesTo(t, "fail")
    /\ \/ UNCHANGED <<machines, faults, unknown>>
       \/ /\ Fault /\ BoxesLeft
          /\ machines' = [machines EXCEPT ![NextBox] = "running"]
          /\ unknown' = unknown \cup {NextBox}
    /\ UNCHANGED <<cpRow, cpGate, cpWanted, loops, cpOps, announced, displaced>>

\* Faulty variant: no unlock at the end.
KeepsGate(t) == Ends(t) /\ UNCHANGED cpGate

\* The goroutine ends and releases the gate.
EndsProvision(t) == Ends(t) /\ cpGate' = None

\* The id is written by workspace id alone.  The switch has stopped what the
\* row named before it took the gate, not what a restart has written since.
Persist(t) ==
    /\ me[t].pc = "persist"
    /\ inst' = me[t].hold /\ EndsProvision(t)
    /\ displaced' = displaced \cup (IF me[t].job = "switch" /\ Running(inst) THEN {inst} ELSE {})
    /\ UNCHANGED <<cpStatus, provider, machines, cpWanted, loops, cpOps, faults, announced,
                   unknown>>

\* All attempts failed: the event that marks the failure names the machine.
PersistFails(t) ==
    /\ me[t].pc = "persist" /\ Fault /\ GoesTo(t, "fail")
    /\ announced' = announced \cup {me[t].hold}
    /\ UNCHANGED <<cpRow, machines, cpGate, cpWanted, loops, cpOps, unknown, displaced>>

\* markProvisionFailed, whatever the status was.
MarkProvisionFailed(t) ==
    /\ me[t].pc = "fail" /\ EndsProvision(t)
    /\ \/ cpStatus' = "failed" /\ UNCHANGED faults
       \/ Fault /\ UNCHANGED cpStatus
    /\ UNCHANGED <<inst, provider, machines, cpWanted, loops, cpOps, ghosts>>

-----------------------------------------------------------------------------
(* runRestartCycle.                                                        *)

RestartByID ==
    /\ Arrives /\ ~cpWanted /\ cpWanted' = TRUE
    /\ UNCHANGED <<cpRow, machines, local, loops, faults, ghosts>>

\* coalesceRestart consumes the flag, ...
CycleStarts ==
    /\ cpWanted /\ me[Restarter].pc = "idle"
    /\ cpWanted' = FALSE /\ GoesTo(Restarter, "lock")
    /\ UNCHANGED <<cpRow, machines, cpGate, loops, cpOps, faults, ghosts>>

\* ... and the cycle waits for the gate.
CycleLocks ==
    /\ me[Restarter].pc = "lock" /\ cpGate = None
    /\ cpGate' = Restarter /\ GoesTo(Restarter, "select")
    /\ UNCHANGED <<cpRow, machines, cpWanted, loops, cpOps, faults, ghosts>>

CycleSelects ==
    /\ me[Restarter].pc = "select"
    /\ \/ cpStatus # "removed" /\ GoesTo(Restarter, "stop") /\ UNCHANGED cpGate
       \/ cpStatus = "removed" /\ EndsProvision(Restarter)
    /\ UNCHANGED <<cpRow, machines, cpWanted, loops, cpOps, faults, ghosts>>

CycleMarks ==
    /\ me[Restarter].pc = "mark" /\ GoesTo(Restarter, "start")
    /\ \/ cpStatus' = "provisioning" /\ UNCHANGED faults
       \/ Fault /\ UNCHANGED cpStatus
    /\ UNCHANGED <<inst, provider, machines, cpGate, cpWanted, loops, cpOps, ghosts>>

-----------------------------------------------------------------------------
(* SwitchProvider.                                                         *)

SwitchProvider(o) ==
    /\ me[o].pc = "idle" /\ Arrives
    /\ cpStatus # "removed"
    /\ me' = [me EXCEPT ![o] = [pc |-> "claim", job |-> "switch", hold |-> None,
                                status |-> cpStatus, provider |-> provider]]
    /\ UNCHANGED <<cpRow, machines, cpGate, cpWanted, loops, faults, ghosts>>

\* The pre-claim: one conditional UPDATE; the loser answers 409.
Claims(o) == cpStatus # "provisioning" /\ provider = me[o].provider

SwitchClaims(o) ==
    /\ me[o].pc = "claim"
    /\ \/ Claims(o) /\ cpStatus' = "provisioning" /\ GoesTo(o, "stop")
       \/ ~Claims(o) /\ Ends(o) /\ UNCHANGED cpStatus
    /\ UNCHANGED <<inst, provider, machines, cpGate, cpWanted, loops, cpOps, faults, ghosts>>

Other(p) == CHOOSE q \in Providers : q # p

\* A clear of the row loses the machine a restart has recorded since the stop.
LostByClear(stopped) == IF inst # stopped /\ Running(inst) THEN {inst} ELSE {}

\* The new provider, and no instance.  The failed statement rolls back.
SwitchWrites(o) ==
    /\ me[o].pc = "write"
    /\ \/ /\ inst' = None /\ provider' = Other(me[o].provider)
          /\ displaced' = displaced \cup LostByClear(me[o].hold)
          /\ GoesTo(o, "lock") /\ UNCHANGED faults
       \/ Fault /\ GoesTo(o, "revert") /\ UNCHANGED <<inst, provider, displaced>>
    /\ UNCHANGED <<cpStatus, machines, cpGate, cpWanted, loops, cpOps, announced, unknown>>

\* The deferred rollback of the claim.
SwitchReverts(o) ==
    /\ me[o].pc = "revert" /\ Ends(o)
    /\ cpStatus' = IF cpStatus = "provisioning" THEN me[o].status ELSE cpStatus
    /\ UNCHANGED <<inst, provider, machines, cpGate, cpWanted, loops, cpOps, faults, ghosts>>

\* provisionWorkspaceAuto waits for the gate.
SwitchProvisions(o) ==
    /\ me[o].pc = "lock" /\ cpGate = None
    /\ cpGate' = o /\ GoesTo(o, "start")
    /\ UNCHANGED <<cpRow, machines, cpWanted, loops, cpOps, faults, ghosts>>

-----------------------------------------------------------------------------
(* Delete, the agent, and what happens to machines and processes.          *)

\* CascadeDelete marks first, then stops; the row keeps its instance_id.
CascadeDelete(o) ==
    /\ me[o].pc = "idle" /\ Arrives
    /\ \/ cpStatus' = "removed" /\ UNCHANGED faults
       \/ Fault /\ UNCHANGED cpStatus      \* logged, and the stop goes on
    /\ me' = [me EXCEPT ![o].pc = "stop", ![o].job = "delete"]
    /\ UNCHANGED <<inst, provider, machines, cpGate, cpWanted, loops, ghosts>>

\* An agent registers or heartbeats.  With the tokens revoked before each start
\* the first to register is given the new one, whichever machine it runs on.
MachineRegisters ==
    /\ \E b \in Boxes : Running(b)
    /\ cpStatus \in {"provisioning", "failed"}
    /\ cpStatus' = "online"
    /\ UNCHANGED <<inst, provider, machines, local, cpWanted, loops, cpOps, faults, ghosts>>

BoxDies(b) ==
    /\ Running(b) /\ Fault
    /\ machines' = Terminated(b)
    /\ UNCHANGED <<cpRow, local, cpWanted, loops, cpOps, ghosts>>

\* A new process: no goroutines, an open gate.
Crash ==
    /\ Fault
    /\ unknown' = unknown \cup {me[t].hold : t \in {u \in Threads : me[u].pc = "persist"}}
    /\ me' = [t \in Threads |-> Idle] /\ cpGate' = None /\ cpWanted' = FALSE
    /\ sweep' = AtRest /\ rec' = AtRest
    /\ UNCHANGED <<cpRow, machines, cpOps, announced, displaced>>

-----------------------------------------------------------------------------
(* cpSweepOnce.                                                            *)

\* Mutation: the sweep looks for workspaces whose provisioning failed.
FailedRows == cpStatus = "failed" /\ inst # None

\* The rows the sweep selects.
IsOrphan == cpStatus = "removed" /\ inst # None

SweepSelects ==
    /\ sweep.pc = "idle" /\ IsOrphan
    /\ sweep' = [sweep EXCEPT !.pc = "stop"]
    /\ UNCHANGED <<cpRow, machines, local, cpWanted, rec, cpOps, faults, ghosts>>

SweepResolves ==
    /\ sweep.pc = "stop"
    /\ sweep' = [pc |-> "terminate", hold |-> inst]
    /\ UNCHANGED <<cpRow, machines, local, cpWanted, rec, cpOps, faults, ghosts>>

\* Mutation: a 5xx of the control plane counts as success.
ClearsAnyway == [sweep EXCEPT !.pc = "clear"]

\* What the sweep does after a failed stop: the next pass tries again.
AfterFailedStop == AtRest

SweepTerminates ==
    /\ sweep.pc = "terminate"
    /\ \/ /\ machines' = Terminated(sweep.hold) /\ sweep' = [sweep EXCEPT !.pc = "clear"]
          /\ UNCHANGED faults
       \/ TerminateFails(sweep.hold) /\ sweep' = AfterFailedStop
    /\ UNCHANGED <<cpRow, local, cpWanted, rec, cpOps, ghosts>>

\* instance_id = NULL, by workspace id alone.
SweepClears ==
    /\ sweep.pc = "clear" /\ sweep' = AtRest
    /\ \/ /\ inst' = None /\ displaced' = displaced \cup LostByClear(sweep.hold)
          /\ UNCHANGED faults
       \/ Fault /\ UNCHANGED <<inst, displaced>>
    /\ UNCHANGED <<cpStatus, provider, machines, local, cpWanted, rec, cpOps, announced, unknown>>

-----------------------------------------------------------------------------
(* reconcileOnce.                                                          *)

\* The rows a pass looks at.
Reconciled == cpStatus = "online" /\ inst # None

ReconcileSelects ==
    /\ rec.pc = "idle" /\ Reconciled
    /\ rec' = [pc |-> "probe", hold |-> inst]
    /\ UNCHANGED <<cpRow, machines, local, cpWanted, sweep, cpOps, faults, ghosts>>

\* Mutation: only a row without an instance is not running.
NoInstance == inst = None

NotRunning == ~Running(inst)

\* IsRunning resolves the id for itself: it may ask about another machine, or
\* answer "not running" because there is none.  An error leaves the row alone.
Probe ==
    /\ rec.pc = "probe"
    /\ \/ /\ rec' = IF NotRunning THEN [rec EXCEPT !.pc = "confirm"] ELSE AtRest
          /\ UNCHANGED faults
       \/ Fault /\ rec' = AtRest
    /\ UNCHANGED <<cpRow, machines, local, cpWanted, sweep, cpOps, ghosts>>

\* Mutation: the re-read looks at the status alone.
StillOnline == cpStatus = "online" /\ inst # None

\* reconfirmStillOfflineCandidate
Reconfirmed == cpStatus = "online" /\ inst # None /\ inst = rec.hold

\* onWorkspaceOffline: an event and RestartByID; the row keeps its status.
Reconfirm ==
    /\ rec.pc = "confirm" /\ rec' = AtRest
    /\ \/ cpWanted' = (cpWanted \/ Reconfirmed) /\ UNCHANGED faults
       \/ Fault /\ UNCHANGED cpWanted
    /\ UNCHANGED <<cpRow, machines, local, sweep, cpOps, ghosts>>

-----------------------------------------------------------------------------
Works(t) ==
    \/ StopResolves(t) \/ StopTerminates(t) \/ StopAbandoned(t)
    \/ StartMakes(t) \/ StartFails(t)
    \/ Persist(t) \/ PersistFails(t) \/ MarkProvisionFailed(t)

Switches(o) == SwitchClaims(o) \/ SwitchWrites(o) \/ SwitchReverts(o) \/ SwitchProvisions(o)
Cycle == CycleStarts \/ CycleLocks \/ CycleSelects \/ CycleMarks
Sweeper == SweepSelects \/ SweepResolves \/ SweepTerminates \/ SweepClears
Reconciler == ReconcileSelects \/ Probe \/ Reconfirm

CPNext ==
    \/ \E t \in Threads : Works(t)
    \/ \E o \in CPOperators : SwitchProvider(o) \/ CascadeDelete(o) \/ Switches(o)
    \/ RestartByID \/ Cycle
    \/ Sweeper \/ Reconciler
    \/ MachineRegisters \/ (\E b \in Boxes : BoxDies(b)) \/ Crash

CPSpec == CPInit /\ [][CPNext]_cpVars

\* Goroutines run on, and the two loops come round.
CPFairSpec ==
    /\ CPSpec
    /\ \A t \in Threads : WF_cpVars(Works(t))
    /\ \A o \in CPOperators : WF_cpVars(SwitchClaims(o) \/ SwitchWrites(o) \/ SwitchReverts(o))
    /\ WF_cpVars(Cycle) /\ WF_cpVars(Sweeper) /\ WF_cpVars(Reconciler)

-----------------------------------------------------------------------------
(* Properties.                                                             *)

\* A machine that runs is the one the row names, or in the hands of the
\* goroutine that made it, or reported by a LEAK-SUSPECT line or an event,
\* or one the platform never learnt of, or one whose id a switch or the sweep
\* removed from the row after a restart had written it (see RowOwned).
LeaksAnnounced ==
    \A b \in Boxes : Running(b) =>
        \/ b = inst
        \/ \E t \in Threads : me[t].pc = "persist" /\ me[t].hold = b
        \/ b \in announced \cup unknown \cup displaced

\* The reconciler restarts a workspace only when the machine the row names at
\* the re-read is really gone, whatever happened to the row after its SELECT
\* and whichever machine IsRunning asked about (reconfirmStillOfflineCandidate).
SparesLiving ==
    [][rec.pc = "confirm" /\ ~cpWanted /\ cpWanted' /\ rec'.pc = "idle"
           => inst # None /\ ~Running(inst)]_cpVars

\* A deleted workspace's machine goes in the end, however often the stop fails
\* and whenever its id reaches the row, unless the row comes back to life or
\* gives the machine up (LeaksAnnounced says when it may).
OrphansReaped ==
    LET Orphan == cpStatus = "removed" /\ Running(inst)
    IN  Orphan ~> ~Orphan

\* A workspace does not stay online on a machine that is gone (reconcileOnce).
DeadHealed ==
    LET Dead == cpStatus = "online" /\ inst # None /\ ~Running(inst)
    IN  Dead ~> ~Dead

\* The cycle of this backend: a create is under way when the process starts.
MachineCycles == INSTANCE RestartCycles WITH
    Users  <- CPOperators, Cycle <- Restarter, Free <- None, Mortal <- TRUE,
    wanted <- IF cpWanted THEN "yes" ELSE "no",
    stage  <- CASE me[Restarter].pc = "idle" -> "idle"
                [] me[Restarter].pc = "lock" -> "wait"
                [] OTHER -> "work",
    gate   <- cpGate

\* Restart cycles and provider switches on the control plane keep the contract
\* of the coalescer and the gate: each cycle uses up one note and waits for the
\* gate, a cycle or a switch's provision gives it back on every way out, and
\* nobody works without it, whatever stops, starts and statements fail and
\* whenever the process dies.
MachinesImplementCycles == MachineCycles!Spec

\* What SwitchProvider and the sweep take for granted when they write the row
\* by workspace id alone: the row still names the machine they stopped.
RowOwned == displaced = {}

=============================================================================

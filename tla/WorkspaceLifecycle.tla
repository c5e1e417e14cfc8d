------------------------- MODULE WorkspaceLifecycle -------------------------
(***************************************************************************)
(* The status row of one workspace and its container, on the Docker        *)
(* backend: the operator's create, hibernate, pause, resume, restart and   *)
(* delete (workspace-server/internal/handlers), the automatic restart      *)
(* cycle, the agent's register and heartbeat, the sweeps of                *)
(* internal/registry and the proxy's container probe.                      *)
(*                                                                         *)
(* One step is one SQL statement, with the Redis commands that follow it,  *)
(* or one call of the provisioner; whatever a handler keeps between two of *)
(* them is in its control state.  Only the restart/provision gate          *)
(* serialises anything.                                                    *)
(***************************************************************************)
EXTENDS Integers, FiniteSets

CONSTANTS
    Operators,    \* goroutines of operator requests
    Senders,      \* goroutines that proxy messages
    MaxOps,       \* bound: operator requests, the create included
    MaxFailures   \* bound: failed stops, starts and marks, dying containers

ASSUME LifecycleConstants ==
    /\ "auto" \notin Operators /\ "free" \notin Operators
    /\ MaxOps \in Nat /\ MaxFailures \in Nat

VARIABLES
    status, url,     \* columns of the row
    tasks,           \* active_tasks: what the last heartbeat reported
    key, cached,     \* the liveness key and the cached URL in Redis
    container,
    working,         \* the agent has a message in hand
    gate,            \* holder of the restart/provision gate
    pc,              \* operator requests
    auto, wanted,    \* the cycle of RestartByID; a restart was asked for
    beat, seen, report,      \* a request of the agent, and what it carries
    health, orphan, proxy,   \* the sweeps and the proxied messages
    ops, failures,
    stale            \* history: who was in flight when the row was removed

redis  == <<key, cached>>
row    == <<status, url, redis>>
box    == <<container, working>>
cycle  == <<auto, wanted>>
agent  == <<beat, seen, report, tasks>>
probes == <<health, orphan, proxy>>
bounds == <<ops, failures>>
vars   == <<row, box, gate, pc, cycle, agent, probes, bounds, stale>>

Statuses == {"provisioning", "online", "degraded", "offline", "failed",
             "removed", "paused", "hibernating", "hibernated"}
Switch == {"yes", "no"}

TypeOK ==
    /\ status \in Statuses /\ url \in Switch
    /\ key \in Switch /\ cached \in Switch
    /\ tasks \in Switch /\ report \in Switch
    /\ container \in {"up", "none"} /\ working \in Switch
    /\ working = "yes" => container = "up"
    /\ gate \in Operators \cup {"auto", "free"}
    /\ pc \in [Operators -> {"idle", "delete", "hibernate_stop",
                   "hibernate_mark", "pause_stop", "pause_mark", "resume_mark",
                   "restart_mark", "provision", "restart", "stop", "start"}]
    /\ auto \in {"idle", "lock", "select", "stop", "mark", "start"}
    /\ wanted \in Switch
    /\ beat \in {"idle", "register", "update", "read", "write"}
    /\ seen \in Statuses
    /\ health \in {"idle", "probe", "flip"} /\ orphan \in {"idle", "stop"}
    /\ proxy \in [Senders -> {"idle", "probe", "forward", "flip"}]
    /\ ops \in Nat /\ failures \in Nat
    /\ stale \subseteq Operators \cup {"auto"}

\* Create has inserted the row and waits for the gate (provisionWorkspaceAuto).
Init ==
    /\ status = "provisioning" /\ url = "no" /\ tasks = "no"
    /\ key = "no" /\ cached = "no"
    /\ container = "none" /\ working = "no"
    /\ gate = "free"
    /\ \E c \in Operators :
         pc = [o \in Operators |-> IF o = c THEN "provision" ELSE "idle"]
    /\ auto = "idle" /\ wanted = "no"
    /\ beat = "idle" /\ seen = "online" /\ report = "no"
    /\ health = "idle" /\ orphan = "idle"
    /\ proxy = [s \in Senders |-> "idle"]
    /\ ops = 1 /\ failures = 0
    /\ stale = {}

-----------------------------------------------------------------------------
(* The provisioner, as the handlers use it.                                *)

Fails == failures < MaxFailures /\ failures' = failures + 1

\* Stop, whose failure every caller logs and passes over.
StopContainer ==
    \/ container' = "none" /\ working' = "no" /\ UNCHANGED failures
    \/ Fails /\ UNCHANGED box

ContainerDies ==
    /\ container = "up" /\ Fails
    /\ container' = "none" /\ working' = "no"
    /\ UNCHANGED <<row, gate, pc, cycle, agent, probes, ops, stale>>

FinishesTask ==
    /\ working = "yes" /\ working' = "no"
    /\ UNCHANGED <<row, container, gate, pc, cycle, agent, probes, bounds, stale>>

ClearWorkspaceKeys == key' = "no" /\ cached' = "no"

\* The last statement of a request that stops: it is lost, keys and all, when
\* the client has gone and the request's context with it.
MarkStopped(s) ==
    \/ status' = s /\ url' = "no" /\ ClearWorkspaceKeys /\ UNCHANGED failures
    \/ Fails /\ UNCHANGED row

-----------------------------------------------------------------------------
(* Operator requests.                                                      *)

Goto(o, l) == pc' = [pc EXCEPT ![o] = l]

Begin(o, l) ==
    /\ pc[o] = "idle" /\ ops < MaxOps /\ ops' = ops + 1
    /\ Goto(o, l)

\* CascadeDelete marks first, then stops.
Delete(o) ==
    /\ Begin(o, "delete")
    /\ status' = "removed"
    /\ stale' = {t \in Operators : pc[t] # "idle"}
                  \cup (IF auto \in {"idle", "lock"} THEN {} ELSE {"auto"})
    /\ UNCHANGED <<url, redis, box, gate, cycle, agent, probes, failures>>

DeleteStop(o) ==
    /\ pc[o] = "delete" /\ Goto(o, "idle")
    /\ StopContainer
    /\ ClearWorkspaceKeys
    /\ UNCHANGED <<status, url, gate, cycle, agent, probes, ops, stale>>

\* HibernateWorkspace, step 1: one conditional UPDATE.
HibernateClaim(o) ==
    /\ status \in {"online", "degraded"} /\ tasks = "no"
    /\ Begin(o, "hibernate_stop")
    /\ status' = "hibernating"
    /\ UNCHANGED <<url, redis, box, gate, cycle, agent, probes, failures, stale>>

HibernateStop(o) ==
    /\ pc[o] = "hibernate_stop" /\ Goto(o, "hibernate_mark")
    /\ StopContainer
    /\ UNCHANGED <<row, gate, cycle, agent, probes, ops, stale>>

HibernateMark(o) ==
    /\ pc[o] = "hibernate_mark" /\ Goto(o, "idle")
    /\ MarkStopped("hibernated")
    /\ UNCHANGED <<box, gate, cycle, agent, probes, ops, stale>>

Pause(o) ==
    /\ status \notin {"removed", "paused"}
    /\ Begin(o, "pause_stop")
    /\ UNCHANGED <<row, box, gate, cycle, agent, probes, failures, stale>>

PauseStop(o) ==
    /\ pc[o] = "pause_stop" /\ Goto(o, "pause_mark")
    /\ StopContainer
    /\ UNCHANGED <<row, gate, cycle, agent, probes, ops, stale>>

PauseMark(o) ==
    /\ pc[o] = "pause_mark" /\ Goto(o, "idle")
    /\ MarkStopped("paused")
    /\ UNCHANGED <<box, gate, cycle, agent, probes, ops, stale>>

Resume(o) ==
    /\ status = "paused"
    /\ Begin(o, "resume_mark")
    /\ UNCHANGED <<row, box, gate, cycle, agent, probes, failures, stale>>

ResumeMark(o) ==
    /\ pc[o] = "resume_mark" /\ Goto(o, "provision")
    /\ status' = "provisioning"
    /\ UNCHANGED <<url, redis, box, gate, cycle, agent, probes, bounds, stale>>

Restart(o) ==
    /\ status # "removed"
    /\ Begin(o, "restart_mark")
    /\ UNCHANGED <<row, box, gate, cycle, agent, probes, failures, stale>>

RestartMark(o) ==
    /\ pc[o] = "restart_mark" /\ Goto(o, "restart")
    /\ status' = "provisioning" /\ url' = "no"
    /\ UNCHANGED <<redis, box, gate, cycle, agent, probes, bounds, stale>>

\* Faulty variant: the dispatchers do not wait for the gate.
OperatorBarges(o) ==
    /\ pc[o] \in {"provision", "restart"} /\ gate' = o
    /\ Goto(o, IF pc[o] = "restart" THEN "stop" ELSE "start")
    /\ UNCHANGED <<row, box, cycle, agent, probes, bounds, stale>>

\* RestartWorkspaceAutoOpts stops before it provisions, the others do not.
OperatorLock(o) ==
    /\ pc[o] \in {"provision", "restart"} /\ gate = "free"
    /\ gate' = o
    /\ Goto(o, IF pc[o] = "restart" THEN "stop" ELSE "start")
    /\ UNCHANGED <<row, box, cycle, agent, probes, bounds, stale>>

OperatorStop(o) ==
    /\ pc[o] = "stop" /\ Goto(o, "start")
    /\ StopContainer
    /\ UNCHANGED <<row, gate, cycle, agent, probes, ops, stale>>

\* Start stores the URL; a failure is markProvisionFailed, without condition.
Provision ==
    /\ gate' = "free"
    /\ \/ container' = "up" /\ url' = "yes" /\ cached' = "yes"
          /\ UNCHANGED <<status, key, working, failures>>
       \/ Fails /\ status' = "failed" /\ UNCHANGED <<url, redis, box>>

OperatorStart(o) ==
    /\ pc[o] = "start" /\ Goto(o, "idle")
    /\ Provision
    /\ UNCHANGED <<cycle, agent, probes, ops, stale>>

Operate(o) ==
    \/ Delete(o) \/ DeleteStop(o)
    \/ HibernateClaim(o) \/ HibernateStop(o) \/ HibernateMark(o)
    \/ Pause(o) \/ PauseStop(o) \/ PauseMark(o)
    \/ Resume(o) \/ ResumeMark(o) \/ Restart(o) \/ RestartMark(o)
    \/ OperatorLock(o) \/ OperatorStop(o) \/ OperatorStart(o)

-----------------------------------------------------------------------------
(* runRestartCycle.  Debounce and coalescing are in RestartCoalescer; here *)
(* a request is a flag, and a cycle may come at any time after it.         *)

AutoBegin ==
    /\ auto = "idle" /\ wanted = "yes"
    /\ auto' = "lock" /\ wanted' = "no"
    /\ UNCHANGED <<row, box, gate, pc, agent, probes, bounds, stale>>

AutoLock ==
    /\ auto = "lock" /\ gate = "free"
    /\ auto' = "select" /\ gate' = "auto"
    /\ UNCHANGED <<row, box, pc, wanted, agent, probes, bounds, stale>>

AutoSelect ==
    /\ auto = "select"
    /\ IF status \in {"removed", "paused", "hibernated"}
       THEN auto' = "idle" /\ gate' = "free"
       ELSE auto' = "stop" /\ UNCHANGED gate
    /\ UNCHANGED <<row, box, pc, wanted, agent, probes, bounds, stale>>

AutoStop ==
    /\ auto = "stop" /\ auto' = "mark"
    /\ StopContainer
    /\ UNCHANGED <<row, gate, pc, wanted, agent, probes, ops, stale>>

AutoMark ==
    /\ auto = "mark" /\ auto' = "start"
    /\ status' = "provisioning" /\ url' = "no"
    /\ UNCHANGED <<redis, box, gate, pc, wanted, agent, probes, bounds, stale>>

AutoStart ==
    /\ auto = "start" /\ auto' = "idle"
    /\ Provision
    /\ UNCHANGED <<pc, wanted, agent, probes, ops, stale>>

RunRestartCycle ==
    \/ AutoBegin \/ AutoLock \/ AutoSelect \/ AutoStop \/ AutoMark \/ AutoStart

-----------------------------------------------------------------------------
(* The agent's requests: they may arrive after its container is gone.      *)

AgentSends ==
    /\ beat = "idle" /\ container = "up"
    /\ beat' \in {"register", "update"}
    /\ report' = working
    /\ UNCHANGED <<row, box, gate, pc, cycle, seen, tasks, probes, bounds, stale>>

Answered == beat' = "idle" /\ seen' = "online" /\ report' = "no"

\* Register: an upsert that spares removed rows; Redis is set in any case.
Register ==
    /\ beat = "register" /\ Answered
    /\ IF status = "removed" THEN UNCHANGED <<status, url>>
                             ELSE status' = "online" /\ url' = "yes"
    /\ key' = "yes" /\ cached' = "yes"
    /\ UNCHANGED <<box, gate, pc, cycle, tasks, probes, bounds, stale>>

\* Heartbeat: the UPDATE, then evaluateStatus reads and writes.
Heartbeat ==
    /\ beat = "update" /\ beat' = "read"
    /\ status' = IF status = "provisioning" THEN "online" ELSE status
    /\ tasks' = IF status = "removed" THEN tasks ELSE report
    /\ UNCHANGED <<url, redis, box, gate, pc, cycle, seen, report, probes, bounds, stale>>

EvaluateStatusRead ==
    /\ beat = "read" /\ beat' = "write"
    /\ seen' = status
    /\ UNCHANGED <<row, box, gate, pc, cycle, report, tasks, probes, bounds, stale>>

\* What a heartbeat makes of a status it has seen.
Evaluated(s) ==
    CASE s \in {"online", "degraded"} -> {"online", "degraded"}
      [] s \in {"offline", "provisioning", "failed"} -> {"online"}
      [] OTHER -> {s}

\* Faulty variant: the status seen is taken for the status there is.
EvaluatesUnguarded ==
    /\ beat = "write" /\ Answered
    /\ status' \in Evaluated(seen)
    /\ UNCHANGED <<url, redis, box, gate, pc, cycle, tasks, probes, bounds, stale>>

EvaluateStatusWrite ==
    /\ beat = "write" /\ Answered
    /\ IF status = seen THEN status' \in Evaluated(seen) ELSE UNCHANGED status
    /\ UNCHANGED <<url, redis, box, gate, pc, cycle, tasks, probes, bounds, stale>>

AgentRequests == \/ AgentSends \/ Register \/ Heartbeat
                 \/ EvaluateStatusRead \/ EvaluateStatusWrite

-----------------------------------------------------------------------------
(* The sweeps, and the container probe of a proxied message.               *)

\* Found dead: offline unless removed or provisioning, and a restart anyway.
MarkOffline ==
    /\ status' = IF status \in {"removed", "provisioning"} THEN status
                                                           ELSE "offline"
    /\ ClearWorkspaceKeys
    /\ wanted' = "yes"
    /\ UNCHANGED <<url, box, gate, pc, auto, agent, bounds, stale>>

\* Faulty variant: degraded workspaces are not swept.
Sweepable == {"online"}

Swept == {"online", "degraded"}

HealthSelect ==
    /\ health = "idle" /\ status \in Swept
    /\ health' = "probe"
    /\ UNCHANGED <<row, box, gate, pc, cycle, agent, orphan, proxy, bounds, stale>>

HealthProbe ==
    /\ health = "probe"
    /\ health' = IF container = "none" THEN "flip" ELSE "idle"
    /\ UNCHANGED <<row, box, gate, pc, cycle, agent, orphan, proxy, bounds, stale>>

HealthFlip ==
    /\ health = "flip" /\ health' = "idle"
    /\ MarkOffline
    /\ UNCHANGED <<orphan, proxy>>

HealthSweep == HealthSelect \/ HealthProbe \/ HealthFlip

\* The liveness key expired: no heartbeat came in time.
LivenessExpired ==
    /\ key = "yes" /\ key' = "no"
    /\ status' = IF status \in {"removed", "paused", "hibernated"} THEN status
                                                                  ELSE "offline"
    /\ wanted' = "yes"
    /\ UNCHANGED <<url, cached, box, gate, pc, auto, agent, probes, bounds, stale>>

CacheExpires ==
    /\ cached = "yes" /\ cached' = "no"
    /\ UNCHANGED <<status, url, key, box, gate, pc, cycle, agent, probes, bounds,
                   stale>>

\* Faulty variant: only a workspace whose container started times out.
TimesOutStarted ==
    /\ status = "provisioning" /\ container = "up" /\ status' = "failed"
    /\ UNCHANGED <<url, redis, box, gate, pc, cycle, agent, probes, bounds, stale>>

\* sweepStuckProvisioning, and BootstrapFailed of the control plane.
SweepStuckProvisioning ==
    /\ status = "provisioning" /\ status' = "failed"
    /\ UNCHANGED <<url, redis, box, gate, pc, cycle, agent, probes, bounds, stale>>

OrphanSelect ==
    /\ orphan = "idle" /\ container = "up" /\ status = "removed"
    /\ orphan' = "stop"
    /\ UNCHANGED <<row, box, gate, pc, cycle, agent, health, proxy, bounds, stale>>

\* Faulty variant: the sweep stops only what is no longer removed.
OrphanSpares ==
    /\ orphan = "stop" /\ orphan' = "idle"
    /\ IF status = "removed" THEN UNCHANGED <<box, failures>> ELSE StopContainer
    /\ UNCHANGED <<row, gate, pc, cycle, agent, health, proxy, ops, stale>>

OrphanStop ==
    /\ orphan = "stop" /\ orphan' = "idle"
    /\ StopContainer
    /\ UNCHANGED <<row, gate, pc, cycle, agent, health, proxy, ops, stale>>

SweepOrphans == OrphanSelect \/ OrphanStop

Onward(s, l) == proxy' = [proxy EXCEPT ![s] = l]

\* resolveAgentURL asks for a restart of a hibernated workspace, ...
ProxyWakes(s) ==
    /\ proxy[s] = "idle" /\ status = "hibernated"
    /\ cached = "no" /\ url = "no"
    /\ wanted' = "yes"
    /\ UNCHANGED <<row, box, gate, pc, auto, agent, probes, bounds, stale>>

\* ... and goes on with a URL, whatever the status; preflightContainerHealth
\* probes unless isRestarting, whose flag may be set between two cycles too.
ProxyResolve(s) ==
    /\ proxy[s] = "idle" /\ "yes" \in {cached, url}
    /\ cached' = "yes"
    /\ \/ auto = "idle" /\ Onward(s, "probe")
       \/ Onward(s, "forward")
    /\ UNCHANGED <<status, url, key, box, gate, pc, cycle, agent, health, orphan,
                   bounds, stale>>

ProxyProbe(s) ==
    /\ proxy[s] = "probe"
    /\ Onward(s, IF container = "none" THEN "flip" ELSE "forward")
    /\ UNCHANGED <<row, box, gate, pc, cycle, agent, health, orphan, bounds, stale>>

\* A failed forward ends in maybeMarkContainerDead, which may give up.
ProxyForward(s) ==
    /\ proxy[s] = "forward"
    /\ \/ container = "up" /\ working' = "yes" /\ Onward(s, "idle")
       \/ container = "none" /\ Onward(s, "idle") /\ UNCHANGED working
       \/ container = "none" /\ auto = "idle" /\ Onward(s, "flip")
          /\ UNCHANGED working
    /\ UNCHANGED <<row, container, gate, pc, cycle, agent, health, orphan, bounds,
                   stale>>

ProxyFlip(s) ==
    /\ proxy[s] = "flip" /\ Onward(s, "idle")
    /\ MarkOffline
    /\ UNCHANGED <<health, orphan>>

ProxyMessage(s) == \/ ProxyWakes(s) \/ ProxyResolve(s) \/ ProxyProbe(s)
                   \/ ProxyForward(s) \/ ProxyFlip(s)

-----------------------------------------------------------------------------
Next ==
    \/ \E o \in Operators : Operate(o)
    \/ RunRestartCycle
    \/ AgentRequests
    \/ HealthSweep \/ LivenessExpired \/ SweepStuckProvisioning \/ SweepOrphans
    \/ \E s \in Senders : ProxyMessage(s)
    \/ CacheExpires \/ ContainerDies \/ FinishesTask

Spec == Init /\ [][Next]_vars

\* The tickers of the sweeps fire for ever and their sweeps finish.
SweepsRun ==
    /\ WF_vars(HealthSweep) /\ WF_vars(SweepStuckProvisioning)
    /\ WF_vars(SweepOrphans)
LiveSpec == Spec /\ SweepsRun

\* Requests and restart cycles finish too, and a silent agent's key expires.
HandlersFinish ==
    /\ \A o \in Operators : WF_vars(pc[o] # "idle" /\ Operate(o))
    /\ WF_vars(RunRestartCycle) /\ SF_vars(AutoLock)
    /\ WF_vars(LivenessExpired)
SettledSpec == LiveSpec /\ HandlersFinish

\* Besides, a message is sent again until it is accepted.
WakingSpec == SettledSpec /\ \A s \in Senders : WF_vars(ProxyMessage(s))

-----------------------------------------------------------------------------
(* Properties.                                                             *)

\* A removed row is brought back, if at all, by an operator request or a
\* restart cycle that was in flight when it was removed: never by a late
\* heartbeat or registration, a sweep, a probe, a message or a later request.
OnlyInFlightResurrects ==
    [][status = "removed" /\ status' # "removed" =>
         \/ \E o \in stale : o # "auto" /\ pc[o] # pc'[o]
         \/ "auto" \in stale /\ auto # auto']_vars

\* A row does not stay in provisioning, whatever happens to the container.
ProvisioningEnds == (status = "provisioning") ~> (status # "provisioning")

\* A container that a late start left behind a removed row is reaped.
RemovedReaped ==
    (status = "removed") ~> (container = "none" \/ status # "removed")

\* A workspace shown as serving whose container is gone does not stay so.
DeadNoticed ==
    (status \in {"online", "degraded"} /\ container = "none") ~>
        (status \notin {"online", "degraded"} \/ container = "up")

\* The cycle of this module, which keeps no runner and no debounce.
LifecycleCycles == INSTANCE RestartCycles WITH
    Users <- Operators, Cycle <- "auto", Free <- "free", Mortal <- FALSE,
    stage <- CASE auto = "idle" -> "idle" [] auto = "lock" -> "wait" [] OTHER -> "work"

\* The restart cycle, creates, resumes and manual restarts keep the contract of
\* the coalescer and the gate: what RestartCoalescer shows of the goroutines
\* is what this module takes for granted of the cycle.
LifecycleImplementsCycles == LifecycleCycles!Spec

\* Restart refuses removed rows "to prevent resurrecting a removed workspace".
RemovedStays == [][status = "removed" => status' = "removed"]_vars

\* Pause: the workspace "won't be auto-restarted".
PausedByOperators ==
    [][status = "paused" /\ status' # "paused" => pc' # pc]_vars

\* Pause and hibernation: the workspace "won't consume resources".
RestsStopped ==
    /\ \A o \in Operators : pc[o] = "idle"
    /\ auto = "idle" /\ failures = 0
    /\ status \in {"paused", "hibernated"}
    => container = "none"

\* HibernateWorkspace: "we never interrupt a running task".
HibernatesIdle ==
    \A o \in Operators : pc[o] = "hibernate_stop" => working = "no"

\* isRestarting: a message that finds no container does not ask for a restart
\* while the container is being restarted, "the self-fire loop closed by this
\* gate".
NoSelfFire ==
    [][\A s \in Senders : proxy[s] = "flip" /\ proxy'[s] = "idle" =>
         auto = "idle" /\ gate = "free"]_vars

\* HibernateWorkspace: the steps from claim to mark are "atomic", so that a
\* claimed row gets on to some other status.
HibernatingEnds == (status = "hibernating") ~> (status # "hibernating")

\* "Hibernated workspaces auto-wake on the next incoming A2A message."
Wakes == (status = "hibernated" /\ container = "none") ~>
             (status # "hibernated" \/ container = "up")
=============================================================================

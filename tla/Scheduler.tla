------------------------------ MODULE Scheduler ------------------------------
(***************************************************************************)
(* Cron schedules of one workspace                                         *)
(* (workspace-server/internal/scheduler/scheduler.go and                   *)
(* internal/handlers/schedules.go): the tick that collects due rows, the   *)
(* fires it waits for, what each outcome writes back, the phantom-busy     *)
(* sweep behind the tick, and the handlers and webhooks that edit rows     *)
(* meanwhile.                                                              *)
(*                                                                         *)
(* A cron expression is a period: it is due at its multiples.  `now` is    *)
(* the time of day, so time never ends; a row keeps the time left until    *)
(* next_run_at, negative when it is overdue.  A unit of time is longer     *)
(* than the poll interval and the deadline of a statement; only a fire     *)
(* that waits for the agent lasts longer.                                  *)
(***************************************************************************)
EXTENDS Integers, FiniteSets, FiniteSetsExt

CONSTANTS
    Schedules,
    Periods,      \* the cron expressions in use
    Day,          \* length of the day: a common multiple of the periods
    BatchLimit,   \* LIMIT of the tick's query
    FireSlots,    \* fires in progress at once (maxConcurrent)
    PhantomThreshold, \* phantomStaleThreshold
    SweepEvery,   \* phantomSweepInterval
    SdkLimit,     \* consecutive SDK errors that disable a schedule
    MaxLate,      \* bound: overdue times are told apart up to here
    MaxMishaps    \* bound: operator requests, webhook deliveries, failed
                  \* statements, panics, deaths and restarts

ConstantsOK ==
    /\ Periods \subseteq Nat \ {0} /\ Periods # {}
    /\ Day \in Nat /\ \A p \in Periods : p <= Day /\ Day % p = 0
    /\ BatchLimit \in Nat \ {0} /\ FireSlots \in Nat \ {0}
    /\ PhantomThreshold \in Nat \ {0} /\ SweepEvery \in Nat \ {0}
    /\ SdkLimit \in Nat \ {0}
    /\ MaxLate \in Nat \ {0} /\ MaxMishaps \in Nat

ASSUME SchedulerConstants == ConstantsOK

VARIABLES
    now,
    schedule,   \* workspace_schedules
    fire,       \* the fire of each schedule, with the cron it was given
    tick,       \* the poll loop: "down", "idle" or in a tick ("busy")
    polled,     \* a tick has started in this unit of time
    native,     \* the override cache: the adapter runs schedules itself
    load,       \* has active_tasks reached max_concurrent_tasks
    worker,     \* the agent lives and reports its tasks
    idleFor,    \* time since the workspace's last row in activity_logs
    unswept,    \* time since the last phantom-busy sweep
    mishaps,
    recent,     \* history: handed out, without a fault, since the clock moved
    owed        \* history: made due by a webhook, not handed out since

world == <<native, load, worker>>
sweep == <<idleFor, unswept>>
cronHistory == <<recent, owed>>
cronVars == <<now, schedule, fire, tick, polled, world, sweep, mishaps, cronHistory>>

YesNo == {"yes", "no"}
FirePCs == {"none", "batch", "capacity", "defer", "proxy", "count", "finish"}
\* What a run means for the counters: "error" is a failure of the transport or
\* an empty response that made the schedule stale.
Outcomes == {"none", "ok", "sdk", "error"}
NoFire == [pc |-> "none", period |-> Day, left |-> 0, res |-> "none"]

Rows == [enabled : YesNo \cup {"gone"}, period : Periods, armed : YesNo,
         left : -MaxLate .. Day, sdk : 0 .. SdkLimit]

CronTypeOK ==
    /\ now \in 0 .. Day - 1
    /\ schedule \in [Schedules -> Rows]
    /\ fire \in [Schedules -> [pc : FirePCs, period : Periods \cup {Day},
                            left : -MaxLate .. 0, res : Outcomes]]
    /\ tick \in {"down", "idle", "busy"} /\ polled \in YesNo
    /\ native \in YesNo
    /\ load \in {"busy", "free"} /\ worker \in {"up", "dead"}
    /\ idleFor \in 0 .. PhantomThreshold /\ unswept \in 0 .. SweepEvery
    /\ mishaps \in 0 .. MaxMishaps
    /\ recent \subseteq Schedules /\ owed \subseteq Schedules

\* ComputeNextRun: the time from now to the next multiple of the period.
ComputeNextRun(p) == p - (now % p)

\* `next_run_at` may be NULL in rows an earlier release wrote.
NewRow(p, a) == [enabled |-> "yes", period |-> p, armed |-> a,
                 left |-> ComputeNextRun(p), sdk |-> 0]

CronInit ==
    /\ now = 0
    /\ schedule \in [Schedules -> {[NewRow(p, a) EXCEPT !.enabled = e] :
                    p \in Periods, a \in YesNo, e \in {"yes", "gone"}}]
    /\ fire = [s \in Schedules |-> NoFire]
    /\ tick = "down" /\ polled = "no"
    /\ native = "no" /\ load = "free" /\ worker = "up"
    /\ idleFor = 0 /\ unswept = SweepEvery
    /\ mishaps = 0 /\ recent = {} /\ owed = {}

Mishap == mishaps < MaxMishaps /\ mishaps' = mishaps + 1

\* UPDATE ... SET next_run_at of a row that may have been deleted meanwhile.
SetNextRun(s, p) ==
    IF schedule[s].enabled = "gone" THEN schedule
    ELSE [schedule EXCEPT ![s].left = ComputeNextRun(p), ![s].armed = "yes"]

-----------------------------------------------------------------------------
(* The poll loop *)

\* repairNullNextRunAt; its query or update may fail.
RepairNullNextRunAt ==
    \/ /\ schedule' = [s \in Schedules |->
                    IF schedule[s].enabled = "yes" /\ schedule[s].armed = "no"
                    THEN SetNextRun(s, schedule[s].period)[s] ELSE schedule[s]]
       /\ UNCHANGED mishaps
    \/ UNCHANGED schedule /\ Mishap

Start ==
    /\ tick = "down" /\ tick' = "idle"
    /\ RepairNullNextRunAt
    /\ UNCHANGED <<now, fire, polled, world, sweep, cronHistory>>

\* Mutant: only a slot of this very moment is due.
DueExactly(s) == schedule[s].enabled = "yes" /\ schedule[s].armed = "yes" /\ schedule[s].left = 0

IsDue(s) == schedule[s].enabled = "yes" /\ schedule[s].armed = "yes" /\ schedule[s].left <= 0

Due == {s \in Schedules : IsDue(s)}

\* The rows of the query: due, the longest overdue first, at most BatchLimit.
Batches ==
    {B \in SUBSET Due :
       /\ Cardinality(B) = Min({BatchLimit, Cardinality(Due)})
       /\ \A s \in B, t \in Due \ B : schedule[s].left <= schedule[t].left}

Running == {s \in Schedules : fire[s].pc \notin {"none", "batch"}}
Waiting == {s \in Schedules : fire[s].pc = "batch"}

\* The rows are read in the order of the query.
NextOfBatch(s) == fire[s].pc = "batch" /\ \A t \in Waiting : fire[s].left <= fire[t].left

\* tick: the due rows as they are now; an error of the query ends the tick.
PollTick ==
    /\ tick = "idle" /\ tick' = "busy" /\ polled' = "yes"
    /\ \/ \E B \in Batches :
            /\ fire' = [s \in Schedules |->
                 IF s \notin B THEN fire[s]
                 ELSE [NoFire EXCEPT !.pc = "batch", !.period = schedule[s].period,
                                     !.left = schedule[s].left]]
            /\ UNCHANGED mishaps
       \/ UNCHANGED fire /\ Mishap
    /\ UNCHANGED <<now, schedule, world, sweep, cronHistory>>

\* The adapter runs its schedules itself: the slot passes without a fire.
NativeSkip(s) ==
    /\ NextOfBatch(s) /\ native = "yes"
    /\ fire' = [fire EXCEPT ![s] = NoFire]
    /\ owed' = owed \ {s}
    /\ \/ schedule' = SetNextRun(s, fire[s].period) /\ UNCHANGED mishaps
       \/ UNCHANGED schedule /\ Mishap
    /\ UNCHANGED <<now, tick, polled, world, sweep, recent>>

\* A goroutine per row, as slots of the semaphore are free.
Launch(s) ==
    /\ NextOfBatch(s) /\ native = "no"
    /\ Cardinality(Running) < FireSlots
    /\ fire' = [fire EXCEPT ![s].pc = "capacity", ![s].left = 0]
    /\ recent' = recent \cup {s} /\ owed' = owed \ {s}
    /\ UNCHANGED <<now, schedule, tick, polled, world, sweep, mishaps>>

\* The query's context ends while the semaphore is full of fires that wait for
\* the agent: the rows not yet handed out are left for a later tick.
QueryExpires ==
    /\ Waiting # {} /\ Cardinality(Running) >= FireSlots
    /\ \A s \in Running : fire[s].pc = "proxy"
    /\ fire' = [s \in Schedules |-> IF s \in Waiting THEN NoFire ELSE fire[s]]
    /\ UNCHANGED <<now, schedule, tick, polled, world, sweep, mishaps, cronHistory>>

\* active_tasks > 0 and no activity within the threshold.
IsPhantom == load = "busy" /\ idleFor >= PhantomThreshold

\* The time stamp moves whether or not the statement succeeds.
MaybeSweepPhantomBusy ==
    IF unswept < SweepEvery THEN UNCHANGED <<load, unswept, mishaps>>
    ELSE /\ unswept' = 0
         /\ \/ load' = (IF IsPhantom THEN "free" ELSE load) /\ UNCHANGED mishaps
            \/ UNCHANGED load /\ Mishap

\* The fires are over.
TickEnds ==
    /\ tick = "busy" /\ Running = {} /\ Waiting = {}
    /\ tick' = "idle"
    /\ MaybeSweepPhantomBusy
    /\ UNCHANGED <<now, schedule, fire, polled, native, worker, idleFor, cronHistory>>

-----------------------------------------------------------------------------
(* fireSchedule, one goroutine per schedule *)

\* The capacity query; on an error the fire goes ahead.
Capacity(s) ==
    /\ fire[s].pc = "capacity"
    /\ \/ /\ fire' = [fire EXCEPT ![s].pc = IF load = "busy" THEN "defer" ELSE "proxy"]
          /\ UNCHANGED mishaps
       \/ fire' = [fire EXCEPT ![s].pc = "proxy"] /\ Mishap
    /\ UNCHANGED <<now, schedule, tick, polled, world, sweep, cronHistory>>

\* The bookkeeping UPDATE of a fire, with the cron the tick read.
Books(s) ==
    \/ schedule' = SetNextRun(s, fire[s].period) /\ UNCHANGED <<mishaps, recent>>
    \/ UNCHANGED schedule /\ recent' = recent \ {s} /\ Mishap

\* Mutant: the panic handler leaves next_run_at alone.
KeepBooks(s) == UNCHANGED <<schedule, mishaps, recent>>

\* recordQueued and recordSkipped write the same columns and a row of
\* activity_logs.
Record(s) == Books(s) /\ idleFor' = 0

\* The workspace is busy: EnqueueA2A, then recordQueued or, when it failed,
\* recordSkipped.
Defer(s) ==
    /\ fire[s].pc = "defer"
    /\ fire' = [fire EXCEPT ![s] = NoFire]
    /\ Record(s)
    /\ UNCHANGED <<now, tick, polled, world, unswept, owed>>

\* ProxyA2ARequest returns, and has logged the request.
Proxy(s) ==
    /\ fire[s].pc = "proxy"
    /\ \E o \in Outcomes \ {"none"} :
         /\ worker = "dead" => o = "error"
         /\ fire' = [fire EXCEPT ![s].pc = "count", ![s].res = o]
    /\ idleFor' = 0
    /\ UNCHANGED <<now, schedule, tick, polled, world, unswept, mishaps, cronHistory>>

PanicBooks(s) == Books(s)

\* A panic in the proxy, recovered in fireSchedule: no log, no counters.
Panic(s) ==
    /\ fire[s].pc = "proxy" /\ mishaps < MaxMishaps
    /\ fire' = [fire EXCEPT ![s] = NoFire]
    /\ PanicBooks(s)
    /\ UNCHANGED <<now, tick, polled, world, sweep, owed>>

\* The counters after a run: SDK errors disable the schedule at the limit, a
\* clean run clears them, every other outcome leaves them alone.
Counted(r, o) ==
    IF r.enabled = "gone" THEN r
    ELSE CASE o = "error" -> r
           [] o = "ok" -> [r EXCEPT !.sdk = 0]
           [] o = "sdk" -> [r EXCEPT !.sdk = Min({@ + 1, SdkLimit}),
                                     !.enabled = IF r.sdk + 1 >= SdkLimit THEN "no" ELSE @]

\* The statements that keep the counters; each may fail.
Count(s) ==
    /\ fire[s].pc = "count"
    /\ fire' = [fire EXCEPT ![s].pc = "finish", ![s].res = "none"]
    /\ \/ schedule' = [schedule EXCEPT ![s] = Counted(@, fire[s].res)] /\ UNCHANGED mishaps
       \/ UNCHANGED schedule /\ Mishap
       \/ /\ schedule' = [schedule EXCEPT ![s] =
                 [Counted(@, fire[s].res) EXCEPT !.enabled = schedule[s].enabled]]
          /\ Mishap
    /\ UNCHANGED <<now, tick, polled, world, sweep, cronHistory>>

\* The post-fire UPDATE and the row of activity_logs.
Finish(s) ==
    /\ fire[s].pc = "finish"
    /\ fire' = [fire EXCEPT ![s] = NoFire]
    /\ Books(s) /\ idleFor' = 0
    /\ UNCHANGED <<now, tick, polled, world, unswept, owed>>

-----------------------------------------------------------------------------
(* Handlers and webhooks *)

\* Create: a row with an id of its own.  A row is "gone" before, too.
Create(s) ==
    /\ schedule[s].enabled = "gone" /\ fire[s].pc = "none"
    /\ \E p \in Periods, e \in YesNo :
         schedule' = [schedule EXCEPT ![s] = [NewRow(p, "yes") EXCEPT !.enabled = e]]
    /\ Mishap
    /\ UNCHANGED <<now, fire, tick, polled, world, sweep, cronHistory>>

\* Update: a new cron recomputes next_run_at; `enabled` alone does not.
Update(s) ==
    /\ schedule[s].enabled # "gone"
    /\ \/ \E p \in Periods, e \in YesNo :
            schedule' = [schedule EXCEPT ![s].period = p, ![s].enabled = e, ![s].armed = "yes",
                               ![s].left = ComputeNextRun(p)]
       \/ \E e \in YesNo : schedule' = [schedule EXCEPT ![s].enabled = e]
    /\ owed' = (IF schedule'[s].enabled = "yes" /\ schedule'[s].left = schedule[s].left
                THEN owed ELSE owed \ {s})
    /\ Mishap
    /\ UNCHANGED <<now, fire, tick, polled, world, sweep, recent>>

Delete(s) ==
    /\ schedule[s].enabled # "gone"
    /\ schedule' = [schedule EXCEPT ![s].enabled = "gone"]
    /\ owed' = owed \ {s} /\ Mishap
    /\ UNCHANGED <<now, fire, tick, polled, world, sweep, recent>>

\* handleCronTriggerEvent: a GitHub event makes the schedules it names due.
Trigger(s) ==
    /\ schedule[s].enabled = "yes" /\ schedule[s].armed = "yes"
    /\ schedule' = [schedule EXCEPT ![s].left = 0]
    /\ owed' = owed \cup {s} /\ recent' = recent \ {s} /\ Mishap
    /\ UNCHANGED <<now, fire, tick, polled, world, sweep>>

-----------------------------------------------------------------------------
(* The agent, the clock and the process *)

\* A heartbeat: the task count, and the capabilities for the cache.
CronHeartbeat ==
    /\ worker = "up" /\ load' \in {"busy", "free"} /\ native' \in YesNo
    /\ UNCHANGED <<now, schedule, fire, tick, polled, worker, sweep, mishaps, cronHistory>>

\* Other traffic of a live agent is logged.
Activity ==
    /\ worker = "up" /\ idleFor' = 0
    /\ UNCHANGED <<now, schedule, fire, tick, polled, world, unswept, mishaps, cronHistory>>

\* The agent dies with its task count as last reported, or comes back.
AgentFlips ==
    /\ \/ worker = "up" /\ worker' = "dead" /\ Mishap
       \/ worker = "dead" /\ worker' = "up" /\ UNCHANGED mishaps
    /\ UNCHANGED <<now, schedule, fire, tick, polled, native, load, sweep, cronHistory>>

\* Time passes: of a tick, only a fire that waits for the agent takes time,
\* and without one a tick runs in every unit.
Advance ==
    /\ (tick = "idle" /\ polled = "yes") \/ Running # {}
    /\ \A s \in Schedules : fire[s].pc \in {"none", "proxy"}
    /\ now' = (now + 1) % Day /\ polled' = "no"
    /\ schedule' = [s \in Schedules |-> [schedule[s] EXCEPT !.left = Max({@ - 1, -MaxLate})]]
    /\ idleFor' = Min({idleFor + 1, PhantomThreshold})
    /\ unswept' = Min({unswept + 1, SweepEvery})
    /\ recent' = {}
    /\ UNCHANGED <<fire, tick, world, mishaps, owed>>

\* The process dies: fires, the cache and the sweep's time stamp are gone.
CronCrash ==
    /\ tick # "down" /\ tick' = "down"
    /\ fire' = [s \in Schedules |-> NoFire]
    /\ native' = "no" /\ unswept' = SweepEvery /\ recent' = {} /\ Mishap
    /\ UNCHANGED <<now, schedule, polled, load, worker, idleFor, owed>>

Fires(s) ==
    \/ NativeSkip(s) \/ Launch(s) \/ Capacity(s) \/ Defer(s)
    \/ Proxy(s) \/ Panic(s) \/ Count(s) \/ Finish(s)

Edits(s) == Create(s) \/ Update(s) \/ Delete(s) \/ Trigger(s)

CronNext ==
    \/ Start \/ PollTick \/ QueryExpires \/ TickEnds
    \/ \E s \in Schedules : Fires(s) \/ Edits(s)
    \/ CronHeartbeat \/ Activity \/ AgentFlips \/ Advance \/ CronCrash

\* The loop and every goroutine run, statements have deadlines, a fire has
\* fireTimeout, and time passes.
CronFairness ==
    /\ WF_cronVars(Start) /\ WF_cronVars(PollTick) /\ WF_cronVars(QueryExpires)
    /\ WF_cronVars(TickEnds) /\ SF_cronVars(Advance)
    /\ \A s \in Schedules : WF_cronVars(Fires(s))

CronSpec == CronInit /\ [][CronNext]_cronVars
CronFairSpec == CronSpec /\ CronFairness

-----------------------------------------------------------------------------
(* Properties *)

\* A slot is fired once: tick waits for its fires and every end of a fire
\* moves next_run_at, so within a unit of time no schedule is handed out a
\* second time, nor while its fire is in progress, unless the statement that
\* moves next_run_at failed, the process died or a webhook asked again.
SlotFiredOnce ==
    [][\A s \in Schedules :
         fire'[s].pc = "batch" /\ fire[s].pc # "batch"
           => fire[s].pc = "none" /\ s \notin recent]_cronVars

\* ORDER BY next_run_at and the tick's wait keep a busy schedule from
\* displacing another for ever: a due schedule is served, or its row disabled,
\* deleted or moved, whatever the batch limit.
Overdue(s) == schedule[s].enabled = "yes" /\ schedule[s].armed = "yes" /\ schedule[s].left <= 0
DueServed == \A s \in Schedules : Overdue(s) ~> ~Overdue(s)

\* sweepPhantomBusy: a workspace whose agent died with tasks on its count does
\* not stay busy ("without this sweep the scheduler skips cron fires for those
\* workspaces indefinitely").
PhantomCleared == (worker = "dead" /\ load = "busy") ~> (worker = "up" \/ load = "free")

\* handleCronTriggerEvent: "the scheduler's 30-second poll loop picks them up
\* on the next tick".
TriggerPickedUp ==
    [][tick = "idle" /\ tick' = "busy" => \A s \in owed : fire'[s].pc = "batch"]_cronVars
=============================================================================

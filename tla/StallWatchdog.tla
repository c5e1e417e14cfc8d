---------------------------- MODULE StallWatchdog ----------------------------
(***************************************************************************)
(* The stall watchdog of one workspace                                     *)
(* (workspace-server/internal/handlers/stall_watchdog.go): a pass finds a  *)
(* workspace that is online, busy and silent, probes it, and restarts it   *)
(* when the silence lasts.  Around it: the writes that stamp               *)
(* last_activity_at and the ones that do not, heartbeats, the scheduler's  *)
(* phantom-busy sweep, which resets active_tasks under the watchdog, and   *)
(* restarts of other origin.                                               *)
(*                                                                         *)
(* A unit of time is the sweep interval; times are kept as ages, told      *)
(* apart as far as the code compares them.  Workspaces do not meet in the  *)
(* watchdog, but for the LIMIT of its query: a pass whose batch is full of *)
(* older workspaces misses this one.                                       *)
(***************************************************************************)
EXTENDS Integers

CONSTANTS
    StaleAfter,     \* stallStaleAfter
    ProbeGrace,     \* stallProbeGrace
    Cooldown,       \* stallCooldown
    PhantomAfter,   \* phantomStaleThreshold of the scheduler
    MaxUpsets       \* bound: messages of others, failed statements, deaths
                    \* of the platform, restarts of other origin

ASSUME StallConstants ==
    /\ StaleAfter \in Nat /\ ProbeGrace \in Nat
    /\ PhantomAfter \in Nat \ {0} /\ Cooldown \in Nat \ {0}
    /\ MaxUpsets \in Nat

VARIABLES
    status,     \* "online", or "away" for every other status
    agent,      \* what the agent really does
    tasks,      \* active_tasks: "busy" or "free"
    quiet,      \* age of last_activity_at, Never while it is NULL
    logged,     \* age of the newest row in activity_logs
    row,        \* workspace_stall_state
    probe,      \* the queued probe and its fate
    pc, cand,   \* the pass in progress and the candidate it read
    stirred,    \* has last_activity_at moved since the pass read it
    swept,      \* a pass has taken place in this unit of time
    restart,    \* the goroutine that calls RestartByID: "none" or "pending"
    upsets,
    gap,        \* history: time since the watchdog last sent a restart
    spoke,      \* history: activity was stamped since the last probe
    heard,      \* history: spoke, when the pass ran its query
    asked       \* history: was the present agent probed

workspace == <<status, agent, tasks>>
clocks == <<quiet, logged>>
pass == <<pc, cand, stirred, swept>>
history == <<gap, spoke, heard, asked>>
vars == <<workspace, clocks, row, probe, pass, restart, upsets, history>>

Switch == {"yes", "no"}
Never == -1
Stale == StaleAfter + 1     \* an age beyond the threshold
NoRow == [state |-> "none", probed |-> 0, moved |-> "no", acted |-> Never]
RowSet == [state : {"none", "probed", "restarted"}, probed : 0 .. ProbeGrace + 1,
           moved : Switch, acted : Never .. Cooldown]

TypeOK ==
    /\ status \in {"online", "away"} /\ agent \in {"idle", "working", "hung"}
    /\ tasks \in {"busy", "free"}
    /\ quiet \in Never .. Stale /\ logged \in 0 .. PhantomAfter
    /\ row \in RowSet /\ cand \in RowSet
    /\ probe \in {"none", "queued", "answered"}
    /\ pc \in {"idle", "act", "upsert", "dispatch"}
    /\ stirred \in Switch /\ swept \in Switch
    /\ restart \in {"none", "pending"} /\ upsets \in 0 .. MaxUpsets
    /\ gap \in 0 .. Cooldown /\ spoke \in Switch /\ heard \in Switch
    /\ asked \in {"no", "yes", "replaced"}

Init ==
    /\ status = "online" /\ agent = "idle" /\ tasks = "free"
    /\ quiet = Never /\ logged = 0
    /\ row = NoRow /\ cand = NoRow /\ probe = "none"
    /\ pc = "idle" /\ stirred = "no" /\ swept = "no"
    /\ restart = "none" /\ upsets = 0
    /\ gap = Cooldown /\ spoke = "no" /\ heard = "no" /\ asked = "no"

Upset == upsets < MaxUpsets /\ upsets' = upsets + 1

-----------------------------------------------------------------------------
(* Time, the agent and the platform around the watchdog *)

Older(age, cap) == IF age \in {Never, cap} THEN age ELSE age + 1

\* A restart that was sent begins before the cooldown is over.
Tick ==
    /\ pc = "idle" /\ (restart = "pending" => gap + 1 < Cooldown)
    /\ quiet' = Older(quiet, Stale) /\ logged' = Older(logged, PhantomAfter)
    /\ row' = [row EXCEPT
                 !.probed = IF row.state = "none" THEN 0
                            ELSE Older(@, ProbeGrace + 1),
                 !.acted = Older(@, Cooldown)]
    /\ gap' = Older(gap, Cooldown) /\ swept' = "no"
    /\ UNCHANGED <<workspace, probe, pc, cand, stirred, restart, upsets,
                   spoke, heard, asked>>

\* logActivityExec: the row in activity_logs and the stamp, in one statement.
Stamp ==
    /\ quiet' = 0 /\ logged' = 0
    /\ row' = IF row.state = "none" THEN row ELSE [row EXCEPT !.moved = "yes"]
    /\ stirred' = IF pc = "idle" THEN "no" ELSE "yes"
    /\ spoke' = "yes"
    /\ UNCHANGED <<workspace, probe, pc, cand, swept, restart, gap, heard,
                   asked>>

\* The agent posts an activity of its own.
AgentActs == agent = "working" /\ Stamp /\ UNCHANGED upsets

\* The platform logs a message it proxies to the workspace, whether the agent
\* answers it, fails it or is too busy for it.
MessageLogged == status = "online" /\ Stamp /\ Upset

\* Delegations, memories, broadcasts and cron runs insert their rows without
\* the stamp.
LogsUnstamped ==
    /\ agent = "working" /\ logged # 0 /\ logged' = 0
    /\ UNCHANGED <<workspace, quiet, row, probe, pass, restart, upsets, history>>

\* Drain delivers the probe with logActivity off, so the reply stamps nothing;
\* a hung agent never replies.
Reply ==
    /\ probe = "queued" /\ status = "online" /\ agent # "hung"
    /\ probe' = "answered"
    /\ UNCHANGED <<workspace, clocks, row, pass, restart, upsets, history>>

\* Tasks begin without a stamp (cron, agents) or with one (MessageLogged).
AgentTurns ==
    /\ status = "online"
    /\ \/ agent = "idle" /\ agent' = "working"
       \/ agent = "working" /\ agent' \in {"idle", "hung"}
    /\ UNCHANGED <<status, tasks, clocks, row, probe, pass, restart, upsets,
                   history>>

Reported == IF agent = "idle" THEN "free" ELSE "busy"

\* The heartbeat goes on while the turn hangs, and reports its task.
Heartbeat ==
    /\ status = "online" /\ tasks # Reported /\ tasks' = Reported
    /\ UNCHANGED <<status, agent, clocks, row, probe, pass, restart, upsets,
                   history>>

\* A heartbeat of a workspace that was provisioning, offline or degraded, or
\* a resume.
ComesOnline ==
    /\ status = "away" /\ status' = "online" /\ tasks' = Reported
    /\ UNCHANGED <<agent, clocks, row, probe, pass, restart, upsets, history>>

\* Pauses, degradations and expired heartbeats leave the agent as it is.
Leaves ==
    /\ status = "online" /\ status' = "away" /\ Upset
    /\ UNCHANGED <<agent, tasks, clocks, row, probe, pass, restart, history>>

PhantomBusySweep ==
    /\ tasks = "busy" /\ logged = PhantomAfter /\ tasks' = "free"
    /\ UNCHANGED <<status, agent, clocks, row, probe, pass, restart, upsets,
                   history>>

\* A restart stops the container, whatever it was doing, and touches neither
\* last_activity_at nor the stall row.
NewAgent ==
    /\ status' = "away" /\ agent' = "idle"
    /\ UNCHANGED <<tasks, clocks, row, probe, pass, gap, spoke, heard>>

RestartRuns ==
    /\ restart = "pending" /\ restart' = "none"
    /\ NewAgent /\ asked' = "no" /\ UNCHANGED upsets

\* RestartByID drops a call within the debounce window, and runRestartCycle
\* gives up when the workspace is paused, hibernated or gone.
RestartDropped ==
    /\ restart = "pending" /\ restart' = "none" /\ Upset
    /\ UNCHANGED <<workspace, clocks, row, probe, pass, history>>

OtherRestart ==
    /\ NewAgent /\ Upset /\ UNCHANGED restart
    /\ asked' = IF asked = "yes" THEN "replaced" ELSE asked

Crash ==
    /\ pc' = "idle" /\ restart' = "none" /\ swept' = "no" /\ Upset
    /\ cand' = NoRow /\ stirred' = "no" /\ heard' = "no"
    /\ UNCHANGED <<workspace, clocks, row, probe, gap, spoke, asked>>

-----------------------------------------------------------------------------
(* Sweep *)

Candidate == status = "online" /\ tasks = "busy" /\ quiet = Stale

\* A pass that finds nothing, or whose query fails, changes nothing.
Query ==
    /\ pc = "idle" /\ swept = "no" /\ swept' = "yes" /\ Candidate
    /\ pc' = "act" /\ cand' = row /\ stirred' = "no" /\ heard' = spoke
    /\ UNCHANGED <<workspace, clocks, row, probe, restart, upsets, gap, spoke,
                   asked>>

InCooldown == cand.acted # Never /\ cand.acted < Cooldown

\* Mutant: resumed activity clears a row in any state.
ResumedAny == cand.state # "none" /\ cand.moved = "yes"

Resumed == cand.state = "probed" /\ cand.moved = "yes"

\* Mutant: a restart that was recorded is never followed up.
MustProbeOnce == ~Resumed /\ cand.state = "none"

MustProbe ==
    /\ ~Resumed
    /\ cand.state = "none" \/ (cand.state = "restarted" /\ ~InCooldown)

\* Mutant: after the cooldown the restart is repeated without a new probe.
MustRestartAgain ==
    /\ cand.moved = "no" /\ cand.state \in {"probed", "restarted"}
    /\ cand.probed > ProbeGrace /\ ~InCooldown

MustRestart ==
    /\ ~Resumed /\ cand.state = "probed"
    /\ cand.probed > ProbeGrace /\ ~InCooldown

Done == pc' = "idle" /\ cand' = NoRow /\ stirred' = "no" /\ heard' = "no"

\* The audit row is best effort and carries no stamp.
Audit == logged' \in {0, logged}

ClearState ==
    /\ pc = "act" /\ Resumed /\ Done /\ row' = NoRow /\ Audit
    /\ UNCHANGED <<workspace, quiet, probe, swept, restart, upsets, gap, spoke,
                   asked>>

\* The probe is queued first; a key per hour keeps one active probe.
EnqueueProbe ==
    /\ pc = "act" /\ MustProbe
    /\ probe' = "queued" /\ pc' = "upsert"
    /\ spoke' = "no" /\ asked' = "yes"
    /\ UNCHANGED <<workspace, clocks, row, cand, stirred, swept, restart,
                   upsets, gap, heard>>

\* Mutant: the snapshot is read when the row is written.
ProbedRowLate == [state |-> "probed", probed |-> 0, moved |-> "no",
                  acted |-> row.acted]

\* The snapshot is the last_activity_at of the query.
ProbedRow == [state |-> "probed", probed |-> 0, moved |-> stirred,
              acted |-> row.acted]

UpsertProbed ==
    /\ pc = "upsert" /\ Done /\ row' = ProbedRow /\ Audit
    /\ UNCHANGED <<workspace, quiet, probe, swept, restart, upsets, gap, spoke,
                   asked>>

\* Within the grace or the cooldown.
Hold ==
    /\ pc = "act" /\ ~Resumed /\ ~MustProbe /\ ~MustRestart /\ Done
    /\ UNCHANGED <<workspace, clocks, row, probe, swept, restart, upsets, gap,
                   spoke, asked>>

\* The cooldown is armed before the restart is sent.
RecordRestart ==
    /\ pc = "act" /\ MustRestart /\ pc' = "dispatch"
    /\ row' = [row EXCEPT !.state = "restarted", !.acted = 0] /\ Audit
    /\ UNCHANGED <<workspace, quiet, probe, cand, stirred, swept, restart,
                   upsets, history>>

SendRestart ==
    /\ pc = "dispatch" /\ pc' = "idle" /\ cand' = NoRow /\ stirred' = "no"
    /\ restart' = "pending" /\ gap' = 0 /\ heard' = "no"
    /\ UNCHANGED <<workspace, clocks, row, probe, swept, upsets, spoke, asked>>

\* The statement that was to write the row, or the enqueue, fails.
ActFails ==
    /\ \/ pc = "act" /\ (Resumed \/ MustProbe \/ MustRestart)
       \/ pc = "upsert"
    /\ Done /\ Upset
    /\ UNCHANGED <<workspace, clocks, row, probe, swept, restart, gap, spoke,
                   asked>>

Act == ClearState \/ EnqueueProbe \/ UpsertProbed \/ Hold \/ RecordRestart
         \/ SendRestart

Next ==
    \/ Tick \/ AgentActs \/ MessageLogged \/ LogsUnstamped \/ Reply
    \/ AgentTurns \/ Heartbeat \/ ComesOnline \/ Leaves \/ PhantomBusySweep
    \/ RestartRuns \/ RestartDropped \/ OtherRestart \/ Crash
    \/ Query \/ Act \/ ActFails

\* Passes, heartbeats and the goroutine of a restart keep running.  The
\* phantom-busy sweep, every five minutes, cannot stay ahead of a pass every
\* three: a workspace that is a candidate again and again is found.
Spec ==
    /\ Init /\ [][Next]_vars
    /\ WF_vars(Tick) /\ WF_vars(Act) /\ WF_vars(Heartbeat)
    /\ WF_vars(RestartRuns) /\ SF_vars(Query)

-----------------------------------------------------------------------------
(* Properties *)

\* Anti-flap: two restarts the watchdog sends are a cooldown apart, though
\* clearState throws last_action_at away and a death may fall anywhere.
RestartsSpaced == [][SendRestart => gap = Cooldown]_vars

\* Activity stamped after the probe was queued and before the pass ran its
\* query spares the workspace, also when it came before the row was written.
SilentSinceProbe == [][SendRestart => heard = "no"]_vars

\* The watchdog restarts an agent it has probed: its own restart brings a new
\* agent, which it probes anew.  Only when somebody else replaced the agent
\* does the row of the old one count against the new one.
AgentWasAsked == [][SendRestart => asked # "no"]_vars

\* A hung agent does not stay online for good, though restarts are dropped or
\* lost with the platform, once messages to it stop.  Until its first stamp
\* a workspace is not watched.
HungRestarted == []<>~(agent = "hung" /\ status = "online" /\ quiet # Never)

\* Not so: buildStallProbeBody says that replying advances last_activity_at.
RepliersSpared == [][SendRestart => probe # "answered"]_vars

\* Not so: the row survives a restart of other origin, and the new agent is
\* restarted in its first silent turn without "a chance to respond".
NewAgentAsked == [][SendRestart => asked # "replaced"]_vars
=============================================================================

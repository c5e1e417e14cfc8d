-------------------------- MODULE StallWatchdogProofs --------------------------
(***************************************************************************)
(* StallWatchdog, for any thresholds and any number of messages, failures, *)
(* deaths and restarts of other origin: the watchdog's restarts keep the   *)
(* cooldown, spare who spoke since the probe, and fall on an agent that    *)
(* was asked.  Then the scheduler beside it: its types, and that a slot is *)
(* fired once.                                                             *)
(***************************************************************************)
EXTENDS StallWatchdog, Scheduler, TLAPS

\* What the pass read still stands while it acts, but for the snapshot.
CandIsRow ==
    pc \in {"act", "upsert"} =>
        cand.state = row.state /\ cand.acted = row.acted /\ cand.probed = row.probed

\* The row remembers the last restart for as long as the cooldown lasts: a row
\* that is clear or probed belongs to a watchdog that may restart, and one that
\* is restarted is never older than the restart.
CooldownKept ==
    /\ row.state # "restarted" => gap = Cooldown
    /\ row.state = "restarted" => row.acted \in 0 .. gap
    /\ pc \in {"upsert", "dispatch"} => gap = Cooldown
    /\ pc = "upsert" => row.state # "probed"
    /\ pc = "dispatch" => row.state = "restarted" /\ row.acted = 0

\* Silence of the snapshot is silence since the probe.
SilenceKept ==
    /\ row.state = "probed" /\ row.moved = "no" => spoke = "no"
    /\ pc = "upsert" /\ stirred = "no" => spoke = "no"
    /\ pc = "act" /\ cand.state = "probed" /\ cand.moved = "no" => heard = "no"
    /\ pc = "dispatch" => heard = "no"

\* A probe stands behind a probed row; a restart that is on its way is within
\* its cooldown.
AskedKept ==
    /\ row.state = "probed" \/ pc \in {"upsert", "dispatch"} => asked # "no"
    /\ restart = "pending" => gap < Cooldown

StallInv == TypeOK /\ CandIsRow /\ CooldownKept /\ SilenceKept /\ AskedKept

\* An age stays an age.
LEMMA OlderAge ==
    ASSUME NEW cap \in Nat, NEW low \in {Never, 0}, NEW age \in low .. cap
    PROVE  Older(age, cap) \in low .. cap
BY DEF Older, Never

LEMMA StallInit == Init => StallInv
<1> SUFFICES ASSUME Init PROVE StallInv
  OBVIOUS
<1>1. TypeOK
  BY StallConstants DEF Init, TypeOK, NoRow, RowSet, Switch, Never, Stale
<1>2. CandIsRow /\ CooldownKept /\ SilenceKept /\ AskedKept
  BY DEF Init, CandIsRow, CooldownKept, SilenceKept, AskedKept, NoRow
<1> QED
  BY <1>1, <1>2 DEF StallInv

\* Time: the ages of the row and of the last restart grow together.
LEMMA TickKeeps == ASSUME StallInv, Tick PROVE StallInv'
<1> USE DEF StallInv
<1>1. /\ pc = "idle" /\ pc' = "idle" /\ restart' = restart /\ cand' = cand /\ stirred' = stirred
      /\ gap' = Older(gap, Cooldown) /\ swept' = "no"
      /\ UNCHANGED <<status, agent, tasks, probe, upsets, spoke, heard, asked>>
      /\ restart = "pending" => gap + 1 < Cooldown
      /\ quiet' = Older(quiet, Stale) /\ logged' = Older(logged, PhantomAfter)
  BY DEF Tick, workspace
<1>2. row \in RowSet
  BY DEF TypeOK
<1>3. /\ row' \in RowSet
      /\ row'.state = row.state /\ row'.moved = row.moved /\ row'.acted = Older(row.acted, Cooldown)
  <2>1. Older(row.acted, Cooldown) \in Never .. Cooldown
    BY <1>2, OlderAge, StallConstants DEF RowSet
  <2>2. Older(row.probed, ProbeGrace + 1) \in 0 .. ProbeGrace + 1
    BY <1>2, OlderAge, StallConstants DEF RowSet
  <2>3. 0 \in 0 .. ProbeGrace + 1
    BY StallConstants
  <2> DEFINE p == IF row.state = "none" THEN 0 ELSE Older(row.probed, ProbeGrace + 1)
             a == Older(row.acted, Cooldown)
  <2>4. row' = [row EXCEPT !.probed = p, !.acted = a]
    BY DEF Tick
  <2>5. p \in 0 .. ProbeGrace + 1
    BY <2>2, <2>3
  <2> HIDE DEF p, a
  <2> QED
    BY <1>2, <2>1, <2>4, <2>5 DEF RowSet, a
<1>4. gap' \in 0 .. Cooldown /\ quiet' \in Never .. Stale /\ logged' \in 0 .. PhantomAfter
  BY <1>1, OlderAge, StallConstants DEF TypeOK, Stale
<1>5. TypeOK'
  BY <1>1, <1>3, <1>4 DEF TypeOK, Switch
<1>6. CandIsRow' /\ SilenceKept'
  BY <1>1, <1>3 DEF CandIsRow, SilenceKept
<1>7. CooldownKept'
  <2>1. gap \in 0 .. Cooldown /\ Cooldown \in Nat
    BY StallConstants DEF TypeOK
  <2> QED
    BY <1>1, <1>3, <2>1 DEF CooldownKept, Older, Never
<1>8. AskedKept'
  BY <1>1, <1>3, StallConstants DEF AskedKept, Older, Never, TypeOK
<1> QED
  BY <1>5, <1>6, <1>7, <1>8

\* A stamp moves last_activity_at past every snapshot.
LEMMA StampKeeps ==
    ASSUME StallInv, Stamp, upsets' \in 0 .. MaxUpsets PROVE StallInv'
<1> USE DEF StallInv
<1>1. /\ quiet' = 0 /\ logged' = 0 /\ spoke' = "yes"
      /\ stirred' = IF pc = "idle" THEN "no" ELSE "yes"
      /\ UNCHANGED <<status, agent, tasks, probe, pc, cand, swept, restart, gap, heard, asked>>
  BY DEF Stamp, workspace
<1>2. /\ row' \in RowSet
      /\ row'.state = row.state /\ row'.acted = row.acted /\ row'.probed = row.probed
      /\ row.state # "none" => row'.moved = "yes"
  BY DEF Stamp, TypeOK, RowSet, Switch
<1>3. TypeOK'
  BY <1>1, <1>2, StallConstants DEF TypeOK, Switch, Never, Stale
<1>4. CandIsRow' /\ CooldownKept' /\ SilenceKept' /\ AskedKept'
  BY <1>1, <1>2 DEF CandIsRow, CooldownKept, SilenceKept, AskedKept
<1> QED
  BY <1>3, <1>4

\* What happens to the workspace beside the watchdog.
LEMMA WorkspaceKeeps ==
    ASSUME StallInv,
           \/ LogsUnstamped \/ Reply \/ AgentTurns \/ Heartbeat \/ ComesOnline
           \/ Leaves \/ PhantomBusySweep
    PROVE  StallInv'
<1> USE DEF StallInv
<1>1. UNCHANGED <<row, pc, cand, stirred, swept, restart, gap, spoke, heard, asked, quiet>>
  BY DEF LogsUnstamped, Reply, AgentTurns, Heartbeat, ComesOnline, Leaves,
     PhantomBusySweep, clocks, pass, history
<1>2. TypeOK'
  BY <1>1, StallConstants DEF TypeOK, LogsUnstamped, Reply, AgentTurns, Heartbeat, ComesOnline, Leaves,
     PhantomBusySweep, workspace, clocks, Reported, Upset
<1>3. CandIsRow' /\ CooldownKept' /\ SilenceKept' /\ AskedKept'
  BY <1>1 DEF CandIsRow, CooldownKept, SilenceKept, AskedKept
<1> QED
  BY <1>2, <1>3

\* Restarts of both origins, and the death of the platform.
LEMMA RestartKeeps ==
    ASSUME StallInv, RestartRuns \/ RestartDropped \/ OtherRestart \/ Crash
    PROVE  StallInv'
<1> USE DEF StallInv
<1>1. CASE RestartRuns
  <2>1. /\ restart = "pending" /\ restart' = "none" /\ asked' = "no"
        /\ status' = "away" /\ agent' = "idle"
        /\ UNCHANGED <<tasks, quiet, logged, row, probe, pc, cand, stirred, swept, upsets, gap, spoke, heard>>
    BY <1>1 DEF RestartRuns, NewAgent, clocks, pass
  <2>2. gap < Cooldown
    BY <2>1 DEF AskedKept
  <2>3. row.state = "restarted" /\ pc \notin {"upsert", "dispatch"}
    BY <2>2, StallConstants DEF CooldownKept, TypeOK
  <2>4. TypeOK'
    BY <2>1 DEF TypeOK
  <2> QED
    BY <2>1, <2>3, <2>4 DEF CandIsRow, CooldownKept, SilenceKept, AskedKept
<1>2. CASE RestartDropped
  <2>1. /\ restart' = "none" /\ upsets' \in 0 .. MaxUpsets
        /\ UNCHANGED <<status, agent, tasks, quiet, logged, row, probe, pc, cand, stirred, swept, gap, spoke, heard, asked>>
    BY <1>2, StallConstants DEF RestartDropped, Upset, TypeOK, workspace, clocks, pass, history
  <2>2. TypeOK'
    BY <2>1 DEF TypeOK
  <2> QED
    BY <2>1, <2>2 DEF CandIsRow, CooldownKept, SilenceKept, AskedKept
<1>3. CASE OtherRestart
  <2>1. /\ restart' = restart /\ upsets' \in 0 .. MaxUpsets
        /\ status' = "away" /\ agent' = "idle"
        /\ UNCHANGED <<tasks, quiet, logged, row, probe, pc, cand, stirred, swept, gap, spoke, heard>>
        /\ asked' = IF asked = "yes" THEN "replaced" ELSE asked
    BY <1>3, StallConstants DEF OtherRestart, NewAgent, Upset, TypeOK, clocks, pass
  <2>2. TypeOK'
    BY <2>1 DEF TypeOK
  <2> QED
    BY <2>1, <2>2 DEF CandIsRow, CooldownKept, SilenceKept, AskedKept
<1>4. CASE Crash
  <2>1. /\ pc' = "idle" /\ restart' = "none" /\ swept' = "no" /\ upsets' \in 0 .. MaxUpsets
        /\ cand' = NoRow /\ stirred' = "no" /\ heard' = "no"
        /\ UNCHANGED <<status, agent, tasks, quiet, logged, row, probe, gap, spoke, asked>>
    BY <1>4, StallConstants DEF Crash, Upset, TypeOK, workspace, clocks
  <2>2. TypeOK'
    BY <2>1, StallConstants DEF TypeOK, NoRow, RowSet, Switch, Never
  <2> QED
    BY <2>1, <2>2 DEF CandIsRow, CooldownKept, SilenceKept, AskedKept
<1> QED
  BY <1>1, <1>2, <1>3, <1>4

\* The query: row and candidate agree, and so do spoke and heard.
LEMMA QueryKeeps == ASSUME StallInv, Query PROVE StallInv'
<1> USE DEF StallInv
<1>1. /\ pc' = "act" /\ cand' = row /\ stirred' = "no" /\ heard' = spoke /\ swept' = "yes"
      /\ UNCHANGED <<status, agent, tasks, quiet, logged, row, probe, restart, upsets, gap, spoke, asked>>
  BY DEF Query, workspace, clocks
<1>2. TypeOK'
  BY <1>1 DEF TypeOK, Switch
<1> QED
  BY <1>1, <1>2 DEF CandIsRow, CooldownKept, SilenceKept, AskedKept

\* The steps of a pass after the query.
LEMMA ActKeeps == ASSUME StallInv, Act \/ ActFails PROVE StallInv'
<1> USE DEF StallInv
<1>0. NoRow \in RowSet /\ "no" \in Switch
  BY StallConstants DEF NoRow, RowSet, Switch, Never
<1>1. CASE ClearState
  <2>1. /\ pc = "act" /\ cand.state = "probed" /\ pc' = "idle" /\ cand' = NoRow /\ stirred' = "no" /\ heard' = "no"
        /\ row' = NoRow /\ logged' \in {0, logged}
        /\ UNCHANGED <<status, agent, tasks, quiet, probe, swept, restart, upsets, gap, spoke, asked>>
    BY <1>1 DEF ClearState, Resumed, Done, Audit, workspace
  <2>2. TypeOK'
    BY <1>0, <2>1, StallConstants DEF TypeOK
  <2>3. row.state = "probed" /\ gap = Cooldown
    BY <2>1 DEF CandIsRow, CooldownKept
  <2> QED
    BY <2>1, <2>2, <2>3 DEF CandIsRow, CooldownKept, SilenceKept, AskedKept, NoRow
<1>2. CASE EnqueueProbe
  <2>1. /\ pc = "act" /\ pc' = "upsert" /\ probe' = "queued" /\ spoke' = "no" /\ asked' = "yes"
        /\ UNCHANGED <<status, agent, tasks, quiet, logged, row, cand, stirred, swept, restart, upsets, gap, heard>>
    BY <1>2 DEF EnqueueProbe, workspace, clocks
  <2>2. cand.state = "none" \/ (cand.state = "restarted" /\ ~InCooldown)
    BY <1>2 DEF EnqueueProbe, MustProbe
  <2>3. row.state # "probed" /\ gap = Cooldown
    <3>1. CASE row.state = "none"
      BY <3>1 DEF CooldownKept
    <3>2. CASE row.state = "restarted" /\ ~InCooldown
      BY <2>1, <3>2, StallConstants DEF CandIsRow, CooldownKept, InCooldown, TypeOK, RowSet, Never
    <3> QED
      BY <2>1, <2>2, <3>1, <3>2 DEF CandIsRow
  <2>4. TypeOK'
    BY <2>1 DEF TypeOK, Switch
  <2> QED
    BY <2>1, <2>3, <2>4 DEF CandIsRow, CooldownKept, SilenceKept, AskedKept
<1>3. CASE UpsertProbed
  <2>1. /\ pc = "upsert" /\ pc' = "idle" /\ cand' = NoRow /\ stirred' = "no" /\ heard' = "no"
        /\ logged' \in {0, logged}
        /\ UNCHANGED <<status, agent, tasks, quiet, probe, swept, restart, upsets, gap, spoke, asked>>
    BY <1>3 DEF UpsertProbed, Done, Audit, workspace
  <2>2. row' = [state |-> "probed", probed |-> 0, moved |-> stirred, acted |-> row.acted]
    BY <1>3 DEF UpsertProbed, ProbedRow
  <2>3. row' \in RowSet
    BY <2>2, StallConstants DEF TypeOK, RowSet
  <2>4. TypeOK'
    BY <1>0, <2>1, <2>3, StallConstants DEF TypeOK
  <2> QED
    BY <2>1, <2>2, <2>4 DEF CandIsRow, CooldownKept, SilenceKept, AskedKept
<1>4. CASE Hold \/ ActFails
  <2>1. /\ pc' = "idle" /\ cand' = NoRow /\ stirred' = "no" /\ heard' = "no" /\ upsets' \in 0 .. MaxUpsets
        /\ UNCHANGED <<status, agent, tasks, quiet, logged, row, probe, swept, restart, gap, spoke, asked>>
    BY <1>4, StallConstants DEF Hold, ActFails, Done, Upset, TypeOK, workspace, clocks
  <2>2. TypeOK'
    BY <1>0, <2>1 DEF TypeOK
  <2> QED
    BY <2>1, <2>2 DEF CandIsRow, CooldownKept, SilenceKept, AskedKept
<1>5. CASE RecordRestart
  <2>1. /\ pc = "act" /\ pc' = "dispatch" /\ logged' \in {0, logged}
        /\ cand.state = "probed" /\ cand.moved # "yes"
        /\ row' = [row EXCEPT !.state = "restarted", !.acted = 0]
        /\ UNCHANGED <<status, agent, tasks, quiet, probe, cand, stirred, swept, restart, upsets, gap, spoke, heard, asked>>
    BY <1>5 DEF RecordRestart, MustRestart, Resumed, Audit, workspace, history
  <2>2. row' \in RowSet /\ row'.state = "restarted" /\ row'.acted = 0
    <3>1. row \in RowSet /\ 0 \in Never .. Cooldown
      BY StallConstants DEF TypeOK, Never
    <3> QED
      BY <2>1, <3>1 DEF RowSet
  <2>3. row.state = "probed" /\ gap = Cooldown /\ cand.moved = "no"
    BY <2>1 DEF CandIsRow, CooldownKept, TypeOK, RowSet, Switch
  <2>4. TypeOK'
    BY <2>1, <2>2, StallConstants DEF TypeOK
  <2> QED
    BY <2>1, <2>2, <2>3, <2>4, StallConstants DEF CandIsRow, CooldownKept, SilenceKept, AskedKept
<1>6. CASE SendRestart
  <2>1. /\ pc = "dispatch" /\ pc' = "idle" /\ cand' = NoRow /\ stirred' = "no"
        /\ restart' = "pending" /\ gap' = 0 /\ heard' = "no"
        /\ UNCHANGED <<status, agent, tasks, quiet, logged, row, probe, swept, upsets, spoke, asked>>
    BY <1>6 DEF SendRestart, workspace, clocks
  <2>2. TypeOK'
    BY <1>0, <2>1, StallConstants DEF TypeOK
  <2> QED
    BY <2>1, <2>2, StallConstants DEF CandIsRow, CooldownKept, SilenceKept, AskedKept
<1> QED
  BY <1>1, <1>2, <1>3, <1>4, <1>5, <1>6 DEF Act

LEMMA StallNext == StallInv /\ [Next]_vars => StallInv'
<1> SUFFICES ASSUME StallInv, [Next]_vars PROVE StallInv'
  OBVIOUS
<1>1. CASE Tick
  BY <1>1, TickKeeps
<1>2. CASE AgentActs \/ MessageLogged
  <2>1. upsets' \in 0 .. MaxUpsets /\ Stamp
    BY <1>2, StallConstants DEF StallInv, TypeOK, AgentActs, MessageLogged, Upset
  <2> QED
    BY <2>1, StampKeeps
<1>3. CASE \/ LogsUnstamped \/ Reply \/ AgentTurns \/ Heartbeat \/ ComesOnline
           \/ Leaves \/ PhantomBusySweep
  BY <1>3, WorkspaceKeeps
<1>4. CASE RestartRuns \/ RestartDropped \/ OtherRestart \/ Crash
  BY <1>4, RestartKeeps
<1>5. CASE Query
  BY <1>5, QueryKeeps
<1>6. CASE Act \/ ActFails
  BY <1>6, ActKeeps
<1>7. CASE UNCHANGED vars
  <2>1. UNCHANGED <<status, agent, tasks, quiet, logged, row, probe, pc, cand, stirred, swept, restart,
                    upsets, gap, spoke, heard, asked>>
    BY <1>7 DEF vars, workspace, clocks, pass, history
  <2> QED
    BY <2>1 DEF StallInv, TypeOK, CandIsRow, CooldownKept, SilenceKept, AskedKept
<1> QED
  BY <1>1, <1>2, <1>3, <1>4, <1>5, <1>6, <1>7 DEF Next

\* The invariant of the watchdog.
LEMMA StallInvariant == Spec => []StallInv
BY StallInit, StallNext, PTL DEF Spec

\* The stall row, the ages and the pass of the watchdog keep their types.
THEOREM StallTypes == Spec => []TypeOK
BY StallInvariant, PTL DEF StallInv

\* Two restarts the watchdog sends are a cooldown apart (softRestart arms the
\* cooldown before the restart is sent), for any cooldown and any failures.
THEOREM StallRestartsSpaced == Spec => RestartsSpaced
<1>1. StallInv /\ [Next]_vars => [SendRestart => gap = Cooldown]_vars
  BY DEF StallInv, CooldownKept, SendRestart
<1> QED
  BY <1>1, StallInvariant, PTL DEF Spec, RestartsSpaced

\* Activity stamped between the probe and the query spares the workspace
\* (act compares with the snapshot probe stored).
THEOREM StallSparesSpeakers == Spec => SilentSinceProbe
<1>1. StallInv /\ [Next]_vars => [SendRestart => heard = "no"]_vars
  BY DEF StallInv, SilenceKept, SendRestart
<1> QED
  BY <1>1, StallInvariant, PTL DEF Spec, SilentSinceProbe

\* A restart falls on an agent that was probed, or on one that somebody else
\* put in its place.
THEOREM StallAsksFirst == Spec => AgentWasAsked
<1>1. StallInv /\ [Next]_vars => [SendRestart => asked # "no"]_vars
  BY DEF StallInv, AskedKept, SendRestart
<1> QED
  BY <1>1, StallInvariant, PTL DEF Spec, AgentWasAsked

-----------------------------------------------------------------------------
(* The scheduler, whose phantom-busy sweep the watchdog has to live with.  *)

\* The row does not come up again: the schedule is deleted, or its slot moved.
Moved(s) == schedule[s].enabled = "gone" \/ schedule[s].left > 0

\* What a fire carries.
FireSet == [pc : FirePCs, period : Periods \cup {Day}, left : -MaxLate .. 0, res : Outcomes]

\* The part of the types that the slots depend on.
SlotTypes ==
    /\ now \in 0 .. Day - 1
    /\ schedule \in [Schedules -> Rows]
    /\ fire \in [Schedules -> FireSet]

\* Fires belong to a tick, and count an outcome; a schedule in the batch has not been handed out
\* since the clock moved, and one that was, and is over, has moved its slot.
SlotOK(s) ==
    /\ tick # "busy" => fire[s].pc = "none"
    /\ fire[s].pc = "batch" => s \notin recent
    /\ fire[s].pc = "count" => fire[s].res # "none"
    /\ s \in recent /\ fire[s].pc = "none" => Moved(s)

SlotInv == ConstantsOK /\ SlotTypes /\ \A s \in Schedules : SlotOK(s)

LEMMA DayPositive == ASSUME ConstantsOK PROVE Day \in Nat \ {0}
  <1>1. PICK p \in Periods : p \in Nat \ {0} /\ p <= Day
    BY DEF ConstantsOK
  <1> QED
    BY <1>1 DEF ConstantsOK

\* The next run of a cron expression lies ahead, within the day.
LEMMA NextRunAhead ==
    ASSUME SlotInv, NEW p \in Periods \cup {Day}
    PROVE  ComputeNextRun(p) \in 1 .. Day
  <1>1. p \in Nat \ {0} /\ p <= Day /\ now \in Nat /\ Day \in Nat
    BY DayPositive DEF SlotInv, SlotTypes, ConstantsOK
  <1>2. now % p \in 0 .. p - 1
    BY <1>1
  <1> QED
    BY <1>1, <1>2 DEF ComputeNextRun

LEMMA RowRearmed ==
    ASSUME schedule \in [Schedules -> Rows], NEW s \in Schedules, NEW n \in -MaxLate .. Day,
           NEW new, new = [schedule EXCEPT ![s].left = n, ![s].armed = "yes"]
    PROVE  /\ new \in [Schedules -> Rows] /\ new[s].left = n
           /\ \A u \in Schedules : u # s => new[u] = schedule[u]
  BY DEF Rows, YesNo

\* What the bookkeeping UPDATE makes of the row.
LEMMA NextRunMoves ==
    ASSUME SlotInv, NEW s \in Schedules, NEW p \in Periods \cup {Day},
           NEW new, new = SetNextRun(s, p)
    PROVE  /\ new \in [Schedules -> Rows]
           /\ new[s].enabled = "gone" \/ new[s].left > 0
           /\ \A u \in Schedules : u # s => new[u] = schedule[u]
  <1>1. ComputeNextRun(p) \in 1 .. Day /\ MaxLate \in Nat /\ Day \in Nat
    BY NextRunAhead, DayPositive DEF SlotInv, ConstantsOK
  <1> HIDE DEF ComputeNextRun
  <1>2. schedule \in [Schedules -> Rows]
    BY DEF SlotInv, SlotTypes
  <1>3. CASE schedule[s].enabled = "gone"
    BY <1>2, <1>3 DEF SetNextRun
  <1>4. CASE schedule[s].enabled # "gone"
    <2>1. new = [schedule EXCEPT ![s].left = ComputeNextRun(p), ![s].armed = "yes"]
      BY <1>4 DEF SetNextRun
    <2>2. ComputeNextRun(p) \in -MaxLate .. Day
      BY <1>1
    <2>3. /\ new \in [Schedules -> Rows]
          /\ new[s].left = ComputeNextRun(p)
          /\ \A u \in Schedules : u # s => new[u] = schedule[u]
      BY <1>2, <2>1, <2>2, RowRearmed
    <2> QED
      BY <1>1, <2>3
  <1> QED
    BY <1>3, <1>4

LEMMA LargerIsOne ==
    ASSUME NEW a \in Int, NEW b \in Int
    PROVE  /\ Max({a, b}) \in {a, b} /\ Max({a, b}) >= a /\ Max({a, b}) >= b
           /\ Min({a, b}) \in {a, b} /\ Min({a, b}) <= a /\ Min({a, b}) <= b
  <1>1. \E x \in {a, b} : \A y \in {a, b} : x >= y
    OBVIOUS
  <1>2. \E x \in {a, b} : \A y \in {a, b} : x <= y
    OBVIOUS
  <1> QED
    BY <1>1, <1>2 DEF Max, Min

\* Nobody but the tick puts a schedule into a batch.
NoNewBatch == \A s \in Schedules : fire'[s].pc = "batch" => fire[s].pc = "batch"

\* A step for schedule s leaves the slots of the others alone.
LEMMA SlotStep ==
    ASSUME SlotInv, NEW s \in Schedules, UNCHANGED <<now, tick>>,
           schedule' \in [Schedules -> Rows], fire' \in [Schedules -> FireSet],
           \A u \in Schedules : u # s => schedule'[u] = schedule[u] /\ fire'[u] = fire[u],
           recent' \subseteq recent \cup {s},
           SlotOK(s)', fire'[s].pc = "batch" => fire[s].pc = "batch"
    PROVE  SlotInv' /\ NoNewBatch
  <1>1. ASSUME NEW u \in Schedules, u # s  PROVE SlotOK(u)'
    BY <1>1 DEF SlotInv, SlotOK, Moved
  <1>2. SlotTypes'
    BY DEF SlotInv, SlotTypes, FireSet
  <1>3. NoNewBatch
    BY DEF NoNewBatch
  <1> QED
    BY <1>1, <1>2, <1>3 DEF SlotInv, ConstantsOK

LEMMA NoFireTyped == ASSUME SlotInv PROVE NoFire \in FireSet /\ NoFire.pc = "none"
  BY DEF SlotInv, ConstantsOK, NoFire, FireSet, FirePCs, Outcomes

LEMMA FireTyped == ASSUME SlotInv
    PROVE  schedule \in [Schedules -> Rows] /\ fire \in [Schedules -> FireSet]
  BY DEF SlotInv, SlotTypes, FireSet

\* The end of a fire, with its books kept or the statement failed.
LEMMA FireOver ==
    ASSUME SlotInv, NEW s \in Schedules, UNCHANGED <<now, tick>>,
           fire[s].pc # "none", fire' = [fire EXCEPT ![s] = NoFire], Books(s)
    PROVE  SlotInv' /\ NoNewBatch
  <1>1. fire' \in [Schedules -> FireSet] /\ fire'[s].pc = "none"
        /\ \A u \in Schedules : u # s => fire'[u] = fire[u]
    BY NoFireTyped, FireTyped
  <1>2. fire[s].period \in Periods \cup {Day}
    BY FireTyped DEF FireSet
  <1>3. CASE schedule' = SetNextRun(s, fire[s].period) /\ recent' = recent
    <2>1. /\ schedule' \in [Schedules -> Rows]
          /\ schedule'[s].enabled = "gone" \/ schedule'[s].left > 0
          /\ \A u \in Schedules : u # s => schedule'[u] = schedule[u]
      BY <1>2, <1>3, NextRunMoves
    <2>2. SlotOK(s)'
      BY <1>1, <2>1 DEF SlotOK, Moved
    <2> QED
      BY <1>1, <1>3, <2>1, <2>2, SlotStep
  <1>4. CASE schedule' = schedule /\ recent' = recent \ {s}
    <2>1. SlotOK(s)'
      BY <1>1, <1>4 DEF SlotOK
    <2> QED
      BY <1>1, <1>4, <2>1, FireTyped, SlotStep
  <1> QED
    BY <1>3, <1>4 DEF Books

\* The counters stay within their limit.
LEMMA CountedTyped ==
    ASSUME SlotInv, NEW r \in Rows, NEW o \in Outcomes \ {"none"}
    PROVE  Counted(r, o) \in Rows
  <1>1. SdkLimit \in Nat \ {0} /\ r.sdk \in 0 .. SdkLimit
    BY DEF SlotInv, ConstantsOK, Rows
  <1>2. Min({r.sdk + 1, SdkLimit}) \in 0 .. SdkLimit
    <2>1. r.sdk + 1 \in Int /\ SdkLimit \in Int /\ r.sdk + 1 >= 0
      BY <1>1
    <2>2. /\ Min({r.sdk + 1, SdkLimit}) \in {r.sdk + 1, SdkLimit}
          /\ Min({r.sdk + 1, SdkLimit}) <= SdkLimit
      BY <2>1, LargerIsOne
    <2>3. \A m : m \in {r.sdk + 1, SdkLimit} /\ m <= SdkLimit => m \in 0 .. SdkLimit
      BY <1>1, <2>1
    <2> QED
      BY <2>2, <2>3
  <1>3. CASE r.enabled = "gone" \/ o = "error"
    BY <1>3 DEF Counted
  <1>4. CASE r.enabled # "gone" /\ o = "ok"
    <2>1. Counted(r, o) = [r EXCEPT !.sdk = 0]
      BY <1>4 DEF Counted
    <2>2. 0 \in 0 .. SdkLimit
      BY <1>1
    <2> QED
      BY <2>1, <2>2 DEF Rows
  <1>5. CASE r.enabled # "gone" /\ o = "sdk"
    <2> HIDE DEF Min
    <2>1. PICK e \in {"no", r.enabled} :
             Counted(r, o) = [r EXCEPT !.sdk = Min({r.sdk + 1, SdkLimit}), !.enabled = e]
      BY <1>5 DEF Counted
    <2> QED
      BY <1>2, <2>1 DEF Rows, YesNo
  <1> QED
    BY <1>3, <1>4, <1>5 DEF Outcomes

LEMMA FireGoes ==
    ASSUME fire \in [Schedules -> FireSet], NEW s \in Schedules, NEW l \in FirePCs,
           NEW o \in Outcomes, fire' = [fire EXCEPT ![s].pc = l, ![s].res = o]
    PROVE  /\ fire' \in [Schedules -> FireSet] /\ fire'[s].pc = l /\ fire'[s].res = o
           /\ \A u \in Schedules : u # s => fire'[u] = fire[u]
  BY DEF FireSet

LEMMA FireLaunches ==
    ASSUME fire \in [Schedules -> FireSet], NEW s \in Schedules, NEW l \in FirePCs,
           NEW n \in -MaxLate .. 0, fire' = [fire EXCEPT ![s].pc = l, ![s].left = n]
    PROVE  /\ fire' \in [Schedules -> FireSet] /\ fire'[s].pc = l
           /\ \A u \in Schedules : u # s => fire'[u] = fire[u]
  BY DEF FireSet

LEMMA FireSteps ==
    ASSUME SlotInv, NEW s \in Schedules, Fires(s)
    PROVE  SlotInv' /\ NoNewBatch
  <1>0. /\ schedule \in [Schedules -> Rows] /\ fire \in [Schedules -> FireSet]
        /\ SlotOK(s) /\ MaxLate \in Nat /\ fire[s].period \in Periods \cup {Day}
    BY FireTyped DEF SlotInv, ConstantsOK, FireSet
  <1>1. CASE Defer(s) \/ Panic(s) \/ Finish(s)
    <2>1. /\ UNCHANGED <<now, tick>> /\ fire[s].pc # "none"
          /\ fire' = [fire EXCEPT ![s] = NoFire] /\ Books(s)
      BY <1>1 DEF Defer, Record, Panic, PanicBooks, Finish
    <2> QED
      BY <2>1, FireOver
  <1>2. CASE NativeSkip(s)
    <2>1. /\ fire[s].pc = "batch" /\ fire' = [fire EXCEPT ![s] = NoFire]
          /\ UNCHANGED <<now, tick, recent>>
          /\ schedule' = SetNextRun(s, fire[s].period) \/ schedule' = schedule
      BY <1>2 DEF NativeSkip, NextOfBatch
    <2>2. fire' \in [Schedules -> FireSet] /\ fire'[s].pc = "none"
          /\ \A u \in Schedules : u # s => fire'[u] = fire[u]
      BY <1>0, <2>1, NoFireTyped
    <2>3. /\ schedule' \in [Schedules -> Rows]
          /\ \A u \in Schedules : u # s => schedule'[u] = schedule[u]
      <3>1. CASE schedule' = schedule
        BY <1>0, <3>1
      <3>2. CASE schedule' = SetNextRun(s, fire[s].period)
        BY <1>0, <3>2, NextRunMoves
      <3> QED
        BY <2>1, <3>1, <3>2
    <2>4. SlotOK(s)'
      BY <1>0, <2>1, <2>2 DEF SlotOK
    <2> QED
      BY <2>1, <2>2, <2>3, <2>4, SlotStep
  <1>3. CASE Launch(s)
    <2>1. /\ fire[s].pc = "batch" /\ fire' = [fire EXCEPT ![s].pc = "capacity", ![s].left = 0]
          /\ recent' = recent \cup {s} /\ UNCHANGED <<now, schedule, tick>>
      BY <1>3 DEF Launch, NextOfBatch
    <2>2. fire' \in [Schedules -> FireSet] /\ fire'[s].pc = "capacity"
          /\ \A u \in Schedules : u # s => fire'[u] = fire[u]
      <3>1. "capacity" \in FirePCs /\ 0 \in -MaxLate .. 0
        BY <1>0 DEF FirePCs
      <3> QED
        BY <1>0, <2>1, <3>1, FireLaunches
    <2>3. SlotOK(s)'
      BY <1>0, <2>1, <2>2 DEF SlotOK
    <2> QED
      BY <1>0, <2>1, <2>2, <2>3, SlotStep
  <1>4. CASE Capacity(s) \/ Proxy(s)
    <2>1. /\ fire[s].pc \in {"capacity", "proxy"} /\ UNCHANGED <<now, schedule, tick, recent>>
          /\ \E l \in {"defer", "proxy", "count"}, o \in Outcomes :
                /\ l = "count" => o # "none"
                /\ fire' = [fire EXCEPT ![s].pc = l, ![s].res = o]
      <3>1. CASE Proxy(s)
        BY <3>1 DEF Proxy, cronHistory
      <3>2. CASE Capacity(s)
        <4>1. PICK l \in {"defer", "proxy"} : fire' = [fire EXCEPT ![s].pc = l]
          BY <3>2 DEF Capacity
        <4>2. fire' = [fire EXCEPT ![s].pc = l, ![s].res = fire[s].res]
          BY <1>0, <4>1 DEF FireSet
        <4>3. fire[s].res \in Outcomes
          BY <1>0 DEF FireSet
        <4> QED
          BY <3>2, <4>2, <4>3 DEF Capacity, cronHistory
      <3> QED
        BY <1>4, <3>1, <3>2
    <2>2. /\ fire' \in [Schedules -> FireSet]
          /\ fire'[s].pc \in {"defer", "proxy", "count"}
          /\ \A u \in Schedules : u # s => fire'[u] = fire[u]
          /\ fire'[s].pc = "count" => fire'[s].res # "none"
      <3>1. PICK l \in {"defer", "proxy", "count"}, o \in Outcomes :
               /\ l = "count" => o # "none"
               /\ fire' = [fire EXCEPT ![s].pc = l, ![s].res = o]
        BY <2>1
      <3>2. l \in FirePCs
        BY DEF FirePCs
      <3> QED
        <4>1. /\ fire' \in [Schedules -> FireSet] /\ fire'[s].pc = l /\ fire'[s].res = o
              /\ \A u \in Schedules : u # s => fire'[u] = fire[u]
          BY <1>0, <3>1, <3>2, FireGoes
        <4> QED
          BY <3>1, <4>1
    <2>3. SlotOK(s)'
      BY <1>0, <2>1, <2>2 DEF SlotOK
    <2> QED
      BY <1>0, <2>1, <2>2, <2>3, SlotStep
  <1>5. CASE Count(s)
    <2>1. /\ fire[s].pc = "count" /\ UNCHANGED <<now, tick, recent>>
          /\ fire' = [fire EXCEPT ![s].pc = "finish", ![s].res = "none"]
          /\ \/ schedule' = [schedule EXCEPT ![s] = Counted(schedule[s], fire[s].res)]
             \/ schedule' = schedule
             \/ schedule' = [schedule EXCEPT ![s] =
                    [Counted(schedule[s], fire[s].res) EXCEPT !.enabled = schedule[s].enabled]]
      BY <1>5 DEF Count, cronHistory
    <2>2. fire' \in [Schedules -> FireSet] /\ fire'[s].pc = "finish"
          /\ \A u \in Schedules : u # s => fire'[u] = fire[u]
      <3>1. "finish" \in FirePCs /\ "none" \in Outcomes
        BY DEF FirePCs, Outcomes
      <3> QED
        BY <1>0, <2>1, <3>1, FireGoes
    <2>3. Counted(schedule[s], fire[s].res) \in Rows
      <3>1. schedule[s] \in Rows /\ fire[s].res \in Outcomes \ {"none"}
        BY <1>0, <2>1 DEF FireSet, SlotOK
      <3> QED
        BY <3>1, CountedTyped
    <2>4. [Counted(schedule[s], fire[s].res) EXCEPT !.enabled = schedule[s].enabled] \in Rows
      BY <1>0, <2>3 DEF Rows
    <2> HIDE DEF Counted
    <2>5. /\ schedule' \in [Schedules -> Rows]
          /\ \A u \in Schedules : u # s => schedule'[u] = schedule[u]
      BY <1>0, <2>1, <2>3, <2>4
    <2>6. SlotOK(s)'
      BY <1>0, <2>1, <2>2 DEF SlotOK
    <2> QED
      BY <2>1, <2>2, <2>5, <2>6, SlotStep
  <1> QED
    BY <1>1, <1>2, <1>3, <1>4, <1>5 DEF Fires

\* A row as a handler writes it: its slot lies ahead.
LEMMA NewRowAhead ==
    ASSUME SlotInv, NEW p \in Periods
    PROVE  ComputeNextRun(p) \in -MaxLate .. Day /\ ComputeNextRun(p) > 0
  <1>1. ComputeNextRun(p) \in 1 .. Day /\ MaxLate \in Nat /\ Day \in Nat
    BY NextRunAhead, DayPositive DEF SlotInv, ConstantsOK
  <1> HIDE DEF ComputeNextRun
  <1> QED
    BY <1>1

LEMMA RowOf ==
    ASSUME NEW e \in YesNo \cup {"gone"}, NEW p \in Periods, NEW a \in YesNo,
           NEW n \in -MaxLate .. Day, NEW k \in 0 .. SdkLimit
    PROVE  [enabled |-> e, period |-> p, armed |-> a, left |-> n, sdk |-> k] \in Rows
  BY Zenon DEF Rows

LEMMA NewRowTyped ==
    ASSUME SlotInv, NEW p \in Periods, NEW a \in YesNo, NEW e \in YesNo \cup {"gone"},
           NEW r, r = [NewRow(p, a) EXCEPT !.enabled = e]
    PROVE  r \in Rows /\ r.left > 0
  <1>1. ComputeNextRun(p) \in -MaxLate .. Day /\ ComputeNextRun(p) > 0
    BY NewRowAhead
  <1>2. 0 \in 0 .. SdkLimit
    BY DEF SlotInv, ConstantsOK
  <1> HIDE DEF ComputeNextRun
  <1>3. r = [enabled |-> e, period |-> p, armed |-> a, left |-> ComputeNextRun(p), sdk |-> 0]
    BY DEF NewRow
  <1>4. PICK n \in -MaxLate .. Day : n = ComputeNextRun(p) /\ n > 0
    BY <1>1
  <1>5. r = [enabled |-> e, period |-> p, armed |-> a, left |-> n, sdk |-> 0]
    BY <1>3, <1>4
  <1>6. r \in Rows
    <2>1. [enabled |-> e, period |-> p, armed |-> a, left |-> n, sdk |-> 0] \in Rows
      BY <1>2, RowOf, Zenon
    <2> QED
      BY <1>5, <2>1
  <1> QED
    BY <1>4, <1>5, <1>6

\* The handlers and the webhook.  Only Create brings a deleted row back, with a
\* slot of its own; `enabled` alone moves no slot back; and what a webhook asks
\* for is no longer a fired slot.
LEMMA EditSteps ==
    ASSUME SlotInv, NEW s \in Schedules, Edits(s)
    PROVE  SlotInv' /\ NoNewBatch
  <1>0. /\ schedule \in [Schedules -> Rows] /\ fire \in [Schedules -> FireSet]
        /\ SlotOK(s) /\ schedule[s] \in Rows
    BY FireTyped DEF SlotInv
  <1>1. UNCHANGED <<now, tick, fire>>
    BY DEF Edits, Create, Update, Delete, Trigger
  <1>2. ASSUME NEW r \in Rows, schedule' = [schedule EXCEPT ![s] = r], recent' \subseteq recent,
               s \in recent' => \/ r.enabled = "gone" \/ r.left > 0
                                \/ r.left = schedule[s].left /\ schedule[s].enabled # "gone"
        PROVE  SlotInv' /\ NoNewBatch
    <2>1. /\ schedule' \in [Schedules -> Rows] /\ schedule'[s] = r
          /\ \A u \in Schedules : u # s => schedule'[u] = schedule[u]
      BY <1>0, <1>2
    <2>2. SlotOK(s)'
      BY <1>0, <1>1, <1>2, <2>1 DEF SlotOK, Moved
    <2> QED
      BY <1>0, <1>1, <1>2, <2>1, <2>2, SlotStep
  <1>3. CASE Create(s)
    <2>1. PICK p \in Periods, e \in YesNo :
             schedule' = [schedule EXCEPT ![s] = [NewRow(p, "yes") EXCEPT !.enabled = e]]
      BY <1>3 DEF Create
    <2> DEFINE r == [NewRow(p, "yes") EXCEPT !.enabled = e]
    <2>2. "yes" \in YesNo /\ e \in YesNo \cup {"gone"}
      BY DEF YesNo
    <2>3. r \in Rows /\ r.left > 0
      BY <2>2, NewRowTyped
    <2>4. schedule' = [schedule EXCEPT ![s] = r] /\ recent' = recent
      BY <1>3, <2>1 DEF Create, cronHistory
    <2> HIDE DEF r
    <2>5. recent' \subseteq recent
      BY <2>4
    <2> QED
      BY <1>2, <2>3, <2>4, <2>5
  <1>4. CASE Update(s)
    <2>0. recent' = recent /\ schedule[s].enabled # "gone"
      BY <1>4 DEF Update
    <2>1. CASE \E p \in Periods, e \in YesNo :
                 schedule' = [schedule EXCEPT ![s].period = p, ![s].enabled = e, ![s].armed = "yes",
                                              ![s].left = ComputeNextRun(p)]
      <3>1. PICK p \in Periods, e \in YesNo :
                 schedule' = [schedule EXCEPT ![s].period = p, ![s].enabled = e, ![s].armed = "yes",
                                              ![s].left = ComputeNextRun(p)]
        BY <2>1
      <3>2. ComputeNextRun(p) \in -MaxLate .. Day /\ ComputeNextRun(p) > 0
        BY NewRowAhead
      <3> HIDE DEF ComputeNextRun
      <3> DEFINE r == [schedule[s] EXCEPT !.period = p, !.enabled = e, !.armed = "yes",
                                          !.left = ComputeNextRun(p)]
      <3>3. r \in Rows /\ r.left = ComputeNextRun(p)
        BY <1>0, <3>2 DEF Rows, YesNo
      <3>4. schedule' = [schedule EXCEPT ![s] = r]
        BY <1>0, <3>1
      <3> HIDE DEF r
      <3> QED
        BY <1>2, <2>0, <3>2, <3>3, <3>4
    <2>2. CASE \E e \in YesNo : schedule' = [schedule EXCEPT ![s].enabled = e]
      <3>1. PICK e \in YesNo : schedule' = [schedule EXCEPT ![s].enabled = e]
        BY <2>2
      <3> DEFINE r == [schedule[s] EXCEPT !.enabled = e]
      <3>2. r \in Rows /\ r.left = schedule[s].left
        BY <1>0 DEF Rows, YesNo
      <3>3. schedule' = [schedule EXCEPT ![s] = r]
        BY <1>0, <3>1
      <3> HIDE DEF r
      <3> QED
        BY <1>2, <2>0, <3>2, <3>3
    <2> QED
      BY <1>4, <2>1, <2>2 DEF Update
  <1>5. CASE Delete(s)
    <2> DEFINE r == [schedule[s] EXCEPT !.enabled = "gone"]
    <2>1. r \in Rows /\ r.enabled = "gone"
      BY <1>0 DEF Rows
    <2>2. schedule' = [schedule EXCEPT ![s] = r] /\ recent' = recent
      BY <1>0, <1>5 DEF Delete
    <2> HIDE DEF r
    <2>3. recent' \subseteq recent
      BY <2>2
    <2> QED
      BY <1>2, <2>1, <2>2, <2>3
  <1>6. CASE Trigger(s)
    <2> DEFINE r == [schedule[s] EXCEPT !.left = 0]
    <2>0. 0 \in -MaxLate .. Day
      BY DayPositive DEF SlotInv, ConstantsOK
    <2>1. r \in Rows
      BY <1>0, <2>0 DEF Rows
    <2>2. schedule' = [schedule EXCEPT ![s] = r] /\ recent' = recent \ {s}
      BY <1>0, <1>6 DEF Trigger
    <2> HIDE DEF r
    <2>3. recent' \subseteq recent /\ s \notin recent'
      BY <2>2
    <2> QED
      BY <1>2, <2>1, <2>2, <2>3
  <1> QED
    BY <1>3, <1>4, <1>5, <1>6 DEF Edits

\* The poll loop, but for the tick itself.
LEMMA LoopSlots ==
    ASSUME SlotInv, Start \/ QueryExpires \/ TickEnds
    PROVE  SlotInv' /\ NoNewBatch
  <1>0. /\ schedule \in [Schedules -> Rows] /\ fire \in [Schedules -> FireSet]
        /\ \A s \in Schedules : SlotOK(s)
    BY FireTyped DEF SlotInv
  <1>1. CASE Start
    <2>1. /\ tick = "down" /\ tick' = "idle" /\ UNCHANGED <<now, fire, recent>>
          /\ \/ schedule' = [s \in Schedules |->
                   IF schedule[s].enabled = "yes" /\ schedule[s].armed = "no"
                   THEN SetNextRun(s, schedule[s].period)[s] ELSE schedule[s]]
             \/ schedule' = schedule
      BY <1>1 DEF Start, RepairNullNextRunAt, cronHistory
    <2>2. ASSUME NEW s \in Schedules
          PROVE  /\ schedule'[s] \in Rows
                 /\ schedule'[s] # schedule[s] => Moved(s)'
      <3>1. schedule[s].period \in Periods \cup {Day} /\ schedule[s] \in Rows
        BY <1>0 DEF Rows
      <3> DEFINE new == SetNextRun(s, schedule[s].period)
      <3>2. new \in [Schedules -> Rows] /\ (new[s].enabled = "gone" \/ new[s].left > 0)
        BY <3>1, NextRunMoves
      <3> HIDE DEF new
      <3>3. schedule'[s] \in {new[s], schedule[s]}
        BY <2>1 DEF new
      <3> QED
        BY <3>1, <3>2, <3>3 DEF Moved
    <2>3. schedule' \in [Schedules -> Rows]
      <3>1. CASE schedule' = schedule
        BY <1>0, <3>1
      <3>2. CASE schedule' = [s \in Schedules |->
                   IF schedule[s].enabled = "yes" /\ schedule[s].armed = "no"
                   THEN SetNextRun(s, schedule[s].period)[s] ELSE schedule[s]]
        <4>1. schedule' = [s \in Schedules |-> schedule'[s]]
          BY <3>2
        <4> QED
          BY <2>2, <4>1
      <3> QED
        BY <2>1, <3>1, <3>2
    <2>4. ASSUME NEW s \in Schedules  PROVE SlotOK(s)'
      <3>1. SlotOK(s) /\ fire'[s] = fire[s] /\ fire[s].pc = "none"
        BY <1>0, <2>1 DEF SlotOK
      <3> QED
        BY <2>1, <2>2, <3>1 DEF SlotOK, Moved
    <2> QED
      BY <1>0, <2>1, <2>3, <2>4 DEF SlotInv, SlotTypes, NoNewBatch, ConstantsOK
  <1>2. CASE QueryExpires
    <2>1. /\ fire' = [s \in Schedules |-> IF s \in Waiting THEN NoFire ELSE fire[s]]
          /\ UNCHANGED <<now, schedule, tick, recent>>
      BY <1>2 DEF QueryExpires, cronHistory
    <2>2. fire' \in [Schedules -> FireSet]
      BY <1>0, <2>1, NoFireTyped
    <2>3. ASSUME NEW s \in Schedules  PROVE SlotOK(s)' /\ (fire'[s].pc = "batch" => fire[s].pc = "batch")
      <3>1. CASE s \in Waiting
        <4>1. fire[s].pc = "batch" /\ fire'[s].pc = "none"
          BY <2>1, <3>1, NoFireTyped DEF Waiting
        <4> QED
          BY <1>0, <2>1, <4>1 DEF SlotOK
      <3>2. CASE s \notin Waiting
        <4>1. fire'[s] = fire[s]
          BY <2>1, <3>2
        <4> QED
          BY <1>0, <2>1, <4>1 DEF SlotOK, Moved
      <3> QED
        BY <3>1, <3>2
    <2> QED
      BY <2>1, <2>2, <2>3 DEF SlotInv, SlotTypes, NoNewBatch, FireSet, ConstantsOK
  <1>3. CASE TickEnds
    <2>1. /\ \A s \in Schedules : fire[s].pc = "none"
          /\ UNCHANGED <<now, schedule, fire, recent>>
      BY <1>3 DEF TickEnds, Running, Waiting, cronHistory
    <2>2. \A s \in Schedules : SlotOK(s)'
      BY <1>0, <2>1 DEF SlotOK, Moved
    <2> QED
      BY <2>1, <2>2 DEF SlotInv, SlotTypes, NoNewBatch, ConstantsOK
  <1> QED
    BY <1>1, <1>2, <1>3

\* The tick: all fires are over, and a row that is due has not been handed out
\* since the clock moved.
LEMMA TickSlots ==
    ASSUME SlotInv, PollTick
    PROVE  /\ SlotInv'
           /\ \A s \in Schedules : fire[s].pc = "none" /\ (fire'[s].pc = "batch" => s \notin recent)
  <1>0. /\ schedule \in [Schedules -> Rows] /\ fire \in [Schedules -> FireSet]
        /\ tick = "idle" /\ UNCHANGED <<now, schedule, recent>>
        /\ \A s \in Schedules : SlotOK(s) /\ fire[s].pc = "none"
    BY FireTyped DEF SlotInv, SlotOK, PollTick, cronHistory
  <1>1. CASE \E B \in Batches :
               fire' = [s \in Schedules |->
                  IF s \notin B THEN fire[s]
                  ELSE [NoFire EXCEPT !.pc = "batch", !.period = schedule[s].period,
                                           !.left = schedule[s].left]]
    <2>1. PICK B \in Batches :
               fire' = [s \in Schedules |->
                  IF s \notin B THEN fire[s]
                  ELSE [NoFire EXCEPT !.pc = "batch", !.period = schedule[s].period,
                                           !.left = schedule[s].left]]
      BY <1>1
    <2>2. \A s \in B : s \in Schedules /\ IsDue(s)
      BY DEF Batches, Due
    <2>3. ASSUME NEW s \in Schedules
          PROVE  fire'[s] \in FireSet /\ SlotOK(s)' /\ (fire'[s].pc = "batch" => s \notin recent)
      <3>1. CASE s \notin B
        <4>1. fire'[s] = fire[s]
          BY <2>1, <3>1
        <4> QED
          BY <1>0, <4>1 DEF SlotOK, Moved
      <3>2. CASE s \in B
        <4>1. /\ schedule[s] \in Rows /\ schedule[s].enabled = "yes" /\ schedule[s].left <= 0
          BY <1>0, <2>2, <3>2 DEF IsDue
        <4>2. schedule[s].left \in -MaxLate .. 0
          <5>1. schedule[s].left \in -MaxLate .. Day /\ MaxLate \in Nat /\ Day \in Nat
            BY <4>1 DEF Rows, SlotInv, ConstantsOK
          <5> QED
            BY <4>1, <5>1
        <4>3. s \notin recent
          <5>1. ~(schedule[s].left > 0)
            BY <4>1, <4>2 DEF SlotInv, ConstantsOK
          <5> QED
            BY <1>0, <4>1, <5>1 DEF SlotOK, Moved
        <4>4. fire'[s] = [pc |-> "batch", period |-> schedule[s].period,
                          left |-> schedule[s].left, res |-> "none"]
          BY <2>1, <3>2 DEF NoFire
        <4>5. fire'[s] \in FireSet /\ fire'[s].pc = "batch"
          BY <4>1, <4>2, <4>4 DEF FireSet, Rows, FirePCs, Outcomes
        <4> QED
          BY <1>0, <4>3, <4>5 DEF SlotOK, PollTick
      <3> QED
        BY <3>1, <3>2
    <2>4. fire' \in [Schedules -> FireSet]
      <3>1. fire' = [s \in Schedules |-> fire'[s]]
        BY <2>1
      <3> QED
        BY <2>3, <3>1
    <2> QED
      BY <1>0, <2>3, <2>4 DEF SlotInv, SlotTypes, FireSet, ConstantsOK
  <1>2. CASE fire' = fire
    <2>1. \A s \in Schedules : SlotOK(s)'
      BY <1>0, <1>2 DEF SlotOK, Moved
    <2> QED
      BY <1>0, <1>2, <2>1 DEF SlotInv, SlotTypes, ConstantsOK
  <1> QED
    BY <1>1, <1>2 DEF PollTick

\* Heartbeats, activity and the agent's life leave the slots alone.
LEMMA StillSlots ==
    ASSUME SlotInv, UNCHANGED <<now, schedule, fire, tick, recent>>
    PROVE  SlotInv' /\ NoNewBatch
  BY DEF SlotInv, SlotTypes, SlotOK, Moved, NoNewBatch, ConstantsOK

\* Overdue times are told apart up to the bound.
LEMMA OlderRow ==
    ASSUME SlotInv, NEW r \in Rows
    PROVE  [r EXCEPT !.left = Max({r.left - 1, -MaxLate})] \in Rows
  <1>1. r.left \in -MaxLate .. Day /\ MaxLate \in Nat /\ Day \in Nat
    BY DEF SlotInv, ConstantsOK, Rows
  <1>2. r.left - 1 \in Int /\ -MaxLate \in Int
    BY <1>1
  <1>3. /\ Max({r.left - 1, -MaxLate}) \in {r.left - 1, -MaxLate}
        /\ Max({r.left - 1, -MaxLate}) >= -MaxLate
    BY <1>2, LargerIsOne
  <1>4. \A m : m \in {r.left - 1, -MaxLate} /\ m >= -MaxLate => m \in -MaxLate .. Day
    BY <1>1
  <1>5. Max({r.left - 1, -MaxLate}) \in -MaxLate .. Day
    BY <1>3, <1>4
  <1>6. PICK n \in -MaxLate .. Day : n = Max({r.left - 1, -MaxLate})
    BY <1>5
  <1>7. [r EXCEPT !.left = n] \in Rows
    BY DEF Rows
  <1> QED
    BY <1>6, <1>7

\* The clock moves and the process dies: nothing counts as handed out.
LEMMA ClockAndCrashSlots ==
    ASSUME SlotInv, Advance \/ CronCrash
    PROVE  SlotInv' /\ NoNewBatch
  <1>0. /\ schedule \in [Schedules -> Rows] /\ fire \in [Schedules -> FireSet]
        /\ \A s \in Schedules : SlotOK(s)
    BY FireTyped DEF SlotInv
  <1>1. CASE Advance
    <2>1. /\ now' = (now + 1) % Day /\ recent' = {} /\ UNCHANGED <<fire, tick>>
          /\ schedule' = [s \in Schedules |->
                [schedule[s] EXCEPT !.left = Max({schedule[s].left - 1, -MaxLate})]]
      BY <1>1 DEF Advance
    <2>2. now' \in 0 .. Day - 1
      <3>1. Day \in Nat \ {0} /\ now + 1 \in Nat
        BY DayPositive DEF SlotInv, SlotTypes
      <3> QED
        BY <2>1, <3>1
    <2>3. schedule' \in [Schedules -> Rows]
      <3>1. \A s \in Schedules :
               [schedule[s] EXCEPT !.left = Max({schedule[s].left - 1, -MaxLate})] \in Rows
        BY <1>0, OlderRow
      <3> QED
        BY <2>1, <3>1, Zenon
    <2>4. \A s \in Schedules : SlotOK(s)'
      BY <1>0, <2>1 DEF SlotOK
    <2> QED
      BY <1>0, <2>1, <2>2, <2>3, <2>4 DEF SlotInv, SlotTypes, NoNewBatch, FireSet, ConstantsOK
  <1>2. CASE CronCrash
    <2>1. /\ fire' = [s \in Schedules |-> NoFire] /\ recent' = {}
          /\ UNCHANGED <<now, schedule>>
      BY <1>2 DEF CronCrash
    <2>2. fire' \in [Schedules -> FireSet] /\ \A s \in Schedules : fire'[s].pc = "none"
      BY <2>1, NoFireTyped
    <2>3. \A s \in Schedules : SlotOK(s)'
      BY <2>1, <2>2 DEF SlotOK
    <2> QED
      BY <2>1, <2>2, <2>3 DEF SlotInv, SlotTypes, NoNewBatch, FireSet, ConstantsOK
  <1> QED
    BY <1>1, <1>2

LEMMA SlotInit == ASSUME ConstantsOK, CronInit PROVE SlotInv
  <1>1. now = 0 /\ now \in 0 .. Day - 1
    BY DayPositive DEF CronInit
  <1>2. fire \in [Schedules -> FireSet] /\ \A s \in Schedules : fire[s].pc = "none"
    <2>1. NoFire \in FireSet /\ NoFire.pc = "none"
      BY DEF ConstantsOK, NoFire, FireSet, FirePCs, Outcomes
    <2> QED
      BY <2>1 DEF CronInit
  <1>3. ASSUME NEW p \in Periods, NEW a \in YesNo, NEW e \in {"yes", "gone"}
        PROVE  [NewRow(p, a) EXCEPT !.enabled = e] \in Rows
    <2>1. ComputeNextRun(p) = p
      <3>1. p \in Nat \ {0}
        BY DEF ConstantsOK
      <3>2. 0 % p = 0
        BY <3>1
      <3> QED
        BY <1>1, <3>1, <3>2 DEF ComputeNextRun
    <2> HIDE DEF ComputeNextRun
    <2>2. p \in -MaxLate .. Day /\ 0 \in 0 .. SdkLimit
      BY DEF ConstantsOK
    <2>3. [NewRow(p, a) EXCEPT !.enabled = e] =
             [enabled |-> e, period |-> p, armed |-> a, left |-> p, sdk |-> 0]
      BY <2>1 DEF NewRow
    <2>4. e \in YesNo \cup {"gone"}
      BY DEF YesNo
    <2>5. [enabled |-> e, period |-> p, armed |-> a, left |-> p, sdk |-> 0] \in Rows
      BY <2>2, <2>4, RowOf, Zenon
    <2> QED
      BY <2>3, <2>5
  <1>4. schedule \in [Schedules -> Rows]
    <2>1. {[NewRow(p, a) EXCEPT !.enabled = e] :
              p \in Periods, a \in YesNo, e \in {"yes", "gone"}} \subseteq Rows
      <3> DEFINE Row(p, a, e) == [NewRow(p, a) EXCEPT !.enabled = e]
      <3>1. \A p \in Periods, a \in YesNo, e \in {"yes", "gone"} : Row(p, a, e) \in Rows
        BY <1>3
      <3> HIDE DEF Row
      <3>2. {Row(p, a, e) : p \in Periods, a \in YesNo, e \in {"yes", "gone"}} \subseteq Rows
        BY <3>1
      <3> QED
        BY <3>2 DEF Row
    <2> QED
      BY <2>1 DEF CronInit
  <1>5. \A s \in Schedules : SlotOK(s)
    BY <1>2 DEF SlotOK, CronInit
  <1> QED
    BY <1>1, <1>2, <1>4, <1>5 DEF SlotInv, SlotTypes, FireSet

\* A schedule enters a batch only from a tick, without a fire of its own and
\* not twice in a unit of time.
LEMMA SlotNext ==
    ASSUME SlotInv, [CronNext]_cronVars
    PROVE  /\ SlotInv'
           /\ \A s \in Schedules : fire'[s].pc = "batch" /\ fire[s].pc # "batch"
                                      => fire[s].pc = "none" /\ s \notin recent
  <1>1. CASE PollTick
    BY <1>1, TickSlots
  <1>2. ASSUME SlotInv' /\ NoNewBatch
        PROVE  /\ SlotInv'
               /\ \A s \in Schedules : fire'[s].pc = "batch" /\ fire[s].pc # "batch"
                                          => fire[s].pc = "none" /\ s \notin recent
    BY <1>2 DEF NoNewBatch
  <1>3. CASE Start \/ QueryExpires \/ TickEnds
    BY <1>2, <1>3, LoopSlots
  <1>4. CASE \E s \in Schedules : Fires(s) \/ Edits(s)
    BY <1>2, <1>4, FireSteps, EditSteps
  <1>5. CASE CronHeartbeat \/ Activity \/ AgentFlips \/ UNCHANGED cronVars
    <2>1. UNCHANGED <<now, schedule, fire, tick, recent>>
      BY <1>5 DEF CronHeartbeat, Activity, AgentFlips, cronVars, cronHistory
    <2> QED
      BY <1>2, <2>1, StillSlots
  <1>6. CASE Advance \/ CronCrash
    BY <1>2, <1>6, ClockAndCrashSlots
  <1> QED
    BY <1>1, <1>3, <1>4, <1>5, <1>6 DEF CronNext

\* A cron slot is fired once, whatever the periods, the limit of the query and
\* the number of fires at once, and whatever handlers, webhooks, failed
\* statements, panics and deaths come between: tick waits for its fires, and
\* every way a fire can end moves next_run_at ahead of the clock.
THEOREM SlotsFiredOnce ==
    CronSpec => SlotFiredOnce
  <1>1. CronInit => SlotInv
    BY SlotInit, SchedulerConstants
  <1>2. SlotInv /\ [CronNext]_cronVars => SlotInv'
    BY SlotNext
  <1>3. SlotInv /\ [CronNext]_cronVars =>
          [\A s \in Schedules : fire'[s].pc = "batch" /\ fire[s].pc # "batch"
               => fire[s].pc = "none" /\ s \notin recent]_cronVars
    BY SlotNext
  <1> QED
    BY <1>1, <1>2, <1>3, PTL DEF CronSpec, SlotFiredOnce

\* What the slots do not depend on: the loop, the agent and the two ages.
RestTypes ==
    /\ tick \in {"down", "idle", "busy"} /\ polled \in YesNo
    /\ native \in YesNo
    /\ load \in {"busy", "free"} /\ worker \in {"up", "dead"}
    /\ idleFor \in 0 .. PhantomThreshold /\ unswept \in 0 .. SweepEvery
    /\ mishaps \in 0 .. MaxMishaps
    /\ recent \subseteq Schedules /\ owed \subseteq Schedules

\* A counter that is capped stays within its cap.
LEMMA CappedAge ==
    ASSUME NEW cap \in Nat, NEW age \in 0 .. cap
    PROVE  Min({age + 1, cap}) \in 0 .. cap
  <1>1. age + 1 \in Int /\ cap \in Int
    OBVIOUS
  <1>2. Min({age + 1, cap}) \in {age + 1, cap} /\ Min({age + 1, cap}) <= cap
    BY <1>1, LargerIsOne
  <1>3. \A m : m \in {age + 1, cap} /\ m <= cap => m \in 0 .. cap
    OBVIOUS
  <1> QED
    BY <1>2, <1>3

LEMMA MishapCounted ==
    ASSUME ConstantsOK, mishaps \in 0 .. MaxMishaps, Mishap \/ UNCHANGED mishaps
    PROVE  mishaps' \in 0 .. MaxMishaps
  BY DEF ConstantsOK, Mishap

LEMMA RestNext ==
    ASSUME ConstantsOK, RestTypes, [CronNext]_cronVars
    PROVE  RestTypes'
  <1>0. 0 \in 0 .. PhantomThreshold /\ 0 \in 0 .. SweepEvery /\ SweepEvery \in 0 .. SweepEvery
    BY DEF ConstantsOK
  <1>1. mishaps' \in 0 .. MaxMishaps
    <2>1. Mishap \/ UNCHANGED mishaps
      BY DEF CronNext, Start, RepairNullNextRunAt, PollTick, QueryExpires, TickEnds,
             MaybeSweepPhantomBusy, Fires, NativeSkip, Launch, Capacity, Defer, Record, Books,
             Proxy, Panic, PanicBooks, Count, Finish, Edits, Create, Update, Delete, Trigger,
             CronHeartbeat, Activity, AgentFlips, Advance, CronCrash, cronVars
    <2> QED
      BY <2>1, MishapCounted DEF RestTypes
  <1>2. tick' \in {"down", "idle", "busy"} /\ polled' \in YesNo
    BY DEF RestTypes, YesNo, CronNext, Start, PollTick, QueryExpires, TickEnds, Fires,
           NativeSkip, Launch, Capacity, Defer, Proxy, Panic, Count, Finish, Edits, Create,
           Update, Delete, Trigger, CronHeartbeat, Activity, AgentFlips, Advance, CronCrash,
           cronVars
  <1>3. native' \in YesNo /\ load' \in {"busy", "free"} /\ worker' \in {"up", "dead"}
    BY DEF RestTypes, YesNo, CronNext, Start, PollTick, QueryExpires, TickEnds,
           MaybeSweepPhantomBusy, Fires, NativeSkip, Launch, Capacity, Defer, Proxy, Panic,
           Count, Finish, Edits, Create, Update, Delete, Trigger, CronHeartbeat, Activity,
           AgentFlips, Advance, CronCrash, cronVars, world
  <1>4. recent' \subseteq Schedules /\ owed' \subseteq Schedules
    BY DEF RestTypes, CronNext, Start, PollTick, QueryExpires, TickEnds, Fires, NativeSkip,
           Launch, Capacity, Defer, Record, Books, Proxy, Panic, PanicBooks, Count, Finish,
           Edits, Create, Update, Delete, Trigger, CronHeartbeat, Activity, AgentFlips,
           Advance, CronCrash, cronVars, cronHistory
  <1>5. idleFor' \in 0 .. PhantomThreshold /\ unswept' \in 0 .. SweepEvery
    <2>1. CASE Advance
      <3>1. PhantomThreshold \in Nat /\ SweepEvery \in Nat
        BY DEF ConstantsOK
      <3>2. /\ Min({idleFor + 1, PhantomThreshold}) \in 0 .. PhantomThreshold
            /\ Min({unswept + 1, SweepEvery}) \in 0 .. SweepEvery
        BY <3>1, CappedAge DEF RestTypes
      <3> QED
        BY <2>1, <3>2 DEF Advance
    <2>2. CASE ~Advance
      <3>1. idleFor' \in {idleFor, 0} /\ unswept' \in {unswept, 0, SweepEvery}
        BY <2>2 DEF CronNext, Start, PollTick, QueryExpires, TickEnds, MaybeSweepPhantomBusy,
               Fires, NativeSkip, Launch, Capacity, Defer, Record, Proxy, Panic, Count, Finish,
               Edits, Create, Update, Delete, Trigger, CronHeartbeat, Activity, AgentFlips,
               CronCrash, cronVars, sweep
      <3> QED
        BY <1>0, <3>1 DEF RestTypes
    <2> QED
      BY <2>1, <2>2
  <1> QED
    BY <1>1, <1>2, <1>3, <1>4, <1>5 DEF RestTypes

\* Schedules, fires, the loop and the ages keep their types, for any set of
\* schedules and cron expressions: ComputeNextRun lies within the day, and the
\* counter of SDK errors within its limit.
THEOREM CronTypes == CronSpec => []CronTypeOK
  <1>1. CronInit => SlotInv /\ RestTypes
    <2>1. ASSUME CronInit PROVE RestTypes
      BY <2>1, SchedulerConstants DEF CronInit, RestTypes, YesNo, ConstantsOK
    <2> QED
      BY <2>1, SlotInit, SchedulerConstants
  <1>2. SlotInv /\ RestTypes /\ [CronNext]_cronVars => SlotInv' /\ RestTypes'
    BY SlotNext, RestNext DEF SlotInv
  <1>3. SlotInv /\ RestTypes => CronTypeOK
    BY DEF SlotInv, SlotTypes, RestTypes, CronTypeOK, FireSet
  <1> QED
    BY <1>1, <1>2, <1>3, PTL DEF CronSpec
=============================================================================

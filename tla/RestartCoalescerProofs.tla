----------------------- MODULE RestartCoalescerProofs -----------------------
(***************************************************************************)
(* Machine-checked proofs about RestartCoalescer, for every set of         *)
(* goroutines and every number of requests and panics, and of the          *)
(* refinement of RestartCycles.                                            *)
(***************************************************************************)
EXTENDS RestartCoalescer, TLAPS

-----------------------------------------------------------------------------
(* The inductive invariant.                                                *)

\* Nothing claims to know a configuration the database does not hold.
KnownWritten ==
    /\ booted <= written /\ accepted <= written
    /\ \A t \in Triggers : want[t] <= written
    /\ \A t \in Threads : got[t] <= written

\* What a provision is about to start is no older than what runs.
LoadedFresh == \A t \in Threads : pc[t] = "start" => booted <= got[t]

\* A request that came after a cycle consumed the flag has set it again.
LateRequestsNoted ==
    \A t \in Triggers : pc[t] \in {"lock"} \cup InCycle =>
        accepted <= taken \/ pending = "yes"

\* Nothing promised is lost between the load and the start of a cycle.
LoadedPromised ==
    \A t \in Triggers : pc[t] = "start" =>
        accepted <= got[t] \/ pending = "yes"

Exclusion == OneRunner /\ GateGuardsProvision
Promises == /\ KnownWritten /\ LoadedFresh /\ LateRequestsNoted
            /\ LoadedPromised /\ AcceptedCovered

Inv == TypeOK /\ Exclusion /\ Promises /\ CyclesEarned

-----------------------------------------------------------------------------
(* Types.                                                                  *)

\* A goroutine moves to a place it can be in.
LEMMA GotoType ==
    ASSUME TypeOK, NEW t \in Threads, NEW l,
           l \in {"idle", "check", "mark"} \cup RunnerPCs,
           t \in Manuals => l \in {"idle", "stop", "load", "start"},
           Goto(t, l)
    PROVE  /\ pc' \in [Threads -> {"idle", "check", "mark"} \cup RunnerPCs]
           /\ \A m \in Manuals : pc'[m] \in {"idle", "stop", "load", "start"}
           /\ pc'[t] = l
           /\ \A u \in Threads \ {t} : pc'[u] = pc[u]
  BY DEF TypeOK, Goto, Threads

\* Requests keep the types.
LEMMA AsksType ==
    ASSUME TypeOK, NEW t \in Triggers, Asks(t)
    PROVE  TypeOK'
  <1>1. t \in Threads /\ t \notin Manuals
    BY RestartConstants DEF Threads
  <1>2. \E v \in Nat : Request(t, v)
    BY DEF Asks, SetSecret, DeclareContainerDead, OnWorkspaceOffline, TypeOK
  <1>3. /\ pc' \in [Threads -> {"idle", "check", "mark"} \cup RunnerPCs]
        /\ \A m \in Manuals : pc'[m] \in {"idle", "stop", "load", "start"}
    BY <1>1, <1>2, GotoType DEF Request
  <1>4. /\ want' \in [Triggers -> Nat] /\ requests' \in Nat
        /\ written' \in Nat
    BY <1>2 DEF Request, TypeOK, Asks, SetSecret, DeclareContainerDead,
       OnWorkspaceOffline
  <1> QED
    BY <1>3, <1>4 DEF Asks, SetSecret, DeclareContainerDead,
       OnWorkspaceOffline, TypeOK, state, history

\* So do the steps of the coalescer and of its cycles up to the provision,
LEMMA CoalesceType ==
    ASSUME TypeOK, NEW t \in Triggers, Coalesce(t) \/ Panic(t)
    PROVE  TypeOK'
  <1>1. t \in Threads /\ t \notin Manuals
    BY RestartConstants DEF Threads
  <1>2. \E l \in {"idle", "mark"} \cup RunnerPCs : Goto(t, l)
    BY DEF Coalesce, Panic, ShouldDebounceRestart, Mark, Top, Leave,
       ClearRunning, Lock, Select, Skips, EndsCycle, RunnerPCs, InCycle
  <1>3. /\ pc' \in [Threads -> {"idle", "check", "mark"} \cup RunnerPCs]
        /\ \A m \in Manuals : pc'[m] \in {"idle", "stop", "load", "start"}
    BY <1>1, <1>2, GotoType
  <1>4. CASE Mark(t)
    BY <1>3, <1>4 DEF Mark, TypeOK, Larger, NotesPending, InFlight
  <1>5. CASE Top(t)
    BY <1>3, <1>5 DEF Top, TypeOK, ConsumesPending
  <1>6. CASE Skips(t) \/ Panic(t)
    BY <1>1, <1>3, <1>6 DEF Skips, Panic, EndsCycle, Excuse, Larger, TypeOK,
       state
  <1>7. CASE Lock(t)
    BY <1>1, <1>3, <1>7 DEF Lock, TakesGate, TypeOK, state, history
  <1>8. CASE ShouldDebounceRestart(t) \/ Leave(t) \/ ClearRunning(t) \/ Select(t)
    BY <1>3, <1>8 DEF ShouldDebounceRestart, Leave, ClearRunning, Select,
       TypeOK, state, history
  <1> QED
    BY <1>4, <1>5, <1>6, <1>7, <1>8 DEF Coalesce

\* and those of the provision and of the manual entry points.
LEMMA ProvisionType ==
    ASSUME TypeOK, NEW t \in Threads,
           \/ Provision(t)
           \/ t \in Manuals /\ (RestartWorkspaceAutoOpts(t) \/ ProvisionWorkspaceAuto(t))
    PROVE  TypeOK'
  <1>1. t \in Manuals <=> t \notin Triggers
    BY RestartConstants DEF Threads
  <1>2. \E l \in {"idle", "top", "stop", "load", "start"} :
            Goto(t, l) /\ (t \in Manuals => l # "top")
    BY <1>1 DEF Provision, Stop, Load, Start, ProvisionFails, EndsCycle,
       RestartWorkspaceAutoOpts, ProvisionWorkspaceAuto
  <1>3. /\ pc' \in [Threads -> {"idle", "check", "mark"} \cup RunnerPCs]
        /\ \A m \in Manuals : pc'[m] \in {"idle", "stop", "load", "start"}
    BY <1>2, GotoType DEF RunnerPCs, InCycle
  <1>4. CASE Stop(t) \/ Load(t) \/ Start(t)
    BY <1>3, <1>4 DEF Stop, Load, Start, EndsCycle, TypeOK, state, history
  <1>5. CASE ProvisionFails(t)
    BY <1>3, <1>5 DEF ProvisionFails, EndsCycle, Excuse, Larger, TypeOK, state
  <1>6. CASE RestartWorkspaceAutoOpts(t) \/ ProvisionWorkspaceAuto(t)
    BY <1>3, <1>6 DEF RestartWorkspaceAutoOpts, ProvisionWorkspaceAuto,
       TakesGate, TypeOK, state, history
  <1> QED
    BY <1>4, <1>5, <1>6 DEF Provision

\* The type invariant is inductive by itself.
LEMMA TypeStep == TypeOK /\ [Next]_vars => TypeOK'
  <1> SUFFICES ASSUME TypeOK, [Next]_vars PROVE TypeOK'
    OBVIOUS
  <1>1. CASE StampAges \/ BlockFlips
    BY <1>1 DEF StampAges, BlockFlips, TypeOK, state, history
  <1>2. CASE UNCHANGED vars
    BY <1>2 DEF vars, state, history, TypeOK
  <1> QED
    BY <1>1, <1>2, AsksType, CoalesceType, ProvisionType DEF Next, Threads

-----------------------------------------------------------------------------
(* Mutual exclusion.                                                       *)

\* What every step of a goroutine does to its own place, to the place of the
\* others, to `running` and to the gate.
LEMMA StepShape ==
    ASSUME TypeOK, [Next]_vars
    PROVE  \/ pc' = pc /\ running' = running /\ gate' = gate
           \/ \E t \in Threads :
                /\ \A u \in Threads \ {t} : pc'[u] = pc[u]
                /\ \/ /\ pc[t] \notin RunnerPCs /\ pc'[t] \notin RunnerPCs
                      /\ running' = running /\ gate' = gate
                   \/ /\ t \in Triggers /\ pc[t] = "mark" /\ pc'[t] = "top"
                      /\ running = "no" /\ running' = "yes" /\ gate' = gate
                   \/ /\ t \in Triggers /\ pc[t] = "exit" /\ pc'[t] = "idle"
                      /\ running' = "no" /\ gate' = gate
                   \/ /\ pc[t] \in RunnerPCs \ InCycle
                      /\ pc'[t] \in RunnerPCs \ InCycle
                      /\ running' = running /\ gate' = gate
                   \/ /\ pc[t] \notin InCycle /\ pc'[t] \in InCycle
                      /\ t \in Triggers => pc[t] \in RunnerPCs
                      /\ running' = running /\ gate = NoThread /\ gate' = t
                   \/ /\ pc[t] \in InCycle /\ pc'[t] \in InCycle
                      /\ running' = running /\ gate' = gate
                   \/ /\ pc[t] \in InCycle /\ pc'[t] \notin InCycle
                      /\ t \in Triggers => pc'[t] \in RunnerPCs
                      /\ running' = running /\ gate' = NoThread
  <1>1. CASE UNCHANGED vars \/ StampAges \/ BlockFlips
    BY <1>1 DEF vars, state, StampAges, BlockFlips
  <1>2. ASSUME NEW t \in Triggers, Asks(t) \/ Coalesce(t) \/ Panic(t)
        PROVE  /\ t \in Threads
               /\ \A u \in Threads \ {t} : pc'[u] = pc[u]
    BY <1>2 DEF Threads, TypeOK, Asks, SetSecret, DeclareContainerDead,
       OnWorkspaceOffline, Request, Coalesce, Panic, ShouldDebounceRestart,
       Mark, Top, Leave, ClearRunning, Lock, Select, Skips, EndsCycle, Goto
  <1>3. ASSUME NEW t \in Triggers,
               Asks(t) \/ ShouldDebounceRestart(t) \/ Mark(t) \/ ClearRunning(t)
        PROVE  \/ /\ pc[t] \notin RunnerPCs /\ pc'[t] \notin RunnerPCs
                  /\ running' = running /\ gate' = gate
               \/ /\ pc[t] = "mark" /\ pc'[t] = "top"
                  /\ running = "no" /\ running' = "yes" /\ gate' = gate
               \/ /\ pc[t] = "exit" /\ pc'[t] = "idle"
                  /\ running' = "no" /\ gate' = gate
    BY <1>3 DEF Threads, TypeOK, Asks, SetSecret, DeclareContainerDead,
       OnWorkspaceOffline, Request, ShouldDebounceRestart, Mark, InFlight,
       ClearRunning, Goto, RunnerPCs, InCycle, state
  <1>4. ASSUME NEW t \in Triggers,
               Top(t) \/ Leave(t) \/ Lock(t) \/ Select(t) \/ Skips(t) \/ Panic(t)
        PROVE  /\ running' = running
               /\ pc[t] \in RunnerPCs /\ pc'[t] \in RunnerPCs
               /\ \/ pc[t] \notin InCycle /\ pc'[t] \notin InCycle /\ gate' = gate
                  \/ pc[t] \notin InCycle /\ pc'[t] \in InCycle
                     /\ gate = NoThread /\ gate' = t
                  \/ pc[t] \in InCycle /\ pc'[t] \in InCycle /\ gate' = gate
                  \/ pc[t] \in InCycle /\ pc'[t] \notin InCycle /\ gate' = NoThread
    BY <1>4 DEF Threads, TypeOK, Top, Leave, Lock, TakesGate, Select, Skips,
       Panic, EndsCycle, Goto, RunnerPCs, InCycle, state
  <1>5. ASSUME NEW t \in Threads,
               \/ Provision(t)
               \/ t \in Manuals /\ (RestartWorkspaceAutoOpts(t) \/ ProvisionWorkspaceAuto(t))
        PROVE  /\ \A u \in Threads \ {t} : pc'[u] = pc[u]
               /\ running' = running
               /\ \/ /\ pc[t] \notin InCycle /\ pc'[t] \in InCycle /\ t \in Manuals
                     /\ gate = NoThread /\ gate' = t
                  \/ pc[t] \in InCycle /\ pc'[t] \in InCycle /\ gate' = gate
                  \/ /\ pc[t] \in InCycle /\ pc'[t] \notin InCycle /\ gate' = NoThread
                     /\ t \in Triggers => pc'[t] \in RunnerPCs
    BY <1>5 DEF TypeOK, Provision, Stop, Load, Start, ProvisionFails, EndsCycle,
       RestartWorkspaceAutoOpts, ProvisionWorkspaceAuto, TakesGate, Goto,
       RunnerPCs, InCycle, state
  <1>6. \A t \in Manuals : t \in Threads /\ t \notin Triggers
    BY RestartConstants DEF Threads
  <1>7. CASE \E t \in Triggers : Asks(t) \/ Coalesce(t) \/ Panic(t)
    <2> PICK t \in Triggers : Asks(t) \/ Coalesce(t) \/ Panic(t)
      BY <1>7
    <2>1. CASE Asks(t) \/ ShouldDebounceRestart(t) \/ Mark(t) \/ ClearRunning(t)
      BY <2>1, <1>2, <1>3
    <2>2. CASE Top(t) \/ Leave(t) \/ Lock(t) \/ Select(t) \/ Skips(t) \/ Panic(t)
      BY <2>2, <1>2, <1>4
    <2> QED
      BY <2>1, <2>2 DEF Coalesce
  <1>8. CASE \E t \in Threads :
                \/ Provision(t)
                \/ t \in Manuals /\ (RestartWorkspaceAutoOpts(t) \/ ProvisionWorkspaceAuto(t))
    BY <1>8, <1>5, <1>6
  <1> QED
    BY <1>1, <1>6, <1>7, <1>8 DEF Next

\* One runner and one holder of the gate stay one.
LEMMA ExclusionStep ==
    ASSUME TypeOK, Exclusion, [Next]_vars
    PROVE  Exclusion'
  <1>1. CASE pc' = pc /\ running' = running /\ gate' = gate
    BY <1>1 DEF Exclusion, OneRunner, GateGuardsProvision
  <1>2. OneRunner'
    BY <1>1, StepShape DEF Exclusion, OneRunner, RunnerPCs, InCycle, Threads
  <1>3. GateGuardsProvision'
    BY <1>1, StepShape, RestartConstants DEF Exclusion, GateGuardsProvision,
       RunnerPCs, InCycle
  <1> QED
    BY <1>2, <1>3 DEF Exclusion

-----------------------------------------------------------------------------
(* Promises.                                                               *)

\* A step that moves nobody into a cycle and leaves configurations alone,
\* except that the flag may be set, keeps the promises.
LEMMA QuietPromises ==
    ASSUME TypeOK, Promises, [Next]_vars,
           written' = written /\ booted' = booted /\ accepted' = accepted,
           taken' = taken /\ excused' = excused,
           want' = want /\ got' = got,
           pending' = pending,
           \A t \in Threads : \/ pc'[t] = pc[t]
                              \/ pc'[t] \in {"idle", "check", "mark", "top", "exit"}
                                 /\ pc[t] \notin {"lock"} \cup InCycle
                              \/ pc[t] \in {"lock", "select", "stop"}
                                 /\ pc'[t] \in {"select", "stop", "load"}
                              \/ t \in Manuals /\ pc'[t] # "start"
    PROVE  Promises'
  <1>1. \A t \in Triggers : t \in Threads /\ t \notin Manuals
    BY RestartConstants DEF Threads
  <1>2. KnownWritten' /\ LoadedFresh'
    BY DEF Promises, KnownWritten, LoadedFresh, InCycle
  <1>3. LateRequestsNoted' /\ LoadedPromised'
    BY <1>1 DEF Promises, LateRequestsNoted, LoadedPromised, InCycle
  <1>4. AcceptedCovered'
    BY <1>1 DEF Promises, AcceptedCovered, Covered, InCycle
  <1> QED
    BY <1>2, <1>3, <1>4 DEF Promises

\* A write makes the database newer and promises nothing yet.
LEMMA AsksPromises ==
    ASSUME TypeOK, Promises, NEW t \in Triggers, Asks(t)
    PROVE  Promises'
  <1>1. t \in Threads /\ pc[t] = "idle" /\ pc'[t] = "check"
        /\ \A u \in Threads \ {t} : pc'[u] = pc[u]
    BY DEF Threads, TypeOK, Asks, SetSecret, DeclareContainerDead,
       OnWorkspaceOffline, Request, Goto
  <1>2. /\ UNCHANGED <<pending, booted, got, accepted, taken, excused>>
        /\ written' \in Nat /\ written <= written'
        /\ want'[t] <= written'
        /\ \A u \in Triggers \ {t} : want'[u] = want[u]
    BY DEF TypeOK, Asks, SetSecret, DeclareContainerDead, OnWorkspaceOffline,
       Request, state, history
  <1>3. KnownWritten'
    BY <1>2 DEF Promises, KnownWritten, TypeOK
  <1>4. LoadedFresh' /\ LateRequestsNoted' /\ LoadedPromised'
    BY <1>1, <1>2 DEF Promises, LoadedFresh, LateRequestsNoted, LoadedPromised,
       InCycle, Threads
  <1>5. AcceptedCovered'
    BY <1>1, <1>2 DEF Promises, AcceptedCovered, Covered, Threads
  <1> QED
    BY <1>3, <1>4, <1>5 DEF Promises

\* Taking a request sets the flag, which covers it.
LEMMA MarkPromises ==
    ASSUME TypeOK, Promises, NEW t \in Triggers, Mark(t)
    PROVE  Promises'
  <1>1. pending' = "yes"
    BY DEF Mark, NotesPending
  <1>2. /\ UNCHANGED <<written, booted, want, got>>
        /\ accepted' <= written
        /\ \A u \in Threads : pc'[u] = "start" => pc[u] = "start"
    BY DEF Mark, Larger, Promises, KnownWritten, TypeOK, Goto, Threads
  <1> QED
    BY <1>1, <1>2 DEF Promises, KnownWritten, LoadedFresh, LateRequestsNoted,
       LoadedPromised, AcceptedCovered

\* Consuming the flag moves its promises to the cycle.
LEMMA TopPromises ==
    ASSUME TypeOK, Exclusion, Promises, NEW t \in Triggers, Top(t)
    PROVE  Promises'
  <1>1. /\ t \in Threads /\ pc[t] = "top" /\ pc'[t] = "lock"
        /\ \A u \in Threads \ {t} : pc'[u] = pc[u]
        /\ UNCHANGED <<written, booted, want, got, accepted, excused>>
        /\ taken' = accepted
    BY DEF Top, TypeOK, Goto, Threads
  <1>2. \A u \in Triggers \ {t} : pc[u] \notin RunnerPCs
    BY <1>1 DEF Exclusion, OneRunner, RunnerPCs
  <1>3. KnownWritten' /\ LoadedFresh'
    BY <1>1 DEF Promises, KnownWritten, LoadedFresh
  <1>4. LateRequestsNoted' /\ LoadedPromised'
    BY <1>1, <1>2 DEF LateRequestsNoted, LoadedPromised, RunnerPCs, InCycle,
       Threads, TypeOK
  <1>5. AcceptedCovered'
    BY <1>1 DEF AcceptedCovered
  <1> QED
    BY <1>3, <1>4, <1>5 DEF Promises

\* A load sees everything promised so far.
LEMMA LoadPromises ==
    ASSUME TypeOK, Promises, NEW t \in Threads, Load(t)
    PROVE  Promises'
  <1>1. /\ pc[t] = "load" /\ pc'[t] = "start" /\ got'[t] = written
        /\ \A u \in Threads \ {t} : pc'[u] = pc[u] /\ got'[u] = got[u]
        /\ UNCHANGED <<written, booted, want, accepted, taken, excused, pending>>
    BY DEF Load, TypeOK, Goto, state, history
  <1>2. KnownWritten' /\ LoadedFresh'
    BY <1>1 DEF Promises, KnownWritten, LoadedFresh, TypeOK
  <1>3. LateRequestsNoted' /\ LoadedPromised'
    BY <1>1 DEF Promises, KnownWritten, LateRequestsNoted, LoadedPromised,
       InCycle, Threads
  <1>4. AcceptedCovered'
    BY <1>1 DEF Promises, KnownWritten, AcceptedCovered, Covered, Threads, TypeOK
  <1> QED
    BY <1>2, <1>3, <1>4 DEF Promises

\* The end of a cycle: nobody else is in one.
LEMMA AloneInCycle ==
    ASSUME Exclusion, NEW t \in Threads, pc[t] \in InCycle
    PROVE  /\ \A u \in Threads \ {t} : pc[u] \notin InCycle
           /\ t \in Triggers => \A u \in Triggers \ {t} : pc[u] \notin RunnerPCs
  BY DEF Exclusion, OneRunner, GateGuardsProvision, RunnerPCs

\* A start keeps every promise except those made since the load.
LEMMA StartPromises ==
    ASSUME TypeOK, Exclusion, Promises, NEW t \in Threads, Start(t)
    PROVE  Promises'
  <1>1. /\ pc[t] = "start" /\ pc'[t] \in {"top", "idle"}
        /\ \A u \in Threads \ {t} : pc'[u] = pc[u]
        /\ booted' = got[t]
        /\ UNCHANGED <<written, want, got, accepted, taken, excused, pending>>
    BY DEF Start, EndsCycle, TypeOK, Goto, state, history
  <1>2. \A u \in Threads : pc'[u] \notin InCycle
    BY <1>1, AloneInCycle DEF InCycle
  <1>3. booted <= booted' /\ booted' <= written
    BY <1>1 DEF Promises, LoadedFresh, KnownWritten
  <1>4. KnownWritten' /\ LoadedFresh'
    BY <1>1, <1>2, <1>3 DEF Promises, KnownWritten, LoadedFresh, InCycle
  <1>5. LateRequestsNoted' /\ LoadedPromised'
    BY <1>1, <1>2 DEF Promises, LateRequestsNoted, LoadedPromised, InCycle,
       Threads
  <1>6. AcceptedCovered'
    <2>1. CASE Covered(accepted)
      BY <1>1, <1>3, <2>1 DEF AcceptedCovered, Covered, TypeOK
    <2>2. CASE pending = "yes"
      BY <1>1, <2>2 DEF AcceptedCovered
    <2>3. CASE t \in Triggers /\ pending # "yes"
      BY <1>1, <2>3 DEF Promises, LoadedPromised, AcceptedCovered, Covered
    <2>4. ASSUME NEW u \in Triggers, u # t,
                 \/ pc[u] \in {"lock", "select", "stop", "load"}
                 \/ pc[u] = "start" /\ got[u] >= accepted
          PROVE  AcceptedCovered'
      BY <1>1, <2>4 DEF AcceptedCovered, Threads
    <2> QED
      BY <2>1, <2>2, <2>3, <2>4 DEF Promises, AcceptedCovered
  <1> QED
    BY <1>4, <1>5, <1>6 DEF Promises

\* A cycle that starts nothing: skipped, failed, or panicking.
LEMMA EmptyCyclePromises ==
    ASSUME TypeOK, Exclusion, Promises, NEW t \in Threads,
           ProvisionFails(t) \/ (t \in Triggers /\ (Skips(t) \/ Panic(t)))
    PROVE  Promises'
  <1>1. /\ pc[t] \in InCycle /\ pc'[t] \in {"top", "idle", "exit"}
        /\ \A u \in Threads \ {t} : pc'[u] = pc[u]
        /\ UNCHANGED <<written, booted, want, got, accepted, taken, pending>>
        /\ excused' = IF t \in Triggers THEN Larger(excused, taken) ELSE excused
    BY DEF ProvisionFails, Skips, Panic, EndsCycle, Excuse, TypeOK, Goto,
       InCycle, state
  <1>2. \A u \in Threads : pc'[u] \notin InCycle
    BY <1>1, AloneInCycle DEF InCycle
  <1>3. KnownWritten' /\ LoadedFresh'
    BY <1>1, <1>2 DEF Promises, KnownWritten, LoadedFresh, InCycle
  <1>4. LateRequestsNoted' /\ LoadedPromised'
    BY <1>1, <1>2 DEF Promises, LateRequestsNoted, LoadedPromised, InCycle,
       Threads
  <1>5. AcceptedCovered'
    <2>1. CASE Covered(accepted)
      BY <1>1, <2>1 DEF AcceptedCovered, Covered, Larger, TypeOK
    <2>2. CASE pending = "yes"
      BY <1>1, <2>2 DEF AcceptedCovered
    <2>3. CASE t \in Triggers /\ pending # "yes"
      <3>1. accepted <= taken
        BY <1>1, <2>3 DEF Promises, LateRequestsNoted
      <3>2. accepted <= excused'
        BY <1>1, <2>3, <3>1 DEF Larger, TypeOK
      <3> QED
        BY <1>1, <3>2 DEF AcceptedCovered, Covered
    <2>4. ASSUME NEW u \in Triggers, u # t,
                 \/ pc[u] \in {"lock", "select", "stop", "load"}
                 \/ pc[u] = "start" /\ got[u] >= accepted
          PROVE  AcceptedCovered'
      BY <1>1, <2>4 DEF AcceptedCovered, Threads
    <2> QED
      BY <2>1, <2>2, <2>3, <2>4 DEF Promises, AcceptedCovered
  <1> QED
    BY <1>3, <1>4, <1>5 DEF Promises

\* The steps that only move a goroutine.
LEMMA MovePromises ==
    ASSUME TypeOK, Promises, [Next]_vars, NEW t \in Threads,
           \/ /\ t \in Triggers
              /\ \/ ShouldDebounceRestart(t) \/ Leave(t) \/ ClearRunning(t)
                 \/ Lock(t) \/ Select(t)
           \/ Stop(t)
           \/ t \in Manuals /\ (RestartWorkspaceAutoOpts(t) \/ ProvisionWorkspaceAuto(t))
    PROVE  Promises'
  <1>1. /\ UNCHANGED <<written, booted, want, got, accepted, taken, excused, pending>>
        /\ \A u \in Threads \ {t} : pc'[u] = pc[u]
    BY DEF ShouldDebounceRestart, Leave, ClearRunning, Lock, Select, Stop,
       RestartWorkspaceAutoOpts, ProvisionWorkspaceAuto, Goto, TypeOK, state,
       history
  <1>2. \/ pc'[t] \in {"idle", "check", "mark", "top", "exit"}
           /\ pc[t] \notin {"lock"} \cup InCycle
        \/ pc[t] \in {"lock", "select", "stop"}
           /\ pc'[t] \in {"select", "stop", "load"}
        \/ t \in Manuals /\ pc'[t] # "start"
    BY DEF ShouldDebounceRestart, Leave, ClearRunning, Lock, Select, Stop,
       RestartWorkspaceAutoOpts, ProvisionWorkspaceAuto, Goto, TypeOK, InCycle
  <1> QED
    BY <1>1, <1>2, QuietPromises

\* The promises are inductive, given mutual exclusion.
LEMMA PromisesStep ==
    ASSUME TypeOK, Exclusion, Promises, [Next]_vars
    PROVE  Promises'
  <1>1. CASE UNCHANGED vars \/ StampAges \/ BlockFlips
    BY <1>1, QuietPromises DEF vars, state, history, StampAges, BlockFlips
  <1>2. ASSUME NEW t \in Triggers, Asks(t) \/ Coalesce(t) \/ Panic(t)
        PROVE  Promises'
    BY <1>2, AsksPromises, MarkPromises, TopPromises, EmptyCyclePromises,
       MovePromises DEF Coalesce, Threads
  <1>3. ASSUME NEW t \in Threads, Provision(t)
        PROVE  Promises'
    BY <1>3, LoadPromises, StartPromises, EmptyCyclePromises, MovePromises
       DEF Provision
  <1> QED
    BY <1>1, <1>2, <1>3, MovePromises DEF Next, Threads

-----------------------------------------------------------------------------
(* The theorems.                                                           *)

\* Every step keeps the cycles earned: taking a request adds to the right
\* side what setting the flag adds to the left, and a cycle spends the flag.
LEMMA EarnedStep ==
    ASSUME TypeOK, CyclesEarned, [Next]_vars
    PROVE  CyclesEarned'
  <1>1. ASSUME NEW t \in Triggers, Mark(t) PROVE CyclesEarned'
    BY <1>1 DEF Mark, NotesPending, CyclesEarned, TypeOK
  <1>2. ASSUME NEW t \in Triggers, Top(t) PROVE CyclesEarned'
    BY <1>2 DEF Top, ConsumesPending, CyclesEarned, TypeOK
  <1>3. CASE UNCHANGED <<pending, marks, cycles>>
    BY <1>3 DEF CyclesEarned
  <1>4. \/ UNCHANGED <<pending, marks, cycles>>
        \/ \E t \in Triggers : Mark(t) \/ Top(t)
    BY DEF Next, vars, state, history, Asks, SetSecret, DeclareContainerDead,
       OnWorkspaceOffline, Coalesce, ShouldDebounceRestart, Leave, ClearRunning,
       Lock, Select, Skips, Panic, Provision, Stop, Load, Start, ProvisionFails,
       RestartWorkspaceAutoOpts, ProvisionWorkspaceAuto, StampAges, BlockFlips
  <1> QED
    BY <1>1, <1>2, <1>3, <1>4

\* The inductive invariant holds of every behaviour of the restart code.
THEOREM RestartInvariance == Spec => []Inv
  <1>1. Init => Inv
    BY RestartConstants DEF Init, Inv, TypeOK, Exclusion, OneRunner,
       GateGuardsProvision, Promises, KnownWritten, LoadedFresh,
       LateRequestsNoted, LoadedPromised, AcceptedCovered, Covered,
       CyclesEarned, RunnerPCs, InCycle, Threads
  <1>2. Inv /\ [Next]_vars => Inv'
    BY TypeStep, ExclusionStep, PromisesStep, EarnedStep DEF Inv
  <1> QED
    BY <1>1, <1>2, PTL DEF Spec

\* The coalescer's state, the gate and every goroutine keep their types
\* (restartState).
THEOREM RestartTypes == Spec => []TypeOK
  BY RestartInvariance, PTL DEF Inv

\* coalesceRestart has at most one runner per workspace, and `running` says
\* whether there is one.
THEOREM SingleRunner == Spec => []OneRunner
  BY RestartInvariance, PTL DEF Inv, Exclusion

\* restartProvisionGates: Stop+Start of one workspace never overlap, whichever
\* of the entry points run and however many.
THEOREM ProvisionsExclusive == Spec => []GateGuardsProvision
  BY RestartInvariance, PTL DEF Inv, Exclusion

\* A write whose request coalesceRestart took reaches a container, or its cycle
\* was refused or failed, or it is still to be served.
THEOREM RequestsCovered == Spec => []AcceptedCovered
  BY RestartInvariance, PTL DEF Inv, Promises

\* N requests taken by coalesceRestart cause at most N cycles.
THEOREM CyclesBounded == Spec => []CyclesEarned
  BY RestartInvariance, PTL DEF Inv

\* No container is replaced by one started with older secrets.
THEOREM BootsMonotonic == Spec => BootNeverRegresses
  <1>1. Inv /\ [Next]_vars => [booted' >= booted]_vars
    <2> SUFFICES ASSUME Inv, Next PROVE booted' >= booted
      OBVIOUS
    <2>1. \/ booted' = booted
          \/ \E t \in Threads : pc[t] = "start" /\ booted' = got[t]
      BY DEF Next, vars, state, history, Asks, SetSecret, DeclareContainerDead,
         OnWorkspaceOffline, Coalesce, ShouldDebounceRestart, Mark, Top, Leave,
         ClearRunning, Lock, Select, Skips, Panic, Provision, Stop, Load, Start,
         ProvisionFails, RestartWorkspaceAutoOpts, ProvisionWorkspaceAuto,
         StampAges, BlockFlips
    <2> QED
      BY <2>1 DEF Inv, Promises, LoadedFresh, TypeOK
  <1> QED
    BY <1>1, RestartInvariance, PTL DEF Spec, BootNeverRegresses

-----------------------------------------------------------------------------
(* The goroutines implement RestartCycles.                                 *)

\* The stage of the cycle, when the goroutines are at p, and the gate's holder
\* as RestartCycles sees it.
StageAt(p) ==
    IF \E t \in Triggers : p[t] = "lock" THEN "wait"
    ELSE IF \E t \in Triggers : p[t] \in InCycle THEN "work"
    ELSE "idle"

HolderOf(g) == IF g \in Triggers THEN "cycle" ELSE g

\* The runner alone decides the stage.
LEMMA RunnerIsStage ==
    ASSUME NEW p, NEW t \in Triggers, p[t] \in RunnerPCs,
           \A u \in Triggers : u # t => p[u] \notin RunnerPCs
    PROVE  StageAt(p) = IF p[t] = "lock" THEN "wait"
                        ELSE IF p[t] \in InCycle THEN "work" ELSE "idle"
  BY DEF StageAt, RunnerPCs, InCycle

\* Moves that neither enter nor leave a cycle do not show.
LEMMA StageStays ==
    ASSUME NEW p, NEW q,
           \A u \in Triggers : /\ p[u] = "lock" <=> q[u] = "lock"
                               /\ p[u] \in InCycle <=> q[u] \in InCycle
    PROVE  StageAt(p) = StageAt(q)
  BY DEF StageAt

\* A step of trigger t that starts and ends in the runner's places: what the
\* contract sees of it.
LEMMA RunnerMoves ==
    ASSUME TypeOK, Exclusion, NEW t \in Triggers, NEW l, Goto(t, l),
           pc[t] \in RunnerPCs, l \in RunnerPCs
    PROVE  /\ StageAt(pc) = IF pc[t] = "lock" THEN "wait"
                            ELSE IF pc[t] \in InCycle THEN "work" ELSE "idle"
           /\ StageAt(pc') = IF l = "lock" THEN "wait"
                             ELSE IF l \in InCycle THEN "work" ELSE "idle"
  <1>1. \A u \in Triggers : u # t => pc[u] \notin RunnerPCs
    BY DEF Exclusion, OneRunner
  <1>2. pc'[t] = l /\ \A u \in Triggers : u # t => pc'[u] = pc[u]
    BY DEF Goto, TypeOK, Threads
  <1>3. pc'[t] \in RunnerPCs /\ \A u \in Triggers : u # t => pc'[u] \notin RunnerPCs
    BY <1>1, <1>2
  <1>4. StageAt(pc) = IF pc[t] = "lock" THEN "wait"
                      ELSE IF pc[t] \in InCycle THEN "work" ELSE "idle"
    BY <1>1, RunnerIsStage
  <1>5. StageAt(pc') = IF pc'[t] = "lock" THEN "wait"
                       ELSE IF pc'[t] \in InCycle THEN "work" ELSE "idle"
    BY <1>3, RunnerIsStage
  <1> QED
    BY <1>2, <1>4, <1>5

\* Steps the contract does not speak of.
LEMMA Unseen ==
    ASSUME UNCHANGED <<pending, gate>>,
           \A u \in Triggers : /\ pc'[u] = "lock" <=> pc[u] = "lock"
                               /\ pc'[u] \in InCycle <=> pc[u] \in InCycle
    PROVE  [Cycles!Next]_(Cycles!cvars)
  <1>1. StageAt(pc') = StageAt(pc)
    BY StageStays
  <1> QED
    BY <1>1 DEF Cycles!cvars, StageAt

\* Requests, and their way to the runner's place.
LEMMA RequestCycles ==
    ASSUME TypeOK, NEW t \in Triggers,
           Asks(t) \/ ShouldDebounceRestart(t) \/ Mark(t) \/ Leave(t) \/ ClearRunning(t)
    PROVE  [Cycles!Next]_(Cycles!cvars)
  <1>1. \E l \in {"idle", "check", "mark", "top", "exit"} :
           Goto(t, l) /\ pc[t] \in {"idle", "check", "mark", "top", "exit"}
    BY DEF Asks, SetSecret, DeclareContainerDead, OnWorkspaceOffline, Request,
       ShouldDebounceRestart, Mark, Leave, ClearRunning
  <1>2. \A u \in Triggers : /\ pc'[u] = "lock" <=> pc[u] = "lock"
                            /\ pc'[u] \in InCycle <=> pc[u] \in InCycle
    BY <1>1 DEF Goto, TypeOK, Threads, InCycle
  <1>3. gate' = gate
    BY DEF Asks, SetSecret, DeclareContainerDead, OnWorkspaceOffline,
       ShouldDebounceRestart, Mark, Leave, ClearRunning
  <1>4. CASE Mark(t)
    <2>1. pending' = "yes" /\ StageAt(pc') = StageAt(pc)
      BY <1>2, <1>4, StageStays DEF Mark, NotesPending
    <2>2. Cycles!Note
      BY <1>3, <2>1 DEF Cycles!Note, StageAt
    <2> QED
      BY <2>2 DEF Cycles!Next
  <1>5. CASE pending' = pending
    BY <1>2, <1>3, <1>5, Unseen
  <1> QED
    BY <1>4, <1>5 DEF Asks, SetSecret, DeclareContainerDead, OnWorkspaceOffline,
       ShouldDebounceRestart, Leave, ClearRunning, state

\* The head of the loop begins a cycle on the flag it consumes, and the Lock of
\* the gate enters it.
LEMMA LoopCycles ==
    ASSUME TypeOK, Exclusion, NEW t \in Triggers, Top(t) \/ Lock(t)
    PROVE  [Cycles!Next]_(Cycles!cvars)
  <1>1. CASE Top(t)
    <2>1. StageAt(pc) = "idle" /\ StageAt(pc') = "wait"
      BY <1>1, RunnerMoves DEF Top, RunnerPCs, InCycle
    <2>2. pending = "yes" /\ pending' = "no" /\ gate' = gate
      BY <1>1 DEF Top, ConsumesPending
    <2>3. Cycles!Begin
      BY <2>1, <2>2 DEF Cycles!Begin, StageAt
    <2> QED
      BY <2>3 DEF Cycles!Next
  <1>2. CASE Lock(t)
    <2>1. StageAt(pc) = "wait" /\ StageAt(pc') = "work"
      BY <1>2, RunnerMoves DEF Lock, RunnerPCs, InCycle
    <2>2. /\ HolderOf(gate) = NoThread /\ HolderOf(gate') = "cycle"
          /\ pending' = pending
      BY <1>2, RestartConstants DEF Lock, TakesGate, HolderOf, Threads, state
    <2>3. Cycles!Enter
      BY <2>1, <2>2 DEF Cycles!Enter, StageAt, HolderOf
    <2> QED
      BY <2>3 DEF Cycles!Next
  <1> QED
    BY <1>1, <1>2

\* Every way out of a cycle gives the gate back: a skip, a start, a failure, a
\* panic.
LEMMA EndCycles ==
    ASSUME TypeOK, Exclusion, NEW t \in Triggers,
           Skips(t) \/ Panic(t) \/ Start(t) \/ ProvisionFails(t)
    PROVE  [Cycles!Next]_(Cycles!cvars)
  <1>1. /\ pc[t] \in InCycle /\ gate' = NoThread /\ pending' = pending
        /\ \E l \in {"top", "exit"} : Goto(t, l)
    BY DEF Skips, Panic, Start, ProvisionFails, EndsCycle, InCycle, state
  <1>2. StageAt(pc) = "work" /\ StageAt(pc') = "idle"
    BY <1>1, RunnerMoves DEF RunnerPCs, InCycle
  <1>3. gate = t
    BY <1>1 DEF Exclusion, GateGuardsProvision, Threads
  <1>4. HolderOf(gate) = "cycle" /\ HolderOf(gate') = NoThread
    BY <1>1, <1>3, RestartConstants DEF HolderOf, Threads
  <1>5. Cycles!End
    BY <1>1, <1>2, <1>4 DEF Cycles!End, StageAt, HolderOf
  <1> QED
    BY <1>5 DEF Cycles!Next

\* The stages in between.
LEMMA StageCycles ==
    ASSUME TypeOK, NEW t \in Threads, Select(t) \/ Stop(t) \/ Load(t)
    PROVE  [Cycles!Next]_(Cycles!cvars)
  <1>1. /\ pc[t] \in {"select", "stop", "load"} /\ UNCHANGED <<pending, gate>>
        /\ \E l \in {"stop", "load", "start"} : Goto(t, l)
    BY DEF Select, Stop, Load, state
  <1>2. \A u \in Triggers : /\ pc'[u] = "lock" <=> pc[u] = "lock"
                            /\ pc'[u] \in InCycle <=> pc[u] \in InCycle
    BY <1>1 DEF Goto, TypeOK, Threads, InCycle
  <1> QED
    BY <1>1, <1>2, Unseen

\* The other dispatchers enter and leave.
LEMMA ManualCycles ==
    ASSUME TypeOK, Exclusion, NEW m \in Manuals,
           \/ RestartWorkspaceAutoOpts(m) \/ ProvisionWorkspaceAuto(m)
           \/ Start(m) \/ ProvisionFails(m)
    PROVE  [Cycles!Next]_(Cycles!cvars)
  <1>0. m \in Threads /\ m \notin Triggers /\ NoThread \notin Triggers
    BY RestartConstants DEF Threads
  <1>1. pending' = pending /\ \E l : Goto(m, l)
    BY DEF RestartWorkspaceAutoOpts, ProvisionWorkspaceAuto, Start, ProvisionFails,
       EndsCycle, state
  <1>2. \A u \in Triggers : pc'[u] = pc[u]
    BY <1>0, <1>1 DEF Goto, TypeOK, Threads
  <1>3. StageAt(pc') = StageAt(pc)
    BY <1>2, StageStays
  <1>4. CASE RestartWorkspaceAutoOpts(m) \/ ProvisionWorkspaceAuto(m)
    <2>1. HolderOf(gate) = NoThread /\ HolderOf(gate') = m
      BY <1>0, <1>4 DEF RestartWorkspaceAutoOpts, ProvisionWorkspaceAuto, TakesGate, HolderOf
    <2>2. Cycles!UserEnters(m)
      BY <1>1, <1>3, <2>1 DEF Cycles!UserEnters, StageAt, HolderOf
    <2> QED
      BY <2>2 DEF Cycles!Next
  <1>5. CASE Start(m) \/ ProvisionFails(m)
    <2>1. gate = m /\ gate' = NoThread
      BY <1>0, <1>5 DEF Start, ProvisionFails, EndsCycle, InCycle, Exclusion, GateGuardsProvision
    <2>2. Cycles!UserLeaves(m)
      BY <1>0, <1>1, <1>3, <2>1 DEF Cycles!UserLeaves, StageAt
    <2> QED
      BY <2>2 DEF Cycles!Next
  <1> QED
    BY <1>4, <1>5

\* Any number of goroutines in RestartByID, coalesceRestart and the gated
\* dispatchers behave as one cycle with one note and one gate: the flag is used
\* up exactly when a cycle begins, no cycle begins before the one before has
\* ended, and every way out of a cycle, a panic too, gives the gate back.
THEOREM CoalescerKeepsCycles == Spec => ImplementsCycles
  <1>1. Init => Cycles!Init
    <2> SUFFICES ASSUME Init PROVE Cycles!Init
      OBVIOUS
    <2>1. pending = "no" /\ gate = NoThread /\ \A t \in Triggers : pc[t] = "idle"
      BY DEF Init, Threads
    <2>2. NoThread \notin Triggers
      BY RestartConstants DEF Threads
    <2> QED
      BY <2>1, <2>2 DEF Cycles!Init, InCycle
  <1>2. Inv /\ [Next]_vars => [Cycles!Next]_(Cycles!cvars)
    <2> SUFFICES ASSUME TypeOK, Exclusion, [Next]_vars
                 PROVE  [Cycles!Next]_(Cycles!cvars)
      BY DEF Inv
    <2>1. ASSUME NEW t \in Triggers, Asks(t) \/ Coalesce(t) \/ Panic(t)
          PROVE  [Cycles!Next]_(Cycles!cvars)
      <3>1. t \in Threads
        BY DEF Threads
      <3> QED
        BY <2>1, <3>1, RequestCycles, LoopCycles, EndCycles, StageCycles DEF Coalesce
    <2>2. ASSUME NEW m \in Manuals, RestartWorkspaceAutoOpts(m) \/ ProvisionWorkspaceAuto(m)
          PROVE  [Cycles!Next]_(Cycles!cvars)
      BY <2>2, ManualCycles
    <2>3. ASSUME NEW t \in Threads, Provision(t)
          PROVE  [Cycles!Next]_(Cycles!cvars)
      <3>1. t \in Triggers \/ t \in Manuals
        BY DEF Threads
      <3> QED
        BY <2>3, <3>1, EndCycles, StageCycles, ManualCycles DEF Provision
    <2>4. CASE StampAges \/ BlockFlips \/ UNCHANGED vars
      <3>1. UNCHANGED <<pending, gate, pc>>
        BY <2>4 DEF StampAges, BlockFlips, vars, state
      <3> QED
        BY <3>1, Unseen
    <2> QED
      BY <2>1, <2>2, <2>3, <2>4 DEF Next
  <1> QED
    BY <1>1, <1>2, RestartInvariance, PTL DEF Spec, ImplementsCycles, Cycles!Spec

=============================================================================

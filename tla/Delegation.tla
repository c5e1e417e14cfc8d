----------------------------- MODULE Delegation -----------------------------
(***************************************************************************)
(* Delegations of one caller to a peer                                     *)
(* (workspace-server/internal/handlers/delegation.go, delegation_ledger*.go*)
(* and delegation_sweeper.go), with ledger writes and the inbox push on.   *)
(*                                                                         *)
(* Delegate stores a `delegate` row under the caller's idempotency key and *)
(* starts a goroutine that sends the task and writes what became of it to  *)
(* three places: the delegate row, a delegate_result row and the ledger.   *)
(* Record and UpdateStatus do the same for tasks an agent sends itself.    *)
(* A busy peer's request goes to the A2A queue, whose drain completes the  *)
(* delegate_result row.  The sweeper fails ledger rows past their deadline.*)
(* Every request uses the same key and every statement is a step of its    *)
(* own.  No code calls DelegationLedger.Heartbeat or sets in_progress, so  *)
(* no row becomes stuck.                                                   *)
(***************************************************************************)
EXTENDS Naturals, FiniteSets

CONSTANTS
    Delegations,   \* ids, each used once
    NoDelegation,  \* the sweeper is between rows
    Handlers,      \* Delegate requests in progress at once
    MaxReports,    \* bound: UpdateStatus calls of the agent per delegation
    MaxCrashes     \* bound: restarts of the platform and failed inserts

ASSUME DelegationConstants ==
    /\ MaxReports \in Nat /\ MaxCrashes \in Nat
    /\ IsFiniteSet(Delegations) /\ NoDelegation \notin Delegations

VARIABLES
    row,       \* the `delegate` row of activity_logs
    holder,    \* the delegations whose row holds the idempotency key
    result,    \* the delegate_result row
    inbox,     \* the row pushed to the caller's inbox
    ledger,    \* delegations.status
    keyed,     \* delegations whose ledger row holds the key
    late,      \* the ledger row's deadline has passed
    handler,   \* Delegate requests
    worker,    \* executeDelegation, or UpdateStatus of a recorded delegation
    queue,     \* the item of the A2A queue
    sweeper,
    runs,      \* history: times the peer was given the task
    mode,      \* history: who sends the task, and was its row stored
    reports, crashes

rows == <<row, holder, result, inbox>>
ledgers == <<ledger, keyed, late>>
procs == <<handler, worker, queue, sweeper>>
hist == <<runs, mode, reports, crashes>>
vars == <<rows, ledgers, procs, hist>>

RowStatus == {"none", "pending", "dispatched", "queued", "completed", "failed"}
LedgerStatus == RowStatus \ {"pending"}
InFlight == {"queued", "dispatched"}
Terminal == {"completed", "failed"}

WorkerPCs == {"none", "row", "read", "write", "proxy", "retry", "result",
              "preview_read", "preview_write", "tell", "wait", "done"}

TypeOK ==
    /\ row \in [Delegations -> RowStatus] /\ holder \subseteq Delegations
    /\ result \in [Delegations -> {"none", "queued", "completed", "failed"}]
    /\ inbox \in [Delegations -> {"none", "ok", "error"}]
    /\ ledger \in [Delegations -> LedgerStatus] /\ keyed \subseteq Delegations
    /\ late \subseteq Delegations
    /\ handler \in [Handlers -> {"idle", "clean", "insert", "winner"}]
    /\ worker \in [Delegations -> [pc : WorkerPCs, want : LedgerStatus, seen : LedgerStatus]]
    /\ queue \in [Delegations -> {"none", "waiting", "answered"}]
    /\ sweeper \in [todo : SUBSET Delegations, cur : Delegations \cup {NoDelegation},
                    seen : LedgerStatus]
    /\ runs \in [Delegations -> Nat]
    /\ mode \in [Delegations -> {"none", "tracked", "untracked", "recorded"}]
    /\ reports \in [Delegations -> 0 .. MaxReports] /\ crashes \in 0 .. MaxCrashes

Idle == [pc |-> "none", want |-> "none", seen |-> "none"]
SweeperIdle == [todo |-> {}, cur |-> NoDelegation, seen |-> "none"]

Init ==
    /\ row = [d \in Delegations |-> "none"] /\ holder = {}
    /\ result = [d \in Delegations |-> "none"]
    /\ inbox = [d \in Delegations |-> "none"]
    /\ ledger = [d \in Delegations |-> "none"] /\ keyed = {} /\ late = {}
    /\ handler = [h \in Handlers |-> "idle"]
    /\ worker = [d \in Delegations |-> Idle]
    /\ queue = [d \in Delegations |-> "none"]
    /\ sweeper = SweeperIdle
    /\ runs = [d \in Delegations |-> 0]
    /\ mode = [d \in Delegations |-> "none"]
    /\ reports = [d \in Delegations |-> 0] /\ crashes = 0

-----------------------------------------------------------------------------
(* DelegationLedger *)

\* allowedTransitions, for the statuses that occur.
AllowedTransitions ==
    {<<"queued", "dispatched">>, <<"queued", "failed">>,
     <<"dispatched", "completed">>, <<"dispatched", "failed">>}

InitialStatus == "queued"

\* Insert: ON CONFLICT (delegation_id) DO NOTHING.  The unique index on the
\* key is not the conflict target: a second row with the key is an error,
\* which is logged.
LedgerInserted(d, k) ==
    IF ledger[d] # "none" \/ (k /\ keyed # {}) THEN UNCHANGED <<ledger, keyed>>
    ELSE /\ ledger' = [ledger EXCEPT ![d] = InitialStatus]
         /\ keyed' = (IF k THEN keyed \cup {d} ELSE keyed)

\* SetStatus decides by the status it read ...
Accepts(seen, want) == <<seen, want>> \in AllowedTransitions

\* ... and its UPDATE names the row only by its id.
SetStatus(d, seen, want) ==
    ledger' = IF Accepts(seen, want) THEN [ledger EXCEPT ![d] = want] ELSE ledger

-----------------------------------------------------------------------------
(* Delegate *)

Fresh == {d \in Delegations : mode[d] = "none"}

\* lookupIdempotentDelegation: a row that failed is deleted next, any other
\* row answers the request.
Lookup(h) ==
    /\ handler[h] = "idle" /\ Fresh # {}
    /\ \A d \in holder : row[d] = "failed"
    /\ handler' = [handler EXCEPT ![h] = IF holder = {} THEN "insert" ELSE "clean"]
    /\ UNCHANGED <<rows, ledgers, worker, queue, sweeper, hist>>

\* DELETE ... WHERE idempotency_key = $2 AND status = 'failed'.
Clean(h) ==
    /\ handler[h] = "clean"
    /\ LET gone == {d \in holder : row[d] = "failed"} IN
         /\ holder' = holder \ gone
         /\ row' = [d \in Delegations |-> IF d \in gone THEN "none" ELSE row[d]]
    /\ handler' = [handler EXCEPT ![h] = "insert"]
    /\ UNCHANGED <<result, inbox, ledgers, worker, queue, sweeper, hist>>

\* The goroutine of executeDelegation starts.
Begin(d, m) ==
    /\ worker' = [worker EXCEPT ![d] = [pc |-> "row", want |-> "dispatched", seen |-> "none"]]
    /\ mode' = [mode EXCEPT ![d] = m]

\* Mutant: the row is stored without the key.
NoIndex == FALSE

\* activity_logs_idempotency_uniq.
KeyTaken == holder # {}

\* insertDelegationRow: the unique index admits one row with the key.
InsertRow(h) ==
    /\ handler[h] = "insert" /\ Fresh # {}
    /\ IF KeyTaken
       THEN handler' = [handler EXCEPT ![h] = "winner"] /\ UNCHANGED <<rows, ledgers, worker, mode>>
       ELSE LET d == CHOOSE d \in Fresh : TRUE IN
              /\ row' = [row EXCEPT ![d] = "pending"] /\ holder' = holder \cup {d}
              /\ LedgerInserted(d, TRUE)
              /\ handler' = [handler EXCEPT ![h] = "idle"]
              /\ Begin(d, "tracked")
              /\ UNCHANGED <<result, inbox, late>>
    /\ UNCHANGED <<queue, sweeper, runs, reports, crashes>>

Untracked(h) ==
    /\ handler' = [handler EXCEPT ![h] = "idle"]
    /\ Begin(CHOOSE d \in Fresh : TRUE, "untracked")

\* The insert fails for another reason: the task is sent without a row.
InsertFails(h) ==
    /\ handler[h] = "insert" /\ Fresh # {} /\ holder = {}
    /\ crashes < MaxCrashes /\ crashes' = crashes + 1
    /\ Untracked(h)
    /\ UNCHANGED <<rows, ledgers, queue, sweeper, runs, reports>>

\* The conflicting row answers the request; if it is gone again by now the
\* task is sent without a row.
Winner(h) ==
    /\ handler[h] = "winner" /\ (holder = {} => Fresh # {})
    /\ IF holder # {} THEN handler' = [handler EXCEPT ![h] = "idle"] /\ UNCHANGED <<worker, mode>>
       ELSE Untracked(h)
    /\ UNCHANGED <<rows, ledgers, queue, sweeper, runs, reports, crashes>>

\* Record: the row and the ledger of a task that the agent sends itself.
Record ==
    /\ Fresh # {}
    /\ LET d == CHOOSE d \in Fresh : TRUE IN
         /\ row' = [row EXCEPT ![d] = "dispatched"]
         /\ ledger' = [ledger EXCEPT ![d] = "dispatched"]
         /\ worker' = [worker EXCEPT ![d].pc = "wait"]
         /\ mode' = [mode EXCEPT ![d] = "recorded"]
         /\ runs' = [runs EXCEPT ![d] = 1]
    /\ UNCHANGED <<holder, result, inbox, keyed, late, handler, queue, sweeper, reports, crashes>>

-----------------------------------------------------------------------------
(* executeDelegation and UpdateStatus, one goroutine per delegation *)

Done(d) == worker' = [worker EXCEPT ![d] = [Idle EXCEPT !.pc = "done"]]
Goto(d, pc) == worker' = [worker EXCEPT ![d].pc = pc]
Wants(d, pc, s) == worker' = [worker EXCEPT ![d] = [pc |-> pc, want |-> s, seen |-> "none"]]

\* updateDelegationStatus: the delegate row, if there is one, ...
UpdateRow(d) ==
    /\ worker[d].pc = "row"
    /\ row' = [row EXCEPT ![d] = IF @ = "none" THEN @ ELSE worker[d].want]
    /\ Goto(d, "read")
    /\ UNCHANGED <<holder, result, inbox, ledgers, handler, queue, sweeper, hist>>

\* ... then the ledger, read and written by two statements.
ReadLedger(d) ==
    /\ worker[d].pc \in {"read", "preview_read"}
    /\ worker' = [worker EXCEPT ![d].seen = ledger[d],
         ![d].pc = IF worker[d].pc = "read" THEN "write" ELSE "preview_write"]
    /\ UNCHANGED <<rows, ledgers, handler, queue, sweeper, hist>>

AfterWrite(d) ==
    IF worker[d].pc = "preview_write" THEN "row"
    ELSE IF worker[d].want = "dispatched" THEN "proxy" ELSE "tell"

WriteLedger(d) ==
    /\ worker[d].pc \in {"write", "preview_write"}
    /\ SetStatus(d, worker[d].seen, worker[d].want)
    /\ worker' = [worker EXCEPT ![d].pc = AfterWrite(d), ![d].seen = "none"]
    /\ UNCHANGED <<rows, keyed, late, handler, queue, sweeper, hist>>

\* What proxyA2ARequest may return: an answer (an error of the wire after a
\* complete answer counts as one), an empty answer, a queued envelope, an
\* error before the peer got the task, or an error after.
Outcomes == {"answer", "empty", "queued", "unreached", "lost"}
Reached(o) == o \in {"answer", "empty", "lost"}

\* Mutant: every 503 is worth a retry, the busy one of a live peer too.
RetriesAny(o) == o \in {"unreached", "lost"}

\* isTransientProxyError: only what the peer never got.
IsTransientProxyError(o) == o = "unreached"

Proxy(d) ==
    /\ worker[d].pc \in {"proxy", "retry"}
    /\ \E o \in Outcomes :
         /\ runs' = IF Reached(o) THEN [runs EXCEPT ![d] = @ + 1] ELSE runs
         /\ queue' = IF o = "queued" THEN [queue EXCEPT ![d] = "waiting"] ELSE queue
         /\ \/ o = "answer" /\ Wants(d, "result", "completed")
            \/ o = "queued" /\ Wants(d, "row", "queued")
            \/ o = "empty" /\ Wants(d, "row", "failed")
            \/ o \in {"unreached", "lost"}
               /\ IF worker[d].pc = "proxy" /\ IsTransientProxyError(o) THEN Goto(d, "retry")
                  ELSE Wants(d, "row", "failed")
    /\ UNCHANGED <<rows, ledgers, handler, sweeper, mode, reports, crashes>>

\* The goroutine's own deadline ends the call, and with it the context of
\* every statement that would have recorded the failure.
Expires(d) ==
    /\ worker[d].pc \in {"proxy", "retry"}
    /\ Done(d)
    /\ \/ runs' = [runs EXCEPT ![d] = @ + 1]
       \/ UNCHANGED runs
    /\ UNCHANGED <<rows, ledgers, handler, queue, sweeper, mode, reports, crashes>>

\* Mutant: the status is written before the answer is stored.
StatusFirst(d) == Wants(d, "preview_read", "completed") /\ UNCHANGED result

StoreAnswer(d) ==
    /\ result' = [result EXCEPT ![d] = "completed"]
    /\ Wants(d, "preview_read", "completed")

\* The answer is stored, then the ledger's preview, then the status.
Result(d) ==
    /\ worker[d].pc = "result"
    /\ StoreAnswer(d)
    /\ UNCHANGED <<row, holder, inbox, ledgers, handler, queue, sweeper, hist>>

\* The rest: the delegate_result row of a failed or queued task (UpdateStatus
\* stores its answer here, and nothing of a failure), and the inbox.
Tell(d) ==
    /\ worker[d].pc = "tell"
    /\ result' = [result EXCEPT ![d] =
         IF mode[d] = "recorded" THEN (IF worker[d].want = "completed" THEN "completed" ELSE @)
         ELSE IF @ = "none" THEN worker[d].want ELSE @]
    /\ inbox' = [inbox EXCEPT ![d] = IF worker[d].want = "completed" THEN "ok"
                                     ELSE IF worker[d].want = "failed" THEN "error" ELSE @]
    /\ Done(d)
    /\ UNCHANGED <<row, holder, ledgers, handler, queue, sweeper, hist>>

\* UpdateStatus of a recorded delegation, possibly more than once.
UpdateStatus(d) ==
    /\ mode[d] = "recorded" /\ worker[d].pc \in {"wait", "done"}
    /\ reports[d] < MaxReports /\ reports' = [reports EXCEPT ![d] = @ + 1]
    /\ \/ Wants(d, "preview_read", "completed")
       \/ Wants(d, "row", "failed")
    /\ UNCHANGED <<rows, ledgers, handler, queue, sweeper, runs, mode, crashes>>

-----------------------------------------------------------------------------
(* The A2A queue, the sweeper and the process *)

\* The drain delivers a queued task, or the queue gives it up.
Drain(d) ==
    /\ queue[d] = "waiting"
    /\ \/ queue' = [queue EXCEPT ![d] = "answered"] /\ runs' = [runs EXCEPT ![d] = @ + 1]
       \/ queue' = [queue EXCEPT ![d] = "none"] /\ UNCHANGED runs
    /\ UNCHANGED <<rows, ledgers, handler, worker, sweeper, mode, reports, crashes>>

\* stitchDrainResponseToDelegation: the delegate_result row, if it is there
\* already; neither the delegate row nor the ledger.
Stitch(d) ==
    /\ queue[d] = "answered"
    /\ queue' = [queue EXCEPT ![d] = "none"]
    /\ result' = [result EXCEPT ![d] = IF @ \in {"queued", "completed"} THEN "completed" ELSE @]
    /\ UNCHANGED <<row, holder, inbox, ledgers, handler, worker, sweeper, hist>>

\* now() passes the row's deadline.
DeadlinePasses(d) ==
    /\ ledger[d] # "none" /\ d \notin late
    /\ late' = late \cup {d}
    /\ UNCHANGED <<rows, ledger, keyed, procs, hist>>

\* Mutant: rows without a heartbeat are passed over before the deadline.
SkipsSilent(d) == FALSE

Overdue(d) == d \in late

\* Sweep: the rows in flight, judged by what the query returned.
SweepStarts ==
    /\ sweeper = SweeperIdle
    /\ \E d \in Delegations : ledger[d] \in InFlight /\ Overdue(d)
    /\ sweeper' = [SweeperIdle EXCEPT !.todo = {d \in Delegations : ledger[d] \in InFlight /\ Overdue(d)}]
    /\ UNCHANGED <<rows, ledgers, handler, worker, queue, hist>>

SweepReads ==
    /\ sweeper.cur = NoDelegation
    /\ \E d \in sweeper.todo :
         sweeper' = [todo |-> sweeper.todo \ {d}, cur |-> d, seen |-> ledger[d]]
    /\ UNCHANGED <<rows, ledgers, handler, worker, queue, hist>>

SweepWrites ==
    /\ sweeper.cur # NoDelegation
    /\ SetStatus(sweeper.cur, sweeper.seen, "failed")
    /\ sweeper' = [sweeper EXCEPT !.cur = NoDelegation, !.seen = "none"]
    /\ UNCHANGED <<rows, keyed, late, handler, worker, queue, hist>>

\* The process dies with all goroutines; the database stays.
Crash ==
    /\ crashes < MaxCrashes /\ crashes' = crashes + 1
    /\ handler' = [h \in Handlers |-> "idle"]
    /\ worker' = [d \in Delegations |->
         IF mode[d] = "recorded" \/ worker[d].pc = "none"
         THEN (IF worker[d].pc \in {"none", "wait"} THEN worker[d] ELSE [Idle EXCEPT !.pc = "done"])
         ELSE [Idle EXCEPT !.pc = "done"]]
    /\ sweeper' = SweeperIdle
    /\ UNCHANGED <<rows, ledgers, queue, runs, mode, reports>>

Works(d) ==
    \/ UpdateRow(d) \/ ReadLedger(d) \/ WriteLedger(d) \/ Proxy(d) \/ Expires(d)
    \/ Result(d) \/ Tell(d)

Sweeps == SweepStarts \/ SweepReads \/ SweepWrites

Next ==
    \/ \E h \in Handlers : Lookup(h) \/ Clean(h) \/ InsertRow(h) \/ InsertFails(h) \/ Winner(h)
    \/ Record
    \/ \E d \in Delegations : Works(d) \/ UpdateStatus(d) \/ Drain(d) \/ Stitch(d) \/ DeadlinePasses(d)
    \/ Sweeps \/ Crash

\* Goroutines run, calls have deadlines, time passes, the sweeper ticks.
Fairness ==
    /\ WF_vars(Sweeps)
    /\ \A d \in Delegations : WF_vars(Works(d)) /\ WF_vars(DeadlinePasses(d))

Spec == Init /\ [][Next]_vars
FairSpec == Spec /\ Fairness

-----------------------------------------------------------------------------
(* Properties *)

\* executeDelegation stores the answer before anything says "completed", so
\* whoever reads completed in the delegate row, the ledger or the inbox finds
\* the answer, whenever the process died.
CompletedHasAnswer ==
    \A d \in Delegations :
      mode[d] # "recorded" /\ (row[d] = "completed" \/ ledger[d] = "completed" \/ inbox[d] = "ok")
        => result[d] = "completed"

\* The peer is given a task at most once, the retry after a transient error,
\* the queue and the goroutine's deadline included.
DeliveredOnce == \A d \in Delegations : runs[d] <= 1

\* Idempotency: of the tasks whose row was stored under the key, at most one
\* is being sent or waits in the queue, whatever requests race.
Active(d) == mode[d] = "tracked" /\ worker[d].pc \in {"row", "read", "write", "proxy", "retry"}
                                 /\ worker[d].want = "dispatched"
OnePerKey == Cardinality({d \in Delegations : Active(d)}) <= 1

\* The sweeper's deadline: no ledger row stays in flight for ever, though its
\* goroutine crashed, expired or handed the task to the queue.
LedgerSettles ==
    \A d \in Delegations : ledger[d] \in InFlight ~> ledger[d] \in Terminal

\* The sweeper's header: "a delegation that just transitioned to completed
\* concurrently with the sweep won't be flipped back to failed/stuck".
TerminalStays ==
    [][\A d \in Delegations : ledger[d] \in Terminal => ledger'[d] = ledger[d]]_vars
=============================================================================

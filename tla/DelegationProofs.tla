---------------------------- MODULE DelegationProofs ----------------------------
(***************************************************************************)
(* Delegation, for any number of delegations, handlers, reports and        *)
(* crashes: the peer gets a task at most once, whoever reads "completed"   *)
(* finds the answer, and the key admits one task at a time.                *)
(***************************************************************************)
EXTENDS Delegation, FiniteSetTheorems, TLAPS

WorkerType == [pc : WorkerPCs, want : LedgerStatus, seen : LedgerStatus]

\* A delegation nobody has begun has no goroutine and no queue item.
Unbegun(d) ==
    mode[d] = "none" => worker[d] = Idle /\ runs[d] = 0 /\ queue[d] = "none"

\* Only a goroutine that announced the dispatch sends, only one that has an
\* answer stores it, and only one that is past the send tells the caller.
SendsDispatched(d) ==
    /\ worker[d].pc \in {"proxy", "retry"} => worker[d].want = "dispatched"
    /\ worker[d].pc \in {"result", "preview_read", "preview_write"} => worker[d].want = "completed"
    /\ worker[d].pc = "tell" => worker[d].want # "dispatched"

\* Up to the send, and while the task waits in the queue, the peer has not had it.
NotYetRun(d) ==
    /\ worker[d].want = "dispatched" => runs[d] = 0 /\ queue[d] = "none"
    /\ queue[d] = "waiting" => runs[d] = 0
    /\ runs[d] <= 1

\* A goroutine that goes about saying "completed" has stored the answer, and
\* so has whatever said it before.
AnswerStored(d) ==
    mode[d] # "recorded" =>
      /\ worker[d].want = "completed" /\ worker[d].pc # "result" => result[d] = "completed"
      /\ row[d] = "completed" \/ ledger[d] = "completed" \/ inbox[d] = "ok" => result[d] = "completed"

\* A task on its way under the key holds it, by a row that no cleaning takes.
HoldsKey(d) == Active(d) => d \in holder /\ row[d] \in {"pending", "dispatched"}

EachInv(d) == Unbegun(d) /\ SendsDispatched(d) /\ NotYetRun(d) /\ AnswerStored(d) /\ HoldsKey(d)

\* The unique index.
KeyUnique == \A d, e \in holder : d = e

DelegationInv == TypeOK /\ KeyUnique /\ \A d \in Delegations : EachInv(d)

\* What a step leaves alone keeps its part of the invariant.
LEMMA Frame ==
    ASSUME NEW d \in Delegations, EachInv(d),
           worker'[d] = worker[d], mode'[d] = mode[d], runs'[d] = runs[d], queue'[d] = queue[d],
           row'[d] = row[d], ledger'[d] = ledger[d], inbox'[d] = inbox[d], result'[d] = result[d],
           d \in holder => d \in holder'
    PROVE  EachInv(d)'
BY DEF EachInv, Unbegun, SendsDispatched, NotYetRun, AnswerStored, HoldsKey, Active

LEMMA DelegationInit == Init => DelegationInv
<1> SUFFICES ASSUME Init PROVE DelegationInv
  OBVIOUS
<1>1. TypeOK
  BY DelegationConstants DEF Init, TypeOK, Idle, SweeperIdle, WorkerPCs, LedgerStatus, RowStatus
<1>2. KeyUnique
  BY DEF Init, KeyUnique
<1>3. \A d \in Delegations : EachInv(d)
  BY DEF Init, EachInv, Unbegun, SendsDispatched, NotYetRun, AnswerStored, HoldsKey, Active, Idle
<1> QED
  BY <1>1, <1>2, <1>3 DEF DelegationInv

\* An unused id is taken for a request.
LEMMA FreshId ==
    ASSUME Fresh # {} PROVE (CHOOSE d \in Fresh : TRUE) \in Delegations /\ mode[CHOOSE d \in Fresh : TRUE] = "none"
BY DEF Fresh

\* The steps of a request that start nothing.
LEMMA RequestKeeps ==
    ASSUME DelegationInv, NEW h \in Handlers, Lookup(h) \/ Clean(h)
    PROVE  DelegationInv'
<1> USE DEF DelegationInv
<1>1. CASE Lookup(h)
  <2>1. TypeOK'
    BY <1>1 DEF Lookup, TypeOK, rows, ledgers, hist
  <2>2. \A d \in Delegations : EachInv(d)'
    BY <1>1, Frame DEF Lookup, rows, ledgers, hist
  <2> QED
    BY <1>1, <2>1, <2>2 DEF Lookup, rows, KeyUnique
<1>2. CASE Clean(h)
  <2> DEFINE gone == {d \in holder : row[d] = "failed"}
  <2>1. /\ holder' = holder \ gone
        /\ row' = [d \in Delegations |-> IF d \in gone THEN "none" ELSE row[d]]
        /\ handler' = [handler EXCEPT ![h] = "insert"]
        /\ UNCHANGED <<result, inbox, ledgers, worker, queue, sweeper, hist>>
    BY <1>2 DEF Clean
  <2>2. TypeOK'
    BY <2>1 DEF TypeOK, RowStatus, ledgers, hist
  <2>3. ASSUME NEW d \in Delegations PROVE EachInv(d)'
    <3>1. CASE d \in gone
      BY <2>1, <3>1 DEF EachInv, Unbegun, SendsDispatched, NotYetRun, AnswerStored, HoldsKey, Active,
         ledgers, hist
    <3>2. CASE d \notin gone
      BY <2>1, <3>2, Frame DEF ledgers, hist
    <3> QED
      BY <3>1, <3>2
  <2> QED
    BY <2>1, <2>2, <2>3 DEF KeyUnique
<1> QED
  BY <1>1, <1>2

\* A goroutine begins for an unused id.
LEMMA BeginKeeps ==
    ASSUME DelegationInv, NEW d \in Delegations, mode[d] = "none", NEW m \in {"tracked", "untracked"},
           Begin(d, m),
           UNCHANGED <<result, inbox, late, queue, sweeper, runs, reports>>, crashes' \in 0 .. MaxCrashes,
           handler' \in [Handlers -> {"idle", "clean", "insert", "winner"}],
           row' \in [Delegations -> RowStatus], ledger' \in [Delegations -> LedgerStatus],
           keyed' \subseteq Delegations, holder' \subseteq Delegations, KeyUnique', holder \subseteq holder',
           row'[d] = "completed" => row[d] = "completed", ledger'[d] = "completed" => ledger[d] = "completed",
           m = "tracked" => d \in holder' /\ row'[d] = "pending",
           \A e \in Delegations : e # d => row'[e] = row[e] /\ ledger'[e] = ledger[e]
    PROVE  DelegationInv'
<1> USE DEF DelegationInv
<1>1. worker \in [Delegations -> WorkerType]
  BY DEF TypeOK, WorkerType
<1>2. [pc |-> "row", want |-> "dispatched", seen |-> "none"] \in WorkerType
  BY DEF WorkerType, WorkerPCs, LedgerStatus, RowStatus
<1>3. /\ worker' \in [Delegations -> WorkerType]
      /\ worker'[d] = [pc |-> "row", want |-> "dispatched", seen |-> "none"]
      /\ \A e \in Delegations : e # d => worker'[e] = worker[e]
  BY <1>1, <1>2 DEF Begin
<1>4. /\ mode' \in [Delegations -> {"none", "tracked", "untracked", "recorded"}]
      /\ mode'[d] = m
      /\ \A e \in Delegations : e # d => mode'[e] = mode[e]
  BY DEF Begin, TypeOK
<1>5. TypeOK'
  BY <1>3, <1>4 DEF TypeOK, WorkerType
<1>6. EachInv(d)'
  BY <1>3, <1>4 DEF EachInv, Unbegun, SendsDispatched, NotYetRun, AnswerStored, HoldsKey, Active
<1>7. ASSUME NEW e \in Delegations, e # d PROVE EachInv(e)'
  BY <1>3, <1>4, <1>7, Frame
<1> QED
  BY <1>5, <1>6, <1>7

\* The insert under the key, or the conflict with the row that has it.
LEMMA InsertKeeps ==
    ASSUME DelegationInv, NEW h \in Handlers, InsertRow(h) PROVE DelegationInv'
<1> USE DEF DelegationInv
<1>1. CASE KeyTaken
  <2>1. /\ handler' = [handler EXCEPT ![h] = "winner"]
        /\ UNCHANGED <<rows, ledgers, worker, mode, queue, sweeper, runs, reports, crashes>>
    BY <1>1 DEF InsertRow
  <2>2. TypeOK'
    BY <2>1 DEF TypeOK, rows, ledgers
  <2>3. \A d \in Delegations : EachInv(d)'
    BY <2>1, Frame DEF rows, ledgers
  <2> QED
    BY <2>1, <2>2, <2>3 DEF rows, KeyUnique
<1>2. CASE ~KeyTaken
  <2> DEFINE d == CHOOSE d \in Fresh : TRUE
  <2>1. /\ row' = [row EXCEPT ![d] = "pending"] /\ holder' = holder \cup {d}
        /\ LedgerInserted(d, TRUE)
        /\ handler' = [handler EXCEPT ![h] = "idle"]
        /\ Begin(d, "tracked")
        /\ UNCHANGED <<result, inbox, late, queue, sweeper, runs, reports, crashes>>
    BY <1>2 DEF InsertRow
  <2>2. d \in Delegations /\ mode[d] = "none"
    BY FreshId DEF InsertRow
  <2> HIDE DEF d
  <2>3. /\ row' \in [Delegations -> RowStatus] /\ row'[d] = "pending"
        /\ \A e \in Delegations : e # d => row'[e] = row[e]
    BY <2>1, <2>2 DEF TypeOK, RowStatus
  <2>4. /\ ledger' \in [Delegations -> LedgerStatus] /\ keyed' \subseteq Delegations
        /\ \A e \in Delegations : e # d => ledger'[e] = ledger[e]
        /\ ledger'[d] = "completed" => ledger[d] = "completed"
    <3>1. /\ ledger \in [Delegations -> LedgerStatus] /\ keyed \subseteq Delegations
          /\ InitialStatus \in LedgerStatus /\ InitialStatus # "completed"
      BY DEF TypeOK, InitialStatus, LedgerStatus, RowStatus
    <3>2. \/ UNCHANGED <<ledger, keyed>>
          \/ ledger' = [ledger EXCEPT ![d] = InitialStatus] /\ keyed' \in {keyed, keyed \cup {d}}
      BY <2>1 DEF LedgerInserted
    <3> QED
      BY <2>2, <3>1, <3>2
  <2>5. /\ holder' = {d}
        /\ handler' \in [Handlers -> {"idle", "clean", "insert", "winner"}]
        /\ crashes' \in 0 .. MaxCrashes
    BY <1>2, <2>1 DEF KeyTaken, TypeOK
  <2>6. KeyUnique' /\ holder \subseteq holder' /\ d \in holder' /\ holder' \subseteq Delegations
    BY <1>2, <2>2, <2>5 DEF KeyUnique, KeyTaken
  <2> QED
    BY <2>1, <2>2, <2>3, <2>4, <2>5, <2>6, BeginKeeps
<1> QED
  BY <1>1, <1>2

\* A task that is sent without a row.
LEMMA UntrackedKeeps ==
    ASSUME DelegationInv, NEW h \in Handlers, Untracked(h), Fresh # {},
           UNCHANGED <<rows, ledgers, queue, sweeper, runs, reports>>, crashes' \in 0 .. MaxCrashes
    PROVE  DelegationInv'
<1> DEFINE d == CHOOSE d \in Fresh : TRUE
<1>1. d \in Delegations /\ mode[d] = "none"
  BY FreshId
<1>2. Begin(d, "untracked") /\ handler' = [handler EXCEPT ![h] = "idle"]
  BY DEF Untracked
<1> HIDE DEF d
<1>3. TypeOK /\ KeyUnique /\ EachInv(d)
  BY <1>1 DEF DelegationInv
<1>4. handler' \in [Handlers -> {"idle", "clean", "insert", "winner"}]
  BY <1>2, <1>3 DEF TypeOK
<1>5. /\ row' \in [Delegations -> RowStatus] /\ ledger' \in [Delegations -> LedgerStatus]
      /\ keyed' \subseteq Delegations /\ holder' \subseteq Delegations /\ holder \subseteq holder'
      /\ KeyUnique'
      /\ row' = row /\ ledger' = ledger
      /\ UNCHANGED <<result, inbox, late, queue, sweeper, runs, reports>>
  BY <1>3 DEF TypeOK, KeyUnique, rows, ledgers
<1> QED
  BY <1>1, <1>2, <1>4, <1>5, BeginKeeps

LEMMA InsertFailsKeeps ==
    ASSUME DelegationInv, NEW h \in Handlers, InsertFails(h) \/ Winner(h) PROVE DelegationInv'
<1>0. crashes \in 0 .. MaxCrashes
  BY DEF DelegationInv, TypeOK
<1>1. CASE InsertFails(h)
  BY <1>0, <1>1, UntrackedKeeps, DelegationConstants DEF InsertFails
<1>2. CASE Winner(h) /\ holder # {}
  <2>1. /\ handler' = [handler EXCEPT ![h] = "idle"]
        /\ UNCHANGED <<rows, ledgers, worker, mode, queue, sweeper, runs, reports, crashes>>
    BY <1>2 DEF Winner
  <2>2. TypeOK'
    BY <2>1 DEF DelegationInv, TypeOK, rows, ledgers
  <2>3. \A d \in Delegations : EachInv(d)'
    BY <2>1, Frame DEF DelegationInv, rows, ledgers
  <2> QED
    BY <2>1, <2>2, <2>3 DEF DelegationInv, rows, KeyUnique
<1>3. CASE Winner(h) /\ holder = {}
  BY <1>0, <1>3, UntrackedKeeps DEF Winner
<1> QED
  BY <1>1, <1>2, <1>3

\* A step that changes one delegation only.
LEMMA OneChanges ==
    ASSUME DelegationInv, NEW d \in Delegations, TypeOK', EachInv(d)', holder' = holder,
           \A e \in Delegations : e # d =>
             /\ worker'[e] = worker[e] /\ mode'[e] = mode[e] /\ runs'[e] = runs[e]
             /\ queue'[e] = queue[e] /\ row'[e] = row[e] /\ ledger'[e] = ledger[e]
             /\ inbox'[e] = inbox[e] /\ result'[e] = result[e]
    PROVE  DelegationInv'
<1>1. ASSUME NEW e \in Delegations, e # d PROVE EachInv(e)'
  BY <1>1, Frame DEF DelegationInv
<1> QED
  BY <1>1 DEF DelegationInv, KeyUnique

\* The agent records a task it has sent.
LEMMA RecordKeeps == ASSUME DelegationInv, Record PROVE DelegationInv'
<1>0. PICK d \in Delegations :
      /\ mode[d] = "none"
      /\ row' = [row EXCEPT ![d] = "dispatched"]
      /\ ledger' = [ledger EXCEPT ![d] = "dispatched"]
      /\ worker' = [worker EXCEPT ![d].pc = "wait"]
      /\ mode' = [mode EXCEPT ![d] = "recorded"]
      /\ runs' = [runs EXCEPT ![d] = 1]
  BY FreshId DEF Record
<1>1. mode[d] = "none"
  BY <1>0
<1>2. /\ row' = [row EXCEPT ![d] = "dispatched"]
      /\ ledger' = [ledger EXCEPT ![d] = "dispatched"]
      /\ worker' = [worker EXCEPT ![d].pc = "wait"]
      /\ mode' = [mode EXCEPT ![d] = "recorded"]
      /\ runs' = [runs EXCEPT ![d] = 1]
      /\ UNCHANGED <<holder, result, inbox, keyed, late, handler, queue, sweeper, reports, crashes>>
  BY <1>0 DEF Record
<1>3. TypeOK /\ EachInv(d)
  BY <1>1 DEF DelegationInv
<1>4. worker[d] = Idle /\ queue[d] = "none"
  BY <1>1, <1>3 DEF EachInv, Unbegun
<1>5. /\ worker' \in [Delegations -> WorkerType]
      /\ worker'[d] = [Idle EXCEPT !.pc = "wait"]
      /\ \A e \in Delegations : e # d => worker'[e] = worker[e]
  BY <1>1, <1>2, <1>3, <1>4 DEF TypeOK, WorkerType, WorkerPCs, Idle
<1>6. TypeOK'
  BY <1>1, <1>2, <1>3, <1>5 DEF TypeOK, WorkerType, RowStatus, LedgerStatus
<1>7. mode'[d] = "recorded" /\ runs'[d] = 1 /\ queue'[d] = "none"
  BY <1>1, <1>2, <1>3, <1>4 DEF TypeOK
<1>8. EachInv(d)'
  <2>1. worker'[d].pc = "wait" /\ worker'[d].want = "none"
    BY <1>5 DEF Idle
  <2> QED
    BY <1>7, <2>1 DEF EachInv, Unbegun, SendsDispatched, NotYetRun, AnswerStored, HoldsKey, Active
<1>9. holder' = holder /\ \A e \in Delegations : e # d =>
             /\ worker'[e] = worker[e] /\ mode'[e] = mode[e] /\ runs'[e] = runs[e] /\ queue'[e] = queue[e] /\ row'[e] = row[e]
             /\ ledger'[e] = ledger[e] /\ inbox'[e] = inbox[e] /\ result'[e] = result[e]
  BY <1>2, <1>3, <1>5 DEF TypeOK
<1> QED
  BY <1>1, <1>6, <1>8, <1>9, OneChanges

\* What the worker-moving operators do to the goroutines.
LEMMA WorkerMoves ==
    ASSUME TypeOK, NEW d \in Delegations, NEW w \in WorkerType,
           worker' = [worker EXCEPT ![d] = w]
    PROVE  /\ worker' \in [Delegations -> WorkerType] /\ worker'[d] = w
           /\ \A e \in Delegations : e # d => worker'[e] = worker[e]
BY DEF TypeOK, WorkerType

\* The delegate row takes the status the goroutine announces.
LEMMA UpdateRowKeeps ==
    ASSUME DelegationInv, NEW d \in Delegations, UpdateRow(d) PROVE DelegationInv'
<1>1. TypeOK /\ EachInv(d)
  BY DEF DelegationInv
<1>2. /\ worker[d].pc = "row"
      /\ row' = [row EXCEPT ![d] = IF @ = "none" THEN @ ELSE worker[d].want]
      /\ UNCHANGED <<holder, result, inbox, ledger, keyed, late, handler, queue, sweeper, runs, mode, reports, crashes>>
  BY DEF UpdateRow, ledgers, hist
<1>3. /\ worker' \in [Delegations -> WorkerType]
      /\ worker'[d] = [pc |-> "read", want |-> worker[d].want, seen |-> worker[d].seen]
      /\ \A e \in Delegations : e # d => worker'[e] = worker[e]
  BY <1>1 DEF UpdateRow, Goto, TypeOK, WorkerType, WorkerPCs
<1>4. /\ row' \in [Delegations -> RowStatus]
      /\ row'[d] = IF row[d] = "none" THEN row[d] ELSE worker[d].want
      /\ \A e \in Delegations : e # d => row'[e] = row[e]
  BY <1>1, <1>2 DEF TypeOK, RowStatus, LedgerStatus
<1>5. TypeOK'
  BY <1>1, <1>2, <1>3, <1>4 DEF TypeOK, WorkerType
<1>6. EachInv(d)'
  BY <1>1, <1>2, <1>3, <1>4 DEF EachInv, Unbegun, SendsDispatched, NotYetRun, AnswerStored, HoldsKey, Active, Idle
<1> QED
  BY <1>2, <1>3, <1>4, <1>5, <1>6, OneChanges

\* The two statements of SetStatus.
LEMMA LedgerKeeps ==
    ASSUME DelegationInv, NEW d \in Delegations, ReadLedger(d) \/ WriteLedger(d) PROVE DelegationInv'
<1>1. TypeOK /\ EachInv(d)
  BY DEF DelegationInv
<1>2. CASE ReadLedger(d)
  <2>1. UNCHANGED <<row, holder, result, inbox, ledger, keyed, late, handler, queue, sweeper, runs, mode, reports, crashes>>
    BY <1>2 DEF ReadLedger, rows, ledgers, hist
  <2>2. /\ worker' \in [Delegations -> WorkerType]
        /\ worker'[d].pc \in {"write", "preview_write"} /\ worker'[d].want = worker[d].want
        /\ \A e \in Delegations : e # d => worker'[e] = worker[e]
    BY <1>1, <1>2 DEF ReadLedger, TypeOK, WorkerType, WorkerPCs
  <2>3. worker[d].pc = "read" => worker'[d].pc = "write"
    BY <1>1, <1>2 DEF ReadLedger, TypeOK
  <2>4. worker[d].pc \in {"read", "preview_read"} /\ (worker[d].pc # "read" => worker'[d].pc = "preview_write")
    BY <1>1, <1>2 DEF ReadLedger, TypeOK
  <2>5. TypeOK'
    BY <1>1, <2>1, <2>2 DEF TypeOK, WorkerType
  <2>6. EachInv(d)'
    BY <1>1, <2>1, <2>2, <2>3, <2>4 DEF EachInv, Unbegun, SendsDispatched, NotYetRun, AnswerStored, HoldsKey, Active, Idle
  <2> QED
    BY <2>1, <2>2, <2>5, <2>6, OneChanges
<1>3. CASE WriteLedger(d)
  <2>1. /\ worker[d].pc \in {"write", "preview_write"}
        /\ UNCHANGED <<row, holder, result, inbox, keyed, late, handler, queue, sweeper, runs, mode, reports, crashes>>
    BY <1>3 DEF WriteLedger, rows, hist
  <2> DEFINE a == AfterWrite(d)
             w == [worker[d] EXCEPT !.pc = a, !.seen = "none"]
  <2>a. /\ a \in {"row", "proxy", "tell"}
        /\ a = "row" => worker[d].pc = "preview_write"
        /\ a = "proxy" => worker[d].want = "dispatched"
        /\ a = "tell" => worker[d].want # "dispatched"
    BY DEF AfterWrite
  <2>b. worker' = [worker EXCEPT ![d] = w]
    BY <1>3 DEF WriteLedger
  <2> HIDE DEF a
  <2>c. worker[d] \in WorkerType /\ a \in WorkerPCs /\ "none" \in LedgerStatus
    BY <1>1, <2>a DEF TypeOK, WorkerType, WorkerPCs, LedgerStatus, RowStatus
  <2>d. w \in WorkerType /\ w.pc = a /\ w.want = worker[d].want
    BY <2>c DEF WorkerType
  <2> HIDE DEF w
  <2>2. /\ worker' \in [Delegations -> WorkerType]
        /\ worker'[d].pc = a /\ worker'[d].want = worker[d].want
        /\ \A e \in Delegations : e # d => worker'[e] = worker[e]
    BY <1>1, <2>b, <2>d, WorkerMoves
  <2>3. /\ ledger' \in [Delegations -> LedgerStatus]
        /\ ledger'[d] \in {ledger[d], worker[d].want}
        /\ \A e \in Delegations : e # d => ledger'[e] = ledger[e]
    BY <1>1, <1>3 DEF WriteLedger, SetStatus, TypeOK
  <2>4. TypeOK'
    BY <1>1, <2>1, <2>2, <2>3 DEF TypeOK, WorkerType
  <2>5. EachInv(d)'
    BY <1>1, <2>1, <2>a, <2>2, <2>3 DEF EachInv, Unbegun, SendsDispatched, NotYetRun, AnswerStored, HoldsKey, Active, Idle
  <2> QED
    BY <2>1, <2>2, <2>3, <2>4, <2>5, OneChanges
<1> QED
  BY <1>2, <1>3

\* The send: it reaches the peer at most once over its outcomes, the retry and
\* the goroutine's deadline.
LEMMA ProxyKeeps ==
    ASSUME DelegationInv, NEW d \in Delegations, Proxy(d) \/ Expires(d) PROVE DelegationInv'
<1>1. TypeOK /\ EachInv(d) /\ worker[d].pc \in {"proxy", "retry"}
  BY DEF DelegationInv, Proxy, Expires
<1>2. worker[d].want = "dispatched" /\ runs[d] = 0 /\ queue[d] = "none" /\ mode[d] # "none"
  BY <1>1 DEF EachInv, SendsDispatched, NotYetRun, Unbegun, Idle
<1>3. /\ row' = row /\ holder' = holder /\ result' = result /\ inbox' = inbox /\ ledger' = ledger
      /\ UNCHANGED <<keyed, late, handler, sweeper, mode, reports, crashes>>
  BY DEF Proxy, Expires, rows, ledgers
<1>4. /\ runs' \in [Delegations -> Nat] /\ runs'[d] \in {0, 1}
      /\ queue' \in [Delegations -> {"none", "waiting", "answered"}]
      /\ queue'[d] = "waiting" => runs'[d] = 0
      /\ \A e \in Delegations : e # d => runs'[e] = runs[e] /\ queue'[e] = queue[e]
  <2>1. runs \in [Delegations -> Nat] /\ queue \in [Delegations -> {"none", "waiting", "answered"}]
    BY <1>1 DEF TypeOK
  <2>2. CASE Expires(d)
    BY <1>2, <2>1, <2>2 DEF Expires
  <2>3. CASE Proxy(d)
    <3>1. PICK o \in Outcomes :
            /\ runs' = IF Reached(o) THEN [runs EXCEPT ![d] = @ + 1] ELSE runs
            /\ queue' = IF o = "queued" THEN [queue EXCEPT ![d] = "waiting"] ELSE queue
      BY <2>3 DEF Proxy
    <3>2. CASE o = "queued"
      BY <1>2, <2>1, <3>1, <3>2 DEF Reached
    <3>3. CASE o # "queued"
      BY <1>2, <2>1, <3>1, <3>3
    <3> QED
      BY <3>2, <3>3
  <2> QED
    BY <2>2, <2>3
<1>5. PICK w \in WorkerType : worker' = [worker EXCEPT ![d] = w] /\
        \/ w.pc = "result" /\ w.want = "completed"
        \/ w.pc = "row" /\ w.want \in {"queued", "failed"}
        \/ w.pc = "retry" /\ w.want = "dispatched" /\ runs' = runs /\ queue' = queue
        \/ w.pc = "done" /\ w.want = "none"
  <2>1. CASE Expires(d)
    <3>1. [Idle EXCEPT !.pc = "done"] = [pc |-> "done", want |-> "none", seen |-> "none"]
      BY DEF Idle
    <3> QED
      BY <2>1, <3>1 DEF Expires, Done, WorkerType, WorkerPCs, LedgerStatus, RowStatus
  <2>2. ASSUME NEW pc \in {"result", "row"}, NEW st \in {"completed", "queued", "failed"},
               Wants(d, pc, st), pc = "result" => st = "completed", pc = "row" => st # "completed"
        PROVE  \E w \in WorkerType : worker' = [worker EXCEPT ![d] = w] /\
                 \/ w.pc = "result" /\ w.want = "completed"
                 \/ w.pc = "row" /\ w.want \in {"queued", "failed"}
    <3> DEFINE v == [pc |-> pc, want |-> st, seen |-> "none"]
    <3>1. v \in WorkerType
      BY DEF WorkerType, WorkerPCs, LedgerStatus, RowStatus
    <3>2. worker' = [worker EXCEPT ![d] = v]
      BY <2>2 DEF Wants
    <3> QED
      BY <2>2, <3>1, <3>2
  <2>3. ASSUME Goto(d, "retry"), runs' = runs, queue' = queue
        PROVE  \E w \in WorkerType : worker' = [worker EXCEPT ![d] = w] /\
                 w.pc = "retry" /\ w.want = "dispatched"
    <3> DEFINE v == [pc |-> "retry", want |-> worker[d].want, seen |-> worker[d].seen]
    <3>1. v \in WorkerType
      BY <1>1 DEF TypeOK, WorkerType, WorkerPCs
    <3>2. worker[d] \in WorkerType
      BY <1>1 DEF TypeOK, WorkerType
    <3>3. v = [worker[d] EXCEPT !.pc = "retry"]
      BY <3>2 DEF WorkerType
    <3>4. worker' = [worker EXCEPT ![d] = v]
      BY <2>3, <3>3 DEF Goto
    <3> QED
      BY <1>2, <3>1, <3>4
  <2>4. CASE Proxy(d)
    <3>1. \/ Wants(d, "result", "completed") \/ Wants(d, "row", "queued") \/ Wants(d, "row", "failed")
          \/ Goto(d, "retry") /\ runs' = runs /\ queue' = queue
      BY <2>4 DEF Proxy, Outcomes, Reached, IsTransientProxyError
    <3> QED
      BY <2>2, <2>3, <3>1
  <2> QED
    BY <2>1, <2>4
<1>6. /\ worker' \in [Delegations -> WorkerType] /\ worker'[d] = w
      /\ \A e \in Delegations : e # d => worker'[e] = worker[e]
  BY <1>1, <1>5, WorkerMoves
<1>7. TypeOK'
  BY <1>1, <1>3, <1>4, <1>6 DEF TypeOK, WorkerType
<1>8. EachInv(d)'
  <2>1. Unbegun(d)' /\ SendsDispatched(d)' /\ AnswerStored(d)'
    BY <1>1, <1>2, <1>3, <1>5, <1>6 DEF EachInv, Unbegun, SendsDispatched, AnswerStored
  <2>2. NotYetRun(d)'
    BY <1>2, <1>4, <1>5, <1>6 DEF NotYetRun
  <2>3. HoldsKey(d)'
    BY <1>1, <1>2, <1>3, <1>5, <1>6 DEF EachInv, HoldsKey, Active
  <2> QED
    BY <2>1, <2>2, <2>3 DEF EachInv
<1> QED
  BY <1>3, <1>4, <1>6, <1>7, <1>8, OneChanges

\* The answer is stored before anything else is said.
LEMMA ResultKeeps ==
    ASSUME DelegationInv, NEW d \in Delegations, Result(d) PROVE DelegationInv'
<1>1. TypeOK /\ EachInv(d)
  BY DEF DelegationInv
<1>2. /\ worker[d].pc = "result"
      /\ UNCHANGED <<row, holder, inbox, ledger, keyed, late, handler, queue, sweeper, runs, mode, reports, crashes>>
  BY DEF Result, ledgers, hist
<1>3. /\ result' \in [Delegations -> {"none", "queued", "completed", "failed"}]
      /\ result'[d] = "completed" /\ \A e \in Delegations : e # d => result'[e] = result[e]
  BY <1>1 DEF Result, StoreAnswer, TypeOK
<1> DEFINE w == [pc |-> "preview_read", want |-> "completed", seen |-> "none"]
<1>4. w \in WorkerType
  BY DEF WorkerType, WorkerPCs, LedgerStatus, RowStatus
<1>5. worker' = [worker EXCEPT ![d] = w]
  BY DEF Result, StoreAnswer, Wants
<1>6. /\ worker' \in [Delegations -> WorkerType] /\ worker'[d] = w
      /\ \A e \in Delegations : e # d => worker'[e] = worker[e]
  BY <1>1, <1>4, <1>5, WorkerMoves
<1>7. TypeOK'
  BY <1>1, <1>2, <1>3, <1>6 DEF TypeOK, WorkerType
<1>8. EachInv(d)'
  <2>1. mode[d] # "none"
    BY <1>1, <1>2 DEF EachInv, Unbegun, Idle
  <2> QED
    BY <1>1, <1>2, <1>3, <1>6, <2>1 DEF EachInv, Unbegun, SendsDispatched, NotYetRun, AnswerStored, HoldsKey, Active
<1> QED
  BY <1>2, <1>3, <1>6, <1>7, <1>8, OneChanges

\* The result row of a task that was not answered, and the inbox.
LEMMA TellKeeps ==
    ASSUME DelegationInv, NEW d \in Delegations, Tell(d) PROVE DelegationInv'
<1>1. TypeOK /\ EachInv(d)
  BY DEF DelegationInv
<1>2. /\ worker[d].pc = "tell"
      /\ UNCHANGED <<row, holder, ledger, keyed, late, handler, queue, sweeper, runs, mode, reports, crashes>>
  BY DEF Tell, ledgers, hist
<1> DEFINE w == [pc |-> "done", want |-> "none", seen |-> "none"]
<1>3. w \in WorkerType /\ [Idle EXCEPT !.pc = "done"] = w
  BY DEF WorkerType, WorkerPCs, LedgerStatus, RowStatus, Idle
<1>4. worker' = [worker EXCEPT ![d] = w]
  BY <1>3 DEF Tell, Done
<1>5. /\ worker' \in [Delegations -> WorkerType] /\ worker'[d] = w
      /\ \A e \in Delegations : e # d => worker'[e] = worker[e]
  BY <1>1, <1>3, <1>4, WorkerMoves
<1>6. worker[d].want \in {"none", "queued", "completed", "failed"} /\ mode[d] # "none"
  BY <1>1, <1>2 DEF EachInv, SendsDispatched, Unbegun, Idle, TypeOK, LedgerStatus, RowStatus
<1>7. /\ result' \in [Delegations -> {"none", "queued", "completed", "failed"}]
      /\ mode[d] # "recorded" /\ result[d] = "completed" => result'[d] = "completed"
      /\ \A e \in Delegations : e # d => result'[e] = result[e]
  BY <1>1, <1>6 DEF Tell, TypeOK
<1>8. /\ inbox' \in [Delegations -> {"none", "ok", "error"}]
      /\ inbox'[d] = "ok" => inbox[d] = "ok" \/ worker[d].want = "completed"
      /\ \A e \in Delegations : e # d => inbox'[e] = inbox[e]
  BY <1>1 DEF Tell, TypeOK
<1>9. TypeOK'
  BY <1>1, <1>2, <1>5, <1>7, <1>8 DEF TypeOK, WorkerType
<1>10. EachInv(d)'
  BY <1>1, <1>2, <1>5, <1>6, <1>7, <1>8 DEF EachInv, Unbegun, SendsDispatched, NotYetRun, AnswerStored, HoldsKey, Active
<1> QED
  BY <1>2, <1>5, <1>7, <1>8, <1>9, <1>10, OneChanges

\* A report of the agent about a task it recorded.
LEMMA UpdateStatusKeeps ==
    ASSUME DelegationInv, NEW d \in Delegations, UpdateStatus(d) PROVE DelegationInv'
<1>1. TypeOK /\ EachInv(d)
  BY DEF DelegationInv
<1>2. /\ mode[d] = "recorded"
      /\ UNCHANGED <<row, holder, result, inbox, ledger, keyed, late, handler, queue, sweeper, runs, mode, crashes>>
  BY DEF UpdateStatus, rows, ledgers
<1>3. reports' \in [Delegations -> 0 .. MaxReports]
  BY <1>1, DelegationConstants DEF UpdateStatus, TypeOK
<1>4. PICK w \in WorkerType : /\ worker' = [worker EXCEPT ![d] = w]
                              /\ \/ w.pc = "preview_read" /\ w.want = "completed"
                                 \/ w.pc = "row" /\ w.want = "failed"
  <2>1. /\ [pc |-> "preview_read", want |-> "completed", seen |-> "none"] \in WorkerType
        /\ [pc |-> "row", want |-> "failed", seen |-> "none"] \in WorkerType
    BY DEF WorkerType, WorkerPCs, LedgerStatus, RowStatus
  <2> QED
    BY <2>1 DEF UpdateStatus, Wants
<1>5. /\ worker' \in [Delegations -> WorkerType] /\ worker'[d] = w
      /\ \A e \in Delegations : e # d => worker'[e] = worker[e]
  BY <1>1, <1>4, WorkerMoves
<1>6. TypeOK'
  BY <1>1, <1>2, <1>3, <1>5 DEF TypeOK, WorkerType
<1>7. EachInv(d)'
  BY <1>1, <1>2, <1>4, <1>5 DEF EachInv, Unbegun, SendsDispatched, NotYetRun, AnswerStored, HoldsKey, Active
<1> QED
  BY <1>2, <1>5, <1>6, <1>7, OneChanges

\* The drain, the stitch and the deadline of the ledger row.
LEMMA QueueKeeps ==
    ASSUME DelegationInv, NEW d \in Delegations, Drain(d) \/ Stitch(d) \/ DeadlinePasses(d)
    PROVE  DelegationInv'
<1>1. TypeOK /\ EachInv(d)
  BY DEF DelegationInv
<1>2. CASE Drain(d)
  <2>1. /\ queue[d] = "waiting"
        /\ UNCHANGED <<row, holder, result, inbox, ledger, keyed, late, handler, worker, sweeper, mode, reports, crashes>>
    BY <1>2 DEF Drain, rows, ledgers
  <2>2. runs[d] = 0 /\ worker[d].want # "dispatched" /\ mode[d] # "none"
    BY <1>1, <2>1 DEF EachInv, NotYetRun, Unbegun
  <2>3. /\ queue' \in [Delegations -> {"none", "waiting", "answered"}] /\ queue'[d] # "waiting"
        /\ runs' \in [Delegations -> Nat] /\ runs'[d] \in {0, 1}
        /\ \A e \in Delegations : e # d => runs'[e] = runs[e] /\ queue'[e] = queue[e]
    <3>1. runs \in [Delegations -> Nat] /\ queue \in [Delegations -> {"none", "waiting", "answered"}]
      BY <1>1 DEF TypeOK
    <3>2. CASE queue' = [queue EXCEPT ![d] = "answered"] /\ runs' = [runs EXCEPT ![d] = @ + 1]
      BY <2>2, <3>1, <3>2
    <3>3. CASE queue' = [queue EXCEPT ![d] = "none"] /\ runs' = runs
      BY <2>2, <3>1, <3>3
    <3> QED
      BY <1>2, <3>2, <3>3 DEF Drain
  <2>4. TypeOK'
    BY <1>1, <2>1, <2>3 DEF TypeOK
  <2>5. EachInv(d)'
    BY <1>1, <2>1, <2>2, <2>3 DEF EachInv, Unbegun, SendsDispatched, NotYetRun, AnswerStored, HoldsKey, Active
  <2> QED
    BY <2>1, <2>3, <2>4, <2>5, OneChanges
<1>3. CASE Stitch(d)
  <2>1. /\ queue[d] = "answered"
        /\ UNCHANGED <<row, holder, inbox, ledger, keyed, late, handler, worker, sweeper, runs, mode, reports, crashes>>
    BY <1>3 DEF Stitch, ledgers, hist
  <2>2. worker[d].want # "dispatched" /\ mode[d] # "none"
    BY <1>1, <2>1 DEF EachInv, NotYetRun, Unbegun
  <2>3. /\ queue' \in [Delegations -> {"none", "waiting", "answered"}] /\ queue'[d] = "none"
        /\ result' \in [Delegations -> {"none", "queued", "completed", "failed"}]
        /\ result[d] = "completed" => result'[d] = "completed"
        /\ \A e \in Delegations : e # d => result'[e] = result[e] /\ queue'[e] = queue[e]
    BY <1>1, <1>3 DEF Stitch, TypeOK
  <2>4. TypeOK'
    BY <1>1, <2>1, <2>3 DEF TypeOK
  <2>5. EachInv(d)'
    BY <1>1, <2>1, <2>2, <2>3 DEF EachInv, Unbegun, SendsDispatched, NotYetRun, AnswerStored, HoldsKey, Active
  <2> QED
    BY <2>1, <2>3, <2>4, <2>5, OneChanges
<1>4. CASE DeadlinePasses(d)
  <2>1. /\ late' \subseteq Delegations
        /\ UNCHANGED <<row, holder, result, inbox, ledger, keyed, handler, worker, queue, sweeper, runs, mode, reports, crashes>>
    BY <1>1, <1>4 DEF DeadlinePasses, rows, procs, hist, TypeOK
  <2>2. TypeOK'
    BY <1>1, <2>1 DEF TypeOK
  <2>3. \A e \in Delegations : EachInv(e)'
    BY <2>1, Frame DEF DelegationInv
  <2> QED
    BY <2>1, <2>2, <2>3 DEF DelegationInv, KeyUnique
<1> QED
  BY <1>2, <1>3, <1>4

\* The sweeper writes "failed" only, and the ledger only.
LEMMA SweeperKeeps == ASSUME DelegationInv, Sweeps PROVE DelegationInv'
<1> DEFINE SweeperType == [todo : SUBSET Delegations, cur : Delegations \cup {NoDelegation}, seen : LedgerStatus]
<1>1. TypeOK /\ sweeper \in SweeperType /\ "none" \in LedgerStatus
  BY DEF DelegationInv, TypeOK, LedgerStatus, RowStatus
<1>2. UNCHANGED <<row, holder, result, inbox, keyed, late, handler, worker, queue, runs, mode, reports, crashes>>
  BY DEF Sweeps, SweepStarts, SweepReads, SweepWrites, rows, ledgers, hist
<1>3. /\ ledger' \in [Delegations -> LedgerStatus]
      /\ \A d \in Delegations : ledger'[d] = "completed" => ledger[d] = "completed"
  <2>1. CASE SweepWrites
    <3>1. sweeper.cur \in Delegations /\ "failed" \in LedgerStatus
      BY <1>1, <2>1 DEF SweepWrites, LedgerStatus, RowStatus
    <3> QED
      BY <1>1, <2>1, <3>1 DEF SweepWrites, SetStatus, TypeOK
  <2>2. CASE SweepStarts \/ SweepReads
    BY <1>1, <2>2 DEF SweepStarts, SweepReads, ledgers, TypeOK
  <2> QED
    BY <2>1, <2>2 DEF Sweeps
<1>4. sweeper' \in SweeperType
  <2>1. CASE SweepWrites
    BY <1>1, <2>1 DEF SweepWrites
  <2>2. CASE SweepStarts
    BY <1>1, <2>2 DEF SweepStarts, SweeperIdle
  <2>3. CASE SweepReads
    <3>1. PICK d \in sweeper.todo : sweeper' = [todo |-> sweeper.todo \ {d}, cur |-> d, seen |-> ledger[d]]
      BY <2>3 DEF SweepReads
    <3>2. ledger \in [Delegations -> LedgerStatus] /\ d \in Delegations /\ sweeper.todo \subseteq Delegations
      BY <1>1 DEF TypeOK
    <3> QED
      BY <3>1, <3>2
  <2> QED
    BY <2>1, <2>2, <2>3 DEF Sweeps
<1>5. TypeOK'
  BY <1>1, <1>2, <1>3, <1>4 DEF TypeOK
<1>6. ASSUME NEW d \in Delegations PROVE EachInv(d)'
  <2>1. EachInv(d)
    BY DEF DelegationInv
  <2> QED
    BY <1>2, <1>3, <2>1 DEF EachInv, Unbegun, SendsDispatched, NotYetRun, AnswerStored, HoldsKey, Active
<1> QED
  BY <1>2, <1>5, <1>6 DEF DelegationInv, KeyUnique

\* A crash ends every goroutine of the platform and writes nothing.
LEMMA CrashKeeps == ASSUME DelegationInv, Crash PROVE DelegationInv'
<1>1. TypeOK
  BY DEF DelegationInv
<1>2. UNCHANGED <<row, holder, result, inbox, ledger, keyed, late, queue, runs, mode, reports>>
  BY DEF Crash, rows, ledgers
<1> DEFINE done == [Idle EXCEPT !.pc = "done"]
<1>3. done \in WorkerType /\ done.pc = "done" /\ done.want = "none"
  BY DEF Idle, WorkerType, WorkerPCs, LedgerStatus, RowStatus
<1>4. /\ DOMAIN worker' = Delegations
      /\ \A d \in Delegations : worker'[d] = worker[d] \/ (worker'[d] = done /\ worker[d].pc # "none")
  BY DEF Crash
<1> HIDE DEF done
<1>5. worker' \in [Delegations -> WorkerType]
  <2>1. worker \in [Delegations -> WorkerType]
    BY <1>1 DEF TypeOK, WorkerType
  <2>2. \A d \in Delegations : worker'[d] \in WorkerType
    BY <1>3, <1>4, <2>1
  <2>3. worker' = [d \in Delegations |-> worker'[d]]
    BY DEF Crash
  <2> QED
    BY <2>2, <2>3
<1>6. crashes' \in 0 .. MaxCrashes /\ handler' \in [Handlers -> {"idle", "clean", "insert", "winner"}]
  BY <1>1, DelegationConstants DEF Crash, TypeOK
<1>7. sweeper' \in [todo : SUBSET Delegations, cur : Delegations \cup {NoDelegation}, seen : LedgerStatus]
  BY DEF Crash, SweeperIdle, LedgerStatus, RowStatus
<1>8. TypeOK'
  BY <1>1, <1>2, <1>5, <1>6, <1>7 DEF TypeOK, WorkerType
<1>9. ASSUME NEW d \in Delegations PROVE EachInv(d)'
  <2>1. EachInv(d)
    BY DEF DelegationInv
  <2>2. CASE worker'[d] = worker[d]
    BY <1>2, <2>1, <2>2, Frame
  <2>3. CASE worker'[d] = done /\ worker[d].pc # "none"
    <3>1. mode[d] # "none"
      BY <2>1, <2>3 DEF EachInv, Unbegun, Idle
    <3> QED
      BY <1>2, <1>3, <2>1, <2>3, <3>1 DEF EachInv, Unbegun, SendsDispatched, NotYetRun, AnswerStored, HoldsKey, Active
  <2> QED
    BY <1>4, <2>2, <2>3
<1> QED
  BY <1>2, <1>8, <1>9 DEF DelegationInv, KeyUnique

LEMMA DelegationNext == DelegationInv /\ [Next]_vars => DelegationInv'
<1> SUFFICES ASSUME DelegationInv, [Next]_vars PROVE DelegationInv'
  OBVIOUS
<1>1. ASSUME NEW h \in Handlers,
             Lookup(h) \/ Clean(h) \/ InsertRow(h) \/ InsertFails(h) \/ Winner(h)
      PROVE  DelegationInv'
  BY <1>1, RequestKeeps, InsertKeeps, InsertFailsKeeps
<1>2. CASE Record
  BY <1>2, RecordKeeps
<1>3. ASSUME NEW d \in Delegations,
             Works(d) \/ UpdateStatus(d) \/ Drain(d) \/ Stitch(d) \/ DeadlinePasses(d)
      PROVE  DelegationInv'
  BY <1>3, UpdateRowKeeps, LedgerKeeps, ProxyKeeps, ResultKeeps, TellKeeps, UpdateStatusKeeps,
     QueueKeeps DEF Works
<1>4. CASE Sweeps \/ Crash
  BY <1>4, SweeperKeeps, CrashKeeps
<1>5. CASE UNCHANGED vars
  <2>1. UNCHANGED <<row, holder, result, inbox, ledger, keyed, late, handler, worker, queue, sweeper,
                    runs, mode, reports, crashes>>
    BY <1>5 DEF vars, rows, ledgers, procs, hist
  <2>2. TypeOK'
    BY <2>1 DEF DelegationInv, TypeOK
  <2> QED
    BY <2>1, <2>2, Frame DEF DelegationInv, KeyUnique
<1> QED
  BY <1>1, <1>2, <1>3, <1>4, <1>5 DEF Next

\* The invariant of delegations.
LEMMA DelegationInvariant == Spec => []DelegationInv
BY DelegationInit, DelegationNext, PTL DEF Spec

\* Delegate rows, ledger, inbox, queue, workers and the sweeper keep their
\* types: SetStatus leaves no status that allowedTransitions does not know.
THEOREM DelegationTypes == Spec => []TypeOK
BY DelegationInvariant, PTL DEF DelegationInv

\* The peer is given a task at most once, over the retry of a transient error,
\* the queue, the deadline of the goroutine and any crash (executeDelegation,
\* isTransientProxyError).
THEOREM PeerGetsTaskOnce == Spec => []DeliveredOnce
<1>1. DelegationInv => DeliveredOnce
  BY DEF DelegationInv, EachInv, NotYetRun, DeliveredOnce
<1> QED
  BY <1>1, DelegationInvariant, PTL

\* Whoever reads "completed" in the delegate row, the ledger or the inbox finds
\* the answer (executeDelegation's order of writes), whatever crashes.
THEOREM CompletedMeansAnswered == Spec => []CompletedHasAnswer
<1>1. DelegationInv => CompletedHasAnswer
  BY DEF DelegationInv, EachInv, AnswerStored, CompletedHasAnswer
<1> QED
  BY <1>1, DelegationInvariant, PTL

\* The idempotency key admits one task on its way at a time, whatever requests
\* race with the cleaning of failed rows (lookupIdempotentDelegation,
\* insertDelegationRow).
THEOREM KeyAdmitsOne == Spec => []OnePerKey
<1>1. DelegationInv => OnePerKey
  <2> SUFFICES ASSUME DelegationInv PROVE OnePerKey
    OBVIOUS
  <2> DEFINE A == {d \in Delegations : Active(d)}
  <2>1. \A d, e \in A : d = e
    BY DEF DelegationInv, EachInv, HoldsKey, KeyUnique
  <2> HIDE DEF A
  <2>2. CASE A = {}
    BY <2>2, FS_EmptySet DEF OnePerKey, A
  <2>3. CASE A # {}
    <3>1. PICK d \in A : TRUE
      BY <2>3
    <3>2. A = {d}
      BY <2>1, <3>1
    <3>3. Cardinality(A) = 1
      BY <3>2, FS_Singleton
    <3> QED
      BY <3>3 DEF OnePerKey, A
  <2> QED
    BY <2>2, <2>3
<1> QED
  BY <1>1, DelegationInvariant, PTL
=============================================================================

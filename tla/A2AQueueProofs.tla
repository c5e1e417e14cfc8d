--------------------------- MODULE A2AQueueProofs ---------------------------
(***************************************************************************)
(* Machine-checked proofs about A2AQueue, for every set of messages,       *)
(* schedules, callers and drainers and every value of the bounds, and of   *)
(* the refinement of A2AQueueLease.                                        *)
(***************************************************************************)
EXTENDS A2AQueueLease, TLAPS

-----------------------------------------------------------------------------
(* Facts about sequences of rows.                                          *)

\* Rewriting one row keeps the table a sequence of rows of the same length.
LEMMA RowUpdate ==
    ASSUME NEW q \in Seq(Rows), NEW i \in 1 .. Len(q), NEW r \in Rows
    PROVE  /\ [q EXCEPT ![i] = r] \in Seq(Rows)
           /\ Len([q EXCEPT ![i] = r]) = Len(q)
           /\ [q EXCEPT ![i] = r][i] = r
           /\ \A j \in 1 .. Len(q) : j # i => [q EXCEPT ![i] = r][j] = q[j]
  OBVIOUS

\* Appending a row keeps the rows before it.
LEMMA RowAppend ==
    ASSUME NEW q \in Seq(Rows), NEW r \in Rows
    PROVE  /\ Append(q, r) \in Seq(Rows)
           /\ Len(Append(q, r)) = Len(q) + 1
           /\ Append(q, r)[Len(q) + 1] = r
           /\ \A j \in 1 .. Len(q) : Append(q, r)[j] = q[j]
  OBVIOUS

\* A table given row by row.
LEMMA RowMap ==
    ASSUME NEW q \in Seq(Rows), NEW p,
           p = [i \in 1 .. Len(q) |-> p[i]],
           \A i \in 1 .. Len(q) : p[i] \in Rows
    PROVE  p \in Seq(Rows) /\ Len(p) = Len(q)
  OBVIOUS

\* r is row o with its status, attempts and burned count replaced.
Edited(r, o, s, a, b) ==
    /\ r \in Rows
    /\ r.status = s /\ r.attempts = a /\ r.burned = b
    /\ r.key = o.key /\ r.msg = o.msg

\* What the updates of the code make of a row.
LEMMA Edits ==
    ASSUME NEW r \in Rows, NEW x
    PROVE  /\ Edited(Claimed(r), r, "dispatched", r.attempts + 1, r.burned)
           /\ Edited(Completed(r, x), r, "completed", r.attempts, r.burned)
           /\ Edited(Requeued(r), r, "queued",
                     IF r.attempts > 0 THEN r.attempts - 1 ELSE 0, r.burned)
           /\ Edited(ChargedOnce(r), r,
                     IF CapReached(r) THEN "failed" ELSE "queued",
                     r.attempts, r.burned + 1)
           /\ Edited(Dropped(r), r, "dropped", r.attempts, r.burned)
           /\ Edited([r EXCEPT !.ttl = "expired"],
                     r, r.status, r.attempts, r.burned)
           /\ Edited([r EXCEPT !.wait = "none"],
                     r, r.status, r.attempts, r.burned)
  <1>1. ASSUME NEW s \in Statuses, NEW n \in Nat
        PROVE  /\ Edited([r EXCEPT !.status = s, !.attempts = n],
                         r, s, n, r.burned)
               /\ Edited([r EXCEPT !.status = s, !.attempts = n,
                                   !.wait = "backoff"], r, s, n, r.burned)
               /\ Edited([r EXCEPT !.status = s, !.burned = n],
                         r, s, r.attempts, n)
    BY DEF Rows, Edited
  <1>2. /\ r.attempts + 1 \in Nat /\ r.burned + 1 \in Nat
        /\ (IF r.attempts > 0 THEN r.attempts - 1 ELSE 0) \in Nat
    BY DEF Rows
  <1>3. /\ "dispatched" \in Statuses /\ "queued" \in Statuses
        /\ (IF CapReached(r) THEN "failed" ELSE "queued") \in Statuses
    BY DEF Statuses
  <1>4. Edited(Claimed(r), r, "dispatched", r.attempts + 1, r.burned)
    BY <1>1, <1>2, <1>3 DEF Claimed
  <1>5. Edited(Requeued(r), r, "queued",
               IF r.attempts > 0 THEN r.attempts - 1 ELSE 0, r.burned)
    BY <1>1, <1>2, <1>3 DEF Requeued
  <1>6. Edited(ChargedOnce(r), r,
               IF CapReached(r) THEN "failed" ELSE "queued",
               r.attempts, r.burned + 1)
    BY <1>1, <1>2, <1>3 DEF ChargedOnce
  <1>7. Edited(Completed(r, x), r, "completed", r.attempts, r.burned)
    BY DEF Rows, Statuses, Edited, Completed
  <1>8. /\ Edited(Dropped(r), r, "dropped", r.attempts, r.burned)
        /\ Edited([r EXCEPT !.ttl = "expired"],
                  r, r.status, r.attempts, r.burned)
        /\ Edited([r EXCEPT !.wait = "none"],
                  r, r.status, r.attempts, r.burned)
    BY DEF Rows, Statuses, Edited, Dropped
  <1> QED
    BY <1>4, <1>5, <1>6, <1>7, <1>8

-----------------------------------------------------------------------------
(* The inductive invariant.                                                *)

\* A drainer holds a row exactly while it dispatches, re-enqueues or settles,
\* and is busy only with an iteration left; a caller never runs the drain loop.
Control ==
    /\ \A d \in Drainers : item[d] # 0 <=>
            pc[d] \in EnqueuePCs \cup {"dispatch", "settle"}
    /\ \A d \in Drainers : pc[d] # "idle" => left[d] > 0
    /\ \A c \in Callers : pc[c] \notin DrainPCs

\* Orphaned rows exist and stay 'dispatched'.
OrphansDispatched ==
    \A i \in orphans : i \in Ids /\ queue[i].status = "dispatched"

Inv == /\ TypeOK /\ Control /\ ExclusiveClaim /\ OrphansDispatched
       /\ UniqueActiveKey /\ CapCountsCharges

LEMMA InitInv == ASSUME Init PROVE Inv
  <1> USE QueueConstants DEF Init
  <1>1. TypeOK
    BY DEF TypeOK, Threads, Results, EnqueuePCs
  <1>2. Ids = {}
    BY DEF Ids
  <1> QED
    BY <1>1, <1>2 DEF Inv, Control, ExclusiveClaim, OrphansDispatched,
       UniqueActiveKey, CapCountsCharges, ActiveRows, Threads, EnqueuePCs,
       DrainPCs

\* What the type invariant says of one row.
LEMMA RowTypes ==
    ASSUME TypeOK, NEW i \in Ids
    PROVE  /\ queue[i] \in Rows /\ i \in Nat /\ i # 0
           /\ queue[i].msg \in Messages /\ queue[i].key \in Keys \cup {NoKey}
           /\ queue[i].status \in Statuses
           /\ queue[i].attempts \in Nat /\ queue[i].burned \in Nat
  <1>1. queue[i] \in Rows
    BY DEF TypeOK, Ids
  <1> QED
    BY <1>1 DEF Rows, Ids

\* Replacing row i by an edited row: the parts of the invariant that speak of
\* rows only.
LEMMA OneRow ==
    ASSUME TypeOK, UniqueActiveKey, CapCountsCharges,
           NEW i \in Ids, NEW r, NEW s, NEW a, NEW b,
           Edited(r, queue[i], s, a, b), Charged(r),
           s \in Active => queue[i].status \in Active,
           queue' = [queue EXCEPT ![i] = r]
    PROVE  /\ queue' \in Seq(Rows) /\ Len(queue') = Len(queue) /\ Ids' = Ids
           /\ queue'[i] = r
           /\ \A j \in Ids : j # i => queue'[j] = queue[j]
           /\ UniqueActiveKey' /\ CapCountsCharges'
  <1>1. /\ queue' \in Seq(Rows) /\ Len(queue') = Len(queue) /\ Ids' = Ids
        /\ queue'[i] = r
        /\ \A j \in Ids : j # i => queue'[j] = queue[j]
    BY RowUpdate DEF TypeOK, Edited, Ids
  <1>2. UniqueActiveKey'
    BY <1>1 DEF UniqueActiveKey, ActiveRows, Edited
  <1>3. CapCountsCharges'
    <2> SUFFICES ASSUME NEW j \in Ids PROVE Charged(queue'[j])
      BY <1>1 DEF CapCountsCharges, Charged
    <2> QED
      BY <1>1 DEF CapCountsCharges
  <1> QED
    BY <1>1, <1>2, <1>3

LEMMA DequeueNextInv ==
    ASSUME Inv, NEW d \in Drainers, DequeueNext(d)
    PROVE  Inv'
  <1> USE QueueConstants DEF Inv
  <1>1. PICK i \in Eligible :
            /\ queue' = [queue EXCEPT ![i] = Claimed(@)]
            /\ item' = [item EXCEPT ![d] = i]
    BY DEF DequeueNext
  <1>2. i \in Ids /\ queue[i] \in Rows /\ queue[i].status = "queued"
    BY DEF Eligible, Unexpired, TypeOK, Ids
  <1> DEFINE r == Claimed(queue[i])
  <1>3. Edited(r, queue[i], "dispatched", queue[i].attempts + 1, queue[i].burned)
    BY <1>2, Edits
  <1>4. Charged(r)
    BY <1>2, <1>3 DEF Edited, Charged, CapCountsCharges, Active, Rows
  <1>5. queue' = [queue EXCEPT ![i] = r]
    BY <1>1
  <1> HIDE DEF r
  <1>6. /\ queue' \in Seq(Rows) /\ Len(queue') = Len(queue) /\ Ids' = Ids
        /\ queue'[i] = r
        /\ \A j \in Ids : j # i => queue'[j] = queue[j]
        /\ UniqueActiveKey' /\ CapCountsCharges'
    BY <1>2, <1>3, <1>4, <1>5, OneRow DEF Active
  <1>7. TypeOK'
    BY <1>1, <1>2, <1>6 DEF TypeOK, DequeueNext, ghosts, DrainPCs, EnqueuePCs,
       Threads, Ids
  <1>8. Control'
    BY <1>1, <1>2 DEF Control, DequeueNext, DrainPCs, EnqueuePCs, Threads,
       TypeOK, Ids
  <1>9. OrphansDispatched'
    BY <1>1, <1>2, <1>6 DEF OrphansDispatched, DequeueNext, ghosts
  <1>10. r.status = "dispatched" /\ i # 0 /\ item[d] = 0
    BY <1>2, <1>3 DEF Edited, DequeueNext, Control, EnqueuePCs, Ids
  <1>11. ExclusiveClaim'
    BY <1>1, <1>2, <1>6, <1>10 DEF ExclusiveClaim, Held, OrphansDispatched,
       DequeueNext, ghosts, TypeOK
  <1> QED
    BY <1>6, <1>7, <1>8, <1>9, <1>11

\* What the end of a loop iteration does to the drainer's own state.
LEMMA NextIterationTypes ==
    ASSUME TypeOK, Control, NEW d \in Drainers, pc[d] = "settle",
           NEW back \in SUBSET Nat, NextIteration(d, back), UNCHANGED req
    PROVE  /\ pc' \in [Threads -> {"idle"} \cup EnqueuePCs \cup DrainPCs]
           /\ \A t \in Threads : pc'[t] \in EnqueuePCs => req'[t] \in Requests
           /\ item' \in [Drainers -> Nat]
           /\ left' \in [Drainers -> Nat]
           /\ result' \in [Drainers -> Results]
           /\ putBack' \in [Drainers -> SUBSET Nat]
           /\ Control'
  <1> USE QueueConstants DEF NextIteration
  <1>1. left[d] \in Nat /\ left[d] > 0 /\ putBack[d] \in SUBSET Nat
    BY DEF Control, TypeOK
  <1>2. /\ pc' \in [Threads -> {"idle"} \cup EnqueuePCs \cup DrainPCs]
        /\ \A t \in Threads : pc'[t] \in EnqueuePCs => req'[t] \in Requests
    BY DEF TypeOK, EnqueuePCs, DrainPCs, Threads
  <1>3. item' \in [Drainers -> Nat] /\ left' \in [Drainers -> Nat]
    BY <1>1 DEF TypeOK
  <1>4. result' \in [Drainers -> Results]
    BY DEF TypeOK, Results
  <1>5. putBack' \in [Drainers -> SUBSET Nat]
    <2>1. (IF left[d] > 1 THEN putBack[d] \cup back ELSE {}) \in SUBSET Nat
      BY <1>1
    <2> QED
      BY <2>1 DEF TypeOK
  <1>6. Control'
    BY <1>1 DEF Control, DrainPCs, EnqueuePCs, Threads, TypeOK
  <1> QED
    BY <1>2, <1>3, <1>4, <1>5, <1>6

\* A Mark... update: the drainer's row leaves 'dispatched' and is let go.
LEMMA SettledInv ==
    ASSUME Inv, NEW d \in Drainers, pc[d] = "settle",
           NEW r, NEW s, NEW a, NEW b, NEW back \in SUBSET Nat,
           Edited(r, queue[item[d]], s, a, b), Charged(r), s # "dispatched",
           queue' = [queue EXCEPT ![item[d]] = r],
           NextIteration(d, back),
           UNCHANGED <<online, req, ticked, faults, acked, confirmed, orphans,
                       selfHit>>
    PROVE  Inv'
  <1> USE QueueConstants DEF Inv
  <1>1. /\ item[d] # 0 /\ item[d] \in Ids
        /\ queue[item[d]].status = "dispatched"
    BY DEF Control, ExclusiveClaim
  <1>2. /\ queue' \in Seq(Rows) /\ Len(queue') = Len(queue) /\ Ids' = Ids
        /\ queue'[item[d]] = r
        /\ \A j \in Ids : j # item[d] => queue'[j] = queue[j]
        /\ UniqueActiveKey' /\ CapCountsCharges'
    BY <1>1, OneRow DEF Active
  <1>3. TypeOK'
    BY <1>2, NextIterationTypes DEF TypeOK
  <1>4. Control'
    BY NextIterationTypes
  <1>5. OrphansDispatched'
    BY <1>1, <1>2 DEF OrphansDispatched, ExclusiveClaim
  <1>6. ExclusiveClaim'
    BY <1>1, <1>2 DEF ExclusiveClaim, Held, NextIteration, TypeOK, Edited
  <1> QED
    BY <1>2, <1>3, <1>4, <1>5, <1>6

LEMMA MarkInv ==
    ASSUME Inv, NEW d \in Drainers,
           \/ MarkQueueItemCompleted(d)
           \/ MarkQueueItemTransientRetry(d)
           \/ MarkQueueItemFailed(d)
    PROVE  Inv'
  <1> USE QueueConstants DEF Inv
  <1> DEFINE i == item[d]
             o == queue[i]
  <1>1. /\ pc[d] = "settle" /\ i # 0 /\ i \in Ids /\ i \in Nat
        /\ o \in Rows /\ o.status = "dispatched" /\ Charged(o)
    BY DEF Control, ExclusiveClaim, CapCountsCharges, TypeOK, Ids,
       MarkQueueItemCompleted, MarkQueueItemTransientRetry, MarkQueueItemFailed
  <1>2. /\ o.attempts = o.burned + 1 /\ o.burned \in Nat /\ o.attempts \in Nat
        /\ o.burned < MaxAttempts
    BY <1>1 DEF Charged, Rows, Active
  <1> HIDE DEF o, i
  <1>3. CASE MarkQueueItemCompleted(d)
    <2> DEFINE r == Completed(o, result[d])
    <2>1. Edited(r, o, "completed", o.attempts, o.burned)
      BY <1>1, Edits
    <2>2. Charged(r)
      BY <1>2, <2>1 DEF Edited, Charged, Active
    <2>3. queue' = [queue EXCEPT ![item[d]] = r]
      BY <1>3 DEF MarkQueueItemCompleted, o, i
    <2> HIDE DEF r
    <2> QED
      BY <1>1, <1>3, <2>1, <2>2, <2>3, SettledInv
         DEF MarkQueueItemCompleted, o, i
  <1>4. CASE MarkQueueItemTransientRetry(d)
    <2> DEFINE r == Requeued(o)
    <2>1. Edited(r, o, "queued", o.burned, o.burned)
      <3>1. (IF o.attempts > 0 THEN o.attempts - 1 ELSE 0) = o.burned
        BY <1>2
      <3> QED
        BY <1>1, <3>1, Edits
    <2>2. Charged(r)
      BY <1>2, <2>1 DEF Edited, Charged, Active
    <2>3. queue' = [queue EXCEPT ![item[d]] = r]
      BY <1>4 DEF MarkQueueItemTransientRetry, o, i
    <2> HIDE DEF r
    <2> QED
      BY <1>1, <1>4, <2>1, <2>2, <2>3, SettledInv
         DEF MarkQueueItemTransientRetry, o, i
  <1>5. CASE MarkQueueItemFailed(d)
    <2> DEFINE r == ChargedOnce(o)
               s == IF CapReached(o) THEN "failed" ELSE "queued"
    <2>1. Edited(r, o, s, o.attempts, o.burned + 1)
      BY <1>1, Edits
    <2>2. Charged(r) /\ s # "dispatched"
      BY <1>2, <2>1 DEF Edited, Charged, Active, CapReached
    <2>3. queue' = [queue EXCEPT ![item[d]] = r]
      BY <1>5 DEF MarkQueueItemFailed, o, i
    <2>4. PICK back \in SUBSET Nat : NextIteration(d, back)
      BY <1>1, <1>5 DEF MarkQueueItemFailed, i
    <2> HIDE DEF r, s
    <2> QED
      BY <1>1, <1>5, <2>1, <2>2, <2>3, <2>4, SettledInv
         DEF MarkQueueItemFailed, o, i
  <1> QED
    BY <1>3, <1>4, <1>5

LEMMA MarkFailsInv ==
    ASSUME Inv, NEW d \in Drainers, MarkFails(d)
    PROVE  Inv'
  <1> USE QueueConstants DEF Inv
  <1>1. /\ item[d] # 0 /\ item[d] \in Ids
        /\ queue[item[d]].status = "dispatched"
        /\ queue' = queue /\ Ids' = Ids
    BY DEF Control, ExclusiveClaim, MarkFails, Ids
  <1>2. TypeOK'
    <2>1. orphans' \subseteq Nat
      <3>1. item[d] \in Nat /\ orphans \subseteq Nat
        BY DEF TypeOK
      <3> QED
        BY <3>1 DEF MarkFails
    <2>2. faults' \in Nat
      BY DEF TypeOK, MarkFails
    <2> QED
      BY <1>1, <2>1, <2>2, NextIterationTypes DEF TypeOK, MarkFails
  <1>3. Control'
    BY NextIterationTypes DEF MarkFails
  <1>4. OrphansDispatched'
    BY <1>1 DEF OrphansDispatched, MarkFails
  <1>5. ExclusiveClaim'
    BY <1>1 DEF ExclusiveClaim, Held, MarkFails, NextIteration, TypeOK
  <1>6. UniqueActiveKey' /\ CapCountsCharges'
    BY <1>1 DEF UniqueActiveKey, CapCountsCharges, ActiveRows, Charged
  <1> QED
    BY <1>2, <1>3, <1>4, <1>5, <1>6

\* Steps that leave the table, the claims and the orphans alone.
LEMMA QuietInv ==
    ASSUME Inv, UNCHANGED <<queue, orphans, item>>, TypeOK', Control'
    PROVE  Inv'
  <1>1. Ids' = Ids /\ queue' = queue /\ item' = item /\ orphans' = orphans
    BY DEF Ids
  <1> QED
    BY <1>1 DEF Inv, ExclusiveClaim, Held, OrphansDispatched, UniqueActiveKey,
       CapCountsCharges, ActiveRows, Charged

LEMMA BodyRequestType ==
    ASSUME NEW m \in Messages
    PROVE  BodyRequest(m) \in Requests /\ EnqueueStart(BodyRequest(m)) \in EnqueuePCs
  BY DEF BodyRequest, BodyKey, BodyTTL, Requests, Keys, EnqueueStart, EnqueuePCs

LEMMA CallInv ==
    ASSUME Inv, NEW c \in Callers, NEW m \in Messages,
           ProxyBusy(c, m) \/ ScheduleTick(c, m)
    PROVE  Inv'
  <1> USE QueueConstants DEF Inv
  <1>1. PICK r \in Requests, s \in EnqueuePCs :
            pc' = [pc EXCEPT ![c] = s] /\ req' = [req EXCEPT ![c] = r]
    <2>1. CASE ProxyBusy(c, m)
      BY <2>1, BodyRequestType DEF ProxyBusy
    <2>2. CASE ScheduleTick(c, m)
      <3>1. /\ [msg |-> m, key |-> TickOf[m], ttl |-> "live"] \in Requests
            /\ "supersede" \in EnqueuePCs
        BY <2>2 DEF Requests, Keys, EnqueuePCs, ScheduleTick
      <3> QED
        BY <2>2, <3>1 DEF ScheduleTick
    <2> QED
      BY <2>1, <2>2
  <1>2. /\ UNCHANGED <<queue, online, item, left, result, faults, ghosts>>
        /\ ticked' \subseteq Messages
    BY DEF ProxyBusy, ScheduleTick, Send, TypeOK
  <1>3. TypeOK'
    BY <1>1, <1>2 DEF TypeOK, Threads, ghosts
  <1>4. Control'
    BY <1>1, <1>2 DEF Control, TypeOK, Threads, EnqueuePCs, DrainPCs
  <1> QED
    BY <1>2, <1>3, <1>4, QuietInv DEF ghosts

\* The two ways EnqueueA2A returns keep the thread's own state well formed.
LEMMA ReturnTypes ==
    ASSUME Inv, NEW t \in Threads, pc[t] \in EnqueuePCs,
           \/ \E i, m : m \in Messages /\ Returns(t, i, m)
           \/ ReturnsError(t),
           UNCHANGED <<item, left>>
    PROVE  /\ pc' \in [Threads -> {"idle"} \cup EnqueuePCs \cup DrainPCs]
           /\ req' \in [Threads -> Requests \cup {NoRequest}]
           /\ \A u \in Threads : pc'[u] \in EnqueuePCs => req'[u] \in Requests
           /\ result' \in [Drainers -> Results]
           /\ acked' \subseteq Messages
           /\ selfHit' \subseteq Messages
           /\ Control'
  <1> USE QueueConstants DEF Inv
  <1>1. /\ result' \in [Drainers -> Results]
        /\ acked' \subseteq Messages
        /\ selfHit' \subseteq Messages
    <2> USE DEF Returns, ReturnsError, EnqueuesAgain, GivesUp
    <2>1. result' \in [Drainers -> Results]
      BY DEF TypeOK, Results
    <2>2. acked' \subseteq Messages /\ selfHit' \subseteq Messages
      BY DEF TypeOK
    <2> QED
      BY <2>1, <2>2
  <1>2. CASE EnqueuesAgain(t)
    <2>1. PICK s \in EnqueuePCs : pc' = [pc EXCEPT ![t] = s] /\ req' = req
      BY <1>2 DEF EnqueuesAgain, EnqueueStart, EnqueuePCs
    <2>2. req[t] \in Requests
      BY DEF TypeOK
    <2>3. /\ pc' \in [Threads -> {"idle"} \cup EnqueuePCs \cup DrainPCs]
          /\ req' \in [Threads -> Requests \cup {NoRequest}]
      BY <2>1 DEF TypeOK
    <2>4. \A u \in Threads : pc'[u] \in EnqueuePCs => req'[u] \in Requests
      BY <2>1, <2>2 DEF TypeOK
    <2>5. Control'
      BY <2>1 DEF Control, TypeOK, Threads, EnqueuePCs, DrainPCs
    <2> QED
      BY <1>1, <2>3, <2>4, <2>5
  <1>3. CASE ~EnqueuesAgain(t)
    <2> USE <1>3 DEF Returns, ReturnsError, GivesUp
    <2>1. PICK s \in {"settle", "idle"} :
              /\ pc' = [pc EXCEPT ![t] = s]
              /\ t \in Drainers <=> s = "settle"
      BY DEF Threads
    <2>2. req' = [req EXCEPT ![t] = NoRequest]
      OBVIOUS
    <2>3. /\ pc' \in [Threads -> {"idle"} \cup EnqueuePCs \cup DrainPCs]
          /\ req' \in [Threads -> Requests \cup {NoRequest}]
      BY <2>1, <2>2 DEF TypeOK, DrainPCs
    <2>4. \A u \in Threads : pc'[u] \in EnqueuePCs => req'[u] \in Requests
      BY <2>1, <2>2 DEF TypeOK, EnqueuePCs
    <2>5. Control'
      BY <2>1 DEF Control, TypeOK, Threads, EnqueuePCs, DrainPCs
    <2> QED
      BY <1>1, <2>3, <2>4, <2>5
  <1> QED
    BY <1>2, <1>3

LEMMA ConflictInv ==
    ASSUME Inv, NEW t \in Threads,
           InsertConflict(t) \/ InsertFails(t) \/ Lookup(t)
    PROVE  Inv'
  <1> USE QueueConstants DEF Inv
  <1>1. CASE InsertConflict(t)
    <2>1. TypeOK'
      BY <1>1 DEF InsertConflict, TypeOK, Threads, EnqueuePCs, ghosts
    <2>2. Control'
      BY <1>1 DEF InsertConflict, Control, TypeOK, Threads, EnqueuePCs, DrainPCs
    <2> QED
      BY <1>1, <2>1, <2>2, QuietInv DEF InsertConflict, ghosts
  <1>2. CASE InsertFails(t)
    <2>1. pc[t] \in EnqueuePCs
      BY <1>2 DEF InsertFails, EnqueuePCs
    <2>2. TypeOK' /\ Control'
      BY <1>2, <2>1, ReturnTypes DEF InsertFails, TypeOK
    <2> QED
      BY <1>2, <2>2, QuietInv DEF InsertFails
  <1>3. CASE Lookup(t)
    <2>1. pc[t] \in EnqueuePCs
      BY <1>3 DEF Lookup, EnqueuePCs
    <2>2. \A i \in Ids : queue[i].msg \in Messages
      BY RowTypes
    <2>3. \/ \E i, m : m \in Messages /\ Returns(t, i, m)
          \/ ReturnsError(t)
      BY <1>3, <2>2 DEF Lookup, ActiveRows
    <2>4. TypeOK' /\ Control'
      BY <1>3, <2>1, <2>3, ReturnTypes DEF Lookup, TypeOK
    <2> QED
      BY <1>3, <2>4, QuietInv DEF Lookup
  <1> QED
    BY <1>1, <1>2, <1>3

\* A step that keeps every row's key, makes no row active or 'dispatched' and
\* moves no claim.
LEMMA SameClaimsInv ==
    ASSUME Inv, TypeOK', Control', UNCHANGED <<item, orphans>>, Ids' = Ids,
           \A i \in Ids : /\ queue'[i].key = queue[i].key
                          /\ queue'[i].status = "dispatched" <=>
                                queue[i].status = "dispatched"
                          /\ queue'[i].status \in Active =>
                                queue[i].status \in Active
                          /\ Charged(queue'[i])
    PROVE  Inv'
  <1>1. ExclusiveClaim'
    BY DEF Inv, ExclusiveClaim, Held
  <1>2. OrphansDispatched'
    BY DEF Inv, OrphansDispatched
  <1>3. UniqueActiveKey'
    BY DEF Inv, UniqueActiveKey, ActiveRows
  <1>4. CapCountsCharges'
    BY DEF CapCountsCharges, Charged
  <1> QED
    BY <1>1, <1>2, <1>3, <1>4 DEF Inv

\* Dropping a set of pending rows in one UPDATE.
LEMMA DropRowsInv ==
    ASSUME Inv,
           NEW S \in SUBSET Ids, \A i \in S : queue[i].status = "queued",
           queue' = [i \in Ids |-> IF i \in S THEN Dropped(queue[i])
                                              ELSE queue[i]],
           UNCHANGED <<item, orphans>>, Control',
           queue' \in Seq(Rows) => TypeOK'
    PROVE  Inv'
  <1> USE QueueConstants DEF Inv
  <1>1. \A i \in S : /\ Edited(Dropped(queue[i]), queue[i], "dropped",
                               queue[i].attempts, queue[i].burned)
                     /\ Charged(Dropped(queue[i]))
    <2> SUFFICES ASSUME NEW i \in S
                 PROVE  /\ Edited(Dropped(queue[i]), queue[i], "dropped",
                                  queue[i].attempts, queue[i].burned)
                        /\ Charged(Dropped(queue[i]))
      OBVIOUS
    <2>1. Edited(Dropped(queue[i]), queue[i], "dropped", queue[i].attempts,
                 queue[i].burned)
      BY RowTypes, Edits
    <2>2. Charged(queue[i])
      BY DEF CapCountsCharges
    <2> QED
      BY <2>1, <2>2, RowTypes DEF Edited, Charged, Active
  <1>2. queue' \in Seq(Rows) /\ Len(queue') = Len(queue) /\ Ids' = Ids
    <2>1. \A i \in Ids : queue'[i] \in Rows
      BY <1>1, RowTypes DEF Edited
    <2>2. queue' = [i \in 1 .. Len(queue) |-> queue'[i]]
      BY DEF Ids
    <2>3. queue \in Seq(Rows)
      BY DEF TypeOK
    <2> QED
      BY <2>1, <2>2, <2>3, RowMap DEF Ids
  <1>3. ASSUME NEW i \in Ids
        PROVE  /\ queue'[i].key = queue[i].key
               /\ queue'[i].status = "dispatched" <=>
                     queue[i].status = "dispatched"
               /\ queue'[i].status \in Active => queue[i].status \in Active
               /\ Charged(queue'[i])
    <2>1. CASE i \in S
      <3>1. queue'[i] = Dropped(queue[i])
        BY <2>1
      <3> QED
        BY <1>1, <2>1, <3>1 DEF Edited, Active
    <2>2. CASE i \notin S
      <3>1. queue'[i] = queue[i]
        BY <2>2
      <3> QED
        BY <3>1 DEF CapCountsCharges
    <2> QED
      BY <2>1, <2>2
  <1> QED
    BY <1>2, <1>3, SameClaimsInv

LEMMA SupersedeInv ==
    ASSUME Inv, NEW t \in Threads, Supersede(t)
    PROVE  Inv'
  <1> USE QueueConstants DEF Inv
  <1>1. /\ pc' = [pc EXCEPT ![t] = "insert"] /\ pc[t] = "supersede"
        /\ req[t] \in Requests
        /\ UNCHANGED <<online, req, item, left, result, ticked, ghosts>>
    BY DEF Supersede, TypeOK, EnqueuePCs
  <1>2. /\ pc' \in [Threads -> {"idle"} \cup EnqueuePCs \cup DrainPCs]
        /\ \A u \in Threads : pc'[u] \in EnqueuePCs => req'[u] \in Requests
    BY <1>1 DEF TypeOK, EnqueuePCs
  <1>3. Control'
    BY <1>1 DEF Control, TypeOK, Threads, EnqueuePCs, DrainPCs
  <1>4. faults' \in Nat
    BY DEF Supersede, TypeOK
  <1>5. queue' \in Seq(Rows) => TypeOK'
    BY <1>1, <1>2, <1>4 DEF TypeOK, ghosts
  <1>6. CASE queue' = queue
    BY <1>1, <1>3, <1>5, <1>6, QuietInv DEF ghosts, TypeOK
  <1>7. CASE queue' # queue
    <2> DEFINE S == {i \in Ids : /\ queue[i].key = req[t].key
                                 /\ queue[i].status = "queued"
                                 /\ queue[i].ttl = "expired"}
    <2>1. queue' = [i \in Ids |-> IF i \in S THEN Dropped(queue[i])
                                             ELSE queue[i]]
      BY <1>7 DEF Supersede
    <2>2. S \in SUBSET Ids /\ \A i \in S : queue[i].status = "queued"
      OBVIOUS
    <2> HIDE DEF S
    <2> QED
      BY <1>1, <1>3, <1>5, <2>1, <2>2, DropRowsInv DEF ghosts
  <1> QED
    BY <1>6, <1>7

LEMMA DropStaleInv ==
    ASSUME Inv, DropStaleQueueItems
    PROVE  Inv'
  <1> USE DEF Inv
  <1>1. PICK n \in Ids :
            queue' = [i \in Ids |->
                IF i <= n /\ queue[i].status = "queued"
                THEN Dropped(queue[i]) ELSE queue[i]]
    BY DEF DropStaleQueueItems
  <1>2. UNCHANGED <<online, pc, req, item, left, result, ticked, faults, ghosts>>
    BY DEF DropStaleQueueItems
  <1>3. Control' /\ (queue' \in Seq(Rows) => TypeOK')
    BY <1>2 DEF Control, TypeOK, ghosts
  <1> DEFINE S == {i \in Ids : i <= n /\ queue[i].status = "queued"}
  <1>4. queue' = [i \in Ids |-> IF i \in S THEN Dropped(queue[i])
                                           ELSE queue[i]]
    BY <1>1
  <1>5. S \in SUBSET Ids /\ \A i \in S : queue[i].status = "queued"
    OBVIOUS
  <1> HIDE DEF S
  <1> QED
    BY <1>2, <1>3, <1>4, <1>5, DropRowsInv DEF ghosts

LEMMA InsertRowInv ==
    ASSUME Inv, NEW t \in Threads, InsertRow(t)
    PROVE  Inv'
  <1> USE QueueConstants DEF Inv
  <1> DEFINE n == Len(queue) + 1
             r == NewRow(req[t])
  <1>1. /\ pc[t] \in EnqueuePCs /\ req[t] \in Requests
        /\ UNCHANGED <<item, left, orphans>>
    BY DEF InsertRow, EnqueuePCs, TypeOK
  <1>2. /\ r \in Rows /\ r.status = "queued" /\ r.key = req[t].key
        /\ r.attempts = 0 /\ r.burned = 0
    BY <1>1 DEF NewRow, Requests, Rows, Statuses
  <1>3. queue' = Append(queue, r) /\ queue \in Seq(Rows)
    BY DEF InsertRow, TypeOK
  <1>4. req[t].key = NoKey \/ ActiveRows(req[t].key) = {}
    BY DEF InsertRow
  <1> HIDE DEF r
  <1>5. /\ queue' \in Seq(Rows) /\ Len(queue') = n
        /\ queue'[n] = r /\ \A j \in Ids : queue'[j] = queue[j]
        /\ n \notin Ids /\ Ids' = Ids \cup {n}
    BY <1>2, <1>3, RowAppend DEF Ids
  <1>6. /\ pc' \in [Threads -> {"idle"} \cup EnqueuePCs \cup DrainPCs]
        /\ req' \in [Threads -> Requests \cup {NoRequest}]
        /\ \A u \in Threads : pc'[u] \in EnqueuePCs => req'[u] \in Requests
        /\ result' \in [Drainers -> Results]
        /\ acked' \subseteq Messages
        /\ selfHit' \subseteq Messages
        /\ Control'
    <2>1. req[t].msg \in Messages
      BY <1>1 DEF Requests
    <2>2. Returns(t, Len(queue) + 1, req[t].msg)
      BY DEF InsertRow
    <2>3. \E i, m : m \in Messages /\ Returns(t, i, m)
      BY <2>1, <2>2
    <2> QED
      BY <1>1, <2>3, ReturnTypes
  <1>7. TypeOK'
    BY <1>5, <1>6 DEF InsertRow, TypeOK
  <1> HIDE DEF n
  <1>8. ExclusiveClaim'
    BY <1>1, <1>2, <1>5 DEF ExclusiveClaim, Held
  <1>9. OrphansDispatched'
    BY <1>1, <1>5 DEF OrphansDispatched
  <1>10. UniqueActiveKey'
    <2> SUFFICES ASSUME NEW k \in Keys, NEW i \in Ids \cup {n},
                        NEW j \in Ids \cup {n},
                        queue'[i].key = k, queue'[i].status \in Active,
                        queue'[j].key = k, queue'[j].status \in Active
                 PROVE  i = j
      BY <1>5 DEF UniqueActiveKey, ActiveRows
    <2>1. k # NoKey
      BY DEF Keys
    <2>2. CASE i \in Ids /\ j \in Ids
      BY <1>5, <2>2 DEF UniqueActiveKey, ActiveRows
    <2>3. CASE i = n /\ j \in Ids
      BY <1>2, <1>4, <1>5, <2>1, <2>3 DEF ActiveRows
    <2>4. CASE j = n /\ i \in Ids
      BY <1>2, <1>4, <1>5, <2>1, <2>4 DEF ActiveRows
    <2> QED
      BY <2>2, <2>3, <2>4
  <1>11. CapCountsCharges'
    <2>1. Charged(r)
      BY <1>2 DEF Charged, Active
    <2> SUFFICES ASSUME NEW i \in Ids \cup {n} PROVE Charged(queue'[i])
      BY <1>5 DEF CapCountsCharges, Charged
    <2> QED
      BY <1>5, <2>1 DEF CapCountsCharges
  <1> QED
    BY <1>6, <1>7, <1>8, <1>9, <1>10, <1>11

LEMMA TimeInv ==
    ASSUME Inv, NEW i \in Ids, Expire(i) \/ BackoffElapses(i)
    PROVE  Inv'
  <1> USE QueueConstants DEF Inv
  <1>1. /\ UNCHANGED <<online, pc, req, item, left, result, ticked, faults,
                       ghosts>>
        /\ queue[i] \in Rows
    BY RowTypes DEF Expire, BackoffElapses
  <1>2. PICK r : /\ Edited(r, queue[i], queue[i].status, queue[i].attempts,
                           queue[i].burned)
                 /\ queue' = [queue EXCEPT ![i] = r]
    BY <1>1, Edits DEF Expire, BackoffElapses
  <1>3. Charged(r)
    <2>1. Charged(queue[i])
      BY DEF CapCountsCharges
    <2> QED
      BY <1>2, <2>1 DEF Charged, Edited
  <1>4. /\ queue' \in Seq(Rows) /\ Len(queue') = Len(queue) /\ Ids' = Ids
        /\ queue'[i] = r
        /\ \A j \in Ids : j # i => queue'[j] = queue[j]
        /\ CapCountsCharges'
    BY <1>2, <1>3, OneRow
  <1>5. TypeOK' /\ Control'
    BY <1>1, <1>4 DEF TypeOK, Control, ghosts
  <1>6. \A j \in Ids : /\ queue'[j].key = queue[j].key
                       /\ queue'[j].status = queue[j].status
    BY <1>2, <1>4 DEF Edited
  <1>7. \A j \in Ids : Charged(queue'[j])
    BY <1>4 DEF CapCountsCharges, Charged
  <1> QED
    BY <1>1, <1>4, <1>5, <1>6, <1>7, SameClaimsInv DEF ghosts

LEMMA DrainLoopInv ==
    ASSUME Inv, NEW d \in Drainers,
           \/ StartDrain(d)
           \/ DequeueNothing(d)
           \/ DispatchAnswered(d)
           \/ DispatchBusy(d)
           \/ DispatchFails(d)
    PROVE  Inv'
  <1> USE QueueConstants DEF Inv
  <1>1. CASE StartDrain(d)
    <2>1. TypeOK'
      BY <1>1 DEF StartDrain, TypeOK, Threads, EnqueuePCs, DrainPCs, ghosts
    <2>2. Control'
      BY <1>1 DEF StartDrain, Control, TypeOK, Threads, EnqueuePCs, DrainPCs
    <2> QED
      BY <1>1, <2>1, <2>2, QuietInv DEF StartDrain, ghosts
  <1>2. CASE DequeueNothing(d)
    <2>1. TypeOK'
      BY <1>2 DEF DequeueNothing, EndsDrain, TypeOK, Threads, EnqueuePCs,
         DrainPCs
    <2>2. Control'
      BY <1>2 DEF DequeueNothing, EndsDrain, Control, TypeOK, Threads,
         EnqueuePCs, DrainPCs
    <2> QED
      BY <1>2, <2>1, <2>2, QuietInv DEF DequeueNothing, EndsDrain
  <1>3. CASE DispatchAnswered(d)
    <2>1. item[d] \in Ids
      BY <1>3 DEF DispatchAnswered, Control, ExclusiveClaim
    <2>2. queue[item[d]].msg \in Messages
      BY <2>1, RowTypes
    <2>3. confirmed' \subseteq Messages
      BY <1>3, <2>2 DEF DispatchAnswered, TypeOK
    <2>4. result' \in [Drainers -> Results]
      BY <1>3 DEF DispatchAnswered, TypeOK, Results
    <2>5. TypeOK'
      BY <1>3, <2>3, <2>4 DEF DispatchAnswered, TypeOK, Threads, EnqueuePCs,
         DrainPCs
    <2>6. Control'
      BY <1>3 DEF DispatchAnswered, Control, TypeOK, Threads, EnqueuePCs,
         DrainPCs
    <2> QED
      BY <1>3, <2>5, <2>6, QuietInv DEF DispatchAnswered
  <1>4. CASE DispatchBusy(d)
    <2>1. item[d] \in Ids
      BY <1>4 DEF DispatchBusy, Control, ExclusiveClaim
    <2> DEFINE r == BodyRequest(queue[item[d]].msg)
               s == EnqueueStart(r)
    <2>2. r \in Requests /\ s \in EnqueuePCs
      BY <2>1, RowTypes, BodyRequestType
    <2>3. /\ pc[d] = "dispatch"
          /\ pc' = [pc EXCEPT ![d] = s] /\ req' = [req EXCEPT ![d] = r]
          /\ UNCHANGED <<queue, online, item, left, result, ticked, faults,
                         ghosts>>
      BY <1>4 DEF DispatchBusy
    <2> HIDE DEF r, s
    <2>4. TypeOK'
      BY <2>2, <2>3 DEF TypeOK, Threads, ghosts
    <2>5. Control'
      BY <2>2, <2>3 DEF Control, TypeOK, Threads, EnqueuePCs, DrainPCs
    <2> QED
      BY <2>3, <2>4, <2>5, QuietInv DEF ghosts
  <1>5. CASE DispatchFails(d)
    <2>1. result' \in [Drainers -> Results]
      BY <1>5 DEF DispatchFails, TypeOK, Results
    <2>2. TypeOK'
      BY <1>5, <2>1 DEF DispatchFails, TypeOK, Threads, EnqueuePCs, DrainPCs,
         ghosts
    <2>3. Control'
      BY <1>5 DEF DispatchFails, Control, TypeOK, Threads, EnqueuePCs, DrainPCs
    <2> QED
      BY <1>5, <2>2, <2>3, QuietInv DEF DispatchFails, ghosts
  <1> QED
    BY <1>1, <1>2, <1>3, <1>4, <1>5

LEMMA CrashInv ==
    ASSUME Inv, Crash
    PROVE  Inv'
  <1> USE QueueConstants DEF Inv
  <1>1. queue' = queue /\ Ids' = Ids /\ \A d \in Drainers : item'[d] = 0
    BY DEF Crash, Ids
  <1>2. TypeOK'
    <2>1. orphans' \subseteq Nat
      BY DEF Crash, TypeOK, Held
    <2> QED
      BY <2>1 DEF Crash, TypeOK, EnqueuePCs, Results
  <1>3. Control'
    BY DEF Crash, Control, EnqueuePCs, DrainPCs, Threads
  <1>4. orphans' = orphans \cup Held
    BY DEF Crash
  <1>5. ExclusiveClaim'
    BY <1>1, <1>4 DEF ExclusiveClaim
  <1>6. OrphansDispatched'
    BY <1>1, <1>4 DEF OrphansDispatched, ExclusiveClaim, Held
  <1>7. UniqueActiveKey' /\ CapCountsCharges'
    BY <1>1 DEF UniqueActiveKey, CapCountsCharges, ActiveRows, Charged
  <1> QED
    BY <1>2, <1>3, <1>5, <1>6, <1>7

-----------------------------------------------------------------------------
(* The theorems.                                                           *)

LEMMA NextInv ==
    ASSUME Inv, [Next]_vars
    PROVE  Inv'
  <1>1. ASSUME NEW c \in Callers, NEW m \in Messages,
               ProxyBusy(c, m) \/ ScheduleTick(c, m)
        PROVE  Inv'
    BY <1>1, CallInv
  <1>2. ASSUME NEW t \in Threads, Enqueue(t)
        PROVE  Inv'
    BY <1>2, SupersedeInv, InsertRowInv, ConflictInv DEF Enqueue
  <1>3. ASSUME Sweep
        PROVE  Inv'
    BY <1>3, DrainLoopInv, QueueConstants DEF Sweep
  <1>4. ASSUME NEW d \in Drainers, HeartbeatDrain(d) \/ Drain(d)
        PROVE  Inv'
    BY <1>4, DequeueNextInv, DrainLoopInv, MarkInv, MarkFailsInv
       DEF HeartbeatDrain, Drain, Dispatch, Settle
  <1>5. CASE DropStaleQueueItems
    BY <1>5, DropStaleInv
  <1>6. ASSUME NEW i \in Ids, Expire(i) \/ BackoffElapses(i)
        PROVE  Inv'
    BY <1>6, TimeInv
  <1>7. CASE WorkspaceFlips
    <2>1. TypeOK' /\ Control'
      BY <1>7 DEF Inv, WorkspaceFlips, TypeOK, Control, ghosts
    <2> QED
      BY <1>7, <2>1, QuietInv DEF WorkspaceFlips, ghosts
  <1>8. CASE Crash
    BY <1>8, CrashInv
  <1>9. CASE UNCHANGED vars
    <2>1. TypeOK' /\ Control'
      BY <1>9 DEF Inv, vars, TypeOK, Control
    <2> QED
      BY <1>9, <2>1, QuietInv DEF vars
  <1> QED
    BY <1>1, <1>2, <1>3, <1>4, <1>5, <1>6, <1>7, <1>8, <1>9 DEF Next

THEOREM Invariance == Spec => []Inv
  <1>1. Init => Inv
    BY InitInv
  <1>2. Inv /\ [Next]_vars => Inv'
    BY NextInv
  <1> QED
    BY <1>1, <1>2, PTL DEF Spec

\* Every reachable state of the queue is well typed.
THEOREM TypeCorrect == Spec => []TypeOK
  BY Invariance, PTL DEF Inv

\* Claims of the sweeper's and the heartbeats' drains never collide, whatever
\* crashes and failed updates happen (DequeueNext, Mark...).
THEOREM ClaimsExclusive == Spec => []ExclusiveClaim
  BY Invariance, PTL DEF Inv

\* The partial unique index is never violated by a requeueing update.
THEOREM KeysUnique == Spec => []UniqueActiveKey
  BY Invariance, PTL DEF Inv

\* The attempt cap charges exactly the failures it should (MarkQueueItemFailed,
\* MarkQueueItemTransientRetry, DequeueNext).
THEOREM CapExact == Spec => []CapCountsCharges
  BY Invariance, PTL DEF Inv

\* No step of the code touches a row in a final status.
THEOREM TerminalRowsStay == Spec => TerminalStays
  <1>1. Inv /\ [Next]_vars =>
            [\A i \in Ids : queue[i].status \notin Active =>
                queue'[i] = queue[i]]_vars
    <2> SUFFICES ASSUME Inv, Next, NEW i \in Ids, queue[i].status \notin Active
                 PROVE  queue'[i] = queue[i]
      OBVIOUS
    <2> USE DEF Inv
    <2>1. queue[i].status # "queued" /\ queue[i].status # "dispatched"
      BY DEF Active
    <2>2. i \in DOMAIN queue /\ queue \in Seq(Rows) /\ i \in 1 .. Len(queue)
      BY DEF TypeOK, Ids
    <2>3. \A d \in Drainers : pc[d] = "settle" => item[d] # i
      BY <2>1 DEF Control, ExclusiveClaim
    <2>4. ASSUME NEW t \in Threads, Enqueue(t) PROVE queue'[i] = queue[i]
      <3>1. CASE Supersede(t)
        BY <2>1, <3>1 DEF Supersede
      <3>2. CASE InsertRow(t)
        BY <2>2, <3>2 DEF InsertRow
      <3> QED
        BY <2>4, <3>1, <3>2 DEF Enqueue, InsertConflict, InsertFails, Lookup
    <2>5. ASSUME NEW d \in Drainers, HeartbeatDrain(d) \/ Drain(d)
          PROVE  queue'[i] = queue[i]
      <3>1. CASE DequeueNext(d)
        BY <2>1, <2>2, <3>1 DEF DequeueNext, Eligible, Unexpired
      <3>2. CASE Settle(d)
        BY <2>2, <2>3, <3>2 DEF Settle, MarkQueueItemCompleted,
           MarkQueueItemTransientRetry, MarkQueueItemFailed, MarkFails
      <3> QED
        BY <2>5, <3>1, <3>2 DEF HeartbeatDrain, StartDrain, Drain, Dispatch,
           DequeueNothing, EndsDrain, DispatchAnswered, DispatchBusy,
           DispatchFails
    <2>6. CASE DropStaleQueueItems
      BY <2>1, <2>6 DEF DropStaleQueueItems
    <2>7. ASSUME NEW j \in Ids, Expire(j) \/ BackoffElapses(j)
          PROVE  queue'[i] = queue[i]
      <3>1. j # i
        BY <2>7, <2>1 DEF Expire, BackoffElapses, Active
      <3> QED
        BY <2>2, <2>7, <3>1 DEF Expire, BackoffElapses
    <2> QED
      BY <2>4, <2>5, <2>6, <2>7 DEF Next, ProxyBusy, ScheduleTick, Sweep,
         StartDrain, WorkspaceFlips, Crash
  <1> QED
    BY <1>1, Invariance, PTL DEF Spec, TerminalStays

-----------------------------------------------------------------------------
(* No promised message is lost, except by a self-conflict.                 *)

\* A row or a request keyed by a messageId carries the message of that id, and
\* only a keyed request is looked up.
KeysNameBodies ==
    /\ \A i \in Ids : queue[i].key \in Messages => queue[i].key = queue[i].msg
    /\ \A t \in Threads :
        /\ req[t].key \in Messages => req[t].key = req[t].msg
        /\ pc[t] = "lookup" => req[t].key # NoKey

\* A drainer that re-enqueues passes the body of the row it holds.
RequestsOfHeld ==
    \A d \in Drainers : pc[d] \in EnqueuePCs =>
        req[d] = BodyRequest(queue[item[d]].msg)

Accepted(d) == pc[d] = "settle" /\ result[d] = "accepted"
Parked(i)   == \E d \in Drainers : item[d] = i /\ Accepted(d)

\* What a drainer about to complete its row knows of the message in it.
Settling ==
    \A d \in Drainers :
        LET m == queue[item[d]].msg IN
        /\ pc[d] = "settle" /\ result[d] = "ok" => m \in confirmed
        /\ Accepted(d) => m \in acked \cup confirmed
        /\ Accepted(d) /\ queue[item[d]].key = m => m \in confirmed \cup selfHit

Safe(m) ==
    \/ m \in confirmed \cup selfHit
    \/ \E i \in Ids : /\ queue[i].msg = m
                      /\ queue[i].status # "completed"
                      /\ ~Parked(i)

LossInv == /\ KeysNameBodies /\ RequestsOfHeld /\ Settling
           /\ \A m \in acked : Safe(m)

\* Every step keeps the rows there are, with their messages and their keys,
\* and only MarkQueueItemCompleted completes a row.
LEMMA RowsKept ==
    ASSUME Inv, Next, NEW i \in Ids
    PROVE  /\ i \in Ids'
           /\ queue'[i].msg = queue[i].msg /\ queue'[i].key = queue[i].key
           /\ queue'[i].status = "completed" =>
                \/ queue[i].status = "completed"
                \/ \E d \in Drainers : item[d] = i /\ MarkQueueItemCompleted(d)
  <1> USE DEF Inv
  <1> DEFINE Kept == /\ i \in Ids'
                     /\ queue'[i].msg = queue[i].msg
                     /\ queue'[i].key = queue[i].key
             Same == queue'[i].status = "completed" =>
                        queue[i].status = "completed"
  <1>1. /\ i \in 1 .. Len(queue) /\ queue \in Seq(Rows) /\ queue[i] \in Rows
        /\ i \in DOMAIN queue
    BY RowTypes DEF Ids, TypeOK
  <1>2. ASSUME NEW r \in Rows, NEW j \in Ids,
               queue' = [queue EXCEPT ![j] = r],
               r.msg = queue[j].msg, r.key = queue[j].key
        PROVE  Kept /\ (r.status # "completed" \/ i # j => Same)
    BY <1>1, <1>2, RowUpdate DEF Ids
  <1>3. ASSUME NEW S, queue' = [j \in Ids |-> IF j \in S THEN Dropped(queue[j])
                                                         ELSE queue[j]]
        PROVE  Kept /\ Same
    <2>1. /\ Dropped(queue[i]).msg = queue[i].msg
          /\ Dropped(queue[i]).key = queue[i].key
          /\ Dropped(queue[i]).status = "dropped"
      BY <1>1, Edits DEF Edited
    <2>2. queue'[i] = IF i \in S THEN Dropped(queue[i]) ELSE queue[i]
      BY <1>3
    <2>3. Ids' = Ids
      <3>1. \A j \in Ids : queue[j] \in Rows /\ Dropped(queue[j]) \in Rows
        BY RowTypes, Edits DEF Edited
      <3>2. /\ \A j \in 1 .. Len(queue) : queue'[j] \in Rows
            /\ queue' = [j \in 1 .. Len(queue) |-> queue'[j]]
        BY <1>3, <3>1 DEF Ids
      <3> QED
        BY <1>1, <3>2, RowMap DEF Ids
    <2> QED
      BY <2>1, <2>2, <2>3
  <1>4. CASE queue' = queue
    BY <1>4 DEF Ids
  <1>5. ASSUME NEW t \in Threads, Enqueue(t) PROVE Kept /\ Same
    <2>1. CASE Supersede(t)
      <3> DEFINE S == {j \in Ids : /\ queue[j].key = req[t].key
                                   /\ queue[j].status = "queued"
                                   /\ queue[j].ttl = "expired"}
      <3>1. CASE queue' = [j \in Ids |-> IF j \in S THEN Dropped(queue[j])
                                                    ELSE queue[j]]
        BY <1>3, <3>1
      <3> QED
        BY <1>4, <2>1, <3>1 DEF Supersede
    <2>2. CASE InsertRow(t)
      BY <1>1, <2>2 DEF InsertRow, Ids
    <2> QED
      BY <1>4, <1>5, <2>1, <2>2
         DEF Enqueue, InsertConflict, InsertFails, Lookup
  <1>6. ASSUME NEW d \in Drainers, HeartbeatDrain(d) \/ Drain(d)
        PROVE  Kept /\ (Same \/ (item[d] = i /\ MarkQueueItemCompleted(d)))
    <2>1. CASE DequeueNext(d)
      <3>1. PICK j \in Eligible :
                queue' = [queue EXCEPT ![j] = Claimed(queue[j])]
        BY <2>1 DEF DequeueNext
      <3>2. j \in Ids /\ queue[j] \in Rows
        BY RowTypes DEF Eligible
      <3> DEFINE r == Claimed(queue[j])
      <3>3. /\ r \in Rows /\ r.msg = queue[j].msg /\ r.key = queue[j].key
            /\ r.status = "dispatched"
        BY <3>2, Edits DEF Edited
      <3> HIDE DEF r
      <3> QED
        BY <1>2, <3>1, <3>2, <3>3 DEF r
    <2>2. CASE Settle(d)
      <3>1. pc[d] = "settle"
        BY <2>2 DEF Settle, MarkQueueItemCompleted,
           MarkQueueItemTransientRetry, MarkQueueItemFailed, MarkFails
      <3>2. item[d] \in Ids /\ queue[item[d]] \in Rows
        BY <3>1, RowTypes DEF Control, ExclusiveClaim
      <3> DEFINE o == queue[item[d]]
      <3>3. CASE MarkQueueItemCompleted(d)
        <4> DEFINE r == Completed(o, result[d])
        <4>1. queue' = [queue EXCEPT ![item[d]] = r]
          BY <3>3 DEF MarkQueueItemCompleted
        <4>2. /\ r \in Rows /\ r.msg = o.msg /\ r.key = o.key
          <5>1. Edited(r, o, "completed", o.attempts, o.burned)
            BY <3>2, Edits
          <5> QED
            BY <5>1 DEF Edited
        <4> HIDE DEF r
        <4>3. Kept /\ (i # item[d] => Same)
          BY <1>2, <3>2, <4>1, <4>2
        <4> QED
          BY <3>3, <4>3
      <3>4. CASE MarkQueueItemTransientRetry(d)
        <4> DEFINE r == Requeued(o)
        <4>1. queue' = [queue EXCEPT ![item[d]] = r]
          BY <3>4 DEF MarkQueueItemTransientRetry
        <4>2. /\ r \in Rows /\ r.msg = o.msg /\ r.key = o.key
              /\ r.status # "completed"
          BY <3>2, Edits DEF Edited
        <4> HIDE DEF r
        <4> QED
          BY <1>2, <3>2, <3>4, <4>1, <4>2
      <3>5. CASE MarkQueueItemFailed(d)
        <4> DEFINE r == ChargedOnce(o)
        <4>1. queue' = [queue EXCEPT ![item[d]] = r]
          BY <3>5 DEF MarkQueueItemFailed
        <4>2. /\ r \in Rows /\ r.msg = o.msg /\ r.key = o.key
              /\ r.status # "completed"
          BY <3>2, Edits DEF Edited
        <4> HIDE DEF r
        <4> QED
          BY <1>2, <3>2, <3>5, <4>1, <4>2
      <3>6. CASE MarkFails(d)
        BY <1>4, <3>6 DEF MarkFails
      <3> QED
        BY <2>2, <3>3, <3>4, <3>5, <3>6 DEF Settle
    <2> QED
      BY <1>4, <1>6, <2>1, <2>2 DEF HeartbeatDrain, StartDrain, Drain,
         Dispatch, DequeueNothing, EndsDrain, DispatchAnswered, DispatchBusy,
         DispatchFails
  <1>7. CASE DropStaleQueueItems
    <2>1. PICK n \in Ids : queue' = [j \in Ids |->
                IF j <= n /\ queue[j].status = "queued"
                THEN Dropped(queue[j]) ELSE queue[j]]
      BY <1>7 DEF DropStaleQueueItems
    <2> DEFINE S == {j \in Ids : j <= n /\ queue[j].status = "queued"}
    <2>2. queue' = [j \in Ids |-> IF j \in S THEN Dropped(queue[j])
                                             ELSE queue[j]]
      BY <2>1
    <2> QED
      BY <1>3, <2>2
  <1>8. ASSUME NEW j \in Ids, Expire(j) \/ BackoffElapses(j)
        PROVE  Kept /\ Same
    <2>1. PICK r : /\ Edited(r, queue[j], queue[j].status, queue[j].attempts,
                             queue[j].burned)
                   /\ queue' = [queue EXCEPT ![j] = r]
      BY <1>8, RowTypes, Edits DEF Expire, BackoffElapses
    <2>2. r.status \in Active
      BY <1>8, <2>1 DEF Edited, Expire, BackoffElapses
    <2> QED
      BY <1>2, <2>1, <2>2 DEF Edited, Active
  <1> QED
    BY <1>4, <1>5, <1>6, <1>7, <1>8 DEF Next, ProxyBusy, ScheduleTick, Sweep,
       StartDrain, WorkspaceFlips, Crash

\* A drainer between its claim and its settlement holds an existing row.
LEMMA HeldRow ==
    ASSUME Inv, NEW d \in Drainers, pc[d] \in EnqueuePCs \cup {"dispatch", "settle"}
    PROVE  item[d] \in Ids /\ queue[item[d]].status = "dispatched"
  BY DEF Inv, Control, ExclusiveClaim

\* Steps that promise nothing, complete no row and accept no row other than
\* one whose message the agent has just confirmed.
LEMMA LossKept ==
    ASSUME Inv, LossInv, Next, Inv', Ids' = Ids,
           acked' = acked, confirmed \subseteq confirmed', selfHit \subseteq selfHit',
           \A d \in Drainers : ~MarkQueueItemCompleted(d),
           \A d \in Drainers :
                pc'[d] = "settle" /\ result'[d] \in {"ok", "accepted"} =>
                    /\ item'[d] = item[d]
                    /\ \/ pc[d] = "settle" /\ result'[d] = result[d]
                       \/ /\ pc[d] = "dispatch"
                          /\ queue[item[d]].msg \in confirmed',
           \A d \in Drainers : pc'[d] \in EnqueuePCs =>
                /\ item'[d] = item[d]
                /\ \/ pc[d] \in EnqueuePCs /\ req'[d] = req[d]
                   \/ /\ pc[d] = "dispatch"
                      /\ req'[d] = BodyRequest(queue[item[d]].msg),
           \A t \in Threads :
                /\ \/ req'[t] = req[t]
                   \/ req'[t].key \in Messages => req'[t].key = req'[t].msg
                /\ pc'[t] = "lookup" =>
                        \/ pc[t] = "lookup" /\ req'[t] = req[t]
                        \/ req'[t].key # NoKey
    PROVE  LossInv'
  <1>1. \A i \in Ids : /\ queue'[i].msg = queue[i].msg
                       /\ queue'[i].key = queue[i].key
                       /\ queue'[i].status = "completed" =>
                            queue[i].status = "completed"
    BY RowsKept
  <1>2. KeysNameBodies'
    BY <1>1 DEF LossInv, KeysNameBodies
  <1>3. RequestsOfHeld'
    <2> SUFFICES ASSUME NEW d \in Drainers, pc'[d] \in EnqueuePCs
                 PROVE  req'[d] = BodyRequest(queue'[item'[d]].msg)
      BY DEF RequestsOfHeld, BodyRequest, BodyKey, BodyTTL
    <2>1. item[d] \in Ids
      BY HeldRow
    <2>2. req'[d] = BodyRequest(queue[item[d]].msg)
      BY DEF LossInv, RequestsOfHeld
    <2> QED
      BY <1>1, <2>1, <2>2
  <1>4. Settling'
    <2> SUFFICES ASSUME NEW d \in Drainers, pc'[d] = "settle",
                        result'[d] \in {"ok", "accepted"}
                 PROVE  LET m == queue'[item'[d]].msg IN
                        /\ result'[d] = "ok" => m \in confirmed'
                        /\ result'[d] = "accepted" => m \in acked' \cup confirmed'
                        /\ result'[d] = "accepted" /\ queue'[item'[d]].key = m =>
                                m \in confirmed' \cup selfHit'
      BY DEF Settling, Accepted
    <2>1. item[d] \in Ids /\ item'[d] = item[d]
      BY HeldRow
    <2>2. /\ queue'[item'[d]].msg = queue[item[d]].msg
          /\ queue'[item'[d]].key = queue[item[d]].key
      BY <1>1, <2>1
    <2> QED
      BY <2>2 DEF LossInv, Settling, Accepted
  <1>5. ASSUME NEW m \in acked' PROVE Safe(m)'
    <2>1. CASE m \in confirmed' \cup selfHit'
      BY <2>1 DEF Safe
    <2>2. CASE m \notin confirmed' \cup selfHit'
      <3>1. PICK i \in Ids : /\ queue[i].msg = m /\ queue[i].status # "completed"
                             /\ ~Parked(i)
        BY <1>5, <2>2 DEF LossInv, Safe
      <3>2. ~Parked(i)'
        BY <2>2, <3>1 DEF Parked, Accepted
      <3> QED
        BY <1>1, <3>1, <3>2 DEF Safe
    <2> QED
      BY <2>1, <2>2
  <1> QED
    BY <1>2, <1>3, <1>4, <1>5 DEF LossInv

\* What MarkQueueItemCompleted does, as far as other steps differ from it.
LEMMA CompletedStep ==
    ASSUME Inv, NEW d \in Drainers, MarkQueueItemCompleted(d)
    PROVE  /\ pc[d] = "settle" /\ result[d] \in {"ok", "accepted"}
           /\ item[d] # 0 /\ item'[d] = 0 /\ queue' # queue
  <1>1. item[d] \in Ids /\ queue[item[d]].status = "dispatched"
    BY HeldRow DEF MarkQueueItemCompleted
  <1>2. queue[item[d]] \in Rows /\ item[d] # 0
    BY <1>1, RowTypes DEF Inv
  <1>3. Completed(queue[item[d]], result[d]).status = "completed"
    <2>1. Edited(Completed(queue[item[d]], result[d]), queue[item[d]],
                 "completed", queue[item[d]].attempts, queue[item[d]].burned)
      BY <1>2, Edits
    <2> QED
      BY <2>1 DEF Edited
  <1>4. queue'[item[d]].status = "completed"
    BY <1>1, <1>3, RowUpdate DEF MarkQueueItemCompleted, Inv, TypeOK, Ids
  <1> QED
    BY <1>1, <1>2, <1>4 DEF MarkQueueItemCompleted, NextIteration, Inv, TypeOK

LEMMA LossEnqueueQuiet ==
    ASSUME Inv, LossInv, Inv', NEW t \in Threads,
           Supersede(t) \/ InsertConflict(t) \/ InsertFails(t) \/
               (Lookup(t) /\ ReturnsError(t))
    PROVE  LossInv'
  <1> USE QueueConstants DEF Inv
  <1>1. Next
    BY DEF Next, Enqueue
  <1>2. UNCHANGED <<item, acked, confirmed, selfHit>>
    BY DEF Supersede, InsertConflict, InsertFails, Lookup, ReturnsError,
       EnqueuesAgain, GivesUp, ghosts
  <1>3. \A d \in Drainers : ~MarkQueueItemCompleted(d)
    BY <1>2, CompletedStep DEF Inv
  <1>4. Ids' = Ids
    <2>1. CASE Supersede(t)
      <3>1. \A i \in Ids : queue[i] \in Rows /\ Dropped(queue[i]) \in Rows
        BY RowTypes, Edits DEF Edited
      <3>2. CASE queue' = queue
        BY <3>2 DEF Ids
      <3>3. CASE queue' # queue
        <4>1. /\ queue' = [i \in 1 .. Len(queue) |-> queue'[i]]
              /\ \A i \in 1 .. Len(queue) : queue'[i] \in Rows
          BY <2>1, <3>1, <3>3 DEF Supersede, Ids
        <4> QED
          BY <4>1, RowMap DEF Ids, TypeOK
      <3> QED
        BY <3>2, <3>3
    <2> QED
      BY <2>1 DEF InsertConflict, InsertFails, Lookup, Ids
  <1>5. /\ pc[t] \in EnqueuePCs
        /\ \/ /\ req' = req /\ UNCHANGED result
              /\ \/ pc' = [pc EXCEPT ![t] = "insert"]
                 \/ pc' = [pc EXCEPT ![t] = "supersede"]
                 \/ /\ pc' = [pc EXCEPT ![t] = "lookup"]
                    /\ req[t].key # NoKey
           \/ /\ req' = [req EXCEPT ![t] = NoRequest]
              /\ \/ /\ t \in Drainers
                    /\ result' = [result EXCEPT ![t] = "busy_retryable"]
                    /\ pc' = [pc EXCEPT ![t] = "settle"]
                 \/ /\ t \notin Drainers /\ UNCHANGED result
                    /\ pc' = [pc EXCEPT ![t] = "idle"]
    BY DEF Supersede, InsertConflict, InsertFails, Lookup, ReturnsError,
       EnqueuesAgain, GivesUp, EnqueueStart, EnqueuePCs
  <1>6. NoRequest.key \notin Messages
    BY DEF NoRequest
  <1>7. \A d \in Drainers :
            pc'[d] = "settle" /\ result'[d] \in {"ok", "accepted"} =>
                /\ item'[d] = item[d]
                /\ \/ pc[d] = "settle" /\ result'[d] = result[d]
                   \/ pc[d] = "dispatch" /\ queue[item[d]].msg \in confirmed'
    BY <1>2, <1>5 DEF TypeOK, Threads
  <1>8. \A d \in Drainers : pc'[d] \in EnqueuePCs =>
            /\ item'[d] = item[d]
            /\ \/ pc[d] \in EnqueuePCs /\ req'[d] = req[d]
               \/ /\ pc[d] = "dispatch"
                  /\ req'[d] = BodyRequest(queue[item[d]].msg)
    BY <1>2, <1>5 DEF TypeOK, Threads, EnqueuePCs
  <1>9. \A u \in Threads :
            /\ \/ req'[u] = req[u]
               \/ req'[u].key \in Messages => req'[u].key = req'[u].msg
            /\ pc'[u] = "lookup" => \/ pc[u] = "lookup" /\ req'[u] = req[u]
                                    \/ req'[u].key # NoKey
    BY <1>5, <1>6 DEF TypeOK
  <1> QED
    BY <1>1, <1>2, <1>3, <1>4, <1>7, <1>8, <1>9, LossKept

\* EnqueueA2A hands back a row: the insert made it, or the lookup found it.
LEMMA LossReturns ==
    ASSUME Inv, LossInv, Inv', Next, NEW t \in Threads, NEW n \in Ids', NEW m,
           pc[t] \in EnqueuePCs, Returns(t, n, m),
           UNCHANGED <<item, confirmed>>,
           queue'[n].msg = m, m \in Messages, queue'[n].status \in Active,
           \A i \in Ids' \ Ids : queue'[i].key \in Messages =>
                                    queue'[i].key = queue'[i].msg,
           t \in Drainers => m = queue[item[t]].msg,
           t \in Drainers /\ queue[item[t]].key = m => n = item[t],
           n # item[t] \/ t \notin Drainers =>
                ~Parked(n) \/ m \in acked \cup confirmed,
           t \in Drainers /\ n # item[t] =>
                ~Parked(n) \/ m \in confirmed \cup selfHit
    PROVE  LossInv'
  <1> USE QueueConstants DEF Inv
  <1>1. /\ req' = [req EXCEPT ![t] = NoRequest] /\ acked' = acked \cup {m}
        /\ \/ /\ t \in Drainers /\ pc' = [pc EXCEPT ![t] = "settle"]
              /\ result' = [result EXCEPT ![t] = "accepted"]
              /\ selfHit' = IF n = item[t] THEN selfHit \cup {m} ELSE selfHit
           \/ /\ t \notin Drainers /\ pc' = [pc EXCEPT ![t] = "idle"]
              /\ UNCHANGED <<result, selfHit>>
    BY DEF Returns
  <1>2. \A d \in Drainers : ~MarkQueueItemCompleted(d)
    BY CompletedStep
  <1>3. \A i \in Ids : /\ i \in Ids' /\ queue'[i].msg = queue[i].msg
                       /\ queue'[i].key = queue[i].key
                       /\ queue'[i].status = "completed" =>
                            queue[i].status = "completed"
    BY <1>2, RowsKept
  <1>4. KeysNameBodies'
    <2>1. NoRequest.key \notin Messages
      BY DEF NoRequest
    <2>2. \A i \in Ids' : queue'[i].key \in Messages =>
                                queue'[i].key = queue'[i].msg
      BY <1>3 DEF LossInv, KeysNameBodies
    <2>3. \A u \in Threads :
            /\ req'[u].key \in Messages => req'[u].key = req'[u].msg
            /\ pc'[u] = "lookup" => req'[u].key # NoKey
      BY <1>1, <2>1 DEF LossInv, KeysNameBodies, TypeOK
    <2> QED
      BY <2>2, <2>3 DEF KeysNameBodies
  <1>5. RequestsOfHeld'
    <2> SUFFICES ASSUME NEW d \in Drainers, pc'[d] \in EnqueuePCs
                 PROVE  req'[d] = BodyRequest(queue'[item'[d]].msg)
      BY DEF RequestsOfHeld, BodyRequest, BodyKey, BodyTTL
    <2>1. d # t /\ pc[d] \in EnqueuePCs /\ req'[d] = req[d]
      BY <1>1 DEF TypeOK, Threads, EnqueuePCs
    <2>2. item[d] \in Ids
      BY <2>1, HeldRow
    <2> QED
      BY <1>3, <2>1, <2>2 DEF LossInv, RequestsOfHeld
  <1>6. Settling'
    <2> SUFFICES ASSUME NEW d \in Drainers, pc'[d] = "settle",
                        result'[d] \in {"ok", "accepted"}
                 PROVE  LET x == queue'[item'[d]].msg IN
                        /\ result'[d] = "ok" => x \in confirmed'
                        /\ result'[d] = "accepted" => x \in acked' \cup confirmed'
                        /\ result'[d] = "accepted" /\ queue'[item'[d]].key = x =>
                                x \in confirmed' \cup selfHit'
      BY DEF Settling, Accepted
    <2>1. CASE d = t
      <3>1. item[t] \in Ids
        BY <2>1, HeldRow
      <3>2. /\ queue'[item'[t]].msg = m
            /\ queue'[item'[t]].key = queue[item[t]].key
        BY <1>3, <2>1, <3>1
      <3>3. result'[t] = "accepted"
        BY <1>1, <2>1 DEF TypeOK
      <3> QED
        BY <1>1, <2>1, <3>2, <3>3
    <2>2. CASE d # t
      <3>1. pc[d] = "settle" /\ result'[d] = result[d]
        BY <1>1, <2>2 DEF TypeOK, Threads
      <3>2. item[d] \in Ids
        BY <3>1, HeldRow
      <3>3. /\ queue'[item'[d]].msg = queue[item[d]].msg
            /\ queue'[item'[d]].key = queue[item[d]].key
        BY <1>3, <3>2
      <3>4. acked \subseteq acked' /\ selfHit \subseteq selfHit'
        BY <1>1
      <3> QED
        BY <3>1, <3>3, <3>4 DEF LossInv, Settling, Accepted
    <2> QED
      BY <2>1, <2>2
  <1>7. \A i : i # item[t] \/ t \notin Drainers => (Parked(i)' => Parked(i))
    BY <1>1 DEF Parked, Accepted, TypeOK, Threads
  <1>8. ASSUME NEW x \in acked, x # m \/ t \notin Drainers
        PROVE  Safe(x)'
    <2>1. CASE x \in confirmed \cup selfHit
      BY <1>1, <2>1 DEF Safe
    <2>2. CASE x \notin confirmed \cup selfHit
      <3>1. PICK i \in Ids : /\ queue[i].msg = x /\ queue[i].status # "completed"
                             /\ ~Parked(i)
        BY <2>2 DEF LossInv, Safe
      <3>2. ~Parked(i)'
        BY <1>7, <1>8, <3>1
      <3> QED
        BY <1>3, <3>1, <3>2 DEF Safe
    <2> QED
      BY <2>1, <2>2
  <1>9. Safe(m)'
    <2>1. CASE t \in Drainers /\ n = item[t]
      BY <1>1, <2>1 DEF Safe
    <2>2. CASE t \in Drainers /\ n # item[t]
      <3>1. CASE ~Parked(n)
        BY <1>7, <2>2, <3>1 DEF Safe, Active
      <3>2. CASE m \in confirmed \cup selfHit
        BY <1>1, <3>2 DEF Safe
      <3> QED
        BY <2>2, <3>1, <3>2
    <2>3. CASE t \notin Drainers
      <3>1. CASE ~Parked(n)
        BY <1>7, <2>3, <3>1 DEF Safe, Active
      <3>2. CASE m \in acked
        BY <1>8, <2>3, <3>2
      <3>3. CASE m \in confirmed
        BY <3>3 DEF Safe
      <3> QED
        BY <2>3, <3>1, <3>2, <3>3
    <2> QED
      BY <2>1, <2>2, <2>3
  <1> QED
    BY <1>1, <1>4, <1>5, <1>6, <1>8, <1>9 DEF LossInv

LEMMA LossInsertRow ==
    ASSUME Inv, LossInv, Inv', NEW t \in Threads, InsertRow(t)
    PROVE  LossInv'
  <1> USE QueueConstants DEF Inv
  <1> DEFINE n == Len(queue) + 1
             r == NewRow(req[t])
             m == req[t].msg
  <1>1. /\ pc[t] \in EnqueuePCs /\ req[t] \in Requests
        /\ Returns(t, n, m) /\ UNCHANGED <<item, confirmed>> /\ Next
        /\ queue' = Append(queue, r) /\ queue \in Seq(Rows)
        /\ req[t].key = NoKey \/ ActiveRows(req[t].key) = {}
    BY DEF InsertRow, EnqueuePCs, TypeOK, Next, Enqueue
  <1>2. /\ r \in Rows /\ r.status = "queued" /\ r.key = req[t].key /\ r.msg = m
        /\ m \in Messages
    BY <1>1 DEF NewRow, Requests, Rows, Statuses
  <1> HIDE DEF r, m
  <1>3. queue'[n] = r /\ n \notin Ids /\ Ids' = Ids \cup {n}
    BY <1>1, <1>2, RowAppend DEF Ids
  <1> HIDE DEF n
  <1>4. ~Parked(n)
    BY <1>3, HeldRow DEF Parked, Accepted
  <1>5. r.key \in Messages => r.key = m
    BY <1>2 DEF LossInv, KeysNameBodies, m
  <1>6. t \in Drainers =>
            /\ m = queue[item[t]].msg /\ n # item[t]
            /\ queue[item[t]].key # m
    <2> SUFFICES ASSUME t \in Drainers
                 PROVE  /\ m = queue[item[t]].msg /\ n # item[t]
                        /\ queue[item[t]].key # m
      OBVIOUS
    <2>1. item[t] \in Ids /\ queue[item[t]].status = "dispatched"
      BY <1>1, HeldRow
    <2>2. req[t] = BodyRequest(queue[item[t]].msg)
      BY <1>1 DEF LossInv, RequestsOfHeld
    <2>3. m = queue[item[t]].msg /\ req[t].key = BodyKey(m)
      BY <2>2 DEF BodyRequest, m
    <2>4. ASSUME queue[item[t]].key = m PROVE FALSE
      <3>1. m \in Messages \ Unkeyed
        BY <1>2, <2>1, <2>4, RowTypes DEF Keys
      <3>2. req[t].key = m /\ m # NoKey
        BY <2>3, <3>1 DEF BodyKey
      <3> QED
        BY <1>1, <2>1, <2>4, <3>2 DEF ActiveRows, Active
    <2> QED
      BY <1>3, <2>1, <2>3, <2>4
  <1> QED
    BY <1>1, <1>2, <1>3, <1>4, <1>5, <1>6, LossReturns DEF Active

LEMMA LossLookup ==
    ASSUME Inv, LossInv, Inv', NEW t \in Threads, Lookup(t)
    PROVE  LossInv'
  <1> USE QueueConstants DEF Inv
  <1>1. CASE ReturnsError(t)
    BY <1>1, LossEnqueueQuiet
  <1>2. CASE \E i \in ActiveRows(req[t].key) : Returns(t, i, queue[i].msg)
    <2>1. PICK i \in ActiveRows(req[t].key) : Returns(t, i, queue[i].msg)
      BY <1>2
    <2> DEFINE m == queue[i].msg
    <2>2. /\ i \in Ids /\ queue[i].key = req[t].key /\ queue[i].status \in Active
          /\ m \in Messages
      BY RowTypes DEF ActiveRows
    <2>3. /\ pc[t] = "lookup" /\ pc[t] \in EnqueuePCs /\ req[t] \in Requests
          /\ UNCHANGED <<item, confirmed>> /\ queue' = queue /\ Ids' = Ids /\ Next
      BY DEF Lookup, EnqueuePCs, TypeOK, Next, Enqueue, Ids
    <2>4. Parked(i) => m \in acked \cup confirmed
      BY DEF Parked, LossInv, Settling
    <2>5. CASE t \notin Drainers
      BY <2>1, <2>2, <2>3, <2>4, <2>5, LossReturns
    <2>6. CASE t \in Drainers
      <3>1. item[t] \in Ids /\ queue[item[t]].status = "dispatched"
        BY <2>3, <2>6, HeldRow
      <3>2. /\ req[t] = BodyRequest(queue[item[t]].msg)
            /\ req[t].key # NoKey
        BY <2>3, <2>6 DEF LossInv, RequestsOfHeld, KeysNameBodies
      <3>3. req[t].key = queue[item[t]].msg /\ queue[item[t]].msg \in Messages
        BY <3>1, <3>2, RowTypes DEF BodyRequest, BodyKey
      <3>4. m = queue[item[t]].msg /\ queue[i].key = m
        BY <2>2, <3>3 DEF LossInv, KeysNameBodies
      <3>5. ASSUME queue[item[t]].key = m PROVE i = item[t]
        <4>1. m \in Keys
          BY <2>2, <3>4, RowTypes
        <4>2. item[t] \in ActiveRows(m) /\ i \in ActiveRows(m)
          BY <2>2, <3>1, <3>4, <3>5 DEF ActiveRows, Active
        <4> QED
          BY <4>1, <4>2 DEF UniqueActiveKey
      <3>6. Parked(i) => m \in confirmed \cup selfHit
        BY <3>4 DEF Parked, LossInv, Settling
      <3> QED
        BY <2>1, <2>2, <2>3, <2>4, <2>6, <3>4, <3>5, <3>6, LossReturns
    <2> QED
      BY <2>5, <2>6
  <1> QED
    BY <1>1, <1>2 DEF Lookup

LEMMA LossCompleted ==
    ASSUME Inv, LossInv, Inv', NEW e \in Drainers, MarkQueueItemCompleted(e)
    PROVE  LossInv'
  <1> USE QueueConstants DEF Inv
  <1>1. /\ pc[e] = "settle" /\ result[e] \in {"ok", "accepted"} /\ Next
        /\ UNCHANGED <<req, acked, confirmed, selfHit>>
        /\ item' = [item EXCEPT ![e] = 0]
        /\ result' = [result EXCEPT ![e] = "ok"]
        /\ pc' = [pc EXCEPT ![e] = IF left[e] > 1 THEN "claim" ELSE "idle"]
        /\ queue' = [queue EXCEPT ![item[e]] = Completed(@, result[e])]
    BY DEF MarkQueueItemCompleted, NextIteration, Next, Drain, Settle
  <1>2. item[e] \in Ids /\ Ids' = Ids
    BY <1>1, HeldRow DEF Ids, TypeOK
  <1>3. \A i \in Ids : /\ queue'[i].msg = queue[i].msg
                       /\ queue'[i].key = queue[i].key
    BY <1>1, RowsKept
  <1>4. \A i \in Ids : i # item[e] => queue'[i] = queue[i]
    BY <1>1, <1>2 DEF TypeOK, Ids
  <1>5. \A d \in Drainers : pc'[d] \in EnqueuePCs \cup {"settle"} =>
            /\ d # e /\ pc'[d] = pc[d] /\ item'[d] = item[d]
            /\ result'[d] = result[d]
    BY <1>1 DEF TypeOK, Threads, EnqueuePCs
  <1>6. KeysNameBodies'
    BY <1>1, <1>2, <1>3 DEF LossInv, KeysNameBodies, TypeOK, Threads
  <1>7. RequestsOfHeld'
    <2> SUFFICES ASSUME NEW d \in Drainers, pc'[d] \in EnqueuePCs
                 PROVE  req'[d] = BodyRequest(queue'[item'[d]].msg)
      BY DEF RequestsOfHeld, BodyRequest, BodyKey, BodyTTL
    <2>1. item[d] \in Ids
      BY <1>5, HeldRow
    <2> QED
      BY <1>1, <1>3, <1>5, <2>1 DEF LossInv, RequestsOfHeld
  <1>8. Settling'
    <2> SUFFICES ASSUME NEW d \in Drainers, pc'[d] = "settle"
                 PROVE  LET x == queue'[item'[d]].msg IN
                        /\ result'[d] = "ok" => x \in confirmed'
                        /\ result'[d] = "accepted" => x \in acked' \cup confirmed'
                        /\ result'[d] = "accepted" /\ queue'[item'[d]].key = x =>
                                x \in confirmed' \cup selfHit'
      BY DEF Settling, Accepted
    <2>1. item[d] \in Ids
      BY <1>5, HeldRow
    <2> QED
      BY <1>1, <1>3, <1>5, <2>1 DEF LossInv, Settling, Accepted
  <1>9. \A i : Parked(i)' => Parked(i)
    BY <1>5 DEF Parked, Accepted
  <1>10. ASSUME NEW m \in acked' PROVE Safe(m)'
    <2>1. CASE m \in confirmed \cup selfHit
      BY <1>1, <2>1 DEF Safe
    <2>2. CASE m \notin confirmed \cup selfHit
      <3>1. PICK i \in Ids : /\ queue[i].msg = m /\ queue[i].status # "completed"
                             /\ ~Parked(i)
        BY <1>1, <1>10, <2>2 DEF LossInv, Safe
      <3>2. i # item[e]
        <4>1. CASE result[e] = "accepted"
          BY <1>1, <3>1, <4>1 DEF Parked, Accepted
        <4>2. CASE result[e] = "ok"
          BY <1>1, <2>2, <3>1, <4>2 DEF LossInv, Settling
        <4> QED
          BY <1>1, <4>1, <4>2
      <3> QED
        BY <1>2, <1>4, <1>9, <3>1, <3>2 DEF Safe
    <2> QED
      BY <2>1, <2>2
  <1> QED
    BY <1>6, <1>7, <1>8, <1>10 DEF LossInv

\* Steps of callers, of the table alone, and the crash.
LEMMA LossOutside ==
    ASSUME Inv, LossInv, Inv',
           \/ \E c \in Callers, m \in Messages : ProxyBusy(c, m) \/ ScheduleTick(c, m)
           \/ DropStaleQueueItems
           \/ \E i \in Ids : Expire(i) \/ BackoffElapses(i)
           \/ WorkspaceFlips
           \/ Crash
    PROVE  LossInv'
  <1> USE QueueConstants DEF Inv
  <1>1. Next /\ UNCHANGED <<acked, confirmed, selfHit>>
    BY DEF Next, ProxyBusy, ScheduleTick, DropStaleQueueItems, Expire,
       BackoffElapses, WorkspaceFlips, Crash, ghosts
  <1>2. CASE \E c \in Callers, m \in Messages :
                    ProxyBusy(c, m) \/ ScheduleTick(c, m)
    <2>1. PICK c \in Callers, m \in Messages :
                    ProxyBusy(c, m) \/ ScheduleTick(c, m)
      BY <1>2
    <2>2. /\ UNCHANGED <<queue, item, result>> /\ Ids' = Ids
          /\ \E s \in {"insert", "supersede"} : pc' = [pc EXCEPT ![c] = s]
      BY <2>1 DEF ProxyBusy, ScheduleTick, Ids, EnqueueStart
    <2>3. PICK r : /\ req' = [req EXCEPT ![c] = r]
                   /\ r.key \in Messages => r.key = r.msg
      <3>1. CASE ProxyBusy(c, m)
        <4>1. BodyRequest(m).key \in Messages =>
                    BodyRequest(m).key = BodyRequest(m).msg
          BY DEF BodyRequest, BodyKey
        <4> QED
          BY <3>1, <4>1 DEF ProxyBusy
      <3>2. CASE ScheduleTick(c, m)
        <4>1. TickOf[m] \notin Messages
          BY <3>2 DEF ScheduleTick
        <4> DEFINE r == [msg |-> m, key |-> TickOf[m], ttl |-> "live"]
        <4>2. req' = [req EXCEPT ![c] = r] /\ r.key \notin Messages
          BY <3>2, <4>1 DEF ScheduleTick
        <4> QED
          BY <4>2
      <3> QED
        BY <2>1, <3>1, <3>2
    <2>4. c \notin Drainers /\ c \in Threads
      BY DEF Threads
    <2>5. \A d \in Drainers : pc'[d] = pc[d] /\ req'[d] = req[d]
      BY <2>2, <2>3, <2>4 DEF TypeOK, Threads
    <2>6. \A d \in Drainers : ~MarkQueueItemCompleted(d)
      BY <2>2, CompletedStep
    <2>7. \A t \in Threads :
            /\ \/ req'[t] = req[t]
               \/ req'[t].key \in Messages => req'[t].key = req'[t].msg
            /\ pc'[t] = "lookup" => pc[t] = "lookup" /\ req'[t] = req[t]
      BY <2>2, <2>3 DEF TypeOK
    <2> QED
      BY <1>1, <2>2, <2>5, <2>6, <2>7, LossKept
  <1>3. CASE Crash
    <2>1. /\ queue' = queue /\ Ids' = Ids
          /\ \A t \in Threads : pc'[t] = "idle" /\ req'[t] = NoRequest
      BY <1>3 DEF Crash, Ids
    <2>2. \A d \in Drainers : ~MarkQueueItemCompleted(d)
      BY <2>1, CompletedStep
    <2>3. \A d \in Drainers : pc'[d] = "idle"
      BY <2>1 DEF Threads
    <2>4. NoRequest.key \notin Messages
      BY DEF NoRequest
    <2> QED
      BY <1>1, <2>1, <2>2, <2>3, <2>4, LossKept DEF EnqueuePCs
  <1>4. CASE \/ DropStaleQueueItems
             \/ \E i \in Ids : Expire(i) \/ BackoffElapses(i)
             \/ WorkspaceFlips
    <2>1. UNCHANGED <<pc, req, item, result>>
      BY <1>4 DEF DropStaleQueueItems, Expire, BackoffElapses, WorkspaceFlips
    <2>2. \A d \in Drainers : ~MarkQueueItemCompleted(d)
      BY <2>1, CompletedStep
    <2>3. Ids' = Ids
      <3>1. CASE DropStaleQueueItems
        <4>1. \A i \in Ids : queue[i] \in Rows /\ Dropped(queue[i]) \in Rows
          BY RowTypes, Edits DEF Edited
        <4>2. /\ queue' = [i \in 1 .. Len(queue) |-> queue'[i]]
              /\ \A i \in 1 .. Len(queue) : queue'[i] \in Rows
          BY <3>1, <4>1 DEF DropStaleQueueItems, Ids
        <4> QED
          BY <4>2, RowMap DEF Ids, TypeOK
      <3>2. CASE WorkspaceFlips
        BY <3>2 DEF WorkspaceFlips, Ids
      <3>3. CASE \E i \in Ids : Expire(i) \/ BackoffElapses(i)
        <4>1. PICK i, r : queue' = [queue EXCEPT ![i] = r]
          BY <3>3 DEF Expire, BackoffElapses
        <4> QED
          BY <4>1 DEF Ids, TypeOK
      <3> QED
        BY <1>4, <3>1, <3>2, <3>3
    <2> QED
      BY <1>1, <2>1, <2>2, <2>3, LossKept
  <1> QED
    BY <1>2, <1>3, <1>4

\* Steps of a drainer other than completing its row.
LEMMA LossDrain ==
    ASSUME Inv, LossInv, Inv', NEW e \in Drainers,
           \/ Sweep /\ e = Sweeper
           \/ HeartbeatDrain(e)
           \/ Drain(e) /\ ~MarkQueueItemCompleted(e)
    PROVE  LossInv'
  <1> USE QueueConstants DEF Inv
  <1>1. /\ Next /\ UNCHANGED <<acked, selfHit>> /\ confirmed \subseteq confirmed'
        /\ e \in Threads
    BY DEF Next, Sweep, HeartbeatDrain, StartDrain, Drain, DequeueNext,
       DequeueNothing, EndsDrain, Dispatch, DispatchAnswered, DispatchBusy,
       DispatchFails, Settle, MarkQueueItemTransientRetry,
       MarkQueueItemFailed, MarkFails, ghosts, Threads
  <1>2. \A d \in Drainers \ {e} :
            /\ pc'[d] = pc[d] /\ item'[d] = item[d]
            /\ result'[d] = result[d] /\ req'[d] = req[d]
    BY DEF Sweep, HeartbeatDrain, StartDrain, Drain, DequeueNext,
       DequeueNothing, EndsDrain, Dispatch, DispatchAnswered, DispatchBusy,
       DispatchFails, Settle, MarkQueueItemTransientRetry,
       MarkQueueItemFailed, MarkFails, NextIteration, TypeOK, Threads
  <1>3. \A d \in Drainers : ~MarkQueueItemCompleted(d)
    <2>1. ~MarkQueueItemCompleted(e)
      <3>1. StartDrain(e) => pc[e] = "idle"
        BY DEF StartDrain
      <3> QED
        BY <3>1, CompletedStep DEF Sweep, HeartbeatDrain
    <2> QED
      BY <1>2, <2>1, CompletedStep
  <1>4. Ids' = Ids
    <2>1. \/ queue' = queue
          \/ \E i, r : queue' = [queue EXCEPT ![i] = r]
      BY DEF Sweep, HeartbeatDrain, StartDrain, Drain, DequeueNext,
         DequeueNothing, EndsDrain, Dispatch, DispatchAnswered, DispatchBusy,
         DispatchFails, Settle, MarkQueueItemTransientRetry,
         MarkQueueItemFailed, MarkFails
    <2> QED
      BY <2>1 DEF Ids, TypeOK
  <1>5. pc'[e] = "settle" /\ result'[e] \in {"ok", "accepted"} =>
            /\ item'[e] = item[e] /\ pc[e] = "dispatch"
            /\ queue[item[e]].msg \in confirmed'
    BY <1>1, <1>3 DEF Sweep, HeartbeatDrain, StartDrain, Drain, DequeueNext,
       DequeueNothing, EndsDrain, Dispatch, DispatchAnswered, DispatchBusy,
       DispatchFails, Settle, MarkQueueItemTransientRetry, EnqueueStart,
       MarkQueueItemFailed, MarkFails, NextIteration, TypeOK
  <1>6. /\ pc'[e] \in EnqueuePCs =>
            /\ item'[e] = item[e] /\ pc[e] = "dispatch"
            /\ req'[e] = BodyRequest(queue[item[e]].msg)
        /\ pc'[e] # "lookup"
    BY <1>1, <1>3 DEF Sweep, HeartbeatDrain, StartDrain, Drain, DequeueNext,
       DequeueNothing, EndsDrain, Dispatch, DispatchAnswered, DispatchBusy,
       DispatchFails, Settle, MarkQueueItemTransientRetry, EnqueueStart,
       MarkQueueItemFailed, MarkFails, NextIteration, TypeOK, EnqueuePCs
  <1>7. \A t \in Threads :
            /\ \/ req'[t] = req[t]
               \/ req'[t].key \in Messages => req'[t].key = req'[t].msg
            /\ pc'[t] = "lookup" => pc[t] = "lookup" /\ req'[t] = req[t]
    <2>1. \A t \in Threads \ {e} : pc'[t] = pc[t] /\ req'[t] = req[t]
      BY <1>3 DEF Sweep, HeartbeatDrain, StartDrain, Drain, DequeueNext,
         DequeueNothing, EndsDrain, Dispatch, DispatchAnswered, DispatchBusy,
         DispatchFails, Settle, MarkQueueItemTransientRetry,
         MarkQueueItemFailed, MarkFails, NextIteration, TypeOK
    <2>2. req'[e] = req[e] \/ req'[e] = BodyRequest(queue[item[e]].msg)
      BY <1>1, <1>3 DEF Sweep, HeartbeatDrain, StartDrain, Drain, DequeueNext,
         DequeueNothing, EndsDrain, Dispatch, DispatchAnswered, DispatchBusy,
         DispatchFails, Settle, MarkQueueItemTransientRetry,
         MarkQueueItemFailed, MarkFails, TypeOK
    <2>3. \A m : BodyRequest(m).key \in Messages =>
                    BodyRequest(m).key = BodyRequest(m).msg
      BY DEF BodyRequest, BodyKey
    <2> QED
      BY <1>6, <2>1, <2>2, <2>3
  <1> QED
    BY <1>1, <1>2, <1>3, <1>4, <1>5, <1>6, <1>7, LossKept DEF EnqueuePCs

LEMMA LossInductive ==
    ASSUME Inv, LossInv, Inv', [Next]_vars
    PROVE  LossInv'
  <1>1. ASSUME NEW t \in Threads, Enqueue(t) PROVE LossInv'
    BY <1>1, LossEnqueueQuiet, LossInsertRow, LossLookup DEF Enqueue
  <1>2. ASSUME NEW e \in Drainers, HeartbeatDrain(e) \/ Drain(e)
        PROVE  LossInv'
    BY <1>2, LossDrain, LossCompleted
  <1>3. CASE Sweep
    BY <1>3, LossDrain, QueueConstants
  <1>4. CASE UNCHANGED vars
    BY <1>4 DEF vars, LossInv, KeysNameBodies, RequestsOfHeld, Settling, Safe,
       Parked, Accepted, Ids
  <1> QED
    BY <1>1, <1>2, <1>3, <1>4, LossOutside DEF Next

\* Every message a caller was promised is answered, or still has a pending,
\* failed or dropped row, unless a drain's re-enqueue found its own row
\* (EnqueueA2A, DrainQueueForWorkspace).
THEOREM PromisesAccounted == Spec => []AckedAccounted
  <1>1. Init => LossInv
    BY QueueConstants DEF Init, LossInv, KeysNameBodies, RequestsOfHeld,
       Settling, Accepted, EnqueuePCs, Ids, NoRequest, Threads
  <1>2. Inv /\ Inv' /\ LossInv /\ [Next]_vars => LossInv'
    BY LossInductive
  <1>3. LossInv => AckedAccounted
    BY DEF LossInv, Safe, AckedAccounted, Accounted
  <1> QED
    BY <1>1, <1>2, <1>3, Invariance, PTL DEF Spec

-----------------------------------------------------------------------------
(* The queue implements LeaseQueue.  The invariant says that a drainer's   *)
(* row is 'dispatched' and that attempts counts the charges, which is what *)
(* the steps that end a lease need.                                        *)


Jobs == [i \in Ids |-> JobOf(queue[i])]

\* A step that leaves the jobs and the leases alone.
LEMMA Stutters ==
    ASSUME Jobs' = Jobs, item' = item
    PROVE  UNCHANGED Lease!lvars
  BY DEF Lease!lvars, Jobs

\* An UPDATE of one row changes one job.
LEMMA OneJob ==
    ASSUME Inv, NEW i \in Ids, NEW r, queue' = [queue EXCEPT ![i] = r]
    PROVE  /\ Ids' = Ids
           /\ Jobs' = [Jobs EXCEPT ![i] = JobOf(r)]
           /\ Jobs[i] = JobOf(queue[i])
  <1>1. queue \in Seq(Rows) /\ i \in 1 .. Len(queue)
    BY DEF Inv, TypeOK, Ids
  <1>2. Len(queue') = Len(queue) /\ DOMAIN queue = 1 .. Len(queue)
    BY <1>1
  <1>3. Ids' = Ids
    BY <1>2 DEF Ids
  <1>4. \A j \in Ids : queue'[j] = IF j = i THEN r ELSE queue[j]
    BY <1>1 DEF Ids
  <1>5. Jobs' = [j \in Ids |-> JobOf(queue'[j])]
    BY <1>3 DEF Jobs
  <1>6. [Jobs EXCEPT ![i] = JobOf(r)] = [j \in Ids |-> IF j = i THEN JobOf(r) ELSE JobOf(queue[j])]
    BY DEF Jobs
  <1>7. \A j \in Ids : JobOf(queue'[j]) = IF j = i THEN JobOf(r) ELSE JobOf(queue[j])
    BY <1>4
  <1> QED
    BY <1>3, <1>5, <1>6, <1>7 DEF Jobs

\* The states of jobs, status by status.
LEMMA States ==
    /\ StateOf("queued") = "waiting" /\ StateOf("dispatched") = "leased"
    /\ StateOf("completed") = "done" /\ StateOf("failed") = "spent"
    /\ StateOf("dropped") = "withdrawn"
  BY DEF StateOf

\* Job j in state u, and job j charged once more and in state u.
In(j, u) == [j EXCEPT !.state = u]
ChargedIn(j, u) == [j EXCEPT !.charges = @ + 1, !.state = u]

\* The job of an edited row.
LEMMA EditedJob ==
    ASSUME NEW r, NEW o, NEW s, NEW a, Edited(r, o, s, a, o.burned)
    PROVE  JobOf(r) = In(JobOf(o), StateOf(s))
  <1>1. r.msg = o.msg /\ r.status = s /\ r.burned = o.burned
    BY DEF Edited
  <1>2. JobOf(r) = [body |-> o.msg, state |-> StateOf(s), charges |-> o.burned]
    BY <1>1 DEF JobOf
  <1> QED
    BY <1>2 DEF JobOf, In

\* The job of a row that was charged once more.
LEMMA ChargedJob ==
    ASSUME NEW r, NEW o, NEW s, NEW a, Edited(r, o, s, a, o.burned + 1)
    PROVE  JobOf(r) = ChargedIn(JobOf(o), StateOf(s))
  <1>1. r.msg = o.msg /\ r.status = s /\ r.burned = o.burned + 1
    BY DEF Edited
  <1>2. JobOf(r) = [body |-> o.msg, state |-> StateOf(s), charges |-> o.burned + 1]
    BY <1>1 DEF JobOf
  <1> DEFINE j == [body |-> o.msg, state |-> StateOf(o.status), charges |-> o.burned]
  <1>3. [j EXCEPT !.charges = @ + 1] =
            [body |-> o.msg, state |-> StateOf(o.status), charges |-> o.burned + 1]
    OBVIOUS
  <1>4. [[body |-> o.msg, state |-> StateOf(o.status), charges |-> o.burned + 1]
            EXCEPT !.state = StateOf(s)]
        = [body |-> o.msg, state |-> StateOf(s), charges |-> o.burned + 1]
    OBVIOUS
  <1>5. JobOf(o) = j
    BY DEF JobOf
  <1> QED
    BY <1>2, <1>3, <1>4, <1>5 DEF ChargedIn

\* INSERT: a job is submitted.
LEMMA InsertSubmits ==
    ASSUME Inv, NEW t \in Threads, InsertRow(t)
    PROVE  \E b \in Messages : Lease!Submit(b)
  <1>1. queue \in Seq(Rows) /\ req[t] \in Requests
    BY DEF Inv, TypeOK, InsertRow, EnqueuePCs
  <1>2. queue' = Append(queue, NewRow(req[t])) /\ item' = item
    BY DEF InsertRow
  <1>3. Ids' = 1 .. (Len(queue) + 1) /\ Ids = 1 .. Len(queue) /\ Len(queue) \in Nat
    BY <1>1, <1>2 DEF Ids
  <1>4. /\ \A j \in Ids : queue'[j] = queue[j]
        /\ queue'[Len(queue) + 1] = NewRow(req[t])
    BY <1>1, <1>2, <1>3
  <1>5. JobOf(NewRow(req[t])) = [body |-> req[t].msg, state |-> "waiting", charges |-> 0]
    <2>1. NewRow(req[t]).msg = req[t].msg /\ NewRow(req[t]).status = "queued" /\ NewRow(req[t]).burned = 0
      BY DEF NewRow
    <2> QED
      BY <2>1, States DEF JobOf
  <1> DEFINE J == [body |-> req[t].msg, state |-> "waiting", charges |-> 0]
  <1>6. Jobs' = [j \in 1 .. (Len(queue) + 1) |-> IF j = Len(queue) + 1 THEN J ELSE JobOf(queue[j])]
    <2>1. Jobs' = [j \in 1 .. (Len(queue) + 1) |-> JobOf(queue'[j])]
      BY <1>3 DEF Jobs
    <2>2. \A j \in 1 .. (Len(queue) + 1) :
              JobOf(queue'[j]) = IF j = Len(queue) + 1 THEN J ELSE JobOf(queue[j])
      BY <1>3, <1>4, <1>5
    <2> QED
      BY <2>1, <2>2
  <1>7. Append(Jobs, J) = [j \in 1 .. (Len(queue) + 1) |-> IF j = Len(queue) + 1 THEN J ELSE JobOf(queue[j])]
    <2> DEFINE S == [j \in 1 .. Len(queue) |-> JobOf(queue[j])]
    <2>1. Jobs = S
      BY <1>3 DEF Jobs
    <2>2. S \in Seq({JobOf(queue[j]) : j \in 1 .. Len(queue)}) /\ Len(S) = Len(queue)
      BY <1>3
    <2>3. Append(S, J) = [j \in 1 .. (Len(queue) + 1) |-> IF j = Len(queue) + 1 THEN J ELSE S[j]]
      BY <2>2, <1>3
    <2> QED
      BY <2>1, <2>3, <1>3
  <1>8. req[t].msg \in Messages
    BY <1>1 DEF Requests
  <1> QED
    BY <1>2, <1>6, <1>7, <1>8 DEF Lease!Submit, Jobs

\* DequeueNext: a waiting job is leased to the drainer, which has none.
LEMMA DequeueTakes ==
    ASSUME Inv, NEW d \in Drainers, DequeueNext(d)
    PROVE  \E i \in DOMAIN Jobs : Lease!Take(d, i)
  <1>1. PICK i \in Eligible : /\ queue' = [queue EXCEPT ![i] = Claimed(@)]
                              /\ item' = [item EXCEPT ![d] = i]
    BY DEF DequeueNext
  <1>2. i \in Ids /\ queue[i].status = "queued"
    BY DEF Eligible, Unexpired
  <1>3. queue[i] \in Rows
    BY <1>2 DEF Inv, TypeOK, Ids
  <1>4. item[d] = 0
    BY DEF DequeueNext, Inv, Control, EnqueuePCs
  <1>5. /\ Jobs' = [Jobs EXCEPT ![i] = JobOf(Claimed(queue[i]))]
        /\ Jobs[i] = JobOf(queue[i])
    BY <1>1, <1>2, OneJob
  <1>6. JobOf(Claimed(queue[i])) = [JobOf(queue[i]) EXCEPT !.state = "leased"]
    <2>1. Edited(Claimed(queue[i]), queue[i], "dispatched", queue[i].attempts + 1, queue[i].burned)
      BY <1>3, Edits
    <2>2. JobOf(Claimed(queue[i])) = In(JobOf(queue[i]), "leased")
      BY <2>1, EditedJob, States
    <2> QED
      BY <2>2 DEF In
  <1>7. JobOf(queue[i]).state = "waiting"
    BY <1>2, States DEF JobOf
  <1>8. Jobs' = [Jobs EXCEPT ![i].state = "leased"]
    BY <1>5, <1>6
  <1>9. i \in DOMAIN Jobs
    BY <1>2 DEF Jobs
  <1>10. Lease!Take(d, i)
    BY <1>1, <1>4, <1>5, <1>7, <1>8 DEF Lease!Take, Jobs
  <1> QED
    BY <1>9, <1>10

\* What the lemmas about the Mark... updates share: the drainer has a leased
\* job, and afterwards none.
LEMMA SettlesLease ==
    ASSUME Inv, NEW d \in Drainers, pc[d] = "settle",
           NEW r, queue' = [queue EXCEPT ![item[d]] = r],
           NEW back, NextIteration(d, back)
    PROVE  /\ item[d] \in Ids /\ queue[item[d]] \in Rows
           /\ queue[item[d]].status = "dispatched"
           /\ Charged(queue[item[d]])
           /\ Lease!Release(d, JobOf(r))
  <1>1. item[d] # 0 /\ item[d] \in Ids /\ queue[item[d]].status = "dispatched"
    BY DEF Inv, Control, ExclusiveClaim
  <1>2. queue[item[d]] \in Rows /\ Charged(queue[item[d]])
    BY <1>1 DEF Inv, TypeOK, Ids, CapCountsCharges
  <1>3. Jobs' = [Jobs EXCEPT ![item[d]] = JobOf(r)] /\ Jobs[item[d]] = JobOf(queue[item[d]])
    BY <1>1, OneJob
  <1>4. Jobs[item[d]].state = "leased"
    BY <1>1, <1>3, States DEF JobOf
  <1>5. item' = [item EXCEPT ![d] = 0]
    BY DEF NextIteration
  <1>6. Lease!Release(d, JobOf(r))
    BY <1>1, <1>3, <1>4, <1>5 DEF Lease!Release, Jobs
  <1> QED
    BY <1>1, <1>2, <1>6

\* The Mark... updates complete, return or charge the drainer's job.
LEMMA MarkEndsLease ==
    ASSUME Inv, NEW d \in Drainers,
           \/ MarkQueueItemCompleted(d) \/ MarkQueueItemTransientRetry(d)
           \/ MarkQueueItemFailed(d)
    PROVE  Lease!Complete(d) \/ Lease!Return(d) \/ Lease!Charge(d)
  <1> DEFINE o == queue[item[d]]
  <1>0. item[d] \in Ids => Jobs[item[d]] = JobOf(o)
    BY DEF Jobs
  <1>1. CASE MarkQueueItemCompleted(d)
    <2>1. /\ pc[d] = "settle" /\ NextIteration(d, {})
          /\ queue' = [queue EXCEPT ![item[d]] = Completed(o, result[d])]
      BY <1>1 DEF MarkQueueItemCompleted
    <2>2. o \in Rows /\ item[d] \in Ids /\ Lease!Release(d, JobOf(Completed(o, result[d])))
      BY <2>1, SettlesLease
    <2>3. JobOf(Completed(o, result[d])) = [JobOf(o) EXCEPT !.state = "done"]
      <3>1. Edited(Completed(o, result[d]), o, "completed", o.attempts, o.burned)
        BY <2>2, Edits
      <3>2. JobOf(Completed(o, result[d])) = In(JobOf(o), "done")
        BY <3>1, EditedJob, States
      <3> QED
        BY <3>2 DEF In
    <2> QED
      BY <1>0, <2>2, <2>3 DEF Lease!Complete, Jobs
  <1>2. CASE MarkQueueItemTransientRetry(d)
    <2>1. /\ pc[d] = "settle" /\ NextIteration(d, {})
          /\ queue' = [queue EXCEPT ![item[d]] = Requeued(o)]
      BY <1>2 DEF MarkQueueItemTransientRetry
    <2>2. o \in Rows /\ item[d] \in Ids /\ Lease!Release(d, JobOf(Requeued(o)))
      BY <2>1, SettlesLease
    <2>3. JobOf(Requeued(o)) = [JobOf(o) EXCEPT !.state = "waiting"]
      <3>1. Edited(Requeued(o), o, "queued", IF o.attempts > 0 THEN o.attempts - 1 ELSE 0, o.burned)
        BY <2>2, Edits
      <3>2. JobOf(Requeued(o)) = In(JobOf(o), "waiting")
        BY <3>1, EditedJob, States
      <3> QED
        BY <3>2 DEF In
    <2> QED
      BY <1>0, <2>2, <2>3 DEF Lease!Return, Jobs
  <1>3. CASE MarkQueueItemFailed(d)
    <2>1. /\ pc[d] = "settle"
          /\ NextIteration(d, IF CapReached(o) THEN {} ELSE {item[d]})
          /\ queue' = [queue EXCEPT ![item[d]] = ChargedOnce(o)]
      BY <1>3 DEF MarkQueueItemFailed
    <2>2. /\ o \in Rows /\ item[d] \in Ids /\ o.status = "dispatched" /\ Charged(o)
          /\ Lease!Release(d, JobOf(ChargedOnce(o)))
      BY <2>1, SettlesLease
    <2>3. CapReached(o) <=> o.burned + 1 = MaxAttempts
      <3>1. o.attempts \in Nat /\ o.burned \in Nat /\ MaxAttempts \in Nat
        BY <2>2, QueueConstants DEF Rows
      <3>2. o.attempts = o.burned + 1 /\ o.burned < MaxAttempts
        BY <2>2, <3>1 DEF Charged, Active
      <3> QED
        BY <3>1, <3>2 DEF CapReached
    <2>4. JobOf(ChargedOnce(o)) =
            [JobOf(o) EXCEPT !.charges = @ + 1,
                             !.state = IF JobOf(o).charges + 1 = MaxAttempts THEN "spent" ELSE "waiting"]
      <3>1. Edited(ChargedOnce(o), o, IF CapReached(o) THEN "failed" ELSE "queued",
                   o.attempts, o.burned + 1)
        BY <2>2, Edits
      <3>2. JobOf(o).charges = o.burned
        BY DEF JobOf
      <3>3. StateOf(IF CapReached(o) THEN "failed" ELSE "queued") =
                IF JobOf(o).charges + 1 = MaxAttempts THEN "spent" ELSE "waiting"
        BY <2>3, <3>2, States
      <3> QED
        <4>1. JobOf(ChargedOnce(o)) = ChargedIn(JobOf(o), StateOf(IF CapReached(o) THEN "failed" ELSE "queued"))
          BY <3>1, ChargedJob
        <4> QED
          BY <3>3, <4>1 DEF ChargedIn
    <2> QED
      BY <1>0, <2>2, <2>4 DEF Lease!Charge, Jobs
  <1> QED
    BY <1>1, <1>2, <1>3

\* Rows dropped together are waiting jobs withdrawn together.
LEMMA DropsWithdraw ==
    ASSUME Inv, NEW S \in SUBSET Ids,
           \A i \in S : queue[i].status = "queued",
           queue' = [i \in Ids |-> IF i \in S THEN Dropped(queue[i]) ELSE queue[i]],
           item' = item
    PROVE  Lease!Withdraw
  <1>1. queue \in Seq(Rows) /\ Ids = 1 .. Len(queue) /\ Len(queue) \in Nat
    BY DEF Inv, TypeOK, Ids
  <1>2. Ids' = Ids
    BY <1>1 DEF Ids
  <1>3. ASSUME NEW i \in Ids
        PROVE  JobOf(queue'[i]) = IF i \in S THEN [Jobs[i] EXCEPT !.state = "withdrawn"] ELSE Jobs[i]
    <2>1. queue[i] \in Rows /\ Jobs[i] = JobOf(queue[i])
      BY <1>1 DEF Jobs
    <2>2. Edited(Dropped(queue[i]), queue[i], "dropped", queue[i].attempts, queue[i].burned)
      BY <2>1, Edits
    <2>3. JobOf(Dropped(queue[i])) = In(JobOf(queue[i]), "withdrawn")
      BY <2>2, EditedJob, States
    <2> QED
      BY <2>1, <2>3 DEF In
  <1>4. DOMAIN Jobs = Ids
    BY DEF Jobs
  <1>5. \A i \in S : Jobs[i].state = "waiting"
    BY States DEF Jobs, JobOf
  <1>6. Jobs' = [i \in Ids |-> IF i \in S THEN [Jobs[i] EXCEPT !.state = "withdrawn"] ELSE Jobs[i]]
    BY <1>2, <1>3 DEF Jobs
  <1>7. S \in SUBSET {i \in DOMAIN Jobs : Jobs[i].state = "waiting"}
    BY <1>4, <1>5
  <1> QED
    BY <1>4, <1>6, <1>7 DEF Lease!Withdraw, Jobs

\* A row's TTL or backoff runs out: no job changes.
LEMMA TimeStutters ==
    ASSUME Inv, NEW i \in Ids, Expire(i) \/ BackoffElapses(i)
    PROVE  UNCHANGED Lease!lvars
  <1>1. queue[i] \in Rows
    BY DEF Inv, TypeOK, Ids
  <1>2. PICK r : /\ queue' = [queue EXCEPT ![i] = r]
                 /\ Edited(r, queue[i], queue[i].status, queue[i].attempts, queue[i].burned)
    BY <1>1, Edits DEF Expire, BackoffElapses
  <1>3. Jobs' = [Jobs EXCEPT ![i] = JobOf(r)] /\ Jobs[i] = JobOf(queue[i])
    BY <1>2, OneJob
  <1>4. JobOf(r) = JobOf(queue[i])
    BY <1>2 DEF Edited, JobOf
  <1>5. Jobs' = Jobs
    BY <1>3, <1>4 DEF Jobs
  <1> QED
    BY <1>5, Stutters DEF Expire, BackoffElapses

\* Every step of the queue is a step of LeaseQueue, or none.
LEMMA StepImplements ==
    ASSUME Inv, [Next]_vars
    PROVE  [Lease!Next]_(Lease!lvars)
  <1>1. ASSUME NEW t \in Threads, Enqueue(t) PROVE [Lease!Next]_(Lease!lvars)
    <2>1. CASE InsertRow(t)
      BY <2>1, InsertSubmits DEF Lease!Next
    <2>2. CASE Supersede(t)
      <3>1. CASE queue' = queue
        BY <2>2, <3>1, Stutters DEF Supersede, Jobs, Ids
      <3>2. CASE queue' # queue
        <4> DEFINE S == {i \in Ids : /\ queue[i].key = req[t].key
                                     /\ queue[i].status = "queued"
                                     /\ queue[i].ttl = "expired"}
        <4>1. /\ queue' = [i \in Ids |-> IF i \in S THEN Dropped(queue[i]) ELSE queue[i]]
              /\ item' = item
          BY <2>2, <3>2 DEF Supersede
        <4>2. S \in SUBSET Ids /\ \A i \in S : queue[i].status = "queued"
          OBVIOUS
        <4>3. Lease!Withdraw
          <5> HIDE DEF S
          <5> QED
            BY <4>1, <4>2, DropsWithdraw
        <4> QED
          BY <4>3 DEF Lease!Next
      <3> QED
        BY <3>1, <3>2
    <2>3. CASE InsertConflict(t) \/ InsertFails(t) \/ Lookup(t)
      BY <2>3, Stutters DEF InsertConflict, InsertFails, Lookup, Jobs, Ids
    <2> QED
      BY <1>1, <2>1, <2>2, <2>3 DEF Enqueue
  <1>2. ASSUME NEW d \in Drainers, StartDrain(d) \/ Drain(d)
        PROVE  [Lease!Next]_(Lease!lvars)
    <2>1. CASE DequeueNext(d)
      BY <2>1, DequeueTakes DEF Lease!Next, Jobs
    <2>2. CASE \/ MarkQueueItemCompleted(d) \/ MarkQueueItemTransientRetry(d)
               \/ MarkQueueItemFailed(d)
      BY <2>2, MarkEndsLease DEF Lease!Next
    <2>3. CASE MarkFails(d)
      <3>1. queue' = queue /\ item' = [item EXCEPT ![d] = 0]
        BY <2>3 DEF MarkFails, NextIteration
      <3>2. item' = [w \in Drainers |-> IF w \in {d} THEN 0 ELSE item[w]]
        BY <3>1 DEF Inv, TypeOK
      <3>3. Jobs' = Jobs
        BY <3>1 DEF Jobs, Ids
      <3>4. Lease!Lose
        BY <3>2, <3>3 DEF Lease!Lose, Jobs
      <3> QED
        BY <3>4 DEF Lease!Next
    <2>4. CASE StartDrain(d) \/ DequeueNothing(d) \/ Dispatch(d)
      BY <2>4, Stutters DEF StartDrain, DequeueNothing, EndsDrain, Dispatch,
         DispatchAnswered, DispatchBusy, DispatchFails, Jobs, Ids
    <2> QED
      BY <1>2, <2>1, <2>2, <2>3, <2>4 DEF Drain, Settle
  <1>3. CASE DropStaleQueueItems
    <2>1. PICK n \in Ids :
              queue' = [i \in Ids |-> IF i <= n /\ queue[i].status = "queued"
                                      THEN Dropped(queue[i]) ELSE queue[i]]
      BY <1>3 DEF DropStaleQueueItems
    <2> DEFINE S == {i \in Ids : i <= n /\ queue[i].status = "queued"}
    <2>2. /\ queue' = [i \in Ids |-> IF i \in S THEN Dropped(queue[i]) ELSE queue[i]]
          /\ item' = item
      BY <1>3, <2>1 DEF DropStaleQueueItems
    <2>3. S \in SUBSET Ids /\ \A i \in S : queue[i].status = "queued"
      OBVIOUS
    <2>4. Lease!Withdraw
      <3> HIDE DEF S
      <3> QED
        BY <2>2, <2>3, DropsWithdraw
    <2> QED
      BY <2>4 DEF Lease!Next
  <1>4. ASSUME NEW i \in Ids, Expire(i) \/ BackoffElapses(i)
        PROVE  [Lease!Next]_(Lease!lvars)
    BY <1>4, TimeStutters
  <1>5. CASE Crash
    <2>1. queue' = queue /\ item' = [w \in Drainers |-> 0]
      BY <1>5 DEF Crash
    <2>2. item' = [w \in Drainers |-> IF w \in Drainers THEN 0 ELSE item[w]]
      BY <2>1
    <2>3. Jobs' = Jobs
      BY <2>1 DEF Jobs, Ids
    <2>4. Lease!Lose
      BY <2>2, <2>3 DEF Lease!Lose, Jobs
    <2> QED
      BY <2>4 DEF Lease!Next
  <1>6. CASE \/ \E c \in Callers, m \in Messages : ProxyBusy(c, m) \/ ScheduleTick(c, m)
             \/ WorkspaceFlips \/ UNCHANGED vars
    BY <1>6, Stutters DEF ProxyBusy, ScheduleTick, WorkspaceFlips, vars, Jobs, Ids
  <1> QED
    BY <1>1, <1>2, <1>3, <1>4, <1>5, <1>6, QueueConstants DEF Next, Sweep, HeartbeatDrain

\* The queue of a2a_queue.go keeps what LeaseQueue promises, whatever the
\* messages, the drainers, the cap, the crashes and the failed updates.
THEOREM QueueImplementsLease == Spec => ImplementsLease
  <1>1. Init => Lease!Init
    BY DEF Init, Lease!Init, Ids
  <1>2. Inv /\ [Next]_vars => [Lease!Next]_(Lease!lvars)
    BY StepImplements
  <1> QED
    BY <1>1, <1>2, Invariance, PTL DEF Spec, ImplementsLease, Lease!Spec

=============================================================================

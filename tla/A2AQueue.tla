------------------------------ MODULE A2AQueue ------------------------------
(***************************************************************************)
(* The durable queue of agent-to-agent requests that met a busy target     *)
(* (workspace-server/internal/handlers/a2a_queue.go): EnqueueA2A, the      *)
(* claim transaction DequeueNext, the three Mark... updates, the admin     *)
(* drop, the drain loop and what it makes of each answer of the proxy.     *)
(*                                                                         *)
(* One target workspace: every statement of the code is scoped by          *)
(* workspace_id.  Each SQL statement (or transaction) is one step, so the  *)
(* statements of two threads interleave freely.  Rows are kept in the      *)
(* order of enqueued_at, so a row's id is its position.  Time appears as   *)
(* two events: a row's TTL runs out, a row's backoff runs out.             *)
(***************************************************************************)
EXTENDS Integers, Sequences, FiniteSets

CONSTANTS
    Messages,     \* request bodies; the messageId in a body is the message
    Unkeyed,      \* the bodies that carry no params.message.messageId
    Expiring,     \* the bodies that carry params.expires_in_seconds
    Schedules,    \* cron schedules: the scheduler enqueues under their id
    TickOf,       \* the schedule a body is a tick of, or NoKey
    NoKey,        \* the NULL idempotency_key
    Callers,      \* request handlers and scheduler ticks that enqueue
    Drainers,     \* goroutines running DrainQueueForWorkspace
    Sweeper,      \* the drainer the periodic sweeper runs
    MaxAttempts,  \* the cap of MarkQueueItemFailed (5 in the code)
    MaxCapacity,  \* largest capacity a drain is started with
    MaxRows,      \* bound: rows ever inserted
    MaxFaults     \* bound: database errors and platform crashes

Keys == (Messages \ Unkeyed) \cup Schedules
Threads == Callers \cup Drainers

ASSUME QueueConstants ==
    /\ Unkeyed \subseteq Messages
    /\ Expiring \subseteq Messages
    /\ Messages \cap Schedules = {}
    /\ NoKey \notin Messages \cup Schedules
    /\ TickOf \in [Messages -> Schedules \cup {NoKey}]
    /\ \A m \in Messages : TickOf[m] # NoKey => m \notin Unkeyed \cup Expiring
    /\ Callers \cap Drainers = {}
    /\ Sweeper \in Drainers
    /\ MaxAttempts \in Nat \ {0}
    /\ MaxCapacity \in Nat \ {0}
    /\ MaxRows \in Nat
    /\ MaxFaults \in Nat

VARIABLES
    queue,      \* the table a2a_queue
    online,     \* workspaces.status of the target is online or degraded
    pc,         \* where each thread stands
    req,        \* arguments of the EnqueueA2A call a thread is in
    item,       \* the row a drainer holds (0: none)
    left,       \* iterations a drainer has left
    result,     \* what the proxy answered a drainer
    ticked,     \* cron ticks fired so far: each has a fresh messageId
    faults,     \* database errors and crashes so far
    \* history, read by properties only
    acked,      \* messages whose queue row was promised to some caller
    confirmed,  \* messages the agent answered with a 2xx
    orphans,    \* rows left 'dispatched' by a crash or a failed UPDATE
    selfHit,    \* messages whose re-enqueue found the very row being drained
    putBack     \* rows each drainer's current pass returned by MarkFailed

vars == <<queue, online, pc, req, item, left, result, ticked, faults,
          acked, confirmed, orphans, selfHit, putBack>>
ghosts == <<acked, confirmed, orphans, selfHit, putBack>>

Statuses == {"queued", "dispatched", "completed", "dropped", "failed"}
Active   == {"queued", "dispatched"}

\* `burned` counts the failures charged against the cap; it is history.
Rows == [msg : Messages, key : Keys \cup {NoKey}, status : Statuses,
         attempts : Nat, wait : {"none", "backoff"}, ttl : {"none", "live", "expired"},
         reply : {"none", "stored"}, burned : Nat]

Requests == [msg : Messages, key : Keys \cup {NoKey}, ttl : {"none", "live"}]
NoRequest == [msg |-> NoKey, key |-> NoKey, ttl |-> "none"]

\* What proxyA2ARequest can hand back to a drain.
Results == {"ok", "accepted", "delivered", "gateway", "busy_retryable",
            "upstream_dead", "refused"}

EnqueuePCs == {"supersede", "insert", "lookup"}
DrainPCs   == {"claim", "dispatch", "settle"}

TypeOK ==
    /\ queue \in Seq(Rows)
    /\ online \in {"yes", "no"}
    /\ pc \in [Threads -> {"idle"} \cup EnqueuePCs \cup DrainPCs]
    /\ req \in [Threads -> Requests \cup {NoRequest}]
    /\ \A t \in Threads : pc[t] \in EnqueuePCs => req[t] \in Requests
    /\ item \in [Drainers -> Nat]
    /\ left \in [Drainers -> Nat]
    /\ result \in [Drainers -> Results]
    /\ ticked \subseteq Messages
    /\ faults \in Nat
    /\ acked \subseteq Messages
    /\ confirmed \subseteq Messages
    /\ orphans \subseteq Nat
    /\ selfHit \subseteq Messages
    /\ putBack \in [Drainers -> SUBSET Nat]

Ids == 1 .. Len(queue)

Init ==
    /\ queue = << >>
    /\ online = "yes"
    /\ pc = [t \in Threads |-> "idle"]
    /\ req = [t \in Threads |-> NoRequest]
    /\ item = [d \in Drainers |-> 0]
    /\ left = [d \in Drainers |-> 0]
    /\ result = [d \in Drainers |-> "ok"]
    /\ ticked = {}
    /\ faults = 0
    /\ acked = {} /\ confirmed = {} /\ orphans = {} /\ selfHit = {}
    /\ putBack = [d \in Drainers |-> {}]

-----------------------------------------------------------------------------
(* EnqueueA2A: three statements, run by a caller or by a drainer.          *)

\* extractIdempotencyKey and extractExpiresInSeconds of a body.
BodyKey(m) == IF m \in Unkeyed THEN NoKey ELSE m
BodyTTL(m) == IF m \in Expiring THEN "live" ELSE "none"
BodyRequest(m) == [msg |-> m, key |-> BodyKey(m), ttl |-> BodyTTL(m)]

NewRow(r) == [msg |-> r.msg, key |-> r.key, status |-> "queued",
              attempts |-> 0, wait |-> "none", ttl |-> r.ttl,
              reply |-> "none", burned |-> 0]

\* What each UPDATE does to a row: the claim of DequeueNext, the three Mark...
\* updates, and the drops of EnqueueA2A and DropStaleQueueItems.
Claimed(r)   == [r EXCEPT !.status = "dispatched", !.attempts = @ + 1]
Completed(r, res) ==
    [r EXCEPT !.status = "completed",
              !.reply = IF res = "ok" THEN "stored" ELSE "none"]
\* Faulty variants of the updates, for the sensitivity checks of the README:
\* a retry that keeps the claim's increment, one that leaves the row claimed.
RequeuedCharged(r) == [r EXCEPT !.status = "queued", !.wait = "backoff"]
RequeuedStranded(r) == [r EXCEPT !.attempts = IF @ > 0 THEN @ - 1 ELSE 0,
                                 !.wait = "backoff"]
Requeued(r)  == [r EXCEPT !.status = "queued",
                          !.attempts = IF @ > 0 THEN @ - 1 ELSE 0,
                          !.wait = "backoff"]
CapReached(r) == r.attempts >= MaxAttempts
ChargedOnce(r) ==
    [r EXCEPT !.status = IF CapReached(r) THEN "failed" ELSE "queued",
              !.burned = @ + 1]
Dropped(r)   == [r EXCEPT !.status = "dropped"]

\* Rows the partial unique index (workspace_id, idempotency_key) guards.
ActiveRows(k) == {i \in Ids : queue[i].key = k /\ queue[i].status \in Active}

\* Room for one more row: the bound MaxRows, claimed when an enqueue starts.
Room == Len(queue) + Cardinality({t \in Threads : pc[t] \in EnqueuePCs})
            < MaxRows

\* The first statement is skipped when there is no idempotency key.
EnqueueStart(r) == IF r.key = NoKey THEN "insert" ELSE "supersede"

\* A cron tick is sent once; any other request may be repeated by its client.
Send(m) == /\ m \notin ticked
           /\ ticked' = IF TickOf[m] = NoKey THEN ticked ELSE ticked \cup {m}

\* handleA2ADispatchError on a live request: the target is busy.
ProxyBusy(c, m) ==
    /\ pc[c] = "idle" /\ Room /\ Send(m)
    /\ pc' = [pc EXCEPT ![c] = EnqueueStart(BodyRequest(m))]
    /\ req' = [req EXCEPT ![c] = BodyRequest(m)]
    /\ UNCHANGED <<queue, online, item, left, result, faults, ghosts>>

\* fireSchedule on a busy target: the key is the schedule's id and the row
\* expires at the next fire.
ScheduleTick(c, m) ==
    /\ TickOf[m] # NoKey
    /\ pc[c] = "idle" /\ Room /\ Send(m)
    /\ pc' = [pc EXCEPT ![c] = "supersede"]
    /\ req' = [req EXCEPT ![c] = [msg |-> m, key |-> TickOf[m],
                                 ttl |-> "live"]]
    /\ UNCHANGED <<queue, online, item, left, result, faults, ghosts>>

\* Retire this key's expired pending rows; an error is logged and ignored.
Supersede(t) ==
    /\ pc[t] = "supersede"
    /\ pc' = [pc EXCEPT ![t] = "insert"]
    /\ \/ /\ queue' = [i \in Ids |->
                IF /\ queue[i].key = req[t].key
                   /\ queue[i].status = "queued"
                   /\ queue[i].ttl = "expired"
                THEN Dropped(queue[i])
                ELSE queue[i]]
          /\ UNCHANGED faults
       \/ /\ faults < MaxFaults
          /\ faults' = faults + 1
          /\ UNCHANGED queue
    /\ UNCHANGED <<online, req, item, left, result, ticked, ghosts>>

\* EnqueueA2A hands row i, holding message m, back to thread t.  A caller
\* answers 202; a drainer's proxy call returns 202.
Returns(t, i, m) ==
    /\ req' = [req EXCEPT ![t] = NoRequest]
    /\ acked' = acked \cup {m}
    /\ IF t \in Drainers
       THEN /\ pc' = [pc EXCEPT ![t] = "settle"]
            /\ result' = [result EXCEPT ![t] = "accepted"]
            /\ selfHit' = IF i = item[t] THEN selfHit \cup {m} ELSE selfHit
       ELSE /\ pc' = [pc EXCEPT ![t] = "idle"]
            /\ UNCHANGED <<result, selfHit>>

\* EnqueueA2A returns an error.  A caller answers 503, a drainer's proxy call
\* fails as busy_retryable; but when the failed call was enqueueBusyA2A's,
\* handleA2ADispatchError's busy branch enqueues the same body once more (the
\* model does not count how often).
EnqueuesAgain(t) ==
    /\ req[t] = BodyRequest(req[t].msg)
    /\ pc' = [pc EXCEPT ![t] = EnqueueStart(req[t])]
    /\ UNCHANGED <<req, result>>

GivesUp(t) ==
    /\ req' = [req EXCEPT ![t] = NoRequest]
    /\ IF t \in Drainers
       THEN /\ pc' = [pc EXCEPT ![t] = "settle"]
            /\ result' = [result EXCEPT ![t] = "busy_retryable"]
       ELSE pc' = [pc EXCEPT ![t] = "idle"] /\ UNCHANGED result

ReturnsError(t) == (EnqueuesAgain(t) \/ GivesUp(t)) /\ UNCHANGED <<acked, selfHit>>

\* INSERT ... ON CONFLICT DO NOTHING RETURNING id.
InsertRow(t) ==
    /\ pc[t] = "insert"
    /\ req[t].key = NoKey \/ ActiveRows(req[t].key) = {}
    /\ queue' = Append(queue, NewRow(req[t]))
    /\ Returns(t, Len(queue) + 1, req[t].msg)
    /\ UNCHANGED <<online, item, left, ticked, faults, confirmed, orphans, putBack>>

InsertConflict(t) ==
    /\ pc[t] = "insert"
    /\ req[t].key # NoKey /\ ActiveRows(req[t].key) # {}
    /\ pc' = [pc EXCEPT ![t] = "lookup"]
    /\ UNCHANGED <<queue, online, req, item, left, result, ticked, faults, ghosts>>

\* The INSERT, or the SELECT after a conflict, fails.
InsertFails(t) ==
    /\ pc[t] \in {"insert", "lookup"}
    /\ faults < MaxFaults
    /\ faults' = faults + 1
    /\ ReturnsError(t)
    /\ UNCHANGED <<queue, online, item, left, ticked, confirmed, orphans, putBack>>

\* The conflicting row may have been retired since: then there is no row.
Lookup(t) ==
    /\ pc[t] = "lookup"
    /\ \/ \E i \in ActiveRows(req[t].key) : Returns(t, i, queue[i].msg)
       \/ ActiveRows(req[t].key) = {} /\ ReturnsError(t)
    /\ UNCHANGED <<queue, online, item, left, ticked, faults, confirmed, orphans,
                   putBack>>

Enqueue(t) == \/ Supersede(t) \/ InsertRow(t) \/ InsertConflict(t)
              \/ InsertFails(t) \/ Lookup(t)

-----------------------------------------------------------------------------
(* DrainQueueForWorkspace: claim, dispatch through the proxy, settle.      *)

\* Faulty variant: a claim that does not skip 'dispatched' rows.
UnexpiredActive(i) == queue[i].status \in Active /\ queue[i].ttl # "expired"

Unexpired(i) == queue[i].status = "queued" /\ queue[i].ttl # "expired"
Eligible == {i \in Ids : Unexpired(i) /\ queue[i].wait = "none"}

StartDrain(d) ==
    /\ pc[d] = "idle"
    /\ pc' = [pc EXCEPT ![d] = "claim"]
    /\ \E n \in 1 .. MaxCapacity : left' = [left EXCEPT ![d] = n]
    /\ UNCHANGED <<queue, online, req, item, result, ticked, faults, ghosts>>

\* The sweeper scans for online targets with pending rows (gated ones too);
\* a tick waits for the drains of the tick before.
Sweep == /\ online = "yes"
         /\ \E i \in Ids : Unexpired(i)
         /\ StartDrain(Sweeper)

\* A heartbeat that reports spare capacity starts a drain of its own.
HeartbeatDrain(d) == d # Sweeper /\ StartDrain(d)

EndsDrain(d) ==
    /\ pc' = [pc EXCEPT ![d] = "idle"]
    /\ left' = [left EXCEPT ![d] = 0]
    /\ putBack' = [putBack EXCEPT ![d] = {}]
    /\ UNCHANGED <<queue, online, req, item, result, ticked, acked, confirmed,
                   orphans, selfHit>>

\* DequeueNext: one transaction claims the oldest eligible row.
DequeueNext(d) ==
    /\ pc[d] = "claim"
    /\ \E i \in Eligible :
        /\ \A j \in Eligible : i <= j
        /\ queue' = [queue EXCEPT ![i] = Claimed(@)]
        /\ item' = [item EXCEPT ![d] = i]
    /\ pc' = [pc EXCEPT ![d] = "dispatch"]
    /\ UNCHANGED <<online, req, left, result, ticked, faults, ghosts>>

\* Nothing eligible, or the transaction fails: the drain ends.
DequeueNothing(d) ==
    /\ pc[d] = "claim"
    /\ \/ Eligible = {} /\ UNCHANGED faults
       \/ faults < MaxFaults /\ faults' = faults + 1
    /\ EndsDrain(d)

\* proxyA2ARequest reaches the agent and it answers 2xx: the body arrives
\* ("ok"), the agent says 202 itself ("accepted"), or reading the body
\* fails after the 2xx ("delivered", reported as a 502).
DispatchAnswered(d) ==
    /\ pc[d] = "dispatch"
    /\ \E r \in {"ok", "accepted", "delivered"} :
            result' = [result EXCEPT ![d] = r]
    /\ confirmed' = confirmed \cup {queue[item[d]].msg}
    /\ pc' = [pc EXCEPT ![d] = "settle"]
    /\ UNCHANGED <<queue, online, req, item, left, ticked, faults, acked, orphans,
                   selfHit, putBack>>

\* The proxy finds the target busy or settling and enqueues the body again.
DispatchBusy(d) ==
    LET r == BodyRequest(queue[item[d]].msg) IN
    /\ pc[d] = "dispatch" /\ Room
    /\ pc' = [pc EXCEPT ![d] = EnqueueStart(r)]
    /\ req' = [req EXCEPT ![d] = r]
    /\ UNCHANGED <<queue, online, item, left, result, ticked, faults, ghosts>>

\* A dead-origin status, a confirmed dead container, any other error.
DispatchFails(d) ==
    /\ pc[d] = "dispatch"
    /\ \E r \in {"gateway", "upstream_dead", "refused"} :
            result' = [result EXCEPT ![d] = r]
    /\ pc' = [pc EXCEPT ![d] = "settle"]
    /\ UNCHANGED <<queue, online, req, item, left, ticked, faults, ghosts>>

\* Back to the loop head, or out of the loop; `back` is the row that was put
\* back, if any.
NextIteration(d, back) ==
    /\ pc' = [pc EXCEPT ![d] = IF left[d] > 1 THEN "claim" ELSE "idle"]
    /\ left' = [left EXCEPT ![d] = @ - 1]
    /\ item' = [item EXCEPT ![d] = 0]
    /\ result' = [result EXCEPT ![d] = "ok"]
    /\ putBack' = [putBack EXCEPT ![d] = IF left[d] > 1 THEN @ \cup back
                                                        ELSE {}]

\* Faulty variant: an error answer of the agent completes the row too.
MarkCompletedAlways(d) ==
    /\ pc[d] = "settle" /\ result[d] \in {"ok", "accepted", "refused"}
    /\ queue' = [queue EXCEPT ![item[d]] = Completed(@, result[d])]
    /\ NextIteration(d, {})
    /\ UNCHANGED <<online, req, ticked, faults, acked, confirmed, orphans,
                   selfHit>>

\* A 202 completes the row without a reply; a 2xx answer completes it with one.
MarkQueueItemCompleted(d) ==
    /\ pc[d] = "settle" /\ result[d] \in {"ok", "accepted"}
    /\ queue' = [queue EXCEPT ![item[d]] = Completed(@, result[d])]
    /\ NextIteration(d, {})
    /\ UNCHANGED <<online, req, ticked, faults, acked, confirmed, orphans,
                   selfHit>>

\* isGatewayOriginFailure: a dead-origin status not classified upstream_dead.
GatewayOrigin(r) == r \in {"delivered", "gateway", "busy_retryable"}

\* A gateway-origin failure of a workspace that heartbeated recently.
MarkQueueItemTransientRetry(d) ==
    /\ pc[d] = "settle" /\ GatewayOrigin(result[d])
    /\ queue' = [queue EXCEPT ![item[d]] = Requeued(@)]
    /\ NextIteration(d, {})
    /\ UNCHANGED <<online, req, ticked, faults, acked, confirmed, orphans,
                   selfHit>>

\* Every other failure, and a gateway-origin one without a recent heartbeat.
MarkQueueItemFailed(d) ==
    /\ pc[d] = "settle" /\ result[d] \notin {"ok", "accepted"}
    /\ queue' = [queue EXCEPT ![item[d]] = ChargedOnce(@)]
    /\ NextIteration(d, IF CapReached(queue[item[d]]) THEN {} ELSE {item[d]})
    /\ UNCHANGED <<online, req, ticked, faults, acked, confirmed, orphans, selfHit>>

\* The UPDATE of any Mark... fails: it is logged and the row stays as it was.
MarkFails(d) ==
    /\ pc[d] = "settle"
    /\ faults < MaxFaults
    /\ faults' = faults + 1
    /\ orphans' = orphans \cup {item[d]}
    /\ NextIteration(d, {})
    /\ UNCHANGED <<queue, online, req, ticked, acked, confirmed, selfHit>>

Dispatch(d) == DispatchAnswered(d) \/ DispatchBusy(d) \/ DispatchFails(d)
Settle(d) == \/ MarkQueueItemCompleted(d) \/ MarkQueueItemTransientRetry(d)
             \/ MarkQueueItemFailed(d) \/ MarkFails(d)
Drain(d) == DequeueNext(d) \/ DequeueNothing(d) \/ Dispatch(d) \/ Settle(d)

-----------------------------------------------------------------------------
(* The admin's drop, time, the target's status and a platform crash.       *)

\* Pending rows older than some age are dropped: a prefix of the rows.
DropStaleQueueItems ==
    /\ \E n \in Ids :
        /\ \E i \in 1 .. n : queue[i].status = "queued"
        /\ queue' = [i \in Ids |->
                IF i <= n /\ queue[i].status = "queued"
                THEN Dropped(queue[i]) ELSE queue[i]]
    /\ UNCHANGED <<online, pc, req, item, left, result, ticked, faults, ghosts>>

Expire(i) ==
    /\ queue[i].status \in Active /\ queue[i].ttl = "live"
    /\ queue' = [queue EXCEPT ![i] = [@ EXCEPT !.ttl = "expired"]]
    /\ UNCHANGED <<online, pc, req, item, left, result, ticked, faults, ghosts>>

\* next_attempt_at, transientRetryBackoffSecs after the retry, has passed.
BackoffElapses(i) ==
    /\ queue[i].status \in Active /\ queue[i].wait = "backoff"
    /\ queue' = [queue EXCEPT ![i] = [@ EXCEPT !.wait = "none"]]
    /\ UNCHANGED <<online, pc, req, item, left, result, ticked, faults, ghosts>>

WorkspaceFlips ==
    /\ online' = IF online = "yes" THEN "no" ELSE "yes"
    /\ UNCHANGED <<queue, pc, req, item, left, result, ticked, faults, ghosts>>

Held == {item[d] : d \in Drainers} \ {0}

\* The platform restarts: every goroutine is gone, the table is not.
Crash ==
    /\ faults < MaxFaults
    /\ faults' = faults + 1
    /\ orphans' = orphans \cup Held
    /\ pc' = [t \in Threads |-> "idle"]
    /\ req' = [t \in Threads |-> NoRequest]
    /\ item' = [d \in Drainers |-> 0]
    /\ left' = [d \in Drainers |-> 0]
    /\ result' = [d \in Drainers |-> "ok"]
    /\ putBack' = [d \in Drainers |-> {}]
    /\ UNCHANGED <<queue, online, ticked, acked, confirmed, selfHit>>

Next ==
    \/ \E c \in Callers, m \in Messages : ProxyBusy(c, m) \/ ScheduleTick(c, m)
    \/ \E t \in Threads : Enqueue(t)
    \/ Sweep
    \/ \E d \in Drainers : HeartbeatDrain(d) \/ Drain(d)
    \/ DropStaleQueueItems
    \/ \E i \in Ids : Expire(i) \/ BackoffElapses(i)
    \/ WorkspaceFlips
    \/ Crash

Spec == Init /\ [][Next]_vars
-----------------------------------------------------------------------------
(* Properties.                                                             *)

\* At any moment at most one queued or dispatched row carries a given
\* idempotency key, although requeueing updates (MarkQueueItemFailed and
\* MarkQueueItemTransientRetry) return rows to the active set by id alone.
UniqueActiveKey == \A k \in Keys : \A i, j \in ActiveRows(k) : i = j

\* A drainer's row is 'dispatched' until that drainer settles it, no two
\* drainers hold one row, and a 'dispatched' row nobody holds was left behind
\* by a crash or a failed UPDATE: sweeper and heartbeat drains never collide.
ExclusiveClaim ==
    /\ \A d \in Drainers : item[d] # 0 =>
        /\ item[d] \in Ids
        /\ queue[item[d]].status = "dispatched"
        /\ item[d] \notin orphans
        /\ \A e \in Drainers : item[e] = item[d] => e = d
    /\ \A i \in Ids : queue[i].status = "dispatched" => i \in Held \cup orphans

Charged(r) ==
    /\ r.attempts = r.burned + (IF r.status \in {"dispatched", "completed"}
                                THEN 1 ELSE 0)
    /\ r.status \in Active => r.burned < MaxAttempts
    /\ r.status = "failed" <=> r.burned = MaxAttempts

\* The attempt cap counts exactly the failures charged to a row: a transient
\* retry undoes the increment of its claim, a pending row is always below the
\* cap, and a row is 'failed' exactly after MaxAttempts charged failures.
CapCountsCharges == \A i \in Ids : Charged(queue[i])

Accounted(m) ==
    \/ m \in confirmed
    \/ \E i \in Ids : queue[i].msg = m /\ queue[i].status # "completed"

\* A message promised to a caller (202 queued) was answered by the agent, or
\* still has a row that is pending, failed or dropped; the one exception is a
\* drain whose busy re-enqueue found the very row it was draining.
AckedAccounted == \A m \in acked : Accounted(m) \/ m \in selfHit

\* The comment in DrainQueueForWorkspace on a 202: "the new (re-)queue row
\* already exists", so no promised message disappears.
NoAckedLoss == \A m \in acked : Accounted(m)

\* fireSchedule: "a busy agent buffers AT MOST ONE pending tick per schedule".
OnePendingTick ==
    \A s \in Schedules :
        Cardinality({i \in Ids : /\ TickOf[queue[i].msg] = s
                                 /\ queue[i].status = "queued"}) <= 1

\* A completed, failed or dropped row is never touched again, although every
\* Mark... update and both drops write by id or by key.
TerminalStays ==
    [][\A i \in Ids : queue[i].status \notin Active =>
            queue'[i] = queue[i]]_vars

\* MarkQueueItemFailed returns a row to 'queued' "so the next drain tick
\* picks it up": the pass that just failed it does not claim it again.
FailedWaitsForNextTick ==
    [][\A d \in Drainers :
            item[d] = 0 /\ item'[d] # 0 => item'[d] \notin putBack[d]]_vars

\* A 2xx whose body was cut short is "a real delivered - the work is done":
\* the row it answered does not go back to the queue to be sent again.
DeliveredNotRepeated ==
    [][\A d \in Drainers :
            pc[d] = "settle" /\ result[d] = "delivered" =>
                queue'[item[d]].status # "queued"]_vars

\* The scheduler's fairness: goroutines make progress, the sweeper's ticker
\* fires whenever it can, backoffs end, and an agent that is asked again and
\* again answers.
AnswersOk(d) == DispatchAnswered(d) /\ result'[d] = "ok"
Fairness ==
    /\ \A t \in Threads : WF_vars(Enqueue(t))
    /\ \A d \in Drainers : WF_vars(Drain(d)) /\ SF_vars(AnswersOk(d))
    /\ SF_vars(Sweep)
    /\ \A i \in 1 .. MaxRows : WF_vars(i \in Ids /\ BackoffElapses(i))

LiveSpec == Spec /\ Fairness

\* Without heartbeats the sweeper alone still empties the queue: if the
\* target keeps coming back online, every pending row without a TTL reaches a
\* final status.
QueueDrains ==
    []<>(online = "yes") =>
        \A i \in 1 .. MaxRows :
            (i \in Ids /\ queue[i].status = "queued" /\ queue[i].ttl = "none")
                ~> (i \in Ids /\ queue[i].status \notin Active)
=============================================================================

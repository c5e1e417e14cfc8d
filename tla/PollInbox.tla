------------------------------ MODULE PollInbox ------------------------------
(***************************************************************************)
(* The inbox of a poll-mode workspace: an agent without a public URL that  *)
(* asks GET /activity?since_id= for what happened since the last row it    *)
(* consumed.  Three parts of the platform meet in it:                      *)
(*   - the A2A proxy, which answers "queued" to the sender and leaves the  *)
(*     message as a row of activity_logs (a2a_proxy.go,                    *)
(*     a2a_proxy_helpers.go, activity.go);                                 *)
(*   - chat uploads, which stage a batch of files in pending_uploads and   *)
(*     announce each with a row of activity_logs, in one transaction       *)
(*     (chat_files.go, pendinguploads/storage.go);                         *)
(*   - the readers and the sweeps: the cursor feed, fetch and ack of a     *)
(*     file, the upload sweeper and the retention of activity_logs         *)
(*     (activity.go, pending_uploads.go, pendinguploads/sweeper.go,        *)
(*     cmd/server/main.go).                                                *)
(* A row is ordered by (created_at, seq).  created_at is the start of the  *)
(* transaction and seq is drawn at the insert; both are fixed before the   *)
(* row can be seen, which is what makes the cursor delicate.               *)
(***************************************************************************)
EXTENDS Integers, FiniteSets, SequencesExt

CONSTANTS
    Messages,     \* A2A messages sent to the workspace
    Keyed,        \* those that carry a messageId
    Files,        \* the files of one upload batch
    Limit,        \* rows of one page of the feed
    TTL,          \* life of a staged file (24 h)
    AckRetention, \* time an acked file is kept (1 h)
    Retention,    \* time an activity row is kept (7 days)
    Hold,         \* longest time a handler stays inside its transactions
    Horizon,      \* last time a sender starts something
    MaxTime,      \* bound on the clock
    MaxFaults     \* bound on failed statements and lost answers

ASSUME PollAssumption ==
    /\ Keyed \subseteq Messages /\ IsFiniteSet(Files) /\ Messages \cap Files = {}
    /\ Limit \in Nat \ {0}
    /\ {TTL, AckRetention, Retention, Hold, Horizon, MaxTime, MaxFaults} \subseteq Nat

VARIABLES
    now,       \* the database clock
    nextSeq,   \* the identity sequence of activity_logs
    feed,      \* committed rows of activity_logs
    sender,    \* handler of each message: where it stands and its open row
    batch,     \* handler of the upload batch
    store,     \* committed rows of pending_uploads
    cursor,    \* the agent's since_id, {} when it has none
    consumed,  \* rows the agent has been given
    excused,   \* ghost: items a page went past while they were uncommitted,
               \* or that a backlog read without cursor left beyond its limit
    agent,     \* what the agent is doing with each announced file
    faults     \* faults so far

vars == <<now, nextSeq, feed, sender, batch, store, cursor, consumed, excused, agent, faults>>

Items == Messages \cup Files
Row == [id : Items, at : 0..MaxTime, seq : Nat]
Idle == [pc |-> "new", at |-> 0, seq |-> 0]
NoAck == -1

TypeOK ==
    /\ now \in 0..MaxTime /\ nextSeq \in Nat /\ faults \in 0..MaxFaults
    /\ feed \subseteq Row /\ consumed \subseteq Row
    /\ cursor \subseteq Row /\ Cardinality(cursor) <= 1
    /\ sender \in [Messages -> [pc : {"new", "ingesting", "routing", "queueing", "queued"},
                                at : 0..MaxTime, seq : Nat]]
    /\ batch \in [pc : {"new", "staging", "logged", "done"}, at : 0..MaxTime, seq : Nat]
    /\ DOMAIN store \subseteq Files
    /\ \A f \in DOMAIN store : store[f] \in [expires : 0..Horizon + TTL, fetched : BOOLEAN, acked : 0..MaxTime \cup {NoAck}]
    /\ excused \subseteq Items
    /\ agent \in [Files -> {"waiting", "have", "acking", "done"}]

Init ==
    /\ now = 0 /\ nextSeq = 1 /\ faults = 0
    /\ feed = {} /\ consumed = {} /\ cursor = {} /\ excused = {}
    /\ sender = [m \in Messages |-> Idle]
    /\ batch = Idle
    /\ store = [f \in {} |-> [expires |-> 0, fetched |-> FALSE, acked |-> NoAck]]
    /\ agent = [f \in Files |-> "waiting"]

Fault == faults < MaxFaults /\ faults' = faults + 1
NoFault == UNCHANGED faults

-----------------------------------------------------------------------------
(* Writers.  A statement of its own is a transaction: its row has a place  *)
(* in the order from its start and is seen from its commit.                *)

\* Mutation: every insert makes a row.
InsertAlways(rows, r) == rows \cup {r}

\* The rows a committed INSERT of r leaves: on a messageId already present
\* the existing row keeps its place and its request body.
InsertRow(rows, r) ==
    IF r.id \in Keyed /\ (\E s \in rows : s.id = r.id) THEN rows ELSE rows \cup {r}

OpenRow(m) == [id |-> m, at |-> sender[m].at, seq |-> sender[m].seq]

Draw(m, pc) ==
    /\ sender' = [sender EXCEPT ![m] = [pc |-> pc, at |-> now, seq |-> nextSeq]]
    /\ nextSeq' = nextSeq + 1

\* persistUserMessageAtIngest: only a message with a messageId is written
\* before the delivery mode is looked up.
Ingest(m) ==
    /\ sender[m].pc = "new" /\ now <= Horizon
    /\ IF m \in Keyed
       THEN Draw(m, "ingesting")
       ELSE /\ sender' = [sender EXCEPT ![m] = [pc |-> "routing", at |-> now, seq |-> 0]]
            /\ UNCHANGED nextSeq
    /\ UNCHANGED <<now, feed, batch, store, cursor, consumed, excused, agent, faults>>

\* A failed insert is logged and the request goes on.
IngestEnds(m) ==
    /\ sender[m].pc = "ingesting"
    /\ sender' = [sender EXCEPT ![m].pc = "routing"]
    /\ \/ feed' = InsertRow(feed, OpenRow(m)) /\ NoFault
       \/ UNCHANGED feed /\ Fault
    /\ UNCHANGED <<now, nextSeq, batch, store, cursor, consumed, excused, agent>>

\* lookupDeliveryMode: an error ends in a refusal (503, or the push path, which
\* finds no URL) and the sender tries again; else the queued row is written.
Route(m) ==
    /\ sender[m].pc = "routing"
    /\ \/ Draw(m, "queueing") /\ NoFault
       \/ /\ sender' = [sender EXCEPT ![m] = Idle]
          /\ UNCHANGED nextSeq /\ Fault
    /\ UNCHANGED <<now, feed, batch, store, cursor, consumed, excused, agent>>

\* logA2AReceiveQueued, then {status: queued}: LogActivity swallows the
\* error of a failed insert, and the sender is told "queued" all the same.
\* A lost answer makes the sender repeat the message.
QueueEnds(m) ==
    /\ sender[m].pc = "queueing"
    /\ \/ /\ feed' = InsertRow(feed, OpenRow(m)) /\ NoFault
          /\ sender' = [sender EXCEPT ![m] = [Idle EXCEPT !.pc = "queued"]]
       \/ /\ UNCHANGED feed /\ Fault
          /\ sender' = [sender EXCEPT ![m] = [Idle EXCEPT !.pc = "queued"]]
       \/ /\ feed' = InsertRow(feed, OpenRow(m)) /\ Fault
          /\ sender' = [sender EXCEPT ![m] = Idle]
    /\ UNCHANGED <<now, nextSeq, batch, store, cursor, consumed, excused, agent>>

\* uploadPollMode: one transaction stages the files (PutBatchTx) ...
StageBatch ==
    /\ batch.pc = "new" /\ now <= Horizon
    /\ batch' = [pc |-> "staging", at |-> now, seq |-> 0]
    /\ UNCHANGED <<now, nextSeq, feed, sender, store, cursor, consumed, excused, agent, faults>>

\* ... draws one activity row per file (LogActivityTx) ...
LogBatch ==
    /\ batch.pc = "staging"
    /\ batch' = [batch EXCEPT !.pc = "logged", !.seq = nextSeq]
    /\ nextSeq' = nextSeq + Cardinality(Files)
    /\ UNCHANGED <<now, feed, sender, store, cursor, consumed, excused, agent, faults>>

BatchRows ==
    LET order == SetToSeq(Files) IN
    {[id |-> order[i], at |-> batch.at, seq |-> batch.seq + i - 1] : i \in 1..Cardinality(Files)}

\* What the batch leaves in pending_uploads when it commits.
StagedFiles == [f \in Files |-> [expires |-> batch.at + TTL, fetched |-> FALSE, acked |-> NoAck]]

\* ... and commits, or rolls back and is sent again.
CommitBatch ==
    /\ batch.pc = "logged"
    /\ feed' = feed \cup BatchRows
    /\ store' = StagedFiles
    /\ batch' = [Idle EXCEPT !.pc = "done"]
    /\ UNCHANGED <<now, nextSeq, sender, cursor, consumed, excused, agent, faults>>

RollbackBatch ==
    /\ batch.pc \in {"staging", "logged"}
    /\ batch' = Idle
    /\ Fault
    /\ UNCHANGED <<now, nextSeq, feed, sender, store, cursor, consumed, excused, agent>>

-----------------------------------------------------------------------------
(* The feed.                                                               *)

Before(r, s) == r.at < s.at \/ (r.at = s.at /\ r.seq < s.seq)

\* Mutation: the cursor compares created_at alone.
AfterCursorByTime(c) == {r \in feed : c.at < r.at}

\* Rows strictly after the cursor row, by the full ordering key.
AfterCursor(c) == {r \in feed : Before(c, r)}

\* The first (or the last) Limit rows of a set.
FirstRows(rows) == {r \in rows : Cardinality({s \in rows : Before(s, r)}) < Limit}
LastRows(rows) == {r \in rows : Cardinality({s \in rows : Before(r, s)}) < Limit}
Newest(rows) == {r \in rows : \A s \in rows : s = r \/ Before(s, r)}

\* The rows that have their place in the order and are not committed yet.
InFlight ==
    {OpenRow(m) : m \in {m \in Messages : sender[m].pc \in {"ingesting", "queueing"}}}
    \cup (IF batch.pc = "logged" THEN BatchRows
          ELSE IF batch.pc = "staging"
               THEN {[id |-> f, at |-> batch.at, seq |-> nextSeq] : f \in Files} ELSE {})

\* The agent takes a page: its cursor becomes the newest row of the page.
TakePage(page, missed) ==
    /\ consumed' = consumed \cup page
    /\ cursor' = IF page = {} THEN cursor ELSE Newest(page)
    /\ excused' = excused \cup {r.id : r \in {r \in InFlight \cup missed :
                                    \E n \in Newest(page) : Before(r, n)}}

\* What GET /activity?since_id answers for a cursor: 410 when its row is gone.
CursorGone == \E c \in cursor : c \notin feed

\* With a cursor: the oldest rows after it.
PollSince ==
    /\ cursor # {} /\ ~CursorGone
    /\ \E c \in cursor : TakePage(FirstRows(AfterCursor(c)), {})
    /\ UNCHANGED <<now, nextSeq, feed, sender, batch, store, agent, faults>>

\* Mutation: a pruned cursor is answered with an empty page.
EmptyPage == CursorGone /\ UNCHANGED vars

\* 410: the agent drops its cursor.
PollGone ==
    /\ CursorGone
    /\ cursor' = {}
    /\ UNCHANGED <<now, nextSeq, feed, sender, batch, store, consumed, excused, agent, faults>>

\* Without one: the most recent rows; what lies further back is not shown.
PollRecent ==
    /\ cursor = {}
    /\ TakePage(LastRows(feed), feed \ LastRows(feed))
    /\ UNCHANGED <<now, nextSeq, feed, sender, batch, store, agent, faults>>

-----------------------------------------------------------------------------
(* Files.                                                                  *)

\* Storage.Get: the row is there and its hard TTL has not passed.
Readable(f) == f \in DOMAIN store /\ store[f].expires > now

Announced(f) == \E r \in consumed : r.id = f

\* GetContent: bytes, then MarkFetched; a 404 ends it ("file expired").
Fetch(f) ==
    /\ agent[f] = "waiting" /\ Announced(f)
    /\ IF Readable(f)
       THEN \/ /\ store' = [store EXCEPT ![f].fetched = TRUE]
               /\ agent' = [agent EXCEPT ![f] = "have"] /\ NoFault
            \/ UNCHANGED <<store, agent>> /\ Fault
       ELSE agent' = [agent EXCEPT ![f] = "done"] /\ UNCHANGED store /\ NoFault
    /\ UNCHANGED <<now, nextSeq, feed, sender, batch, cursor, consumed, excused>>

\* PendingUploadsHandler.Ack looks the row up first: 404 when it is gone.
AckLookup(f) ==
    /\ agent[f] = "have"
    /\ agent' = [agent EXCEPT ![f] = IF Readable(f) THEN "acking" ELSE "done"]
    /\ UNCHANGED <<now, nextSeq, feed, sender, batch, store, cursor, consumed, excused, faults>>

\* The row after Storage.Ack: only a first ack of a live row stamps it.
Stamped(f) ==
    IF Readable(f) /\ store[f].acked = NoAck
    THEN [store EXCEPT ![f].acked = now] ELSE store

\* Storage.Ack: a repeat and a row lost to a sweep are successes too.  A lost
\* answer makes the agent ack again.
AckWrite(f) ==
    /\ agent[f] = "acking"
    /\ store' = Stamped(f)
    /\ \/ agent' = [agent EXCEPT ![f] = "done"] /\ NoFault
       \/ agent' = [agent EXCEPT ![f] = "have"] /\ Fault
    /\ UNCHANGED <<now, nextSeq, feed, sender, batch, cursor, consumed, excused>>

\* Mutation: a missing acked_at counts as the epoch.
SweepNullAck(f) == store[f].acked < now - AckRetention

\* What Storage.Sweep deletes: acked files past the retention window and
\* unacked ones past their TTL.
Sweepable(f) ==
    \/ store[f].acked # NoAck /\ store[f].acked < now - AckRetention
    \/ store[f].acked = NoAck /\ store[f].expires < now

Sweep ==
    /\ \E f \in DOMAIN store : Sweepable(f)
    /\ store' = [f \in {f \in DOMAIN store : ~Sweepable(f)} |-> store[f]]
    /\ UNCHANGED <<now, nextSeq, feed, sender, batch, cursor, consumed, excused, agent, faults>>

\* The retention job of cmd/server/main.go.
PruneActivity ==
    /\ \E r \in feed : r.at < now - Retention
    /\ feed' = {r \in feed : r.at >= now - Retention}
    /\ UNCHANGED <<now, nextSeq, sender, batch, store, cursor, consumed, excused, agent, faults>>

-----------------------------------------------------------------------------

\* A handler does not sit in its statements for longer than Hold.
Prompt ==
    /\ \A m \in Messages : sender[m].pc \in {"ingesting", "routing", "queueing"} => now < sender[m].at + Hold
    /\ batch.pc \in {"staging", "logged"} => now < batch.at + Hold

Tick ==
    /\ now < MaxTime /\ Prompt
    /\ now' = now + 1
    /\ UNCHANGED <<nextSeq, feed, sender, batch, store, cursor, consumed, excused, agent, faults>>

Next ==
    \/ \E m \in Messages : Ingest(m) \/ IngestEnds(m) \/ Route(m) \/ QueueEnds(m)
    \/ StageBatch \/ LogBatch \/ CommitBatch \/ RollbackBatch
    \/ PollSince \/ PollGone \/ PollRecent
    \/ \E f \in Files : Fetch(f) \/ AckLookup(f) \/ AckWrite(f)
    \/ Sweep \/ PruneActivity \/ Tick

Spec == Init /\ [][Next]_vars

\* Handlers run to their end, the agent keeps polling, the sweeps are tickers
\* and the clock goes on.  Nothing is assumed of senders that have not begun.
Fairness ==
    /\ \A m \in Messages : WF_vars(IngestEnds(m) \/ Route(m) \/ QueueEnds(m))
    /\ WF_vars(LogBatch \/ CommitBatch \/ RollbackBatch)
    /\ WF_vars(PollSince \/ PollGone \/ PollRecent)
    /\ \A f \in Files : WF_vars(Fetch(f) \/ AckLookup(f) \/ AckWrite(f))
    /\ WF_vars(Sweep) /\ WF_vars(PruneActivity) /\ WF_vars(Tick)

FairSpec == Spec /\ Fairness

-----------------------------------------------------------------------------
(* Properties.                                                             *)

Told == {r.id : r \in consumed}

\* The cursor hides a row only for the two reasons the feed knows of: the row
\* was uncommitted when a page went past it, or it lay beyond the limit of a
\* backlog read.  Rows of one batch share created_at and a page may end in
\* the middle of them: comparing created_at alone loses the rest (activity.go).
SkippedOnlyInFlight ==
    \A r \in feed : (\E c \in cursor : r = c \/ Before(r, c)) => r.id \in Told \cup excused

\* No committed row lies behind the cursor without having been given to the
\* agent: "logs one chat_upload_receive activity row per file so the
\* workspace's inbox poller picks them up on its next cycle" (chat_files.go).
NothingSkipped ==
    \A r \in feed : (\E c \in cursor : r = c \/ Before(r, c)) => r.id \in Told

\* A message with a messageId is one inbox event however often its sender
\* repeats it and whichever of its two inserts fail: ON CONFLICT keeps the
\* first row in its place (activity.go, idx_activity_logs_msg_id).
KeyedToldOnce ==
    \A r, s \in consumed : r.id = s.id /\ r.id \in Keyed => r.seq = s.seq

\* A file the agent has been told of can be fetched for the whole of its TTL
\* until it has been: staging and announcement commit
\* together, and the sweep leaves live rows alone.
AnnouncedReadable ==
    \A r \in consumed :
        r.id \in Files /\ now < r.at + TTL /\ agent[r.id] = "waiting" => Readable(r.id)

\* A repeated ack never moves acked_at, so the retention window is counted
\* from the delivery (pendinguploads/storage.go, Ack).
FirstAckStays ==
    [][\A f \in DOMAIN store \cap DOMAIN store' :
          store[f].acked # NoAck => store'[f].acked = store[f].acked]_vars

\* Every committed row reaches a polling agent, is pruned, or is one the
\* cursor was excused for.  A pruned cursor must be refused, or the agent
\* would be shown nothing for ever (activity.go, 410).
RowsReach ==
    \A i \in Items : (\E r \in feed : r.id = i) ~>
        (i \in Told \cup excused \/ \A r \in feed : r.id # i)

\* Nothing stays staged for ever: acked or not, a file is deleted.
StagedReclaimed == \A f \in Files : f \in DOMAIN store ~> f \notin DOMAIN store
=============================================================================

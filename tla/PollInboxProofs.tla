--------------------------- MODULE PollInboxProofs ---------------------------
(***************************************************************************)
(* Machine-checked proofs about PollInbox, for any set of messages and     *)
(* files, any page limit and any retention.                                *)
(***************************************************************************)
EXTENDS PollInbox, FiniteSetTheorems, TLAPS

-----------------------------------------------------------------------------
(* The inductive invariant.                                                *)

\* Rows whose sequence number has been drawn: committed, given out, or still
\* in the transaction of their writer.
OpenRows == {OpenRow(m) : m \in {m \in Messages : sender[m].pc \in {"ingesting", "queueing"}}}
LoggedRows == IF batch.pc = "logged" THEN BatchRows ELSE {}
Drawn == feed \cup consumed \cup OpenRows \cup LoggedRows

\* A handler is inside its transactions for at most Hold.
Timely ==
    /\ \A m \in Messages : sender[m].pc \in {"ingesting", "routing", "queueing"} =>
           /\ sender[m].at <= now /\ now <= sender[m].at + Hold
           /\ sender[m].at <= Horizon + Hold
           /\ sender[m].pc # "queueing" => sender[m].at <= Horizon
    /\ batch.at <= now /\ batch.at <= Horizon

\* created_at lies in the past and seq below the identity sequence.
Numbered == \A r \in Drawn : r.at <= now /\ r.seq < nextSeq

\* The identity sequence gives no number twice.
SeqsUnique == \A r, s \in Drawn : r.seq = s.seq => r = s

\* A row the cursor is past was given to the agent or is excused: before its
\* commit already, which is when SkippedOnlyInFlight begins to speak of it.
PassedKnown ==
    \A c \in cursor : \A r \in feed \cup InFlight : Before(r, c) => r.id \in Told \cup excused

\* Only the retention job takes a row out of the feed.
GoneIsOld == \A r \in consumed : r \in feed \/ r.at + Retention < now

\* created_at was read while the platform accepted messages.
EarlyRows == \A r \in feed \cup consumed : r.id \in Messages => r.at <= Horizon + Hold

\* Two rows of one messageId: the second was written when the retention job
\* had taken the first.
RepeatsSpaced ==
    \A r, s \in feed \cup consumed : r.id = s.id /\ r.id \in Keyed =>
        r = s \/ r.at + Retention < s.at + Hold \/ s.at + Retention < r.at + Hold

\* A file is announced by the commit that stages it, and stays staged,
\* unacked, until the agent has it or its TTL is over.
FilesHeld ==
    /\ \A r \in feed \cup consumed : r.id \in Files =>
          /\ batch.pc = "done"
          /\ agent[r.id] = "waiting" /\ now <= r.at + TTL =>
                /\ r.id \in DOMAIN store
                /\ store[r.id].expires = r.at + TTL /\ store[r.id].acked = NoAck
    /\ batch.pc # "done" => DOMAIN store = {}

PollInv ==
    /\ TypeOK /\ IsFiniteSet(feed) /\ cursor \subseteq consumed
    /\ Timely /\ Numbered /\ SeqsUnique /\ PassedKnown
    /\ GoneIsOld /\ EarlyRows /\ RepeatsSpaced /\ FilesHeld

-----------------------------------------------------------------------------
(* Rows that are not committed yet, as functions of the handlers.          *)

\* The open row of every handler of snd that is inside an insert.
OpenOf(snd) ==
    {[id |-> m, at |-> snd[m].at, seq |-> snd[m].seq] :
        m \in {m \in Messages : snd[m].pc \in {"ingesting", "queueing"}}}

\* The rows a batch started at time t draws from number n on.
RowsFrom(t, n) ==
    {[id |-> SetToSeq(Files)[i], at |-> t, seq |-> n + i - 1] : i \in 1..Cardinality(Files)}

\* The places of a batch that has not drawn its numbers.
Ghosts(t, n) == {[id |-> f, at |-> t, seq |-> n] : f \in Files}

LoggedOf(b) == IF b.pc = "logged" THEN RowsFrom(b.at, b.seq) ELSE {}
InFlightOf(snd, b, n) ==
    OpenOf(snd) \cup (IF b.pc = "logged" THEN RowsFrom(b.at, b.seq)
                      ELSE IF b.pc = "staging" THEN Ghosts(b.at, n) ELSE {})

LEMMA Unfolded ==
    /\ OpenRows = OpenOf(sender) /\ OpenRows' = OpenOf(sender')
    /\ LoggedRows = LoggedOf(batch) /\ LoggedRows' = LoggedOf(batch')
    /\ InFlight = InFlightOf(sender, batch, nextSeq)
    /\ InFlight' = InFlightOf(sender', batch', nextSeq')
    /\ BatchRows = RowsFrom(batch.at, batch.seq)
  BY DEF OpenRows, OpenOf, OpenRow, LoggedRows, LoggedOf, InFlight, InFlightOf,
         BatchRows, RowsFrom, Ghosts

LEMMA OpenMember ==
    ASSUME NEW snd, NEW r
    PROVE  r \in OpenOf(snd) <=>
              \E m \in Messages : /\ snd[m].pc \in {"ingesting", "queueing"}
                                  /\ r = [id |-> m, at |-> snd[m].at, seq |-> snd[m].seq]
  BY DEF OpenOf

LEMMA GhostMember ==
    ASSUME NEW t, NEW n, NEW r
    PROVE  r \in Ghosts(t, n) <=> \E f \in Files : r = [id |-> f, at |-> t, seq |-> n]
  BY DEF Ghosts

\* SetToSeq lists the files.
LEMMA FilesListed ==
    /\ Cardinality(Files) \in Nat
    /\ SetToSeq(Files) \in [1..Cardinality(Files) -> Files]
    /\ \A f \in Files : \E i \in 1..Cardinality(Files) : SetToSeq(Files)[i] = f
  <1>1. IsFiniteSet(Files)
    BY PollAssumption
  <1>2. Cardinality(Files) \in Nat /\ ExistsBijection(1..Cardinality(Files), Files)
    BY <1>1, FS_CardinalityType
  <1>3. \E f \in [1..Cardinality(Files) -> Files] : IsInjective(f)
    BY <1>2 DEF ExistsBijection, Bijection, Injection
  <1>4. SetToSeq(Files) \in [1..Cardinality(Files) -> Files] /\ IsInjective(SetToSeq(Files))
    BY <1>3 DEF SetToSeq
  <1>5. SetToSeq(Files) \in Injection(1..Cardinality(Files), Files)
    BY <1>4 DEF Injection
  <1>6. Cardinality(1..Cardinality(Files)) = Cardinality(Files)
    <2>1. Cardinality(Files) \in Int /\ 1 \in Int
      BY <1>2
    <2>2. Cardinality(1..Cardinality(Files)) =
             IF 1 > Cardinality(Files) THEN 0 ELSE Cardinality(Files) - 1 + 1
      BY <2>1, FS_Interval
    <2> QED
      BY <1>2, <2>2
  <1>7. SetToSeq(Files) \in Surjection(1..Cardinality(Files), Files)
    BY <1>1, <1>5, <1>6, FS_Injection
  <1> QED
    BY <1>2, <1>4, <1>7 DEF Surjection

\* What a batch draws: one row per file, numbered from n on.
LEMMA BatchNumbers ==
    ASSUME NEW t \in Nat, NEW n \in Nat
    PROVE  /\ \A r \in RowsFrom(t, n) :
                 /\ r = [id |-> r.id, at |-> t, seq |-> r.seq]
                 /\ r.id \in Files /\ r.at = t /\ r.seq \in Nat
                 /\ n <= r.seq /\ r.seq < n + Cardinality(Files)
           /\ \A r, s \in RowsFrom(t, n) : r.seq = s.seq => r = s
           /\ IsFiniteSet(RowsFrom(t, n))
  <1> DEFINE k == Cardinality(Files)
             row(i) == [id |-> SetToSeq(Files)[i], at |-> t, seq |-> n + i - 1]
             g == [i \in 1..k |-> row(i)]
  <1>1. k \in Nat /\ \A i \in 1..k : SetToSeq(Files)[i] \in Files
    BY FilesListed
  <1>2. \A r : r \in RowsFrom(t, n) <=> \E i \in 1..k : r = row(i)
    BY DEF RowsFrom
  <1>3. \A i \in 1..k : /\ row(i) = [id |-> row(i).id, at |-> t, seq |-> row(i).seq]
                        /\ row(i).id \in Files /\ row(i).at = t
                        /\ row(i).seq = n + i - 1 /\ row(i).seq \in Nat
                        /\ n <= row(i).seq /\ row(i).seq < n + k
    BY <1>1
  <1>4. \A r, s \in RowsFrom(t, n) : r.seq = s.seq => r = s
    <2>1. SUFFICES ASSUME NEW i \in 1..k, NEW j \in 1..k, row(i).seq = row(j).seq
                   PROVE  row(i) = row(j)
      BY <1>2
    <2>2. i = j
      BY <1>1, <1>3, <2>1
    <2> QED
      BY <2>2
  <1>5. IsFiniteSet(RowsFrom(t, n))
    <2>1. g \in Surjection(1..k, RowsFrom(t, n))
      <3> HIDE DEF k
      <3>1. g \in [1..k -> RowsFrom(t, n)]
        BY <1>2
      <3>2. \A r \in RowsFrom(t, n) : \E i \in 1..k : g[i] = r
        BY <1>2
      <3> QED
        BY <3>1, <3>2 DEF Surjection
    <2>2. IsFiniteSet(1..k)
      BY <1>1, FS_Interval
    <2> QED
      BY <2>1, <2>2, FS_Surjection
  <1> QED
    BY <1>2, <1>3, <1>4, <1>5

-----------------------------------------------------------------------------
(* The steps of the senders, as far as the invariant can see them.         *)

SenderState == [pc : {"new", "ingesting", "routing", "queueing", "queued"}, at : 0..MaxTime, seq : Nat]

\* The handler of m starts an insert: it takes the time and a number.
Opens(m) ==
    /\ \E pc \in {"ingesting", "queueing"} :
          /\ Draw(m, pc)
          /\ pc = "ingesting" => now <= Horizon
          /\ pc = "queueing" => sender[m].pc = "routing"
    /\ faults' \in 0..MaxFaults
    /\ UNCHANGED <<now, feed, batch, store, cursor, consumed, excused, agent>>

\* The handler of m ends one, with or without a row, or begins to route.
Closes(m) ==
    /\ \E s \in SenderState :
          /\ sender' = [sender EXCEPT ![m] = s]
          /\ s.pc \notin {"ingesting", "queueing"}
          /\ s.pc = "routing" => \/ sender[m].pc = "ingesting" /\ s.at = sender[m].at
                                 \/ s.at = now /\ now <= Horizon
    /\ \/ feed' = feed
       \/ /\ sender[m].pc \in {"ingesting", "queueing"}
          /\ feed' = InsertRow(feed, OpenRow(m))
    /\ faults' \in 0..MaxFaults
    /\ UNCHANGED <<now, nextSeq, batch, store, cursor, consumed, excused, agent>>

\* A page, or the loss of the cursor.
Polls == PollSince \/ PollGone \/ PollRecent

\* A step of the agent or of the upload sweep on staged files.
FileSteps == (\E f \in Files : Fetch(f) \/ AckLookup(f) \/ AckWrite(f)) \/ Sweep

Kinds ==
    \/ \E m \in Messages : Opens(m) \/ Closes(m)
    \/ StageBatch \/ LogBatch \/ CommitBatch \/ RollbackBatch
    \/ Polls \/ FileSteps \/ PruneActivity \/ Tick

LEMMA StepKinds ==
    ASSUME TypeOK, Next
    PROVE  Kinds
  <1> USE PollAssumption
  <1>1. faults \in 0..MaxFaults /\ MaxFaults \in Nat /\ MaxTime \in Nat
        /\ now \in 0..MaxTime /\ nextSeq \in Nat /\ sender \in [Messages -> SenderState]
    BY DEF TypeOK, SenderState
  <1>2. ASSUME NEW m \in Messages, Ingest(m)  PROVE Opens(m) \/ Closes(m)
    <2>1. CASE m \in Keyed
      BY <1>1, <1>2, <2>1 DEF Ingest, Opens
    <2>2. CASE m \notin Keyed
      <3> DEFINE s == [pc |-> "routing", at |-> now, seq |-> 0]
      <3>1. s \in SenderState /\ s.pc = "routing" /\ s.at = now
        BY <1>1 DEF SenderState
      <3>2. sender' = [sender EXCEPT ![m] = s]
        BY <1>2, <2>2 DEF Ingest
      <3> QED
        BY <1>1, <1>2, <2>2, <3>1, <3>2 DEF Ingest, Closes
    <2> QED
      BY <2>1, <2>2
  <1>3. ASSUME NEW m \in Messages, IngestEnds(m)  PROVE Closes(m)
    <2> DEFINE s == [sender[m] EXCEPT !.pc = "routing"]
    <2>1. s \in SenderState /\ s.pc = "routing" /\ s.at = sender[m].at
      BY <1>1 DEF SenderState
    <2>2. sender' = [sender EXCEPT ![m] = s]
      BY <1>3 DEF IngestEnds
    <2>3. faults' \in 0..MaxFaults
      BY <1>1, <1>3 DEF IngestEnds, Fault, NoFault
    <2> QED
      BY <1>3, <2>1, <2>2, <2>3 DEF IngestEnds, Closes
  <1>4. ASSUME NEW m \in Messages, Route(m)  PROVE Opens(m) \/ Closes(m)
    <2>1. faults' \in 0..MaxFaults
      BY <1>1, <1>4 DEF Route, Fault, NoFault
    <2>2. CASE Draw(m, "queueing")
      BY <1>4, <2>1, <2>2 DEF Route, Opens
    <2>3. CASE sender' = [sender EXCEPT ![m] = Idle] /\ UNCHANGED nextSeq
      <3>1. Idle \in SenderState /\ Idle.pc = "new"
        BY <1>1 DEF SenderState, Idle
      <3> QED
        BY <1>4, <2>1, <2>3, <3>1 DEF Route, Closes
    <2> QED
      BY <1>4, <2>2, <2>3 DEF Route
  <1>5. ASSUME NEW m \in Messages, QueueEnds(m)  PROVE Closes(m)
    <2> DEFINE q == [Idle EXCEPT !.pc = "queued"]
    <2>1. q \in SenderState /\ q.pc = "queued" /\ Idle \in SenderState /\ Idle.pc = "new"
      BY <1>1 DEF SenderState, Idle
    <2>2. \E s \in {q, Idle} : sender' = [sender EXCEPT ![m] = s]
      BY <1>5 DEF QueueEnds
    <2>3. faults' \in 0..MaxFaults
      BY <1>1, <1>5 DEF QueueEnds, Fault, NoFault
    <2> QED
      BY <1>5, <2>1, <2>2, <2>3 DEF QueueEnds, Closes
  <1> QED
    BY <1>2, <1>3, <1>4, <1>5 DEF Next, Kinds, Polls, FileSteps

\* What the two do to the handlers.
LEMMA OneSender ==
    ASSUME TypeOK, NEW m \in Messages, NEW s, sender' = [sender EXCEPT ![m] = s]
    PROVE  /\ sender'[m] = s
           /\ \A k \in Messages : k # m => sender'[k] = sender[k]
  BY DEF TypeOK

\* The open rows then: those of before, and perhaps the one of m.
LEMMA OpenChange ==
    ASSUME TypeOK, NEW m \in Messages, NEW s, sender' = [sender EXCEPT ![m] = s]
    PROVE  \A r \in OpenOf(sender') :
              \/ r \in OpenOf(sender)
              \/ /\ s.pc \in {"ingesting", "queueing"}
                 /\ r = [id |-> m, at |-> s.at, seq |-> s.seq]
  <1>1. TAKE r \in OpenOf(sender')
  <1>2. PICK k \in Messages : /\ sender'[k].pc \in {"ingesting", "queueing"}
                              /\ r = [id |-> k, at |-> sender'[k].at, seq |-> sender'[k].seq]
    BY <1>1 DEF OpenOf
  <1>3. CASE k = m
    <2>1. sender'[k] = s
      BY <1>3, OneSender
    <2> QED
      BY <1>2, <1>3, <2>1
  <1>4. CASE k # m
    <2>1. sender'[k] = sender[k]
      BY <1>4, OneSender
    <2>2. r \in OpenOf(sender)
      <3>1. /\ sender[k].pc \in {"ingesting", "queueing"}
            /\ r = [id |-> k, at |-> sender[k].at, seq |-> sender[k].seq]
        BY <1>2, <2>1
      <3> QED
        BY <3>1 DEF OpenOf
    <2> QED
      BY <2>2
  <1> QED
    BY <1>3, <1>4

\* A draw opens one row, at the end of the order.
LEMMA DrawnOpen ==
    ASSUME TypeOK, NEW m \in Messages, NEW pc, Draw(m, pc)
    PROVE  \A r \in OpenOf(sender') :
              r \in OpenOf(sender) \/ r = [id |-> m, at |-> now, seq |-> nextSeq]
  <1> DEFINE s == [pc |-> pc, at |-> now, seq |-> nextSeq]
  <1>1. s.at = now /\ s.seq = nextSeq /\ sender' = [sender EXCEPT ![m] = s]
    BY DEF Draw
  <1> HIDE DEF s
  <1>2. \A r \in OpenOf(sender') : r \in OpenOf(sender) \/ r = [id |-> m, at |-> s.at, seq |-> s.seq]
    BY <1>1, OpenChange
  <1> QED
    BY <1>1, <1>2

-----------------------------------------------------------------------------
(* Type correctness.                                                       *)

\* The newest row of a page is one row.
LEMMA OneNewest ==
    ASSUME NEW page \in SUBSET Row
    PROVE  Newest(page) \subseteq page /\ Cardinality(Newest(page)) <= 1
  <1>1. \A r, s \in Newest(page) : r = s
    BY PollAssumption DEF Newest, Before, Row
  <1>2. Newest(page) = {} \/ \E r : Newest(page) = {r}
    BY <1>1
  <1>3. Cardinality(Newest(page)) \in {0, 1}
    BY <1>2, FS_EmptySet, FS_Singleton
  <1> QED
    BY <1>3 DEF Newest

\* A page takes from the feed, and the cursor is a row of the page.
LEMMA PageTaken ==
    ASSUME TypeOK, NEW page \in SUBSET feed, NEW missed, TakePage(page, missed),
           missed \subseteq feed
    PROVE  /\ consumed' = consumed \cup page
           /\ cursor' \subseteq Row /\ Cardinality(cursor') <= 1
           /\ cursor' = cursor \/ (cursor' = Newest(page) /\ cursor' \subseteq page)
           /\ \A r \in InFlight \cup missed : \A n \in cursor' :
                 cursor' # cursor /\ Before(r, n) => r.id \in excused'
           /\ excused \subseteq excused'
  <1>1. page \in SUBSET Row
    BY DEF TypeOK
  <1>2. Newest(page) \subseteq page /\ Cardinality(Newest(page)) <= 1
    BY <1>1, OneNewest
  <1> QED
    BY <1>1, <1>2 DEF TakePage, TypeOK

\* Rows in flight are rows.
LEMMA InFlightTyped ==
    ASSUME TypeOK
    PROVE  InFlight \subseteq Row
  <1>1. Cardinality(Files) \in Nat
    BY FilesListed
  <1>2. ASSUME NEW r \in OpenOf(sender)  PROVE r \in Row
    <2>1. PICK m \in Messages : r = [id |-> m, at |-> sender[m].at, seq |-> sender[m].seq]
      BY <1>2, OpenMember
    <2> QED
      BY <2>1 DEF TypeOK, Row, Items
  <1>3. ASSUME NEW r \in RowsFrom(batch.at, batch.seq)  PROVE r \in Row
    <2>1. batch.at \in Nat /\ batch.seq \in Nat /\ batch.at \in 0..MaxTime
      BY PollAssumption DEF TypeOK
    <2>2. /\ r = [id |-> r.id, at |-> batch.at, seq |-> r.seq]
          /\ r.id \in Files /\ r.seq \in Nat
      BY <1>3, <2>1, BatchNumbers
    <2> QED
      BY <2>1, <2>2 DEF Row, Items
  <1>4. ASSUME NEW r \in Ghosts(batch.at, nextSeq)  PROVE r \in Row
    <2>1. PICK f \in Files : r = [id |-> f, at |-> batch.at, seq |-> nextSeq]
      BY <1>4, GhostMember
    <2> QED
      BY <2>1 DEF TypeOK, Row, Items
  <1> QED
    BY <1>2, <1>3, <1>4, Unfolded DEF InFlightOf

\* What every poll leaves alone and what it may change.
LEMMA PollFrame ==
    ASSUME TypeOK, Polls
    PROVE  /\ UNCHANGED <<now, nextSeq, feed, sender, batch, store, agent, faults>>
           /\ consumed \subseteq consumed' /\ consumed' \subseteq consumed \cup feed
           /\ cursor' \subseteq Row /\ Cardinality(cursor') <= 1
           /\ cursor' \subseteq cursor \cup consumed'
           /\ excused \subseteq excused' /\ excused' \subseteq Items
  <1>1. InFlight \subseteq Row /\ feed \subseteq Row
    BY InFlightTyped DEF TypeOK
  <1>2. ASSUME NEW page \in SUBSET feed, NEW missed \in SUBSET feed, TakePage(page, missed)
        PROVE  excused' \subseteq Items
    BY <1>1, <1>2 DEF TakePage, TypeOK, Row
  <1>3. CASE PollSince
    <2>1. PICK c \in cursor : TakePage(FirstRows(AfterCursor(c)), {})
      BY <1>3 DEF PollSince
    <2>2. FirstRows(AfterCursor(c)) \in SUBSET feed
      BY DEF FirstRows, AfterCursor
    <2>3. excused' \subseteq Items
      BY <1>2, <2>1, <2>2
    <2>4. /\ consumed' = consumed \cup FirstRows(AfterCursor(c))
          /\ cursor' \subseteq Row /\ Cardinality(cursor') <= 1
          /\ cursor' = cursor \/ cursor' \subseteq FirstRows(AfterCursor(c))
          /\ excused \subseteq excused'
      <3>1. {} \subseteq feed
        OBVIOUS
      <3> QED
        BY <2>1, <2>2, <3>1, PageTaken
    <2> QED
      BY <1>3, <2>2, <2>3, <2>4 DEF PollSince
  <1>4. CASE PollGone
    BY <1>4, FS_EmptySet DEF PollGone, TypeOK
  <1>5. CASE PollRecent
    <2>1. LastRows(feed) \in SUBSET feed /\ feed \ LastRows(feed) \in SUBSET feed
      BY DEF LastRows
    <2>2. TakePage(LastRows(feed), feed \ LastRows(feed))
      BY <1>5 DEF PollRecent
    <2>3. excused' \subseteq Items
      BY <1>2, <2>1, <2>2
    <2>4. /\ consumed' = consumed \cup LastRows(feed)
          /\ cursor' \subseteq Row /\ Cardinality(cursor') <= 1
          /\ cursor' = cursor \/ cursor' \subseteq LastRows(feed)
          /\ excused \subseteq excused'
      BY <2>1, <2>2, PageTaken
    <2> QED
      BY <1>5, <2>1, <2>3, <2>4 DEF PollRecent
  <1> QED
    BY <1>3, <1>4, <1>5 DEF Polls

\* What a step on a staged file may change of its row: acked_at, once, and
\* not before the agent has the bytes.
StoreKept(f) ==
    /\ store'[f].expires = store[f].expires
    /\ store'[f].fetched \in BOOLEAN
    /\ \/ store'[f].acked = store[f].acked
       \/ store[f].acked = NoAck /\ store'[f].acked = now /\ agent[f] # "waiting"
    /\ store'[f] = [expires |-> store'[f].expires, fetched |-> store'[f].fetched,
                    acked |-> store'[f].acked]

\* It changes nothing of the feed, deletes only what may be swept, and no
\* file returns to "waiting".
FileEffect ==
    /\ UNCHANGED <<now, nextSeq, feed, sender, batch, cursor, consumed, excused>>
    /\ DOMAIN store' \subseteq DOMAIN store
    /\ \A f \in DOMAIN store' : StoreKept(f)
    /\ \A f \in DOMAIN store : f \notin DOMAIN store' => Sweepable(f)
    /\ agent' \in [Files -> {"waiting", "have", "acking", "done"}]
    /\ \A f \in Files : agent'[f] = "waiting" => agent[f] = "waiting"
    /\ faults' \in 0..MaxFaults

LEMMA FileFrame ==
    ASSUME TypeOK, FileSteps
    PROVE  FileEffect
  <1> USE PollAssumption
  <1>1. /\ agent \in [Files -> {"waiting", "have", "acking", "done"}]
        /\ faults \in 0..MaxFaults /\ MaxFaults \in Nat
        /\ \A f \in DOMAIN store : store[f] \in [expires : 0..Horizon + TTL, fetched : BOOLEAN,
                                                 acked : 0..MaxTime \cup {NoAck}]
    BY DEF TypeOK
  <1>2. \A f \in DOMAIN store :
           /\ store[f].fetched \in BOOLEAN
           /\ store[f] = [expires |-> store[f].expires, fetched |-> store[f].fetched,
                          acked |-> store[f].acked]
    BY <1>1
  <1>3. ASSUME NEW f \in Files, Fetch(f)  PROVE FileEffect
    <2>1. store' = store \/ (f \in DOMAIN store /\ store' = [store EXCEPT ![f].fetched = TRUE])
      BY <1>3 DEF Fetch, Readable
    <2>2. agent' = agent \/ \E a \in {"have", "done"} : agent' = [agent EXCEPT ![f] = a]
      BY <1>3 DEF Fetch
    <2>3. faults' \in 0..MaxFaults
      BY <1>1, <1>3 DEF Fetch, Fault, NoFault
    <2>4. UNCHANGED <<now, nextSeq, feed, sender, batch, cursor, consumed, excused>>
      BY <1>3 DEF Fetch
    <2>5. DOMAIN store' = DOMAIN store
      BY <2>1
    <2>6. ASSUME NEW g \in DOMAIN store  PROVE StoreKept(g)
      <3>1. CASE store'[g] = store[g]
        BY <1>2, <3>1 DEF StoreKept
      <3>2. CASE store'[g] = [expires |-> store[g].expires, fetched |-> TRUE, acked |-> store[g].acked]
        <4>1. /\ store'[g].expires = store[g].expires /\ store'[g].acked = store[g].acked
              /\ store'[g].fetched = TRUE
          BY <3>2
        <4> QED
          BY <3>2, <4>1 DEF StoreKept
      <3>3. CASE g = f /\ store' = [store EXCEPT ![f].fetched = TRUE]
        <4>1. store'[g] = [store[g] EXCEPT !.fetched = TRUE]
          BY <3>3
        <4>2. store[g] = [expires |-> store[g].expires, fetched |-> store[g].fetched,
                          acked |-> store[g].acked]
          BY <1>2
        <4> QED
          BY <3>2, <4>1, <4>2
      <3> QED
        BY <2>1, <3>1, <3>3
    <2> QED
      BY <1>1, <2>2, <2>3, <2>4, <2>5, <2>6 DEF FileEffect
  <1>4. ASSUME NEW f \in Files, AckLookup(f)  PROVE FileEffect
    <2>1. agent[f] = "have" /\ \E a \in {"acking", "done"} : agent' = [agent EXCEPT ![f] = a]
      BY <1>4 DEF AckLookup
    <2>2. /\ agent' \in [Files -> {"waiting", "have", "acking", "done"}]
          /\ \A g \in Files : agent'[g] = "waiting" => agent[g] = "waiting"
      BY <1>1, <2>1
    <2>3. store' = store /\ faults' = faults
          /\ UNCHANGED <<now, nextSeq, feed, sender, batch, cursor, consumed, excused>>
      BY <1>4 DEF AckLookup
    <2>4. \A g \in DOMAIN store' : StoreKept(g)
      BY <1>2, <2>3 DEF StoreKept
    <2> QED
      BY <1>1, <2>2, <2>3, <2>4 DEF FileEffect
  <1>5. ASSUME NEW f \in Files, AckWrite(f)  PROVE FileEffect
    <2>1. \/ store' = store
          \/ f \in DOMAIN store /\ store[f].acked = NoAck /\ store' = [store EXCEPT ![f].acked = now]
      BY <1>5 DEF AckWrite, Stamped, Readable
    <2>2. agent[f] = "acking" /\ \E a \in {"have", "done"} : agent' = [agent EXCEPT ![f] = a]
      BY <1>5 DEF AckWrite
    <2>3. faults' \in 0..MaxFaults
      BY <1>1, <1>5 DEF AckWrite, Fault, NoFault
    <2>4. UNCHANGED <<now, nextSeq, feed, sender, batch, cursor, consumed, excused>>
      BY <1>5 DEF AckWrite
    <2>5. DOMAIN store' = DOMAIN store
      BY <2>1
    <2>6. \A g \in DOMAIN store : StoreKept(g)
      BY <1>2, <2>1, <2>2 DEF StoreKept
    <2> QED
      BY <1>1, <2>2, <2>3, <2>4, <2>5, <2>6 DEF FileEffect
  <1>6. ASSUME Sweep  PROVE FileEffect
    <2>1. store' = [f \in {f \in DOMAIN store : ~Sweepable(f)} |-> store[f]]
      BY <1>6 DEF Sweep
    <2>2. \A f \in DOMAIN store' : StoreKept(f)
      BY <1>2, <2>1 DEF StoreKept
    <2> QED
      BY <1>1, <1>6, <2>1, <2>2 DEF Sweep, FileEffect
  <1> QED
    BY <1>3, <1>4, <1>5, <1>6 DEF FileSteps

\* What an ending handler leaves in the feed.
LEMMA ClosedFeed ==
    ASSUME TypeOK, NEW m \in Messages, Closes(m)
    PROVE  /\ feed \subseteq feed' /\ feed' \subseteq feed \cup OpenOf(sender)
           /\ \A r \in feed' : r \in feed \/ (/\ r = OpenRow(m) /\ r.id = m
                                              /\ sender[m].pc \in {"ingesting", "queueing"})
           /\ feed' = feed \/ (m \in Keyed => \A s \in feed : s.id # m)
           /\ feed' = feed \/ feed' = feed \cup {OpenRow(m)}
  <1>1. CASE feed' = feed
    BY <1>1
  <1>2. CASE feed' # feed
    <2>1. sender[m].pc \in {"ingesting", "queueing"} /\ feed' = InsertRow(feed, OpenRow(m))
      BY <1>2 DEF Closes
    <2>2. OpenRow(m) = [id |-> m, at |-> sender[m].at, seq |-> sender[m].seq] /\ OpenRow(m).id = m
      BY DEF OpenRow
    <2>3. OpenRow(m) \in OpenOf(sender)
      BY <2>1, <2>2, OpenMember
    <2> QED
      BY <1>2, <2>1, <2>2, <2>3 DEF InsertRow
  <1> QED
    BY <1>1, <1>2

\* Types, the finite feed and the cursor's row.
Shape == TypeOK /\ IsFiniteSet(feed) /\ cursor \subseteq consumed

LEMMA ShapeKept ==
    ASSUME PollInv, Kinds
    PROVE  Shape'
  <1> USE PollAssumption
  <1> /\ TypeOK /\ IsFiniteSet(feed) /\ cursor \subseteq consumed /\ Timely
    BY DEF PollInv
  <1>0. /\ now \in 0..MaxTime /\ MaxTime \in Nat /\ nextSeq \in Nat
        /\ sender \in [Messages -> SenderState] /\ Cardinality(Files) \in Nat
    BY FilesListed DEF TypeOK, SenderState
  <1>1. ASSUME NEW m \in Messages, Opens(m)  PROVE Shape'
    <2>1. PICK pc \in {"ingesting", "queueing"} : Draw(m, pc)
      BY <1>1 DEF Opens
    <2>2. [pc |-> pc, at |-> now, seq |-> nextSeq] \in SenderState
      BY <1>0 DEF SenderState
    <2>3. sender' \in [Messages -> SenderState] /\ nextSeq' \in Nat
      BY <1>0, <2>1, <2>2 DEF Draw
    <2>4. TypeOK'
      BY <1>1, <2>3 DEF Opens, TypeOK, SenderState
    <2> QED
      BY <1>1, <2>4 DEF Opens, Shape
  <1>2. ASSUME NEW m \in Messages, Closes(m)  PROVE Shape'
    <2>1. sender' \in [Messages -> SenderState]
      BY <1>0, <1>2 DEF Closes
    <2>2. OpenOf(sender) \subseteq Row
      BY InFlightTyped, Unfolded DEF InFlightOf
    <2>3. feed' \subseteq Row
      BY <1>2, <2>2, ClosedFeed DEF TypeOK
    <2>4. IsFiniteSet(feed')
      BY <1>2, ClosedFeed, FS_AddElement
    <2>5. TypeOK'
      BY <1>2, <2>1, <2>3 DEF Closes, TypeOK, SenderState
    <2> QED
      BY <1>2, <2>4, <2>5 DEF Closes, Shape
  <1>3. CASE StageBatch
    <2>1. batch' \in [pc : {"new", "staging", "logged", "done"}, at : 0..MaxTime, seq : Nat]
      BY <1>0, <1>3 DEF StageBatch
    <2>2. TypeOK'
      BY <1>3, <2>1 DEF StageBatch, TypeOK
    <2> QED
      BY <1>3, <2>2 DEF StageBatch, Shape
  <1>4. CASE LogBatch
    <2>1. batch' \in [pc : {"new", "staging", "logged", "done"}, at : 0..MaxTime, seq : Nat]
      BY <1>0, <1>4 DEF LogBatch, TypeOK
    <2>2. TypeOK'
      BY <1>0, <1>4, <2>1 DEF LogBatch, TypeOK
    <2> QED
      BY <1>4, <2>2 DEF LogBatch, Shape
  <1>5. CASE CommitBatch
    <2>1. batch.at \in Nat /\ batch.seq \in Nat /\ batch.at <= Horizon
      BY DEF TypeOK, Timely
    <2>2. BatchRows \subseteq Row
      BY <1>5, InFlightTyped, Unfolded DEF InFlightOf, CommitBatch
    <2>3. IsFiniteSet(BatchRows)
      BY <2>1, BatchNumbers, Unfolded
    <2>4. IsFiniteSet(feed') /\ feed' \subseteq Row
      <3>1. feed' = feed \cup BatchRows
        BY <1>5 DEF CommitBatch
      <3>2. IsFiniteSet(feed \cup BatchRows)
        BY <2>3, FS_Union
      <3> QED
        BY <2>2, <3>1, <3>2 DEF TypeOK
    <2>5. batch' \in [pc : {"new", "staging", "logged", "done"}, at : 0..MaxTime, seq : Nat]
      BY <1>0, <1>5 DEF CommitBatch, Idle
    <2>6. /\ DOMAIN store' = Files
          /\ \A f \in Files : store'[f] \in [expires : 0..Horizon + TTL, fetched : BOOLEAN,
                                              acked : 0..MaxTime \cup {NoAck}]
      <3>1. batch.at + TTL \in 0..Horizon + TTL /\ NoAck \in 0..MaxTime \cup {NoAck} /\ FALSE \in BOOLEAN
        BY <2>1
      <3>2. store' = StagedFiles
        BY <1>5 DEF CommitBatch
      <3> QED
        BY <3>1, <3>2 DEF StagedFiles
    <2>7. TypeOK'
      BY <1>5, <2>4, <2>5, <2>6 DEF CommitBatch, TypeOK
    <2> QED
      BY <1>5, <2>4, <2>7 DEF CommitBatch, Shape
  <1>6. CASE RollbackBatch
    <2>1. batch' \in [pc : {"new", "staging", "logged", "done"}, at : 0..MaxTime, seq : Nat]
      BY <1>0, <1>6 DEF RollbackBatch, Idle
    <2>2. faults' \in 0..MaxFaults
      BY <1>6 DEF RollbackBatch, Fault, TypeOK
    <2>3. TypeOK'
      BY <1>6, <2>1, <2>2 DEF RollbackBatch, TypeOK
    <2> QED
      BY <1>6, <2>3 DEF RollbackBatch, Shape
  <1>7. CASE Polls
    <2>1. TypeOK'
      BY <1>7, PollFrame DEF TypeOK
    <2> QED
      BY <1>7, <2>1, PollFrame DEF Shape
  <1>8. CASE FileSteps
    <2>1. FileEffect
      BY <1>8, FileFrame
    <2>2. DOMAIN store' \subseteq Files
      BY <2>1 DEF FileEffect, TypeOK
    <2>3. \A f \in DOMAIN store' : store'[f] \in [expires : 0..Horizon + TTL, fetched : BOOLEAN,
                                                   acked : 0..MaxTime \cup {NoAck}]
      <3>1. SUFFICES ASSUME NEW f \in DOMAIN store'
                     PROVE  store'[f] \in [expires : 0..Horizon + TTL, fetched : BOOLEAN,
                                           acked : 0..MaxTime \cup {NoAck}]
        OBVIOUS
      <3>2. StoreKept(f) /\ f \in DOMAIN store
        BY <2>1 DEF FileEffect
      <3>3. store[f].expires \in 0..Horizon + TTL /\ store[f].acked \in 0..MaxTime \cup {NoAck}
        BY <3>2 DEF TypeOK
      <3>4. store'[f].expires \in 0..Horizon + TTL /\ store'[f].acked \in 0..MaxTime \cup {NoAck}
        BY <1>0, <3>2, <3>3 DEF StoreKept
      <3>5. store'[f].fetched \in BOOLEAN
            /\ store'[f] = [expires |-> store'[f].expires, fetched |-> store'[f].fetched,
                            acked |-> store'[f].acked]
        BY <3>2 DEF StoreKept
      <3> QED
        BY <3>4, <3>5
    <2>4. TypeOK'
      BY <2>1, <2>2, <2>3 DEF FileEffect, TypeOK
    <2> QED
      BY <2>1, <2>4 DEF FileEffect, Shape
  <1>9. CASE PruneActivity
    <2>1. feed' \in SUBSET feed
      BY <1>9 DEF PruneActivity
    <2>2. IsFiniteSet(feed')
      BY <2>1, FS_Subset
    <2>3. TypeOK'
      BY <1>9, <2>1 DEF PruneActivity, TypeOK
    <2> QED
      BY <1>9, <2>2, <2>3 DEF PruneActivity, Shape
  <1>10. CASE Tick
    <2>1. now' \in 0..MaxTime
      BY <1>0, <1>10 DEF Tick
    <2>2. TypeOK'
      BY <1>10, <2>1 DEF Tick, TypeOK
    <2> QED
      BY <1>10, <2>2 DEF Tick, Shape
  <1> QED
    BY <1>1, <1>2, <1>3, <1>4, <1>5, <1>6, <1>7, <1>8, <1>9, <1>10 DEF Kinds

-----------------------------------------------------------------------------
(* Places in the order.                                                    *)

LEMMA TimelyKept ==
    ASSUME PollInv, Kinds
    PROVE  Timely'
  <1> USE PollAssumption
  <1> TypeOK /\ Timely
    BY DEF PollInv
  <1>0. now \in Nat /\ Hold \in Nat /\ Horizon \in Nat /\ nextSeq \in Nat
        /\ batch.at \in Nat /\ \A m \in Messages : sender[m].at \in Nat
    BY DEF TypeOK
  <1>1. ASSUME NEW m \in Messages, Opens(m)  PROVE Timely'
    <2>1. PICK pc \in {"ingesting", "queueing"} :
             /\ Draw(m, pc)
             /\ pc = "ingesting" => now <= Horizon
             /\ pc = "queueing" => sender[m].pc = "routing"
      BY <1>1 DEF Opens
    <2>2. /\ sender'[m] = [pc |-> pc, at |-> now, seq |-> nextSeq]
          /\ \A k \in Messages : k # m => sender'[k] = sender[k]
      BY <2>1, OneSender DEF Draw
    <2>3. now <= Horizon + Hold
      BY <1>0, <2>1 DEF Timely
    <2> QED
      BY <1>0, <1>1, <2>1, <2>2, <2>3 DEF Opens, Timely
  <1>2. ASSUME NEW m \in Messages, Closes(m)  PROVE Timely'
    <2>1. PICK s \in SenderState :
             /\ sender' = [sender EXCEPT ![m] = s]
             /\ s.pc \notin {"ingesting", "queueing"}
             /\ s.pc = "routing" => \/ sender[m].pc = "ingesting" /\ s.at = sender[m].at
                                    \/ s.at = now /\ now <= Horizon
      BY <1>2 DEF Closes
    <2>2. sender'[m] = s /\ \A k \in Messages : k # m => sender'[k] = sender[k]
      BY <2>1, OneSender
    <2> QED
      BY <1>0, <1>2, <2>1, <2>2 DEF Closes, Timely
  <1>3. CASE StageBatch \/ LogBatch \/ CommitBatch \/ RollbackBatch
    <2>1. UNCHANGED <<now, sender>>
      BY <1>3 DEF StageBatch, LogBatch, CommitBatch, RollbackBatch
    <2>2. (batch'.at = now /\ now <= Horizon) \/ batch'.at = batch.at \/ batch'.at = 0
      <3>1. CASE StageBatch
        BY <3>1 DEF StageBatch
      <3>2. CASE LogBatch
        BY <3>2 DEF LogBatch, TypeOK
      <3>3. CASE CommitBatch \/ RollbackBatch
        BY <3>3 DEF CommitBatch, RollbackBatch, Idle
      <3> QED
        BY <1>3, <3>1, <3>2, <3>3
    <2>3. batch'.at <= now /\ batch'.at <= Horizon
      BY <1>0, <2>2 DEF Timely
    <2> QED
      BY <2>1, <2>3 DEF Timely
  <1>4. CASE Polls \/ FileSteps \/ PruneActivity
    <2>1. UNCHANGED <<now, sender, batch>>
      BY <1>4, PollFrame, FileFrame DEF FileEffect, PruneActivity
    <2> QED
      BY <2>1 DEF Timely
  <1>5. CASE Tick
    BY <1>0, <1>5 DEF Tick, Prompt, Timely
  <1> QED
    BY <1>1, <1>2, <1>3, <1>4, <1>5 DEF Kinds

\* A step draws rows from now and from the sequence on, no number twice.
DrawsFresh ==
    /\ now <= now' /\ nextSeq <= nextSeq'
    /\ \A r \in Drawn' : \/ r \in Drawn
                         \/ /\ r.at \in Nat /\ r.at <= now
                            /\ r.seq \in Nat /\ nextSeq <= r.seq /\ r.seq < nextSeq'
    /\ \A r, s \in Drawn' : r.seq = s.seq => r = s \/ r \in Drawn \/ s \in Drawn

LEMMA OnlyFreshDraws ==
    ASSUME PollInv, Kinds
    PROVE  DrawsFresh
  <1> USE PollAssumption
  <1> TypeOK /\ Timely
    BY DEF PollInv
  <1>0. now \in Nat /\ nextSeq \in Nat /\ batch.at \in Nat /\ batch.seq \in Nat
        /\ Cardinality(Files) \in Nat
    BY FilesListed DEF TypeOK
  <1> DEFINE Before0 == feed \cup consumed \cup OpenOf(sender) \cup LoggedOf(batch)
  <1>a. Drawn = Before0 /\ Drawn' = feed' \cup consumed' \cup OpenOf(sender') \cup LoggedOf(batch')
    BY Unfolded DEF Drawn
  <1>1. ASSUME NEW m \in Messages, Opens(m)  PROVE DrawsFresh
    <2> DEFINE new == [id |-> m, at |-> now, seq |-> nextSeq]
    <2>1. PICK pc \in {"ingesting", "queueing"} : Draw(m, pc)
      BY <1>1 DEF Opens
    <2>3. \A r \in OpenOf(sender') : r \in OpenOf(sender) \/ r = new
      BY <2>1, DrawnOpen
    <2>4. nextSeq' = nextSeq + 1 /\ UNCHANGED <<now, feed, consumed, batch>>
      BY <1>1, <2>1 DEF Opens, Draw
    <2>5. \A r \in Drawn' : r \in Drawn \/ r = new
      BY <1>a, <2>3, <2>4
    <2>6. new.at = now /\ new.seq = nextSeq
      OBVIOUS
    <2> HIDE DEF new
    <2> QED
      BY <1>0, <2>4, <2>5, <2>6 DEF DrawsFresh
  <1>2. ASSUME NEW m \in Messages, Closes(m)  PROVE DrawsFresh
    <2>1. PICK s \in SenderState : /\ sender' = [sender EXCEPT ![m] = s]
                                   /\ s.pc \notin {"ingesting", "queueing"}
      BY <1>2 DEF Closes
    <2>3. \A r \in OpenOf(sender') : r \in OpenOf(sender)
      BY <2>1, OpenChange
    <2>4. feed' \subseteq feed \cup OpenOf(sender)
      BY <1>2, ClosedFeed
    <2>5. UNCHANGED <<now, nextSeq, consumed, batch>>
      BY <1>2 DEF Closes
    <2>6. Drawn' \subseteq Drawn
      BY <1>a, <2>3, <2>4, <2>5
    <2> QED
      BY <1>0, <2>5, <2>6 DEF DrawsFresh
  <1>3. CASE StageBatch \/ RollbackBatch
    <2>1. UNCHANGED <<now, nextSeq, feed, consumed, sender>> /\ batch'.pc # "logged"
      BY <1>3 DEF StageBatch, RollbackBatch, Idle
    <2>2. Drawn' \subseteq Drawn
      BY <1>a, <2>1 DEF LoggedOf
    <2> QED
      BY <1>0, <2>1, <2>2 DEF DrawsFresh
  <1>4. CASE LogBatch
    <2> DEFINE new == RowsFrom(batch.at, nextSeq)
    <2>1. /\ UNCHANGED <<now, feed, consumed, sender>>
          /\ batch'.pc = "logged" /\ batch'.at = batch.at /\ batch'.seq = nextSeq
          /\ nextSeq' = nextSeq + Cardinality(Files)
      BY <1>4 DEF LogBatch, TypeOK
    <2>2. LoggedOf(batch') = new
      BY <2>1 DEF LoggedOf
    <2>3. /\ \A r \in new : r.at = batch.at /\ r.seq \in Nat /\ nextSeq <= r.seq
                            /\ r.seq < nextSeq + Cardinality(Files)
          /\ \A r, s \in new : r.seq = s.seq => r = s
      BY <1>0, BatchNumbers
    <2>4. \A r \in Drawn' : r \in Drawn \/ r \in new
      BY <1>a, <2>1, <2>2
    <2>5. batch.at <= now
      BY DEF Timely
    <2> HIDE DEF new
    <2> QED
      BY <1>0, <2>1, <2>3, <2>4, <2>5 DEF DrawsFresh
  <1>5. CASE CommitBatch
    <2>1. /\ UNCHANGED <<now, nextSeq, consumed, sender>> /\ batch'.pc # "logged"
          /\ batch.pc = "logged" /\ feed' = feed \cup BatchRows
      BY <1>5 DEF CommitBatch, Idle
    <2>2. Drawn' \subseteq Drawn
      BY <1>a, <2>1, Unfolded DEF LoggedOf
    <2> QED
      BY <1>0, <2>1, <2>2 DEF DrawsFresh
  <1>6. CASE Polls \/ FileSteps \/ PruneActivity \/ Tick
    <2>1. /\ UNCHANGED <<nextSeq, sender, batch>> /\ now <= now'
          /\ feed' \subseteq feed /\ consumed' \subseteq consumed \cup feed
      BY <1>0, <1>6, PollFrame, FileFrame DEF FileEffect, PruneActivity, Tick
    <2>2. Drawn' \subseteq Drawn
      BY <1>a, <2>1
    <2> QED
      BY <1>0, <2>1, <2>2 DEF DrawsFresh
  <1> QED
    BY <1>1, <1>2, <1>3, <1>4, <1>5, <1>6 DEF Kinds

LEMMA NumbersKept ==
    ASSUME PollInv, Kinds, TypeOK'
    PROVE  Numbered' /\ SeqsUnique'
  <1>1. DrawsFresh
    BY OnlyFreshDraws
  <1>2. now \in Nat /\ now' \in Nat /\ nextSeq \in Nat /\ nextSeq' \in Nat
    BY PollAssumption DEF PollInv, TypeOK
  <1>3. \A r \in Drawn : r.at \in Nat /\ r.seq \in Nat
    <2>1. feed \subseteq Row /\ consumed \subseteq Row /\ InFlight \subseteq Row
      BY InFlightTyped DEF PollInv, TypeOK
    <2>2. Drawn \subseteq Row
      BY <2>1, Unfolded DEF Drawn, InFlightOf, LoggedOf
    <2> QED
      BY <2>2, PollAssumption DEF Row
  <1>4. Numbered'
    <2>1. SUFFICES ASSUME NEW r \in Drawn'  PROVE r.at <= now' /\ r.seq < nextSeq'
      BY DEF Numbered
    <2>2. CASE r \in Drawn
      <3>1. r.at <= now /\ r.seq < nextSeq /\ r.at \in Nat /\ r.seq \in Nat
        BY <1>3, <2>2 DEF PollInv, Numbered
      <3> QED
        BY <1>1, <1>2, <3>1 DEF DrawsFresh
    <2>3. CASE r \notin Drawn
      BY <1>1, <1>2, <2>1, <2>3 DEF DrawsFresh
    <2> QED
      BY <2>2, <2>3
  <1>5. SeqsUnique'
    <2>1. SUFFICES ASSUME NEW r \in Drawn', NEW s \in Drawn', r.seq = s.seq  PROVE r = s
      BY DEF SeqsUnique
    <2>2. CASE r \in Drawn /\ s \in Drawn
      BY <2>1, <2>2 DEF PollInv, SeqsUnique
    <2>3. ASSUME NEW q \in Drawn, NEW n \in Drawn', n \notin Drawn  PROVE q.seq # n.seq
      <3>1. q.seq \in Nat /\ q.seq < nextSeq
        BY <1>3, <2>3 DEF PollInv, Numbered
      <3>2. n.seq \in Nat /\ nextSeq <= n.seq
        BY <1>1, <2>3 DEF DrawsFresh
      <3> QED
        BY <1>2, <3>1, <3>2
    <2> QED
      BY <1>1, <2>1, <2>2, <2>3 DEF DrawsFresh
  <1> QED
    BY <1>4, <1>5

-----------------------------------------------------------------------------
(* The cursor.                                                             *)

\* A page after a cursor has no gap: what is before one of its rows is in it.
LEMMA PageIsPrefix ==
    ASSUME NEW rows \in SUBSET Row, IsFiniteSet(rows),
           NEW n \in FirstRows(rows), NEW r \in rows, Before(r, n)
    PROVE  r \in FirstRows(rows)
  <1> DEFINE A == {s \in rows : Before(s, r)}
             B == {s \in rows : Before(s, n)}
  <1>1. n \in rows /\ Cardinality(B) < Limit
    BY DEF FirstRows
  <1>2. A \in SUBSET B
    <2>1. SUFFICES ASSUME NEW s \in rows, Before(s, r)  PROVE Before(s, n)
      OBVIOUS
    <2>2. /\ s.at \in Int /\ s.seq \in Int /\ r.at \in Int /\ r.seq \in Int
          /\ n.at \in Int /\ n.seq \in Int
      BY <1>1, PollAssumption DEF Row
    <2> QED
      BY <2>1, <2>2 DEF Before
  <1>3. IsFiniteSet(B)
    <2>1. B \in SUBSET rows
      OBVIOUS
    <2> QED
      BY <2>1, FS_Subset
  <1>4. Cardinality(A) <= Cardinality(B) /\ IsFiniteSet(A)
    BY <1>2, <1>3, FS_Subset
  <1>5. Cardinality(A) \in Nat /\ Cardinality(B) \in Nat
    BY <1>3, <1>4, FS_CardinalityType
  <1>6. Cardinality(A) < Limit
    BY <1>1, <1>4, <1>5, PollAssumption
  <1> QED
    BY <1>6 DEF FirstRows

\* Where the cursor stands: behind the clock and the sequence.
LEMMA CursorPlace ==
    ASSUME PollInv, NEW c \in cursor
    PROVE  /\ c \in Row /\ c \in consumed /\ c \in Drawn /\ c.id \in Told
           /\ c.at \in Nat /\ c.seq \in Nat /\ c.at <= now /\ c.seq < nextSeq
  <1>1. c \in consumed /\ c \in Row
    BY DEF PollInv, TypeOK
  <1>2. c \in Drawn
    BY <1>1 DEF Drawn
  <1>3. c.at <= now /\ c.seq < nextSeq
    BY <1>2 DEF PollInv, Numbered
  <1>4. c.at \in Nat /\ c.seq \in Nat
    BY <1>1, PollAssumption DEF Row
  <1> QED
    BY <1>1, <1>2, <1>3, <1>4 DEF Told

\* A batch that has not drawn its numbers is behind a row by its time alone:
\* it stays behind, and ahead, when it draws them.
LEMMA PlaceByTime ==
    ASSUME PollInv, NEW c \in cursor, batch.pc = "staging", NEW r,
           r.id \in Files, r.at = batch.at, r.seq \in Nat, nextSeq <= r.seq, Before(r, c)
    PROVE  r.id \in Told \cup excused
  <1> DEFINE g == [id |-> r.id, at |-> batch.at, seq |-> nextSeq]
  <1>1. /\ c.at \in Nat /\ c.seq \in Nat /\ c.seq < nextSeq /\ nextSeq \in Nat /\ batch.at \in Nat
    BY CursorPlace, PollAssumption DEF PollInv, TypeOK
  <1>2. Before(g, c)
    BY <1>1 DEF Before
  <1>3. g \in InFlight
    BY GhostMember, Unfolded DEF InFlightOf
  <1>4. g.id \in Told \cup excused
    BY <1>2, <1>3 DEF PollInv, PassedKnown
  <1> QED
    BY <1>4

\* The rows of a step of a writer, seen from the cursor.
LEMMA PassedByWriters ==
    ASSUME PollInv, UNCHANGED <<cursor, consumed, excused>>,
           \A r \in feed' \cup InFlight' : \A c \in cursor :
               Before(r, c) => r.id \in Told \cup excused
    PROVE  PassedKnown'
  BY DEF PassedKnown, Told

LEMMA PassedKept ==
    ASSUME PollInv, Kinds
    PROVE  PassedKnown'
  <1> USE PollAssumption
  <1> TypeOK /\ Timely /\ PassedKnown /\ IsFiniteSet(feed) /\ feed \subseteq Row
    BY DEF PollInv, TypeOK
  <1>0. /\ now \in Nat /\ nextSeq \in Nat /\ batch.at \in Nat /\ batch.seq \in Nat
        /\ Cardinality(Files) \in Nat
    BY FilesListed DEF TypeOK
  <1>a. \A r \in feed \cup InFlight : \A c \in cursor : Before(r, c) => r.id \in Told \cup excused
    BY DEF PassedKnown
  <1>b. \A c \in cursor : c.at \in Nat /\ c.seq \in Nat /\ c.at <= now /\ c.seq < nextSeq
    BY CursorPlace
  <1>1. ASSUME NEW m \in Messages, Opens(m)  PROVE PassedKnown'
    <2> DEFINE new == [id |-> m, at |-> now, seq |-> nextSeq]
    <2>1. PICK pc \in {"ingesting", "queueing"} : Draw(m, pc)
      BY <1>1 DEF Opens
    <2>2. UNCHANGED <<feed, batch, cursor, consumed, excused>> /\ nextSeq' = nextSeq + 1
      BY <1>1, <2>1 DEF Opens, Draw
    <2>3. \A r \in OpenOf(sender') : r \in OpenOf(sender) \/ r = new
      BY <2>1, DrawnOpen
    <2>4. ASSUME NEW r \in feed' \cup InFlight', NEW c \in cursor, Before(r, c)
          PROVE  r.id \in Told \cup excused
      <3>1. CASE r = new
        BY <1>0, <1>b, <2>4, <3>1 DEF Before
      <3>2. CASE batch.pc = "staging" /\ r \in Ghosts(batch.at, nextSeq + 1)
        <4>1. r.id \in Files /\ r.at = batch.at /\ r.seq = nextSeq + 1
          BY <3>2, GhostMember
        <4>2. r.seq \in Nat /\ nextSeq <= r.seq
          BY <1>0, <4>1
        <4> QED
          BY <2>4, <3>2, <4>1, <4>2, PlaceByTime
      <3>3. CASE r \in feed \cup InFlight
        BY <1>a, <2>4, <3>3
      <3> QED
        BY <2>2, <2>3, <2>4, <3>1, <3>2, <3>3, Unfolded DEF InFlightOf
    <2> QED
      BY <2>2, <2>4, PassedByWriters
  <1>2. ASSUME NEW m \in Messages, Closes(m)  PROVE PassedKnown'
    <2>1. PICK s \in SenderState : /\ sender' = [sender EXCEPT ![m] = s]
                                   /\ s.pc \notin {"ingesting", "queueing"}
      BY <1>2 DEF Closes
    <2>2. UNCHANGED <<batch, nextSeq, cursor, consumed, excused>>
      BY <1>2 DEF Closes
    <2>3. \A r \in OpenOf(sender') : r \in OpenOf(sender)
      BY <2>1, OpenChange
    <2>4. feed' \subseteq feed \cup OpenOf(sender)
      BY <1>2, ClosedFeed
    <2>5. feed' \cup InFlight' \subseteq feed \cup InFlight
      BY <2>2, <2>3, <2>4, Unfolded DEF InFlightOf
    <2> QED
      BY <1>a, <2>2, <2>5, PassedByWriters
  <1>3. CASE StageBatch
    <2>1. /\ UNCHANGED <<feed, sender, nextSeq, cursor, consumed, excused>>
          /\ batch'.pc = "staging" /\ batch'.at = now
      BY <1>3 DEF StageBatch
    <2>2. ASSUME NEW r \in feed' \cup InFlight', NEW c \in cursor, Before(r, c)
          PROVE  r.id \in Told \cup excused
      <3>1. CASE r \in Ghosts(now, nextSeq)
        <4>1. r.at = now /\ r.seq = nextSeq
          BY <3>1, GhostMember
        <4> QED
          BY <1>0, <1>b, <2>2, <4>1 DEF Before
      <3>2. CASE r \in feed \cup OpenOf(sender)
        BY <1>a, <2>2, <3>2, Unfolded DEF InFlightOf
      <3> QED
        BY <2>1, <2>2, <3>1, <3>2, Unfolded DEF InFlightOf
    <2> QED
      BY <2>1, <2>2, PassedByWriters
  <1>4. CASE LogBatch
    <2>1. /\ UNCHANGED <<feed, sender, cursor, consumed, excused>> /\ batch.pc = "staging"
          /\ batch'.pc = "logged" /\ batch'.at = batch.at /\ batch'.seq = nextSeq
      BY <1>4 DEF LogBatch, TypeOK
    <2>2. ASSUME NEW r \in feed' \cup InFlight', NEW c \in cursor, Before(r, c)
          PROVE  r.id \in Told \cup excused
      <3>1. CASE r \in RowsFrom(batch.at, nextSeq)
        <4>1. r.id \in Files /\ r.at = batch.at /\ r.seq \in Nat /\ nextSeq <= r.seq
          BY <1>0, <3>1, BatchNumbers
        <4> QED
          BY <2>1, <2>2, <4>1, PlaceByTime
      <3>2. CASE r \in feed \cup OpenOf(sender)
        BY <1>a, <2>2, <3>2, Unfolded DEF InFlightOf
      <3> QED
        BY <2>1, <2>2, <3>1, <3>2, Unfolded DEF InFlightOf
    <2> QED
      BY <2>1, <2>2, PassedByWriters
  <1>5. CASE CommitBatch \/ RollbackBatch
    <2>1. /\ UNCHANGED <<sender, nextSeq, cursor, consumed, excused>>
          /\ batch'.pc \notin {"logged", "staging"}
          /\ feed' = feed \/ (batch.pc = "logged" /\ feed' = feed \cup BatchRows)
      BY <1>5 DEF CommitBatch, RollbackBatch, Idle
    <2>2. feed' \cup InFlight' \subseteq feed \cup InFlight
      BY <2>1, Unfolded DEF InFlightOf
    <2> QED
      BY <1>a, <2>1, <2>2, PassedByWriters
  <1>6. CASE Polls
    <2>1. /\ UNCHANGED <<feed, sender, batch, nextSeq>> /\ InFlight' = InFlight
          /\ Told \subseteq Told' /\ excused \subseteq excused'
      BY <1>6, PollFrame, Unfolded DEF Told
    <2>2. ASSUME cursor' \subseteq cursor  PROVE PassedKnown'
      BY <1>a, <2>1, <2>2 DEF PassedKnown
    <2>3. CASE PollSince
      <3>1. PICK c \in cursor : TakePage(FirstRows(AfterCursor(c)), {})
        BY <2>3 DEF PollSince
      <3> DEFINE page == FirstRows(AfterCursor(c))
      <3>2. page \in SUBSET feed /\ {} \subseteq feed /\ AfterCursor(c) \in SUBSET feed
        BY DEF FirstRows, AfterCursor
      <3>3. /\ consumed' = consumed \cup page
            /\ cursor' = cursor \/ (cursor' = Newest(page) /\ cursor' \subseteq page)
            /\ \A r \in InFlight : \A n \in cursor' :
                  cursor' # cursor /\ Before(r, n) => r.id \in excused'
        BY <3>1, <3>2, PageTaken
      <3>4. IsFiniteSet(AfterCursor(c)) /\ AfterCursor(c) \in SUBSET Row
        BY <3>2, FS_Subset
      <3>5. ASSUME cursor' # cursor, NEW n \in cursor', NEW r \in feed, Before(r, n), r \notin page
            PROVE  r.id \in Told \cup excused
        <4>1. n \in page
          BY <3>3, <3>5
        <4>2. r \notin AfterCursor(c)
          BY <3>4, <3>5, <4>1, PageIsPrefix
        <4>3. ~Before(c, r)
          BY <4>2 DEF AfterCursor
        <4>4. r.at \in Nat /\ r.seq \in Nat
          BY DEF Row
        <4>5. CASE Before(r, c)
          BY <1>a, <4>5
        <4>6. CASE r.at = c.at /\ r.seq = c.seq
          <5>1. r \in Drawn /\ c \in Drawn
            BY CursorPlace DEF Drawn
          <5>2. r = c
            BY <4>6, <5>1 DEF PollInv, SeqsUnique
          <5> QED
            BY <5>2, CursorPlace
        <4> QED
          BY <1>b, <4>3, <4>4, <4>5, <4>6 DEF Before
      <3>6. \A r \in page : r.id \in Told'
        BY <3>3 DEF Told
      <3>7. CASE cursor' # cursor
        BY <2>1, <3>3, <3>5, <3>6, <3>7 DEF PassedKnown
      <3> QED
        BY <2>2, <3>7
    <2>4. CASE PollGone
      BY <2>2, <2>4 DEF PollGone
    <2>5. CASE PollRecent
      <3> DEFINE page == LastRows(feed)
      <3>1. page \in SUBSET feed /\ feed \ page \subseteq feed
        BY DEF LastRows
      <3>2. TakePage(page, feed \ page)
        BY <2>5 DEF PollRecent
      <3>3. /\ consumed' = consumed \cup page
            /\ \A r \in InFlight \cup (feed \ page) : \A n \in cursor' :
                  cursor' # cursor /\ Before(r, n) => r.id \in excused'
        BY <3>1, <3>2, PageTaken
      <3>4. \A r \in page : r.id \in Told'
        BY <3>3 DEF Told
      <3>5. CASE cursor' # cursor
        BY <2>1, <3>3, <3>4, <3>5 DEF PassedKnown
      <3> QED
        BY <2>2, <3>5
    <2> QED
      BY <1>6, <2>3, <2>4, <2>5 DEF Polls
  <1>7. CASE FileSteps \/ PruneActivity \/ Tick
    <2>1. UNCHANGED <<sender, batch, nextSeq, cursor, consumed, excused>> /\ feed' \subseteq feed
      BY <1>7, FileFrame DEF FileEffect, PruneActivity, Tick
    <2>2. InFlight' = InFlight
      BY <2>1, Unfolded
    <2> QED
      BY <1>a, <2>1, <2>2, PassedByWriters
  <1> QED
    BY <1>1, <1>2, <1>3, <1>4, <1>5, <1>6, <1>7 DEF Kinds

-----------------------------------------------------------------------------
(* Committed rows.                                                         *)

\* A row a step commits: the open row of a handler, of a messageId the feed
\* does not have, or a row of the batch.
Commits(r) ==
    \/ \E m \in Messages :
          /\ r.id = m /\ r.at = sender[m].at /\ sender[m].pc \in {"ingesting", "queueing"}
          /\ m \in Keyed => \A s \in feed : s.id # m
          /\ feed' = feed \cup {r} /\ UNCHANGED <<now, consumed, batch, store, agent>>
    \/ CommitBatch /\ r \in BatchRows

LEMMA OnlyCommits ==
    ASSUME TypeOK, Kinds
    PROVE  /\ \A r \in feed' \cup consumed' : r \in feed \cup consumed \/ Commits(r)
           /\ consumed \subseteq consumed' /\ consumed' \subseteq consumed \cup feed
           /\ PruneActivity \/ feed \subseteq feed'
           /\ now' = now \/ now' = now + 1
  <1>1. ASSUME NEW m \in Messages, Opens(m)
        PROVE  feed' = feed /\ consumed' = consumed /\ now' = now
    BY <1>1 DEF Opens
  <1>2. ASSUME NEW m \in Messages, Closes(m)
        PROVE  /\ \A r \in feed' : r \in feed \/ Commits(r)
               /\ feed \subseteq feed' /\ consumed' = consumed /\ now' = now
    <2>1. UNCHANGED <<now, consumed, batch, store, agent>>
      BY <1>2 DEF Closes
    <2>2. ASSUME NEW r \in feed', r \notin feed  PROVE Commits(r)
      <3>1. /\ r = OpenRow(m) /\ r.id = m /\ sender[m].pc \in {"ingesting", "queueing"}
            /\ m \in Keyed => \A s \in feed : s.id # m
            /\ feed' = feed \cup {r}
        BY <1>2, <2>2, ClosedFeed
      <3>2. r.at = sender[m].at
        BY <3>1 DEF OpenRow
      <3> QED
        BY <2>1, <3>1, <3>2 DEF Commits
    <2> QED
      BY <1>2, <2>1, <2>2, ClosedFeed
  <1>3. CASE StageBatch \/ LogBatch \/ RollbackBatch \/ FileSteps \/ Tick
    <2>1. feed' = feed /\ consumed' = consumed /\ (now' = now \/ now' = now + 1)
      BY <1>3, FileFrame DEF StageBatch, LogBatch, RollbackBatch, FileEffect, Tick
    <2> QED
      BY <2>1
  <1>4. CASE CommitBatch
    BY <1>4 DEF CommitBatch, Commits
  <1>5. CASE Polls
    BY <1>5, PollFrame
  <1>6. CASE PruneActivity
    BY <1>6 DEF PruneActivity
  <1> QED
    BY <1>1, <1>2, <1>3, <1>4, <1>5, <1>6 DEF Kinds

\* The row of a commit is a row, of a message in time or of a file.
LEMMA CommitPlace ==
    ASSUME PollInv, NEW r, Commits(r)
    PROVE  /\ r.at \in Nat
           /\ r.id \in Messages => /\ r.at <= now /\ now <= r.at + Hold /\ r.at <= Horizon + Hold
                                   /\ r.id \in Keyed => \A s \in feed : s.id # r.id
                                   /\ feed' = feed \cup {r} /\ consumed' = consumed
           /\ r.id \in Messages \/ (CommitBatch /\ r.id \in Files /\ r.at = batch.at)
  <1> USE PollAssumption
  <1>1. ASSUME CommitBatch, r \in BatchRows
        PROVE  r.at \in Nat /\ r.id \in Files /\ r.id \notin Messages /\ r.at = batch.at
    <2>1. batch.at \in Nat /\ batch.seq \in Nat
      BY DEF PollInv, TypeOK
    <2>2. r.id \in Files /\ r.at = batch.at
      BY <1>1, <2>1, BatchNumbers, Unfolded
    <2> QED
      BY <2>1, <2>2
  <1>2. ASSUME NEW m \in Messages, r.id = m, r.at = sender[m].at,
               sender[m].pc \in {"ingesting", "queueing"}
        PROVE  r.at \in Nat /\ r.at <= now /\ now <= r.at + Hold /\ r.at <= Horizon + Hold
    BY <1>2 DEF PollInv, TypeOK, Timely
  <1> QED
    BY <1>1, <1>2 DEF Commits

LEMMA CommittedKept ==
    ASSUME PollInv, Kinds
    PROVE  GoneIsOld' /\ EarlyRows' /\ RepeatsSpaced'
  <1> USE PollAssumption
  <1> TypeOK /\ GoneIsOld /\ EarlyRows /\ RepeatsSpaced
    BY DEF PollInv
  <1>0. /\ now \in Nat /\ Retention \in Nat /\ Hold \in Nat
        /\ \A r \in feed \cup consumed : r.at \in Nat
    BY DEF TypeOK, Row
  <1>1. /\ \A r \in feed' \cup consumed' : r \in feed \cup consumed \/ Commits(r)
        /\ consumed' \subseteq consumed \cup feed
        /\ PruneActivity \/ feed \subseteq feed'
        /\ now' = now \/ now' = now + 1
    BY OnlyCommits
  <1>2. GoneIsOld'
    <2>1. SUFFICES ASSUME NEW r \in consumed', r \notin feed'  PROVE r.at + Retention < now'
      BY DEF GoneIsOld
    <2>2. CASE PruneActivity /\ r \in feed
      <3>1. ~(r.at >= now - Retention) /\ now' = now
        BY <2>1, <2>2 DEF PruneActivity
      <3> QED
        BY <1>0, <2>2, <3>1
    <2>3. CASE r \notin feed
      <3>1. r.at + Retention < now /\ r.at \in Nat
        BY <1>0, <1>1, <2>1, <2>3 DEF GoneIsOld
      <3> QED
        BY <1>0, <1>1, <3>1
    <2> QED
      BY <1>1, <2>1, <2>2, <2>3
  <1>3. EarlyRows'
    BY <1>1, CommitPlace DEF EarlyRows
  <1>4. RepeatsSpaced'
    <2>1. SUFFICES ASSUME NEW r \in feed' \cup consumed', NEW s \in feed' \cup consumed',
                          r.id = s.id, r.id \in Keyed, r # s
                   PROVE  r.at + Retention < s.at + Hold \/ s.at + Retention < r.at + Hold
      BY DEF RepeatsSpaced
    <2>2. CASE r \in feed \cup consumed /\ s \in feed \cup consumed
      BY <2>1, <2>2 DEF RepeatsSpaced
    <2>3. ASSUME NEW n, Commits(n), n.id \in Keyed, NEW o \in feed \cup consumed, o.id = n.id
          PROVE  o.at + Retention < n.at + Hold
      <3>1. n.id \in Messages /\ n.at \in Nat /\ now <= n.at + Hold /\ \A q \in feed : q.id # n.id
        BY <2>3, CommitPlace
      <3>2. o.at + Retention < now /\ o.at \in Nat
        BY <1>0, <2>3, <3>1 DEF GoneIsOld
      <3> QED
        BY <1>0, <3>1, <3>2
    <2>4. CASE Commits(r) /\ Commits(s)
      <3>1. r.id \in Messages /\ s.id \in Messages
        BY <2>1
      <3>2. feed' \cup consumed' = feed \cup consumed \cup {r}
        BY <2>4, <3>1, CommitPlace
      <3>3. s \in feed \cup consumed
        BY <2>1, <3>2
      <3> QED
        BY <2>1, <2>3, <2>4, <3>3
    <2> QED
      BY <1>1, <2>1, <2>2, <2>3, <2>4
  <1> QED
    BY <1>2, <1>3, <1>4

LEMMA FilesKept ==
    ASSUME PollInv, Kinds
    PROVE  FilesHeld'
  <1> USE PollAssumption
  <1> TypeOK /\ FilesHeld
    BY DEF PollInv
  <1>0. /\ now \in Nat /\ TTL \in Nat /\ \A r \in feed \cup consumed : r.at \in Nat
        /\ DOMAIN store \subseteq Files /\ NoAck \notin Nat
    BY DEF TypeOK, Row, NoAck
  <1>1. ASSUME UNCHANGED <<store, agent>>, now <= now', now' \in Nat,
               batch'.pc = "done" <=> batch.pc = "done",
               \A r \in feed' \cup consumed' : r.id \in Files => r \in feed \cup consumed
        PROVE  FilesHeld'
    <2>1. \A r \in feed \cup consumed : now' <= r.at + TTL => now <= r.at + TTL
      BY <1>0, <1>1
    <2> QED
      BY <1>1, <2>1 DEF FilesHeld
  <1>2. ASSUME NEW r \in feed' \cup consumed', r.id \in Files  PROVE r \in feed \cup consumed \/ CommitBatch
    <2>1. r.id \notin Messages
      BY <1>2
    <2> QED
      BY <1>2, <2>1, OnlyCommits, CommitPlace
  <1>3. ASSUME NEW m \in Messages, Opens(m) \/ Closes(m)  PROVE FilesHeld'
    <2>1. UNCHANGED <<store, agent, now, batch>> /\ ~CommitBatch
      <3>1. UNCHANGED <<store, agent, now, batch>>
        BY <1>3 DEF Opens, Closes
      <3>2. CommitBatch => batch.pc = "logged" /\ batch'.pc = "done"
        BY DEF CommitBatch, Idle
      <3> QED
        BY <3>1, <3>2
    <2>2. \A r \in feed' \cup consumed' : r.id \in Files => r \in feed \cup consumed
      BY <1>2, <2>1
    <2>3. now <= now' /\ now' \in Nat /\ batch' = batch /\ UNCHANGED <<store, agent>>
      BY <1>0, <2>1
    <2> QED
      BY <1>1, <2>2, <2>3
  <1>4. CASE StageBatch \/ LogBatch \/ RollbackBatch
    <2>1. /\ UNCHANGED <<store, agent, now, feed, consumed>>
          /\ batch.pc # "done" /\ batch'.pc # "done"
      <3>1. CASE StageBatch
        BY <3>1 DEF StageBatch
      <3>2. CASE LogBatch
        BY <3>2 DEF LogBatch, TypeOK
      <3>3. CASE RollbackBatch
        BY <3>3 DEF RollbackBatch, Idle
      <3> QED
        BY <1>4, <3>1, <3>2, <3>3
    <2> QED
      BY <1>0, <1>1, <2>1
  <1>5. CASE CommitBatch
    <2>1. /\ batch.pc = "logged" /\ batch'.pc = "done" /\ store' = StagedFiles
          /\ consumed' = consumed /\ feed' = feed \cup BatchRows /\ now' = now
      BY <1>5 DEF CommitBatch, Idle
    <2>2. ASSUME NEW r \in feed' \cup consumed', r.id \in Files
          PROVE  r.id \in DOMAIN store' /\ store'[r.id].expires = r.at + TTL /\ store'[r.id].acked = NoAck
      <3>1. r \notin feed \cup consumed
        BY <2>1, <2>2 DEF FilesHeld
      <3>2. r \in BatchRows
        BY <2>1, <2>2, <3>1
      <3>3. Commits(r) /\ r.id \notin Messages
        BY <1>5, <2>2, <3>2 DEF Commits
      <3>4. r.at = batch.at
        BY <3>3, CommitPlace
      <3> QED
        BY <2>1, <2>2, <3>4 DEF StagedFiles
    <2> QED
      BY <2>1, <2>2 DEF FilesHeld
  <1>6. CASE Polls
    <2>1. UNCHANGED <<store, agent, now, batch, feed>> /\ consumed' \subseteq consumed \cup feed
      BY <1>6, PollFrame
    <2> QED
      BY <1>0, <1>1, <2>1
  <1>7. CASE FileSteps
    <2>1. FileEffect
      BY <1>7, FileFrame
    <2>2. UNCHANGED <<now, feed, consumed, batch>> /\ DOMAIN store' \subseteq DOMAIN store
      BY <2>1 DEF FileEffect
    <2>3. ASSUME NEW r \in feed \cup consumed, r.id \in Files, agent'[r.id] = "waiting",
                 now <= r.at + TTL
          PROVE  r.id \in DOMAIN store' /\ store'[r.id].expires = r.at + TTL /\ store'[r.id].acked = NoAck
      <3>1. agent[r.id] = "waiting"
        BY <2>1, <2>3 DEF FileEffect
      <3>2. r.id \in DOMAIN store /\ store[r.id].expires = r.at + TTL /\ store[r.id].acked = NoAck
        BY <2>3, <3>1 DEF FilesHeld
      <3>3. ~Sweepable(r.id)
        BY <1>0, <2>3, <3>2 DEF Sweepable
      <3>4. r.id \in DOMAIN store'
        BY <2>1, <3>2, <3>3 DEF FileEffect
      <3>5. StoreKept(r.id)
        BY <2>1, <3>4 DEF FileEffect
      <3> QED
        BY <3>1, <3>2, <3>4, <3>5 DEF StoreKept
    <2> QED
      BY <2>2, <2>3 DEF FilesHeld
  <1>8. CASE PruneActivity \/ Tick
    <2>1. /\ UNCHANGED <<store, agent, batch, consumed>> /\ feed' \subseteq feed
          /\ now <= now' /\ now' \in Nat
      BY <1>0, <1>8 DEF PruneActivity, Tick
    <2>2. \A r \in feed' \cup consumed' : r.id \in Files => r \in feed \cup consumed
      BY <2>1
    <2> QED
      BY <1>1, <2>1, <2>2
  <1> QED
    BY <1>3, <1>4, <1>5, <1>6, <1>7, <1>8 DEF Kinds

-----------------------------------------------------------------------------
(* The theorems.                                                           *)

LEMMA PollInit ==
    ASSUME Init
    PROVE  PollInv
  <1> USE PollAssumption
  <1>1. /\ feed = {} /\ consumed = {} /\ cursor = {} /\ DOMAIN store = {} /\ batch.pc = "new"
        /\ now = 0 /\ nextSeq = 1
        /\ \A m \in Messages : sender[m].pc = "new"
    BY DEF Init, Idle
  <1>2. TypeOK
    BY FS_EmptySet DEF Init, TypeOK, Idle
  <1>3. Drawn = {}
    <2>1. OpenRows = {}
      BY <1>1 DEF OpenRows
    <2> QED
      BY <1>1, <2>1 DEF Drawn, LoggedRows
  <1>4. Timely
    BY <1>1 DEF Timely, Init, Idle
  <1> QED
    BY <1>1, <1>2, <1>3, <1>4, FS_EmptySet
       DEF PollInv, Numbered, SeqsUnique, PassedKnown, GoneIsOld, EarlyRows, RepeatsSpaced, FilesHeld

LEMMA PollNext ==
    ASSUME PollInv, [Next]_vars
    PROVE  PollInv'
  <1>1. CASE Next
    <2>1. Kinds
      BY <1>1, StepKinds DEF PollInv
    <2>2. Shape'
      BY <2>1, ShapeKept
    <2>3. Numbered' /\ SeqsUnique'
      BY <2>1, <2>2, NumbersKept DEF Shape
    <2> QED
      BY <2>1, <2>2, <2>3, TimelyKept, PassedKept, CommittedKept, FilesKept DEF PollInv, Shape
  <1>2. CASE UNCHANGED vars
    <2>1. InFlight' = InFlight /\ Drawn' = Drawn /\ Told' = Told
      BY <1>2, Unfolded DEF vars, Drawn, Told
    <2>2. TypeOK' /\ Timely' /\ FilesHeld'
      BY <1>2 DEF vars, PollInv, TypeOK, Timely, FilesHeld
    <2> QED
      BY <1>2, <2>1, <2>2 DEF vars, PollInv, Numbered, SeqsUnique, PassedKnown, GoneIsOld,
         EarlyRows, RepeatsSpaced
  <1> QED
    BY <1>1, <1>2

\* The invariant holds in every reachable state.
THEOREM PollInvariance == Spec => []PollInv
  <1>1. Init => PollInv
    BY PollInit
  <1>2. PollInv /\ [Next]_vars => PollInv'
    BY PollNext
  <1> QED
    BY <1>1, <1>2, PTL DEF Spec

\* The feed, the senders, the batch, the cursor and the staged files keep their
\* types, whatever is pruned, swept, rolled back and repeated.
THEOREM PollTypes == Spec => []TypeOK
BY PollInvariance, PTL DEF PollInv

\* Whatever transactions overlap a poll, and wherever a page ends among rows
\* of one created_at: the cursor of GET /activity?since_id hides only rows
\* that were uncommitted when a page went past them, or that a backlog read
\* left beyond its limit.
THEOREM CursorSkipsNothingElse == Spec => []SkippedOnlyInFlight
  <1>1. PollInv => SkippedOnlyInFlight
    BY CursorPlace DEF PollInv, PassedKnown, SkippedOnlyInFlight
  <1> QED
    BY <1>1, PollInvariance, PTL

\* An announced file can be fetched for the whole of its TTL until the agent
\* has it, whatever the sweep, repeated acks and rolled back batches do.
THEOREM AnnouncedFilesReadable == Spec => []AnnouncedReadable
  <1>1. PollInv => AnnouncedReadable
    <2>1. SUFFICES ASSUME PollInv, NEW r \in consumed, r.id \in Files, now < r.at + TTL,
                          agent[r.id] = "waiting"
                   PROVE  Readable(r.id)
      BY DEF AnnouncedReadable
    <2>2. now \in Nat /\ TTL \in Nat /\ r.at \in Nat
      BY <2>1, PollAssumption DEF PollInv, TypeOK, Row
    <2>3. r.id \in DOMAIN store /\ store[r.id].expires = r.at + TTL
      BY <2>1, <2>2 DEF PollInv, FilesHeld
    <2> QED
      BY <2>1, <2>2, <2>3 DEF Readable
  <1> QED
    BY <1>1, PollInvariance, PTL

\* Two events of one messageId lie a whole retention apart, less the time a
\* handler may spend in its insert: ON CONFLICT and the retention job between
\* them admit a second only when the first is gone.
THEOREM MessageRepeatsSpaced == Spec => []RepeatsSpaced
  BY PollInvariance, PTL DEF PollInv

\* So a message whose senders repeat it only within the retention (seven days)
\* is one inbox event, whichever of its inserts fail and whichever answers
\* are lost.
THEOREM KeyedMessageToldOnce ==
    ASSUME Horizon + Hold + Hold <= Retention
    PROVE  Spec => []KeyedToldOnce
  <1>1. PollInv => KeyedToldOnce
    <2>1. SUFFICES ASSUME PollInv, NEW r \in consumed, NEW s \in consumed,
                          r.id = s.id, r.id \in Keyed
                   PROVE  r.seq = s.seq
      BY DEF KeyedToldOnce
    <2>2. /\ r.at \in Nat /\ s.at \in Nat /\ Horizon \in Nat /\ Hold \in Nat /\ Retention \in Nat
          /\ r.id \in Messages
      BY <2>1, PollAssumption DEF PollInv, TypeOK, Row
    <2>3. r.at <= Horizon + Hold /\ s.at <= Horizon + Hold
      BY <2>1, <2>2 DEF PollInv, EarlyRows
    <2>4. r = s \/ r.at + Retention < s.at + Hold \/ s.at + Retention < r.at + Hold
      BY <2>1 DEF PollInv, RepeatsSpaced
    <2> QED
      BY <2>2, <2>3, <2>4
  <1> QED
    BY <1>1, PollInvariance, PTL

\* acked_at is written once: a repeated ack does not prolong the retention.
THEOREM AckedAtStays == Spec => FirstAckStays
  <1>1. ASSUME PollInv, [Next]_vars
        PROVE  \A f \in DOMAIN store \cap DOMAIN store' :
                  store[f].acked # NoAck => store'[f].acked = store[f].acked
    <2>1. CASE store' = store
      BY <2>1
    <2>2. CASE FileSteps
      <3>1. FileEffect
        BY <1>1, <2>2, FileFrame DEF PollInv
      <3> QED
        BY <3>1 DEF FileEffect, StoreKept
    <2>3. CASE CommitBatch
      <3>1. DOMAIN store = {}
        BY <1>1, <2>3 DEF CommitBatch, PollInv, FilesHeld
      <3> QED
        BY <3>1
    <2>4. CASE Next
      <3>1. Kinds
        BY <1>1, <2>4, StepKinds DEF PollInv
      <3>2. store' = store \/ FileSteps \/ CommitBatch
        <4>1. Polls => store' = store
          BY <1>1, PollFrame DEF PollInv
        <4>2. \A m \in Messages : Opens(m) \/ Closes(m) => store' = store
          BY DEF Opens, Closes
        <4>3. StageBatch \/ LogBatch \/ RollbackBatch \/ PruneActivity \/ Tick => store' = store
          BY DEF StageBatch, LogBatch, RollbackBatch, PruneActivity, Tick
        <4> QED
          BY <3>1, <4>1, <4>2, <4>3 DEF Kinds
      <3> QED
        BY <2>1, <2>2, <2>3, <3>2
    <2> QED
      BY <1>1, <2>1, <2>4 DEF vars
  <1> QED
    BY <1>1, PollInvariance, PTL DEF Spec, FirstAckStays

=============================================================================

---------------------------- MODULE RequestsProofs ----------------------------
(***************************************************************************)
(* Requests, for any number of requests, handlers and failures: one        *)
(* outcome per request, told truly, and nudges that keep their distance.   *)
(***************************************************************************)
EXTENDS Requests, TLAPS

ReqType == [kind : Kinds, to : {"user", "agent"},
            status : {"absent"} \cup Open \cup Outcomes,
            by : {"nobody", "user", "agent"},
            created : 0..MaxTime, nudged : 0..MaxTime \cup {Never}]
CallType == [pc : {"idle", "responding", "telling", "flipping", "cancelling"},
             r : Reqs, status : {"absent"} \cup Outcomes,
             by : {"nobody", "user", "agent"}]

\* A handler at work has a request that exists; a response it is about to write
\* fits the kind and names its author; one that notifies has written its
\* outcome.
CallTrue(h) ==
    LET c == handler[h] IN
      /\ c.pc # "idle" => req[c.r].status # "absent"
      /\ c.pc = "responding" => /\ ActionAllowed(req[c.r].kind, c.status)
                                /\ c.status \in {"done", "rejected", "approved"}
                                /\ c.by # "nobody"
      /\ c.pc = "telling" => req[c.r].status = c.status /\ c.status \in Outcomes

\* Notices name the outcome of a closed request.
NoticeTrue(r) == told[r] \subseteq ({req[r].status} \cap Outcomes)

\* A row that carries the time of the last nudge, or is about to.
NudgeStamped(r) ==
    /\ req[r].status = "absent" => nudges[r] = Never /\ r \notin sweep.ids
    /\ nudges[r] # Never /\ r \notin repeated =>
         \/ sweep.pc = "stamp" /\ r \in sweep.ids
         \/ req[r].nudged = nudges[r]
    /\ r \in sweep.ids /\ sweep.pc = "stamp" => nudges[r] = now
    /\ r \in sweep.ids /\ sweep.pc = "enqueue" =>
         req[r].nudged = Never \/ req[r].nudged < now - RenudgeAfter

SweepIdle == sweep.pc = "idle" => sweep.ids = {}

RequestsInv ==
    /\ TypeOK /\ SweepIdle
    /\ \A h \in Handlers : CallTrue(h)
    /\ \A r \in Reqs : NoticeTrue(r) /\ NudgeStamped(r)

\* A handler that is done names no request in particular.
LEMMA RestType == AtRest \in CallType /\ AtRest.pc = "idle"
BY RequestsAssumption DEF AtRest, CallType

\* The hour of a time of the model is one, too.
LEMMA HourBounded == ASSUME NEW t \in 0..MaxTime PROVE t \div Hour \in 0..MaxTime
BY RequestsAssumption, Z3

LEMMA RequestsInit == Init => RequestsInv
<1> SUFFICES ASSUME Init PROVE RequestsInv
  OBVIOUS
<1>1. Absent \in ReqType
  BY RequestsAssumption DEF Absent, ReqType, Kinds
<1>2. TypeOK
  <2>1. req \in [Reqs -> ReqType] /\ handler \in [Handlers -> CallType]
    BY <1>1, RestType DEF Init
  <2> QED
    BY <2>1, RequestsAssumption DEF Init, TypeOK, ReqType, CallType, Absent, Never
<1>3. \A h \in Handlers : CallTrue(h)
  BY RestType DEF Init, CallTrue
<1>4. \A r \in Reqs : NoticeTrue(r) /\ NudgeStamped(r)
  BY DEF Init, NoticeTrue, NudgeStamped
<1> QED
  BY <1>2, <1>3, <1>4 DEF RequestsInv, SweepIdle, Init

\* What TypeOK says of the rows and the handlers, by name.
LEMMA Typed ==
    ASSUME TypeOK
    PROVE  /\ req \in [Reqs -> ReqType] /\ handler \in [Handlers -> CallType]
           /\ \A r \in Reqs : req[r].status \in {"done", "rejected", "approved"} <=> req[r].by # "nobody"
           /\ \A r \in Reqs : /\ req[r].kind = "task" => req[r].status # "approved"
                              /\ req[r].kind = "approval" => req[r].status # "done"
BY DEF TypeOK, ReqType, CallType

\* A handler's place and record change alone.
LEMMA HandlerMoves ==
    ASSUME TypeOK, NEW h \in Handlers, NEW c \in CallType, handler' = [handler EXCEPT ![h] = c]
    PROVE  /\ handler' \in [Handlers -> CallType] /\ handler'[h] = c
           /\ \A g \in Handlers : g # h => handler'[g] = handler[g]
BY Typed

\* A row as TypeOK wants it: answered by somebody or by nobody, as its kind allows.
RowOK(q) ==
    /\ q \in ReqType
    /\ q.status \in {"done", "rejected", "approved"} <=> q.by # "nobody"
    /\ q.kind = "task" => q.status # "approved"
    /\ q.kind = "approval" => q.status # "done"

\* What may become of a row: it is not unmade, and its outcome is final.
Final(p, q) ==
    /\ p.status # "absent" => q.status # "absent" /\ q.kind = p.kind
    /\ p.status \in Outcomes => q.status = p.status /\ q.by = p.by

LEMMA RowsOK == ASSUME TypeOK, NEW r \in Reqs PROVE RowOK(req[r])
BY Typed DEF RowOK

\* A row is written alone, and keeps its stamp unless it is new.
LEMMA RowStep ==
    ASSUME RequestsInv, NEW r \in Reqs, NEW q, RowOK(q), Final(req[r], q),
           req' = [req EXCEPT ![r] = q],
           q.nudged = req[r].nudged \/ req[r].status = "absent",
           q.status # "absent",
           UNCHANGED <<now, nudges, sweep, repeated>>
    PROVE  /\ req' \in [Reqs -> ReqType] /\ \A s \in Reqs : RowOK(req'[s])
           /\ \A s \in Reqs : Final(req[s], req'[s]) /\ NudgeStamped(s)'
<1>1. req \in [Reqs -> ReqType]
  BY Typed DEF RequestsInv
<1>2. /\ req' \in [Reqs -> ReqType] /\ req'[r] = q
      /\ \A s \in Reqs : s # r => req'[s] = req[s]
  BY <1>1 DEF RowOK
<1>3. ASSUME NEW s \in Reqs, s # r PROVE RowOK(req'[s]) /\ Final(req[s], req'[s]) /\ NudgeStamped(s)'
  <2>1. req'[s] = req[s] /\ RowOK(req[s]) /\ NudgeStamped(s)
    BY <1>2, <1>3, RowsOK DEF RequestsInv
  <2> QED
    BY <2>1 DEF Final, NudgeStamped
<1>4. NudgeStamped(r)'
  <2>1. NudgeStamped(r)
    BY DEF RequestsInv
  <2> QED
    BY <1>2, <2>1 DEF NudgeStamped
<1> QED
  BY <1>2, <1>3, <1>4

\* Handlers and notices after a step that keeps every outcome.
LEMMA StepKeeps ==
    ASSUME RequestsInv, TypeOK', SweepIdle',
           \A r \in Reqs : Final(req[r], req'[r]) /\ NudgeStamped(r)',
           \A h \in Handlers : handler'[h] = handler[h] \/ CallTrue(h)',
           \A r \in Reqs : told'[r] = told[r] \/ NoticeTrue(r)'
    PROVE  RequestsInv'
<1>1. ASSUME NEW h \in Handlers, handler'[h] = handler[h] PROVE CallTrue(h)'
  <2>1. CallTrue(h) /\ handler[h].r \in Reqs
    BY Typed DEF RequestsInv, CallType
  <2>2. Final(req[handler[h].r], req'[handler[h].r])
    BY <2>1
  <2> QED
    BY <1>1, <2>1, <2>2 DEF CallTrue, Final, Outcomes
<1>2. ASSUME NEW r \in Reqs, told'[r] = told[r] PROVE NoticeTrue(r)'
  <2>1. NoticeTrue(r) /\ Final(req[r], req'[r])
    BY DEF RequestsInv
  <2> QED
    BY <1>2, <2>1 DEF NoticeTrue, Final
<1> QED
  BY <1>1, <1>2 DEF RequestsInv

\* Nothing happens to a row that nobody writes.
LEMMA SameRows ==
    ASSUME RequestsInv, req' = req, UNCHANGED <<now, nudges, sweep, repeated>>
    PROVE  \A r \in Reqs : Final(req[r], req'[r]) /\ NudgeStamped(r)'
BY DEF RequestsInv, Final, NudgeStamped

LEMMA CreateKeeps == ASSUME RequestsInv, NEW r \in Reqs, Create(r) PROVE RequestsInv'
<1>1. PICK k \in Kinds, t \in {"user", "agent"} :
        req' = [req EXCEPT ![r] = [Absent EXCEPT !.kind = k, !.to = t, !.status = "pending", !.created = now]]
  BY DEF Create
<1> DEFINE q == [Absent EXCEPT !.kind = k, !.to = t, !.status = "pending", !.created = now]
<1>2. /\ req[r].status = "absent"
      /\ UNCHANGED <<now, handler, told, idle, queued, sweep, nudges, repeated, ops, faults>>
  BY DEF Create
<1>3. RowOK(q) /\ q.status = "pending"
  BY DEF RowOK, Absent, ReqType, Open, Outcomes, Kinds, RequestsInv, TypeOK
<1>4. Final(req[r], q)
  BY <1>2 DEF Final, Outcomes
<1> HIDE DEF q
<1>5. req' = [req EXCEPT ![r] = q]
  BY <1>1 DEF q
<1>6. /\ req' \in [Reqs -> ReqType] /\ \A s \in Reqs : RowOK(req'[s])
      /\ \A s \in Reqs : Final(req[s], req'[s]) /\ NudgeStamped(s)'
  BY <1>2, <1>3, <1>4, <1>5, RowStep
<1>7. TypeOK'
  BY <1>2, <1>6 DEF RequestsInv, TypeOK, RowOK, ReqType
<1>8. SweepIdle'
  BY <1>2 DEF RequestsInv, SweepIdle
<1> QED
  BY <1>2, <1>6, <1>7, <1>8, StepKeeps

\* The reads with which Respond, AddMessage and Cancel begin.
LEMMA GetKeeps ==
    ASSUME RequestsInv, NEW h \in Handlers, NEW r \in Reqs,
           RespondGet(h, r) \/ AddMessage(h, r) \/ CancelGet(h, r)
    PROVE  RequestsInv'
<1>0. TypeOK
  BY DEF RequestsInv
<1>1. /\ req[r].status # "absent"
      /\ UNCHANGED <<now, req, told, idle, queued, sweep, nudges, repeated, faults>>
      /\ ops' \in 0..MaxOps
  BY <1>0, RequestsAssumption DEF RespondGet, AddMessage, CancelGet, Step, TypeOK
<1>2. PICK c \in CallType :
        /\ handler' = [handler EXCEPT ![h] = c] /\ c.r = r
        /\ \/ c.pc \in {"flipping", "cancelling"}
           \/ /\ c.pc = "responding" /\ ActionAllowed(req[r].kind, c.status)
              /\ c.status \in Outcomes /\ c.by # "nobody"
  <2>1. CASE RespondGet(h, r)
    <3>1. PICK a \in Outcomes, p \in {"user", "agent"} :
            /\ ActionAllowed(req[r].kind, a)
            /\ handler' = [handler EXCEPT ![h] = [pc |-> "responding", r |-> r, status |-> a, by |-> p]]
      BY <2>1 DEF RespondGet
    <3>2. [pc |-> "responding", r |-> r, status |-> a, by |-> p] \in CallType
      BY DEF CallType
    <3> QED
      BY <3>1, <3>2
  <2>2. ASSUME NEW pc \in {"flipping", "cancelling"},
               handler' = [handler EXCEPT ![h] = [AtRest EXCEPT !.pc = pc, !.r = r]]
        PROVE  \E c \in CallType : handler' = [handler EXCEPT ![h] = c] /\ c.r = r /\ c.pc = pc
    <3> DEFINE c == [AtRest EXCEPT !.pc = pc, !.r = r]
    <3>1. c \in CallType /\ c.r = r /\ c.pc = pc
      BY RestType DEF CallType
    <3> QED
      BY <2>2, <3>1
  <2> QED
    BY <2>1, <2>2 DEF AddMessage, CancelGet
<1>3. /\ handler' \in [Handlers -> CallType] /\ handler'[h] = c
      /\ \A g \in Handlers : g # h => handler'[g] = handler[g]
  BY <1>0, <1>2, HandlerMoves
<1>4. CallTrue(h)'
  BY <1>1, <1>2, <1>3, Typed DEF CallTrue, ActionAllowed, Outcomes, ReqType, Kinds, RequestsInv
<1>5. TypeOK'
  BY <1>0, <1>1, <1>3 DEF TypeOK, CallType
<1>6. SweepIdle'
  BY <1>1 DEF RequestsInv, SweepIdle
<1> QED
  BY <1>1, <1>3, <1>4, <1>5, <1>6, SameRows, StepKeeps

\* A handler that gives up, or is done, writing nothing.
LEMMA RestKeeps ==
    ASSUME RequestsInv, NEW h \in Handlers, handler' = [handler EXCEPT ![h] = AtRest],
           UNCHANGED <<now, req, idle, queued, sweep, nudges, repeated, ops>>, faults' \in 0..MaxFaults,
           told' \in [Reqs -> SUBSET Outcomes],
           \A r \in Reqs : told'[r] = told[r] \/ NoticeTrue(r)'
    PROVE  RequestsInv'
<1>0. TypeOK
  BY DEF RequestsInv
<1>1. /\ handler' \in [Handlers -> CallType] /\ handler'[h] = AtRest
      /\ \A g \in Handlers : g # h => handler'[g] = handler[g]
  BY <1>0, RestType, HandlerMoves
<1>2. CallTrue(h)'
  BY <1>1, RestType DEF CallTrue
<1>3. TypeOK'
  BY <1>0, <1>1 DEF TypeOK, CallType
<1>4. SweepIdle'
  BY DEF RequestsInv, SweepIdle
<1> QED
  BY <1>1, <1>2, <1>3, <1>4, SameRows, StepKeeps

\* An open row takes a new status, under a handler that does no more but notify.
LEMMA WriteKeeps ==
    ASSUME RequestsInv, NEW h \in Handlers, StillOpen(handler[h].r), handler[h].pc # "idle",
           NEW q, RowOK(q), q.kind = req[handler[h].r].kind, q.nudged = req[handler[h].r].nudged,
           q.status # "absent", req' = [req EXCEPT ![handler[h].r] = q],
           NEW c \in CallType, handler' = [handler EXCEPT ![h] = c],
           \/ c.pc = "idle"
           \/ c.pc = "telling" /\ c.r = handler[h].r /\ c.status = q.status /\ c.status \in Outcomes,
           UNCHANGED <<now, told, idle, queued, sweep, nudges, repeated, ops, faults>>
    PROVE  RequestsInv'
<1>0. TypeOK
  BY DEF RequestsInv
<1> DEFINE r == handler[h].r
<1>1. PICK x \in Reqs : x = handler[h].r
  BY <1>0, Typed DEF CallType
<1>2. /\ handler' \in [Handlers -> CallType] /\ handler'[h] = c
      /\ \A g \in Handlers : g # h => handler'[g] = handler[g]
  BY <1>0, HandlerMoves
<1>3. Final(req[x], q)
  BY <1>1 DEF Final, StillOpen, Open, Outcomes
<1>4. /\ req' \in [Reqs -> ReqType] /\ \A s \in Reqs : RowOK(req'[s])
      /\ \A s \in Reqs : Final(req[s], req'[s]) /\ NudgeStamped(s)'
  BY <1>1, <1>3, RowStep
<1>5. req'[x] = q
  BY <1>0, <1>1, Typed
<1>6. CallTrue(h)'
  BY <1>1, <1>2, <1>5 DEF CallTrue, Outcomes
<1>7. TypeOK'
  BY <1>0, <1>2, <1>4 DEF TypeOK, RowOK, ReqType, CallType
<1>8. SweepIdle'
  BY DEF RequestsInv, SweepIdle
<1> QED
  BY <1>2, <1>4, <1>6, <1>7, <1>8, StepKeeps

LEMMA RespondKeeps == ASSUME RequestsInv, NEW h \in Handlers, Respond(h) PROVE RequestsInv'
<1>0. TypeOK /\ CallTrue(h) /\ handler[h].r \in Reqs /\ handler[h] \in CallType
  BY Typed DEF RequestsInv, CallType
<1>1. /\ handler[h].pc = "responding"
      /\ UNCHANGED <<now, told, idle, queued, sweep, nudges, repeated, ops>>
  BY DEF Respond
<1>2. CASE /\ StillOpen(handler[h].r) /\ NoFault
           /\ req' = [req EXCEPT ![handler[h].r].status = handler[h].status, ![handler[h].r].by = handler[h].by]
           /\ handler' = [handler EXCEPT ![h].pc = "telling"]
  <2> DEFINE p == req[handler[h].r]
             q == [p EXCEPT !.status = handler[h].status, !.by = handler[h].by]
             c == [handler[h] EXCEPT !.pc = "telling"]
  <2>1. RowOK(p)
    BY <1>0, RowsOK
  <2>2. /\ handler[h].status \in {"done", "rejected", "approved"} /\ handler[h].by # "nobody"
        /\ ActionAllowed(p.kind, handler[h].status)
        /\ handler[h].by \in {"nobody", "user", "agent"}
    BY <1>0, <1>1 DEF CallTrue, CallType
  <2>3. /\ q \in ReqType /\ q.kind = p.kind /\ q.nudged = p.nudged
        /\ q.status = handler[h].status /\ q.by = handler[h].by
    BY <2>1, <2>2 DEF RowOK, ReqType, Outcomes
  <2>4. RowOK(q)
    BY <2>2, <2>3 DEF RowOK, ActionAllowed, ReqType, Kinds
  <2>5. /\ c \in CallType /\ c.pc = "telling" /\ c.r = handler[h].r /\ c.status = handler[h].status
    BY <1>0 DEF CallType
  <2>6. req' = [req EXCEPT ![handler[h].r] = q] /\ handler' = [handler EXCEPT ![h] = c]
    BY <1>2
  <2>7. q.status # "absent" /\ c.status \in Outcomes /\ c.status = q.status
    BY <2>2, <2>3, <2>5 DEF Outcomes
  <2>8. q.kind = req[handler[h].r].kind /\ q.nudged = req[handler[h].r].nudged
    BY <2>3
  <2>9. /\ StillOpen(handler[h].r) /\ handler[h].pc # "idle"
        /\ UNCHANGED <<now, told, idle, queued, sweep, nudges, repeated, ops, faults>>
    BY <1>1, <1>2 DEF NoFault
  <2> HIDE DEF p, q, c
  <2> QED
    BY <2>4, <2>5, <2>6, <2>7, <2>8, <2>9, WriteKeeps
<1>3. CASE /\ (~StillOpen(handler[h].r) /\ NoFault) \/ Fault
           /\ handler' = [handler EXCEPT ![h] = AtRest]
           /\ UNCHANGED req
  <2>1. faults' \in 0..MaxFaults /\ told' \in [Reqs -> SUBSET Outcomes]
    BY <1>0, <1>1, <1>3, RequestsAssumption DEF Fault, NoFault, TypeOK
  <2> QED
    BY <1>1, <1>3, <2>1, RestKeeps
<1> QED
  BY <1>2, <1>3 DEF Respond

LEMMA NotifyKeeps == ASSUME RequestsInv, NEW h \in Handlers, NotifyRequester(h) PROVE RequestsInv'
<1>0. TypeOK /\ CallTrue(h) /\ handler[h].r \in Reqs
  BY Typed DEF RequestsInv, CallType
<1>1. /\ handler[h].pc = "telling" /\ handler' = [handler EXCEPT ![h] = AtRest]
      /\ UNCHANGED <<now, req, idle, queued, sweep, nudges, repeated, ops>>
      /\ faults' \in 0..MaxFaults
  BY <1>0, RequestsAssumption DEF NotifyRequester, Fault, NoFault, TypeOK
<1>2. req[handler[h].r].status = handler[h].status /\ handler[h].status \in Outcomes
  BY <1>0, <1>1 DEF CallTrue
<1>3. told \in [Reqs -> SUBSET Outcomes]
  BY <1>0 DEF TypeOK
<1>4. CASE told' = [told EXCEPT ![handler[h].r] = @ \cup {handler[h].status}]
  <2>1. told' \in [Reqs -> SUBSET Outcomes]
    BY <1>0, <1>2, <1>3, <1>4
  <2>2. ASSUME NEW r \in Reqs PROVE told'[r] = told[r] \/ NoticeTrue(r)'
    <3>1. CASE r = handler[h].r
      <4>1. told'[r] = told[r] \cup {req[r].status}
        BY <1>2, <1>3, <1>4, <3>1
      <4>2. NoticeTrue(r) /\ req[r].status \in Outcomes /\ req' = req
        BY <1>1, <1>2, <3>1 DEF RequestsInv
      <4> QED
        BY <4>1, <4>2 DEF NoticeTrue
    <3>2. CASE r # handler[h].r
      BY <1>3, <1>4, <3>2
    <3> QED
      BY <3>1, <3>2
  <2> QED
    BY <1>1, <2>1, <2>2, RestKeeps
<1>5. CASE told' = told
  BY <1>1, <1>3, <1>5, RestKeeps
<1> QED
  BY <1>4, <1>5 DEF NotifyRequester

LEMMA FlipKeeps ==
    ASSUME RequestsInv, NEW h \in Handlers, FlipInfoRequested(h) \/ Cancel(h) PROVE RequestsInv'
<1>0. TypeOK /\ CallTrue(h) /\ handler[h].r \in Reqs /\ told \in [Reqs -> SUBSET Outcomes]
  BY Typed DEF RequestsInv, CallType, TypeOK
<1>1. /\ handler[h].pc \in {"flipping", "cancelling"} /\ handler' = [handler EXCEPT ![h] = AtRest]
      /\ UNCHANGED <<now, told, idle, queued, sweep, nudges, repeated, ops>>
      /\ faults' \in 0..MaxFaults
  BY <1>0, RequestsAssumption DEF FlipInfoRequested, Cancel, Fault, NoFault, TypeOK
<1>2. CASE req' = req
  BY <1>0, <1>1, <1>2, RestKeeps
<1>3. ASSUME NEW st \in {"info_requested", "cancelled"}, StillOpen(handler[h].r), NoFault,
             req' = [req EXCEPT ![handler[h].r].status = st]
      PROVE  RequestsInv'
  <2> DEFINE p == req[handler[h].r]
             q == [p EXCEPT !.status = st]
  <2>1. RowOK(p) /\ p.status \in Open
    BY <1>0, <1>3, RowsOK DEF StillOpen
  <2>2. q \in ReqType /\ q.kind = p.kind /\ q.nudged = p.nudged /\ q.status = st /\ q.by = p.by
    BY <2>1 DEF RowOK, ReqType, Open, Outcomes
  <2>3. RowOK(q) /\ q.status # "absent"
    BY <2>1, <2>2 DEF RowOK, Open
  <2>4. req' = [req EXCEPT ![handler[h].r] = q]
    BY <1>3
  <2> HIDE DEF p, q
  <2> QED
    BY <1>1, <1>3, <2>2, <2>3, <2>4, RestType, WriteKeeps DEF p, NoFault
<1> QED
  BY <1>2, <1>3 DEF FlipInfoRequested, Cancel

\* The three statements of a sweep.
LEMMA SweepKeeps ==
    ASSUME RequestsInv, SweepQuery \/ NudgeEnqueue \/ NudgeStamp PROVE RequestsInv'
<1>0. TypeOK /\ now \in 0..MaxTime /\ SweepIdle
  BY DEF RequestsInv, TypeOK
<1>1. CASE SweepQuery
  <2>1. /\ sweep.pc = "idle" /\ sweep' = [pc |-> "enqueue", ids |-> {r \in Reqs : DueForNudge(r)}]
        /\ UNCHANGED <<now, req, handler, told, idle, queued, nudges, repeated, ops, faults>>
    BY <1>1 DEF SweepQuery
  <2>2. TypeOK' /\ SweepIdle'
    BY <1>0, <2>1 DEF TypeOK, SweepIdle
  <2>3. ASSUME NEW r \in Reqs PROVE Final(req[r], req'[r]) /\ NudgeStamped(r)'
    <3>1. NudgeStamped(r) /\ (DueForNudge(r) => req[r].status # "absent")
      BY DEF RequestsInv, DueForNudge, Open
    <3> QED
      BY <2>1, <3>1 DEF Final, NudgeStamped, DueForNudge
  <2> QED
    BY <2>1, <2>2, <2>3, StepKeeps
<1>2. CASE NudgeEnqueue
  <2>1. /\ sweep.pc = "enqueue"
        /\ UNCHANGED <<now, req, handler, told, idle, ops>>
        /\ faults' \in 0..MaxFaults
    BY <1>0, <1>2, RequestsAssumption DEF NudgeEnqueue, Fault, NoFault, TypeOK
  <2>2. CASE /\ queued' = queued \cup {NudgeKey}
             /\ sweep' = [sweep EXCEPT !.pc = "stamp"]
             /\ nudges' = [r \in Reqs |-> IF r \in sweep.ids THEN now ELSE nudges[r]]
             /\ repeated' = repeated \ sweep.ids
    <3>1. sweep'.pc = "stamp" /\ sweep'.ids = sweep.ids
          /\ sweep' \in [pc : {"idle", "enqueue", "stamp"}, ids : SUBSET Reqs]
      BY <1>0, <2>2 DEF TypeOK
    <3>2. NudgeKey \in 0..MaxTime
      BY <1>0, HourBounded DEF NudgeKey
    <3>3. nudges' \in [Reqs -> 0..MaxTime \cup {Never}]
      BY <1>0, <2>2 DEF TypeOK
    <3>4. TypeOK' /\ SweepIdle'
      BY <1>0, <2>1, <2>2, <3>1, <3>2, <3>3 DEF TypeOK, SweepIdle
    <3>5. ASSUME NEW r \in Reqs PROVE Final(req[r], req'[r]) /\ NudgeStamped(r)'
      <4>1. NudgeStamped(r)
        BY DEF RequestsInv
      <4> QED
        BY <2>1, <2>2, <3>1, <4>1 DEF Final, NudgeStamped
    <3> QED
      BY <2>1, <3>4, <3>5, StepKeeps
  <2>3. CASE sweep' = [pc |-> "idle", ids |-> {}] /\ UNCHANGED <<queued, nudges, repeated>>
    <3>1. TypeOK' /\ SweepIdle'
      BY <1>0, <2>1, <2>3 DEF TypeOK, SweepIdle
    <3>2. ASSUME NEW r \in Reqs PROVE Final(req[r], req'[r]) /\ NudgeStamped(r)'
      <4>1. NudgeStamped(r)
        BY DEF RequestsInv
      <4> QED
        BY <2>1, <2>3, <4>1 DEF Final, NudgeStamped
    <3> QED
      BY <2>1, <3>1, <3>2, StepKeeps
  <2> QED
    BY <1>2, <2>2, <2>3 DEF NudgeEnqueue
<1>3. CASE NudgeStamp
  <2>1. /\ sweep.pc = "stamp" /\ sweep' = [pc |-> "idle", ids |-> {}]
        /\ UNCHANGED <<now, handler, told, idle, queued, nudges, ops>>
        /\ faults' \in 0..MaxFaults
    BY <1>0, <1>3, RequestsAssumption DEF NudgeStamp, Fault, NoFault, TypeOK
  <2>2. CASE /\ req' = [r \in Reqs |-> IF r \in sweep.ids THEN [req[r] EXCEPT !.nudged = now] ELSE req[r]]
             /\ repeated' = repeated
    <3>1. ASSUME NEW r \in Reqs
          PROVE  /\ RowOK(req'[r]) /\ req'[r].kind = req[r].kind /\ req'[r].status = req[r].status
                 /\ req'[r].by = req[r].by
                 /\ req'[r].nudged = IF r \in sweep.ids THEN now ELSE req[r].nudged
      <4>1. RowOK(req[r])
        BY <1>0, RowsOK
      <4>2. CASE r \in sweep.ids
        <5>1. req'[r] = [req[r] EXCEPT !.nudged = now]
          BY <2>2, <4>2
        <5> QED
          BY <1>0, <4>1, <4>2, <5>1 DEF RowOK, ReqType
      <4>3. CASE r \notin sweep.ids
        BY <2>2, <4>1, <4>3
      <4> QED
        BY <4>2, <4>3
    <3>2. req' \in [Reqs -> ReqType]
      <4>1. req' = [r \in Reqs |-> req'[r]]
        BY <2>2
      <4> QED
        BY <3>1, <4>1 DEF RowOK
    <3>3. TypeOK' /\ SweepIdle'
      BY <1>0, <2>1, <2>2, <3>1, <3>2 DEF TypeOK, SweepIdle, RowOK, ReqType
    <3>4. ASSUME NEW r \in Reqs PROVE Final(req[r], req'[r]) /\ NudgeStamped(r)'
      <4>1. NudgeStamped(r)
        BY DEF RequestsInv
      <4> QED
        BY <2>1, <2>2, <3>1, <4>1 DEF Final, NudgeStamped
    <3> QED
      BY <2>1, <3>3, <3>4, StepKeeps
  <2>3. CASE req' = req /\ repeated' = repeated \cup sweep.ids
    <3>1. TypeOK' /\ SweepIdle'
      BY <1>0, <2>1, <2>3 DEF TypeOK, SweepIdle
    <3>2. ASSUME NEW r \in Reqs PROVE Final(req[r], req'[r]) /\ NudgeStamped(r)'
      <4>1. NudgeStamped(r)
        BY DEF RequestsInv
      <4> QED
        BY <2>1, <2>3, <4>1 DEF Final, NudgeStamped
    <3> QED
      BY <2>1, <3>1, <3>2, StepKeeps
  <2> QED
    BY <1>3, <2>2, <2>3 DEF NudgeStamp
<1> QED
  BY <1>1, <1>2, <1>3

\* The recipient, its queue and the clock.
LEMMA AroundKeeps ==
    ASSUME RequestsInv, RecipientFlips \/ Deliver \/ Tick PROVE RequestsInv'
<1>0. TypeOK
  BY DEF RequestsInv
<1>1. UNCHANGED <<req, handler, told, sweep, nudges, repeated, faults>>
  BY DEF RecipientFlips, Deliver, Tick
<1>2. TypeOK' /\ SweepIdle'
  <2>1. now' \in 0..MaxTime /\ ops' \in 0..MaxOps /\ idle' \in BOOLEAN /\ queued' \subseteq 0..MaxTime
    <3>1. /\ now \in 0..MaxTime /\ ops \in 0..MaxOps /\ idle \in BOOLEAN /\ queued \subseteq 0..MaxTime
          /\ MaxTime \in Nat /\ MaxOps \in Nat
      BY <1>0, RequestsAssumption DEF TypeOK
    <3>2. CASE RecipientFlips
      <4>1. ops' \in 0..MaxOps /\ now' = now /\ queued' = queued
        BY <3>1, <3>2 DEF RecipientFlips
      <4>2. idle' \in BOOLEAN
        BY <3>2 DEF RecipientFlips
      <4> QED
        BY <3>1, <4>1, <4>2
    <3>3. CASE Deliver
      BY <3>1, <3>3 DEF Deliver
    <3>4. CASE Tick
      BY <3>1, <3>4 DEF Tick
    <3> QED
      BY <3>2, <3>3, <3>4
  <2> QED
    BY <1>0, <1>1, <2>1 DEF TypeOK, SweepIdle, RequestsInv
<1>3. now' = now \/ sweep.pc = "idle"
  BY DEF RecipientFlips, Deliver, Tick
<1>4. ASSUME NEW r \in Reqs PROVE Final(req[r], req'[r]) /\ NudgeStamped(r)'
  <2>1. NudgeStamped(r) /\ SweepIdle
    BY DEF RequestsInv
  <2> QED
    BY <1>1, <1>3, <2>1 DEF Final, NudgeStamped, SweepIdle
<1> QED
  BY <1>1, <1>2, <1>4, StepKeeps

LEMMA RequestsNext == RequestsInv /\ [Next]_vars => RequestsInv'
<1> SUFFICES ASSUME RequestsInv, [Next]_vars PROVE RequestsInv'
  OBVIOUS
<1>1. CASE UNCHANGED vars
  <2>1. TypeOK' /\ SweepIdle'
    BY <1>1 DEF vars, RequestsInv, TypeOK, SweepIdle
  <2> QED
    BY <1>1, <2>1, SameRows, StepKeeps DEF vars
<1>2. CASE Next
  BY <1>2, CreateKeeps, GetKeeps, RespondKeeps, NotifyKeeps, FlipKeeps, SweepKeeps, AroundKeeps DEF Next
<1> QED
  BY <1>1, <1>2

\* The invariant of the requests inbox.
LEMMA RequestsInvariant == Spec => []RequestsInv
BY RequestsInit, RequestsNext, PTL DEF Spec

\* Requests, notices and the sweeper's groups keep their types: no action gives
\* a request a status its kind does not have.
THEOREM RequestsTypes == Spec => []TypeOK
BY RequestsInvariant, PTL DEF RequestsInv

\* The requester is told the outcome the row has, and no other: the loser of a
\* race notifies nobody (request_store.go, the WHERE clauses; requests.go).
THEOREM RequesterToldTruth == Spec => []ToldTheTruth
<1>1. RequestsInv => ToldTheTruth
  BY DEF RequestsInv, NoticeTrue, ToldTheTruth
<1> QED
  BY <1>1, RequestsInvariant, PTL

\* A request is covered by one nudge per RenudgeAfter, unless the stamp of the
\* one before failed (nudgeAgent), for any intervals and any failures.
THEOREM RequestNudgesSpaced == Spec => NudgesSpaced
<1>1. RequestsInv /\ [Next]_vars =>
        [\A r \in Reqs : nudges'[r] # nudges[r] /\ nudges[r] # Never =>
            r \in repeated \/ nudges'[r] > nudges[r] + RenudgeAfter]_vars
  <2> SUFFICES ASSUME RequestsInv, Next, NEW r \in Reqs, nudges'[r] # nudges[r], nudges[r] # Never,
                      r \notin repeated
               PROVE  nudges'[r] > nudges[r] + RenudgeAfter
    BY DEF vars
  <2>1. NudgeEnqueue
    BY DEF Next, Create, RespondGet, AddMessage, CancelGet, Respond, NotifyRequester, FlipInfoRequested,
       Cancel, SweepQuery, NudgeStamp, RecipientFlips, Deliver, Tick
  <2>2. sweep.pc = "enqueue" /\ r \in sweep.ids /\ nudges'[r] = now
    BY <2>1 DEF NudgeEnqueue
  <2>3. req[r].nudged = nudges[r] /\ req[r].nudged < now - RenudgeAfter
    BY <2>2 DEF RequestsInv, NudgeStamped
  <2>4. now \in Nat /\ RenudgeAfter \in Nat /\ nudges[r] \in Nat
    <3>1. now \in 0..MaxTime /\ nudges[r] \in 0..MaxTime \cup {Never} /\ MaxTime \in Nat /\ RenudgeAfter \in Nat
      BY RequestsAssumption DEF RequestsInv, TypeOK
    <3> QED
      BY <3>1
  <2> QED
    BY <2>2, <2>3, <2>4
<1> QED
  BY <1>1, RequestsInvariant, PTL DEF Spec, NudgesSpaced

\* A closed request keeps its outcome and its responder, whatever handlers read
\* the row while it was open (request_store.go, the WHERE clauses).
THEOREM RequestOutcomeStays == Spec => OutcomeStays
<1>1. RequestsInv /\ [Next]_vars =>
        [\A r \in Reqs : req[r].status \in Outcomes =>
            req'[r].status = req[r].status /\ req'[r].by = req[r].by]_vars
  <2> SUFFICES ASSUME RequestsInv, Next, NEW r \in Reqs, req[r].status \in Outcomes
               PROVE  req'[r].status = req[r].status /\ req'[r].by = req[r].by
    BY DEF vars
  <2>0. req \in [Reqs -> ReqType] /\ handler \in [Handlers -> CallType]
    BY Typed DEF RequestsInv
  <2>1. CASE req' = req
    BY <2>1
  <2>2. ASSUME NEW x \in Reqs, x # r, NEW q, req' = [req EXCEPT ![x] = q]
        PROVE  req'[r] = req[r]
    BY <2>0, <2>2
  <2>3. ASSUME NEW x \in Reqs, Create(x) PROVE req'[r] = req[r]
    BY <2>2, <2>3 DEF Create, Outcomes
  <2>4. ASSUME NEW h \in Handlers, Respond(h) \/ FlipInfoRequested(h) \/ Cancel(h) PROVE req'[r] = req[r]
    <3>1. handler[h].r \in Reqs
      BY <2>0 DEF CallType
    <3>2. StillOpen(handler[h].r) => handler[h].r # r
      BY DEF StillOpen, Open, Outcomes
    <3> QED
      BY <2>1, <2>2, <2>4, <3>1, <3>2 DEF Respond, FlipInfoRequested, Cancel
  <2>5. CASE NudgeStamp
    <3>1. CASE req' = [s \in Reqs |-> IF s \in sweep.ids THEN [req[s] EXCEPT !.nudged = now] ELSE req[s]]
      <4>1. req'[r] = req[r] \/ req'[r] = [req[r] EXCEPT !.nudged = now]
        BY <3>1
      <4>2. req[r] \in ReqType
        BY <2>0
      <4> QED
        BY <4>1, <4>2 DEF ReqType
    <3> QED
      BY <2>1, <2>5, <3>1 DEF NudgeStamp
  <2> QED
    BY <2>1, <2>3, <2>4, <2>5 DEF Next, RespondGet, AddMessage, CancelGet, NotifyRequester, SweepQuery,
       NudgeEnqueue, RecipientFlips, Deliver, Tick
<1> QED
  BY <1>1, RequestsInvariant, PTL DEF Spec, OutcomeStays
=============================================================================

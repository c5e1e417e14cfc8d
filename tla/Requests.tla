------------------------------- MODULE Requests -------------------------------
(***************************************************************************)
(* The unified requests inbox: tasks and approvals an agent raises for a   *)
(* user or for another agent (request_store.go behind requests.go), and    *)
(* the sweeper that nudges idle recipients (request_nudge_sweeper.go).     *)
(*                                                                         *)
(* The rows live in the database; a handler reads a row, decides and       *)
(* writes with a condition on the status, and others write in between.     *)
(* What the agents are told goes through the A2A queue (EnqueueA2A), which *)
(* keeps one waiting message per idempotency key.                          *)
(***************************************************************************)
EXTENDS Integers, FiniteSets

CONSTANTS
    Reqs,        \* requests
    Handlers,    \* handlers of Respond, AddMessage and Cancel
    StaleAfter,  \* age at which an unanswered request is nudged (10 min)
    RenudgeAfter,\* time between two nudges for a request (1 h)
    Hour,        \* the bucket of the nudge's idempotency key
    Horizon,     \* last time a request is raised
    MaxTime,     \* bound on the clock
    MaxOps,      \* bound on handler calls
    MaxFaults    \* bound on failed statements

ASSUME RequestsAssumption ==
    /\ {StaleAfter, RenudgeAfter, Horizon, MaxTime, MaxOps, MaxFaults} \subseteq Nat
    /\ Hour \in Nat \ {0} /\ Reqs # {}

VARIABLES
    now,       \* the clock
    req,       \* the rows of requests
    handler,   \* each handler: what it read and what it is about to write
    told,      \* outcome notices enqueued for the requester of each request
    idle,      \* the recipient agent is online with no active task
    queued,    \* keys of the nudges waiting in the recipient's queue
    sweep,     \* the sweeper: its place and the requests it selected
    nudges,    \* ghost: when each request was last covered by a nudge
    repeated,  \* ghost: requests whose stamp failed, or whose nudge is the first
    ops, faults

vars == <<now, req, handler, told, idle, queued, sweep, nudges, repeated, ops, faults>>

Kinds == {"task", "approval"}
Open == {"pending", "info_requested"}
Outcomes == {"done", "rejected", "approved", "cancelled"}
Never == -1
Absent == [kind |-> "task", to |-> "user", status |-> "absent", by |-> "nobody", created |-> 0, nudged |-> Never]
AtRest == [pc |-> "idle", r |-> CHOOSE r \in Reqs : TRUE, status |-> "absent", by |-> "nobody"]

TypeOK ==
    /\ now \in 0..MaxTime /\ ops \in 0..MaxOps /\ faults \in 0..MaxFaults
    /\ req \in [Reqs -> [kind : Kinds, to : {"user", "agent"},
                         status : {"absent"} \cup Open \cup Outcomes,
                         by : {"nobody", "user", "agent"},
                         created : 0..MaxTime, nudged : 0..MaxTime \cup {Never}]]
    /\ \A r \in Reqs : req[r].status \in {"done", "rejected", "approved"} <=> req[r].by # "nobody"
    /\ \A r \in Reqs : /\ req[r].kind = "task" => req[r].status # "approved"
                       /\ req[r].kind = "approval" => req[r].status # "done"
    /\ handler \in [Handlers -> [pc : {"idle", "responding", "telling", "flipping", "cancelling"},
                                 r : Reqs, status : {"absent"} \cup Outcomes,
                                 by : {"nobody", "user", "agent"}]]
    /\ told \in [Reqs -> SUBSET Outcomes]
    /\ idle \in BOOLEAN
    /\ queued \subseteq 0..MaxTime
    /\ sweep \in [pc : {"idle", "enqueue", "stamp"}, ids : SUBSET Reqs]
    /\ nudges \in [Reqs -> 0..MaxTime \cup {Never}] /\ repeated \subseteq Reqs

Init ==
    /\ now = 0 /\ ops = 0 /\ faults = 0
    /\ req = [r \in Reqs |-> Absent]
    /\ handler = [h \in Handlers |-> AtRest]
    /\ told = [r \in Reqs |-> {}]
    /\ idle = TRUE
    /\ queued = {}
    /\ sweep = [pc |-> "idle", ids |-> {}]
    /\ nudges = [r \in Reqs |-> Never] /\ repeated = {}

Fault == faults < MaxFaults /\ faults' = faults + 1
NoFault == UNCHANGED faults
Step(h) == /\ ops < MaxOps /\ ops' = ops + 1
           /\ handler[h].pc = "idle"

-----------------------------------------------------------------------------
(* request_store.go                                                        *)

\* Create: requests.go always names the calling agent as the requester.
Create(r) ==
    /\ req[r].status = "absent" /\ now <= Horizon
    /\ \E k \in Kinds, t \in {"user", "agent"} :
         req' = [req EXCEPT ![r] = [Absent EXCEPT !.kind = k, !.to = t, !.status = "pending", !.created = now]]
    /\ UNCHANGED <<now, handler, told, idle, queued, sweep, nudges, repeated, ops, faults>>

\* actionToStatus
ActionAllowed(kind, action) ==
    action = "rejected" \/ (kind = "approval" /\ action = "approved") \/ (kind = "task" /\ action = "done")

\* Respond, up to its UPDATE: the row is read, the responder must be the user
\* or the recipient agent and the action must fit the kind.  The status read
\* is not looked at.
RespondGet(h, r) ==
    /\ Step(h)
    /\ req[r].status # "absent"
    /\ \E a \in Outcomes, p \in {"user", "agent"} :
         /\ p = "agent" => req[r].to = "agent"
         /\ ActionAllowed(req[r].kind, a)
         /\ handler' = [handler EXCEPT ![h] = [pc |-> "responding", r |-> r, status |-> a, by |-> p]]
    /\ UNCHANGED <<now, req, told, idle, queued, sweep, nudges, repeated, faults>>

\* WHERE status IN ('pending', 'info_requested')
StillOpen(r) == req[r].status \in Open

\* Mutation: RowsAffected is not looked at.
RespondAnyway(h) ==
    /\ handler[h].pc = "responding"
    /\ LET r == handler[h].r IN
       /\ req' = IF StillOpen(r) THEN [req EXCEPT ![r].status = handler[h].status, ![r].by = handler[h].by] ELSE req
       /\ handler' = [handler EXCEPT ![h].pc = "telling"]
    /\ UNCHANGED <<now, told, idle, queued, sweep, nudges, repeated, ops, faults>>

\* The guarded UPDATE of Respond: no row affected is a 404, an error a 500.
Respond(h) ==
    /\ handler[h].pc = "responding"
    /\ LET r == handler[h].r IN
       \/ /\ StillOpen(r) /\ NoFault
          /\ req' = [req EXCEPT ![r].status = handler[h].status, ![r].by = handler[h].by]
          /\ handler' = [handler EXCEPT ![h].pc = "telling"]
       \/ /\ (~StillOpen(r) /\ NoFault) \/ Fault
          /\ handler' = [handler EXCEPT ![h] = AtRest]
          /\ UNCHANGED req
    /\ UNCHANGED <<now, told, idle, queued, sweep, nudges, repeated, ops>>

\* notifyRequesterAgent: best effort, keyed request-responded:<id>.
NotifyRequester(h) ==
    /\ handler[h].pc = "telling"
    /\ \/ told' = [told EXCEPT ![handler[h].r] = @ \cup {handler[h].status}] /\ NoFault
       \/ UNCHANGED told /\ Fault
    /\ handler' = [handler EXCEPT ![h] = AtRest]
    /\ UNCHANGED <<now, req, idle, queued, sweep, nudges, repeated, ops>>

\* AddMessage reads the row and adds to the thread; unless the requester wrote
\* it, the row is flipped to info_requested by a second, guarded statement.
\* The message it enqueues has a key of its own and no part in the properties.
AddMessage(h, r) ==
    /\ Step(h)
    /\ req[r].status # "absent"
    /\ handler' = [handler EXCEPT ![h] = [AtRest EXCEPT !.pc = "flipping", !.r = r]]
    /\ UNCHANGED <<now, req, told, idle, queued, sweep, nudges, repeated, faults>>

FlipInfoRequested(h) ==
    /\ handler[h].pc = "flipping"
    /\ \/ /\ StillOpen(handler[h].r)
          /\ req' = [req EXCEPT ![handler[h].r].status = "info_requested"] /\ NoFault
       \/ ~StillOpen(handler[h].r) /\ UNCHANGED req /\ NoFault
       \/ UNCHANGED req /\ Fault
    /\ handler' = [handler EXCEPT ![h] = AtRest]
    /\ UNCHANGED <<now, told, idle, queued, sweep, nudges, repeated, ops>>

\* Cancel: the handler checks that the caller raised it, then the store updates.
CancelGet(h, r) ==
    /\ Step(h)
    /\ req[r].status # "absent"
    /\ handler' = [handler EXCEPT ![h] = [AtRest EXCEPT !.pc = "cancelling", !.r = r]]
    /\ UNCHANGED <<now, req, told, idle, queued, sweep, nudges, repeated, faults>>

Cancel(h) ==
    /\ handler[h].pc = "cancelling"
    /\ \/ /\ req' = IF StillOpen(handler[h].r) THEN [req EXCEPT ![handler[h].r].status = "cancelled"] ELSE req
          /\ NoFault
       \/ UNCHANGED req /\ Fault
    /\ handler' = [handler EXCEPT ![h] = AtRest]
    /\ UNCHANGED <<now, told, idle, queued, sweep, nudges, repeated, ops>>

-----------------------------------------------------------------------------
(* request_nudge_sweeper.go                                                *)

\* Mutation: last_nudged_at IS NULL is forgotten.
NudgedBefore(r) ==
    /\ req[r].to = "agent" /\ req[r].status \in Open
    /\ req[r].created < now - StaleAfter
    /\ req[r].nudged # Never /\ req[r].nudged < now - RenudgeAfter

\* Mutation: every sweep nudges for every open request.
NudgeAlways(r) ==
    /\ req[r].to = "agent" /\ req[r].status \in Open
    /\ req[r].created < now - StaleAfter

\* The rows of the sweep query.
DueForNudge(r) ==
    /\ req[r].to = "agent" /\ req[r].status \in Open
    /\ req[r].created < now - StaleAfter
    /\ req[r].nudged = Never \/ req[r].nudged < now - RenudgeAfter

\* Sweep: the query groups the due requests of idle recipients.
SweepQuery ==
    /\ sweep.pc = "idle" /\ idle
    /\ \E r \in Reqs : DueForNudge(r)
    /\ sweep' = [pc |-> "enqueue", ids |-> {r \in Reqs : DueForNudge(r)}]
    /\ UNCHANGED <<now, req, handler, told, idle, queued, nudges, repeated, ops, faults>>

\* inbox-nudge:<recipient>:<hour>
NudgeKey == now \div Hour

\* nudgeAgent enqueues one message for the group; the queue keeps the waiting
\* one when the key is there.  A failure leaves the group to the next sweep.
NudgeEnqueue ==
    /\ sweep.pc = "enqueue"
    /\ \/ /\ queued' = queued \cup {NudgeKey}
          /\ sweep' = [sweep EXCEPT !.pc = "stamp"]
          /\ nudges' = [r \in Reqs |-> IF r \in sweep.ids THEN now ELSE nudges[r]]
          /\ repeated' = repeated \ sweep.ids /\ NoFault
       \/ /\ sweep' = [pc |-> "idle", ids |-> {}]
          /\ UNCHANGED <<queued, nudges, repeated>> /\ Fault
    /\ UNCHANGED <<now, req, handler, told, idle, ops>>

\* ... and stamps the group, whatever became of its requests meanwhile.
NudgeStamp ==
    /\ sweep.pc = "stamp"
    /\ \/ /\ req' = [r \in Reqs |-> IF r \in sweep.ids THEN [req[r] EXCEPT !.nudged = now] ELSE req[r]]
          /\ UNCHANGED repeated /\ NoFault
       \/ UNCHANGED req /\ repeated' = repeated \cup sweep.ids /\ Fault
    /\ sweep' = [pc |-> "idle", ids |-> {}]
    /\ UNCHANGED <<now, handler, told, idle, queued, nudges, ops>>

-----------------------------------------------------------------------------
(* The recipient and the clock.                                            *)

\* The recipient gets busy or goes away, or is idle again.
RecipientFlips ==
    /\ ops < MaxOps /\ ops' = ops + 1
    /\ idle' = ~idle
    /\ UNCHANGED <<now, req, handler, told, queued, sweep, nudges, repeated, faults>>

\* The queue delivers the oldest nudge to an idle recipient.
Deliver ==
    /\ idle /\ queued # {}
    /\ queued' = queued \ {CHOOSE k \in queued : \A l \in queued : k <= l}
    /\ UNCHANGED <<now, req, handler, told, idle, sweep, nudges, repeated, ops, faults>>

\* A sweep is over long before the next one, and its statements take no time.
Tick ==
    /\ now < MaxTime /\ sweep.pc = "idle"
    /\ now' = now + 1
    /\ UNCHANGED <<req, handler, told, idle, queued, sweep, nudges, repeated, ops, faults>>

Next ==
    \/ \E r \in Reqs : Create(r)
    \/ \E h \in Handlers, r \in Reqs : RespondGet(h, r) \/ AddMessage(h, r) \/ CancelGet(h, r)
    \/ \E h \in Handlers : Respond(h) \/ NotifyRequester(h) \/ FlipInfoRequested(h) \/ Cancel(h)
    \/ SweepQuery \/ NudgeEnqueue \/ NudgeStamp
    \/ RecipientFlips \/ Deliver \/ Tick

Spec == Init /\ [][Next]_vars

\* The sweeper is a ticker that recovers from panics, the queue drains to an
\* idle agent, handlers run to their end, time goes on.  Nobody has to answer.
Fairness ==
    /\ WF_vars(SweepQuery) /\ WF_vars(NudgeEnqueue \/ NudgeStamp)
    /\ WF_vars(Deliver) /\ WF_vars(Tick)
    /\ \A h \in Handlers : WF_vars(Respond(h) \/ NotifyRequester(h) \/ FlipInfoRequested(h) \/ Cancel(h))

FairSpec == Spec /\ Fairness

-----------------------------------------------------------------------------
(* Properties.                                                             *)

\* A closed request keeps its outcome and its responder: of a response, another
\* response, a cancellation and a late message that all read the row open, one
\* decides (request_store.go, the WHERE clauses).
OutcomeStays ==
    [][\A r \in Reqs : req[r].status \in Outcomes =>
          req'[r].status = req[r].status /\ req'[r].by = req[r].by]_vars

\* The requester is told the outcome the row has, and no other: the loser of a
\* race answers 404 and notifies nobody.
ToldTheTruth == \A r \in Reqs : told[r] \subseteq {req[r].status}

\* A request is covered by at most one nudge per RenudgeAfter, unless the stamp
\* of the one before failed (request_nudge_sweeper.go: "at most once per
\* request per hour").
NudgesSpaced ==
    [][\A r \in Reqs : nudges'[r] # nudges[r] /\ nudges[r] # Never =>
          r \in repeated \/ nudges'[r] > nudges[r] + RenudgeAfter]_vars

\* An unanswered request of an idle recipient is nudged, failed sweeps and all.
UnansweredNudged ==
    \A r \in Reqs : (req[r].status \in Open /\ req[r].to = "agent") ~>
        (nudges[r] # Never \/ req[r].status \in Outcomes \/ ~idle)
=============================================================================

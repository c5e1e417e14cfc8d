----------------------------- MODULE ApprovalGate -----------------------------
(***************************************************************************)
(* The gate before destructive operations: requireApproval and             *)
(* gateDestructive (approval_gate.go) with the decisions a human takes and *)
(* the requester's withdrawal (approvals.go), over approval_requests.      *)
(*                                                                         *)
(* A handler that may not proceed leaves a pending row and answers 202;    *)
(* its caller tries again after the decision.  The statements of one call  *)
(* are separate transactions, and calls for the same operation run side by *)
(* side: the row a call consumes is locked until its statement commits     *)
(* (FOR UPDATE SKIP LOCKED) and the row a call inserts is not seen by a    *)
(* statement that began before.                                            *)
(***************************************************************************)
EXTENDS Naturals, FiniteSets, Sequences

CONSTANTS
    Ops,        \* gated operations: (workspace, action, request hash)
    Callers,    \* handlers of destructive requests
    None,       \* no row, and the hash of a row that was not made by the gate
    MaxRows     \* bound on rows of approval_requests

ASSUME GateAssumption ==
    MaxRows \in Nat /\ IsFiniteSet(Callers) /\ None \notin Ops /\ None \notin 1..MaxRows

VARIABLES
    flag,      \* MOLECULE_PLATFORM_APPROVAL_GATE
    rows,      \* approval_requests
    caller,    \* each handler: its token, operation, place and row
    withdraw,  \* the row the withdraw handler has looked up
    used       \* ghost: how often a row let a handler pass

vars == <<flag, rows, caller, withdraw, used>>

Tokens == {"admin", "org", "plain"}
Status == {"pending", "approved", "denied", "withdrawn"}
RowIds == 1..MaxRows
NewRow(op) == [op |-> op, status |-> "pending", consumed |-> FALSE]
AtRest == [pc |-> "idle", op |-> None, row |-> None]

TypeOK ==
    /\ flag \in BOOLEAN
    /\ rows \in Seq([op : Ops \cup {None}, status : Status, consumed : BOOLEAN])
    /\ Len(rows) <= MaxRows
    /\ \A i \in DOMAIN rows : rows[i].consumed => rows[i].status = "approved"
    /\ caller \in [Callers -> [pc : {"idle", "gate", "consuming", "unapproved", "asking", "passed"},
                               op : Ops \cup {None}, row : RowIds \cup {None}]]
    /\ \A c \in Callers : caller[c].pc \in {"consuming", "passed"} <=> caller[c].row # None /\ caller[c].pc # "asking"
    /\ withdraw \in RowIds \cup {None}
    /\ used \in [RowIds -> Nat]

Init ==
    /\ flag \in BOOLEAN
    /\ rows = <<>>
    /\ caller = [c \in Callers |-> AtRest]
    /\ withdraw = None
    /\ used = [i \in RowIds |-> 0]

-----------------------------------------------------------------------------
(* The gate.                                                               *)

\* Who is gated: admin tokens always, org tokens under the rollout flag.
Gated(token) == token = "admin" \/ (flag /\ token = "org")

\* A destructive request arrives.  A caller outside the gate is let through.
Request(c) ==
    /\ caller[c].pc = "idle"
    /\ \E o \in Ops, t \in Tokens :
         /\ Gated(t)
         /\ caller' = [caller EXCEPT ![c] = [pc |-> "gate", op |-> o, row |-> None]]
    /\ UNCHANGED <<flag, rows, withdraw, used>>

\* Mutation: consumption is not looked at.
ApprovedFor(i, op) == rows[i].op = op /\ rows[i].status = "approved"

\* The rows the consuming UPDATE is after.
Usable(i, op) == rows[i].op = op /\ rows[i].status = "approved" /\ ~rows[i].consumed

\* SKIP LOCKED: rows another call's UPDATE holds are passed over.
Takes(i, op) == Usable(i, op) /\ \A d \in Callers : caller[d].pc = "consuming" => caller[d].row # i

\* The consuming UPDATE takes a row (the last decided one; here any) and locks
\* it, or finds none.
Consume(c) ==
    /\ caller[c].pc = "gate"
    /\ \/ \E i \in DOMAIN rows :
            /\ Takes(i, caller[c].op)
            /\ caller' = [caller EXCEPT ![c].pc = "consuming", ![c].row = i]
       \/ /\ \A i \in DOMAIN rows : ~Takes(i, caller[c].op)
          /\ caller' = [caller EXCEPT ![c].pc = "unapproved"]
    /\ UNCHANGED <<flag, rows, withdraw, used>>

\* The UPDATE commits, and the caller may proceed.
ConsumeCommits(c) ==
    /\ caller[c].pc = "consuming"
    /\ rows' = [rows EXCEPT ![caller[c].row].consumed = TRUE]
    /\ used' = [used EXCEPT ![caller[c].row] = @ + 1]
    /\ caller' = [caller EXCEPT ![c].pc = "passed"]
    /\ UNCHANGED <<flag, withdraw>>

\* The statement fails, or commits and its answer is lost, which spends the
\* approval for nothing: 500.
ConsumeFails(c) ==
    /\ caller[c].pc \in {"gate", "consuming"}
    /\ \/ UNCHANGED rows
       \/ caller[c].pc = "consuming" /\ rows' = [rows EXCEPT ![caller[c].row].consumed = TRUE]
    /\ caller' = [caller EXCEPT ![c] = AtRest]
    /\ UNCHANGED <<flag, withdraw, used>>

PendingFor(op) == {i \in DOMAIN rows : rows[i].op = op /\ rows[i].status = "pending"}

\* The snapshot of the second statement: a pending row of the operation, if any.
LookForAsk(c) ==
    /\ caller[c].pc = "unapproved"
    /\ \E i \in IF PendingFor(caller[c].op) = {} THEN {None} ELSE PendingFor(caller[c].op) :
         caller' = [caller EXCEPT ![c].pc = "asking", ![c].row = i]
    /\ UNCHANGED <<flag, rows, withdraw, used>>

\* Mutation: a pending row is not reused.
AlwaysAsk(saw) == TRUE

\* The INSERT takes place when the snapshot had no pending row.
MustAsk(saw) == saw = None

\* Create or reuse the pending row, tell the canvas and the parent, answer 202.
Ask(c) ==
    /\ caller[c].pc = "asking"
    /\ \/ MustAsk(caller[c].row) /\ Len(rows) < MaxRows /\ rows' = Append(rows, NewRow(caller[c].op))
       \/ ~MustAsk(caller[c].row) /\ UNCHANGED rows
       \/ MustAsk(caller[c].row) /\ UNCHANGED rows   \* the statement failed: 500
    /\ caller' = [caller EXCEPT ![c] = AtRest]
    /\ UNCHANGED <<flag, withdraw, used>>

\* The handler behind the gate does its work or fails in it: the approval is
\* spent either way.
Perform(c) ==
    /\ caller[c].pc = "passed"
    /\ caller' = [caller EXCEPT ![c] = AtRest]
    /\ UNCHANGED <<flag, rows, withdraw, used>>

-----------------------------------------------------------------------------
(* approvals.go                                                            *)

\* Create: a row without a request hash, which the gate never matches.
Create ==
    /\ Len(rows) < MaxRows
    /\ rows' = Append(rows, NewRow(None))
    /\ UNCHANGED <<flag, caller, withdraw, used>>

\* WHERE ... status = 'pending'
StillPending(i) == rows[i].status = "pending"

\* A consuming UPDATE holds the row against others until it commits.
Free(i) == \A d \in Callers : caller[d].pc = "consuming" => caller[d].row # i

Decide(i) ==
    /\ Free(i) /\ StillPending(i)
    /\ \E d \in {"approved", "denied"} : rows' = [rows EXCEPT ![i].status = d]
    /\ UNCHANGED <<flag, caller, withdraw, used>>

\* Withdraw looks the row up to compare the creator ...
WithdrawLookup(i) ==
    /\ withdraw = None
    /\ withdraw' = i
    /\ UNCHANGED <<flag, rows, caller, used>>

\* ... and then updates it: 409 when it has been decided meanwhile.
Withdraw ==
    /\ withdraw # None /\ Free(withdraw)
    /\ rows' = IF StillPending(withdraw) THEN [rows EXCEPT ![withdraw].status = "withdrawn"] ELSE rows
    /\ withdraw' = None
    /\ UNCHANGED <<flag, caller, used>>

-----------------------------------------------------------------------------

Next ==
    \/ \E c \in Callers : \/ Request(c) \/ Consume(c) \/ ConsumeCommits(c) \/ ConsumeFails(c)
                          \/ LookForAsk(c) \/ Ask(c) \/ Perform(c)
    \/ Create
    \/ \E i \in DOMAIN rows : Decide(i) \/ WithdrawLookup(i)
    \/ Withdraw

Spec == Init /\ [][Next]_vars

-----------------------------------------------------------------------------
(* Properties.                                                             *)

\* Every pass through the gate has an approval of its own for that very
\* operation: no row lets two handlers pass, however their statements
\* interleave, and no row does that a human did not approve or whose requester
\* withdrew it (approval_gate.go: "two concurrent destructive calls cannot both
\* consume the same approval").
PassesEarned ==
    /\ \A i \in RowIds : used[i] > 0 => used[i] = 1 /\ i \in DOMAIN rows /\ rows[i].status = "approved"
    /\ \A c \in Callers : caller[c].pc = "passed" => rows[caller[c].row].op = caller[c].op

\* Retries of an operation wait on their own request: there are never more
\* pending rows for an operation than calls that can have raced to ask for it.
AsksBounded == \A o \in Ops : Cardinality(PendingFor(o)) <= Cardinality(Callers)

\* A decision is final: neither a second decision nor a withdrawal that looked
\* the row up before it changes it.
DecisionStays ==
    [][\A i \in DOMAIN rows : rows[i].status # "pending" => rows'[i].status = rows[i].status]_vars
=============================================================================

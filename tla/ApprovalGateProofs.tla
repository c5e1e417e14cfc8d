-------------------------- MODULE ApprovalGateProofs --------------------------
(***************************************************************************)
(* ApprovalGate, for any number of operations, handlers and rows: what an  *)
(* approval lets through, how many requests wait for a human, and that a   *)
(* decision is final.                                                      *)
(***************************************************************************)
EXTENDS ApprovalGate, FiniteSetTheorems, TLAPS

\* A call in its consuming UPDATE holds the lock of an approved, unconsumed row
\* of its own operation ...
LocksUsable ==
    \A c \in Callers : caller[c].pc = "consuming" =>
        caller[c].row \in DOMAIN rows /\ Usable(caller[c].row, caller[c].op)

\* ... and holds it alone.
LocksExclusive ==
    \A c, d \in Callers :
        c # d /\ caller[c].pc = "consuming" /\ caller[d].pc = "consuming" =>
            caller[c].row # caller[d].row

\* A row that let a handler pass is consumed, and let just that one pass.
UsedIsSpent ==
    \A i \in RowIds : used[i] > 0 => used[i] = 1 /\ i \in DOMAIN rows /\ rows[i].consumed

\* A handler behind the gate went through a row of its operation.
PassedOnOwn ==
    \A c \in Callers : caller[c].pc = "passed" =>
        caller[c].row \in DOMAIN rows /\ rows[caller[c].row].op = caller[c].op

\* The withdraw handler has a row of the table.
WithdrawKnown == withdraw # None => withdraw \in DOMAIN rows

\* The calls whose snapshot had no pending row: each may still insert one.
Askers(o) == {c \in Callers : caller[c].pc = "asking" /\ caller[c].row = None /\ caller[c].op = o}

\* The pending rows of an operation and the inserts that are under way.
AsksCounted ==
    \A o \in Ops : Cardinality(PendingFor(o)) + Cardinality(Askers(o)) <= Cardinality(Callers)

GateInv == /\ TypeOK /\ LocksUsable /\ LocksExclusive /\ UsedIsSpent
           /\ PassedOnOwn /\ WithdrawKnown

Call == [pc : {"idle", "gate", "consuming", "unapproved", "asking", "passed"},
         op : Ops \cup {None}, row : RowIds \cup {None}]

Row == [op : Ops \cup {None}, status : Status, consumed : BOOLEAN]

\* A row added to the table leaves the others where they are.
LEMMA AppendRow ==
    ASSUME NEW s \in Seq(Row), NEW e \in Row
    PROVE  /\ Append(s, e) \in Seq(Row)
           /\ Len(Append(s, e)) = Len(s) + 1
           /\ DOMAIN Append(s, e) = DOMAIN s \cup {Len(s) + 1}
           /\ Len(s) + 1 \notin DOMAIN s
           /\ \A i \in DOMAIN s : Append(s, e)[i] = s[i]
           /\ Append(s, e)[Len(s) + 1] = e
<1>1. Len(s) \in Nat /\ DOMAIN s = 1..Len(s)
  OBVIOUS
<1> QED
  BY <1>1

\* A row that is written stays a row, and no other changes.
LEMMA UpdateRow ==
    ASSUME NEW s \in Seq(Row), NEW i \in DOMAIN s, NEW r \in Row
    PROVE  /\ [s EXCEPT ![i] = r] \in Seq(Row)
           /\ Len([s EXCEPT ![i] = r]) = Len(s)
           /\ DOMAIN [s EXCEPT ![i] = r] = DOMAIN s
           /\ \A j \in DOMAIN s : [s EXCEPT ![i] = r][j] = IF j = i THEN r ELSE s[j]
<1>1. Len(s) \in Nat /\ DOMAIN s = 1..Len(s) /\ s \in [1..Len(s) -> Row]
  OBVIOUS
<1>2. [s EXCEPT ![i] = r] \in [1..Len(s) -> Row]
  BY <1>1
<1> QED
  BY <1>1, <1>2

\* The consuming UPDATE sets consumed_at of its row and nothing else.
LEMMA ConsumedRow ==
    ASSUME TypeOK, NEW i \in DOMAIN rows, rows' = [rows EXCEPT ![i].consumed = TRUE]
    PROVE  /\ rows' \in Seq(Row) /\ Len(rows') = Len(rows) /\ DOMAIN rows' = DOMAIN rows
           /\ \A j \in DOMAIN rows : /\ rows'[j].op = rows[j].op
                                     /\ rows'[j].status = rows[j].status
                                     /\ j # i => rows'[j].consumed = rows[j].consumed
           /\ rows'[i].consumed = TRUE
<1> DEFINE r == [rows[i] EXCEPT !.consumed = TRUE]
<1>0. rows \in Seq(Row)
  BY DEF TypeOK, Row
<1>1. rows \in Seq(Row) /\ rows[i] \in Row
  BY <1>0
<1>2. /\ r \in Row /\ r.op = rows[i].op /\ r.status = rows[i].status
      /\ r.consumed = TRUE
  BY <1>1 DEF Row
<1>3. rows' = [rows EXCEPT ![i] = r]
  OBVIOUS
<1> HIDE DEF r
<1> DEFINE t == [rows EXCEPT ![i] = r]
<1>4. /\ t \in Seq(Row) /\ Len(t) = Len(rows) /\ DOMAIN t = DOMAIN rows
      /\ \A j \in DOMAIN rows : t[j] = IF j = i THEN r ELSE rows[j]
  BY <1>1, <1>2, UpdateRow
<1>5. rows' = t
  BY <1>3
<1> HIDE DEF t
<1> QED
  BY <1>2, <1>4, <1>5

\* A decision or a withdrawal writes the status of its row and nothing else.
LEMMA SettledRow ==
    ASSUME TypeOK, NEW i \in DOMAIN rows, NEW st \in Status, rows' = [rows EXCEPT ![i].status = st]
    PROVE  /\ rows' \in Seq(Row) /\ Len(rows') = Len(rows) /\ DOMAIN rows' = DOMAIN rows
           /\ \A j \in DOMAIN rows : /\ rows'[j].op = rows[j].op
                                     /\ rows'[j].consumed = rows[j].consumed
                                     /\ j # i => rows'[j].status = rows[j].status
           /\ rows'[i].status = st
<1> DEFINE r == [rows[i] EXCEPT !.status = st]
<1>0. rows \in Seq(Row)
  BY DEF TypeOK, Row
<1>1. rows \in Seq(Row) /\ rows[i] \in Row
  BY <1>0
<1>2. /\ r \in Row /\ r.op = rows[i].op /\ r.consumed = rows[i].consumed
      /\ r.status = st
  BY <1>1 DEF Row
<1>3. rows' = [rows EXCEPT ![i] = r]
  OBVIOUS
<1> HIDE DEF r
<1> DEFINE t == [rows EXCEPT ![i] = r]
<1>4. /\ t \in Seq(Row) /\ Len(t) = Len(rows) /\ DOMAIN t = DOMAIN rows
      /\ \A j \in DOMAIN rows : t[j] = IF j = i THEN r ELSE rows[j]
  BY <1>1, <1>2, UpdateRow
<1>5. rows' = t
  BY <1>3
<1> HIDE DEF t
<1> QED
  BY <1>2, <1>4, <1>5

\* The new row of a table that is not full is one of the bounded rows.
LEMMA RowsBounded ==
    ASSUME TypeOK PROVE DOMAIN rows = 1..Len(rows) /\ DOMAIN rows \subseteq RowIds
BY GateAssumption DEF TypeOK, RowIds

\* Where a step that writes pc and row leaves the callers.
LEMMA Stepped ==
    ASSUME TypeOK, NEW c \in Callers, NEW i \in RowIds \cup {None}, NEW l,
           l \in {"idle", "gate", "consuming", "unapproved", "asking", "passed"},
           caller' = [caller EXCEPT ![c].pc = l, ![c].row = i]
    PROVE  /\ caller'[c].pc = l /\ caller'[c].op = caller[c].op /\ caller'[c].row = i
           /\ \A d \in Callers : d # c => caller'[d] = caller[d]
           /\ caller' \in [Callers -> Call]
<1>1. caller \in [Callers -> Call] /\ caller[c] \in Call
  BY DEF TypeOK, Call
<1>2. caller' = [caller EXCEPT ![c] = [caller[c] EXCEPT !.pc = l, !.row = i]]
  OBVIOUS
<1>3. [caller[c] EXCEPT !.pc = l, !.row = i] \in Call
  BY <1>1 DEF Call
<1>4. caller' \in [Callers -> Call]
  BY <1>1, <1>2, <1>3
<1> QED
  BY <1>1, <1>2, <1>4 DEF Call

LEMMA GateInit == Init => GateInv
<1> SUFFICES ASSUME Init PROVE GateInv
  OBVIOUS
<1>1. TypeOK
  BY GateAssumption DEF Init, TypeOK, AtRest, RowIds
<1>2. LocksUsable /\ LocksExclusive /\ UsedIsSpent /\ PassedOnOwn /\ WithdrawKnown
  BY DEF Init, LocksUsable, LocksExclusive, UsedIsSpent, PassedOnOwn, WithdrawKnown, AtRest
<1> QED
  BY <1>1, <1>2 DEF GateInv

\* The steps of a call that only move the call.
LEMMA CallMoves ==
    ASSUME GateInv, NEW c \in Callers,
           Request(c) \/ Consume(c) \/ LookForAsk(c) \/ Perform(c)
    PROVE  GateInv'
<1> USE DEF GateInv
<1>1. CASE Request(c)
  <2>1. TypeOK'
    BY <1>1 DEF Request, TypeOK
  <2> QED
    BY <1>1, <2>1 DEF Request, TypeOK, LocksUsable, LocksExclusive, UsedIsSpent,
       PassedOnOwn, WithdrawKnown, Usable
<1>2. CASE Consume(c)
  <2>1. CASE \E i \in DOMAIN rows :
               /\ Takes(i, caller[c].op)
               /\ caller' = [caller EXCEPT ![c].pc = "consuming", ![c].row = i]
    <3>1. PICK i \in DOMAIN rows :
               /\ Takes(i, caller[c].op)
               /\ caller' = [caller EXCEPT ![c].pc = "consuming", ![c].row = i]
      BY <2>1
    <3>2. i \in RowIds /\ i # None
      BY RowsBounded, GateAssumption DEF RowIds
    <3>3. /\ caller'[c].pc = "consuming" /\ caller'[c].op = caller[c].op /\ caller'[c].row = i
          /\ \A d \in Callers : d # c => caller'[d] = caller[d]
          /\ caller' \in [Callers -> Call]
      BY <3>1, <3>2, Stepped
    <3>4. UNCHANGED <<flag, rows, withdraw, used>>
      BY <1>2 DEF Consume
    <3>5. TypeOK'
      BY <3>2, <3>3, <3>4 DEF TypeOK, Call
    <3>6. LocksUsable' /\ LocksExclusive'
      BY <3>1, <3>3, <3>4 DEF LocksUsable, LocksExclusive, Takes, Usable
    <3>7. UsedIsSpent' /\ PassedOnOwn' /\ WithdrawKnown'
      BY <3>3, <3>4 DEF UsedIsSpent, PassedOnOwn, WithdrawKnown
    <3> QED
      BY <3>5, <3>6, <3>7
  <2>2. CASE caller' = [caller EXCEPT ![c].pc = "unapproved"]
    <3>1. /\ caller'[c] = [pc |-> "unapproved", op |-> caller[c].op, row |-> caller[c].row]
          /\ \A d \in Callers : d # c => caller'[d] = caller[d]
          /\ caller' \in [Callers -> Call]
      BY <2>2 DEF TypeOK, Call
    <3>2. UNCHANGED <<flag, rows, withdraw, used>> /\ caller[c].pc = "gate"
      BY <1>2 DEF Consume
    <3>3. TypeOK'
      <4>1. \A d \in Callers : caller'[d].pc \in {"consuming", "passed"} <=>
                                caller'[d].row # None /\ caller'[d].pc # "asking"
        BY <3>1, <3>2 DEF TypeOK
      <4> QED
        BY <3>1, <3>2, <4>1 DEF TypeOK, Call
    <3>4. LocksUsable' /\ LocksExclusive' /\ UsedIsSpent' /\ PassedOnOwn' /\ WithdrawKnown'
      BY <3>1, <3>2 DEF LocksUsable, LocksExclusive,
         UsedIsSpent, PassedOnOwn, WithdrawKnown, Usable
    <3> QED
      BY <3>3, <3>4
  <2> QED
    BY <1>2, <2>1, <2>2 DEF Consume
<1>3. CASE LookForAsk(c)
  <2>1. PICK i \in DOMAIN rows \cup {None} :
          caller' = [caller EXCEPT ![c].pc = "asking", ![c].row = i]
    BY <1>3 DEF LookForAsk, PendingFor
  <2>2. /\ caller'[c].pc = "asking" /\ caller'[c].op = caller[c].op /\ caller'[c].row = i
        /\ \A d \in Callers : d # c => caller'[d] = caller[d]
        /\ caller' \in [Callers -> Call]
    BY <2>1, RowsBounded, Stepped
  <2>3. UNCHANGED <<flag, rows, withdraw, used>> /\ caller[c].pc = "unapproved"
    BY <1>3 DEF LookForAsk
  <2>4. TypeOK'
    <3>1. \A d \in Callers : caller'[d].pc \in {"consuming", "passed"} <=>
                                caller'[d].row # None /\ caller'[d].pc # "asking"
      <4>1. caller'[c].pc = "asking"
        BY <2>2
      <4>2. ASSUME NEW d \in Callers, d # c
            PROVE  caller'[d].pc \in {"consuming", "passed"} <=>
                                caller'[d].row # None /\ caller'[d].pc # "asking"
        BY <2>2, <4>2 DEF TypeOK
      <4> QED
        BY <4>1, <4>2
    <3> QED
      BY <2>2, <2>3, <3>1 DEF TypeOK, Call
  <2>5. LocksUsable' /\ LocksExclusive' /\ UsedIsSpent' /\ PassedOnOwn' /\ WithdrawKnown'
    BY <2>2, <2>3 DEF LocksUsable, LocksExclusive,
       UsedIsSpent, PassedOnOwn, WithdrawKnown, Usable
  <2> QED
    BY <2>4, <2>5
<1>4. CASE Perform(c)
  <2>1. TypeOK'
    BY <1>4 DEF Perform, TypeOK, AtRest
  <2> QED
    BY <1>4, <2>1 DEF Perform, TypeOK, AtRest, LocksUsable, LocksExclusive,
       UsedIsSpent, PassedOnOwn, WithdrawKnown, Usable
<1> QED
  BY <1>1, <1>2, <1>3, <1>4

\* The consuming UPDATE commits: its row was nobody else's and had let nobody
\* pass.
LEMMA CommitKeeps ==
    ASSUME GateInv, NEW c \in Callers, ConsumeCommits(c) PROVE GateInv'
<1> USE DEF GateInv
<1> DEFINE i == caller[c].row
<1>1. i \in DOMAIN rows /\ i \in RowIds /\ Usable(i, caller[c].op)
  BY RowsBounded DEF ConsumeCommits, LocksUsable
<1>2. /\ rows' \in Seq(Row) /\ Len(rows') = Len(rows) /\ DOMAIN rows' = DOMAIN rows
      /\ \A j \in DOMAIN rows : /\ rows'[j].op = rows[j].op
                                /\ rows'[j].status = rows[j].status
                                /\ j # i => rows'[j].consumed = rows[j].consumed
      /\ rows'[i].consumed = TRUE
  BY <1>1, ConsumedRow DEF ConsumeCommits
<1>3. used[i] = 0
  BY <1>1 DEF UsedIsSpent, Usable, TypeOK
<1>4. used' \in [RowIds -> Nat] /\ used'[i] = 1 /\ \A j \in RowIds : j # i => used'[j] = used[j]
  BY <1>1, <1>3 DEF ConsumeCommits, TypeOK
<1>5. /\ caller'[c] = [caller[c] EXCEPT !.pc = "passed"]
      /\ \A d \in Callers : d # c => caller'[d] = caller[d]
  BY DEF ConsumeCommits, TypeOK
<1>6. TypeOK'
  <2>1. \A j \in DOMAIN rows' : rows'[j].consumed => rows'[j].status = "approved"
    BY <1>1, <1>2 DEF TypeOK, Usable
  <2>2. caller' \in [Callers -> Call]
    BY DEF ConsumeCommits, TypeOK, Call
  <2>3. \A d \in Callers : caller'[d].pc \in {"consuming", "passed"} <=> caller'[d].row # None /\ caller'[d].pc # "asking"
    BY <1>5 DEF ConsumeCommits, TypeOK
  <2> QED
    BY <1>2, <1>4, <2>1, <2>2, <2>3 DEF ConsumeCommits, TypeOK, Row, Call
<1>7. LocksUsable'
  BY <1>1, <1>2, <1>5 DEF ConsumeCommits, TypeOK, LocksUsable, LocksExclusive, Usable
<1>8. LocksExclusive'
  BY <1>5 DEF TypeOK, LocksExclusive
<1>9. UsedIsSpent'
  BY <1>1, <1>2, <1>4 DEF UsedIsSpent
<1>10. PassedOnOwn'
  BY <1>1, <1>2, <1>5 DEF TypeOK, PassedOnOwn, Usable
<1>11. WithdrawKnown'
  BY <1>2 DEF ConsumeCommits, WithdrawKnown
<1> QED
  BY <1>6, <1>7, <1>8, <1>9, <1>10, <1>11

\* A consuming UPDATE that fails, whether it committed or not.
LEMMA ConsumeFailsKeeps ==
    ASSUME GateInv, NEW c \in Callers, ConsumeFails(c) PROVE GateInv'
<1> USE DEF GateInv
<1>1. /\ caller'[c] = AtRest
      /\ \A d \in Callers : d # c => caller'[d] = caller[d]
      /\ caller' \in [Callers -> Call]
  BY DEF ConsumeFails, TypeOK, AtRest, Call
<1>2. CASE rows' = rows
  <2>1. TypeOK'
    BY <1>1, <1>2 DEF ConsumeFails, TypeOK, AtRest, Call
  <2> QED
    BY <1>1, <1>2, <2>1 DEF ConsumeFails, TypeOK, AtRest, LocksUsable, LocksExclusive,
       UsedIsSpent, PassedOnOwn, WithdrawKnown, Usable
<1>3. CASE caller[c].pc = "consuming" /\ rows' = [rows EXCEPT ![caller[c].row].consumed = TRUE]
  <2> DEFINE i == caller[c].row
  <2>1. i \in DOMAIN rows /\ i \in RowIds /\ Usable(i, caller[c].op)
    BY <1>3, RowsBounded DEF LocksUsable
  <2>2. /\ rows' \in Seq(Row) /\ Len(rows') = Len(rows) /\ DOMAIN rows' = DOMAIN rows
        /\ \A j \in DOMAIN rows : /\ rows'[j].op = rows[j].op
                                  /\ rows'[j].status = rows[j].status
                                  /\ j # i => rows'[j].consumed = rows[j].consumed
        /\ rows'[i].consumed = TRUE
    BY <1>3, <2>1, ConsumedRow
  <2>3. TypeOK'
    <3>1. \A j \in DOMAIN rows' : rows'[j].consumed => rows'[j].status = "approved"
      BY <2>1, <2>2 DEF TypeOK, Usable
    <3> QED
      BY <1>1, <2>2, <3>1 DEF ConsumeFails, TypeOK, Row, AtRest, Call
  <2>4. LocksUsable' /\ LocksExclusive'
    BY <1>1, <1>3, <2>1, <2>2 DEF AtRest, LocksUsable, LocksExclusive, Usable
  <2>5. UsedIsSpent' /\ WithdrawKnown'
    BY <2>2 DEF ConsumeFails, UsedIsSpent, WithdrawKnown
  <2>6. PassedOnOwn'
    BY <1>1, <2>2 DEF TypeOK, AtRest, PassedOnOwn
  <2> QED
    BY <2>3, <2>4, <2>5, <2>6
<1> QED
  BY <1>2, <1>3 DEF ConsumeFails

\* A pending row is added, by a call or by the approvals endpoint.
LEMMA AddRowKeeps ==
    ASSUME GateInv, NEW o \in Ops \cup {None}, Len(rows) < MaxRows,
           rows' = Append(rows, NewRow(o)), UNCHANGED <<flag, withdraw, used>>,
           TypeOK',
           \A c \in Callers : caller'[c] = caller[c] \/ caller'[c] = AtRest
    PROVE  GateInv'
<1> USE DEF GateInv
<1>1. NewRow(o) \in Row
  BY DEF NewRow, Row, Status
<1>2. /\ DOMAIN rows' = DOMAIN rows \cup {Len(rows) + 1}
      /\ \A i \in DOMAIN rows : rows'[i] = rows[i]
  BY <1>1, AppendRow DEF TypeOK, Row
<1>3. LocksUsable' /\ LocksExclusive'
  BY <1>2 DEF AtRest, LocksUsable, LocksExclusive, Usable
<1>4. UsedIsSpent' /\ PassedOnOwn' /\ WithdrawKnown'
  BY <1>2 DEF AtRest, UsedIsSpent, PassedOnOwn, WithdrawKnown
<1> QED
  BY <1>3, <1>4

\* A pending row is decided or withdrawn: nobody holds it and nobody passed on it.
LEMMA SettleKeeps ==
    ASSUME GateInv, NEW i \in DOMAIN rows, StillPending(i), NEW st \in Status \ {"pending"},
           rows' = [rows EXCEPT ![i].status = st],
           UNCHANGED <<flag, caller, used>>, withdraw' \in {withdraw, None}
    PROVE  GateInv'
<1> USE DEF GateInv
<1>1. /\ rows' \in Seq(Row) /\ Len(rows') = Len(rows) /\ DOMAIN rows' = DOMAIN rows
      /\ \A j \in DOMAIN rows : /\ rows'[j].op = rows[j].op
                                /\ rows'[j].consumed = rows[j].consumed
                                /\ j # i => rows'[j].status = rows[j].status
      /\ rows'[i].status = st
  BY SettledRow
<1>2. ~rows[i].consumed
  BY DEF TypeOK, StillPending
<1>3. TypeOK'
  BY <1>1, <1>2 DEF TypeOK, Row
<1>4. LocksUsable' /\ LocksExclusive'
  BY <1>1 DEF LocksUsable, LocksExclusive, Usable, StillPending
<1>5. UsedIsSpent' /\ PassedOnOwn' /\ WithdrawKnown'
  BY <1>1 DEF UsedIsSpent, PassedOnOwn, WithdrawKnown
<1> QED
  BY <1>3, <1>4, <1>5

LEMMA AskTypes == ASSUME GateInv, NEW c \in Callers, Ask(c) PROVE TypeOK'
<1> USE DEF GateInv
<1>1. /\ caller'[c] = AtRest
      /\ \A d \in Callers : d # c => caller'[d] = caller[d]
      /\ caller' \in [Callers -> Call]
  BY DEF Ask, TypeOK, AtRest, Call
<1>2. rows' \in Seq(Row) /\ Len(rows') <= MaxRows
      /\ \A i \in DOMAIN rows' : rows'[i].consumed => rows'[i].status = "approved"
  <2>1. CASE rows' = rows
    BY <2>1 DEF TypeOK, Row
  <2>2. CASE Len(rows) < MaxRows /\ rows' = Append(rows, NewRow(caller[c].op))
    <3>1. NewRow(caller[c].op) \in Row /\ NewRow(caller[c].op).consumed = FALSE
      BY DEF NewRow, Row, Status, TypeOK
    <3>2. rows \in Seq(Row) /\ Len(rows) \in Nat
      BY DEF TypeOK, Row
    <3>3. /\ rows' \in Seq(Row) /\ Len(rows') = Len(rows) + 1
          /\ DOMAIN rows' = DOMAIN rows \cup {Len(rows) + 1}
          /\ \A i \in DOMAIN rows : rows'[i] = rows[i]
          /\ rows'[Len(rows) + 1] = NewRow(caller[c].op)
      BY <2>2, <3>1, <3>2, AppendRow
    <3> QED
      BY <2>2, <3>1, <3>2, <3>3, GateAssumption DEF TypeOK
  <2> QED
    BY <2>1, <2>2 DEF Ask
<1>3. UNCHANGED <<flag, withdraw, used>>
  BY DEF Ask
<1> QED
  BY <1>1, <1>2, <1>3 DEF TypeOK, Row, Call, AtRest

\* A call inserts its pending row, reuses one, or fails.
LEMMA AskKeeps == ASSUME GateInv, NEW c \in Callers, Ask(c) PROVE GateInv'
<1>1. TypeOK'
  BY AskTypes
<1>2. /\ UNCHANGED <<flag, withdraw, used>>
      /\ \A d \in Callers : caller'[d] = caller[d] \/ caller'[d] = AtRest
      /\ caller[c].op \in Ops \cup {None}
  BY DEF GateInv, Ask, TypeOK, AtRest
<1>3. CASE rows' = rows
  BY <1>1, <1>2, <1>3 DEF GateInv, AtRest, LocksUsable, LocksExclusive, UsedIsSpent,
     PassedOnOwn, WithdrawKnown, Usable
<1>4. CASE Len(rows) < MaxRows /\ rows' = Append(rows, NewRow(caller[c].op))
  BY <1>1, <1>2, <1>4, AddRowKeeps
<1> QED
  BY <1>3, <1>4 DEF Ask

\* A request made by hand.
LEMMA CreateKeeps == ASSUME GateInv, Create PROVE GateInv'
<1>1. NewRow(None) \in Row /\ NewRow(None).consumed = FALSE
  BY DEF NewRow, Row, Status
<1>2. rows \in Seq(Row) /\ Len(rows) \in Nat
  BY DEF GateInv, TypeOK, Row
<1>3. /\ rows' \in Seq(Row) /\ Len(rows') = Len(rows) + 1
      /\ DOMAIN rows' = DOMAIN rows \cup {Len(rows) + 1}
      /\ \A i \in DOMAIN rows : rows'[i] = rows[i]
      /\ rows'[Len(rows) + 1] = NewRow(None)
  BY <1>1, <1>2, AppendRow DEF Create
<1>4. UNCHANGED <<flag, caller, withdraw, used>> /\ Len(rows) < MaxRows
  BY DEF Create
<1>5. TypeOK'
  BY <1>1, <1>2, <1>3, <1>4, GateAssumption DEF GateInv, TypeOK, Row
<1> QED
  BY <1>4, <1>5, AddRowKeeps DEF Create

\* The human's decision, and the two statements of a withdrawal.
LEMMA ApprovalsKeep ==
    ASSUME GateInv, (\E i \in DOMAIN rows : Decide(i) \/ WithdrawLookup(i)) \/ Withdraw
    PROVE  GateInv'
<1>1. ASSUME NEW i \in DOMAIN rows, Decide(i) PROVE GateInv'
  <2>1. PICK st \in {"approved", "denied"} : rows' = [rows EXCEPT ![i].status = st]
    BY <1>1 DEF Decide
  <2>2. st \in Status \ {"pending"}
    BY DEF Status
  <2>3. StillPending(i) /\ UNCHANGED <<flag, caller, used>> /\ withdraw' = withdraw
    BY <1>1 DEF Decide
  <2> QED
    BY <2>1, <2>2, <2>3, SettleKeeps
<1>2. ASSUME NEW i \in DOMAIN rows, WithdrawLookup(i) PROVE GateInv'
  BY <1>2, RowsBounded DEF GateInv, WithdrawLookup, TypeOK, LocksUsable, LocksExclusive, UsedIsSpent,
     PassedOnOwn, WithdrawKnown, Usable
<1>3. CASE Withdraw
  <2>1. CASE StillPending(withdraw)
    <3>1. withdraw \in DOMAIN rows
      BY <1>3 DEF GateInv, Withdraw, WithdrawKnown
    <3>2. "withdrawn" \in Status \ {"pending"}
      BY DEF Status
    <3> QED
      BY <1>3, <2>1, <3>1, <3>2, SettleKeeps DEF Withdraw
  <2>2. CASE ~StillPending(withdraw)
    BY <1>3, <2>2 DEF GateInv, Withdraw, TypeOK, LocksUsable, LocksExclusive, UsedIsSpent,
       PassedOnOwn, WithdrawKnown, Usable
  <2> QED
    BY <2>1, <2>2
<1> QED
  BY <1>1, <1>2, <1>3

LEMMA GateNext == GateInv /\ [Next]_vars => GateInv'
<1> SUFFICES ASSUME GateInv, [Next]_vars PROVE GateInv'
  OBVIOUS
<1>1. ASSUME NEW c \in Callers,
             \/ Request(c) \/ Consume(c) \/ ConsumeCommits(c) \/ ConsumeFails(c)
             \/ LookForAsk(c) \/ Ask(c) \/ Perform(c)
      PROVE  GateInv'
  BY <1>1, CallMoves, CommitKeeps, ConsumeFailsKeeps, AskKeeps
<1>2. CASE Create
  BY <1>2, CreateKeeps
<1>3. CASE (\E i \in DOMAIN rows : Decide(i) \/ WithdrawLookup(i)) \/ Withdraw
  BY <1>3, ApprovalsKeep
<1>4. CASE UNCHANGED vars
  BY <1>4 DEF vars, GateInv, TypeOK, LocksUsable, LocksExclusive, UsedIsSpent,
     PassedOnOwn, WithdrawKnown, Usable
<1> QED
  BY <1>1, <1>2, <1>3, <1>4 DEF Next

\* The invariant of the gate.
LEMMA GateInvariant == Spec => []GateInv
BY GateInit, GateNext, PTL DEF Spec

\* Handlers, approval rows and locks keep their types, for any number of
\* operations, handlers and rows.
THEOREM GateTypes == Spec => []TypeOK
BY GateInvariant, PTL DEF GateInv

\* Every pass through the gate has an approval of its own for that very
\* operation (requireApproval), for any number of operations and handlers.
THEOREM GatePasses == Spec => []PassesEarned
<1>1. GateInv => PassesEarned
  <2> SUFFICES ASSUME GateInv PROVE PassesEarned
    OBVIOUS
  <2>1. \A i \in RowIds : used[i] > 0 => used[i] = 1 /\ i \in DOMAIN rows /\ rows[i].status = "approved"
    BY DEF GateInv, TypeOK, UsedIsSpent
  <2>2. \A c \in Callers : caller[c].pc = "passed" => rows[caller[c].row].op = caller[c].op
    BY DEF GateInv, PassedOnOwn
  <2> QED
    BY <2>1, <2>2 DEF PassesEarned
<1> QED
  BY <1>1, GateInvariant, PTL

\* A decision is final, against a second decision and against a withdrawal that
\* looked the row up before (approvals.go: Decide, Withdraw).
THEOREM GateDecisions == Spec => DecisionStays
<1> DEFINE Stays == \A i \in DOMAIN rows : rows[i].status # "pending" => rows'[i].status = rows[i].status
<1>1. GateInv /\ [Next]_vars => [Stays]_vars
  <2> SUFFICES ASSUME GateInv, Next, NEW i \in DOMAIN rows, rows[i].status # "pending"
               PROVE  rows'[i].status = rows[i].status
    BY DEF vars
  <2>1. TypeOK /\ rows \in Seq(Row)
    BY DEF GateInv, TypeOK, Row
  <2>2. CASE rows' = rows
    BY <2>2
  <2>3. ASSUME NEW j \in DOMAIN rows, rows' = [rows EXCEPT ![j].consumed = TRUE]
        PROVE  rows'[i].status = rows[i].status
    BY <2>1, <2>3, ConsumedRow
  <2>4. ASSUME NEW o \in Ops \cup {None}, rows' = Append(rows, NewRow(o))
        PROVE  rows'[i].status = rows[i].status
    <3>1. NewRow(o) \in Row
      BY DEF NewRow, Row, Status
    <3> QED
      BY <2>1, <2>4, <3>1, AppendRow
  <2>5. ASSUME NEW j \in DOMAIN rows, NEW st \in Status, StillPending(j),
               rows' = [rows EXCEPT ![j].status = st]
        PROVE  rows'[i].status = rows[i].status
    BY <2>1, <2>5, SettledRow DEF StillPending
  <2>6. ASSUME NEW c \in Callers, ConsumeCommits(c) \/ ConsumeFails(c)
        PROVE  rows'[i].status = rows[i].status
    <3>1. CASE rows' = rows
      BY <3>1
    <3>2. CASE caller[c].pc = "consuming" /\ rows' = [rows EXCEPT ![caller[c].row].consumed = TRUE]
      <4>1. caller[c].row \in DOMAIN rows
        BY <3>2 DEF GateInv, LocksUsable
      <4> QED
        BY <2>3, <3>2, <4>1
    <3> QED
      BY <2>6, <3>1, <3>2 DEF ConsumeCommits, ConsumeFails
  <2>7. ASSUME NEW c \in Callers, Ask(c) PROVE rows'[i].status = rows[i].status
    <3>1. caller[c].op \in Ops \cup {None}
      BY <2>1 DEF TypeOK
    <3> QED
      BY <2>2, <2>4, <2>7, <3>1 DEF Ask
  <2>8. ASSUME NEW j \in DOMAIN rows, Decide(j) PROVE rows'[i].status = rows[i].status
    BY <2>5, <2>8 DEF Decide, Status
  <2>9. ASSUME Withdraw PROVE rows'[i].status = rows[i].status
    <3>1. withdraw \in DOMAIN rows /\ "withdrawn" \in Status
      BY <2>9 DEF GateInv, WithdrawKnown, Withdraw, Status
    <3> QED
      BY <2>2, <2>5, <2>9, <3>1 DEF Withdraw
  <2>10. ASSUME Create PROVE rows'[i].status = rows[i].status
    BY <2>4, <2>10 DEF Create
  <2>11. ASSUME NEW c \in Callers, Request(c) \/ Consume(c) \/ LookForAsk(c) \/ Perform(c)
         PROVE  rows'[i].status = rows[i].status
    BY <2>2, <2>11 DEF Request, Consume, LookForAsk, Perform
  <2>12. ASSUME NEW j \in DOMAIN rows, WithdrawLookup(j) PROVE rows'[i].status = rows[i].status
    BY <2>2, <2>12 DEF WithdrawLookup
  <2> QED
    BY <2>6, <2>7, <2>8, <2>9, <2>10, <2>11, <2>12 DEF Next
<1> QED
  BY <1>1, GateInvariant, PTL DEF Spec, DecisionStays

\* The two sets that are counted are finite.
LEMMA AsksFinite ==
    ASSUME TypeOK, NEW o
    PROVE  /\ IsFiniteSet(PendingFor(o)) /\ Cardinality(PendingFor(o)) \in Nat
           /\ IsFiniteSet(Askers(o)) /\ Cardinality(Askers(o)) \in Nat
           /\ Cardinality(Askers(o)) <= Cardinality(Callers) /\ Cardinality(Callers) \in Nat
<1>1. IsFiniteSet(DOMAIN rows)
  <2>1. Len(rows) \in Nat /\ DOMAIN rows = 1..Len(rows)
    BY DEF TypeOK
  <2> QED
    BY <2>1, FS_Interval
<1>2. PendingFor(o) \in SUBSET DOMAIN rows /\ Askers(o) \in SUBSET Callers
  BY DEF PendingFor, Askers
<1>3. IsFiniteSet(Callers)
  BY GateAssumption
<1> QED
  BY <1>1, <1>2, <1>3, FS_Subset, FS_CardinalityType

\* A step that adds neither a pending row nor an insert keeps the count.
LEMMA CountShrinks ==
    ASSUME TypeOK, NEW o \in Ops, AsksCounted,
           PendingFor(o)' \subseteq PendingFor(o), Askers(o)' \subseteq Askers(o)
    PROVE  Cardinality(PendingFor(o)') + Cardinality(Askers(o)') <= Cardinality(Callers)
<1>1. /\ IsFiniteSet(PendingFor(o)) /\ Cardinality(PendingFor(o)) \in Nat
      /\ IsFiniteSet(Askers(o)) /\ Cardinality(Askers(o)) \in Nat
      /\ Cardinality(Callers) \in Nat
  BY AsksFinite
<1>2. /\ Cardinality(PendingFor(o)') <= Cardinality(PendingFor(o))
      /\ Cardinality(PendingFor(o)') \in Nat
  BY <1>1, FS_Subset, FS_CardinalityType
<1>3. /\ Cardinality(Askers(o)') <= Cardinality(Askers(o))
      /\ Cardinality(Askers(o)') \in Nat
  BY <1>1, FS_Subset, FS_CardinalityType
<1>4. Cardinality(PendingFor(o)) + Cardinality(Askers(o)) <= Cardinality(Callers)
  BY DEF AsksCounted
<1> QED
  BY <1>1, <1>2, <1>3, <1>4

\* The snapshot: a call that will insert has seen no pending row.
LEMMA LookCounts ==
    ASSUME GateInv, AsksCounted, NEW c \in Callers, LookForAsk(c), NEW o \in Ops
    PROVE  Cardinality(PendingFor(o)') + Cardinality(Askers(o)') <= Cardinality(Callers)
<1>0. TypeOK /\ rows' = rows /\ PendingFor(o)' = PendingFor(o)
  BY DEF GateInv, LookForAsk, PendingFor
<1>1. PICK i \in IF PendingFor(caller[c].op) = {} THEN {None} ELSE PendingFor(caller[c].op) :
        caller' = [caller EXCEPT ![c].pc = "asking", ![c].row = i]
  BY DEF LookForAsk
<1>2. /\ caller'[c].op = caller[c].op /\ caller'[c].row = i
      /\ \A d \in Callers : d # c => caller'[d] = caller[d]
  BY <1>0, <1>1 DEF TypeOK
<1>3. CASE i = None /\ caller[c].op = o
  <2>1. None \notin DOMAIN rows
    BY <1>0, RowsBounded, GateAssumption DEF RowIds
  <2>2. PendingFor(o) = {}
    BY <1>1, <1>3, <2>1 DEF PendingFor
  <2>3. Cardinality(PendingFor(o)') = 0
    BY <1>0, <2>2, FS_EmptySet
  <2>4. Askers(o)' \in SUBSET Callers
    BY DEF Askers
  <2>5. Cardinality(Askers(o)') <= Cardinality(Callers) /\ Cardinality(Askers(o)') \in Nat
    BY <2>4, GateAssumption, FS_Subset, FS_CardinalityType
  <2> QED
    BY <2>3, <2>5
<1>4. CASE ~(i = None /\ caller[c].op = o)
  <2>1. Askers(o)' \subseteq Askers(o)
    BY <1>2, <1>4 DEF Askers
  <2> QED
    BY <1>0, <2>1, CountShrinks
<1> QED
  BY <1>3, <1>4

\* The insert: the call was counted as one that may still insert.
LEMMA AskCounts ==
    ASSUME GateInv, AsksCounted, NEW c \in Callers, Ask(c), NEW o \in Ops
    PROVE  Cardinality(PendingFor(o)') + Cardinality(Askers(o)') <= Cardinality(Callers)
<1>0. TypeOK /\ rows \in Seq(Row)
  BY DEF GateInv, TypeOK, Row
<1>1. /\ caller'[c].pc = "idle" /\ caller[c].pc = "asking"
      /\ \A d \in Callers : d # c => caller'[d] = caller[d]
  BY <1>0 DEF Ask, TypeOK, AtRest
<1>2. Askers(o)' = Askers(o) \ {c}
  BY <1>1 DEF Askers
<1>3. CASE rows' = rows
  <2>1. PendingFor(o)' = PendingFor(o)
    BY <1>3 DEF PendingFor
  <2> QED
    BY <1>0, <1>2, <2>1, CountShrinks
<1>4. CASE MustAsk(caller[c].row) /\ rows' = Append(rows, NewRow(caller[c].op))
  <2>1. NewRow(caller[c].op) \in Row
    BY <1>0 DEF NewRow, Row, Status, TypeOK
  <2>2. /\ DOMAIN rows' = DOMAIN rows \cup {Len(rows) + 1}
        /\ Len(rows) + 1 \notin DOMAIN rows
        /\ \A i \in DOMAIN rows : rows'[i] = rows[i]
        /\ rows'[Len(rows) + 1] = NewRow(caller[c].op)
    BY <1>0, <1>4, <2>1, AppendRow
  <2>3. CASE caller[c].op = o
    <3>1. PendingFor(o)' = PendingFor(o) \cup {Len(rows) + 1}
      BY <2>2, <2>3 DEF PendingFor, NewRow
    <3>2. c \in Askers(o) /\ Len(rows) + 1 \notin PendingFor(o)
      BY <1>1, <1>4, <2>2, <2>3 DEF Askers, MustAsk, PendingFor
    <3>3. /\ IsFiniteSet(PendingFor(o)) /\ Cardinality(PendingFor(o)) \in Nat
          /\ IsFiniteSet(Askers(o)) /\ Cardinality(Askers(o)) \in Nat
          /\ Cardinality(Callers) \in Nat
      BY <1>0, AsksFinite
    <3>4. Cardinality(PendingFor(o)') = Cardinality(PendingFor(o)) + 1
      BY <3>1, <3>2, <3>3, FS_AddElement
    <3>5. Cardinality(Askers(o)') = Cardinality(Askers(o)) - 1
      BY <1>2, <3>2, <3>3, FS_RemoveElement
    <3>6. Cardinality(PendingFor(o)) + Cardinality(Askers(o)) <= Cardinality(Callers)
      BY DEF AsksCounted
    <3> QED
      BY <3>3, <3>4, <3>5, <3>6
  <2>4. CASE caller[c].op # o
    <3>1. PendingFor(o)' \subseteq PendingFor(o)
      BY <2>2, <2>4 DEF PendingFor, NewRow
    <3> QED
      BY <1>0, <1>2, <3>1, CountShrinks
  <2> QED
    BY <2>3, <2>4
<1> QED
  BY <1>3, <1>4 DEF Ask

\* The other steps of a call leave no new insert under way and no new row.
LEMMA CallCounts ==
    ASSUME GateInv, AsksCounted, NEW c \in Callers, NEW o \in Ops,
           Request(c) \/ Consume(c) \/ ConsumeCommits(c) \/ ConsumeFails(c) \/ Perform(c)
    PROVE  Cardinality(PendingFor(o)') + Cardinality(Askers(o)') <= Cardinality(Callers)
<1>0. TypeOK
  BY DEF GateInv
<1>1. /\ caller'[c].pc # "asking"
      /\ \A d \in Callers : d # c => caller'[d] = caller[d]
  <2>1. CASE Request(c)
    BY <1>0, <2>1 DEF Request, TypeOK
  <2>2. CASE Consume(c)
    BY <1>0, <2>2 DEF Consume, TypeOK
  <2>3. CASE ConsumeCommits(c)
    BY <1>0, <2>3 DEF ConsumeCommits, TypeOK
  <2>4. CASE ConsumeFails(c) \/ Perform(c)
    BY <1>0, <2>4 DEF ConsumeFails, Perform, TypeOK, AtRest
  <2> QED
    BY <2>1, <2>2, <2>3, <2>4
<1>2. Askers(o)' \subseteq Askers(o)
  BY <1>1 DEF Askers
<1>3. PendingFor(o)' \subseteq PendingFor(o)
  <2>1. CASE rows' = rows
    BY <2>1 DEF PendingFor
  <2>2. CASE caller[c].pc = "consuming" /\ rows' = [rows EXCEPT ![caller[c].row].consumed = TRUE]
    <3>1. caller[c].row \in DOMAIN rows
      BY <2>2 DEF GateInv, LocksUsable
    <3> QED
      BY <1>0, <2>2, <3>1, ConsumedRow DEF PendingFor
  <2> QED
    BY <2>1, <2>2 DEF Request, Consume, ConsumeCommits, ConsumeFails, Perform
<1> QED
  BY <1>0, <1>2, <1>3, CountShrinks

\* Requests made by hand carry no operation; decisions and withdrawals take
\* pending rows away.
LEMMA ApprovalsCount ==
    ASSUME GateInv, AsksCounted, NEW o \in Ops,
           \/ Create \/ Withdraw
           \/ \E i \in DOMAIN rows : Decide(i) \/ WithdrawLookup(i)
    PROVE  Cardinality(PendingFor(o)') + Cardinality(Askers(o)') <= Cardinality(Callers)
<1>0. TypeOK /\ rows \in Seq(Row)
  BY DEF GateInv, TypeOK, Row
<1>1. Askers(o)' = Askers(o)
  BY DEF Create, Withdraw, Decide, WithdrawLookup, Askers
<1>2. PendingFor(o)' \subseteq PendingFor(o)
  <2>1. CASE rows' = rows
    BY <2>1 DEF PendingFor
  <2>2. CASE Create
    <3>1. NewRow(None) \in Row /\ NewRow(None).op # o
      BY GateAssumption DEF NewRow, Row, Status
    <3>2. /\ DOMAIN rows' = DOMAIN rows \cup {Len(rows) + 1}
          /\ \A i \in DOMAIN rows : rows'[i] = rows[i]
          /\ rows'[Len(rows) + 1] = NewRow(None)
      BY <1>0, <2>2, <3>1, AppendRow DEF Create
    <3> QED
      BY <3>1, <3>2 DEF PendingFor
  <2>3. ASSUME NEW j \in DOMAIN rows, NEW st \in Status \ {"pending"},
               rows' = [rows EXCEPT ![j].status = st]
        PROVE  PendingFor(o)' \subseteq PendingFor(o)
    BY <1>0, <2>3, SettledRow DEF PendingFor
  <2>4. CASE Withdraw
    <3>1. withdraw \in DOMAIN rows /\ "withdrawn" \in Status \ {"pending"}
      BY <2>4 DEF GateInv, WithdrawKnown, Withdraw, Status
    <3> QED
      BY <2>1, <2>3, <2>4, <3>1 DEF Withdraw
  <2>5. ASSUME NEW i \in DOMAIN rows, Decide(i) PROVE PendingFor(o)' \subseteq PendingFor(o)
    BY <2>3, <2>5 DEF Decide, Status
  <2> QED
    BY <2>1, <2>2, <2>4, <2>5 DEF WithdrawLookup
<1> QED
  BY <1>0, <1>1, <1>2, CountShrinks

LEMMA CountNext == GateInv /\ AsksCounted /\ [Next]_vars => AsksCounted'
<1> SUFFICES ASSUME GateInv, AsksCounted, [Next]_vars, NEW o \in Ops
             PROVE  Cardinality(PendingFor(o)') + Cardinality(Askers(o)') <= Cardinality(Callers)
  BY DEF AsksCounted
<1>1. CASE UNCHANGED vars
  BY <1>1, CountShrinks DEF vars, GateInv, PendingFor, Askers
<1>2. CASE Next
  BY <1>2, LookCounts, AskCounts, CallCounts, ApprovalsCount DEF Next
<1> QED
  BY <1>1, <1>2

\* Retries wait on the request that is there: no operation ever has more pending
\* rows than there are handlers that can have raced to insert one
\* (requireApproval's INSERT ... WHERE NOT EXISTS).
THEOREM GateAsks == Spec => []AsksBounded
<1>1. Init => AsksCounted
  <2> SUFFICES ASSUME Init, NEW o \in Ops
               PROVE  Cardinality(PendingFor(o)) + Cardinality(Askers(o)) <= Cardinality(Callers)
    BY DEF AsksCounted
  <2>1. PendingFor(o) = {} /\ Askers(o) = {}
    BY DEF Init, PendingFor, Askers, AtRest
  <2>2. Cardinality(Callers) \in Nat
    BY GateAssumption, FS_CardinalityType
  <2> QED
    BY <2>1, <2>2, FS_EmptySet
<1>2. GateInv /\ AsksCounted => AsksBounded
  <2> SUFFICES ASSUME GateInv, AsksCounted, NEW o \in Ops
               PROVE  Cardinality(PendingFor(o)) <= Cardinality(Callers)
    BY DEF AsksBounded
  <2>1. /\ Cardinality(PendingFor(o)) \in Nat /\ Cardinality(Askers(o)) \in Nat
        /\ Cardinality(Callers) \in Nat
    BY AsksFinite DEF GateInv
  <2>2. Cardinality(PendingFor(o)) + Cardinality(Askers(o)) <= Cardinality(Callers)
    BY DEF AsksCounted
  <2> QED
    BY <2>1, <2>2
<1> QED
  BY <1>1, <1>2, GateInvariant, CountNext, PTL DEF Spec
=============================================================================

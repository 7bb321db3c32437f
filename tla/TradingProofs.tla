---------------------------- MODULE TradingProofs ----------------------------
(***************************************************************************)
(* What holds of the trading desk for any callers, ids, bodies and bounds: *)
(*                                                                         *)
(*   EngineRunsItsRows   Strategies: SInv follows each request from its    *)
(*     first statement to its answer, and says how far the row and the     *)
(*     engine's map may differ meanwhile (Half);                           *)
(*   SwitchIsObeyed      RiskDesk: a check that was not overtaken is made  *)
(*     while the switch is still on (CheckInFlight);                       *)
(*   RecordsHold         Executions: an order bears the account and the    *)
(*     client id of its leg, and nobody is still adding legs to what is    *)
(*     submitted (EInv); Reconciliation: the worker on a run that is       *)
(*     checked once is alone, and what it stored is what it has not left   *)
(*     to do (NInv);                                                       *)
(*   ServedPays          Scanner over UnifiedState: between the two        *)
(*     readings of a pair the prices read first pay, and the venues still  *)
(*     show them unless the reading is torn (Scanned); at rest the best    *)
(*     prices are those of the healthy venues merged so far (Shows).       *)
(*                                                                         *)
(* Each starts from its own Init, with empty tables.                       *)
(***************************************************************************)
EXTENDS MCTrading, FiniteSetTheorems, TLAPS

---------------------------------------------------------------------------
(* Strategies.                                                             *)

RowFields == {"tenant", "name", "status", "config", "deleted"}
DeskFields == {"op", "id", "row", "reply"}

\* The shapes of the tables: rows by id, one entry of the desk by caller.
Shapes ==
  /\ strategies = [i \in DOMAIN strategies |-> strategies[i]]
  /\ \A i \in DOMAIN strategies : DOMAIN strategies[i] = RowFields
  /\ DOMAIN desk = Callers
  /\ \A c \in Callers : DOMAIN desk[c] = DeskFields /\ DOMAIN desk[c].row = RowFields

Runs(id) == Found(id) /\ strategies[id].status = "RUNNING"

\* What a request in flight has left of its instance.
Half(c, id) ==
  LET op == desk[c].op
      row == desk[c].row
  IN  /\ op = "update" => /\ Found(id) /\ row.status = strategies[id].status
                          /\ id \in instances <=> Runs(id)
      /\ op = "delete" => id \notin instances
      /\ op = "start" => Found(id) /\ row.status = "RUNNING" /\ id \notin instances
      /\ op = "launch" => Runs(id)
      /\ op = "running" => Runs(id) /\ id \in instances
      /\ op = "stop" => Found(id) /\ row.status = "PAUSED"
      /\ op = "halt" => Found(id) /\ strategies[id].status = "PAUSED"
      /\ op \in {"update", "delete", "start", "launch", "running", "stop", "halt"}

Good(id) ==
  /\ \A c, d \in Busy(id) : c = d
  /\ Busy(id) = {} => (id \in instances <=> Runs(id))
  /\ \A c \in Busy(id) : Half(c, id)

SInv == Shapes /\ \A id \in StrategyIds \ unsure : Good(id)

\* A step that concerns other instances.
LEMMA GoodStays ==
  ASSUME NEW id, Good(id), Busy(id)' = Busy(id),
         \A c \in Busy(id) : desk'[c] = desk[c],
         id \in instances' <=> id \in instances,
         Found(id)' <=> Found(id), Found(id) => strategies'[id] = strategies[id]
  PROVE  Good(id)'
BY DEF Good, Half, Runs

\* How the desk changes.
LEMMA DeskAnswers ==
  ASSUME Shapes, NEW c \in Callers, NEW r, Answer(c, r)
  PROVE  /\ \A d \in Callers \ {c} : desk'[d] = desk[d]
         /\ \A id : Busy(id)' = Busy(id) \ {c}
         /\ DOMAIN desk' = Callers
         /\ \A d \in Callers : DOMAIN desk'[d] = DeskFields /\ DOMAIN desk'[d].row = RowFields
<1>1. desk' = [desk EXCEPT ![c] = Free(r)]
    BY DEF Answer
<1>2. /\ Free(r).op = "idle" /\ DOMAIN Free(r) = DeskFields
      /\ DOMAIN Free(r).row = RowFields
    BY DEF Free, AtDesk, NoRow, Row, DeskFields, RowFields
<1>3. desk'[c] = Free(r) /\ \A d \in Callers \ {c} : desk'[d] = desk[d]
    BY <1>1 DEF Shapes
<1>4. \A id : Busy(id)' = Busy(id) \ {c}
    BY <1>2, <1>3 DEF Busy, Idle, Callers
<1> QED BY <1>1, <1>2, <1>3, <1>4 DEF Shapes

LEMMA DeskBegins ==
  ASSUME Shapes, NEW c \in Admins, Idle(c), NEW op, op # "idle", NEW id, NEW row,
         DOMAIN row = RowFields, desk' = [desk EXCEPT ![c] = AtDesk(op, id, row)]
  PROVE  /\ \A d \in Callers \ {c} : desk'[d] = desk[d]
         /\ desk'[c] = AtDesk(op, id, row)
         /\ Busy(id)' = Busy(id) \cup {c}
         /\ \A i : i # id => Busy(i)' = Busy(i)
         /\ DOMAIN desk' = Callers
         /\ \A d \in Callers : DOMAIN desk'[d] = DeskFields /\ DOMAIN desk'[d].row = RowFields
<1>1. c \in Callers
    BY DEF Callers
<1>2. desk'[c] = AtDesk(op, id, row) /\ \A d \in Callers \ {c} : desk'[d] = desk[d]
    BY <1>1 DEF Shapes
<1>3. /\ AtDesk(op, id, row).op = op /\ AtDesk(op, id, row).id = id
      /\ AtDesk(op, id, row).row = row /\ DOMAIN AtDesk(op, id, row) = DeskFields
    BY DEF AtDesk, DeskFields
<1>4. Busy(id)' = Busy(id) \cup {c}
    BY <1>2, <1>3 DEF Busy, Idle, Callers
<1>5. \A i : i # id => Busy(i)' = Busy(i)
    BY <1>2, <1>3 DEF Busy, Idle, Callers
<1> QED BY <1>1, <1>2, <1>3, <1>4, <1>5 DEF Shapes

LEMMA DeskGoes ==
  ASSUME Shapes, NEW c \in Admins, ~Idle(c), NEW op, op # "idle", Go(c, op)
  PROVE  /\ \A d \in Callers \ {c} : desk'[d] = desk[d]
         /\ desk'[c].op = op /\ desk'[c].row = desk[c].row
         /\ \A id : Busy(id)' = Busy(id)
         /\ DOMAIN desk' = Callers
         /\ \A d \in Callers : DOMAIN desk'[d] = DeskFields /\ DOMAIN desk'[d].row = RowFields
<1>1. c \in Callers
    BY DEF Callers
<1>2. /\ desk'[c] = [desk[c] EXCEPT !.op = op]
      /\ \A d \in Callers \ {c} : desk'[d] = desk[d]
    BY <1>1 DEF Go, Shapes
<1>3. /\ desk'[c].op = op /\ desk'[c].id = desk[c].id /\ desk'[c].row = desk[c].row
      /\ DOMAIN desk'[c] = DeskFields
    BY <1>1, <1>2 DEF Shapes, DeskFields
<1>4. \A id : Busy(id)' = Busy(id)
    BY <1>2, <1>3 DEF Busy, Idle, Callers
<1> QED BY <1>1, <1>2, <1>3, <1>4 DEF Go, Shapes

\* Writing the row of an instance.
LEMMA RowWritten ==
  ASSUME Shapes, NEW id, NEW row, strategies' = UpdateRow(id, row)
  PROVE  /\ DOMAIN strategies' = DOMAIN strategies
         /\ strategies' = [i \in DOMAIN strategies' |-> strategies'[i]]
         /\ \A i \in DOMAIN strategies' : DOMAIN strategies'[i] = RowFields
         /\ \A i : Found(i)' <=> Found(i)
         /\ \A i : i # id /\ Found(i) => strategies'[i] = strategies[i]
         /\ Found(id) => strategies'[id].status = row.status
<1>1. CASE Found(id)
  <2>1. strategies' = [strategies EXCEPT ![id] = [strategies[id] EXCEPT !.name = row.name, !.status = row.status]]
      BY <1>1 DEF UpdateRow, Found, Shapes
  <2> DEFINE new == [strategies[id] EXCEPT !.name = row.name, !.status = row.status]
  <2>2. DOMAIN new = RowFields /\ new.status = row.status /\ new.deleted = strategies[id].deleted
      BY <1>1 DEF Found, Shapes, RowFields
  <2>3. strategies' = [strategies EXCEPT ![id] = new]
      BY <2>1
  <2> HIDE DEF new
  <2>4. DOMAIN strategies' = DOMAIN strategies
      BY <2>3
  <2>5. strategies'[id] = new /\ \A i \in DOMAIN strategies : i # id => strategies'[i] = strategies[i]
      BY <1>1, <2>3 DEF Found
  <2>6. strategies' = [i \in DOMAIN strategies' |-> strategies'[i]]
      BY <2>3
  <2>7. \A i : Found(i)' <=> Found(i)
      BY <2>2, <2>4, <2>5 DEF Found
  <2> QED BY <2>2, <2>4, <2>5, <2>6, <2>7 DEF Shapes, Found
<1>2. CASE ~Found(id)
    BY <1>2 DEF UpdateRow, Found, Shapes
<1> QED BY <1>1, <1>2

\* A request in flight is the only one of its instance.
LEMMA AloneAtDesk ==
  ASSUME NEW c \in Admins, ~Idle(c), Good(desk[c].id)
  PROVE  Busy(desk[c].id) = {c} /\ Half(c, desk[c].id)
BY DEF Good, Busy

\* Requests that are answered at once.
LEMMA StrategyReads ==
  ASSUME SInv, NEW c \in Callers, Idle(c), NEW r, Answer(c, r),
         UNCHANGED <<strategies, instances>>, unsure \subseteq unsure'
  PROVE  SInv'
<1>1. /\ \A d \in Callers \ {c} : desk'[d] = desk[d]
      /\ \A id : Busy(id)' = Busy(id) \ {c}
      /\ DOMAIN desk' = Callers
      /\ \A d \in Callers : DOMAIN desk'[d] = DeskFields /\ DOMAIN desk'[d].row = RowFields
    BY DeskAnswers DEF SInv
<1>2. \A id : c \notin Busy(id) /\ Busy(id) \subseteq Callers
    BY DEF Busy, Callers
<1>3. ASSUME NEW id \in StrategyIds \ unsure' PROVE Good(id)'
  <2>1. Good(id) /\ Busy(id)' = Busy(id) /\ \A d \in Busy(id) : desk'[d] = desk[d]
      BY <1>1, <1>2 DEF SInv
  <2> QED BY <2>1, GoodStays DEF Found
<1>4. Shapes'
    BY <1>1 DEF SInv, Shapes
<1> QED BY <1>3, <1>4 DEF SInv

\* Requests that begin: the instance is no longer settled.
LEMMA StrategyBegins ==
  ASSUME SInv, NEW c \in Admins, Idle(c), NEW op, op # "idle", NEW id0, NEW row,
         DOMAIN row = RowFields, desk' = [desk EXCEPT ![c] = AtDesk(op, id0, row)],
         UNCHANGED strategies, \A id : id # id0 => (id \in instances' <=> id \in instances),
         unsure \subseteq unsure', Busy(id0) # {} => id0 \in unsure',
         (id0 \in StrategyIds \ unsure') /\ Busy(id0) = {} /\ Good(id0) => Half(c, id0)'
  PROVE  SInv'
<1>1. /\ \A d \in Callers \ {c} : desk'[d] = desk[d]
      /\ desk'[c] = AtDesk(op, id0, row)
      /\ Busy(id0)' = Busy(id0) \cup {c}
      /\ \A i : i # id0 => Busy(i)' = Busy(i)
      /\ DOMAIN desk' = Callers
      /\ \A d \in Callers : DOMAIN desk'[d] = DeskFields /\ DOMAIN desk'[d].row = RowFields
    BY DeskBegins DEF SInv
<1>2. \A id : c \notin Busy(id) /\ Busy(id) \subseteq Callers
    BY DEF Busy, Callers
<1>3. ASSUME NEW id \in StrategyIds \ unsure' PROVE Good(id)'
  <2>1. Good(id)
      BY DEF SInv
  <2>2. CASE id # id0
    <3>1. Busy(id)' = Busy(id) /\ \A d \in Busy(id) : desk'[d] = desk[d]
        BY <1>1, <1>2, <2>2
    <3> QED BY <2>1, <2>2, <3>1, GoodStays DEF Found
  <2>3. CASE id = id0
    <3>1. Busy(id) = {} /\ Busy(id)' = {c} /\ Half(c, id)'
        BY <1>1, <2>1, <2>3
    <3> QED BY <3>1 DEF Good
  <2> QED BY <2>2, <2>3
<1>4. Shapes'
    BY <1>1 DEF SInv, Shapes
<1> QED BY <1>3, <1>4 DEF SInv

\* Requests that go on, or end, with their instance.
LEMMA StrategyGoesOn ==
  ASSUME SInv, NEW c \in Admins, ~Idle(c), Shapes',
         NEW id0, id0 = desk[c].id,
         \A d \in Callers \ {c} : desk'[d] = desk[d],
         \A id : Busy(id)' = Busy(id) \/ Busy(id)' = Busy(id) \ {c},
         \A id : id # id0 =>
            /\ id \in instances' <=> id \in instances
            /\ Found(id)' <=> Found(id)
            /\ Found(id) => strategies'[id] = strategies[id],
         unsure \subseteq unsure',
         id0 \notin unsure' /\ Half(c, id0) =>
            /\ c \in Busy(id0)' => Half(c, id0)'
            /\ c \notin Busy(id0)' =>
                  (id0 \in instances' <=> Runs(id0)')
  PROVE  SInv'
<1>1. \A id : id # id0 => c \notin Busy(id)
    BY DEF Busy
<1>2. ASSUME NEW id \in StrategyIds \ unsure' PROVE Good(id)'
  <2>1. Good(id) /\ Busy(id) \subseteq Callers
      BY DEF SInv, Busy, Callers
  <2>2. CASE id # id0
    <3>1. Busy(id)' = Busy(id) /\ \A d \in Busy(id) : desk'[d] = desk[d]
        BY <1>1, <2>1, <2>2
    <3> QED BY <2>1, <2>2, <3>1, GoodStays
  <2>3. CASE id = id0
    <3>1. Busy(id) = {c} /\ Half(c, id)
        BY <2>1, <2>3, AloneAtDesk
    <3>2. Busy(id)' = {c} \/ Busy(id)' = {}
        BY <3>1
    <3>3. CASE Busy(id)' = {c}
      <4>1. Half(c, id)'
          BY <2>3, <3>1, <3>3
      <4> QED BY <3>3, <4>1 DEF Good
    <3>4. CASE Busy(id)' = {}
      <4>1. id \in instances' <=> Runs(id)'
          BY <2>3, <3>1, <3>4
      <4> QED BY <3>4, <4>1 DEF Good
    <3> QED BY <3>2, <3>3, <3>4
  <2> QED BY <2>2, <2>3
<1> QED BY <1>2 DEF SInv

LEMMA StrategyStep == SInv /\ [Next]_strategyVars => SInv'
<1> SUFFICES ASSUME SInv, [Next]_strategyVars PROVE SInv'
    OBVIOUS
<1> Admins \subseteq Callers
    BY DEF Callers
<1>1. CASE \E c \in Others : Forbid(c)
    BY <1>1, StrategyReads DEF Forbid, Ask, Callers
<1>2. CASE \E c \in Admins : List(c) \/ ListDecisions(c) \/ Get(c)
    BY <1>2, StrategyReads DEF List, ListDecisions, Get, Ask
<1>3. CASE \E c \in Admins : Create(c)
  <2>1. PICK c \in Admins : Create(c)
      BY <1>3
  <2>2. PICK r : Idle(c) /\ Answer(c, r) /\ UNCHANGED <<instances, unsure>>
      BY <2>1 DEF Create, Ask
  <2>3. CASE UNCHANGED strategies
      BY <2>2, <2>3, StrategyReads
  <2>4. CASE strategies' # strategies
    <3>1. PICK name \in Titles :
            /\ StrategyIds \ DOMAIN strategies # {}
            /\ strategies' = InsertRow(CHOOSE id \in StrategyIds \ DOMAIN strategies : TRUE,
                                      Row(Tenant(c), name))
        BY <2>1, <2>4 DEF Create
    <3> DEFINE new == CHOOSE id \in StrategyIds \ DOMAIN strategies : TRUE
               row == Row(Tenant(c), name)
    <3>2. new \notin DOMAIN strategies
        BY <3>1
    <3>3. DOMAIN row = RowFields /\ row.status = "DRAFT"
        BY DEF Row, RowFields
    <3>4. strategies' = InsertRow(new, row)
        BY <3>1
    <3> HIDE DEF new, row
    <3>5. /\ strategies' = [i \in DOMAIN strategies' |-> strategies'[i]]
          /\ DOMAIN strategies' = DOMAIN strategies \cup {new}
          /\ strategies'[new] = row
          /\ \A i \in DOMAIN strategies : strategies'[i] = strategies[i]
        BY <3>2, <3>4 DEF InsertRow
    <3>6. /\ \A d \in Callers \ {c} : desk'[d] = desk[d]
          /\ \A id : Busy(id)' = Busy(id) \ {c}
          /\ DOMAIN desk' = Callers
          /\ \A d \in Callers : DOMAIN desk'[d] = DeskFields /\ DOMAIN desk'[d].row = RowFields
        BY <2>2, DeskAnswers DEF SInv
    <3>7. Shapes'
        BY <3>3, <3>5, <3>6 DEF SInv, Shapes
    <3>8. \A id : c \notin Busy(id) /\ Busy(id) \subseteq Callers
        BY <2>2 DEF Busy
    <3>9. ASSUME NEW id \in StrategyIds \ unsure' PROVE Good(id)'
      <4>1. /\ Good(id) /\ Busy(id)' = Busy(id)
            /\ \A d \in Busy(id) : desk'[d] = desk[d]
          BY <2>2, <3>6, <3>8 DEF SInv
      <4>2. CASE id # new
        <5>1. (Found(id)' <=> Found(id)) /\ (Found(id) => strategies'[id] = strategies[id])
            BY <3>5, <4>2 DEF Found
        <5> QED BY <2>2, <4>1, <5>1, GoodStays
      <4>3. CASE id = new
        <5>1. ~Found(id) /\ ~Runs(id)'
            BY <3>2, <3>3, <3>5, <4>3 DEF Found, Runs
        <5>2. id \in instances' <=> id \in instances
            BY <2>2
        <5>3. Busy(id) = {} => (id \in instances' <=> Runs(id)')
            BY <4>1, <5>1, <5>2 DEF Good, Runs
        <5>4. ASSUME NEW d \in Busy(id) PROVE Half(d, id)'
          <6>1. Half(d, id) /\ desk'[d] = desk[d]
              BY <4>1 DEF Good
          <6>2. desk[d].op \notin {"update", "start", "launch", "running", "stop", "halt"}
              BY <5>1, <6>1 DEF Half, Runs
          <6> QED BY <5>2, <6>1, <6>2 DEF Half
        <5> QED BY <4>1, <5>3, <5>4 DEF Good
      <4> QED BY <4>2, <4>3
    <3> QED BY <3>7, <3>9 DEF SInv
  <2> QED BY <2>3, <2>4
<1>4. CASE \E c \in Admins : Update(c)
  <2>1. PICK c \in Admins : Update(c)
      BY <1>4
  <2>2. PICK r, id, row :
          \/ Idle(c) /\ Answer(c, r) /\ UNCHANGED <<strategies, instances, unsure>>
          \/ /\ Idle(c) /\ UNCHANGED <<strategies, instances>> /\ unsure \subseteq unsure'
             /\ Found(id) /\ DOMAIN row = RowFields
             /\ desk' = [desk EXCEPT ![c] = AtDesk("update", id, row)]
             /\ Busy(id) # {} => id \in unsure'
             /\ id \notin unsure' => row.status = strategies[id].status
    <3>1. PICK id \in StrategyIds, name \in Titles \cup {""}, status \in {"", "RUNNING", "PAUSED"} :
            IF ~Found(id) THEN Answer(c, RespondError("INTERNAL")) /\ UNCHANGED unsure
            ELSE LET row == GetByID(id)
                 IN  /\ desk' = [desk EXCEPT ![c] = AtDesk("update", id,
                          [row EXCEPT !.name = IF name = "" THEN @ ELSE name,
                                      !.status = IF status = "" THEN @ ELSE status])]
                     /\ unsure' = unsure \cup {i \in {id} : status # "" \/ Busy(id) # {}}
        BY <2>1 DEF Update
    <3>2. Idle(c) /\ UNCHANGED <<strategies, instances>>
        BY <2>1 DEF Update, Ask
    <3>3. CASE ~Found(id)
        BY <3>1, <3>2, <3>3
    <3>4. CASE Found(id)
      <4> DEFINE n == IF name = "" THEN strategies[id].name ELSE name
                 s == IF status = "" THEN strategies[id].status ELSE status
                 row == [strategies[id] EXCEPT !.name = n, !.status = s]
      <4>1. DOMAIN strategies[id] = RowFields
          BY <3>4 DEF SInv, Shapes, Found
      <4>2. row = [strategies[id] EXCEPT !.name = IF name = "" THEN @ ELSE name,
                                         !.status = IF status = "" THEN @ ELSE status]
          BY <4>1
      <4>3. DOMAIN row = RowFields /\ row.status = s
          BY <4>1 DEF RowFields
      <4>4. desk' = [desk EXCEPT ![c] = AtDesk("update", id, row)]
          BY <3>1, <3>4, <4>2 DEF GetByID
      <4>5. /\ unsure \subseteq unsure' /\ (Busy(id) # {} => id \in unsure')
            /\ (id \notin unsure' => status = "")
          BY <3>1, <3>4
      <4> HIDE DEF row
      <4> QED BY <3>2, <3>4, <4>3, <4>4, <4>5
    <3> QED BY <3>3, <3>4
  <2>3. CASE Idle(c) /\ Answer(c, r) /\ UNCHANGED <<strategies, instances, unsure>>
      BY <2>3, StrategyReads
  <2>4. CASE /\ Idle(c) /\ UNCHANGED <<strategies, instances>> /\ unsure \subseteq unsure'
             /\ Found(id) /\ DOMAIN row = RowFields
             /\ desk' = [desk EXCEPT ![c] = AtDesk("update", id, row)]
             /\ Busy(id) # {} => id \in unsure'
             /\ id \notin unsure' => row.status = strategies[id].status
    <3>1. desk'[c] = AtDesk("update", id, row)
        BY <2>4, DeskBegins DEF SInv
    <3>2. Busy(id) = {} /\ Good(id) /\ id \notin unsure' => Half(c, id)'
        BY <2>4, <3>1 DEF Half, Good, Runs, Found, AtDesk
    <3> QED BY <2>4, <3>2, StrategyBegins
  <2> QED BY <2>2, <2>3, <2>4
<1>5. CASE \E c \in Admins : UpdateWrite(c)
  <2>1. PICK c \in Admins : UpdateWrite(c)
      BY <1>5
  <2>2. PICK id : id = desk[c].id
      OBVIOUS
  <2>3. PICK r : /\ ~Idle(c) /\ desk[c].op = "update" /\ Answer(c, r)
                 /\ UNCHANGED <<instances, unsure>>
                 /\ UNCHANGED strategies \/ strategies' = UpdateRow(id, desk[c].row)
      BY <2>1, <2>2 DEF UpdateWrite, Idle
  <2>4. /\ \A d \in Callers \ {c} : desk'[d] = desk[d]
        /\ \A i : Busy(i)' = Busy(i) \ {c}
        /\ DOMAIN desk' = Callers
        /\ \A d \in Callers : DOMAIN desk'[d] = DeskFields /\ DOMAIN desk'[d].row = RowFields
      BY <2>3, DeskAnswers DEF SInv
  <2>5. /\ strategies' = [i \in DOMAIN strategies' |-> strategies'[i]]
        /\ \A i \in DOMAIN strategies' : DOMAIN strategies'[i] = RowFields
        /\ \A i : Found(i)' <=> Found(i)
        /\ \A i : i # id /\ Found(i) => strategies'[i] = strategies[i]
        /\ Found(id) => strategies'[id].status \in {strategies[id].status, desk[c].row.status}
    <3>1. CASE UNCHANGED strategies
        BY <3>1 DEF SInv, Shapes, Found
    <3>2. CASE strategies' = UpdateRow(id, desk[c].row)
        BY <3>2, RowWritten DEF SInv
    <3> QED BY <2>3, <3>1, <3>2
  <2>6. Shapes'
      BY <2>4, <2>5 DEF Shapes
  <2>7. Half(c, id) => (id \in instances' <=> Runs(id)')
      BY <2>3, <2>5 DEF Half, Runs
  <2> QED BY <2>2, <2>3, <2>4, <2>5, <2>6, <2>7, StrategyGoesOn
<1>6. CASE \E c \in Admins : Delete(c)
  <2>1. PICK c \in Admins, id \in StrategyIds :
          /\ Idle(c) /\ Begin(c, "delete", id, NoRow) /\ instances' = instances \ {id}
          /\ UNCHANGED strategies
      BY <1>6 DEF Delete, Ask, DeleteStop, StopInstance
  <2>2. DOMAIN NoRow = RowFields
      BY DEF NoRow, Row, RowFields
  <2>3. /\ desk' = [desk EXCEPT ![c] = AtDesk("delete", id, NoRow)]
        /\ unsure \subseteq unsure' /\ (Busy(id) # {} => id \in unsure')
      BY <2>1 DEF Begin, Overlap
  <2>4. desk'[c] = AtDesk("delete", id, NoRow)
      BY <2>1, <2>2, <2>3, DeskBegins DEF SInv
  <2>5. Half(c, id)'
      BY <2>1, <2>4 DEF Half, AtDesk
  <2> QED BY <2>1, <2>2, <2>3, <2>5, StrategyBegins
<1>7. CASE \E c \in Admins : DeleteWrite(c)
  <2>1. PICK c \in Admins : DeleteWrite(c)
      BY <1>7
  <2>2. PICK id : id = desk[c].id
      OBVIOUS
  <2>3. PICK r : /\ ~Idle(c) /\ desk[c].op = "delete" /\ Answer(c, r)
                 /\ UNCHANGED instances /\ unsure \subseteq unsure'
                 /\ \/ UNCHANGED strategies /\ id \in unsure'
                    \/ strategies' = DeleteRow(id)
      BY <2>1, <2>2 DEF DeleteWrite, Idle
  <2>4. /\ \A d \in Callers \ {c} : desk'[d] = desk[d]
        /\ \A i : Busy(i)' = Busy(i) \ {c}
        /\ DOMAIN desk' = Callers
        /\ \A d \in Callers : DOMAIN desk'[d] = DeskFields /\ DOMAIN desk'[d].row = RowFields
      BY <2>3, DeskAnswers DEF SInv
  <2>5. /\ strategies' = [i \in DOMAIN strategies' |-> strategies'[i]]
        /\ \A i \in DOMAIN strategies' : DOMAIN strategies'[i] = RowFields
        /\ \A i : i # id => (Found(i)' <=> Found(i))
        /\ \A i : i # id /\ Found(i) => strategies'[i] = strategies[i]
        /\ id \notin unsure' => ~Found(id)'
    <3>1. CASE UNCHANGED strategies /\ id \in unsure'
        BY <3>1 DEF SInv, Shapes, Found
    <3>2. CASE strategies' = DeleteRow(id) /\ ~Found(id)
        BY <3>2 DEF SInv, Shapes, Found, DeleteRow
    <3>3. CASE strategies' = DeleteRow(id) /\ Found(id)
      <4> DEFINE new == [strategies[id] EXCEPT !.deleted = TRUE]
      <4>1. DOMAIN new = RowFields /\ new.deleted
          BY <3>3 DEF SInv, Shapes, Found, RowFields
      <4>2. strategies' = [strategies EXCEPT ![id] = new]
          BY <3>3 DEF DeleteRow
      <4> HIDE DEF new
      <4>3. /\ DOMAIN strategies' = DOMAIN strategies /\ strategies'[id] = new
            /\ \A i \in DOMAIN strategies : i # id => strategies'[i] = strategies[i]
            /\ strategies' = [i \in DOMAIN strategies' |-> strategies'[i]]
          BY <3>3, <4>2 DEF Found
      <4> QED BY <4>1, <4>3 DEF SInv, Shapes, Found
    <3> QED BY <2>3, <3>1, <3>2, <3>3
  <2>6. Shapes'
      BY <2>4, <2>5 DEF Shapes
  <2>7. Half(c, id) /\ id \notin unsure' => (id \in instances' <=> Runs(id)')
      BY <2>3, <2>5 DEF Half, Runs
  <2> QED BY <2>2, <2>3, <2>4, <2>5, <2>6, <2>7, StrategyGoesOn
<1>8. CASE \E c \in Admins : Start(c) \/ Stop(c)
  <2>1. PICK c \in Admins : Start(c) \/ Stop(c)
      BY <1>8
  <2>2. Idle(c) /\ UNCHANGED <<strategies, instances>>
      BY <2>1 DEF Start, Stop, Ask
  <2>3. PICK id \in StrategyIds :
          \/ Answer(c, RespondError("INTERNAL")) /\ UNCHANGED unsure
          \/ /\ Found(id) /\ strategies[id].status # "RUNNING"
             /\ Begin(c, "start", id, [strategies[id] EXCEPT !.status = "RUNNING"])
          \/ Found(id) /\ Begin(c, "stop", id, [strategies[id] EXCEPT !.status = "PAUSED"])
      BY <2>1 DEF Start, Stop, GetByID
  <2>4. CASE Answer(c, RespondError("INTERNAL")) /\ UNCHANGED unsure
      BY <2>2, <2>4, StrategyReads
  <2>5. CASE /\ Found(id) /\ strategies[id].status # "RUNNING"
             /\ Begin(c, "start", id, [strategies[id] EXCEPT !.status = "RUNNING"])
    <3> DEFINE row == [strategies[id] EXCEPT !.status = "RUNNING"]
    <3>1. DOMAIN row = RowFields /\ row.status = "RUNNING"
        BY <2>5 DEF SInv, Shapes, Found, RowFields
    <3>2. /\ desk' = [desk EXCEPT ![c] = AtDesk("start", id, row)]
          /\ unsure \subseteq unsure' /\ (Busy(id) # {} => id \in unsure')
        BY <2>5 DEF Begin, Overlap
    <3> HIDE DEF row
    <3>3. desk'[c] = AtDesk("start", id, row)
        BY <2>2, <3>1, <3>2, DeskBegins DEF SInv
    <3>4. Busy(id) = {} /\ Good(id) => Half(c, id)'
        BY <2>2, <2>5, <3>1, <3>3 DEF Half, Good, Runs, Found, AtDesk
    <3> QED BY <2>2, <3>1, <3>2, <3>4, StrategyBegins
  <2>6. CASE Found(id) /\ Begin(c, "stop", id, [strategies[id] EXCEPT !.status = "PAUSED"])
    <3> DEFINE row == [strategies[id] EXCEPT !.status = "PAUSED"]
    <3>1. DOMAIN row = RowFields /\ row.status = "PAUSED"
        BY <2>6 DEF SInv, Shapes, Found, RowFields
    <3>2. /\ desk' = [desk EXCEPT ![c] = AtDesk("stop", id, row)]
          /\ unsure \subseteq unsure' /\ (Busy(id) # {} => id \in unsure')
        BY <2>6 DEF Begin, Overlap
    <3> HIDE DEF row
    <3>3. desk'[c] = AtDesk("stop", id, row)
        BY <2>2, <3>1, <3>2, DeskBegins DEF SInv
    <3>4. Half(c, id)'
        BY <2>2, <2>6, <3>1, <3>3 DEF Half, Found, AtDesk
    <3> QED BY <2>2, <3>1, <3>2, <3>4, StrategyBegins
  <2> QED BY <2>3, <2>4, <2>5, <2>6
<1>9. CASE \E c \in Admins : StartWrite(c) \/ StopWrite(c)
  <2>1. PICK c \in Admins : StartWrite(c) \/ StopWrite(c)
      BY <1>9
  <2>2. PICK id, op :
          /\ id = desk[c].id /\ ~Idle(c) /\ op # "idle" /\ Go(c, op)
          /\ UNCHANGED <<instances, unsure>> /\ strategies' = UpdateRow(id, desk[c].row)
          /\ \/ desk[c].op = "start" /\ op = "launch"
             \/ desk[c].op = "stop" /\ op = "halt"
      BY <2>1 DEF StartWrite, StopWrite, Idle
  <2>3. /\ \A d \in Callers \ {c} : desk'[d] = desk[d]
        /\ desk'[c].op = op /\ \A i : Busy(i)' = Busy(i)
        /\ DOMAIN desk' = Callers
        /\ \A d \in Callers : DOMAIN desk'[d] = DeskFields /\ DOMAIN desk'[d].row = RowFields
      BY <2>2, DeskGoes DEF SInv
  <2>4. /\ strategies' = [i \in DOMAIN strategies' |-> strategies'[i]]
        /\ \A i \in DOMAIN strategies' : DOMAIN strategies'[i] = RowFields
        /\ \A i : Found(i)' <=> Found(i)
        /\ \A i : i # id /\ Found(i) => strategies'[i] = strategies[i]
        /\ Found(id) => strategies'[id].status = desk[c].row.status
      BY <2>2, RowWritten DEF SInv
  <2>5. Shapes'
      BY <2>3, <2>4 DEF Shapes
  <2>6. Half(c, id) => Half(c, id)'
    <3>1. CASE desk[c].op = "start" /\ op = "launch"
        BY <2>3, <2>4, <3>1 DEF Half, Runs
    <3>2. CASE desk[c].op = "stop" /\ op = "halt"
        BY <2>3, <2>4, <3>2 DEF Half, Runs
    <3> QED BY <2>2, <3>1, <3>2
  <2>7. c \in Busy(id)'
    <3>1. c \in Busy(id)
        BY <2>2 DEF Busy, Callers
    <3> QED BY <2>3, <3>1
  <2> QED BY <2>2, <2>3, <2>4, <2>5, <2>6, <2>7, StrategyGoesOn
<1>10. CASE \E c \in Admins : StartLaunch(c)
  <2>1. PICK c \in Admins : StartLaunch(c)
      BY <1>10
  <2>2. PICK id : id = desk[c].id
      OBVIOUS
  <2>3. /\ ~Idle(c) /\ desk[c].op = "launch" /\ Go(c, "running")
        /\ instances' = instances \cup {id} /\ UNCHANGED <<strategies, unsure>>
      BY <2>1, <2>2 DEF StartLaunch, StartInstance, Idle
  <2>4. /\ \A d \in Callers \ {c} : desk'[d] = desk[d]
        /\ desk'[c].op = "running" /\ \A i : Busy(i)' = Busy(i)
        /\ DOMAIN desk' = Callers
        /\ \A d \in Callers : DOMAIN desk'[d] = DeskFields /\ DOMAIN desk'[d].row = RowFields
      BY <2>3, DeskGoes DEF SInv
  <2>5. Shapes'
      BY <2>3, <2>4 DEF SInv, Shapes
  <2>6. Half(c, id) => Half(c, id)'
      BY <2>3, <2>4 DEF Half, Runs, Found
  <2>7. c \in Busy(id)' /\ \A i : Found(i)' <=> Found(i)
      BY <2>2, <2>3, <2>4 DEF Busy, Found
  <2> QED BY <2>2, <2>3, <2>4, <2>5, <2>6, <2>7, StrategyGoesOn
<1>11. CASE (\E c \in Admins : EvaluateOpportunities(c)) \/ UNCHANGED strategyVars
  <2>1. UNCHANGED <<strategies, instances, desk, unsure>>
      BY <1>11 DEF EvaluateOpportunities, strategyVars
  <2> QED BY <2>1 DEF SInv, Shapes, Good, Half, Runs, Found, Busy, Idle
<1>12. CASE \E c \in Admins : StartEnds(c) \/ StopHalt(c)
  <2>1. PICK c \in Admins : StartEnds(c) \/ StopHalt(c)
      BY <1>12
  <2>2. PICK id : id = desk[c].id
      OBVIOUS
  <2>3. /\ ~Idle(c) /\ Answer(c, RespondSuccess) /\ UNCHANGED <<strategies, unsure>>
        /\ \/ desk[c].op = "running" /\ UNCHANGED instances
           \/ desk[c].op = "halt" /\ instances' = instances \ {id}
      BY <2>1, <2>2 DEF StartEnds, StopHalt, StopInstance, Idle
  <2>4. /\ \A d \in Callers \ {c} : desk'[d] = desk[d]
        /\ \A i : Busy(i)' = Busy(i) \ {c}
        /\ DOMAIN desk' = Callers
        /\ \A d \in Callers : DOMAIN desk'[d] = DeskFields /\ DOMAIN desk'[d].row = RowFields
      BY <2>3, DeskAnswers DEF SInv
  <2>5. Shapes'
      BY <2>3, <2>4 DEF SInv, Shapes
  <2>6. Half(c, id) => (id \in instances' <=> Runs(id)')
      BY <2>3 DEF Half, Runs, Found
  <2>7. \A i : Found(i)' <=> Found(i)
      BY <2>3 DEF Found
  <2> QED BY <2>2, <2>3, <2>4, <2>5, <2>6, <2>7, StrategyGoesOn
<1>13. CASE NewEngine
  <2>1. /\ instances' = {} /\ desk' = [c \in Callers |-> Free(NoResponse)]
        /\ unsure' = unsure \cup DOMAIN strategies /\ UNCHANGED strategies
      BY <1>13 DEF NewEngine
  <2>2. /\ Free(NoResponse).op = "idle" /\ DOMAIN Free(NoResponse) = DeskFields
        /\ DOMAIN Free(NoResponse).row = RowFields
      BY DEF Free, AtDesk, NoRow, Row, DeskFields, RowFields
  <2>3. Shapes'
      BY <2>1, <2>2 DEF SInv, Shapes
  <2>4. \A id : Busy(id)' = {}
      BY <2>1, <2>2 DEF Busy, Idle
  <2>5. \A id \in StrategyIds \ unsure' : ~Runs(id)'
      BY <2>1 DEF Runs, Found
  <2>6. \A id \in StrategyIds \ unsure' : Good(id)'
      BY <2>1, <2>4, <2>5 DEF Good
  <2> QED BY <2>3, <2>6 DEF SInv
<1> QED BY <1>1, <1>2, <1>3, <1>4, <1>5, <1>6, <1>7, <1>8, <1>9, <1>10, <1>11, <1>12,
           <1>13 DEF Next

LEMMA RowsBegin == Init => SInv
<1> SUFFICES ASSUME Init PROVE SInv
    OBVIOUS
<1>1. /\ Free(NoResponse).op = "idle" /\ DOMAIN Free(NoResponse) = DeskFields
      /\ DOMAIN Free(NoResponse).row = RowFields
    BY DEF Free, AtDesk, NoRow, Row, DeskFields, RowFields
<1>2. strategies = <<>> /\ DOMAIN strategies = {}
    BY DEF Init
<1>3. Shapes
    BY <1>1, <1>2 DEF Init, Shapes
<1>4. \A id : Busy(id) = {} /\ ~Runs(id) /\ id \notin instances
    BY <1>1, <1>2 DEF Init, Busy, Idle, Callers, Runs, Found
<1> QED BY <1>3, <1>4 DEF SInv, Good

\* The engine runs what the rows say, once the requests are answered: unless
\* they overlapped or one of the other causes made it unsure (strategy service
\* Start, Stop, Delete).
THEOREM EngineRunsItsRows == Spec => []EngineMatchesRows
<1>1. SInv => EngineMatchesRows
    BY DEF SInv, Good, Runs, EngineMatchesRows
<1> QED BY RowsBegin, StrategyStep, <1>1, PTL DEF Spec

---------------------------------------------------------------------------
(* RiskDesk: what a caller has in flight is a record, and the check of one  *)
(* that has not been overtaken is made while the switch is on.              *)
FloorFields == {"op", "id", "policy", "notional", "held", "action", "reply"}
CheckInFlight(t) ==
  /\ floor[t].action = "APPROVE" => ~floor[t].held /\ floor[t].notional <= 50000
  /\ floor[t].op = "check" /\ floor[t].held => killSwitch
RInv ==
  /\ DOMAIN floor = Traders \cup Intruders
  /\ \A t \in Traders \cup Intruders : DOMAIN floor[t] = FloorFields /\ CheckInFlight(t)

Puts(t, new) == floor' = [floor EXCEPT ![t] = new]

\* One caller's entry changes, and the switch does not.
LEMMA FloorChanges ==
  ASSUME RInv, killSwitch' = killSwitch, NEW t \in Traders \cup Intruders, NEW new, Puts(t, new),
         DOMAIN new = FloorFields,
         new.action = "APPROVE" => ~new.held /\ new.notional <= 50000,
         new.op = "check" /\ new.held => killSwitch
  PROVE  RInv'
BY DEF RInv, CheckInFlight, Puts

\* The entries of a caller who is answered, and of one who goes on with a policy.
Done(r) == [Risk!Away EXCEPT !.reply = r]
With(op, id, p) == [Risk!Away EXCEPT !.op = op, !.id = id, !.policy = p]
LEMMA FloorWaits ==
  ASSUME RInv, killSwitch' = killSwitch, NEW t \in Traders \cup Intruders, NEW op, NEW id, NEW p, NEW r,
         Puts(t, Done(r)) \/ Puts(t, With(op, id, p)), op # "check"
  PROVE  RInv'
<1>1. DOMAIN Done(r) = FloorFields /\ Done(r).action = "NONE" /\ Done(r).op = "idle"
    BY DEF Risk!Away, FloorFields, Done
<1>2. DOMAIN With(op, id, p) = FloorFields /\ With(op, id, p).action = "NONE" /\ With(op, id, p).op = op
    BY DEF Risk!Away, FloorFields, With
<1>3. CASE Puts(t, Done(r))
    BY <1>1, <1>3, FloorChanges
<1>4. CASE Puts(t, With(op, id, p))
    BY <1>2, <1>4, FloorChanges
<1> QED BY <1>3, <1>4

LEMMA RiskStep == RInv /\ [Risk!Next]_Risk!riskVars => RInv'
<1> SUFFICES ASSUME RInv, [Risk!Next]_Risk!riskVars PROVE RInv'
    OBVIOUS
<1>1. ASSUME NEW t \in Traders \cup Intruders, NEW r, Risk!Reply(t, r), killSwitch' = killSwitch PROVE RInv'
  <2>1. Puts(t, Done(r))
      BY <1>1 DEF Risk!Reply, Puts, Done
  <2> QED BY <1>1, <2>1, "idle" # "check", FloorWaits
<1>2. ASSUME NEW t \in Intruders, Risk!RegisterRoutes(t) PROVE RInv'
    BY <1>1, <1>2 DEF Risk!RegisterRoutes
<1>3. ASSUME NEW t \in Traders, Risk!ListPolicies(t) \/ Risk!GetPolicy(t) \/ Risk!GetKillSwitch(t) PROVE RInv'
    BY <1>1, <1>3 DEF Risk!ListPolicies, Risk!GetPolicy, Risk!GetKillSwitch
<1>4. ASSUME NEW t \in Traders, Risk!CreatePolicy(t) PROVE RInv'
  <2>1. CASE \E r : Risk!Reply(t, r)
      BY <1>1, <1>4, <2>1 DEF Risk!CreatePolicy
  <2>2. CASE ~\E r : Risk!Reply(t, r)
    <3>1. PICK id, p : floor' = [floor EXCEPT ![t] = [Risk!Away EXCEPT !.op = "add", !.id = id, !.policy = p]]
        BY <1>4, <2>2 DEF Risk!CreatePolicy
    <3>2. Puts(t, With("add", id, p)) /\ killSwitch' = killSwitch
        BY <1>4, <3>1 DEF Puts, With, Risk!CreatePolicy
    <3> QED BY <3>2, "add" # "check", FloorWaits
  <2> QED BY <2>1, <2>2
<1>5. ASSUME NEW t \in Traders, Risk!CreateAdd(t) PROVE RInv'
    BY <1>1, <1>5 DEF Risk!CreateAdd
<1>6. ASSUME NEW t \in Traders, Risk!UpdatePolicy(t) PROVE RInv'
  <2>1. CASE \E r : Risk!Reply(t, r)
      BY <1>1, <1>6, <2>1 DEF Risk!UpdatePolicy
  <2>2. CASE ~\E r : Risk!Reply(t, r)
    <3>1. PICK id, p : floor' = [floor EXCEPT ![t] = [Risk!Away EXCEPT !.op = "update", !.id = id, !.policy = p]]
        BY <1>6, <2>2 DEF Risk!UpdatePolicy
    <3>2. Puts(t, With("update", id, p)) /\ killSwitch' = killSwitch
        BY <1>6, <3>1 DEF Puts, With, Risk!UpdatePolicy
    <3> QED BY <3>2, "update" # "check", FloorWaits
  <2> QED BY <2>1, <2>2
<1>7. ASSUME NEW t \in Traders, Risk!UpdatePolicyWrite(t) PROVE RInv'
    BY <1>1, <1>7 DEF Risk!UpdatePolicyWrite
<1>8. ASSUME NEW t \in Traders, Risk!DeletePolicy(t) PROVE RInv'
  <2>1. PICK id : floor' = [floor EXCEPT ![t] = [Risk!Away EXCEPT !.op = "remove", !.id = id]]
      BY <1>8 DEF Risk!DeletePolicy
  <2> DEFINE new == [Risk!Away EXCEPT !.op = "remove", !.id = id]
  <2>2. DOMAIN new = FloorFields /\ new.action = "NONE" /\ new.op = "remove"
      BY DEF Risk!Away, FloorFields
  <2>3. Puts(t, new) /\ killSwitch' = killSwitch
      BY <1>8, <2>1 DEF Puts, Risk!DeletePolicy
  <2> HIDE DEF new
  <2> QED BY <2>2, <2>3, FloorChanges
<1>9. ASSUME NEW t \in Traders, Risk!DeleteRemove(t) PROVE RInv'
  <2> DEFINE new == [floor[t] EXCEPT !.op = "erase"]
  <2>1. Puts(t, new) /\ killSwitch' = killSwitch
      BY <1>9 DEF Risk!DeleteRemove, Puts
  <2>2. DOMAIN new = FloorFields /\ new.op = "erase" /\ new.action = floor[t].action
           /\ new.held = floor[t].held /\ new.notional = floor[t].notional
      BY DEF RInv, FloorFields
  <2> HIDE DEF new
  <2> QED BY <2>1, <2>2, FloorChanges DEF RInv, CheckInFlight
<1>10. ASSUME NEW t \in Traders, Risk!DeleteErase(t) PROVE RInv'
    BY <1>1, <1>10 DEF Risk!DeleteErase
<1>11. ASSUME NEW t \in Traders, Risk!EnableKillSwitch(t) PROVE RInv'
  <2>1. PICK r : killSwitch' = TRUE /\ Puts(t, Done(r))
      BY <1>11 DEF Risk!EnableKillSwitch, Risk!Reply, Puts, Done
  <2>2. DOMAIN Done(r) = FloorFields /\ Done(r).action = "NONE"
      BY DEF Risk!Away, FloorFields, Done
  <2>3. /\ DOMAIN floor' = DOMAIN floor /\ floor'[t] = Done(r)
        /\ \A u \in DOMAIN floor \ {t} : floor'[u] = floor[u]
      BY <2>1 DEF Puts, RInv
  <2>4. ASSUME NEW u \in Traders \cup Intruders PROVE DOMAIN floor'[u] = FloorFields /\ CheckInFlight(u)'
    <3>1. DOMAIN floor[u] = FloorFields /\ CheckInFlight(u)
        BY DEF RInv
    <3>2. killSwitch'
        BY <2>1
    <3>3. CASE u = t
        BY <2>2, <2>3, <3>2, <3>3 DEF RInv, CheckInFlight
    <3>4. CASE u # t
        BY <2>3, <3>1, <3>2, <3>4 DEF RInv, CheckInFlight
    <3> QED BY <3>3, <3>4
  <2> QED BY <2>3, <2>4 DEF RInv
<1>12. ASSUME NEW t \in Traders, Risk!DisableKillSwitch(t) PROVE RInv'
  <2> DEFINE new == [Risk!Away EXCEPT !.reply = Risk!RespondSuccess]
  <2>1. DOMAIN new = FloorFields /\ new.action = "NONE" /\ new.op # "check"
      BY DEF Risk!Away, FloorFields
  <2>2. floor' = [u \in DOMAIN floor |-> IF u = t THEN new ELSE [floor[u] EXCEPT !.held = FALSE]]
      BY <1>12 DEF Risk!DisableKillSwitch
  <2> HIDE DEF new
  <2>3. ASSUME NEW u \in Traders \cup Intruders PROVE DOMAIN floor'[u] = FloorFields /\ CheckInFlight(u)'
    <3>1. CASE u = t
        BY <2>1, <2>2, <3>1 DEF RInv, CheckInFlight
    <3>2. CASE u # t
      <4>1. floor'[u] = [floor[u] EXCEPT !.held = FALSE]
          BY <2>2, <3>2 DEF RInv
      <4>2. /\ DOMAIN floor'[u] = FloorFields /\ ~floor'[u].held
            /\ floor'[u].action = floor[u].action /\ floor'[u].notional = floor[u].notional
          BY <4>1 DEF RInv, FloorFields
      <4> QED BY <4>2 DEF RInv, CheckInFlight
    <3> QED BY <3>1, <3>2
  <2> QED BY <2>2, <2>3 DEF RInv
<1>13. ASSUME NEW t \in Traders, Risk!PreTradeCheck(t) PROVE RInv'
  <2>1. PICK n : floor' = [floor EXCEPT ![t] = [Risk!Away EXCEPT !.op = "check", !.notional = n, !.held = killSwitch]]
      BY <1>13 DEF Risk!PreTradeCheck
  <2> DEFINE new == [Risk!Away EXCEPT !.op = "check", !.notional = n, !.held = killSwitch]
  <2>2. DOMAIN new = FloorFields /\ (new.held => killSwitch) /\ new.action = "NONE"
      BY DEF Risk!Away, FloorFields
  <2>3. Puts(t, new) /\ killSwitch' = killSwitch
      BY <1>13, <2>1 DEF Risk!PreTradeCheck, Puts
  <2> HIDE DEF new
  <2> QED BY <2>2, <2>3, FloorChanges
<1>14. ASSUME NEW t \in Traders, Risk!Evaluate(t) PROVE RInv'
  <2> DEFINE verdict == Risk!PreTradeCheckOf(killSwitch, floor[t].notional)
             new == [floor[t] EXCEPT !.op = "idle", !.reply = Risk!RespondSuccess, !.action = verdict]
  <2>1. Puts(t, new) /\ killSwitch' = killSwitch /\ floor[t].op = "check"
      BY <1>14 DEF Risk!Evaluate, RInv, Puts
  <2>2. verdict = "APPROVE" => ~killSwitch /\ floor[t].notional <= 50000
    <3> DEFINE passes == /\ Risk!KillSwitchCheck(killSwitch) /\ Risk!BalanceCheck(100000, floor[t].notional)
                         /\ Risk!PositionLimitCheck(0, 100000) /\ Risk!NotionalLimitCheck(floor[t].notional, 50000)
                         /\ Risk!LeverageCheck(1, 10) /\ Risk!MarketHealthCheck(TRUE) /\ Risk!VenueHealthCheck(TRUE)
    <3>1. verdict = IF passes THEN "APPROVE" ELSE "REJECT"
        BY DEF Risk!PreTradeCheckOf, Risk!EvaluatePreTrade
    <3>2. passes => ~killSwitch /\ floor[t].notional <= 50000
        BY DEF Risk!KillSwitchCheck, Risk!NotionalLimitCheck
    <3> HIDE DEF passes, verdict
    <3> QED BY <3>1, <3>2, "REJECT" # "APPROVE"
  <2>3. /\ DOMAIN new = FloorFields /\ new.op = "idle" /\ new.action = verdict
        /\ new.held = floor[t].held /\ new.notional = floor[t].notional
      BY DEF RInv, FloorFields
  <2> HIDE DEF new, verdict
  <2> QED BY <2>1, <2>2, <2>3, FloorChanges DEF RInv, CheckInFlight
<1>15. ASSUME Risk!Restart PROVE RInv'
  <2>1. /\ DOMAIN Risk!Away = FloorFields /\ Risk!Away.action = "NONE" /\ Risk!Away.op # "check"
      BY DEF Risk!Away, FloorFields
  <2>2. floor' = [t \in DOMAIN floor |-> Risk!Away]
      BY <1>15 DEF Risk!Restart
  <2> QED BY <2>1, <2>2 DEF RInv, CheckInFlight
<1>16. CASE UNCHANGED Risk!riskVars
    BY <1>16 DEF Risk!riskVars, RInv, CheckInFlight
<1> QED BY <1>2, <1>3, <1>4, <1>5, <1>6, <1>7, <1>8, <1>9, <1>10, <1>11, <1>12, <1>13, <1>14,
           <1>15, <1>16 DEF Risk!Next, Risk!ConcurrentMapWrites, Risk!Crash

\* A pre-trade check made while the kill switch is on is refused, whatever
\* else it asks and whoever asks at the same time (Engine.EvaluatePreTrade,
\* Service.PreTradeCheck).
THEOREM SwitchIsObeyed == Risk!Spec => []KillSwitchHolds
<1>1. Risk!Init => RInv
  <2>1. DOMAIN Risk!Away = FloorFields /\ Risk!Away.action = "NONE" /\ Risk!Away.op # "check"
      BY DEF Risk!Away, FloorFields
  <2> QED BY <2>1 DEF Risk!Init, RInv, CheckInFlight
<1>2. RInv => KillSwitchHolds
    BY DEF RInv, CheckInFlight, KillSwitchHolds, Risk!KillSwitchHolds
<1> QED BY <1>1, <1>2, RiskStep, PTL DEF Risk!Spec

---------------------------------------------------------------------------
(* Executions.                                                             *)

\* A set of naturals has a least one.
LEMMA LeastExists ==
  ASSUME NEW T \in SUBSET Nat, T # {}
  PROVE  \E m \in T : \A n \in T : m <= n
<1>1. PICK m \in T : \A n \in T : ~(<<n, m>> \in OpToRel(<, Nat))
  <2>1. IsWellFoundedOn(OpToRel(<, Nat), Nat)
      BY NatLessThanWellFounded
  <2> QED BY <2>1, WFMin
<1>2. ASSUME NEW n \in T PROVE m <= n
  <2>1. ~(n < m) /\ n \in Nat /\ m \in Nat
      BY <1>1 DEF OpToRel
  <2> QED BY <2>1
<1> QED BY <1>2

TicketFields == {"op", "id", "next", "todo", "reply"}
People == Operators \cup Guests
Making(id) == \E o \in Operators : ticket[o].op = "create" /\ ticket[o].id = id

\* An execution and a leg are on record; a caller who runs one that nobody is
\* still creating has all of its legs before them.
OnRecord ==
  /\ executions = [i \in DOMAIN executions |-> executions[i]]
  /\ \A i \in DOMAIN executions : DOMAIN executions[i] = {"mode", "status", "intent"}
  /\ \A leg \in legs : leg[1] \in DOMAIN executions /\ leg[2] \in Nat
Sound(t) ==
  /\ DOMAIN t = TicketFields
  /\ t.op = "create" => t.id \in DOMAIN executions /\ t.next \in Nat
  /\ t.op \in {"submit", "list", "place", "sent", "fill"} => t.id \in DOMAIN executions /\ ~Making(t.id)
  /\ t.op \in {"place", "sent", "fill"} => t.todo = Execution!ListLegsByExecution(t.id)
Tickets == DOMAIN ticket = People /\ \A o \in People : Sound(ticket[o])

\* An order bears the account and the client id of its leg, so its leg has no other.
OrderNamed(x) ==
  /\ DOMAIN x = {"account", "client", "leg", "status"} /\ x.leg[1] \in DOMAIN executions
  /\ x.account = Execution!Account(x.leg) /\ x.client = Execution!ClientOrderID(x.leg)
OrdersNamed == \A x \in orders : OrderNamed(x)
OneOrder == \A x, y \in orders : x.leg = y.leg => x = y

\* A paper run completes only if there was nothing to order.
Vacuous(id) == Execution!ListLegsByExecution(id) = {} /\ ~Making(id)
Completions == \A id \in DOMAIN executions : executions[id].status = "COMPLETED" => Vacuous(id)

EInv == OnRecord /\ Tickets /\ OrdersNamed /\ OneOrder /\ Completions

Takes(o, new) == ticket' = [ticket EXCEPT ![o] = new]
\* The executions stay the same ones, and those completed by the step are empty.
SameExecutions ==
  /\ executions' = [i \in DOMAIN executions |-> executions'[i]]
  /\ \A i \in DOMAIN executions :
       /\ DOMAIN executions'[i] = {"mode", "status", "intent"}
       /\ executions'[i].intent = executions[i].intent
       /\ executions'[i].status = "COMPLETED" => executions[i].status = "COMPLETED" \/ Vacuous(i)

\* The step of a caller who is not creating an execution.
LEMMA ExecutionGoesOn ==
  ASSUME EInv, NEW o \in People, NEW new, Takes(o, new), new.op # "create", Sound(new),
         SameExecutions, legs' = legs, (OrdersNamed /\ OneOrder)'
  PROVE  EInv'
<1>1. DOMAIN executions' = DOMAIN executions
    BY DEF SameExecutions
<1>2. OnRecord'
  <2>1. executions' = [i \in DOMAIN executions' |-> executions'[i]]
      BY <1>1 DEF SameExecutions
  <2> QED BY <1>1, <2>1 DEF OnRecord, SameExecutions, EInv
<1>3. /\ DOMAIN ticket' = People /\ ticket'[o] = new
      /\ \A p \in People : p # o => ticket'[p] = ticket[p]
    BY DEF Takes, EInv, Tickets
<1>4. ASSUME NEW id PROVE Making(id)' => Making(id)
    BY <1>3 DEF Making, People
<1>5. ASSUME NEW id PROVE Execution!ListLegsByExecution(id)' = Execution!ListLegsByExecution(id)
    BY DEF Execution!ListLegsByExecution
<1>6. ASSUME NEW p \in People PROVE Sound(ticket[p])' 
  <2>1. PICK t : t = ticket'[p]
      OBVIOUS
  <2>2. Sound(t)
      BY <1>3, <2>1 DEF EInv, Tickets
  <2>3. Sound(t)'
      BY <1>1, <1>4, <1>5, <2>2 DEF Sound
  <2> QED BY <2>1, <2>3 DEF Sound
<1>7. Tickets'
    BY <1>3, <1>6 DEF Tickets
<1>8. Completions'
  <2>1. ASSUME NEW id \in DOMAIN executions, executions'[id].status = "COMPLETED" PROVE Vacuous(id)'
    <3>1. Vacuous(id)
        BY <2>1 DEF SameExecutions, EInv, Completions
    <3> QED BY <1>4, <1>5, <3>1 DEF Vacuous
  <2> QED BY <1>1, <2>1 DEF Completions
<1> QED BY <1>2, <1>7, <1>8 DEF EInv

LEMMA OrderStaysNamed ==
  ASSUME EInv, SameExecutions, NEW x, OrderNamed(x)
  PROVE  OrderNamed(x)'
<1>1. DOMAIN executions' = DOMAIN executions
    BY DEF SameExecutions
<1>2. executions'[x.leg[1]].intent = executions[x.leg[1]].intent
    BY DEF SameExecutions, OrderNamed
<1> QED BY <1>1, <1>2 DEF OrderNamed, Execution!Account, Execution!ClientOrderID

LEMMA OrdersStay ==
  ASSUME EInv, SameExecutions, orders' = orders
  PROVE  (OrdersNamed /\ OneOrder)'
<1>1. OrdersNamed'
    BY OrderStaysNamed DEF EInv, OrdersNamed
<1>2. OneOrder'
    BY DEF EInv, OneOrder
<1> QED BY <1>1, <1>2

LEMMA ExecutionsStay ==
  ASSUME EInv, executions' = executions PROVE SameExecutions
BY DEF EInv, OnRecord, SameExecutions

\* A caller is answered.
Answered(r) == [Execution!NoTicket EXCEPT !.reply = r]
LEMMA CallerAnswered ==
  ASSUME EInv, NEW o \in People, NEW r, Execution!Close(o, r),
         SameExecutions, legs' = legs, orders' = orders
  PROVE  EInv'
<1>1. Takes(o, Answered(r))
    BY DEF Execution!Close, Takes, Answered
<1>2. DOMAIN Answered(r) = TicketFields /\ Answered(r).op = "idle"
    BY DEF Answered, Execution!NoTicket, TicketFields
<1>3. Sound(Answered(r)) /\ Answered(r).op # "create"
    BY <1>2 DEF Sound
<1> QED BY <1>1, <1>3, OrdersStay, ExecutionGoesOn

\* A status changes, and nothing completes but what is vacuous.
LEMMA StatusChanges ==
  ASSUME EInv, NEW id, NEW status, executions' = Execution!UpdateExecutionStatus(id, status),
         status = "COMPLETED" => Vacuous(id)
  PROVE  SameExecutions
<1>1. CASE id \notin DOMAIN executions
  <2>1. executions' = executions
      BY <1>1 DEF Execution!UpdateExecutionStatus, Execution!Exists
  <2> QED BY <2>1, ExecutionsStay
<1>2. CASE id \in DOMAIN executions
  <2>1. executions' = [executions EXCEPT ![id].status = status]
      BY <1>2 DEF Execution!UpdateExecutionStatus, Execution!Exists
  <2>2. executions' = [i \in DOMAIN executions |->
                         IF i = id THEN [executions[id] EXCEPT !.status = status] ELSE executions[i]]
      BY <2>1 DEF EInv, OnRecord
  <2>3. DOMAIN executions[id] = {"mode", "status", "intent"}
      BY <1>2 DEF EInv, OnRecord
  <2>4. /\ DOMAIN [executions[id] EXCEPT !.status = status] = {"mode", "status", "intent"}
        /\ [executions[id] EXCEPT !.status = status].status = status
        /\ [executions[id] EXCEPT !.status = status].intent = executions[id].intent
      BY <2>3
  <2> DEFINE row == [executions[id] EXCEPT !.status = status]
  <2>5. executions' = [i \in DOMAIN executions |-> IF i = id THEN row ELSE executions[i]]
      BY <2>2
  <2>6. DOMAIN row = {"mode", "status", "intent"} /\ row.status = status /\ row.intent = executions[id].intent
      BY <2>4
  <2> HIDE DEF row
  <2>7. /\ DOMAIN executions' = DOMAIN executions
        /\ \A i \in DOMAIN executions : executions'[i] = IF i = id THEN row ELSE executions[i]
      BY <2>5
  <2>8. executions' = [i \in DOMAIN executions |-> executions'[i]]
      BY <2>5, <2>7
  <2> QED BY <1>2, <2>6, <2>7, <2>8 DEF EInv, OnRecord, SameExecutions
<1> QED BY <1>1, <1>2

\* What a caller's ticket says of the execution at hand is kept when only the
\* operation moves on.
LEMMA TicketMoves ==
  ASSUME EInv, NEW o \in People, NEW op, ticket[o].op \in {"place", "sent", "fill"},
         op \in {"place", "sent", "fill"}
  PROVE  Sound([ticket[o] EXCEPT !.op = op])
<1> DEFINE t == [ticket[o] EXCEPT !.op = op]
<1>1. Sound(ticket[o])
    BY DEF EInv, Tickets
<1>2. /\ DOMAIN t = TicketFields /\ t.op = op
      /\ t.id = ticket[o].id /\ t.todo = ticket[o].todo
    BY <1>1 DEF Sound, TicketFields
<1> HIDE DEF t
<1>3. Sound(t)
    BY <1>1, <1>2 DEF Sound
<1> QED BY <1>3 DEF t

\* The leg at hand is one of the execution's.
LEMMA FirstIsNext ==
  ASSUME EInv, NEW id, NEW todo, todo = Execution!ListLegsByExecution(id), todo # {}
  PROVE  Execution!First(todo) \in todo
<1> DEFINE T == {leg[2] : leg \in todo}
<1>1. todo \subseteq legs
    BY DEF Execution!ListLegsByExecution
<1>2. T \in SUBSET Nat /\ T # {}
    BY <1>1 DEF EInv, OnRecord
<1>3. PICK m \in T : \A n \in T : m <= n
    BY <1>2, LeastExists
<1>4. PICK leg \in todo : leg[2] = m
    BY <1>3
<1>5. \A other \in todo : leg[2] <= other[2]
    BY <1>3, <1>4
<1> QED BY <1>4, <1>5 DEF Execution!First

LEMMA ExecutionStep == EInv /\ [Execution!Next]_Execution!executionVars => EInv'
<1> SUFFICES ASSUME EInv, [Execution!Next]_Execution!executionVars PROVE EInv'
    OBVIOUS
<1> Operators \subseteq People /\ Guests \subseteq People
    BY DEF People
<1> \A o \in People : DOMAIN ticket[o] = TicketFields /\ Sound(ticket[o])
    BY DEF EInv, Tickets, Sound
<1>1. ASSUME NEW o \in People, NEW code, Execution!Show(o, code) PROVE EInv'
    BY <1>1, ExecutionsStay, CallerAnswered DEF Execution!Show
<1>2. ASSUME NEW o \in Operators, Execution!Create(o) PROVE EInv'
  <2>1. PICK id, row, next :
          /\ id \notin DOMAIN executions /\ next = 1 /\ DOMAIN row = {"mode", "status", "intent"}
          /\ row.status = "CREATED" /\ executions' = Execution!InsertExecution(id, row)
          /\ ticket' = [ticket EXCEPT ![o] = [Execution!NoTicket EXCEPT !.op = "create", !.id = id, !.next = next]]
    <3>1. PICK intent \in Intents, mode \in {"PAPER", "LIVE_MANUAL"} :
            LET id == CHOOSE i \in ExecutionIds \ DOMAIN executions : TRUE
            IN  /\ executions' = Execution!InsertExecution(id, Execution!Execution(mode, intent))
                /\ ticket' = [ticket EXCEPT ![o] = [Execution!NoTicket EXCEPT !.op = "create", !.id = id, !.next = 1]]
        BY <1>2 DEF Execution!Create
    <3>2. (CHOOSE i \in ExecutionIds \ DOMAIN executions : TRUE) \notin DOMAIN executions
        BY <1>2 DEF Execution!Create
    <3>3. /\ DOMAIN Execution!Execution(mode, intent) = {"mode", "status", "intent"}
          /\ Execution!Execution(mode, intent).status = "CREATED"
        BY DEF Execution!Execution
    <3> QED BY <3>1, <3>2, <3>3
  <2> DEFINE new == [Execution!NoTicket EXCEPT !.op = "create", !.id = id, !.next = next]
  <2>2. DOMAIN new = TicketFields /\ new.op = "create" /\ new.id = id /\ new.next = 1
      BY <2>1 DEF Execution!NoTicket, TicketFields
  <2>3. Takes(o, new) /\ legs' = legs /\ orders' = orders
      BY <1>2, <2>1 DEF Takes, Execution!Create
  <2> HIDE DEF new
  <2>4. /\ DOMAIN ticket' = People /\ ticket'[o] = new
        /\ \A p \in People : p # o => ticket'[p] = ticket[p]
      BY <2>3 DEF Takes, EInv, Tickets
  <2>5. /\ executions' = [i \in DOMAIN executions' |-> executions'[i]]
        /\ DOMAIN executions' = DOMAIN executions \cup {id} /\ executions'[id] = row
        /\ \A i \in DOMAIN executions : executions'[i] = executions[i]
      BY <2>1 DEF Execution!InsertExecution
  <2>6. ASSUME NEW i, i # id, Making(i)' PROVE Making(i)
    <3>1. PICK p \in Operators : ticket'[p].op = "create" /\ ticket'[p].id = i
        BY <2>6 DEF Making
    <3>2. p # o
        BY <2>2, <2>4, <2>6, <3>1
    <3> QED BY <2>4, <3>1, <3>2 DEF Making
  <2>7. ASSUME NEW i PROVE Execution!ListLegsByExecution(i)' = Execution!ListLegsByExecution(i)
      BY <2>3 DEF Execution!ListLegsByExecution
  <2>8. OnRecord'
      BY <2>1, <2>3, <2>5 DEF EInv, OnRecord
  <2>9. Sound(new)'
      BY <2>2, <2>5 DEF Sound
  <2>10. ASSUME NEW p \in People PROVE Sound(ticket[p])'
    <3>1. CASE p = o
      <4>1. ticket'[p] = new
          BY <2>4, <3>1
      <4> QED BY <2>2, <2>5, <4>1 DEF Sound
    <3>2. CASE p # o
      <4>1. PICK t : t = ticket'[p] /\ t = ticket[p]
          BY <2>4, <3>2
      <4>2. Sound(t)
          BY <4>1
      <4>3. t.op \in {"submit", "list", "place", "sent", "fill"} => t.id # id
          BY <2>1, <4>2 DEF Sound
      <4>4. Sound(t)'
          BY <2>5, <2>6, <2>7, <4>2, <4>3 DEF Sound
      <4> QED BY <4>1, <4>4 DEF Sound
    <3> QED BY <3>1, <3>2
  <2>11. Tickets'
      BY <2>4, <2>10 DEF Tickets
  <2>12. ASSUME NEW x \in orders PROVE OrderNamed(x)'
    <3>1. OrderNamed(x)
        BY DEF EInv, OrdersNamed
    <3>2. x.leg[1] \in DOMAIN executions' /\ executions'[x.leg[1]] = executions[x.leg[1]]
        BY <2>5, <3>1 DEF OrderNamed
    <3> QED BY <3>1, <3>2 DEF OrderNamed, Execution!Account, Execution!ClientOrderID
  <2>13. (OrdersNamed /\ OneOrder)'
      BY <2>3, <2>12 DEF OrdersNamed, EInv, OneOrder
  <2>14. ASSUME NEW i \in DOMAIN executions', executions'[i].status = "COMPLETED" PROVE Vacuous(i)'
    <3>1. i # id /\ i \in DOMAIN executions /\ executions[i].status = "COMPLETED"
        BY <2>1, <2>5, <2>14
    <3>2. Vacuous(i)
        BY <3>1 DEF EInv, Completions
    <3> QED BY <2>6, <2>7, <3>1, <3>2 DEF Vacuous
  <2>15. Completions'
      BY <2>14 DEF Completions
  <2> QED BY <2>8, <2>11, <2>13, <2>15 DEF EInv
<1>3. ASSUME NEW o \in Operators, Execution!CreateLeg(o) PROVE EInv'
  <2>1. CASE \E r : Execution!Close(o, r) /\ legs' = legs
      BY <1>3, <2>1, ExecutionsStay, CallerAnswered DEF Execution!CreateLeg
  <2>2. CASE ~\E r : Execution!Close(o, r) /\ legs' = legs
    <3> PICK id, i : id = ticket[o].id /\ i = ticket[o].next
        OBVIOUS
    <3>1. /\ legs' = legs \cup {<<id, i>>} /\ ticket' = [ticket EXCEPT ![o].next = i + 1]
          /\ ticket[o].op = "create" /\ executions' = executions /\ orders' = orders
      <4>1. ticket' = [ticket EXCEPT ![o].next = @ + 1] /\ legs' = legs \cup {<<id, i>>}
          BY <1>3, <2>2 DEF Execution!CreateLeg
      <4> QED BY <1>3, <4>1 DEF Execution!CreateLeg
    <3>2. Sound(ticket[o]) /\ id \in DOMAIN executions /\ i \in Nat /\ Making(id)
        BY <3>1 DEF Sound, Making
    <3> DEFINE new == [ticket[o] EXCEPT !.next = i + 1]
    <3>3. DOMAIN new = TicketFields /\ new.op = "create" /\ new.id = id /\ new.next = i + 1
        BY <3>1, <3>2 DEF Sound, TicketFields
    <3>4. /\ DOMAIN ticket' = People /\ ticket'[o] = new
          /\ \A p \in People : p # o => ticket'[p] = ticket[p]
        BY <3>1 DEF EInv, Tickets
    <3> HIDE DEF new
    <3>5. ASSUME NEW j PROVE Making(j)' => Making(j)
        BY <3>1, <3>3, <3>4 DEF Making
    <3>6. ASSUME NEW j, j # id PROVE Execution!ListLegsByExecution(j)' = Execution!ListLegsByExecution(j)
      <4>1. <<id, i>>[1] = id
          OBVIOUS
      <4> QED BY <3>1, <3>6, <4>1 DEF Execution!ListLegsByExecution
    <3>7. OnRecord'
      <4>1. <<id, i>>[1] = id /\ <<id, i>>[2] = i
          OBVIOUS
      <4> QED BY <3>1, <3>2, <4>1 DEF EInv, OnRecord
    <3>8. ASSUME NEW p \in People PROVE Sound(ticket[p])'
      <4>1. CASE p = o
        <5>1. ticket'[p] = new
            BY <3>4, <4>1
        <5> QED BY <3>1, <3>2, <3>3, <5>1 DEF Sound
      <4>2. CASE p # o
        <5>1. PICK t : t = ticket'[p] /\ t = ticket[p]
            BY <3>4, <4>2
        <5>2. Sound(t)
            BY <5>1
        <5>3. t.op \in {"submit", "list", "place", "sent", "fill"} => t.id # id
            BY <3>2, <5>2 DEF Sound
        <5>4. Sound(t)'
            BY <3>1, <3>5, <3>6, <5>2, <5>3 DEF Sound
        <5> QED BY <5>1, <5>4 DEF Sound
      <4> QED BY <4>1, <4>2
    <3>9. Tickets'
        BY <3>4, <3>8 DEF Tickets
    <3>10. (OrdersNamed /\ OneOrder)'
        BY <3>1, OrdersStay, ExecutionsStay
    <3>11. ASSUME NEW j \in DOMAIN executions', executions'[j].status = "COMPLETED" PROVE Vacuous(j)'
      <4>1. Vacuous(j) /\ j # id
          BY <3>1, <3>2, <3>11 DEF EInv, Completions, Vacuous
      <4> QED BY <3>5, <3>6, <4>1 DEF Vacuous
    <3>12. Completions'
        BY <3>11 DEF Completions
    <3> QED BY <3>7, <3>9, <3>10, <3>12 DEF EInv
  <2> QED BY <2>1, <2>2
<1>4. ASSUME NEW o \in Operators, Execution!Submit(o) PROVE EInv'
  <2>1. CASE \E r : Execution!Close(o, r)
      BY <1>4, <2>1, ExecutionsStay, CallerAnswered DEF Execution!Submit
  <2>2. CASE ~\E r : Execution!Close(o, r)
    <3>1. PICK id \in Execution!Told :
            /\ Execution!Exists(id)
            /\ ticket' = [ticket EXCEPT ![o] = [Execution!NoTicket EXCEPT !.op = "submit", !.id = id]]
        BY <1>4, <2>2 DEF Execution!Submit
    <3> DEFINE new == [Execution!NoTicket EXCEPT !.op = "submit", !.id = id]
    <3>2. DOMAIN new = TicketFields /\ new.op = "submit" /\ new.id = id
        BY DEF Execution!NoTicket, TicketFields
    <3>3. Takes(o, new) /\ executions' = executions /\ legs' = legs /\ orders' = orders
        BY <1>4, <3>1 DEF Takes, Execution!Submit
    <3> HIDE DEF new
    <3>4. id \in DOMAIN executions /\ ~Making(id)
        BY <3>1 DEF Execution!Told, Execution!Exists, Making
    <3>5. Sound(new) /\ new.op # "create"
        BY <3>2, <3>4 DEF Sound
    <3> QED BY <3>3, <3>5, ExecutionsStay, OrdersStay, ExecutionGoesOn
  <2> QED BY <2>1, <2>2
<1>5. ASSUME NEW o \in Operators, Execution!SubmitMark(o) PROVE EInv'
  <2>1. SameExecutions /\ legs' = legs /\ orders' = orders /\ ticket[o].op = "submit"
      BY <1>5, "SUBMITTING" # "COMPLETED", StatusChanges DEF Execution!SubmitMark
  <2>2. CASE \E r : Execution!Close(o, r)
      BY <2>1, <2>2, CallerAnswered
  <2>3. CASE ~\E r : Execution!Close(o, r)
    <3> DEFINE new == [ticket[o] EXCEPT !.op = "list"]
    <3>1. Takes(o, new)
        BY <1>5, <2>3 DEF Takes, Execution!SubmitMark, EInv, Tickets
    <3>2. DOMAIN new = TicketFields /\ new.op = "list" /\ new.id = ticket[o].id
        BY DEF TicketFields
    <3> HIDE DEF new
    <3>3. Sound(new) /\ new.op # "create"
        BY <2>1, <3>2 DEF Sound
    <3> QED BY <2>1, <3>1, <3>3, OrdersStay, ExecutionGoesOn
  <2> QED BY <2>2, <2>3
<1>6. ASSUME NEW o \in Operators, Execution!ExecutePaper(o) PROVE EInv'
  <2> DEFINE new == [ticket[o] EXCEPT !.op = "place", !.todo = Execution!ListLegsByExecution(ticket[o].id)]
  <2>1. /\ Takes(o, new) /\ ticket[o].op = "list"
        /\ executions' = executions /\ legs' = legs /\ orders' = orders
      BY <1>6 DEF Takes, Execution!ExecutePaper, EInv, Tickets
  <2>2. /\ DOMAIN new = TicketFields /\ new.op = "place" /\ new.id = ticket[o].id
        /\ new.todo = Execution!ListLegsByExecution(ticket[o].id)
      BY DEF TicketFields
  <2> HIDE DEF new
  <2>3. Sound(new) /\ new.op # "create"
      BY <2>1, <2>2 DEF Sound
  <2> QED BY <2>1, <2>3, ExecutionsStay, OrdersStay, ExecutionGoesOn
<1>7. ASSUME NEW o \in Operators, Execution!PlaceOrder(o) PROVE EInv'
  <2> PICK id, todo : id = ticket[o].id /\ todo = ticket[o].todo
      OBVIOUS
  <2>1. /\ id \in DOMAIN executions /\ ~Making(id) /\ todo = Execution!ListLegsByExecution(id)
        /\ ticket[o].op = "place" /\ legs' = legs
      BY <1>7 DEF Execution!PlaceOrder, Sound
  <2>2. CASE todo = {}
    <3>1. PICK r : /\ executions' = Execution!UpdateExecutionStatus(id, "COMPLETED")
                   /\ Execution!Close(o, r) /\ orders' = orders
        BY <1>7, <2>2 DEF Execution!PlaceOrder
    <3>2. SameExecutions
        BY <2>1, <2>2, <3>1, StatusChanges DEF Vacuous
    <3> QED BY <2>1, <3>1, <3>2, CallerAnswered
  <2>3. CASE todo # {} /\ \E r : Execution!Close(o, r)
    <3>1. executions' = executions
        BY <1>7, <2>3 DEF Execution!PlaceOrder
    <3>2. CASE orders' = orders
        BY <2>1, <2>3, <3>1, <3>2, ExecutionsStay, CallerAnswered
    <3>3. CASE orders' # orders
      <4>1. ticket' = [ticket EXCEPT ![o].op = "sent"]
          BY <1>7, <2>3, <3>3 DEF Execution!PlaceOrder
      <4>2. ticket'[o].op = "sent"
          BY <4>1 DEF EInv, Tickets, TicketFields
      <4>3. \A r : ~Execution!Close(o, r)
        <5>1. ASSUME NEW r, Execution!Close(o, r) PROVE FALSE
          <6>1. ticket'[o] = Answered(r)
              BY <5>1 DEF Execution!Close, Answered, EInv, Tickets
          <6>2. Answered(r).op = "idle"
              BY DEF Answered, Execution!NoTicket
          <6> QED BY <4>2, <6>1, <6>2
        <5> QED BY <5>1
      <4> QED BY <2>3, <4>3
    <3> QED BY <3>2, <3>3
  <2>4. CASE todo # {} /\ ~\E r : Execution!Close(o, r)
    <3> PICK leg : leg = Execution!First(todo)
        OBVIOUS
    <3>1. /\ ~Execution!Duplicate(leg) /\ orders' = Execution!CreateOrder(leg)
          /\ ticket' = [ticket EXCEPT ![o].op = "sent"] /\ executions' = executions
        BY <1>7, <2>4 DEF Execution!PlaceOrder
    <3>2. leg \in todo /\ leg[1] = id
        BY <2>1, <2>4, FirstIsNext DEF Execution!ListLegsByExecution
    <3>3. Takes(o, [ticket[o] EXCEPT !.op = "sent"])
        BY <3>1 DEF Takes
    <3>4. Sound([ticket[o] EXCEPT !.op = "sent"]) /\ [ticket[o] EXCEPT !.op = "sent"].op # "create"
      <4>1. Sound([ticket[o] EXCEPT !.op = "sent"])
          BY <2>1, TicketMoves
      <4>2. [ticket[o] EXCEPT !.op = "sent"].op = "sent"
          BY DEF TicketFields
      <4> QED BY <4>1, <4>2
    <3> PICK x : x = Execution!Order(leg)
        OBVIOUS
    <3>5. /\ DOMAIN x = {"account", "client", "leg", "status"} /\ x.leg = leg
          /\ x.account = Execution!Account(leg) /\ x.client = Execution!ClientOrderID(leg)
        BY DEF Execution!Order
    <3>6. OrderNamed(x)
        BY <2>1, <3>2, <3>5 DEF OrderNamed
    <3>7. orders' = orders \cup {x}
        BY <3>1 DEF Execution!CreateOrder
    <3>8. \A y \in orders : y.leg # leg
      <4>1. ASSUME NEW y \in orders, y.leg = leg PROVE FALSE
        <5>1. y.account = Execution!Account(leg) /\ y.client = Execution!ClientOrderID(leg)
            BY <4>1 DEF EInv, OrdersNamed, OrderNamed
        <5> QED BY <3>1, <5>1 DEF Execution!Duplicate, Execution!GetOrderByClientOrderID
      <4> QED BY <4>1
    <3>9. OrdersNamed'
        BY <3>1, <3>6, <3>7, ExecutionsStay, OrderStaysNamed DEF EInv, OrdersNamed
    <3>10. OneOrder'
        BY <3>5, <3>7, <3>8 DEF EInv, OneOrder
    <3> QED BY <2>1, <3>1, <3>3, <3>4, <3>9, <3>10, ExecutionsStay, ExecutionGoesOn
  <2> QED BY <2>2, <2>3, <2>4
<1>8. ASSUME NEW o \in Operators, Execution!SubmitOrder(o) PROVE EInv'
  <2> DEFINE leg == Execution!First(ticket[o].todo)
  <2>1. /\ ticket[o].op = "sent" /\ executions' = executions /\ legs' = legs
      BY <1>8 DEF Execution!SubmitOrder
  <2>2. /\ Takes(o, [ticket[o] EXCEPT !.op = "fill"])
        /\ orders' = Execution!UpdateOrderStatus(leg, "SUBMITTING")
      BY <1>8 DEF Execution!SubmitOrder, Execution!Advance, Execution!CanTransition,
                  Execution!ValidOrderTransitions, Takes
  <2>3. Sound([ticket[o] EXCEPT !.op = "fill"]) /\ [ticket[o] EXCEPT !.op = "fill"].op # "create"
    <3>1. Sound([ticket[o] EXCEPT !.op = "fill"])
        BY <2>1, TicketMoves
    <3>2. [ticket[o] EXCEPT !.op = "fill"].op = "fill"
        BY DEF TicketFields
    <3> QED BY <3>1, <3>2
  <2> HIDE DEF leg
  <2> DEFINE Image(y) == IF y.leg = leg THEN [y EXCEPT !.status = "SUBMITTING"] ELSE y
  <2>4. orders' = {Image(y) : y \in orders}
      BY <2>2 DEF Execution!UpdateOrderStatus
  <2>5. ASSUME NEW y \in orders PROVE /\ DOMAIN Image(y) = {"account", "client", "leg", "status"}
                                       /\ Image(y).leg = y.leg /\ Image(y).account = y.account
                                       /\ Image(y).client = y.client
      BY DEF EInv, OrdersNamed, OrderNamed
  <2> HIDE DEF Image
  <2>6. ASSUME NEW y \in orders PROVE OrderNamed(Image(y))
      BY <2>5 DEF EInv, OrdersNamed, OrderNamed
  <2>7. OrdersNamed'
    <3>1. ASSUME NEW x \in orders' PROVE OrderNamed(x)'
      <4>1. OrderNamed(x)
          BY <2>4, <2>6
      <4> QED BY <2>1, <4>1, ExecutionsStay, OrderStaysNamed
    <3> QED BY <3>1 DEF OrdersNamed
  <2>8. OneOrder'
      BY <2>4, <2>5 DEF EInv, OneOrder
  <2> QED BY <2>1, <2>2, <2>3, <2>7, <2>8, ExecutionsStay, ExecutionGoesOn
<1>9. ASSUME NEW o \in Operators, Execution!FillOrder(o) PROVE EInv'
  <2>1. ~Execution!CanTransition("SUBMITTING", "FILLED")
      BY DEF Execution!CanTransition, Execution!ValidOrderTransitions
  <2>2. PICK r : Execution!Close(o, r) /\ executions' = executions /\ legs' = legs /\ orders' = orders
      BY <1>9, <2>1 DEF Execution!FillOrder, Execution!Advance
  <2> QED BY <2>2, ExecutionsStay, CallerAnswered
<1>10. ASSUME NEW o \in Operators, Execution!Cancel(o) PROVE EInv'
    BY <1>10, "CANCELED" # "COMPLETED", StatusChanges, CallerAnswered DEF Execution!Cancel
<1>11. CASE Execution!Crash
  <2>1. /\ ticket' = [o \in People |-> Execution!NoTicket]
        /\ executions' = executions /\ legs' = legs /\ orders' = orders
      BY <1>11 DEF Execution!Crash, EInv, Tickets
  <2>2. DOMAIN Execution!NoTicket = TicketFields /\ Execution!NoTicket.op = "idle"
      BY DEF Execution!NoTicket, TicketFields
  <2>3. Tickets'
      BY <2>1, <2>2 DEF Tickets, Sound
  <2>4. \A id : ~Making(id)'
      BY <2>1, <2>2 DEF Making
  <2>5. Completions'
      BY <2>1, <2>4 DEF EInv, Completions, Vacuous, Execution!ListLegsByExecution
  <2>6. OnRecord'
      BY <2>1 DEF EInv, OnRecord
  <2> QED BY <2>1, <2>3, <2>5, <2>6, ExecutionsStay, OrdersStay DEF EInv
<1>12. CASE UNCHANGED Execution!executionVars
  <2>1. UNCHANGED <<executions, legs, orders, ticket>>
      BY <1>12 DEF Execution!executionVars
  <2>2. Tickets'
      BY <2>1 DEF EInv, Tickets, Sound, Making, Execution!ListLegsByExecution
  <2>3. Completions'
      BY <2>1 DEF EInv, Completions, Vacuous, Making, Execution!ListLegsByExecution
  <2>4. OnRecord'
      BY <2>1 DEF EInv, OnRecord
  <2> QED BY <2>1, <2>2, <2>3, <2>4, ExecutionsStay, OrdersStay DEF EInv
<1> QED BY <1>1, <1>2, <1>3, <1>4, <1>5, <1>6, <1>7, <1>8, <1>9, <1>10, <1>11, <1>12
        DEF Execution!Next, Execution!RegisterRoutes, Execution!List, Execution!Get,
            Execution!ListLegs, Execution!ListFills, Execution!CreateRefused

\* A leg is ordered once, whoever submits its execution and however often
\* (Engine.SubmitExecution, executePaper).
LEMMA LegsOrderedOnce == Execution!Spec => []Execution!OrderedOnce
<1>1. Execution!Init => EInv
  <2> SUFFICES ASSUME Execution!Init PROVE EInv
      OBVIOUS
  <2>1. DOMAIN Execution!NoTicket = TicketFields /\ Execution!NoTicket.op = "idle"
      BY DEF Execution!NoTicket, TicketFields
  <2>2. executions = <<>> /\ DOMAIN executions = {} /\ legs = {} /\ orders = {}
      BY DEF Execution!Init
  <2>3. Tickets
      BY <2>1 DEF Execution!Init, Tickets, Sound, People
  <2> QED BY <2>2, <2>3 DEF EInv, OnRecord, OrdersNamed, OneOrder, Completions
<1>2. EInv => Execution!OrderedOnce
    BY DEF EInv, OneOrder, Completions, Vacuous, Execution!OrderedOnce
<1> QED BY <1>1, <1>2, ExecutionStep, PTL DEF Execution!Spec

---------------------------------------------------------------------------
(* Reconciliation.                                                         *)

RunFields == {"status", "total"}
WorkFields == {"run", "op", "todo", "found"}
On(w) == work[w].op \in {"compare", "store"}
OnRun(w, r) == On(w) /\ work[w].run = r
Stored(r) == Recon!ListItemsByRun(r)

\* A worker holds a finite set of items of its run, at most one of each kind.
Holding(t) ==
  /\ DOMAIN t = WorkFields
  /\ t.op \in {"compare", "store"} => t.run \in DOMAIN runs
  /\ t.op = "store" =>
       /\ IsFiniteSet(t.found) /\ t.todo \subseteq t.found
       /\ \A i \in t.found : i.run = t.run /\ i.entity \in Recon!Entities
RunBooks ==
  /\ runs = [r \in DOMAIN runs |-> runs[r]]
  /\ \A i \in items : i.run \in DOMAIN runs
  /\ DOMAIN work = Workers /\ \A w \in Workers : Holding(work[w])

\* A run checked once: the worker on it is alone and has stored what is not left
\* to do; without one, it is open or says what its items say.
HalfDone(t) ==
  /\ runs[t.run].status = "RUNNING"
  /\ t.op = "compare" => Stored(t.run) = {}
  /\ t.op = "store" => Stored(t.run) = t.found \ t.todo
SaysItsItems(r) ==
  runs[r].status # "RUNNING" =>
    /\ runs[r].total = Cardinality(Stored(r))
    /\ runs[r].status = "MATCHED" <=> \A i \in Stored(r) : i.result = "MATCH"
Once(r) ==
  /\ \A v, w \in Workers : OnRun(v, r) /\ OnRun(w, r) => v = w
  /\ \A w \in Workers : OnRun(w, r) => HalfDone(work[w])
  /\ SaysItsItems(r)
NInv == RunBooks /\ \A r \in DOMAIN runs \ again : Once(r)

---------------------------------------------------------------------------
LEMMA KindsAreFinite == DOMAIN Recon!Checks = 1..5 /\ IsFiniteSet(Recon!Entities)
<1>1. DOMAIN Recon!Checks = 1..5
    BY DEF Recon!Checks
<1>2. Recon!Entities = {"MARGIN", "BALANCE", "POSITION", "ORDER", "FILL"}
  <2>1. /\ Recon!Checks[1] = "MARGIN" /\ Recon!Checks[2] = "BALANCE" /\ Recon!Checks[3] = "POSITION"
        /\ Recon!Checks[4] = "ORDER" /\ Recon!Checks[5] = "FILL"
      BY DEF Recon!Checks
  <2>2. \A k : k \in 1..5 <=> k \in {1, 2, 3, 4, 5}
      OBVIOUS
  <2>3. Recon!Entities = {Recon!Checks[k] : k \in {1, 2, 3, 4, 5}}
      BY <1>1, <2>2 DEF Recon!Entities
  <2> QED BY <2>1, <2>3
<1>3. IsFiniteSet({"MARGIN", "BALANCE", "POSITION", "ORDER", "FILL"})
  <2>1. IsFiniteSet({})
      BY FS_EmptySet
  <2>2. IsFiniteSet({} \cup {"MARGIN"})
      BY <2>1, FS_AddElement
  <2>3. IsFiniteSet(({} \cup {"MARGIN"}) \cup {"BALANCE"})
      BY <2>2, FS_AddElement
  <2>4. IsFiniteSet((({} \cup {"MARGIN"}) \cup {"BALANCE"}) \cup {"POSITION"})
      BY <2>3, FS_AddElement
  <2>5. IsFiniteSet(((({} \cup {"MARGIN"}) \cup {"BALANCE"}) \cup {"POSITION"}) \cup {"ORDER"})
      BY <2>4, FS_AddElement
  <2>6. IsFiniteSet((((({} \cup {"MARGIN"}) \cup {"BALANCE"}) \cup {"POSITION"}) \cup {"ORDER"}) \cup {"FILL"})
      BY <2>5, FS_AddElement
  <2>7. (((({} \cup {"MARGIN"}) \cup {"BALANCE"}) \cup {"POSITION"}) \cup {"ORDER"}) \cup {"FILL"}
          = {"MARGIN", "BALANCE", "POSITION", "ORDER", "FILL"}
      OBVIOUS
  <2> QED BY <2>6, <2>7
<1> QED BY <1>1, <1>2, <1>3

\* The instance's Cardinality is the one the library speaks of.
LEMMA CardinalityIs == \A S : Recon!Cardinality(S) = Cardinality(S)
BY DEF Recon!Cardinality, Cardinality

\* What a comparison finds.
LEMMA FoundOnce ==
  ASSUME NEW w, NEW r, NEW recorded, NEW reported
  PROVE  /\ IsFiniteSet(Recon!ItemsOf(w, r, recorded, reported))
         /\ \A i \in Recon!ItemsOf(w, r, recorded, reported) : i.run = r /\ i.entity \in Recon!Entities
<1> DEFINE found == Recon!ItemsOf(w, r, recorded, reported)
           kinds == Recon!Compared(recorded, reported)
           item == [e \in kinds |->
                      [run |-> r, by |-> w, entity |-> e,
                       result |-> Recon!ResultOf(e, recorded[e], Recon!Answered(e, reported[e]))]]
<1>1. kinds \subseteq Recon!Entities
    BY DEF Recon!Compared
<1>2. found = {item[e] : e \in kinds}
    BY DEF Recon!ItemsOf
<1>3. \A e \in kinds : item[e].run = r /\ item[e].entity = e
    OBVIOUS
<1>4. DOMAIN item = kinds /\ item = [e \in kinds |-> item[e]]
    OBVIOUS
<1> HIDE DEF found, kinds, item
<1>5. IsFiniteSet(kinds)
    BY <1>1, KindsAreFinite, FS_Subset
<1>6. item \in Surjection(kinds, found)
    BY <1>2, <1>4 DEF Surjection
<1>7. IsFiniteSet(found)
    BY <1>5, <1>6, FS_Surjection
<1>8. \A i \in found : i.run = r /\ i.entity \in Recon!Entities
    BY <1>1, <1>2, <1>3
<1> QED BY <1>7, <1>8 DEF found

\* The item stored next is one that is left.
LEMMA FirstIsLeft ==
  ASSUME NEW todo, todo # {}, \A i \in todo : i.entity \in Recon!Entities
  PROVE  Recon!First(todo) \in todo
<1> DEFINE T == {Recon!Rank(i) : i \in todo}
<1>1. ASSUME NEW i \in todo PROVE Recon!Rank(i) \in 1..5
    BY KindsAreFinite DEF Recon!Rank, Recon!Entities
<1>2. T \in SUBSET Nat /\ T # {}
    BY <1>1
<1>3. PICK m \in T : \A n \in T : m <= n
    BY <1>2, LeastExists
<1>4. PICK i \in todo : Recon!Rank(i) = m
    BY <1>3
<1>5. \A j \in todo : Recon!Rank(i) <= Recon!Rank(j)
    BY <1>3, <1>4
<1> QED BY <1>4, <1>5 DEF Recon!First

\* The summary says what the items say.
LEMMA SummaryOfItems ==
  ASSUME NEW found, IsFiniteSet(found)
  PROVE  LET row == Recon!UpdatedRun(Recon!SummarizeItems(found))
         IN  /\ row.total = Cardinality(found)
             /\ row.status # "RUNNING"
             /\ row.status = "MATCHED" <=> \A i \in found : i.result = "MATCH"
<1> DEFINE same == {i \in found : i.result = "MATCH"}
           summary == Recon!SummarizeItems(found)
<1>1. summary.total = Cardinality(found) /\ summary.matched = Cardinality(same)
    BY CardinalityIs DEF Recon!SummarizeItems
<1>2. Cardinality(same) = Cardinality(found) <=> \A i \in found : i.result = "MATCH"
  <2>1. same \in SUBSET found
      OBVIOUS
  <2>2. Cardinality(found) = Cardinality(same) => found = same
      BY <2>1, FS_Subset
  <2>3. (\A i \in found : i.result = "MATCH") => same = found
      OBVIOUS
  <2>4. (\A i \in found : i.result = "MATCH") <=> same = found
      BY <2>3
  <2> HIDE DEF same
  <2> QED BY <2>2, <2>4
<1> HIDE DEF same, summary
<1>3. /\ Recon!UpdatedRun(summary).total = summary.total
      /\ Recon!UpdatedRun(summary).status = IF summary.matched = summary.total THEN "MATCHED" ELSE "MISMATCH"
    BY DEF Recon!UpdatedRun, Recon!OverallStatus
<1>4. /\ Recon!UpdatedRun(summary).total = Cardinality(found)
      /\ Recon!UpdatedRun(summary).status # "RUNNING"
      /\ Recon!UpdatedRun(summary).status = "MATCHED" <=> \A i \in found : i.result = "MATCH"
    BY <1>1, <1>2, <1>3
<1> QED BY <1>4 DEF summary

\* A worker's entry changes.
Works(w, new) == work' = [work EXCEPT ![w] = new]
LEMMA WorkChanges ==
  ASSUME NInv, NEW w \in Workers, NEW new, Works(w, new)
  PROVE  /\ DOMAIN work' = Workers /\ work'[w] = new
         /\ \A v \in Workers : v # w => work'[v] = work[v]
BY DEF NInv, RunBooks, Works

\* The runs only get more, and nothing else of the books changes.
LEMMA RunOpened ==
  ASSUME NInv, NEW r, r \notin DOMAIN runs, runs' = Recon!InsertRun(r),
         items' = items, work' = work, again' = again
  PROVE  NInv'
<1>1. /\ DOMAIN runs' = DOMAIN runs \cup {r} /\ runs'[r].status = "RUNNING"
      /\ \A s \in DOMAIN runs : runs'[s] = runs[s]
      /\ runs' = [s \in DOMAIN runs' |-> runs'[s]]
    BY DEF Recon!InsertRun, Recon!StartReconciliation
<1>2. ASSUME NEW w \in Workers PROVE Holding(work[w])'
  <2>1. Holding(work[w])
      BY DEF NInv, RunBooks
  <2> QED BY <1>1, <2>1 DEF Holding
<1>3. RunBooks'
    BY <1>1, <1>2 DEF NInv, RunBooks
<1>4. ASSUME NEW s \in DOMAIN runs' \ again' PROVE Once(s)'
  <2>1. CASE s \in DOMAIN runs
    <3>1. Once(s) /\ runs'[s] = runs[s]
        BY <1>1, <1>4, <2>1 DEF NInv
    <3>2. ASSUME NEW w \in Workers, OnRun(w, s) PROVE HalfDone(work[w])'
        BY <3>1, <3>2 DEF Once, HalfDone, Stored, Recon!ListItemsByRun, OnRun
    <3>3. SaysItsItems(s)'
        BY <3>1 DEF Once, SaysItsItems, Stored, Recon!ListItemsByRun
    <3> QED BY <3>1, <3>2, <3>3 DEF Once, OnRun, On
  <2>2. CASE s = r
    <3>1. ASSUME NEW w \in Workers PROVE ~OnRun(w, s)'
        BY <2>2 DEF NInv, RunBooks, Holding, OnRun, On
    <3>2. SaysItsItems(s)'
        BY <1>1, <2>2 DEF SaysItsItems
    <3> QED BY <3>1, <3>2 DEF Once
  <2> QED BY <1>1, <1>4, <2>1, <2>2
<1> QED BY <1>3, <1>4 DEF NInv

\* A worker gives its run up.
LEMMA WorkerEnds ==
  ASSUME NInv, NEW w \in Workers, Works(w, Recon!Ended), runs' = runs, items' = items, again' = again
  PROVE  NInv'
<1>1. DOMAIN Recon!Ended = WorkFields /\ Recon!Ended.op = "ended"
    BY DEF Recon!Ended, Recon!NoWork, WorkFields
<1>2. /\ DOMAIN work' = Workers /\ work'[w] = Recon!Ended
      /\ \A v \in Workers : v # w => work'[v] = work[v]
    BY WorkChanges
<1>3. ASSUME NEW v \in Workers PROVE Holding(work[v])'
  <2>1. CASE v = w
      BY <1>1, <1>2, <2>1 DEF Holding
  <2>2. CASE v # w
    <3>1. Holding(work[v]) /\ work'[v] = work[v]
        BY <1>2, <2>2 DEF NInv, RunBooks
    <3> QED BY <3>1 DEF Holding
  <2> QED BY <2>1, <2>2
<1>4. RunBooks'
    BY <1>2, <1>3 DEF NInv, RunBooks
<1>5. ASSUME NEW r \in DOMAIN runs' \ again' PROVE Once(r)'
  <2>1. Once(r)
      BY <1>5 DEF NInv
  <2>2. ASSUME NEW v \in Workers, OnRun(v, r)' PROVE OnRun(v, r) /\ work'[v] = work[v]
      BY <1>1, <1>2, <2>2 DEF OnRun, On
  <2>3. ASSUME NEW v \in Workers, OnRun(v, r)' PROVE HalfDone(work[v])'
    <3>1. HalfDone(work[v]) /\ work'[v] = work[v]
        BY <2>1, <2>2, <2>3 DEF Once
    <3> QED BY <3>1 DEF HalfDone, Stored, Recon!ListItemsByRun
  <2>4. SaysItsItems(r)'
      BY <2>1 DEF Once, SaysItsItems, Stored, Recon!ListItemsByRun
  <2> QED BY <2>1, <2>2, <2>3, <2>4 DEF Once
<1> QED BY <1>4, <1>5 DEF NInv

\* A worker goes on with its run, on which it is alone if the run is checked
\* once; the other runs are left alone.
LEMMA WorkerGoesOn ==
  ASSUME NInv, NEW w \in Workers, NEW new, Works(w, new), NEW r, r = new.run,
         new.op \in {"compare", "store"}, Holding(new), runs' = runs, again \subseteq again',
         r \notin again' => \A v \in Workers : OnRun(v, r) => v = w,
         \A i \in items' : i \in items \/ i.run = r, items \subseteq items',
         r \notin again' => HalfDone(new)',
         OnRun(w, r) \/ ~On(w)
  PROVE  NInv'
<1>1. /\ DOMAIN work' = Workers /\ work'[w] = new
      /\ \A v \in Workers : v # w => work'[v] = work[v]
    BY WorkChanges
<1>2. ASSUME NEW v \in Workers PROVE Holding(work[v])'
  <2>1. CASE v = w
      BY <1>1, <2>1 DEF Holding
  <2>2. CASE v # w
    <3>1. Holding(work[v]) /\ work'[v] = work[v]
        BY <1>1, <2>2 DEF NInv, RunBooks
    <3> QED BY <3>1 DEF Holding
  <2> QED BY <2>1, <2>2
<1>3. r \in DOMAIN runs
    BY DEF Holding
<1>4. RunBooks'
    BY <1>1, <1>2, <1>3 DEF NInv, RunBooks
<1>5. ASSUME NEW s \in DOMAIN runs' \ again' PROVE Once(s)'
  <2>1. Once(s)
      BY <1>5 DEF NInv
  <2>2. CASE s = r
    <3>1. ASSUME NEW v \in Workers, OnRun(v, s)' PROVE v = w
      <4>1. v # w => OnRun(v, s)
          BY <1>1, <3>1 DEF OnRun, On
      <4> QED BY <1>5, <2>2, <4>1
    <3>2. HalfDone(work[w])'
        BY <1>1, <1>5, <2>2 DEF HalfDone
    <3>3. SaysItsItems(s)'
        BY <1>1, <1>5, <2>2 DEF HalfDone, SaysItsItems
    <3> QED BY <3>1, <3>2, <3>3 DEF Once
  <2>3. CASE s # r
    <3>1. Stored(s)' = Stored(s)
        BY <2>3 DEF Stored, Recon!ListItemsByRun
    <3>2. ASSUME NEW v \in Workers, OnRun(v, s)' PROVE v # w /\ OnRun(v, s)
        BY <1>1, <2>3, <3>2 DEF OnRun, On
    <3>3. ASSUME NEW v \in Workers, OnRun(v, s)' PROVE HalfDone(work[v])'
      <4>1. HalfDone(work[v]) /\ work'[v] = work[v] /\ work[v].run = s
          BY <1>1, <2>1, <3>2, <3>3 DEF Once, OnRun
      <4> QED BY <3>1, <4>1 DEF HalfDone
    <3>4. SaysItsItems(s)'
        BY <2>1, <3>1 DEF Once, SaysItsItems
    <3> QED BY <2>1, <3>2, <3>3, <3>4 DEF Once
  <2> QED BY <2>2, <2>3
<1> QED BY <1>4, <1>5 DEF NInv

LEMMA RunCloses ==
  ASSUME NInv, NEW w \in Workers, Recon!UpdateRunStatus(w)
  PROVE  NInv'
<1> PICK r, found : r = work[w].run /\ found = work[w].found
    OBVIOUS
<1> PICK row : row = Recon!UpdatedRun(Recon!SummarizeItems(found))
    OBVIOUS
<1>1. /\ work[w].op = "store" /\ work[w].todo = {} /\ Works(w, Recon!Ended)
      /\ runs' = [runs EXCEPT ![r] = row] /\ items' = items /\ again' = again
    BY DEF Recon!UpdateRunStatus, Recon!MayClose, Works
<1>2. Holding(work[w]) /\ r \in DOMAIN runs /\ IsFiniteSet(found) /\ OnRun(w, r)
    BY <1>1 DEF NInv, RunBooks, Holding, OnRun, On
<1>3. /\ row.total = Cardinality(found) /\ row.status # "RUNNING"
      /\ row.status = "MATCHED" <=> \A i \in found : i.result = "MATCH"
    BY <1>2, SummaryOfItems
<1>4. /\ DOMAIN runs' = DOMAIN runs /\ runs'[r] = row /\ runs' = [s \in DOMAIN runs' |-> runs'[s]]
      /\ \A s \in DOMAIN runs : s # r => runs'[s] = runs[s]
    BY <1>1, <1>2 DEF NInv, RunBooks
<1>5. DOMAIN Recon!Ended = WorkFields /\ Recon!Ended.op = "ended"
    BY DEF Recon!Ended, Recon!NoWork, WorkFields
<1>6. /\ DOMAIN work' = Workers /\ work'[w] = Recon!Ended
      /\ \A v \in Workers : v # w => work'[v] = work[v]
    BY <1>1, WorkChanges
<1>7. ASSUME NEW v \in Workers PROVE Holding(work[v])'
  <2>1. CASE v = w
      BY <1>5, <1>6, <2>1 DEF Holding
  <2>2. CASE v # w
    <3>1. Holding(work[v]) /\ work'[v] = work[v]
        BY <1>6, <2>2 DEF NInv, RunBooks
    <3> QED BY <1>4, <3>1 DEF Holding
  <2> QED BY <2>1, <2>2
<1>8. RunBooks'
    BY <1>1, <1>4, <1>6, <1>7 DEF NInv, RunBooks
<1>9. ASSUME NEW s \in DOMAIN runs' \ again' PROVE Once(s)'
  <2>1. Once(s) /\ Stored(s)' = Stored(s)
      BY <1>1, <1>4, <1>9 DEF NInv, Stored, Recon!ListItemsByRun
  <2>2. ASSUME NEW v \in Workers, OnRun(v, s)' PROVE v # w /\ OnRun(v, s) /\ work'[v] = work[v]
      BY <1>5, <1>6, <2>2 DEF OnRun, On
  <2>3. CASE s = r
    <3>1. ASSUME NEW v \in Workers PROVE ~OnRun(v, s)'
        BY <1>2, <2>1, <2>2, <2>3 DEF Once
    <3>2. Stored(s) = found
        BY <1>1, <1>2, <2>1, <2>3 DEF Once, HalfDone
    <3>3. SaysItsItems(s)'
        BY <1>3, <1>4, <2>1, <2>3, <3>2 DEF SaysItsItems
    <3> QED BY <3>1, <3>3 DEF Once
  <2>4. CASE s # r
    <3>1. runs'[s] = runs[s]
        BY <1>4, <1>9, <2>4
    <3>2. ASSUME NEW v \in Workers, OnRun(v, s)' PROVE HalfDone(work[v])'
      <4>1. HalfDone(work[v]) /\ work'[v] = work[v] /\ work[v].run = s
          BY <2>1, <2>2, <3>2 DEF Once, OnRun
      <4> QED BY <2>1, <3>1, <4>1 DEF HalfDone
    <3>3. SaysItsItems(s)'
        BY <2>1, <3>1 DEF Once, SaysItsItems
    <3> QED BY <2>1, <2>2, <3>2, <3>3 DEF Once
  <2> QED BY <2>3, <2>4
<1> QED BY <1>8, <1>9 DEF NInv

LEMMA ReconciliationStep == NInv /\ [Recon!Next]_Recon!reconVars => NInv'
<1> SUFFICES ASSUME NInv, [Recon!Next]_Recon!reconVars PROVE NInv'
    OBVIOUS
<1>1. ASSUME UNCHANGED <<runs, items, work, again>> PROVE NInv'
  <2>1. RunBooks'
      BY <1>1 DEF NInv, RunBooks, Holding
  <2>2. \A r : Stored(r)' = Stored(r)
      BY <1>1 DEF Stored, Recon!ListItemsByRun
  <2>3. ASSUME NEW r \in DOMAIN runs \ again PROVE Once(r)'
      BY <1>1, <2>2 DEF NInv, Once, OnRun, On, HalfDone, SaysItsItems
  <2> QED BY <1>1, <2>1, <2>3 DEF NInv
<1>2. CASE \/ \E a \in Visitors : Recon!RegisterRoutes(a)
           \/ \E a \in Auditors : Recon!ListRuns(a) \/ Recon!GetRun(a) \/ Recon!ListItems(a)
           \/ UNCHANGED Recon!reconVars
    BY <1>1, <1>2 DEF Recon!RegisterRoutes, Recon!ListRuns, Recon!GetRun, Recon!ListItems,
                      Recon!Unmoved, Recon!reconVars
<1>3. ASSUME NEW a \in Auditors, Recon!CreateRun(a) PROVE NInv'
  <2>1. UNCHANGED <<items, work, again>>
      BY <1>3 DEF Recon!CreateRun
  <2>2. CASE runs' = runs
      BY <1>1, <2>1, <2>2
  <2>3. CASE runs' # runs
    <3>1. PICK r : r \notin DOMAIN runs /\ runs' = Recon!InsertRun(r)
      <4>1. (CHOOSE r \in RunIds \ DOMAIN runs : TRUE) \notin DOMAIN runs
          BY <1>3 DEF Recon!CreateRun
      <4> QED BY <1>3, <2>3, <4>1 DEF Recon!CreateRun
    <3> QED BY <2>1, <3>1, RunOpened
  <2> QED BY <2>2, <2>3
<1>4. ASSUME NEW w \in Workers, Recon!RunChecks(w) PROVE NInv'
  <2>1. PICK r \in DOMAIN runs :
          /\ runs[r].status = "RUNNING"
          /\ work' = [work EXCEPT ![w] = [Recon!NoWork EXCEPT !.run = r, !.op = "compare"]]
          /\ again' = again \cup {x \in {r} : (\E v \in Workers : work[v].run = r) \/ Stored(r) # {}}
      BY <1>4 DEF Recon!RunChecks, Stored
  <2> PICK new : new = [Recon!NoWork EXCEPT !.run = r, !.op = "compare"]
      OBVIOUS
  <2>2. DOMAIN new = WorkFields /\ new.op = "compare" /\ new.run = r
      BY DEF Recon!NoWork, WorkFields
  <2>3. Works(w, new) /\ runs' = runs /\ items' = items /\ ~On(w)
    <3>1. Recon!NoWork.op = "idle" /\ work[w] = Recon!NoWork
        BY <1>4 DEF Recon!RunChecks, Recon!NoWork
    <3>2. Works(w, new) /\ runs' = runs /\ items' = items
        BY <1>4, <2>1 DEF Works, Recon!RunChecks
    <3> QED BY <3>1, <3>2 DEF On
  <2>4. r \notin again' => ~(\E v \in Workers : work[v].run = r) /\ Stored(r) = {}
      BY <2>1
  <2>5. Holding(new)
      BY <2>2 DEF Holding
  <2>6. r \notin again' => HalfDone(new)'
    <3>1. Stored(r)' = Stored(r)
        BY <2>3 DEF Stored, Recon!ListItemsByRun
    <3> QED BY <2>1, <2>2, <2>3, <2>4, <3>1 DEF HalfDone
  <2>7. r \notin again' => \A v \in Workers : OnRun(v, r) => v = w
      BY <2>4 DEF OnRun
  <2> QED BY <2>1, <2>2, <2>3, <2>5, <2>6, <2>7, WorkerGoesOn
<1>5. ASSUME NEW w \in Workers, Recon!Fetch(w) PROVE NInv'
  <2> PICK r : r = work[w].run
      OBVIOUS
  <2>1. PICK found :
          /\ IsFiniteSet(found) /\ \A i \in found : i.run = r /\ i.entity \in Recon!Entities
          /\ work' = [work EXCEPT ![w].op = "store", ![w].todo = found, ![w].found = found]
    <3>1. PICK recorded \in Recorded, reported \in Reported :
            LET found == Recon!ItemsOf(w, r, recorded, reported)
            IN  work' = [work EXCEPT ![w].op = "store", ![w].todo = found, ![w].found = found]
        BY <1>5 DEF Recon!Fetch
    <3>2. PICK found : found = Recon!ItemsOf(w, r, recorded, reported)
        OBVIOUS
    <3>3. work' = [work EXCEPT ![w].op = "store", ![w].todo = found, ![w].found = found]
        BY <3>1, <3>2
    <3>4. IsFiniteSet(found) /\ \A i \in found : i.run = r /\ i.entity \in Recon!Entities
        BY <3>2, FoundOnce
    <3> QED BY <3>3, <3>4
  <2> PICK new : new = [work[w] EXCEPT !.op = "store", !.todo = found, !.found = found]
      OBVIOUS
  <2>2. /\ work[w].op = "compare" /\ runs' = runs /\ items' = items /\ again' = again
      BY <1>5 DEF Recon!Fetch
  <2>3. Holding(work[w]) /\ OnRun(w, r) /\ r \in DOMAIN runs
      BY <2>2 DEF NInv, RunBooks, Holding, OnRun, On
  <2>4. DOMAIN new = WorkFields /\ new.op = "store" /\ new.run = r /\ new.todo = found /\ new.found = found
      BY <2>3 DEF Holding, WorkFields
  <2>5. Works(w, new)
      BY <2>1 DEF Works, NInv, RunBooks
  <2>6. Holding(new)
      BY <2>1, <2>3, <2>4 DEF Holding
  <2>7. r \notin again => Once(r)
      BY <2>3 DEF NInv
  <2>8. r \notin again' => HalfDone(new)'
    <3>1. Stored(r)' = Stored(r)
        BY <2>2 DEF Stored, Recon!ListItemsByRun
    <3>2. r \notin again => runs[r].status = "RUNNING" /\ Stored(r) = {}
        BY <2>2, <2>3, <2>7 DEF Once, HalfDone, OnRun
    <3> QED BY <2>2, <2>4, <3>1, <3>2 DEF HalfDone
  <2>9. r \notin again' => \A v \in Workers : OnRun(v, r) => v = w
      BY <2>2, <2>3, <2>7 DEF Once
  <2> QED BY <2>2, <2>3, <2>4, <2>5, <2>6, <2>8, <2>9, WorkerGoesOn
<1>6. ASSUME NEW w \in Workers, Recon!CreateItem(w) PROVE NInv'
  <2>1. CASE work' = [work EXCEPT ![w] = Recon!Ended] /\ UNCHANGED items
      BY <1>6, <2>1, WorkerEnds DEF Recon!CreateItem, Works
  <2>2. CASE ~(work' = [work EXCEPT ![w] = Recon!Ended] /\ UNCHANGED items)
    <3> PICK r, todo : r = work[w].run /\ todo = work[w].todo
        OBVIOUS
    <3> PICK i : i = Recon!First(todo)
        OBVIOUS
    <3>1. /\ work[w].op = "store" /\ todo # {} /\ runs' = runs /\ again' = again
          /\ items' = items \cup {i} /\ work' = [work EXCEPT ![w].todo = todo \ {i}]
        BY <1>6, <2>2 DEF Recon!CreateItem
    <3> PICK new : new = [work[w] EXCEPT !.todo = todo \ {i}]
      OBVIOUS
    <3>2. Holding(work[w]) /\ OnRun(w, r) /\ r \in DOMAIN runs
        BY <3>1 DEF NInv, RunBooks, Holding, OnRun, On
    <3>3. /\ DOMAIN new = WorkFields /\ new.op = "store" /\ new.run = r
          /\ new.todo = todo \ {i} /\ new.found = work[w].found
        BY <3>1, <3>2 DEF Holding, WorkFields
    <3>4. Works(w, new)
        BY <3>1 DEF Works, NInv, RunBooks
    <3>5. todo \subseteq work[w].found /\ \A j \in todo : j.run = r /\ j.entity \in Recon!Entities
        BY <3>1, <3>2 DEF Holding
    <3>6. i \in todo /\ i.run = r
        BY <3>1, <3>5, FirstIsLeft
    <3>7. Holding(new)
        BY <3>1, <3>2, <3>3 DEF Holding
    <3>8. r \notin again => Once(r)
        BY <3>2 DEF NInv
    <3>9. r \notin again' => HalfDone(new)'
      <4>1. Stored(r)' = Stored(r) \cup {i}
          BY <3>1, <3>6 DEF Stored, Recon!ListItemsByRun
      <4>2. r \notin again => runs[r].status = "RUNNING" /\ Stored(r) = work[w].found \ todo
          BY <3>1, <3>2, <3>8 DEF Once, HalfDone, OnRun
      <4>3. r \notin again => Stored(r)' = new.found \ new.todo
          BY <3>3, <3>5, <3>6, <4>1, <4>2
      <4> QED BY <3>1, <3>3, <4>2, <4>3 DEF HalfDone
    <3>10. r \notin again' => \A v \in Workers : OnRun(v, r) => v = w
        BY <3>1, <3>2, <3>8 DEF Once
    <3> QED BY <3>1, <3>2, <3>3, <3>4, <3>6, <3>7, <3>9, <3>10, WorkerGoesOn
  <2> QED BY <2>1, <2>2
<1> QED BY <1>2, <1>3, <1>4, <1>5, <1>6, RunCloses DEF Recon!Next

\* A run that was checked once says what its items say (Engine.RunChecks).
LEMMA RunsSayTheirItems == Recon!Spec => []Recon!SummaryIsTrue
<1>1. Recon!Init => NInv
  <2> SUFFICES ASSUME Recon!Init PROVE NInv
      OBVIOUS
  <2>1. DOMAIN Recon!NoWork = WorkFields /\ Recon!NoWork.op = "idle"
      BY DEF Recon!NoWork, WorkFields
  <2>2. runs = <<>> /\ DOMAIN runs = {} /\ items = {}
      BY DEF Recon!Init
  <2>3. work = [w \in Workers |-> Recon!NoWork]
      BY DEF Recon!Init
  <2> QED BY <2>1, <2>2, <2>3 DEF NInv, RunBooks, Holding
<1>2. NInv => Recon!SummaryIsTrue
  <2> SUFFICES ASSUME NInv, NEW r \in DOMAIN runs \ again, runs[r].status # "RUNNING"
               PROVE  /\ runs[r].total = Recon!Cardinality(Recon!ListItemsByRun(r))
                      /\ runs[r].status = "MATCHED" <=> \A i \in Recon!ListItemsByRun(r) : i.result = "MATCH"
      BY DEF Recon!SummaryIsTrue
  <2>1. SaysItsItems(r)
      BY DEF NInv, Once
  <2> QED BY <2>1, CardinalityIs DEF SaysItsItems, Stored
<1> QED BY <1>1, <1>2, ReconciliationStep, PTL DEF Recon!Spec

---------------------------------------------------------------------------
\* What the trading desk records is true: a leg is ordered once, a completed
\* execution's legs are filled, and a closed reconciliation run counts its items
\* and is MATCHED only if they all are.
THEOREM RecordsHold == Execution!Spec /\ Recon!Spec => []RecordsAreTrue
<1>1. Execution!OrderedOnce /\ Recon!SummaryIsTrue => RecordsAreTrue
    BY DEF RecordsAreTrue
<1> QED BY <1>1, LegsOrderedOnce, RunsSayTheirItems, PTL

---------------------------------------------------------------------------
(* The unified state and the scanner over it.                              *)

\* A finite set of integers has a greatest and a least element.
LEMMA HasGreatest ==
  ASSUME NEW S, IsFiniteSet(S), S # {}, \A x \in S : x \in Int
  PROVE  \E x \in S : \A y \in S : y <= x
<1> SUFFICES ASSUME ~\E x \in S : \A y \in S : y <= x PROVE FALSE
  OBVIOUS
<1> DEFINE bad == {T \in SUBSET S : T # {} /\ ~\E x \in T : \A y \in T : y <= x}
<1>1. bad # {} /\ bad \subseteq FiniteSubsetsOf(S)
  <2>1. \A T \in SUBSET S : IsFiniteSet(T)
    BY FS_Subset
  <2>2. S \in bad
    OBVIOUS
  <2> QED BY <2>1, <2>2 DEF FiniteSubsetsOf
<1>2. IsWellFoundedOn(StrictSubsetOrdering(S), FiniteSubsetsOf(S))
  BY FS_StrictSubsetOrderingWellFounded
<1> HIDE DEF bad
<1>3. PICK T \in bad : \A U \in bad : ~(<<U, T>> \in StrictSubsetOrdering(S))
  BY <1>1, <1>2, WFMin
<1>4. T \in SUBSET S /\ T # {} /\ ~\E x \in T : \A y \in T : y <= x
  BY <1>3 DEF bad
<1>5. PICK x \in T : x \in Int
  BY <1>4
<1> DEFINE U == T \ {x}
<1>6. U \in SUBSET S /\ <<U, T>> \in StrictSubsetOrdering(S)
  BY <1>4, <1>5 DEF StrictSubsetOrdering
<1>7. U \notin bad
  BY <1>3, <1>6
<1>8. U = {} \/ \E z \in U : \A y \in U : y <= z
  BY <1>6, <1>7 DEF bad
<1>9. CASE U = {}
  <2>1. T = {x}
    BY <1>5, <1>9
  <2> QED BY <1>4, <1>5, <2>1
<1>10. ASSUME NEW z \in U, \A y \in U : y <= z PROVE FALSE
  <2>1. z \in Int /\ z \in T /\ \A y \in T : y = x \/ y <= z
    BY <1>4, <1>10
  <2>2. CASE x <= z
    BY <1>4, <1>5, <2>1, <2>2
  <2>3. CASE ~(x <= z)
    <3>1. \A y \in T : y \in Int
      BY <1>4
    <3>2. \A y \in T : y <= x
      BY <1>5, <2>1, <2>3, <3>1
    <3> QED BY <1>4, <1>5, <3>2
  <2> QED BY <2>2, <2>3
<1> QED BY <1>8, <1>9, <1>10

\* The cardinality of the unified state's module is the usual one.
LEMMA ScanCount == \A S : Scan!Cardinality(S) = Cardinality(S)
BY DEF Scan!Cardinality, Cardinality

LEMMA HighestIs ==
  ASSUME NEW S, IsFiniteSet(S), S \subseteq Nat
  PROVE  /\ Scan!Highest(S) \in Nat /\ \A y \in S : y <= Scan!Highest(S)
         /\ S # {} => Scan!Highest(S) \in S
         /\ S = {} => Scan!Highest(S) = 0
<1>1. CASE S = {}
  BY <1>1 DEF Scan!Highest
<1>2. CASE S # {}
  <2>1. \E x \in S : \A y \in S : y <= x
    <3>1. \A x \in S : x \in Int
      OBVIOUS
    <3> QED BY <1>2, <3>1, HasGreatest
  <2>2. Scan!Highest(S) = CHOOSE x \in S : \A y \in S : y <= x
    BY <1>2 DEF Scan!Highest
  <2>3. Scan!Highest(S) \in S /\ \A y \in S : y <= Scan!Highest(S)
    BY <2>1, <2>2
  <2> QED BY <1>2, <2>3
<1> QED BY <1>1, <1>2

LEMMA LowestIs ==
  ASSUME NEW S, S \subseteq Nat
  PROVE  /\ S # {} => Scan!Lowest(S) \in S /\ \A y \in S : Scan!Lowest(S) <= y
         /\ S = {} => Scan!Lowest(S) = 0
<1>1. CASE S = {}
  BY <1>1 DEF Scan!Lowest
<1>2. CASE S # {}
  <2>1. \E x \in S : \A y \in S : x <= y
    BY <1>2, LeastExists
  <2>2. Scan!Lowest(S) = CHOOSE x \in S : \A y \in S : x <= y
    BY <1>2 DEF Scan!Lowest
  <2> QED BY <1>2, <2>1, <2>2
<1> QED BY <1>1, <1>2

---------------------------------------------------------------------------
VenueFields == {"bid", "ask", "book", "funding", "health", "old"}
FundingRecord(f) == f.rate \in Int /\ f.hours \in Nat \ {0}
VenueRecord(s) ==
  /\ DOMAIN s = VenueFields /\ s.bid \in Nat /\ s.ask \in Nat
  /\ s.book \in Books \cup {Scan!NoBook} /\ FundingRecord(s.funding)
InstFields == {"bid", "ask", "spread", "bids", "funding", "healthy", "stale", "merged"}

\* The state of the venues, of the instrument and of the updaters.
Markets ==
  /\ DOMAIN venue = Venues /\ \A v \in Venues : VenueRecord(venue[v])
  /\ DOMAIN inst = InstFields /\ inst.merged \subseteq Venues
  /\ DOMAIN updating = Updaters /\ \A u \in Updaters : updating[u] \in Venues \cup {0}
  /\ moved \in BOOLEAN

\* The best prices of the instrument are those of the healthy venues it has merged.
Shows(is, ven) ==
  LET good == Scan!Healthy(ven, is.merged)
  IN  /\ is.bid # 0 => \E v \in good : ven[v].bid = is.bid
      /\ is.ask # 0 => \E v \in good : ven[v].ask = is.ask
      /\ \A v \in good : /\ ven[v].bid <= is.bid
                         /\ ven[v].ask # 0 => is.ask # 0 /\ is.ask <= ven[v].ask
      /\ is.healthy = Scan!Cardinality(good)
BestShown == (\A u \in Updaters : updating[u] = 0) /\ ~moved => Shows(inst, venue)
UInv == Markets /\ BestShown

LEMMA MergeShows ==
  ASSUME Markets, NEW v \in Venues
  PROVE  LET is == Scan!MergeVenueState(inst, venue, v) IN
         DOMAIN is = InstFields /\ is.merged \subseteq Venues /\ Shows(is, venue)
<1> DEFINE all == inst.merged \cup {v}
           good == Scan!Healthy(venue, all)
           bids == {venue[w].bid : w \in good} \ {0}
           asks == {venue[w].ask : w \in good} \ {0}
           seen == [inst EXCEPT !.merged = @ \cup {v}]
           priced == Scan!RecalculateBestBidAsk(seen, venue)
           funded == Scan!RecalculateFunding(priced, venue)
           deep == Scan!RecalculateDepth(funded, venue)
           is == Scan!RecalculateHealth(deep, venue)
<1>1. DOMAIN seen = InstFields /\ seen.merged = all
  BY DEF Markets, InstFields
<1>2. good \subseteq Venues /\ all \subseteq Venues
  BY DEF Markets, Scan!Healthy
<1>3. DOMAIN priced = InstFields /\ priced.merged = all /\ priced.bid = Scan!Highest(bids) /\ priced.ask = Scan!Lowest(asks)
  <2> HIDE DEF seen
  <2>1. Scan!Healthy(venue, seen.merged) = good
    BY <1>1
  <2> HIDE DEF good
  <2>2. priced = [seen EXCEPT !.bid = Scan!Highest(bids), !.ask = Scan!Lowest(asks),
                    !.spread = IF Scan!Highest(bids) # 0 /\ Scan!Lowest(asks) # 0
                               THEN Scan!Lowest(asks) - Scan!Highest(bids) ELSE @]
    BY <2>1 DEF Scan!RecalculateBestBidAsk
  <2> HIDE DEF bids, asks, priced
  <2> QED BY <1>1, <2>2 DEF InstFields
<1> HIDE DEF seen, priced, all
<1>4. /\ DOMAIN funded = InstFields /\ funded.merged = all
      /\ funded.bid = priced.bid /\ funded.ask = priced.ask
  BY <1>3 DEF InstFields, Scan!RecalculateFunding
<1> HIDE DEF funded
<1>5. /\ DOMAIN deep = InstFields /\ deep.merged = all
      /\ deep.bid = priced.bid /\ deep.ask = priced.ask
  BY <1>4 DEF InstFields, Scan!RecalculateDepth
<1> HIDE DEF deep
<1>6. /\ DOMAIN is = InstFields /\ is.merged = all /\ is.bid = Scan!Highest(bids) /\ is.ask = Scan!Lowest(asks)
      /\ is.healthy = Scan!Cardinality(good)
  <2> HIDE DEF bids, asks
  <2>1. is = [deep EXCEPT !.healthy = Scan!Cardinality(good), !.stale = Scan!Cardinality(good) = 0]
    BY <1>5 DEF Scan!RecalculateHealth
  <2> HIDE DEF is
  <2> QED BY <1>3, <1>5, <2>1 DEF InstFields
<1>7. is = Scan!MergeVenueState(inst, venue, v)
  BY DEF Scan!MergeVenueState, seen, priced, funded, deep
<1> HIDE DEF is
<1>8. bids \subseteq Nat /\ asks \subseteq Nat
  BY <1>2 DEF Markets, VenueRecord
<1>9. IsFiniteSet(bids)
  <2> DEFINE bid == [w \in good |-> venue[w].bid]
             raw == {venue[w].bid : w \in good}
  <2>1. IsFiniteSet(good)
    BY <1>2, VenueAssumption, FS_Subset
  <2>2. bid \in Surjection(good, raw)
    BY DEF Surjection
  <2> HIDE DEF bid, good
  <2>3. IsFiniteSet(raw)
    BY <2>1, <2>2, FS_Surjection
  <2> QED BY <2>3, FS_Subset
<1>10. \A w \in good : venue[w].bid \in Nat /\ venue[w].ask \in Nat
  BY <1>2 DEF Markets, VenueRecord
<1>11. is.bid # 0 => \E w \in good : venue[w].bid = is.bid
  <2>1. is.bid # 0 => is.bid \in bids
    BY <1>6, <1>8, <1>9, HighestIs
  <2> QED BY <2>1
<1>12. is.ask # 0 => \E w \in good : venue[w].ask = is.ask
  <2>1. is.ask # 0 => is.ask \in asks
    BY <1>6, <1>8, LowestIs
  <2> QED BY <2>1
<1>13. ASSUME NEW w \in good PROVE venue[w].bid <= is.bid
  <2>1. is.bid \in Nat /\ \A y \in bids : y <= is.bid
    <3> HIDE DEF bids
    <3> QED BY <1>6, <1>8, <1>9, HighestIs
  <2>2. venue[w].bid = 0 \/ venue[w].bid \in bids
    OBVIOUS
  <2> QED BY <1>10, <2>1, <2>2
<1>14. ASSUME NEW w \in good, venue[w].ask # 0 PROVE is.ask # 0 /\ is.ask <= venue[w].ask
  <2>1. venue[w].ask \in asks
    BY <1>14
  <2>2. is.ask \in asks /\ \A y \in asks : is.ask <= y
    BY <1>6, <1>8, <2>1, LowestIs
  <2> QED BY <2>1, <2>2
<1>15. Scan!Healthy(venue, is.merged) = good
  BY <1>6
<1> HIDE DEF good
<1>16. Shows(is, venue)
  BY <1>6, <1>11, <1>12, <1>13, <1>14, <1>15 DEF Shows
<1> QED BY <1>2, <1>6, <1>7, <1>16

\* An update is one of these four; it is merged later.
LEMMA ApplyStep ==
  ASSUME UInv, NEW u \in Updaters, NEW v \in Venues, NEW state, VenueRecord(state), Scan!Apply(u, v, state)
  PROVE  UInv'
<1>1. /\ venue' = [venue EXCEPT ![v] = state] /\ updating' = [updating EXCEPT ![u] = v]
      /\ inst' = inst /\ moved' = moved
  BY DEF Scan!Apply
<1>2. updating'[u] = v /\ v # 0
  BY <1>1, VenueAssumption DEF UInv, Markets
<1>3. Markets'
  BY <1>1 DEF UInv, Markets, VenueRecord, FundingRecord
<1> QED BY <1>2, <1>3 DEF UInv, BestShown

LEMMA UpdateStep ==
  ASSUME UInv, NEW u \in Updaters,
         Scan!UpdateTicker(u) \/ Scan!UpdateOrderBook(u) \/ Scan!UpdateFunding(u) \/ Scan!UpdateHealth(u)
  PROVE  UInv'
<1>1. CASE Scan!UpdateTicker(u)
  <2>1. PICK v \in Venues, q \in Quotes : Scan!Apply(u, v, [venue[v] EXCEPT !.bid = q[1], !.ask = q[2], !.old = FALSE])
    BY <1>1 DEF Scan!UpdateTicker
  <2>2. VenueRecord([venue[v] EXCEPT !.bid = q[1], !.ask = q[2], !.old = FALSE])
    <3>1. q[1] \in Nat /\ q[2] \in Nat
      BY PriceAssumption
    <3> QED BY <3>1 DEF UInv, Markets, VenueRecord, VenueFields
  <2> QED BY <2>1, <2>2, ApplyStep
<1>2. CASE Scan!UpdateOrderBook(u)
  <2>1. PICK v \in Venues, q \in Quotes, book \in Books :
          Scan!Apply(u, v, [venue[v] EXCEPT !.book = book, !.old = FALSE,
                              !.bid = IF q[1] = 0 THEN @ ELSE q[1], !.ask = IF q[2] = 0 THEN @ ELSE q[2]])
    BY <1>2 DEF Scan!UpdateOrderBook
  <2>2. VenueRecord([venue[v] EXCEPT !.book = book, !.old = FALSE,
                       !.bid = IF q[1] = 0 THEN @ ELSE q[1], !.ask = IF q[2] = 0 THEN @ ELSE q[2]])
    <3>1. q[1] \in Nat /\ q[2] \in Nat
      BY PriceAssumption
    <3> QED BY <3>1 DEF UInv, Markets, VenueRecord, VenueFields
  <2> QED BY <2>1, <2>2, ApplyStep
<1>3. CASE Scan!UpdateFunding(u)
  <2>1. PICK v \in Venues, f \in Fundings :
          Scan!Apply(u, v, [venue[v] EXCEPT !.old = FALSE,
                              !.funding = [has |-> TRUE, rate |-> f.rate, hours |-> f.hours, at |-> updates + 1]])
    BY <1>3 DEF Scan!UpdateFunding
  <2> DEFINE shown == [has |-> TRUE, rate |-> f.rate, hours |-> f.hours, at |-> updates + 1]
  <2>2. FundingRecord(shown)
    BY PriceAssumption DEF FundingRecord
  <2> HIDE DEF shown
  <2>3. VenueRecord([venue[v] EXCEPT !.old = FALSE, !.funding = shown])
    BY <2>2 DEF UInv, Markets, VenueRecord, VenueFields
  <2> QED BY <2>1, <2>3, ApplyStep DEF shown
<1>4. CASE Scan!UpdateHealth(u)
  <2>1. PICK v \in Venues, h \in {"HEALTHY", "UNHEALTHY"} : Scan!Apply(u, v, [venue[v] EXCEPT !.health = h])
    BY <1>4 DEF Scan!UpdateHealth
  <2>2. VenueRecord([venue[v] EXCEPT !.health = h])
    BY DEF UInv, Markets, VenueRecord, VenueFields
  <2> QED BY <2>1, <2>2, ApplyStep
<1> QED BY <1>1, <1>2, <1>3, <1>4

LEMMA MarketMergeStep == ASSUME UInv, NEW u \in Updaters, Scan!Merge(u) PROVE UInv'
<1>1. /\ updating[u] # 0 /\ updating' = [updating EXCEPT ![u] = 0] /\ venue' = venue /\ moved' = FALSE
      /\ inst' = Scan!MergeVenueState(inst, venue, updating[u])
  BY DEF Scan!Merge
<1>2. DOMAIN inst' = InstFields /\ inst'.merged \subseteq Venues /\ Shows(inst', venue)
  BY <1>1, MergeShows DEF UInv, Markets
<1> QED BY <1>1, <1>2 DEF UInv, Markets, VenueRecord, FundingRecord, BestShown, Shows

\* A venue that falls silent shows what it showed until the sweep.
LEMMA AgeStep == ASSUME UInv, Scan!Age PROVE UInv'
<1>1. PICK v \in Venues : venue' = [venue EXCEPT ![v].old = TRUE] /\ UNCHANGED <<inst, updating, moved>>
  BY DEF Scan!Age
<1>2. /\ DOMAIN venue' = Venues
      /\ \A w \in Venues : /\ DOMAIN venue'[w] = DOMAIN venue[w] /\ venue'[w].health = venue[w].health
                           /\ venue'[w].bid = venue[w].bid /\ venue'[w].ask = venue[w].ask
                           /\ venue'[w].book = venue[w].book /\ venue'[w].funding = venue[w].funding
  BY <1>1 DEF UInv, Markets, VenueRecord, VenueFields
<1>3. Markets'
  BY <1>1, <1>2 DEF UInv, Markets, VenueRecord, FundingRecord
<1>4. PICK good : good = Scan!Healthy(venue, inst.merged) /\ good \subseteq Venues
  BY DEF UInv, Markets, Scan!Healthy
<1>5. Scan!Healthy(venue', inst.merged) = good
  BY <1>2, <1>4 DEF UInv, Markets, Scan!Healthy
<1>6. Shows(inst, venue) => Shows(inst, venue')
  BY <1>2, <1>4, <1>5 DEF Shows
<1> QED BY <1>1, <1>3, <1>6 DEF UInv, BestShown

\* The sweep changes healths, and says so.
LEMMA SweepStep == ASSUME UInv, Scan!ExcludeStaleVenues PROVE UInv'
<1>1. /\ venue' = [v \in Venues |-> Scan!Swept(venue[v])] /\ moved' = (moved \/ venue' # venue)
      /\ UNCHANGED <<inst, updating>>
  BY DEF Scan!ExcludeStaleVenues
<1>2. \A v \in Venues : VenueRecord(Scan!Swept(venue[v]))
  BY DEF UInv, Markets, VenueRecord, VenueFields, Scan!Swept
<1>3. Markets'
  <2>1. \A v \in Venues : VenueRecord(venue'[v])
    BY <1>1, <1>2
  <2> HIDE DEF VenueRecord
  <2> QED BY <1>1, <2>1 DEF UInv, Markets, VenueRecord, FundingRecord
<1>4. BestShown'
  BY <1>1 DEF UInv, BestShown, Shows
<1> QED BY <1>3, <1>4 DEF UInv

LEMMA MarketStep == ASSUME UInv, Scan!UnifiedNext PROVE UInv'
<1>1. ASSUME NEW s \in Subscribers, Scan!SubscribeWS(s) \/ Scan!HandleWSMessages(s) \/ Scan!Unsubscribe(s)
      PROVE  UInv'
  <2>1. UNCHANGED <<venue, inst, updating, moved>>
    BY <1>1 DEF Scan!SubscribeWS, Scan!HandleWSMessages, Scan!Unsubscribe
  <2> QED BY <2>1 DEF UInv, Markets, VenueRecord, FundingRecord, BestShown, Shows
<1> QED BY <1>1, UpdateStep, MarketMergeStep, AgeStep, SweepStep DEF Scan!UnifiedNext

---------------------------------------------------------------------------
Pays(a, b, buy, sell) ==
  (sell - buy) * 10000 >= buy * (FeeModels[a] + FeeModels[b] + Scan!MinNetEdgeBPS)
OppFields == {"type", "buy", "sell", "costs", "quality", "torn", "scan", "expired", "paying"}
ScanFields == {"op", "todo", "pair", "quote", "torn", "found", "count"}
PaysOff(o) ==
  /\ DOMAIN o = OppFields
  /\ ~o.torn => /\ o.buy.venue # o.sell.venue /\ o.paying
                /\ o.type = "PRICE" => Pays(o.buy.venue, o.sell.venue, o.buy.price, o.sell.price)
APair(p) == p[1] \in Venues /\ p[2] \in Venues /\ p[1] # p[2]

\* Between the two readings of a pair the prices that were read pay, and the
\* venues still show them unless the reading is torn.
Scanned ==
  /\ DOMAIN scan = ScanFields /\ \A p \in scan.todo : APair(p)
  /\ scan.op = "legs" =>
       /\ APair(scan.pair) /\ Pays(scan.pair[1], scan.pair[2], scan.quote[1], scan.quote[2])
       /\ ~scan.torn => venue[scan.pair[1]].ask = scan.quote[1] /\ venue[scan.pair[2]].bid = scan.quote[2]
  /\ \A o \in scan.found : PaysOff(o)
  /\ \A o \in results : PaysOff(o)
MInv == UInv /\ Scanned

\* An edge that is left after the costs is left after the fees: the slippage is no gain.
LEMMA EdgeCovers ==
  ASSUME NEW x \in Int, NEW y \in Nat, y > 0, NEW k \in Nat, x \div y >= k
  PROVE  x >= y * k
<1>1. x = y * (x \div y) + (x % y) /\ x % y >= 0 /\ x \div y \in Int /\ x % y \in Int
  OBVIOUS
<1>2. PICK q \in Int : q = x \div y
  BY <1>1
<1>3. y * q >= y * k
  BY <1>2
<1> QED BY <1>1, <1>2, <1>3

LEMMA SlippageIsNat == ASSUME UInv, NEW v \in Venues PROVE Scan!EstimateSlippageSingle(venue[v]) \in Nat
<1> DEFINE depth == Scan!Quantity(venue[v].book.bids) + Scan!Quantity(venue[v].book.asks)
<1>1. depth \in Nat
  BY PriceAssumption DEF UInv, Markets, VenueRecord
<1> HIDE DEF depth
<1>2. Scan!EstimateSlippageSingle(venue[v]) = IF depth < 1 THEN 5 ELSE (5 * 1) \div depth
  BY DEF Scan!EstimateSlippageSingle, depth, Scan!DepthThreshold, Scan!MaxSlippageBPS
<1>3. depth >= 1 => 5 \div depth \in Nat
  BY <1>1
<1> QED BY <1>1, <1>2, <1>3

LEMMA CostsCoverFees ==
  ASSUME UInv, NEW a \in Venues, NEW b \in Venues
  PROVE  Scan!Costs(a, b) \in Nat /\ Scan!Costs(a, b) >= FeeModels[a] + FeeModels[b]
<1> DEFINE two == {Scan!EstimateSlippageSingle(venue[a]), Scan!EstimateSlippageSingle(venue[b])}
<1>1. two \subseteq Nat /\ two # {}
  BY SlippageIsNat
<1>2. IsFiniteSet(two)
  <2>1. /\ IsFiniteSet({Scan!EstimateSlippageSingle(venue[a])}) /\ IsFiniteSet({Scan!EstimateSlippageSingle(venue[b])})
    BY FS_Singleton
  <2>2. two = {Scan!EstimateSlippageSingle(venue[a])} \cup {Scan!EstimateSlippageSingle(venue[b])}
    OBVIOUS
  <2> QED BY <2>1, <2>2, FS_Union
<1> HIDE DEF two
<1>3. Scan!Highest(two) \in Nat
  BY <1>1, <1>2, HighestIs
<1>4. Scan!EstimateSlippage(a, b) \in Nat
  BY <1>3 DEF Scan!EstimateSlippage, two
<1>5. FeeModels[a] \in Nat /\ FeeModels[b] \in Nat
  BY PriceAssumption
<1> QED BY <1>4, <1>5 DEF Scan!Costs

LEMMA ArbPays ==
  ASSUME UInv, NEW a \in Venues, NEW b \in Venues, NEW buy \in Nat, NEW sell \in Nat,
         Scan!CalculatePriceArb(a, b, buy, sell)
  PROVE  Pays(a, b, buy, sell)
<1>1. /\ buy > 0 /\ Scan!NetEdge(buy, sell, Scan!Costs(a, b)) \div buy >= 5
  BY DEF Scan!CalculatePriceArb, Scan!MinNetEdgeBPS
<1>2. PICK costs \in Nat : costs = Scan!Costs(a, b) /\ costs >= FeeModels[a] + FeeModels[b]
  BY CostsCoverFees
<1>3. PICK fees \in Nat : fees = FeeModels[a] + FeeModels[b]
  BY PriceAssumption
<1>4. Scan!NetEdge(buy, sell, costs) = (sell - buy) * 10000 - buy * costs
  BY DEF Scan!NetEdge
<1>5. (sell - buy) * 10000 \in Int /\ buy * costs \in Int /\ (sell - buy) * 10000 - buy * costs \in Int
  OBVIOUS
<1>6. (sell - buy) * 10000 - buy * costs >= buy * 5
  BY <1>1, <1>2, <1>4, <1>5, EdgeCovers
<1>7. buy * costs >= buy * fees /\ buy * fees \in Int /\ buy * 5 \in Int
  BY <1>2, <1>3
<1>8. buy * (fees + 5) = buy * fees + buy * 5
  OBVIOUS
<1>9. (sell - buy) * 10000 >= buy * (fees + 5)
  BY <1>5, <1>6, <1>7, <1>8
<1> QED BY <1>3, <1>9 DEF Pays, Scan!MinNetEdgeBPS

\* A funding arbitrage is short where the hour pays more.
LEMMA FundingPays ==
  ASSUME UInv, NEW a \in Venues, NEW b \in Venues, a # b, Scan!CalculateFundingArb(a, b)
  PROVE  PaysOff(Scan!FundingOpportunity(a, b))
<1>1. PICK ha \in Int : ha = Scan!Hourly(venue[a].funding)
  BY DEF UInv, Markets, VenueRecord, FundingRecord, Scan!Hourly
<1>2. PICK hb \in Int : hb = Scan!Hourly(venue[b].funding)
  BY DEF UInv, Markets, VenueRecord, FundingRecord, Scan!Hourly
<1>3. Scan!Abs(ha - hb) \div 8 >= 10
  BY <1>1, <1>2 DEF Scan!CalculateFundingArb, Scan!MinGrossEdgeBPS
<1>4. ha # hb
  BY <1>3 DEF Scan!Abs
<1> DEFINE long == Scan!LongVenue(a, b)
           short == IF long = a THEN b ELSE a
           paid == Scan!Opportunity("FUNDING", Scan!Leg(long, venue[a].ask), Scan!Leg(short, venue[b].bid),
                                    Scan!Costs(a, b), Scan!AssessMarketQuality(a, b))
           o == Scan!FundingOpportunity(a, b)
<1>5. long # short /\ Scan!Hourly(venue[short].funding) > Scan!Hourly(venue[long].funding)
  BY <1>1, <1>2, <1>4 DEF Scan!LongVenue
<1>6. o = [paid EXCEPT !.paying = Scan!Hourly(venue[short].funding) > Scan!Hourly(venue[long].funding)]
  BY DEF Scan!FundingOpportunity
<1>7. DOMAIN paid = OppFields /\ paid.type = "FUNDING" /\ paid.buy.venue = long /\ paid.sell.venue = short
  <2> HIDE DEF long, short
  <2> QED BY DEF Scan!Opportunity, OppFields, Scan!Leg
<1> HIDE DEF paid, o, long, short
<1>8. /\ DOMAIN o = OppFields /\ o.type = "FUNDING" /\ o.buy.venue = long /\ o.sell.venue = short
      /\ o.paying = (Scan!Hourly(venue[short].funding) > Scan!Hourly(venue[long].funding))
  BY <1>6, <1>7 DEF OppFields
<1>9. PaysOff(o)
  BY <1>5, <1>8 DEF PaysOff
<1> QED BY <1>9 DEF o

LEMMA ScannerStarts == Scan!ScannerInit => MInv
<1> SUFFICES ASSUME Scan!ScannerInit PROVE MInv
  OBVIOUS
<1>1. /\ venue = [v \in Venues |-> Scan!VenueMarketState] /\ inst = Scan!InstrumentState
      /\ updating = [u \in Updaters |-> 0] /\ moved = FALSE /\ results = {} /\ scan = Scan!NoScan
  BY DEF Scan!ScannerInit, Scan!Init
<1>2. FundingRecord(Scan!NoFunding)
  BY DEF FundingRecord, Scan!NoFunding
<1>3. VenueRecord(Scan!VenueMarketState)
  BY <1>2 DEF VenueRecord, VenueFields, Scan!VenueMarketState
<1>4. DOMAIN inst = InstFields /\ inst.merged = {} /\ inst.bid = 0 /\ inst.ask = 0 /\ inst.healthy = 0
  BY <1>1 DEF Scan!InstrumentState, InstFields
<1>5. Markets
  BY <1>1, <1>3, <1>4 DEF Markets
<1>6. Scan!Healthy(venue, inst.merged) = {} /\ Scan!Cardinality({}) = 0
  <2>1. Scan!Cardinality({}) = 0
    BY FS_EmptySet, ScanCount
  <2> QED BY <1>4, <2>1 DEF Scan!Healthy
<1>7. BestShown
  BY <1>4, <1>6 DEF BestShown, Shows
<1>8. DOMAIN scan = ScanFields /\ scan.todo = {} /\ scan.op = "idle" /\ scan.found = {}
  BY <1>1 DEF Scan!NoScan, ScanFields
<1>9. Scanned
  BY <1>1, <1>8 DEF Scanned
<1> QED BY <1>5, <1>7, <1>9 DEF MInv, UInv

\* The market moves under the scan, and tears a reading it disturbs.
LEMMA TearStep == ASSUME MInv, Scan!UnifiedNext, Scan!Tear, results' = results PROVE MInv'
<1>1. UInv'
  BY MarketStep DEF MInv
<1> DEFINE torn == scan.torn \/ (scan.op = "legs" /\ \E v \in {scan.pair[1], scan.pair[2]} : venue'[v] # venue[v])
<1>2. scan' = [scan EXCEPT !.torn = torn]
  BY DEF Scan!Tear
<1>3. /\ DOMAIN scan' = ScanFields /\ scan'.todo = scan.todo /\ scan'.op = scan.op /\ scan'.pair = scan.pair
      /\ scan'.quote = scan.quote /\ scan'.found = scan.found /\ scan'.torn = torn
  <2> HIDE DEF torn
  <2> QED BY <1>2 DEF MInv, Scanned, ScanFields
<1>4. scan.op = "legs" /\ ~scan'.torn =>
        ~scan.torn /\ venue'[scan.pair[1]] = venue[scan.pair[1]] /\ venue'[scan.pair[2]] = venue[scan.pair[2]]
  BY <1>3
<1>5. Scanned'
  BY <1>3, <1>4 DEF MInv, Scanned, PaysOff, APair, Pays
<1> QED BY <1>1, <1>5 DEF MInv

\* The scan moves under a market that stands.
LEMMA ScanKeeps ==
  ASSUME MInv, UNCHANGED Scan!unifiedVars,
         DOMAIN scan' = ScanFields, \A p \in scan'.todo : APair(p),
         scan'.op = "legs" =>
           /\ APair(scan'.pair) /\ Pays(scan'.pair[1], scan'.pair[2], scan'.quote[1], scan'.quote[2])
           /\ ~scan'.torn => venue[scan'.pair[1]].ask = scan'.quote[1] /\ venue[scan'.pair[2]].bid = scan'.quote[2],
         \A o \in scan'.found : PaysOff(o), \A o \in results' : PaysOff(o)
  PROVE  MInv'
<1>1. UNCHANGED <<venue, inst, updating, moved>>
  BY DEF Scan!unifiedVars
<1>2. UInv'
  BY <1>1 DEF MInv, UInv, Markets, VenueRecord, FundingRecord, BestShown, Shows
<1>3. Scanned'
  BY <1>1 DEF Scanned, APair, Pays, PaysOff
<1> QED BY <1>2, <1>3 DEF MInv

LEMMA ScanNowStep == ASSUME MInv, Scan!ScanNow, UNCHANGED Scan!unifiedVars PROVE MInv'
<1> DEFINE todo == IF inst.stale \/ inst.healthy = 0 THEN {} ELSE Scan!GetVenuePairs
<1>1. results' = results /\ scan' = [scan EXCEPT !.op = "prices", !.found = {}, !.todo = todo]
  BY DEF Scan!ScanNow
<1>2. \A p \in todo : APair(p)
  BY DEF MInv, UInv, Markets, Scan!GetVenuePairs, APair
<1> HIDE DEF todo
<1>3. DOMAIN scan' = ScanFields /\ scan'.op = "prices" /\ scan'.found = {} /\ scan'.todo = todo
  BY <1>1 DEF MInv, Scanned, ScanFields
<1> QED BY <1>1, <1>2, <1>3, ScanKeeps DEF MInv, Scanned

LEMMA ReadPricesStep == ASSUME MInv, Scan!ReadPrices, UNCHANGED Scan!unifiedVars PROVE MInv'
<1>1. PICK p \in scan.todo :
        LET rest == [scan EXCEPT !.todo = @ \ {p}] IN
        scan' = IF Scan!CalculatePriceArb(p[1], p[2], venue[p[1]].ask, venue[p[2]].bid)
                THEN [rest EXCEPT !.op = "legs", !.pair = p,
                                  !.quote = <<venue[p[1]].ask, venue[p[2]].bid, Scan!Costs(p[1], p[2])>>, !.torn = FALSE]
                ELSE rest
  BY DEF Scan!ReadPrices
<1> DEFINE rest == [scan EXCEPT !.todo = @ \ {p}]
           buy == venue[p[1]].ask
           sell == venue[p[2]].bid
<1>2. scan.op = "prices" /\ results' = results
  BY DEF Scan!ReadPrices
<1>3. APair(p) /\ \A q \in scan.todo \ {p} : APair(q)
  BY <1>1 DEF MInv, Scanned
<1>4. /\ DOMAIN rest = ScanFields /\ rest.todo = scan.todo \ {p} /\ rest.op = "prices" /\ rest.found = scan.found
  BY <1>2 DEF MInv, Scanned, ScanFields
<1>5. CASE Scan!CalculatePriceArb(p[1], p[2], buy, sell)
  <2>1. Pays(p[1], p[2], buy, sell)
    <3>1. buy \in Nat /\ sell \in Nat
      BY <1>3 DEF MInv, UInv, Markets, VenueRecord, APair
    <3> HIDE DEF buy, sell
    <3> QED BY <1>3, <1>5, <3>1, ArbPays DEF MInv, APair
  <2> DEFINE quote == <<buy, sell, Scan!Costs(p[1], p[2])>>
  <2>2. scan' = [rest EXCEPT !.op = "legs", !.pair = p, !.quote = quote, !.torn = FALSE]
    BY <1>1, <1>5
  <2>3. quote[1] = buy /\ quote[2] = sell
    OBVIOUS
  <2> HIDE DEF rest, quote
  <2>4. /\ DOMAIN scan' = ScanFields /\ scan'.todo = scan.todo \ {p} /\ scan'.op = "legs" /\ scan'.found = scan.found
        /\ scan'.pair = p /\ scan'.quote = quote
    BY <1>4, <2>2 DEF ScanFields
  <2>5. \A o \in scan'.found : PaysOff(o)
    BY <2>4 DEF MInv, Scanned
  <2>6. \A o \in results' : PaysOff(o)
    BY <1>2 DEF MInv, Scanned
  <2> QED BY <1>3, <2>1, <2>3, <2>4, <2>5, <2>6, ScanKeeps
<1>6. CASE ~Scan!CalculatePriceArb(p[1], p[2], buy, sell)
  <2>1. scan' = rest
    BY <1>1, <1>6
  <2> HIDE DEF rest
  <2> QED BY <1>2, <1>3, <1>4, <2>1, ScanKeeps DEF MInv, Scanned
<1> QED BY <1>5, <1>6

LEMMA OpportunityIs ==
  ASSUME NEW type, NEW buyLeg, NEW sellLeg, NEW costs, NEW quality
  PROVE  LET o == Scan!Opportunity(type, buyLeg, sellLeg, costs, quality) IN
         /\ DOMAIN o = OppFields /\ o.type = type /\ o.buy = buyLeg /\ o.sell = sellLeg
         /\ o.torn = scan.torn /\ o.paying = TRUE
BY DEF Scan!Opportunity, OppFields

LEMMA ReadLegsStep == ASSUME MInv, Scan!ReadLegs, UNCHANGED Scan!unifiedVars PROVE MInv'
<1> DEFINE a == scan.pair[1]
           b == scan.pair[2]
           quality == Scan!AssessMarketQuality(a, b)
           o == Scan!Opportunity("PRICE", Scan!Leg(a, venue[a].ask), Scan!Leg(b, venue[b].bid), scan.quote[3], quality)
<1>1. /\ scan.op = "legs" /\ results' = results
      /\ \/ scan' = Scan!NoScan
         \/ scan' = [scan EXCEPT !.op = "prices", !.found = @ \cup {o}]
  BY DEF Scan!ReadLegs
<1>2. CASE scan' = Scan!NoScan
  <2>1. DOMAIN scan' = ScanFields /\ scan'.op = "idle" /\ scan'.todo = {} /\ scan'.found = {}
    BY <1>2 DEF Scan!NoScan, ScanFields
  <2> QED BY <1>1, <2>1, ScanKeeps DEF MInv, Scanned
<1>3. CASE scan' = [scan EXCEPT !.op = "prices", !.found = @ \cup {o}]
  <2>1. PaysOff(o)
    <3>1. /\ DOMAIN o = OppFields /\ o.torn = scan.torn /\ o.paying
          /\ o.buy = Scan!Leg(a, venue[a].ask) /\ o.sell = Scan!Leg(b, venue[b].bid)
      <4> DEFINE bought == Scan!Leg(a, venue[a].ask)
                 sold == Scan!Leg(b, venue[b].bid)
                 costs == scan.quote[3]
      <4>1. o = Scan!Opportunity("PRICE", bought, sold, costs, quality)
        OBVIOUS
      <4> HIDE DEF a, b, quality, o, bought, sold, costs
      <4>2. /\ DOMAIN o = OppFields /\ o.buy = bought /\ o.sell = sold
            /\ o.torn = scan.torn /\ o.paying = TRUE
        BY <4>1 DEF Scan!Opportunity, OppFields
      <4> QED BY <4>2 DEF bought, sold
    <3> HIDE DEF o
    <3>2. o.buy.venue = a /\ o.sell.venue = b /\ o.buy.price = venue[a].ask /\ o.sell.price = venue[b].bid
      BY <3>1 DEF Scan!Leg
    <3>3. APair(scan.pair) /\ Pays(a, b, scan.quote[1], scan.quote[2])
      BY <1>1 DEF MInv, Scanned
    <3>4. ~scan.torn => venue[a].ask = scan.quote[1] /\ venue[b].bid = scan.quote[2]
      BY <1>1 DEF MInv, Scanned
    <3> QED BY <3>1, <3>2, <3>3, <3>4 DEF PaysOff, APair
  <2> HIDE DEF o
  <2>2. /\ DOMAIN scan' = ScanFields /\ scan'.op = "prices" /\ scan'.todo = scan.todo
        /\ scan'.found = scan.found \cup {o}
    BY <1>3 DEF MInv, Scanned, ScanFields
  <2> QED BY <1>1, <2>1, <2>2, ScanKeeps DEF MInv, Scanned
<1> QED BY <1>1, <1>2, <1>3

LEMMA CollectFundingStep == ASSUME MInv, Scan!CollectFunding, UNCHANGED Scan!unifiedVars PROVE MInv'
<1>1. PICK pairs \in Scan!OncePerPair(IF inst.stale \/ inst.healthy = 0 THEN {} ELSE Scan!GetFundingPairs) :
        scan' = [scan EXCEPT !.op = "funding", !.todo = pairs, !.torn = FALSE]
  BY DEF Scan!CollectFunding
<1>2. \A p \in pairs : APair(p)
  BY DEF MInv, UInv, Markets, Scan!OncePerPair, Scan!GetFundingPairs, APair
<1>3. /\ DOMAIN scan' = ScanFields /\ scan'.op = "funding" /\ scan'.todo = pairs /\ scan'.found = scan.found
      /\ results' = results
  BY <1>1 DEF MInv, Scanned, ScanFields, Scan!CollectFunding
<1> QED BY <1>2, <1>3, ScanKeeps DEF MInv, Scanned

LEMMA ReadFundingStep == ASSUME MInv, Scan!ReadFunding, UNCHANGED Scan!unifiedVars PROVE MInv'
<1>1. PICK p \in scan.todo :
        scan' = [scan EXCEPT !.todo = @ \ {p},
                   !.found = IF Scan!CalculateFundingArb(p[1], p[2]) THEN @ \cup {Scan!FundingOpportunity(p[1], p[2])} ELSE @]
  BY DEF Scan!ReadFunding
<1> DEFINE found == IF Scan!CalculateFundingArb(p[1], p[2]) THEN scan.found \cup {Scan!FundingOpportunity(p[1], p[2])}
                    ELSE scan.found
<1>2. APair(p) /\ \A o \in scan.found : PaysOff(o)
  BY DEF MInv, Scanned
<1>3. \A o \in found : PaysOff(o)
  BY <1>2, FundingPays DEF MInv, APair
<1>4. scan' = [scan EXCEPT !.todo = @ \ {p}, !.found = found]
  BY <1>1
<1> HIDE DEF found
<1>5. /\ DOMAIN scan' = ScanFields /\ scan'.op = scan.op /\ scan'.todo = scan.todo \ {p} /\ scan'.found = found
      /\ scan.op = "funding" /\ results' = results
  BY <1>4 DEF MInv, Scanned, ScanFields, Scan!ReadFunding
<1> QED BY <1>3, <1>5, ScanKeeps DEF MInv, Scanned

LEMMA ScanEndsStep == ASSUME MInv, Scan!ScanEnds, UNCHANGED Scan!unifiedVars PROVE MInv'
<1>1. /\ results' = Scan!ExpireOldOpportunities \cup scan.found \cup Scan!BasisOpportunities
      /\ scan' = [Scan!NoScan EXCEPT !.count = scan.count + 1]
  BY DEF Scan!ScanEnds
<1>2. Scan!BasisOpportunities = {}
  BY DEF Scan!BasisOpportunities, Scan!CalculateBasisArb, Scan!MarkPrice
<1>3. \A o \in results' : PaysOff(o)
  BY <1>1, <1>2 DEF MInv, Scanned, Scan!ExpireOldOpportunities
<1>4. DOMAIN scan' = ScanFields /\ scan'.op = "idle" /\ scan'.todo = {} /\ scan'.found = {}
  BY <1>1 DEF Scan!NoScan, ScanFields
<1> QED BY <1>3, <1>4, ScanKeeps

LEMMA ServedStep ==
  ASSUME MInv, Scan!Expire \/ Scan!RemoveOpportunity, UNCHANGED Scan!unifiedVars
  PROVE  MInv'
<1>1. scan' = scan
  BY DEF Scan!Expire, Scan!RemoveOpportunity
<1>2. \A o \in results' : PaysOff(o)
  <2>1. CASE Scan!RemoveOpportunity
    BY <2>1 DEF Scan!RemoveOpportunity, MInv, Scanned
  <2>2. CASE Scan!Expire
    <3>1. PICK o \in results : results' = (results \ {o}) \cup {[o EXCEPT !.expired = TRUE]}
      BY <2>2 DEF Scan!Expire
    <3>2. PaysOff(o)
      BY DEF MInv, Scanned
    <3> DEFINE late == [o EXCEPT !.expired = TRUE]
    <3>3. /\ DOMAIN late = OppFields /\ late.torn = o.torn /\ late.paying = o.paying /\ late.buy = o.buy
          /\ late.sell = o.sell /\ late.type = o.type
      BY <3>2 DEF PaysOff, OppFields
    <3> HIDE DEF late
    <3>4. PaysOff(late)
      BY <3>2, <3>3 DEF PaysOff
    <3> QED BY <3>1, <3>4 DEF MInv, Scanned, late
  <2> QED BY <2>1, <2>2
<1> QED BY <1>1, <1>2, ScanKeeps DEF MInv, Scanned

LEMMA ScannerStep == ASSUME MInv, [Scan!ScannerNext]_<<Scan!unifiedVars, Scan!scannerVars>> PROVE MInv'
<1>1. CASE UNCHANGED <<Scan!unifiedVars, Scan!scannerVars>>
  <2>1. scan' = scan /\ results' = results
    BY <1>1 DEF Scan!scannerVars
  <2> QED BY <1>1, <2>1, ScanKeeps DEF MInv, Scanned
<1>2. CASE Scan!ScannerNext
  BY <1>2, TearStep, ScanNowStep, ReadPricesStep, ReadLegsStep, CollectFundingStep, ReadFundingStep, ScanEndsStep,
     ServedStep DEF Scan!ScannerNext
<1> QED BY <1>1, <1>2

\* What the scanner serves pays, and the best price is a healthy venue's, for any
\* venues, prices, fees and numbers of updates and scans.
THEOREM ServedPays == Scan!ScannerSpec => []OpportunitiesPay
<1>1. MInv => OpportunitiesPay
  <2> SUFFICES ASSUME MInv PROVE OpportunitiesPay
    OBVIOUS
  <2>1. Scan!BestOfHealthy
    BY DEF MInv, UInv, BestShown, Shows, Scan!BestOfHealthy
  <2>2. \A o \in results : ~o.torn =>
          /\ o.buy.venue # o.sell.venue /\ o.paying
          /\ o.type = "PRICE" => Pays(o.buy.venue, o.sell.venue, o.buy.price, o.sell.price)
    BY DEF MInv, Scanned, PaysOff
  <2> QED BY <2>1, <2>2 DEF OpportunitiesPay, Scan!OpportunitiesPay, Pays
<1> QED BY <1>1, ScannerStarts, ScannerStep, PTL DEF Scan!ScannerSpec
=============================================================================

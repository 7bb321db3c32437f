------------------------------ MODULE Strategies ------------------------------
(***************************************************************************)
(* Strategy instances: a row with a status, and the engine's map of what   *)
(* was started.  A request reads the row, writes it and then tells the     *)
(* engine, in three steps other requests interleave with.                  *)
(***************************************************************************)
EXTENDS Api, Integers, FiniteSets, TLC

CONSTANTS
  Admins,       \* <<tenant, number>>
  Others,       \* callers whose token has another role
  StrategyIds, Titles,
  TypeCodes,    \* the rows of strategy_types
  Opportunities, \* what the scanner serves: [instrument, edge, confidence, status]
  MaxStrategyRequests \* bound

VARIABLES
  strategies,   \* strategy_instances by id
  instances,    \* engine.instances
  desk,         \* what each caller has in flight, and its last response
  decided,      \* the decisions the engine logged
  unsure,       \* ids of overlapped requests, of a PUT of a status, of a restart
  asked         \* requests so far

strategyVars == <<strategies, instances, desk, decided, unsure, asked>>

Callers == Admins \cup Others
Tenant(c) == c[1]
NoConfig == [set |-> FALSE, instruments |-> {}, minEdge |-> 0, minConfidence |-> 0]
\* The INSERT has no config column and the SELECT reads none.
Row(tenant, name) == [tenant |-> tenant, name |-> name, status |-> "DRAFT", config |-> NoConfig, deleted |-> FALSE]
AtDesk(op, id, row) == [op |-> op, id |-> id, row |-> row, reply |-> NoResponse]
NoRow == Row("", "")
Free(reply) == [AtDesk("idle", 0, NoRow) EXCEPT !.reply = reply]

Init ==
  /\ strategies = <<>> /\ instances = {} /\ decided = {} /\ unsure = {} /\ asked = 0
  /\ desk = [c \in Callers |-> Free(NoResponse)]

---------------------------------------------------------------------------
(* The repository.                                                         *)
Found(id) == id \in DOMAIN strategies /\ ~strategies[id].deleted
GetByID(id) == strategies[id]
NameTaken(tenant, name, but) ==
  \E id \in DOMAIN strategies \ {but} :
    Found(id) /\ strategies[id].tenant = tenant /\ strategies[id].name = name
GetStrategyTypeByCode(code) == code \in TypeCodes
InsertRow(id, row) == [i \in DOMAIN strategies \cup {id} |-> IF i = id THEN row ELSE strategies[i]]
\* No error when the row is gone: the UPDATE touches nothing.
UpdateRow(id, row) ==
  IF Found(id)
  THEN [strategies EXCEPT ![id].name = row.name, ![id].status = row.status]
  ELSE strategies
DeleteRow(id) == IF Found(id) THEN [strategies EXCEPT ![id].deleted = TRUE] ELSE strategies

---------------------------------------------------------------------------
(* The engine.                                                             *)
StartInstance(id) == instances \cup {id}
StopInstance(id) == instances \ {id}
MatchesStrategy(config, opp) ==
  ~config.set \/ config.instruments = {} \/ opp.instrument \in config.instruments
Accepts(config, opp) ==
  /\ config.set => opp.edge >= config.minEdge /\ opp.confidence >= config.minConfidence
  /\ opp.status = "DETECTED"
Decisions(id, config) ==
  {<<id, opp>> : opp \in {o \in Opportunities : MatchesStrategy(config, o) /\ Accepts(config, o)}}

---------------------------------------------------------------------------
Idle(c) == desk[c].op = "idle"
Busy(id) == {c \in Admins : ~Idle(c) /\ desk[c].id = id}
Ask(c) == Idle(c) /\ asked < MaxStrategyRequests /\ asked' = asked + 1
Answer(c, response) == desk' = [desk EXCEPT ![c] = Free(response)]
Overlap(id) == unsure' = unsure \cup {i \in {id} : Busy(id) # {}}
Begin(c, op, id, row) == desk' = [desk EXCEPT ![c] = AtDesk(op, id, row)] /\ Overlap(id)
Go(c, op) == desk' = [desk EXCEPT ![c].op = op]

\* RegisterRoutes: every route is behind the token's role.
Forbid(c) ==
  /\ Ask(c) /\ Answer(c, RespondError("FORBIDDEN"))
  /\ UNCHANGED <<strategies, instances, decided, unsure>>

List(c) ==
  /\ Ask(c) /\ Answer(c, RespondSuccess)
  /\ UNCHANGED <<strategies, instances, decided, unsure>>
ListDecisions(c) == List(c)
Get(c) ==
  /\ \E id \in StrategyIds : Ask(c) /\ Answer(c, Respond(IF Found(id) THEN OK ELSE "NOT_FOUND", RespondSuccess))
  /\ UNCHANGED <<strategies, instances, decided, unsure>>

Create(c) ==
  /\ Ask(c) /\ UNCHANGED <<instances, decided, unsure>>
  /\ \E name \in Titles, code \in TypeCodes \cup {"?"} :
       IF ~GetStrategyTypeByCode(code) \/ NameTaken(Tenant(c), name, 0)
       THEN Answer(c, RespondError("INTERNAL")) /\ UNCHANGED strategies
       ELSE /\ StrategyIds \ DOMAIN strategies # {}
            /\ Answer(c, RespondCreated)
            /\ strategies' = InsertRow(CHOOSE id \in StrategyIds \ DOMAIN strategies : TRUE,
                                      Row(Tenant(c), name))

(* PUT: reads the row, writes name and status back, never tells the engine. *)
Update(c) ==
  /\ Ask(c) /\ UNCHANGED <<strategies, instances, decided>>
  /\ \E id \in StrategyIds, name \in Titles \cup {""}, status \in {"", "RUNNING", "PAUSED"} :
       IF ~Found(id) THEN Answer(c, RespondError("INTERNAL")) /\ UNCHANGED unsure
       ELSE LET row == GetByID(id)
            IN  /\ desk' = [desk EXCEPT ![c] = AtDesk("update", id,
                     [row EXCEPT !.name = IF name = "" THEN @ ELSE name,
                                 !.status = IF status = "" THEN @ ELSE status])]
                /\ unsure' = unsure \cup {i \in {id} : status # "" \/ Busy(id) # {}}
UpdateWrite(c) ==
  /\ desk[c].op = "update" /\ UNCHANGED <<instances, decided, unsure, asked>>
  /\ IF NameTaken(desk[c].row.tenant, desk[c].row.name, desk[c].id)
     THEN Answer(c, RespondError("INTERNAL")) /\ UNCHANGED strategies
     ELSE strategies' = UpdateRow(desk[c].id, desk[c].row) /\ Answer(c, RespondSuccess)

DeleteLeavesEntry(id) == instances \* a mutant
(* DELETE stops the instance first; an execution of it refuses the row's    *)
(* deletion, and the instance stays stopped.                                *)
DeleteStop(id) == StopInstance(id)
Delete(c) ==
  \E id \in StrategyIds :
    /\ Ask(c) /\ Begin(c, "delete", id, NoRow) /\ instances' = DeleteStop(id)
    /\ UNCHANGED <<strategies, decided>>
DeleteWrite(c) ==
  /\ desk[c].op = "delete" /\ UNCHANGED <<instances, decided, asked>>
  /\ \/ strategies' = DeleteRow(desk[c].id) /\ Answer(c, RespondSuccess) /\ UNCHANGED unsure
     \/ /\ Answer(c, RespondError("INTERNAL")) /\ UNCHANGED strategies
        /\ unsure' = unsure \cup {desk[c].id}

(* start: the engine runs under the request's context, which ends with it.  *)
Start(c) ==
  /\ Ask(c) /\ UNCHANGED <<strategies, instances, decided>>
  /\ \E id \in StrategyIds :
       IF ~Found(id) \/ GetByID(id).status = "RUNNING"
       THEN Answer(c, RespondError("INTERNAL")) /\ UNCHANGED unsure
       ELSE Begin(c, "start", id, [GetByID(id) EXCEPT !.status = "RUNNING"])
StartWrite(c) ==
  /\ desk[c].op = "start" /\ UNCHANGED <<instances, decided, unsure, asked>>
  /\ strategies' = UpdateRow(desk[c].id, desk[c].row) /\ Go(c, "launch")
StartLaunch(c) ==
  /\ desk[c].op = "launch" /\ UNCHANGED <<strategies, decided, unsure, asked>>
  /\ instances' = StartInstance(desk[c].id) /\ Go(c, "running")
EvaluateOpportunities(c) ==
  /\ desk[c].op = "running" /\ desk[c].id \in instances
  /\ decided' = decided \cup Decisions(desk[c].id, desk[c].row.config)
  /\ UNCHANGED <<strategies, instances, desk, unsure, asked>>
StartEnds(c) ==
  /\ desk[c].op = "running" /\ UNCHANGED <<strategies, instances, decided, unsure, asked>>
  /\ Answer(c, RespondSuccess)

Stop(c) ==
  /\ Ask(c) /\ UNCHANGED <<strategies, instances, decided>>
  /\ \E id \in StrategyIds :
       IF ~Found(id) THEN Answer(c, RespondError("INTERNAL")) /\ UNCHANGED unsure
       ELSE Begin(c, "stop", id, [GetByID(id) EXCEPT !.status = "PAUSED"])
StopWrite(c) ==
  /\ desk[c].op = "stop" /\ UNCHANGED <<instances, decided, unsure, asked>>
  /\ strategies' = UpdateRow(desk[c].id, desk[c].row) /\ Go(c, "halt")
StopHalt(c) ==
  /\ desk[c].op = "halt" /\ UNCHANGED <<strategies, decided, unsure, asked>>
  /\ instances' = StopInstance(desk[c].id) /\ Answer(c, RespondSuccess)

\* The process ends and comes back: rows stay, NewEngine's map is empty.
NewEngine ==
  /\ \E c \in Callers : ~Idle(c)
  /\ instances' = {} /\ desk' = [c \in Callers |-> Free(NoResponse)]
  /\ unsure' = unsure \cup DOMAIN strategies /\ UNCHANGED <<strategies, decided, asked>>

Next ==
  \/ \E c \in Others : Forbid(c)
  \/ \E c \in Admins : List(c)
  \/ \E c \in Admins : ListDecisions(c)
  \/ \E c \in Admins : Get(c)
  \/ \E c \in Admins : Create(c)
  \/ \E c \in Admins : Update(c)
  \/ \E c \in Admins : UpdateWrite(c)
  \/ \E c \in Admins : Delete(c)
  \/ \E c \in Admins : DeleteWrite(c)
  \/ \E c \in Admins : Start(c)
  \/ \E c \in Admins : StartWrite(c)
  \/ \E c \in Admins : StartLaunch(c)
  \/ \E c \in Admins : EvaluateOpportunities(c)
  \/ \E c \in Admins : StartEnds(c)
  \/ \E c \in Admins : Stop(c)
  \/ \E c \in Admins : StopWrite(c)
  \/ \E c \in Admins : StopHalt(c)
  \/ NewEngine

Spec == Init /\ [][Next]_strategyVars

---------------------------------------------------------------------------
(* The engine holds an instance exactly when its row says RUNNING, once the  *)
(* requests on it are answered: unless two of them overlapped, a PUT set the *)
(* status, a deletion was refused after the stop, or the process restarted.  *)
EngineMatchesRows ==
  \A id \in StrategyIds \ unsure :
    Busy(id) = {} => (id \in instances <=> Found(id) /\ strategies[id].status = "RUNNING")
=============================================================================

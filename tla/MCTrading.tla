------------------------------ MODULE MCTrading ------------------------------
(* The trading desk: strategy instances, risk, executions, reconciliation    *)
(* and the scanner over the unified state.  No two of them share a table or  *)
(* a field, so each is checked from starting points of its own.              *)
EXTENDS Strategies, Sequences

CONSTANTS
  Traders, Intruders, PolicyIds, Labels, Notionals, MaxRiskRequests,        \* of RiskDesk
  Operators, Guests, ExecutionIds, Prefix, Intents, MaxExecutionRequests,   \* of Executions
  Auditors, Visitors, Workers, RunIds, Recorded, Reported, MaxRuns,         \* of Reconciliation
  Venues, Updaters, Subscribers, Quotes, Books, Fundings, SubscriberBuffer, MaxUpdates, FeeModels, MaxScans \* of Scanner

VARIABLES
  part,
  policies, loaded, killSwitch, floor, risks,
  executions, legs, orders, ticket, entered,
  runs, items, audit, work, again, calls,
  venue, inst, updating, moved, feed, updates, results, scan, down

MCAdmins == {<<"t", 1>>, <<"t", 2>>}
MCOthers == {<<"t", 3>>}
Opp(i, edge, status) == [instrument |-> i, edge |-> edge, confidence |-> 1, status |-> status]
MCOpportunities == {Opp("btc", 1, "DETECTED"), Opp("btc", 1, "EXPIRED")}

Risk == INSTANCE RiskDesk
Execution == INSTANCE Executions
Recon == INSTANCE Reconciliation

\* Ids 1 and 2 begin alike.
MCPrefix == <<"x", "x", "y">>
MCIntents == {<<>>, <<"a", "b">>, <<"a", "unknown">>}
Known == [has |-> TRUE, tag |-> 1, amounts |-> <<4, 0>>]
Near == [Known EXCEPT !.amounts = <<5, 0>>]
AtTick == [Known EXCEPT !.amounts = <<6, 0>>]
Missing == [has |-> FALSE, tag |-> 0, amounts |-> <<0, 0>>]
NoAnswer == [Missing EXCEPT !.tag = 9]
All(state) == [e \in {"MARGIN", "BALANCE", "POSITION", "ORDER", "FILL"} |-> state]
MCRecorded == {All(Known), All(Missing), [All(Known) EXCEPT !["FILL"] = Missing]}
MCReported == {All(Near), All(AtTick), All(Missing), [All(Known) EXCEPT !["MARGIN"] = NoAnswer]}

Quote(bid, ask) == <<bid, ask>>
Levels == [bids |-> {<<1000, 1>>, <<999, 1>>}, asks |-> {<<1001, 1>>, <<1002, 2>>}]
MCQuotes == {Quote(1000, 1001), Quote(1003, 1004), Quote(1030, 0)}
MCBooks == {Levels, [bids |-> {}, asks |-> {}]}
MCFundings == {[rate |-> 800, hours |-> 8], [rate |-> 8, hours |-> 1]}
MCFees == <<8, 8>>
Scan == INSTANCE Scanner

\* Prices, fees and quantities are naturals, a rate is of a number of hours, and
\* there are finitely many venues, none of them 0.
ASSUME VenueAssumption == IsFiniteSet(Venues) /\ 0 \notin Venues
ASSUME PriceAssumption ==
  /\ Quotes \subseteq Nat \X Nat /\ \A v \in Venues : FeeModels[v] \in Nat
  /\ \A f \in Fundings : f.rate \in Int /\ f.hours \in Nat \ {0}
  /\ \A b \in Books \cup {Scan!NoBook} : Scan!Quantity(b.bids) \in Nat /\ Scan!Quantity(b.asks) \in Nat

\* A running strategy and a paused one of another tenant.
StrategyInit ==
  /\ strategies = (1 :> [Row("t", "n") EXCEPT !.status = "RUNNING"])
                    @@ (2 :> [Row("v", "m") EXCEPT !.status = "PAUSED"])
  /\ instances = {1} /\ decided = {} /\ unsure = {} /\ asked = 0
  /\ desk = [c \in Callers |-> Free(NoResponse)]
RiskInit ==
  /\ policies = (1 :> Risk!Policy("l", "ACTIVE")) /\ loaded = policies
  /\ killSwitch \in BOOLEAN /\ risks = 0 /\ floor = [t \in Traders \cup Intruders |-> Risk!Away]
\* An execution whose two legs wait, one of them unknown to the other.
ExecutionInit ==
  /\ executions = (1 :> Execution!Execution("PAPER", <<"known", "known">>))
  /\ legs = {<<1, 1>>, <<1, 2>>} /\ orders = {} /\ entered = 0
  /\ ticket = [o \in Operators \cup Guests |-> Execution!NoTicket]
\* Two healthy venues, both merged.
Shown(q, f) == [bid |-> q[1], ask |-> q[2], book |-> Levels,
                funding |-> [has |-> TRUE, rate |-> f, hours |-> 8, at |-> 0], health |-> "HEALTHY", old |-> FALSE]
ScanInit ==
  /\ venue = <<Shown(Quote(1000, 1001), 8), Shown(Quote(1003, 1004), 8)>>
  /\ inst = Scan!MergeVenueState(Scan!MergeVenueState(Scan!InstrumentState, venue, 1), venue, 2)
  /\ updating = [u \in Updaters |-> 0] /\ moved = FALSE /\ updates = 0 /\ feed = [s \in Subscribers |-> -1]
  /\ results = {} /\ scan = Scan!NoScan /\ down = FALSE

MCInit ==
  /\ part \in {"strategy", "risk", "execution", "recon", "scan", "venues"}
  /\ StrategyInit /\ RiskInit /\ ExecutionInit /\ Recon!Init
  /\ part \notin {"risk"} => ~killSwitch
  /\ IF part = "venues" THEN Scan!ScannerInit ELSE ScanInit

riskVars == <<policies, loaded, killSwitch, floor, risks>>
executionVars == <<executions, legs, orders, ticket, entered>>
reconVars == <<runs, items, audit, work, again, calls>>
scanVars == <<venue, inst, updating, moved, feed, updates, results, scan, down>>

MCNext ==
  \/ part = "strategy" /\ Next /\ UNCHANGED <<part, riskVars, executionVars, reconVars, scanVars>>
  \/ part = "risk" /\ Risk!Next /\ UNCHANGED <<part, strategyVars, executionVars, reconVars, scanVars>>
  \/ part = "execution" /\ Execution!Next /\ UNCHANGED <<part, strategyVars, riskVars, reconVars, scanVars>>
  \/ part = "recon" /\ Recon!Next /\ UNCHANGED <<part, strategyVars, riskVars, executionVars, scanVars>>
  \/ part \in {"scan", "venues"} /\ Scan!ScannerNext
     \* Browsers and venues that fall silent come in the other part.
     /\ (part = "scan" => UNCHANGED feed /\ \A v \in Venues : ~venue'[v].old)
     /\ UNCHANGED <<part, strategyVars, riskVars, executionVars, reconVars>>
Symmetric == Permutations(Updaters)
MCSpec == MCInit /\ [][MCNext]_<<part, strategyVars, riskVars, executionVars, reconVars, scanVars>>

---------------------------------------------------------------------------
\* A check made under the kill switch is refused (RiskDesk).
KillSwitchHolds == Risk!KillSwitchHolds
\* A leg is ordered once (Executions); a closed run says what its items say
\* (Reconciliation).
RecordsAreTrue == Execution!OrderedOnce /\ Recon!SummaryIsTrue
\* What the scanner serves pays, and the best price is a healthy venue's
\* (Scanner, UnifiedState).
OpportunitiesPay == Scan!OpportunitiesPay
=============================================================================

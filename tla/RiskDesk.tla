------------------------------- MODULE RiskDesk -------------------------------
(***************************************************************************)
(* Risk policies, the kill switch and the pre-trade check.  The switch and *)
(* the engine's policies are plain fields, read and written by concurrent  *)
(* requests without a lock, and are lost with the process.                 *)
(***************************************************************************)
EXTENDS Api, Integers, FiniteSets, TLC

CONSTANTS
  Traders,      \* callers with the admin role
  Intruders,    \* callers without it
  PolicyIds, Labels,
  Notionals,    \* what a pre-trade check asks about, in dollars
  MaxRiskRequests \* bound

VARIABLES
  policies,     \* risk_policies by id
  loaded,       \* engine.policies: the policy as it was created
  killSwitch,   \* engine.killSwitch.Enabled
  floor,        \* what each caller has in flight, and its last verdict
  risks         \* requests so far

riskVars == <<policies, loaded, killSwitch, floor, risks>>

Policy(name, status) == [name |-> name, status |-> status, deleted |-> FALSE]
NoPolicy == Policy("", "DISABLED")
Away == [op |-> "idle", id |-> 0, policy |-> NoPolicy, notional |-> 0, held |-> FALSE,
         action |-> "NONE", reply |-> NoResponse]
Init ==
  /\ policies = <<>> /\ loaded = <<>> /\ killSwitch = FALSE /\ risks = 0
  /\ floor = [t \in Traders \cup Intruders |-> Away]

---------------------------------------------------------------------------
(* The calculator's checks: TRUE is PASS.                                  *)
KillSwitchCheck(enabled) == ~enabled
BalanceCheck(balance, notional) == balance >= notional
PositionLimitCheck(position, max) == position < max
NotionalLimitCheck(notional, max) == notional <= max
LeverageCheck(leverage, max) == leverage <= max
MarketHealthCheck(healthy) == healthy
VenueHealthCheck(healthy) == healthy

\* The limits are literals: no policy and no RiskConfig is consulted.
EvaluatePreTrade(enabled, notional, balance, position, leverage, market, venue) ==
  IF /\ KillSwitchCheck(enabled) /\ BalanceCheck(balance, notional)
     /\ PositionLimitCheck(position, 100000) /\ NotionalLimitCheck(notional, 50000)
     /\ LeverageCheck(leverage, 10) /\ MarketHealthCheck(market) /\ VenueHealthCheck(venue)
  THEN "APPROVE" ELSE "REJECT"
SwitchForgotten(enabled, notional) == EvaluatePreTrade(FALSE, notional, 100000, 0, 1, TRUE, TRUE) \* a mutant
\* The handler knows no balance, position or health: it passes constants.
PreTradeCheckOf(enabled, notional) == EvaluatePreTrade(enabled, notional, 100000, 0, 1, TRUE, TRUE)
---------------------------------------------------------------------------
Known(id) == id \in DOMAIN policies /\ ~policies[id].deleted
LabelTaken(name, but) == \E id \in DOMAIN policies \ {but} : Known(id) /\ policies[id].name = name
AddPolicy(id, policy) == [i \in DOMAIN loaded \cup {id} |-> IF i = id THEN policy ELSE loaded[i]]
RemovePolicy(id) == [i \in DOMAIN loaded \ {id} |-> loaded[i]]
GetPolicies == {loaded[id] : id \in DOMAIN loaded}

Call(t) == floor[t].op = "idle" /\ risks < MaxRiskRequests /\ risks' = risks + 1
Reply(t, response) == floor' = [floor EXCEPT ![t] = [Away EXCEPT !.reply = response]]

RegisterRoutes(t) == Call(t) /\ Reply(t, RespondError("FORBIDDEN")) /\ UNCHANGED <<policies, loaded, killSwitch>>
ListPolicies(t) == Call(t) /\ Reply(t, RespondSuccess) /\ UNCHANGED <<policies, loaded, killSwitch>>
GetPolicy(t) ==
  /\ \E id \in PolicyIds : Call(t) /\ Reply(t, Respond(IF Known(id) THEN OK ELSE "NOT_FOUND", RespondSuccess))
  /\ UNCHANGED <<policies, loaded, killSwitch>>

CreatePolicy(t) ==
  /\ Call(t) /\ UNCHANGED <<loaded, killSwitch>>
  /\ \E name \in Labels :
       IF LabelTaken(name, 0) THEN Reply(t, RespondError("INTERNAL")) /\ UNCHANGED policies
       ELSE /\ PolicyIds \ DOMAIN policies # {}
            /\ LET id == CHOOSE i \in PolicyIds \ DOMAIN policies : TRUE
               IN  /\ policies' = policies @@ (id :> Policy(name, "ACTIVE"))
                   /\ floor' = [floor EXCEPT ![t] = [Away EXCEPT !.op = "add", !.id = id,
                                                     !.policy = Policy(name, "ACTIVE")]]
CreateAdd(t) ==
  /\ floor[t].op = "add" /\ UNCHANGED <<policies, killSwitch, risks>>
  /\ loaded' = AddPolicy(floor[t].id, floor[t].policy) /\ Reply(t, RespondCreated)

\* The row only: the engine keeps the policy it was given at creation.
UpdatePolicy(t) ==
  /\ Call(t) /\ UNCHANGED <<policies, loaded, killSwitch>>
  /\ \E id \in PolicyIds, name \in Labels \cup {""}, status \in {"", "ACTIVE", "DISABLED"} :
       IF ~Known(id) THEN Reply(t, RespondError("INTERNAL"))
       ELSE floor' = [floor EXCEPT ![t] = [Away EXCEPT !.op = "update", !.id = id,
              !.policy = [policies[id] EXCEPT !.name = IF name = "" THEN @ ELSE name,
                                              !.status = IF status = "" THEN @ ELSE status]]]
UpdatePolicyWrite(t) ==
  /\ floor[t].op = "update" /\ UNCHANGED <<loaded, killSwitch, risks>>
  /\ LET id == floor[t].id
         new == floor[t].policy
     IN  IF LabelTaken(new.name, id) THEN Reply(t, RespondError("INTERNAL")) /\ UNCHANGED policies
         ELSE /\ Reply(t, RespondSuccess)
              /\ policies' = [policies EXCEPT ![id].name = new.name, ![id].status = new.status]

DeletePolicy(t) ==
  /\ Call(t) /\ UNCHANGED <<policies, loaded, killSwitch>>
  /\ \E id \in PolicyIds : floor' = [floor EXCEPT ![t] = [Away EXCEPT !.op = "remove", !.id = id]]
DeleteRemove(t) ==
  /\ floor[t].op = "remove" /\ UNCHANGED <<policies, killSwitch, risks>>
  /\ loaded' = RemovePolicy(floor[t].id) /\ floor' = [floor EXCEPT ![t].op = "erase"]
DeleteErase(t) ==
  /\ floor[t].op = "erase" /\ UNCHANGED <<loaded, killSwitch, risks>>
  /\ policies' = IF Known(floor[t].id) THEN [policies EXCEPT ![floor[t].id].deleted = TRUE] ELSE policies
  /\ Reply(t, RespondSuccess)

EnableKillSwitch(t) ==
  /\ Call(t) /\ killSwitch' = TRUE /\ Reply(t, RespondSuccess) /\ UNCHANGED <<policies, loaded>>
\* No check that is under way can count on the switch any more.
DisableKillSwitch(t) ==
  /\ Call(t) /\ killSwitch' = FALSE /\ UNCHANGED <<policies, loaded>>
  /\ floor' = [u \in DOMAIN floor |-> IF u = t THEN [Away EXCEPT !.reply = RespondSuccess]
                                      ELSE [floor[u] EXCEPT !.held = FALSE]]
GetKillSwitch(t) == ListPolicies(t)

(* A check arrives, reads the switch, and is answered.                      *)
PreTradeCheck(t) ==
  /\ Call(t) /\ UNCHANGED <<policies, loaded, killSwitch>>
  /\ \E n \in Notionals :
       floor' = [floor EXCEPT ![t] = [Away EXCEPT !.op = "check", !.notional = n, !.held = killSwitch]]
Evaluate(t) ==
  /\ floor[t].op = "check" /\ UNCHANGED <<policies, loaded, killSwitch, risks>>
  /\ floor' = [floor EXCEPT ![t].op = "idle", ![t].reply = RespondSuccess,
                            ![t].action = PreTradeCheckOf(killSwitch, floor[t].notional)]

\* NewService: no switch, no policies.  Two requests that write the map of
\* policies at once end the process the same way.
Restart ==
  /\ loaded' = <<>> /\ killSwitch' = FALSE /\ UNCHANGED <<policies, risks>>
  /\ floor' = [t \in DOMAIN floor |-> Away]
ConcurrentMapWrites ==
  /\ Cardinality({t \in Traders : floor[t].op \in {"add", "remove"}}) > 1 /\ Restart
Crash == killSwitch /\ Restart

Next ==
  \/ \E t \in Intruders : RegisterRoutes(t)
  \/ \E t \in Traders : ListPolicies(t)
  \/ \E t \in Traders : GetPolicy(t)
  \/ \E t \in Traders : CreatePolicy(t)
  \/ \E t \in Traders : CreateAdd(t)
  \/ \E t \in Traders : UpdatePolicy(t)
  \/ \E t \in Traders : UpdatePolicyWrite(t)
  \/ \E t \in Traders : DeletePolicy(t)
  \/ \E t \in Traders : DeleteRemove(t)
  \/ \E t \in Traders : DeleteErase(t)
  \/ \E t \in Traders : EnableKillSwitch(t)
  \/ \E t \in Traders : DisableKillSwitch(t)
  \/ \E t \in Traders : GetKillSwitch(t)
  \/ \E t \in Traders : PreTradeCheck(t)
  \/ \E t \in Traders : Evaluate(t)
  \/ ConcurrentMapWrites
  \/ Crash

Spec == Init /\ [][Next]_riskVars

---------------------------------------------------------------------------
(* A check that arrived while the kill switch was on, and was not overtaken  *)
(* by a disable or a restart, is refused whatever else it asks; and nothing  *)
(* above the notional limit is approved.                                     *)
KillSwitchHolds ==
  \A t \in Traders : floor[t].action = "APPROVE" => ~floor[t].held /\ floor[t].notional <= 50000
=============================================================================

---------------------------- MODULE Reconciliation ----------------------------
(***************************************************************************)
(* A reconciliation run compares what is recorded with what the exchange   *)
(* says.  POST only opens the run; RunChecks, which the service offers and *)
(* no part of the program calls, fetches, compares, stores the items one   *)
(* by one and closes the run.                                              *)
(***************************************************************************)
EXTENDS Api, Integers, FiniteSets, TLC

CONSTANTS
  Auditors,     \* callers with the admin role
  Visitors,     \* callers without it
  Workers,      \* calls of RunChecks
  RunIds,
  Recorded,     \* what the database says: functions from entity to what is known of it
  Reported,     \* what the exchange answers: the same, or Failed
  MaxRuns       \* bound

VARIABLES
  runs,         \* reconciliation_runs by id: [status, total]
  items,        \* rows of reconciliation_items: [run, by, entity, result]
  audit,        \* each caller's last response
  work,         \* each worker: its run, what is still to be stored
  again,        \* runs that RunChecks was called on more than once
  calls         \* requests and calls so far

reconVars == <<runs, items, audit, work, again, calls>>

Checks == <<"MARGIN", "BALANCE", "POSITION", "ORDER", "FILL">> \* in this order
Entities == {Checks[k] : k \in DOMAIN Checks}
State(tag, a, b) == [has |-> TRUE, tag |-> tag, amounts |-> <<a, b>>]
Failed == [has |-> FALSE, tag |-> 9, amounts |-> <<0, 0>>]

NoWork == [run |-> 0, op |-> "idle", todo |-> {}, found |-> {}]
Init ==
  /\ runs = <<>> /\ items = {} /\ again = {} /\ calls = 0
  /\ audit = [a \in Auditors \cup Visitors |-> NoResponse]
  /\ work = [w \in Workers |-> NoWork]

---------------------------------------------------------------------------
(* The comparator.  Amounts are in half ticks: a tick is the tolerance.    *)
Abs(x) == IF x < 0 THEN -x ELSE x
Closer(a, b) == \A i \in DOMAIN a : Abs(a[i] - b[i]) < 2
Compare(internal, external, same) ==
  IF ~internal.has /\ ~external.has THEN "MATCH"
  ELSE IF ~internal.has THEN "MISSING_INTERNAL"
  ELSE IF ~external.has THEN "MISSING_EXTERNAL"
  ELSE IF same THEN "MATCH" ELSE "MISMATCH"
CompareMargin(i, e) == Compare(i, e, Closer(i.amounts, e.amounts))
CompareBalance(i, e) == Compare(i, e, Closer(i.amounts, e.amounts))
ComparePosition(i, e) == Compare(i, e, i.tag = e.tag /\ Closer(i.amounts, e.amounts)) \* the side
CompareOrder(i, e) == Compare(i, e, i.tag = e.tag /\ Closer(i.amounts, e.amounts))    \* the status
\* Fills differ only beyond the tolerance; those only the exchange has are not looked at.
CompareFills(i, e) == Compare(i, e, \A k \in DOMAIN i.amounts : Abs(i.amounts[k] - e.amounts[k]) <= 2)
ResultOf(entity, i, e) ==
  CASE entity = "MARGIN"   -> CompareMargin(i, e)
    [] entity = "BALANCE"  -> CompareBalance(i, e)
    [] entity = "POSITION" -> ComparePosition(i, e)
    [] entity = "ORDER"    -> CompareOrder(i, e)
    [] OTHER               -> CompareFills(i, e)
\* Balances, positions and orders are asked for by what is recorded; what the
\* adapter fails to answer is skipped without a trace.
Compared(recorded, reported) ==
  {entity \in Entities : /\ reported[entity] # Failed
                         /\ entity \in {"BALANCE", "POSITION", "ORDER"} => recorded[entity].has}
\* GetBalance returns amounts, never "no such balance".
Answered(entity, e) == IF entity = "BALANCE" /\ ~e.has THEN State(0, 0, 0) ELSE e
ItemsOf(w, run, recorded, reported) ==
  {[run |-> run, by |-> w, entity |-> entity,
    result |-> ResultOf(entity, recorded[entity], Answered(entity, reported[entity]))]
     : entity \in Compared(recorded, reported)}
SummarizeItems(found) == [total |-> Cardinality(found),
                          matched |-> Cardinality({i \in found : i.result = "MATCH"})]
OverallStatus(summary) == IF summary.matched = summary.total THEN "MATCHED" ELSE "MISMATCH"

---------------------------------------------------------------------------
(* The repository.                                                         *)
StartReconciliation == [status |-> "RUNNING", total |-> 0]
InsertRun(r) == [s \in DOMAIN runs \cup {r} |-> IF s = r THEN StartReconciliation ELSE runs[s]]
UpdatedRun(summary) == [status |-> OverallStatus(summary), total |-> summary.total]
GetRunByID(r) == r \in DOMAIN runs
ListItemsByRun(r) == {i \in items : i.run = r}

Serve(a, response) == calls < MaxRuns /\ calls' = calls + 1 /\ audit' = [audit EXCEPT ![a] = response]
Unmoved == UNCHANGED <<runs, items, work, again>>
RegisterRoutes(a) == Serve(a, RespondError("FORBIDDEN")) /\ Unmoved
CreateRun(a) ==
  /\ RunIds \ DOMAIN runs # {} /\ UNCHANGED <<items, work, again>>
  /\ \/ /\ Serve(a, RespondCreated)
        /\ runs' = InsertRun(CHOOSE r \in RunIds \ DOMAIN runs : TRUE)
     \/ Serve(a, RespondError("INTERNAL")) /\ UNCHANGED runs \* no such venue account
ListRuns(a) == Serve(a, RespondSuccess) /\ Unmoved
GetRun(a) == (\E r \in RunIds : Serve(a, Respond(IF GetRunByID(r) THEN OK ELSE "NOT_FOUND", RespondSuccess))) /\ Unmoved
ListItems(a) == Serve(a, RespondSuccess) /\ Unmoved

RunChecks(w) ==
  /\ work[w] = NoWork /\ UNCHANGED <<runs, items, audit, calls>>
  /\ \E r \in DOMAIN runs :
       /\ runs[r].status = "RUNNING"
       /\ work' = [work EXCEPT ![w] = [NoWork EXCEPT !.run = r, !.op = "compare"]]
       /\ again' = again \cup {x \in {r} : (\E v \in Workers : work[v].run = r) \/ ListItemsByRun(r) # {}}
Fetch(w) ==
  /\ work[w].op = "compare" /\ UNCHANGED <<runs, items, audit, again, calls>>
  /\ \E recorded \in Recorded, reported \in Reported :
       LET found == ItemsOf(w, work[w].run, recorded, reported)
       IN  work' = [work EXCEPT ![w].op = "store", ![w].todo = found, ![w].found = found]
Rank(i) == CHOOSE k \in DOMAIN Checks : Checks[k] = i.entity
First(todo) == CHOOSE i \in todo : \A j \in todo : Rank(i) <= Rank(j)
Ended == [NoWork EXCEPT !.op = "ended"]
\* A failed INSERT ends the call; the items before it stay and the run stays open.
CreateItem(w) ==
  /\ work[w].op = "store" /\ work[w].todo # {} /\ UNCHANGED <<runs, audit, again, calls>>
  /\ \/ LET i == First(work[w].todo)
        IN  items' = items \cup {i} /\ work' = [work EXCEPT ![w].todo = @ \ {i}]
     \/ work' = [work EXCEPT ![w] = Ended] /\ UNCHANGED items
ClosesFirst(w) == work[w].op = "store" \* a mutant
MayClose(w) == work[w].op = "store" /\ work[w].todo = {}
UpdateRunStatus(w) ==
  /\ MayClose(w) /\ UNCHANGED <<items, audit, again, calls>>
  /\ LET summary == SummarizeItems(work[w].found)
     IN  runs' = [runs EXCEPT ![work[w].run] = UpdatedRun(summary)]
  /\ work' = [work EXCEPT ![w] = Ended]

Next ==
  \/ \E a \in Visitors : RegisterRoutes(a)
  \/ \E a \in Auditors : CreateRun(a)
  \/ \E a \in Auditors : ListRuns(a)
  \/ \E a \in Auditors : GetRun(a)
  \/ \E a \in Auditors : ListItems(a)
  \/ \E w \in Workers : RunChecks(w)
  \/ \E w \in Workers : Fetch(w)
  \/ \E w \in Workers : CreateItem(w)
  \/ \E w \in Workers : UpdateRunStatus(w)

Spec == Init /\ [][Next]_reconVars

---------------------------------------------------------------------------
(* A run that was checked once says what its items say: as many as it        *)
(* counts, and MATCHED exactly when none of them differs.                    *)
SummaryIsTrue ==
  \A r \in DOMAIN runs \ again :
    LET stored == ListItemsByRun(r)
    IN  runs[r].status # "RUNNING" =>
          /\ runs[r].total = Cardinality(stored)
          /\ runs[r].status = "MATCHED" <=> \A i \in stored : i.result = "MATCH"
=============================================================================

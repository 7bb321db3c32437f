------------------------------ MODULE Executions ------------------------------
(***************************************************************************)
(* Executions, their legs and the orders of a paper run.  Creating and     *)
(* submitting are loops of single statements without a transaction; a      *)
(* failed one leaves what was written before it.                           *)
(***************************************************************************)
EXTENDS Api, Integers, Sequences, FiniteSets, TLC

CONSTANTS
  Operators,    \* callers with the admin role
  Guests,       \* callers without it
  ExecutionIds,
  Prefix,       \* the first 8 characters of an id
  Intents,      \* the legs of a body, each the venue account it names, or "unknown"
  MaxExecutionRequests \* bound

VARIABLES
  executions,   \* by id: [mode, status, intent]
  legs,         \* <<execution, index>>; a leg's status is never updated
  orders,       \* rows of orders: [account, client, leg, status]
  ticket,       \* what each caller has in flight, and its last response
  entered       \* requests so far

executionVars == <<executions, legs, orders, ticket, entered>>

NoTicket == [op |-> "idle", id |-> 0, next |-> 0, todo |-> {}, reply |-> NoResponse]
Init ==
  /\ executions = <<>> /\ legs = {} /\ orders = {} /\ entered = 0
  /\ ticket = [o \in Operators \cup Guests |-> NoTicket]

---------------------------------------------------------------------------
(* ValidOrderTransitions.                                                  *)
ValidOrderTransitions(from) ==
  CASE from = "CREATED"          -> {"SUBMITTING"}
    [] from = "SUBMITTING"       -> {"OPEN", "REJECTED", "UNKNOWN"}
    [] from = "OPEN"             -> {"PARTIALLY_FILLED", "FILLED", "CANCELING", "EXPIRED", "UNKNOWN"}
    [] from = "PARTIALLY_FILLED" -> {"FILLED", "CANCELING", "UNKNOWN"}
    [] from = "CANCELING"        -> {"CANCELED", "UNKNOWN"}
    [] from = "UNKNOWN"          -> {"CANCELING", "SUBMITTING"}
    [] OTHER                     -> {}
CanTransition(from, to) == to \in ValidOrderTransitions(from)
Select(intent) == IF Len(intent) <= 1 THEN "PARALLEL" ELSE "SEQUENTIAL"

(* The repository.                                                         *)
Exists(id) == id \in DOMAIN executions
Execution(mode, intent) == [mode |-> mode, status |-> "CREATED", intent |-> intent]
InsertExecution(id, row) ==
  [i \in DOMAIN executions \cup {id} |-> IF i = id THEN row ELSE executions[i]]
\* Nobody can name an execution before its creation has been answered.
Told == ExecutionIds \ {ticket[o].id : o \in {p \in Operators : ticket[p].op = "create"}}
UpdateExecutionStatus(id, status) ==
  IF Exists(id) THEN [executions EXCEPT ![id].status = status] ELSE executions
ListLegsByExecution(id) == {leg \in legs : leg[1] = id}
Account(leg) == executions[leg[1]].intent[leg[2]]
ClientOrderID(leg) == <<"paper", Prefix[leg[1]], leg[2]>>
GetOrderByClientOrderID(account, client) == {o \in orders : o.account = account /\ o.client = client}
Order(leg) == [account |-> Account(leg), client |-> ClientOrderID(leg), leg |-> leg, status |-> "CREATED"]
CreateOrder(leg) == orders \cup {Order(leg)}
UpdateOrderStatus(leg, status) == {IF o.leg = leg THEN [o EXCEPT !.status = status] ELSE o : o \in orders}
First(todo) == CHOOSE leg \in todo : \A other \in todo : leg[2] <= other[2]

---------------------------------------------------------------------------
Enter(o) == ticket[o].op = "idle" /\ entered < MaxExecutionRequests /\ entered' = entered + 1
Close(o, response) == ticket' = [ticket EXCEPT ![o] = [NoTicket EXCEPT !.reply = response]]
Show(o, code) == Enter(o) /\ Close(o, Respond(code, RespondSuccess)) /\ UNCHANGED <<executions, legs, orders>>

RegisterRoutes(o) == Show(o, "FORBIDDEN")
List(o) == Show(o, OK) \* always empty: the handler reads nothing
Get(o) == \E id \in ExecutionIds : Show(o, IF Exists(id) THEN OK ELSE "NOT_FOUND")
ListLegs(o) == Show(o, OK)
ListFills(o) == Show(o, OK)

(* POST: the execution, unless its strategy instance or its mode is unknown, *)
(* then its legs one by one; a leg whose account or instrument is unknown    *)
(* ends the request with what was inserted.                                  *)
CreateRefused(o) == \E code \in {"VALIDATION", "INTERNAL"} : Show(o, code)
Create(o) ==
  /\ Enter(o) /\ ExecutionIds \ DOMAIN executions # {} /\ UNCHANGED <<legs, orders>>
  /\ \E intent \in Intents, mode \in {"PAPER", "LIVE_MANUAL"} :
       LET id == CHOOSE i \in ExecutionIds \ DOMAIN executions : TRUE
       IN  /\ executions' = InsertExecution(id, Execution(mode, intent))
           /\ ticket' = [ticket EXCEPT ![o] = [NoTicket EXCEPT !.op = "create", !.id = id, !.next = 1]]
CreateLeg(o) ==
  /\ ticket[o].op = "create" /\ UNCHANGED <<executions, orders, entered>>
  /\ LET id == ticket[o].id
         i == ticket[o].next
         intent == executions[id].intent
     IN  IF i > Len(intent) THEN Close(o, RespondCreated) /\ UNCHANGED legs
         ELSE IF intent[i] = "unknown" THEN Close(o, RespondError("INTERNAL")) /\ UNCHANGED legs
         ELSE legs' = legs \cup {<<id, i>>} /\ ticket' = [ticket EXCEPT ![o].next = @ + 1]

(* submit: no look at the status; a live execution is only marked.          *)
Submit(o) ==
  /\ Enter(o) /\ UNCHANGED <<executions, legs, orders>>
  /\ \E id \in Told :
       IF ~Exists(id) THEN Close(o, RespondError("INTERNAL"))
       ELSE ticket' = [ticket EXCEPT ![o] = [NoTicket EXCEPT !.op = "submit", !.id = id]]
SubmitMark(o) ==
  /\ ticket[o].op = "submit" /\ UNCHANGED <<legs, orders, entered>>
  /\ executions' = UpdateExecutionStatus(ticket[o].id, "SUBMITTING")
  /\ IF executions[ticket[o].id].mode # "PAPER" THEN Close(o, RespondSuccess)
     ELSE ticket' = [ticket EXCEPT ![o].op = "list"]
ExecutePaper(o) ==
  /\ ticket[o].op = "list" /\ UNCHANGED <<executions, legs, orders, entered>>
  /\ ticket' = [ticket EXCEPT ![o].op = "place", ![o].todo = ListLegsByExecution(ticket[o].id)]
OnlyOwnDuplicate(leg) == \E other \in GetOrderByClientOrderID(Account(leg), ClientOrderID(leg)) : other.status # "SUBMITTING" \* a mutant
\* An account's client order ids are unique, and made of the execution's first characters.
Duplicate(leg) == GetOrderByClientOrderID(Account(leg), ClientOrderID(leg)) # {}
PlaceOrder(o) ==
  /\ ticket[o].op = "place" /\ UNCHANGED <<legs, entered>>
  /\ IF ticket[o].todo = {}
     THEN /\ executions' = UpdateExecutionStatus(ticket[o].id, "COMPLETED")
          /\ Close(o, RespondSuccess) /\ UNCHANGED orders
     ELSE LET leg == First(ticket[o].todo)
          IN  /\ UNCHANGED executions
              /\ IF Duplicate(leg) THEN Close(o, RespondError("INTERNAL")) /\ UNCHANGED orders
                 ELSE orders' = CreateOrder(leg) /\ ticket' = [ticket EXCEPT ![o].op = "sent"]
Advance(o, from, to, then) ==
  LET leg == First(ticket[o].todo)
  IN  IF ~CanTransition(from, to)
      THEN Close(o, RespondError("INTERNAL")) /\ UNCHANGED orders
      ELSE orders' = UpdateOrderStatus(leg, to) /\ ticket' = [ticket EXCEPT ![o] = then]
SubmitOrder(o) ==
  /\ ticket[o].op = "sent" /\ UNCHANGED <<executions, legs, entered>>
  /\ Advance(o, "CREATED", "SUBMITTING", [ticket[o] EXCEPT !.op = "fill"])
\* SUBMITTING does not lead to FILLED: a paper run with a leg always ends here.
FillOrder(o) ==
  /\ ticket[o].op = "fill" /\ UNCHANGED <<executions, legs, entered>>
  /\ Advance(o, "SUBMITTING", "FILLED",
             [ticket[o] EXCEPT !.op = "place", !.todo = @ \ {First(ticket[o].todo)}])

(* cancel: whatever the status, and without a look at the orders.           *)
Cancel(o) ==
  /\ Enter(o) /\ UNCHANGED <<legs, orders>> /\ Close(o, RespondSuccess)
  /\ \E id \in Told : executions' = UpdateExecutionStatus(id, "CANCELED")

\* The process ends: what was written stays.
Crash ==
  /\ \E o \in Operators : ticket[o].op # "idle"
  /\ ticket' = [o \in DOMAIN ticket |-> NoTicket] /\ UNCHANGED <<executions, legs, orders, entered>>

Next ==
  \/ \E o \in Guests : RegisterRoutes(o)
  \/ \E o \in Operators : List(o)
  \/ \E o \in Operators : Get(o)
  \/ \E o \in Operators : ListLegs(o)
  \/ \E o \in Operators : ListFills(o)
  \/ \E o \in Operators : Create(o)
  \/ \E o \in Operators : CreateRefused(o)
  \/ \E o \in Operators : CreateLeg(o)
  \/ \E o \in Operators : Submit(o)
  \/ \E o \in Operators : SubmitMark(o)
  \/ \E o \in Operators : ExecutePaper(o)
  \/ \E o \in Operators : PlaceOrder(o)
  \/ \E o \in Operators : SubmitOrder(o)
  \/ \E o \in Operators : FillOrder(o)
  \/ \E o \in Operators : Cancel(o)
  \/ Crash

Spec == Init /\ [][Next]_executionVars

---------------------------------------------------------------------------
(* However often and from wherever an execution is submitted, canceled or    *)
(* cut off by a crash, a leg is ordered once, and COMPLETED means that every *)
(* leg's order is FILLED.                                                    *)
OrderedOnce ==
  /\ \A a, b \in orders : a.leg = b.leg => a = b
  /\ \A id \in DOMAIN executions : executions[id].status = "COMPLETED" =>
       \A leg \in ListLegsByExecution(id) : \E o \in orders : o.leg = leg /\ o.status = "FILLED"
=============================================================================

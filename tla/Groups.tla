-------------------------------- MODULE Groups --------------------------------
(***************************************************************************)
(* Trader groups: the lists of wallets a user watches.  A request is a     *)
(* call of one tab of one user; the owner is read first, the wallet cap    *)
(* next, and only the insert is in a transaction.                          *)
(***************************************************************************)
EXTENDS Api, Integers, FiniteSets

CONSTANTS
  Tabs,         \* <<user, number>>: two tabs of a user interleave
  Names, GroupIds, Venues,
  Registered,   \* the rows of trader_registry: <<venue, wallet>>
  Bodies,       \* the members a body names: sets of [venue, wallet], normalised
  Caps,         \* what an administrator sets wallet_cap to; 0 means unset
  DefaultCap, Aliases, NoAlias,
  MaxGroupRequests \* bound

VARIABLES
  groups,     \* trader_groups by id; an id is never reused
  members,    \* trader_group_members: <<group, venue, wallet>> to its alias
  cap,        \* the setting
  tab,        \* what each tab has in flight, and its last response
  history     \* the highest cap of any check; the users whose adds overlapped; requests

groupVars == <<groups, members, cap, tab, history>>

User(t) == t[1]
Quiet == [op |-> "idle", reply |-> NoResponse]

MaxWallets(setting) == IF setting > 0 THEN setting ELSE DefaultCap
Init ==
  /\ groups = <<>> /\ members = <<>> /\ cap = 0
  /\ tab = [t \in Tabs |-> Quiet]
  /\ history = [highest |-> 0, overlapped |-> {}, requests |-> 0]

---------------------------------------------------------------------------
Live(g) == g \in DOMAIN groups /\ ~groups[g].deleted
RequireOwner(g, u) ==
  IF ~Live(g) THEN "NOT_FOUND" ELSE IF groups[g].owner # u THEN "GROUP_FORBIDDEN" ELSE OK
GroupsOf(u) == {g \in DOMAIN groups : Live(g) /\ groups[g].owner = u}
NameTaken(u, name) == \E g \in GroupsOf(u) : groups[g].name = name
IsUniqueViolation(u, name) == NameTaken(u, name)
ListMembers(g) == {m \in DOMAIN members : m[1] = g}
\* SELECT DISTINCT wallet_address: one address on two venues counts once.
Watched(u) == {m[3] : m \in {n \in DOMAIN members : n[1] \in GroupsOf(u)}}
VenueIDByCode(v) == v \in Venues

\* The tables with new rows; a member that is there keeps its alias.
InsertGroup(g, row) == [h \in DOMAIN groups \cup {g} |-> IF h = g THEN row ELSE groups[h]]
InsertMembers(new) ==
  [m \in DOMAIN members \cup new |-> IF m \in DOMAIN members THEN members[m] ELSE NoAlias]

Request(t) == tab[t].op = "idle" /\ history.requests < MaxGroupRequests
Counted == [history EXCEPT !.requests = @ + 1]
Reply(t, response) == tab' = [tab EXCEPT ![t] = [Quiet EXCEPT !.reply = response]]
Once(t, response) == Request(t) /\ Reply(t, response) /\ history' = Counted

(* POST, GET, PATCH and DELETE of a group.                                 *)
Create(t) ==
  \E name \in Names :
    /\ GroupIds \ DOMAIN groups # {} /\ UNCHANGED <<members, cap>>
    /\ IF IsUniqueViolation(User(t), name) THEN Once(t, RespondError("GROUP_DUPLICATE")) /\ UNCHANGED groups
       ELSE /\ Once(t, RespondCreated)
            /\ groups' = InsertGroup(CHOOSE g \in GroupIds \ DOMAIN groups : TRUE,
                                     [owner |-> User(t), name |-> name, deleted |-> FALSE])
List(t) == Once(t, RespondSuccess) /\ UNCHANGED <<groups, members, cap>>
Get(t) ==
  \E g \in GroupIds : Once(t, Respond(RequireOwner(g, User(t)), RespondSuccess))
                      /\ UNCHANGED <<groups, members, cap>>
Update(t) ==
  /\ UNCHANGED <<members, cap>>
  /\ \E g \in GroupIds, name \in Names :
       IF RequireOwner(g, User(t)) # OK
       THEN Once(t, RespondError(RequireOwner(g, User(t)))) /\ UNCHANGED groups
       ELSE IF groups[g].name # name /\ IsUniqueViolation(User(t), name)
       THEN Once(t, RespondError("GROUP_DUPLICATE")) /\ UNCHANGED groups
       ELSE Once(t, RespondSuccess) /\ groups' = [groups EXCEPT ![g].name = name]
Delete(t) ==
  /\ UNCHANGED cap
  /\ \E g \in GroupIds :
       IF RequireOwner(g, User(t)) # OK
       THEN Once(t, RespondError(RequireOwner(g, User(t)))) /\ UNCHANGED <<groups, members>>
       ELSE /\ Once(t, RespondNoContent)
            /\ groups' = [groups EXCEPT ![g].deleted = TRUE]
            /\ members' = [m \in DOMAIN members \ ListMembers(g) |-> members[m]]

(* POST members: owner, addresses of all the user's groups, cap, insert.   *)
AddMembers(t, g, body) ==
  /\ Request(t) /\ UNCHANGED <<groups, members, cap>>
  /\ IF RequireOwner(g, User(t)) # OK THEN Reply(t, RespondError(RequireOwner(g, User(t)))) /\ history' = Counted
     ELSE /\ tab' = [tab EXCEPT ![t] = [op |-> "add", group |-> g, body |-> body,
                                        existing |-> Watched(User(t)), reply |-> NoResponse]]
          /\ history' = [Counted EXCEPT !.overlapped = @ \cup
                {User(t) : s \in {s \in Tabs : User(s) = User(t) /\ tab[s].op \in {"add", "insert"}}}]
FitsBefore(t) == Cardinality(tab[t].existing) <= MaxWallets(cap) \* a mutant
Fits(t) ==
  Cardinality(tab[t].existing) + Cardinality({i.wallet : i \in tab[t].body} \ tab[t].existing)
    <= MaxWallets(cap)
CheckCap(t) ==
  /\ tab[t].op = "add" /\ UNCHANGED <<groups, members, cap>>
  /\ history' = [history EXCEPT !.highest = IF MaxWallets(cap) > @ THEN MaxWallets(cap) ELSE @]
  /\ IF Fits(t) THEN tab' = [tab EXCEPT ![t].op = "insert"]
     ELSE Reply(t, RespondError("TELEGRAM_CAP"))
Refused(body) ==
  IF \E i \in body : ~VenueIDByCode(i.venue) THEN "VALIDATION"
  ELSE IF \E i \in body : <<i.venue, i.wallet>> \notin Registered THEN "NOT_FOUND" ELSE OK
AddInsert(t) ==
  /\ tab[t].op = "insert" /\ UNCHANGED <<groups, cap, history>>
  /\ LET code == IF Refused(tab[t].body) # OK THEN Refused(tab[t].body)
                 ELSE IF ~Live(tab[t].group) THEN "INTERNAL" ELSE OK \* the foreign key
     IN  /\ Reply(t, Respond(code, RespondSuccess))
         /\ members' = IF code # OK THEN members
                       ELSE InsertMembers({<<tab[t].group, i.venue, i.wallet>> : i \in tab[t].body})

(* DELETE members: one statement per venue of the body, in any order, and  *)
(* nothing takes back what an earlier one removed.                         *)
RemoveMembers(t) ==
  /\ Request(t) /\ history' = Counted /\ UNCHANGED <<groups, members, cap>>
  /\ \E g \in GroupIds, body \in Bodies :
       tab' = [tab EXCEPT ![t] = [op |-> "remove", group |-> g, body |-> body, reply |-> NoResponse]]
RemoveVenue(t) ==
  /\ tab[t].op = "remove" /\ UNCHANGED <<groups, cap, history>>
  /\ \E i \in tab[t].body :
       LET code == IF ~VenueIDByCode(i.venue) THEN "VALIDATION"
                   ELSE RequireOwner(tab[t].group, User(t))
           gone == {<<tab[t].group, j.venue, j.wallet>> : j \in {j \in tab[t].body : j.venue = i.venue}}
           left == {j \in tab[t].body : j.venue # i.venue}
       IN  /\ members' = IF code = OK THEN [m \in DOMAIN members \ gone |-> members[m]] ELSE members
           /\ IF code # OK \/ left = {} THEN Reply(t, Respond(code, RespondSuccess))
              ELSE tab' = [tab EXCEPT ![t].body = left]

(* PATCH members: keep, clear or set the alias; absent members are skipped.*)
UpdateMembers(t) ==
  /\ UNCHANGED <<groups, cap>>
  /\ \E g \in GroupIds, body \in Bodies, alias \in Aliases \cup {NoAlias} :
       LET code == IF RequireOwner(g, User(t)) # OK THEN RequireOwner(g, User(t)) ELSE Refused(body)
           named == {<<g, i.venue, i.wallet>> : i \in body}
       IN  /\ Once(t, Respond(code, RespondSuccess))
           /\ members' = IF code # OK THEN members
                         ELSE [m \in DOMAIN members |-> IF m \in named THEN alias ELSE members[m]]

SetCap == cap' \in Caps /\ UNCHANGED <<groups, members, tab, history>>

Next ==
  \/ \E t \in Tabs : Create(t)
  \/ \E t \in Tabs : List(t)
  \/ \E t \in Tabs : Get(t)
  \/ \E t \in Tabs : Update(t)
  \/ \E t \in Tabs : Delete(t)
  \/ \E t \in Tabs, g \in GroupIds, body \in Bodies : AddMembers(t, g, body)
  \/ \E t \in Tabs : CheckCap(t)
  \/ \E t \in Tabs : AddInsert(t)
  \/ \E t \in Tabs : RemoveMembers(t)
  \/ \E t \in Tabs : RemoveVenue(t)
  \/ \E t \in Tabs : UpdateMembers(t)
  \/ SetCap

Spec == Init /\ [][Next]_groupVars

---------------------------------------------------------------------------
(* A user watches no more addresses than the highest cap that was in force   *)
(* at one of the checks, counted over all the groups, as long as two adds of *)
(* the user do not overlap: the count is read before the transaction.        *)
CapHolds ==
  \A u \in {User(t) : t \in Tabs} \ history.overlapped :
    Cardinality(Watched(u)) <= history.highest
=============================================================================

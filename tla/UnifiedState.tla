----------------------------- MODULE UnifiedState -----------------------------
(***************************************************************************)
(* The unified state of one instrument: what each venue last showed, and   *)
(* the best of the healthy ones.  An update changes the venue's record     *)
(* under the venue's lock and merges it under the instrument's lock, in    *)
(* two steps; the sweep for stale venues changes a health and merges       *)
(* nothing.  A price of 0 is a missing one.                                *)
(***************************************************************************)
EXTENDS Integers, FiniteSets

CONSTANTS
  Venues, Updaters, Subscribers,
  Quotes,       \* <<bid, ask>> of a ticker or a book
  Books,        \* [bids, asks]: sets of <<price, quantity>>
  Fundings,     \* [rate, hours]
  SubscriberBuffer, \* the 100 places of a subscriber's channel
  MaxUpdates    \* bound

VARIABLES
  venue,        \* venueStates of the instrument
  inst,         \* its InstrumentState
  updating,     \* the venue each updater has changed and not merged yet, 0 if none
  moved,        \* a health changed since the last merge
  feed,         \* each subscriber: how many states wait in its channel, -1 if it is gone
  updates       \* updates so far

unifiedVars == <<venue, inst, updating, moved, feed, updates>>

NoFunding == [has |-> FALSE, rate |-> 0, hours |-> 1, at |-> 0]
NoBook == [bids |-> {}, asks |-> {}]
VenueMarketState == [bid |-> 0, ask |-> 0, book |-> NoBook, funding |-> NoFunding, health |-> "UNKNOWN", old |-> FALSE]
InstrumentState == [bid |-> 0, ask |-> 0, spread |-> 0, bids |-> {}, funding |-> NoFunding,
                    healthy |-> 0, stale |-> FALSE, merged |-> {}]

Init ==
  /\ venue = [v \in Venues |-> VenueMarketState] /\ inst = InstrumentState
  /\ updating = [u \in Updaters |-> 0] /\ moved = FALSE /\ updates = 0
  /\ feed = [s \in Subscribers |-> -1]

---------------------------------------------------------------------------
(* The merge: every field from the venues merged so far that are healthy.  *)
Healthy(ven, merged) == {v \in merged : ven[v].health = "HEALTHY"}
Highest(S) == IF S = {} THEN 0 ELSE CHOOSE x \in S : \A y \in S : y <= x
Lowest(S) == IF S = {} THEN 0 ELSE CHOOSE x \in S : \A y \in S : x <= y
BestOfAll(is, ven) == \* a mutant
  [is EXCEPT !.bid = Highest({ven[v].bid : v \in is.merged} \ {0}),
             !.ask = Lowest({ven[v].ask : v \in is.merged} \ {0})]
RecalculateBestBidAsk(is, ven) ==
  LET good == Healthy(ven, is.merged)
      bid == Highest({ven[v].bid : v \in good} \ {0})
      ask == Lowest({ven[v].ask : v \in good} \ {0})
  IN  [is EXCEPT !.bid = bid, !.ask = ask,
                 !.spread = IF bid # 0 /\ ask # 0 THEN ask - bid ELSE @]
RecalculateFunding(is, ven) ==
  LET with == {v \in Healthy(ven, is.merged) : ven[v].funding.has}
  IN  [is EXCEPT !.funding = IF with = {} THEN NoFunding
                             ELSE ven[CHOOSE v \in with : \A w \in with : ven[w].funding.at <= ven[v].funding.at].funding]
\* One level per price: a venue's quantity replaces another's, in the order of a map.
MergeDepthLevel(levels) ==
  {CHOOSE l \in levels : l[1] = p : p \in {l[1] : l \in levels}}
RecalculateDepth(is, ven) ==
  [is EXCEPT !.bids = MergeDepthLevel(UNION {ven[v].book.bids : v \in Healthy(ven, is.merged)})]
RecalculateHealth(is, ven) ==
  LET n == Cardinality(Healthy(ven, is.merged))
  IN  [is EXCEPT !.healthy = n, !.stale = n = 0]
MergeVenueState(is, ven, v) ==
  LET seen == [is EXCEPT !.merged = @ \cup {v}]
  IN  RecalculateHealth(RecalculateDepth(RecalculateFunding(RecalculateBestBidAsk(seen, ven), ven), ven), ven)
GetExecutableDepth(n) == {l \in inst.bids : Cardinality({m \in inst.bids : m[1] > l[1]}) < n}
GetHealthOverview == [status \in {"HEALTHY", "STALE", "UNHEALTHY"} |->
                        Cardinality({v \in Venues : venue[v].health = status})]

---------------------------------------------------------------------------
Apply(u, v, state) ==
  /\ updating[u] = 0 /\ updates < MaxUpdates /\ updates' = updates + 1
  /\ venue' = [venue EXCEPT ![v] = state] /\ updating' = [updating EXCEPT ![u] = v]
  /\ UNCHANGED <<inst, moved, feed>>
UpdateTicker(u) ==
  \E v \in Venues, q \in Quotes :
    Apply(u, v, [venue[v] EXCEPT !.bid = q[1], !.ask = q[2], !.old = FALSE])
\* A side the book does not show keeps the price it had.
UpdateOrderBook(u) ==
  \E v \in Venues, q \in Quotes, book \in Books :
    Apply(u, v, [venue[v] EXCEPT !.book = book, !.old = FALSE,
                   !.bid = IF q[1] = 0 THEN @ ELSE q[1], !.ask = IF q[2] = 0 THEN @ ELSE q[2]])
UpdateFunding(u) ==
  \E v \in Venues, f \in Fundings :
    Apply(u, v, [venue[v] EXCEPT !.old = FALSE,
                   !.funding = [has |-> TRUE, rate |-> f.rate, hours |-> f.hours, at |-> updates + 1]])
UpdateHealth(u) ==
  \E v \in Venues, h \in {"HEALTHY", "UNHEALTHY"} : Apply(u, v, [venue[v] EXCEPT !.health = h])
NotifySubscribers ==
  feed' = [s \in Subscribers |-> IF feed[s] >= 0 /\ feed[s] < SubscriberBuffer THEN feed[s] + 1 ELSE feed[s]]
Merge(u) ==
  /\ updating[u] # 0 /\ updating' = [updating EXCEPT ![u] = 0]
  /\ inst' = MergeVenueState(inst, venue, updating[u]) /\ moved' = FALSE
  /\ NotifySubscribers /\ UNCHANGED <<venue, updates>>

\* A venue falls silent, and the sweep looks at every venue.
Age == \E v \in Venues : /\ ~venue[v].old /\ venue' = [venue EXCEPT ![v].old = TRUE]
                         /\ UNCHANGED <<inst, updating, moved, feed, updates>>
Swept(state) ==
  [state EXCEPT !.health = IF state.old THEN "STALE"
                           ELSE IF @ \in {"STALE", "UNKNOWN"} THEN "HEALTHY" ELSE @]
ExcludeStaleVenues ==
  /\ venue' = [v \in Venues |-> Swept(venue[v])]
  /\ moved' = (moved \/ venue' # venue) /\ UNCHANGED <<inst, updating, feed, updates>>

(* A browser: subscribe, write what waits, leave when a write fails.        *)
SubscribeWS(s) == feed[s] = -1 /\ feed' = [feed EXCEPT ![s] = 0] /\ UNCHANGED <<venue, inst, updating, moved, updates>>
HandleWSMessages(s) ==
  /\ feed[s] > 0 /\ feed' = [feed EXCEPT ![s] = @ - 1] /\ UNCHANGED <<venue, inst, updating, moved, updates>>
Unsubscribe(s) ==
  /\ feed[s] > 0 /\ feed' = [feed EXCEPT ![s] = -1] /\ UNCHANGED <<venue, inst, updating, moved, updates>>

UnifiedNext ==
  \/ \E u \in Updaters : UpdateTicker(u)
  \/ \E u \in Updaters : UpdateOrderBook(u)
  \/ \E u \in Updaters : UpdateFunding(u)
  \/ \E u \in Updaters : UpdateHealth(u)
  \/ \E u \in Updaters : Merge(u)
  \/ Age
  \/ ExcludeStaleVenues
  \/ \E s \in Subscribers : SubscribeWS(s)
  \/ \E s \in Subscribers : HandleWSMessages(s)
  \/ \E s \in Subscribers : Unsubscribe(s)

---------------------------------------------------------------------------
(* What is shown as best is what a healthy venue shows now, and no healthy   *)
(* venue shows better: between two updates, when no sweep has changed a      *)
(* health that nothing has merged yet.                                       *)
BestOfHealthy ==
  (\A u \in Updaters : updating[u] = 0) /\ ~moved =>
    LET good == Healthy(venue, inst.merged)
    IN  /\ inst.bid # 0 => \E v \in good : venue[v].bid = inst.bid
        /\ inst.ask # 0 => \E v \in good : venue[v].ask = inst.ask
        /\ \A v \in good : /\ venue[v].bid <= inst.bid
                           /\ venue[v].ask # 0 => inst.ask # 0 /\ inst.ask <= venue[v].ask
        /\ inst.healthy = Cardinality(good)
=============================================================================

------------------------------ MODULE MCReads ------------------------------
(* What a wallet's pages are made of: the tabs' shared cache (OnDemand) and  *)
(* their pages (TabPages).  They share no state, so each is checked from     *)
(* starting points of its own, the cache four times: two tabs that read one  *)
(* universe; universes of two wallets, of which one is kept; tabs that sum   *)
(* what answers; tabs of one call, and what is refused.                      *)
EXTENDS Integers, Sequences, FiniteSets, TLC

CONSTANTS Callers, Wallets, Requests, Dexes, Ttl, MaxUniverses, MaxNow, MaxFetches  \* OnDemand

VARIABLES
  part,
  now, fetches, cache, flight, caller,  \* OnDemand
  source, stable, changes, walk         \* TabPages

Tabs == INSTANCE OnDemand
ASSUME TabsAssumption == Tabs!OnDemandAssumption

Question(tab, wallet, period, mode) == [tab |-> tab, wallet |-> wallet, period |-> period, mode |-> mode, valid |-> TRUE]
Asked ==
  [universe |-> {Question("activity", "w", "", ""), Question("detail", "w", "30D", "")},
   evicting |-> {Question("activity", w, "", "") : w \in {"w", "x"}},
   partial  |-> {Question("balances", "w", "", ""), Question("orders", "w", "", "open"), Question("detail", "w", "ALL", "")},
   plain    |-> {Question("fills", "w", "", ""), Question("performance", "w", "1D", "perps"), Question("fills", "z", "", ""),
                 Question("performance", "w", "1D", "series"), [Question("orders", "w", "", "?") EXCEPT !.valid = FALSE]}]
MCRequests == UNION {Asked[p] : p \in DOMAIN Asked}
MCWallets == {"w", "x"}
\* What a part may fetch, and how long it runs.
FetchesOf == [universe |-> 3, evicting |-> 4, partial |-> 2, plain |-> 2]
TicksOf == [universe |-> 3, evicting |-> 3, partial |-> 2, plain |-> 2]
tabsVars == <<now, fetches, cache, flight, caller>>

---------------------------------------------------------------------------
NoNumber == -99  \* as TabPages writes it
FillRow(t, i, side, size) == [time |-> t, tid |-> i, side |-> side, size |-> size, price |-> 1]
Moved(t, h, type, flag) == [time |-> t, hash |-> h, type |-> type, flag |-> flag]
Order(t, o, c) == [time |-> t, oid |-> o, coin |-> c, side |-> "B", size |-> 1]
Pos(c, s, v) == [coin |-> c, szi |-> s, value |-> v]
TradeRow(m, o, c, pnl, fees, entry, side) ==
  [market |-> m, opened |-> o, closed |-> c, pnl |-> pnl, fees |-> fees, entry |-> entry, side |-> side]
Scan(w, pnl, roi, member, period) == [wallet |-> w, pnl |-> pnl, roi |-> roi, member |-> member, period |-> period]
Query(tab, sort, desc, limit) ==
  [tab |-> tab, sort |-> sort, desc |-> desc, limit |-> limit, result |-> "all", side |-> "all",
   period |-> "30D", group |-> "none", min |-> NoNumber, max |-> NoNumber, page |-> 0]

\* Rows that tie on their first sort key, lack a value or cannot be parsed.
FillRows == <<FillRow(3, 5, "B", 1), FillRow(3, 7, "A", 1), FillRow(1, 2, "BUY", 1), FillRow(2, 3, "B", 1),
           FillRow(2, 4, "?", 1), FillRow(2, 6, "A", 0)>>
Transfers == <<Moved(3, 2, "deposit", "no"), Moved(3, 1, "send", "yes"), Moved(1, 4, "loan", "none"),
               Moved(2, 3, "withdraw", "none"), Moved(0, 9, "send", "none")>>
Activity == <<TradeRow(1, 1, 4, 5, 1, 7, "LONG"), TradeRow(2, 2, 4, 1, 1, NoNumber, "SHORT"), TradeRow(1, 3, 6, -2, 1, 7, "LONG"),
              TradeRow(2, 3, 6, 5, 1, 9, "SHORT"), TradeRow(1, 5, 9, 4, 0, NoNumber, "LONG")>>
Scanner == <<Scan(1, 5, 3, TRUE, "30D"), Scan(2, 5, NoNumber, TRUE, "30D"), Scan(3, NoNumber, 2, FALSE, "30D"),
             Scan(4, 7, 4, TRUE, "30D"), Scan(5, NoNumber, 1, TRUE, "30D"), Scan(6, 1, 1, TRUE, "7D")>>
Pages == INSTANCE TabPages WITH
  MaxChanges <- 1,
  Sources <- [t \in {"fills", "transfers", "open", "historical", "positions", "activity", "search"} |->
    CASE t = "fills" -> {FillRows, <<FillRow(4, 8, "B", 1)>> \o FillRows, Tail(FillRows)}
      [] t = "transfers" -> {Transfers, <<Moved(4, 5, "deposit", "none")>> \o Transfers,
                             Transfers \o <<Moved(1, 4, "loan", "yes")>>}
      [] t = "historical" -> {<<Order(1, 1, 1), Order(3, 2, 1), Order(2, 3, 0)>>}
      [] t = "open" -> {<< <<Order(1, 1, 1), Order(3, 2, 1)>>, <<Order(2, 2, 1), Order(4, 0, 1), Order(5, 9, 0)>>,
                           <<Order(4, 0, 2)>> >>}
      [] t = "positions" -> {<< <<Pos(1, 2, 6), Pos(3, -1, NoNumber)>>, <<Pos(2, 1, 3), Pos(4, 0, 1), Pos(5, 1, NoNumber)>> >>}
      [] t = "activity" -> {Activity, Activity \o <<TradeRow(3, 4, 5, 4, 0, 8, "LONG")>>, Tail(Activity)}
      [] t = "search" -> {Scanner, [Scanner EXCEPT ![1].pnl = 9], [Scanner EXCEPT ![4].pnl = NoNumber, ![3].pnl = 6]}],
  Queries <-
    {Query(t, "time", TRUE, l) : t \in {"fills", "transfers", "open", "historical"}, l \in {1, 2, 9, 0}}
    \cup {Query("positions", s, d, 9) : s \in {"coin", "size", "mark_price", "position_value"}, d \in BOOLEAN}
    \cup {Query("activity", s, d, 2) :
            s \in {"closed_at", "opened_at", "market", "net_pnl", "duration", "entry_price"}, d \in BOOLEAN}
    \cup {[Query("activity", "net_pnl", TRUE, 1) EXCEPT !.result = r, !.side = d] :
            r \in {"all", "win", "loss"}, d \in {"all", "long", "short"}}
    \cup {Query("search", s, d, l) : s \in {"pnl", "roi"}, d \in BOOLEAN, l \in {1, 2}}
    \cup {[Query("search", "pnl", TRUE, 2) EXCEPT !.page = p, !.group = g, !.min = m] :
            p \in {-1, 0, 1, 4}, g \in {"none", "mine", "others"}, m \in {NoNumber, 2}}
pageVars == <<source, stable, changes, walk>>

---------------------------------------------------------------------------
MCInit ==
  /\ part \in DOMAIN Asked \cup {"pages"}
  /\ Tabs!Init /\ Pages!Init

TabsNext ==
  /\ part \in DOMAIN Asked
  /\ Tabs!Next
  /\ \A c \in Callers : caller'[c].pc = "idle" \/ caller'[c].q \in Asked[part]
  /\ fetches' <= FetchesOf[part] /\ now' <= TicksOf[part]
MCNext ==
  \/ TabsNext /\ UNCHANGED <<part, pageVars>>
  \/ part = "pages" /\ Pages!TabNext /\ UNCHANGED <<part, tabsVars>>
Symmetry == Permutations(Callers)
ReadsSpec == MCInit /\ [][MCNext]_<<part, tabsVars, pageVars>>

---------------------------------------------------------------------------
\* A tab answers what is as young as it says, waits only for a fetch that is
\* under way, keeps its last value and few universes (OnDemand).
OnDemandHolds == Tabs!OnDemandHolds
\* The pages of a tab show each row once, in order (TabPages).
PagesHold == Pages!PagesHold
\* Concurrent readers of a tab are all answered (OnDemand).
BurstsShare == Tabs!BurstsShare
=============================================================================

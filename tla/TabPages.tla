------------------------------ MODULE TabPages ------------------------------
(* Rows a reader pages through (internal/trader): the wallet's fills, orders,*)
(* transfers, positions and closed trades, built from what the venue answers,*)
(* and the scanner's search over the period metrics.  A page ends with a     *)
(* cursor that names its last row; the rows may change before the next page. *)
(* Names (coins, hashes, wallets) are numbers in their alphabetical order.   *)
EXTENDS Integers, Sequences, FiniteSets, SequencesExt

CONSTANTS
  Sources,     \* tab -> the lists the venue or the database may hold
  Queries,     \* what readers ask
  MaxChanges   \* bound on the changes of the source during a walk

VARIABLES
  source,   \* what the venue or the database holds now
  stable,   \* the rows that were there, unchanged, since the walk began
  changes,  \* how often the source changed
  walk      \* the reader: query, rows so far, cursor, whether there is more

tpVars == <<source, stable, changes, walk>>

Null == -99
NoCursor == [fp |-> <<>>, key |-> <<>>]
\* Stable sort by a strict order.
Arranged(s, Less(_, _)) ==
  LET idx == SetToSortSeq(DOMAIN s, LAMBDA i, j : Less(s[i], s[j]) \/ (~Less(s[j], s[i]) /\ i < j))
  IN  [k \in DOMAIN s |-> s[idx[k]]]
\* The comparisons of the sort functions: -1 when a is shown before b, nulls last.
Compare(a, b, desc) == IF a = b THEN 0 ELSE IF desc <=> (a > b) THEN -1 ELSE 1
CompareNull(a, b, desc) ==
  IF a = Null \/ b = Null THEN (IF a = b THEN 0 ELSE IF a = Null THEN 1 ELSE -1) ELSE Compare(a, b, desc)
Lexicographic(cs) ==
  LET decided == {i \in DOMAIN cs : cs[i] /= 0}
  IN  IF decided = {} THEN 0 ELSE cs[CHOOSE i \in decided : \A j \in decided : i <= j]

---------------------------------------------------------------------------
\* Fills: rows without a side, a size, a price or a time are skipped; newest first.
NormalizeSideForOrder(side) == CASE side \in {"B", "BUY"} -> "BUY" [] side \in {"A", "SELL"} -> "SELL" [] OTHER -> side
KnownSide(r) == NormalizeSideForOrder(r.side) \in {"BUY", "SELL"}
MapUserFills(raw) ==
  Arranged(SelectSeq(raw, LAMBDA r : KnownSide(r) /\ r.size > 0 /\ r.price >= 0 /\ r.time > 0),
           LAMBDA a, b : a.time > b.time \/ (a.time = b.time /\ a.tid > b.tid))
FillAfter(r, key) == ~(r.time > key[1] \/ (r.time = key[1] /\ r.tid >= key[2]))

\* Transfers: rows without a time or a hash are skipped, an unknown type is
\* "other"; newest first, then by hash.
TransferTypes == {"deposit", "withdraw", "send", "other"}
IsDeposit(r) == CASE r.type = "deposit" -> "yes" [] r.type = "withdraw" -> "no" [] OTHER -> r.flag
MapLedgerUpdates(raw) ==
  LET mapped == [i \in DOMAIN raw |-> [raw[i] EXCEPT !.type = IF @ \in TransferTypes THEN @ ELSE "other",
                                                     !.flag = IsDeposit(raw[i])]]
  IN  Arranged(SelectSeq(mapped, LAMBDA r : r.time > 0 /\ r.hash > 0),
               LAMBDA a, b : a.time > b.time \/ (a.time = b.time /\ a.hash < b.hash))
OlderThan(r, key) == r.time < key[1]  \* a mutant
TransferAfter(r, key) == ~(r.time > key[1] \/ (r.time = key[1] /\ r.hash <= key[2]))

\* Open orders of every dex that answered: one row per order id (0 is no id),
\* newest first; historical orders keep the order of the venue.
ValidOrder(r) == KnownSide(r) /\ r.coin /= 0 /\ r.size > 0 /\ r.time > 0
MapOpenOrders(raw) == SelectSeq(raw, ValidOrder)
MapHistoricalOrders(raw) == SelectSeq(raw, ValidOrder)
FetchOpenOrdersAllDexes(dexes) ==
  LET all == FlattenSeq([d \in DOMAIN dexes |-> MapOpenOrders(dexes[d])])
      first == {i \in DOMAIN all : all[i].oid = 0 \/ \A j \in 1..(i - 1) : all[j].oid /= all[i].oid}
      kept == [k \in 1..Cardinality(first) |-> all[SetToSortSeq(first, <)[k]]]
  IN  Arranged(kept, LAMBDA a, b : a.time > b.time)

\* Positions of every dex that answered: no size or no coin is no position, the
\* mark is the value over the size; sorted by the server, nulls last.
MapClearinghouseToSnapshot(raw) ==
  LET open == SelectSeq(raw, LAMBDA p : p.szi /= 0 /\ p.coin /= 0)
  IN  [i \in DOMAIN open |->
        LET p == open[i] size == IF p.szi < 0 THEN -p.szi ELSE p.szi
        IN  [coin |-> p.coin, side |-> IF p.szi < 0 THEN "SHORT" ELSE "LONG", size |-> size, value |-> p.value,
             mark |-> IF p.value = Null THEN Null ELSE p.value \div size]]
FetchPositionsForDexes(dexes) == FlattenSeq([d \in DOMAIN dexes |-> MapClearinghouseToSnapshot(dexes[d])])
PositionFloat(p, sort) == CASE sort = "mark_price" -> p.mark [] OTHER -> p.value
ComparePositions(a, b, q) ==
  LET coins(desc) == Compare(a.coin, b.coin, desc)
  IN  CASE q.sort = "coin" -> coins(q.desc)
        [] q.sort = "size" -> Lexicographic(<<Compare(a.size, b.size, q.desc), coins(FALSE)>>)
        [] OTHER -> Lexicographic(<<CompareNull(PositionFloat(a, q.sort), PositionFloat(b, q.sort), q.desc), coins(FALSE)>>)
SortPositions(ps, q) == Arranged(ps, LAMBDA a, b : ComparePositions(a, b, q) < 0)

---------------------------------------------------------------------------
\* Closed trades: filtered by result and side, sorted by a column, then by closing
\* time, market and opening time.
Net(r) == r.pnl - r.fees
ActivityCounts(all) ==
  LET count(P(_)) == Cardinality({i \in DOMAIN all : P(all[i])})
  IN  [total |-> Len(all), win |-> count(LAMBDA r : Net(r) > 0), loss |-> count(LAMBDA r : Net(r) < 0),
       long |-> count(LAMBDA r : r.side = "LONG"), short |-> count(LAMBDA r : r.side = "SHORT")]
FilterActivityRows(all, q) ==
  SelectSeq(all, LAMBDA r :
    /\ q.side = "long" => r.side = "LONG"
    /\ q.side = "short" => r.side = "SHORT"
    /\ q.result = "win" => Net(r) > 0
    /\ q.result = "loss" => Net(r) < 0)
ActivityPrimary(r, sort) ==
  CASE sort = "closed_at" -> r.closed [] sort = "opened_at" -> r.opened [] sort = "market" -> r.market
    [] sort = "net_pnl" -> Net(r) [] sort = "duration" -> r.closed - r.opened [] OTHER -> r.entry
CompareActivity(a, b, q) ==
  Lexicographic(<<CompareNull(ActivityPrimary(a, q.sort), ActivityPrimary(b, q.sort), q.desc),
                  Compare(a.closed, b.closed, q.desc), Compare(a.market, b.market, FALSE), Compare(a.opened, b.opened, FALSE)>>)
SortActivityRows(rows, q) == Arranged(rows, LAMBDA a, b : CompareActivity(a, b, q) < 0)
ActivityCursor(r, q) == <<ActivityPrimary(r, q.sort), r.closed, r.market, r.opened>>
\* The cursor's own comparison: a null column ties with a null cursor, comes after
\* any other, and nothing else comes after a null cursor.
ComparePrimaryToAfter(v, after, desc) ==
  IF v = after THEN 0
  ELSE IF after = Null THEN -1
  ELSE IF v = Null THEN 1
  ELSE IF desc <=> (v < after) THEN 1 ELSE -1
CompareTimeToAfter(t, after, desc) == IF t = after THEN 0 ELSE IF desc <=> (t < after) THEN 1 ELSE -1
CompareRowToAfter(r, key, q) ==
  Lexicographic(<<ComparePrimaryToAfter(ActivityPrimary(r, q.sort), key[1], q.desc), CompareTimeToAfter(r.closed, key[2], q.desc),
                  CompareTimeToAfter(r.market, key[3], FALSE), CompareTimeToAfter(r.opened, key[4], FALSE)>>)

---------------------------------------------------------------------------
\* Search: rows of the period and the group within the ranges, a bounded column
\* must not be null; ordered by the column, nulls last, then by wallet.
MetricColumn(r, sort) == IF sort = "roi" THEN r.roi ELSE r.pnl
SearchFilter(rows, q) ==
  SelectSeq(rows, LAMBDA r :
    /\ r.period = q.period
    /\ q.group = "none" \/ r.member
    /\ (q.min /= Null \/ q.max /= Null) => r.roi /= Null
    /\ q.min /= Null => r.roi >= q.min
    /\ q.max /= Null => r.roi <= q.max)
OrderBy(rows, q) ==
  Arranged(rows, LAMBDA a, b : Lexicographic(<<CompareNull(MetricColumn(a, q.sort), MetricColumn(b, q.sort), q.desc),
                                               Compare(a.wallet, b.wallet, FALSE)>>) < 0)
\* The keyset predicate of the query's WHERE.
SearchAfter(r, key, q) ==
  LET v == MetricColumn(r, q.sort)
  IN  IF key[1] = Null THEN v = Null /\ r.wallet > key[2]
      ELSE \/ v /= Null /\ (IF q.desc THEN v < key[1] ELSE v > key[1])
           \/ v = Null
           \/ v = key[1] /\ r.wallet > key[2]
TotalPages(total, limit) == IF total <= 0 \/ limit <= 0 THEN 0 ELSE (total + limit - 1) \div limit
UseOffset(q) == q.tab = "search" /\ q.page /= 0
\* A group filter needs the group's owner: the group is looked up first.
OwnGroup(q) == q.group \in {"none", "mine"}
MaxLimit(tab) == CASE tab = "fills" -> 200 [] tab = "transfers" -> 500 [] tab \in {"activity", "search"} -> 100 [] OTHER -> 2000
Validate(q) ==
  /\ q.limit \in 1..MaxLimit(q.tab)
  /\ q.tab = "search" => ~(q.min /= Null /\ q.max /= Null /\ q.min > q.max) /\ OwnGroup(q) /\ q.page >= 0
Fingerprint(q) == [q EXCEPT !.page = 0, !.limit = IF q.tab = "search" THEN @ ELSE 0]

---------------------------------------------------------------------------
\* The rows of a tab in display order, and those after the cursor.
Rows(src, q) ==
  CASE q.tab = "fills" -> MapUserFills(src)
    [] q.tab = "transfers" -> MapLedgerUpdates(src)
    [] q.tab = "open" -> FetchOpenOrdersAllDexes(src)
    [] q.tab = "historical" -> MapHistoricalOrders(src)
    [] q.tab = "positions" -> SortPositions(FetchPositionsForDexes(src), q)
    [] q.tab = "activity" -> SortActivityRows(FilterActivityRows(src, q), q)
    [] q.tab = "search" -> OrderBy(SearchFilter(src, q), q)
After(r, key, q) ==
  \/ key = <<>>
  \/ q.tab = "fills" /\ FillAfter(r, key)
  \/ q.tab = "transfers" /\ TransferAfter(r, key)
  \/ q.tab = "activity" /\ CompareRowToAfter(r, key, q) > 0
  \/ q.tab = "search" /\ SearchAfter(r, key, q)
CursorOf(r, q) ==
  CASE q.tab = "fills" -> <<r.time, r.tid>> [] q.tab = "transfers" -> <<r.time, r.hash>>
    [] q.tab = "activity" -> ActivityCursor(r, q) [] OTHER -> <<MetricColumn(r, q.sort), r.wallet>>
Paged(q) == q.tab \in {"fills", "transfers", "activity", "search"}

\* One more row than the limit tells that there is more; the cursor is the last
\* row shown.  Positions are never cut, orders are, without a cursor.
Cut(left, q) ==
  LET cut == IF q.tab = "positions" THEN left ELSE SubSeq(left, 1, IF Len(left) > q.limit THEN q.limit ELSE Len(left))
      more == Paged(q) /\ Len(left) > q.limit
  IN  [rows |-> cut, more |-> more,
       cursor |-> IF more THEN [fp |-> Fingerprint(q), key |-> CursorOf(Last(cut), q)] ELSE NoCursor]
KeysetPage(src, q, key) == Cut(SelectSeq(Rows(src, q), LAMBDA r : After(r, key, q)), q)
\* A numbered page: the count first, then the window; past the last page is empty.
Numbered(all, q) ==
  LET total == Len(all)
      from == (q.page - 1) * q.limit
      to == IF from + q.limit > total THEN total ELSE from + q.limit
      rows == IF total > 0 /\ q.page > TotalPages(total, q.limit) THEN <<>> ELSE SubSeq(all, from + 1, to)
  IN  [rows |-> rows, more |-> from + Len(rows) < total, cursor |-> NoCursor]
OffsetPage(src, q) == Numbered(Rows(src, q), q)
Page(src, q, key) == IF UseOffset(q) THEN OffsetPage(src, q) ELSE KeysetPage(src, q, key)
Total(src, q) == IF q.tab = "activity" THEN ActivityCounts(src)
                 ELSE [total |-> IF q.tab = "search" THEN Len(SearchFilter(src, q)) ELSE 0]

NoWalk == [pc |-> "none", first |-> 0, q |-> CHOOSE q \in Queries : TRUE, got |-> <<>>, more |-> FALSE, cursor |-> NoCursor, total |-> [total |-> 0]]
Init ==
  /\ source = <<>> /\ stable = {} /\ changes = 0 /\ walk = NoWalk

Walked(p, q, first, got, total) ==
  [pc |-> IF p.more THEN "walking" ELSE "ended", first |-> first, q |-> q, got |-> got \o p.rows,
   more |-> p.more, cursor |-> p.cursor, total |-> total]
Next1(q, key) == walk' = Walked(Page(source, q, key), q, walk.first, walk.got, Total(source, q))
\* The first page.
Open(q) ==
  /\ walk.pc = "none"
  /\ source' \in Sources[q.tab]
  /\ stable' = ToSet(Rows(source', [q EXCEPT !.page = 0]))
  /\ UNCHANGED changes
  /\ IF Validate(q) THEN walk' = Walked(Page(source', q, <<>>), q, q.page, <<>>, Total(source', q))
     ELSE walk' = [NoWalk EXCEPT !.pc = "refused", !.q = q]
\* The next page, with the cursor or the next number.
Turn ==
  /\ walk.pc = "walking"
  /\ IF UseOffset(walk.q) THEN Next1([walk.q EXCEPT !.page = @ + 1], <<>>) ELSE Next1(walk.q, walk.cursor.key)
  /\ UNCHANGED <<source, stable, changes>>
\* A cursor is bound to its query: another query refuses it.
TurnOther(q) ==
  /\ walk.pc = "walking" /\ walk.cursor /= NoCursor /\ q.tab = walk.q.tab /\ ~UseOffset(q)
  /\ IF Validate(q) /\ Fingerprint(q) = walk.cursor.fp THEN Next1(q, walk.cursor.key)
     ELSE walk' = [walk EXCEPT !.pc = "refused"]
  /\ UNCHANGED <<source, stable, changes>>
\* The cached value expires and the venue answers other rows, or the metrics are recalculated.
Change ==
  /\ walk.pc = "walking" /\ changes < MaxChanges
  /\ source' \in Sources[walk.q.tab] \ {source}
  /\ stable' = stable \cap ToSet(Rows(source', [walk.q EXCEPT !.page = 0]))
  /\ changes' = changes + 1
  /\ UNCHANGED walk

TabNext == Turn \/ Change \/ \E q \in Queries : Open(q) \/ TurnOther(q)

---------------------------------------------------------------------------
\* A row of a name no other row shares.
Alone(r, q) == \A s \in stable : CursorOf(s, q) = CursorOf(r, q) => s = r
Times(r) == Cardinality({i \in DOMAIN walk.got : walk.got[i] = r})
\* A walk by cursor shows every row that stays as it was exactly once, whatever
\* else comes, changes or goes between the pages, and what it shows is in order.
ShownOnce ==
  walk.pc = "ended" /\ Paged(walk.q) /\ ~UseOffset(walk.q) =>
    /\ \A r \in stable : Alone(r, walk.q) => Times(r) = 1
    /\ \A i \in 1..(Len(walk.got) - 1) : After(walk.got[i + 1], CursorOf(walk.got[i], walk.q), walk.q)
         \/ CursorOf(walk.got[i + 1], walk.q) = CursorOf(walk.got[i], walk.q)
\* While nothing changes the numbered pages show every row from the first page
\* asked for, once, and the totals a page
\* tells are those of the rows.
TotalsAgree ==
  walk.pc = "ended" /\ changes = 0 =>
    /\ UseOffset(walk.q) =>
         walk.got = SubSeq(Rows(source, walk.q), (walk.first - 1) * walk.q.limit + 1, walk.total.total)
    /\ walk.q.tab = "search" /\ ~UseOffset(walk.q) => Len(walk.got) = walk.total.total
    /\ walk.q.tab = "activity" /\ (\A r \in stable : Alone(r, walk.q)) /\ walk.q.side = "all" =>
         Len(walk.got) = CASE walk.q.result = "win" -> walk.total.win [] walk.q.result = "loss" -> walk.total.loss
                           [] OTHER -> walk.total.total
\* Orders and positions: one row per order id and none newer left out; positions
\* without the sorted value come last in both directions.
AnswerOrdered ==
  walk.pc = "ended" =>
    /\ walk.q.tab = "open" =>
         /\ \A i, j \in DOMAIN walk.got : i < j =>
              walk.got[i].time >= walk.got[j].time /\ (walk.got[i].oid = walk.got[j].oid => walk.got[i].oid = 0)
         /\ walk.got /= <<>> => \A r \in stable : r.time > Last(walk.got).time => r \in ToSet(walk.got)
    /\ walk.q.tab = "positions" =>
         \A i, j \in DOMAIN walk.got : i < j /\ walk.q.sort \notin {"coin", "size"} =>
           (PositionFloat(walk.got[i], walk.q.sort) = Null => PositionFloat(walk.got[j], walk.q.sort) = Null)
PagesHold == ShownOnce /\ TotalsAgree /\ AnswerOrdered
=============================================================================

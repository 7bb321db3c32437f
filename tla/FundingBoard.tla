---------------------------- MODULE FundingBoard ----------------------------
(***************************************************************************)
(* Funding rates from the venues to the arbitrage board.  Every cycle one  *)
(* goroutine per venue fetches the venue's readings, finds or makes the    *)
(* instrument of each, stores a rate that changed and drops the venue from *)
(* the board's cache.  A request takes each pair of venues from the cache  *)
(* or builds it from the latest rows, and cuts a page out of all pairs.    *)
(* Time is in classes: a row is under 15 minutes old, under an hour, or    *)
(* older; a cached pair is served for two minutes.                         *)
(***************************************************************************)
EXTENDS Api, Integers, Sequences, FiniteSets

CONSTANTS
  Venues,
  Apis,         \* by venue: the adapter that reads it
  Listings,     \* by venue, in order: what it lists (symbol, stem, suffix, base, quote, kind, active, priced)
  Rates, Marks, \* readings of a rate, per hour, and of a price; 0 stands for none
  Requests, Asked, \* requests, and what each may ask: venues in order, sort, page, ...
  MaxCycles     \* bound

VARIABLES
  instruments,  \* the canonical symbols of the table
  mapping,      \* venue_instruments: venue, symbol, instrument
  rates,        \* the latest row of funding_rates by venue and instrument
  collector,    \* the goroutine of each venue
  cycles,
  cache,        \* by pair: the tokens
  request       \* the requests under way

collectVars == <<instruments, mapping, rates, collector, cycles>>

Resting == [pc |-> "rest", item |-> 0, reading |-> <<>>, inst |-> "", lost |-> {}]
NoAsk == [venues |-> <<>>, sort |-> "rate", page |-> 0, offset |-> 0, limit |-> 0, stale |-> FALSE, refresh |-> FALSE]
NoRequest == [pc |-> "none", ask |-> NoAsk, known |-> {}, todo |-> {}, insts |-> {}, first |-> <<>>, tokens |-> {},
              raced |-> FALSE, pairs |-> <<>>]
TablesEmpty ==
  /\ instruments = {} /\ mapping = {} /\ rates = [k \in {} |-> <<>>]
  /\ collector = [v \in Venues |-> Resting]
  /\ cache = [k \in {} |-> <<>>] /\ request = [r \in Requests |-> NoRequest]
Init == TablesEmpty /\ cycles = 0

---------------------------------------------------------------------------
(* The collector.                                                          *)

\* The rows an adapter keeps of what its venue lists, which stay in that order.
\* Binance: perpetuals, whatever their status, that the premium index knows.
FetchPerpSymbols(raw) == {i \in DOMAIN raw : raw[i].kind = "PERPETUAL"}
FetchAllFunding(raw) == {i \in FetchPerpSymbols(raw) : raw[i].priced}
FetchAllMarkets(raw) == {i \in DOMAIN raw : raw[i].kind = "PERPETUAL" /\ raw[i].active}
\* Hyperliquid: the universe is cut to the contexts that came with it; "@" is spot.
FetchUniverse(raw) == {i \in DOMAIN raw : raw[i].priced /\ raw[i].kind = "PERPETUAL" /\ raw[i].active}

\* A symbol is a stem and a suffix; a suffix no rule knows stays in the stem.
Quotes == {"USDT", "BUSD", "USDC", "BTC", "ETH", "BNB"}
NormalizeBaseAsset(l, api) ==
  IF l.stem # "" /\ (api = "extended" \/ l.suffix \in Quotes \cup {"USD"}) THEN l.stem ELSE l.symbol
NormalizeQuoteAsset(l, api) ==
  IF l.stem # "" /\ l.suffix # "" /\ (api = "extended" \/ l.suffix \in Quotes) THEN l.suffix ELSE "USD"
Given(value, otherwise) == IF value # "" THEN value ELSE otherwise
Named(l, base, quote) == [symbol |-> l.symbol, base |-> base, quote |-> quote]
CollectBinance(raw) == [i \in FetchAllFunding(raw) |-> LET l == raw[i] IN
  Named(l, Given(l.base, NormalizeBaseAsset(l, "binance")), Given(l.quote, NormalizeQuoteAsset(l, "binance")))]
CollectExtended(raw) == [i \in FetchAllMarkets(raw) |-> LET l == raw[i] IN
  Named(l, Given(l.base, NormalizeBaseAsset(l, "extended")), NormalizeQuoteAsset(l, "extended"))]
\* FetchAllListings keeps everything and takes the dollars off the ticker.
Ticker(l) == IF l.suffix \in {"USDT", "USD", "BUSD", "USDC"} THEN l.stem ELSE l.symbol
CollectVariational(raw) == [i \in DOMAIN raw |-> LET l == raw[i] IN
  Named(l, Given(Ticker(l), NormalizeBaseAsset(l, "variational")), "USD")]
CollectHyperliquid(raw) == [i \in FetchUniverse(raw) |-> Named(raw[i], raw[i].symbol, "USDT")]
Listed(v) == CASE Apis[v] = "binance" -> CollectBinance(Listings[v])
               [] Apis[v] = "extended" -> CollectExtended(Listings[v])
               [] Apis[v] = "variational" -> CollectVariational(Listings[v])
               [] OTHER -> CollectHyperliquid(Listings[v])
\* What a venue lists is in numbered rows, and a symbol stands for one token of it.
BoardAssumption ==
  /\ \A v \in Venues : DOMAIN Listings[v] \subseteq Nat \ {0} /\ \A i, j \in DOMAIN Listed(v) :
       Listed(v)[i].symbol = Listed(v)[j].symbol => Listed(v)[i].base = Listed(v)[j].base
  /\ \A ask \in Asked : ask.venues \in Seq(Venues) /\ {ask.limit, ask.page, ask.offset} \subseteq Int

\* The canonical symbol: the stable coins are dollars.
StableCoins == {"USDT", "BUSD", "USDC"}
Canonical(l) == <<l.base, IF l.quote \in StableCoins THEN "USD" ELSE l.quote>>
Item(v) == Listed(v)[collector[v].item]
Reading(v) == collector[v].reading[collector[v].item]
Go(v, pc) == collector' = [collector EXCEPT ![v].pc = pc]
\* The next reading, or the invalidation.
NextItem(v, c) ==
  LET left == {i \in DOMAIN Listed(v) : i > c.item} IN
  IF left = {} THEN [c EXCEPT !.pc = "drop"]
  ELSE [c EXCEPT !.item = CHOOSE i \in left : \A j \in left : i <= j, !.pc = "map"]

\* A tick while the venues of the last one are not done waits for them.
Cycle ==
  /\ \A v \in Venues : collector[v].pc = "rest"
  /\ cycles < MaxCycles /\ cycles' = cycles + 1
  /\ collector' = [v \in Venues |-> [collector[v] EXCEPT !.pc = "fetch"]]
  /\ UNCHANGED <<instruments, mapping, rates, cache, request>>
\* A venue that cannot be reached, or read, ends its part of the cycle.
Fetch(v) ==
  /\ collector[v].pc = "fetch"
  /\ \/ \E reading \in [DOMAIN Listed(v) -> Rates] :
          collector' = [collector EXCEPT ![v] = NextItem(v, [Resting EXCEPT !.reading = reading])]
     \/ collector' = [collector EXCEPT ![v] = Resting]
  /\ UNCHANGED <<instruments, mapping, rates, cycles, cache, request>>
Mapped(v, l) == {m \in mapping : m[1] = v /\ m[2] = l.symbol}
\* ensureInstrument: the mapping, else the instrument by its canonical symbol.
FindMapping(v) ==
  /\ collector[v].pc = "map"
  /\ LET found == Mapped(v, Item(v)) IN
     collector' = [collector EXCEPT ![v].pc = IF found # {} THEN "store"
                                              ELSE IF Canonical(Item(v)) \in instruments THEN "link" ELSE "create",
                                    ![v].inst = IF found # {} THEN (CHOOSE m \in found : TRUE)[3] ELSE Canonical(Item(v))]
  /\ UNCHANGED <<instruments, mapping, rates, cycles, cache, request>>
\* Two venues may both find it missing: the second insert fails and the reading
\* is left to the next cycle.
CreateInstrument(v) ==
  /\ collector[v].pc = "create"
  /\ IF collector[v].inst \in instruments
     THEN /\ collector' = [collector EXCEPT ![v] = [NextItem(v, collector[v]) EXCEPT !.lost = @ \cup {collector[v].item}]]
          /\ UNCHANGED instruments
     ELSE instruments' = instruments \cup {collector[v].inst} /\ Go(v, "link")
  /\ UNCHANGED <<mapping, rates, cycles, cache, request>>
\* ON CONFLICT DO NOTHING: a second symbol of the venue for the instrument
\* leaves no mapping, and its rates are stored with the first one's.
LinkInstrument(v) ==
  /\ collector[v].pc = "link" /\ Go(v, "store")
  /\ mapping' = IF \E m \in mapping : m[1] = v /\ (m[2] = Item(v).symbol \/ m[3] = collector[v].inst) THEN mapping
                ELSE mapping \cup {<<v, Item(v).symbol, collector[v].inst>>}
  /\ UNCHANGED <<instruments, rates, cycles, cache, request>>
Key(v) == <<v, collector[v].inst>>
\* shouldStoreFunding: the first, a changed, or one an hour after the last.
ShouldStore(v) == Key(v) \notin DOMAIN rates \/ rates[Key(v)].rate # Reading(v) \/ rates[Key(v)].age = 2
Asks(q) == {q.ask.venues[i] : i \in DOMAIN q.ask.venues}
Overlap(v) == [r \in Requests |-> [request[r] EXCEPT !.raced = @ \/ v \in Asks(request[r])]]
\* A table, or the cache, with one entry written.
Written(table, key, entry) == [k \in DOMAIN table \cup {key} |-> IF k = key THEN entry ELSE table[k]]
StoreFunding(v) ==
  /\ collector[v].pc = "store" /\ collector' = [collector EXCEPT ![v] = NextItem(v, collector[v])]
  /\ IF ShouldStore(v)
     THEN /\ \E mark \in Marks : rates' = Written(rates, Key(v), [rate |-> Reading(v), mark |-> mark, age |-> 0])
          /\ request' = Overlap(v)
     ELSE UNCHANGED <<rates, request>>
  /\ UNCHANGED <<instruments, mapping, cycles, cache>>
InvalidateFirst(v) == cache' = [k \in {k \in DOMAIN cache : k[1] # v} |-> cache[k]] \* a mutant
Invalidate(v) == cache' = [k \in {k \in DOMAIN cache : v \notin {k[1], k[2]}} |-> cache[k]]
CollectorDone(v) ==
  /\ collector[v].pc = "drop" /\ Go(v, "rest")
  /\ Invalidate(v)
  /\ request' = Overlap(v)
  /\ UNCHANGED <<instruments, mapping, rates, cycles>>
\* Fifteen minutes, then an hour; whatever is cached is past its two minutes.
RowAges(k) ==
  /\ rates[k].age < 2 /\ rates' = [rates EXCEPT ![k].age = @ + 1]
  /\ \A r \in Requests : request[r].pc = "none"
  /\ \A v \in Venues : collector[v].pc = "rest"
  /\ cache' = [p \in {} |-> <<>>]
  /\ UNCHANGED <<instruments, mapping, collector, cycles, request>>

---------------------------------------------------------------------------
(* The board.                                                              *)

\* makeKey: the pair in the order of the ids, whatever order was asked.
MakeKey(pair) == IF pair[1] < pair[2] THEN pair ELSE <<pair[2], pair[1]>>
Pairs(venues) == {<<venues[p[1]], venues[p[2]]>> : p \in {p \in (DOMAIN venues) \X (DOMAIN venues) : p[1] < p[2]}}
\* The instruments that both venues of a pair list.
Common(pair, known) == {m[3] : m \in {m \in known : m[1] = pair[1]}} \cap {m[3] : m \in {m \in known : m[1] = pair[2]}}
\* In percent of the smaller mark; -1 stands for none.
Spread(a, b) == IF a = 0 \/ b = 0 THEN -1 ELSE IF a < b THEN ((b - a) * 100) \div a ELSE ((a - b) * 100) \div b
\* buildArbitrageToken from the two rows: long where the rate is lower.
Tokens(pair, i, a, b, stale) ==
  IF (a.age > 0 \/ b.age > 0) /\ ~stale THEN {}
  ELSE {[inst |-> i, symbol |-> i[1], long |-> IF a.rate < b.rate THEN pair[1] ELSE pair[2],
         net |-> IF a.rate < b.rate THEN b.rate - a.rate ELSE a.rate - b.rate,
         spread |-> Spread(a.mark, b.mark),
         first |-> a.rate, second |-> b.rate, stale |-> a.age > 0 \/ b.age > 0]}
\* What the rows say now.
Current(pair, stale) == UNION {Tokens(pair, i, rates[<<pair[1], i>>], rates[<<pair[2], i>>], stale) :
  i \in {i \in Common(pair, mapping) : {<<pair[1], i>>, <<pair[2], i>>} \subseteq DOMAIN rates}}

Step(r, new) == request' = [request EXCEPT ![r] = new] /\ UNCHANGED <<collectVars>>
\* 0 stands for a parameter that is not given; a page goes before an offset.
LimitOf(ask) == IF ask.limit = 0 THEN 50 ELSE ask.limit
Offset(ask) == IF ask.page # 0 THEN (ask.page - 1) * LimitOf(ask) ELSE ask.offset
Refused(ask) ==
  \/ Len(ask.venues) \notin 2..10 \/ (\E i, j \in DOMAIN ask.venues : i # j /\ ask.venues[i] = ask.venues[j])
  \/ ask.sort \notin {"rate", "spread"}
  \/ ask.limit \notin 0..200 \/ ask.page < 0 \/ (ask.page = 0 /\ ask.offset < 0)
\* The venues and their mappings are read once.
Ask(r) ==
  /\ request[r].pc = "none" /\ UNCHANGED cache
  /\ \E ask \in Asked : Step(r, IF Refused(ask) THEN [NoRequest EXCEPT !.pc = "refused", !.ask = ask]
                                 ELSE [NoRequest EXCEPT !.pc = "pair", !.ask = ask, !.known = mapping,
                                                          !.todo = Pairs(ask.venues)])
Pair(q) == CHOOSE p \in q.todo : TRUE
WithPair(q, tokens) == [q EXCEPT !.todo = @ \ {Pair(q)}, !.pairs = Append(@, [pair |-> Pair(q), tokens |-> tokens]),
                                 !.pc = "pair", !.tokens = {}]
FromCache(r) ==
  /\ request[r].pc = "pair" /\ request[r].todo # {} /\ ~request[r].ask.refresh /\ UNCHANGED cache
  /\ MakeKey(Pair(request[r])) \in DOMAIN cache
  /\ Step(r, WithPair(request[r], cache[MakeKey(Pair(request[r]))].tokens))
Build(r) ==
  /\ request[r].pc = "pair" /\ request[r].todo # {} /\ UNCHANGED cache
  /\ request[r].ask.refresh \/ MakeKey(Pair(request[r])) \notin DOMAIN cache
  /\ Step(r, [request[r] EXCEPT !.pc = "first", !.insts = Common(Pair(request[r]), request[r].known)])
\* A row that is missing, or cannot be read, leaves the token out.
ReadFirst(r) ==
  /\ request[r].pc = "first" /\ request[r].insts # {} /\ UNCHANGED cache
  /\ LET k == <<Pair(request[r])[1], CHOOSE i \in request[r].insts : TRUE>> IN
     Step(r, [request[r] EXCEPT !.pc = "second", !.first = IF k \in DOMAIN rates THEN <<rates[k]>> ELSE <<>>])
ReadSecond(r) ==
  /\ request[r].pc = "second" /\ UNCHANGED cache
  /\ LET i == CHOOSE i \in request[r].insts : TRUE
         k == <<Pair(request[r])[2], i>>
     IN  Step(r, [request[r] EXCEPT !.pc = "first", !.insts = @ \ {i}, !.tokens = @ \cup
           IF request[r].first = <<>> \/ k \notin DOMAIN rates THEN {}
           ELSE Tokens(Pair(request[r]), i, request[r].first[1], rates[k], request[r].ask.stale)])
\* The cache does not record the order of the venues, or include_stale.
CacheSet(r) ==
  /\ request[r].pc = "first" /\ request[r].insts = {}
  /\ cache' = Written(cache, MakeKey(Pair(request[r])),
       [tokens |-> request[r].tokens, pair |-> Pair(request[r]), stale |-> request[r].ask.stale, raced |-> request[r].raced])
  /\ Step(r, WithPair(request[r], request[r].tokens))

\* flattenTokens: the best token of each symbol over all pairs.
All(q) == UNION {q.pairs[i].tokens : i \in DOMAIN q.pairs}
SortValue(q, t) == IF q.ask.sort = "spread" THEN t.spread ELSE t.net
Best(q, s) == LET N == {SortValue(q, t) : t \in {t \in All(q) : t.symbol = s}} IN CHOOSE n \in N : \A m \in N : m <= n
Symbols(q) == {t.symbol : t \in All(q)}
\* sort.Slice is not stable and the list comes out of a map: ties fall anyhow.
Orders(q) == {o \in [1..Cardinality(Symbols(q)) -> Symbols(q)] :
  \A i, j \in DOMAIN o : i < j => o[i] # o[j] /\ Best(q, o[i]) >= Best(q, o[j])}
ComputeTotalPages(total, limit) == IF total = 0 THEN 0 ELSE (total + limit - 1) \div limit
\* applyGlobalPagination
Paginated(order, offset, limit) == {order[i] : i \in {i \in DOMAIN order : i > offset /\ i <= offset + limit}}
HasMore(order, offset, limit) == offset + limit < Len(order)
\* redistributeTokens: each pair keeps its tokens of the page's symbols.
Shown(q, symbols) == [i \in DOMAIN q.pairs |-> {t \in q.pairs[i].tokens : t.symbol \in symbols}]
Answer(r) ==
  /\ request[r].pc = "pair" /\ request[r].todo = {} /\ UNCHANGED cache
  /\ \E order \in Orders(request[r]) : Step(r, [request[r] EXCEPT !.pc = "answered", !.first = order,
       !.tokens = Paginated(order, Offset(request[r].ask), LimitOf(request[r].ask))])

BoardNext ==
  \/ Cycle
  \/ \E v \in Venues : \/ Fetch(v) \/ FindMapping(v)
                       \/ CreateInstrument(v)
                       \/ LinkInstrument(v) \/ StoreFunding(v) \/ CollectorDone(v)
  \/ \E k \in DOMAIN rates : RowAges(k)
  \/ \E r \in Requests : \/ Ask(r) \/ FromCache(r) \/ Build(r) \/ ReadFirst(r) \/ ReadSecond(r) \/ CacheSet(r) \/ Answer(r)
BoardSpec == Init /\ [][BoardNext]_<<collectVars, cache, request>>

---------------------------------------------------------------------------
Busy(v) == collector[v].pc \notin {"rest", "fetch"}
\* A cached pair says what the rows say, unless a collector has stored and not
\* yet dropped it, or came in between after the mappings were read for it.
CacheFollowsRows == \A k \in DOMAIN cache : LET c == cache[k] IN
  c.raced \/ Busy(k[1]) \/ Busy(k[2]) \/ c.tokens = Current(c.pair, c.stale)
\* After a cycle the last reading of an instrument is the row's rate, and both
\* venues that list a token share its instrument, unless the race for making it
\* put one off.
RowsFollowReadings == \A v \in Venues : collector[v].pc = "drop" =>
  \A i \in DOMAIN Listed(v) : LET l == Listed(v)[i] IN
    i \in collector[v].lost \/ \E inst \in instruments :
      /\ inst[1] = l.base /\ <<v, inst>> \in DOMAIN rates
      /\ (\A j \in DOMAIN Listed(v) : j > i => Listed(v)[j].base # l.base)
           => rates[<<v, inst>>].rate = collector[v].reading[i] /\ rates[<<v, inst>>].age < 2
\* Whichever dollars it is quoted in, a token has one instrument.
Dollars == StableCoins \cup {"USD"}
BoardFollows == CacheFollowsRows /\ RowsFollowReadings
  /\ \A i, j \in instruments : i[1] = j[1] /\ {i[2], j[2]} \subseteq Dollars => i = j
\* The pages of one order show every symbol once, best first, and in every pair
\* that has it; the last one is the only one without more; the page answered is
\* of the size asked.
PagesPartition == \A r \in Requests : request[r].pc = "answered" =>
  LET q == request[r]
      limit == LimitOf(q.ask)
      total == ComputeTotalPages(Len(q.first), limit)
      Page(p) == Paginated(q.first, (p - 1) * limit, limit)
  IN  /\ \A s \in Symbols(q) : Cardinality({p \in 1..total : s \in Page(p)}) = 1
      /\ \A p \in 1..total : HasMore(q.first, (p - 1) * limit, limit) = (p < total)
      /\ \A p \in 1..total : \A s \in Page(p), u \in Page(p + 1) : Best(q, s) >= Best(q, u)
      /\ UNION {UNION {Shown(q, Page(p))[i] : i \in DOMAIN q.pairs} : p \in 1..total} = All(q)
      /\ HasMore(q.first, Offset(q.ask), limit) => Cardinality(q.tokens) = limit
BoardHolds == BoardFollows /\ PagesPartition
=============================================================================

------------------------------ MODULE MCMarket ------------------------------
(* Market data: subscriptions and market rows, the order book's browsers,    *)
(* the funding board, and what is fetched of wallets from their venue: the   *)
(* registry (Harvest) and the client of the live tabs (LiveUpstream).  They  *)
(* share nothing in memory, so each is checked from starting points of its   *)
(* own.                                                                      *)
EXTENDS Integers, Sequences, FiniteSets

CONSTANTS
  Sockets, Markets, Received, MaxRows, InitialBackoff, MaxBackoff, MaxRetries, \* MarketSubs
  Browsers, SubBuffer, SendBuffer, MaxSequence,                               \* BookFanout
  Venues, Apis, Listings, Rates, Marks, Requests, Asked, MaxCycles,           \* FundingBoard
  Universes, MaxCoins, StreamBackoff, Frames, QueueCap, BatchSize, Boards, Limit, Manual, MaxRuns,         \* Harvest
  Callers, Concurrency, Floor, PacerBackoff, Second, Timeout, Books, Window, PageSize, MinSlice, MaxCalls,
  Offered, MaxNow                                                             \* LiveUpstream

VARIABLES
  part,
  socket, clients, connections, venueConns, subscriptions, venueSubs, instrumentSubs, channelSubs, listed,
  market, answers, retry,
  book, feed, rows, hub, subscribers, inbox, send, closed, client, seen, due, down,
  instruments, mapping, rates, collector, cycles, cache, request,
  stream, venue, broken, queue, pending, flushing, harvester, accepted, registry, saw, refs, discovery,
  now, wallet, pacer, gate, call

Market == INSTANCE MarketSubs
Fanout == INSTANCE BookFanout
\* Two markets of one venue.
MCMarkets == {<<"v", "i", "trades">>, <<"v", "j", "ticker">>}
ASSUME SubsAssumption == Market!SubsAssumption

Row(symbol, stem, suffix, base, quote, kind, active, priced) ==
  [symbol |-> symbol, stem |-> stem, suffix |-> suffix, base |-> base, quote |-> quote,
   kind |-> kind, active |-> active, priced |-> priced]
Ask(venues, stale, refresh) ==
  [venues |-> venues, sort |-> "rate", page |-> 0, offset |-> 0, limit |-> 0, stale |-> stale, refresh |-> refresh]
Board == INSTANCE FundingBoard
\* Binance: two perpetuals of one token, a dated future and a delisted one;
\* Hyperliquid: that token, a spot pair and a delisted one; Extended: a token in
\* dollars and in another, and a delisted one; Variational: it in a stable coin.
MCApis == <<"binance", "hyperliquid", "extended", "variational">>
MCListings ==
  <<<<Row("ETHUSDT", "ETH", "USDT", "ETH", "USDT", "PERPETUAL", TRUE, TRUE),
      Row("ETHUSDC", "ETH", "USDC", "", "", "PERPETUAL", TRUE, TRUE),
      Row("ETHUSDT_Q", "ETHUSDT_Q", "", "ETH", "USDT", "QUARTER", TRUE, TRUE),
      Row("OLDUSDT", "OLD", "USDT", "OLD", "USDT", "PERPETUAL", FALSE, FALSE)>>,
    <<Row("ETH", "ETH", "", "ETH", "", "PERPETUAL", TRUE, TRUE),
      Row("@1", "@1", "", "@1", "", "SPOT", TRUE, TRUE),
      Row("OLD", "OLD", "", "OLD", "", "PERPETUAL", FALSE, TRUE)>>,
    <<Row("ETH-USD", "ETH", "USD", "ETH", "", "PERPETUAL", TRUE, TRUE),
      Row("ETH-BTC", "ETH", "BTC", "", "", "PERPETUAL", TRUE, TRUE),
      Row("OLD-USD", "OLD", "USD", "OLD", "", "PERPETUAL", FALSE, TRUE)>>,
    <<Row("ETHUSDT", "ETH", "USDT", "", "", "PERPETUAL", TRUE, TRUE)>>>>
\* The venues that can be reached, and what is asked, in each part of the board.
Reached == [collect |-> {1, 2}, perps |-> {3, 4}, pages |-> {}]
AskedIn == [
  collect |-> {Ask(<<1, 2>>, FALSE, FALSE), Ask(<<2, 1>>, TRUE, TRUE), Ask(<<1, 1>>, FALSE, FALSE)},
  perps |-> {Ask(<<3, 4>>, TRUE, FALSE), Ask(<<4, 3>>, FALSE, FALSE)},
  pages |-> {[Ask(<<1, 2, 3>>, FALSE, FALSE) EXCEPT !.sort = s, !.limit = l, !.page = p, !.offset = o] :
              s \in {"rate", "spread"}, l \in {0, 1, 2, 201}, p \in {-1, 0, 2}, o \in {-1, 1}}
           \cup {Ask(<<3, 1>>, TRUE, FALSE), Ask(<<2, 1>>, TRUE, TRUE), Ask(<<1, 1, 2>>, FALSE, FALSE), Ask(<<1>>, FALSE, FALSE)}]
MCAsked == UNION {AskedIn[p] : p \in DOMAIN AskedIn}
ASSUME BoardAssumption == Board!BoardAssumption

Finding == INSTANCE Harvest WITH MaxBackoff <- StreamBackoff
Sold(coin, time, users) == [coin |-> coin, time |-> time, users |-> users]
Frame(channel, trades) == [channel |-> channel, trades |-> trades]
Listed(addr, month, windows) == [addr |-> addr, month |-> month, windows |-> windows]
\* Address 0 is malformed, and a month without a PnL is Harvest's Null; the
\* universe of three coins is over the cap.
MCManual == {{}, {1}}
MCUniverses == {{}, {"a"}, {"a", "b"}, {"b", "c"}, {"a", "b", "c"}}
MCFrames ==
  {Frame("trades", {Sold("a", 2, <<1, 2>>)}), Frame("trades", {Sold("a", 1, <<1, 0>>), Sold("a", 3, <<2>>)}),
   Frame("trades", {Sold("b", 3, <<2, 2>>), Sold("b", 0, <<1, 1>>)}), Frame("error", {})}
MCBoards ==
  {<<Listed(1, -99, {"day"}), Listed(2, 4, {"day", "month", "other"}), Listed(0, 9, {"day"})>>,
   <<Listed(1, 3, {"week"}), Listed(2, 3, {}), Listed(3, 1, {"day"})>>}
ASSUME HarvestAssumption == Finding!HarvestAssumption

Live == INSTANCE LiveUpstream WITH MaxBackoff <- PacerBackoff, book <- wallet
\* Fills on the bounds of the slices, as many in a moment as a page holds, and a
\* book that needs too many calls.
Traded(tid, time) == [tid |-> tid, time |-> time]
MCBooks ==
  {{Traded(i, i) : i \in {0, 2, 4}}, {Traded(i, i) : i \in 0..4}, {Traded(i, 2) : i \in 1..3},
   {Traded(1, 2), Traded(2, 2), Traded(3, 4)}, {Traded(5, 0)}, {}}
MCWindow == <<0, 4>>
ASSUME LiveAssumption == Live!LiveAssumption

subVars == <<socket, clients, connections, venueConns, subscriptions, venueSubs, instrumentSubs, channelSubs, listed, market, answers, retry>>
fanVars == <<book, feed, rows, hub, subscribers, inbox, send, closed, client, seen, due, down>>
boardVars == <<instruments, mapping, rates, collector, cycles, cache, request>>
findVars == <<stream, venue, broken, queue, pending, flushing, harvester, accepted, registry, saw, refs, discovery>>
liveVars == <<now, wallet, pacer, gate, call>>

\* Three venues that list three tokens, with rows of different rates and ages.
PagesInit ==
  /\ instruments = {<<b, "USD">> : b \in {"BTC", "ETH", "SOL"}}
  /\ mapping = {<<k[1], k[2][1], k[2]>> : k \in (1..3) \X instruments} \ {<<2, "SOL", <<"SOL", "USD">>>>}
  /\ \E third \in 1..4, age \in 0..1 : rates = [k \in (1..3) \X instruments |->
       [rate |-> CASE k[1] = 1 -> 1 [] k[1] = 2 -> IF k[2][1] = "BTC" THEN 3 ELSE 2
                   [] OTHER -> IF k[2][1] = "SOL" THEN third ELSE 4 - third,
        mark |-> IF k[2][1] = "BTC" /\ k[1] = 3 THEN 0 ELSE k[1] + third,
        age |-> IF k = <<3, <<"ETH", "USD">>>> THEN age ELSE 0]]
  /\ collector = [v \in Venues |-> Board!Resting] /\ cycles = MaxCycles
  /\ cache = [k \in {} |-> <<>>] /\ request = [r \in Requests |-> Board!NoRequest]

\* The trade stream reads two coins.
Reading ==
  /\ stream = [pc |-> "read", coins |-> {"a", "b"}, subscribed |-> {"a", "b"}, sender |-> TRUE, backoff |-> 1]
  /\ venue = {"a", "b"} /\ broken = FALSE

MCInit ==
  /\ part \in {"sockets", "rows", "browsers", "collect", "perps", "pages", "coins", "harvest", "split", "gate"}
  /\ Market!Init /\ Fanout!Init
  /\ CASE part = "pages" -> PagesInit
       [] part = "perps" -> Board!TablesEmpty /\ cycles = 1
       [] OTHER -> Board!Init
  /\ IF part = "harvest" THEN Reading ELSE Finding!NotStreaming
  /\ Finding!NothingFound /\ (part # "harvest" => registry = Finding!Empty)
  /\ Live!Init /\ (part # "split" => wallet = {})
\* A cycle begins with the venues that cannot be reached, and a request asks for
\* what its part of the run is about.
InPart ==
  /\ \A w \in Venues \ Reached[part] :
       collector[w].pc = "fetch" /\ (\A u \in Venues \ Reached[part] : u < w => collector[u].pc = "rest")
         => collector'[w].pc = "rest"
  /\ \A r \in Requests : request'[r].ask \in AskedIn[part] \cup {Board!NoAsk}
  /\ part = "pages" => UNCHANGED rates

\* One call at a time over the books, or one call of each caller at the gate.
AtOnce ==
  IF part = "split" THEN \A c \in Callers \ {1} : call'[c].pc = "idle"
  ELSE /\ now' <= 2
       /\ \A c \in Callers : call'[c].kind \in {"none", "single"} /\ (call[c].pc = "done" => call'[c].pc = "done")

MCNext ==
  \/ part \in {"sockets", "rows"} /\ Market!SocketNext
     /\ (part = "sockets" => UNCHANGED <<market, answers, retry>>)
     /\ (part = "rows" => UNCHANGED listed /\ socket'[2].pc = "none")
     /\ UNCHANGED <<part, fanVars, boardVars, findVars, liveVars>>
  \/ part = "browsers" /\ Fanout!FanoutNext /\ UNCHANGED <<part, subVars, boardVars, findVars, liveVars>>
  \/ part \in DOMAIN Reached /\ Board!BoardNext /\ InPart /\ UNCHANGED <<part, subVars, fanVars, findVars, liveVars>>
  \/ part = "coins" /\ Finding!StreamNext /\ UNCHANGED <<part, subVars, fanVars, boardVars, liveVars>>
  \/ part = "harvest" /\ (Finding!HarvestNext \/ Finding!DiscoverNext)
     /\ UNCHANGED <<part, subVars, fanVars, boardVars, liveVars>>
  \/ part \in {"split", "gate"} /\ Live!LiveNext /\ AtOnce /\ UNCHANGED <<part, subVars, fanVars, boardVars, findVars>>
Spec == MCInit /\ [][MCNext]_<<part, subVars, fanVars, boardVars, findVars, liveVars>>

---------------------------------------------------------------------------
\* A subscription is ACTIVE while its socket is served, and the latest row
\* answered never goes back (MarketSubs); a browser follows its book (BookFanout).
MarketHolds == Market!SubscriptionsHold /\ Fanout!FanoutHolds
\* The cached pairs and the rows are what the venues last said, and the pages of
\* an answer are a partition (FundingBoard).
BoardHolds == Board!BoardHolds
\* Nothing the trade stream took is lost, the registry says who saw a wallet, and a
\* window of fills that is not flagged is whole (Harvest, LiveUpstream).
UpstreamHolds == Finding!HarvestHolds /\ Live!LiveHolds
=============================================================================

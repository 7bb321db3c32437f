# Formal models of the arbitrage back end

TLA+ models of the Go program in `src/`, the TLC configurations that check
them on small instances, and theorems about them that TLAPS checks for every
value of the constants.

Each module is translated from the source. `PROJECT.json` records, for every
definition that stands for code, the file and the lines (`map`); for every run
what it shows (`runs`); for every checked property a plausible defect of the
code that the property detects (`mutants`); the hazards the properties were
chosen for (`hazards`); and where code and documentation disagree (`findings`).

    tlc -workers 2 -config ext_feed.cfg ExtendedFeed       # check a run
    tlapm NotifyProofs.tla                                 # check the proofs

Contents: 1 the system, 2 the modules, 3 the runs, 4 the proofs, 5 findings,
6 assumptions and what is not modelled, 7 the plan.

## 1. The system

One process (`cmd/server`, wired in `internal/app/app.go`) over PostgreSQL and
TimescaleDB. HTTP handlers run concurrently with background workers; state is
in memory (maps under a mutex, buffered channels) or in the database, most
database operations being one statement and a few a transaction. A shutdown
cancels the workers' context and closes the pool; nothing is flushed.

### Inventory

**Order book** (`orderbook`, `exchange`). State: per symbol the levels, a
sequence number and a state `HEALTHY / STALE / DESYNCED / RESYNCING /
DISCONNECTED`, under the book's mutex; per symbol one handler goroutine of the
bridge; per venue an adapter with one bounded event channel per symbol and a
`WSClient` that reconnects. Operations: subscribe, unsubscribe, snapshot,
delta, resync request, reset, freshness check. Hard: a full channel drops
events, connections break, a cancelled handler overlaps its successor on one
channel. Correct when the book is always one the venue had, when a book that
missed an event is not `HEALTHY`, and when a feed that died is noticed.

**Hyperliquid user streams** (`hyperliquid/userstream.go`). State: active
addresses, connections with at most 30 addresses each. Operations: subscribe,
unsubscribe, reconnect, dispatch. Hard: the frames are written after the lock
is released, a reconnect works over several critical sections, and a back-off
sleep and a dial lie between its check and its effect. Correct when no
connection is over capacity, idle or leaked, when every active address is
carried by exactly one connection or reconnect, and when a reconnect ends.

**Wallet watcher, activity hub** (`trader/watcher.go`, `activity*.go`). State:
one watcher per watched wallet with two counts (browser clients, supervisor),
a connection state shown as a badge, open orders; a gate on concurrent
bootstraps. Operations: hub and watcher subscribe and unsubscribe, retain,
release, bootstrap, order events. Hard: the hub's lock and the manager's lock
are taken one after the other, the bootstrap runs outside both, and the
upstream is unsubscribed after the lock is released. Correct when the counts
say who watches, when nothing nobody watches is streamed, when a wallet's
clients eventually see `LIVE` and only over live data.

**Notifications** (`notify`, `telegram/sender.go`). State: two bounded queues,
coalescing buckets, the outbox table. Operations: observe, coalesce, dispatch
to the users of a wallet's groups, send, retry with back-off. Hard: every
database call and every send may fail, a send may fail after Telegram took the
message, events repeat after a reconnect, the process may die between a send
and its record. Correct when a message is queued once, keeps its text, is
repeated only for a reason, and ends sent or exhausted.

**Notification supervisor** (`notify/supervisor.go`). Keeps the wallets of
enabled groups retained in the watcher manager.

**Telegram linking** (`telegram`). Link codes of ten minutes that the bot
consumes once; bindings of a user to a chat; the bot's polling offset, which is
memory. Hard: Telegram delivers again what a restarted bot has handled, and a
code is issued while an older one is presented. Correct when a code binds one
chat at most, a chat has one account, and commands are handled once, in order.

**Trader sync** (`trader/sync.go`, `discovery.go`, `wsharvest.go`,
`fills.go`, `repository.go`). State: the registry of wallets, per wallet a
cursor with status and retries, a buffer of raw fills, daily rows, period rows.
Operations: discover, harvest, `SyncAll` every interval, `SyncWallet`. Hard:
the statements of a pass share no transaction and any of them may be the last,
a fetch may be truncated, the wallet trades meanwhile, raw fills are purged.
Correct when no fill is skipped or counted twice and no number is dated later
than what it counts.

**Trader reads** (`trader/ondemand*.go`, `live*.go`, `search.go`,
`activity_query.go`, `positions*.go`, `reconstruct.go`, `equity.go`). State: one
cache of 60 seconds with single flight, and the cached fills of a wallet inside
it. Operations: every tab of a wallet's page, its pages by keyset or offset, the
search over the period metrics. Hard: flights run inside flights, entries expire
or are evicted under a reader, a fetch fails or answers in part, rows change
between two pages, and rows tie or lack the value they are sorted by. Correct
when an answer is as young as its status says, when nobody waits for a flight
that has no leader, and when a walk over the pages shows each row once.

**Hyperliquid client** (`hyperliquid/client.go`, `live.go`, `pacer.go`). State:
a gate of four places and a pacer with an adaptive interval. Hard: a call may
give up at the gate, in the pacer or in its retry; a window of fills that does
not fit a page is split, and a slice may fail. Correct when the places taken are
those of calls under way, and a window that is not flagged truncated is whole.

**Execution** (`execution`). Executions, legs and orders in the database, an
order state table. Operations: create, submit, cancel, each several statements
without a transaction and without a status guard. Correct when a leg is ordered
once and a completed execution has all its orders filled.

**Accounts** (`auth`, `tradergroup`, `appsettings`, `httpserver/middleware`).
Users, refresh tokens rotated on use, wallet nonces and linked wallets; groups of
watched wallets under a cap; settings behind a cache of five minutes; a login
limiter. Hard: the checks and the writes of a request are separate statements,
and nearly none share a transaction. Correct when an address has one account, a
password change ends the sessions, an account keeps a way to sign in, the cap
and the limit hold, and the cache serves the row.

**Trading desk** (`strategy`, `risk`, `reconciliation`, `opportunity`,
`unifiedstate`). Strategy rows and an engine that runs them; risk policies and a
kill switch, in memory; runs that compare recorded with reported state; a record
per venue and a merged one per instrument, read by an opportunity scanner.
Hard: a row and the engine change one after the other; the risk engine has no
lock; the scanner reads records that change. Correct when the engine runs what
its rows say, the kill switch refuses, a closed run says what its items say, and
an opportunity that is served pays.

**Market data** (`market`, `orderbook/service.go`, `orderbook/handler_ws.go`,
`collector`, `fundingarbitrage`). Subscriptions and connections of browser
sockets; three queues between an order book and a browser; one collector
goroutine per venue that writes funding rates, and a board of venue pairs cached
for two minutes. Hard: sockets end at any time, slow browsers lose updates, a
board is built while the collector writes and invalidates. Correct when nothing
is `ACTIVE` that nobody serves, when a browser ends with the newest book, and
when the cached pairs are those of the rows.

**Storage** (`storage`): retention, replay and audit rows, read by nothing else.

**CRUD and plumbing** (`instrument`, `venue`, `httpserver`, `api`, `domain`,
`config`, `database`, `health`, `logger`, `ws`).

### How they interact

    venue --> exchange adapter --chan--> orderbook bridge --> engine --> ws hub
    Hyperliquid --> UserStream --sink--> WatcherManager --emit--> ActivityHub --> browsers
                                             |  observer channel
                                             v
                        Dispatcher --> Coalescer --> outbox (DB) --> Worker --> Telegram
    Supervisor --Retain/Release--> WatcherManager --Subscribe--> UserStream
    tabs --> OnDemandCache --> LiveClient (gate, pacer) --> Hyperliquid
    trade stream --Submit--> harvest --\
    leaderboard --> discovery ----------+--> registry (DB) --> SyncAll --> rows --> search
    venue APIs --> collector --> rates (DB) --> board cache --> funding pages
                       \--Invalidate-------------^

The left half of each line calls or writes a channel; the only shared memory
is behind the mutexes named above; the outbox and the bindings are shared
through the database. `PROJECT.json` (`components`) lists every component with
its files and how far it is modelled.

## 2. The modules

| module | models | state |
|---|---|---|
| `OrderBook` | engine and bridge of one symbol | book, channel, handlers |
| `ExtendedFeed` | Extended adapter and `WSClient`, on `OrderBook` | venue history, wire, connection |
| `BookReplica` | abstract: what a local book promises | venue history, content, sequence |
| `UserStream` | Hyperliquid user streams | addresses, connections, frames, reconnects |
| `Watcher` | watcher manager, hub, supervisor | watchers, clients, retained wallets, upstream |
| `NotifyPipeline` | observer queue to Telegram | queues, buckets, outbox, worker |
| `Outbox` | abstract: what the outbox promises | messages, deliveries |
| `TraderSync` | a wallet's sync passes | fills, buffer, daily and period rows, cursor |
| `Reconstruct` | completed trades out of fills, with a reference definition | none |
| `OnDemand` | the tabs' cache and single flight | entries, flights, readers |
| `TabPages` | the pages of every tab and of the search | source rows, the reader's walk |
| `LiveUpstream` | the live client's gate, pacer, retries, split windows | gate, pacer, calls |
| `Harvest` | trade stream, harvest of wallets, discovery | stream, queue, registry, references |
| `Api` | error codes and the status of a response | none |
| `Sessions` | registration, sessions, roles | users, tokens, requests |
| `WalletLinks` | wallet sign-in and linking, on `Sessions` | wallets, nonces |
| `Groups` | trader groups and their cap | groups, members, requests |
| `RateLimit` | the login limiter | buckets, requests |
| `TelegramLink` | link codes, bindings, the bot | codes, bindings, updates, offset |
| `AppSettings` | settings and their two caches | rows, cache, readers, writers |
| `Messages` | which message an event becomes | the message |
| `Strategies` | strategy rows and the engine | rows, instances, requests |
| `RiskDesk` | policies, kill switch, pre-trade checks | policies, switch, requests |
| `Executions` | executions, legs, orders | rows, requests |
| `Reconciliation` | runs and comparators | runs, items, workers |
| `UnifiedState` | venue records and their merge | records, merged state, subscribers |
| `Scanner` | the opportunity scanner, on `UnifiedState` | results, the scan |
| `MarketSubs` | market sockets, subscriptions, connections | managers' maps, sockets |
| `BookFanout` | the order book's browsers | hub, three queues, clients |
| `FundingBoard` | collector and funding board | rates, collectors, cache, requests |
| `ExtendedFeedProofs`, `NotifyProofs`, `UserStreamProofs`, `WatcherProofs`, `TraderProofs`, `AccountProofs`, `TradingProofs`, `MarketProofs` | theorems of section 4 | |
| `MCUserStream`, `MCWatcher`, `MCNotify`, `MCTraderSync`, `MCAccounts`, `MCTrading`, `MCMarket`, `MCReads` | instances for TLC | |

### Order book: `OrderBook`, `ExtendedFeed`, `BookReplica`

`book`, `bseq`, `bstate` and `age` are the fields of `OrderBook` (model.go);
the levels are a function from side and price to quantity, so the sort after
every write is implied. A handler goroutine is `consumeEvents`: `hpc` is its
place in the select, in `processEvent` or between `ApplyDelta` and
`requestResync`, which take the book's mutex separately. `held` is the event
it received; `got`, `hgap`, `hlast` are its `gotSnapshot`, `gapCount`,
`lastSeq`. `Unsubscribe` only takes the handler out of `current`: its goroutine
stays able to receive until it chooses `ctx.Done`, while the next `Subscribe`
gets the same channel, since the adapter still has the symbol.

In `ExtendedFeed` the venue is external: it numbers its books and keeps them in
`hist`. `HandleMessage` is the adapter's `handleMessage` as a whole: duplicate
filter, `lastSeq`, conversion, and the non-blocking send that loses the event
when the channel is full. `ConnectionBreaks`, `ReconnectSucceeds` and
`ReconnectFails` are `readLoop` and `Reconnect`; the last failure closes the
channel. `SubscribeDialFails` is the first dial failing after the channel was
registered. `BookReplica` is the promise: the content is the venue's book at
the claimed sequence, or empty at 0.

### User streams: `UserStream`

`active`, `conns`, `subs` are the fields of the same names. `link` is the
socket, `server` what the venue streams on it. Every critical section of
`us.mu` is one action. `sends` holds the frames of calls that have released the
lock; `WriteFrame` and `CloseConn` write them in any order, as the goroutines
may. `handleDrop` is two actions (`HandleDrop` under `dead.mu`,
`RemoveDropped` under `us.mu`), `reconnect` is `ReconnectCheck` (compute
`toSub`), a sleep, and a dial that fails (`ReconnectDialFails`, back to the
check) or succeeds (`ReconnectOpens`, with `toSub` as it was). `dropped` and
`raced` are history variables: which addresses were ever unsubscribed, and
which were put on a connection in the middle of its `handleDrop`.

### Watchers: `Watcher`

`watchers` is the manager's map, `obj` the `WalletWatcher` objects, `pc` the
bootstrap of each, `closing` the teardowns that have released `m.mu` and not
yet called `upstream.Unsubscribe`. A browser client (`cpc`, `cw`) subscribes
the hub, then the watcher, boots it if it is the first, and leaves in the same
two steps. The supervisor's `Reconcile` computes its difference in one step and
then retains and releases one wallet at a time, waiting for the bootstraps it
starts. `BootReconnect` ... `BootLive` are the statements of `bootstrap`
between which other goroutines run; `BootPark`, `ParkedEnters` and
`ParkedStops` are the full gate. `badge` is the last state a client was told.
An object nothing refers to returns to `Blank` and its identity is reused; this
bounds the objects alive at once, not the number of watchers made.

### Notifications: `NotifyPipeline`, `Outbox`

`Emit` is the non-blocking send of `emit`, `RunObserver` the observer loop
with the dispatcher's `Enqueue`. `HandleEvent` is `Coalescer.Add` with the
`FlushExpired` that follows it; `FlushTick` is the ticker; `WindowEnds` is
time. `TakeIntent` is `TargetsForWallet`, `DispatchTo` one `InsertOutbox` with
its unique key. `ListPending`, `Send`, `Mark` are the worker's three database
and network steps; an answer, an error before and an error after Telegram took
the message are the three outcomes of `Send`. `Crash` clears everything that is
memory. A message is its list of events; keys and buckets are functions of the
event (`KeyOf`, `BucketOf`), so that two events of one bucket, and two with one
key, exist in the instance. `Outbox` is the promise: queued once under its key,
text never changed, handed over only while pending with attempts left, sent
only after a hand-over, sent and exhausted final.

### Trader sync: `TraderSync`, `Reconstruct`

`buffer`, `rows`, `period`, `sync` are the tables of one wallet; wallets share
nothing in them, and `SyncAll` gives each to one worker of a loop that does not
overlap itself. `pass` is the running `SyncWallet`: its place (`pc`) and its
local variables. `Begin` reads the sync row, and each later statement that
touches the database or the venue is an action: `MarkSyncing`, the fetch with
its three outcomes, `StageFill` per `INSERT`, `PlanDays` and `UpsertDay` for
`recomputeAffected` (the days in any order, as Go walks a map), `UpdateProgress`,
`MarkSynced`, `RecalcPeriod`, `PurgeBuffer`. `Abort` ends a pass between any two
of them. `pass.now` is fixed when `SyncAll` starts, and `clock` goes on.
`FetchTruncated` is `FetchAll` when a full page makes it split the window.
`lossy` and `cut` are history variables: a truncated fetch has left a fill out;
a pass has rebuilt from the middle of a position.

A row is the set of its trades and fills, of which its numbers are sums.
`ReconstructTrades` is the fold of the code; `TrueTrades` says without a fold
what a completed trade is, on the wallet's real fills.

### Tabs and search: `OnDemand`, `TabPages`

`cache` and `flight` are `OnDemandCache.m` and its `singleflight.Group`. A
reader (`caller`) has two frames, the call of `GetOrFetch` for its tab and the one
for the wallet's universe inside it, because the fetch of activity or performance
asks for the universe (`level` says which is running). The steps of a frame are the code's: the look-up, joining
or leading a flight, the second look-up inside it, the fetch, the comparison
after it, the `set`. A value is what was fetched when and whether it is whole, so
an answer has an age. `PerpAnswers`, `FetchBalances` and the like say how each
tab falls back and what its status becomes; `evictFillsUniverseIfNeeded` is a
step of the reader, after its `set`. `Put` is the comparison and
the store after a flight, which ends in a panic where both values hold slices.

`TabPages` is a reader who asks for page after page until told there are no
more, while the source changes. The mapping, filters, sort keys, cursors, offsets
and totals are the code's operators; a row's `stable` membership says that it was
there all the time, so that it must be shown, once.

### The venue's client: `LiveUpstream`

`gate` counts `LiveClient.sem`, `pacer` has the fields of `AdaptivePacer`; a call
goes through `Acquire`, `Wait`, its request and `WalkReply` with the timeout of
its context running all along. `walk` of `FetchAll` is the list of slices still
to do; the wallet's fills are fixed, so what a window should hold is known.

### Finding wallets: `Harvest`

`stream` is `TradeStream`, `venue` what the venue was asked for on the current
connection. `Submit`, `MergeBatch` and the three steps of `flush` (take the
batch, upsert, put it back) are the harvest; `DiscoverNext` is one run of the
leaderboard's discovery, a statement per row. Both write the source of a wallet
in `registry` by the `CASE` of their upserts. `accepted` and `saw` are history:
what `Submit` took, and who reported a wallet.

### Accounts: `Sessions`, `WalletLinks`, `Groups`, `RateLimit`, `TelegramLink`, `AppSettings`, `Messages`, `Api`

A client has one request in flight; `call` is the operation, the statement it is
at and its locals, and the last response, of which `Api` gives the status. Each
statement is a step that may fail. Hashes are the passwords they were made of, a
token's identity is its hash, and time is what `Expire` and `NonceExpires` make
of it. `raced` names the kinds of operation that overlapped: the properties say
what holds of the others, so that the code is not asked for what separate
statements cannot give. `Groups` is the same for the tabs of two users, with
`requireOwner`, the count and the cap as steps before the transaction.

`RateLimit` keeps the limiter's two locks apart: a request reads the clock, finds
its bucket, the clean-up may remove it, and the request counts in it, by the time
it has read. `Delay` is the longest a request takes to get there. `TelegramLink` has the
updates Telegram keeps until a poll asks for later ones, and `Restart`, which
forgets the offset. `AppSettings` holds no lock between a query and the store of
its result, as the code does not. `Messages` is `MapWalletEvent`, the coalesced
totals and the template's placeholders, without state.

### Trading desk: `Strategies`, `RiskDesk`, `Executions`, `Reconciliation`, `UnifiedState`, `Scanner`

A request of `Strategies` reads the row, writes it, and tells the engine, in
steps others come between; `NewEngine` is a restart. `RiskDesk` reads and writes
the switch and the engine's map without a lock, and two writers of the map end
the process (`ConcurrentMapWrites`). `Executions` is a statement per step, each
of which may fail, in `CreateExecution`, `executePaper` and the rest.
`Reconciliation` has the runs over HTTP and, because no part of the program
calls it, `RunChecks` as steps of a worker.

`UnifiedState` changes a venue's record and merges it in two steps, since two
locks protect them. `Scanner` takes venue pairs from what is merged and reads
each price of a pair again when it builds the legs, so an update may come between
(`torn`); fees, slippage and the rest are integer arithmetic in basis points.

### Market data: `MarketSubs`, `BookFanout`, `FundingBoard`

`MarketSubs` has the two managers' maps and indexes, each changed under the
manager's lock by one step, and one goroutine per socket. `BookFanout` follows a
snapshot from the engine into the table, the service's channel of a subscriber,
the client's buffer and the socket; `SubBuffer` and `SendBuffer` are the
channels' sizes, and what does not fit is dropped. Two browsers meet only in the
subscriber map. `FundingBoard` has a collector per venue that handles
reading after reading (find or make the instrument, compare, store) and drops
the venue from the cache at the end. A request reads the mappings of each venue
once and then the row of each of its symbols, a step each; the tables are sets of
rows. `Marks` are the prices a venue may give with a rate, and `age` is how long
ago it was read, as far as a request tells ages apart.

## 3. The runs

Deadlock is not checked in any run: the counters that bound the instances run
out, and where they do the system may indeed have nothing left to do.

| run | question | instance |
|---|---|---|
| `ext_feed` | Is the book always one the venue had, whatever is lost and whoever receives? (`Integrity`, `ReplicaSpec`) | 2 handlers, channel of 1, 3 venue books, 1 reconnect attempt, gap limit 2 |
| `ext_feed_single` | Does a `HEALTHY` book hold everything applied to it, and is a dead feed noticed? (`HealthyIsCurrent`, `DisconnectIsFinal`, `DeadFeedIsNoticed`) | 1 handler, 2 attempts, time modelled |
| `user_stream` | Are addresses carried once, connections within capacity and never leaked, and do reconnects end? | 3 addresses, 2 connections of 2, 1 drop, 1 call with frames unwritten |
| `watcher` | Do the counts, the stream and the order events survive joins, leaves, breaks and failures? (`Counted`, `UpstreamReleased`, `CreatedOnceWhenLive`) | 1 wallet, 2 clients, supervisor, 2 objects, 1 order, 1 break |
| `watcher_live` | Does a client that stays get `LIVE`, with the gate full? (`EventuallyLive`) | 2 wallets, 1 client, gate of 1 |
| `notify` | Are repetitions explained, does every row settle, is `Outbox` implemented? | 3 events (two in one bucket, two with one key), queues of 1, 2 attempts, 2 failures, 1 crash, 1 change of targets |
| `sync` | Is every fill before the cursor stored, every recent row whole, every ready period row no younger than its fills? (`NothingSkipped`, `RowsAreWhole`, `AsOfIsCovered`) | 3 fills of +2 or -1, 4 ticks of half a day, retention of 2, pages of 3, 1 failure (and the record of a failed fetch) |
| `accounts` | What do the check-then-act requests of an account keep when they do not overlap with their own kind, and does every other step respect it? (`OneAccountPerEmail`, `OldSessionsEnd`, `KeepsAWallet`, `UsedOnce`, `CapHolds`, `TwiceTheLimit`, `TelegramHolds`, `ServedIsCurrent`) | 2 clients; 2 tabs and 3 requests; 4 login attempts at a limit of 1; 2 updates and 1 restart; 2 readers and 2 writers of the settings |
| `trading` | Does the engine run what its rows say, does the kill switch hold, is a leg ordered once, does what the scanner serves pay? (`EngineMatchesRows`, `KillSwitchHolds`, `RecordsAreTrue`, `OpportunitiesPay`) | 3 requests on 3 rows each; 2 runs and 2 workers; 2 venues, 2 updates during 1 scan |
| `market` | Do subscriptions end with their sockets, do browsers follow the book, does the board follow its rows, is no harvested wallet lost, does the live client keep its gate and its windows? (`MarketHolds`, `BoardHolds`, `UpstreamHolds`) | 2 sockets; 1 browser with queues of 1 and 3 snapshots; 4 venues, 2 at a time, 2 cycles; 3 venues and tokens for the pages; 3 coins, 3 wallets, a queue of 2, 1 discovery; 3 calls at a gate of 2; windows of up to 4 calls |
| `reads` | Is an answer as young and as whole as it says, do pages show each row once? (`OnDemandHolds`, `PagesHold`) | 2 readers, 4 ticks, 2 to 4 fetches; 5 to 6 rows with ties and gaps, 1 change |
| `reads_burst` | One documented promise the code does not keep (`BurstsShare`, section 5) | as `reads` |

### Why the bounds are enough

*Order book.* A gap needs a lost event between two others: a channel of one and
three venue books give it. Two handlers are the overlap of a cancelled one with
its successor. One price and two quantities tell apart every content of
interest, since levels do not interact. The gap limit of 2 makes "not yet",
"now" and the counter's reset differ. For `Integrity` the bounds do not matter:
it is proved for all of them.

*User streams.* Three addresses on connections of two force a second
connection, leave room on it, and let a drop meet a full and a partly full one.
One drop suffices for every race of a reconnect with calls; a second would
repeat it. One unwritten call at a time keeps the frames of a call apart from
the other steps; it excludes frames of two calls in the opposite order, which
none of the run's properties depends on.

*Watchers.* Two clients and the supervisor are all pairs of a last leaver and a
first joiner, two objects are a watcher and its successor; a wallet does not
share state with another one except the gate, hence two wallets only in
`watcher_live`. Symmetry is used in `watcher`, and of the readers in `reads`, which check invariants
only.

*Notifications.* Queues of one are full at once; two attempts are a retry and
an exhaustion; two failures let a send fail and its record fail as well; one
crash is enough because a crash leaves nothing but the database behind.

*Trader sync.* Sizes +2 and -1 give openings, reductions, cycles that end flat
and flips with three fills; half-day ticks put several fills in one day, at one
instant, and on both sides of midnight; a retention of one day within two and a
half makes the purge cutoff pass over fills, also in the middle of a day. One failure or abort anywhere, followed
by the repetition, is the case the comments promise; pages of three let a fetch
be truncated. For `NothingSkipped` the bounds do not matter: it is proved.

*Runs in parts.* `accounts`, `trading`, `market` and `reads` each check several
modules that share no state. `part` chooses at the start which of them moves, so
the run is the sum of their state spaces and not the product; nothing is lost,
because a step of one cannot disable or change a step of another. In `MCReads` the
tabs are one specification in four parts (`universe`, `evicting`, `partial`, `plain`),
each of which asks only its own questions (`Asked`) and stays within its own bounds
(`FetchesOf`, `TicksOf`). Some parts
begin in the middle (an account with a session, a stream that reads two coins, a
run of rates that exist) to reach the interesting steps within the bounds; the
states they begin in are reachable ones.

*Accounts.* Two clients are all pairs of concurrent requests; a third would only
repeat an overlap, and what overlaps is excluded by `raced` anyway. In the
limiter, four requests at a limit of one fill two windows, one request too many
each. Two updates and one restart are a redelivery of a handled command before a
new one. One outdated store and one update are the settings' race.

*Trading.* Three requests are two that overlap and one that comes after; a third
row is one that is created. An execution has no leg, two legs, or one that fails.
Two venues are a pair; quotes that cross by less and by more than the edge and
one without a side, and two updates during a scan, put an update before, between
and after the two readings of a price.

*Market.* Queues of one are full at once, three snapshots are one that is
written, one waiting, one that does not fit. A browser alone suffices because
browsers meet only in the subscriber map. The listings have each kind of symbol
the adapters accept or skip; three venues with a missing market give the pages
pairs of unequal length, and limits of 1 and 2 put ties on page boundaries. A gate
of two with three callers is full. Pages of three fills in windows that hold up to
five, three at one moment or more than four calls can fetch, give whole, split and
truncated windows. Boards of three wallets, one malformed and one without PnL, at a
limit of 2 leave one out.

*Reads.* A time to live of one tick tells fresh, expired and twice expired apart;
two readers are a leader and a waiter, or a leader and a late one. One universe
may be kept, so two wallets evict. Page limits of 1 and 2 over five rows put
every row on a boundary; one change comes between any two pages.

### Fairness

Assumed only where a liveness property is checked, and only for steps the Go
scheduler or a timeout guarantees:

- `ext_feed_single`: weak fairness of the reader goroutine and of each handler.
  Nothing makes the venue trade, the connection break or a caller call.
- `user_stream`: weak fairness of writing a frame and of the drop and check
  steps; strong fairness of a successful dial: the venue is not down for ever,
  as the retry loop of `reconnect` presumes. Without it the loop spins, rightly.
- `watcher_live`: weak fairness of bootstraps (REST requests have timeouts) and
  of teardowns; strong fairness of entering the gate for a parked goroutine,
  because a Go channel serves blocked senders in turn.
- `notify`: weak fairness of the worker and of `next_attempt_at` passing.
  Neither sends nor queries are assumed to succeed: failures are bounded by
  `MaxFailures`, and a row that always fails ends exhausted.

## 4. The proofs

All obligations are checked by `tlapm`; nothing is assumed beyond the named
assumptions on the constants (`BookAssumption`, `FeedAssumption`,
`NotifyAssumption`, `SyncAssumption`, `StreamAssumption`, `WatcherAssumption`,
`SessionsAssumption`, `WalletAssumption` and those discussed below), which TLC
evaluates in the runs. They say that bounds are naturals, that ids are, that the
sets counted are finite, and that the value "none" is not one of the others. The
strengthened invariants also hold in TLC's instances, the parts that start in the
middle included; those that range over all numbers or all rows (`GInv`, `LInv`,
`QInv`) TLC cannot evaluate.

`ExtendedFeedProofs`, for any prices, quantities, handlers, capacity, limits:

- `TypeCorrect`: `Spec => []TypeOK`.
- `IntegrityHolds`: `Spec => []Integrity`. Integrity alone is not inductive: a
  delta is applied when its `FromSequence` equals the book's sequence, and only
  the history of the event says that this gives the venue's next book. The
  invariant `IInv` adds it for every place an event can be: messages on the wire
  are consecutive and end at the venue's newest (`WireOK`), the adapter's
  `lastSeq` precedes the first of them (`AdapterOK`), and each event in the
  channel (`ChanOK`) or in a handler (`HeldOK`) turns the venue's book at its
  `from` into the one at its `seq`. Dropping an event after `lastSeq` has moved
  keeps this true of the next one, which is why a loss shows as a gap.
- `FeedImplementsReplica`: `Spec => ReplicaSpec`, step by step from `IInv`.
- `HealthyMeansCurrent`, `DisconnectedStays`: `Spec /\ []OneConsumer =>` the
  invariants of `ext_feed_single`, with any number of subscriptions one after the
  other. `OneConsumer` (no two handlers of the symbol run) is a hypothesis and no
  theorem because the code does not ensure it: `Unsubscribe` cancels the handler
  and does not wait for it, and with two of them both properties fail. The
  invariant `OInv` orders what is on its way: the event in the handler's hand
  precedes those in the channel and these the venue's newest (`Ordered`), and a
  subscribed handler that ended left the book in another state than `HEALTHY`
  (`LastWord`).

`NotifyProofs`, for any events, users, keys, sizes, failures and crashes:

- `TypeCorrect`: `Spec => []TypeOK`, with the queue bounds.
- `DuplicatesAreExplained`: `Spec => []DuplicateOnlyAfterFailure`. Needs what
  the worker relies on between its statements: a row it has read is still
  pending with an attempt left (`BatchIsDue`; it is the only writer, and the
  dispatcher's insert does nothing to an existing row), and the row in hand is
  one of those and was taken if Telegram said so (`InHand`). `Nonempty` says
  that what is flushed has a first event, hence a key.
- `PipelineImplementsOutbox`: `Spec => OutboxSpec`.

`UserStreamProofs`, for any addresses, connections, capacity and breaks:

- `WithinCapacity`, `NoneIdle`, `NeverDoubled`, `NeverLost`: the four invariants of
  `user_stream`. An address on its way from a broken connection to the next one is
  accounted for at every point of `handleDrop` and `reconnect` (`Holds`, and `Safe`
  where it also survives); a connection off the list carries nothing until it is
  closed (`Emptied`); its identity is free again only after that (`Phases`,
  `Closing`). `NeverLost` excludes `raced`: an address put on a connection between
  the two steps of its `handleDrop`.

`WatcherProofs`, for any wallets, clients, watchers, orders, gate and breaks:

- `CountsAreUsers`, `NoUpstreamLeaks`, `CreatedOnce`: the invariants of `watcher`.
  A watcher whose bootstrap has not passed its `upstream.Subscribe` has a caller
  who waits in it and is counted (`Booting`), so it cannot be torn down before;
  what was torn down is not used again before its upstream is closed and its
  goroutine has ended (`Objects`); the set of orders is replaced for the last time
  before `LIVE` (`Remembered`).

`TraderProofs`, for every finite set of a market's fills:

- `ReconstructionIsRight`: `ReconstructTrades(S) = TrueTrades(S)`. The fold is
  compared with a definition that has no fold: a trade is the fills between two
  moments where the position is flat or turns over. What a fold computes needs an
  induction, and the library's induction theorems are out of the provers' reach; a
  least counterexample is not, since the naturals are well-founded
  (`LeastExists`), so `RunRight` takes the shortest prefix on which the fold
  would be wrong. Lemmas say what an older prefix contributes: `CyclesBefore` and
  `CyclesAfterFlat` cut the fills in two where the position is flat.

and for any fills, horizon, retention not longer than the look-back, page size and number of failures:

- `TypeCorrect`: `Spec => []TypeOK`.
- `CursorNeverAhead`: `Spec => []NothingSkipped`. The cursor may move because of
  what a pass knows by then: all from its start to its now is fetched
  (`FetchedAll`) and staged (`Staged`), and its start leaves no gap after the old
  cursor but one older than the retention (`StartsInTime`). That the newest
  fetched time exists (`LatestExists`) rests on the well-foundedness of the
  naturals; fetches need not be finite.
- `RowsHold`: `Spec => []RowsAreWhole`. A pass knows the first k fills of the
  wallet and no other (`Knows`), the buffer has the recent ones of them (`Kept`),
  and unless a pass was cut into a position the wallet was flat before (`WasFlat`).
  A row that is rebuilt is then the row after the first k fills (`RowRebuilt`, from
  `ReconstructionIsRight`), and one that no new fill falls into would not change
  (`RowUnplanned`), which is why writing only the affected days is enough.
- `PeriodsHold`: `Spec => []AsOfIsCovered`, from the same invariant: the period
  rows are computed after the days of the pass whose now they bear.

and for any requests, callers, wallets, dexes, time to live and bound on the universes:

- `TabsAnswer`: `Tabs!Spec => []OnDemandHolds`, by `TabsInv`.
  Where a call is in `GetOrFetch` says what it leads and how old the value it holds
  may be (`Fine`). A waiter has a leader because a leader is a call that fetches, of
  one flight and no other, and the only one inside which it starts another is the
  universe's (`Flights`); so nobody waits for somebody who waits for him. The age of
  an answer is the hard part. A value is served until a time to live after its
  storing, and by then it may already be a tick old, or, if it was made of a universe
  about to expire, a time to live and a tick (`Lag`): the bounds of `AgeBounded`, one
  and two times to live, are the largest that leaves, since a fresh entry is younger
  than its time to live. They also need that what the second look-up finds after the
  first found nothing was stored at that very moment (`Sees`), and that no tick passes
  twice over one flight (`Under`). The universes exceed their bound only by those who
  stored one and have yet to trim (`Bounded`).

`AccountProofs`, for any clients, emails, addresses, ids and requests:

- `OneAccount`, `SessionsEnd`, `WalletKept`, `OnceEach`: four invariants of
  `accounts`. What the first statement of a request has read is still true at the
  later one that relies on it, unless a request of the kind was in flight, which is
  what `raced` records (`Alone`, `Registering`, `Carrying`, `Unlinking`). The
  theorems are about `AccountSpec`, which starts with an empty database; the run
  starts from a few states within it, to spare TLC the way there.
- `WatchedIsCapped`: `Group!Spec => []CapHolds`, by `GInv`. At the insert what a
  user watches is within what the request counted, and that together with what it
  adds was within a cap (`CountStands`); another addition of the same user would
  break this, and is excluded by `overlapped` (`OneAdd`).
- `LimitHolds`: `Limiter!Spec => []TwiceTheLimit`, by `LInv`. What passed is what the
  bucket of the map has counted, what the one before had, and what is a window
  older (`Current`, `Vacant`). It is here that requests take time: a request that
  has read the clock and is overtaken by a renewal counts in the new window, so the
  bound is on spans of the window less two delays, and a bucket that is removed
  while a request holds it (`orphaned`) voids it.
- `BotHolds`: `Telegram!Spec /\ Text!Spec => []TelegramHolds`, from two theorems.
  `LinkedOnce`: `[]CommandsOnceInOrder`, by `TInv`: the updates before the offset, and
  no others, have been handled once (`HandledBefore`). `TextIsRight`:
  `[]MessageIsRight`, event by event.
- `RowIsServed`: `Settings!Spec => []ServedIsCurrent`, by `CInv`: a reader that no
  invalidation has overtaken still holds the row (`ReadersHold`).

`TradingProofs`, for any callers, ids, bodies and bounds, each service from its
own empty tables (`MCTrading` gives only the run's values to their constants):

- `EngineRunsItsRows`: `Spec => []EngineMatchesRows`. `SInv` follows a request
  from statement to statement and says how far row and engine may differ (`Half`).
- `SwitchIsObeyed`: `Risk!Spec => []KillSwitchHolds`. A check not overtaken by a
  disable or a restart is evaluated while the switch is still on (`CheckInFlight`).
- `RecordsHold`: `Execution!Spec /\ Recon!Spec => []RecordsAreTrue`. An order bears
  the account and client id of its leg, so the look-up before the insert finds any
  other order of the leg, and nobody is still adding legs to an execution that can
  be named (`EInv`); nothing that has a leg completes (section 5). A worker alone
  on its run has stored exactly what it has not left to do (`NInv`), and equal
  counts mean equal sets because what it found is finite.
- `ServedPays`: `Scan!ScannerSpec => []OpportunitiesPay`, by `MInv`. The best prices of
  a merged state are prices of healthy venues (`BestShown`), and while a pair is
  examined the prices read first still pay, and are still the venues' unless an
  update came between the two readings (`Scanned`); the rest is the arithmetic of
  basis points, rounded as the code rounds it.

`MarketProofs`, for any sockets, browsers, venues, callers, wallets, and sizes of
buffers, queues, pages and batches:

- `MarketIsFollowed`: `Market!Spec /\ Fanout!Spec => []MarketHolds`. `SInv` ties the
  status of a subscription and its place in the three indexes to how far its
  socket's goroutine is; that waits never shrink is a fact about the recursive
  function `Backoff`. `FInv` puts the pipe of a browser end to end: what is written,
  in the buffer, in hand and in the channel is in order, and the newest thing a
  channel took is still in the pipe or was written.
- `BoardIsTrue`: `Board!BoardSpec => []BoardHolds`. Half of it (`CInv`) is about the
  collectors: what each has left behind for the rows it has passed. The other half
  (`QInv`) is about requests that read the tables one row at a time meanwhile:
  unless a collector has been at one of the venues since, what was read is what
  there is. That the pages of an order partition it is a fact about windows of
  sequences. The run starts its parts `perps` and `pages` in the middle; the theorem
  is about the board from empty tables.
- `UpstreamIsKept`: `Finding!HarvestSpec /\ Live!LiveSpec => []UpstreamHolds`. `HInv`
  follows a trade time from queue to registry (`OnWay`): a batch that is put back
  among what was merged meanwhile keeps the later time of each wallet (`MergeIs`).
  A recorded run has taken the best of its board, for any limit (`TakenAre`), and
  what it still has to write is the end of what it took (`RowsLeft`). `UInv` says of
  a window that is split that the slices left and the fills found are together the
  window (`Splits`), and of the gate that it counts the calls that hold a place. The
  run starts its part `harvest` at a reading stream; the theorem starts before.

What a reader should hold against the assumptions added for these proofs:

- `GroupAssumption`: caps are naturals, a request names finitely many wallets. The
  settings refuse a cap out of its range, and 0 stands for none; a body is a slice.
- `LimiterAssumption`, `TextAssumption`, `PriceAssumption`, `SubsAssumption`,
  `LiveAssumption`: limits, durations, sizes, prices and pages are naturals, a page
  holds at least one fill, the venue is asked for a time that is a number, and the
  first back-off is no longer than the longest, as the constants of the code are.
- `LinkAssumption`: the value for "no chat" is no chat's id (Telegram ids are not 0).
- `VenueAssumption`: finitely many venues, none of which has the id 0.
- `BoardAssumption`: the symbols of one venue that are equal have equal bases, since
  a symbol is parsed the same way each time; limits and pages are numbers.
- `OnDemandAssumption`: finitely many requests are served at once, there is something
  to ask, the time to live is positive (`NewOnDemandCache` replaces any other), and of a
  request's form that no tab is the universe and a detail has no mode. It is assumed
  in `MCReads` (`TabsAssumption`).
- `HarvestAssumption`: frames and boards are finite, and trade times, PnL and the limit
  are numbers. The limit may be negative or 0, which takes all.

The proofs changed the models, never what they say of the code:

- A `CASE` whose guards overlap has no defined value for the provers, so `ApplyFill`
  (`Reconstruct`), `Start` (`LiveUpstream`) and `ComparePrimaryToAfter` (`TabPages`)
  are nested conditions in the order of the code's.
- An `INSERT` is an operator that gives the table with the row in it (`Insert`,
  `InsertRow`, `InsertExecution`, `InsertRun`), because the provers do not know `@@`.
- What a sort returns is a member of a set of results and no longer computed by a
  library operator (`SelectTop`, `Page`, `Deduped`, and the orders of the board): the
  code's sorts leave the order of equal rows open or decide it by the rows.
- `Backoff` (`MarketSubs`) is a recursive function.
- A call of `OnDemand` has a frame for the tab and one for the universe inside it where
  it had a sequence of frames, and a record of a table is written by an operator that
  gives the whole table (`Written`).
- A page of `TabPages` is passed on as a parameter (`Cut`, `Numbered`, `Walked`) and no
  longer repeated under a `LET`, which TLC's coverage expanded for minutes.
- Three models were too coarse to be reasoned about and were wrong in it: `RateLimit`
  read the clock in the step that looked the bucket up, and a request of
  `FundingBoard` read the mappings again for each row. They read once now, as the
  code does, and `TwiceTheLimit` says what is left of the limit for it. `OnDemand` kept
  a series alone under the key of its period, while the code has one key for all.
- That the absent watcher is neither a watcher nor a state, and that nonce and wallet
  ids are naturals, were used and not said.

Only model-checked:

- the liveness properties (`DeadFeedIsNoticed`, `ReconnectCompletes`,
  `EventuallyLive`, `RowsSettle`), because fairness is outside what the prover does;
- `PagesHold`, the pages of the tabs. What a page holds is defined by `SortSeq` and
  `SelectSeq` over an order given as a parameter, by induction over the rows, which
  the provers cannot instantiate;
- `BurstsShare` and the other promises of section 5, which do not hold.

## 5. Findings

A run that TLC finds violated, the property being what a comment says:

- `reads_burst`. "Bursts coalesce via single-flight" (ondemand.go:45): after the
  flight each reader compares the cached value with its own by `==`. The fills,
  orders and transfers tabs cache slices, which Go refuses to compare at run time,
  so the second reader of a burst gets an error 500 and not the rows.

Promises the code does not keep, each stated in its module under the name given,
where TLC finds it violated when it is added to the `.cfg` of the module's run
(`BadgeIsHonest` in an instance of two wallets and three watchers); no run is listed for them:

- `UnsubscribeReleases` (`UserStream`). "last unsubscribe tears down the upstream
  watcher" (watcher.go:304): an address unsubscribed while `reconnect` sleeps is
  subscribed again by it and stays.
- `BadgeIsHonest` (`Watcher`). "Never display non-LIVE data with a LIVE badge"
  (watcher.go:17): a watcher torn down after its gate announces `LIVE` by
  address, to the clients of its successor.
- `LiveIsStreamed` (`Watcher`). "further subscribers share it" (watcher.go:277):
  the `upstream.Unsubscribe` of a teardown may follow the `Subscribe` of the next
  watcher of the wallet, which is then `LIVE` and not streamed; so may the wallet
  whose `Subscribe` failed, since its error is ignored.
- `CollectedIsDispatched` (`NotifyPipeline`). The coalescer "collapses Intents ...
  within a window" (coalescer.go:17): an event after the window and before the
  ticker replaces the bucket, and what it had collected is gone.
- `RowsAreDurable` (`TraderSync`). "Daily rows are the durable record"
  (sync.go:18) and "days older than the purge cutoff are left untouched"
  (sync.go:246): the cutoff is not at midnight, so the day it lies in is rebuilt
  without the trades before it, at every pass, until the cutoff has left the day.

Promises that no property is needed to refute:

- "Risk blocks execution" (TESTPLAN.md:559): nothing in `execution` consults the
  risk engine or its kill switch.
- A paper execution with a leg never completes: `executePaper` asks for
  `SUBMITTING -> FILLED`, which `ValidOrderTransitions` does not have. It stays
  `SUBMITTING`, and submitting it again meets the duplicate client order id.
- A second registration of an address is to answer 409 (TESTPLAN.md:61, :138):
  migration 12 drops the unique index, so two that overlap make two accounts.
- The cache's comments say "default 12s"; `LiveCacheTTL` is 60 seconds, and a tab
  over the wallet's universe is up to twice as old.

Met while reading and in the models:

- `requestResync` "triggers a resync" (bridge.go:258): it only writes
  `RESYNCING`, and on a connection that stays up no snapshot ever comes.
- The feeds are "per-wallet" (watcher.go:81): an order update names no user and
  is given to every address of its connection.
- A slice of a split fetch that fails is dropped without an error; the cursor
  moves past it, it is never fetched again, and the next pass clears the partial
  flag. If nothing was collected the cursor moves to now. `NothingSkipped` and
  the others say what holds as long as this has not happened (`lossy`).
- On a failed fetch the period rows are said to keep their "metrics vintage"
  (sync.go:162): they are computed again, over a window that has moved, and
  dated with the last success; with none, dated now.
- A first back-fill reads 365 days and makes daily rows for the last 60: fills
  before the purge cutoff are skipped.
- An order is announced as created again when the snapshot that replaces the
  orders was read before the order (watcher.go:359); `CreatedOnceWhenLive` says
  that this happens only before `LIVE`.
- After an upstream break a watcher stays `LIVE` and does not resync:
  `WatcherManager.Reconnect` has no caller outside the tests.
- A coalesced intent carries the key of its first event, so a new fill behind a
  repeated one is dropped with it, and the key has no wallet in it. Rows pending
  at `/stop` are still sent. Queues and buckets are lost at a shut-down.
- A reader that missed the cache before the first of a burst has stored its value
  leads a second fetch, and the older value may replace the newer one. A cached
  detail answers `ready` also when it was partial. The fills, orders and transfers
  tabs fall back to old or empty rows without a status.
- Rows with one time and one hash at a page's boundary are lost; offset pages of
  the search may overlap or skip while the metrics are recalculated.
- A failed send in `RefreshCoins` leaves coins uncovered until the next hourly
  refresh. A shut-down leaves queued batches undrained and loses a last flush that
  fails. Waiters in the pacer pass together. A wallet added by hand becomes
  `leaderboard`, not `both`, when discovery finds it.
- `LinkWallet`'s update to the method `both` is never reached. A link code is
  consumed by a `/start` that is then refused. A restart of the bot handles
  commands again. A settings cache can serve an outdated value for five minutes.
- The close messages carry the raw placeholders `{entry}`, `{exit}` and
  `{duration}`; a stop-loss prints its sign twice; fills that turn a position over
  are not announced.
- The rows `RUNNING` survive a restart and the engine does not; a strategy is
  started under its request's context; a PUT of a status does not tell the engine.
  Policies changed by an update stay as they were in the engine, and concurrent
  writers of its map end the process.
- Nothing calls `RunChecks`, nor the updates of the unified state, so the scanner
  has nothing to scan outside the tests. It dereferences a price that may have
  become nil since it was tested.
- A browser of an order book subscribes after the book it was sent was read, and
  misses a snapshot in between; the forwarder may send on a channel the hub has
  closed, which ends the process. `IsTradable` accepts a book of up to ten
  seconds that `GetHealth` calls stale after five.
- The board always answers "fresh"; its cache ignores `include_stale`; its key is
  sorted while its tokens are oriented by the first request.
- The readLoop of `WSClient` starts a reconnect after a deliberate `Disconnect`
  too; in the Binance adapter the first snapshot signal is never drained, so a
  second connection's handler blocks on it, and the asks of an update carry the
  sequence of its bids and are ignored by the engine.

## 6. Assumptions, and what is left out

- One process: the worker is the only reader and writer of due outbox rows.
- The contexts given to long-lived subscriptions outlive them (the watchers use
  `context.Background()`).
- A critical section is one step; how long it blocks others is not modelled.
- `Bridge` and `NewBridge` are used by tests only at this commit, as are
  `CheckFreshness` and `ResetBook`; they are modelled because they are the
  book's only consumers of venue events.
- Dispatcher and worker exist only when Telegram is configured, so the worker
  has a sender.
- Parsing, formatting, logging, metrics and statistics counters are left out;
  so are fills and fundings of the watcher's snapshot and the gap counters of
  the book.
- In `TraderSync` fill times and ids grow together at the venue, the registry's
  `last_trade_at` may be that of any trade, and clocks of process and database
  agree. One market; the equity curve, the leaderboard values and the sums of a
  row are left out.
- `INSTANCE`d abstract modules carry no fairness: they promise safety only.

- `ApplySnapshot` of the order book service, `RunChecks` and the updates of the
  unified state have no caller outside the tests; they are modelled as what they
  offer, called at any time.
- Each of the services of `MCAccounts`, `MCTrading` and `MCMarket`, and each tab,
  answers requests that come at any time; a statement or a fetch may fail
  wherever the code handles its error.
- Hashes, signatures, HMACs and JSON are abstract: what they say is what is
  compared. Amounts are integers; the reconciliation's tolerances and the
  scanner's basis points are what their comparisons tell apart.

### Not modelled

- The Binance feed: nothing constructs it, and see section 5 for why its
  protocol would not hold.
- Storage, retention and replay: deletes by age and reads by time of tables that
  nothing else reads back.
- Instruments and venues: single-statement reads and writes of rows.
- Equity, performance metrics and the arithmetic of positions: sums of floating
  point numbers, whose definition is the code's.
- Wiring, HTTP set-up, logging, health: no protocol.

### Hazards without a property

`PROJECT.json` lists two hazards that no property covers, because the code meets
them in the bad way whatever the order of steps (bridge.go:236, coalescer.go:74).
Others of this kind are left out of it: frames of one address written in the
other order than their calls (userstream.go:226), whose effect the venue decides;
the dial under `us.mu` (userstream.go:211), which is waiting and not order; a
connection state dropped for a slow client (watcher.go:488) and events dropped
by two bounded queues (dispatcher.go:68), which comments announce.

## 7. The plan

Done: the order book, user streams, watchers, notifications and trader sync;
finding wallets, the tabs and the venue's client; the accounts; the trading desk;
market data; the proofs of section 4, which state every invariant of the runs but
`PagesHold`. Next, most important first:

1. **Composition**: `Watcher` over `UserStream` in one specification, with the
   upstream of the one implemented by the other.
2. **Calculations**: equity and the period metrics as folds over fills, checked
   against a reference definition over all short fill sequences.
3. **Proofs** about `TabPages`, with sorted rows as members of a set of results, as
   in `FundingBoard`.
4. **The second venue** (`BinanceFeed` on `OrderBook`) once something uses it,
   with deliberate disconnects and pings.

Runs are kept few: components that share no state share a run, in parts.

------------------------------ MODULE Harvest ------------------------------
(* Finding wallets: the public trade stream and its coin subscriptions       *)
(* (hyperliquid/wstrades.go), the harvest of its traders into the registry   *)
(* (trader/wsharvest.go) and the leaderboard's discovery (discovery.go),     *)
(* which write the same registry rows.                                       *)
EXTENDS Integers, Sequences, FiniteSets

CONSTANTS
  Universes,   \* the sets of coins the venue's metadata may list
  MaxCoins,    \* TradeStream.maxCoins
  MaxBackoff,  \* the longest wait before a reconnect, in seconds
  Frames,      \* records [channel, trades], a trade [coin, time, users]
  QueueCap,    \* WSHarvestService.queueCap
  BatchSize,   \* pending addresses that force a flush
  Boards,      \* leaderboards: sequences of [addr, month, windows]
  Limit,       \* discovery limit; 0 means all
  Manual,      \* what the registry may hold before: sets of wallets added by hand
  MaxRuns      \* bound on the discovery runs

VARIABLES
  stream,      \* TradeStream: pc, coins, subscribed, sender, backoff
  venue,       \* the coins the current connection was asked for
  broken,      \* the last refresh of this connection could not send
  queue, pending, flushing,  \* batches queued; address -> latest trade; the batch being written
  harvester,   \* Start: idle, full, upsert, last, over, lost
  accepted,    \* what Submit took: <<address, its latest trade>>
  registry,    \* trader_registry: address -> [source, trade, lb]
  saw,         \* who has seen an address: "ws_trade", "leaderboard", "manual"
  refs,        \* trader_leaderboard_ref: <<address, window>> -> run that wrote it
  discovery    \* Discover: pc, rows left, windows left, board, run, errors

streamVars == <<stream, venue, broken>>
harvestVars == <<queue, pending, flushing, harvester, accepted>>
registryVars == <<registry, saw>>
discoverVars == <<refs, discovery>>
hvVars == <<streamVars, harvestVars, registryVars, discoverVars>>

Null == -99
Empty == [a \in {} |-> 0]
Known == {"day", "week", "month", "allTime"}
Latest(s, t) == IF s > t THEN s ELSE t
\* Frames are finite and times are numbers, and so are a month's PnL and the limit.
HarvestAssumption ==
  /\ Limit \in Int
  /\ \A f \in Frames : IsFiniteSet(f.trades) /\ \A t \in f.trades : t.time \in Int
  /\ \A b \in Boards : b \in Seq([addr : Nat, month : Int, windows : SUBSET STRING])

NotStreaming ==
  /\ stream = [pc |-> "boot", coins |-> {}, subscribed |-> {}, sender |-> FALSE, backoff |-> 1]
  /\ venue = {} /\ broken = FALSE
NothingFound ==
  /\ queue = <<>> /\ pending = Empty /\ flushing = Empty /\ harvester = "idle" /\ accepted = {}
  /\ \E m \in Manual : /\ registry = [a \in m |-> [source |-> "manual", trade |-> 0, lb |-> FALSE]]
                       /\ saw = [a \in m |-> {"manual"}]
  /\ refs = Empty
  /\ discovery = [pc |-> "idle", rows |-> <<>>, windows |-> {}, board |-> <<>>, top |-> <<>>, run |-> 0, errors |-> 0]
Init == NotStreaming /\ NothingFound

---------------------------------------------------------------------------
(* TradeStream *)

\* The bootstrap: the metadata may fail, a universe over the cap is refused.
SetCoins ==
  /\ stream.pc = "boot"
  /\ \E u \in Universes : stream' = [stream EXCEPT !.pc = "dial", !.coins = IF Cardinality(u) > MaxCoins THEN {} ELSE u]
  /\ UNCHANGED <<venue, broken>>
BootFails ==
  /\ stream.pc = "boot"
  /\ stream' = [stream EXCEPT !.pc = "dial"]
  /\ UNCHANGED <<venue, broken>>

Closed(s) == [s EXCEPT !.pc = "wait", !.sender = FALSE]
\* connect: nothing is subscribed on a new connection until subscribeAll.
Connect ==
  /\ stream.pc = "dial"
  /\ stream' = [stream EXCEPT !.pc = "subscribe", !.sender = TRUE, !.subscribed = {}]
  /\ venue' = {} /\ broken' = FALSE
DialFails ==
  /\ stream.pc = "dial" /\ stream' = Closed(stream) /\ UNCHANGED <<venue, broken>>

\* subscribeAll holds the mutex over every send; the first that fails ends the connection.
SubscribeAll ==
  /\ stream.pc = "subscribe"
  /\ \E sent \in SUBSET stream.coins :
       /\ venue' = venue \cup sent
       /\ stream' = [stream EXCEPT !.subscribed = @ \cup sent, !.pc = IF sent = stream.coins THEN "read" ELSE "closing"]
  /\ UNCHANGED broken

\* The socket fails; until the deferred functions run the sender is still set.
ReadFails ==
  /\ stream.pc = "read"
  /\ stream' = [stream EXCEPT !.pc = "closing"]
  /\ UNCHANGED <<venue, broken>>
Close ==
  /\ stream.pc = "closing"
  /\ stream' = Closed(stream)
  /\ UNCHANGED <<venue, broken>>

\* Run: connect never returns nil before the end, so the wait only ever grows.
Retry ==
  /\ stream.pc = "wait"
  /\ stream' = [stream EXCEPT !.pc = "dial", !.backoff = IF 2 * @ > MaxBackoff THEN MaxBackoff ELSE 2 * @]
  /\ UNCHANGED <<venue, broken>>

\* RefreshCoins: the coins not yet marked are sent in order and each is marked once
\* sent; without a connection they are marked all the same.
RefreshCoins(u) ==
  /\ stream.pc /= "boot" /\ Cardinality(u) <= MaxCoins
  /\ \E sent \in SUBSET (u \ stream.subscribed) :
       /\ stream.sender \/ sent = u \ stream.subscribed
       /\ venue' = IF stream.sender THEN venue \cup sent ELSE venue
       /\ broken' = (sent /= u \ stream.subscribed)
       /\ stream' = [stream EXCEPT !.coins = u, !.subscribed = @ \cup sent]

StreamNext ==
  /\ \/ SetCoins \/ BootFails \/ Connect \/ DialFails \/ SubscribeAll \/ ReadFails \/ Close \/ Retry
     \/ \E u \in Universes : RefreshCoins(u)
  /\ UNCHANGED <<harvestVars, registryVars, discoverVars>>

---------------------------------------------------------------------------
(* WSHarvestService *)

\* parseTradeFrame: other channels and the error channel give nothing; a trade
\* without two users or without a time is skipped.
ParseTradeFrame(frame) ==
  IF frame.channel /= "trades" THEN {} ELSE {t \in frame.trades : Len(t.users) = 2 /\ t.time > 0}
\* NormalizeAddress refuses what is not an address (here the address 0).
Parties(events) == {<<t.users[i], t.time>> : t \in events, i \in 1..2} \ {<<0, t.time>> : t \in events}
Newest(seen) == {p \in seen : \A q \in seen : q[1] = p[1] => q[2] <= p[2]}
\* A mutant: a later batch replaces an earlier one.
MergeBatchLast(dst, events) ==
  LET met == {p[1] : p \in Parties(events)}
  IN  [a \in DOMAIN dst \cup met |-> IF a \in met THEN CHOOSE t \in {p[2] : p \in Parties(events)} : <<a, t>> \in Parties(events) ELSE dst[a]]
MergeBatch(dst, events) ==
  LET met == {p[1] : p \in Parties(events)}
      newest(a) == CHOOSE t \in {p[2] : p \in Parties(events)} :
                     <<a, t>> \in Parties(events) /\ \A p \in Parties(events) : p[1] = a => p[2] <= t
  IN  [a \in DOMAIN dst \cup met |->
         IF a \notin met THEN dst[a] ELSE IF a \in DOMAIN dst THEN Latest(dst[a], newest(a)) ELSE newest(a)]

\* A frame of a subscribed coin; its events are queued, or dropped when the queue is full.
Submit(frame) ==
  LET events == ParseTradeFrame(frame)
  IN  /\ stream.pc = "read" /\ \A t \in frame.trades : t.coin \in venue
      /\ events /= {}
      /\ IF Len(queue) < QueueCap
         THEN queue' = Append(queue, events) /\ accepted' = Newest(accepted \cup Parties(events))
         ELSE UNCHANGED <<queue, accepted>>
      /\ UNCHANGED <<pending, flushing, harvester, registryVars>>

Drain ==
  /\ harvester = "idle" /\ queue /= <<>>
  /\ queue' = Tail(queue)
  /\ pending' = MergeBatch(pending, Head(queue))
  /\ harvester' = IF Cardinality(DOMAIN pending') >= BatchSize THEN "full" ELSE "idle"
  /\ UNCHANGED <<flushing, accepted, registryVars>>

\* flush takes what is pending when a batch is full or the ticker fires; when the
\* context ends Start flushes once more and leaves the queue.
Flush ==
  /\ harvester \in {"idle", "full"} /\ pending /= Empty
  /\ flushing' = pending /\ pending' = Empty
  /\ harvester' \in {"upsert"} \cup (IF harvester = "idle" THEN {"last"} ELSE {})
  /\ UNCHANGED <<queue, accepted, registryVars>>
StopEmpty ==
  /\ harvester = "idle" /\ pending = Empty
  /\ harvester' = "over"
  /\ UNCHANGED <<queue, pending, flushing, accepted, registryVars>>

\* UpsertRegistryWS is one statement: new rows are ws_trade, a leaderboard row
\* becomes both, the latest trade stays.
MergeWS(row, t) == [row EXCEPT !.trade = Latest(@, t), !.source = IF @ = "leaderboard" THEN "both" ELSE @]
UpsertRegistryWS ==
  /\ harvester \in {"upsert", "last"}
  /\ registry' = [a \in DOMAIN registry \cup DOMAIN flushing |->
       IF a \notin DOMAIN flushing THEN registry[a]
       ELSE IF a \in DOMAIN registry THEN MergeWS(registry[a], flushing[a])
       ELSE [source |-> "ws_trade", trade |-> flushing[a], lb |-> FALSE]]
  /\ saw' = [a \in DOMAIN registry' |->
       (IF a \in DOMAIN saw THEN saw[a] ELSE {}) \cup (IF a \in DOMAIN flushing THEN {"ws_trade"} ELSE {})]
  /\ flushing' = Empty
  /\ harvester' = IF harvester = "last" THEN "over" ELSE "idle"
  /\ UNCHANGED <<queue, pending, accepted>>

\* A failed flush is merged back, unless the harvest has ended.
Requeued == [a \in DOMAIN pending \cup DOMAIN flushing |->
  IF a \notin DOMAIN flushing THEN pending[a]
  ELSE IF a \in DOMAIN pending THEN Latest(pending[a], flushing[a]) ELSE flushing[a]]
FlushFails ==
  /\ harvester \in {"upsert", "last"}
  /\ pending' = Requeued /\ flushing' = Empty
  /\ harvester' = IF harvester = "last" THEN "lost" ELSE "idle"
  /\ UNCHANGED <<queue, accepted, registryVars>>

HarvestNext ==
  /\ \/ \E f \in Frames : Submit(f)
     \/ Drain \/ Flush \/ StopEmpty \/ UpsertRegistryWS \/ FlushFails
  /\ UNCHANGED <<streamVars, discoverVars>>

---------------------------------------------------------------------------
(* DiscoveryService *)

\* selectTop: by the month's PnL, largest first, rows without one last, in board
\* order where they tie; at most the limit.
Before(board, i, j) ==
  LET p == board[i].month
      q == board[j].month
  IN  \/ p /= Null /\ (q = Null \/ p > q)
      \/ p = q /\ i < j
Kept(board) == IF Limit > 0 /\ Len(board) > Limit THEN Limit ELSE Len(board)
SelectTop(board) ==
  {top \in [1..Kept(board) -> DOMAIN board] :
     /\ \A m, n \in DOMAIN top : m < n => Before(board, top[m], top[n])
     /\ \A n \in DOMAIN top, i \in DOMAIN board : (\A m \in DOMAIN top : top[m] # i) => Before(board, top[n], i)}

Discover(board) ==
  /\ discovery.pc = "idle" /\ discovery.run < MaxRuns
  /\ \E top \in SelectTop(board) :
       discovery' = [discovery EXCEPT !.pc = "rows", !.board = board, !.top = top,
                                      !.rows = [n \in DOMAIN top |-> board[top[n]]], !.windows = {}, !.run = @ + 1]
  /\ UNCHANGED <<refs, registryVars>>
\* A failed download writes nothing and is counted.
FetchTopFails ==
  /\ discovery.pc = "idle" /\ discovery.run < MaxRuns
  /\ discovery' = [discovery EXCEPT !.pc = "failed", !.run = @ + 1, !.errors = @ + 1]
  /\ UNCHANGED <<refs, registryVars>>

Merge(old, new) == IF old = new \/ new = "manual" THEN old ELSE IF old = "manual" THEN new ELSE "both"
UpsertRegistry ==
  LET row == Head(discovery.rows)
      a == row.addr
  IN  /\ discovery.pc = "rows" /\ discovery.rows /= <<>> /\ discovery.windows = {}
      /\ IF a = 0
         THEN discovery' = [discovery EXCEPT !.rows = Tail(@)] /\ UNCHANGED registryVars
         ELSE /\ registry' = [b \in DOMAIN registry \cup {a} |->
                   IF b /= a THEN registry[b]
                   ELSE IF a \in DOMAIN registry
                   THEN [registry[a] EXCEPT !.source = Merge(@, "leaderboard"), !.lb = TRUE]
                   ELSE [source |-> "leaderboard", trade |-> 0, lb |-> TRUE]]
              /\ saw' = [b \in DOMAIN registry' |->
                   (IF b \in DOMAIN saw THEN saw[b] ELSE {}) \cup (IF b = a THEN {"leaderboard"} ELSE {})]
              /\ discovery' = IF row.windows \cap Known = {} THEN [discovery EXCEPT !.rows = Tail(@)]
                              ELSE [discovery EXCEPT !.windows = row.windows \cap Known]
      /\ UNCHANGED refs
UpsertLeaderboardRef(w) ==
  LET key == <<Head(discovery.rows).addr, w>>
  IN  /\ discovery.pc = "rows" /\ w \in discovery.windows
      /\ refs' = [k \in DOMAIN refs \cup {key} |-> IF k = key THEN discovery.run ELSE refs[k]]
      /\ discovery' = [discovery EXCEPT !.windows = @ \ {w}, !.rows = IF discovery.windows = {w} THEN Tail(@) ELSE @]
      /\ UNCHANGED registryVars
\* A failed statement ends the run where it is, and no counter sees it.
DiscoverAborts ==
  /\ discovery.pc = "rows" /\ discovery.rows /= <<>>
  /\ discovery' = [discovery EXCEPT !.pc = "failed", !.rows = <<>>, !.windows = {}]
  /\ UNCHANGED <<refs, registryVars>>
RecordRun ==
  /\ discovery.pc = "rows" /\ discovery.rows = <<>>
  /\ discovery' = [discovery EXCEPT !.pc = "listed", !.errors = 0]
  /\ UNCHANGED <<refs, registryVars>>
NextRun ==
  /\ discovery.pc \in {"failed", "listed"} /\ discovery.run < MaxRuns
  /\ discovery' = [discovery EXCEPT !.pc = "idle", !.board = <<>>, !.top = <<>>]
  /\ UNCHANGED <<refs, registryVars>>

DiscoverNext ==
  /\ \/ \E b \in Boards : Discover(b)
     \/ \E w \in Known : UpsertLeaderboardRef(w)
     \/ FetchTopFails \/ UpsertRegistry \/ DiscoverAborts \/ RecordRun \/ NextRun
  /\ UNCHANGED <<streamVars, harvestVars>>

HarvestSpec == Init /\ [][StreamNext \/ HarvestNext \/ DiscoverNext]_hvVars

---------------------------------------------------------------------------
\* While trades are read, the venue streams every coin of the last universe,
\* unless the last refresh of this connection could not send; and nothing is
\* marked that this connection was not asked for.
CoinsCovered ==
  /\ stream.pc = "read" /\ ~broken => stream.coins \subseteq venue
  /\ stream.sender => stream.subscribed \subseteq venue

\* A trade time that was taken is queued, pending, being written or stored, as
\* late as it was seen; only the last flush of a shutdown may lose it.
TradesKept ==
  harvester /= "lost" => \A p \in accepted :
    LET a == p[1]
    IN  \/ \E i \in DOMAIN queue : p \in Parties(queue[i])
        \/ a \in DOMAIN pending /\ pending[a] >= p[2]
        \/ a \in DOMAIN flushing /\ flushing[a] >= p[2]
        \/ a \in DOMAIN registry /\ registry[a].trade >= p[2]

\* discovery_source says who saw the wallet: both saw a "both", the leaderboard
\* never saw a "ws_trade", and a "leaderboard" traded in view only if it was
\* manual before.  leaderboard_seen_at is set exactly when the leaderboard saw it.
SourceIsTrue ==
  \A a \in DOMAIN registry :
    /\ registry[a].source = "both" => {"leaderboard", "ws_trade"} \subseteq saw[a]
    /\ registry[a].source = "ws_trade" => "ws_trade" \in saw[a] /\ "leaderboard" \notin saw[a]
    /\ registry[a].source = "leaderboard" => "leaderboard" \in saw[a] /\ ("ws_trade" \in saw[a] => "manual" \in saw[a])
    /\ registry[a].source = "manual" => "leaderboard" \notin saw[a]
    /\ registry[a].lb = ("leaderboard" \in saw[a])

\* A run that is recorded has listed the best wallets of its board: each has a
\* row the leaderboard is a source of and this run's reference for every window,
\* no wallet left out earned more than one that was taken, and as many are taken
\* as the limit allows.
Earned(a, b) == a # Null /\ (b = Null \/ a > b)
RunIsWhole ==
  discovery.pc = "listed" =>
    LET board == discovery.board
        taken == {discovery.top[n] : n \in DOMAIN discovery.top}
    IN  /\ \A i \in taken : board[i].addr # 0 =>
             /\ registry[board[i].addr].source \in {"leaderboard", "both"}
             /\ \A w \in board[i].windows \cap Known : refs[<<board[i].addr, w>>] = discovery.run
        /\ \A i \in taken, j \in DOMAIN board \ taken : ~Earned(board[j].month, board[i].month)
        /\ Cardinality(taken) = Kept(board)

HarvestHolds == CoinsCovered /\ TradesKept /\ SourceIsTrue /\ RunIsWhole
=============================================================================

----------------------------- MODULE TraderSync -----------------------------
(***************************************************************************)
(* The scanner's sync of one registry wallet (src/internal/trader/sync.go) *)
(* : fetch the fills since the cursor, stage them in trader_fill_buffer,   *)
(* rebuild the daily rows they touch, advance the cursor, rebuild the      *)
(* period rows, purge the buffer.  Every step is a statement of its own,   *)
(* with no transaction around them: a pass may end after any of them, by   *)
(* an error, the wallet timeout or the end of the process.                 *)
(*                                                                         *)
(* Wallets share nothing in these tables and SyncAll gives each to one     *)
(* worker, so one wallet is modelled.  SyncAll fixes "now" for all its     *)
(* wallets when it starts: a pass runs at a clock that may be later.       *)
(*                                                                         *)
(* The equity curve, the leaderboard references and the numbers computed   *)
(* from a row are left out; a row is the set of its trades and of its      *)
(* fills, a period row the daily rows it sums.                             *)
(***************************************************************************)
EXTENDS Reconstruct

CONSTANTS
  Sizes,          \* signed quantities of the venue's fills
  Day,            \* length of a UTC day
  FullLookback, Retention,              \* SyncOptions
  ColdAfter, ColdInterval,              \* SyncOptions
  BaseDelay, MaxDelay,                  \* backoffDelay: 5 minutes, 6 hours
  Lookback,       \* periodLookbacks, in the order of recalcAll
  PageSize,       \* maxFillsPerResponse
  Horizon, MaxFills, MaxFailures        \* bounds of the model

ASSUME SyncAssumption ==
  /\ Sizes \subseteq Int \ {0}
  /\ Day \in Nat \ {0}
  /\ FullLookback \in Nat /\ Retention \in Nat
  /\ Retention <= FullLookback
  /\ ColdAfter \in Nat /\ ColdInterval \in Nat
  /\ BaseDelay \in Nat /\ MaxDelay \in Nat
  /\ DOMAIN Lookback \subseteq Nat /\ \A p \in DOMAIN Lookback : Lookback[p] \in Nat
  /\ PageSize \in Nat /\ Horizon \in Nat /\ MaxFills \in Nat /\ MaxFailures \in Nat

VARIABLES
  clock,
  fills,     \* what the wallet traded, at the venue
  buffer,    \* trader_fill_buffer
  rows,      \* trader_daily_stats; NoRow: none
  period,    \* trader_period_metrics
  sync,      \* trader_sync_state; failedAt: its updated_at, in status "error"
  pass,      \* the running SyncWallet, and where it is
  failures,
  lossy,     \* history: a truncated fetch has left a fill out
  cut        \* history: a pass has rebuilt from the middle of a cycle

tables == <<buffer, rows, period, sync>>
history == <<lossy, cut>>
vars == <<clock, fills, tables, pass, failures, history>>

Null == -1
Times == Nat \cup {Null}
DayOf(t) == t \div Day
DayStart(d) == d * Day
Days == 0..DayOf(Horizon)
Periods == DOMAIN Lookback

NoRow == [trades |-> {}, fills |-> {}]
NoMetrics == [status |-> "absent", asOf |-> Null, partial |-> FALSE, rows |-> <<>>]

IdlePass == [pc |-> "idle", now |-> 0, full |-> FALSE, start |-> 0, since |-> Null,
             fetched |-> {}, truncated |-> FALSE, days |-> {}, next |-> 1]

Init ==
  /\ clock = 0 /\ fills = {}
  /\ buffer = {}
  /\ rows = [d \in Days |-> NoRow]
  /\ period = [p \in Periods |-> NoMetrics]
  /\ sync = [cursor |-> Null, status |-> "pending", retry |-> 0, failedAt |-> 0,
             lastSuccess |-> Null, backfilled |-> FALSE]
  /\ pass = IdlePass
  /\ failures = 0
  /\ lossy = FALSE /\ cut = FALSE

-----------------------------------------------------------------------------
\* The world.

Tick ==
  /\ clock < Horizon
  /\ clock' = clock + 1
  /\ UNCHANGED <<fills, tables, pass, failures, history>>

Fills(q) ==
  /\ Cardinality(fills) < MaxFills
  /\ fills' = fills \cup {[tid |-> Cardinality(fills) + 1, at |-> clock, q |-> q]}
  /\ UNCHANGED <<clock, tables, pass, failures, history>>

-----------------------------------------------------------------------------
\* SyncAll: which wallet is due.  lastTrade is the registry's last_trade_at,
\* which the trade harvest keeps and which may miss any trade.

BackoffDelay(retry) ==
  LET d == BaseDelay * 2 ^ retry IN IF retry > 0 /\ d >= MaxDelay THEN MaxDelay ELSE d

IsCold(lastTrade) == lastTrade = Null \/ clock - lastTrade > ColdAfter

Due(lastTrade) ==
  /\ sync.status = "error" => clock >= sync.failedAt + BackoffDelay(sync.retry)
  /\ \/ sync.lastSuccess = Null
     \/ ~IsCold(lastTrade)
     \/ clock - sync.lastSuccess >= ColdInterval

SyncAll ==
  /\ pass.pc = "idle"
  /\ \E lastTrade \in {Null} \cup {f.at : f \in fills} : Due(lastTrade)
  /\ pass' = [IdlePass EXCEPT !.pc = "begin", !.now = clock]
  /\ UNCHANGED <<clock, fills, tables, failures, history>>

-----------------------------------------------------------------------------
\* SyncWallet.

Goto(pc) == pass' = [pass EXCEPT !.pc = pc]

\* A plausible mistake: the counter is not clamped.
RetriesUnclamped(delta) == sync.retry + delta

\* UpdateSyncProgress: GREATEST(0, retry_count + delta).
Retries(delta) == IF sync.retry + delta > 0 THEN sync.retry + delta ELSE 0

\* A plausible mistake: the fetch starts after the cursor, not at it.
StartAfterCursor(full) ==
  LET from == pass.now - FullLookback IN
  IF ~full /\ sync.cursor # Null /\ sync.cursor > from THEN sync.cursor + 1 ELSE from

StartOf(full) ==
  LET from == pass.now - FullLookback IN
  IF ~full /\ sync.cursor # Null /\ sync.cursor > from THEN sync.cursor ELSE from

Begin ==
  /\ pass.pc = "begin"
  /\ LET full == ~sync.backfilled IN
     pass' = [pass EXCEPT !.pc = IF full THEN "syncing" ELSE "fetch",
                          !.full = full, !.start = StartOf(full),
                          !.since = sync.lastSuccess]
  /\ UNCHANGED <<clock, fills, tables, failures, history>>

MarkSyncing ==
  /\ pass.pc = "syncing"
  /\ sync' = [sync EXCEPT !.status = "syncing", !.failedAt = 0]
  /\ Goto("fetch")
  /\ UNCHANGED <<clock, fills, buffer, rows, period, failures, history>>

Window == {f \in fills : pass.start <= f.at /\ f.at <= pass.now}

FetchComplete ==
  /\ pass.pc = "fetch"
  /\ pass' = [pass EXCEPT !.pc = "stage", !.fetched = Window]
  /\ UNCHANGED <<clock, fills, tables, failures, history>>

\* A full page makes FetchAll split the window.  A slice that fails when
\* others have answered, a slice still full at the smallest size, the call
\* budget and the time budget all end in "truncated", without an error; which
\* fills are missing then is the venue's choice.
FetchTruncated ==
  /\ pass.pc = "fetch"
  /\ Cardinality(Window) >= PageSize
  /\ \E got \in SUBSET Window :
       /\ pass' = [pass EXCEPT !.pc = "stage", !.fetched = got, !.truncated = TRUE]
       /\ lossy' = (lossy \/ got # Window)
  /\ UNCHANGED <<clock, fills, tables, failures, cut>>

FetchFails ==
  /\ pass.pc = "fetch"
  /\ failures < MaxFailures /\ failures' = failures + 1
  /\ Goto("mark_error")
  /\ UNCHANGED <<clock, fills, tables, history>>

\* The result of this write is ignored: the period rows are flipped anyway.
\* It may fail with the fetch, once, so only the fetch is counted.
MarkError ==
  /\ pass.pc = "mark_error"
  /\ sync' = [sync EXCEPT !.status = "error", !.retry = Retries(1), !.failedAt = clock]
  /\ Goto("recalc_failed")
  /\ UNCHANGED <<clock, fills, buffer, rows, period, failures, history>>

MarkErrorFails ==
  /\ pass.pc = "mark_error"
  /\ Goto("recalc_failed")
  /\ UNCHANGED <<clock, fills, tables, failures, history>>

\* UpsertBufferFills: one INSERT per fill, oldest first; a fill that is there
\* is left as it is.
StageFill ==
  /\ pass.pc = "stage"
  /\ \E f \in pass.fetched \ buffer :
       /\ \A g \in pass.fetched \ buffer : f.tid <= g.tid
       /\ buffer' = buffer \cup {f}
  /\ UNCHANGED <<clock, fills, rows, period, sync, pass, failures, history>>

\* recomputeAffected: what it loads and which days it will rebuild.
Cutoff == pass.now - Retention
\* A plausible mistake: the trades are rebuilt from the new fills only.
LoadedFetchedOnly == {f \in pass.fetched : Cutoff <= f.at /\ f.at < pass.now + 1}
Loaded == {f \in buffer : Cutoff <= f.at /\ f.at < pass.now + 1}
Closed == {t \in ReconstructTrades(Loaded) : t.close >= Cutoff}
OlderThan(t) == {f \in fills : f.at < t}

PlanDays ==
  /\ pass.pc = "stage" /\ pass.fetched \subseteq buffer
  /\ pass' = [pass EXCEPT !.pc = "days",
                !.days = {DayOf(f.at) : f \in {f \in pass.fetched : f.at >= Cutoff}}
                         \cup {DayOf(t.close) : t \in Closed}]
  /\ cut' = (cut \/ Position(OlderThan(Cutoff)) # 0)
  /\ UNCHANGED <<clock, fills, tables, failures, lossy>>

RollupDay(dayFills, trades) ==
  [trades |-> trades, fills |-> {f.tid : f \in dayFills}]

UpsertDay(d) ==
  /\ pass.pc = "days" /\ d \in pass.days
  /\ rows' = [rows EXCEPT ![d] =
       RollupDay({f \in buffer : DayOf(f.at) = d}, {t \in Closed : DayOf(t.close) = d})]
  /\ pass' = [pass EXCEPT !.days = @ \ {d}]
  /\ UNCHANGED <<clock, fills, buffer, period, sync, failures, history>>

NextCursor ==
  IF pass.fetched = {} THEN pass.now
  ELSE CHOOSE t \in {f.at : f \in pass.fetched} : \A f \in pass.fetched : f.at <= t

UpdateProgress ==
  /\ pass.pc = "days" /\ pass.days = {}
  /\ sync' = [sync EXCEPT !.cursor = NextCursor, !.status = "ready",
                          !.retry = Retries(-sync.retry - 10),
                          !.failedAt = 0]
  /\ Goto("mark_synced")
  /\ UNCHANGED <<clock, fills, buffer, rows, period, failures, history>>

MarkSynced ==
  /\ pass.pc = "mark_synced"
  /\ sync' = [sync EXCEPT !.lastSuccess = pass.now,
                          !.backfilled = @ \/ pass.full]
  /\ Goto("recalc")
  /\ UNCHANGED <<clock, fills, buffer, rows, period, failures, history>>

\* A plausible mistake: the row is dated when it is written.
MetricsAtClock(p, status, asOf) ==
  [status |-> status, asOf |-> clock, partial |-> pass.truncated,
   rows |-> [d \in Days \cap (DayOf(pass.now - Lookback[p])..DayOf(pass.now)) |-> rows[d]]]

\* recalcPeriod: the rows of the period's days, whole days at both ends.
Metrics(p, status, asOf) ==
  [status |-> status, asOf |-> asOf, partial |-> pass.truncated,
   rows |-> [d \in Days \cap (DayOf(pass.now - Lookback[p])..DayOf(pass.now)) |-> rows[d]]]

RecalcPeriod ==
  LET p == pass.next IN
  /\ pass.pc = "recalc" /\ p \in Periods
  /\ period' = [period EXCEPT ![p] = Metrics(p, "ready", pass.now)]
  /\ pass' = [pass EXCEPT !.next = p + 1]
  /\ UNCHANGED <<clock, fills, buffer, rows, sync, failures, history>>

RecalcFailed ==
  LET p == pass.next
      asOf == IF pass.since # Null THEN pass.since ELSE pass.now
  IN
  /\ pass.pc = "recalc_failed" /\ p \in Periods
  /\ period' = [period EXCEPT ![p] = Metrics(p, "error", asOf)]
  /\ pass' = [pass EXCEPT !.next = p + 1]
  /\ UNCHANGED <<clock, fills, buffer, rows, sync, failures, history>>

PurgeBuffer ==
  /\ pass.pc = "recalc" /\ pass.next \notin Periods
  /\ buffer' = {f \in buffer : f.at >= Cutoff}
  /\ pass' = IdlePass
  /\ UNCHANGED <<clock, fills, rows, period, sync, failures, history>>

PassFailed ==
  /\ pass.pc = "recalc_failed" /\ pass.next \notin Periods
  /\ pass' = IdlePass
  /\ UNCHANGED <<clock, fills, tables, failures, history>>

\* A statement fails, the wallet timeout expires, or the process ends.
Abort ==
  /\ pass.pc # "idle"
  /\ failures < MaxFailures /\ failures' = failures + 1
  /\ pass' = IdlePass
  /\ UNCHANGED <<clock, fills, tables, history>>

-----------------------------------------------------------------------------

Next ==
  \/ Tick \/ (\E q \in Sizes : Fills(q))
  \/ SyncAll \/ Begin \/ MarkSyncing
  \/ FetchComplete \/ FetchTruncated \/ FetchFails \/ MarkError \/ MarkErrorFails
  \/ StageFill \/ PlanDays \/ (\E d \in Days : UpsertDay(d))
  \/ UpdateProgress \/ MarkSynced
  \/ RecalcPeriod \/ RecalcFailed \/ PurgeBuffer \/ PassFailed
  \/ Abort

Spec == Init /\ [][Next]_vars

-----------------------------------------------------------------------------
\* Properties.

Fill == [tid : Nat, at : Nat, q : Sizes]

\* The tables and the running pass have the types of their columns and fields.
TypeOK ==
  /\ clock \in 0..Horizon
  /\ fills \in SUBSET Fill /\ buffer \subseteq fills
  /\ DOMAIN rows = Days /\ DOMAIN period = Periods
  /\ sync \in [cursor : Times, status : {"pending", "syncing", "ready", "error"},
               retry : Nat, failedAt : Nat, lastSuccess : Times, backfilled : BOOLEAN]
  /\ pass \in [pc : {"idle", "begin", "syncing", "fetch", "mark_error", "stage", "days",
                     "mark_synced", "recalc", "recalc_failed"},
               now : Nat, full : BOOLEAN, start : Int, since : Times,
               fetched : SUBSET fills, truncated : BOOLEAN,
               days : SUBSET Days, next : Nat]
  /\ failures \in Nat /\ lossy \in BOOLEAN /\ cut \in BOOLEAN

\* The cursor is never ahead of what is stored: a fill before it has been
\* staged, whatever passes were cut short, unless a truncated fetch left it
\* out (SyncWallet stages before it advances the cursor, and fetches from the
\* cursor on, inclusively).
NothingSkipped ==
  ~lossy => \A f \in fills : f.at >= clock - Retention /\ f.at < sync.cursor => f \in buffer

\* The wallet as it was after its first k fills, and the row of a day then.
Prefix(k) == {f \in fills : f.tid <= k}
RowAfter(d, k) ==
  [trades |-> {t \in TrueTrades(Prefix(k)) : DayOf(t.close) = d},
   fills  |-> {f.tid : f \in {f \in Prefix(k) : DayOf(f.at) = d}}]
ReachesTo(k, t) == OlderThan(t) \subseteq Prefix(k)
Recent(d) == DayStart(d) >= clock - Retention

\* A daily row is what the wallet did that day, every trade once and none that
\* was not, at a moment not before the cursor: whatever passes were cut short
\* and repeated.  For the days within the retention, and as long as no pass
\* had to rebuild from the middle of a cycle (recomputeAffected).
RowsAreWhole ==
  ~lossy /\ ~cut =>
    \A d \in Days : Recent(d) =>
      \E k \in 0..Cardinality(fills) : ReachesTo(k, sync.cursor) /\ rows[d] = RowAfter(d, k)

\* A period row that says "ready" and as_of t sums daily rows that hold every
\* fill before t: never a newer date on older numbers (recalcAll comes after
\* the daily rows, and uses the pass's now).
AsOfIsCovered ==
  ~lossy /\ ~cut =>
    \A p \in Periods : period[p].status = "ready" =>
      \A d \in DOMAIN period[p].rows : Recent(d) =>
        \E k \in 0..Cardinality(fills) :
          ReachesTo(k, period[p].asOf) /\ period[p].rows[d] = RowAfter(d, k)

\* "Daily rows are the durable record" (sync.go:20): what a row has counted
\* stays counted when the fills behind it have aged out of the buffer.
RowsAreDurable == [][\A d \in Days : rows[d].trades \subseteq rows'[d].trades]_vars
=============================================================================

------------------------------ MODULE OnDemand ------------------------------
(* The live wallet tabs (internal/trader): every tab answers from one cache  *)
(* with a time to live, concurrent readers of one key share one flight, and  *)
(* a failed fetch falls back to the last value.  Activity and performance    *)
(* read the fills universe through the same cache, inside their own flight.  *)
EXTENDS Integers, FiniteSets

CONSTANTS
  Callers,       \* requests that may be served at once
  Wallets,       \* the registered wallets
  Requests,      \* what they ask: records [tab, wallet, period, mode, valid]
  Dexes,         \* perp dexes besides the default one
  Ttl,           \* LiveCacheTTL, in ticks
  MaxUniverses,  \* fillsUniverseMaxEntries
  MaxNow,        \* bound on the clock
  MaxFetches     \* bound on the fetches of a behaviour

VARIABLES
  now,      \* the clock
  fetches,  \* how many values were fetched
  cache,    \* OnDemandCache.m: key -> [val, set]
  flight,   \* singleflight.Group: key -> [leader, ticks]
  caller    \* per request: pc, question, time, the calls of GetOrFetch it is in, answer

odVars == <<now, fetches, cache, flight, caller>>

OnDemandAssumption ==
  /\ IsFiniteSet(Callers) /\ Requests # {} /\ Ttl \in Nat \ {0} /\ MaxUniverses \in Nat
  /\ \A q \in Requests : /\ DOMAIN q = {"tab", "wallet", "period", "mode", "valid"}
                         /\ q.tab # "universe" /\ (q.tab = "detail" => q.mode = "")

NormalizePerformanceMode(mode) == IF mode = "" THEN "perps" ELSE mode
\* A series alone is that of every period.
PerformanceKey(q) ==
  <<"performance", q.wallet, IF q.mode = "series" THEN "series" ELSE q.period, NormalizePerformanceMode(q.mode)>>
UniverseKey(w) == <<"universe", w, "", "">>
Key(q) ==
  CASE q.tab = "performance" -> PerformanceKey(q)
    [] q.tab = "detail" -> <<"detail", q.wallet, q.period, "">>
    [] q.tab \in {"orders", "transfers"} -> <<q.tab, q.wallet, q.mode, "">>
    [] OTHER -> <<q.tab, q.wallet, "", "">>
Keys == {Key(q) : q \in Requests} \cup {UniverseKey(w) : w \in Wallets}

\* Values of these tabs are slices: Go panics when it compares two of them.
Slices == {"fills", "orders", "transfers"}
Failed == [id |-> 0, at |-> -1, whole |-> FALSE, status |-> "failed"]
Value(at, whole) == [id |-> fetches + 1, at |-> at, whole |-> whole, status |-> IF whole THEN "ready" ELSE "error"]
NoAnswer == [status |-> "none", at |-> -1, whole |-> FALSE]

PeriodFillsLookback(q) == q.period \in {"1D", "7D", "30D"} /\ q.mode /= "series"
\* Tabs that read the fills universe inside their fetch.
ReadsUniverse(q) == q.tab = "activity" \/ (q.tab \in {"performance", "detail"} /\ PeriodFillsLookback(q))

\* The call of the tab, and the one of the universe inside it.
Frame(k) == [key |-> k, pc |-> "get", val |-> Failed]
NoFrame == [key |-> <<>>, pc |-> "none", val |-> Failed]
NoFrames == [tab |-> NoFrame, universe |-> NoFrame]
Idle == [pc |-> "idle", q |-> CHOOSE q \in Requests : TRUE, at |-> -1, had |-> FALSE,
         level |-> "tab", frames |-> NoFrames, answer |-> NoAnswer]
Init ==
  /\ now = 0 /\ fetches = 0
  /\ cache = [k \in {} |-> <<>>]
  /\ flight = [k \in {} |-> <<>>]
  /\ caller = [c \in Callers |-> Idle]

---------------------------------------------------------------------------
\* OnDemandCache.get and set, each under the cache's mutex.
Found(k) == k \in DOMAIN cache
FreshAtTheBound(k) == Found(k) /\ now <= cache[k].set + Ttl  \* a mutant
Fresh(k) == Found(k) /\ now < cache[k].set + Ttl
Written(table, key, entry) == [k \in DOMAIN table \cup {key} |-> IF k = key THEN entry ELSE table[k]]
Set(m, k, v) == Written(m, k, [val |-> v, set |-> now])

Top(c) == caller[c].frames[caller[c].level]
At(c, pc) == caller[c].pc = "serving" /\ Top(c).pc = pc
WithTop(c, pc, v) == [caller[c] EXCEPT !.frames[caller[c].level] = [@ EXCEPT !.pc = pc, !.val = v]]
\* The call of GetOrFetch returns v to what called it: the service or the outer fetch.
Popped(c, v) ==
  IF caller[c].level = "tab" THEN [caller[c] EXCEPT !.pc = "answering", !.frames.tab.val = v]
  ELSE [caller[c] EXCEPT !.level = "tab", !.frames = [tab |-> [@.tab EXCEPT !.pc = "combine", !.val = v], universe |-> NoFrame]]
Answered(c, status, v) ==
  [caller[c] EXCEPT !.pc = "done", !.level = "tab", !.frames = NoFrames, !.answer = [status |-> status, at |-> v.at, whole |-> v.whole]]

\* A tab of the handler: parameters are checked, then the venue and the wallet.
Ask(c, q) ==
  /\ caller[c].pc = "idle"
  /\ caller' = [caller EXCEPT ![c] =
       IF q.valid /\ q.wallet \in Wallets
       THEN [Idle EXCEPT !.pc = "serving", !.q = q, !.at = now, !.had = Found(Key(q)), !.frames.tab = Frame(Key(q))]
       ELSE [Idle EXCEPT !.pc = "done", !.q = q, !.answer.status = "refused"]]
  /\ UNCHANGED <<now, fetches, cache, flight>>

\* A fresh value answers at once.
Get(c) ==
  /\ At(c, "get")
  /\ caller' = [caller EXCEPT ![c] = IF Fresh(Top(c).key) THEN Popped(c, cache[Top(c).key].val)
                                     ELSE WithTop(c, "do", Failed)]
  /\ UNCHANGED <<now, fetches, cache, flight>>

\* sf.Do: join the key's flight, or lead one; the leader looks at the cache again.
Do(c) ==
  LET k == Top(c).key
  IN  /\ At(c, "do")
      /\ IF k \in DOMAIN flight
         THEN caller' = [caller EXCEPT ![c] = WithTop(c, "wait", Failed)] /\ UNCHANGED flight
         ELSE IF Fresh(k)
         THEN caller' = [caller EXCEPT ![c] = WithTop(c, "put", cache[k].val)] /\ UNCHANGED flight
         ELSE /\ flight' = Written(flight, k, [leader |-> c, ticks |-> 0])
              /\ caller' = [caller EXCEPT ![c] = WithTop(c, "fetch", Failed)]
      /\ UNCHANGED <<now, fetches, cache>>

\* The leader's function returns v: everyone in the flight has it, and the key is free.
Landed(c, v) ==
  LET k == Top(c).key
      In(d) == d = c \/ (At(d, "wait") /\ Top(d).key = k)
  IN  /\ flight' = [j \in DOMAIN flight \ {k} |-> flight[j]]
      /\ caller' = [d \in Callers |-> IF ~In(d) THEN caller[d]
                                      ELSE IF v = Failed THEN Popped(d, Failed) ELSE WithTop(d, "put", v)]
      /\ fetches' = IF v.id > fetches THEN v.id ELSE fetches
      /\ UNCHANGED <<now, cache>>

\* Balances: the perp side is the sum of the dexes that answered and fails when
\* none did; one failed side marks the value, two fail the fetch.
PerpAnswers(answered) == answered /= {}
FetchBalances(c) ==
  /\ At(c, "fetch") /\ Top(c).key[1] = "balances" /\ fetches < MaxFetches
  /\ \E answered \in SUBSET ({"default"} \cup Dexes), spot \in BOOLEAN :
       Landed(c, IF ~PerpAnswers(answered) /\ ~spot THEN Failed
                 ELSE Value(now, PerpAnswers(answered) /\ spot))

\* Positions and open orders: what the dexes that answered hold; all failed is an error.
FetchDexes(c) ==
  /\ At(c, "fetch") /\ fetches < MaxFetches
  /\ Top(c).key[1] = "positions" \/ (Top(c).key[1] = "orders" /\ Top(c).key[3] = "open")
  /\ \E answered \in SUBSET ({"default"} \cup Dexes) :
       Landed(c, IF answered = {} THEN Failed ELSE Value(now, TRUE))

\* Fills, historical orders and transfers are one call each.
FetchRows(c) ==
  /\ At(c, "fetch") /\ fetches < MaxFetches
  /\ Top(c).key[1] \in Slices /\ Top(c).key[3] /= "open"
  /\ \E ok \in BOOLEAN : Landed(c, IF ok THEN Value(now, TRUE) ELSE Failed)

\* The fills universe: its time is that of the request that leads the flight.
FetchUniverse(c) ==
  /\ At(c, "fetch") /\ Top(c).key[1] = "universe" /\ fetches < MaxFetches
  /\ \E ok \in BOOLEAN : Landed(c, IF ok THEN Value(caller[c].at, TRUE) ELSE Failed)

\* Activity and performance call GetOrFetch for the universe inside their fetch.
OpenUniverse(c) ==
  /\ At(c, "fetch") /\ caller[c].level = "tab" /\ ReadsUniverse(caller[c].q)
  /\ caller' = [caller EXCEPT ![c].level = "universe",
       ![c].frames = [tab |-> [@.tab EXCEPT !.pc = "nested"], universe |-> Frame(UniverseKey(caller[c].q.wallet))]]
  /\ UNCHANGED <<now, fetches, cache, flight>>

\* Activity: the funding that fails counts as zero.
CombineActivity(c) ==
  /\ At(c, "combine") /\ Top(c).key[1] = "activity" /\ fetches < MaxFetches
  /\ Landed(c, IF Top(c).val = Failed THEN Failed ELSE Value(Top(c).val.at, TRUE))

\* Performance of a period: the portfolio is fetched beside the universe; one of
\* them failed leaves a snapshot without metrics, which is cached like a whole one.
CombinePerformance(c) ==
  /\ At(c, "combine") /\ Top(c).key[1] \in {"performance", "detail"} /\ fetches < MaxFetches
  /\ \E portfolio \in BOOLEAN :
       LET universe == Top(c).val
       IN  Landed(c, IF universe = Failed /\ ~portfolio THEN Failed
                     ELSE IF universe = Failed \/ ~portfolio THEN Value(caller[c].at, FALSE)
                     ELSE Value(universe.at, TRUE))

\* Performance of ALL: the leaderboard's reference or the portfolio; a series alone
\* is the portfolio.
FetchPerformanceAll(c) ==
  /\ At(c, "fetch") /\ Top(c).key[1] \in {"performance", "detail"} /\ ~ReadsUniverse(caller[c].q)
  /\ fetches < MaxFetches
  /\ \E portfolio, ref \in BOOLEAN :
       Landed(c, IF portfolio \/ (ref /\ caller[c].q.mode /= "series") THEN Value(caller[c].at, TRUE) ELSE Failed)

\* After the flight everyone in it looks at the cache: the value it was given is
\* there already, or it is stored.  Two slices cannot be compared.
Put(c) ==
  LET k == Top(c).key
      v == Top(c).val
  IN  /\ At(c, "put")
      /\ IF Fresh(k) /\ k[1] \in Slices
         THEN caller' = [caller EXCEPT ![c] = Answered(c, "panic", Failed)] /\ UNCHANGED cache
         ELSE /\ cache' = IF Fresh(k) /\ cache[k].val.id = v.id THEN cache ELSE Set(cache, k, v)
              /\ caller' = [caller EXCEPT ![c] = IF k[1] = "universe" THEN WithTop(c, "evict", v) ELSE Popped(c, v)]
      /\ UNCHANGED <<now, fetches, flight>>

\* Too many universes: those older than twice the time to live go, then the oldest.
Universes == {k \in DOMAIN cache : k[1] = "universe"}
Overdue == {k \in Universes : now - cache[k].set > 2 * Ttl}
Evicted(gone) ==
  LET left == Universes \ Overdue
  IN  /\ Cardinality(Universes) > MaxUniverses
      /\ Overdue \subseteq gone /\ gone \subseteq Universes
      /\ Cardinality(left \ gone) = IF Cardinality(left) > MaxUniverses THEN MaxUniverses ELSE Cardinality(left)
      /\ \A k \in gone \ Overdue, j \in left \ gone : cache[k].set <= cache[j].set
Evict(c) ==
  /\ At(c, "evict")
  /\ IF Cardinality(Universes) <= MaxUniverses THEN UNCHANGED cache
     ELSE \E gone \in SUBSET Universes : Evicted(gone) /\ cache' = [k \in DOMAIN cache \ gone |-> cache[k]]
  /\ caller' = [caller EXCEPT ![c] = Popped(c, Top(c).val)]
  /\ UNCHANGED <<now, fetches, flight>>

\* The service answers: a value with its own status (the detail says ready
\* whatever the value's), a failure with the last value and the status error.
Status(q, v) == IF q.tab = "detail" THEN "ready" ELSE v.status
Answer(c) ==
  LET k == Key(caller[c].q)
      v == Top(c).val
  IN  /\ caller[c].pc = "answering"
      /\ caller' = [caller EXCEPT ![c] =
           IF v /= Failed THEN Answered(c, Status(@.q, v), v)
           ELSE Answered(c, "error", IF Found(k) THEN cache[k].val ELSE Failed)]
      /\ UNCHANGED <<now, fetches, cache, flight>>
Close(c) ==
  /\ caller[c].pc = "done"
  /\ caller' = [caller EXCEPT ![c] = Idle]
  /\ UNCHANGED <<now, fetches, cache, flight>>

\* A tick: only upstream calls take time, and none outlives a tick (their
\* timeouts are far below the time to live).
Tick ==
  /\ now < MaxNow
  /\ \A c \in Callers : caller[c].pc = "serving" => Top(c).pc \in {"fetch", "wait", "combine"}
  /\ \A c \in Callers : caller[c].pc /= "answering"
  /\ \A k \in DOMAIN flight : flight[k].ticks = 0
  /\ now' = now + 1
  /\ flight' = [k \in DOMAIN flight |-> [flight[k] EXCEPT !.ticks = 1]]
  /\ UNCHANGED <<fetches, cache, caller>>

Next ==
  \/ Tick
  \/ \E c \in Callers :
       \/ \E q \in Requests : Ask(c, q)
       \/ Get(c) \/ Do(c) \/ Put(c) \/ Evict(c) \/ Answer(c) \/ Close(c)
       \/ FetchBalances(c) \/ FetchDexes(c) \/ FetchRows(c) \/ FetchUniverse(c)
       \/ OpenUniverse(c) \/ CombineActivity(c) \/ CombinePerformance(c) \/ FetchPerformanceAll(c)
Spec == Init /\ [][Next]_odVars

---------------------------------------------------------------------------
Levels(q) == IF ReadsUniverse(q) THEN 2 ELSE 1
Done(c) == caller[c].pc = "done"

\* A ready answer was true at most one time to live ago, or two where the tab
\* keeps what it made of the universe: a universe about to expire is kept again.
AgeBounded ==
  \A c \in Callers : Done(c) /\ caller[c].answer.status = "ready" /\ caller[c].answer.at >= 0 =>
    caller[c].at - caller[c].answer.at <= Levels(caller[c].q) * Ttl

\* Whoever waits in a flight has a leader that is still fetching, and a flight
\* inside another never waits for it.
WaitersAreLed ==
  /\ \A c \in Callers : At(c, "wait") =>
       /\ Top(c).key \in DOMAIN flight
       /\ LET l == flight[Top(c).key].leader
          IN  /\ l /= c /\ caller[l].pc = "serving"
              /\ \E i \in DOMAIN caller[l].frames :
                   caller[l].frames[i].key = Top(c).key /\ caller[l].frames[i].pc \in {"fetch", "nested", "combine"}
  /\ \A c, d \in Callers : At(c, "wait") /\ At(d, "wait") =>
       ~(flight[Top(c).key].leader = d /\ flight[Top(d).key].leader = c)

\* A tab that had a value when it was asked never answers an empty error.
LastKept ==
  \A c \in Callers : Done(c) /\ caller[c].answer.status = "error" /\ caller[c].had => caller[c].answer.at >= 0

\* An answer that says ready is whole, but for the detail, which says it always.
ReadyIsWhole ==
  \A c \in Callers : Done(c) /\ caller[c].answer.status = "ready" /\ caller[c].q.tab /= "detail" => caller[c].answer.whole

\* The universes kept are bounded but for those whose reader has yet to trim them.
UniversesBounded ==
  Cardinality(Universes) <= MaxUniverses + Cardinality({c \in Callers : At(c, "evict")})

OnDemandHolds == AgeBounded /\ WaitersAreLed /\ LastKept /\ ReadyIsWhole /\ UniversesBounded

\* Concurrent calls for one key share one fetch: nobody in a burst is left
\* without an answer.
BurstsShare == \A c \in Callers : Done(c) => caller[c].answer.status /= "panic"
=============================================================================

---------------------------- MODULE MarketProofs ----------------------------
(***************************************************************************)
(* Proofs about market data and the fetching of wallets, for any sockets,  *)
(* markets, browsers, venues, callers and wallets, buffers and pages of    *)
(* any size, and any number of rows, retries and requests.                 *)
(*                                                                         *)
(* The subscriptions (MarketSubs), by SInv.  How far the goroutine of a    *)
(* socket is says which status its subscription has (Follows), an index is *)
(* the keys of the subscriptions not given up yet (Indexed), a connection  *)
(* counts the retries of its loop, and each of them waited for the time    *)
(* that is its turn (Retries).  That waits never shrink is a fact about    *)
(* Backoff, a recursive function: that it has a solution, and only one, is *)
(* proved from the least element of a set of naturals (BackoffUnfolds).    *)
(*                                                                         *)
(* The browsers of a book (BookFanout), by FInv.  How far the goroutines   *)
(* of a browser are says where it is known (Shape); what was written, is   *)
(* being written, waits in the buffer, is in the forwarder's hand and      *)
(* waits in the channel is older, in this order, than what comes later     *)
(* (InPipe), and the newest that a channel took is still one of them       *)
(* (OnItsWay); what waits in a channel is stored and older than what is    *)
(* being published (Behind).                                               *)
(*                                                                         *)
(* The funding board (FundingBoard), by CInv and QInv.  A goroutine has    *)
(* left, for each row of its venue that is past, the row's reading in the  *)
(* table or a lost race (Goes), and an instrument bears the base of what   *)
(* is mapped to it (Tables).  Unless the collector is at one of its venues *)
(* or has been since, what a request read of the mappings is what there is *)
(* (Knows), the tokens it has and those it has still to make are those of  *)
(* the rows (Builds), and so are the tokens of a cached pair (InCache).    *)
(*                                                                         *)
(* The live client (LiveUpstream), by UInv.  The gate counts the calls     *)
(* that hold a place (Places).  The slices still to fetch and the fills    *)
(* found so far are together the window, unless it is flagged (Splits): a  *)
(* page that is not full is its slice (FillsOf), one that is full is split *)
(* or flagged.  The times a call went upstream are spaced and none is      *)
(* after the pacer's last (SpacedTo).                                      *)
(*                                                                         *)
(* Finding wallets (Harvest), by HInv.  What is subscribed on a connection *)
(* is streamed by the venue (StreamOk).  A trade time taken is queued,     *)
(* pending, being written or stored, as late as it was seen (OnWay): a     *)
(* merge keeps the latest time (MergeIs).  Who has seen a wallet says what *)
(* its source may be (RowOk).  The rows a run has still to do are the last *)
(* of those it took, and the others are done (RowsLeft, DoneRow).          *)
(***************************************************************************)
EXTENDS MCMarket, FiniteSetTheorems, WellFoundedInduction, TLAPS

---------------------------------------------------------------------------
(* The wait before a reconnect.                                            *)

\* A set of naturals has a least one: the form of induction used below.
LEMMA LeastExists ==
  ASSUME NEW T \in SUBSET Nat, T # {}
  PROVE  \E m \in T : \A n \in T : m <= n
<1>1. PICK m \in T : \A n \in T : ~(<<n, m>> \in OpToRel(<, Nat))
  <2>1. IsWellFoundedOn(OpToRel(<, Nat), Nat)
    BY NatLessThanWellFounded
  <2> QED BY <2>1, WFMin
<1>2. ASSUME NEW n \in T PROVE m <= n
  <2>1. ~(n < m) /\ n \in Nat /\ m \in Nat
    BY <1>1 DEF OpToRel
  <2> QED BY <2>1
<1> QED BY <1>2

Doubled(w) == IF 2 * w > MaxBackoff THEN MaxBackoff ELSE 2 * w
Wait(g, n) == IF n = 0 THEN InitialBackoff ELSE Doubled(g[n - 1])
WaitsTo(g, n) == DOMAIN g = 0..n /\ \A k \in 0..n : g[k] = Wait(g, k)

\* Waits up to one bound and to another agree where both are given.
LEMMA WaitsAgree ==
  ASSUME NEW m \in Nat, NEW n \in Nat, NEW g, NEW h, WaitsTo(g, m), WaitsTo(h, n)
  PROVE  \A k \in 0..m : k <= n => g[k] = h[k]
<1> DEFINE Bad == {k \in 0..m : k <= n /\ g[k] # h[k]}
<1> SUFFICES ASSUME Bad # {} PROVE FALSE
  OBVIOUS
<1>1. PICK k \in Bad : \A i \in Bad : k <= i
  <2>1. Bad \in SUBSET Nat
    OBVIOUS
  <2> HIDE DEF Bad
  <2> QED BY <2>1, LeastExists
<1>2. k \in 0..m /\ k \in 0..n /\ g[k] = Wait(g, k) /\ h[k] = Wait(h, k)
  BY <1>1 DEF WaitsTo
<1>3. CASE k = 0
  BY <1>1, <1>2, <1>3 DEF Wait
<1>4. CASE k # 0
  <2>1. k - 1 \in 0..m /\ k - 1 <= n /\ ~(k <= k - 1)
    BY <1>2, <1>4
  <2>2. g[k - 1] = h[k - 1]
    BY <1>1, <2>1
  <2> QED BY <1>1, <1>2, <1>4, <2>2 DEF Wait
<1> QED BY <1>3, <1>4

\* There are waits up to any bound ...
LEMMA WaitsExist == \A n \in Nat : \E g : WaitsTo(g, n)
<1> DEFINE Bad == {n \in Nat : ~\E g : WaitsTo(g, n)}
<1> SUFFICES ASSUME Bad # {} PROVE FALSE
  OBVIOUS
<1>1. PICK n \in Bad : \A i \in Bad : n <= i
  <2>1. Bad \in SUBSET Nat
    OBVIOUS
  <2> HIDE DEF Bad
  <2> QED BY <2>1, LeastExists
<1>2. CASE n = 0
  <2> DEFINE g == [k \in 0..0 |-> InitialBackoff]
  <2>1. WaitsTo(g, 0)
    BY DEF WaitsTo, Wait
  <2> QED BY <1>1, <1>2, <2>1
<1>3. CASE n # 0
  <2>1. n - 1 \in Nat /\ ~(n <= n - 1) /\ n \in Nat
    BY <1>1, <1>3
  <2>2. PICK h : WaitsTo(h, n - 1)
    BY <1>1, <2>1
  <2> DEFINE g == [k \in 0..n |-> IF k = n THEN Doubled(h[n - 1]) ELSE h[k]]
  <2>3. DOMAIN g = 0..n /\ g[n] = Doubled(h[n - 1]) /\ \A k \in 0..(n - 1) : g[k] = h[k]
    BY <2>1
  <2> HIDE DEF g
  <2>4. ASSUME NEW k \in 0..n PROVE g[k] = Wait(g, k)
    <3>1. CASE k = n
      BY <1>3, <2>1, <2>3, <3>1 DEF Wait
    <3>2. CASE k # n
      <4>1. k \in 0..(n - 1) /\ (k # 0 => k - 1 \in 0..(n - 1))
        BY <2>1, <3>2
      <4>2. h[k] = Wait(h, k)
        BY <2>2, <4>1 DEF WaitsTo
      <4> QED BY <2>3, <4>1, <4>2 DEF Wait
    <3> QED BY <3>1, <3>2
  <2>5. WaitsTo(g, n)
    BY <2>3, <2>4 DEF WaitsTo
  <2> QED BY <1>1, <2>5
<1> QED BY <1>2, <1>3

\* ... and so the loop of Calculate has an answer for any number of retries.
LEMMA BackoffUnfolds == \A n \in Nat : Market!Backoff[n] = Wait(Market!Backoff, n)
<1> DEFINE f == [n \in Nat |-> (CHOOSE g : WaitsTo(g, n))[n]]
<1>1. \A n \in Nat : WaitsTo(CHOOSE g : WaitsTo(g, n), n)
  BY WaitsExist
<1>2. ASSUME NEW n \in Nat PROVE f[n] = Wait(f, n)
  <2>1. PICK g : g = CHOOSE h : WaitsTo(h, n)
    OBVIOUS
  <2>2. WaitsTo(g, n) /\ f[n] = g[n] /\ g[n] = Wait(g, n)
    BY <1>1, <2>1 DEF WaitsTo
  <2>3. CASE n = 0
    BY <2>2, <2>3 DEF Wait
  <2>4. CASE n # 0
    <3>1. PICK h : h = CHOOSE i : WaitsTo(i, n - 1)
      OBVIOUS
    <3>2. n - 1 \in Nat /\ n - 1 \in 0..(n - 1) /\ n - 1 <= n
      BY <2>4
    <3>3. WaitsTo(h, n - 1) /\ f[n - 1] = h[n - 1]
      BY <1>1, <3>1, <3>2
    <3>4. h[n - 1] = g[n - 1]
      BY <2>2, <3>2, <3>3, WaitsAgree
    <3> QED BY <2>2, <2>4, <3>3, <3>4 DEF Wait
  <2> QED BY <2>3, <2>4
<1>3. DOMAIN f = Nat /\ f = [n \in Nat |-> f[n]]
  OBVIOUS
<1> HIDE DEF f
<1>4. f = [n \in Nat |-> Wait(f, n)]
  BY <1>2, <1>3
<1>5. Market!Backoff = CHOOSE g : g = [n \in Nat |-> Wait(g, n)]
  BY DEF Market!Backoff, Wait, Doubled
<1>6. Market!Backoff = [n \in Nat |-> Wait(Market!Backoff, n)]
  BY <1>4, <1>5
<1> QED BY <1>6

\* No wait is longer than MaxBackoff or shorter than the one before.
LEMMA BackoffGrows ==
  /\ \A n \in Nat : Market!Backoff[n] \in Nat /\ Market!Backoff[n] <= MaxBackoff
  /\ \A n \in Nat : Market!Backoff[n] <= Market!Backoff[n + 1]
<1>0. InitialBackoff \in Nat /\ MaxBackoff \in Nat /\ InitialBackoff <= MaxBackoff
  BY SubsAssumption DEF Market!SubsAssumption
<1> DEFINE Right(n) == Market!Backoff[n] \in Nat /\ Market!Backoff[n] <= MaxBackoff
           Bad == {n \in Nat : ~Right(n)}
<1>1. Bad = {}
  <2> SUFFICES ASSUME Bad # {} PROVE FALSE
    OBVIOUS
  <2>1. PICK n \in Bad : \A i \in Bad : n <= i
    <3>1. Bad \in SUBSET Nat
      OBVIOUS
    <3> HIDE DEF Bad
    <3> QED BY <3>1, LeastExists
  <2>2. CASE n = 0
    BY <1>0, <2>1, <2>2, BackoffUnfolds DEF Wait
  <2>3. CASE n # 0
    <3>1. n \in Nat /\ n - 1 \in Nat /\ ~(n <= n - 1)
      BY <2>1, <2>3
    <3>2. Right(n - 1)
      BY <2>1, <3>1
    <3>3. Market!Backoff[n] = Doubled(Market!Backoff[n - 1])
      BY <2>3, <3>1, BackoffUnfolds DEF Wait
    <3> QED BY <1>0, <2>1, <3>2, <3>3 DEF Doubled
  <2> QED BY <2>2, <2>3
<1>2. ASSUME NEW n \in Nat PROVE Market!Backoff[n] <= Market!Backoff[n + 1]
  <2>1. Market!Backoff[n] \in Nat /\ Market!Backoff[n] <= MaxBackoff
    BY <1>1
  <2>2. Market!Backoff[n + 1] = Doubled(Market!Backoff[n])
    <3>1. n + 1 \in Nat /\ n + 1 # 0 /\ (n + 1) - 1 = n
      OBVIOUS
    <3> QED BY <3>1, BackoffUnfolds DEF Wait
  <2> QED BY <1>0, <2>1, <2>2 DEF Doubled
<1> QED BY <1>1, <1>2

---------------------------------------------------------------------------
(* The subscriptions, their indexes and the retries (MarketSubs).          *)

SocketFields == {"pc", "market"}
ConnFields == {"state", "count"}
Held == {s \in DOMAIN subscriptions : subscriptions[s] \in {"PENDING", "ACTIVE"}}

SubTypes ==
  /\ DOMAIN socket = Sockets /\ \A s \in Sockets : DOMAIN socket[s] = SocketFields
  /\ subscriptions = [s \in DOMAIN subscriptions |-> subscriptions[s]] /\ DOMAIN subscriptions \subseteq Sockets

\* How far a socket is says whether it has a subscription and of which status.
Follows ==
  \A s \in Sockets :
    /\ s \in DOMAIN subscriptions <=> socket[s].pc \in {"activate", "listen", "leave", "release", "closed"}
    /\ s \in DOMAIN subscriptions =>
         /\ subscriptions[s] \in {"PENDING", "ACTIVE", "UNSUBSCRIBED"}
         /\ subscriptions[s] = "PENDING" <=> socket[s].pc = "activate"
         /\ subscriptions[s] = "ACTIVE" => socket[s].pc \in {"listen", "leave", "release"}

\* Each index is the keys of the subscriptions not yet given up.
Indexed ==
  /\ venueSubs = {<<socket[s].market[1], s>> : s \in Held}
  /\ instrumentSubs = {<<socket[s].market[2], s>> : s \in Held}
  /\ channelSubs = {<<socket[s].market[3], s>> : s \in Held}

Waited(w) == \A i \in 1..Len(w) : w[i] = Market!Backoff[i]

\* A connection counts the retries of its loop, each of which waited its turn;
\* only the goroutine of its socket, once, makes it CONNECTED.
Retries ==
  /\ DOMAIN connections \subseteq Sockets /\ connections = [c \in DOMAIN connections |-> connections[c]]
  /\ \A c \in DOMAIN connections :
       /\ DOMAIN connections[c] = ConnFields
       /\ socket[c].pc \notin {"none", "connect"}
       /\ connections[c].count = Len(retry[c].waits)
       /\ connections[c].state = "CONNECTED" => socket[c].pc # "connected"
  /\ DOMAIN retry = Sockets
  /\ \A c \in Sockets :
       /\ DOMAIN retry[c] = {"pc", "waits"} /\ retry[c].waits \in Seq(Nat)
       /\ retry[c].pc = "none" => retry[c].waits = <<>>
       /\ retry[c].pc # "none" => c \in DOMAIN connections /\ socket[c].pc # "connected"
       /\ Waited(retry[c].waits)

\* What was answered last is no newer than the newest row.
Answered ==
  /\ market \in Seq(Nat) /\ answers[1] \in Nat /\ answers[2] \in Nat /\ answers[1] <= answers[2]
  /\ answers = <<answers[1], answers[2]>>
  /\ answers[2] # 0 => \E i \in 1..Len(market) : answers[2] <= market[i]

SubInv == SubTypes /\ Follows /\ Indexed
SInv == SubInv /\ Retries /\ Answered

vars == <<Market!subVars, Market!rowVars, retry>>

\* Subscriptions that do not change keep their place.
LEMMA SubsKeep ==
  ASSUME SubInv, UNCHANGED <<subscriptions, venueSubs, instrumentSubs, channelSubs>>,
         DOMAIN socket' = Sockets, \A s \in Sockets : DOMAIN socket'[s] = SocketFields,
         \A s \in DOMAIN subscriptions : socket'[s].market = socket[s].market,
         Follows'
  PROVE  SubInv'
<1>1. Held' = Held /\ \A s \in Held : socket'[s].market = socket[s].market
  BY DEF Held
<1>2. \A k \in {1, 2, 3} : {<<socket'[s].market[k], s>> : s \in Held'} = {<<socket[s].market[k], s>> : s \in Held}
  BY <1>1
<1>3. Indexed'
  BY <1>2 DEF Indexed, SubInv
<1> QED BY <1>3 DEF SubInv, SubTypes

\* A step of one socket that changes its place only.
LEMMA PlaceMoves ==
  ASSUME SubInv, NEW s \in Sockets, NEW from, NEW to, Market!Goes(s, from, to)
  PROVE  /\ DOMAIN socket' = Sockets /\ \A t \in Sockets : DOMAIN socket'[t] = SocketFields
         /\ socket[s].pc = from /\ socket'[s].pc = to
         /\ \A t \in Sockets : socket'[t].market = socket[t].market
         /\ \A t \in Sockets \ {s} : socket'[t] = socket[t]
BY DEF SubInv, SubTypes, Market!Goes, SocketFields

LEMMA SubscribeStep ==
  ASSUME SInv, NEW s \in Sockets, Market!Subscribe(s), UNCHANGED <<Market!rowVars, retry>>
  PROVE  SInv'
<1>1. PICK m \in Markets : socket' = [socket EXCEPT ![s] = [pc |-> "connect", market |-> m]]
  BY DEF Market!Subscribe
<1>2. /\ DOMAIN socket' = Sockets /\ \A t \in Sockets : DOMAIN socket'[t] = SocketFields
      /\ \A t \in Sockets \ {s} : socket'[t] = socket[t]
      /\ socket[s].pc = "none" /\ socket'[s].pc = "connect"
  BY <1>1 DEF SInv, SubInv, SubTypes, SocketFields, Market!Subscribe
<1>3. s \notin DOMAIN subscriptions
  BY <1>2 DEF SInv, SubInv, Follows
<1>4. UNCHANGED <<connections, subscriptions, venueSubs, instrumentSubs, channelSubs, retry, market, answers>>
  BY DEF Market!Subscribe, Market!rowVars
<1>5. Follows'
  BY <1>2, <1>3, <1>4 DEF SInv, SubInv, Follows
<1>6. \A t \in DOMAIN subscriptions : socket'[t].market = socket[t].market
  BY <1>2, <1>3 DEF SInv, SubInv, SubTypes
<1>7. SubInv'
  BY <1>2, <1>4, <1>5, <1>6, SubsKeep DEF SInv
<1>8. Retries'
  <2>1. s \notin DOMAIN connections /\ retry[s].pc = "none"
    BY <1>2 DEF SInv, Retries
  <2>2. \A c \in DOMAIN connections : socket'[c] = socket[c]
    BY <1>2, <2>1 DEF SInv, Retries
  <2>3. \A c \in Sockets : retry[c].pc # "none" => socket'[c] = socket[c]
    BY <1>2, <2>1
  <2> QED BY <1>4, <2>2, <2>3 DEF SInv, Retries
<1>9. Answered'
  BY <1>4 DEF SInv, Answered
<1> QED BY <1>7, <1>8, <1>9 DEF SInv

LEMMA CreateConnectionStep ==
  ASSUME SInv, NEW s \in Sockets, Market!CreateConnection(s), UNCHANGED <<Market!rowVars, retry>>
  PROVE  SInv'
<1>1. Market!Goes(s, "connect", "connected")
  BY DEF Market!CreateConnection
<1>2. /\ DOMAIN socket' = Sockets /\ \A t \in Sockets : DOMAIN socket'[t] = SocketFields
      /\ socket[s].pc = "connect" /\ socket'[s].pc = "connected"
      /\ \A t \in Sockets : socket'[t].market = socket[t].market
      /\ \A t \in Sockets \ {s} : socket'[t] = socket[t]
  BY <1>1, PlaceMoves DEF SInv
<1>3. /\ UNCHANGED <<subscriptions, venueSubs, instrumentSubs, channelSubs, retry, market, answers>>
      /\ connections' = [c \in DOMAIN connections \cup {s} |->
           IF c = s THEN [state |-> "DISCONNECTED", count |-> 0] ELSE connections[c]]
  BY DEF Market!CreateConnection, Market!rowVars
<1>4. s \notin DOMAIN connections /\ retry[s].pc = "none" /\ retry[s].waits = <<>>
  BY <1>2 DEF SInv, Retries
<1>5. Follows'
  BY <1>2, <1>3 DEF SInv, SubInv, Follows
<1>6. SubInv'
  BY <1>2, <1>3, <1>5, SubsKeep DEF SInv, SubInv, SubTypes
<1>7. Retries'
  <2>1. /\ DOMAIN connections' = DOMAIN connections \cup {s}
        /\ connections'[s] = [state |-> "DISCONNECTED", count |-> 0]
        /\ \A c \in DOMAIN connections : connections'[c] = connections[c]
    BY <1>3, <1>4
  <2>2. DOMAIN connections'[s] = ConnFields /\ connections'[s].count = 0 /\ connections'[s].state # "CONNECTED"
    BY <2>1 DEF ConnFields
  <2>3. connections' = [c \in DOMAIN connections' |-> connections'[c]]
    BY <1>3
  <2>4. \A c \in DOMAIN connections : socket'[c] = socket[c]
    BY <1>2, <1>4 DEF SInv, Retries
  <2>5. ASSUME NEW c \in DOMAIN connections'
        PROVE  /\ DOMAIN connections'[c] = ConnFields
               /\ socket'[c].pc \notin {"none", "connect"}
               /\ connections'[c].count = Len(retry'[c].waits)
               /\ connections'[c].state = "CONNECTED" => socket'[c].pc # "connected"
    <3>1. CASE c = s
      BY <1>2, <1>3, <1>4, <2>2, <3>1
    <3>2. CASE c # s
      <4>1. c \in DOMAIN connections /\ connections'[c] = connections[c] /\ socket'[c] = socket[c]
        BY <2>1, <2>4, <3>2
      <4> QED BY <1>3, <4>1 DEF SInv, Retries
    <3> QED BY <3>1, <3>2
  <2>6. \A c \in Sockets : retry'[c].pc # "none" => c \in DOMAIN connections' /\ socket'[c].pc # "connected"
    BY <1>3, <1>4, <2>1, <2>4 DEF SInv, Retries
  <2>7. DOMAIN connections' \subseteq Sockets
    BY <2>1 DEF SInv, Retries
  <2> QED BY <1>3, <2>3, <2>5, <2>6, <2>7 DEF SInv, Retries
<1>8. Answered'
  BY <1>3 DEF SInv, Answered
<1> QED BY <1>6, <1>7, <1>8 DEF SInv

LEMMA UpdateStateStep ==
  ASSUME SInv, NEW s \in Sockets, Market!UpdateState(s), UNCHANGED <<Market!rowVars, retry>>
  PROVE  SInv'
<1>1. Market!Goes(s, "connected", "subscribe")
  BY DEF Market!UpdateState
<1>2. /\ DOMAIN socket' = Sockets /\ \A t \in Sockets : DOMAIN socket'[t] = SocketFields
      /\ socket[s].pc = "connected" /\ socket'[s].pc = "subscribe"
      /\ \A t \in Sockets : socket'[t].market = socket[t].market
      /\ \A t \in Sockets \ {s} : socket'[t] = socket[t]
  BY <1>1, PlaceMoves DEF SInv
<1>3. /\ UNCHANGED <<subscriptions, venueSubs, instrumentSubs, channelSubs, retry, market, answers>>
      /\ connections' = Market!WithState(s, "CONNECTED")
  BY DEF Market!UpdateState, Market!rowVars
<1>4. retry[s].pc = "none" /\ retry[s].waits = <<>>
  BY <1>2 DEF SInv, Retries
<1>5. Follows'
  BY <1>2, <1>3 DEF SInv, SubInv, Follows
<1>6. SubInv'
  BY <1>2, <1>3, <1>5, SubsKeep DEF SInv, SubInv, SubTypes
<1>7. Retries'
  <2>1. /\ DOMAIN connections' = DOMAIN connections /\ connections' = [c \in DOMAIN connections' |-> connections'[c]]
        /\ \A c \in DOMAIN connections : DOMAIN connections'[c] = ConnFields
        /\ \A c \in DOMAIN connections \ {s} : connections'[c] = connections[c]
        /\ s \in DOMAIN connections => connections'[s].count = 0
    BY <1>3 DEF Market!WithState, SInv, Retries, ConnFields
  <2>2. ASSUME NEW c \in DOMAIN connections'
        PROVE  /\ DOMAIN connections'[c] = ConnFields
               /\ socket'[c].pc \notin {"none", "connect"}
               /\ connections'[c].count = Len(retry'[c].waits)
               /\ connections'[c].state = "CONNECTED" => socket'[c].pc # "connected"
    <3>1. CASE c = s
      BY <1>2, <1>3, <1>4, <2>1, <3>1
    <3>2. CASE c # s
      <4>1. c \in DOMAIN connections /\ connections'[c] = connections[c] /\ socket'[c] = socket[c]
        BY <1>2, <2>1, <3>2 DEF SInv, Retries
      <4> QED BY <1>3, <4>1 DEF SInv, Retries
    <3> QED BY <3>1, <3>2
  <2>3. \A c \in Sockets : retry'[c].pc # "none" => c \in DOMAIN connections' /\ socket'[c].pc # "connected"
    BY <1>2, <1>3, <1>4, <2>1 DEF SInv, Retries
  <2>4. DOMAIN connections' \subseteq Sockets
    BY <2>1 DEF SInv, Retries
  <2> QED BY <1>3, <2>1, <2>2, <2>3, <2>4 DEF SInv, Retries
<1>8. Answered'
  BY <1>3 DEF SInv, Answered
<1> QED BY <1>6, <1>7, <1>8 DEF SInv

\* What the retries need of a step that leaves connections and retries alone.
LEMMA RetriesKeep ==
  ASSUME SInv, UNCHANGED <<connections, retry, market, answers>>,
         \A t \in Sockets : socket'[t] = socket[t] \/ socket'[t].pc \notin {"none", "connect", "connected"},
         SubInv'
  PROVE  SInv'
<1>1. Retries'
  <2>1. DOMAIN connections \subseteq Sockets
    BY DEF SInv, Retries
  <2> QED BY <2>1 DEF SInv, Retries
<1>2. Answered'
  BY DEF SInv, Answered
<1> QED BY <1>1, <1>2 DEF SInv

LEMMA PendingStep ==
  ASSUME SInv, NEW s \in Sockets, Market!Pending(s), UNCHANGED <<Market!rowVars, retry>>
  PROVE  SInv'
<1>1. Market!Goes(s, "subscribe", "activate")
  BY DEF Market!Pending
<1>2. /\ DOMAIN socket' = Sockets /\ \A t \in Sockets : DOMAIN socket'[t] = SocketFields
      /\ socket[s].pc = "subscribe" /\ socket'[s].pc = "activate"
      /\ \A t \in Sockets : socket'[t].market = socket[t].market
      /\ \A t \in Sockets \ {s} : socket'[t] = socket[t]
  BY <1>1, PlaceMoves DEF SInv
<1>3. /\ UNCHANGED <<connections, retry, market, answers>>
      /\ subscriptions' = [id \in DOMAIN subscriptions \cup {s} |-> IF id = s THEN "PENDING" ELSE subscriptions[id]]
      /\ venueSubs' = venueSubs \cup {<<socket[s].market[1], s>>}
      /\ instrumentSubs' = instrumentSubs \cup {<<socket[s].market[2], s>>}
      /\ channelSubs' = channelSubs \cup {<<socket[s].market[3], s>>}
  BY DEF Market!Pending, Market!rowVars
<1>4. s \notin DOMAIN subscriptions
  BY <1>2 DEF SInv, SubInv, Follows
<1>5. /\ DOMAIN subscriptions' = DOMAIN subscriptions \cup {s} /\ subscriptions'[s] = "PENDING"
      /\ \A t \in DOMAIN subscriptions : subscriptions'[t] = subscriptions[t]
      /\ subscriptions' = [t \in DOMAIN subscriptions' |-> subscriptions'[t]]
  BY <1>3, <1>4
<1>6. Held' = Held \cup {s}
  BY <1>5 DEF Held
<1>7. ASSUME NEW k \in {1, 2, 3}
      PROVE  {<<socket'[t].market[k], t>> : t \in Held'}
             = {<<socket[t].market[k], t>> : t \in Held} \cup {<<socket[s].market[k], s>>}
  <2>1. Held \subseteq Sockets
    BY DEF Held, SInv, SubInv, SubTypes
  <2> QED BY <1>2, <1>6, <2>1
<1>8. Indexed'
  BY <1>3, <1>7 DEF SInv, SubInv, Indexed
<1>9. SubTypes'
  BY <1>2, <1>5 DEF SInv, SubInv, SubTypes
<1>10. Follows'
  BY <1>2, <1>5 DEF SInv, SubInv, Follows
<1>11. \A t \in Sockets : socket'[t] = socket[t] \/ socket'[t].pc \notin {"none", "connect", "connected"}
  BY <1>2
<1> QED BY <1>3, <1>8, <1>9, <1>10, <1>11, RetriesKeep DEF SubInv

LEMMA ActivateStep ==
  ASSUME SInv, NEW s \in Sockets, Market!Activate(s), UNCHANGED <<Market!rowVars, retry>>
  PROVE  SInv'
<1>1. Market!Goes(s, "activate", "listen")
  BY DEF Market!Activate
<1>2. /\ DOMAIN socket' = Sockets /\ \A t \in Sockets : DOMAIN socket'[t] = SocketFields
      /\ socket[s].pc = "activate" /\ socket'[s].pc = "listen"
      /\ \A t \in Sockets : socket'[t].market = socket[t].market
      /\ \A t \in Sockets \ {s} : socket'[t] = socket[t]
  BY <1>1, PlaceMoves DEF SInv
<1>3. s \in DOMAIN subscriptions /\ subscriptions[s] = "PENDING"
  BY <1>2 DEF SInv, SubInv, Follows
<1>4. /\ UNCHANGED <<connections, retry, market, answers, venueSubs, instrumentSubs, channelSubs>>
      /\ subscriptions' = [subscriptions EXCEPT ![s] = "ACTIVE"]
  BY <1>3 DEF Market!Activate, Market!UpdateStatus, Market!rowVars
<1>5. /\ DOMAIN subscriptions' = DOMAIN subscriptions /\ subscriptions'[s] = "ACTIVE"
      /\ \A t \in DOMAIN subscriptions \ {s} : subscriptions'[t] = subscriptions[t]
      /\ subscriptions' = [t \in DOMAIN subscriptions' |-> subscriptions'[t]]
  BY <1>3, <1>4
<1>6. Held' = Held
  BY <1>3, <1>5 DEF Held
<1>7. ASSUME NEW k \in {1, 2, 3}
      PROVE  {<<socket'[t].market[k], t>> : t \in Held'} = {<<socket[t].market[k], t>> : t \in Held}
  <2>1. Held \subseteq Sockets
    BY DEF Held, SInv, SubInv, SubTypes
  <2> QED BY <1>2, <1>6, <2>1
<1>8. Indexed'
  BY <1>4, <1>7 DEF SInv, SubInv, Indexed
<1>9. SubTypes'
  BY <1>2, <1>5 DEF SInv, SubInv, SubTypes
<1>10. Follows'
  BY <1>2, <1>3, <1>5 DEF SInv, SubInv, Follows
<1>11. \A t \in Sockets : socket'[t] = socket[t] \/ socket'[t].pc \notin {"none", "connect", "connected"}
  BY <1>2
<1> QED BY <1>4, <1>8, <1>9, <1>10, <1>11, RetriesKeep DEF SubInv

\* Unsubscribing takes a subscription out of the indexes, and once more it does
\* nothing.
LEMMA UnsubscribeStep ==
  ASSUME SInv, NEW s \in Sockets, Market!Unsubscribe(s), UNCHANGED <<connections, retry, market, answers>>,
         \/ Market!Goes(s, "listen", "leave")
         \/ Market!Goes(s, "release", "closed")
  PROVE  SInv'
<1>1. PICK from, to :
        /\ Market!Goes(s, from, to) /\ from \in {"listen", "release"} /\ to \in {"leave", "closed"}
  OBVIOUS
<1>2. /\ DOMAIN socket' = Sockets /\ \A t \in Sockets : DOMAIN socket'[t] = SocketFields
      /\ socket[s].pc \in {"listen", "release"} /\ socket'[s].pc \in {"leave", "closed"}
      /\ \A t \in Sockets : socket'[t].market = socket[t].market
      /\ \A t \in Sockets \ {s} : socket'[t] = socket[t]
  BY <1>1, PlaceMoves DEF SInv
<1>3. s \in DOMAIN subscriptions
  BY <1>2 DEF SInv, SubInv, Follows
<1>4. /\ subscriptions' = [subscriptions EXCEPT ![s] = "UNSUBSCRIBED"]
      /\ venueSubs' = venueSubs \ {<<socket[s].market[1], s>>}
      /\ instrumentSubs' = instrumentSubs \ {<<socket[s].market[2], s>>}
      /\ channelSubs' = channelSubs \ {<<socket[s].market[3], s>>}
  BY <1>3 DEF Market!Unsubscribe, Market!UpdateStatus
<1>5. /\ DOMAIN subscriptions' = DOMAIN subscriptions /\ subscriptions'[s] = "UNSUBSCRIBED"
      /\ \A t \in DOMAIN subscriptions \ {s} : subscriptions'[t] = subscriptions[t]
      /\ subscriptions' = [t \in DOMAIN subscriptions' |-> subscriptions'[t]]
  BY <1>3, <1>4
<1>6. Held' = Held \ {s}
  BY <1>3, <1>5 DEF Held
<1>7. ASSUME NEW k \in {1, 2, 3}
      PROVE  {<<socket'[t].market[k], t>> : t \in Held'}
             = {<<socket[t].market[k], t>> : t \in Held} \ {<<socket[s].market[k], s>>}
  <2>1. Held \subseteq Sockets
    BY DEF Held, SInv, SubInv, SubTypes
  <2> QED BY <1>2, <1>6, <2>1
<1>8. Indexed'
  BY <1>4, <1>7 DEF SInv, SubInv, Indexed
<1>9. SubTypes'
  BY <1>2, <1>5 DEF SInv, SubInv, SubTypes
<1>10. Follows'
  BY <1>2, <1>3, <1>5 DEF SInv, SubInv, Follows
<1>11. \A t \in Sockets : socket'[t] = socket[t] \/ socket'[t].pc \notin {"none", "connect", "connected"}
  BY <1>2
<1> QED BY <1>8, <1>9, <1>10, <1>11, RetriesKeep DEF SubInv

LEMMA EndingStep ==
  ASSUME SInv, NEW s \in Sockets, Market!ReadFails(s) \/ Market!Leave(s), UNCHANGED <<Market!rowVars, retry>>
  PROVE  SInv'
<1>1. PICK from, to : Market!Goes(s, from, to) /\ from \in {"listen", "leave"} /\ to \in {"leave", "release"}
  BY DEF Market!ReadFails, Market!Leave
<1>2. /\ DOMAIN socket' = Sockets /\ \A t \in Sockets : DOMAIN socket'[t] = SocketFields
      /\ socket[s].pc \in {"listen", "leave"} /\ socket'[s].pc \in {"leave", "release"}
      /\ \A t \in Sockets : socket'[t].market = socket[t].market
      /\ \A t \in Sockets \ {s} : socket'[t] = socket[t]
  BY <1>1, PlaceMoves DEF SInv
<1>3. UNCHANGED <<connections, subscriptions, venueSubs, instrumentSubs, channelSubs, retry, market, answers>>
  BY DEF Market!ReadFails, Market!Leave, Market!rowVars
<1>4. Follows'
  BY <1>2, <1>3 DEF SInv, SubInv, Follows
<1>5. SubInv'
  BY <1>2, <1>3, <1>4, SubsKeep DEF SInv, SubInv, SubTypes
<1> QED BY <1>2, <1>3, <1>5, RetriesKeep

\* A retry waits once more than it has, and the connection counts it.
LEMMA RetryStep ==
  ASSUME SInv, NEW c \in Sockets, Market!HandleDisconnect(c) \/ Market!Reconnecting(c) \/ Market!Reconnects(c),
         UNCHANGED <<Market!rowVars, socket, subscriptions, venueSubs, instrumentSubs, channelSubs>>
  PROVE  SInv'
<1>1. SubInv' /\ Answered'
  BY DEF SInv, SubInv, SubTypes, Follows, Indexed, Held, Answered, Market!rowVars
<1>2. ASSUME Market!HandleDisconnect(c) \/ Market!Reconnects(c) PROVE Retries'
  <2>1. PICK pc : retry' = [retry EXCEPT ![c].pc = pc] /\ pc # "none"
    BY <1>2 DEF Market!HandleDisconnect, Market!Reconnects
  <2>2. /\ DOMAIN retry' = Sockets /\ \A d \in Sockets : DOMAIN retry'[d] = {"pc", "waits"}
        /\ \A d \in Sockets : retry'[d].waits = retry[d].waits
        /\ \A d \in Sockets \ {c} : retry'[d] = retry[d]
        /\ retry'[c].pc # "none"
    BY <2>1 DEF SInv, Retries
  <2>3. connections' = connections /\ c \in DOMAIN connections /\ socket[c].pc # "connected"
    BY <1>2 DEF Market!HandleDisconnect, Market!Reconnects, SInv, Retries
  <2> QED BY <2>2, <2>3 DEF SInv, Retries
<1>3. ASSUME Market!Reconnecting(c) PROVE Retries'
  <2>1. c \in DOMAIN connections /\ socket[c].pc # "connected" /\ connections[c].count = Len(retry[c].waits)
    BY <1>3 DEF Market!Reconnecting, SInv, Retries
  <2>2. /\ DOMAIN connections' = DOMAIN connections /\ connections' = [d \in DOMAIN connections' |-> connections'[d]]
        /\ \A d \in DOMAIN connections : DOMAIN connections'[d] = ConnFields
        /\ \A d \in DOMAIN connections \ {c} : connections'[d] = connections[d]
        /\ connections'[c].count = connections[c].count + 1 /\ connections'[c].state = "RECONNECTING"
    BY <1>3, <2>1 DEF Market!Reconnecting, Market!WithState, SInv, Retries, ConnFields
  <2> DEFINE n == Len(retry[c].waits) + 1
             w == Append(retry[c].waits, Market!Backoff[n])
  <2>3. retry' = [retry EXCEPT ![c] = [pc |-> "wait", waits |-> w]]
    <3>1. retry' = [retry EXCEPT ![c] = [pc |-> "wait", waits |-> Append(retry[c].waits, Market!Backoff[connections'[c].count])]]
      BY <1>3 DEF Market!Reconnecting
    <3> QED BY <2>1, <2>2, <3>1
  <2>4. /\ w \in Seq(Nat) /\ Len(w) = n /\ n \in Nat
        /\ Waited(w)
    <3>1. n \in Nat /\ Market!Backoff[n] \in Nat /\ retry[c].waits \in Seq(Nat)
      BY BackoffGrows DEF SInv, Retries
    <3> QED BY <3>1 DEF SInv, Retries, Waited
  <2> HIDE DEF w, n
  <2>5. /\ DOMAIN retry' = Sockets /\ \A d \in Sockets : DOMAIN retry'[d] = {"pc", "waits"}
        /\ retry'[c].waits = w /\ retry'[c].pc = "wait"
        /\ \A d \in Sockets \ {c} : retry'[d] = retry[d]
    BY <2>3 DEF SInv, Retries
  <2>6. connections'[c].count = Len(w)
    BY <2>1, <2>2, <2>4 DEF n
  <2>7. /\ DOMAIN connections' \subseteq Sockets /\ connections' = [d \in DOMAIN connections' |-> connections'[d]]
        /\ DOMAIN retry' = Sockets
    BY <2>2, <2>5 DEF SInv, Retries
  <2>8. ASSUME NEW d \in DOMAIN connections'
        PROVE  /\ DOMAIN connections'[d] = ConnFields
               /\ socket'[d].pc \notin {"none", "connect"}
               /\ connections'[d].count = Len(retry'[d].waits)
               /\ connections'[d].state = "CONNECTED" => socket'[d].pc # "connected"
    <3>1. CASE d = c
      BY <2>1, <2>2, <2>5, <2>6, <3>1 DEF SInv, Retries
    <3>2. CASE d # c
      <4>1. d \in DOMAIN connections /\ connections'[d] = connections[d] /\ retry'[d] = retry[d] /\ socket' = socket
        BY <2>2, <2>5, <3>2 DEF SInv, Retries
      <4> QED BY <2>2, <4>1 DEF SInv, Retries
    <3> QED BY <3>1, <3>2
  <2>9. ASSUME NEW d \in Sockets
        PROVE  /\ DOMAIN retry'[d] = {"pc", "waits"} /\ retry'[d].waits \in Seq(Nat)
               /\ retry'[d].pc = "none" => retry'[d].waits = <<>>
               /\ retry'[d].pc # "none" => d \in DOMAIN connections' /\ socket'[d].pc # "connected"
               /\ Waited(retry'[d].waits)
    <3>1. CASE d = c
      BY <2>1, <2>2, <2>4, <2>5, <3>1
    <3>2. CASE d # c
      <4>1. retry'[d] = retry[d] /\ socket' = socket /\ DOMAIN connections' = DOMAIN connections
        BY <2>2, <2>5, <3>2
      <4> QED BY <4>1 DEF SInv, Retries
    <3> QED BY <3>1, <3>2
  <2> QED BY <2>7, <2>8, <2>9 DEF Retries
<1> QED BY <1>1, <1>2, <1>3 DEF SInv

\* Among rows there is a newest one.
LEMMA LatestIs ==
  ASSUME NEW list \in Seq(Nat), list # <<>>, NEW m \in Nat, \A i \in 1..Len(list) : list[i] <= m
  PROVE  /\ \E i \in 1..Len(list) : Market!Latest(list) = list[i]
         /\ \A i \in 1..Len(list) : list[i] <= Market!Latest(list)
<1> DEFINE T == {list[i] : i \in DOMAIN list}
           Bounds == {n \in Nat : \A t \in T : t <= n}
<1>1. PICK n \in Bounds : \A k \in Bounds : n <= k
  <2>1. m \in Bounds /\ Bounds \in SUBSET Nat
    OBVIOUS
  <2> HIDE DEF Bounds
  <2> QED BY <2>1, LeastExists
<1>2. n \in Nat /\ T \subseteq Nat /\ T # {} /\ \A t \in T : t <= n
  <2>1. \A i \in DOMAIN list : list[i] \in Nat
    OBVIOUS
  <2>2. 1 \in DOMAIN list
    OBVIOUS
  <2> QED BY <1>1, <2>1, <2>2
<1>3. n \in T
  <2> SUFFICES ASSUME n \notin T PROVE FALSE
    OBVIOUS
  <2> HIDE DEF T
  <2>1. \A t \in T : t < n /\ t \in Nat
    <3> TAKE t \in T
    <3>1. t \in Nat /\ t <= n /\ t # n
      BY <1>2
    <3> QED BY <1>2, <3>1
  <2>2. n - 1 \in Bounds
    <3>1. PICK t \in T : t \in Nat /\ t < n
      BY <1>2, <2>1
    <3>2. n - 1 \in Nat
      BY <1>2, <3>1
    <3>3. \A u \in T : u <= n - 1
      BY <1>2, <2>1
    <3> QED BY <3>2, <3>3
  <2>3. ~(n <= n - 1)
    BY <1>2
  <2> QED BY <1>1, <2>2, <2>3
<1>4. PICK t : t = Market!Latest(list)
  OBVIOUS
<1>5. t \in T /\ \A u \in T : u <= t
  <2>1. Market!Latest(list) = CHOOSE x \in T : \A u \in T : u <= x
    BY DEF Market!Latest
  <2> HIDE DEF T
  <2> QED BY <1>2, <1>3, <1>4, <2>1
<1> QED BY <1>4, <1>5

\* A finite sequence of naturals is bounded.
LEMMA Bounded ==
  ASSUME NEW list \in Seq(Nat)
  PROVE  \E m \in Nat : \A i \in 1..Len(list) : list[i] <= m
<1> DEFINE Bad == {n \in 0..Len(list) : ~\E m \in Nat : \A i \in 1..n : list[i] <= m}
<1>0. \A i \in 1..Len(list) : list[i] \in Nat
  OBVIOUS
<1>1. Bad = {}
  <2> SUFFICES ASSUME Bad # {} PROVE FALSE
    OBVIOUS
  <2>1. PICK n \in Bad : \A k \in Bad : n <= k
    <3>1. Bad \in SUBSET Nat
      OBVIOUS
    <3> HIDE DEF Bad
    <3> QED BY <3>1, LeastExists
  <2>2. n # 0
    <3>1. \A i \in 1..0 : list[i] <= 0
      OBVIOUS
    <3> QED BY <2>1, <3>1
  <2>3. /\ n \in 0..Len(list) /\ n - 1 \in 0..Len(list) /\ ~(n <= n - 1)
        /\ \A i \in 1..n : list[i] \in Nat
    <3>1. n \in 0..Len(list) /\ Len(list) \in Nat
      BY <2>1
    <3> HIDE DEF Bad
    <3>2. n - 1 \in 0..Len(list) /\ ~(n <= n - 1) /\ \A i \in 1..n : i \in 1..Len(list)
      BY <2>2, <3>1
    <3> QED BY <1>0, <3>1, <3>2
  <2>4. PICK m \in Nat : \A i \in 1..(n - 1) : list[i] <= m
    BY <2>1, <2>3
  <2> HIDE DEF Bad
  <2>5. PICK k \in Nat : m <= k /\ list[n] <= k
    <3>0. list[n] \in Nat
      BY <2>2, <2>3
    <3>1. CASE m <= list[n]
      BY <3>0, <3>1
    <3>2. CASE ~(m <= list[n])
      BY <3>0, <3>2
    <3> QED BY <3>1, <3>2
  <2>6. \A i \in 1..n : list[i] <= k
    <3> TAKE i \in 1..n
    <3>1. list[i] \in Nat /\ (i = n \/ i \in 1..(n - 1))
      BY <2>3
    <3> QED BY <2>3, <2>4, <2>5, <3>1
  <2> QED BY <2>1, <2>6 DEF Bad
<1>2. Len(list) \in 0..Len(list)
  OBVIOUS
<1> QED BY <1>1, <1>2

LEMMA RowsStep ==
  ASSUME SInv, Market!Store \/ Market!GetLatest, UNCHANGED <<Market!subVars, retry>>
  PROVE  SInv'
<1>1. SubInv' /\ Retries'
  BY DEF SInv, SubInv, SubTypes, Follows, Indexed, Held, Retries, Market!subVars
<1>2. CASE Market!Store
  <2>1. PICK t \in Received : market' = Append(market, t)
    BY <1>2 DEF Market!Store
  <2>2. t \in Nat /\ answers' = answers
    BY <1>2, SubsAssumption DEF Market!Store, Market!SubsAssumption
  <2>3. /\ market' \in Seq(Nat) /\ Len(market') = Len(market) + 1
        /\ \A i \in 1..Len(market) : market'[i] = market[i] /\ i \in 1..Len(market')
    BY <2>1, <2>2 DEF SInv, Answered
  <2> QED BY <1>1, <2>2, <2>3 DEF SInv, Answered
<1>3. CASE Market!GetLatest
  <2>1. CASE market = <<>>
    BY <1>1, <1>3, <2>1 DEF SInv, Answered, Market!GetLatest
  <2>2. CASE market # <<>>
    <3>1. market \in Seq(Nat)
      BY DEF SInv, Answered
    <3>2. PICK i \in 1..Len(market) :
            Market!Latest(market) = market[i] /\ \A j \in 1..Len(market) : market[j] <= Market!Latest(market)
      BY <2>2, <3>1, Bounded, LatestIs
    <3>3. PICK t : t = Market!Latest(market)
      OBVIOUS
    <3>4. answers' = <<answers[2], t>> /\ market' = market /\ t \in Nat
      BY <1>3, <2>2, <3>1, <3>2, <3>3 DEF Market!GetLatest
    <3>5. answers[2] \in Nat /\ answers[2] <= t
      BY <3>1, <3>2, <3>3, <3>4 DEF SInv, Answered
    <3>6. Answered'
      BY <3>1, <3>2, <3>3, <3>4, <3>5 DEF Answered
    <3> QED BY <1>1, <3>6 DEF SInv
  <2> QED BY <2>1, <2>2
<1> QED BY <1>2, <1>3

LEMMA MarketStarts == Market!Init => SInv
<1> SUFFICES ASSUME Market!Init PROVE SInv
  OBVIOUS
<1>1. Held = {} /\ DOMAIN subscriptions = {} /\ subscriptions = [s \in DOMAIN subscriptions |-> subscriptions[s]]
  BY DEF Market!Init, Held
<1>2. SubInv
  BY <1>1 DEF Market!Init, Market!Idle, SubInv, SubTypes, Follows, Indexed, SocketFields
<1>3. DOMAIN connections = {} /\ connections = [c \in DOMAIN connections |-> connections[c]]
  BY DEF Market!Init
<1>4. Retries
  <2>1. retry = [s \in Sockets |-> [pc |-> "none", waits |-> <<>>]]
    BY DEF Market!Init
  <2>2. <<>> \in Seq(Nat) /\ Waited(<<>>)
    BY DEF Waited
  <2> QED BY <1>3, <2>1, <2>2 DEF Retries
<1>5. Answered
  BY DEF Market!Init, Answered
<1> QED BY <1>2, <1>4, <1>5 DEF SInv

LEMMA MarketStep == ASSUME SInv, [Market!SocketNext]_vars PROVE SInv'
<1>1. CASE UNCHANGED vars
  BY <1>1 DEF vars, Market!subVars, Market!rowVars, SInv, SubInv, SubTypes, Follows, Indexed, Held, Retries, Answered
<1>2. ASSUME NEW s \in Sockets, UNCHANGED <<Market!rowVars, retry>>,
             \/ Market!Subscribe(s) \/ Market!CreateConnection(s) \/ Market!UpdateState(s) \/ Market!Pending(s)
             \/ Market!Activate(s) \/ Market!Unsubscribes(s) \/ Market!ReadFails(s) \/ Market!Leave(s) \/ Market!Release(s)
      PROVE  SInv'
  <2>1. ASSUME Market!Unsubscribes(s) \/ Market!Release(s) PROVE SInv'
    <3>1. Market!Unsubscribe(s) /\ UNCHANGED <<connections, retry, market, answers>>
      BY <1>2, <2>1 DEF Market!Unsubscribes, Market!Release, Market!rowVars
    <3>2. Market!Goes(s, "listen", "leave") \/ Market!Goes(s, "release", "closed")
      BY <2>1 DEF Market!Unsubscribes, Market!Release
    <3> QED BY <3>1, <3>2, UnsubscribeStep
  <2> QED BY <1>2, <2>1, SubscribeStep, CreateConnectionStep, UpdateStateStep, PendingStep, ActivateStep, EndingStep
<1>3. CASE UNCHANGED <<Market!rowVars, retry>> /\ Market!GetSubscriptions
  <2>1. UNCHANGED <<socket, connections, subscriptions, venueSubs, instrumentSubs, channelSubs, market, answers, retry>>
    BY <1>3 DEF Market!GetSubscriptions, Market!rowVars
  <2> QED BY <2>1 DEF SInv, SubInv, SubTypes, Follows, Indexed, Held, Retries, Answered
<1>4. CASE Market!SocketNext
  BY <1>2, <1>3, <1>4, RetryStep, RowsStep DEF Market!SocketNext
<1> QED BY <1>1, <1>4

LEMMA HeardNow == ASSUME SInv PROVE Market!Heard
<1>1. ASSUME NEW s \in DOMAIN subscriptions
      PROVE  LET m == socket[s].market IN
             (subscriptions[s] \in {"PENDING", "ACTIVE"}) =
               (s \in Market!GetVenueSubscriptions(m[1]) \cap Market!GetInstrumentSubscriptions(m[2])
                      \cap Market!GetChannelSubscriptions(m[3]))
  <2>1. subscriptions[s] \in {"PENDING", "ACTIVE"} <=> s \in Held
    BY DEF Held
  <2>2. \A k \in {1, 2, 3} : <<socket[s].market[k], s>> \in {<<socket[t].market[k], t>> : t \in Held} <=> s \in Held
    OBVIOUS
  <2>3. <<socket[s].market[1], s>> \in venueSubs <=> s \in Held
    BY <2>2 DEF SInv, SubInv, Indexed
  <2>4. <<socket[s].market[2], s>> \in instrumentSubs <=> s \in Held
    BY <2>2 DEF SInv, SubInv, Indexed
  <2>5. <<socket[s].market[3], s>> \in channelSubs <=> s \in Held
    BY <2>2 DEF SInv, SubInv, Indexed
  <2> QED BY <2>1, <2>3, <2>4, <2>5
       DEF Market!GetVenueSubscriptions, Market!GetInstrumentSubscriptions, Market!GetChannelSubscriptions
<1>2. ASSUME NEW p \in venueSubs \cup instrumentSubs \cup channelSubs
      PROVE  p[2] \in DOMAIN subscriptions /\ subscriptions[p[2]] # "UNSUBSCRIBED"
  <2>1. PICK s \in Held : p[2] = s
    BY DEF SInv, SubInv, Indexed
  <2> QED BY <2>1 DEF Held
<1>3. \A s \in DOMAIN subscriptions : subscriptions[s] = "ACTIVE" => socket[s].pc \in {"listen", "leave", "release"}
  BY DEF SInv, SubInv, SubTypes, Follows
<1> QED BY <1>1, <1>2, <1>3 DEF Market!Heard

LEMMA NeverBackNow == ASSUME SInv PROVE Market!NeverBack
<1>1. ASSUME NEW c \in Sockets
      PROVE  LET w == retry[c].waits IN
             /\ \A i \in DOMAIN w : w[i] <= MaxBackoff
             /\ \A i \in 2..Len(w) : w[i - 1] <= w[i]
  <2> DEFINE w == retry[c].waits
  <2>1. w \in Seq(Nat) /\ \A i \in 1..Len(w) : w[i] = Market!Backoff[i]
    BY DEF SInv, Retries, Waited
  <2> HIDE DEF w
  <2>2. \A i \in 1..Len(w) : i \in Nat
    BY <2>1
  <2>3. \A i \in 1..Len(w) : w[i] <= MaxBackoff
    BY <2>1, <2>2, BackoffGrows
  <2>4. ASSUME NEW i \in 2..Len(w) PROVE w[i - 1] <= w[i]
    <3>1. i \in 1..Len(w) /\ i - 1 \in 1..Len(w) /\ i - 1 \in Nat /\ (i - 1) + 1 = i
      BY <2>1
    <3>2. Market!Backoff[i - 1] <= Market!Backoff[(i - 1) + 1]
      BY <3>1, BackoffGrows
    <3> QED BY <2>1, <3>1, <3>2
  <2>5. DOMAIN w = 1..Len(w)
    BY <2>1
  <2>6. (\A i \in DOMAIN w : w[i] <= MaxBackoff) /\ \A i \in 2..Len(w) : w[i - 1] <= w[i]
    BY <2>3, <2>4, <2>5
  <2> QED BY <2>6, Zenon DEF w
<1> QED BY <1>1 DEF SInv, Answered, Market!NeverBack

---------------------------------------------------------------------------
(* What is on its way to a browser: x was written, w is being written, S is *)
(* the buffer, h is in the forwarder's hand and B is the channel.           *)

Numbers == Nat \ {0}
InPipe(x, w, S, h, B) ==
  /\ x \in Nat /\ w \in Nat /\ h \in Nat /\ S \in Seq(Numbers) /\ B \in Seq(Numbers)
  /\ w # 0 => x <= w
  /\ h # 0 => x <= h /\ w <= h
  /\ \A i \in 1..Len(S) : x <= S[i] /\ w <= S[i] /\ (h # 0 => S[i] <= h)
  /\ \A j \in 1..Len(B) : x <= B[j] /\ w <= B[j] /\ h < B[j]
  /\ \A i \in 1..Len(S), j \in 1..Len(B) : S[i] <= B[j]
  /\ \A i, k \in 1..Len(S) : i <= k => S[i] <= S[k]
  /\ \A j, k \in 1..Len(B) : j < k => B[j] < B[k]
UpTo(top, x, w, S, h, B) ==
  x <= top /\ w <= top /\ h <= top /\ (\A i \in 1..Len(S) : S[i] <= top) /\ (\A j \in 1..Len(B) : B[j] <= top)
\* d is the newest a channel of the browser took: nothing after the buffer is
\* newer, and once d is dropped there is nothing.
Newest(d, h, B) ==
  /\ d \in Nat
  /\ d = 0 => h = 0 /\ B = <<>>
  /\ h <= d /\ \A j \in 1..Len(B) : B[j] <= d
OnItsWay(d, x, w, S, h, B) ==
  d # 0 => \/ d <= x \/ d <= w \/ d <= h \/ (\E i \in 1..Len(S) : d <= S[i]) \/ (\E j \in 1..Len(B) : d <= B[j])

\* The forwarder's is put into the buffer.
LEMMA Forwarded ==
  ASSUME NEW x, NEW w, NEW S, NEW h, NEW B, NEW d, NEW top \in Nat, h # 0,
         InPipe(x, w, S, h, B), UpTo(top, x, w, S, h, B), Newest(d, h, B)
  PROVE  LET T == Append(S, h) IN
         /\ InPipe(x, w, T, 0, B) /\ UpTo(top, x, w, T, 0, B) /\ Newest(d, 0, B) /\ h <= d
         /\ OnItsWay(d, x, w, S, h, B) => OnItsWay(d, x, w, T, 0, B)
<1> DEFINE T == Append(S, h)
<1>1. /\ T \in Seq(Numbers) /\ Len(T) = Len(S) + 1 /\ T[Len(S) + 1] = h /\ Len(S) \in Nat
      /\ \A i \in 1..Len(S) : T[i] = S[i] /\ i \in 1..Len(T)
      /\ \A i \in 1..Len(T) : i = Len(S) + 1 \/ i \in 1..Len(S)
  BY DEF InPipe, Numbers
<1>2. \A j \in 1..Len(B) : B[j] \in Nat
  BY DEF InPipe, Numbers
<1>3. \A i \in 1..Len(S) : S[i] \in Nat
  BY DEF InPipe, Numbers
<1> HIDE DEF T
<1>4. InPipe(x, w, T, 0, B)
  <2>1. \A i, k \in 1..Len(T) : i <= k => T[i] <= T[k]
    <3> TAKE i, k \in 1..Len(T)
    <3> HAVE i <= k
    <3>1. CASE k \in 1..Len(S)
      <4>1. i \in 1..Len(S)
        BY <1>1, <3>1
      <4> QED BY <1>1, <3>1, <4>1 DEF InPipe
    <3>2. CASE k = Len(S) + 1
      <4>1. i = k \/ i \in 1..Len(S)
        BY <1>1, <3>2
      <4> QED BY <1>1, <1>3, <3>2, <4>1 DEF InPipe
    <3> QED BY <1>1, <3>1, <3>2
  <2>2. \A i \in 1..Len(T) : x <= T[i] /\ w <= T[i]
    BY <1>1 DEF InPipe
  <2>3. \A i \in 1..Len(T), j \in 1..Len(B) : T[i] <= B[j]
    BY <1>1, <1>2 DEF InPipe
  <2>4. \A j \in 1..Len(B) : x <= B[j] /\ w <= B[j] /\ 0 < B[j]
    BY <1>2 DEF InPipe
  <2> QED BY <1>1, <2>1, <2>2, <2>3, <2>4 DEF InPipe
<1>5. UpTo(top, x, w, T, 0, B)
  BY <1>1 DEF UpTo
<1>6. Newest(d, 0, B) /\ h <= d
  BY <1>2 DEF Newest, InPipe
<1>7. OnItsWay(d, x, w, S, h, B) => OnItsWay(d, x, w, T, 0, B)
  BY <1>1, <1>6 DEF OnItsWay, Newest, InPipe
<1> QED BY <1>4, <1>5, <1>6, <1>7 DEF T

\* The buffer is full and the forwarder's is dropped.
LEMMA Dropped ==
  ASSUME NEW x, NEW w, NEW S, NEW h, NEW B, NEW d, NEW top \in Nat, h # 0,
         InPipe(x, w, S, h, B), UpTo(top, x, w, S, h, B), Newest(d, h, B)
  PROVE  LET e == IF d = h THEN 0 ELSE d IN
         /\ InPipe(x, w, S, 0, B) /\ UpTo(top, x, w, S, 0, B) /\ Newest(e, 0, B)
         /\ OnItsWay(d, x, w, S, h, B) => OnItsWay(e, x, w, S, 0, B)
<1>1. \A j \in 1..Len(B) : B[j] \in Nat
  BY DEF InPipe, Numbers
<1>2. InPipe(x, w, S, 0, B) /\ UpTo(top, x, w, S, 0, B)
  BY <1>1 DEF InPipe, UpTo
<1>3. CASE d = h
  <2>1. B = <<>>
    <3> SUFFICES ASSUME B # <<>> PROVE FALSE
      OBVIOUS
    <3>1. 1 \in 1..Len(B)
      BY DEF InPipe
    <3> QED BY <1>1, <1>3, <3>1 DEF InPipe, Newest
  <2> QED BY <1>2, <1>3, <2>1 DEF Newest, OnItsWay
<1>4. CASE d # h
  BY <1>1, <1>2, <1>4 DEF Newest, OnItsWay, InPipe
<1> QED BY <1>2, <1>3, <1>4

\* The forwarder takes from its channel.
LEMMA Taken ==
  ASSUME NEW x, NEW w, NEW S, NEW B, NEW d, NEW top \in Nat, B # <<>>,
         InPipe(x, w, S, 0, B), UpTo(top, x, w, S, 0, B), Newest(d, 0, B)
  PROVE  LET h == Head(B)
             C == Tail(B)
         IN  /\ InPipe(x, w, S, h, C) /\ UpTo(top, x, w, S, h, C) /\ Newest(d, h, C) /\ h # 0
             /\ OnItsWay(d, x, w, S, 0, B) => OnItsWay(d, x, w, S, h, C)
<1> DEFINE h == Head(B)
           C == Tail(B)
<1>1. /\ h = B[1] /\ C \in Seq(Numbers) /\ Len(C) = Len(B) - 1 /\ Len(B) \in Numbers
      /\ \A j \in 1..Len(C) : C[j] = B[j + 1]
  BY DEF InPipe, Numbers
<1>2. /\ 1 \in 1..Len(B) /\ \A j \in 1..Len(C) : j + 1 \in 1..Len(B) /\ C[j] = B[j + 1]
      /\ \A j \in 1..Len(B) : j = 1 \/ (j - 1 \in 1..Len(C) /\ C[j - 1] = B[j])
  BY <1>1 DEF Numbers
<1>3. /\ \A j \in 1..Len(B) : B[j] \in Nat /\ B[j] # 0
      /\ \A i \in 1..Len(S) : S[i] \in Nat
  BY DEF InPipe, Numbers
<1> HIDE DEF h, C
<1>4. h \in Nat /\ h # 0 /\ x <= h /\ w <= h
  BY <1>1, <1>2, <1>3 DEF InPipe
<1>5. \A j, k \in 1..Len(C) : j < k => C[j] < C[k]
  <2> TAKE j, k \in 1..Len(C)
  <2> HAVE j < k
  <2>1. j + 1 \in 1..Len(B) /\ k + 1 \in 1..Len(B) /\ j + 1 < k + 1
    BY <1>2
  <2>2. B[j + 1] < B[k + 1]
    BY <2>1 DEF InPipe
  <2> QED BY <1>2, <2>2
<1>6. \A j \in 1..Len(C) : h < C[j]
  <2> TAKE j \in 1..Len(C)
  <2>1. j + 1 \in 1..Len(B) /\ 1 < j + 1
    BY <1>2
  <2>2. B[1] < B[j + 1]
    BY <1>2, <2>1 DEF InPipe
  <2> QED BY <1>1, <1>2, <2>2
<1>7. InPipe(x, w, S, h, C)
  BY <1>1, <1>2, <1>4, <1>5, <1>6 DEF InPipe
<1>8. UpTo(top, x, w, S, h, C) /\ Newest(d, h, C)
  BY <1>1, <1>2, <1>4 DEF UpTo, Newest
<1>9. ASSUME OnItsWay(d, x, w, S, 0, B) PROVE OnItsWay(d, x, w, S, h, C)
  <2> SUFFICES ASSUME d # 0 PROVE
        \/ d <= x \/ d <= w \/ d <= h \/ (\E i \in 1..Len(S) : d <= S[i]) \/ (\E j \in 1..Len(C) : d <= C[j])
    BY DEF OnItsWay
  <2>1. ASSUME NEW j \in 1..Len(B), d <= B[j]
        PROVE  d <= h \/ \E k \in 1..Len(C) : d <= C[k]
    <3>1. CASE j = 1
      BY <1>1, <2>1, <3>1
    <3>2. CASE j # 1
      <4>1. j - 1 \in 1..Len(C) /\ d <= C[j - 1]
        BY <1>2, <2>1, <3>2
      <4> QED BY <4>1
    <3> QED BY <3>1, <3>2
  <2>2. ~(d <= 0)
    BY DEF Newest
  <2> QED BY <1>9, <2>1, <2>2 DEF OnItsWay
<1> QED BY <1>4, <1>7, <1>8, <1>9 DEF h, C

\* writePump takes from the buffer.
LEMMA Given ==
  ASSUME NEW x, NEW S, NEW h, NEW B, NEW d, NEW top \in Nat, S # <<>>,
         InPipe(x, 0, S, h, B), UpTo(top, x, 0, S, h, B), d \in Nat
  PROVE  LET w == Head(S)
             T == Tail(S)
         IN  /\ InPipe(x, w, T, h, B) /\ UpTo(top, x, w, T, h, B) /\ w # 0
             /\ OnItsWay(d, x, 0, S, h, B) => OnItsWay(d, x, w, T, h, B)
<1> DEFINE w == Head(S)
           T == Tail(S)
<1>1. /\ w = S[1] /\ T \in Seq(Numbers) /\ Len(T) = Len(S) - 1 /\ Len(S) \in Numbers
      /\ \A i \in 1..Len(T) : T[i] = S[i + 1]
  BY DEF InPipe, Numbers
<1>2. /\ 1 \in 1..Len(S) /\ \A i \in 1..Len(T) : i + 1 \in 1..Len(S) /\ T[i] = S[i + 1]
      /\ \A i \in 1..Len(S) : i = 1 \/ (i - 1 \in 1..Len(T) /\ T[i - 1] = S[i])
  BY <1>1 DEF Numbers
<1>3. /\ \A i \in 1..Len(S) : S[i] \in Nat /\ S[i] # 0
      /\ \A j \in 1..Len(B) : B[j] \in Nat
  BY DEF InPipe, Numbers
<1> HIDE DEF w, T
<1>4. w \in Nat /\ w # 0 /\ x <= w /\ (h # 0 => w <= h) /\ w <= top
  BY <1>1, <1>2, <1>3 DEF InPipe, UpTo
<1>5. \A i, k \in 1..Len(T) : i <= k => T[i] <= T[k]
  <2> TAKE i, k \in 1..Len(T)
  <2> HAVE i <= k
  <2>1. i + 1 \in 1..Len(S) /\ k + 1 \in 1..Len(S) /\ i + 1 <= k + 1
    BY <1>2
  <2>2. S[i + 1] <= S[k + 1]
    BY <2>1 DEF InPipe
  <2> QED BY <1>2, <2>2
<1>6. \A i \in 1..Len(T) : w <= T[i]
  <2> TAKE i \in 1..Len(T)
  <2>1. i + 1 \in 1..Len(S) /\ 1 <= i + 1
    BY <1>2
  <2>2. S[1] <= S[i + 1]
    BY <1>2, <2>1 DEF InPipe
  <2> QED BY <1>1, <1>2, <2>2
<1>7. InPipe(x, w, T, h, B)
  <2>1. \A j \in 1..Len(B) : x <= B[j] /\ w <= B[j] /\ h < B[j]
    BY <1>1, <1>2 DEF InPipe
  <2>2. \A i \in 1..Len(T) : x <= T[i] /\ (h # 0 => T[i] <= h)
    BY <1>2 DEF InPipe
  <2>3. \A i \in 1..Len(T), j \in 1..Len(B) : T[i] <= B[j]
    BY <1>2 DEF InPipe
  <2>4. x \in Nat /\ h \in Nat /\ B \in Seq(Numbers) /\ (h # 0 => x <= h) /\ \A j, k \in 1..Len(B) : j < k => B[j] < B[k]
    BY DEF InPipe
  <2> QED BY <1>1, <1>4, <1>5, <1>6, <2>1, <2>2, <2>3, <2>4 DEF InPipe
<1>8. UpTo(top, x, w, T, h, B)
  BY <1>2, <1>4 DEF UpTo
<1>9. ASSUME OnItsWay(d, x, 0, S, h, B) PROVE OnItsWay(d, x, w, T, h, B)
  <2> SUFFICES ASSUME d # 0 PROVE
        \/ d <= x \/ d <= w \/ d <= h \/ (\E i \in 1..Len(T) : d <= T[i]) \/ (\E j \in 1..Len(B) : d <= B[j])
    BY DEF OnItsWay
  <2>1. ASSUME NEW i \in 1..Len(S), d <= S[i]
        PROVE  d <= w \/ \E k \in 1..Len(T) : d <= T[k]
    <3>1. CASE i = 1
      BY <1>1, <2>1, <3>1
    <3>2. CASE i # 1
      <4>1. i - 1 \in 1..Len(T) /\ d <= T[i - 1]
        BY <1>2, <2>1, <3>2
      <4> QED BY <4>1
    <3> QED BY <3>1, <3>2
  <2>2. ~(d <= 0)
    OBVIOUS
  <2> QED BY <1>9, <2>1, <2>2 DEF OnItsWay
<1> QED BY <1>4, <1>7, <1>8, <1>9 DEF w, T

\* What was being written is written.
LEMMA Written ==
  ASSUME NEW x, NEW w, NEW S, NEW h, NEW B, NEW d, NEW top \in Nat, w # 0,
         InPipe(x, w, S, h, B), UpTo(top, x, w, S, h, B), d \in Nat
  PROVE  /\ InPipe(w, 0, S, h, B) /\ UpTo(top, w, 0, S, h, B)
         /\ OnItsWay(d, x, w, S, h, B) => OnItsWay(d, w, 0, S, h, B)
<1>1. /\ \A i \in 1..Len(S) : S[i] \in Nat
      /\ \A j \in 1..Len(B) : B[j] \in Nat
  BY DEF InPipe, Numbers
<1>2. InPipe(w, 0, S, h, B)
  BY <1>1 DEF InPipe
<1> QED BY <1>2 DEF UpTo, OnItsWay, InPipe

\* The socket fails, and what was being written is lost.
LEMMA Unwritten ==
  ASSUME NEW x, NEW w, NEW S, NEW h, NEW B, NEW top \in Nat, InPipe(x, w, S, h, B), UpTo(top, x, w, S, h, B)
  PROVE  InPipe(x, 0, S, h, B) /\ UpTo(top, x, 0, S, h, B)
<1>1. /\ \A i \in 1..Len(S) : S[i] \in Nat
      /\ \A j \in 1..Len(B) : B[j] \in Nat
  BY DEF InPipe, Numbers
<1> QED BY <1>1 DEF InPipe, UpTo

\* A snapshot newer than all is put into the channel.
LEMMA Notified ==
  ASSUME NEW x, NEW w, NEW S, NEW h, NEW B, NEW top \in Numbers,
         InPipe(x, w, S, h, B), UpTo(top, x, w, S, h, B), h < top, \A j \in 1..Len(B) : B[j] < top
  PROVE  LET C == Append(B, top) IN
         InPipe(x, w, S, h, C) /\ UpTo(top, x, w, S, h, C) /\ Newest(top, h, C) /\ OnItsWay(top, x, w, S, h, C)
<1> DEFINE C == Append(B, top)
<1>1. /\ C \in Seq(Numbers) /\ Len(C) = Len(B) + 1 /\ C[Len(B) + 1] = top /\ Len(B) \in Nat
      /\ \A j \in 1..Len(B) : C[j] = B[j] /\ j \in 1..Len(C)
      /\ \A j \in 1..Len(C) : j = Len(B) + 1 \/ j \in 1..Len(B)
      /\ Len(B) + 1 \in 1..Len(C)
  BY DEF InPipe
<1> HIDE DEF C
<1>2. top \in Nat /\ top # 0
  BY DEF Numbers
<1>3. \A j, k \in 1..Len(C) : j < k => C[j] < C[k]
  <2> TAKE j, k \in 1..Len(C)
  <2> HAVE j < k
  <2>1. j \in 1..Len(B)
    BY <1>1
  <2>2. CASE k \in 1..Len(B)
    BY <1>1, <2>1, <2>2 DEF InPipe
  <2>3. CASE k = Len(B) + 1
    BY <1>1, <2>1, <2>3
  <2> QED BY <1>1, <2>2, <2>3
<1>4. \A j \in 1..Len(C) : x <= C[j] /\ w <= C[j] /\ h < C[j] /\ C[j] <= top
  BY <1>1, <1>2 DEF InPipe, UpTo
<1>5. \A i \in 1..Len(S), j \in 1..Len(C) : S[i] <= C[j]
  BY <1>1 DEF InPipe, UpTo
<1>6. InPipe(x, w, S, h, C)
  BY <1>1, <1>3, <1>4, <1>5 DEF InPipe
<1>7. UpTo(top, x, w, S, h, C) /\ Newest(top, h, C)
  BY <1>2, <1>4 DEF UpTo, Newest, InPipe
<1>8. OnItsWay(top, x, w, S, h, C)
  BY <1>1, <1>2 DEF OnItsWay
<1> QED BY <1>6, <1>7, <1>8 DEF C

\* The first snapshot is put into the buffer.
LEMMA SentFirst ==
  ASSUME NEW x, NEW S, NEW d, NEW top \in Numbers,
         InPipe(x, 0, S, 0, <<>>), UpTo(top, x, 0, S, 0, <<>>), d \in Nat
  PROVE  LET T == Append(S, top) IN
         /\ InPipe(x, 0, T, 0, <<>>) /\ UpTo(top, x, 0, T, 0, <<>>)
         /\ d <= top => OnItsWay(top, x, 0, T, 0, <<>>)
         /\ top <= d /\ OnItsWay(d, x, 0, S, 0, <<>>) => OnItsWay(d, x, 0, T, 0, <<>>)
<1> DEFINE T == Append(S, top)
<1>1. /\ T \in Seq(Numbers) /\ Len(T) = Len(S) + 1 /\ T[Len(S) + 1] = top /\ Len(S) \in Nat
      /\ \A i \in 1..Len(S) : T[i] = S[i] /\ i \in 1..Len(T)
      /\ \A i \in 1..Len(T) : i = Len(S) + 1 \/ i \in 1..Len(S)
      /\ Len(S) + 1 \in 1..Len(T)
  BY DEF InPipe
<1> HIDE DEF T
<1>2. top \in Nat /\ top # 0 /\ <<>> \in Seq(Numbers) /\ Len(<<>>) = 0
  BY DEF Numbers
<1>3. \A i, k \in 1..Len(T) : i <= k => T[i] <= T[k]
  <2> TAKE i, k \in 1..Len(T)
  <2> HAVE i <= k
  <2>1. CASE k \in 1..Len(S)
    <3>1. i \in 1..Len(S)
      BY <1>1, <2>1
    <3> QED BY <1>1, <2>1, <3>1 DEF InPipe
  <2>2. CASE k = Len(S) + 1
    <3>1. i = k \/ i \in 1..Len(S)
      BY <1>1, <2>2
    <3> QED BY <1>1, <1>2, <2>2, <3>1 DEF UpTo
  <2> QED BY <1>1, <2>1, <2>2
<1>4. \A i \in 1..Len(T) : x <= T[i] /\ 0 <= T[i] /\ T[i] <= top
  BY <1>1, <1>2 DEF InPipe, UpTo
<1>5. InPipe(x, 0, T, 0, <<>>)
  BY <1>1, <1>2, <1>3, <1>4 DEF InPipe
<1>6. UpTo(top, x, 0, T, 0, <<>>)
  BY <1>2, <1>4 DEF UpTo, InPipe
<1> QED BY <1>1, <1>2, <1>5, <1>6 DEF T, OnItsWay

---------------------------------------------------------------------------
ClientFields == {"request", "reader", "writer", "forwarder", "holds", "writes", "socket", "cancelled"}

\* How far the goroutines of a browser are says where it is known and what they hold.
Shape(c) ==
  /\ DOMAIN client[c] = ClientFields
  /\ client[c].request # "done" =>
       /\ client[c].forwarder = "none" /\ client[c].reader = "none" /\ client[c].writer = "none"
       /\ inbox[c] = <<>> /\ c \notin subscribers
  /\ client[c].forwarder = "send" <=> client[c].holds # 0
  /\ client[c].writer = "write" <=> client[c].writes # 0
  /\ client[c].reader \in {"close", "cancel", "done"} => c \notin hub
  /\ client[c].forwarder \in {"unregister", "done"} => c \notin subscribers
Way(c) ==
  /\ InPipe(seen[c], client[c].writes, send[c], client[c].holds, inbox[c])
  /\ UpTo(book.seq, seen[c], client[c].writes, send[c], client[c].holds, inbox[c])
  /\ Newest(due[c], client[c].holds, inbox[c])
  /\ client[c].socket /\ ~down => OnItsWay(due[c], seen[c], client[c].writes, send[c], client[c].holds, inbox[c])
\* What a channel holds is stored, and older than what is being published.
Behind(c) ==
  /\ feed.pc # "idle" => client[c].holds < feed.seq /\ \A j \in 1..Len(inbox[c]) : inbox[c][j] < feed.seq
  /\ \A j \in 1..Len(inbox[c]) : inbox[c][j] \in rows
Own(c) == Shape(c) /\ Way(c) /\ Behind(c)

Publishing ==
  /\ DOMAIN book = {"state", "seq", "age"} /\ book.seq \in Nat
  /\ book.state = "HEALTHY" => book.seq # 0
  /\ DOMAIN feed = {"pc", "seq"}
  /\ feed.pc # "idle" => feed.seq = book.seq /\ book.seq # 0
  /\ feed.pc = "notify" => feed.seq \in rows
PerBrowser ==
  /\ DOMAIN client = Browsers /\ DOMAIN inbox = Browsers /\ DOMAIN send = Browsers
  /\ DOMAIN seen = Browsers /\ DOMAIN due = Browsers
FInv == PerBrowser /\ Publishing /\ \A c \in Browsers : Own(c)

fanAll == <<Fanout!bookVars, Fanout!pipeVars, Fanout!clientVars, down>>

LEMMA FanoutStarts == Fanout!Init => FInv
<1> SUFFICES ASSUME Fanout!Init PROVE FInv
  OBVIOUS
<1>1. PerBrowser /\ Publishing
  BY DEF Fanout!Init, Fanout!NoBook, PerBrowser, Publishing
<1>2. ASSUME NEW c \in Browsers PROVE Own(c)
  <2>1. /\ client[c] = Fanout!Gone /\ inbox[c] = <<>> /\ send[c] = <<>> /\ seen[c] = 0 /\ due[c] = 0
        /\ hub = {} /\ subscribers = {} /\ feed.pc = "idle" /\ book.seq = 0
    BY DEF Fanout!Init, Fanout!NoBook
  <2>2. <<>> \in Seq(Numbers) /\ Len(<<>>) = 0
    OBVIOUS
  <2>3. InPipe(0, 0, <<>>, 0, <<>>) /\ UpTo(0, 0, 0, <<>>, 0, <<>>) /\ Newest(0, 0, <<>>) /\ OnItsWay(0, 0, 0, <<>>, 0, <<>>)
    BY <2>2 DEF InPipe, UpTo, Newest, OnItsWay
  <2>4. DOMAIN client[c] = ClientFields /\ client[c].holds = 0 /\ client[c].writes = 0
    BY <2>1 DEF Fanout!Gone, ClientFields
  <2>5. Shape(c)
    BY <2>1, <2>4 DEF Shape, Fanout!Gone
  <2>6. Way(c) /\ Behind(c)
    BY <2>1, <2>2, <2>3, <2>4 DEF Way, Behind
  <2> QED BY <2>5, <2>6 DEF Own
<1> QED BY <1>1, <1>2 DEF FInv

---------------------------------------------------------------------------
\* The book and its rows grow while nobody's pipe changes.
LEMMA PublishKeeps ==
  ASSUME FInv, UNCHANGED <<Fanout!clientVars, Fanout!pipeVars, down>>, Publishing',
         book.seq <= book'.seq, rows \subseteq rows',
         feed'.pc # "idle" => \/ (feed.pc # "idle" /\ feed'.seq = feed.seq)
                              \/ (book.seq < feed'.seq /\ feed'.seq \in Nat)
  PROVE  FInv'
<1>1. UNCHANGED <<hub, subscribers, client, inbox, send, seen, due, down>>
  BY DEF Fanout!clientVars, Fanout!pipeVars
<1>2. ASSUME NEW c \in Browsers PROVE Own(c)'
  <2>1. Shape(c)'
    BY <1>1 DEF FInv, Own, Shape
  <2>2. Way(c)'
    <3>1. book.seq \in Nat /\ book'.seq \in Nat
      BY DEF FInv, Publishing
    <3>2. UpTo(book.seq, seen[c], client[c].writes, send[c], client[c].holds, inbox[c])
      BY DEF FInv, Own, Way
    <3>3. InPipe(seen[c], client[c].writes, send[c], client[c].holds, inbox[c])
      BY DEF FInv, Own, Way
    <3>4. /\ \A i \in 1..Len(send[c]) : send[c][i] \in Nat
          /\ \A i \in 1..Len(inbox[c]) : inbox[c][i] \in Nat
      BY <3>3 DEF InPipe, Numbers
    <3>5. UpTo(book'.seq, seen[c], client[c].writes, send[c], client[c].holds, inbox[c])
      BY <3>1, <3>2, <3>3, <3>4 DEF UpTo, InPipe
    <3> QED BY <1>1, <3>5 DEF FInv, Own, Way
  <2>3. Behind(c)'
    <3>1. UpTo(book.seq, seen[c], client[c].writes, send[c], client[c].holds, inbox[c])
      BY DEF FInv, Own, Way
    <3>2. InPipe(seen[c], client[c].writes, send[c], client[c].holds, inbox[c])
      BY DEF FInv, Own, Way
    <3>3. client[c].holds \in Nat /\ \A i \in 1..Len(inbox[c]) : inbox[c][i] \in Nat
      BY <3>2 DEF InPipe, Numbers
    <3>4. book.seq \in Nat
      BY DEF FInv, Publishing
    <3>5. feed'.pc # "idle" => client[c].holds < feed'.seq /\ \A j \in 1..Len(inbox[c]) : inbox[c][j] < feed'.seq
      <4>1. CASE feed.pc # "idle" /\ feed'.seq = feed.seq
        BY <4>1 DEF FInv, Own, Behind
      <4>2. CASE book.seq < feed'.seq /\ feed'.seq \in Nat
        BY <3>1, <3>3, <3>4, <4>2 DEF UpTo
      <4> QED BY <4>1, <4>2
    <3> QED BY <1>1, <3>5 DEF FInv, Own, Behind
  <2> QED BY <2>1, <2>2, <2>3 DEF Own
<1>3. PerBrowser'
  BY <1>1 DEF FInv, PerBrowser
<1> QED BY <1>2, <1>3 DEF FInv

LEMMA PublishStep ==
  ASSUME FInv, UNCHANGED <<Fanout!clientVars, Fanout!pipeVars, down>>,
         \/ Fanout!ApplySnapshot \/ Fanout!CreateSnapshot \/ Fanout!ApplyDelta \/ Fanout!SequenceMismatch
         \/ Fanout!CreateDelta \/ Fanout!Ages \/ Fanout!RequestResync
  PROVE  FInv'
<1>0. Publishing /\ book.seq \in Nat
  BY DEF FInv, Publishing
<1>1. CASE Fanout!ApplySnapshot \/ Fanout!ApplyDelta
  <2>1. /\ book'.seq = book.seq + 1 /\ DOMAIN book' = {"state", "seq", "age"}
        /\ feed'.seq = book.seq + 1 /\ feed'.pc \in {"store", "delta"} /\ DOMAIN feed' = {"pc", "seq"}
        /\ rows' = rows
    BY <1>1 DEF Fanout!ApplySnapshot, Fanout!ApplyDelta
  <2>2. book'.seq \in Nat /\ book'.seq # 0 /\ book.seq <= book'.seq /\ book.seq < feed'.seq /\ feed'.seq \in Nat
    BY <1>0, <2>1
  <2>3. Publishing'
    BY <2>1, <2>2 DEF Publishing
  <2> QED BY <2>1, <2>2, <2>3, PublishKeeps
<1>2. CASE Fanout!CreateSnapshot
  <2>1. book' = book /\ feed.pc = "store" /\ feed'.seq = feed.seq /\ DOMAIN feed' = {"pc", "seq"} /\ rows \subseteq rows'
    BY <1>0, <1>2 DEF Fanout!CreateSnapshot, Publishing
  <2>2. (feed'.pc = "notify" /\ feed.seq \in rows') \/ feed'.pc = "idle"
    BY <1>0, <1>2 DEF Fanout!CreateSnapshot, Publishing
  <2>3. Publishing'
    BY <1>0, <2>1, <2>2 DEF Publishing
  <2> QED BY <1>0, <2>1, <2>3, PublishKeeps
<1>3. CASE Fanout!CreateDelta
  <2>1. book' = book /\ feed'.pc = "idle" /\ DOMAIN feed' = {"pc", "seq"} /\ rows \subseteq rows'
    BY <1>0, <1>3 DEF Fanout!CreateDelta, Publishing
  <2>2. Publishing'
    BY <1>0, <2>1 DEF Publishing
  <2> QED BY <1>0, <2>1, <2>2, PublishKeeps
<1>4. CASE Fanout!SequenceMismatch \/ Fanout!Ages \/ Fanout!RequestResync
  <2>1. /\ book'.seq = book.seq /\ DOMAIN book' = {"state", "seq", "age"} /\ feed' = feed /\ rows' = rows
        /\ book'.state = "HEALTHY" => book.state = "HEALTHY"
    BY <1>0, <1>4 DEF Fanout!SequenceMismatch, Fanout!Ages, Fanout!RequestResync, Publishing
  <2>2. Publishing'
    BY <1>0, <2>1 DEF Publishing
  <2> QED BY <1>0, <2>1, <2>2, PublishKeeps
<1> QED BY <1>1, <1>2, <1>3, <1>4

LEMMA NotifyStep ==
  ASSUME FInv, Fanout!NotifySubscribers, UNCHANGED <<Fanout!clientVars, down>>
  PROVE  FInv'
<1>1. /\ feed.pc = "notify" /\ feed' = [feed EXCEPT !.pc = "idle"] /\ UNCHANGED <<book, rows, send, seen>>
      /\ UNCHANGED <<hub, subscribers, client, down>>
      /\ inbox' = [c \in Browsers |-> IF c \in subscribers /\ Fanout!Fits(c) THEN Append(inbox[c], feed.seq) ELSE inbox[c]]
      /\ due' = [c \in Browsers |-> IF c \in subscribers /\ Fanout!Fits(c) THEN feed.seq ELSE due[c]]
  BY DEF Fanout!NotifySubscribers, Fanout!clientVars
<1>2. feed'.pc = "idle" /\ DOMAIN feed' = {"pc", "seq"} /\ feed.seq = book.seq /\ book.seq \in Numbers /\ feed.seq \in rows
  BY <1>1 DEF FInv, Publishing, Numbers
<1>3. Publishing'
  BY <1>1, <1>2 DEF FInv, Publishing
<1>4. PerBrowser'
  BY <1>1 DEF FInv, PerBrowser
<1>5. ASSUME NEW c \in Browsers PROVE Own(c)'
  <2>1. CASE c \in subscribers /\ Fanout!Fits(c)
    <3> DEFINE B == inbox[c]
               C == Append(B, book.seq)
    <3>1. inbox'[c] = C /\ due'[c] = book.seq
      BY <1>1, <1>2, <2>1
    <3>2. /\ InPipe(seen[c], client[c].writes, send[c], client[c].holds, B)
          /\ UpTo(book.seq, seen[c], client[c].writes, send[c], client[c].holds, B)
          /\ client[c].holds < book.seq /\ \A j \in 1..Len(B) : B[j] < book.seq
      BY <1>1, <1>2 DEF FInv, Own, Way, Behind
    <3>3. /\ InPipe(seen[c], client[c].writes, send[c], client[c].holds, C)
          /\ UpTo(book.seq, seen[c], client[c].writes, send[c], client[c].holds, C)
          /\ Newest(book.seq, client[c].holds, C)
          /\ OnItsWay(book.seq, seen[c], client[c].writes, send[c], client[c].holds, C)
      BY <1>2, <3>2, Notified
    <3>4. \A j \in 1..Len(C) : C[j] \in rows
      <4>1. B \in Seq(Numbers) /\ \A j \in 1..Len(B) : B[j] \in rows
        BY <3>2 DEF InPipe, FInv, Own, Behind
      <4> QED BY <1>2, <4>1
    <3> HIDE DEF C
    <3>5. Way(c)' /\ Behind(c)'
      BY <1>1, <1>2, <3>1, <3>3, <3>4 DEF Way, Behind
    <3>6. Shape(c)'
      <4>1. client[c].request = "done"
        BY <2>1 DEF FInv, Own, Shape
      <4> QED BY <1>1, <4>1 DEF FInv, Own, Shape
    <3> QED BY <3>5, <3>6 DEF Own
  <2>2. CASE ~(c \in subscribers /\ Fanout!Fits(c))
    <3>1. inbox'[c] = inbox[c] /\ due'[c] = due[c]
      BY <1>1, <2>2
    <3> QED BY <1>1, <1>2, <3>1 DEF FInv, Own, Shape, Way, Behind
  <2> QED BY <2>1, <2>2
<1> QED BY <1>3, <1>4, <1>5 DEF FInv

---------------------------------------------------------------------------
\* A step of one browser leaves the others where they are.
LEMMA OthersKeep ==
  ASSUME FInv, ~down, UNCHANGED Fanout!bookVars, NEW c \in Browsers,
         \A b \in Browsers \ {c} :
           /\ client'[b] = client[b] /\ inbox'[b] = inbox[b] /\ send'[b] = send[b] /\ seen'[b] = seen[b] /\ due'[b] = due[b]
           /\ (b \in hub' <=> b \in hub) /\ (b \in subscribers' <=> b \in subscribers),
         PerBrowser', Own(c)'
  PROVE  FInv'
<1>1. UNCHANGED <<book, feed, rows>>
  BY DEF Fanout!bookVars
<1>2. ASSUME NEW b \in Browsers, b # c PROVE Own(b)'
  <2>1. /\ client'[b] = client[b] /\ inbox'[b] = inbox[b] /\ send'[b] = send[b] /\ seen'[b] = seen[b] /\ due'[b] = due[b]
        /\ (b \in hub' <=> b \in hub) /\ (b \in subscribers' <=> b \in subscribers)
    BY <1>2
  <2>2. Shape(b)'
    BY <2>1 DEF FInv, Own, Shape
  <2>3. Way(b)'
    BY <1>1, <2>1 DEF FInv, Own, Way
  <2>4. Behind(b)'
    BY <1>1, <2>1 DEF FInv, Own, Behind
  <2> QED BY <2>2, <2>3, <2>4 DEF Own
<1>3. Publishing'
  BY <1>1 DEF FInv, Publishing
<1> QED BY <1>2, <1>3 DEF FInv

\* A step that moves nothing on the way.
LEMMA WayKeeps ==
  ASSUME FInv, ~down, UNCHANGED Fanout!bookVars, UNCHANGED <<inbox, send, seen, due>>, NEW c \in Browsers,
         DOMAIN client' = Browsers, \A b \in Browsers \ {c} : client'[b] = client[b],
         \A b \in Browsers \ {c} : (b \in hub' <=> b \in hub) /\ (b \in subscribers' <=> b \in subscribers),
         client'[c].holds = client[c].holds, client'[c].writes = client[c].writes,
         client'[c].socket => client[c].socket, Shape(c)'
  PROVE  FInv'
<1>1. UNCHANGED <<book, feed, rows>>
  BY DEF Fanout!bookVars
<1>2. Way(c)' /\ Behind(c)'
  BY <1>1 DEF FInv, Own, Way, Behind
<1>3. PerBrowser'
  BY DEF FInv, PerBrowser
<1> QED BY <1>2, <1>3, OthersKeep DEF Own

\* What goes into a browser's buffer, or not.
SendFacts(c, seq) ==
  \/ down' = TRUE /\ send' = send /\ due' = due
  \/ /\ down' = down
     /\ \/ /\ send' = [send EXCEPT ![c] = Append(@, seq)]
           /\ due' = [due EXCEPT ![c] = IF @ < seq THEN seq ELSE @]
        \/ send' = send /\ due' = [due EXCEPT ![c] = IF @ = seq THEN 0 ELSE @]

LEMMA SendIs == ASSUME NEW c, NEW seq, Fanout!SendSnapshot(c, seq) PROVE SendFacts(c, seq)
BY DEF Fanout!SendSnapshot, SendFacts

LEMMA RegisterStep ==
  ASSUME FInv, ~down, UNCHANGED Fanout!bookVars, NEW c \in Browsers, Fanout!Register(c)
  PROVE  FInv'
<1>1. /\ client[c].request = "none" /\ client' = [client EXCEPT ![c].request = "read"] /\ hub' = hub \cup {c}
      /\ UNCHANGED <<subscribers, inbox, send, seen, due>>
  BY DEF Fanout!Register, Fanout!pipeVars
<1>2. /\ DOMAIN client' = Browsers /\ \A b \in Browsers \ {c} : client'[b] = client[b]
      /\ client'[c] = [client[c] EXCEPT !.request = "read"] /\ DOMAIN client[c] = ClientFields
  BY <1>1 DEF FInv, PerBrowser, Own, Shape
<1>3. Shape(c)'
  BY <1>1, <1>2 DEF FInv, Own, Shape, ClientFields
<1> QED BY <1>1, <1>2, <1>3, WayKeeps DEF ClientFields

LEMMA SubscribeBrowserStep ==
  ASSUME FInv, ~down, UNCHANGED Fanout!bookVars, NEW c \in Browsers, Fanout!Subscribe(c)
  PROVE  FInv'
<1>1. /\ client[c].request = "subscribe" /\ subscribers' = subscribers \cup {c}
      /\ client' = [client EXCEPT ![c].request = "done", ![c].reader = "read", ![c].writer = "wait", ![c].forwarder = "wait"]
      /\ UNCHANGED <<hub, inbox, send, seen, due>>
  BY DEF Fanout!Subscribe, Fanout!pipeVars
<1>2. /\ DOMAIN client' = Browsers /\ \A b \in Browsers \ {c} : client'[b] = client[b]
      /\ client'[c] = [client[c] EXCEPT !.request = "done", !.reader = "read", !.writer = "wait", !.forwarder = "wait"]
      /\ DOMAIN client[c] = ClientFields
  BY <1>1 DEF FInv, PerBrowser, Own, Shape
<1>3. /\ DOMAIN client'[c] = ClientFields /\ client'[c].request = "done" /\ client'[c].reader = "read"
      /\ client'[c].writer = "wait" /\ client'[c].forwarder = "wait" /\ client'[c].holds = client[c].holds
      /\ client'[c].writes = client[c].writes /\ client'[c].socket = client[c].socket
  BY <1>2 DEF ClientFields
<1>4. Shape(c)'
  BY <1>1, <1>3 DEF FInv, Own, Shape
<1> QED BY <1>1, <1>2, <1>3, <1>4, WayKeeps

LEMMA SendCurrentStep ==
  ASSUME FInv, ~down, UNCHANGED Fanout!bookVars, NEW c \in Browsers, Fanout!SendCurrent(c)
  PROVE  FInv'
<1>1. /\ client[c].request = "read" /\ client' = [client EXCEPT ![c].request = "subscribe"]
      /\ UNCHANGED <<hub, subscribers, inbox, seen, book, feed, rows>>
      /\ \/ UNCHANGED <<send, due, down>>
         \/ book.seq # 0 /\ SendFacts(c, book.seq)
  BY SendIs DEF Fanout!SendCurrent, Fanout!bookVars
<1>2. /\ DOMAIN client' = Browsers /\ \A b \in Browsers \ {c} : client'[b] = client[b]
      /\ client'[c] = [client[c] EXCEPT !.request = "subscribe"] /\ DOMAIN client[c] = ClientFields
  BY <1>1 DEF FInv, PerBrowser, Own, Shape
<1>3. /\ DOMAIN client'[c] = ClientFields /\ client'[c].request = "subscribe"
      /\ \A f \in ClientFields \ {"request"} : client'[c][f] = client[c][f]
  BY <1>2 DEF ClientFields
<1>4. /\ client[c].holds = 0 /\ client[c].writes = 0 /\ inbox[c] = <<>>
      /\ client'[c].holds = 0 /\ client'[c].writes = 0 /\ client'[c].socket = client[c].socket
  BY <1>1, <1>3 DEF FInv, Own, Shape, ClientFields
<1>5. Shape(c)'
  BY <1>1, <1>3 DEF FInv, Own, Shape, ClientFields
<1>6. Behind(c)'
  BY <1>1, <1>4 DEF FInv, Own, Behind
<1>7. /\ InPipe(seen[c], 0, send[c], 0, <<>>) /\ UpTo(book.seq, seen[c], 0, send[c], 0, <<>>)
      /\ due[c] \in Nat /\ (client[c].socket => OnItsWay(due[c], seen[c], 0, send[c], 0, <<>>))
  BY <1>4 DEF FInv, Own, Way, Newest
<1>8. CASE send' = send /\ (due'[c] = due[c] \/ due'[c] = 0) /\ DOMAIN due' = Browsers
           /\ \A b \in Browsers \ {c} : due'[b] = due[b]
  <2>1. Newest(due'[c], 0, <<>>)
    BY <1>7, <1>8 DEF Newest
  <2>2. OnItsWay(0, seen[c], 0, send[c], 0, <<>>)
    BY DEF OnItsWay
  <2>3. Way(c)'
    BY <1>1, <1>4, <1>7, <1>8, <2>1, <2>2 DEF Way
  <2>4. PerBrowser'
    BY <1>1, <1>2, <1>8 DEF FInv, PerBrowser
  <2> QED BY <1>1, <1>2, <1>5, <1>6, <1>8, <2>3, <2>4, OthersKeep DEF Own
<1>9. CASE /\ book.seq # 0 /\ send' = [send EXCEPT ![c] = Append(@, book.seq)]
           /\ due' = [due EXCEPT ![c] = IF @ < book.seq THEN book.seq ELSE @]
  <2> DEFINE T == Append(send[c], book.seq)
             d == IF due[c] < book.seq THEN book.seq ELSE due[c]
  <2>1. send'[c] = T /\ due'[c] = d /\ book.seq \in Numbers
    BY <1>9 DEF FInv, PerBrowser, Publishing, Numbers
  <2>2. /\ InPipe(seen[c], 0, T, 0, <<>>) /\ UpTo(book.seq, seen[c], 0, T, 0, <<>>)
        /\ due[c] <= book.seq => OnItsWay(book.seq, seen[c], 0, T, 0, <<>>)
        /\ book.seq <= due[c] /\ OnItsWay(due[c], seen[c], 0, send[c], 0, <<>>) => OnItsWay(due[c], seen[c], 0, T, 0, <<>>)
    BY <1>7, <2>1, SentFirst
  <2>3. client[c].socket => OnItsWay(d, seen[c], 0, T, 0, <<>>)
    BY <1>7, <2>1, <2>2 DEF Numbers
  <2>4. Newest(d, 0, <<>>)
    BY <1>7, <2>1 DEF Newest, Numbers
  <2> HIDE DEF T, d
  <2>5. Way(c)'
    BY <1>1, <1>4, <2>1, <2>2, <2>3, <2>4 DEF Way
  <2>6. PerBrowser' /\ \A b \in Browsers \ {c} : send'[b] = send[b] /\ due'[b] = due[b]
    BY <1>1, <1>2, <1>9 DEF FInv, PerBrowser
  <2> QED BY <1>1, <1>2, <1>5, <1>6, <2>5, <2>6, OthersKeep DEF Own
<1> QED BY <1>1, <1>8, <1>9 DEF SendFacts, FInv, PerBrowser

LEMMA ReceiveStep ==
  ASSUME FInv, ~down, UNCHANGED Fanout!bookVars, NEW c \in Browsers, Fanout!Receive(c)
  PROVE  FInv'
<1> DEFINE h == Head(inbox[c])
           C == Tail(inbox[c])
<1>1. /\ client[c].forwarder = "wait" /\ inbox[c] # <<>>
      /\ client' = [client EXCEPT ![c].forwarder = "send", ![c].holds = h]
      /\ inbox' = [inbox EXCEPT ![c] = C]
      /\ UNCHANGED <<hub, subscribers, send, seen, due, down, book, feed, rows>>
  BY DEF Fanout!Receive, Fanout!bookVars
<1>2. client[c].holds = 0 /\ DOMAIN client[c] = ClientFields /\ client[c].request = "done"
  BY <1>1 DEF FInv, Own, Shape
<1>3. /\ DOMAIN client' = Browsers /\ \A b \in Browsers \ {c} : client'[b] = client[b]
      /\ client'[c] = [client[c] EXCEPT !.forwarder = "send", !.holds = h]
      /\ DOMAIN inbox' = Browsers /\ \A b \in Browsers \ {c} : inbox'[b] = inbox[b]
      /\ inbox'[c] = C
  BY <1>1 DEF FInv, PerBrowser
<1>4. /\ InPipe(seen[c], client[c].writes, send[c], h, C)
      /\ UpTo(book.seq, seen[c], client[c].writes, send[c], h, C)
      /\ Newest(due[c], h, C) /\ h # 0
      /\ client[c].socket /\ ~down => OnItsWay(due[c], seen[c], client[c].writes, send[c], h, C)
  <2>1. /\ InPipe(seen[c], client[c].writes, send[c], 0, inbox[c])
        /\ UpTo(book.seq, seen[c], client[c].writes, send[c], 0, inbox[c])
        /\ Newest(due[c], 0, inbox[c]) /\ book.seq \in Nat
        /\ client[c].socket /\ ~down => OnItsWay(due[c], seen[c], client[c].writes, send[c], 0, inbox[c])
    BY <1>2 DEF FInv, Own, Way, Publishing
  <2> QED BY <1>1, <2>1, Taken
<1>5. h < feed.seq \/ feed.pc = "idle"
  <2>1. inbox[c] \in Seq(Numbers)
    BY DEF FInv, Own, Way, InPipe
  <2>2. 1 \in 1..Len(inbox[c]) /\ h = inbox[c][1]
    BY <1>1, <2>1
  <2> QED BY <2>2 DEF FInv, Own, Behind
<1>6. /\ feed.pc # "idle" => \A j \in 1..Len(C) : C[j] < feed.seq
      /\ \A j \in 1..Len(C) : C[j] \in rows
  <2>1. inbox[c] \in Seq(Numbers)
    BY DEF FInv, Own, Way, InPipe
  <2>2. \A j \in 1..Len(C) : j + 1 \in 1..Len(inbox[c]) /\ C[j] = inbox[c][j + 1]
    BY <1>1, <2>1
  <2> QED BY <2>2 DEF FInv, Own, Behind
<1> HIDE DEF h, C
<1>7. /\ DOMAIN client'[c] = ClientFields /\ client'[c].holds = h /\ client'[c].forwarder = "send"
      /\ \A f \in ClientFields \ {"holds", "forwarder"} : client'[c][f] = client[c][f]
  BY <1>2, <1>3 DEF ClientFields
<1>8. /\ client'[c].writes = client[c].writes /\ client'[c].socket = client[c].socket
      /\ client'[c].request = "done" /\ client'[c].writer = client[c].writer /\ client'[c].reader = client[c].reader
  BY <1>2, <1>7 DEF ClientFields
<1>9. Shape(c)'
  BY <1>1, <1>4, <1>7, <1>8 DEF FInv, Own, Shape
<1>10. Way(c)' /\ Behind(c)'
  BY <1>1, <1>3, <1>4, <1>5, <1>6, <1>7, <1>8 DEF Way, Behind
<1>11. PerBrowser'
  BY <1>1, <1>3 DEF FInv, PerBrowser
<1> QED BY <1>1, <1>3, <1>9, <1>10, <1>11, OthersKeep DEF Own

LEMMA ForwardStep ==
  ASSUME FInv, ~down, UNCHANGED Fanout!bookVars, NEW c \in Browsers, Fanout!Forward(c)
  PROVE  FInv'
<1> DEFINE h == client[c].holds
<1>1. /\ client[c].forwarder = "send" /\ client' = [client EXCEPT ![c].forwarder = "wait", ![c].holds = 0]
      /\ SendFacts(c, h)
      /\ UNCHANGED <<hub, subscribers, inbox, seen, book, feed, rows>>
  BY SendIs DEF Fanout!Forward, Fanout!bookVars
<1>2. h # 0 /\ DOMAIN client[c] = ClientFields /\ client[c].request = "done"
  BY <1>1 DEF FInv, Own, Shape
<1>3. /\ DOMAIN client' = Browsers /\ \A b \in Browsers \ {c} : client'[b] = client[b]
      /\ client'[c] = [client[c] EXCEPT !.forwarder = "wait", !.holds = 0]
  BY <1>1 DEF FInv, PerBrowser
<1>4. /\ DOMAIN client'[c] = ClientFields /\ client'[c].holds = 0 /\ client'[c].forwarder = "wait"
      /\ client'[c].writes = client[c].writes /\ client'[c].socket = client[c].socket
      /\ client'[c].request = "done" /\ client'[c].writer = client[c].writer /\ client'[c].reader = client[c].reader
  BY <1>2, <1>3 DEF ClientFields
<1>5. Shape(c)'
  BY <1>1, <1>4 DEF FInv, Own, Shape
<1>6. /\ InPipe(seen[c], client[c].writes, send[c], h, inbox[c])
      /\ UpTo(book.seq, seen[c], client[c].writes, send[c], h, inbox[c])
      /\ Newest(due[c], h, inbox[c]) /\ book.seq \in Nat
      /\ client[c].socket => OnItsWay(due[c], seen[c], client[c].writes, send[c], h, inbox[c])
  BY DEF FInv, Own, Way, Publishing
<1> HIDE DEF h
<1>7. Behind(c)'
  <2>1. feed.pc # "idle" => 0 < feed.seq
    BY DEF FInv, Publishing
  <2> QED BY <1>1, <1>4, <2>1 DEF FInv, Own, Behind, Publishing
<1>8. CASE down' = TRUE /\ send' = send /\ due' = due
  <2>1. InPipe(seen[c], client[c].writes, send[c], 0, inbox[c]) /\ UpTo(book.seq, seen[c], client[c].writes, send[c], 0, inbox[c])
    BY <1>2, <1>6, Dropped
  <2>2. Newest(due[c], 0, inbox[c])
    BY <1>2, <1>6 DEF Newest, InPipe
  <2>3. Way(c)'
    BY <1>1, <1>4, <1>8, <2>1, <2>2 DEF Way
  <2>4. PerBrowser'
    BY <1>1, <1>3, <1>8 DEF FInv, PerBrowser
  <2> QED BY <1>1, <1>3, <1>5, <1>7, <1>8, <2>3, <2>4, OthersKeep DEF Own
<1>9. CASE send' = [send EXCEPT ![c] = Append(@, h)] /\ due' = [due EXCEPT ![c] = IF @ < h THEN h ELSE @]
  <2> DEFINE T == Append(send[c], h)
  <2>1. /\ InPipe(seen[c], client[c].writes, T, 0, inbox[c]) /\ UpTo(book.seq, seen[c], client[c].writes, T, 0, inbox[c])
        /\ Newest(due[c], 0, inbox[c]) /\ h <= due[c]
        /\ client[c].socket => OnItsWay(due[c], seen[c], client[c].writes, T, 0, inbox[c])
    BY <1>2, <1>6, Forwarded
  <2>2. send'[c] = T /\ due'[c] = due[c]
    <3>1. due[c] \in Nat /\ h \in Nat
      BY <1>6 DEF Newest, InPipe
    <3> QED BY <1>9, <2>1, <3>1 DEF FInv, PerBrowser
  <2> HIDE DEF T
  <2>3. Way(c)'
    BY <1>1, <1>4, <2>1, <2>2 DEF Way
  <2>4. PerBrowser' /\ \A b \in Browsers \ {c} : send'[b] = send[b] /\ due'[b] = due[b]
    BY <1>1, <1>3, <1>9 DEF FInv, PerBrowser
  <2> QED BY <1>1, <1>3, <1>5, <1>7, <2>3, <2>4, OthersKeep DEF Own
<1>10. CASE send' = send /\ due' = [due EXCEPT ![c] = IF @ = h THEN 0 ELSE @]
  <2> DEFINE e == IF due[c] = h THEN 0 ELSE due[c]
  <2>1. /\ InPipe(seen[c], client[c].writes, send[c], 0, inbox[c]) /\ UpTo(book.seq, seen[c], client[c].writes, send[c], 0, inbox[c])
        /\ Newest(e, 0, inbox[c])
        /\ client[c].socket => OnItsWay(e, seen[c], client[c].writes, send[c], 0, inbox[c])
    BY <1>2, <1>6, Dropped
  <2>2. due'[c] = e
    BY <1>10 DEF FInv, PerBrowser
  <2> HIDE DEF e
  <2>3. Way(c)'
    BY <1>1, <1>4, <1>10, <2>1, <2>2 DEF Way
  <2>4. PerBrowser' /\ \A b \in Browsers \ {c} : due'[b] = due[b]
    BY <1>1, <1>3, <1>10 DEF FInv, PerBrowser
  <2> QED BY <1>1, <1>3, <1>5, <1>7, <1>10, <2>3, <2>4, OthersKeep DEF Own
<1> QED BY <1>1, <1>8, <1>9, <1>10 DEF SendFacts

---------------------------------------------------------------------------
\* The goroutines of a browser that move nothing on the way.
LEMMA GoroutineStep ==
  ASSUME FInv, ~down, UNCHANGED Fanout!bookVars, NEW c \in Browsers,
         \/ Fanout!Cancelled(c) \/ Fanout!Unsubscribe(c) \/ Fanout!ForwarderEnds(c)
         \/ Fanout!ReadFails(c) \/ Fanout!LeaveHub(c) \/ Fanout!CloseSocket(c) \/ Fanout!Cancel(c)
         \/ Fanout!WriterEnds(c)
  PROVE  FInv'
<1>1. DOMAIN client = Browsers /\ DOMAIN client[c] = ClientFields /\ Shape(c)
  BY DEF FInv, PerBrowser, Own, Shape
<1>2. UNCHANGED <<inbox, send, seen, due>>
  BY DEF Fanout!Cancelled, Fanout!Unsubscribe, Fanout!ForwarderEnds, Fanout!ReadFails, Fanout!LeaveHub,
         Fanout!CloseSocket, Fanout!Cancel, Fanout!WriterEnds, Fanout!pipeVars
<1>3. CASE Fanout!Cancelled(c)
  <2>1. /\ client[c].forwarder = "wait" /\ client' = [client EXCEPT ![c].forwarder = "unsubscribe"]
        /\ hub' = hub /\ subscribers' = subscribers
    BY <1>3 DEF Fanout!Cancelled
  <2>2. Shape(c)'
    BY <1>1, <1>2, <2>1 DEF Shape, ClientFields
  <2> QED BY <1>1, <1>2, <2>1, <2>2, WayKeeps DEF ClientFields
<1>4. CASE Fanout!Unsubscribe(c)
  <2>1. /\ client[c].forwarder = "unsubscribe" /\ client' = [client EXCEPT ![c].forwarder = "unregister"]
        /\ hub' = hub /\ subscribers' = subscribers \ {c}
    BY <1>4 DEF Fanout!Unsubscribe
  <2>2. Shape(c)'
    BY <1>1, <1>2, <2>1 DEF Shape, ClientFields
  <2> QED BY <1>1, <1>2, <2>1, <2>2, WayKeeps DEF ClientFields
<1>5. CASE Fanout!ForwarderEnds(c)
  <2>1. /\ client[c].forwarder = "unregister" /\ client' = [client EXCEPT ![c].forwarder = "done"]
        /\ hub' = hub \ {c} /\ subscribers' = subscribers
    BY <1>5 DEF Fanout!ForwarderEnds, Fanout!Unregister
  <2>2. Shape(c)'
    BY <1>1, <1>2, <2>1 DEF Shape, ClientFields
  <2> QED BY <1>1, <1>2, <2>1, <2>2, WayKeeps DEF ClientFields
<1>6. CASE Fanout!ReadFails(c)
  <2>1. /\ client[c].reader = "read" /\ client' = [client EXCEPT ![c].reader = "leave"]
        /\ hub' = hub /\ subscribers' = subscribers
    BY <1>6 DEF Fanout!ReadFails, Fanout!Reader
  <2>2. Shape(c)'
    BY <1>1, <1>2, <2>1 DEF Shape, ClientFields
  <2> QED BY <1>1, <1>2, <2>1, <2>2, WayKeeps DEF ClientFields
<1>7. CASE Fanout!LeaveHub(c)
  <2>1. /\ client[c].reader = "leave" /\ client' = [client EXCEPT ![c].reader = "close"]
        /\ hub' = hub \ {c} /\ subscribers' = subscribers
    BY <1>7 DEF Fanout!LeaveHub, Fanout!Reader, Fanout!Unregister
  <2>2. Shape(c)'
    BY <1>1, <1>2, <2>1 DEF Shape, ClientFields
  <2> QED BY <1>1, <1>2, <2>1, <2>2, WayKeeps DEF ClientFields
<1>8. CASE Fanout!CloseSocket(c)
  <2>1. /\ client[c].reader = "close" /\ client' = [client EXCEPT ![c].reader = "cancel", ![c].socket = FALSE]
        /\ hub' = hub /\ subscribers' = subscribers
    BY <1>8 DEF Fanout!CloseSocket
  <2>2. /\ DOMAIN client' = Browsers /\ \A b \in Browsers \ {c} : client'[b] = client[b]
        /\ client'[c] = [client[c] EXCEPT !.reader = "cancel", !.socket = FALSE]
    BY <1>1, <2>1
  <2>3. Shape(c)' /\ client'[c].holds = client[c].holds /\ client'[c].writes = client[c].writes /\ client'[c].socket = FALSE
    BY <1>1, <1>2, <2>1, <2>2 DEF Shape, ClientFields
  <2> QED BY <1>2, <2>1, <2>2, <2>3, WayKeeps
<1>9. CASE Fanout!Cancel(c)
  <2>1. /\ client[c].reader = "cancel" /\ client' = [client EXCEPT ![c].reader = "done", ![c].cancelled = TRUE]
        /\ hub' = hub /\ subscribers' = subscribers
    BY <1>9 DEF Fanout!Cancel
  <2>2. /\ DOMAIN client' = Browsers /\ \A b \in Browsers \ {c} : client'[b] = client[b]
        /\ client'[c] = [client[c] EXCEPT !.reader = "done", !.cancelled = TRUE]
    BY <1>1, <2>1
  <2>3. /\ Shape(c)' /\ client'[c].holds = client[c].holds /\ client'[c].writes = client[c].writes
        /\ client'[c].socket = client[c].socket
    BY <1>1, <1>2, <2>1, <2>2 DEF Shape, ClientFields
  <2> QED BY <1>2, <2>1, <2>2, <2>3, WayKeeps
<1>10. CASE Fanout!WriterEnds(c)
  <2>1. /\ client[c].writer = "wait" /\ client' = [client EXCEPT ![c].writer = "done", ![c].socket = FALSE]
        /\ hub' = hub /\ subscribers' = subscribers
    BY <1>10 DEF Fanout!WriterEnds
  <2>2. /\ DOMAIN client' = Browsers /\ \A b \in Browsers \ {c} : client'[b] = client[b]
        /\ client'[c] = [client[c] EXCEPT !.writer = "done", !.socket = FALSE]
    BY <1>1, <2>1
  <2>3. Shape(c)' /\ client'[c].holds = client[c].holds /\ client'[c].writes = client[c].writes /\ client'[c].socket = FALSE
    BY <1>1, <1>2, <2>1, <2>2 DEF Shape, ClientFields
  <2> QED BY <1>2, <2>1, <2>2, <2>3, WayKeeps
<1> QED BY <1>3, <1>4, <1>5, <1>6, <1>7, <1>8, <1>9, <1>10

\* A pong may end the process, and changes nothing else.
LEMMA PongStep ==
  ASSUME FInv, ~down, UNCHANGED Fanout!bookVars, NEW c \in Browsers, Fanout!Pong(c)
  PROVE  FInv'
<1>1. UNCHANGED <<hub, subscribers, client, inbox, send, seen, due>>
  BY DEF Fanout!Pong, Fanout!clientVars, Fanout!pipeVars
<1>2. Shape(c)'
  BY <1>1 DEF FInv, Own, Shape
<1> QED BY <1>1, <1>2, WayKeeps DEF FInv, PerBrowser

LEMMA TakeStep ==
  ASSUME FInv, ~down, UNCHANGED Fanout!bookVars, NEW c \in Browsers, Fanout!Take(c)
  PROVE  FInv'
<1> DEFINE w == Head(send[c])
           T == Tail(send[c])
<1>1. /\ client[c].writer = "wait" /\ send[c] # <<>>
      /\ client' = [client EXCEPT ![c].writer = "write", ![c].writes = w]
      /\ send' = [send EXCEPT ![c] = T]
      /\ UNCHANGED <<hub, subscribers, inbox, seen, due, down, book, feed, rows>>
  BY DEF Fanout!Take, Fanout!bookVars
<1>2. client[c].writes = 0 /\ DOMAIN client[c] = ClientFields /\ client[c].request = "done"
  BY <1>1 DEF FInv, Own, Shape
<1>3. /\ DOMAIN client' = Browsers /\ \A b \in Browsers \ {c} : client'[b] = client[b]
      /\ client'[c] = [client[c] EXCEPT !.writer = "write", !.writes = w]
      /\ DOMAIN send' = Browsers /\ \A b \in Browsers \ {c} : send'[b] = send[b]
      /\ send'[c] = T
  BY <1>1 DEF FInv, PerBrowser
<1>4. /\ InPipe(seen[c], w, T, client[c].holds, inbox[c])
      /\ UpTo(book.seq, seen[c], w, T, client[c].holds, inbox[c]) /\ w # 0
      /\ Newest(due[c], client[c].holds, inbox[c])
      /\ client[c].socket /\ ~down => OnItsWay(due[c], seen[c], w, T, client[c].holds, inbox[c])
  <2>1. /\ InPipe(seen[c], 0, send[c], client[c].holds, inbox[c])
        /\ UpTo(book.seq, seen[c], 0, send[c], client[c].holds, inbox[c])
        /\ Newest(due[c], client[c].holds, inbox[c]) /\ book.seq \in Nat /\ due[c] \in Nat
        /\ client[c].socket /\ ~down => OnItsWay(due[c], seen[c], 0, send[c], client[c].holds, inbox[c])
    BY <1>2 DEF FInv, Own, Way, Publishing, Newest
  <2> QED BY <1>1, <2>1, Given
<1> HIDE DEF w, T
<1>5. /\ DOMAIN client'[c] = ClientFields /\ client'[c].writes = w /\ client'[c].writer = "write"
      /\ client'[c].holds = client[c].holds /\ client'[c].socket = client[c].socket
      /\ client'[c].request = "done" /\ client'[c].forwarder = client[c].forwarder /\ client'[c].reader = client[c].reader
  BY <1>2, <1>3 DEF ClientFields
<1>6. Shape(c)'
  BY <1>1, <1>4, <1>5 DEF FInv, Own, Shape
<1>7. Way(c)'
  BY <1>1, <1>3, <1>4, <1>5 DEF Way
<1>8. Behind(c)'
  BY <1>1, <1>5 DEF FInv, Own, Behind
<1>9. PerBrowser'
  BY <1>1, <1>3 DEF FInv, PerBrowser
<1> QED BY <1>1, <1>3, <1>6, <1>7, <1>8, <1>9, OthersKeep DEF Own

LEMMA WriteStep ==
  ASSUME FInv, ~down, UNCHANGED Fanout!bookVars, NEW c \in Browsers, Fanout!Write(c)
  PROVE  FInv'
<1> DEFINE w == client[c].writes
<1>1. /\ client[c].writer = "write"
      /\ UNCHANGED <<hub, subscribers, inbox, send, due, down, book, feed, rows>>
      /\ \/ /\ seen' = [seen EXCEPT ![c] = w]
            /\ client' = [client EXCEPT ![c].writer = "wait", ![c].writes = 0]
         \/ /\ seen' = seen
            /\ client' = [client EXCEPT ![c].writer = "done", ![c].writes = 0, ![c].socket = FALSE]
  BY DEF Fanout!Write, Fanout!bookVars
<1>2. w # 0 /\ DOMAIN client[c] = ClientFields /\ client[c].request = "done" /\ DOMAIN client = Browsers /\ DOMAIN seen = Browsers
  BY <1>1 DEF FInv, PerBrowser, Own, Shape
<1>3. /\ InPipe(seen[c], w, send[c], client[c].holds, inbox[c])
      /\ UpTo(book.seq, seen[c], w, send[c], client[c].holds, inbox[c])
      /\ Newest(due[c], client[c].holds, inbox[c]) /\ book.seq \in Nat /\ due[c] \in Nat
      /\ client[c].socket /\ ~down => OnItsWay(due[c], seen[c], w, send[c], client[c].holds, inbox[c])
  BY DEF FInv, Own, Way, Publishing, Newest
<1> HIDE DEF w
<1>4. CASE /\ seen' = [seen EXCEPT ![c] = w]
           /\ client' = [client EXCEPT ![c].writer = "wait", ![c].writes = 0]
  <2>1. /\ DOMAIN client' = Browsers /\ \A b \in Browsers \ {c} : client'[b] = client[b]
        /\ client'[c] = [client[c] EXCEPT !.writer = "wait", !.writes = 0]
        /\ DOMAIN seen' = Browsers /\ seen'[c] = w /\ \A b \in Browsers \ {c} : seen'[b] = seen[b]
    BY <1>2, <1>4
  <2>2. /\ DOMAIN client'[c] = ClientFields /\ client'[c].writes = 0 /\ client'[c].writer = "wait"
        /\ client'[c].holds = client[c].holds /\ client'[c].socket = client[c].socket
        /\ client'[c].request = "done" /\ client'[c].forwarder = client[c].forwarder /\ client'[c].reader = client[c].reader
    BY <1>2, <2>1 DEF ClientFields
  <2>3. /\ InPipe(w, 0, send[c], client[c].holds, inbox[c])
        /\ UpTo(book.seq, w, 0, send[c], client[c].holds, inbox[c])
        /\ client[c].socket /\ ~down => OnItsWay(due[c], w, 0, send[c], client[c].holds, inbox[c])
    BY <1>2, <1>3, Written
  <2>4. Shape(c)'
    BY <1>1, <2>2 DEF FInv, Own, Shape
  <2>5. Way(c)'
    BY <1>1, <1>3, <2>1, <2>2, <2>3 DEF Way
  <2>6. Behind(c)'
    BY <1>1, <2>2 DEF FInv, Own, Behind
  <2>7. PerBrowser'
    BY <1>1, <2>1 DEF FInv, PerBrowser
  <2> QED BY <1>1, <2>1, <2>4, <2>5, <2>6, <2>7, OthersKeep DEF Own
<1>5. CASE /\ seen' = seen
           /\ client' = [client EXCEPT ![c].writer = "done", ![c].writes = 0, ![c].socket = FALSE]
  <2>1. /\ DOMAIN client' = Browsers /\ \A b \in Browsers \ {c} : client'[b] = client[b]
        /\ client'[c] = [client[c] EXCEPT !.writer = "done", !.writes = 0, !.socket = FALSE]
    BY <1>2, <1>5
  <2>2. /\ DOMAIN client'[c] = ClientFields /\ client'[c].writes = 0 /\ client'[c].writer = "done"
        /\ client'[c].holds = client[c].holds /\ client'[c].socket = FALSE
        /\ client'[c].request = "done" /\ client'[c].forwarder = client[c].forwarder /\ client'[c].reader = client[c].reader
    BY <1>2, <2>1 DEF ClientFields
  <2>3. /\ InPipe(seen[c], 0, send[c], client[c].holds, inbox[c])
        /\ UpTo(book.seq, seen[c], 0, send[c], client[c].holds, inbox[c])
    BY <1>3, Unwritten
  <2>4. Shape(c)'
    BY <1>1, <2>2 DEF FInv, Own, Shape
  <2>5. Way(c)'
    BY <1>1, <1>3, <1>5, <2>2, <2>3 DEF Way
  <2>6. Behind(c)'
    BY <1>1, <2>2 DEF FInv, Own, Behind
  <2>7. PerBrowser'
    BY <1>1, <1>5, <2>1 DEF FInv, PerBrowser
  <2> QED BY <1>1, <1>5, <2>1, <2>4, <2>5, <2>6, <2>7, OthersKeep DEF Own
<1> QED BY <1>1, <1>4, <1>5

LEMMA FanoutStep == ASSUME FInv, [Fanout!FanoutNext]_fanAll PROVE FInv'
<1>1. CASE UNCHANGED fanAll
  BY <1>1 DEF fanAll, Fanout!bookVars, Fanout!pipeVars, Fanout!clientVars, FInv, PerBrowser, Publishing, Own, Shape, Way, Behind
<1>2. ASSUME NEW c \in Browsers, ~down, UNCHANGED Fanout!bookVars,
             Fanout!Request(c) \/ Fanout!Forwarder(c) \/ Fanout!ReadPump(c) \/ Fanout!WritePump(c)
      PROVE  FInv'
  <2>1. CASE Fanout!Request(c)
    BY <1>2, <2>1, RegisterStep, SendCurrentStep, SubscribeBrowserStep DEF Fanout!Request
  <2>2. CASE Fanout!Forwarder(c)
    BY <1>2, <2>2, ReceiveStep, ForwardStep, GoroutineStep DEF Fanout!Forwarder
  <2>3. CASE Fanout!ReadPump(c)
    BY <1>2, <2>3, PongStep, GoroutineStep DEF Fanout!ReadPump
  <2>4. CASE Fanout!WritePump(c)
    BY <1>2, <2>4, TakeStep, WriteStep, GoroutineStep DEF Fanout!WritePump
  <2> QED BY <1>2, <2>1, <2>2, <2>3, <2>4
<1>3. CASE Fanout!FanoutNext
  BY <1>2, <1>3, PublishStep, NotifyStep DEF Fanout!FanoutNext
<1> QED BY <1>1, <1>3

---------------------------------------------------------------------------
\* What the pipe is, put end to end.
Ascends(s) == \A i, j \in 1..Len(s) : i <= j => s[i] <= s[j]
Ahead(s, t) == \A i \in 1..Len(s), j \in 1..Len(t) : s[i] <= t[j]

LEMMA Joined ==
  ASSUME NEW s \in Seq(Nat), NEW t \in Seq(Nat), Ascends(s), Ascends(t), Ahead(s, t)
  PROVE  /\ s \o t \in Seq(Nat) /\ Ascends(s \o t)
         /\ \A k \in 1..Len(s \o t) : \/ \E i \in 1..Len(s) : (s \o t)[k] = s[i]
                                      \/ \E j \in 1..Len(t) : (s \o t)[k] = t[j]
         /\ \A i \in 1..Len(s) : \E k \in 1..Len(s \o t) : (s \o t)[k] = s[i]
         /\ \A j \in 1..Len(t) : \E k \in 1..Len(s \o t) : (s \o t)[k] = t[j]
<1> DEFINE p == s \o t
<1>1. /\ p \in Seq(Nat) /\ Len(p) = Len(s) + Len(t) /\ Len(s) \in Nat /\ Len(t) \in Nat
      /\ \A k \in 1..Len(p) : p[k] = IF k <= Len(s) THEN s[k] ELSE t[k - Len(s)]
  OBVIOUS
<1> HIDE DEF p
<1>2. /\ \A k \in 1..Len(p) : IF k <= Len(s) THEN k \in 1..Len(s) /\ p[k] = s[k]
                              ELSE k - Len(s) \in 1..Len(t) /\ p[k] = t[k - Len(s)]
      /\ \A i \in 1..Len(s) : i \in 1..Len(p) /\ p[i] = s[i]
      /\ \A j \in 1..Len(t) : j + Len(s) \in 1..Len(p) /\ p[j + Len(s)] = t[j]
  <2>1. \A j \in 1..Len(t) : j + Len(s) \in 1..Len(p) /\ ~(j + Len(s) <= Len(s)) /\ (j + Len(s)) - Len(s) = j
    BY <1>1
  <2>2. ASSUME NEW k \in 1..Len(p)
        PROVE  IF k <= Len(s) THEN k \in 1..Len(s) /\ p[k] = s[k]
               ELSE k - Len(s) \in 1..Len(t) /\ p[k] = t[k - Len(s)]
    <3>1. k \in Int /\ IF k <= Len(s) THEN k \in 1..Len(s) ELSE k - Len(s) \in 1..Len(t)
      BY <1>1
    <3>2. p[k] = IF k <= Len(s) THEN s[k] ELSE t[k - Len(s)]
      BY <1>1
    <3> QED BY <3>1, <3>2
  <2>3. ASSUME NEW i \in 1..Len(s) PROVE i \in 1..Len(p) /\ p[i] = s[i]
    <3>1. i \in 1..Len(p) /\ i <= Len(s)
      BY <1>1
    <3> QED BY <1>1, <3>1
  <2>4. ASSUME NEW j \in 1..Len(t) PROVE j + Len(s) \in 1..Len(p) /\ p[j + Len(s)] = t[j]
    <3>1. p[j + Len(s)] = t[(j + Len(s)) - Len(s)]
      BY <1>1, <2>1
    <3> QED BY <2>1, <3>1
  <2> QED BY <2>2, <2>3, <2>4
<1>3. \A i, j \in 1..Len(p) : i <= j => p[i] <= p[j]
  <2> TAKE i, j \in 1..Len(p)
  <2> HAVE i <= j
  <2>1. CASE j <= Len(s)
    <3>1. i \in 1..Len(s) /\ j \in 1..Len(s) /\ p[i] = s[i] /\ p[j] = s[j]
      BY <1>1, <1>2, <2>1
    <3> QED BY <3>1 DEF Ascends
  <2>2. CASE ~(j <= Len(s)) /\ i <= Len(s)
    <3>1. i \in 1..Len(s) /\ j - Len(s) \in 1..Len(t) /\ p[i] = s[i] /\ p[j] = t[j - Len(s)]
      BY <1>2, <2>2
    <3> QED BY <3>1 DEF Ahead
  <2>3. CASE ~(j <= Len(s)) /\ ~(i <= Len(s))
    <3>1. i - Len(s) \in 1..Len(t) /\ j - Len(s) \in 1..Len(t) /\ p[i] = t[i - Len(s)] /\ p[j] = t[j - Len(s)]
      BY <1>2, <2>3
    <3>2. i - Len(s) <= j - Len(s)
      BY <1>1
    <3> QED BY <3>1, <3>2 DEF Ascends
  <2> QED BY <2>1, <2>2, <2>3
<1>4. \A k \in 1..Len(p) : (\E i \in 1..Len(s) : p[k] = s[i]) \/ (\E j \in 1..Len(t) : p[k] = t[j])
  BY <1>2
<1>5. /\ \A i \in 1..Len(s) : \E k \in 1..Len(p) : p[k] = s[i]
      /\ \A j \in 1..Len(t) : \E k \in 1..Len(p) : p[k] = t[j]
  BY <1>2
<1> QED BY <1>1, <1>3, <1>4, <1>5 DEF p, Ascends

\* What both parts are ahead of, the whole is.
LEMMA JoinedAhead ==
  ASSUME NEW r, NEW s \in Seq(Nat), NEW t \in Seq(Nat), Ascends(s), Ascends(t), Ahead(s, t), Ahead(s, r), Ahead(t, r)
  PROVE  Ahead(s \o t, r)
<1> DEFINE p == s \o t
<1>1. \A k \in 1..Len(p) : (\E i \in 1..Len(s) : p[k] = s[i]) \/ (\E j \in 1..Len(t) : p[k] = t[j])
  BY Joined
<1> HIDE DEF p
<1>2. ASSUME NEW k \in 1..Len(p), NEW j \in 1..Len(r) PROVE p[k] <= r[j]
  <2>1. CASE \E i \in 1..Len(s) : p[k] = s[i]
    BY <2>1 DEF Ahead
  <2>2. CASE \E i \in 1..Len(t) : p[k] = t[i]
    BY <2>2 DEF Ahead
  <2> QED BY <1>1, <2>1, <2>2
<1>3. Ahead(p, r)
  BY <1>2 DEF Ahead
<1> QED BY <1>3 DEF p

LEMMA BrowsersFollowNow == ASSUME FInv PROVE Fanout!BrowsersFollow
<1> SUFFICES ASSUME NEW c \in Browsers
    PROVE LET p == Fanout!Pipe(c) IN
      /\ \A i, j \in DOMAIN p : i <= j => p[i] <= p[j]
      /\ (client[c].socket /\ ~down /\ due[c] # 0) => p # <<>> /\ p[Len(p)] >= due[c]
      /\ Fanout!Done(c) => c \notin hub \cup subscribers
  BY DEF Fanout!BrowsersFollow
<1> DEFINE x == seen[c]
           w == client[c].writes
           S == send[c]
           h == client[c].holds
           B == inbox[c]
           d == due[c]
<1>1. /\ InPipe(x, w, S, h, B) /\ d \in Nat
      /\ client[c].socket /\ ~down => OnItsWay(d, x, w, S, h, B)
  BY DEF FInv, Own, Way, Newest
<1>2. Fanout!Done(c) => c \notin hub \cup subscribers
  BY DEF FInv, Own, Shape, Fanout!Done
<1>3. Fanout!Pipe(c) = Fanout!Some(x) \o Fanout!Some(w) \o S \o Fanout!Some(h) \o B
  BY DEF Fanout!Pipe
<1> HIDE DEF x, w, S, h, B, d
<1> DEFINE X == Fanout!Some(x)
           W == Fanout!Some(w)
           H == Fanout!Some(h)
<1>4. ASSUME NEW n \in Nat, NEW N, N = Fanout!Some(n)
      PROVE  /\ N \in Seq(Nat) /\ Ascends(N)
             /\ n = 0 => Len(N) = 0
             /\ n # 0 => Len(N) = 1 /\ N[1] = n
  <2>1. CASE n = 0
    <3>1. N = <<>>
      BY <1>4, <2>1 DEF Fanout!Some
    <3> QED BY <2>1, <3>1 DEF Ascends
  <2>2. CASE n # 0
    <3>1. N = <<n>>
      BY <1>4, <2>2 DEF Fanout!Some
    <3>2. N \in Seq(Nat) /\ Len(N) = 1 /\ N[1] = n
      BY <3>1
    <3>3. \A i \in 1..Len(N) : i = 1
      BY <3>2
    <3> QED BY <2>2, <3>2, <3>3 DEF Ascends
  <2> QED BY <2>1, <2>2
<1>5. /\ x \in Nat /\ w \in Nat /\ h \in Nat
      /\ \A i \in 1..Len(S) : S[i] \in Nat /\ \A j \in 1..Len(B) : B[j] \in Nat
  BY <1>1 DEF InPipe, Numbers
<1>6. /\ S \in Seq(Nat) /\ B \in Seq(Nat) /\ Ascends(S) /\ Ascends(B) /\ Ahead(S, B)
      /\ \A j \in 1..Len(B) : B[j] \in Nat
  <2>1. S \in Seq(Numbers) /\ B \in Seq(Numbers)
    BY <1>1 DEF InPipe
  <2>2. S \in Seq(Nat) /\ B \in Seq(Nat) /\ \A j \in 1..Len(B) : B[j] \in Nat
    BY <2>1 DEF Numbers
  <2>3. \A j, k \in 1..Len(B) : j <= k => B[j] <= B[k]
    <3> TAKE j, k \in 1..Len(B)
    <3> HAVE j <= k
    <3>1. j = k \/ j < k
      BY <2>2
    <3>2. j < k => B[j] < B[k]
      BY <1>1 DEF InPipe
    <3> QED BY <2>2, <3>1, <3>2
  <2> QED BY <1>1, <2>2, <2>3 DEF Ascends, Ahead, InPipe
<1>7. /\ X \in Seq(Nat) /\ Ascends(X) /\ (x = 0 => Len(X) = 0) /\ (x # 0 => Len(X) = 1 /\ X[1] = x)
      /\ W \in Seq(Nat) /\ Ascends(W) /\ (w = 0 => Len(W) = 0) /\ (w # 0 => Len(W) = 1 /\ W[1] = w)
      /\ H \in Seq(Nat) /\ Ascends(H) /\ (h = 0 => Len(H) = 0) /\ (h # 0 => Len(H) = 1 /\ H[1] = h)
  BY <1>4, <1>5
<1> HIDE DEF X, W, H
<1>8. Ahead(X, W) /\ Ahead(X, S) /\ Ahead(X, H) /\ Ahead(X, B)
  <2>1. \A i \in 1..Len(X) : x # 0 /\ X[i] = x
    BY <1>5, <1>7
  <2>2. \A i \in 1..Len(W) : w # 0 /\ W[i] = w
    BY <1>5, <1>7
  <2>3. \A i \in 1..Len(H) : h # 0 /\ H[i] = h
    BY <1>5, <1>7
  <2> QED BY <1>1, <2>1, <2>2, <2>3 DEF Ahead, InPipe
<1>9. Ahead(W, S) /\ Ahead(W, H) /\ Ahead(W, B)
  <2>2. \A i \in 1..Len(W) : w # 0 /\ W[i] = w
    BY <1>5, <1>7
  <2>3. \A i \in 1..Len(H) : h # 0 /\ H[i] = h
    BY <1>5, <1>7
  <2> QED BY <1>1, <2>2, <2>3 DEF Ahead, InPipe
<1>10. Ahead(S, H) /\ Ahead(H, B)
  <2>3. \A i \in 1..Len(H) : h # 0 /\ H[i] = h
    BY <1>5, <1>7
  <2>4. \A j \in 1..Len(B) : h <= B[j]
    BY <1>1, <1>5, <1>6 DEF InPipe
  <2> QED BY <1>1, <2>3, <2>4 DEF Ahead, InPipe
<1> DEFINE p1 == X \o W
           p2 == p1 \o S
           p3 == p2 \o H
           p4 == p3 \o B
<1>11. p1 \in Seq(Nat) /\ Ascends(p1) /\ Ahead(p1, S) /\ Ahead(p1, H) /\ Ahead(p1, B)
  BY <1>7, <1>8, <1>9, Joined, JoinedAhead
<1>12. /\ x # 0 => \E k \in 1..Len(p1) : p1[k] = x
       /\ w # 0 => \E k \in 1..Len(p1) : p1[k] = w
  <2>1. (x # 0 => 1 \in 1..Len(X) /\ X[1] = x) /\ (w # 0 => 1 \in 1..Len(W) /\ W[1] = w)
    BY <1>7
  <2> QED BY <1>7, <1>8, <2>1, Joined
<1> HIDE DEF p1
<1>13. p2 \in Seq(Nat) /\ Ascends(p2) /\ Ahead(p2, H) /\ Ahead(p2, B)
  BY <1>6, <1>10, <1>11, Joined, JoinedAhead
<1>14. /\ \A k \in 1..Len(p1) : \E l \in 1..Len(p2) : p2[l] = p1[k]
       /\ \A k \in 1..Len(S) : \E l \in 1..Len(p2) : p2[l] = S[k]
  BY <1>6, <1>11, Joined
<1> HIDE DEF p2
<1>15. p3 \in Seq(Nat) /\ Ascends(p3) /\ Ahead(p3, B)
  BY <1>7, <1>10, <1>13, Joined, JoinedAhead
<1>16. /\ \A k \in 1..Len(p2) : \E l \in 1..Len(p3) : p3[l] = p2[k]
       /\ h # 0 => \E l \in 1..Len(p3) : p3[l] = h
  <2>1. h # 0 => 1 \in 1..Len(H) /\ H[1] = h
    BY <1>7
  <2>2. /\ \A k \in 1..Len(p2) : \E l \in 1..Len(p3) : p3[l] = p2[k]
        /\ \A k \in 1..Len(H) : \E l \in 1..Len(p3) : p3[l] = H[k]
    BY <1>7, <1>13, Joined
  <2> HIDE DEF p3
  <2> QED BY <2>1, <2>2
<1> HIDE DEF p3
<1>17. p4 \in Seq(Nat) /\ Ascends(p4)
  BY <1>6, <1>15, Joined
<1>18. /\ \A k \in 1..Len(p3) : \E l \in 1..Len(p4) : p4[l] = p3[k]
       /\ \A k \in 1..Len(B) : \E l \in 1..Len(p4) : p4[l] = B[k]
  BY <1>6, <1>15, Joined
<1>19. Fanout!Pipe(c) = p4
  BY <1>3 DEF p1, p2, p3, X, W, H
<1> HIDE DEF p4
<1>20. ASSUME client[c].socket, ~down, d # 0
       PROVE  p4 # <<>> /\ p4[Len(p4)] >= d
  <2>1. \A k \in 1..Len(p2) : \E l \in 1..Len(p4) : p4[l] = p2[k]
    <3> TAKE k \in 1..Len(p2)
    <3>1. PICK m \in 1..Len(p3) : p3[m] = p2[k]
      BY <1>16
    <3>2. PICK l \in 1..Len(p4) : p4[l] = p3[m]
      BY <1>18
    <3> QED BY <3>1, <3>2
  <2>2. \A k \in 1..Len(p1) : \E l \in 1..Len(p4) : p4[l] = p1[k]
    <3> TAKE k \in 1..Len(p1)
    <3>1. PICK m \in 1..Len(p2) : p2[m] = p1[k]
      BY <1>14
    <3>2. PICK l \in 1..Len(p4) : p4[l] = p2[m]
      BY <2>1
    <3> QED BY <3>1, <3>2
  <2>3. PICK e \in Nat : d <= e /\ \E l \in 1..Len(p4) : p4[l] = e
    <3>1. OnItsWay(d, x, w, S, h, B)
      BY <1>1, <1>20
    <3>2. CASE d <= x
      <4>1. x # 0
        BY <1>1, <1>20, <3>2
      <4>2. PICK k1 \in 1..Len(p1) : p1[k1] = x
        BY <1>12, <4>1
      <4> QED BY <1>5, <3>2, <4>2, <2>2
    <3>3. CASE d <= w
      <4>1. w # 0
        BY <1>1, <1>20, <3>3
      <4>2. PICK k1 \in 1..Len(p1) : p1[k1] = w
        BY <1>12, <4>1
      <4> QED BY <1>5, <3>3, <4>2, <2>2
    <3>4. CASE d <= h
      <4>1. h # 0
        BY <1>1, <1>20, <3>4
      <4> QED BY <1>5, <1>16, <1>18, <3>4, <4>1
    <3>5. CASE \E i \in 1..Len(S) : d <= S[i]
      <4>1. PICK i \in 1..Len(S) : d <= S[i]
        BY <3>5
      <4>2. PICK k2 \in 1..Len(p2) : p2[k2] = S[i]
        BY <1>14
      <4> QED BY <1>5, <4>1, <4>2, <2>1
    <3>6. CASE \E j \in 1..Len(B) : d <= B[j]
      BY <1>6, <1>18, <3>6
    <3> QED BY <1>20, <3>1, <3>2, <3>3, <3>4, <3>5, <3>6 DEF OnItsWay
  <2>4. PICK l \in 1..Len(p4) : p4[l] = e
    BY <2>3
  <2>5. Len(p4) \in 1..Len(p4) /\ l <= Len(p4) /\ p4 # <<>> /\ p4[Len(p4)] \in Nat
    BY <1>17, <2>4
  <2>6. p4[l] <= p4[Len(p4)]
    BY <1>17, <2>5 DEF Ascends
  <2> QED BY <1>1, <2>3, <2>4, <2>5, <2>6
<1>21. \A i, j \in DOMAIN p4 : i <= j => p4[i] <= p4[j]
  <2>1. DOMAIN p4 = 1..Len(p4)
    BY <1>17
  <2> QED BY <1>17, <2>1 DEF Ascends
<1> QED BY <1>2, <1>19, <1>20, <1>21 DEF d

LEMMA ToldIsStoredNow == ASSUME FInv PROVE Fanout!ToldIsStored
<1>1. ASSUME NEW c \in Browsers PROVE \A i \in DOMAIN inbox[c] : inbox[c][i] \in rows
  <2>1. inbox[c] \in Seq(Numbers)
    BY DEF FInv, Own, Way, InPipe
  <2>2. DOMAIN inbox[c] = 1..Len(inbox[c])
    BY <2>1
  <2> QED BY <2>2 DEF FInv, Own, Behind
<1>2. ASSUME Fanout!IsTradable
      PROVE  Fanout!GetDepth(10) = Fanout!RespondSuccess /\ Fanout!GetHealth \in {"HEALTHY", "STALE"}
  <2>1. book.state = "HEALTHY" /\ book.seq # 0
    BY <1>2 DEF Fanout!IsTradable, FInv, Publishing
  <2>2. Fanout!GetDepth(10) = Fanout!RespondSuccess
    BY <2>1 DEF Fanout!GetDepth
  <2> QED BY <2>1, <2>2 DEF Fanout!GetHealth
<1> QED BY <1>1, <1>2 DEF Fanout!ToldIsStored

---------------------------------------------------------------------------
\* A subscription is ACTIVE only while its socket is served and the indexes name
\* it, an answer and a wait never go back, and a browser follows its book: for any
\* sockets, markets and browsers, buffers of any size, and any number of rows,
\* retries and changes of the book.
THEOREM MarketIsFollowed == Market!Spec /\ Fanout!Spec => []MarketHolds
<1>1. SInv => Market!SubscriptionsHold
  BY HeardNow, NeverBackNow DEF Market!SubscriptionsHold
<1>2. Market!Spec => []SInv
  <2>1. Market!Spec => Market!Init /\ [][Market!SocketNext]_vars
    BY DEF Market!Spec, vars
  <2> QED BY <2>1, MarketStarts, MarketStep, PTL
<1>3. FInv => Fanout!FanoutHolds
  BY BrowsersFollowNow, ToldIsStoredNow DEF Fanout!FanoutHolds
<1>4. Fanout!Spec => []FInv
  <2>1. Fanout!Spec => Fanout!Init /\ [][Fanout!FanoutNext]_fanAll
    BY DEF Fanout!Spec, fanAll
  <2> QED BY <2>1, FanoutStarts, FanoutStep, PTL
<1>5. Market!SubscriptionsHold /\ Fanout!FanoutHolds => MarketHolds
  BY DEF MarketHolds
<1> QED BY <1>1, <1>2, <1>3, <1>4, <1>5, PTL

---------------------------------------------------------------------------
(* The collector of the funding board.                                     *)

Lines(v) == DOMAIN Board!Listed(v)
Base(v, i) == Board!Listed(v)[i].base
Symbol(v, i) == Board!Listed(v)[i].symbol

LEMMA LinesAre == ASSUME NEW v \in Venues PROVE Lines(v) \subseteq Nat \ {0}
<1>1. DOMAIN Listings[v] \subseteq Nat \ {0}
  BY BoardAssumption DEF Board!BoardAssumption
<1>2. DOMAIN Board!CollectBinance(Listings[v]) \subseteq DOMAIN Listings[v]
  BY DEF Board!CollectBinance, Board!FetchAllFunding, Board!FetchPerpSymbols
<1>3. DOMAIN Board!CollectExtended(Listings[v]) \subseteq DOMAIN Listings[v]
  BY DEF Board!CollectExtended, Board!FetchAllMarkets
<1>4. DOMAIN Board!CollectVariational(Listings[v]) \subseteq DOMAIN Listings[v]
  BY DEF Board!CollectVariational
<1>5. DOMAIN Board!CollectHyperliquid(Listings[v]) \subseteq DOMAIN Listings[v]
  BY DEF Board!CollectHyperliquid, Board!FetchUniverse
<1> QED BY <1>1, <1>2, <1>3, <1>4, <1>5 DEF Board!Listed, Lines

LEMMA OneToken ==
  ASSUME NEW v \in Venues, NEW i \in Lines(v), NEW j \in Lines(v), Symbol(v, i) = Symbol(v, j)
  PROVE  Base(v, i) = Base(v, j)
BY BoardAssumption DEF Board!BoardAssumption, Lines, Symbol, Base

CollectorFields == {"pc", "item", "reading", "inst", "lost"}
InHand == {"map", "create", "link", "store"}
IsInst(x) == x = <<x[1], x[2]>> /\ x[2] \notin Board!StableCoins
\* The rows of its venue that a goroutine is done with, and what it left of each.
Past(c, v) == {i \in Lines(v) : c.pc = "drop" \/ i < c.item}
Kept(c, I, R, v, i) == \E inst \in I :
  /\ inst[1] = Base(v, i) /\ <<v, inst>> \in DOMAIN R
  /\ (\A j \in Past(c, v) : j > i => Base(v, j) # Base(v, i))
       => R[<<v, inst>>].rate = c.reading[i] /\ R[<<v, inst>>].age < 2
Goes(c, I, R, v) ==
  /\ DOMAIN c = CollectorFields
  /\ c.pc \in InHand \cup {"rest", "fetch", "drop"}
  /\ c.pc \in InHand => c.item \in Lines(v)
  /\ c.pc \in {"create", "link", "store"} => c.inst[1] = Base(v, c.item)
  /\ c.pc = "create" => IsInst(c.inst)
  /\ c.pc \in {"link", "store"} => c.inst \in I
  /\ c.pc \notin {"rest", "fetch"} => \A i \in Past(c, v) : i \in c.lost \/ Kept(c, I, R, v, i)
Tables ==
  /\ \A x \in instruments : IsInst(x)
  /\ IsFiniteSet(mapping)
  /\ \A m \in mapping : m[3] \in instruments
       /\ \A i \in Lines(m[1]) : Symbol(m[1], i) = m[2] => m[3][1] = Base(m[1], i)
  /\ \A k \in DOMAIN rates : DOMAIN rates[k] = {"rate", "mark", "age"} /\ rates[k].age \in 0..2
CInv == DOMAIN collector = Venues /\ Tables /\ \A v \in Venues : Goes(collector[v], instruments, rates, v)

\* The rows of a venue in one table are in another.
Holds(R, S, v) == \A x : <<v, x>> \in DOMAIN R => <<v, x>> \in DOMAIN S /\ S[<<v, x>>] = R[<<v, x>>]

LEMMA GoesOn ==
  ASSUME NEW c, NEW I, NEW R, NEW J, NEW S, NEW v, Goes(c, I, R, v), I \subseteq J, Holds(R, S, v)
  PROVE  Goes(c, J, S, v)
<1>1. ASSUME NEW i, Kept(c, I, R, v, i) PROVE Kept(c, J, S, v, i)
  BY <1>1 DEF Kept, Holds
<1> QED BY <1>1 DEF Goes

\* The least of the rows that are left, or the invalidation: one row more is past.
LEMMA NextIs ==
  ASSUME NEW v \in Venues, NEW c, c.item \in Nat, DOMAIN c = CollectorFields
  PROVE  \E d : /\ d = Board!NextItem(v, c) /\ DOMAIN d = CollectorFields /\ d.pc \in {"map", "drop"}
                /\ (d.pc = "map" => d.item \in Lines(v))
                /\ d.lost = c.lost /\ d.reading = c.reading
                /\ Past(d, v) = {i \in Lines(v) : i <= c.item}
<1> DEFINE left == {i \in Lines(v) : i > c.item}
<1>0. Lines(v) \subseteq Nat
  BY LinesAre
<1>1. CASE left = {}
  <2>1. Board!NextItem(v, c) = [c EXCEPT !.pc = "drop"]
    BY <1>1 DEF Board!NextItem, Lines
  <2>2. \A i \in Lines(v) : i <= c.item
    BY <1>0, <1>1
  <2> HIDE DEF left
  <2> QED BY <2>1, <2>2 DEF Past, CollectorFields
<1>2. CASE left # {}
  <2> DEFINE n == CHOOSE i \in left : \A j \in left : i <= j
  <2>1. \E i \in left : \A j \in left : i <= j
    <3>1. left \in SUBSET Nat
      BY <1>0
    <3> HIDE DEF left
    <3> QED BY <1>2, <3>1, LeastExists
  <2>2. n \in left /\ \A j \in left : n <= j
    <3> HIDE DEF left
    <3> QED BY <2>1
  <2>3. Board!NextItem(v, c) = [c EXCEPT !.item = n, !.pc = "map"]
    BY <1>2 DEF Board!NextItem, Lines
  <2>4. n \in Lines(v) /\ c.item < n /\ \A j \in Lines(v) : j > c.item => n <= j
    BY <2>2
  <2> HIDE DEF left, n
  <2>5. \A j \in Lines(v) : j < n <=> j <= c.item
    BY <1>0, <2>4
  <2>6. PICK d : d = [c EXCEPT !.item = n, !.pc = "map"]
    OBVIOUS
  <2>7. DOMAIN d = CollectorFields /\ d.pc = "map" /\ d.item = n /\ d.lost = c.lost /\ d.reading = c.reading
    BY <2>6 DEF CollectorFields
  <2>8. Past(d, v) = {i \in Lines(v) : i <= c.item}
    BY <2>5, <2>7 DEF Past
  <2> QED BY <2>3, <2>4, <2>6, <2>7, <2>8
<1> QED BY <1>1, <1>2

\* The goroutine of one venue steps, and the rows of the others stay.
LEMMA OneGoes ==
  ASSUME CInv, NEW v \in Venues, NEW d, collector' = [collector EXCEPT ![v] = d],
         Goes(d, instruments', rates', v), Tables', instruments \subseteq instruments',
         \A u \in Venues : u # v => Holds(rates, rates', u)
  PROVE  CInv'
<1>1. DOMAIN collector' = Venues
  BY DEF CInv
<1>2. ASSUME NEW u \in Venues PROVE Goes(collector'[u], instruments', rates', u)
  <2>1. CASE u = v
    BY <2>1 DEF CInv
  <2>2. CASE u # v
    BY <2>2, GoesOn DEF CInv
  <2> QED BY <2>1, <2>2
<1> QED BY <1>1, <1>2 DEF CInv

LEMMA TablesKeep ==
  ASSUME Tables, UNCHANGED <<instruments, mapping, rates>>
  PROVE  Tables'
BY DEF Tables

LEMMA CollectorStarts == Board!Init => CInv
<1> SUFFICES ASSUME Board!Init PROVE CInv
  OBVIOUS
<1>1. /\ instruments = {} /\ mapping = {} /\ rates = [k \in {} |-> <<>>]
      /\ collector = [v \in Venues |-> Board!Resting]
  BY DEF Board!Init, Board!TablesEmpty
<1>2. Tables
  BY <1>1, FS_EmptySet DEF Tables
<1>3. ASSUME NEW v \in Venues PROVE Goes(collector[v], instruments, rates, v)
  BY <1>1 DEF Goes, Board!Resting, CollectorFields, InHand
<1> QED BY <1>1, <1>2, <1>3 DEF CInv

LEMMA CycleStep == ASSUME CInv, Board!Cycle PROVE CInv'
<1>1. /\ collector' = [v \in Venues |-> [collector[v] EXCEPT !.pc = "fetch"]]
      /\ UNCHANGED <<instruments, mapping, rates>>
  BY DEF Board!Cycle
<1>2. ASSUME NEW v \in Venues PROVE Goes(collector'[v], instruments', rates', v)
  <2>1. DOMAIN collector[v] = CollectorFields
    BY DEF CInv, Goes
  <2>2. collector'[v].pc = "fetch" /\ DOMAIN collector'[v] = CollectorFields
    BY <1>1, <2>1 DEF CollectorFields
  <2> QED BY <2>2 DEF Goes, InHand
<1>3. Tables'
  BY <1>1, TablesKeep DEF CInv
<1> QED BY <1>1, <1>2, <1>3 DEF CInv

LEMMA FetchStep == ASSUME CInv, NEW v \in Venues, Board!Fetch(v) PROVE CInv'
<1>1. UNCHANGED <<instruments, mapping, rates>>
  BY DEF Board!Fetch
<1>2. Tables' /\ instruments \subseteq instruments' /\ \A u \in Venues : Holds(rates, rates', u)
  BY <1>1, TablesKeep DEF CInv, Holds
<1>3. CASE \E reading \in [DOMAIN Board!Listed(v) -> Rates] :
             collector' = [collector EXCEPT ![v] = Board!NextItem(v, [Board!Resting EXCEPT !.reading = reading])]
  <2>1. PICK reading : collector' = [collector EXCEPT ![v] = Board!NextItem(v, [Board!Resting EXCEPT !.reading = reading])]
    BY <1>3
  <2>2. PICK c : c = [Board!Resting EXCEPT !.reading = reading]
    OBVIOUS
  <2>3. c.item = 0 /\ DOMAIN c = CollectorFields
    BY <2>2 DEF Board!Resting, CollectorFields
  <2>4. PICK d : /\ d = Board!NextItem(v, c) /\ DOMAIN d = CollectorFields /\ d.pc \in {"map", "drop"}
                 /\ (d.pc = "map" => d.item \in Lines(v))
                 /\ Past(d, v) = {i \in Lines(v) : i <= c.item}
    BY <2>3, NextIs
  <2>5. Past(d, v) = {}
    BY <2>3, <2>4, LinesAre
  <2>6. Goes(d, instruments', rates', v)
    BY <2>4, <2>5 DEF Goes, InHand
  <2> QED BY <1>2, <2>1, <2>2, <2>4, <2>6, OneGoes
<1>4. CASE collector' = [collector EXCEPT ![v] = Board!Resting]
  <2>1. Goes(Board!Resting, instruments', rates', v)
    BY DEF Goes, Board!Resting, CollectorFields, InHand
  <2> QED BY <1>2, <1>4, <2>1, OneGoes
<1> QED BY <1>3, <1>4 DEF Board!Fetch

LEMMA FindMappingStep == ASSUME CInv, NEW v \in Venues, Board!FindMapping(v) PROVE CInv'
<1> DEFINE c == collector[v]
           l == Board!Item(v)
           found == Board!Mapped(v, l)
           d == [c EXCEPT !.pc = IF found # {} THEN "store" ELSE IF Board!Canonical(l) \in instruments THEN "link" ELSE "create",
                          !.inst = IF found # {} THEN (CHOOSE m \in found : TRUE)[3] ELSE Board!Canonical(l)]
<1>1. c.pc = "map" /\ UNCHANGED <<instruments, mapping, rates>>
  BY DEF Board!FindMapping
<1>2. collector' = [collector EXCEPT ![v] = d]
  BY DEF Board!FindMapping, CInv, Goes, CollectorFields
<1>3. Tables' /\ instruments \subseteq instruments' /\ \A u \in Venues : Holds(rates, rates', u)
  BY <1>1, TablesKeep DEF CInv, Holds
<1>4. DOMAIN c = CollectorFields /\ c.item \in Lines(v)
      /\ \A i \in Past(c, v) : i \in c.lost \/ Kept(c, instruments, rates, v, i)
  BY <1>1 DEF CInv, Goes, InHand
<1>5. /\ DOMAIN d = CollectorFields /\ d.item = c.item /\ d.lost = c.lost /\ d.reading = c.reading
      /\ d.pc = (IF found # {} THEN "store" ELSE IF Board!Canonical(l) \in instruments THEN "link" ELSE "create")
      /\ d.inst = IF found # {} THEN (CHOOSE m \in found : TRUE)[3] ELSE Board!Canonical(l)
  BY <1>4 DEF CollectorFields
<1>6. l.base = Base(v, c.item) /\ l.symbol = Symbol(v, c.item)
  BY DEF Board!Item, Base, Symbol
<1>7. d.inst[1] = Base(v, d.item) /\ (d.pc = "create" => IsInst(d.inst)) /\ (d.pc \in {"link", "store"} => d.inst \in instruments)
  <2>1. CASE found # {}
    <3>1. PICK m : m = CHOOSE n \in found : TRUE
      OBVIOUS
    <3>2. m \in mapping /\ m[1] = v /\ m[2] = l.symbol
      <4>1. m \in found
        BY <2>1, <3>1
      <4> QED BY <4>1 DEF Board!Mapped
    <3>3. m[3] \in instruments /\ m[3][1] = Base(v, c.item)
      BY <1>4, <1>6, <3>2 DEF CInv, Tables
    <3>4. d.inst = m[3] /\ d.pc = "store"
      BY <1>5, <2>1, <3>1
    <3> QED BY <1>5, <3>3, <3>4
  <2>2. CASE found = {}
    <3>1. d.inst = Board!Canonical(l) /\ d.pc = IF d.inst \in instruments THEN "link" ELSE "create"
      BY <1>5, <2>2
    <3>2. d.inst[1] = Base(v, d.item) /\ IsInst(d.inst)
      BY <1>5, <1>6, <3>1 DEF Board!Canonical, IsInst, Board!StableCoins
    <3> QED BY <3>1, <3>2
  <2> QED BY <2>1, <2>2
<1> HIDE DEF l, found, d
<1>8. d.pc \in {"create", "link", "store"}
  BY <1>5
<1>9. Past(d, v) = Past(c, v)
  BY <1>1, <1>5, <1>8 DEF Past
<1>10. \A i \in Past(d, v) : i \in d.lost \/ Kept(d, instruments, rates, v, i)
  BY <1>4, <1>5, <1>9 DEF Kept
<1>11. Goes(d, instruments', rates', v)
  BY <1>1, <1>4, <1>5, <1>7, <1>8, <1>10 DEF Goes, InHand
<1> QED BY <1>2, <1>3, <1>11, OneGoes

LEMMA CreateStep == ASSUME CInv, NEW v \in Venues, Board!CreateInstrument(v) PROVE CInv'
<1> DEFINE c == collector[v]
<1>1. c.pc = "create" /\ UNCHANGED <<mapping, rates>>
  BY DEF Board!CreateInstrument
<1>2. /\ DOMAIN c = CollectorFields /\ c.item \in Lines(v) /\ c.inst[1] = Base(v, c.item) /\ IsInst(c.inst)
      /\ \A i \in Past(c, v) : i \in c.lost \/ Kept(c, instruments, rates, v, i)
  BY <1>1 DEF CInv, Goes, InHand
<1>3. \A u \in Venues : Holds(rates, rates', u)
  BY <1>1 DEF Holds
<1>4. CASE c.inst \in instruments
  <2>1. PICK e : /\ e = Board!NextItem(v, c) /\ DOMAIN e = CollectorFields /\ e.pc \in {"map", "drop"}
                 /\ (e.pc = "map" => e.item \in Lines(v))
                 /\ e.lost = c.lost /\ e.reading = c.reading
                 /\ Past(e, v) = {i \in Lines(v) : i <= c.item}
    BY <1>2, LinesAre, NextIs
  <2>2. PICK d : d = [e EXCEPT !.lost = e.lost \cup {c.item}]
    OBVIOUS
  <2>3. /\ DOMAIN d = CollectorFields /\ d.pc = e.pc /\ d.item = e.item /\ d.reading = c.reading
        /\ d.lost = c.lost \cup {c.item}
    BY <2>1, <2>2 DEF CollectorFields
  <2>4. collector' = [collector EXCEPT ![v] = d] /\ instruments' = instruments
    BY <1>4, <2>1, <2>2 DEF Board!CreateInstrument
  <2>5. Past(d, v) = {i \in Lines(v) : i <= c.item}
    BY <2>1, <2>3 DEF Past
  <2>6. Past(c, v) \subseteq Past(d, v) /\ \A i \in Past(d, v) : i = c.item \/ i \in Past(c, v)
    BY <1>1, <1>2, <2>5, LinesAre DEF Past
  <2>7. \A i \in Past(d, v) : i \in d.lost \/ Kept(d, instruments, rates, v, i)
    BY <1>2, <2>3, <2>6 DEF Kept
  <2>8. Goes(d, instruments', rates', v)
    BY <1>1, <2>1, <2>3, <2>4, <2>7 DEF Goes, InHand
  <2>9. Tables'
    BY <1>1, <2>4, TablesKeep DEF CInv
  <2> QED BY <1>3, <2>4, <2>8, <2>9, OneGoes
<1>5. CASE c.inst \notin instruments
  <2>1. PICK d : d = [c EXCEPT !.pc = "link"]
    OBVIOUS
  <2>2. collector' = [collector EXCEPT ![v] = d] /\ instruments' = instruments \cup {c.inst}
    BY <1>5, <2>1 DEF Board!CreateInstrument, Board!Go, CInv
  <2>3. /\ DOMAIN d = CollectorFields /\ d.pc = "link" /\ d.item = c.item /\ d.reading = c.reading
        /\ d.lost = c.lost /\ d.inst = c.inst
    BY <1>2, <2>1 DEF CollectorFields
  <2>4. Past(d, v) = Past(c, v)
    BY <1>1, <2>3 DEF Past
  <2>5. \A i \in Past(d, v) : i \in d.lost \/ Kept(d, instruments', rates', v, i)
    BY <1>1, <1>2, <2>2, <2>3, <2>4 DEF Kept
  <2>6. Goes(d, instruments', rates', v)
    BY <1>2, <2>2, <2>3, <2>5 DEF Goes, InHand
  <2>7. Tables'
    BY <1>1, <1>2, <2>2 DEF CInv, Tables
  <2> QED BY <1>3, <2>2, <2>6, <2>7, OneGoes
<1> QED BY <1>4, <1>5

LEMMA LinkStep == ASSUME CInv, NEW v \in Venues, Board!LinkInstrument(v) PROVE CInv'
<1> DEFINE c == collector[v]
<1>1. c.pc = "link" /\ UNCHANGED <<instruments, rates>>
  BY DEF Board!LinkInstrument
<1>2. /\ DOMAIN c = CollectorFields /\ c.item \in Lines(v) /\ c.inst[1] = Base(v, c.item) /\ c.inst \in instruments
      /\ \A i \in Past(c, v) : i \in c.lost \/ Kept(c, instruments, rates, v, i)
  BY <1>1 DEF CInv, Goes, InHand
<1>3. PICK d : d = [c EXCEPT !.pc = "store"]
  OBVIOUS
<1>4. collector' = [collector EXCEPT ![v] = d]
  BY <1>3 DEF Board!LinkInstrument, Board!Go, CInv
<1>5. /\ DOMAIN d = CollectorFields /\ d.pc = "store" /\ d.item = c.item /\ d.reading = c.reading
      /\ d.lost = c.lost /\ d.inst = c.inst
  BY <1>2, <1>3 DEF CollectorFields
<1>6. Past(d, v) = Past(c, v)
  BY <1>1, <1>5 DEF Past
<1>7. \A i \in Past(d, v) : i \in d.lost \/ Kept(d, instruments, rates, v, i)
  BY <1>2, <1>5, <1>6 DEF Kept
<1>8. Goes(d, instruments', rates', v)
  BY <1>1, <1>2, <1>5, <1>7 DEF Goes, InHand
<1>9. Tables'
  <2>1. CASE mapping' = mapping
    BY <1>1, <2>1, TablesKeep DEF CInv
  <2>2. CASE mapping' = mapping \cup {<<v, Symbol(v, c.item), c.inst>>}
    <3>1. IsFiniteSet(mapping')
      BY <2>2, FS_AddElement DEF CInv, Tables
    <3>2. \A i \in Lines(v) : Symbol(v, i) = Symbol(v, c.item) => c.inst[1] = Base(v, i)
      BY <1>2, OneToken
    <3> QED BY <1>1, <1>2, <2>2, <3>1, <3>2 DEF CInv, Tables
  <2> QED BY <2>1, <2>2 DEF Board!LinkInstrument, Board!Item, Symbol
<1>10. \A u \in Venues : Holds(rates, rates', u)
  BY <1>1 DEF Holds
<1> QED BY <1>1, <1>4, <1>8, <1>9, <1>10, OneGoes

LEMMA StoreStep == ASSUME CInv, NEW v \in Venues, Board!StoreFunding(v) PROVE CInv'
<1> DEFINE c == collector[v]
           k == <<v, c.inst>>
<1>1. c.pc = "store" /\ UNCHANGED <<instruments, mapping>>
  BY DEF Board!StoreFunding
<1>2. /\ DOMAIN c = CollectorFields /\ c.item \in Lines(v) /\ c.inst[1] = Base(v, c.item) /\ c.inst \in instruments
      /\ \A i \in Past(c, v) : i \in c.lost \/ Kept(c, instruments, rates, v, i)
  BY <1>1 DEF CInv, Goes, InHand
<1>3. PICK d : /\ d = Board!NextItem(v, c) /\ DOMAIN d = CollectorFields /\ d.pc \in {"map", "drop"}
               /\ (d.pc = "map" => d.item \in Lines(v))
               /\ d.lost = c.lost /\ d.reading = c.reading
               /\ Past(d, v) = {i \in Lines(v) : i <= c.item}
  BY <1>2, LinesAre, NextIs
<1>4. collector' = [collector EXCEPT ![v] = d]
  BY <1>3 DEF Board!StoreFunding
<1>5. /\ k \in DOMAIN rates' /\ rates'[k].rate = c.reading[c.item] /\ rates'[k].age < 2
      /\ DOMAIN rates \subseteq DOMAIN rates'
      /\ \A x \in DOMAIN rates' : x # k => x \in DOMAIN rates /\ rates'[x] = rates[x]
      /\ DOMAIN rates'[k] = {"rate", "mark", "age"} /\ rates'[k].age \in 0..2
  <2>1. CASE Board!ShouldStore(v)
    <3>1. PICK mark : rates' = Board!Written(rates, k, [rate |-> Board!Reading(v), mark |-> mark, age |-> 0])
      BY <2>1 DEF Board!StoreFunding, Board!Key
    <3>2. DOMAIN rates' = DOMAIN rates \cup {k}
          /\ rates' = [x \in DOMAIN rates \cup {k} |-> IF x = k THEN [rate |-> Board!Reading(v), mark |-> mark, age |-> 0] ELSE rates[x]]
      BY <3>1 DEF Board!Written
    <3>3. rates'[k] = [rate |-> Board!Reading(v), mark |-> mark, age |-> 0]
      BY <3>2
    <3> QED BY <3>2, <3>3 DEF Board!Reading
  <2>2. CASE ~Board!ShouldStore(v)
    <3>1. rates' = rates
      BY <2>2 DEF Board!StoreFunding
    <3>2. k \in DOMAIN rates /\ rates[k].rate = c.reading[c.item] /\ rates[k].age # 2
      BY <2>2 DEF Board!ShouldStore, Board!Key, Board!Reading
    <3>3. DOMAIN rates[k] = {"rate", "mark", "age"} /\ rates[k].age \in 0..2
      BY <3>2 DEF CInv, Tables
    <3> QED BY <3>1, <3>2, <3>3
  <2> QED BY <2>1, <2>2
<1>6. Past(c, v) \subseteq Past(d, v) /\ c.item \in Past(d, v) /\ \A i \in Past(d, v) : i = c.item \/ (i \in Past(c, v) /\ c.item > i)
  BY <1>1, <1>2, <1>3, LinesAre DEF Past
<1>7. ASSUME NEW i \in Past(d, v) PROVE i \in d.lost \/ Kept(d, instruments, rates', v, i)
  <2>1. CASE i = c.item
    <3>1. /\ c.inst \in instruments /\ c.inst[1] = Base(v, i) /\ <<v, c.inst>> \in DOMAIN rates'
          /\ rates'[<<v, c.inst>>].rate = d.reading[i] /\ rates'[<<v, c.inst>>].age < 2
      BY <1>2, <1>3, <1>5, <2>1
    <3> QED BY <3>1 DEF Kept
  <2>2. CASE i \in Past(c, v) /\ c.item > i /\ i \notin d.lost
    <3>1. PICK inst \in instruments :
            /\ inst[1] = Base(v, i) /\ <<v, inst>> \in DOMAIN rates
            /\ (\A j \in Past(c, v) : j > i => Base(v, j) # Base(v, i))
                 => rates[<<v, inst>>].rate = c.reading[i] /\ rates[<<v, inst>>].age < 2
      BY <1>2, <1>3, <2>2 DEF Kept
    <3>2. <<v, inst>> \in DOMAIN rates'
      BY <1>5, <3>1
    <3>3. ASSUME \A j \in Past(d, v) : j > i => Base(v, j) # Base(v, i)
          PROVE  rates'[<<v, inst>>].rate = d.reading[i] /\ rates'[<<v, inst>>].age < 2
      <4>1. inst # c.inst
        BY <1>2, <1>6, <2>2, <3>1, <3>3
      <4>2. <<v, inst>> # k
        BY <4>1
      <4>3. rates'[<<v, inst>>] = rates[<<v, inst>>]
        BY <1>5, <3>2, <4>2
      <4> QED BY <1>3, <1>6, <3>1, <3>3, <4>3
    <3> QED BY <3>1, <3>2, <3>3 DEF Kept
  <2> QED BY <1>6, <2>1, <2>2
<1>8. Goes(d, instruments', rates', v)
  BY <1>1, <1>3, <1>7 DEF Goes, InHand
<1>9. Tables'
  BY <1>1, <1>5 DEF CInv, Tables
<1>10. ASSUME NEW u \in Venues, u # v PROVE Holds(rates, rates', u)
  BY <1>5, <1>10 DEF Holds
<1> QED BY <1>1, <1>4, <1>8, <1>9, <1>10, OneGoes

LEMMA DoneStep == ASSUME CInv, NEW v \in Venues, Board!CollectorDone(v) PROVE CInv'
<1>1. PICK d : d = [collector[v] EXCEPT !.pc = "rest"]
  OBVIOUS
<1>2. collector' = [collector EXCEPT ![v] = d] /\ UNCHANGED <<instruments, mapping, rates>>
  BY <1>1 DEF Board!CollectorDone, Board!Go, CInv
<1>3. DOMAIN d = CollectorFields /\ d.pc = "rest"
  BY <1>1 DEF CInv, Goes, CollectorFields
<1>4. Goes(d, instruments', rates', v)
  BY <1>3 DEF Goes, InHand
<1>5. Tables' /\ \A u \in Venues : Holds(rates, rates', u)
  BY <1>2, TablesKeep DEF CInv, Holds
<1> QED BY <1>2, <1>4, <1>5, OneGoes

LEMMA AgesStep == ASSUME CInv, NEW k \in DOMAIN rates, Board!RowAges(k) PROVE CInv'
<1>1. /\ rates[k].age < 2 /\ rates' = [rates EXCEPT ![k].age = rates[k].age + 1]
      /\ UNCHANGED <<instruments, mapping, collector>> /\ \A v \in Venues : collector[v].pc = "rest"
  BY DEF Board!RowAges
<1>2. ASSUME NEW x \in DOMAIN rates' PROVE DOMAIN rates'[x] = {"rate", "mark", "age"} /\ rates'[x].age \in 0..2
  BY <1>1 DEF CInv, Tables
<1>3. Tables'
  BY <1>1, <1>2 DEF CInv, Tables
<1>4. \A v \in Venues : Goes(collector'[v], instruments', rates', v)
  BY <1>1 DEF CInv, Goes, InHand
<1> QED BY <1>1, <1>3, <1>4 DEF CInv

---------------------------------------------------------------------------
(* The cache and the requests.                                             *)

Works(C, v) == C[v].pc \notin {"rest", "fetch"}
Of(M, v) == {m \in M : m[1] = v}
RowOf(R, k) == IF k \in DOMAIN R THEN <<R[k]>> ELSE <<>>
\* The tokens of a pair that its rows make, over some instruments, and over those
\* both venues list.
Both(R, p, I) == {i \in I : {<<p[1], i>>, <<p[2], i>>} \subseteq DOMAIN R}
Over(R, p, I, s) == UNION {Board!Tokens(p, i, R[<<p[1], i>>], R[<<p[2], i>>], s) : i \in Both(R, p, I)}
Now(M, R, p, s) == Over(R, p, Board!Common(p, M), s)

InCache(C, M, R, k, c) ==
  /\ k[1] \in Venues /\ k[2] \in Venues /\ {k[1], k[2]} = {c.pair[1], c.pair[2]} /\ IsFiniteSet(c.tokens)
  /\ c.raced \/ Works(C, k[1]) \/ Works(C, k[2]) \/ c.tokens = Now(M, R, c.pair, c.stale)
CacheOk(C, M, R, K) == \A k \in DOMAIN K : InCache(C, M, R, k, K[k])

RequestFields == {"pc", "ask", "known", "todo", "insts", "first", "tokens", "raced", "pairs"}
Asking == {"pair", "first", "second"}
RequestShape(q) ==
  /\ DOMAIN q = RequestFields /\ q.raced \in BOOLEAN
  /\ q.pc \in Asking \cup {"none", "refused", "answered"}
  /\ q.pc \in Asking \cup {"answered"} => q.ask \in Asked /\ ~Board!Refused(q.ask)
  /\ q.pc \in Asking => IsFiniteSet(q.known) /\ IsFiniteSet(q.insts) /\ IsFiniteSet(q.tokens) /\ q.todo \subseteq Board!Pairs(q.ask.venues)
  /\ q.pc \in {"first", "second"} => q.todo # {}
  /\ q.pc = "second" => q.insts # {}
  /\ q.pc = "pair" => q.tokens = {}
  /\ IsFiniteSet(Board!All(q)) /\ \E T : q.pairs \in Seq(T)
\* What a request read of a venue is what there is, unless the collector is at it
\* or has been.
Knows(C, M, q, v) == q.raced \/ Works(C, v) \/ Of(q.known, v) = Of(M, v)
\* The tokens it has, and those of the instruments that are left, are what the
\* rows of its pair say; and so is the row that is in its hand.
Builds(C, M, R, q, p) ==
  \/ q.raced \/ Works(C, p[1]) \/ Works(C, p[2])
  \/ /\ q.tokens \cup Over(R, p, q.insts, q.ask.stale) = Now(M, R, p, q.ask.stale)
     /\ q.pc = "second" => q.first = RowOf(R, <<p[1], CHOOSE i \in q.insts : TRUE>>)
Reads(C, M, R, q) ==
  /\ q.pc \in Asking => \A v \in Board!Asks(q) : Knows(C, M, q, v)
  /\ q.pc \in {"first", "second"} => Builds(C, M, R, q, Board!Pair(q))
Answers(q) == q.pc = "answered" =>
  q.first \in Board!Orders(q) /\ q.tokens = Board!Paginated(q.first, Board!Offset(q.ask), Board!LimitOf(q.ask))
RequestOk(C, M, R, q) == RequestShape(q) /\ Reads(C, M, R, q) /\ Answers(q)
QInv ==
  /\ CacheOk(collector, mapping, rates, cache)
  /\ DOMAIN request = Requests
  /\ \A r \in Requests : RequestOk(collector, mapping, rates, request[r])

\* A venue nobody works at after the step, nobody worked at before, and its rows stay.
Quiet(u) ==
  \/ Works(collector', u)
  \/ /\ ~Works(collector, u) /\ Of(mapping', u) = Of(mapping, u)
     /\ \A x : RowOf(rates', <<u, x>>) = RowOf(rates, <<u, x>>)

LEMMA OverSame ==
  ASSUME NEW R, NEW S, NEW p, NEW I, NEW s,
         \A x : RowOf(S, <<p[1], x>>) = RowOf(R, <<p[1], x>>), \A x : RowOf(S, <<p[2], x>>) = RowOf(R, <<p[2], x>>)
  PROVE  Over(S, p, I, s) = Over(R, p, I, s)
<1>1. \A x : /\ <<p[1], x>> \in DOMAIN R <=> <<p[1], x>> \in DOMAIN S
             /\ <<p[2], x>> \in DOMAIN R <=> <<p[2], x>> \in DOMAIN S
  BY DEF RowOf
<1>2. \A x : /\ <<p[1], x>> \in DOMAIN R => S[<<p[1], x>>] = R[<<p[1], x>>]
             /\ <<p[2], x>> \in DOMAIN R => S[<<p[2], x>>] = R[<<p[2], x>>]
  BY DEF RowOf
<1>3. Both(S, p, I) = Both(R, p, I)
  BY <1>1 DEF Both
<1>4. \A i \in Both(R, p, I) : S[<<p[1], i>>] = R[<<p[1], i>>] /\ S[<<p[2], i>>] = R[<<p[2], i>>]
  BY <1>2 DEF Both
<1> QED BY <1>3, <1>4 DEF Over

LEMMA CommonSame ==
  ASSUME NEW M, NEW N, NEW p, Of(M, p[1]) = Of(N, p[1]), Of(M, p[2]) = Of(N, p[2])
  PROVE  Board!Common(p, M) = Board!Common(p, N)
BY DEF Board!Common, Of

LEMMA NowSame ==
  ASSUME NEW M, NEW N, NEW R, NEW S, NEW p, NEW s, Of(M, p[1]) = Of(N, p[1]), Of(M, p[2]) = Of(N, p[2]),
         \A x : RowOf(S, <<p[1], x>>) = RowOf(R, <<p[1], x>>), \A x : RowOf(S, <<p[2], x>>) = RowOf(R, <<p[2], x>>)
  PROVE  Now(N, S, p, s) = Now(M, R, p, s)
<1>1. Board!Common(p, M) = Board!Common(p, N)
  BY CommonSame
<1> QED BY <1>1, OverSame DEF Now

LEMMA CurrentIs == ASSUME NEW p, NEW s PROVE Board!Current(p, s) = Now(mapping, rates, p, s)
BY DEF Board!Current, Now, Over, Both

\* Whoever of a pair is asked for is one of the venues asked.
LEMMA PairIs ==
  ASSUME NEW q, RequestShape(q), q.pc \in Asking, q.todo # {}
  PROVE  /\ Board!Pair(q) \in q.todo
         /\ Board!Pair(q)[1] \in Board!Asks(q) /\ Board!Pair(q)[2] \in Board!Asks(q)
         /\ Board!Asks(q) \subseteq Venues
<1>1. PICK p : p = Board!Pair(q)
  OBVIOUS
<1>2. p \in q.todo
  BY <1>1 DEF Board!Pair
<1>3. p \in Board!Pairs(q.ask.venues)
  BY <1>2 DEF RequestShape
<1>4. PICK e \in (DOMAIN q.ask.venues) \X (DOMAIN q.ask.venues) : p = <<q.ask.venues[e[1]], q.ask.venues[e[2]]>>
  BY <1>3 DEF Board!Pairs
<1>5. p[1] \in Board!Asks(q) /\ p[2] \in Board!Asks(q)
  <2>1. e[1] \in DOMAIN q.ask.venues /\ e[2] \in DOMAIN q.ask.venues
    OBVIOUS
  <2> QED BY <1>4, <2>1 DEF Board!Asks
<1>6. q.ask.venues \in Seq(Venues)
  BY BoardAssumption DEF Board!BoardAssumption, RequestShape
<1>7. \A i \in DOMAIN q.ask.venues : q.ask.venues[i] \in Venues
  BY <1>6
<1> QED BY <1>1, <1>2, <1>5, <1>7 DEF Board!Asks

LEMMA AnswersSame ==
  ASSUME NEW q, NEW o, o.pc = q.pc, o.ask = q.ask, o.first = q.first, o.tokens = q.tokens, o.pairs = q.pairs, Answers(q)
  PROVE  Answers(o)
<1>1. Board!All(o) = Board!All(q)
  BY DEF Board!All
<1>2. Board!Symbols(o) = Board!Symbols(q)
  BY <1>1 DEF Board!Symbols
<1>3. \A s : Board!Best(o, s) = Board!Best(q, s)
  BY <1>1 DEF Board!Best, Board!SortValue
<1>4. Board!Orders(o) = Board!Orders(q)
  BY <1>2, <1>3 DEF Board!Orders
<1> QED BY <1>4 DEF Answers

\* A request with its mark of having been raced.
Noted(o, q, b) == o = [q EXCEPT !.raced = b] \/ (o = q /\ q.raced = b)

\* The collector works at one venue: what is quiet stays true, and a request that
\* asks for the venue is told.
LEMMA CollectorKeeps ==
  ASSUME QInv, DOMAIN cache' \subseteq DOMAIN cache,
         \A k \in DOMAIN cache' : cache'[k] = cache[k] /\ Quiet(k[1]) /\ Quiet(k[2]),
         DOMAIN request' = Requests,
         \A r \in Requests : \E b \in BOOLEAN :
           /\ Noted(request'[r], request[r], b)
           /\ b \/ (~request[r].raced /\ \A u \in Board!Asks(request[r]) : u \in Venues => Quiet(u))
  PROVE  QInv'
<1>1. ASSUME NEW k \in DOMAIN cache' PROVE InCache(collector', mapping', rates', k, cache'[k])
  <2>1. cache'[k] = cache[k] /\ Quiet(k[1]) /\ Quiet(k[2]) /\ InCache(collector, mapping, rates, k, cache[k])
    BY DEF QInv, CacheOk
  <2>2. PICK c : c = cache[k]
    OBVIOUS
  <2>3. CASE c.raced \/ Works(collector', k[1]) \/ Works(collector', k[2])
    BY <2>1, <2>2, <2>3 DEF InCache
  <2>4. CASE ~(c.raced \/ Works(collector', k[1]) \/ Works(collector', k[2]))
    <3>1. {k[1], k[2]} = {c.pair[1], c.pair[2]} /\ c.tokens = Now(mapping, rates, c.pair, c.stale)
      BY <2>1, <2>2, <2>4 DEF InCache, Quiet
    <3>2. Quiet(c.pair[1]) /\ Quiet(c.pair[2]) /\ ~Works(collector', c.pair[1]) /\ ~Works(collector', c.pair[2])
      BY <2>1, <2>4, <3>1
    <3>3. Now(mapping', rates', c.pair, c.stale) = Now(mapping, rates, c.pair, c.stale)
      BY <3>2, NowSame DEF Quiet
    <3> QED BY <2>1, <2>2, <3>1, <3>3 DEF InCache
  <2> QED BY <2>3, <2>4
<1>2. ASSUME NEW r \in Requests PROVE RequestOk(collector', mapping', rates', request'[r])
  <2>1. PICK q : q = request[r]
    OBVIOUS
  <2>2. RequestShape(q) /\ Reads(collector, mapping, rates, q) /\ Answers(q)
    BY <2>1 DEF QInv, RequestOk
  <2>3. PICK b \in BOOLEAN : /\ Noted(request'[r], q, b)
                             /\ b \/ (~q.raced /\ \A u \in Board!Asks(q) : u \in Venues => Quiet(u))
    BY <2>1
  <2>4. PICK o : o = request'[r]
    OBVIOUS
  <2>5. /\ DOMAIN o = RequestFields /\ o.raced = b /\ o.pc = q.pc /\ o.ask = q.ask /\ o.known = q.known /\ o.todo = q.todo
        /\ o.insts = q.insts /\ o.first = q.first /\ o.tokens = q.tokens /\ o.pairs = q.pairs
    BY <2>2, <2>3, <2>4 DEF RequestShape, RequestFields, Noted
  <2>6. Board!All(o) = Board!All(q) /\ Board!Asks(o) = Board!Asks(q) /\ Board!Pair(o) = Board!Pair(q)
    BY <2>5 DEF Board!All, Board!Asks, Board!Pair
  <2>7. RequestShape(o)
    BY <2>2, <2>5, <2>6 DEF RequestShape
  <2>8. Answers(o)
    BY <2>2, <2>5, AnswersSame
  <2>9. Reads(collector', mapping', rates', o)
    <3>1. CASE b
      BY <2>5, <3>1 DEF Reads, Knows, Builds
    <3>2. CASE ~b
      <4>1. ~q.raced /\ \A u \in Board!Asks(q) : u \in Venues => Quiet(u)
        BY <2>3, <3>2
      <4>2. ASSUME o.pc \in Asking, NEW v \in Board!Asks(o) PROVE Knows(collector', mapping', o, v)
        <5>1. v \in Venues
          <6>1. q.ask.venues \in Seq(Venues)
            BY <2>2, <2>5, <4>2, BoardAssumption DEF Board!BoardAssumption, RequestShape
          <6>2. \A i \in DOMAIN q.ask.venues : q.ask.venues[i] \in Venues
            BY <6>1
          <6> QED BY <2>6, <6>2 DEF Board!Asks
        <5>2. Quiet(v) /\ Knows(collector, mapping, q, v)
          BY <2>2, <2>5, <2>6, <4>1, <4>2, <5>1 DEF Reads
        <5> QED BY <2>5, <4>1, <5>2 DEF Knows, Quiet
      <4>3. ASSUME o.pc \in {"first", "second"} PROVE Builds(collector', mapping', rates', o, Board!Pair(o))
        <5>1. PICK p : p = Board!Pair(q)
          OBVIOUS
        <5>2. p[1] \in Board!Asks(q) /\ p[2] \in Board!Asks(q) /\ p[1] \in Venues /\ p[2] \in Venues
          <6>1. q.pc \in Asking /\ q.todo # {}
            BY <2>2, <2>5, <4>3 DEF RequestShape, Asking
          <6> QED BY <2>2, <5>1, <6>1, PairIs
        <5>3. Quiet(p[1]) /\ Quiet(p[2])
          BY <4>1, <5>2
        <5>4. CASE Works(collector', p[1]) \/ Works(collector', p[2])
          BY <2>6, <5>1, <5>4 DEF Builds
        <5>5. CASE ~(Works(collector', p[1]) \/ Works(collector', p[2]))
          <6>1. Builds(collector, mapping, rates, q, p)
            BY <2>2, <2>5, <4>3, <5>1 DEF Reads
          <6>2. /\ q.tokens \cup Over(rates, p, q.insts, q.ask.stale) = Now(mapping, rates, p, q.ask.stale)
                /\ q.pc = "second" => q.first = RowOf(rates, <<p[1], CHOOSE i \in q.insts : TRUE>>)
            BY <4>1, <5>3, <5>5, <6>1 DEF Builds, Quiet
          <6>3. Now(mapping', rates', p, q.ask.stale) = Now(mapping, rates, p, q.ask.stale)
            BY <5>3, <5>5, NowSame DEF Quiet
          <6>4. Over(rates', p, q.insts, q.ask.stale) = Over(rates, p, q.insts, q.ask.stale)
            BY <5>3, <5>5, OverSame DEF Quiet
          <6>5. RowOf(rates', <<p[1], CHOOSE i \in q.insts : TRUE>>) = RowOf(rates, <<p[1], CHOOSE i \in q.insts : TRUE>>)
            BY <5>3, <5>5 DEF Quiet
          <6> QED BY <2>5, <2>6, <5>1, <6>2, <6>3, <6>4, <6>5 DEF Builds
        <5> QED BY <5>4, <5>5
      <4> QED BY <4>2, <4>3 DEF Reads
    <3> QED BY <3>1, <3>2
  <2> QED BY <2>3, <2>4, <2>7, <2>8, <2>9 DEF RequestOk
<1> QED BY <1>1, <1>2 DEF QInv, CacheOk

LEMMA RequestsStart == Board!Init => QInv
<1> SUFFICES ASSUME Board!Init PROVE QInv
  OBVIOUS
<1>1. cache = [k \in {} |-> <<>>] /\ request = [r \in Requests |-> Board!NoRequest]
  BY DEF Board!Init, Board!TablesEmpty
<1>2. PICK q : q = Board!NoRequest
  OBVIOUS
<1>3. /\ DOMAIN q = RequestFields /\ q.raced = FALSE /\ q.pc = "none" /\ q.pairs = <<>>
  BY <1>2 DEF Board!NoRequest, RequestFields
<1>4. Board!All(q) = {} /\ <<>> \in Seq({})
  BY <1>3 DEF Board!All
<1>5. RequestShape(q)
  BY <1>3, <1>4, FS_EmptySet DEF RequestShape, Asking
<1>6. RequestOk(collector, mapping, rates, q)
  BY <1>3, <1>5 DEF RequestOk, Reads, Answers, Asking
<1> QED BY <1>1, <1>2, <1>6 DEF QInv, CacheOk

\* The steps of the collector, one venue at a time.
LEMMA Untouched ==
  ASSUME NEW u, Works(collector, u) => Works(collector', u), UNCHANGED <<mapping, rates>>
  PROVE  Quiet(u)
BY DEF Quiet

\* Whatever changed was at a venue that is being worked at.
LEMMA WorkKeeps ==
  ASSUME QInv, UNCHANGED <<cache, request>>, \A u \in Venues : Quiet(u)
  PROVE  QInv'
<1>1. ASSUME NEW r \in Requests
      PROVE  \E b \in BOOLEAN :
               /\ Noted(request'[r], request[r], b)
               /\ b \/ (~request[r].raced /\ \A u \in Board!Asks(request[r]) : u \in Venues => Quiet(u))
  <2>1. request[r].raced \in BOOLEAN
    BY DEF QInv, RequestOk, RequestShape
  <2> QED BY <2>1 DEF Noted
<1>2. \A k \in DOMAIN cache' : cache'[k] = cache[k] /\ Quiet(k[1]) /\ Quiet(k[2])
  BY DEF QInv, CacheOk, InCache
<1>3. DOMAIN request' = Requests
  BY DEF QInv
<1> QED BY <1>1, <1>2, <1>3, CollectorKeeps

LEMMA OverlapKeeps ==
  ASSUME QInv, NEW v, request' = Board!Overlap(v), \A u \in Venues \ {v} : Quiet(u),
         DOMAIN cache' \subseteq DOMAIN cache,
         \A k \in DOMAIN cache' : cache'[k] = cache[k] /\ Quiet(k[1]) /\ Quiet(k[2])
  PROVE  QInv'
<1>1. ASSUME NEW r \in Requests
      PROVE  \E b \in BOOLEAN :
               /\ Noted(request'[r], request[r], b)
               /\ b \/ (~request[r].raced /\ \A u \in Board!Asks(request[r]) : u \in Venues => Quiet(u))
  <2>1. request'[r] = [request[r] EXCEPT !.raced = request[r].raced \/ v \in Board!Asks(request[r])]
    BY DEF Board!Overlap
  <2>2. request[r].raced \in BOOLEAN
    BY DEF QInv, RequestOk, RequestShape
  <2>3. PICK b \in BOOLEAN : b = (request[r].raced \/ v \in Board!Asks(request[r]))
    OBVIOUS
  <2>4. b \/ (~request[r].raced /\ \A u \in Board!Asks(request[r]) : u \in Venues => Quiet(u))
    BY <2>3
  <2> QED BY <2>1, <2>3, <2>4 DEF Noted
<1>2. DOMAIN request' = Requests
  BY DEF Board!Overlap
<1> QED BY <1>1, <1>2, CollectorKeeps

LEMMA CollectorRequests ==
  ASSUME CInv, QInv, NEW v \in Venues,
         \/ Board!Fetch(v) \/ Board!FindMapping(v) \/ Board!CreateInstrument(v) \/ Board!LinkInstrument(v)
         \/ Board!StoreFunding(v) \/ Board!CollectorDone(v)
  PROVE  QInv'
<1>0. DOMAIN collector = Venues /\ DOMAIN collector[v] = CollectorFields /\ (collector[v].item \in Nat \/ collector[v].pc \notin InHand)
  BY LinesAre DEF CInv, Goes
<1>1. ASSUME collector[v].item \in Nat, NEW d, d = Board!NextItem(v, collector[v]) PROVE d.pc \in {"map", "drop"} /\ DOMAIN d = CollectorFields
  BY <1>0, <1>1, NextIs
<1>2. CASE Board!Fetch(v)
  <2>1. \A u \in Venues \ {v} : collector'[u] = collector[u]
    BY <1>0, <1>2 DEF Board!Fetch
  <2>2. UNCHANGED <<mapping, rates, cache, request>> /\ ~Works(collector, v)
    BY <1>2 DEF Board!Fetch, Works
  <2>3. \A u \in Venues : Works(collector, u) => Works(collector', u)
    BY <2>1, <2>2 DEF Works
  <2> QED BY <2>2, <2>3, Untouched, WorkKeeps
<1>3. CASE Board!FindMapping(v)
  <2>1. \A u \in Venues \ {v} : collector'[u] = collector[u]
    BY <1>0, <1>3 DEF Board!FindMapping
  <2>2. UNCHANGED <<mapping, rates, cache, request>>
    BY <1>3 DEF Board!FindMapping
  <2>3. collector'[v].pc \in {"store", "link", "create"}
    BY <1>0, <1>3 DEF Board!FindMapping, CollectorFields
  <2>4. \A u \in Venues : Works(collector, u) => Works(collector', u)
    BY <2>1, <2>3 DEF Works
  <2> QED BY <2>2, <2>4, Untouched, WorkKeeps
<1>4. CASE Board!CreateInstrument(v)
  <2>1. \A u \in Venues \ {v} : collector'[u] = collector[u]
    BY <1>0, <1>4 DEF Board!CreateInstrument, Board!Go
  <2>2. UNCHANGED <<mapping, rates, cache, request>> /\ collector[v].pc = "create"
    BY <1>4 DEF Board!CreateInstrument
  <2>3. collector'[v].pc \in {"map", "drop", "link"}
    <3>1. CASE collector[v].inst \in instruments
      <4>1. PICK e : e = Board!NextItem(v, collector[v])
        OBVIOUS
      <4>2. e.pc \in {"map", "drop"} /\ DOMAIN e = CollectorFields
        BY <1>0, <1>1, <2>2, <4>1 DEF InHand
      <4>3. collector' = [collector EXCEPT ![v] = [e EXCEPT !.lost = e.lost \cup {collector[v].item}]]
        BY <1>4, <3>1, <4>1 DEF Board!CreateInstrument
      <4> QED BY <1>0, <4>2, <4>3 DEF CollectorFields
    <3>2. CASE collector[v].inst \notin instruments
      BY <1>0, <1>4, <3>2 DEF Board!CreateInstrument, Board!Go, CollectorFields
    <3> QED BY <3>1, <3>2
  <2>4. \A u \in Venues : Works(collector, u) => Works(collector', u)
    BY <2>1, <2>3 DEF Works
  <2> QED BY <2>2, <2>4, Untouched, WorkKeeps
<1>5. CASE Board!LinkInstrument(v)
  <2>1. \A u \in Venues \ {v} : collector'[u] = collector[u]
    BY <1>0, <1>5 DEF Board!LinkInstrument, Board!Go
  <2>2. UNCHANGED <<rates, cache, request>> /\ collector'[v].pc = "store"
    BY <1>0, <1>5 DEF Board!LinkInstrument, Board!Go, CollectorFields
  <2>3. \A u \in Venues \ {v} : Of(mapping', u) = Of(mapping, u)
    BY <1>5 DEF Board!LinkInstrument, Of
  <2>4. \A u \in Venues : Quiet(u)
    BY <2>1, <2>2, <2>3 DEF Quiet, Works
  <2> QED BY <2>2, <2>4, WorkKeeps
<1>6. CASE Board!StoreFunding(v)
  <2>1. collector' = [collector EXCEPT ![v] = Board!NextItem(v, collector[v])] /\ UNCHANGED <<mapping, cache>>
        /\ collector[v].pc = "store"
    BY <1>6 DEF Board!StoreFunding
  <2>2. Works(collector', v)
    BY <1>0, <1>1, <2>1 DEF Works, InHand
  <2>3. CASE ~Board!ShouldStore(v)
    <3>1. UNCHANGED <<rates, request>>
      BY <1>6, <2>3 DEF Board!StoreFunding
    <3>2. \A u \in Venues : Quiet(u)
      BY <1>0, <2>1, <2>2, <3>1 DEF Quiet, Works
    <3> QED BY <2>1, <3>1, <3>2, WorkKeeps
  <2>4. CASE Board!ShouldStore(v)
    <3>1. PICK mark : rates' = Board!Written(rates, Board!Key(v), [rate |-> Board!Reading(v), mark |-> mark, age |-> 0])
      BY <1>6, <2>4 DEF Board!StoreFunding
    <3>2. request' = Board!Overlap(v)
      BY <1>6, <2>4 DEF Board!StoreFunding
    <3>3. \A x : x # Board!Key(v) => RowOf(rates', x) = RowOf(rates, x)
      BY <3>1 DEF RowOf, Board!Written
    <3>4. \A u \in Venues \ {v} : \A x : <<u, x>> # Board!Key(v)
      BY DEF Board!Key
    <3>5. \A u \in Venues \ {v} : Quiet(u)
      BY <1>0, <2>1, <3>3, <3>4 DEF Quiet, Works
    <3>6. \A u \in Venues : Quiet(u)
      BY <2>2, <3>5 DEF Quiet
    <3>7. \A k \in DOMAIN cache' : cache'[k] = cache[k] /\ Quiet(k[1]) /\ Quiet(k[2])
      BY <2>1, <3>6 DEF QInv, CacheOk, InCache
    <3> QED BY <2>1, <3>2, <3>6, <3>7, OverlapKeeps
  <2> QED BY <2>3, <2>4
<1>7. CASE Board!CollectorDone(v)
  <2>1. UNCHANGED <<mapping, rates>> /\ request' = Board!Overlap(v)
        /\ cache' = [k \in {k \in DOMAIN cache : v \notin {k[1], k[2]}} |-> cache[k]]
    BY <1>7 DEF Board!CollectorDone, Board!Invalidate
  <2>2. \A u \in Venues \ {v} : collector'[u] = collector[u]
    BY <1>0, <1>7 DEF Board!CollectorDone, Board!Go
  <2>3. \A u \in Venues \ {v} : Quiet(u)
    BY <2>1, <2>2, Untouched DEF Works
  <2>4. DOMAIN cache' \subseteq DOMAIN cache
    BY <2>1
  <2>5. \A k \in DOMAIN cache' : cache'[k] = cache[k] /\ k[1] \in Venues \ {v} /\ k[2] \in Venues \ {v}
    BY <2>1 DEF QInv, CacheOk, InCache
  <2>6. \A k \in DOMAIN cache' : cache'[k] = cache[k] /\ Quiet(k[1]) /\ Quiet(k[2])
    BY <2>3, <2>5
  <2> QED BY <2>1, <2>3, <2>4, <2>6, OverlapKeeps
<1> QED BY <1>2, <1>3, <1>4, <1>5, <1>6, <1>7

LEMMA CycleRequests == ASSUME CInv, QInv, Board!Cycle PROVE QInv'
<1>1. UNCHANGED <<mapping, rates, cache, request>> /\ \A u \in Venues : ~Works(collector, u)
  BY DEF Board!Cycle, Works
<1> QED BY <1>1, Untouched, WorkKeeps

LEMMA AgesRequests == ASSUME CInv, QInv, NEW k \in DOMAIN rates, Board!RowAges(k) PROVE QInv'
<1>1. UNCHANGED <<mapping, collector, request>> /\ cache' = [p \in {} |-> <<>>] /\ \A r \in Requests : request[r].pc = "none"
  BY DEF Board!RowAges
<1>2. \A r \in Requests : RequestOk(collector', mapping', rates', request'[r])
  BY <1>1 DEF QInv, RequestOk, Reads, Answers, Asking
<1> QED BY <1>1, <1>2 DEF QInv, CacheOk

---------------------------------------------------------------------------
(* The steps of a request.                                                 *)

LEMMA RequestGoes ==
  ASSUME QInv, NEW r \in Requests, NEW o, request' = [request EXCEPT ![r] = o], UNCHANGED Board!collectVars,
         RequestOk(collector, mapping, rates, o), CacheOk(collector, mapping, rates, cache')
  PROVE  QInv'
<1>1. UNCHANGED <<collector, mapping, rates>>
  BY DEF Board!collectVars
<1>2. DOMAIN request' = Requests /\ \A s \in Requests : request'[s] = IF s = r THEN o ELSE request[s]
  BY DEF QInv
<1>3. \A s \in Requests : RequestOk(collector', mapping', rates', request'[s])
  BY <1>1, <1>2 DEF QInv
<1>4. CacheOk(collector', mapping', rates', cache')
  BY <1>1
<1> QED BY <1>2, <1>3, <1>4 DEF QInv

LEMMA CacheStays == ASSUME QInv, UNCHANGED cache PROVE CacheOk(collector, mapping, rates, cache')
BY DEF QInv

LEMMA AskStep == ASSUME CInv, QInv, NEW r \in Requests, Board!Ask(r) PROVE QInv'
<1>1. PICK ask \in Asked :
        Board!Step(r, IF Board!Refused(ask) THEN [Board!NoRequest EXCEPT !.pc = "refused", !.ask = ask]
                      ELSE [Board!NoRequest EXCEPT !.pc = "pair", !.ask = ask, !.known = mapping, !.todo = Board!Pairs(ask.venues)])
  BY DEF Board!Ask
<1>2. PICK n : n = Board!NoRequest
  OBVIOUS
<1>3. DOMAIN n = RequestFields /\ n.raced = FALSE /\ n.pairs = <<>> /\ n.insts = {} /\ n.tokens = {} /\ n.known = {} /\ n.todo = {}
  BY <1>2 DEF Board!NoRequest, RequestFields
<1>4. <<>> \in Seq({}) /\ \A o : o.pairs = <<>> => Board!All(o) = {}
  BY DEF Board!All
<1>5. CASE Board!Refused(ask)
  <2>1. PICK o : o = [n EXCEPT !.pc = "refused", !.ask = ask]
    OBVIOUS
  <2>2. request' = [request EXCEPT ![r] = o] /\ UNCHANGED Board!collectVars
    BY <1>1, <1>2, <1>5, <2>1 DEF Board!Step
  <2>3. DOMAIN o = RequestFields /\ o.pc = "refused" /\ o.raced = FALSE /\ o.pairs = <<>>
    BY <1>3, <2>1 DEF RequestFields
  <2>4. RequestOk(collector, mapping, rates, o)
    BY <1>4, <2>3, FS_EmptySet DEF RequestOk, RequestShape, Reads, Answers, Asking
  <2> QED BY <2>2, <2>4, CacheStays, RequestGoes DEF Board!Ask
<1>6. CASE ~Board!Refused(ask)
  <2>1. PICK o : o = [n EXCEPT !.pc = "pair", !.ask = ask, !.known = mapping, !.todo = Board!Pairs(ask.venues)]
    OBVIOUS
  <2>2. request' = [request EXCEPT ![r] = o] /\ UNCHANGED Board!collectVars
    BY <1>1, <1>2, <1>6, <2>1 DEF Board!Step
  <2>3. /\ DOMAIN o = RequestFields /\ o.pc = "pair" /\ o.raced = FALSE /\ o.pairs = <<>> /\ o.known = mapping
        /\ o.ask = ask /\ o.todo = Board!Pairs(ask.venues) /\ o.insts = {} /\ o.tokens = {}
    BY <1>3, <2>1 DEF RequestFields
  <2>4. IsFiniteSet(mapping)
    BY DEF CInv, Tables
  <2>5. RequestShape(o)
    BY <1>4, <1>6, <2>3, <2>4, FS_EmptySet DEF RequestShape, Asking
  <2>6. Reads(collector, mapping, rates, o) /\ Answers(o)
    BY <2>3 DEF Reads, Knows, Answers, Asking
  <2> QED BY <2>2, <2>5, <2>6, CacheStays, RequestGoes DEF Board!Ask, RequestOk
<1> QED BY <1>5, <1>6

\* A pair is done with, from the cache or built.
LEMMA PairDone ==
  ASSUME NEW C, NEW M, NEW R, NEW q, NEW tokens, RequestShape(q), Reads(C, M, R, q), q.pc \in Asking, IsFiniteSet(tokens)
  PROVE  RequestOk(C, M, R, Board!WithPair(q, tokens))
<1>1. PICK e : e = [pair |-> Board!Pair(q), tokens |-> tokens]
  OBVIOUS
<1>2. PICK o : o = Board!WithPair(q, tokens)
  OBVIOUS
<1>3. DOMAIN q = RequestFields /\ e.tokens = tokens
  BY <1>1 DEF RequestShape
<1>4. /\ DOMAIN o = RequestFields /\ o.pc = "pair" /\ o.tokens = {} /\ o.raced = q.raced /\ o.ask = q.ask /\ o.known = q.known
      /\ o.insts = q.insts /\ o.todo \subseteq q.todo /\ o.pairs = Append(q.pairs, e)
  BY <1>1, <1>2, <1>3 DEF Board!WithPair, RequestFields
<1>5. PICK T : q.pairs \in Seq(T)
  BY DEF RequestShape
<1>6. /\ o.pairs \in Seq(T \cup {e}) /\ DOMAIN o.pairs = 1..(Len(q.pairs) + 1) /\ DOMAIN q.pairs = 1..Len(q.pairs)
      /\ \A i \in 1..Len(q.pairs) : o.pairs[i] = q.pairs[i]
      /\ o.pairs[Len(q.pairs) + 1] = e /\ Len(q.pairs) \in Nat
  BY <1>4, <1>5
<1>7. Board!All(o) = Board!All(q) \cup tokens
  <2>1. \A i \in DOMAIN o.pairs : i \in DOMAIN q.pairs \/ i = Len(q.pairs) + 1
    BY <1>6
  <2>2. DOMAIN q.pairs \subseteq DOMAIN o.pairs /\ Len(q.pairs) + 1 \in DOMAIN o.pairs
    BY <1>6
  <2>3. \A i \in DOMAIN q.pairs : o.pairs[i] = q.pairs[i]
    BY <1>6
  <2> QED BY <1>3, <1>6, <2>1, <2>2, <2>3 DEF Board!All
<1>8. IsFiniteSet(Board!All(o))
  BY <1>7, FS_Union DEF RequestShape
<1>9. RequestShape(o)
  BY <1>4, <1>6, <1>8, FS_EmptySet DEF RequestShape, Asking
<1>10. Board!Asks(o) = Board!Asks(q)
  BY <1>4 DEF Board!Asks
<1>11. Reads(C, M, R, o) /\ Answers(o)
  BY <1>4, <1>10 DEF Reads, Knows, Answers
<1> QED BY <1>2, <1>9, <1>11 DEF RequestOk

LEMMA FromCacheStep == ASSUME CInv, QInv, NEW r \in Requests, Board!FromCache(r) PROVE QInv'
<1>1. PICK q : q = request[r]
  OBVIOUS
<1>2. PICK k : k = Board!MakeKey(Board!Pair(q))
  OBVIOUS
<1>3. /\ q.pc = "pair" /\ k \in DOMAIN cache /\ UNCHANGED <<cache, Board!collectVars>>
      /\ request' = [request EXCEPT ![r] = Board!WithPair(q, cache[k].tokens)]
  BY <1>1, <1>2 DEF Board!FromCache, Board!Step
<1>4. RequestShape(q) /\ Reads(collector, mapping, rates, q) /\ IsFiniteSet(cache[k].tokens)
  BY <1>1, <1>3 DEF QInv, RequestOk, CacheOk, InCache
<1>5. RequestOk(collector, mapping, rates, Board!WithPair(q, cache[k].tokens))
  BY <1>3, <1>4, PairDone DEF Asking
<1> QED BY <1>3, <1>5, CacheStays, RequestGoes

\* The instruments two venues share are no more than the mappings.
LEMMA CommonFinite == ASSUME NEW M, NEW p, IsFiniteSet(M) PROVE IsFiniteSet(Board!Common(p, M))
<1> DEFINE T == {m \in M : m[1] = p[1]}
           f == [m \in T |-> m[3]]
           U == {m[3] : m \in T}
<1>1. IsFiniteSet(T)
  BY FS_Subset
<1>2. f \in Surjection(T, U)
  BY DEF Surjection
<1>3. IsFiniteSet(U)
  <2> HIDE DEF T, f, U
  <2> QED BY <1>1, <1>2, FS_Surjection
<1>4. Board!Common(p, M) \in SUBSET U
  BY DEF Board!Common
<1> HIDE DEF U
<1> QED BY <1>3, <1>4, FS_Subset

LEMMA BuildStep == ASSUME CInv, QInv, NEW r \in Requests, Board!Build(r) PROVE QInv'
<1>1. PICK q : q = request[r]
  OBVIOUS
<1>2. PICK p : p = Board!Pair(q)
  OBVIOUS
<1>3. PICK o : o = [q EXCEPT !.pc = "first", !.insts = Board!Common(p, q.known)]
  OBVIOUS
<1>4. /\ q.pc = "pair" /\ q.todo # {} /\ UNCHANGED <<cache, Board!collectVars>> /\ request' = [request EXCEPT ![r] = o]
  BY <1>1, <1>2, <1>3 DEF Board!Build, Board!Step
<1>5. RequestShape(q) /\ Reads(collector, mapping, rates, q)
  BY <1>1 DEF QInv, RequestOk
<1>6. /\ DOMAIN o = RequestFields /\ o.pc = "first" /\ o.insts = Board!Common(p, q.known) /\ o.raced = q.raced
      /\ o.ask = q.ask /\ o.known = q.known /\ o.todo = q.todo /\ o.tokens = {} /\ o.pairs = q.pairs
  BY <1>3, <1>4, <1>5 DEF RequestShape, RequestFields
<1>7. Board!All(o) = Board!All(q) /\ Board!Asks(o) = Board!Asks(q) /\ Board!Pair(o) = p
  BY <1>2, <1>6 DEF Board!All, Board!Asks, Board!Pair
<1>8. RequestShape(o)
  BY <1>4, <1>5, <1>6, <1>7, CommonFinite DEF RequestShape, Asking
<1>9. Builds(collector, mapping, rates, o, p)
  <2>1. Knows(collector, mapping, q, p[1]) /\ Knows(collector, mapping, q, p[2])
    <3>1. p[1] \in Board!Asks(q) /\ p[2] \in Board!Asks(q)
      BY <1>2, <1>4, <1>5, PairIs DEF Asking
    <3> QED BY <1>4, <1>5, <3>1 DEF Reads, Asking
  <2>2. CASE Of(q.known, p[1]) = Of(mapping, p[1]) /\ Of(q.known, p[2]) = Of(mapping, p[2])
    <3>1. Board!Common(p, q.known) = Board!Common(p, mapping)
      BY <2>2, CommonSame
    <3> QED BY <1>6, <3>1 DEF Builds, Now
  <2> QED BY <1>6, <2>1, <2>2 DEF Builds, Knows
<1>10. Reads(collector, mapping, rates, o) /\ Answers(o)
  BY <1>4, <1>5, <1>6, <1>7, <1>9 DEF Reads, Knows, Answers, Asking
<1> QED BY <1>4, <1>8, <1>10, CacheStays, RequestGoes DEF RequestOk

LEMMA ReadFirstStep == ASSUME CInv, QInv, NEW r \in Requests, Board!ReadFirst(r) PROVE QInv'
<1>1. PICK q : q = request[r]
  OBVIOUS
<1>2. PICK p : p = Board!Pair(q)
  OBVIOUS
<1>3. PICK i : i = CHOOSE j \in q.insts : TRUE
  OBVIOUS
<1>4. PICK o : o = [q EXCEPT !.pc = "second", !.first = RowOf(rates, <<p[1], i>>)]
  OBVIOUS
<1>5. /\ q.pc = "first" /\ q.insts # {} /\ UNCHANGED <<cache, Board!collectVars>> /\ request' = [request EXCEPT ![r] = o]
  BY <1>1, <1>2, <1>3, <1>4 DEF Board!ReadFirst, Board!Step, RowOf
<1>6. RequestShape(q) /\ Reads(collector, mapping, rates, q)
  BY <1>1 DEF QInv, RequestOk
<1>7. /\ DOMAIN o = RequestFields /\ o.pc = "second" /\ o.insts = q.insts /\ o.raced = q.raced /\ o.first = RowOf(rates, <<p[1], i>>)
      /\ o.ask = q.ask /\ o.known = q.known /\ o.todo = q.todo /\ o.tokens = q.tokens /\ o.pairs = q.pairs
  BY <1>4, <1>6 DEF RequestShape, RequestFields
<1>8. Board!All(o) = Board!All(q) /\ Board!Asks(o) = Board!Asks(q) /\ Board!Pair(o) = p
  BY <1>2, <1>7 DEF Board!All, Board!Asks, Board!Pair
<1>9. RequestShape(o)
  BY <1>5, <1>6, <1>7, <1>8 DEF RequestShape, Asking
<1>10. Builds(collector, mapping, rates, q, p)
  BY <1>2, <1>5, <1>6 DEF Reads
<1>11. Builds(collector, mapping, rates, o, p)
  BY <1>3, <1>7, <1>10 DEF Builds
<1>12. Reads(collector, mapping, rates, o) /\ Answers(o)
  BY <1>5, <1>6, <1>7, <1>8, <1>11 DEF Reads, Knows, Answers, Asking
<1> QED BY <1>5, <1>9, <1>12, CacheStays, RequestGoes DEF RequestOk

\* One instrument of those left.
One(first, R, p, i, s) ==
  IF first = <<>> \/ <<p[2], i>> \notin DOMAIN R THEN {} ELSE Board!Tokens(p, i, first[1], R[<<p[2], i>>], s)
LEMMA OverOne ==
  ASSUME NEW R, NEW p, NEW I, NEW s, NEW i \in I, NEW J, J = I \ {i}
  PROVE  Over(R, p, I, s) = One(RowOf(R, <<p[1], i>>), R, p, i, s) \cup Over(R, p, J, s)
<1>0. PICK X : X = One(RowOf(R, <<p[1], i>>), R, p, i, s)
  OBVIOUS
<1>1. CASE i \in Both(R, p, I)
  <2>1. RowOf(R, <<p[1], i>>) = <<R[<<p[1], i>>]>> /\ <<p[2], i>> \in DOMAIN R
    BY <1>1 DEF Both, RowOf
  <2>2. X = Board!Tokens(p, i, R[<<p[1], i>>], R[<<p[2], i>>], s)
    BY <1>0, <2>1 DEF One
  <2>3. Both(R, p, I) = Both(R, p, J) \cup {i}
    BY <1>1 DEF Both
  <2> QED BY <1>0, <2>2, <2>3 DEF Over
<1>2. CASE i \notin Both(R, p, I)
  <2>1. X = {}
    BY <1>0, <1>2 DEF Both, RowOf, One
  <2>2. Both(R, p, I) = Both(R, p, J)
    BY <1>2 DEF Both
  <2> QED BY <1>0, <2>1, <2>2 DEF Over
<1> QED BY <1>1, <1>2

LEMMA ReadSecondStep == ASSUME CInv, QInv, NEW r \in Requests, Board!ReadSecond(r) PROVE QInv'
<1>1. PICK q : q = request[r]
  OBVIOUS
<1>2. PICK p : p = Board!Pair(q)
  OBVIOUS
<1>3. PICK i : i = CHOOSE j \in q.insts : TRUE
  OBVIOUS
<1>4. PICK X : X = One(q.first, rates, p, i, q.ask.stale)
  OBVIOUS
<1>5. PICK J : J = q.insts \ {i}
  OBVIOUS
<1>6. PICK o : o = [q EXCEPT !.pc = "first", !.insts = J, !.tokens = q.tokens \cup X]
  OBVIOUS
<1>7. /\ q.pc = "second" /\ UNCHANGED <<cache, Board!collectVars>> /\ request' = [request EXCEPT ![r] = o]
  BY <1>1, <1>2, <1>3, <1>4, <1>5, <1>6 DEF Board!ReadSecond, Board!Step, One
<1>8. RequestShape(q) /\ Reads(collector, mapping, rates, q)
  BY <1>1 DEF QInv, RequestOk
<1>9. /\ DOMAIN o = RequestFields /\ o.pc = "first" /\ o.insts = J /\ o.raced = q.raced
      /\ o.ask = q.ask /\ o.known = q.known /\ o.todo = q.todo /\ o.tokens = q.tokens \cup X /\ o.pairs = q.pairs
  BY <1>6, <1>8 DEF RequestShape, RequestFields
<1>10. Board!All(o) = Board!All(q) /\ Board!Asks(o) = Board!Asks(q) /\ Board!Pair(o) = p
  BY <1>2, <1>9 DEF Board!All, Board!Asks, Board!Pair
<1>11. IsFiniteSet(X)
  BY <1>4, FS_EmptySet, FS_Singleton DEF One, Board!Tokens
<1>12. IsFiniteSet(q.tokens \cup X) /\ IsFiniteSet(J)
  BY <1>7, <1>8, <1>11, <1>5, FS_Union, FS_RemoveElement DEF RequestShape, Asking
<1>13. RequestShape(o)
  BY <1>7, <1>8, <1>9, <1>10, <1>12 DEF RequestShape, Asking
<1>14. Builds(collector, mapping, rates, q, p)
  BY <1>2, <1>7, <1>8 DEF Reads
<1>15. i \in q.insts
  BY <1>3, <1>7, <1>8 DEF RequestShape
<1>16. Builds(collector, mapping, rates, o, p)
  <2>1. CASE q.raced \/ Works(collector, p[1]) \/ Works(collector, p[2])
    BY <1>9, <2>1 DEF Builds
  <2>2. CASE ~(q.raced \/ Works(collector, p[1]) \/ Works(collector, p[2]))
    <3>1. /\ q.tokens \cup Over(rates, p, q.insts, q.ask.stale) = Now(mapping, rates, p, q.ask.stale)
          /\ q.first = RowOf(rates, <<p[1], i>>)
      BY <1>3, <1>7, <1>14, <2>2 DEF Builds
    <3>2. Over(rates, p, q.insts, q.ask.stale) = X \cup Over(rates, p, J, q.ask.stale)
      <4>1. Over(rates, p, q.insts, q.ask.stale)
              = One(RowOf(rates, <<p[1], i>>), rates, p, i, q.ask.stale) \cup Over(rates, p, J, q.ask.stale)
        BY <1>15, <1>5, OverOne
      <4> QED BY <1>4, <3>1, <4>1
    <3> QED BY <1>9, <3>1, <3>2 DEF Builds
  <2> QED BY <2>1, <2>2
<1>17. Reads(collector, mapping, rates, o) /\ Answers(o)
  BY <1>7, <1>8, <1>9, <1>10, <1>16 DEF Reads, Knows, Answers, Asking
<1> QED BY <1>7, <1>13, <1>17, CacheStays, RequestGoes DEF RequestOk

LEMMA CacheSetStep == ASSUME CInv, QInv, NEW r \in Requests, Board!CacheSet(r) PROVE QInv'
<1>1. PICK q : q = request[r]
  OBVIOUS
<1>2. PICK p : p = Board!Pair(q)
  OBVIOUS
<1>3. PICK k : k = Board!MakeKey(p)
  OBVIOUS
<1>4. PICK e : e = [tokens |-> q.tokens, pair |-> p, stale |-> q.ask.stale, raced |-> q.raced]
  OBVIOUS
<1>5. /\ q.pc = "first" /\ q.insts = {} /\ UNCHANGED Board!collectVars /\ cache' = Board!Written(cache, k, e)
      /\ request' = [request EXCEPT ![r] = Board!WithPair(q, q.tokens)]
  BY <1>1, <1>2, <1>3, <1>4 DEF Board!CacheSet, Board!Step
<1>6. RequestShape(q) /\ Reads(collector, mapping, rates, q)
  BY <1>1 DEF QInv, RequestOk
<1>7. IsFiniteSet(q.tokens) /\ q.todo # {} /\ Builds(collector, mapping, rates, q, p)
  BY <1>2, <1>5, <1>6 DEF RequestShape, Asking, Reads
<1>8. RequestOk(collector, mapping, rates, Board!WithPair(q, q.tokens))
  BY <1>5, <1>6, <1>7, PairDone DEF Asking
<1>9. InCache(collector, mapping, rates, k, e)
  <2>1. p[1] \in Venues /\ p[2] \in Venues
    BY <1>2, <1>5, <1>6, <1>7, PairIs DEF Asking
  <2>2. (k[1] = p[1] /\ k[2] = p[2]) \/ (k[1] = p[2] /\ k[2] = p[1])
    BY <1>3 DEF Board!MakeKey
  <2>3. Over(rates, p, {}, q.ask.stale) = {}
    BY DEF Over, Both
  <2>4. e.tokens = q.tokens /\ e.pair = p /\ e.stale = q.ask.stale /\ e.raced = q.raced
    BY <1>4
  <2>5. q.raced \/ Works(collector, p[1]) \/ Works(collector, p[2]) \/ q.tokens = Now(mapping, rates, p, q.ask.stale)
    BY <1>5, <1>7, <2>3 DEF Builds
  <2> QED BY <1>7, <2>1, <2>2, <2>4, <2>5 DEF InCache
<1>10. CacheOk(collector, mapping, rates, cache')
  <2>1. DOMAIN cache' = DOMAIN cache \cup {k} /\ \A x \in DOMAIN cache' : cache'[x] = IF x = k THEN e ELSE cache[x]
    BY <1>5 DEF Board!Written
  <2> QED BY <1>9, <2>1 DEF CacheOk, QInv
<1> QED BY <1>5, <1>8, <1>10, RequestGoes

LEMMA AnswerStep == ASSUME CInv, QInv, NEW r \in Requests, Board!Answer(r) PROVE QInv'
<1>1. PICK q : q = request[r]
  OBVIOUS
<1>2. PICK order \in Board!Orders(q) :
        request' = [request EXCEPT ![r] = [q EXCEPT !.pc = "answered", !.first = order,
                                             !.tokens = Board!Paginated(order, Board!Offset(q.ask), Board!LimitOf(q.ask))]]
  BY <1>1 DEF Board!Answer, Board!Step
<1>3. PICK o : o = [q EXCEPT !.pc = "answered", !.first = order,
                             !.tokens = Board!Paginated(order, Board!Offset(q.ask), Board!LimitOf(q.ask))]
  OBVIOUS
<1>4. q.pc = "pair" /\ UNCHANGED <<cache, Board!collectVars>>
  BY <1>1 DEF Board!Answer, Board!Step
<1>5. RequestShape(q)
  BY <1>1 DEF QInv, RequestOk
<1>6. /\ DOMAIN o = RequestFields /\ o.pc = "answered" /\ o.raced = q.raced /\ o.ask = q.ask /\ o.pairs = q.pairs
      /\ o.first = order /\ o.tokens = Board!Paginated(order, Board!Offset(q.ask), Board!LimitOf(q.ask))
  BY <1>3, <1>5 DEF RequestShape, RequestFields
<1>7. Board!All(o) = Board!All(q)
  BY <1>6 DEF Board!All
<1>8. RequestShape(o)
  BY <1>4, <1>5, <1>6, <1>7 DEF RequestShape, Asking
<1>9. Board!Orders(o) = Board!Orders(q)
  <2>1. Board!Symbols(o) = Board!Symbols(q)
    BY <1>7 DEF Board!Symbols
  <2>2. \A s : Board!Best(o, s) = Board!Best(q, s)
    BY <1>6, <1>7 DEF Board!Best, Board!SortValue
  <2> QED BY <2>1, <2>2 DEF Board!Orders
<1>10. Reads(collector, mapping, rates, o) /\ Answers(o)
  BY <1>6, <1>9 DEF Reads, Answers, Asking
<1> QED BY <1>2, <1>3, <1>4, <1>8, <1>10, CacheStays, RequestGoes DEF RequestOk

---------------------------------------------------------------------------
(* What the board promises.                                                *)

LEMMA TablesFollowNow == ASSUME CInv, QInv PROVE Board!BoardFollows
<1>1. Board!CacheFollowsRows
  <2>1. ASSUME NEW k \in DOMAIN cache
        PROVE  \/ cache[k].raced \/ Board!Busy(k[1]) \/ Board!Busy(k[2])
               \/ cache[k].tokens = Board!Current(cache[k].pair, cache[k].stale)
    BY CurrentIs DEF QInv, CacheOk, InCache, Works, Board!Busy
  <2> QED BY <2>1 DEF Board!CacheFollowsRows
<1>2. Board!RowsFollowReadings
  <2>1. ASSUME NEW v \in Venues, collector[v].pc = "drop", NEW i \in Lines(v), i \notin collector[v].lost
        PROVE  \E inst \in instruments :
                 /\ inst[1] = Base(v, i) /\ <<v, inst>> \in DOMAIN rates
                 /\ (\A j \in Lines(v) : j > i => Base(v, j) # Base(v, i))
                      => rates[<<v, inst>>].rate = collector[v].reading[i] /\ rates[<<v, inst>>].age < 2
    <3>1. Past(collector[v], v) = Lines(v)
      BY <2>1 DEF Past
    <3>2. Kept(collector[v], instruments, rates, v, i)
      BY <2>1, <3>1 DEF CInv, Goes
    <3> QED BY <3>1, <3>2 DEF Kept
  <2> QED BY <2>1 DEF Board!RowsFollowReadings, Lines, Base
<1>3. ASSUME NEW i \in instruments, NEW j \in instruments, i[1] = j[1], {i[2], j[2]} \subseteq Board!Dollars PROVE i = j
  <2>1. i = <<i[1], i[2]>> /\ j = <<j[1], j[2]>> /\ i[2] \notin Board!StableCoins /\ j[2] \notin Board!StableCoins
    BY DEF CInv, Tables, IsInst
  <2>2. i[2] = "USD" /\ j[2] = "USD"
    BY <1>3, <2>1 DEF Board!Dollars
  <2> QED BY <1>3, <2>1, <2>2
<1> QED BY <1>1, <1>2, <1>3 DEF Board!BoardFollows

LEMMA ProductGrows == \A a, b, c \in Nat : a <= b => a * c <= b * c
<1> TAKE a, b, c \in Nat
<1> HAVE a <= b
<1>1. PICK d \in Nat : b = a + d
  <2>1. b - a \in Nat /\ b = a + (b - a)
    OBVIOUS
  <2> QED BY <2>1
<1>2. b * c = a * c + d * c /\ d * c \in Nat /\ a * c \in Nat
  BY <1>1
<1> QED BY <1>2

\* A place is in one page.
LEMMA DivideIs ==
  ASSUME NEW x \in Nat, NEW l \in Nat \ {0}
  PROVE  x \div l \in Nat /\ (x \div l) * l <= x /\ x < (x \div l) * l + l
OBVIOUS

PageOf(i, l) == (i - 1) \div l + 1
LEMMA PageIs ==
  ASSUME NEW l \in Nat \ {0}, NEW i \in Nat \ {0}
  PROVE  /\ PageOf(i, l) \in Nat \ {0} /\ (PageOf(i, l) - 1) * l < i /\ i <= (PageOf(i, l) - 1) * l + l
         /\ \A p \in Nat \ {0} : (p - 1) * l < i /\ i <= (p - 1) * l + l => p = PageOf(i, l)
<1>1. PICK d : d = (i - 1) \div l
  OBVIOUS
<1>2. d \in Nat /\ d * l <= i - 1 /\ i - 1 < d * l + l /\ PageOf(i, l) = d + 1
  BY <1>1, DivideIs DEF PageOf
<1>3. d * l \in Nat /\ l \in Nat
  BY <1>2
<1>4. (d + 1 - 1) * l = d * l
  BY <1>2
<1>5. ASSUME NEW p \in Nat \ {0}, (p - 1) * l < i, i <= (p - 1) * l + l PROVE p = d + 1
  <2>1. PICK e \in Nat : e = p - 1
    OBVIOUS
  <2>2. e * l < i /\ i <= e * l + l /\ e * l \in Nat
    BY <1>5, <2>1
  <2>3. CASE e < d
    <3>1. (e + 1) * l <= d * l /\ (e + 1) * l = e * l + l
      BY <1>2, <2>1, <2>3, ProductGrows
    <3> QED BY <1>2, <1>3, <2>2, <3>1
  <2>4. CASE d < e
    <3>1. (d + 1) * l <= e * l /\ (d + 1) * l = d * l + l
      BY <1>2, <2>1, <2>4, ProductGrows
    <3> QED BY <1>2, <1>3, <2>2, <3>1
  <2> QED BY <1>2, <2>1, <2>3, <2>4
<1> QED BY <1>2, <1>3, <1>4, <1>5

LEMMA TotalIs ==
  ASSUME NEW n \in Nat, NEW l \in Nat \ {0}, NEW t, t = Board!ComputeTotalPages(n, l)
  PROVE  /\ t \in Nat /\ n <= t * l /\ (t # 0 => (t - 1) * l < n)
         /\ \A p \in Nat \ {0} : (p - 1) * l < n <=> p <= t
<1>1. CASE n = 0
  <2>1. t = 0
    BY <1>1 DEF Board!ComputeTotalPages
  <2>2. \A p \in Nat \ {0} : (p - 1) * l \in Nat
    OBVIOUS
  <2> QED BY <1>1, <2>1, <2>2
<1>2. CASE n # 0
  <2>1. t = (n + l - 1) \div l /\ n + l - 1 \in Nat
    BY <1>2 DEF Board!ComputeTotalPages
  <2>2. t \in Nat /\ t * l <= n + l - 1 /\ n + l - 1 < t * l + l /\ t * l \in Nat
    BY <2>1, DivideIs
  <2>3. t # 0
    BY <1>2, <2>2
  <2>4. (t - 1) * l = t * l - l
    BY <2>2
  <2>5. n <= t * l /\ (t - 1) * l < n
    BY <2>2, <2>4
  <2>6. ASSUME NEW p \in Nat \ {0} PROVE (p - 1) * l < n <=> p <= t
    <3>1. p - 1 \in Nat /\ t - 1 \in Nat /\ (p - 1) * l \in Nat /\ (t - 1) * l \in Nat
      BY <2>2, <2>3
    <3>2. CASE p <= t
      <4>1. (p - 1) * l <= (t - 1) * l
        BY <2>2, <3>1, <3>2, ProductGrows
      <4> QED BY <2>5, <3>1, <3>2, <4>1
    <3>3. CASE t <= p - 1
      <4>1. t * l <= (p - 1) * l
        BY <2>2, <3>1, <3>3, ProductGrows
      <4> QED BY <2>2, <2>5, <3>1, <3>3, <4>1
    <3> QED BY <2>2, <3>2, <3>3
  <2> QED BY <2>2, <2>5, <2>6
<1> QED BY <1>1, <1>2

LEMMA SameCardinality == \A S : Board!Cardinality(S) = Cardinality(S)
BY DEF Board!Cardinality, Cardinality

LEMMA SymbolsFinite == ASSUME NEW q, IsFiniteSet(Board!All(q)) PROVE IsFiniteSet(Board!Symbols(q))
<1> DEFINE f == [t \in Board!All(q) |-> t.symbol]
<1>1. f \in Surjection(Board!All(q), Board!Symbols(q))
  BY DEF Surjection, Board!Symbols
<1> HIDE DEF f
<1> QED BY <1>1, FS_Surjection

\* An order names every symbol, at one place.
LEMMA OrderIs ==
  ASSUME NEW q, IsFiniteSet(Board!All(q)), NEW o \in Board!Orders(q)
  PROVE  \E n \in Nat : /\ DOMAIN o = 1..n /\ Len(o) = n
                        /\ \A i \in 1..n : o[i] \in Board!Symbols(q)
                        /\ \A s \in Board!Symbols(q) : \E i \in 1..n : o[i] = s
                        /\ \A i, j \in 1..n : i < j => o[i] # o[j] /\ Board!Best(q, o[i]) >= Board!Best(q, o[j])
<1> DEFINE S == Board!Symbols(q)
           n == Cardinality(S)
<1>1. IsFiniteSet(S) /\ n \in Nat
  BY SymbolsFinite, FS_CardinalityType
<1>2. /\ o \in [1..n -> S] /\ DOMAIN o = 1..n
      /\ \A i, j \in 1..n : i < j => o[i] # o[j] /\ Board!Best(q, o[i]) >= Board!Best(q, o[j])
  <2>1. o \in [1..n -> S] /\ \A i, j \in DOMAIN o : i < j => o[i] # o[j] /\ Board!Best(q, o[i]) >= Board!Best(q, o[j])
    BY SameCardinality DEF Board!Orders
  <2> HIDE DEF S, n
  <2> QED BY <2>1
<1> HIDE DEF S
<1>3. o \in Injection(1..n, S)
  <2>1. \A i, j \in 1..n : o[i] = o[j] => i = j
    BY <1>1, <1>2
  <2> QED BY <1>2, <2>1 DEF Injection, IsInjective
<1>4. Cardinality(1..n) = n
  BY <1>1, FS_Interval
<1>5. o \in Surjection(1..n, S)
  BY <1>1, <1>3, <1>4, FS_Injection
<1>6. \A s \in S : \E i \in 1..n : o[i] = s
  BY <1>5 DEF Surjection
<1>7. o \in Seq(S) /\ Len(o) = n
  BY <1>1, <1>2
<1> QED BY <1>1, <1>2, <1>6, <1>7 DEF S

\* The places after one and up to another are as many as are between them.
LEMMA WindowIs ==
  ASSUME NEW o, NEW n \in Nat, DOMAIN o = 1..n, \A i, j \in 1..n : i < j => o[i] # o[j],
         NEW k \in Nat, NEW l \in Nat, k + l <= n
  PROVE  Cardinality(Board!Paginated(o, k, l)) = l
<1> DEFINE P == (k + 1)..(k + l)
           W == Board!Paginated(o, k, l)
           f == [i \in P |-> o[i]]
<1>1. IsFiniteSet(P) /\ Cardinality(P) = l
  <2>1. Cardinality(P) = IF k + 1 > k + l THEN 0 ELSE (k + l) - (k + 1) + 1
    BY FS_Interval
  <2> QED BY <2>1, FS_Interval
<1>2. \A i \in P : i \in 1..n /\ i > k /\ i <= k + l
  OBVIOUS
<1>3. W = {o[i] : i \in P}
  BY <1>2 DEF Board!Paginated
<1>4. f \in Surjection(P, W)
  BY <1>3 DEF Surjection
<1>5. f \in Injection(P, W)
  <2>1. \A i, j \in P : f[i] = f[j] => i = j
    BY <1>2
  <2>2. f \in [P -> W]
    BY <1>3
  <2> QED BY <2>1, <2>2 DEF Injection, IsInjective
<1> HIDE DEF P, W, f
<1> QED BY <1>1, <1>4, <1>5, FS_Surjection DEF W

PageAt(o, l, p) == Board!Paginated(o, (p - 1) * l, l)
Parted(q, o, l, t) ==
  /\ \A s \in Board!Symbols(q) : Cardinality({p \in 1..t : s \in PageAt(o, l, p)}) = 1
  /\ \A p \in 1..t : Board!HasMore(o, (p - 1) * l, l) = (p < t)
  /\ \A p \in 1..t : \A s \in PageAt(o, l, p), u \in PageAt(o, l, p + 1) : Board!Best(q, s) >= Board!Best(q, u)
  /\ UNION {UNION {Board!Shown(q, PageAt(o, l, p))[i] : i \in DOMAIN q.pairs} : p \in 1..t} = Board!All(q)
  /\ Board!HasMore(o, Board!Offset(q.ask), l) => Cardinality(q.tokens) = l

LEMMA ShownIs ==
  ASSUME NEW q, NEW W
  PROVE  UNION {Board!Shown(q, W)[i] : i \in DOMAIN q.pairs} = {x \in Board!All(q) : x.symbol \in W}
<1>1. \A i \in DOMAIN q.pairs : Board!Shown(q, W)[i] = {x \in q.pairs[i].tokens : x.symbol \in W}
  BY DEF Board!Shown
<1> QED BY <1>1 DEF Board!All

LEMMA PagesPartitionNow == ASSUME CInv, QInv PROVE Board!PagesPartition
<1> SUFFICES ASSUME NEW r \in Requests, request[r].pc = "answered"
             PROVE  Parted(request[r], request[r].first, Board!LimitOf(request[r].ask),
                           Board!ComputeTotalPages(Len(request[r].first), Board!LimitOf(request[r].ask)))
  BY SameCardinality DEF Board!PagesPartition, Parted, PageAt
<1>1. PICK q : q = request[r]
  OBVIOUS
<1>2. RequestShape(q) /\ Answers(q) /\ q.pc = "answered"
  BY <1>1 DEF QInv, RequestOk
<1>3. PICK o : o = q.first
  OBVIOUS
<1>4. PICK l : l = Board!LimitOf(q.ask)
  OBVIOUS
<1>5. PICK k : k = Board!Offset(q.ask)
  OBVIOUS
<1>6. l \in Nat \ {0} /\ k \in Nat
  <2>1. q.ask.limit \in Int /\ q.ask.page \in Int /\ q.ask.offset \in Int
    BY <1>2, BoardAssumption DEF Board!BoardAssumption, RequestShape
  <2>2. q.ask.limit \in 0..200 /\ q.ask.page >= 0 /\ (q.ask.page = 0 => q.ask.offset >= 0)
    BY <1>2, <2>1 DEF RequestShape, Board!Refused
  <2>3. l \in Nat \ {0}
    BY <1>4, <2>2 DEF Board!LimitOf
  <2>4. q.ask.page # 0 => q.ask.page - 1 \in Nat /\ (q.ask.page - 1) * l \in Nat
    BY <2>1, <2>2, <2>3
  <2> QED BY <1>4, <1>5, <2>1, <2>2, <2>3, <2>4 DEF Board!Offset
<1>7. o \in Board!Orders(q) /\ q.tokens = Board!Paginated(o, k, l)
  BY <1>2, <1>3, <1>4, <1>5 DEF Answers
<1>8. PICK n \in Nat : /\ DOMAIN o = 1..n /\ Len(o) = n
                       /\ \A i \in 1..n : o[i] \in Board!Symbols(q)
                       /\ \A s \in Board!Symbols(q) : \E i \in 1..n : o[i] = s
                       /\ \A i, j \in 1..n : i < j => o[i] # o[j] /\ Board!Best(q, o[i]) >= Board!Best(q, o[j])
  BY <1>2, <1>7, OrderIs DEF RequestShape
<1>9. PICK t : t = Board!ComputeTotalPages(n, l)
  OBVIOUS
<1>10. t \in Nat /\ n <= t * l /\ \A p \in Nat \ {0} : (p - 1) * l < n <=> p <= t
  BY <1>6, <1>9, TotalIs
<1> DEFINE Page(p) == PageAt(o, l, p)
<1>11. ASSUME NEW p \in Nat \ {0}, NEW s
       PROVE  s \in Page(p) <=> \E i \in 1..n : s = o[i] /\ (p - 1) * l < i /\ i <= (p - 1) * l + l
  <2>1. (p - 1) * l \in Nat /\ l \in Nat
    BY <1>6
  <2> QED BY <1>8, <2>1 DEF Board!Paginated, PageAt
<1>12. \A i \in 1..n : PageOf(i, l) \in 1..t
  <2> TAKE i \in 1..n
  <2>1. PageOf(i, l) \in Nat \ {0} /\ (PageOf(i, l) - 1) * l < i
    BY <1>6, PageIs
  <2>2. (PageOf(i, l) - 1) * l < n
    <3>1. (PageOf(i, l) - 1) * l \in Nat
      BY <1>6, <2>1
    <3> QED BY <2>1, <3>1
  <2> QED BY <1>10, <2>1, <2>2
<1>13. ASSUME NEW i \in 1..n, NEW p \in 1..t PROVE o[i] \in Page(p) <=> p = PageOf(i, l)
  <2>1. p \in Nat \ {0} /\ i \in Nat \ {0}
    BY <1>10
  <2>2. o[i] \in Page(p) <=> (p - 1) * l < i /\ i <= (p - 1) * l + l
    <3>1. \A j \in 1..n : o[i] = o[j] => i = j
      BY <1>8
    <3>2. o[i] \in Page(p) <=> \E j \in 1..n : o[i] = o[j] /\ (p - 1) * l < j /\ j <= (p - 1) * l + l
      BY <1>11, <2>1
    <3> QED BY <3>1, <3>2
  <2> QED BY <1>6, <2>1, <2>2, PageIs
<1> HIDE DEF Page
<1>14. ASSUME NEW s \in Board!Symbols(q) PROVE Cardinality({p \in 1..t : s \in Page(p)}) = 1
  <2>1. PICK i \in 1..n : o[i] = s
    BY <1>8
  <2>2. {p \in 1..t : s \in Page(p)} = {PageOf(i, l)}
    BY <1>12, <1>13, <2>1
  <2> QED BY <2>2, FS_Singleton
<1>15. ASSUME NEW p \in 1..t PROVE Board!HasMore(o, (p - 1) * l, l) = (p < t)
  <2>1. p \in Nat /\ p + 1 \in Nat \ {0} /\ (p + 1 - 1) * l = (p - 1) * l + l
    BY <1>6, <1>10
  <2>2. (p - 1) * l + l < n <=> p + 1 <= t
    BY <1>10, <2>1
  <2>3. p + 1 <= t <=> p < t
    BY <1>10, <2>1
  <2> QED BY <1>8, <2>2, <2>3 DEF Board!HasMore
<1>16. ASSUME NEW p \in 1..t, NEW s \in Page(p), NEW u \in Page(p + 1) PROVE Board!Best(q, s) >= Board!Best(q, u)
  <2>1. p \in Nat \ {0} /\ p + 1 \in Nat \ {0} /\ (p + 1 - 1) * l = (p - 1) * l + l /\ (p - 1) * l + l \in Nat
    BY <1>6, <1>10
  <2>2. PICK i \in 1..n : s = o[i] /\ i <= (p - 1) * l + l
    BY <1>11, <2>1
  <2>3. PICK j \in 1..n : u = o[j] /\ (p - 1) * l + l < j
    <3>1. \E j \in 1..n : u = o[j] /\ (p + 1 - 1) * l < j
      BY <1>11, <2>1
    <3> QED BY <2>1, <3>1
  <2>4. i < j
    BY <2>1, <2>2, <2>3
  <2> QED BY <1>8, <2>2, <2>3, <2>4
<1>17. UNION {UNION {Board!Shown(q, Page(p))[i] : i \in DOMAIN q.pairs} : p \in 1..t} = Board!All(q)
  <2>1. \A p : UNION {Board!Shown(q, Page(p))[i] : i \in DOMAIN q.pairs} = {x \in Board!All(q) : x.symbol \in Page(p)}
    BY ShownIs
  <2>2. ASSUME NEW x \in Board!All(q) PROVE \E p \in 1..t : x.symbol \in Page(p)
    <3>1. x.symbol \in Board!Symbols(q)
      BY DEF Board!Symbols
    <3>2. PICK i \in 1..n : o[i] = x.symbol
      BY <1>8, <3>1
    <3> QED BY <1>12, <1>13, <3>2
  <2> QED BY <2>1, <2>2
<1>18. Board!HasMore(o, k, l) => Cardinality(q.tokens) = l
  <2> SUFFICES ASSUME Board!HasMore(o, k, l) PROVE Cardinality(q.tokens) = l
    OBVIOUS
  <2>1. k + l <= n
    BY <1>6, <1>8 DEF Board!HasMore
  <2> QED BY <1>6, <1>7, <1>8, <2>1, WindowIs
<1> QED BY <1>1, <1>3, <1>4, <1>5, <1>8, <1>9, <1>14, <1>15, <1>16, <1>17, <1>18 DEF Page, Parted

LEMMA BoardStep == ASSUME CInv /\ QInv, [Board!BoardNext]_<<Board!collectVars, cache, request>> PROVE (CInv /\ QInv)'
<1>1. CASE Board!Cycle
  BY <1>1, CycleStep, CycleRequests
<1>2. CASE \E v \in Venues : \/ Board!Fetch(v) \/ Board!FindMapping(v) \/ Board!CreateInstrument(v) \/ Board!LinkInstrument(v)
                             \/ Board!StoreFunding(v) \/ Board!CollectorDone(v)
  BY <1>2, FetchStep, FindMappingStep, CreateStep, LinkStep, StoreStep, DoneStep, CollectorRequests
<1>3. CASE \E k \in DOMAIN rates : Board!RowAges(k)
  BY <1>3, AgesStep, AgesRequests
<1>4. ASSUME UNCHANGED Board!collectVars PROVE CInv'
  BY <1>4 DEF Board!collectVars, CInv, Tables
<1>5. CASE \E r \in Requests : \/ Board!Ask(r) \/ Board!FromCache(r) \/ Board!Build(r) \/ Board!ReadFirst(r)
                               \/ Board!ReadSecond(r) \/ Board!CacheSet(r) \/ Board!Answer(r)
  <2>1. PICK r \in Requests : \/ Board!Ask(r) \/ Board!FromCache(r) \/ Board!Build(r) \/ Board!ReadFirst(r)
                              \/ Board!ReadSecond(r) \/ Board!CacheSet(r) \/ Board!Answer(r)
    BY <1>5
  <2>2. QInv'
    BY <2>1, AskStep, FromCacheStep, BuildStep, ReadFirstStep, ReadSecondStep, CacheSetStep, AnswerStep
  <2>3. UNCHANGED Board!collectVars
    BY <2>1 DEF Board!Ask, Board!FromCache, Board!Build, Board!ReadFirst, Board!ReadSecond, Board!CacheSet, Board!Answer, Board!Step
  <2> QED BY <1>4, <2>2, <2>3
<1>6. CASE UNCHANGED <<Board!collectVars, cache, request>>
  BY <1>4, <1>6 DEF QInv, Board!collectVars
<1> QED BY <1>1, <1>2, <1>3, <1>5, <1>6 DEF Board!BoardNext

\* A cached pair and the rows are what the venues last said, a token has one
\* instrument, and the pages of an answer partition what it found: for any venues,
\* listings, readings and requests, and any number of cycles.
THEOREM BoardIsTrue == Board!BoardSpec => []BoardHolds
<1>1. Board!Init => CInv /\ QInv
  BY CollectorStarts, RequestsStart
<1>2. CInv /\ QInv => BoardHolds
  BY TablesFollowNow, PagesPartitionNow DEF BoardHolds, Board!BoardHolds
<1> QED BY <1>1, <1>2, BoardStep, PTL DEF Board!BoardSpec

---------------------------------------------------------------------------
(* What sequences hold.                                                    *)

LEMMA ElementOfSeq == ASSUME NEW S, NEW s \in Seq(S), NEW n \in 1..Len(s) PROVE s[n] \in S
OBVIOUS

LEMMA LenProperties == ASSUME NEW S, NEW s \in Seq(S) PROVE Len(s) \in Nat /\ DOMAIN s = 1..Len(s)
OBVIOUS

LEMMA EmptySeq == ASSUME NEW S, NEW s \in Seq(S), s # <<>> PROVE Len(s) \in Nat \ {0}
OBVIOUS

LEMMA HeadTailProperties ==
  ASSUME NEW S, NEW s \in Seq(S), s # <<>>
  PROVE  /\ Head(s) \in S /\ Head(s) = s[1] /\ Tail(s) \in Seq(S) /\ Len(Tail(s)) = Len(s) - 1
         /\ \A i \in 1..Len(Tail(s)) : Tail(s)[i] = s[i + 1]
OBVIOUS

LEMMA ConcatProperties ==
  ASSUME NEW S, NEW s \in Seq(S), NEW t \in Seq(S)
  PROVE  /\ s \o t \in Seq(S) /\ Len(s \o t) = Len(s) + Len(t)
         /\ \A i \in 1..(Len(s) + Len(t)) : (s \o t)[i] = IF i <= Len(s) THEN s[i] ELSE t[i - Len(s)]
OBVIOUS

LEMMA AppendProperties ==
  ASSUME NEW S, NEW s \in Seq(S), NEW x \in S
  PROVE  /\ Append(s, x) \in Seq(S) /\ Len(Append(s, x)) = Len(s) + 1 /\ Append(s, x)[Len(s) + 1] = x
         /\ \A i \in 1..Len(s) : Append(s, x)[i] = s[i]
OBVIOUS

---------------------------------------------------------------------------
(* The client of the live tabs: the gate and the pacer.                    *)

CallFields == {"pc", "kind", "tries", "until", "wake", "marks", "walk", "out", "calls", "cut", "err"}
\* The last times a call went upstream: spaced, and none after t.
SpacedTo(m, t) ==
  /\ m \in Seq(Int) /\ Len(m) <= 2 /\ \A i \in 1..Len(m) : m[i] <= t
  /\ Len(m) = 2 => m[2] - m[1] >= Floor
PacerOk(p, n) ==
  /\ DOMAIN p = {"current", "streak", "last"}
  /\ p.last \in Int /\ p.last <= n /\ p.current \in Int /\ p.streak \in Nat
  /\ Floor <= p.current /\ p.current <= Live!Higher(PacerBackoff, Floor)
Places(f) == {c \in Callers : f[c].pc \notin {"idle", "gate", "done"}}

LEMMA SameFinite == \A S : Live!IsFiniteSet(S) = IsFiniteSet(S)
BY DEF Live!IsFiniteSet, IsFiniteSet

LEMMA SameCount == \A S : Live!Cardinality(S) = Cardinality(S)
BY DEF Live!Cardinality, Cardinality

LEMMA LiveBounds ==
  /\ IsFiniteSet(Callers) /\ Concurrency \in Nat /\ PageSize \in Nat \ {0}
  /\ Floor \in Nat /\ PacerBackoff \in Nat /\ Second \in Nat /\ Timeout \in Nat /\ MinSlice \in Nat
  /\ Window \in Int \X Int
BY LiveAssumption, SameFinite DEF Live!LiveAssumption

LEMMA MarksLater ==
  ASSUME NEW m, NEW s \in Int, NEW t \in Int, SpacedTo(m, s), s <= t
  PROVE  SpacedTo(m, t)
BY DEF SpacedTo

\* The tail of a sequence and a sequence with one more, by their elements.
LEMMA TailIs ==
  ASSUME NEW S, NEW s \in Seq(S), s # <<>>, NEW u, u = Tail(s)
  PROVE  u \in Seq(S) /\ Len(u) = Len(s) - 1 /\ \A i \in 1..Len(u) : u[i] = s[i + 1]
<1>1. Tail(s) \in Seq(S)
  BY HeadTailProperties
<1>2. Len(Tail(s)) = Len(s) - 1
  BY HeadTailProperties
<1>3. \A i \in 1..Len(Tail(s)) : Tail(s)[i] = s[i + 1]
  BY HeadTailProperties
<1> QED BY <1>1, <1>2, <1>3

LEMMA AppendIs ==
  ASSUME NEW S, NEW s \in Seq(S), NEW x \in S, NEW u, u = Append(s, x)
  PROVE  u \in Seq(S) /\ Len(u) = Len(s) + 1 /\ u[Len(s) + 1] = x /\ \A i \in 1..Len(s) : u[i] = s[i]
<1>1. Append(s, x) \in Seq(S)
  BY AppendProperties
<1>2. Len(Append(s, x)) = Len(s) + 1
  BY AppendProperties
<1>3. \A i \in 1..Len(s) : Append(s, x)[i] = s[i]
  BY AppendProperties
<1>4. Append(s, x)[Len(s) + 1] = x
  BY AppendProperties
<1> QED BY <1>1, <1>2, <1>3, <1>4

LEMMA BelowTwo == ASSUME NEW k \in Nat, k <= 2, k # 2 PROVE k = 0 \/ k = 1
OBVIOUS

LEMMA NoLater == ASSUME NEW x \in Int, NEW t \in Int, NEW n \in Int, NEW d \in Nat, x <= t, t + d <= n PROVE x + d <= n
OBVIOUS

LEMMA OneTwo == ASSUME NEW a, NEW k, k = 1, NEW n, a[k + 1] = n, NEW v, \A i \in 1..k : a[i] = v[i] PROVE a[2] = n /\ a[1] = v[1]
<1>1. 1 \in 1..k /\ k + 1 = 2
  OBVIOUS
<1> QED BY <1>1

LEMMA TwoAre ==
  ASSUME NEW a \in Seq(Int), NEW k, k = Len(a), k = 2, NEW x \in Int, NEW n \in Int, a[1] = x, a[2] = n, x + Floor <= n
  PROVE  SpacedTo(a, n)
<1>1. Floor \in Nat
  BY LiveBounds
<1>2. \A i \in 1..2 : i = 1 \/ i = 2
  OBVIOUS
<1>3. x <= n /\ n - x >= Floor
  BY <1>1
<1>4. \A i \in 1..k : a[i] <= n
  BY <1>2, <1>3
<1> QED BY <1>3, <1>4 DEF SpacedTo

LEMMA OneIs == ASSUME NEW a \in Seq(Int), NEW k, k = Len(a), k = 1, NEW n \in Int, a[1] = n PROVE SpacedTo(a, n)
<1>1. \A i \in 1..1 : i = 1
  OBVIOUS
<1> QED BY <1>1 DEF SpacedTo

\* The times of a call stay spaced when one more is marked, a floor after the last.
LEMMA OneMore ==
  ASSUME NEW m, NEW t \in Int, NEW n \in Int, SpacedTo(m, t), t + Floor <= n,
         NEW v, v = IF Len(m) = 2 THEN Tail(m) ELSE m, NEW a, a = Append(v, n)
  PROVE  SpacedTo(a, n)
<1>1. Floor \in Nat
  BY LiveBounds
<1>2. m \in Seq(Int) /\ Len(m) <= 2 /\ (\A i \in 1..Len(m) : m[i] <= t) /\ Len(m) \in Nat
  BY DEF SpacedTo
<1>3. v \in Seq(Int) /\ (Len(v) = 0 \/ (Len(v) = 1 /\ v[1] \in Int /\ v[1] <= t))
  <2>1. CASE Len(m) = 2
    <3>1. m # <<>> /\ v = Tail(m)
      BY <2>1
    <3>2. v \in Seq(Int) /\ Len(v) = Len(m) - 1 /\ \A i \in 1..Len(v) : v[i] = m[i + 1]
      BY <1>2, <3>1, TailIs
    <3>3. Len(v) = 1
      BY <2>1, <3>2
    <3>4. v[1] = m[1 + 1]
      BY <3>2, <3>3
    <3>5. m[1 + 1] \in Int /\ m[1 + 1] <= t
      <4>1. 1 + 1 \in 1..Len(m)
        BY <2>1
      <4> QED BY <1>2, <4>1, ElementOfSeq
    <3> QED BY <3>2, <3>3, <3>4, <3>5
  <2>2. CASE Len(m) # 2
    <3>1. v = m
      BY <2>2
    <3>2. Len(m) = 0 \/ Len(m) = 1
      BY <1>2, <2>2, BelowTwo
    <3>3. CASE Len(m) = 1
      <4>1. 1 \in 1..Len(m)
        BY <3>3
      <4>2. m[1] <= t /\ m[1] \in Int
        BY <1>2, <4>1, ElementOfSeq
      <4> QED BY <1>2, <3>1, <3>3, <4>2
    <3> QED BY <1>2, <3>1, <3>2, <3>3
  <2> QED BY <2>1, <2>2
<1>4. a \in Seq(Int) /\ Len(a) = Len(v) + 1 /\ a[Len(v) + 1] = n /\ \A i \in 1..Len(v) : a[i] = v[i]
  BY <1>3, AppendIs
<1>5. ASSUME Len(v) = 0 PROVE SpacedTo(a, n)
  <2>1. Len(a) = 1 /\ a[1] = n
    BY <1>4, <1>5
  <2> QED BY <1>4, <2>1, OneIs
<1>6. ASSUME Len(v) = 1, v[1] \in Int, v[1] <= t PROVE SpacedTo(a, n)
  <2>1. PICK x \in Int : x = v[1] /\ x <= t
    BY <1>6
  <2>2. PICK k : k = Len(v)
    OBVIOUS
  <2>3. k = 1 /\ Len(a) = k + 1 /\ a[k + 1] = n /\ \A i \in 1..k : a[i] = v[i]
    BY <1>4, <1>6, <2>2
  <2>4. a[2] = n /\ a[1] = x
    BY <2>1, <2>3, OneTwo
  <2>6. Len(a) = 2
    BY <2>3
  <2>5. x + Floor <= n
    BY <1>1, <2>1, NoLater
  <2> QED BY <1>4, <2>1, <2>4, <2>5, <2>6, TwoAre
<1> QED BY <1>3, <1>5, <1>6

LEMMA MarkedIs ==
  ASSUME NEW r, DOMAIN r = CallFields, NEW t \in Int, SpacedTo(r.marks, t), now \in Int, t + Floor <= now
  PROVE  /\ DOMAIN Live!Marked(r) = CallFields /\ Live!Marked(r).pc = "send"
         /\ SpacedTo(Live!Marked(r).marks, now)
         /\ \A x \in CallFields \ {"pc", "marks"} : Live!Marked(r)[x] = r[x]
<1>0. PICK v : v = IF Len(r.marks) = 2 THEN Tail(r.marks) ELSE r.marks
  OBVIOUS
<1>3. PICK a : a = Append(v, now)
  OBVIOUS
<1>1. SpacedTo(a, now)
  BY <1>0, <1>3, OneMore
<1>2. Live!Marked(r) = [r EXCEPT !.pc = "send", !.marks = a]
  BY <1>0, <1>3 DEF Live!Marked
<1> QED BY <1>1, <1>2 DEF CallFields

LEMMA SlowerIs ==
  ASSUME NEW p, NEW n, PacerOk(p, n), NEW reply
  PROVE  LET q == Live!NoteStatus(p, reply) IN PacerOk(q, n) /\ q.last = p.last
<1>1. Floor \in Nat /\ PacerBackoff \in Nat /\ Second \in Nat
  BY LiveBounds
<1>2. PacerOk(Live!Backoff(p), n) /\ Live!Backoff(p).last = p.last
  BY <1>1 DEF PacerOk, Live!Backoff, Live!Higher, Live!Lower
<1>3. PacerOk(Live!Success(p), n) /\ Live!Success(p).last = p.last
  BY <1>1 DEF PacerOk, Live!Success, Live!Higher
<1> QED BY <1>2, <1>3 DEF Live!NoteStatus

---------------------------------------------------------------------------
(* The slices of a window, and what a page is.                             *)

\* Head, Tail and \o by names of their own, for lemmas to be applied to.
First(s) == Head(s)
Rest(s) == Tail(s)
Chained(s, t) == s \o t

LEMMA RowsOfTail ==
  ASSUME NEW S, NEW s \in Seq(S), s # <<>>
  PROVE  /\ Rest(s) \in Seq(S) /\ First(s) \in S
         /\ Live!Rows(s) = {First(s)} \cup Live!Rows(Rest(s))
<1>0. PICK u : u = Tail(s)
  OBVIOUS
<1>1. u \in Seq(S) /\ Len(u) = Len(s) - 1 /\ \A i \in 1..Len(u) : u[i] = s[i + 1]
  BY <1>0, TailIs
<1>2. Head(s) \in S /\ Head(s) = s[1] /\ Len(s) \in Nat \ {0}
  BY HeadTailProperties, EmptySeq
<1>3. DOMAIN s = 1..Len(s) /\ DOMAIN u = 1..Len(u)
  BY <1>1, LenProperties
<1>4. PICK n \in Nat \ {0} : n = Len(s)
  BY <1>2
<1>5. DOMAIN s = 1..n /\ DOMAIN u = 1..(n - 1) /\ \A i \in 1..(n - 1) : u[i] = s[i + 1]
  BY <1>1, <1>3, <1>4
<1>6. ASSUME NEW x \in Live!Rows(s) PROVE x = Head(s) \/ x \in Live!Rows(u)
  <2>1. PICK i \in 1..n : x = s[i]
    BY <1>5 DEF Live!Rows
  <2>2. CASE i = 1
    BY <1>2, <2>1, <2>2
  <2>3. CASE i # 1
    <3>1. i - 1 \in 1..(n - 1) /\ (i - 1) + 1 = i
      BY <2>3
    <3>2. u[i - 1] = s[i]
      BY <1>5, <3>1
    <3> QED BY <1>5, <2>1, <3>1, <3>2 DEF Live!Rows
  <2> QED BY <2>2, <2>3
<1>7. ASSUME NEW x \in Live!Rows(u) PROVE x \in Live!Rows(s)
  <2>1. PICK i \in 1..(n - 1) : x = u[i]
    BY <1>5 DEF Live!Rows
  <2>2. i + 1 \in 1..n
    BY <2>1
  <2> QED BY <1>5, <2>1, <2>2 DEF Live!Rows
<1>8. Head(s) \in Live!Rows(s)
  BY <1>2, <1>3 DEF Live!Rows
<1>9. Rest(s) = u /\ First(s) = Head(s)
  BY <1>0 DEF Rest, First
<1> QED BY <1>1, <1>2, <1>6, <1>7, <1>8, <1>9

LEMMA RowsOfChained ==
  ASSUME NEW S, NEW s \in Seq(S), NEW t \in Seq(S)
  PROVE  Chained(s, t) \in Seq(S) /\ Live!Rows(Chained(s, t)) = Live!Rows(s) \cup Live!Rows(t)
<1>0. PICK u : u = s \o t
  OBVIOUS
<1>1. u \in Seq(S) /\ Len(u) = Len(s) + Len(t)
  BY <1>0, ConcatProperties
<1>2. \A i \in 1..(Len(s) + Len(t)) : u[i] = IF i <= Len(s) THEN s[i] ELSE t[i - Len(s)]
  BY <1>0, ConcatProperties
<1>3. DOMAIN u = 1..Len(u) /\ DOMAIN s = 1..Len(s) /\ DOMAIN t = 1..Len(t) /\ Len(s) \in Nat /\ Len(t) \in Nat
  BY <1>1, LenProperties
<1>4. PICK m \in Nat, n \in Nat : m = Len(s) /\ n = Len(t)
  BY <1>3
<1>5. DOMAIN u = 1..(m + n) /\ DOMAIN s = 1..m /\ DOMAIN t = 1..n
  BY <1>1, <1>3, <1>4
<1>6. \A i \in 1..(m + n) : u[i] = IF i <= m THEN s[i] ELSE t[i - m]
  BY <1>2, <1>4
<1>7. ASSUME NEW x \in Live!Rows(u) PROVE x \in Live!Rows(s) \cup Live!Rows(t)
  <2>1. PICK i \in 1..(m + n) : x = u[i]
    BY <1>5 DEF Live!Rows
  <2>2. CASE i <= m
    <3>1. i \in 1..m
      BY <2>2
    <3> QED BY <1>5, <1>6, <2>1, <2>2, <3>1 DEF Live!Rows
  <2>3. CASE ~(i <= m)
    <3>1. i - m \in 1..n
      BY <2>3
    <3> QED BY <1>5, <1>6, <2>1, <2>3, <3>1 DEF Live!Rows
  <2> QED BY <2>2, <2>3
<1>8. ASSUME NEW x \in Live!Rows(s) PROVE x \in Live!Rows(u)
  <2>1. PICK i \in 1..m : x = s[i]
    BY <1>5 DEF Live!Rows
  <2>2. i \in 1..(m + n) /\ i <= m
    BY <2>1
  <2> QED BY <1>5, <1>6, <2>1, <2>2 DEF Live!Rows
<1>9. ASSUME NEW x \in Live!Rows(t) PROVE x \in Live!Rows(u)
  <2>1. PICK i \in 1..n : x = t[i]
    BY <1>5 DEF Live!Rows
  <2>2. i + m \in 1..(m + n) /\ ~(i + m <= m) /\ (i + m) - m = i
    BY <2>1
  <2>3. u[i + m] = t[i]
    BY <1>6, <2>2
  <2> QED BY <1>5, <2>1, <2>2, <2>3 DEF Live!Rows
<1>10. Chained(s, t) = u
  BY <1>0 DEF Chained
<1> QED BY <1>1, <1>7, <1>8, <1>9, <1>10

\* The fills of a book in a span of time.
Within(w, s, e) == {f \in w : s <= f.time /\ f.time <= e}

LEMMA SliceIs == \A s, e : Live!Slice(s, e) = Within(wallet, s, e)
BY DEF Live!Slice, Within

LEMMA BookIs ==
  ASSUME NEW w \in Books
  PROVE  /\ IsFiniteSet(w) /\ \A f \in w : f.tid \in Nat /\ f.time \in Int
         /\ \A f, g \in w : f.tid = g.tid => f = g
BY LiveAssumption, SameFinite DEF Live!LiveAssumption

LEMMA CountTo == ASSUME NEW n \in Nat PROVE IsFiniteSet(1..n) /\ Cardinality(1..n) = n
BY FS_Interval

\* Fills in a strict order are all different, so as many as a set holds are the set.
LEMMA AllOfThem ==
  ASSUME NEW S, IsFiniteSet(S), NEW n, n = Cardinality(S), NEW f \in [1..n -> S],
         \A i, j \in 1..n : f[i] = f[j] => i = j
  PROVE  Live!Rows(f) = S
<1>1. n \in Nat /\ IsFiniteSet(1..n) /\ Cardinality(1..n) = n
  <2>1. n \in Nat
    BY FS_CardinalityType
  <2> QED BY <2>1, CountTo
<1>2. f \in Injection(1..n, S)
  BY DEF Injection, IsInjective
<1>3. f \in Surjection(1..n, S)
  BY <1>1, <1>2, FS_Injection
<1>4. \A x \in S : \E i \in 1..n : f[i] = x
  BY <1>3 DEF Surjection
<1>5. DOMAIN f = 1..n
  OBVIOUS
<1> QED BY <1>4, <1>5 DEF Live!Rows

\* A page that is not full holds the slice it was asked for.
LEMMA FillsOf ==
  ASSUME NEW w \in Books, wallet = w, NEW s, NEW e, NEW page \in Live!Page(s, e)
  PROVE  /\ page \in Seq(w) /\ Live!Rows(page) \subseteq Within(w, s, e)
         /\ Len(page) < PageSize => Live!Rows(page) = Within(w, s, e)
<1>1. PICK S : S = Within(w, s, e)
  OBVIOUS
<1>2. S \subseteq w /\ IsFiniteSet(S) /\ Cardinality(S) \in Nat
  BY <1>1, BookIs, FS_Subset, FS_CardinalityType DEF Within
<1>3. PICK n : n = Live!Lower(Cardinality(S), PageSize)
  OBVIOUS
<1>4. page \in [1..n -> S] /\ \A i, j \in DOMAIN page : i < j => Live!Earlier(page[j], page[i])
  BY <1>1, <1>3, SliceIs, SameCount DEF Live!Page
<1>5. n \in Nat /\ (n < PageSize => n = Cardinality(S))
  BY <1>2, <1>3, LiveBounds DEF Live!Lower
<1>6. DOMAIN page = 1..n
  BY <1>4
<1>7. page \in Seq(w) /\ Len(page) = n
  BY <1>2, <1>4, <1>5
<1>8. Live!Rows(page) \subseteq S
  BY <1>4, <1>6 DEF Live!Rows
<1>9. ASSUME n < PageSize PROVE Live!Rows(page) = S
  <2>1. ASSUME NEW i \in 1..n, NEW j \in 1..n, page[i] = page[j] PROVE i = j
    <3>1. PICK f \in w : f = page[i] /\ f = page[j]
      BY <1>2, <1>4, <2>1
    <3>2. f.time \in Int /\ f.tid \in Nat
      BY BookIs
    <3>3. ~Live!Earlier(f, f)
      BY <3>2 DEF Live!Earlier
    <3>4. ~(i < j) /\ ~(j < i)
      BY <1>4, <1>6, <3>1, <3>3
    <3> QED BY <1>5, <3>4
  <2> QED BY <1>2, <1>4, <1>5, <1>9, <2>1, AllOfThem
<1> QED BY <1>1, <1>7, <1>8, <1>9

\* Duplicates dropped, each fill is there once, and in order.
LEMMA DedupedIs ==
  ASSUME NEW w \in Books, NEW out \in Seq(w), NEW fills \in Live!Deduped(out)
  PROVE  /\ fills \in Seq(w) /\ Live!Rows(fills) = Live!Rows(out)
         /\ \A i \in 1..(Len(fills) - 1) : Live!Earlier(fills[i], fills[i + 1])
<1>1. PICK F : F = Live!Firsts(out)
  OBVIOUS
<1>2. PICK k \in Nat : k = Len(out) /\ DOMAIN out = 1..k
  BY LenProperties
<1>3. F \subseteq 1..k /\ IsFiniteSet(F)
  <2>1. F \subseteq 1..k
    BY <1>1, <1>2 DEF Live!Firsts
  <2> QED BY <2>1, CountTo, FS_Subset
<1>4. PICK n \in Nat : n = Cardinality(F)
  BY <1>3, FS_CardinalityType
<1>5. PICK o \in [1..n -> F] : /\ fills = [i \in DOMAIN o |-> out[o[i]]]
                               /\ \A i, j \in DOMAIN o : i < j => Live!Earlier(out[o[i]], out[o[j]])
  BY <1>1, <1>4, SameCount DEF Live!Deduped
<1>6. DOMAIN o = 1..n /\ DOMAIN fills = 1..n /\ \A i \in 1..n : fills[i] = out[o[i]] /\ o[i] \in F
  BY <1>5
<1>7. \A i \in 1..k : out[i] \in w
  BY <1>2, ElementOfSeq
<1>8. fills \in Seq(w) /\ Len(fills) = n
  <2>1. \A i \in 1..n : fills[i] \in w
    BY <1>3, <1>6, <1>7
  <2>2. fills \in [1..n -> w]
    BY <1>5, <1>6, <2>1
  <2> QED BY <2>2
<1>9. Live!Rows(o) = F
  <2>1. ASSUME NEW i \in 1..n, NEW j \in 1..n, o[i] = o[j] PROVE i = j
    <3>1. PICK f \in w : f = out[o[i]] /\ f = out[o[j]]
      BY <1>3, <1>6, <1>7, <2>1
    <3>2. f.time \in Int /\ f.tid \in Nat
      BY BookIs
    <3>3. ~Live!Earlier(f, f)
      BY <3>2 DEF Live!Earlier
    <3>4. ~(i < j) /\ ~(j < i)
      BY <1>5, <1>6, <3>1, <3>3
    <3> QED BY <3>4
  <2> QED BY <1>3, <1>4, <2>1, AllOfThem
<1>10. Live!Rows(fills) \subseteq Live!Rows(out)
  BY <1>2, <1>3, <1>6 DEF Live!Rows
<1>11. ASSUME NEW f \in Live!Rows(out) PROVE f \in Live!Rows(fills)
  <2>1. PICK i \in 1..k : f = out[i]
    BY <1>2 DEF Live!Rows
  <2>2. PICK T : T = {j \in 1..k : out[j].tid = f.tid}
    OBVIOUS
  <2>3. T \in SUBSET Nat /\ T # {}
    BY <2>1, <2>2
  <2>4. PICK m \in T : \A j \in T : m <= j
    BY <2>3, LeastExists
  <2>5. m \in 1..k /\ out[m].tid = f.tid
    BY <2>2, <2>4
  <2>6. ASSUME NEW j \in 1..(m - 1) PROVE out[j].tid # out[m].tid
    <3>1. j \in 1..k /\ ~(m <= j)
      BY <2>5
    <3> QED BY <2>2, <2>4, <2>5, <3>1
  <2>7. m \in F
    BY <1>1, <1>2, <2>5, <2>6 DEF Live!Firsts
  <2>8. out[m] = f
    BY <1>7, <2>1, <2>5, BookIs
  <2>9. PICK i2 \in 1..n : o[i2] = m
    BY <1>6, <1>9, <2>7 DEF Live!Rows
  <2> QED BY <1>6, <2>8, <2>9 DEF Live!Rows
<1>12. ASSUME NEW i \in 1..(n - 1) PROVE Live!Earlier(fills[i], fills[i + 1])
  <2>1. i \in 1..n /\ i + 1 \in 1..n /\ i < i + 1
    OBVIOUS
  <2> QED BY <1>5, <1>6, <2>1
<1> QED BY <1>8, <1>10, <1>11, <1>12

---------------------------------------------------------------------------
(* The calls of the live tabs.                                             *)

Steps == {"idle", "gate", "start", "walk", "pace", "sleep", "send", "again", "release", "done"}
\* What is still to be fetched of a window, and what was: unless it is cut, they
\* are the window.
Splits(r, w) ==
  /\ r.walk \in Seq(Int \X Int)
  /\ \A x \in Live!Rows(r.walk) : Window[1] <= x[1] /\ x[2] <= Window[2]
  /\ Live!Rows(r.out) \subseteq Within(w, Window[1], Window[2])
  /\ ~r.cut => \A f \in Within(w, Window[1], Window[2]) :
       f \in Live!Rows(r.out) \/ \E x \in Live!Rows(r.walk) : x[1] <= f.time /\ f.time <= x[2]
  /\ r.pc # "walk" => r.walk # <<>>
Fetched(r, w) ==
  /\ \A i \in 1..(Len(r.out) - 1) : Live!Earlier(r.out[i], r.out[i + 1])
  /\ Live!Rows(r.out) \subseteq Within(w, Window[1], Window[2])
  /\ ~r.cut => Live!Rows(r.out) = Within(w, Window[1], Window[2])
CallOk(r, last, w) ==
  /\ DOMAIN r = CallFields /\ r.pc \in Steps /\ r.out \in Seq(w)
  /\ SpacedTo(r.marks, last)
  /\ r.pc = "sleep" => r.wake \in Int /\ SpacedTo(r.marks, r.wake - Floor)
  /\ r.kind = "window" /\ r.pc \in {"walk", "pace", "sleep", "send"} => Splits(r, w)
  /\ r.kind = "window" /\ r.pc \in {"release", "done"} /\ r.err = "none" => Fetched(r, w)

UInv ==
  /\ now \in Int /\ wallet \in Books
  /\ PacerOk(pacer, now)
  /\ DOMAIN call = Callers /\ \A c \in Callers : CallOk(call[c], pacer.last, wallet)
  /\ gate = Cardinality(Places(call)) /\ gate <= Concurrency

LEMMA CallsStay ==
  ASSUME NEW r, NEW s \in Int, NEW t \in Int, NEW w, CallOk(r, s, w), s <= t
  PROVE  CallOk(r, t, w)
BY MarksLater DEF CallOk

\* One call changes and the others stay.
LEMMA OneCall ==
  ASSUME UInv, NEW c \in Callers, NEW r, call' = [call EXCEPT ![c] = r], UNCHANGED <<now, wallet>>,
         PacerOk(pacer', now), pacer.last <= pacer'.last, CallOk(r, pacer'.last, wallet),
         gate' = Cardinality(Places(call')), gate' <= Concurrency
  PROVE  UInv'
<1>1. /\ now' = now /\ wallet' = wallet /\ pacer.last \in Int /\ pacer'.last \in Int
      /\ DOMAIN call' = Callers /\ call'[c] = r /\ \A d \in Callers \ {c} : call'[d] = call[d]
  BY DEF UInv, PacerOk
<1>2. ASSUME NEW d \in Callers PROVE CallOk(call'[d], pacer'.last, wallet')
  BY <1>1, CallsStay DEF UInv
<1> QED BY <1>1, <1>2 DEF UInv

\* The gate moves only with the places.
LEMMA SamePlaces ==
  ASSUME UInv, NEW c \in Callers, NEW r, call' = [call EXCEPT ![c] = r],
         (r.pc \in {"idle", "gate", "done"}) <=> (call[c].pc \in {"idle", "gate", "done"})
  PROVE  Places(call') = Places(call)
BY DEF UInv, Places

LEMMA QuietCall ==
  ASSUME UInv, NEW c \in Callers, NEW r, call' = [call EXCEPT ![c] = r], UNCHANGED <<now, wallet, pacer, gate>>,
         CallOk(r, pacer.last, wallet),
         (r.pc \in {"idle", "gate", "done"}) <=> (call[c].pc \in {"idle", "gate", "done"})
  PROVE  UInv'
<1>1. Places(call') = Places(call)
  BY SamePlaces
<1>2. PacerOk(pacer', now) /\ pacer.last <= pacer'.last /\ CallOk(r, pacer'.last, wallet)
  BY DEF UInv, PacerOk
<1>3. gate' = Cardinality(Places(call')) /\ gate' <= Concurrency
  BY <1>1 DEF UInv
<1> QED BY <1>2, <1>3, OneCall

LEMMA CallsStart == Live!Init => UInv
<1> SUFFICES ASSUME Live!Init PROVE UInv
  OBVIOUS
<1>1. now = 0 /\ wallet \in Books /\ gate = 0 /\ call = [c \in Callers |-> Live!Quiet]
  BY DEF Live!Init
<1>2. PacerOk(pacer, now)
  BY LiveBounds DEF Live!Init, PacerOk, Live!Higher
<1>3. SpacedTo(<<>>, pacer.last)
  BY DEF SpacedTo
<1>4. CallOk(Live!Quiet, pacer.last, wallet)
  BY <1>3 DEF CallOk, Live!Quiet, CallFields, Steps
<1>5. Places(call) = {}
  BY <1>1 DEF Places, Live!Quiet
<1>6. gate = Cardinality(Places(call)) /\ gate <= Concurrency
  BY <1>1, <1>5, FS_EmptySet, LiveBounds
<1> QED BY <1>1, <1>2, <1>4, <1>6 DEF UInv

\* What an attempt leaves: a call that retries, or one that ends.
LEMMA AttemptedIs ==
  ASSUME NEW r, NEW last, NEW w, CallOk(r, last, w), NEW err, err # "none" \/ r.kind # "window"
  PROVE  CallOk(Live!Attempted(r, err), last, w) /\ Live!Attempted(r, err).pc \in {"again", "release"}
<1> DEFINE a == [r EXCEPT !.pc = "again", !.tries = 1, !.wake = now + Second, !.walk = <<>>]
           b == [r EXCEPT !.pc = "release", !.err = err, !.walk = <<>>]
<1>1. CallOk(a, last, w) /\ a.pc = "again"
  BY DEF CallOk, CallFields, Steps
<1>2. CallOk(b, last, w) /\ b.pc = "release"
  BY DEF CallOk, CallFields, Steps
<1> HIDE DEF a, b
<1>3. Live!Attempted(r, err) = a \/ Live!Attempted(r, err) = b
  BY DEF Live!Attempted, a, b
<1> QED BY <1>1, <1>2, <1>3

LEMMA StartsWhole ==
  ASSUME NEW r, r.walk = <<Window>>, r.out = <<>>, r.pc = "walk", NEW w
  PROVE  Splits(r, w)
<1>1. r.walk \in Seq(Int \X Int)
  BY LiveBounds
<1>2. DOMAIN r.walk = {1} /\ r.walk[1] = Window
  OBVIOUS
<1>3. Live!Rows(r.walk) = {Window}
  BY <1>2 DEF Live!Rows
<1>4. Live!Rows(r.out) = {}
  BY DEF Live!Rows
<1>5. Window[1] \in Int /\ Window[2] \in Int
  BY LiveBounds
<1> QED BY <1>1, <1>3, <1>4, <1>5 DEF Splits, Within

\* An error drops the slice it met, and the window is cut; or it ends the attempt.
LEMMA WalkFailsIs ==
  ASSUME NEW r, NEW last, NEW w, CallOk(r, last, w), r.kind = "window", r.pc \in {"sleep", "send"},
         NEW err, err # "none"
  PROVE  CallOk(Live!WalkFails(r, err), last, w) /\ Live!WalkFails(r, err).pc \in {"again", "release", "walk"}
<1>1. CASE r.out = <<>>
  BY <1>1, AttemptedIs DEF Live!WalkFails
<1>2. CASE r.out # <<>>
  <2>1. PICK u : u = Tail(r.walk) /\ u = Rest(r.walk)
    BY DEF Rest
  <2>2. Splits(r, w) /\ r.walk # <<>>
    BY DEF CallOk, Splits
  <2>3. u \in Seq(Int \X Int) /\ Live!Rows(u) \subseteq Live!Rows(r.walk)
    <3>1. r.walk \in Seq(Int \X Int)
      BY <2>2 DEF Splits
    <3>2. Live!Rows(r.walk) = {First(r.walk)} \cup Live!Rows(u) /\ u \in Seq(Int \X Int)
      BY <2>1, <2>2, <3>1, RowsOfTail
    <3> QED BY <3>2
  <2>4. PICK n : n = [r EXCEPT !.pc = "walk", !.cut = TRUE, !.walk = u]
    OBVIOUS
  <2>5. /\ DOMAIN n = CallFields /\ n.pc = "walk" /\ n.cut = TRUE /\ n.walk = u /\ n.out = r.out
        /\ n.marks = r.marks /\ n.kind = r.kind
    BY <2>4 DEF CallOk, CallFields
  <2>6. Splits(n, w)
    BY <2>2, <2>3, <2>5 DEF Splits
  <2>7. CallOk(n, last, w)
    BY <2>5, <2>6 DEF CallOk, Steps
  <2> QED BY <1>2, <2>1, <2>4, <2>5, <2>7 DEF Live!WalkFails
<1> QED BY <1>1, <1>2

LEMMA HalvesAre ==
  ASSUME NEW s \in Int, NEW e \in Int, NEW d \in Nat, e - s > d, NEW mid, mid = s + (e - s) \div 2
  PROVE  mid \in Int /\ s <= mid /\ mid <= e
OBVIOUS

\* A page answers its slice: it is kept, or flagged, or the slice is split.
LEMMA WalkReplyIs ==
  ASSUME NEW r, NEW last, NEW w \in Books, wallet = w, CallOk(r, last, w), r.kind = "window", r.pc = "send",
         NEW page \in Live!Page(Head(r.walk)[1], Head(r.walk)[2])
  PROVE  CallOk(Live!WalkReply(r, page), last, w) /\ Live!WalkReply(r, page).pc = "walk"
<1>1. Splits(r, w) /\ r.walk # <<>> /\ r.walk \in Seq(Int \X Int) /\ r.out \in Seq(w)
  BY DEF CallOk, Splits
<1>2. PICK u : u = Tail(r.walk) /\ u = Rest(r.walk)
  BY DEF Rest
<1>3. PICK h \in Int \X Int : h = Head(r.walk) /\ h = First(r.walk)
  BY <1>1, RowsOfTail DEF First
<1>4. u \in Seq(Int \X Int) /\ Live!Rows(r.walk) = {h} \cup Live!Rows(u)
  BY <1>1, <1>2, <1>3, RowsOfTail
<1>5. PICK s \in Int, e \in Int : s = h[1] /\ e = h[2]
  BY <1>3
<1>6. /\ page \in Seq(w) /\ Live!Rows(page) \subseteq Within(w, s, e)
      /\ Len(page) < PageSize => Live!Rows(page) = Within(w, s, e)
  BY <1>3, <1>5, FillsOf
<1>7. Window[1] \in Int /\ Window[2] \in Int /\ Window[1] <= s /\ e <= Window[2]
  BY <1>1, <1>4, <1>5, LiveBounds DEF Splits
<1>8. Within(w, s, e) \subseteq Within(w, Window[1], Window[2])
  BY <1>7, BookIs DEF Within
<1>9. PICK o : o = r.out \o page /\ o = Chained(r.out, page)
  BY DEF Chained
<1>10. o \in Seq(w) /\ Live!Rows(o) = Live!Rows(r.out) \cup Live!Rows(page)
  BY <1>1, <1>6, <1>9, RowsOfChained
<1>11. PICK mid : mid = s + (e - s) \div 2
  OBVIOUS
<1>12. PICK two : two = <<<<mid, e>>, <<s, mid>>>> \o u
  OBVIOUS
<1> DEFINE kept == [r EXCEPT !.pc = "walk", !.out = o, !.walk = u]
           flagged == [r EXCEPT !.pc = "walk", !.out = o, !.cut = TRUE, !.walk = u]
           split == [r EXCEPT !.pc = "walk", !.walk = two]
<1>13. Live!WalkReply(r, page) = IF Len(page) < PageSize THEN kept ELSE IF e - s <= MinSlice THEN flagged ELSE split
  BY <1>2, <1>3, <1>5, <1>9, <1>11, <1>12 DEF Live!WalkReply
<1>14. ASSUME Len(page) < PageSize PROVE CallOk(kept, last, w) /\ kept.pc = "walk"
  <2>1. /\ DOMAIN kept = CallFields /\ kept.pc = "walk" /\ kept.cut = r.cut /\ kept.walk = u /\ kept.out = o
        /\ kept.marks = r.marks /\ kept.kind = r.kind
    BY DEF CallOk, CallFields
  <2> HIDE DEF kept
  <2>2. ASSUME ~r.cut, NEW f \in Within(w, Window[1], Window[2])
        PROVE  f \in Live!Rows(o) \/ \E x \in Live!Rows(u) : x[1] <= f.time /\ f.time <= x[2]
    <3>1. CASE f \in Live!Rows(r.out)
      BY <1>10, <3>1
    <3>2. CASE f \notin Live!Rows(r.out)
      <4>1. PICK x \in Live!Rows(r.walk) : x[1] <= f.time /\ f.time <= x[2]
        BY <1>1, <2>2, <3>2 DEF Splits
      <4>2. CASE x = h
        BY <1>5, <1>6, <1>10, <1>14, <4>1, <4>2 DEF Within
      <4> QED BY <1>4, <4>1, <4>2
    <3> QED BY <3>1, <3>2
  <2>3. Splits(kept, w)
    BY <1>1, <1>4, <1>6, <1>8, <1>10, <2>1, <2>2 DEF Splits
  <2> QED BY <1>10, <2>1, <2>3 DEF CallOk, Steps
<1>15. CallOk(flagged, last, w) /\ flagged.pc = "walk"
  <2>1. /\ DOMAIN flagged = CallFields /\ flagged.pc = "walk" /\ flagged.cut = TRUE /\ flagged.walk = u
        /\ flagged.out = o /\ flagged.marks = r.marks /\ flagged.kind = r.kind
    BY DEF CallOk, CallFields
  <2> HIDE DEF flagged
  <2>2. Splits(flagged, w)
    BY <1>1, <1>4, <1>6, <1>8, <1>10, <2>1 DEF Splits
  <2> QED BY <1>10, <2>1, <2>2 DEF CallOk, Steps
<1>16. ASSUME ~(e - s <= MinSlice) PROVE CallOk(split, last, w) /\ split.pc = "walk"
  <2>1. /\ DOMAIN split = CallFields /\ split.pc = "walk" /\ split.cut = r.cut /\ split.walk = two
        /\ split.out = r.out /\ split.marks = r.marks /\ split.kind = r.kind
    BY DEF CallOk, CallFields
  <2> HIDE DEF split
  <2>2. mid \in Int /\ s <= mid /\ mid <= e
    BY <1>11, <1>16, HalvesAre, LiveBounds
  <2>3. PICK d : d = <<<<mid, e>>, <<s, mid>>>>
    OBVIOUS
  <2>4. d \in Seq(Int \X Int) /\ Live!Rows(d) = {<<mid, e>>, <<s, mid>>}
    <3>1. d \in Seq(Int \X Int) /\ DOMAIN d = {1, 2} /\ d[1] = <<mid, e>> /\ d[2] = <<s, mid>>
      BY <2>2, <2>3
    <3> QED BY <3>1 DEF Live!Rows
  <2>5. two \in Seq(Int \X Int) /\ Live!Rows(two) = {<<mid, e>>, <<s, mid>>} \cup Live!Rows(u)
    <3>1. two = Chained(d, u)
      BY <1>12, <2>3 DEF Chained
    <3> QED BY <1>4, <2>4, <3>1, RowsOfChained
  <2>6. \A x \in Live!Rows(two) : Window[1] <= x[1] /\ x[2] <= Window[2]
    <3>1. Window[1] <= mid /\ mid <= Window[2]
      BY <1>7, <2>2
    <3>2. \A x \in Live!Rows(u) : Window[1] <= x[1] /\ x[2] <= Window[2]
      BY <1>1, <1>4 DEF Splits
    <3> QED BY <1>7, <2>5, <3>1, <3>2
  <2>7. ASSUME ~r.cut, NEW f \in Within(w, Window[1], Window[2])
        PROVE  f \in Live!Rows(r.out) \/ \E x \in Live!Rows(two) : x[1] <= f.time /\ f.time <= x[2]
    <3>1. CASE f \in Live!Rows(r.out)
      BY <3>1
    <3>2. CASE f \notin Live!Rows(r.out)
      <4>1. PICK x \in Live!Rows(r.walk) : x[1] <= f.time /\ f.time <= x[2]
        BY <1>1, <2>7, <3>2 DEF Splits
      <4>2. CASE x = h
        <5>1. s <= f.time /\ f.time <= e /\ f.time \in Int
          BY <1>5, <4>1, <4>2, BookIs DEF Within
        <5>2. mid <= f.time \/ f.time <= mid
          BY <2>2, <5>1
        <5>3. <<mid, e>> \in Live!Rows(two) /\ <<s, mid>> \in Live!Rows(two)
          BY <2>5
        <5>4. CASE mid <= f.time
          BY <5>1, <5>3, <5>4
        <5>5. CASE f.time <= mid
          BY <5>1, <5>3, <5>5
        <5> QED BY <5>2, <5>4, <5>5
      <4> QED BY <1>4, <2>5, <4>1, <4>2
    <3> QED BY <3>1, <3>2
  <2>8. Splits(split, w)
    BY <1>1, <2>1, <2>5, <2>6, <2>7 DEF Splits
  <2> QED BY <2>1, <2>8 DEF CallOk, Steps
<1> HIDE DEF kept, flagged, split
<1> QED BY <1>13, <1>14, <1>15, <1>16

\* The steps of a call, one by one.
LEMMA AskCall == ASSUME UInv, NEW c \in Callers, NEW kind, Live!Ask(c, kind) PROVE UInv'
<1> DEFINE r == [Live!Quiet EXCEPT !.pc = "gate", !.kind = kind]
<1>1. call' = [call EXCEPT ![c] = r] /\ UNCHANGED <<now, wallet, pacer, gate>> /\ call[c].pc = "idle"
  BY DEF Live!Ask, Live!Step
<1>2. CallOk(r, pacer.last, wallet) /\ r.pc = "gate"
  BY DEF CallOk, Live!Quiet, CallFields, Steps, SpacedTo
<1> HIDE DEF r
<1> QED BY <1>1, <1>2, QuietCall

LEMMA AcquireCall == ASSUME UInv, NEW c \in Callers, Live!Acquire(c) PROVE UInv'
<1> DEFINE r == [call[c] EXCEPT !.pc = "start"]
<1>1. /\ call' = [call EXCEPT ![c] = r] /\ UNCHANGED <<now, wallet, pacer>>
      /\ call[c].pc = "gate" /\ gate' = gate + 1 /\ gate < Concurrency
  BY DEF Live!Acquire, Live!Step
<1>2. CallOk(call[c], pacer.last, wallet)
  BY DEF UInv
<1>3. CallOk(r, pacer.last, wallet) /\ r.pc = "start"
  BY <1>2 DEF CallOk, CallFields, Steps
<1> HIDE DEF r
<1>4. Places(call') = Places(call) \cup {c} /\ c \notin Places(call) /\ IsFiniteSet(Places(call))
  <2>1. IsFiniteSet(Places(call))
    BY LiveBounds, FS_Subset DEF Places
  <2>2. Places(call') = Places(call) \cup {c} /\ c \notin Places(call)
    BY <1>1, <1>3 DEF UInv, Places
  <2> QED BY <2>1, <2>2
<1>5. Cardinality(Places(call')) = Cardinality(Places(call)) + 1 /\ Cardinality(Places(call)) \in Nat
  BY <1>4, FS_AddElement, FS_CardinalityType
<1>6. gate' = Cardinality(Places(call')) /\ gate' <= Concurrency
  BY <1>1, <1>5, LiveBounds DEF UInv
<1>7. PacerOk(pacer', now) /\ pacer.last <= pacer'.last /\ CallOk(r, pacer'.last, wallet)
  BY <1>1, <1>3 DEF UInv, PacerOk
<1> QED BY <1>1, <1>6, <1>7, OneCall

LEMMA ReleaseCall == ASSUME UInv, NEW c \in Callers, Live!Release(c) PROVE UInv'
<1> DEFINE r == [call[c] EXCEPT !.pc = "done"]
<1>1. /\ call' = [call EXCEPT ![c] = r] /\ UNCHANGED <<now, wallet, pacer>>
      /\ call[c].pc = "release" /\ gate' = gate - 1
  BY DEF Live!Release, Live!Step
<1>2. CallOk(call[c], pacer.last, wallet)
  BY DEF UInv
<1>3. CallOk(r, pacer.last, wallet) /\ r.pc = "done"
  <2>1. /\ DOMAIN r = CallFields /\ r.pc = "done" /\ r.kind = call[c].kind /\ r.err = call[c].err
        /\ r.out = call[c].out /\ r.cut = call[c].cut /\ r.marks = call[c].marks
    BY <1>2 DEF CallOk, CallFields
  <2> HIDE DEF r
  <2>2. r.kind = "window" /\ r.err = "none" => Fetched(r, wallet)
    BY <1>1, <1>2, <2>1 DEF CallOk, Fetched
  <2> QED BY <1>2, <2>1, <2>2 DEF CallOk, Steps
<1> HIDE DEF r
<1>4. Places(call') = Places(call) \ {c} /\ c \in Places(call) /\ IsFiniteSet(Places(call))
  <2>1. IsFiniteSet(Places(call))
    BY LiveBounds, FS_Subset DEF Places
  <2>2. Places(call') = Places(call) \ {c} /\ c \in Places(call)
    BY <1>1, <1>3 DEF UInv, Places
  <2> QED BY <2>1, <2>2
<1>5. Cardinality(Places(call')) = Cardinality(Places(call)) - 1 /\ Cardinality(Places(call)) \in Nat
  BY <1>4, FS_RemoveElement, FS_CardinalityType
<1>6. gate' = Cardinality(Places(call')) /\ gate' <= Concurrency
  BY <1>1, <1>5, LiveBounds DEF UInv
<1>7. PacerOk(pacer', now) /\ pacer.last <= pacer'.last /\ CallOk(r, pacer'.last, wallet)
  BY <1>1, <1>3 DEF UInv, PacerOk
<1> QED BY <1>1, <1>6, <1>7, OneCall

LEMMA CancelledCall == ASSUME UInv, NEW c \in Callers, Live!Cancelled(c) PROVE UInv'
<1> DEFINE r == [call[c] EXCEPT !.pc = IF @ = "gate" THEN "done" ELSE "release", !.err = "cancelled"]
<1>1. /\ call' = [call EXCEPT ![c] = r] /\ UNCHANGED <<now, wallet, pacer, gate>>
      /\ call[c].pc \in {"gate", "again"}
  BY DEF Live!Cancelled, Live!Step
<1>2. CallOk(call[c], pacer.last, wallet)
  BY DEF UInv
<1>3. CallOk(r, pacer.last, wallet) /\ r.pc = IF call[c].pc = "gate" THEN "done" ELSE "release"
  BY <1>2 DEF CallOk, CallFields, Steps
<1> HIDE DEF r
<1> QED BY <1>1, <1>3, QuietCall

LEMMA StartCall == ASSUME UInv, NEW c \in Callers, Live!Start(c) PROVE UInv'
<1>1. PICK r : /\ r = [call[c] EXCEPT !.until = now + Timeout, !.err = "none", !.out = <<>>, !.cut = FALSE, !.calls = 0,
                        !.walk = IF call[c].kind = "window" THEN <<Window>> ELSE <<>>,
                        !.pc = IF call[c].kind = "window" THEN "walk" ELSE IF Live!Paced(call[c].kind) THEN "pace" ELSE "send"]
               /\ call' = [call EXCEPT ![c] = r] /\ UNCHANGED <<now, wallet, pacer, gate>> /\ call[c].pc = "start"
  BY DEF Live!Start, Live!Step
<1>2. CallOk(call[c], pacer.last, wallet)
  BY DEF UInv
<1>3. /\ DOMAIN r = CallFields /\ r.out = <<>> /\ r.kind = call[c].kind /\ r.marks = call[c].marks
      /\ r.kind = "window" => r.pc = "walk" /\ r.walk = <<Window>>
      /\ r.kind # "window" => r.pc \in {"pace", "send"}
  BY <1>1, <1>2 DEF CallOk, CallFields
<1>4. r.kind = "window" => Splits(r, wallet)
  BY <1>3, StartsWhole
<1>5. CallOk(r, pacer.last, wallet) /\ r.pc \in {"walk", "pace", "send"}
  BY <1>2, <1>3, <1>4 DEF CallOk, Steps
<1> QED BY <1>1, <1>5, QuietCall

LEMMA AgainCall == ASSUME UInv, NEW c \in Callers, Live!Again(c) PROVE UInv'
<1> DEFINE r == [call[c] EXCEPT !.pc = "start"]
<1>1. call' = [call EXCEPT ![c] = r] /\ UNCHANGED <<now, wallet, pacer, gate>> /\ call[c].pc = "again"
  BY DEF Live!Again, Live!Step
<1>2. CallOk(r, pacer.last, wallet) /\ r.pc = "start"
  BY DEF UInv, CallOk, CallFields, Steps
<1> HIDE DEF r
<1> QED BY <1>1, <1>2, QuietCall

LEMMA FinishCall == ASSUME UInv, NEW c \in Callers, Live!Finish(c) PROVE UInv'
<1> DEFINE r == Live!Quiet
<1>1. call' = [call EXCEPT ![c] = r] /\ UNCHANGED <<now, wallet, pacer, gate>> /\ call[c].pc = "done"
  BY DEF Live!Finish, Live!Step
<1>2. CallOk(r, pacer.last, wallet) /\ r.pc = "idle"
  BY DEF CallOk, Live!Quiet, CallFields, Steps, SpacedTo
<1> HIDE DEF r
<1> QED BY <1>1, <1>2, QuietCall

\* A call goes upstream: it and the pacer have the same time.
LEMMA GoesUp ==
  ASSUME UInv, NEW c \in Callers, NEW t \in Int, SpacedTo(call[c].marks, t), t + Floor <= now,
         call[c].pc \in {"pace", "sleep"}, Live!Step(c, Live!Marked(call[c])),
         pacer' = [pacer EXCEPT !.last = now], UNCHANGED <<now, wallet, gate>>
  PROVE  UInv'
<1>1. CallOk(call[c], pacer.last, wallet) /\ now \in Int /\ PacerOk(pacer, now)
  BY DEF UInv
<1>2. PICK r : r = Live!Marked(call[c])
  OBVIOUS
<1>3. /\ DOMAIN r = CallFields /\ r.pc = "send" /\ SpacedTo(r.marks, now)
      /\ \A x \in CallFields \ {"pc", "marks"} : r[x] = call[c][x]
  BY <1>1, <1>2, MarkedIs DEF CallOk
<1>4. r.kind = call[c].kind /\ r.walk = call[c].walk /\ r.out = call[c].out /\ r.cut = call[c].cut
  BY <1>3 DEF CallFields
<1>5. CallOk(r, now, wallet)
  <2>1. ASSUME r.kind = "window" PROVE Splits(r, wallet)
    <3>1. Splits(call[c], wallet)
      BY <1>1, <1>4, <2>1 DEF CallOk
    <3> QED BY <1>3, <1>4, <3>1 DEF Splits
  <2> QED BY <1>1, <1>3, <1>4, <2>1 DEF CallOk, Steps
<1>6. PacerOk(pacer', now) /\ pacer.last <= pacer'.last /\ pacer'.last = now
  BY <1>1 DEF PacerOk
<1>7. call' = [call EXCEPT ![c] = r]
  BY <1>2 DEF Live!Step
<1>8. Places(call') = Places(call)
  BY <1>3, <1>7, SamePlaces
<1>9. gate' = Cardinality(Places(call')) /\ gate' <= Concurrency
  BY <1>8 DEF UInv
<1> QED BY <1>5, <1>6, <1>7, <1>9, OneCall

LEMMA WaitCall == ASSUME UInv, NEW c \in Callers, Live!Wait(c) PROVE UInv'
<1>1. CallOk(call[c], pacer.last, wallet) /\ now \in Int /\ PacerOk(pacer, now) /\ call[c].pc = "pace"
  BY DEF UInv, Live!Wait
<1>2. Floor \in Nat /\ pacer.last \in Int /\ pacer.current \in Int /\ Floor <= pacer.current
  BY <1>1, LiveBounds DEF PacerOk
<1>3. CASE now - pacer.last >= pacer.current
  <2>1. pacer.last + Floor <= now
    BY <1>1, <1>2, <1>3
  <2>2. Live!Step(c, Live!Marked(call[c])) /\ pacer' = [pacer EXCEPT !.last = now] /\ UNCHANGED <<now, wallet, gate>>
    BY <1>3 DEF Live!Wait
  <2> QED BY <1>1, <1>2, <2>1, <2>2, GoesUp DEF CallOk
<1>4. CASE ~(now - pacer.last >= pacer.current)
  <2>1. PICK r : /\ r = [call[c] EXCEPT !.pc = "sleep", !.wake = pacer.last + pacer.current]
                 /\ call' = [call EXCEPT ![c] = r] /\ UNCHANGED <<now, wallet, pacer, gate>>
    BY <1>4 DEF Live!Wait, Live!Step
  <2>2. /\ DOMAIN r = CallFields /\ r.pc = "sleep" /\ r.wake = pacer.last + pacer.current /\ r.marks = call[c].marks
        /\ r.kind = call[c].kind /\ r.walk = call[c].walk /\ r.out = call[c].out /\ r.cut = call[c].cut
    BY <1>1, <2>1 DEF CallOk, CallFields
  <2>3. r.wake \in Int /\ r.wake - Floor \in Int /\ pacer.last <= r.wake - Floor
    BY <1>2, <2>2
  <2>4. SpacedTo(r.marks, r.wake - Floor)
    BY <1>1, <1>2, <2>2, <2>3, MarksLater DEF CallOk
  <2>5. ASSUME r.kind = "window" PROVE Splits(r, wallet)
    <3>1. Splits(call[c], wallet)
      BY <1>1, <2>2, <2>5 DEF CallOk
    <3> QED BY <1>1, <2>2, <3>1 DEF Splits
  <2>6. CallOk(r, pacer.last, wallet)
    BY <1>1, <2>2, <2>3, <2>4, <2>5 DEF CallOk, Steps
  <2> QED BY <1>1, <2>1, <2>2, <2>6, QuietCall
<1> QED BY <1>3, <1>4

LEMMA WakeCall == ASSUME UInv, NEW c \in Callers, Live!Wake(c) PROVE UInv'
<1>1. CallOk(call[c], pacer.last, wallet) /\ now \in Int /\ call[c].pc = "sleep" /\ now >= call[c].wake
  BY DEF UInv, Live!Wake
<1>2. PICK t : t = call[c].wake - Floor
  OBVIOUS
<1>3. t \in Int /\ t + Floor <= now /\ SpacedTo(call[c].marks, t)
  BY <1>1, <1>2, LiveBounds DEF CallOk
<1>4. Live!Step(c, Live!Marked(call[c])) /\ pacer' = [pacer EXCEPT !.last = now] /\ UNCHANGED <<now, wallet, gate>>
  BY DEF Live!Wake
<1> QED BY <1>1, <1>3, <1>4, GoesUp

\* A call gets its reply, and the pacer notes it.
LEMMA Replied ==
  ASSUME UInv, NEW c \in Callers, NEW reply, pacer' = Live!NoteStatus(pacer, reply), NEW r,
         call' = [call EXCEPT ![c] = r], UNCHANGED <<now, wallet, gate>>, call[c].pc = "send",
         CallOk(r, pacer.last, wallet), r.pc \in {"again", "release", "walk"}
  PROVE  UInv'
<1>1. PacerOk(pacer', now) /\ pacer'.last = pacer.last /\ pacer.last \in Int
  BY SlowerIs DEF UInv, PacerOk
<1>2. Places(call') = Places(call)
  BY SamePlaces
<1>3. gate' = Cardinality(Places(call')) /\ gate' <= Concurrency
  BY <1>2 DEF UInv
<1>4. pacer.last <= pacer'.last /\ CallOk(r, pacer'.last, wallet)
  BY <1>1
<1> QED BY <1>1, <1>3, <1>4, OneCall

LEMMA PostInfoCall == ASSUME UInv, NEW c \in Callers, NEW reply, Live!PostInfo(c, reply) PROVE UInv'
<1>1. PICK r : /\ r = Live!Attempted(call[c], IF reply = "ok" THEN "none" ELSE reply)
               /\ call' = [call EXCEPT ![c] = r] /\ UNCHANGED <<now, wallet, gate>>
               /\ call[c].pc = "send" /\ call[c].kind # "window" /\ pacer' = Live!NoteStatus(pacer, reply)
  BY DEF Live!PostInfo, Live!Step
<1>2. CallOk(call[c], pacer.last, wallet)
  BY DEF UInv
<1>3. CallOk(r, pacer.last, wallet) /\ r.pc \in {"again", "release"}
  BY <1>1, <1>2, AttemptedIs
<1> QED BY <1>1, <1>3, Replied

LEMMA FetchWindowCall == ASSUME UInv, NEW c \in Callers, NEW reply \in Live!Replies, Live!FetchWindow(c, reply) PROVE UInv'
<1>1. /\ UNCHANGED <<now, wallet, gate>> /\ call[c].pc = "send" /\ call[c].kind = "window"
      /\ pacer' = Live!NoteStatus(pacer, reply)
  BY DEF Live!FetchWindow
<1>2. CallOk(call[c], pacer.last, wallet) /\ wallet \in Books
  BY DEF UInv
<1>3. CASE reply = "ok"
  <2>1. PICK page \in Live!Page(Head(call[c].walk)[1], Head(call[c].walk)[2]) :
          call' = [call EXCEPT ![c] = Live!WalkReply(call[c], page)]
    BY <1>3 DEF Live!FetchWindow, Live!Step
  <2>2. CallOk(Live!WalkReply(call[c], page), pacer.last, wallet) /\ Live!WalkReply(call[c], page).pc = "walk"
    BY <1>1, <1>2, WalkReplyIs
  <2> QED BY <1>1, <2>1, <2>2, Replied
<1>4. CASE reply # "ok"
  <2>1. call' = [call EXCEPT ![c] = Live!WalkFails(call[c], reply)]
    BY <1>4 DEF Live!FetchWindow, Live!Step
  <2>2. reply # "none"
    BY DEF Live!Replies
  <2>3. CallOk(Live!WalkFails(call[c], reply), pacer.last, wallet) /\ Live!WalkFails(call[c], reply).pc \in {"again", "release", "walk"}
    BY <1>1, <1>2, <2>2, WalkFailsIs
  <2> QED BY <1>1, <2>1, <2>3, Replied
<1> QED BY <1>3, <1>4

LEMMA WaitExpiresCall == ASSUME UInv, NEW c \in Callers, Live!WaitExpires(c) PROVE UInv'
<1>1. PICK r : /\ r = IF call[c].kind = "window" THEN Live!WalkFails(call[c], "timeout") ELSE Live!Attempted(call[c], "timeout")
               /\ call' = [call EXCEPT ![c] = r] /\ UNCHANGED <<now, wallet, pacer, gate>> /\ call[c].pc = "sleep"
  BY DEF Live!WaitExpires, Live!Step
<1>2. CallOk(call[c], pacer.last, wallet)
  BY DEF UInv
<1>3. CASE call[c].kind = "window"
  <2>1. CallOk(r, pacer.last, wallet) /\ r.pc \in {"again", "release", "walk"}
    BY <1>1, <1>2, <1>3, WalkFailsIs
  <2> QED BY <1>1, <2>1, QuietCall
<1>4. CASE call[c].kind # "window"
  <2>1. CallOk(r, pacer.last, wallet) /\ r.pc \in {"again", "release"}
    BY <1>1, <1>2, <1>4, AttemptedIs
  <2> QED BY <1>1, <2>1, QuietCall
<1> QED BY <1>3, <1>4

LEMMA WalkCall == ASSUME UInv, NEW c \in Callers, Live!Walk(c) PROVE UInv'
<1>1. /\ UNCHANGED <<now, wallet, pacer, gate>> /\ call[c].pc = "walk" /\ call[c].walk # <<>>
  BY DEF Live!Walk
<1>2. CallOk(call[c], pacer.last, wallet)
  BY DEF UInv
<1>3. ASSUME Live!Step(c, [call[c] EXCEPT !.cut = TRUE, !.walk = <<>>]) PROVE UInv'
  <2>1. PICK r : r = [call[c] EXCEPT !.cut = TRUE, !.walk = <<>>] /\ call' = [call EXCEPT ![c] = r]
    BY <1>3 DEF Live!Step
  <2>2. /\ DOMAIN r = CallFields /\ r.pc = "walk" /\ r.cut = TRUE /\ r.walk = <<>> /\ r.out = call[c].out
        /\ r.marks = call[c].marks /\ r.kind = call[c].kind
    BY <1>1, <1>2, <2>1 DEF CallOk, CallFields
  <2>3. r.walk \in Seq(Int \X Int) /\ Live!Rows(r.walk) = {}
    BY <2>2 DEF Live!Rows
  <2>4. r.kind = "window" => Splits(r, wallet)
    BY <1>1, <1>2, <2>2, <2>3 DEF CallOk, Splits
  <2>5. CallOk(r, pacer.last, wallet)
    BY <1>2, <2>2, <2>4 DEF CallOk, Steps
  <2> QED BY <1>1, <2>1, <2>2, <2>5, QuietCall
<1>4. ASSUME Live!Step(c, [call[c] EXCEPT !.pc = "pace", !.calls = @ + 1]) PROVE UInv'
  <2>1. PICK r : r = [call[c] EXCEPT !.pc = "pace", !.calls = @ + 1] /\ call' = [call EXCEPT ![c] = r]
    BY <1>4 DEF Live!Step
  <2>2. /\ DOMAIN r = CallFields /\ r.pc = "pace" /\ r.cut = call[c].cut /\ r.walk = call[c].walk /\ r.out = call[c].out
        /\ r.marks = call[c].marks /\ r.kind = call[c].kind
    BY <1>2, <2>1 DEF CallOk, CallFields
  <2>3. r.kind = "window" => Splits(r, wallet)
    BY <1>1, <1>2, <2>2 DEF CallOk, Splits
  <2>4. CallOk(r, pacer.last, wallet)
    BY <1>2, <2>2, <2>3 DEF CallOk, Steps
  <2> QED BY <1>1, <2>1, <2>2, <2>4, QuietCall
<1> QED BY <1>3, <1>4 DEF Live!Walk

LEMMA FetchAllCall == ASSUME UInv, NEW c \in Callers, Live!FetchAll(c) PROVE UInv'
<1>1. PICK fills \in Live!Deduped(call[c].out) :
        call' = [call EXCEPT ![c] = [call[c] EXCEPT !.pc = "release", !.out = fills]]
  BY DEF Live!FetchAll, Live!Step
<1>2. UNCHANGED <<now, wallet, pacer, gate>> /\ call[c].pc = "walk" /\ call[c].walk = <<>>
  BY DEF Live!FetchAll
<1>3. CallOk(call[c], pacer.last, wallet) /\ wallet \in Books /\ call[c].out \in Seq(wallet)
  BY DEF UInv, CallOk
<1>4. PICK r : r = [call[c] EXCEPT !.pc = "release", !.out = fills]
  OBVIOUS
<1>5. /\ DOMAIN r = CallFields /\ r.pc = "release" /\ r.out = fills /\ r.cut = call[c].cut
      /\ r.marks = call[c].marks /\ r.kind = call[c].kind
  BY <1>3, <1>4 DEF CallOk, CallFields
<1>6. /\ fills \in Seq(wallet) /\ Live!Rows(fills) = Live!Rows(call[c].out)
      /\ \A i \in 1..(Len(fills) - 1) : Live!Earlier(fills[i], fills[i + 1])
  BY <1>3, DedupedIs
<1>7. ASSUME r.kind = "window" PROVE Fetched(r, wallet)
  <2>1. Splits(call[c], wallet)
    BY <1>2, <1>3, <1>5, <1>7 DEF CallOk
  <2>2. Live!Rows(call[c].walk) = {}
    BY <1>2 DEF Live!Rows
  <2>3. Live!Rows(fills) \subseteq Within(wallet, Window[1], Window[2])
    BY <1>6, <2>1 DEF Splits
  <2>4. ~r.cut => Live!Rows(fills) = Within(wallet, Window[1], Window[2])
    BY <1>5, <1>6, <2>1, <2>2, <2>3 DEF Splits
  <2> QED BY <1>5, <1>6, <2>3, <2>4 DEF Fetched
<1>8. CallOk(r, pacer.last, wallet)
  BY <1>3, <1>5, <1>6, <1>7 DEF CallOk, Steps
<1> QED BY <1>1, <1>2, <1>4, <1>5, <1>8, QuietCall

LEMMA TickCall == ASSUME UInv, Live!Tick PROVE UInv'
<1>1. now' = now + 1 /\ UNCHANGED <<wallet, pacer, gate, call>>
  BY DEF Live!Tick
<1>2. now' \in Int /\ PacerOk(pacer', now')
  BY <1>1 DEF UInv, PacerOk
<1> QED BY <1>1, <1>2 DEF UInv

LEMMA CallsStep == ASSUME UInv, [Live!LiveNext]_(Live!luVars) PROVE UInv'
<1>1. CASE UNCHANGED Live!luVars
  BY <1>1 DEF Live!luVars, UInv
<1>2. CASE Live!Tick
  BY <1>2, TickCall
<1>3. ASSUME NEW c \in Callers,
             \/ Live!FetchClearinghouseState(c) \/ Live!FetchUserFills(c) \/ Live!FetchPortfolio(c) \/ Live!FetchFillsWindow(c)
             \/ Live!Acquire(c) \/ Live!Cancelled(c) \/ Live!Start(c) \/ Live!Again(c) \/ Live!Release(c) \/ Live!Finish(c)
             \/ Live!Wait(c) \/ Live!Wake(c) \/ Live!WaitExpires(c) \/ Live!Walk(c) \/ Live!FetchAll(c)
      PROVE  UInv'
  BY <1>3, AskCall, AcquireCall, CancelledCall, StartCall, AgainCall, ReleaseCall, FinishCall, WaitCall, WakeCall,
     WaitExpiresCall, WalkCall, FetchAllCall
     DEF Live!FetchClearinghouseState, Live!FetchUserFills, Live!FetchPortfolio, Live!FetchFillsWindow
<1>4. ASSUME NEW c \in Callers, NEW reply \in Live!Replies, Live!PostInfo(c, reply) \/ Live!FetchWindow(c, reply)
      PROVE  UInv'
  BY <1>4, PostInfoCall, FetchWindowCall
<1> QED BY <1>1, <1>2, <1>3, <1>4 DEF Live!LiveNext

LEMMA CallsHoldNow == ASSUME UInv PROVE Live!LiveHolds
<1>1. Live!GateHeld
  BY SameCount DEF UInv, Live!GateHeld, Places
<1>2. Live!WindowWhole
  <2>1. ASSUME NEW c \in Callers, call[c].pc \in {"release", "done"}, call[c].kind = "window", call[c].err = "none"
        PROVE  Fetched(call[c], wallet)
    BY <2>1 DEF UInv, CallOk
  <2> QED BY <2>1, SliceIs DEF Live!WindowWhole, Fetched
<1>3. Live!Spaced
  BY DEF Live!Spaced, UInv, CallOk, PacerOk, SpacedTo
<1> QED BY <1>1, <1>2, <1>3 DEF Live!LiveHolds

---------------------------------------------------------------------------
(* Finding wallets: the newest trade of a batch.                           *)

Above(S, x) == {y \in S : y > x}
LEMMA MaxExists ==
  ASSUME NEW S \in SUBSET Int, IsFiniteSet(S), S # {}
  PROVE  \E m \in S : \A x \in S : x <= m
<1> DEFINE T == {Cardinality(Above(S, x)) : x \in S}
<1>1. \A x \in S : IsFiniteSet(Above(S, x)) /\ Cardinality(Above(S, x)) \in Nat
  <2> TAKE x \in S
  <2>1. IsFiniteSet(Above(S, x))
    BY FS_Subset DEF Above
  <2> QED BY <2>1, FS_CardinalityType
<1>2. T \in SUBSET Nat /\ T # {}
  BY <1>1
<1>3. PICK k \in T : \A n \in T : k <= n
  BY <1>2, LeastExists
<1>4. PICK m \in S : k = Cardinality(Above(S, m))
  OBVIOUS
<1>5. ASSUME NEW x \in S, ~(x <= m) PROVE FALSE
  <2>0. x \in Int /\ m \in Int /\ x > m /\ ~(x > x)
    <3>1. x \in Int /\ m \in Int
      OBVIOUS
    <3> QED BY <1>5, <3>1
  <2>1. Above(S, x) \subseteq Above(S, m) /\ x \in Above(S, m) /\ x \notin Above(S, x)
    <3>1. ASSUME NEW y \in S, y > x PROVE y > m
      BY <2>0, <3>1
    <3> QED BY <2>0, <3>1 DEF Above
  <2>2. Above(S, x) # Above(S, m)
    BY <2>1
  <2>3. /\ Cardinality(Above(S, x)) <= Cardinality(Above(S, m))
        /\ Cardinality(Above(S, m)) = Cardinality(Above(S, x)) => Above(S, m) = Above(S, x)
    BY <1>1, <2>1, FS_Subset
  <2>4. Cardinality(Above(S, m)) <= Cardinality(Above(S, x))
    BY <1>3, <1>4
  <2>5. PICK i \in Nat, j \in Nat : i = Cardinality(Above(S, x)) /\ j = Cardinality(Above(S, m))
    BY <1>1
  <2>6. i <= j /\ j <= i /\ i # j
    BY <2>2, <2>3, <2>4, <2>5
  <2> QED BY <2>6
<1> QED BY <1>5

Batches == {Finding!ParseTradeFrame(f) : f \in Frames}
IsBatch(e) == IsFiniteSet(e) /\ \A t \in e : t.time \in Int
Times(f) == \A a \in DOMAIN f : f[a] \in Int

LEMMA FindingFinite == \A S : Finding!IsFiniteSet(S) = IsFiniteSet(S)
BY DEF Finding!IsFiniteSet, IsFiniteSet

LEMMA FindingCount == \A S : Finding!Cardinality(S) = Cardinality(S)
BY DEF Finding!Cardinality, Cardinality

LEMMA BatchIs == ASSUME NEW e \in Batches PROVE IsBatch(e)
<1>1. PICK f \in Frames : e = Finding!ParseTradeFrame(f)
  BY DEF Batches
<1>2. IsFiniteSet(f.trades) /\ \A t \in f.trades : t.time \in Int
  BY HarvestAssumption, FindingFinite DEF Finding!HarvestAssumption
<1>3. e \subseteq f.trades
  BY <1>1 DEF Finding!ParseTradeFrame
<1> QED BY <1>2, <1>3, FS_Subset DEF IsBatch

LEMMA PartyIs ==
  ASSUME NEW e, IsBatch(e), NEW p \in Finding!Parties(e)
  PROVE  p = <<p[1], p[2]>> /\ p[2] \in Int /\ \E t \in e : p[2] = t.time
BY DEF Finding!Parties, IsBatch

LEMMA TimesFinite ==
  ASSUME NEW e, IsBatch(e)
  PROVE  IsFiniteSet({t.time : t \in e})
<1> DEFINE f == [t \in e |-> t.time]
<1>1. f \in Surjection(e, {t.time : t \in e})
  BY DEF Surjection
<1> HIDE DEF f
<1> QED BY <1>1, FS_Surjection DEF IsBatch

LEMMA NewestIs ==
  ASSUME NEW e, IsBatch(e), NEW a, NEW q \in Finding!Parties(e), q[1] = a
  PROVE  \E t \in {p[2] : p \in Finding!Parties(e)} :
           <<a, t>> \in Finding!Parties(e) /\ \A p \in Finding!Parties(e) : p[1] = a => p[2] <= t
<1>1. PICK S : S = {p[2] : p \in {p \in Finding!Parties(e) : p[1] = a}}
  OBVIOUS
<1>2. S \subseteq {t.time : t \in e} /\ S \in SUBSET Int /\ q[2] \in S
  BY <1>1, PartyIs
<1>3. IsFiniteSet(S)
  BY <1>2, TimesFinite, FS_Subset
<1>4. PICK m \in S : \A x \in S : x <= m
  BY <1>2, <1>3, MaxExists
<1>5. PICK p \in Finding!Parties(e) : p[1] = a /\ p[2] = m
  BY <1>1
<1>6. <<a, m>> \in Finding!Parties(e)
  BY <1>5, PartyIs
<1>7. \A r \in Finding!Parties(e) : r[1] = a => r[2] <= m
  BY <1>1, <1>4
<1> QED BY <1>5, <1>6, <1>7

\* A batch merged keeps the latest of what there was and what it brings.
LEMMA MergeIs ==
  ASSUME NEW e, IsBatch(e), NEW dst, Times(dst), NEW M, M = Finding!MergeBatch(dst, e)
  PROVE  /\ Times(M)
         /\ \A a \in DOMAIN dst : a \in DOMAIN M /\ M[a] >= dst[a]
         /\ \A p \in Finding!Parties(e) : p[1] \in DOMAIN M /\ M[p[1]] >= p[2]
<1> DEFINE met == {p[1] : p \in Finding!Parties(e)}
           newest(a) == CHOOSE t \in {p[2] : p \in Finding!Parties(e)} :
                          <<a, t>> \in Finding!Parties(e) /\ \A p \in Finding!Parties(e) : p[1] = a => p[2] <= t
<1>1. M = [a \in DOMAIN dst \cup met |->
            IF a \notin met THEN dst[a] ELSE IF a \in DOMAIN dst THEN Finding!Latest(dst[a], newest(a)) ELSE newest(a)]
  BY DEF Finding!MergeBatch
<1>2. ASSUME NEW a \in met
      PROVE  newest(a) \in Int /\ \A p \in Finding!Parties(e) : p[1] = a => p[2] <= newest(a)
  <2>1. PICK q \in Finding!Parties(e) : q[1] = a
    OBVIOUS
  <2>2. /\ newest(a) \in {p[2] : p \in Finding!Parties(e)}
        /\ \A p \in Finding!Parties(e) : p[1] = a => p[2] <= newest(a)
    BY <2>1, NewestIs
  <2> QED BY <2>2, PartyIs
<1>3. \A p \in Finding!Parties(e) : p[1] \in met /\ p[2] \in Int
  BY PartyIs
<1> HIDE DEF met, newest
<1>4. ASSUME NEW a \in DOMAIN M
      PROVE  /\ M[a] \in Int
             /\ a \in DOMAIN dst => M[a] >= dst[a]
             /\ a \in met => M[a] >= newest(a)
  <2>1. CASE a \notin met
    BY <1>1, <1>4, <2>1 DEF Times
  <2>2. CASE a \in met /\ a \in DOMAIN dst
    <3>1. M[a] = Finding!Latest(dst[a], newest(a)) /\ dst[a] \in Int /\ newest(a) \in Int
      BY <1>1, <1>2, <2>2 DEF Times
    <3> QED BY <3>1 DEF Finding!Latest
  <2>3. CASE a \in met /\ a \notin DOMAIN dst
    BY <1>1, <1>2, <2>3
  <2> QED BY <2>1, <2>2, <2>3
<1>5. DOMAIN M = DOMAIN dst \cup met
  BY <1>1
<1>6. ASSUME NEW p \in Finding!Parties(e) PROVE p[1] \in DOMAIN M /\ M[p[1]] >= p[2]
  <2>1. p[1] \in met /\ p[1] \in DOMAIN M /\ p[2] \in Int
    BY <1>3, <1>5
  <2>2. M[p[1]] \in Int /\ M[p[1]] >= newest(p[1]) /\ newest(p[1]) \in Int /\ p[2] <= newest(p[1])
    BY <1>2, <1>4, <2>1
  <2> QED BY <2>1, <2>2
<1> QED BY <1>4, <1>5, <1>6 DEF Times

---------------------------------------------------------------------------
(* The trade stream's coins, and the harvest of its trades.                *)

StreamOk(s, v, b) ==
  /\ DOMAIN s = {"pc", "coins", "subscribed", "sender", "backoff"} /\ s.sender \in BOOLEAN
  /\ s.pc \in {"subscribe", "read"} => s.sender
  /\ s.pc = "read" /\ ~b => s.coins \subseteq v
  /\ s.sender => s.subscribed \subseteq v

LEMMA StreamStarts == ASSUME Finding!NotStreaming PROVE StreamOk(stream, venue, broken)
BY DEF Finding!NotStreaming, StreamOk

LEMMA StreamStep == ASSUME StreamOk(stream, venue, broken), Finding!StreamNext PROVE StreamOk(stream, venue, broken)'
<1>1. CASE Finding!SetCoins
  BY <1>1 DEF Finding!SetCoins, StreamOk
<1>2. CASE Finding!BootFails
  BY <1>2 DEF Finding!BootFails, StreamOk
<1>3. CASE Finding!Connect
  BY <1>3 DEF Finding!Connect, StreamOk
<1>4. CASE Finding!DialFails
  BY <1>4 DEF Finding!DialFails, Finding!Closed, StreamOk
<1>5. CASE Finding!SubscribeAll
  <2>1. PICK sent \in SUBSET stream.coins :
          /\ venue' = venue \cup sent
          /\ stream' = [stream EXCEPT !.subscribed = @ \cup sent, !.pc = IF sent = stream.coins THEN "read" ELSE "closing"]
    BY <1>5 DEF Finding!SubscribeAll
  <2>2. /\ DOMAIN stream' = DOMAIN stream /\ stream'.sender = TRUE /\ stream'.coins = stream.coins
        /\ stream'.subscribed = stream.subscribed \cup sent
        /\ stream'.pc = "read" => sent = stream.coins
        /\ stream'.pc # "subscribe"
    BY <1>5, <2>1 DEF StreamOk, Finding!SubscribeAll
  <2> QED BY <1>5, <2>1, <2>2 DEF StreamOk, Finding!SubscribeAll
<1>6. CASE Finding!ReadFails
  BY <1>6 DEF Finding!ReadFails, StreamOk
<1>7. CASE Finding!Close
  BY <1>7 DEF Finding!Close, Finding!Closed, StreamOk
<1>8. CASE Finding!Retry
  <2>1. PICK b : stream' = [stream EXCEPT !.pc = "dial", !.backoff = b]
    BY <1>8 DEF Finding!Retry
  <2> QED BY <1>8, <2>1 DEF Finding!Retry, StreamOk
<1>9. ASSUME NEW u \in Universes, Finding!RefreshCoins(u) PROVE StreamOk(stream, venue, broken)'
  <2>1. PICK sent \in SUBSET (u \ stream.subscribed) :
          /\ stream.sender \/ sent = u \ stream.subscribed
          /\ venue' = IF stream.sender THEN venue \cup sent ELSE venue
          /\ broken' = (sent /= u \ stream.subscribed)
          /\ stream' = [stream EXCEPT !.coins = u, !.subscribed = @ \cup sent]
    BY <1>9 DEF Finding!RefreshCoins
  <2>2. /\ DOMAIN stream' = DOMAIN stream /\ stream'.sender = stream.sender /\ stream'.coins = u
        /\ stream'.subscribed = stream.subscribed \cup sent /\ stream'.pc = stream.pc
    BY <2>1 DEF StreamOk
  <2>3. ~broken' => u \subseteq stream.subscribed \cup sent
    BY <2>1
  <2> QED BY <2>1, <2>2, <2>3 DEF StreamOk
<1> QED BY <1>1, <1>2, <1>3, <1>4, <1>5, <1>6, <1>7, <1>8, <1>9 DEF Finding!StreamNext

LEMMA CoinsCoveredNow == ASSUME StreamOk(stream, venue, broken) PROVE Finding!CoinsCovered
BY DEF StreamOk, Finding!CoinsCovered

\* A trade time is somewhere on its way, as late as it was seen.
OnWay(p, q, pe, fl, reg) ==
  \/ \E i \in DOMAIN q : p \in Finding!Parties(q[i])
  \/ p[1] \in DOMAIN pe /\ pe[p[1]] >= p[2]
  \/ p[1] \in DOMAIN fl /\ fl[p[1]] >= p[2]
  \/ p[1] \in DOMAIN reg /\ reg[p[1]].trade >= p[2]
TradeTimes(reg) == \A a \in DOMAIN reg : reg[a].trade \in Int
TradesOk(q, pe, fl, h, ac, reg) ==
  /\ q \in Seq(Batches) /\ Times(pe) /\ Times(fl) /\ TradeTimes(reg)
  /\ h \notin {"upsert", "last"} => DOMAIN fl = {}
  /\ \A p \in ac : p[2] \in Int
  /\ h # "lost" => \A p \in ac : OnWay(p, q, pe, fl, reg)

\* The registry only gains rows, and its rows later trades and the leaderboard.
Grows(old, new) ==
  /\ TradeTimes(new)
  /\ \A a \in DOMAIN old : /\ a \in DOMAIN new /\ new[a].trade >= old[a].trade
                           /\ old[a].source \in {"leaderboard", "both"} => new[a].source \in {"leaderboard", "both"}

LEMMA TradesStay ==
  ASSUME NEW q, NEW pe, NEW fl, NEW h, NEW ac, NEW reg, TradesOk(q, pe, fl, h, ac, reg), NEW new, Grows(reg, new)
  PROVE  TradesOk(q, pe, fl, h, ac, new)
<1>1. ASSUME NEW p \in ac, OnWay(p, q, pe, fl, reg) PROVE OnWay(p, q, pe, fl, new)
  <2>1. CASE p[1] \in DOMAIN reg /\ reg[p[1]].trade >= p[2]
    <3>1. p[1] \in DOMAIN new /\ new[p[1]].trade >= reg[p[1]].trade
      BY <2>1 DEF Grows
    <3>2. new[p[1]].trade \in Int /\ reg[p[1]].trade \in Int /\ p[2] \in Int
      BY <2>1, <3>1 DEF Grows, TradeTimes, TradesOk
    <3>3. new[p[1]].trade >= p[2]
      BY <2>1, <3>1, <3>2
    <3> QED BY <3>1, <3>3 DEF OnWay
  <2> QED BY <1>1, <2>1 DEF OnWay
<1> QED BY <1>1 DEF TradesOk, Grows

LEMMA SubmitStep ==
  ASSUME TradesOk(queue, pending, flushing, harvester, accepted, registry), NEW f \in Frames, Finding!Submit(f)
  PROVE  TradesOk(queue, pending, flushing, harvester, accepted, registry)'
<1> DEFINE e == Finding!ParseTradeFrame(f)
<1>0. UNCHANGED <<pending, flushing, harvester, registry>>
  BY DEF Finding!Submit, Finding!registryVars
<1>1. e \in Batches /\ IsBatch(e)
  BY BatchIs DEF Batches
<1>2. CASE Len(queue) < QueueCap
  <2>1. queue' = Append(queue, e) /\ accepted' = Finding!Newest(accepted \cup Finding!Parties(e))
    BY <1>2 DEF Finding!Submit
  <2> HIDE DEF e
  <2>2. /\ queue' \in Seq(Batches) /\ Len(queue') = Len(queue) + 1 /\ queue'[Len(queue) + 1] = e
        /\ \A i \in 1..Len(queue) : queue'[i] = queue[i]
    BY <1>1, <2>1, AppendIs DEF TradesOk
  <2>3. PICK n \in Nat : n = Len(queue) /\ DOMAIN queue = 1..n /\ DOMAIN queue' = 1..(n + 1)
    BY <2>2, LenProperties DEF TradesOk
  <2>4. queue'[n + 1] = e /\ \A i \in 1..n : queue'[i] = queue[i]
    BY <2>2, <2>3
  <2>5. \A p \in accepted' : p \in accepted \/ p \in Finding!Parties(e)
    BY <2>1 DEF Finding!Newest
  <2>6. \A p \in accepted' : p[2] \in Int
    BY <1>1, <2>5, PartyIs DEF TradesOk
  <2>7. ASSUME NEW p \in accepted', harvester # "lost" PROVE OnWay(p, queue', pending, flushing, registry)
    <3>1. CASE p \in Finding!Parties(e)
      <4>1. n + 1 \in DOMAIN queue'
        BY <2>3
      <4> QED BY <2>4, <3>1, <4>1 DEF OnWay
    <3>2. CASE p \in accepted
      <4>1. OnWay(p, queue, pending, flushing, registry)
        BY <2>7, <3>2 DEF TradesOk
      <4>2. \A i \in DOMAIN queue : i \in DOMAIN queue' /\ queue'[i] = queue[i]
        BY <2>3, <2>4
      <4> QED BY <4>1, <4>2 DEF OnWay
    <3> QED BY <2>5, <3>1, <3>2
  <2> QED BY <1>0, <2>2, <2>6, <2>7 DEF TradesOk
<1>3. CASE ~(Len(queue) < QueueCap)
  <2>1. UNCHANGED <<queue, accepted>>
    BY <1>3 DEF Finding!Submit
  <2> QED BY <1>0, <2>1
<1> QED BY <1>2, <1>3

LEMMA DrainStep ==
  ASSUME TradesOk(queue, pending, flushing, harvester, accepted, registry), Finding!Drain
  PROVE  TradesOk(queue, pending, flushing, harvester, accepted, registry)'
<1>1. PICK e : e = First(queue)
  OBVIOUS
<1>2. /\ queue # <<>> /\ queue' = Rest(queue) /\ pending' = Finding!MergeBatch(pending, e)
      /\ harvester = "idle" /\ harvester' \in {"full", "idle"} /\ UNCHANGED <<flushing, accepted, registry>>
  BY <1>1 DEF Finding!Drain, First, Rest, Finding!registryVars
<1>3. queue \in Seq(Batches) /\ Times(pending)
  BY DEF TradesOk
<1>4. queue' \in Seq(Batches) /\ e \in Batches /\ Live!Rows(queue) = {e} \cup Live!Rows(queue')
  BY <1>1, <1>2, <1>3, RowsOfTail
<1>5. /\ Times(pending')
      /\ \A a \in DOMAIN pending : a \in DOMAIN pending' /\ pending'[a] >= pending[a]
      /\ \A p \in Finding!Parties(e) : p[1] \in DOMAIN pending' /\ pending'[p[1]] >= p[2]
  BY <1>2, <1>3, <1>4, BatchIs, MergeIs
<1>6. ASSUME NEW p \in accepted, OnWay(p, queue, pending, flushing, registry)
      PROVE  OnWay(p, queue', pending', flushing, registry)
  <2>1. CASE \E i \in DOMAIN queue : p \in Finding!Parties(queue[i])
    <3>1. PICK i \in DOMAIN queue : p \in Finding!Parties(queue[i])
      BY <2>1
    <3>2. queue[i] = e \/ queue[i] \in Live!Rows(queue')
      BY <1>4, <3>1 DEF Live!Rows
    <3>3. CASE queue[i] = e
      BY <1>5, <3>1, <3>3 DEF OnWay
    <3>4. CASE queue[i] \in Live!Rows(queue')
      BY <3>1, <3>4 DEF OnWay, Live!Rows
    <3> QED BY <3>2, <3>3, <3>4
  <2>2. CASE p[1] \in DOMAIN pending /\ pending[p[1]] >= p[2]
    <3>1. p[1] \in DOMAIN pending' /\ pending'[p[1]] >= pending[p[1]]
      BY <1>5, <2>2
    <3>2. pending'[p[1]] \in Int /\ pending[p[1]] \in Int /\ p[2] \in Int
      BY <1>3, <1>5, <2>2, <3>1 DEF Times, TradesOk
    <3>3. pending'[p[1]] >= p[2]
      BY <2>2, <3>1, <3>2
    <3> QED BY <3>1, <3>3 DEF OnWay
  <2> QED BY <1>6, <2>1, <2>2 DEF OnWay
<1> QED BY <1>2, <1>4, <1>5, <1>6 DEF TradesOk

LEMMA FlushStep ==
  ASSUME TradesOk(queue, pending, flushing, harvester, accepted, registry), Finding!Flush
  PROVE  TradesOk(queue, pending, flushing, harvester, accepted, registry)'
<1>1. /\ flushing' = pending /\ DOMAIN pending' = {} /\ harvester \in {"idle", "full"} /\ harvester' \in {"upsert", "last"}
      /\ UNCHANGED <<queue, accepted, registry>>
  BY DEF Finding!Flush, Finding!Empty, Finding!registryVars
<1>2. DOMAIN flushing = {}
  BY <1>1 DEF TradesOk
<1>3. ASSUME NEW p \in accepted, OnWay(p, queue, pending, flushing, registry)
      PROVE  OnWay(p, queue, pending', flushing', registry)
  BY <1>1, <1>2, <1>3 DEF OnWay
<1>4. Times(pending') /\ Times(flushing')
  BY <1>1 DEF Times, TradesOk
<1> QED BY <1>1, <1>3, <1>4 DEF TradesOk

LEMMA StopStep ==
  ASSUME TradesOk(queue, pending, flushing, harvester, accepted, registry), Finding!StopEmpty
  PROVE  TradesOk(queue, pending, flushing, harvester, accepted, registry)'
<1>1. harvester = "idle" /\ harvester' = "over" /\ UNCHANGED <<queue, pending, flushing, accepted, registry>>
  BY DEF Finding!StopEmpty, Finding!registryVars
<1> QED BY <1>1 DEF TradesOk

LEMMA FlushFailsStep ==
  ASSUME TradesOk(queue, pending, flushing, harvester, accepted, registry), Finding!FlushFails
  PROVE  TradesOk(queue, pending, flushing, harvester, accepted, registry)'
<1>1. /\ pending' = Finding!Requeued /\ DOMAIN flushing' = {} /\ harvester' \in {"lost", "idle"}
      /\ harvester # "lost" /\ UNCHANGED <<queue, accepted, registry>>
  BY DEF Finding!FlushFails, Finding!Empty, Finding!registryVars
<1>2. Times(pending) /\ Times(flushing)
  BY DEF TradesOk
<1>3. DOMAIN pending' = DOMAIN pending \cup DOMAIN flushing
  BY <1>1 DEF Finding!Requeued
<1>4. ASSUME NEW a \in DOMAIN pending'
      PROVE  /\ pending'[a] \in Int
             /\ a \in DOMAIN pending => pending'[a] >= pending[a]
             /\ a \in DOMAIN flushing => pending'[a] >= flushing[a]
  <2>1. CASE a \notin DOMAIN flushing
    <3>1. pending'[a] = pending[a] /\ pending[a] \in Int
      BY <1>1, <1>2, <1>3, <2>1 DEF Finding!Requeued, Times
    <3> QED BY <2>1, <3>1
  <2>2. CASE a \in DOMAIN flushing /\ a \in DOMAIN pending
    <3>1. pending'[a] = Finding!Latest(pending[a], flushing[a]) /\ pending[a] \in Int /\ flushing[a] \in Int
      BY <1>1, <1>2, <1>3, <2>2 DEF Finding!Requeued, Times
    <3> QED BY <3>1 DEF Finding!Latest
  <2>3. CASE a \in DOMAIN flushing /\ a \notin DOMAIN pending
    <3>1. pending'[a] = flushing[a] /\ flushing[a] \in Int
      BY <1>1, <1>2, <1>3, <2>3 DEF Finding!Requeued, Times
    <3> QED BY <2>3, <3>1
  <2> QED BY <2>1, <2>2, <2>3
<1>5. ASSUME NEW p \in accepted, OnWay(p, queue, pending, flushing, registry)
      PROVE  OnWay(p, queue, pending', flushing', registry)
  <2>1. p[2] \in Int
    BY DEF TradesOk
  <2>2. CASE p[1] \in DOMAIN pending /\ pending[p[1]] >= p[2]
    <3>1. p[1] \in DOMAIN pending' /\ pending'[p[1]] \in Int /\ pending'[p[1]] >= pending[p[1]] /\ pending[p[1]] \in Int
      BY <1>2, <1>3, <1>4, <2>2 DEF Times
    <3>2. pending'[p[1]] >= p[2]
      BY <2>1, <2>2, <3>1
    <3> QED BY <3>1, <3>2 DEF OnWay
  <2>3. CASE p[1] \in DOMAIN flushing /\ flushing[p[1]] >= p[2]
    <3>1. p[1] \in DOMAIN pending' /\ pending'[p[1]] \in Int /\ pending'[p[1]] >= flushing[p[1]] /\ flushing[p[1]] \in Int
      BY <1>2, <1>3, <1>4, <2>3 DEF Times
    <3>2. pending'[p[1]] >= p[2]
      BY <2>1, <2>3, <3>1
    <3> QED BY <3>1, <3>2 DEF OnWay
  <2> QED BY <1>5, <2>2, <2>3 DEF OnWay
<1>6. Times(pending') /\ Times(flushing')
  BY <1>1, <1>4 DEF Times
<1> QED BY <1>1, <1>5, <1>6 DEF TradesOk

\* What a row says, by who has seen its wallet.
RowOk(row, s) ==
  /\ DOMAIN row = {"source", "trade", "lb"} /\ row.trade \in Int
  /\ row.source \in {"manual", "ws_trade", "leaderboard", "both"}
  /\ row.source = "both" => {"leaderboard", "ws_trade"} \subseteq s
  /\ row.source = "ws_trade" => "ws_trade" \in s /\ "leaderboard" \notin s
  /\ row.source = "leaderboard" => "leaderboard" \in s /\ ("ws_trade" \in s => "manual" \in s)
  /\ row.source = "manual" => "leaderboard" \notin s /\ "manual" \in s
  /\ row.lb = ("leaderboard" \in s)
RegistryOk(reg, sw) == DOMAIN sw = DOMAIN reg /\ \A a \in DOMAIN reg : RowOk(reg[a], sw[a])

LEMMA MergedRow ==
  ASSUME NEW row, NEW s, RowOk(row, s), NEW t \in Int
  PROVE  LET m == Finding!MergeWS(row, t)
         IN  /\ RowOk(m, s \cup {"ws_trade"}) /\ m.trade >= t /\ m.trade >= row.trade
             /\ row.source \in {"leaderboard", "both"} => m.source \in {"leaderboard", "both"}
<1>1. PICK m : m = Finding!MergeWS(row, t)
  OBVIOUS
<1>2. /\ DOMAIN m = DOMAIN row /\ m.trade = Finding!Latest(row.trade, t) /\ m.lb = row.lb
      /\ m.source = IF row.source = "leaderboard" THEN "both" ELSE row.source
  BY <1>1 DEF Finding!MergeWS, RowOk
<1>3. m.trade \in Int /\ m.trade >= t /\ m.trade >= row.trade
  BY <1>2 DEF Finding!Latest, RowOk
<1>4. RowOk(m, s \cup {"ws_trade"})
  BY <1>2, <1>3 DEF RowOk
<1> QED BY <1>1, <1>2, <1>3, <1>4

LEMMA TimesOfRows == ASSUME NEW reg, NEW sw, RegistryOk(reg, sw) PROVE TradeTimes(reg)
BY DEF RegistryOk, RowOk, TradeTimes

LEMMA UpsertWSRows ==
  ASSUME RegistryOk(registry, saw), TradesOk(queue, pending, flushing, harvester, accepted, registry),
         Finding!UpsertRegistryWS
  PROVE  /\ RegistryOk(registry', saw') /\ Grows(registry, registry')
         /\ \A a \in DOMAIN flushing : a \in DOMAIN registry' /\ registry'[a].trade >= flushing[a]
<1>1. /\ DOMAIN registry' = DOMAIN registry \cup DOMAIN flushing
      /\ \A a \in DOMAIN registry' : registry'[a] =
           IF a \notin DOMAIN flushing THEN registry[a]
           ELSE IF a \in DOMAIN registry THEN Finding!MergeWS(registry[a], flushing[a])
           ELSE [source |-> "ws_trade", trade |-> flushing[a], lb |-> FALSE]
  BY DEF Finding!UpsertRegistryWS
<1>2. /\ DOMAIN saw' = DOMAIN registry'
      /\ \A a \in DOMAIN registry' : saw'[a] =
           (IF a \in DOMAIN saw THEN saw[a] ELSE {}) \cup (IF a \in DOMAIN flushing THEN {"ws_trade"} ELSE {})
  BY DEF Finding!UpsertRegistryWS
<1>3. Times(flushing)
  BY DEF TradesOk
<1>4. ASSUME NEW a \in DOMAIN registry'
      PROVE  /\ RowOk(registry'[a], saw'[a])
             /\ a \in DOMAIN flushing => registry'[a].trade >= flushing[a]
             /\ a \in DOMAIN registry =>
                  /\ registry'[a].trade >= registry[a].trade
                  /\ registry[a].source \in {"leaderboard", "both"} => registry'[a].source \in {"leaderboard", "both"}
  <2>1. CASE a \notin DOMAIN flushing
    <3>1. a \in DOMAIN registry /\ registry'[a] = registry[a] /\ saw'[a] = saw[a]
      BY <1>1, <1>2, <2>1 DEF RegistryOk
    <3>2. RowOk(registry[a], saw[a]) /\ registry[a].trade \in Int
      BY <3>1 DEF RegistryOk, RowOk
    <3> QED BY <2>1, <3>1, <3>2
  <2>2. CASE a \in DOMAIN flushing /\ a \in DOMAIN registry
    <3>1. registry'[a] = Finding!MergeWS(registry[a], flushing[a]) /\ saw'[a] = saw[a] \cup {"ws_trade"}
      BY <1>1, <1>2, <2>2 DEF RegistryOk
    <3>2. RowOk(registry[a], saw[a]) /\ flushing[a] \in Int
      BY <1>3, <2>2 DEF RegistryOk, Times
    <3>3. PICK t \in Int : t = flushing[a]
      BY <3>2
    <3>6. PICK row, s : row = registry[a] /\ s = saw[a] /\ RowOk(row, s)
      BY <3>2
    <3>4. PICK m : /\ m = Finding!MergeWS(row, t) /\ RowOk(m, s \cup {"ws_trade"}) /\ m.trade >= t /\ m.trade >= row.trade
                   /\ row.source \in {"leaderboard", "both"} => m.source \in {"leaderboard", "both"}
      BY <3>6, MergedRow
    <3>5. registry'[a] = m /\ saw'[a] = s \cup {"ws_trade"}
      BY <3>1, <3>3, <3>4, <3>6
    <3> QED BY <3>3, <3>4, <3>5, <3>6
  <2>3. CASE a \in DOMAIN flushing /\ a \notin DOMAIN registry
    <3>1. registry'[a] = [source |-> "ws_trade", trade |-> flushing[a], lb |-> FALSE] /\ saw'[a] = {"ws_trade"}
      BY <1>1, <1>2, <2>3 DEF RegistryOk
    <3>2. PICK t \in Int : t = flushing[a]
      BY <1>3, <2>3 DEF Times
    <3>3. RowOk([source |-> "ws_trade", trade |-> t, lb |-> FALSE], {"ws_trade"})
      <4>1. PICK n : n = [source |-> "ws_trade", trade |-> t, lb |-> FALSE]
        OBVIOUS
      <4>2. DOMAIN n = {"source", "trade", "lb"} /\ n.source = "ws_trade" /\ n.trade = t /\ n.lb = FALSE
        BY <4>1
      <4>3. ("leaderboard" \in {"ws_trade"}) = FALSE
        OBVIOUS
      <4>4. n.lb = ("leaderboard" \in {"ws_trade"})
        BY <4>2, <4>3
      <4> HIDE <4>1
      <4>5. RowOk(n, {"ws_trade"})
        BY <4>2, <4>4 DEF RowOk
      <4> QED BY <4>1, <4>5
    <3>4. registry'[a].trade = t
      BY <3>1, <3>2
    <3>5. registry'[a].trade >= flushing[a]
      BY <3>2, <3>4
    <3> QED BY <2>3, <3>1, <3>2, <3>3, <3>5
  <2> QED BY <2>1, <2>2, <2>3
<1>5. RegistryOk(registry', saw')
  BY <1>2, <1>4 DEF RegistryOk
<1>6. Grows(registry, registry')
  BY <1>1, <1>4, <1>5, TimesOfRows DEF Grows
<1> QED BY <1>1, <1>4, <1>5, <1>6

LEMMA UpsertWSStep ==
  ASSUME RegistryOk(registry, saw), TradesOk(queue, pending, flushing, harvester, accepted, registry),
         Finding!UpsertRegistryWS
  PROVE  TradesOk(queue, pending, flushing, harvester, accepted, registry)'
<1>1. /\ DOMAIN flushing' = {} /\ harvester' \in {"over", "idle"} /\ harvester # "lost"
      /\ UNCHANGED <<queue, pending, accepted>>
  BY DEF Finding!UpsertRegistryWS, Finding!Empty
<1>2. /\ RegistryOk(registry', saw') /\ Grows(registry, registry')
      /\ \A a \in DOMAIN flushing : a \in DOMAIN registry' /\ registry'[a].trade >= flushing[a]
  BY UpsertWSRows
<1>3. TradesOk(queue, pending, flushing, harvester, accepted, registry')
  BY <1>2, TradesStay
<1>4. ASSUME NEW p \in accepted, OnWay(p, queue, pending, flushing, registry')
      PROVE  OnWay(p, queue, pending, flushing', registry')
  <2>1. CASE p[1] \in DOMAIN flushing /\ flushing[p[1]] >= p[2]
    <3>1. p[1] \in DOMAIN registry' /\ registry'[p[1]].trade >= flushing[p[1]]
      BY <1>2, <2>1
    <3>2. registry'[p[1]].trade \in Int /\ flushing[p[1]] \in Int /\ p[2] \in Int
      BY <1>3, <2>1, <3>1 DEF TradesOk, TradeTimes, Times
    <3>3. registry'[p[1]].trade >= p[2]
      BY <2>1, <3>1, <3>2
    <3> QED BY <3>1, <3>3 DEF OnWay
  <2> QED BY <1>4, <2>1 DEF OnWay
<1>5. Times(flushing')
  BY <1>1 DEF Times
<1> QED BY <1>1, <1>3, <1>4, <1>5 DEF TradesOk

LEMMA HarvestStep ==
  ASSUME RegistryOk(registry, saw), TradesOk(queue, pending, flushing, harvester, accepted, registry),
         Finding!HarvestNext
  PROVE  /\ RegistryOk(registry', saw') /\ Grows(registry, registry')
         /\ TradesOk(queue, pending, flushing, harvester, accepted, registry)'
<1>1. ASSUME UNCHANGED <<registry, saw>> PROVE RegistryOk(registry', saw') /\ Grows(registry, registry')
  <2>1. TradeTimes(registry)
    BY TimesOfRows
  <2>2. \A a \in DOMAIN registry : registry[a].trade >= registry[a].trade
    BY <2>1 DEF TradeTimes
  <2> QED BY <1>1, <2>1, <2>2 DEF Grows
<1>2. ASSUME NEW f \in Frames, Finding!Submit(f) PROVE UNCHANGED <<registry, saw>>
  BY <1>2 DEF Finding!Submit, Finding!registryVars
<1>3. Finding!Drain \/ Finding!Flush \/ Finding!StopEmpty \/ Finding!FlushFails => UNCHANGED <<registry, saw>>
  BY DEF Finding!Drain, Finding!Flush, Finding!StopEmpty, Finding!FlushFails, Finding!registryVars
<1>4. ASSUME NEW f \in Frames, Finding!Submit(f) PROVE TradesOk(queue, pending, flushing, harvester, accepted, registry)'
  BY <1>4, SubmitStep
<1>5. Finding!Drain \/ Finding!Flush \/ Finding!StopEmpty \/ Finding!FlushFails =>
        TradesOk(queue, pending, flushing, harvester, accepted, registry)'
  BY DrainStep, FlushStep, StopStep, FlushFailsStep
<1>6. Finding!UpsertRegistryWS =>
        /\ RegistryOk(registry', saw') /\ Grows(registry, registry')
        /\ TradesOk(queue, pending, flushing, harvester, accepted, registry)'
  BY UpsertWSRows, UpsertWSStep
<1> QED BY <1>1, <1>2, <1>3, <1>4, <1>5, <1>6 DEF Finding!HarvestNext

LEMMA HarvestStarts ==
  ASSUME Finding!NothingFound
  PROVE  RegistryOk(registry, saw) /\ TradesOk(queue, pending, flushing, harvester, accepted, registry)
<1>1. PICK m \in Manual : /\ registry = [a \in m |-> [source |-> "manual", trade |-> 0, lb |-> FALSE]]
                          /\ saw = [a \in m |-> {"manual"}]
  BY DEF Finding!NothingFound
<1>2. RowOk([source |-> "manual", trade |-> 0, lb |-> FALSE], {"manual"})
  <2>1. PICK n : n = [source |-> "manual", trade |-> 0, lb |-> FALSE]
    OBVIOUS
  <2>2. DOMAIN n = {"source", "trade", "lb"} /\ n.source = "manual" /\ n.trade = 0 /\ n.lb = FALSE
    BY <2>1
  <2>3. ("leaderboard" \in {"manual"}) = FALSE
    OBVIOUS
  <2>4. n.lb = ("leaderboard" \in {"manual"})
    BY <2>2, <2>3
  <2> HIDE <2>1
  <2>5. RowOk(n, {"manual"})
    BY <2>2, <2>4 DEF RowOk
  <2> QED BY <2>1, <2>5
<1>3. RegistryOk(registry, saw)
  BY <1>1, <1>2 DEF RegistryOk
<1>4. /\ queue = <<>> /\ DOMAIN pending = {} /\ DOMAIN flushing = {} /\ harvester = "idle" /\ accepted = {}
  BY DEF Finding!NothingFound, Finding!Empty
<1> QED BY <1>3, <1>4, TimesOfRows DEF TradesOk, Times

LEMMA TradesKeptNow ==
  ASSUME TradesOk(queue, pending, flushing, harvester, accepted, registry) PROVE Finding!TradesKept
BY DEF TradesOk, OnWay, Finding!TradesKept

LEMMA SourceIsTrueNow == ASSUME RegistryOk(registry, saw) PROVE Finding!SourceIsTrue
BY DEF RegistryOk, RowOk, Finding!SourceIsTrue

---------------------------------------------------------------------------
(* The leaderboard's discovery.                                            *)

BoardRow == [addr : Nat, month : Int, windows : SUBSET STRING]
DiscoveryFields == {"pc", "rows", "windows", "board", "top", "run", "errors"}
\* A wallet of the board that was seen, with references of this run but for some windows.
DoneRow(x, ws, run, reg, rf) ==
  x.addr # 0 =>
    /\ x.addr \in DOMAIN reg /\ reg[x.addr].source \in {"leaderboard", "both"}
    /\ \A w \in (x.windows \cap Finding!Known) \ ws : <<x.addr, w>> \in DOMAIN rf /\ rf[<<x.addr, w>>] = run
\* The rows still to be done are the last of those taken, and the others are done.
RowsLeft(d, reg, rf) ==
  LET k == Finding!Kept(d.board)
  IN  /\ d.rows \in Seq(BoardRow) /\ Len(d.rows) <= k
      /\ \A n \in 1..Len(d.rows) : d.rows[n] = d.board[d.top[k - Len(d.rows) + n]]
      /\ \A n \in 1..(k - Len(d.rows)) : DoneRow(d.board[d.top[n]], {}, d.run, reg, rf)
      /\ d.windows # {} => d.rows # <<>> /\ d.rows[1].addr # 0 /\ DoneRow(d.rows[1], d.windows, d.run, reg, rf)
ListingOk(d, reg, rf) ==
  /\ DOMAIN d = DiscoveryFields
  /\ d.pc \in {"rows", "listed"} => d.board \in Boards /\ d.top \in Finding!SelectTop(d.board)
  /\ d.pc = "rows" => RowsLeft(d, reg, rf)
  /\ d.pc = "listed" => \A n \in 1..Finding!Kept(d.board) : DoneRow(d.board[d.top[n]], {}, d.run, reg, rf)
KeysKept(run, old, new) == \A k \in DOMAIN old : k \in DOMAIN new /\ (old[k] = run => new[k] = run)

LEMMA DoneStays ==
  ASSUME NEW x, NEW ws, NEW run, NEW reg, NEW rf, DoneRow(x, ws, run, reg, rf), NEW reg2, NEW rf2,
         Grows(reg, reg2), KeysKept(run, rf, rf2)
  PROVE  DoneRow(x, ws, run, reg2, rf2)
BY DEF DoneRow, Grows, KeysKept

LEMMA ListingStays ==
  ASSUME NEW d, NEW reg, NEW rf, ListingOk(d, reg, rf), NEW reg2, Grows(reg, reg2)
  PROVE  ListingOk(d, reg2, rf)
<1>1. KeysKept(d.run, rf, rf)
  BY DEF KeysKept
<1>2. \A x, ws : DoneRow(x, ws, d.run, reg, rf) => DoneRow(x, ws, d.run, reg2, rf)
  BY <1>1, DoneStays
<1>3. d.pc = "rows" => RowsLeft(d, reg2, rf)
  BY <1>2 DEF ListingOk, RowsLeft
<1> QED BY <1>2, <1>3 DEF ListingOk

LEMMA BoardIs ==
  ASSUME NEW b \in Boards
  PROVE  /\ b \in Seq(BoardRow) /\ Finding!Kept(b) \in Nat /\ Len(b) \in Nat /\ DOMAIN b = 1..Len(b)
<1>1. b \in Seq(BoardRow) /\ Limit \in Int
  BY HarvestAssumption DEF Finding!HarvestAssumption, BoardRow
<1>2. Len(b) \in Nat /\ DOMAIN b = 1..Len(b)
  BY <1>1, LenProperties
<1>3. PICK n \in Nat : n = Len(b)
  BY <1>2
<1>4. Finding!Kept(b) = IF Limit > 0 /\ n > Limit THEN Limit ELSE n
  BY <1>3 DEF Finding!Kept
<1>5. Finding!Kept(b) \in Nat
  BY <1>1, <1>4
<1> QED BY <1>1, <1>2, <1>5

LEMMA TopIs ==
  ASSUME NEW b \in Boards, NEW top \in Finding!SelectTop(b)
  PROVE  /\ top \in [1..Finding!Kept(b) -> DOMAIN b] /\ DOMAIN top = 1..Finding!Kept(b)
         /\ \A n \in 1..Finding!Kept(b) : b[top[n]] \in BoardRow
         /\ \A m, n \in DOMAIN top : m < n => Finding!Before(b, top[m], top[n])
         /\ \A n \in DOMAIN top, i \in DOMAIN b : (\A m \in DOMAIN top : top[m] # i) => Finding!Before(b, top[n], i)
<1>1. top \in [1..Finding!Kept(b) -> DOMAIN b] /\ DOMAIN top = 1..Finding!Kept(b)
  BY DEF Finding!SelectTop
<1>2. \A n \in 1..Finding!Kept(b) : b[top[n]] \in BoardRow
  BY <1>1, BoardIs, ElementOfSeq
<1> QED BY <1>1, <1>2 DEF Finding!SelectTop

LEMMA PlacesOfRows ==
  ASSUME NEW k \in Nat, NEW n \in Nat, n <= k, n >= 1, NEW i \in 1..(n - 1)
  PROVE  i + 1 \in 1..n /\ k - n + (i + 1) = k - (n - 1) + i
OBVIOUS

LEMMA DoneOfRows ==
  ASSUME NEW k \in Nat, NEW n \in Nat, n <= k, n >= 1, NEW i \in 1..(k - (n - 1))
  PROVE  i \in 1..(k - n) \/ i = k - n + 1
OBVIOUS

\* The first of the rows that are left is done, and the rest stay.
LEMMA FirstDone ==
  ASSUME NEW d, NEW reg, NEW rf, RowsLeft(d, reg, rf), d.board \in Boards, d.rows # <<>>,
         NEW e, e.rows = Rest(d.rows), e.windows = {}, e.board = d.board, e.top = d.top, e.run = d.run,
         NEW reg2, NEW rf2, Grows(reg, reg2), KeysKept(d.run, rf, rf2),
         DoneRow(d.rows[1], {}, d.run, reg2, rf2)
  PROVE  RowsLeft(e, reg2, rf2)
<1>1. PICK k \in Nat : k = Finding!Kept(d.board)
  BY BoardIs
<1>2. PICK s \in Seq(BoardRow) : s = d.rows /\ s # <<>>
  BY DEF RowsLeft
<1>3. PICK u : u = Tail(s) /\ u = e.rows
  BY <1>2 DEF Rest
<1>4. u \in Seq(BoardRow) /\ Len(u) = Len(s) - 1 /\ \A i \in 1..Len(u) : u[i] = s[i + 1]
  BY <1>2, <1>3, TailIs
<1>5. PICK n \in Nat : n = Len(s) /\ n >= 1
  BY <1>2, EmptySeq
<1>6. Len(u) = n - 1 /\ n <= k
  BY <1>1, <1>2, <1>4, <1>5 DEF RowsLeft
<1>7. \A i \in 1..n : s[i] = d.board[d.top[k - n + i]]
  BY <1>1, <1>2, <1>5 DEF RowsLeft
<1>8. ASSUME NEW i \in 1..(n - 1) PROVE u[i] = d.board[d.top[k - (n - 1) + i]]
  <2>1. i + 1 \in 1..n /\ k - n + (i + 1) = k - (n - 1) + i
    BY <1>5, <1>6, PlacesOfRows
  <2>2. u[i] = s[i + 1]
    BY <1>4, <1>6
  <2>3. s[i + 1] = d.board[d.top[k - n + (i + 1)]]
    BY <1>7, <2>1
  <2> QED BY <2>1, <2>2, <2>3
<1>9. ASSUME NEW i \in 1..(k - (n - 1)) PROVE DoneRow(d.board[d.top[i]], {}, d.run, reg2, rf2)
  <2>1. CASE i \in 1..(k - n)
    <3>1. DoneRow(d.board[d.top[i]], {}, d.run, reg, rf)
      BY <1>1, <1>2, <1>5, <2>1 DEF RowsLeft
    <3> QED BY <3>1, DoneStays
  <2>2. CASE i = k - n + 1
    <3>1. 1 \in 1..n
      BY <1>5
    <3>2. s[1] = d.board[d.top[i]]
      BY <1>7, <2>2, <3>1
    <3> QED BY <1>2, <3>2
  <2> QED BY <1>5, <1>6, <2>1, <2>2, DoneOfRows
<1>10. Len(u) <= k
  BY <1>5, <1>6
<1>11. \A i \in 1..Len(u) : e.rows[i] = e.board[e.top[k - Len(u) + i]]
  BY <1>3, <1>6, <1>8
<1>12. \A i \in 1..(k - Len(u)) : DoneRow(e.board[e.top[i]], {}, e.run, reg2, rf2)
  BY <1>6, <1>9
<1>13. k = Finding!Kept(e.board)
  BY <1>1
<1> QED BY <1>3, <1>4, <1>10, <1>11, <1>12, <1>13 DEF RowsLeft

LEMMA SameRegistry == ASSUME NEW reg, NEW sw, RegistryOk(reg, sw) PROVE Grows(reg, reg)
<1>1. \A a \in DOMAIN reg : reg[a].trade \in Int /\ reg[a].trade >= reg[a].trade
  BY TimesOfRows DEF TradeTimes
<1> QED BY <1>1 DEF Grows, TradeTimes

LEMMA DiscoverStep ==
  ASSUME ListingOk(discovery, registry, refs), NEW b \in Boards, Finding!Discover(b)
  PROVE  ListingOk(discovery', registry, refs)
<1>1. PICK top \in Finding!SelectTop(b) :
        discovery' = [discovery EXCEPT !.pc = "rows", !.board = b, !.top = top,
                                       !.rows = [n \in DOMAIN top |-> b[top[n]]], !.windows = {}, !.run = @ + 1]
  BY DEF Finding!Discover
<1>2. PICK s : s = [n \in DOMAIN top |-> b[top[n]]]
  OBVIOUS
<1>3. PICK e : e = discovery'
  OBVIOUS
<1>4. /\ DOMAIN e = DiscoveryFields /\ e.pc = "rows" /\ e.board = b /\ e.top = top /\ e.rows = s /\ e.windows = {}
  BY <1>1, <1>2, <1>3 DEF ListingOk, DiscoveryFields
<1>5. PICK k \in Nat : k = Finding!Kept(b)
  BY BoardIs
<1>6. DOMAIN top = 1..k /\ \A n \in 1..k : b[top[n]] \in BoardRow
  BY <1>5, TopIs
<1>7. s \in Seq(BoardRow) /\ Len(s) = k /\ \A n \in 1..k : s[n] = b[top[n]]
  <2>1. s \in [1..k -> BoardRow] /\ \A n \in 1..k : s[n] = b[top[n]]
    BY <1>2, <1>6
  <2> QED BY <2>1
<1>8. ASSUME NEW n \in 1..k PROVE s[n] = b[top[k - k + n]]
  <2>1. k - k + n = n
    OBVIOUS
  <2> QED BY <1>7, <2>1
<1>9. 1..(k - k) = {}
  OBVIOUS
<1>10. RowsLeft(e, registry, refs)
  BY <1>4, <1>5, <1>7, <1>8, <1>9 DEF RowsLeft
<1> QED BY <1>3, <1>4, <1>10 DEF ListingOk

\* What the leaderboard adds to the registry.
LEMMA ListedRow ==
  ASSUME NEW row, NEW s, RowOk(row, s)
  PROVE  LET m == [row EXCEPT !.source = Finding!Merge(@, "leaderboard"), !.lb = TRUE]
         IN  RowOk(m, s \cup {"leaderboard"}) /\ m.trade = row.trade /\ m.source \in {"leaderboard", "both"}
<1>1. PICK m : m = [row EXCEPT !.source = Finding!Merge(@, "leaderboard"), !.lb = TRUE]
  OBVIOUS
<1>2. /\ DOMAIN m = {"source", "trade", "lb"} /\ m.trade = row.trade /\ m.lb = TRUE
      /\ m.source = Finding!Merge(row.source, "leaderboard") /\ row.trade \in Int
  BY <1>1 DEF RowOk
<1>3. \/ row.source \in {"manual", "leaderboard"} /\ m.source = "leaderboard"
      \/ row.source \in {"ws_trade", "both"} /\ m.source = "both"
  BY <1>2 DEF RowOk, Finding!Merge
<1>4. ("leaderboard" \in s \cup {"leaderboard"}) = TRUE
  OBVIOUS
<1>5. m.lb = ("leaderboard" \in s \cup {"leaderboard"})
  BY <1>2, <1>4
<1>6. /\ m.source = "both" => "ws_trade" \in s
      /\ m.source = "leaderboard" => ("ws_trade" \in s => "manual" \in s)
  BY <1>3 DEF RowOk
<1>7. RowOk(m, s \cup {"leaderboard"})
  BY <1>2, <1>3, <1>5, <1>6 DEF RowOk
<1> QED BY <1>1, <1>2, <1>3, <1>7

LEMMA NewListedRow == RowOk([source |-> "leaderboard", trade |-> 0, lb |-> TRUE], {"leaderboard"})
<1>1. PICK n : n = [source |-> "leaderboard", trade |-> 0, lb |-> TRUE]
  OBVIOUS
<1>2. DOMAIN n = {"source", "trade", "lb"} /\ n.source = "leaderboard" /\ n.trade = 0 /\ n.lb = TRUE
  BY <1>1
<1>3. ("leaderboard" \in {"leaderboard"}) = TRUE
  OBVIOUS
<1>4. n.lb = ("leaderboard" \in {"leaderboard"})
  BY <1>2, <1>3
<1> HIDE <1>1
<1>5. RowOk(n, {"leaderboard"})
  BY <1>2, <1>4 DEF RowOk
<1> QED BY <1>1, <1>5

LEMMA UpsertRows ==
  ASSUME RegistryOk(registry, saw), NEW a,
         registry' = [b \in DOMAIN registry \cup {a} |->
                   IF b /= a THEN registry[b]
                   ELSE IF a \in DOMAIN registry
                   THEN [registry[a] EXCEPT !.source = Finding!Merge(@, "leaderboard"), !.lb = TRUE]
                   ELSE [source |-> "leaderboard", trade |-> 0, lb |-> TRUE]],
         saw' = [b \in DOMAIN registry' |->
                   (IF b \in DOMAIN saw THEN saw[b] ELSE {}) \cup (IF b = a THEN {"leaderboard"} ELSE {})]
  PROVE  /\ RegistryOk(registry', saw') /\ Grows(registry, registry')
         /\ a \in DOMAIN registry' /\ registry'[a].source \in {"leaderboard", "both"}
<1>1. DOMAIN registry' = DOMAIN registry \cup {a} /\ DOMAIN saw' = DOMAIN registry'
  OBVIOUS
<1>2. ASSUME NEW b \in DOMAIN registry', b # a
      PROVE  b \in DOMAIN registry /\ registry'[b] = registry[b] /\ saw'[b] = saw[b]
  BY <1>1, <1>2 DEF RegistryOk
<1>3. CASE a \in DOMAIN registry
  <2>1. PICK row, s : row = registry[a] /\ s = saw[a] /\ RowOk(row, s)
    BY <1>3 DEF RegistryOk
  <2>2. PICK m : m = [row EXCEPT !.source = Finding!Merge(@, "leaderboard"), !.lb = TRUE]
    OBVIOUS
  <2>3. RowOk(m, s \cup {"leaderboard"}) /\ m.trade = row.trade /\ m.source \in {"leaderboard", "both"}
    BY <2>1, <2>2, ListedRow
  <2>4. registry'[a] = m
    BY <1>1, <1>3, <2>1, <2>2
  <2>5. saw'[a] = s \cup {"leaderboard"}
    BY <1>1, <1>3, <2>1 DEF RegistryOk
  <2>6. RegistryOk(registry', saw')
    BY <1>1, <1>2, <2>3, <2>4, <2>5 DEF RegistryOk
  <2>7. \A b \in DOMAIN registry : registry[b].trade \in Int /\ registry'[b].trade = registry[b].trade
    <3>1. ASSUME NEW b \in DOMAIN registry PROVE registry[b].trade \in Int
      BY DEF RegistryOk, RowOk
    <3>2. ASSUME NEW b \in DOMAIN registry PROVE registry'[b].trade = registry[b].trade
      BY <1>1, <1>2, <2>1, <2>3, <2>4
    <3> QED BY <3>1, <3>2
  <2>8. Grows(registry, registry')
    <3>1. TradeTimes(registry')
      BY <2>6, TimesOfRows
    <3>2. \A b \in DOMAIN registry : registry'[b].trade >= registry[b].trade
      BY <2>7
    <3> QED BY <1>1, <1>2, <2>3, <2>4, <3>1, <3>2 DEF Grows
  <2> QED BY <1>1, <2>3, <2>4, <2>6, <2>8
<1>4. CASE a \notin DOMAIN registry
  <2>1. registry'[a] = [source |-> "leaderboard", trade |-> 0, lb |-> TRUE] /\ saw'[a] = {"leaderboard"}
    BY <1>1, <1>4 DEF RegistryOk
  <2>2. RegistryOk(registry', saw')
    BY <1>1, <1>2, <2>1, NewListedRow DEF RegistryOk
  <2>3. \A b \in DOMAIN registry : b # a /\ registry'[b] = registry[b]
    BY <1>1, <1>2, <1>4
  <2>4. Grows(registry, registry')
    <3>1. TradeTimes(registry') /\ TradeTimes(registry)
      BY <2>2, TimesOfRows
    <3>2. \A b \in DOMAIN registry : registry[b].trade >= registry[b].trade
      BY <3>1 DEF TradeTimes
    <3> QED BY <1>1, <2>3, <3>1, <3>2 DEF Grows
  <2> QED BY <1>1, <2>1, <2>2, <2>4
<1> QED BY <1>3, <1>4

\* A wallet of the board gets its row, and its references are to be written.
LEMMA UpsertStep ==
  ASSUME ListingOk(discovery, registry, refs), RegistryOk(registry, saw), Finding!UpsertRegistry
  PROVE  ListingOk(discovery', registry', refs') /\ RegistryOk(registry', saw') /\ Grows(registry, registry')
<1>1. PICK x, a : x = First(discovery.rows) /\ a = x.addr
  OBVIOUS
<1>2. discovery.pc = "rows" /\ discovery.rows # <<>> /\ discovery.windows = {} /\ refs' = refs
  BY DEF Finding!UpsertRegistry
<1>3. DOMAIN discovery = DiscoveryFields /\ RowsLeft(discovery, registry, refs)
      /\ discovery.board \in Boards /\ discovery.top \in Finding!SelectTop(discovery.board)
  BY <1>2 DEF ListingOk
<1>4. discovery.rows \in Seq(BoardRow) /\ discovery.rows[1] = x
  <2>1. PICK s \in Seq(BoardRow) : s = discovery.rows /\ s # <<>>
    BY <1>2, <1>3 DEF RowsLeft
  <2>2. First(s) = s[1]
    BY <2>1 DEF First
  <2> QED BY <1>1, <2>1, <2>2
<1>5. KeysKept(discovery.run, refs, refs')
  BY <1>2 DEF KeysKept
<1> DEFINE tail == [discovery EXCEPT !.rows = Rest(@)]
           ws == x.windows \cap Finding!Known
           begun == [discovery EXCEPT !.windows = ws]
<1>6. /\ DOMAIN tail = DiscoveryFields /\ tail.rows = Rest(discovery.rows) /\ tail.windows = {}
      /\ tail.board = discovery.board /\ tail.top = discovery.top /\ tail.run = discovery.run /\ tail.pc = "rows"
  BY <1>2, <1>3 DEF DiscoveryFields
<1>7. /\ DOMAIN begun = DiscoveryFields /\ begun.rows = discovery.rows /\ begun.windows = ws
      /\ begun.board = discovery.board /\ begun.top = discovery.top /\ begun.run = discovery.run /\ begun.pc = "rows"
  BY <1>2, <1>3 DEF DiscoveryFields
<1>8. CASE a = 0
  <2>1. discovery' = [discovery EXCEPT !.rows = Tail(@)] /\ UNCHANGED <<registry, saw>>
    BY <1>1, <1>8 DEF Finding!UpsertRegistry, First, Finding!registryVars
  <2>2. discovery' = tail
    BY <2>1 DEF Rest
  <2> HIDE DEF tail, begun, ws
  <2>3. DoneRow(x, {}, discovery.run, registry', refs')
    BY <1>1, <1>8 DEF DoneRow
  <2>4. RegistryOk(registry', saw') /\ Grows(registry, registry')
    BY <2>1, SameRegistry
  <2>5. RowsLeft(tail, registry', refs')
    BY <1>2, <1>3, <1>4, <1>5, <1>6, <2>3, <2>4, FirstDone
  <2> QED BY <1>3, <1>6, <2>2, <2>4, <2>5 DEF ListingOk
<1>9. CASE a # 0
  <2>1. /\ registry' = [b \in DOMAIN registry \cup {a} |->
                   IF b /= a THEN registry[b]
                   ELSE IF a \in DOMAIN registry
                   THEN [registry[a] EXCEPT !.source = Finding!Merge(@, "leaderboard"), !.lb = TRUE]
                   ELSE [source |-> "leaderboard", trade |-> 0, lb |-> TRUE]]
        /\ saw' = [b \in DOMAIN registry' |->
                   (IF b \in DOMAIN saw THEN saw[b] ELSE {}) \cup (IF b = a THEN {"leaderboard"} ELSE {})]
        /\ discovery' = IF x.windows \cap Finding!Known = {} THEN [discovery EXCEPT !.rows = Tail(@)]
                        ELSE [discovery EXCEPT !.windows = x.windows \cap Finding!Known]
    BY <1>1, <1>9 DEF Finding!UpsertRegistry, First
  <2>2. discovery' = IF ws = {} THEN tail ELSE begun
    BY <2>1 DEF Rest
  <2>3. /\ RegistryOk(registry', saw') /\ Grows(registry, registry')
        /\ a \in DOMAIN registry' /\ registry'[a].source \in {"leaderboard", "both"}
    BY <2>1, UpsertRows
  <2>4. DoneRow(x, ws, discovery.run, registry', refs')
    BY <1>1, <2>3 DEF DoneRow
  <2> HIDE DEF tail, begun
  <2>5. CASE ws = {}
    <3>1. DoneRow(x, {}, discovery.run, registry', refs')
      BY <2>4, <2>5
    <3>2. RowsLeft(tail, registry', refs')
      BY <1>2, <1>3, <1>4, <1>5, <1>6, <2>3, <3>1, FirstDone
    <3>3. discovery' = tail
      BY <2>2, <2>5
    <3> QED BY <1>3, <1>6, <2>3, <3>2, <3>3 DEF ListingOk
  <2>6. CASE ws # {}
    <3> HIDE DEF ws
    <3>1. discovery' = begun
      BY <2>2, <2>6
    <3>2. \A y : DoneRow(y, {}, discovery.run, registry, refs) => DoneRow(y, {}, discovery.run, registry', refs')
      BY <1>5, <2>3, DoneStays
    <3>3. RowsLeft(begun, registry', refs')
      BY <1>1, <1>2, <1>3, <1>4, <1>7, <1>9, <2>4, <3>2 DEF RowsLeft
    <3> QED BY <1>3, <1>7, <2>3, <3>1, <3>3 DEF ListingOk
  <2> QED BY <2>5, <2>6
<1> QED BY <1>8, <1>9

LEMMA RefStep ==
  ASSUME ListingOk(discovery, registry, refs), RegistryOk(registry, saw), NEW w, Finding!UpsertLeaderboardRef(w)
  PROVE  ListingOk(discovery', registry, refs')
<1>1. PICK x, ws : x = First(discovery.rows) /\ ws = discovery.windows
  OBVIOUS
<1>2. PICK key : key = <<x.addr, w>>
  OBVIOUS
<1>3. /\ discovery.pc = "rows" /\ w \in ws
      /\ refs' = [k \in DOMAIN refs \cup {key} |-> IF k = key THEN discovery.run ELSE refs[k]]
      /\ discovery' = [discovery EXCEPT !.windows = @ \ {w}, !.rows = IF ws = {w} THEN Rest(@) ELSE @]
  BY <1>1, <1>2 DEF Finding!UpsertLeaderboardRef, First, Rest
<1>4. DOMAIN discovery = DiscoveryFields /\ RowsLeft(discovery, registry, refs)
      /\ discovery.board \in Boards /\ discovery.top \in Finding!SelectTop(discovery.board)
  BY <1>3 DEF ListingOk
<1>5. discovery.rows # <<>> /\ discovery.rows[1].addr # 0 /\ DoneRow(discovery.rows[1], ws, discovery.run, registry, refs)
  BY <1>1, <1>3, <1>4 DEF RowsLeft
<1>6. discovery.rows \in Seq(BoardRow) /\ discovery.rows[1] = x
  <2>1. PICK s \in Seq(BoardRow) : s = discovery.rows /\ s # <<>>
    BY <1>4, <1>5 DEF RowsLeft
  <2>2. First(s) = s[1]
    BY <2>1 DEF First
  <2> QED BY <1>1, <2>1, <2>2
<1>7. Grows(registry, registry)
  BY SameRegistry
<1>8. KeysKept(discovery.run, refs, refs') /\ key \in DOMAIN refs' /\ refs'[key] = discovery.run
  BY <1>3 DEF KeysKept
<1>9. DoneRow(x, ws \ {w}, discovery.run, registry, refs')
  <2>1. DoneRow(x, ws, discovery.run, registry, refs')
    BY <1>5, <1>6, <1>7, <1>8, DoneStays
  <2>2. ASSUME NEW v \in (x.windows \cap Finding!Known) \ (ws \ {w}), x.addr # 0
        PROVE  <<x.addr, v>> \in DOMAIN refs' /\ refs'[<<x.addr, v>>] = discovery.run
    <3>1. CASE v = w
      BY <1>2, <1>8, <3>1
    <3>2. CASE v # w
      BY <2>1, <2>2, <3>2 DEF DoneRow
    <3> QED BY <3>1, <3>2
  <2> QED BY <2>1, <2>2 DEF DoneRow
<1>10. PICK e : e = discovery'
  OBVIOUS
<1>11. /\ DOMAIN e = DiscoveryFields /\ e.rows = (IF ws = {w} THEN Rest(discovery.rows) ELSE discovery.rows)
       /\ e.windows = ws \ {w}
       /\ e.board = discovery.board /\ e.top = discovery.top /\ e.run = discovery.run /\ e.pc = "rows"
  BY <1>1, <1>3, <1>4, <1>10 DEF DiscoveryFields
<1>12. CASE ws = {w}
  <2>1. e.windows = {} /\ e.rows = Rest(discovery.rows) /\ ws \ {w} = {}
    BY <1>11, <1>12
  <2>2. DoneRow(discovery.rows[1], {}, discovery.run, registry, refs')
    BY <1>6, <1>9, <2>1
  <2>3. RowsLeft(e, registry, refs')
    BY <1>4, <1>5, <1>7, <1>8, <1>11, <2>1, <2>2, FirstDone
  <2> QED BY <1>4, <1>10, <1>11, <2>3 DEF ListingOk
<1>13. CASE ws # {w}
  <2>1. \A y : DoneRow(y, {}, discovery.run, registry, refs) => DoneRow(y, {}, discovery.run, registry, refs')
    BY <1>7, <1>8, DoneStays
  <2>2. RowsLeft(e, registry, refs')
    BY <1>4, <1>5, <1>6, <1>9, <1>11, <1>13, <2>1 DEF RowsLeft
  <2> QED BY <1>4, <1>10, <1>11, <2>2 DEF ListingOk
<1> QED BY <1>12, <1>13

LEMMA OtherRunSteps ==
  ASSUME ListingOk(discovery, registry, refs), RegistryOk(registry, saw),
         Finding!FetchTopFails \/ Finding!DiscoverAborts \/ Finding!RecordRun \/ Finding!NextRun
  PROVE  ListingOk(discovery', registry, refs) /\ UNCHANGED <<registry, saw, refs>>
<1>1. UNCHANGED <<registry, saw, refs>> /\ DOMAIN discovery = DiscoveryFields
  BY DEF ListingOk, Finding!FetchTopFails, Finding!DiscoverAborts, Finding!RecordRun, Finding!NextRun, Finding!registryVars
<1>2. CASE Finding!FetchTopFails
  BY <1>1, <1>2 DEF Finding!FetchTopFails, ListingOk, DiscoveryFields
<1>3. CASE Finding!DiscoverAborts
  BY <1>1, <1>3 DEF Finding!DiscoverAborts, ListingOk, DiscoveryFields
<1>4. CASE Finding!NextRun
  BY <1>1, <1>4 DEF Finding!NextRun, ListingOk, DiscoveryFields
<1>5. CASE Finding!RecordRun
  <2>1. /\ discovery.pc = "rows" /\ discovery.rows = <<>>
        /\ discovery' = [discovery EXCEPT !.pc = "listed", !.errors = 0]
    BY <1>5 DEF Finding!RecordRun
  <2>2. RowsLeft(discovery, registry, refs) /\ discovery.board \in Boards
        /\ discovery.top \in Finding!SelectTop(discovery.board)
    BY <2>1 DEF ListingOk
  <2>3. PICK k \in Nat : k = Finding!Kept(discovery.board)
    BY <2>2, BoardIs
  <2>4. Len(discovery.rows) = 0 /\ k - 0 = k
    BY <2>1
  <2>5. \A n \in 1..k : DoneRow(discovery.board[discovery.top[n]], {}, discovery.run, registry, refs)
    BY <2>2, <2>3, <2>4 DEF RowsLeft
  <2>6. PICK e : e = discovery'
    OBVIOUS
  <2>7. DOMAIN e = DiscoveryFields /\ e.pc = "listed" /\ e.board = discovery.board /\ e.top = discovery.top
        /\ e.run = discovery.run
    BY <1>1, <2>1, <2>6 DEF DiscoveryFields
  <2> QED BY <1>1, <2>2, <2>3, <2>5, <2>6, <2>7 DEF ListingOk
<1> QED BY <1>1, <1>2, <1>3, <1>4, <1>5

LEMMA ListingStarts == ASSUME Finding!NothingFound PROVE ListingOk(discovery, registry, refs)
BY DEF Finding!NothingFound, ListingOk, DiscoveryFields

LEMMA RunStep ==
  ASSUME ListingOk(discovery, registry, refs), RegistryOk(registry, saw), Finding!DiscoverNext
  PROVE  ListingOk(discovery', registry', refs') /\ RegistryOk(registry', saw') /\ Grows(registry, registry')
<1>1. Grows(registry, registry)
  BY SameRegistry
<1>2. ASSUME NEW b \in Boards, Finding!Discover(b)
      PROVE  ListingOk(discovery', registry', refs') /\ RegistryOk(registry', saw') /\ Grows(registry, registry')
  <2>1. UNCHANGED <<refs, registry, saw>>
    BY <1>2 DEF Finding!Discover, Finding!registryVars
  <2> QED BY <1>1, <1>2, <2>1, DiscoverStep
<1>3. ASSUME NEW w \in Finding!Known, Finding!UpsertLeaderboardRef(w)
      PROVE  ListingOk(discovery', registry', refs') /\ RegistryOk(registry', saw') /\ Grows(registry, registry')
  <2>1. UNCHANGED <<registry, saw>>
    BY <1>3 DEF Finding!UpsertLeaderboardRef, Finding!registryVars
  <2> QED BY <1>1, <1>3, <2>1, RefStep
<1>4. CASE Finding!UpsertRegistry
  BY <1>4, UpsertStep
<1>5. CASE Finding!FetchTopFails \/ Finding!DiscoverAborts \/ Finding!RecordRun \/ Finding!NextRun
  BY <1>1, <1>5, OtherRunSteps
<1> QED BY <1>2, <1>3, <1>4, <1>5 DEF Finding!DiscoverNext

\* A row before another did not earn less, and no row is before itself.
LEMMA BeforeIs ==
  ASSUME NEW b \in Boards, NEW i \in DOMAIN b, NEW j \in DOMAIN b, Finding!Before(b, i, j)
  PROVE  ~Finding!Earned(b[j].month, b[i].month) /\ i # j
<1>1. PICK n \in Nat : DOMAIN b = 1..n
  BY BoardIs
<1>2. b[i] \in BoardRow /\ b[j] \in BoardRow
  BY BoardIs, ElementOfSeq
<1>3. PICK p \in Int, q \in Int : p = b[i].month /\ q = b[j].month
  BY <1>2 DEF BoardRow
<1>4. \/ p # Finding!Null /\ (q = Finding!Null \/ p > q)
      \/ p = q /\ i < j
  BY <1>3 DEF Finding!Before
<1>5. i \in Int /\ j \in Int /\ Finding!Null \in Int
  BY <1>1 DEF Finding!Null
<1>6. i # j
  <2>1. CASE i = j
    <3>1. p = q
      BY <1>3, <2>1
    <3> QED BY <1>4, <1>5, <2>1, <3>1
  <2> QED BY <2>1
<1>7. ~Finding!Earned(q, p)
  BY <1>4, <1>5 DEF Finding!Earned
<1> QED BY <1>3, <1>6, <1>7

LEMMA TakenAre ==
  ASSUME NEW b \in Boards, NEW top \in Finding!SelectTop(b)
  PROVE  Cardinality({top[n] : n \in DOMAIN top}) = Finding!Kept(b)
<1>1. PICK k \in Nat : k = Finding!Kept(b)
  BY BoardIs
<1>2. PICK T : T = {top[n] : n \in 1..k}
  OBVIOUS
<1>3. top \in [1..k -> DOMAIN b] /\ DOMAIN top = 1..k
  BY <1>1, TopIs
<1>4. top \in Surjection(1..k, T)
  BY <1>2, <1>3 DEF Surjection
<1>5. ASSUME NEW m \in 1..k, NEW n \in 1..k, top[m] = top[n] PROVE m = n
  <2>1. m < n => FALSE
    <3> SUFFICES ASSUME m < n PROVE FALSE
      OBVIOUS
    <3>1. Finding!Before(b, top[m], top[n])
      BY <1>1, <1>3, TopIs
    <3>2. top[m] # top[n]
      BY <1>3, <3>1, BeforeIs
    <3> QED BY <1>5, <3>2
  <2>2. n < m => FALSE
    <3> SUFFICES ASSUME n < m PROVE FALSE
      OBVIOUS
    <3>1. Finding!Before(b, top[n], top[m])
      BY <1>1, <1>3, TopIs
    <3>2. top[n] # top[m]
      BY <1>3, <3>1, BeforeIs
    <3> QED BY <1>5, <3>2
  <2> QED BY <2>1, <2>2
<1>6. top \in Injection(1..k, T)
  BY <1>4, <1>5 DEF Injection, IsInjective, Surjection
<1>7. Cardinality(T) = k
  BY <1>4, <1>6, CountTo, FS_Surjection
<1> QED BY <1>1, <1>2, <1>3, <1>7

LEMMA RunIsWholeNow == ASSUME ListingOk(discovery, registry, refs) PROVE Finding!RunIsWhole
<1> SUFFICES ASSUME discovery.pc = "listed"
             PROVE  LET board == discovery.board
                        taken == {discovery.top[n] : n \in DOMAIN discovery.top}
                    IN  /\ \A i \in taken : board[i].addr # 0 =>
                             /\ registry[board[i].addr].source \in {"leaderboard", "both"}
                             /\ \A w \in board[i].windows \cap Finding!Known : refs[<<board[i].addr, w>>] = discovery.run
                        /\ \A i \in taken, j \in DOMAIN board \ taken : ~Finding!Earned(board[j].month, board[i].month)
                        /\ Finding!Cardinality(taken) = Finding!Kept(board)
  BY DEF Finding!RunIsWhole
<1>1. PICK b, top, run : b = discovery.board /\ top = discovery.top /\ run = discovery.run
  OBVIOUS
<1>2. b \in Boards /\ top \in Finding!SelectTop(b) /\ \A n \in 1..Finding!Kept(b) : DoneRow(b[top[n]], {}, run, registry, refs)
  BY <1>1 DEF ListingOk
<1>3. PICK T : T = {top[n] : n \in DOMAIN top}
  OBVIOUS
<1>4. \A i \in T : b[i].addr # 0 =>
        /\ registry[b[i].addr].source \in {"leaderboard", "both"}
        /\ \A w \in b[i].windows \cap Finding!Known : refs[<<b[i].addr, w>>] = run
  <2>1. \A n \in DOMAIN top : DoneRow(b[top[n]], {}, run, registry, refs)
    BY <1>2, TopIs
  <2> QED BY <1>3, <2>1 DEF DoneRow
<1>5. ASSUME NEW i \in T, NEW j \in DOMAIN b \ T PROVE ~Finding!Earned(b[j].month, b[i].month)
  <2>1. PICK n \in DOMAIN top : i = top[n]
    BY <1>3
  <2>2. i \in DOMAIN b /\ Finding!Before(b, i, j)
    BY <1>2, <1>3, <1>5, <2>1, TopIs
  <2> QED BY <1>2, <2>2, BeforeIs
<1>6. Finding!Cardinality(T) = Finding!Kept(b)
  BY <1>2, <1>3, TakenAre, FindingCount
<1> QED BY <1>1, <1>3, <1>4, <1>5, <1>6

---------------------------------------------------------------------------
HInv ==
  /\ StreamOk(stream, venue, broken)
  /\ TradesOk(queue, pending, flushing, harvester, accepted, registry)
  /\ RegistryOk(registry, saw)
  /\ ListingOk(discovery, registry, refs)

LEMMA FindingStarts == Finding!Init => HInv
BY StreamStarts, HarvestStarts, ListingStarts DEF Finding!Init, HInv

LEMMA FindingStep ==
  ASSUME HInv, [Finding!StreamNext \/ Finding!HarvestNext \/ Finding!DiscoverNext]_(Finding!hvVars)
  PROVE  HInv'
<1>1. CASE UNCHANGED Finding!hvVars
  BY <1>1 DEF HInv, Finding!hvVars, Finding!streamVars, Finding!harvestVars, Finding!registryVars, Finding!discoverVars
<1>2. CASE Finding!StreamNext
  <2>1. UNCHANGED <<queue, pending, flushing, harvester, accepted, registry, saw, refs, discovery>>
    BY <1>2 DEF Finding!StreamNext, Finding!harvestVars, Finding!registryVars, Finding!discoverVars
  <2> QED BY <1>2, <2>1, StreamStep DEF HInv
<1>3. CASE Finding!HarvestNext
  <2>1. UNCHANGED <<stream, venue, broken, refs, discovery>>
    BY <1>3 DEF Finding!HarvestNext, Finding!streamVars, Finding!discoverVars
  <2>2. /\ RegistryOk(registry', saw') /\ Grows(registry, registry')
        /\ TradesOk(queue, pending, flushing, harvester, accepted, registry)'
    BY <1>3, HarvestStep DEF HInv
  <2>3. ListingOk(discovery, registry', refs)
    BY <2>2, ListingStays DEF HInv
  <2> QED BY <2>1, <2>2, <2>3 DEF HInv
<1>4. CASE Finding!DiscoverNext
  <2>1. UNCHANGED <<stream, venue, broken, queue, pending, flushing, harvester, accepted>>
    BY <1>4 DEF Finding!DiscoverNext, Finding!streamVars, Finding!harvestVars
  <2>2. ListingOk(discovery', registry', refs') /\ RegistryOk(registry', saw') /\ Grows(registry, registry')
    BY <1>4, RunStep DEF HInv
  <2>3. TradesOk(queue, pending, flushing, harvester, accepted, registry')
    BY <2>2, TradesStay DEF HInv
  <2> QED BY <2>1, <2>2, <2>3 DEF HInv
<1> QED BY <1>1, <1>2, <1>3, <1>4

LEMMA FindingHoldsNow == ASSUME HInv PROVE Finding!HarvestHolds
BY CoinsCoveredNow, TradesKeptNow, SourceIsTrueNow, RunIsWholeNow DEF HInv, Finding!HarvestHolds

\* Whatever the trade stream took is kept, the registry says who has seen a
\* wallet, a recorded run listed the best wallets of its board; and the calls of
\* the live tabs hold the gate, keep their distance, and a window that is not
\* flagged is whole.
THEOREM UpstreamIsKept == Finding!HarvestSpec /\ Live!LiveSpec => []UpstreamHolds
<1>1. HInv /\ UInv => UpstreamHolds
  BY FindingHoldsNow, CallsHoldNow DEF UpstreamHolds
<1>2. HInv /\ [Finding!StreamNext \/ Finding!HarvestNext \/ Finding!DiscoverNext]_(Finding!hvVars) => HInv'
  BY FindingStep
<1>3. UInv /\ [Live!LiveNext]_(Live!luVars) => UInv'
  BY CallsStep
<1>4. Finding!HarvestSpec => []HInv
  BY <1>2, FindingStarts, PTL DEF Finding!HarvestSpec
<1>5. Live!LiveSpec => []UInv
  BY <1>3, CallsStart, PTL DEF Live!LiveSpec
<1> QED BY <1>1, <1>4, <1>5, PTL
=============================================================================

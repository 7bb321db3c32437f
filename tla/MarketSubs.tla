----------------------------- MODULE MarketSubs -----------------------------
(***************************************************************************)
(* Market data over the browser's socket: each request makes a client, a   *)
(* venue connection and a subscription, and a goroutine that listens until *)
(* the socket ends.  Beside it the rows of the market tables, and the loop *)
(* that reconnects a venue connection.  Each manager has one lock, so each *)
(* call of one is a step.                                                  *)
(***************************************************************************)
EXTENDS Api, Integers, Sequences

CONSTANTS
  Sockets,      \* requests to subscribe
  Markets,      \* the venue, the instrument and the channel asked for
  Received,     \* receive timestamps
  MaxRows,      \* bound on the rows stored
  InitialBackoff, MaxBackoff, MaxRetries \* seconds; bound on the retries

\* DefaultConnectionConfig waits one second first and thirty at most; a receive
\* timestamp is in milliseconds.
SubsAssumption ==
  Received \subseteq Nat /\ {InitialBackoff, MaxBackoff} \subseteq Nat /\ InitialBackoff <= MaxBackoff

VARIABLES
  socket,       \* the goroutine of each socket, and what it subscribed
  clients,      \* handler.clients
  connections,  \* connManager.connections, with State and ReconnectCount
  venueConns,   \* connManager.venueConns["unknown"]
  subscriptions, \* subManager.subscriptions: the status by id
  venueSubs, instrumentSubs, channelSubs, \* the indexes: pairs of a key and an id
  listed,       \* what GetSubscriptions copied, to be written out
  market,       \* market_tickers and funding_rates: receive times in the order stored
  answers,      \* the two last answers of GetTicker or GetFunding
  retry         \* the goroutine of HandleDisconnect by connection

subVars == <<socket, clients, connections, venueConns, subscriptions, venueSubs, instrumentSubs, channelSubs, listed>>
rowVars == <<market, answers>>

Idle == [pc |-> "none", market |-> <<>>]
Init ==
  /\ socket = [s \in Sockets |-> Idle] /\ clients = {}
  /\ connections = [s \in {} |-> <<>>] /\ venueConns = {}
  /\ subscriptions = [s \in {} |-> ""]
  /\ venueSubs = {} /\ instrumentSubs = {} /\ channelSubs = {} /\ listed = {}
  /\ market = <<>> /\ answers = <<0, 0>> /\ retry = [s \in Sockets |-> [pc |-> "none", waits |-> <<>>]]

Goes(s, from, to) == socket[s].pc = from /\ socket' = [socket EXCEPT ![s].pc = to]

---------------------------------------------------------------------------
\* The upgrade answers before anything is recorded.
Subscribe(s) ==
  /\ socket[s].pc = "none"
  /\ \E m \in Markets : socket' = [socket EXCEPT ![s] = [pc |-> "connect", market |-> m]]
  /\ clients' = clients \cup {s}
  /\ UNCHANGED <<connections, venueConns, subscriptions, venueSubs, instrumentSubs, channelSubs, listed>>
CreateConnection(s) ==
  /\ Goes(s, "connect", "connected")
  /\ connections' = [c \in DOMAIN connections \cup {s} |->
       IF c = s THEN [state |-> "DISCONNECTED", count |-> 0] ELSE connections[c]]
  /\ venueConns' = venueConns \cup {s}
  /\ UNCHANGED <<clients, subscriptions, venueSubs, instrumentSubs, channelSubs, listed>>
WithState(c, state) ==
  IF c \notin DOMAIN connections THEN connections
  ELSE [connections EXCEPT ![c].state = state,
          ![c].count = CASE state = "CONNECTED" -> 0 [] state = "RECONNECTING" -> @ + 1 [] OTHER -> @]
UpdateState(s) ==
  /\ Goes(s, "connected", "subscribe")
  /\ connections' = WithState(s, "CONNECTED")
  /\ UNCHANGED <<clients, venueConns, subscriptions, venueSubs, instrumentSubs, channelSubs, listed>>
Pending(s) ==
  /\ Goes(s, "subscribe", "activate")
  /\ subscriptions' = [id \in DOMAIN subscriptions \cup {s} |-> IF id = s THEN "PENDING" ELSE subscriptions[id]]
  /\ venueSubs' = venueSubs \cup {<<socket[s].market[1], s>>}
  /\ instrumentSubs' = instrumentSubs \cup {<<socket[s].market[2], s>>}
  /\ channelSubs' = channelSubs \cup {<<socket[s].market[3], s>>}
  /\ UNCHANGED <<clients, connections, venueConns, listed>>
UpdateStatus(id, status) ==
  subscriptions' = IF id \in DOMAIN subscriptions THEN [subscriptions EXCEPT ![id] = status] ELSE subscriptions
\* Then the confirmation, whose error nobody reads, and the goroutine.
Activate(s) ==
  /\ Goes(s, "activate", "listen")
  /\ UpdateStatus(s, "ACTIVE")
  /\ UNCHANGED <<clients, connections, venueConns, venueSubs, instrumentSubs, channelSubs, listed>>
UnsubscribeForgetful(id) == \* a mutant
  /\ UpdateStatus(id, "UNSUBSCRIBED")
  /\ venueSubs' = venueSubs \ {<<socket[id].market[1], id>>}
  /\ instrumentSubs' = instrumentSubs \ {<<socket[id].market[2], id>>}
  /\ UNCHANGED channelSubs
\* The entry stays in the map for good, and so does the connection.
Unsubscribe(id) ==
  /\ UpdateStatus(id, "UNSUBSCRIBED")
  /\ venueSubs' = venueSubs \ {<<socket[id].market[1], id>>}
  /\ instrumentSubs' = instrumentSubs \ {<<socket[id].market[2], id>>}
  /\ channelSubs' = channelSubs \ {<<socket[id].market[3], id>>}
\* A message to unsubscribe ends the loop; a ping or anything else does not.
Unsubscribes(s) ==
  /\ Goes(s, "listen", "leave")
  /\ Unsubscribe(s)
  /\ UNCHANGED <<clients, connections, venueConns, listed>>
ReadFails(s) ==
  /\ Goes(s, "listen", "leave")
  /\ UNCHANGED <<clients, connections, venueConns, subscriptions, venueSubs, instrumentSubs, channelSubs, listed>>
\* The deferred function, which unsubscribes once more.
Leave(s) ==
  /\ Goes(s, "leave", "release") /\ clients' = clients \ {s}
  /\ UNCHANGED <<connections, venueConns, subscriptions, venueSubs, instrumentSubs, channelSubs, listed>>
Release(s) ==
  /\ Goes(s, "release", "closed") /\ Unsubscribe(s)
  /\ UNCHANGED <<clients, connections, venueConns, listed>>
\* It hands out pointers: what is written is what they point at by then.
GetSubscriptions ==
  /\ listed' = {s \in DOMAIN subscriptions : subscriptions[s] = "ACTIVE"}
  /\ UNCHANGED <<socket, clients, connections, venueConns, subscriptions, venueSubs, instrumentSubs, channelSubs>>
GetVenueSubscriptions(v) == {s \in DOMAIN subscriptions : <<v, s>> \in venueSubs}
GetInstrumentSubscriptions(i) == {s \in DOMAIN subscriptions : <<i, s>> \in instrumentSubs}
GetChannelSubscriptions(c) == {s \in DOMAIN subscriptions : <<c, s>> \in channelSubs}

---------------------------------------------------------------------------
\* The loop goes on until it succeeds: MaxReconnect is not looked at, and the
\* state stays RECONNECTING unless the callback writes it.
Backoff[n \in Nat] ==
  IF n = 0 THEN InitialBackoff
  ELSE IF 2 * Backoff[n - 1] > MaxBackoff THEN MaxBackoff ELSE 2 * Backoff[n - 1]
HandleDisconnect(c) ==
  /\ retry[c].pc = "none" /\ c \in DOMAIN connections /\ connections[c].state = "CONNECTED"
  /\ retry' = [retry EXCEPT ![c].pc = "mark"] /\ UNCHANGED connections
Reconnecting(c) ==
  /\ retry[c].pc = "mark" /\ Len(retry[c].waits) < MaxRetries
  /\ connections' = WithState(c, "RECONNECTING")
  /\ retry' = [retry EXCEPT ![c] = [pc |-> "wait", waits |-> Append(@.waits, Backoff[connections'[c].count])]]
Reconnects(c) ==
  /\ retry[c].pc = "wait" /\ UNCHANGED connections
  /\ \E pc \in {"mark", "done"} : retry' = [retry EXCEPT ![c].pc = pc]

---------------------------------------------------------------------------
\* ProcessTicker, ProcessFunding: one insert each.
Store ==
  /\ Len(market) < MaxRows
  /\ \E t \in Received : market' = Append(market, t)
  /\ UNCHANGED answers
\* ORDER BY receive_timestamp DESC LIMIT 1
Latest(rows) == LET T == {rows[i] : i \in DOMAIN rows} IN CHOOSE t \in T : \A u \in T : u <= t
\* No row, like any error, is a 404.
GetLatest ==
  /\ answers' = IF market = <<>> THEN answers ELSE <<answers[2], Latest(market)>>
  /\ UNCHANGED market

SocketNext ==
  \/ /\ UNCHANGED <<rowVars, retry>>
     /\ \/ \E s \in Sockets : \/ Subscribe(s) \/ CreateConnection(s) \/ UpdateState(s) \/ Pending(s) \/ Activate(s)
                              \/ Unsubscribes(s) \/ ReadFails(s) \/ Leave(s) \/ Release(s)
        \/ GetSubscriptions
  \/ /\ UNCHANGED <<rowVars, socket, clients, venueConns, subscriptions, venueSubs, instrumentSubs, channelSubs, listed>>
     /\ \E c \in Sockets : HandleDisconnect(c) \/ Reconnecting(c) \/ Reconnects(c)
  \/ UNCHANGED <<subVars, retry>> /\ (Store \/ GetLatest)

Spec == Init /\ [][SocketNext]_<<subVars, rowVars, retry>>

---------------------------------------------------------------------------
\* A subscription is ACTIVE only while its socket is served, and each index
\* names it exactly until it is given up.
Heard ==
  /\ \A s \in DOMAIN subscriptions : subscriptions[s] = "ACTIVE" => socket[s].pc \in {"listen", "leave", "release"}
  /\ \A s \in DOMAIN subscriptions : LET m == socket[s].market IN
       (subscriptions[s] \in {"PENDING", "ACTIVE"}) =
         (s \in GetVenueSubscriptions(m[1]) \cap GetInstrumentSubscriptions(m[2]) \cap GetChannelSubscriptions(m[3]))
  /\ \A p \in venueSubs \cup instrumentSubs \cup channelSubs :
       p[2] \in DOMAIN subscriptions /\ subscriptions[p[2]] # "UNSUBSCRIBED"
\* Whatever order the events arrive in, the latest one answered never goes back;
\* no wait of a reconnect is longer than MaxBackoff or shorter than the one before.
NeverBack ==
  /\ answers[1] <= answers[2]
  /\ \A c \in Sockets : LET w == retry[c].waits IN
       /\ \A i \in DOMAIN w : w[i] <= MaxBackoff
       /\ \A i \in 2..Len(w) : w[i - 1] <= w[i]
SubscriptionsHold == Heard /\ NeverBack
=============================================================================

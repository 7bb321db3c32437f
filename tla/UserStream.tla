----------------------------- MODULE UserStream -----------------------------
(***************************************************************************)
(* The Hyperliquid user streams (src/internal/hyperliquid/userstream.go):  *)
(* watched addresses share WebSocket connections, at most MaxSubs on each. *)
(*                                                                         *)
(* Subscribe, Unsubscribe and the bookkeeping of a reconnect run under     *)
(* us.mu.  The frames to the server are written after the lock is          *)
(* released, so those of concurrent calls reach the server in any order.   *)
(* A broken connection is noticed by its readLoop, whose handleDrop takes  *)
(* the addresses first and removes the connection in a second critical     *)
(* section; a reconnect goroutine then works on what was taken.  The two   *)
(* frames of a call (userFills, orderUpdates) are one frame here.          *)
(*                                                                         *)
(* A connection and the goroutines of its drop have one identity: the new  *)
(* connection of a reconnect takes that of the old one, and a Subscribe    *)
(* that dials takes one nothing refers to.  The watchers pass              *)
(* context.Background(), so ctx is never done.                             *)
(***************************************************************************)
EXTENDS Integers, Sequences, FiniteSets, Functions, SequencesExt

CONSTANTS
  Addrs,       \* wallet addresses
  Conns,       \* identities of connections
  MaxSubs,     \* MaxSubsPerConn (30 in the code)
  MaxDrops,    \* bound on the number of connections that break
  MaxSends     \* bound on the calls whose frames are still to be written

ASSUME StreamAssumption ==
  /\ IsFiniteSet(Addrs)
  /\ MaxSubs \in Nat \ {0}
  /\ MaxDrops \in Nat
  /\ MaxSends \in Nat

VARIABLES
  active,      \* UserStream.active
  conns,       \* UserStream.conns
  subs,        \* userStreamConn.subs
  link,        \* the socket of a connection
  server,      \* the addresses the server streams on a connection
  sends,       \* frames of calls that have released us.mu, not yet written
  rpc,         \* control point of handleDrop and reconnect of a connection
  taken,       \* addrs of handleDrop
  toSub,       \* toSub of reconnect
  drops,       \* number of connections broken so far
  dropped,     \* history: addresses Unsubscribe was called for
  raced        \* history: active addresses that were put on a connection
               \* in the middle of its handleDrop

connVars == <<conns, subs, link, server>>
dropVars == <<rpc, taken, toSub, drops>>
history == <<dropped, raced>>
vars == <<active, connVars, sends, dropVars, history>>

\* "close": the unsubscribe frames of a connection's last address, followed by
\* the close of the connection.
Frames ==
  [op: {"subscribe", "unsubscribe", "close"}, conn: Conns, addr: Addrs]

TypeOK ==
  /\ active \in SUBSET Addrs
  /\ conns \in Seq(Conns) /\ IsInjective(conns)
  /\ subs \in [Conns -> SUBSET Addrs]
  /\ link \in [Conns -> {"closed", "open", "broken"}]
  /\ server \in [Conns -> SUBSET Addrs]
  /\ sends \in SUBSET Frames
  /\ rpc \in [Conns -> {"none", "drop", "check", "sleep"}]
  /\ taken \in [Conns -> SUBSET Addrs]
  /\ toSub \in [Conns -> SUBSET Addrs]
  /\ drops \in Nat
  /\ dropped \in SUBSET Addrs
  /\ raced \in SUBSET Addrs

Init ==
  /\ active = {} /\ conns = <<>>
  /\ subs = [c \in Conns |-> {}]
  /\ link = [c \in Conns |-> "closed"]
  /\ server = [c \in Conns |-> {}]
  /\ sends = {}
  /\ rpc = [c \in Conns |-> "none"]
  /\ taken = [c \in Conns |-> {}]
  /\ toSub = [c \in Conns |-> {}]
  /\ drops = 0 /\ dropped = {} /\ raced = {}

Listed == {conns[i] : i \in 1..Len(conns)}

\* A write to a connection that is closed fails and is ignored.
SendsWithout(c) == {f \in sends : f.conn # c}

Frame(op, c, a) == [op |-> op, conn |-> c, addr |-> a]

\* removeUserConn: a connection is in the list once.
RemoveUserConn(c) ==
  IF c \in Listed THEN RemoveAt(conns, CHOOSE i \in 1..Len(conns) : conns[i] = c)
  ELSE conns

-----------------------------------------------------------------------------
(* Subscribe.                                                              *)

\* Mutant of HasRoom: one too many.
HasRoomForOneMore(c) == Cardinality(subs[c]) <= MaxSubs

\* The first connection of the list with room takes the address ...
HasRoom(c) == Cardinality(subs[c]) < MaxSubs

\* Mutant of SubscribeShared: an address that is active is added again.
SubscribeAgain(a) ==
  /\ \E i \in 1..Len(conns) :
       /\ HasRoom(conns[i])
       /\ \A j \in 1..(i-1) : ~HasRoom(conns[j])
       /\ subs' = [subs EXCEPT ![conns[i]] = @ \cup {a}]
       /\ sends' = sends \cup {Frame("subscribe", conns[i], a)}
  /\ active' = active \cup {a}
  /\ UNCHANGED <<conns, link, server, dropVars, history>>

SubscribeShared(a) ==
  /\ a \notin active
  /\ \E i \in 1..Len(conns) :
       /\ HasRoom(conns[i])
       /\ \A j \in 1..(i-1) : ~HasRoom(conns[j])
       /\ subs' = [subs EXCEPT ![conns[i]] = @ \cup {a}]
       /\ sends' = sends \cup {Frame("subscribe", conns[i], a)}
       /\ raced' = IF rpc[conns[i]] = "drop" THEN raced \cup {a} ELSE raced
  /\ active' = active \cup {a}
  /\ UNCHANGED <<conns, link, server, dropVars, dropped>>

\* A connection that is dialled starts with these addresses.
Open(c, as) ==
  /\ link[c] = "closed"
  /\ conns' = Append(conns, c)
  /\ subs' = [subs EXCEPT ![c] = as]
  /\ link' = [link EXCEPT ![c] = "open"]
  /\ server' = [server EXCEPT ![c] = {}]
  /\ sends' = sends \cup {Frame("subscribe", c, a) : a \in as}

\* ... or, when all are full, a new one, dialled under us.mu.  A dial that
\* fails returns its error and changes nothing.
SubscribeDial(a) ==
  /\ a \notin active
  /\ \A c \in Listed : ~HasRoom(c)
  /\ \E c \in Conns : rpc[c] = "none" /\ Open(c, {a})
  /\ active' = active \cup {a}
  /\ UNCHANGED <<dropVars, history>>

Subscribe(a) == SubscribeShared(a) \/ SubscribeDial(a)

-----------------------------------------------------------------------------
(* Unsubscribe.                                                            *)

HasAddr(c, a) == a \in subs[c]

\* Mutant of UnsubscribeListed: an empty connection stays in the list.
UnsubscribeKeepsConn(a) ==
  /\ a \in active
  /\ \E c \in Listed :
       /\ HasAddr(c, a)
       /\ subs' = [subs EXCEPT ![c] = @ \ {a}]
       /\ sends' = sends \cup {Frame("unsubscribe", c, a)}
  /\ active' = active \ {a}
  /\ dropped' = dropped \cup {a}
  /\ raced' = raced \ {a}
  /\ UNCHANGED <<conns, link, server, dropVars>>

\* The first connection of the list that has the address loses it; one left
\* without addresses leaves the list and is closed.
UnsubscribeListed(a) ==
  /\ a \in active
  /\ \E i \in 1..Len(conns) :
       LET c == conns[i] IN
       /\ HasAddr(c, a)
       /\ \A j \in 1..(i-1) : ~HasAddr(conns[j], a)
       /\ subs' = [subs EXCEPT ![c] = @ \ {a}]
       /\ \/ /\ subs[c] = {a}
             /\ conns' = RemoveUserConn(c)
             /\ sends' = sends \cup {Frame("close", c, a)}
          \/ /\ subs[c] # {a}
             /\ sends' = sends \cup {Frame("unsubscribe", c, a)}
             /\ UNCHANGED conns
  /\ active' = active \ {a}
  /\ dropped' = dropped \cup {a}
  /\ raced' = raced \ {a}
  /\ UNCHANGED <<link, server, dropVars>>

\* No connection has it, for it is being reconnected.
UnsubscribeUnlisted(a) ==
  /\ a \in active
  /\ \A c \in Listed : ~HasAddr(c, a)
  /\ active' = active \ {a}
  /\ dropped' = dropped \cup {a}
  /\ raced' = raced \ {a}
  /\ UNCHANGED <<connVars, sends, dropVars>>

Unsubscribe(a) == UnsubscribeListed(a) \/ UnsubscribeUnlisted(a)

-----------------------------------------------------------------------------
(* The socket, readLoop, handleDrop and reconnect.                         *)

\* A frame reaches the server if the connection is still open.
WriteFrame(f) ==
  /\ f \in sends /\ f.op # "close"
  /\ sends' = sends \ {f}
  /\ server' = IF link[f.conn] # "open" THEN server
               ELSE [server EXCEPT ![f.conn] =
                       IF f.op = "subscribe" THEN @ \cup {f.addr}
                                             ELSE @ \ {f.addr}]
  /\ UNCHANGED <<active, conns, subs, link, dropVars, history>>

\* The connection is closed; its readLoop finds no address to reconnect.
CloseConn(f) ==
  /\ f \in sends /\ f.op = "close"
  /\ sends' = SendsWithout(f.conn)
  /\ link' = [link EXCEPT ![f.conn] = "closed"]
  /\ server' = [server EXCEPT ![f.conn] = {}]
  /\ UNCHANGED <<active, conns, subs, dropVars, history>>

ConnBreaks(c) ==
  /\ link[c] = "open" /\ drops < MaxDrops
  /\ link' = [link EXCEPT ![c] = "broken"]
  /\ server' = [server EXCEPT ![c] = {}]
  /\ drops' = drops + 1
  /\ UNCHANGED <<active, conns, subs, sends, rpc, taken, toSub, history>>

\* handleDrop takes the addresses of the connection under dead.mu ...
HandleDrop(c) ==
  /\ link[c] = "broken" /\ rpc[c] = "none"
  /\ taken' = [taken EXCEPT ![c] = subs[c]]
  /\ rpc' = [rpc EXCEPT ![c] = "drop"]
  /\ UNCHANGED <<active, connVars, sends, toSub, drops, history>>

\* ... and removes it from the list under us.mu, then starts reconnect.
RemoveDropped(c) ==
  /\ rpc[c] = "drop"
  /\ conns' = RemoveUserConn(c)
  /\ link' = [link EXCEPT ![c] = "closed"]
  /\ sends' = SendsWithout(c)
  /\ rpc' = [rpc EXCEPT ![c] = "check"]
  /\ UNCHANGED <<active, subs, server, taken, toSub, drops, history>>

\* reconnect keeps the addresses still active and sleeps, or has nothing to do.
ReconnectCheck(c) ==
  /\ rpc[c] = "check"
  /\ toSub' = [toSub EXCEPT ![c] = taken[c] \cap active]
  /\ rpc' = [rpc EXCEPT ![c] = IF taken[c] \cap active = {}
                               THEN "none" ELSE "sleep"]
  /\ UNCHANGED <<active, connVars, sends, taken, drops, history>>

\* Mutant of ReconnectDialFails: the goroutine gives up.
ReconnectGivesUp(c) ==
  /\ rpc[c] = "sleep"
  /\ rpc' = [rpc EXCEPT ![c] = "none"]
  /\ UNCHANGED <<active, connVars, sends, taken, toSub, drops, history>>

\* After the sleep the dial fails: check again and sleep longer.
ReconnectDialFails(c) ==
  /\ rpc[c] = "sleep"
  /\ rpc' = [rpc EXCEPT ![c] = "check"]
  /\ UNCHANGED <<active, connVars, sends, taken, toSub, drops, history>>

\* After the sleep the dial succeeds: toSub is used as it was before it.
ReconnectOpens(c) ==
  /\ rpc[c] = "sleep"
  /\ Open(c, toSub[c])
  /\ rpc' = [rpc EXCEPT ![c] = "none"]
  /\ UNCHANGED <<active, taken, toSub, drops, history>>

DropStep(c) ==
  HandleDrop(c) \/ RemoveDropped(c) \/ ReconnectCheck(c)

Next ==
  \/ /\ Cardinality(sends) < MaxSends
     /\ \E a \in Addrs : Subscribe(a) \/ Unsubscribe(a)
  \/ \E f \in sends : WriteFrame(f) \/ CloseConn(f)
  \/ \E c \in Conns : \/ ConnBreaks(c) \/ DropStep(c)
                      \/ ReconnectDialFails(c) \/ ReconnectOpens(c)

Spec == Init /\ [][Next]_vars

\* Goroutines run, and a reconnect that keeps trying connects some day.
Fairness ==
  /\ \A f \in Frames : WF_vars(WriteFrame(f) \/ CloseConn(f))
  /\ \A c \in Conns : WF_vars(DropStep(c)) /\ SF_vars(ReconnectOpens(c))

FairSpec == Spec /\ Fairness

-----------------------------------------------------------------------------
(* Properties.                                                             *)

\* No listed connection carries more addresses than the venue allows, new
\* subscriptions and reconnects together (MaxSubsPerConn).
Capacity == \A c \in Listed : Cardinality(subs[c]) <= MaxSubs

\* A connection is listed as long as it has an address and no longer: the
\* last Unsubscribe takes it out, a drop takes it out, nothing else may.
NoIdleConnections ==
  /\ \A c \in Listed : subs[c] # {} /\ link[c] # "closed"
  /\ \A c \in Conns : link[c] = "open" /\ c \notin Listed =>
       \E f \in sends : f.op = "close" /\ f.conn = c

\* An address that nobody unsubscribed is on one connection at most, however
\* often its connections break (reconnect never doubles a subscription).
SingleUnlessUnsubscribed ==
  \A a \in Addrs \ dropped : \A c, d \in Listed :
    HasAddr(c, a) /\ HasAddr(d, a) => c = d

\* Responsible for an address: a listed connection or a drop in progress.
Carried(a) ==
  \/ \E c \in Listed : HasAddr(c, a)
  \/ \E c \in Conns : rpc[c] \in {"drop", "check"} /\ a \in taken[c]
  \/ \E c \in Conns : rpc[c] = "sleep" /\ a \in toSub[c]

\* Only an address put on a connection in the middle of its handleDrop can
\* be active and on no connection and in no reconnect.
CarriedUnlessRaced ==
  \A a \in active \ raced : Carried(a)

\* A reconnect ends with its addresses on a connection, unless they are
\* unsubscribed meanwhile (reconnect's retry loop).
ReconnectCompletes ==
  \A a \in Addrs :
    (\E c \in Conns : rpc[c] = "check" /\ a \in taken[c])
      ~> (a \notin active \/ \E c \in Listed : HasAddr(c, a))

\* watcher.go:304 says that the last unsubscribe tears down the upstream: an
\* address that is not active is on no connection.
UnsubscribeReleases ==
  \A c \in Listed : subs[c] \subseteq active
=============================================================================

---------------------------- MODULE ExtendedFeed ----------------------------
(***************************************************************************)
(* The order book fed from the Extended venue: ExtendedWSAdapter           *)
(* (exchange/adapter_extended_ws.go) on a WSClient (exchange/ws_client.go) *)
(* writes the event channel that the bridge of module OrderBook consumes.  *)
(*                                                                         *)
(* The venue is external: it numbers its books 1, 2, ..., sends the whole  *)
(* book when a connection opens and every later update in order, and a     *)
(* broken connection loses what was in flight.                             *)
(***************************************************************************)
EXTENDS OrderBook

CONSTANTS
  MaxSeq,        \* bound on the venue's sequence numbers
  MaxReconnect   \* WSClientConfig.MaxReconnect (10 in the code)

ASSUME FeedAssumption == MaxSeq \in Nat /\ MaxReconnect \in Nat \ {0}

VARIABLES
  hist,         \* hist[n] is the venue's book at sequence n
  wire,         \* messages sent on the open connection, not yet read
  conn,         \* the WSClient of the symbol
  attempt,      \* failed attempts of the running Reconnect
  registered,   \* eventChans has the symbol
  lastSeq       \* ExtendedWSAdapter.lastSeq of the symbol

feedVars == <<hist, wire, conn, attempt, registered, lastSeq>>
vars == <<obVars, feedVars>>

Messages == [snap: BOOLEAN, seq: Nat, levels: SUBSET Levels]

FeedTypeOK ==
  /\ hist \in Seq(Books)
  /\ wire \in Seq(Messages)
  /\ conn \in {"none", "up", "broken", "dead"}
  /\ attempt \in Nat
  /\ registered \in BOOLEAN
  /\ lastSeq \in Nat

TypeOK == OBTypeOK /\ FeedTypeOK

LevelsOf(b) == {l \in Levels : l.qty # 0 /\ l.qty = b[l.side][l.price]}

\* The message a new connection starts with: the venue's book as of now.
SnapshotNow ==
  [snap |-> TRUE, seq |-> Len(hist), levels |-> LevelsOf(hist[Len(hist)])]

Init ==
  /\ OBInit
  /\ hist \in {<<b>> : b \in Books}
  /\ wire = <<>> /\ conn = "none" /\ attempt = 0
  /\ registered = FALSE /\ lastSeq = 0

\* The venue updates at most one level of each side.
Changes == {c \in SUBSET Levels :
              /\ c # {}
              /\ \A l, m \in c : l.side = m.side => l = m}

VenueUpdate ==
  /\ Len(hist) < MaxSeq
  /\ \E c \in Changes :
       /\ hist' = Append(hist, WithLevels(hist[Len(hist)], c))
       /\ wire' = IF conn = "up"
                  THEN Append(wire, [snap |-> FALSE, seq |-> Len(hist) + 1,
                                     levels |-> c])
                  ELSE wire
  /\ UNCHANGED <<obVars, conn, attempt, registered, lastSeq>>

-----------------------------------------------------------------------------
(* SubscribeOrderBook under Bridge.Subscribe.                              *)

\* The symbol has a channel: it is returned as it is.
SubscribeExisting(h) ==
  /\ registered
  /\ StartHandler(h)
  /\ UNCHANGED feedVars

\* A first subscription that connects.
SubscribeConnect(h) ==
  /\ ~registered
  /\ StartHandler(h)
  /\ registered' = TRUE /\ conn' = "up" /\ lastSeq' = 0
  /\ wire' = <<SnapshotNow>>
  /\ UNCHANGED <<hist, attempt>>

\* A first subscription whose dial fails: the channel stays registered.
SubscribeDialFails ==
  /\ ~registered /\ current = {}
  /\ \E h \in Handlers : hpc[h] = "new"
  /\ registered' = TRUE /\ lastSeq' = 0
  /\ UNCHANGED <<obVars, hist, wire, conn, attempt>>

-----------------------------------------------------------------------------
(* readLoop, handleMessage, Reconnect.                                     *)

\* handleMessage drops a message at or below the last sequence ...
Duplicate(m) == m.seq > 0 /\ lastSeq > 0 /\ m.seq <= lastSeq

\* ... and turns another one into an event that continues the last one.
ToEvent(m) == [snap |-> m.snap, from |-> IF m.snap THEN 0 ELSE lastSeq,
               seq |-> m.seq, levels |-> m.levels]

\* Mutant of HandleMessage: a lost event leaves lastSeq where it was.
HandleMessageKeepingSeq ==
  /\ conn = "up" /\ wire # <<>>
  /\ wire' = Tail(wire)
  /\ IF Duplicate(Head(wire)) \/ Len(chan) >= ChanCap
     THEN UNCHANGED <<lastSeq, chan>>
     ELSE /\ lastSeq' = Head(wire).seq
          /\ chan' = Append(chan, ToEvent(Head(wire)))
  /\ UNCHANGED <<bookVars, closed, handlerVars, seen,
                 hist, conn, attempt, registered>>

\* A full channel loses the event, after lastSeq has moved.
HandleMessage ==
  /\ conn = "up" /\ wire # <<>>
  /\ wire' = Tail(wire)
  /\ IF Duplicate(Head(wire))
     THEN UNCHANGED <<lastSeq, chan>>
     ELSE /\ lastSeq' = Head(wire).seq
          /\ chan' = IF Len(chan) < ChanCap
                     THEN Append(chan, ToEvent(Head(wire))) ELSE chan
  /\ UNCHANGED <<bookVars, closed, handlerVars, seen,
                 hist, conn, attempt, registered>>

\* readLoop ends on an error; its onDisconnect starts Reconnect.
ConnectionBreaks ==
  /\ conn = "up"
  /\ conn' = "broken" /\ wire' = <<>> /\ attempt' = 0
  /\ UNCHANGED <<obVars, hist, registered, lastSeq>>

ReconnectSucceeds ==
  /\ conn = "broken"
  /\ conn' = "up" /\ wire' = <<SnapshotNow>>
  /\ UNCHANGED <<obVars, hist, attempt, registered, lastSeq>>

\* Mutant of ReconnectFails: the channel stays open.
ReconnectFailsSilently ==
  /\ conn = "broken"
  /\ attempt' = attempt + 1
  /\ conn' = IF attempt + 1 = MaxReconnect THEN "dead" ELSE conn
  /\ UNCHANGED <<obVars, hist, wire, registered, lastSeq>>

\* The last failed attempt makes the adapter close the channel.
ReconnectFails ==
  /\ conn = "broken"
  /\ attempt' = attempt + 1
  /\ IF attempt + 1 = MaxReconnect
     THEN conn' = "dead" /\ closed' = TRUE
     ELSE UNCHANGED <<conn, closed>>
  /\ UNCHANGED <<bookVars, chan, handlerVars, seen,
                 hist, wire, registered, lastSeq>>

Subscribe(h) == SubscribeExisting(h) \/ SubscribeConnect(h)

AdapterStep == HandleMessage \/ ReconnectSucceeds \/ ReconnectFails

Next ==
  \/ OBNext /\ UNCHANGED feedVars
  \/ VenueUpdate
  \/ \E h \in Handlers : Subscribe(h)
  \/ SubscribeDialFails
  \/ AdapterStep
  \/ ConnectionBreaks

Spec == Init /\ [][Next]_vars

\* Goroutines that can run do run; a dial eventually answers.  Nothing makes
\* the venue trade, the connection break or a user call the API.
Fairness ==
  /\ WF_vars(AdapterStep)
  /\ \A h \in Handlers : WF_vars(HandlerStep(h) /\ UNCHANGED feedVars)

FairSpec == Spec /\ Fairness

-----------------------------------------------------------------------------
(* Properties.                                                             *)

\* The book never mixes states: after any drop, gap, reconnect or change of
\* handler its content is the venue's book at the sequence it claims
\* (engine.go ApplyDelta with the FromSequence of handleMessage).
Integrity ==
  /\ bseq \in 0..Len(hist)
  /\ book = IF bseq = 0 THEN EmptyBook ELSE hist[bseq]

\* A HEALTHY book is as new as every event given to the engine: an event
\* that could not be applied takes the book out of HEALTHY (bridge.go
\* processEvent, engine.go ApplyDelta).
HealthyIsCurrent == bstate = "HEALTHY" => bseq >= seen

\* A book whose feed gave up is not HEALTHY again: handleDisconnect is the
\* last word of the handler on it (bridge.go consumeEvents).
DisconnectIsFinal ==
  closed /\ current # {} /\ (\A h \in Handlers : hpc[h] \in {"new", "done"})
    => bstate # "HEALTHY"

\* A feed that gave up reconnecting closes its channel, and a subscribed
\* handler answers with DISCONNECTED (adapter_extended_ws.go onDisconnect,
\* bridge.go consumeEvents).
DeadFeedIsNoticed ==
  conn = "dead" /\ current # {} /\ bstate = "HEALTHY"
    ~> bstate = "DISCONNECTED" \/ current = {}

Replica == INSTANCE BookReplica
  WITH Contents <- Books, Empty <- EmptyBook, content <- book, at <- bseq

\* The feed implements the abstract replica.
ReplicaSpec == Replica!Spec
=============================================================================

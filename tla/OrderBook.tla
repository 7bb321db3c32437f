----------------------------- MODULE OrderBook -----------------------------
(***************************************************************************)
(* The order book engine (src/internal/orderbook/engine.go) and the bridge *)
(* that feeds it from one venue channel (bridge.go), for one symbol.       *)
(*                                                                         *)
(* The book maps each side and price to a quantity; quantity 0 is an       *)
(* absent level.  The sort that ends every write of the engine is implied  *)
(* by this representation: the best bid is the highest present price.      *)
(*                                                                         *)
(* A handler is one goroutine running consumeEvents.  Unsubscribe cancels  *)
(* a handler but the channel of the adapter outlives it, so a cancelled    *)
(* handler and its successor may both be receiving from the channel.       *)
(* The adapter of a venue writes the channel: module ExtendedFeed.         *)
(***************************************************************************)
EXTENDS Integers, Sequences, FiniteSets

CONSTANTS
  Prices,        \* the price levels, numbers so that they are ordered
  Qtys,          \* the quantities a level may have, 0 (no level) included
  Handlers,      \* the successive symbolHandler goroutines
  ChanCap,       \* capacity of the event channel (100 in the code)
  GapLimit,      \* consecutive delta errors before a resync (3)
  StaleAge,      \* StaleThreshold of the book
  MaxAge         \* bound on the modelled age of the last update

ASSUME BookAssumption ==
  /\ Prices \subseteq Nat
  /\ Qtys \subseteq Nat /\ 0 \in Qtys
  /\ ChanCap \in Nat \ {0}
  /\ GapLimit \in Nat \ {0}
  /\ StaleAge \in Nat /\ MaxAge \in Nat

Sides == {"BID", "ASK"}
Books == [Sides -> [Prices -> Qtys]]
EmptyBook == [s \in Sides |-> [p \in Prices |-> 0]]

\* One price level of an event.
Levels == [side: Sides, price: Prices, qty: Qtys]

\* A normalised OrderBookEvent; from = 0 is a FromSequence left unset.
Events == [snap: BOOLEAN, from: Nat, seq: Nat, levels: SUBSET Levels]

BookStates == {"HEALTHY", "STALE", "DESYNCED", "RESYNCING", "DISCONNECTED"}

VARIABLES
  book,       \* Bids and Asks of the book
  bseq,       \* book.Sequence
  bstate,     \* book.State, "NONE" before GetOrCreateBook
  age,        \* time since book.LastUpdate
  chan,       \* the event channel shared by adapter and handlers
  closed,     \* the adapter has closed the channel
  current,    \* the handler in Bridge.handlers, {} or a singleton
  hpc,        \* control point of each handler goroutine
  held,       \* the event a handler has received and not yet applied
  got,        \* gotSnapshot of consumeEvents
  hgap,       \* symbolHandler.gapCount
  hlast,      \* symbolHandler.lastSeq
  seen        \* history: highest sequence of an event put to the engine

bookVars == <<book, bseq, bstate, age>>
chanVars == <<chan, closed>>
handlerVars == <<current, hpc, held, got, hgap, hlast>>
obVars == <<bookVars, chanVars, handlerVars, seen>>

NoEvent == [snap |-> FALSE, from |-> 0, seq |-> 0, levels |-> {}]

HandlerPcs == {"new", "select", "apply", "resync", "done"}

OBTypeOK ==
  /\ book \in Books
  /\ bseq \in Nat
  /\ bstate \in BookStates \cup {"NONE"}
  /\ age \in Nat
  /\ chan \in Seq(Events)
  /\ closed \in BOOLEAN
  /\ current \in SUBSET Handlers
  /\ hpc \in [Handlers -> HandlerPcs]
  /\ held \in [Handlers -> Events]
  /\ got \in [Handlers -> BOOLEAN]
  /\ hgap \in [Handlers -> Nat]
  /\ hlast \in [Handlers -> Nat]
  /\ seen \in Nat

OBInit ==
  /\ book = EmptyBook /\ bseq = 0 /\ bstate = "NONE" /\ age = MaxAge
  /\ chan = <<>> /\ closed = FALSE
  /\ current = {}
  /\ hpc = [h \in Handlers |-> "new"]
  /\ held = [h \in Handlers |-> NoEvent]
  /\ got = [h \in Handlers |-> FALSE]
  /\ hgap = [h \in Handlers |-> 0]
  /\ hlast = [h \in Handlers |-> 0]
  /\ seen = 0

-----------------------------------------------------------------------------
(* Engine: each operation runs under book.mu.                              *)

\* Mutant of WithLevels: a level is added to what is there.
WithLevelsAdding(b, levels) ==
  [s \in Sides |-> [p \in Prices |->
     IF \E l \in levels : l.side = s /\ l.price = p
     THEN b[s][p] + (CHOOSE l \in levels : l.side = s /\ l.price = p).qty
     ELSE b[s][p]]]

\* applyLevel for every level of an event: overwrite, insert or remove.
WithLevels(b, levels) ==
  [s \in Sides |-> [p \in Prices |->
     IF \E l \in levels : l.side = s /\ l.price = p
     THEN (CHOOSE l \in levels : l.side = s /\ l.price = p).qty
     ELSE b[s][p]]]

\* Mutant of ApplySnapshot: the old levels are not cleared.
ApplySnapshotMerging(e) ==
  /\ book' = WithLevels(book, e.levels)
  /\ bseq' = e.seq
  /\ age' = 0
  /\ bstate' = IF bstate \in {"RESYNCING", "DISCONNECTED"}
               THEN "HEALTHY" ELSE bstate

\* ApplySnapshot replaces the content and the sequence, whatever they were.
ApplySnapshot(e) ==
  /\ book' = WithLevels(EmptyBook, e.levels)
  /\ bseq' = e.seq
  /\ age' = 0
  /\ bstate' = IF bstate \in {"RESYNCING", "DISCONNECTED"}
               THEN "HEALTHY" ELSE bstate

\* The FromSequence of convertDelta: an unset one is the handler's lastSeq.
FromOf(h, e) == IF e.from = 0 THEN hlast[h] ELSE e.from

\* ApplyDelta of an event at or below the book's sequence does nothing.
IgnoredDelta(e) == e.seq <= bseq

\* ApplyDelta of an event that does not continue the book is an error.
GapDelta(h, e) == ~IgnoredDelta(e) /\ FromOf(h, e) # bseq

\* Mutant of ApplyDelta: a gap is reported but the book stays as it is.
ApplyDeltaUnmarked(h, e) ==
  \/ /\ IgnoredDelta(e) \/ GapDelta(h, e)
     /\ UNCHANGED bookVars
  \/ /\ ~IgnoredDelta(e) /\ ~GapDelta(h, e)
     /\ book' = WithLevels(book, e.levels)
     /\ bseq' = e.seq
     /\ age' = 0
     /\ bstate' = IF bstate = "DESYNCED" THEN "HEALTHY" ELSE bstate


ApplyDelta(h, e) ==
  \/ /\ IgnoredDelta(e)
     /\ UNCHANGED bookVars
  \/ /\ GapDelta(h, e)
     /\ bstate' = "DESYNCED"
     /\ UNCHANGED <<book, bseq, age>>
  \/ /\ ~IgnoredDelta(e) /\ ~GapDelta(h, e)
     /\ book' = WithLevels(book, e.levels)
     /\ bseq' = e.seq
     /\ age' = 0
     /\ bstate' = IF bstate = "DESYNCED" THEN "HEALTHY" ELSE bstate

\* CheckFreshness writes STALE; neither a delta nor a snapshot takes it back.
CheckFreshness ==
  /\ bstate \notin {"NONE", "DISCONNECTED", "RESYNCING"}
  /\ age > StaleAge
  /\ bstate' = "STALE"
  /\ UNCHANGED <<book, bseq, age, chanVars, handlerVars, seen>>

\* Service.RequestResync: the HTTP resync of an existing book.
RequestResync ==
  /\ bstate # "NONE"
  /\ bstate' = "RESYNCING"
  /\ UNCHANGED <<book, bseq, age, chanVars, handlerVars, seen>>

\* Engine.ResetBook: empty the book and wait for a snapshot.
ResetBook ==
  /\ bstate # "NONE"
  /\ book' = EmptyBook /\ bseq' = 0 /\ bstate' = "RESYNCING"
  /\ UNCHANGED <<age, chanVars, handlerVars, seen>>

\* The clock: the last update grows older, up to the bound MaxAge.
Tick ==
  /\ age < MaxAge
  /\ age' = age + 1
  /\ UNCHANGED <<book, bseq, bstate, chanVars, handlerVars, seen>>

-----------------------------------------------------------------------------
(* Bridge: Subscribe starts a handler, Unsubscribe cancels it.             *)

\* The part of Bridge.Subscribe after the adapter returned its channel.
StartHandler(h) ==
  /\ current = {}
  /\ hpc[h] = "new"
  /\ current' = {h}
  /\ hpc' = [hpc EXCEPT ![h] = "select"]
  /\ bstate' = IF bstate = "NONE" THEN "DISCONNECTED" ELSE bstate
  /\ UNCHANGED <<book, bseq, age, chanVars, held, got, hgap, hlast, seen>>

Unsubscribe ==
  /\ current # {}
  /\ current' = {}
  /\ UNCHANGED <<bookVars, chanVars, hpc, held, got, hgap, hlast, seen>>

Cancelled(h) == h \notin current

\* select: a cancelled handler may take ctx.Done ...
HandlerStop(h) ==
  /\ hpc[h] = "select" /\ Cancelled(h)
  /\ hpc' = [hpc EXCEPT ![h] = "done"]
  /\ UNCHANGED <<bookVars, chanVars, current, held, got, hgap, hlast, seen>>

\* ... or, like a live one, receive the next event: Go picks at random.
HandlerReceive(h) ==
  /\ hpc[h] = "select" /\ chan # <<>>
  /\ held' = [held EXCEPT ![h] = Head(chan)]
  /\ chan' = Tail(chan)
  /\ hpc' = [hpc EXCEPT ![h] = "apply"]
  /\ UNCHANGED <<bookVars, closed, current, got, hgap, hlast, seen>>

\* Mutant of HandleDisconnect: the goroutine ends and says nothing.
HandleDisconnectSilent(h) ==
  /\ hpc[h] = "select" /\ chan = <<>> /\ closed
  /\ hpc' = [hpc EXCEPT ![h] = "done"]
  /\ UNCHANGED <<bookVars, chanVars, current, held, got, hgap, hlast, seen>>

\* A closed and drained channel: handleDisconnect, then the goroutine ends.
HandleDisconnect(h) ==
  /\ hpc[h] = "select" /\ chan = <<>> /\ closed
  /\ bstate' = "DISCONNECTED"
  /\ hpc' = [hpc EXCEPT ![h] = "done"]
  /\ UNCHANGED <<book, bseq, age, chanVars, current, held, got, hgap, hlast,
                 seen>>

Newest(e) == IF e.seq > seen THEN e.seq ELSE seen

\* processEvent of a snapshot.
ProcessSnapshot(h) ==
  LET e == held[h] IN
  /\ hpc[h] = "apply" /\ e.snap
  /\ ApplySnapshot(e)
  /\ hlast' = [hlast EXCEPT ![h] = e.seq]
  /\ got' = [got EXCEPT ![h] = TRUE]
  /\ hgap' = [hgap EXCEPT ![h] = 0]
  /\ hpc' = [hpc EXCEPT ![h] = "select"]
  /\ held' = [held EXCEPT ![h] = NoEvent]
  /\ seen' = Newest(e)
  /\ UNCHANGED <<chanVars, current>>

\* processEvent of a delta before this handler saw a snapshot: dropped.
DropBeforeSnapshot(h) ==
  /\ hpc[h] = "apply" /\ ~held[h].snap /\ ~got[h]
  /\ hpc' = [hpc EXCEPT ![h] = "select"]
  /\ held' = [held EXCEPT ![h] = NoEvent]
  /\ UNCHANGED <<bookVars, chanVars, current, got, hgap, hlast, seen>>

\* processEvent of a delta: lastSeq follows an applied or ignored delta, an
\* error counts a gap, and the GapLimit-th in a row goes on to a resync.
ProcessDelta(h) ==
  LET e == held[h] IN
  /\ hpc[h] = "apply" /\ ~e.snap /\ got[h]
  /\ ApplyDelta(h, e)
  /\ IF GapDelta(h, e)
     THEN /\ hgap' = [hgap EXCEPT ![h] = IF @ < GapLimit THEN @ + 1 ELSE @]
          /\ hpc' = [hpc EXCEPT ![h] = IF hgap[h] + 1 >= GapLimit
                                       THEN "resync" ELSE "select"]
          /\ UNCHANGED hlast
     ELSE /\ hgap' = [hgap EXCEPT ![h] = 0]
          /\ hlast' = [hlast EXCEPT ![h] = e.seq]
          /\ hpc' = [hpc EXCEPT ![h] = "select"]
  /\ held' = [held EXCEPT ![h] = NoEvent]
  /\ seen' = Newest(e)
  /\ UNCHANGED <<chanVars, current, got>>

\* requestResync takes book.mu again, after ApplyDelta released it.
HandlerResync(h) ==
  /\ hpc[h] = "resync"
  /\ bstate' = "RESYNCING"
  /\ hpc' = [hpc EXCEPT ![h] = "select"]
  /\ UNCHANGED <<book, bseq, age, chanVars, current, held, got, hgap, hlast,
                 seen>>

HandlerStep(h) ==
  \/ HandlerStop(h)
  \/ HandlerReceive(h)
  \/ HandleDisconnect(h)
  \/ ProcessSnapshot(h)
  \/ DropBeforeSnapshot(h)
  \/ ProcessDelta(h)
  \/ HandlerResync(h)

EngineStep == CheckFreshness \/ RequestResync \/ ResetBook \/ Tick

OBNext ==
  \/ EngineStep
  \/ Unsubscribe
  \/ \E h \in Handlers : HandlerStep(h)

=============================================================================

------------------------ MODULE ExtendedFeedProofs ------------------------
(***************************************************************************)
(* Proofs about the Extended feed for every number of handlers, every set  *)
(* of prices and quantities, every channel capacity and gap limit:         *)
(*   TypeCorrect    the type invariant,                                    *)
(*   IntegrityHolds the book is always one the venue had,                  *)
(*   FeedImplementsReplica  the feed implements BookReplica.               *)
(*                                                                         *)
(* Integrity is not inductive: a delta is applied when its FromSequence    *)
(* equals the sequence of the book, so the invariant must say of every     *)
(* event on its way (in the channel, in a handler) that applying it to the *)
(* venue's book at its FromSequence gives the venue's book at its          *)
(* sequence, and of every message on the wire that it continues lastSeq.   *)
(***************************************************************************)
EXTENDS ExtendedFeed, TLAPS

\* Applying the event where it claims to apply gives a book of history H.
EventOK(H, e) ==
  /\ e.seq \in 1..Len(H)
  /\ e.snap => WithLevels(EmptyBook, e.levels) = H[e.seq]
  /\ ~e.snap => /\ e.from \in 1..Len(H)
                /\ WithLevels(H[e.from], e.levels) = H[e.seq]

\* The same of a message: a delta applies to the book before it.
MessageOK(H, m) ==
  /\ m.seq \in 1..Len(H)
  /\ m.snap => WithLevels(EmptyBook, m.levels) = H[m.seq]
  /\ ~m.snap => /\ m.seq - 1 \in 1..Len(H)
                /\ WithLevels(H[m.seq - 1], m.levels) = H[m.seq]

\* Messages on the wire are consecutive up to the newest of the venue.
WireOK ==
  /\ \A i \in 1..Len(wire) : MessageOK(hist, wire[i])
  /\ \A i \in 2..Len(wire) : wire[i].seq = wire[i-1].seq + 1 /\ ~wire[i].snap
  /\ wire # <<>> => /\ wire[Len(wire)].seq = Len(hist)
                    /\ wire[1].snap => wire[1].seq >= lastSeq
                    /\ ~wire[1].snap => wire[1].seq = lastSeq + 1

\* The adapter is never ahead of the venue, and with an open connection and
\* nothing on the wire it has seen everything.
AdapterOK ==
  /\ Len(hist) >= 1
  /\ lastSeq \in 0..Len(hist)
  /\ conn = "up" /\ wire = <<>> => lastSeq = Len(hist)
  /\ conn # "up" => wire = <<>>
  /\ ~registered => conn = "none"

ChanOK == \A i \in 1..Len(chan) : EventOK(hist, chan[i])

HeldOK == \A h \in Handlers : hpc[h] = "apply" => EventOK(hist, held[h])

IInv == TypeOK /\ AdapterOK /\ WireOK /\ ChanOK /\ HeldOK /\ Integrity

-----------------------------------------------------------------------------
(* Lemmas about the levels of a book.                                      *)

\* Writing levels into a book gives a book (engine.go applyLevel).
LEMMA WithLevelsType ==
  ASSUME NEW b \in Books, NEW ls \in SUBSET Levels
  PROVE  WithLevels(b, ls) \in Books
<1> SUFFICES ASSUME NEW s \in Sides, NEW p \in Prices
             PROVE  (IF \E l \in ls : l.side = s /\ l.price = p
                     THEN (CHOOSE l \in ls : l.side = s /\ l.price = p).qty
                     ELSE b[s][p]) \in Qtys
    BY DEF WithLevels, Books
<1>1. CASE \E l \in ls : l.side = s /\ l.price = p
    <2>1. (CHOOSE l \in ls : l.side = s /\ l.price = p) \in ls
        BY <1>1
    <2> QED BY <1>1, <2>1 DEF Levels
<1>2. CASE ~\E l \in ls : l.side = s /\ l.price = p
    BY <1>2 DEF Books
<1> QED BY <1>1, <1>2

LEMMA EmptyBookType == EmptyBook \in Books
BY BookAssumption DEF EmptyBook, Books

\* The snapshot of a book rebuilds that book from nothing.
LEMMA SnapshotRebuilds ==
  ASSUME NEW b \in Books
  PROVE  /\ LevelsOf(b) \in SUBSET Levels
         /\ WithLevels(EmptyBook, LevelsOf(b)) = b
<1>1. LevelsOf(b) \in SUBSET Levels
    BY DEF LevelsOf
<1>2. ASSUME NEW s \in Sides, NEW p \in Prices
      PROVE  (IF \E l \in LevelsOf(b) : l.side = s /\ l.price = p
              THEN (CHOOSE l \in LevelsOf(b) : l.side = s /\ l.price = p).qty
              ELSE EmptyBook[s][p]) = b[s][p]
    <2>1. CASE \E l \in LevelsOf(b) : l.side = s /\ l.price = p
        <3> DEFINE c == CHOOSE l \in LevelsOf(b) : l.side = s /\ l.price = p
        <3>1. c \in LevelsOf(b) /\ c.side = s /\ c.price = p
            BY <2>1
        <3> QED BY <2>1, <3>1 DEF LevelsOf
    <2>2. CASE ~\E l \in LevelsOf(b) : l.side = s /\ l.price = p
        <3>1. b[s][p] \in Qtys
            BY DEF Books
        <3>2. CASE b[s][p] # 0
            <4> DEFINE l == [side |-> s, price |-> p, qty |-> b[s][p]]
            <4>1. l \in LevelsOf(b)
                BY <3>1, <3>2 DEF LevelsOf, Levels
            <4> QED BY <4>1, <2>2
        <3>3. CASE b[s][p] = 0
            BY <2>2, <3>3 DEF EmptyBook
        <3> QED BY <3>2, <3>3
    <2> QED BY <2>1, <2>2
<1>3. WithLevels(EmptyBook, LevelsOf(b))
        = [s \in Sides |-> [p \in Prices |-> b[s][p]]]
    BY <1>2 DEF WithLevels
<1>4. b = [s \in Sides |-> [p \in Prices |-> b[s][p]]]
    BY DEF Books
<1> QED BY <1>1, <1>3, <1>4

-----------------------------------------------------------------------------
(* Type correctness.                                                       *)

\* The venue always has a book: needed to send a snapshot of it.
TInv == TypeOK /\ Len(hist) >= 1

LEMMA SnapshotNowType ==
  ASSUME TInv
  PROVE  /\ SnapshotNow \in Messages
         /\ hist[Len(hist)] \in Books
         /\ SnapshotNow.seq = Len(hist) /\ SnapshotNow.snap
         /\ WithLevels(EmptyBook, SnapshotNow.levels) = hist[Len(hist)]
<1>1. hist[Len(hist)] \in Books
    BY DEF TInv, TypeOK, FeedTypeOK
<1>2. LevelsOf(hist[Len(hist)]) \in SUBSET Levels
    BY <1>1, SnapshotRebuilds
<1> QED BY <1>1, <1>2, SnapshotRebuilds DEF SnapshotNow, Messages, TInv

LEMMA TypeInit == Init => TInv
<1> SUFFICES ASSUME Init PROVE TInv
    OBVIOUS
<1>1. OBTypeOK
    <2>1. NoEvent \in Events
        BY DEF NoEvent, Events
    <2>2. /\ book \in Books /\ bseq \in Nat /\ age \in Nat /\ seen \in Nat
          /\ bstate \in BookStates \cup {"NONE"}
        BY EmptyBookType, BookAssumption DEF Init, OBInit
    <2>3. chan \in Seq(Events) /\ closed \in BOOLEAN
        <3>1. chan = <<>>
            BY DEF Init, OBInit
        <3>2. closed = FALSE
            BY DEF Init, OBInit
        <3>3. chan \in Seq(Events)
            BY <3>1
        <3> QED BY <3>2, <3>3
    <2>4. /\ current \in SUBSET Handlers
          /\ hpc \in [Handlers -> HandlerPcs]
          /\ hgap \in [Handlers -> Nat]
          /\ hlast \in [Handlers -> Nat]
        BY DEF Init, OBInit, HandlerPcs
    <2>5. held \in [Handlers -> Events]
        BY <2>1 DEF Init, OBInit
    <2>6. got \in [Handlers -> BOOLEAN]
        BY DEF Init, OBInit
    <2> QED BY <2>2, <2>3, <2>4, <2>5, <2>6 DEF OBTypeOK
<1>2. FeedTypeOK /\ Len(hist) >= 1
    <2>1. PICK b \in Books : hist = <<b>>
        BY DEF Init
    <2>2. hist \in Seq(Books) /\ Len(hist) >= 1
        BY <2>1
    <2>3. wire \in Seq(Messages) /\ attempt \in Nat /\ lastSeq \in Nat
        BY DEF Init
    <2> QED BY <2>2, <2>3 DEF Init, FeedTypeOK
<1> QED BY <1>1, <1>2 DEF TInv, TypeOK

\* The steps of the engine and of one handler keep the types of the book.
LEMMA EngineType ==
  ASSUME OBTypeOK, EngineStep \/ Unsubscribe
  PROVE  OBTypeOK'
<1> USE DEF OBTypeOK, chanVars, handlerVars
<1>1. CASE CheckFreshness
    BY <1>1 DEF CheckFreshness, BookStates
<1>2. CASE RequestResync
    BY <1>2 DEF RequestResync, BookStates
<1>3. CASE ResetBook
    BY <1>3, EmptyBookType DEF ResetBook, BookStates
<1>4. CASE Tick
    BY <1>4 DEF Tick
<1>5. CASE Unsubscribe
    BY <1>5 DEF Unsubscribe, bookVars
<1> QED BY <1>1, <1>2, <1>3, <1>4, <1>5 DEF EngineStep

LEMMA HandlerType ==
  ASSUME OBTypeOK, NEW h \in Handlers, HandlerStep(h)
  PROVE  OBTypeOK'
<1> USE DEF OBTypeOK, chanVars, handlerVars
<1>0. held[h] \in Events /\ NoEvent \in Events
    BY DEF NoEvent, Events
<1>1. CASE HandlerStop(h)
    BY <1>1 DEF HandlerStop, HandlerPcs, bookVars
<1>2. CASE HandlerReceive(h)
    <2>1. Head(chan) \in Events /\ Tail(chan) \in Seq(Events)
        BY <1>2 DEF HandlerReceive
    <2> QED BY <1>2, <2>1 DEF HandlerReceive, HandlerPcs, bookVars
<1>3. CASE HandleDisconnect(h)
    BY <1>3 DEF HandleDisconnect, HandlerPcs, BookStates
<1>4. CASE ProcessSnapshot(h)
    <2>1. WithLevels(EmptyBook, held[h].levels) \in Books
        BY <1>0, EmptyBookType, WithLevelsType DEF Events
    <2> QED BY <1>0, <1>4, <2>1
            DEF ProcessSnapshot, ApplySnapshot, HandlerPcs, BookStates, Events,
                Newest
<1>5. CASE DropBeforeSnapshot(h)
    BY <1>0, <1>5 DEF DropBeforeSnapshot, HandlerPcs, bookVars
<1>6. CASE ProcessDelta(h)
    <2>1. WithLevels(book, held[h].levels) \in Books
        BY <1>0, WithLevelsType DEF Events
    <2>2. ApplyDelta(h, held[h]) => /\ book' \in Books /\ bseq' \in Nat
                                    /\ bstate' \in BookStates \cup {"NONE"}
                                    /\ age' \in Nat
        BY <1>0, <2>1 DEF ApplyDelta, BookStates, bookVars, Events
    <2>3. /\ hpc' \in [Handlers -> HandlerPcs]
          /\ hgap' \in [Handlers -> Nat]
          /\ hlast' \in [Handlers -> Nat]
        <3>1. CASE GapDelta(h, held[h])
            <4>1. /\ hgap' = [hgap EXCEPT ![h] = IF @ < GapLimit THEN @ + 1
                                                              ELSE @]
                  /\ hpc' = [hpc EXCEPT ![h] = IF hgap[h] + 1 >= GapLimit
                                               THEN "resync" ELSE "select"]
                  /\ hlast' = hlast
                BY <1>6, <3>1 DEF ProcessDelta
            <4>2. hgap' \in [Handlers -> Nat]
                BY <4>1
            <4> QED BY <4>1, <4>2 DEF HandlerPcs
        <3>2. CASE ~GapDelta(h, held[h])
            <4>1. /\ hgap' = [hgap EXCEPT ![h] = 0]
                  /\ hlast' = [hlast EXCEPT ![h] = held[h].seq]
                  /\ hpc' = [hpc EXCEPT ![h] = "select"]
                BY <1>6, <3>2 DEF ProcessDelta
            <4>2. held[h].seq \in Nat
                BY <1>0 DEF Events
            <4> QED BY <4>1, <4>2 DEF HandlerPcs
        <3> QED BY <3>1, <3>2
    <2> QED BY <1>0, <1>6, <2>2, <2>3 DEF ProcessDelta, Events, Newest
<1>7. CASE HandlerResync(h)
    BY <1>7 DEF HandlerResync, HandlerPcs, BookStates
<1> QED BY <1>1, <1>2, <1>3, <1>4, <1>5, <1>6, <1>7 DEF HandlerStep

LEMMA StartType ==
  ASSUME OBTypeOK, NEW h \in Handlers, StartHandler(h)
  PROVE  OBTypeOK'
BY DEF OBTypeOK, StartHandler, chanVars, HandlerPcs, BookStates

LEMMA TypeStep == TInv /\ [Next]_vars => TInv'
<1> SUFFICES ASSUME TInv, [Next]_vars PROVE TInv'
    OBVIOUS
<1> USE DEF TInv, TypeOK
<1>1. CASE OBNext /\ UNCHANGED feedVars
    BY <1>1, EngineType, HandlerType DEF OBNext, feedVars, FeedTypeOK
<1>2. CASE VenueUpdate
    <2> PICK c \in Changes :
           /\ hist' = Append(hist, WithLevels(hist[Len(hist)], c))
           /\ wire' = IF conn = "up"
                      THEN Append(wire, [snap |-> FALSE, seq |-> Len(hist) + 1,
                                         levels |-> c])
                      ELSE wire
        BY <1>2 DEF VenueUpdate
    <2>1. c \in SUBSET Levels
        BY DEF Changes
    <2>2. WithLevels(hist[Len(hist)], c) \in Books
        BY <2>1, SnapshotNowType, WithLevelsType
    <2>3. [snap |-> FALSE, seq |-> Len(hist) + 1, levels |-> c] \in Messages
        BY <2>1 DEF Messages, FeedTypeOK
    <2>4. FeedTypeOK' /\ Len(hist') >= 1
        <3>1. hist' \in Seq(Books) /\ Len(hist') >= 1
            BY <2>2 DEF FeedTypeOK
        <3>2. wire' \in Seq(Messages)
            BY <2>3 DEF FeedTypeOK
        <3> QED BY <1>2, <3>1, <3>2 DEF VenueUpdate, FeedTypeOK
    <2>5. OBTypeOK'
        BY <1>2 DEF VenueUpdate, OBTypeOK, obVars, bookVars, chanVars,
                    handlerVars
    <2> QED BY <2>4, <2>5
<1>3. ASSUME NEW h \in Handlers, Subscribe(h) PROVE TInv'
    <2>1. CASE SubscribeExisting(h)
        BY <2>1, StartType DEF SubscribeExisting, feedVars, FeedTypeOK
    <2>2. CASE SubscribeConnect(h)
        BY <2>2, StartType, SnapshotNowType DEF SubscribeConnect, FeedTypeOK
    <2> QED BY <1>3, <2>1, <2>2 DEF Subscribe
<1>4. CASE SubscribeDialFails
    BY <1>4 DEF SubscribeDialFails, FeedTypeOK, OBTypeOK, obVars, bookVars,
                chanVars, handlerVars
<1>5. CASE HandleMessage
    <2>0. Head(wire) \in Messages /\ Tail(wire) \in Seq(Messages)
        BY <1>5 DEF HandleMessage, FeedTypeOK
    <2>1. ToEvent(Head(wire)) \in Events
        <3> DEFINE m == Head(wire)
        <3>1. /\ m.snap \in BOOLEAN /\ m.seq \in Nat
              /\ m.levels \in SUBSET Levels
            BY <2>0 DEF Messages
        <3>2. (IF m.snap THEN 0 ELSE lastSeq) \in Nat
            BY DEF FeedTypeOK
        <3> HIDE DEF m
        <3>3. [snap |-> m.snap, from |-> IF m.snap THEN 0 ELSE lastSeq,
               seq |-> m.seq, levels |-> m.levels] \in Events
            BY <3>1, <3>2 DEF Events
        <3> QED BY <3>3 DEF ToEvent, m
    <2>2. FeedTypeOK' /\ Len(hist') >= 1
        BY <1>5, <2>0 DEF HandleMessage, FeedTypeOK, Messages
    <2>3. chan' \in Seq(Events)
        <3>1. chan \in Seq(Events)
            BY DEF OBTypeOK
        <3>2. chan' = chan \/ chan' = Append(chan, ToEvent(Head(wire)))
            BY <1>5 DEF HandleMessage
        <3> HIDE DEF TInv, TypeOK
        <3> QED BY <2>1, <3>1, <3>2
    <2> QED BY <1>5, <2>2, <2>3
            DEF HandleMessage, OBTypeOK, bookVars, handlerVars
<1>6. CASE ReconnectSucceeds
    BY <1>6, SnapshotNowType DEF ReconnectSucceeds, FeedTypeOK, OBTypeOK, obVars, bookVars,
                chanVars, handlerVars
<1>7. CASE ReconnectFails
    <2>1. closed' \in BOOLEAN
        BY <1>7 DEF ReconnectFails, OBTypeOK
    <2>2. conn' \in {"none", "up", "broken", "dead"} /\ attempt' \in Nat
        BY <1>7 DEF ReconnectFails, FeedTypeOK
    <2> QED BY <1>7, <2>1, <2>2
            DEF ReconnectFails, FeedTypeOK, OBTypeOK, bookVars, handlerVars
<1>8. CASE ConnectionBreaks
    BY <1>8 DEF ConnectionBreaks, FeedTypeOK, OBTypeOK, obVars, bookVars,
                chanVars, handlerVars
<1>9. CASE UNCHANGED vars
    BY <1>9 DEF vars, obVars, feedVars, bookVars, chanVars, handlerVars,
                OBTypeOK, FeedTypeOK
<1> QED BY <1>1, <1>2, <1>3, <1>4, <1>5, <1>6, <1>7, <1>8, <1>9
        DEF Next, AdapterStep

\* Every variable of the feed keeps its type (engine.go, bridge.go,
\* adapter_extended_ws.go).
THEOREM TypeCorrect == Spec => []TypeOK
<1>1. TInv => TypeOK
    BY DEF TInv
<1> QED BY TypeInit, TypeStep, <1>1, PTL DEF Spec

-----------------------------------------------------------------------------
(* Integrity.                                                              *)

\* A longer history keeps what was true of an event or of a message.
LEMMA HistoryGrows ==
  ASSUME NEW H \in Seq(Books), NEW b \in Books
  PROVE  /\ \A e : EventOK(H, e) => EventOK(Append(H, b), e)
         /\ \A m \in Messages : MessageOK(H, m) => MessageOK(Append(H, b), m)
         /\ \A n \in 1..Len(H) : Append(H, b)[n] = H[n]
<1>1. \A n \in 1..Len(H) : Append(H, b)[n] = H[n] /\ n \in 1..Len(Append(H, b))
    OBVIOUS
<1>2. ASSUME NEW e, EventOK(H, e) PROVE EventOK(Append(H, b), e)
    BY <1>1, <1>2 DEF EventOK
<1>3. ASSUME NEW m \in Messages, MessageOK(H, m)
      PROVE  MessageOK(Append(H, b), m)
    BY <1>1, <1>3 DEF MessageOK
<1> QED BY <1>1, <1>2, <1>3

LEMMA InvInit == Init => IInv
<1> SUFFICES ASSUME Init PROVE IInv
    OBVIOUS
<1>1. TypeOK
    BY TypeInit DEF TInv
<1>2. PICK b \in Books : hist = <<b>>
    BY DEF Init
<1>3. AdapterOK
    BY <1>2 DEF Init, AdapterOK
<1>4. WireOK
    BY DEF Init, WireOK
<1>5. ChanOK
    BY DEF Init, OBInit, ChanOK
<1>6. HeldOK
    BY DEF Init, OBInit, HeldOK
<1>7. Integrity
    BY <1>2 DEF Init, OBInit, Integrity
<1> QED BY <1>1, <1>3, <1>4, <1>5, <1>6, <1>7 DEF IInv

\* An event applied by a handler leaves the book on the venue's history.
LEMMA ProcessKeepsIntegrity ==
  ASSUME IInv, NEW h \in Handlers, ProcessSnapshot(h) \/ ProcessDelta(h)
  PROVE  /\ bseq' \in 0..Len(hist)
         /\ book' = IF bseq' = 0 THEN EmptyBook ELSE hist[bseq']
<1> DEFINE e == held[h]
<1>1. EventOK(hist, e)
    BY DEF IInv, HeldOK, ProcessSnapshot, ProcessDelta
<1>2. e \in Events /\ hist \in Seq(Books) /\ bseq \in Nat
    BY DEF IInv, TypeOK, OBTypeOK, FeedTypeOK
<1>3. CASE ProcessSnapshot(h)
    BY <1>1, <1>2, <1>3 DEF ProcessSnapshot, ApplySnapshot, EventOK
<1>4. CASE ProcessDelta(h)
    <2>1. CASE IgnoredDelta(e) \/ GapDelta(h, e)
        BY <1>4, <2>1 DEF ProcessDelta, ApplyDelta, IgnoredDelta, GapDelta,
                          bookVars, IInv, Integrity
    <2>2. CASE ~IgnoredDelta(e) /\ ~GapDelta(h, e)
        <3>1. ~e.snap /\ book' = WithLevels(book, e.levels) /\ bseq' = e.seq
            BY <1>4, <2>2 DEF ProcessDelta, ApplyDelta, IgnoredDelta, GapDelta
        <3>2. e.from \in 1..Len(hist) /\ e.from = bseq
            BY <1>1, <1>2, <2>2, <3>1 DEF EventOK, GapDelta, FromOf
        <3>3. book = hist[e.from]
            BY <1>2, <3>2 DEF IInv, Integrity
        <3> QED BY <1>1, <1>2, <3>1, <3>2, <3>3 DEF EventOK
    <2> QED BY <2>1, <2>2
<1> QED BY <1>3, <1>4

\* A step of a handler keeps what is known of the channel and of the events
\* that handlers hold.
LEMMA HandlerKeepsInv ==
  ASSUME IInv, NEW h \in Handlers, HandlerStep(h), UNCHANGED feedVars
  PROVE  ChanOK' /\ HeldOK' /\ Integrity'
<1>1. /\ hist' = hist
      /\ hpc \in [Handlers -> HandlerPcs] /\ held \in [Handlers -> Events]
      /\ chan \in Seq(Events)
    BY DEF feedVars, IInv, TypeOK, OBTypeOK
<1>2. CASE HandlerReceive(h)
    <2>1. /\ chan # <<>> /\ chan' = Tail(chan)
          /\ held' = [held EXCEPT ![h] = Head(chan)]
          /\ hpc' = [hpc EXCEPT ![h] = "apply"]
          /\ book' = book /\ bseq' = bseq
        BY <1>2 DEF HandlerReceive, bookVars
    <2>2. EventOK(hist, Head(chan))
        BY <1>1, <2>1 DEF IInv, ChanOK
    <2>3. \A i \in 1..Len(Tail(chan)) : EventOK(hist, Tail(chan)[i])
        BY <1>1, <2>1 DEF IInv, ChanOK
    <2>4. ChanOK'
        BY <1>1, <2>1, <2>3 DEF ChanOK
    <2>5. HeldOK'
        BY <1>1, <2>1, <2>2 DEF IInv, HeldOK
    <2>6. Integrity'
        BY <1>1, <2>1 DEF IInv, Integrity
    <2> QED BY <2>4, <2>5, <2>6
<1>3. CASE ~HandlerReceive(h)
    <2>1. chan' = chan
        BY <1>3 DEF HandlerStep, HandlerStop, HandleDisconnect,
                    ProcessSnapshot, DropBeforeSnapshot, ProcessDelta,
                    HandlerResync, chanVars
    <2>2. \A g \in Handlers : hpc'[g] = "apply" => hpc[g] = "apply" /\ held'[g] = held[g]
        <3>1. CASE HandlerStop(h)
            BY <1>1, <3>1 DEF HandlerStop
        <3>2. CASE HandleDisconnect(h)
            BY <1>1, <3>2 DEF HandleDisconnect
        <3>3. CASE ProcessSnapshot(h)
            BY <1>1, <3>3 DEF ProcessSnapshot
        <3>4. CASE DropBeforeSnapshot(h)
            BY <1>1, <3>4 DEF DropBeforeSnapshot
        <3>5. CASE ProcessDelta(h)
            <4>1. \E pc \in {"resync", "select"} : hpc' = [hpc EXCEPT ![h] = pc]
                BY <3>5 DEF ProcessDelta
            <4>2. held' = [held EXCEPT ![h] = NoEvent]
                BY <3>5 DEF ProcessDelta
            <4> QED BY <1>1, <4>1, <4>2
        <3>6. CASE HandlerResync(h)
            BY <1>1, <3>6 DEF HandlerResync
        <3> QED BY <1>3, <3>1, <3>2, <3>3, <3>4, <3>5, <3>6 DEF HandlerStep
    <2>3. Integrity'
        <3>1. CASE ProcessSnapshot(h) \/ ProcessDelta(h)
            BY <1>1, <3>1, ProcessKeepsIntegrity DEF Integrity
        <3>2. CASE ~(ProcessSnapshot(h) \/ ProcessDelta(h))
            <4>1. book' = book /\ bseq' = bseq
                BY <1>3, <3>2 DEF HandlerStep, HandlerStop, HandleDisconnect,
                                  DropBeforeSnapshot, HandlerResync, bookVars
            <4> QED BY <1>1, <4>1 DEF IInv, Integrity
        <3> QED BY <3>1, <3>2
    <2>4. ChanOK'
        BY <1>1, <2>1 DEF IInv, ChanOK
    <2>5. HeldOK'
        BY <1>1, <2>2 DEF IInv, HeldOK
    <2> QED BY <2>3, <2>4, <2>5
<1> QED BY <1>2, <1>3

\* Nothing but the feed's own variables matters to what the adapter knows.
LEMMA FeedFrame ==
  ASSUME IInv, UNCHANGED feedVars
  PROVE  AdapterOK' /\ WireOK'
BY DEF IInv, AdapterOK, WireOK, feedVars

\* Nothing but these variables matters to the events and to the book.
LEMMA BookFrame ==
  ASSUME IInv, UNCHANGED <<book, bseq, chan, hist>>,
         \A g \in Handlers : hpc'[g] = "apply" => hpc[g] = "apply" /\ held'[g] = held[g]
  PROVE  ChanOK' /\ HeldOK' /\ Integrity'
BY DEF IInv, ChanOK, HeldOK, Integrity

\* The venue moves on: the history grows and the wire, if open, with it.
LEMMA VenueKeepsInv ==
  ASSUME IInv, VenueUpdate
  PROVE  AdapterOK' /\ WireOK' /\ ChanOK' /\ HeldOK' /\ Integrity'
<1>1. PICK c \in Changes :
        /\ hist' = Append(hist, WithLevels(hist[Len(hist)], c))
        /\ wire' = IF conn = "up"
                   THEN Append(wire, [snap |-> FALSE, seq |-> Len(hist) + 1,
                                      levels |-> c])
                   ELSE wire
    BY DEF VenueUpdate
<1> DEFINE b == WithLevels(hist[Len(hist)], c)
           m == [snap |-> FALSE, seq |-> Len(hist) + 1, levels |-> c]
<1>2. /\ hist \in Seq(Books) /\ Len(hist) >= 1 /\ wire \in Seq(Messages)
      /\ lastSeq \in 0..Len(hist)
    BY DEF IInv, TypeOK, FeedTypeOK, AdapterOK
<1>3. b \in Books
    BY <1>2, WithLevelsType DEF Changes
<1>4. m \in Messages
    BY <1>2 DEF Messages, Changes
<1>5. UNCHANGED <<book, bseq, chan, hpc, held, conn, registered, lastSeq>>
    BY DEF VenueUpdate, obVars, bookVars, chanVars, handlerVars
<1>6. /\ Len(hist') = Len(hist) + 1
      /\ hist'[Len(hist)] = hist[Len(hist)] /\ hist'[Len(hist) + 1] = b
    BY <1>1, <1>2, <1>3
<1>7. MessageOK(hist', m)
    BY <1>2, <1>6 DEF MessageOK
<1>8. /\ \A e : EventOK(hist, e) => EventOK(hist', e)
      /\ \A k \in Messages : MessageOK(hist, k) => MessageOK(hist', k)
      /\ \A n \in 1..Len(hist) : hist'[n] = hist[n]
    BY <1>1, <1>2, <1>3, HistoryGrows
<1>9. ChanOK' /\ HeldOK'
    BY <1>5, <1>8 DEF IInv, ChanOK, HeldOK
<1>10. Integrity'
    BY <1>2, <1>5, <1>6, <1>8 DEF IInv, Integrity
<1>11. AdapterOK'
    BY <1>1, <1>2, <1>4, <1>5, <1>6 DEF IInv, AdapterOK
<1>12. WireOK'
    <2>1. CASE conn = "up"
        <3>1. wire' = Append(wire, m)
            BY <1>1, <2>1
        <3>2. /\ Len(wire') = Len(wire) + 1 /\ wire'[Len(wire) + 1] = m
              /\ \A i \in 1..Len(wire) : wire'[i] = wire[i]
            BY <1>2, <1>4, <3>1
        <3>3. \A i \in 1..Len(wire') : MessageOK(hist', wire'[i])
            <4> SUFFICES ASSUME NEW i \in 1..Len(wire')
                         PROVE  MessageOK(hist', wire'[i])
                OBVIOUS
            <4>1. CASE i <= Len(wire)
                <5>1. i \in 1..Len(wire) /\ wire[i] \in Messages
                    BY <1>2, <4>1
                <5>2. MessageOK(hist, wire[i])
                    BY <5>1 DEF IInv, WireOK
                <5> QED BY <1>8, <3>2, <5>1, <5>2
            <4>2. CASE i = Len(wire) + 1
                BY <1>7, <3>2, <4>2
            <4> QED BY <1>2, <3>2, <4>1, <4>2
        <3>4. wire = <<>> => lastSeq = Len(hist)
            BY <2>1 DEF IInv, AdapterOK
        <3>5. wire # <<>> => wire[Len(wire)].seq = Len(hist)
            BY DEF IInv, WireOK
        <3>6. \A i \in 2..Len(wire') :
                wire'[i].seq = wire'[i-1].seq + 1 /\ ~wire'[i].snap
            <4> SUFFICES ASSUME NEW i \in 2..Len(wire')
                         PROVE  wire'[i].seq = wire'[i-1].seq + 1 /\ ~wire'[i].snap
                OBVIOUS
            <4>1. CASE i <= Len(wire)
                BY <1>2, <3>2, <4>1 DEF IInv, WireOK
            <4>2. CASE i = Len(wire) + 1
                BY <1>2, <3>2, <3>5, <4>2
            <4> QED BY <1>2, <3>2, <4>1, <4>2
        <3>7. wire'[Len(wire')].seq = Len(hist')
            BY <1>2, <1>6, <3>2
        <3>8. /\ wire'[1].snap => wire'[1].seq >= lastSeq'
              /\ ~wire'[1].snap => wire'[1].seq = lastSeq' + 1
            <4>1. CASE wire = <<>>
                BY <1>2, <1>5, <3>2, <3>4, <4>1
            <4>2. CASE wire # <<>>
                BY <1>2, <1>5, <3>2, <4>2 DEF IInv, WireOK
            <4> QED BY <4>1, <4>2
        <3> QED BY <3>3, <3>6, <3>7, <3>8 DEF WireOK
    <2>2. CASE conn # "up"
        BY <1>1, <2>2 DEF IInv, AdapterOK, WireOK
    <2> QED BY <2>1, <2>2
<1> QED BY <1>9, <1>10, <1>11, <1>12

\* A connection opens: the wire holds the venue's book as of now.
LEMMA SnapshotOnWire ==
  ASSUME IInv, hist' = hist, wire' = <<SnapshotNow>>, conn' = "up",
         lastSeq' \in 0..Len(hist), registered' = TRUE
  PROVE  AdapterOK' /\ WireOK'
<1>1. /\ SnapshotNow.seq = Len(hist) /\ SnapshotNow.snap
      /\ WithLevels(EmptyBook, SnapshotNow.levels) = hist[Len(hist)]
      /\ Len(hist) >= 1
    BY SnapshotNowType DEF IInv, TInv, AdapterOK
<1>2. MessageOK(hist, SnapshotNow)
    BY <1>1 DEF MessageOK
<1>3. /\ Len(<<SnapshotNow>>) = 1 /\ <<SnapshotNow>>[1] = SnapshotNow
      /\ <<SnapshotNow>> # <<>>
    OBVIOUS
<1>4. hist \in Seq(Books)
    BY DEF IInv, TypeOK, FeedTypeOK
<1>5. AdapterOK'
    BY <1>1, <1>3 DEF AdapterOK
<1>6. WireOK'
    BY <1>1, <1>2, <1>3, <1>4 DEF WireOK
<1> QED BY <1>5, <1>6

\* The adapter reads one message: what it puts in the channel applies.
LEMMA HandleMessageKeepsInv ==
  ASSUME IInv, HandleMessage
  PROVE  AdapterOK' /\ WireOK' /\ ChanOK' /\ HeldOK' /\ Integrity'
<1> DEFINE m == Head(wire)
<1>1. /\ hist \in Seq(Books) /\ Len(hist) >= 1 /\ wire \in Seq(Messages)
      /\ lastSeq \in 0..Len(hist) /\ chan \in Seq(Events)
    BY DEF IInv, TypeOK, OBTypeOK, FeedTypeOK, AdapterOK
<1>2. /\ conn = "up" /\ wire # <<>> /\ wire' = Tail(wire)
      /\ UNCHANGED <<hist, conn, registered, book, bseq, hpc, held>>
    BY DEF HandleMessage, bookVars, handlerVars
<1>3. /\ m = wire[1] /\ m \in Messages /\ m.seq \in Nat
      /\ Len(wire') = Len(wire) - 1
      /\ \A i \in 1..Len(wire') : wire'[i] = wire[i + 1]
    <2>1. /\ Len(wire) \in Nat \ {0} /\ m = wire[1] /\ m \in Messages
          /\ Len(Tail(wire)) = Len(wire) - 1
          /\ \A i \in 1..Len(Tail(wire)) : Tail(wire)[i] = wire[i + 1]
        BY <1>1, <1>2
    <2>2. m.seq \in Nat
        BY <2>1 DEF Messages
    <2> QED BY <1>2, <2>1, <2>2
<1>4. MessageOK(hist, m)
    BY <1>1, <1>2, <1>3 DEF IInv, WireOK
<1>5. /\ m.snap => m.seq >= lastSeq
      /\ ~m.snap => m.seq = lastSeq + 1
    BY <1>2, <1>3 DEF IInv, WireOK
<1>6. lastSeq' = m.seq
    <2>1. CASE Duplicate(m)
        BY <1>1, <1>3, <1>5, <2>1 DEF HandleMessage, Duplicate
    <2>2. CASE ~Duplicate(m)
        BY <2>2 DEF HandleMessage
    <2> QED BY <2>1, <2>2
<1>7. WireOK'
    <2>1. \A i \in 1..Len(wire') : MessageOK(hist', wire'[i])
        BY <1>1, <1>2, <1>3 DEF IInv, WireOK
    <2>2. \A i \in 2..Len(wire') :
            wire'[i].seq = wire'[i-1].seq + 1 /\ ~wire'[i].snap
        <3> SUFFICES ASSUME NEW i \in 2..Len(wire')
                     PROVE  wire'[i].seq = wire'[i-1].seq + 1 /\ ~wire'[i].snap
            OBVIOUS
        <3>1. i + 1 \in 2..Len(wire) /\ wire'[i] = wire[i + 1]
              /\ wire'[i - 1] = wire[(i + 1) - 1]
            <4>1. Len(wire) \in Nat /\ i \in 1..Len(wire') /\ i - 1 \in 1..Len(wire')
                BY <1>1, <1>3
            <4>2. (i - 1) + 1 = (i + 1) - 1
                OBVIOUS
            <4> QED BY <1>3, <4>1, <4>2
        <3> QED BY <3>1 DEF IInv, WireOK
    <2>3. ASSUME wire' # <<>>
          PROVE  /\ wire'[Len(wire')].seq = Len(hist)
                 /\ wire'[1].seq = m.seq + 1 /\ ~wire'[1].snap
        <3>1. Len(wire) >= 2 /\ Len(wire') \in 1..Len(wire') /\ 1 \in 1..Len(wire')
            BY <1>1, <1>2, <1>3, <2>3
        <3>2. wire'[Len(wire')] = wire[Len(wire)] /\ wire'[1] = wire[2]
            BY <1>1, <1>3, <3>1
        <3>3. wire[2].seq = wire[2 - 1].seq + 1 /\ ~wire[2].snap
            BY <1>1, <3>1 DEF IInv, WireOK
        <3>4. wire[Len(wire)].seq = Len(hist)
            BY <1>2 DEF IInv, WireOK
        <3>5. wire[2 - 1] = m
            BY <1>3
        <3> QED BY <3>2, <3>3, <3>4, <3>5
    <2> QED BY <1>2, <1>6, <2>1, <2>2, <2>3 DEF WireOK
<1>8. AdapterOK'
    <2>1. lastSeq' \in 0..Len(hist')
        BY <1>1, <1>2, <1>4, <1>6 DEF MessageOK
    <2>2. ASSUME wire' = <<>> PROVE lastSeq' = Len(hist')
        <3>1. Len(wire) = 1
            <4>1. Len(wire') = 0 /\ Len(wire) \in Nat
                BY <1>1, <2>2
            <4> QED BY <1>3, <4>1
        <3> QED BY <1>2, <1>3, <1>6, <3>1 DEF IInv, WireOK
    <2> QED BY <1>1, <1>2, <2>1, <2>2 DEF IInv, AdapterOK
<1>9. ChanOK'
    <2>1. CASE chan' = chan
        BY <1>2, <2>1 DEF IInv, ChanOK
    <2>2. CASE chan' # chan
        <3>1. chan' = Append(chan, ToEvent(m)) /\ ~Duplicate(m)
            BY <2>2 DEF HandleMessage
        <3>2. EventOK(hist, ToEvent(m))
            <4>1. CASE m.snap
                BY <1>4, <4>1 DEF ToEvent, EventOK, MessageOK
            <4>2. CASE ~m.snap
                <5>1. lastSeq = m.seq - 1
                    BY <1>1, <1>5, <4>2
                <5> QED BY <1>4, <4>2, <5>1 DEF ToEvent, EventOK, MessageOK
            <4> QED BY <4>1, <4>2
        <3>3. /\ Len(chan') = Len(chan) + 1 /\ chan'[Len(chan) + 1] = ToEvent(m)
              /\ \A i \in 1..Len(chan) : chan'[i] = chan[i]
            BY <1>1, <3>1
        <3>4. ASSUME NEW i \in 1..Len(chan') PROVE EventOK(hist, chan'[i])
            <4>1. CASE i \in 1..Len(chan)
                BY <3>3, <4>1 DEF IInv, ChanOK
            <4>2. CASE i = Len(chan) + 1
                BY <3>2, <3>3, <4>2
            <4> QED BY <1>1, <3>3, <4>1, <4>2
        <3> QED BY <1>2, <3>4 DEF ChanOK
    <2> QED BY <2>1, <2>2
<1>10. HeldOK'
    BY <1>2 DEF IInv, HeldOK
<1>11. Integrity'
    BY <1>2 DEF IInv, Integrity
<1> QED BY <1>7, <1>8, <1>9, <1>10, <1>11

LEMMA InvStep == IInv /\ [Next]_vars => IInv'
<1> SUFFICES ASSUME IInv, [Next]_vars PROVE IInv'
    OBVIOUS
<1>1. TypeOK'
    BY TypeStep DEF IInv, TInv, AdapterOK
<1>2. hpc \in [Handlers -> HandlerPcs] /\ Len(hist) >= 1
    BY DEF IInv, TypeOK, OBTypeOK, AdapterOK
<1>3. AdapterOK' /\ WireOK' /\ ChanOK' /\ HeldOK' /\ Integrity'
    <2>1. ASSUME EngineStep \/ Unsubscribe, UNCHANGED feedVars
          PROVE  AdapterOK' /\ WireOK' /\ ChanOK' /\ HeldOK' /\ Integrity'
        <3>1. /\ UNCHANGED <<chan, hist, hpc, held>>
              /\ \/ UNCHANGED <<book, bseq>>
                 \/ book' = EmptyBook /\ bseq' = 0
            BY <2>1 DEF EngineStep, CheckFreshness, RequestResync, ResetBook,
                        Tick, Unsubscribe, chanVars, handlerVars, bookVars,
                        feedVars
        <3>2. ChanOK' /\ HeldOK'
            BY <3>1 DEF IInv, ChanOK, HeldOK
        <3>3. Integrity'
            BY <1>2, <3>1 DEF IInv, Integrity
        <3> QED BY <2>1, <3>2, <3>3, FeedFrame
    <2>2. ASSUME NEW h \in Handlers, HandlerStep(h), UNCHANGED feedVars
          PROVE  AdapterOK' /\ WireOK' /\ ChanOK' /\ HeldOK' /\ Integrity'
        BY <2>2, HandlerKeepsInv, FeedFrame
    <2>3. CASE VenueUpdate
        BY <2>3, VenueKeepsInv
    <2>4. ASSUME NEW h \in Handlers, Subscribe(h)
          PROVE  AdapterOK' /\ WireOK' /\ ChanOK' /\ HeldOK' /\ Integrity'
        <3>1. /\ UNCHANGED <<book, bseq, chan, held, hist>>
              /\ hpc' = [hpc EXCEPT ![h] = "select"]
            BY <2>4 DEF Subscribe, SubscribeExisting, SubscribeConnect,
                        StartHandler, chanVars, feedVars
        <3>2. ChanOK' /\ HeldOK' /\ Integrity'
            BY <1>2, <3>1, BookFrame
        <3>3. CASE SubscribeExisting(h)
            BY <3>2, <3>3, FeedFrame DEF SubscribeExisting
        <3>4. CASE SubscribeConnect(h)
            <4>1. lastSeq' \in 0..Len(hist)
                BY <1>2, <3>4 DEF SubscribeConnect, IInv, TypeOK, FeedTypeOK
            <4> QED BY <3>2, <3>4, <4>1, SnapshotOnWire DEF SubscribeConnect
        <3> QED BY <2>4, <3>3, <3>4 DEF Subscribe
    <2>5. CASE SubscribeDialFails
        <3>1. UNCHANGED <<book, bseq, chan, hist, hpc, held, wire, conn>>
              /\ lastSeq' = 0 /\ registered' = TRUE /\ ~registered
            BY <2>5 DEF SubscribeDialFails, obVars, bookVars, chanVars,
                        handlerVars
        <3>2. AdapterOK' /\ WireOK'
            BY <1>2, <3>1 DEF IInv, AdapterOK, WireOK
        <3> QED BY <3>1, <3>2, BookFrame
    <2>6. CASE HandleMessage
        BY <2>6, HandleMessageKeepsInv
    <2>7. ASSUME ReconnectSucceeds \/ ReconnectFails \/ ConnectionBreaks
          PROVE  AdapterOK' /\ WireOK' /\ ChanOK' /\ HeldOK' /\ Integrity'
        <3>1. UNCHANGED <<book, bseq, chan, hist, hpc, held, registered, lastSeq>>
            BY <2>7 DEF ReconnectSucceeds, ReconnectFails, ConnectionBreaks,
                        obVars, bookVars, chanVars, handlerVars
        <3>2. registered /\ lastSeq \in 0..Len(hist)
            BY <2>7 DEF IInv, AdapterOK, ReconnectSucceeds, ReconnectFails,
                        ConnectionBreaks
        <3>3. CASE ReconnectSucceeds
            BY <3>1, <3>2, <3>3, SnapshotOnWire, BookFrame
               DEF ReconnectSucceeds, IInv, TypeOK, FeedTypeOK
        <3>4. CASE ReconnectFails \/ ConnectionBreaks
            <4>1. wire' = <<>> /\ conn' # "up"
                BY <3>4 DEF ReconnectFails, ConnectionBreaks, IInv, AdapterOK
            <4>2. AdapterOK' /\ WireOK'
                BY <1>2, <3>1, <3>2, <4>1 DEF AdapterOK, WireOK
            <4> QED BY <3>1, <4>2, BookFrame
        <3> QED BY <2>7, <3>3, <3>4
    <2>8. CASE UNCHANGED vars
        <3>1. UNCHANGED feedVars /\ UNCHANGED <<book, bseq, chan, hist, hpc, held>>
            BY <2>8 DEF vars, feedVars, obVars, bookVars, chanVars, handlerVars
        <3> QED BY <3>1, FeedFrame, BookFrame
    <2> QED BY <2>1, <2>2, <2>3, <2>4, <2>5, <2>6, <2>7, <2>8
            DEF Next, OBNext, AdapterStep
<1> QED BY <1>1, <1>3 DEF IInv

\* The book is always one the venue had, at the sequence it claims, whatever
\* is lost between the venue and the engine (engine.go ApplyDelta and
\* ApplySnapshot, adapter_extended_ws.go handleMessage).
THEOREM IntegrityHolds == Spec => []Integrity
<1>1. IInv => Integrity
    BY DEF IInv
<1> QED BY InvInit, InvStep, <1>1, PTL DEF Spec

\* Every step of the feed is a step of the abstract replica or a stutter.
LEMMA ReplicaStep == IInv /\ IInv' /\ [Next]_vars => [Replica!Next]_(Replica!replicaVars)
<1> SUFFICES ASSUME IInv, IInv', [Next]_vars
             PROVE  [Replica!Next]_(Replica!replicaVars)
    OBVIOUS
<1>1. hist' = hist \/ UNCHANGED <<book, bseq>>
    BY DEF Next, OBNext, VenueUpdate, Subscribe, SubscribeExisting,
           SubscribeConnect, StartHandler, SubscribeDialFails, AdapterStep,
           HandleMessage, ReconnectSucceeds, ReconnectFails, ConnectionBreaks,
           feedVars, obVars, bookVars, vars
<1>2. CASE hist' = hist
    <2>1. Integrity' /\ hist' \in Seq(Books)
        BY DEF IInv, TypeOK, FeedTypeOK
    <2>2. CASE bseq' = 0
        BY <1>2, <2>1, <2>2 DEF Integrity, Replica!Next, Replica!ReplicaEmptied
    <2>3. CASE bseq' # 0
        <3>1. bseq' \in 1..Len(hist) /\ book' = hist[bseq']
            BY <1>2, <2>1, <2>3 DEF Integrity
        <3> QED BY <1>2, <3>1 DEF Replica!Next, Replica!ReplicaMoves
    <2> QED BY <2>2, <2>3
<1>3. CASE hist' # hist
    <2>1. VenueUpdate
        BY <1>3 DEF Next, OBNext, Subscribe, SubscribeExisting,
           SubscribeConnect, SubscribeDialFails, AdapterStep,
           HandleMessage, ReconnectSucceeds, ReconnectFails, ConnectionBreaks,
           feedVars, vars
    <2>2. PICK c \in Changes :
            hist' = Append(hist, WithLevels(hist[Len(hist)], c))
        BY <2>1 DEF VenueUpdate
    <2>3. WithLevels(hist[Len(hist)], c) \in Books
        <3>1. hist[Len(hist)] \in Books
            BY DEF IInv, TypeOK, FeedTypeOK, AdapterOK
        <3> QED BY <3>1, WithLevelsType DEF Changes
    <2> QED BY <1>1, <1>3, <2>2, <2>3 DEF Replica!Next, Replica!VenuePublishes
<1> QED BY <1>2, <1>3

\* The feed implements the abstract replica: it may lag, jump or be emptied,
\* and never shows a mix of two books of the venue.
THEOREM FeedImplementsReplica == Spec => ReplicaSpec
<1>1. Init => Replica!Init
    BY DEF Init, OBInit, Replica!Init
<1> QED BY <1>1, InvInit, InvStep, ReplicaStep, PTL
        DEF Spec, ReplicaSpec, Replica!Spec

-----------------------------------------------------------------------------
(* One consumer at a time.                                                 *)

Alive(h) == hpc[h] \notin {"new", "done"}

\* Unsubscribe cancels a handler and does not wait for it, so a successor
\* may run beside it.  The two theorems below are about the runs in which
\* the successor comes after the end of the cancelled goroutine.
OneConsumer == \A g, h \in Handlers : Alive(g) /\ Alive(h) => g = h

\* Events reach the engine in the order of their sequences: what was applied,
\* what a handler holds, what is in the channel, what the adapter has read.
Ordered ==
  /\ seen <= lastSeq
  /\ \A i \in 1..Len(chan) : seen <= chan[i].seq /\ chan[i].seq <= lastSeq
  /\ \A i, j \in 1..Len(chan) : i <= j => chan[i].seq <= chan[j].seq
  /\ \A h \in Handlers : hpc[h] = "apply" =>
       /\ seen <= held[h].seq /\ held[h].seq <= lastSeq
       /\ \A i \in 1..Len(chan) : held[h].seq <= chan[i].seq

\* lastSeq is set to 0 only before the first event.
Unstarted ==
  ~registered =>
    /\ chan = <<>> /\ seen = 0
    /\ \A h \in Handlers : hpc[h] = "new"

\* The subscribed handler is the one that runs, and left the book in another
\* state than HEALTHY if it ended.
LastWord ==
  \A h \in current :
    /\ hpc[h] # "new" /\ current = {h}
    /\ \A g \in Handlers : Alive(g) => g = h
    /\ hpc[h] = "done" => bstate # "HEALTHY"

OInv == Ordered /\ Unstarted /\ LastWord /\ HealthyIsCurrent

LEMMA OrderInit == Init => OInv
BY DEF Init, OBInit, OInv, Ordered, Unstarted, LastWord, HealthyIsCurrent

\* What the proofs use of the types.
LEMMA OrderTypes ==
  ASSUME TypeOK
  PROVE  /\ chan \in Seq(Events) /\ wire \in Seq(Messages)
         /\ lastSeq \in Nat /\ seen \in Nat /\ bseq \in Nat
         /\ hpc \in [Handlers -> HandlerPcs] /\ held \in [Handlers -> Events]
         /\ \A h \in Handlers : held[h].seq \in Nat
         /\ \A i \in 1..Len(chan) : chan[i].seq \in Nat
         /\ current \in SUBSET Handlers
<1>1. chan \in Seq(Events) /\ held \in [Handlers -> Events]
    BY DEF TypeOK, OBTypeOK
<1>2. \A h \in Handlers : held[h].seq \in Nat
    BY <1>1 DEF Events
<1>3. \A i \in 1..Len(chan) : chan[i].seq \in Nat
    <2>1. \A i \in 1..Len(chan) : chan[i] \in Events
        BY <1>1
    <2> QED BY <2>1 DEF Events
<1> QED BY <1>1, <1>2, <1>3 DEF TypeOK, OBTypeOK, FeedTypeOK

LEMMA OrderFrame ==
  ASSUME Ordered, UNCHANGED <<chan, seen, lastSeq>>,
         \A g \in Handlers : hpc'[g] = "apply" => hpc[g] = "apply" /\ held'[g] = held[g]
  PROVE  Ordered'
BY DEF Ordered

LEMMA OrderHandler ==
  ASSUME IInv, Ordered, OneConsumer, NEW h \in Handlers, HandlerStep(h),
         UNCHANGED feedVars
  PROVE  Ordered'
<1>0. lastSeq' = lastSeq
    BY DEF feedVars
<1>1. CASE HandlerReceive(h)
    <2>1. /\ chan # <<>> /\ chan' = Tail(chan) /\ seen' = seen
          /\ held' = [held EXCEPT ![h] = Head(chan)]
          /\ hpc' = [hpc EXCEPT ![h] = "apply"]
          /\ hpc[h] = "select"
        BY <1>1 DEF HandlerReceive
    <2>2. /\ Len(chan) \in Nat \ {0} /\ Head(chan) = chan[1]
          /\ Len(chan') = Len(chan) - 1
          /\ \A i \in 1..Len(chan') : i + 1 \in 1..Len(chan) /\ chan'[i] = chan[i + 1]
        <3>1. chan \in Seq(Events)
            BY OrderTypes DEF IInv
        <3> QED BY <2>1, <3>1
    <2>3. \A g \in Handlers : hpc'[g] = "apply" => g = h
        BY <2>1, OrderTypes DEF OneConsumer, Alive, IInv
    <2>4. held'[h] = chan[1]
        BY <2>1, <2>2, OrderTypes DEF IInv
    <2>5. \A i \in 1..Len(chan') : seen' <= chan'[i].seq /\ chan'[i].seq <= lastSeq'
        BY <1>0, <2>1, <2>2 DEF Ordered
    <2>6. ASSUME NEW i \in 1..Len(chan'), NEW j \in 1..Len(chan'), i <= j
          PROVE  chan'[i].seq <= chan'[j].seq
        <3>1. i + 1 \in 1..Len(chan) /\ j + 1 \in 1..Len(chan) /\ i + 1 <= j + 1
            BY <2>2, <2>6
        <3> QED BY <2>2, <3>1 DEF Ordered
    <2>7. 1 \in 1..Len(chan)
        BY <2>2
    <2>8. seen <= chan[1].seq /\ chan[1].seq <= lastSeq
        BY <2>7 DEF Ordered
    <2>9. ASSUME NEW i \in 1..Len(chan') PROVE chan[1].seq <= chan'[i].seq
        <3>1. i + 1 \in 1..Len(chan) /\ 1 <= i + 1
            BY <2>2
        <3> QED BY <2>2, <2>7, <3>1 DEF Ordered
    <2>10. seen' <= lastSeq'
        BY <1>0, <2>1 DEF Ordered
    <2> QED BY <1>0, <2>1, <2>3, <2>4, <2>5, <2>6, <2>8, <2>9, <2>10 DEF Ordered
<1>2. CASE ProcessSnapshot(h) \/ ProcessDelta(h)
    <2>1. /\ hpc[h] = "apply" /\ hpc'[h] # "apply" /\ chan' = chan
          /\ \A g \in Handlers \ {h} : hpc'[g] = hpc[g]
        BY <1>2, OrderTypes DEF ProcessSnapshot, ProcessDelta, chanVars, IInv
    <2>2. \A g \in Handlers : hpc'[g] # "apply"
        BY <2>1 DEF OneConsumer, Alive
    <2>3. seen' = held[h].seq
        <3>1. seen' = Newest(held[h]) /\ seen <= held[h].seq
            BY <1>2, <2>1 DEF ProcessSnapshot, ProcessDelta, Ordered
        <3> QED BY <3>1, OrderTypes DEF Newest, IInv
    <2>4. /\ held[h].seq <= lastSeq
          /\ \A i \in 1..Len(chan) : held[h].seq <= chan[i].seq
        BY <2>1 DEF Ordered
    <2>5. /\ \A i \in 1..Len(chan) : chan[i].seq <= lastSeq
          /\ \A i, j \in 1..Len(chan) : i <= j => chan[i].seq <= chan[j].seq
        BY DEF Ordered
    <2> QED BY <1>0, <2>1, <2>2, <2>3, <2>4, <2>5 DEF Ordered
<1>3. CASE HandlerStop(h) \/ HandleDisconnect(h) \/ HandlerResync(h)
    <2>1. \A g \in Handlers : hpc'[g] = "apply" => hpc[g] = "apply" /\ held'[g] = held[g]
        BY <1>3, OrderTypes DEF HandlerStop, HandleDisconnect, HandlerResync, IInv
    <2> QED BY <1>0, <1>3, <2>1, OrderFrame
            DEF HandlerStop, HandleDisconnect, HandlerResync, chanVars
<1>4. CASE DropBeforeSnapshot(h)
    <2>1. \A g \in Handlers : hpc'[g] = "apply" => hpc[g] = "apply" /\ held'[g] = held[g]
        BY <1>4, OrderTypes DEF DropBeforeSnapshot, IInv
    <2> QED BY <1>0, <1>4, <2>1, OrderFrame DEF DropBeforeSnapshot, chanVars
<1> QED BY <1>1, <1>2, <1>3, <1>4 DEF HandlerStep

LEMMA OrderMessage ==
  ASSUME IInv, Ordered, HandleMessage
  PROVE  Ordered'
<1> DEFINE m == Head(wire)
<1>1. /\ chan \in Seq(Events) /\ lastSeq \in Nat /\ seen \in Nat
      /\ \A i \in 1..Len(chan) : chan[i].seq \in Nat
      /\ \A h \in Handlers : held[h].seq \in Nat
      /\ UNCHANGED <<seen, hpc, held>>
    BY OrderTypes DEF IInv, HandleMessage, handlerVars
<1>2. m = wire[1] /\ m \in Messages /\ m.seq \in Nat
    <2>1. wire \in Seq(Messages) /\ wire # <<>>
        BY OrderTypes DEF IInv, HandleMessage
    <2>2. m = wire[1] /\ m \in Messages
        BY <2>1
    <2> QED BY <2>2 DEF Messages
<1>3. m.seq >= lastSeq
    <2>1. /\ wire # <<>>
          /\ wire[1].snap => wire[1].seq >= lastSeq
          /\ ~wire[1].snap => wire[1].seq = lastSeq + 1
        BY DEF IInv, WireOK, HandleMessage
    <2> QED BY <1>1, <1>2, <2>1
<1> HIDE DEF m
<1>4. CASE lastSeq' = lastSeq /\ chan' = chan
    BY <1>1, <1>4, OrderFrame
<1>5. CASE lastSeq' = m.seq /\ chan' = chan
    <2>1. seen' <= lastSeq'
        BY <1>1, <1>2, <1>3, <1>5 DEF Ordered
    <2>2. \A i \in 1..Len(chan') : seen' <= chan'[i].seq /\ chan'[i].seq <= lastSeq'
        BY <1>1, <1>2, <1>3, <1>5 DEF Ordered
    <2>3. \A i, j \in 1..Len(chan') : i <= j => chan'[i].seq <= chan'[j].seq
        BY <1>5 DEF Ordered
    <2>4. \A h \in Handlers : hpc'[h] = "apply" =>
             /\ seen' <= held'[h].seq /\ held'[h].seq <= lastSeq'
             /\ \A i \in 1..Len(chan') : held'[h].seq <= chan'[i].seq
        BY <1>1, <1>2, <1>3, <1>5 DEF Ordered
    <2> QED BY <2>1, <2>2, <2>3, <2>4 DEF Ordered
<1>6. CASE lastSeq' = m.seq /\ chan' = Append(chan, ToEvent(m))
    <2>1. /\ Len(chan') = Len(chan) + 1 /\ chan'[Len(chan) + 1].seq = m.seq
          /\ \A i \in 1..Len(chan) : chan'[i] = chan[i]
          /\ Len(chan) \in Nat
        <3>1. ToEvent(m).seq = m.seq
            BY DEF ToEvent
        <3> QED BY <1>1, <1>6, <3>1
    <2>2. seen <= m.seq /\ \A i \in 1..Len(chan) : chan[i].seq <= m.seq
        BY <1>1, <1>2, <1>3 DEF Ordered
    <2>3. \A i \in 1..Len(chan') : seen' <= chan'[i].seq /\ chan'[i].seq <= lastSeq'
        <3> SUFFICES ASSUME NEW i \in 1..Len(chan')
                     PROVE  seen' <= chan'[i].seq /\ chan'[i].seq <= lastSeq'
            OBVIOUS
        <3>1. CASE i \in 1..Len(chan)
            BY <1>1, <1>6, <2>1, <2>2, <3>1 DEF Ordered
        <3>2. CASE i = Len(chan) + 1
            BY <1>1, <1>2, <1>6, <2>1, <2>2, <3>2
        <3> QED BY <2>1, <3>1, <3>2
    <2>4. ASSUME NEW i \in 1..Len(chan'), NEW j \in 1..Len(chan'), i <= j
          PROVE  chan'[i].seq <= chan'[j].seq
        <3>1. CASE j \in 1..Len(chan)
            <4>1. i \in 1..Len(chan)
                BY <2>1, <2>4, <3>1
            <4> QED BY <2>1, <2>4, <3>1, <4>1 DEF Ordered
        <3>2. CASE j = Len(chan) + 1
            <4>1. CASE i \in 1..Len(chan)
                BY <2>1, <2>2, <3>2, <4>1
            <4>2. CASE i = Len(chan) + 1
                BY <1>2, <2>1, <3>2, <4>2
            <4> QED BY <2>1, <4>1, <4>2
        <3> QED BY <2>1, <3>1, <3>2
    <2>5. ASSUME NEW h \in Handlers, hpc'[h] = "apply"
          PROVE  /\ seen' <= held'[h].seq /\ held'[h].seq <= lastSeq'
                 /\ \A i \in 1..Len(chan') : held'[h].seq <= chan'[i].seq
        <3>1. /\ seen <= held[h].seq /\ held[h].seq <= lastSeq
              /\ \A i \in 1..Len(chan) : held[h].seq <= chan[i].seq
            BY <1>1, <2>5 DEF Ordered
        <3>2. held[h].seq <= m.seq
            BY <1>1, <1>2, <1>3, <3>1
        <3>3. \A i \in 1..Len(chan') : held[h].seq <= chan'[i].seq
            <4> SUFFICES ASSUME NEW i \in 1..Len(chan')
                         PROVE  held[h].seq <= chan'[i].seq
                OBVIOUS
            <4>1. CASE i \in 1..Len(chan)
                BY <2>1, <3>1, <4>1
            <4>2. CASE i = Len(chan) + 1
                BY <2>1, <3>2, <4>2
            <4> QED BY <2>1, <4>1, <4>2
        <3> QED BY <1>1, <1>6, <3>1, <3>2, <3>3
    <2>6. seen' <= lastSeq'
        BY <1>1, <1>6, <2>2
    <2> QED BY <2>3, <2>4, <2>5, <2>6 DEF Ordered
<1> QED BY <1>4, <1>5, <1>6 DEF HandleMessage, m

LEMMA OrderStep ==
  ASSUME IInv, OInv, OneConsumer, [Next]_vars
  PROVE  Ordered'
<1> USE DEF OInv
<1>1. ASSUME EngineStep \/ Unsubscribe, UNCHANGED feedVars PROVE Ordered'
    <2>1. UNCHANGED <<chan, seen, hpc, held, lastSeq>>
        BY <1>1 DEF EngineStep, CheckFreshness, RequestResync, ResetBook,
                    Tick, Unsubscribe, chanVars, handlerVars, feedVars
    <2> QED BY <2>1, OrderFrame
<1>2. ASSUME NEW h \in Handlers, HandlerStep(h), UNCHANGED feedVars PROVE Ordered'
    BY <1>2, OrderHandler
<1>3. CASE HandleMessage
    BY <1>3, OrderMessage
<1>4. ASSUME NEW h \in Handlers, SubscribeExisting(h) PROVE Ordered'
    <2>1. UNCHANGED <<chan, seen, held, lastSeq>> /\ hpc' = [hpc EXCEPT ![h] = "select"]
        BY <1>4 DEF SubscribeExisting, StartHandler, chanVars, feedVars
    <2> QED BY <2>1, OrderFrame, OrderTypes DEF IInv
<1>5. ASSUME NEW h \in Handlers, SubscribeConnect(h) PROVE Ordered'
    <2>1. /\ UNCHANGED <<chan, seen, held>> /\ lastSeq' = 0 /\ ~registered
          /\ hpc' = [hpc EXCEPT ![h] = "select"]
        BY <1>5 DEF SubscribeConnect, StartHandler, chanVars
    <2>2. chan = <<>> /\ seen = 0 /\ \A g \in Handlers : hpc'[g] # "apply"
        BY <2>1, OrderTypes DEF IInv, Unstarted
    <2> QED BY <2>1, <2>2 DEF Ordered
<1>6. CASE SubscribeDialFails
    <2>1. UNCHANGED <<chan, seen, held, hpc>> /\ lastSeq' = 0 /\ ~registered
        BY <1>6 DEF SubscribeDialFails, obVars, chanVars, handlerVars
    <2>2. chan = <<>> /\ seen = 0 /\ \A g \in Handlers : hpc'[g] # "apply"
        BY <2>1, OrderTypes DEF IInv, Unstarted
    <2> QED BY <2>1, <2>2 DEF Ordered
<1>7. CASE VenueUpdate \/ ReconnectSucceeds \/ ReconnectFails \/ ConnectionBreaks
    <2>1. UNCHANGED <<chan, seen, held, hpc, lastSeq>>
        BY <1>7 DEF VenueUpdate, ReconnectSucceeds, ReconnectFails,
                    ConnectionBreaks, obVars, chanVars, handlerVars
    <2> QED BY <2>1, OrderFrame
<1>8. CASE UNCHANGED vars
    <2>1. UNCHANGED <<chan, seen, held, hpc, lastSeq>>
        BY <1>8 DEF vars, obVars, chanVars, handlerVars, feedVars
    <2> QED BY <2>1, OrderFrame
<1> QED BY <1>1, <1>2, <1>3, <1>4, <1>5, <1>6, <1>7, <1>8
        DEF Next, OBNext, Subscribe, AdapterStep

\* Before the first subscription nothing runs and nothing was received.
LEMMA UnstartedStep ==
  ASSUME IInv, OInv, [Next]_vars
  PROVE  Unstarted'
<1> SUFFICES ASSUME ~registered'
             PROVE  chan' = <<>> /\ seen' = 0 /\ \A h \in Handlers : hpc'[h] = "new"
    BY DEF Unstarted
<1>1. ~registered
    BY DEF Next, OBNext, VenueUpdate, Subscribe, SubscribeExisting,
           SubscribeConnect, SubscribeDialFails, AdapterStep, HandleMessage,
           ReconnectSucceeds, ReconnectFails, ConnectionBreaks, feedVars, vars
<1>2. chan = <<>> /\ seen = 0 /\ \A h \in Handlers : hpc[h] = "new"
    BY <1>1 DEF OInv, Unstarted
<1>3. conn = "none"
    BY <1>1 DEF IInv, AdapterOK
<1>4. UNCHANGED <<chan, seen, hpc>>
    <2>1. ASSUME NEW h \in Handlers PROVE ~HandlerStep(h)
        BY <1>2 DEF HandlerStep, HandlerStop, HandlerReceive, HandleDisconnect,
                    ProcessSnapshot, DropBeforeSnapshot, ProcessDelta,
                    HandlerResync
    <2>2. CASE EngineStep \/ Unsubscribe
        BY <2>2 DEF EngineStep, CheckFreshness, RequestResync, ResetBook,
                    Tick, Unsubscribe, chanVars, handlerVars
    <2>3. CASE VenueUpdate \/ SubscribeDialFails \/ UNCHANGED vars
        BY <2>3 DEF VenueUpdate, SubscribeDialFails, vars, obVars, chanVars,
                    handlerVars
    <2>4. ASSUME NEW h \in Handlers PROVE ~Subscribe(h)
        BY <1>1 DEF Subscribe, SubscribeExisting, SubscribeConnect
    <2>5. ~AdapterStep /\ ~ConnectionBreaks
        BY <1>3 DEF AdapterStep, HandleMessage, ReconnectSucceeds,
                    ReconnectFails, ConnectionBreaks
    <2> QED BY <2>1, <2>2, <2>3, <2>4, <2>5 DEF Next, OBNext
<1> QED BY <1>2, <1>4

\* Only a handler makes the book HEALTHY, and by the event it holds.
LEMMA LastWordStep ==
  ASSUME IInv, OInv, OneConsumer', [Next]_vars
  PROVE  LastWord'
<1>0. /\ hpc \in [Handlers -> HandlerPcs] /\ current \in SUBSET Handlers
      /\ LastWord
    BY OrderTypes DEF IInv, OInv
<1>1. ASSUME EngineStep, UNCHANGED feedVars PROVE LastWord'
    <2>1. UNCHANGED <<hpc, current>> /\ (bstate' = bstate \/ bstate' # "HEALTHY")
        BY <1>1 DEF EngineStep, CheckFreshness, RequestResync, ResetBook, Tick,
                    handlerVars
    <2> QED BY <1>0, <2>1 DEF LastWord, Alive
<1>2. CASE Unsubscribe
    BY <1>2 DEF Unsubscribe, LastWord
<1>3. ASSUME NEW h \in Handlers, HandlerStep(h) PROVE LastWord'
    <2>1. /\ current' = current
          /\ \A g \in Handlers \ {h} : hpc'[g] = hpc[g]
          /\ Alive(h) /\ hpc'[h] # "new"
        <3>1. CASE HandlerStop(h)
            BY <1>0, <3>1 DEF HandlerStop, Alive
        <3>2. CASE HandlerReceive(h)
            BY <1>0, <3>2 DEF HandlerReceive, Alive
        <3>3. CASE HandleDisconnect(h)
            BY <1>0, <3>3 DEF HandleDisconnect, Alive
        <3>4. CASE ProcessSnapshot(h)
            BY <1>0, <3>4 DEF ProcessSnapshot, Alive
        <3>5. CASE DropBeforeSnapshot(h)
            BY <1>0, <3>5 DEF DropBeforeSnapshot, Alive
        <3>6. CASE ProcessDelta(h)
            BY <1>0, <3>6 DEF ProcessDelta, Alive
        <3>7. CASE HandlerResync(h)
            BY <1>0, <3>7 DEF HandlerResync, Alive
        <3> QED BY <1>3, <3>1, <3>2, <3>3, <3>4, <3>5, <3>6, <3>7 DEF HandlerStep
    <2>2. ASSUME hpc'[h] = "done", h \in current PROVE bstate' # "HEALTHY"
        <3>1. HandleDisconnect(h)
            BY <1>0, <1>3, <2>2 DEF HandlerStep, HandlerStop, HandlerReceive,
               ProcessSnapshot, DropBeforeSnapshot, ProcessDelta,
               HandlerResync, Cancelled
        <3> QED BY <3>1 DEF HandleDisconnect
    <2>3. \A g \in Handlers : Alive(g)' => Alive(g)
        BY <2>1 DEF Alive
    <2> SUFFICES ASSUME NEW k \in current
                 PROVE  /\ hpc'[k] # "new" /\ current' = {k}
                        /\ \A g \in Handlers : Alive(g)' => g = k
                        /\ hpc'[k] = "done" => bstate' # "HEALTHY"
        BY <2>1 DEF LastWord
    <2>4. /\ hpc[k] # "new" /\ current = {k} /\ k \in Handlers
          /\ \A g \in Handlers : Alive(g) => g = k
        BY <1>0 DEF LastWord
    <2>5. h = k
        BY <2>1, <2>4
    <2> QED BY <2>1, <2>2, <2>3, <2>4, <2>5
<1>4. ASSUME NEW h \in Handlers, StartHandler(h) PROVE LastWord'
    <2>1. current' = {h} /\ hpc'[h] = "select" /\ Alive(h)'
        BY <1>0, <1>4 DEF StartHandler, Alive
    <2>2. \A g \in Handlers : Alive(g)' => g = h
        BY <2>1 DEF OneConsumer
    <2> QED BY <2>1, <2>2 DEF LastWord
<1>5. CASE VenueUpdate \/ SubscribeDialFails \/ AdapterStep \/ ConnectionBreaks
           \/ UNCHANGED vars
    <2>1. UNCHANGED <<hpc, current, bstate>>
        BY <1>5 DEF VenueUpdate, SubscribeDialFails, AdapterStep,
                    HandleMessage, ReconnectSucceeds, ReconnectFails,
                    ConnectionBreaks, vars, obVars, bookVars, handlerVars
    <2> QED BY <1>0, <2>1 DEF LastWord, Alive
<1> QED BY <1>1, <1>2, <1>3, <1>4, <1>5
        DEF Next, OBNext, Subscribe, SubscribeExisting, SubscribeConnect

LEMMA CurrentStep ==
  ASSUME IInv, OInv, [Next]_vars
  PROVE  HealthyIsCurrent'
<1>0. /\ seen \in Nat /\ bseq \in Nat /\ HealthyIsCurrent
      /\ \A h \in Handlers : held[h].seq \in Nat
    BY OrderTypes DEF IInv, OInv
<1>1. CASE EngineStep \/ Unsubscribe
    BY <1>0, <1>1 DEF EngineStep, CheckFreshness, RequestResync, ResetBook,
                      Tick, Unsubscribe, bookVars, HealthyIsCurrent
<1>2. ASSUME NEW h \in Handlers, HandlerStep(h) PROVE HealthyIsCurrent'
    <2>1. CASE ProcessSnapshot(h)
        <3>1. bseq' = held[h].seq /\ seen' = Newest(held[h]) /\ seen <= held[h].seq
            BY <2>1 DEF ProcessSnapshot, ApplySnapshot, OInv, Ordered
        <3> QED BY <1>0, <3>1 DEF Newest, HealthyIsCurrent
    <2>2. CASE ProcessDelta(h)
        <3>1. seen' = Newest(held[h]) /\ seen <= held[h].seq /\ ApplyDelta(h, held[h])
            BY <2>2 DEF ProcessDelta, OInv, Ordered
        <3>2. seen' = held[h].seq
            BY <1>0, <3>1 DEF Newest
        <3>3. CASE IgnoredDelta(held[h]) /\ UNCHANGED bookVars
            BY <1>0, <3>2, <3>3 DEF IgnoredDelta, bookVars, HealthyIsCurrent
        <3>4. CASE bstate' = "DESYNCED"
            BY <3>4 DEF HealthyIsCurrent
        <3>5. CASE bseq' = held[h].seq
            BY <1>0, <3>2, <3>5 DEF HealthyIsCurrent
        <3> QED BY <3>1, <3>3, <3>4, <3>5 DEF ApplyDelta
    <2>3. CASE ~ProcessSnapshot(h) /\ ~ProcessDelta(h)
        BY <1>0, <1>2, <2>3
           DEF HandlerStep, HandlerStop, HandlerReceive, HandleDisconnect,
               DropBeforeSnapshot, HandlerResync, bookVars, HealthyIsCurrent
    <2> QED BY <2>1, <2>2, <2>3
<1>3. ASSUME NEW h \in Handlers, StartHandler(h) PROVE HealthyIsCurrent'
    BY <1>0, <1>3 DEF StartHandler, HealthyIsCurrent
<1>4. CASE VenueUpdate \/ SubscribeDialFails \/ AdapterStep \/ ConnectionBreaks
           \/ UNCHANGED vars
    <2>1. UNCHANGED <<seen, bseq, bstate>>
        BY <1>4 DEF VenueUpdate, SubscribeDialFails, AdapterStep,
                    HandleMessage, ReconnectSucceeds, ReconnectFails,
                    ConnectionBreaks, vars, obVars, bookVars, handlerVars
    <2> QED BY <1>0, <2>1 DEF HealthyIsCurrent
<1> QED BY <1>1, <1>2, <1>3, <1>4
        DEF Next, OBNext, Subscribe, SubscribeExisting, SubscribeConnect

LEMMA OrderInvariance == Spec /\ []OneConsumer => []OInv
<1>1. IInv /\ OInv /\ OneConsumer /\ OneConsumer' /\ [Next]_vars => OInv'
    BY OrderStep, UnstartedStep, LastWordStep, CurrentStep DEF OInv
<1> QED BY InvInit, InvStep, OrderInit, <1>1, PTL DEF Spec

\* While no two handlers run at once, a HEALTHY book is as new as every event
\* given to the engine, for any loss in the channel, any reconnection and
\* any number of successive subscriptions (bridge.go processEvent, engine.go
\* ApplyDelta and ApplySnapshot).
THEOREM HealthyMeansCurrent == Spec /\ []OneConsumer => []HealthyIsCurrent
<1>1. OInv => HealthyIsCurrent
    BY DEF OInv
<1> QED BY <1>1, OrderInvariance, PTL

\* While no two handlers run at once, the DISCONNECTED of handleDisconnect is
\* the last word on a book whose feed gave up: whatever the API and the clock
\* do to the book afterwards, it is not HEALTHY (bridge.go consumeEvents).
THEOREM DisconnectedStays == Spec /\ []OneConsumer => []DisconnectIsFinal
<1>1. OInv /\ TypeOK => DisconnectIsFinal
    <2> SUFFICES ASSUME OInv, TypeOK, closed, current # {},
                        \A h \in Handlers : hpc[h] \in {"new", "done"}
                 PROVE  bstate # "HEALTHY"
        BY DEF DisconnectIsFinal
    <2>1. PICK h \in current : TRUE
        OBVIOUS
    <2>2. h \in Handlers
        BY <2>1, OrderTypes
    <2> QED BY <2>1, <2>2 DEF OInv, LastWord
<1> QED BY <1>1, OrderInvariance, TypeCorrect, PTL
=============================================================================

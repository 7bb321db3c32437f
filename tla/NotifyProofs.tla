---------------------------- MODULE NotifyProofs ----------------------------
(***************************************************************************)
(* Proofs about the notification pipeline for all sets of events, users,   *)
(* buckets and keys, any queue size, number of attempts, failures and      *)
(* crashes:                                                                *)
(*   TypeCorrect              the type invariant,                          *)
(*   DuplicatesAreExplained   a message is taken twice only after a        *)
(*                            failure nobody recorded,                     *)
(*   PipelineImplementsOutbox the pipeline implements module Outbox.       *)
(*                                                                         *)
(* The counting of sends is inductive only with what the worker relies on  *)
(* between its queries: a row it has read is still pending and has         *)
(* attempts left (BatchIsDue), and the row it has sent is one of those and *)
(* was taken if Telegram said so (InHand).                                 *)
(***************************************************************************)
EXTENDS NotifyPipeline, TLAPS

\* What is flushed or dispatched holds an event, so it has a key.
Nonempty ==
  /\ \A b \in expired : buckets[b] # <<>>
  /\ <<>> \notin flushed
  /\ todo # {} => intent # <<>>

BatchIsDue ==
  \A id \in batch :
    outbox[id].status = "pending" /\ outbox[id].attempts < MaxAttempts

InHand ==
  /\ cur # None => cur \in batch
  /\ ok => cur # None /\ delivered[cur] > 0

IInv == TypeOK /\ Nonempty /\ BatchIsDue /\ InHand /\ DuplicateOnlyAfterFailure

-----------------------------------------------------------------------------
(* Lemmas about the operators.                                             *)

\* A bounded queue stays within its capacity (watcher.go emit, Enqueue).
LEMMA OfferType ==
  ASSUME NEW q \in Seq(Events), Len(q) <= QueueSize, NEW e \in Events
  PROVE  Offer(q, e) \in Seq(Events) /\ Len(Offer(q, e)) <= QueueSize
BY NotifyAssumption DEF Offer

\* What leaves a queue leaves a queue (runObserver, Start).
LEMMA TailType ==
  ASSUME NEW q \in Seq(Events), Len(q) <= QueueSize, q # <<>>
  PROVE  /\ Head(q) \in Events
         /\ Tail(q) \in Seq(Events) /\ Len(Tail(q)) <= QueueSize
<1>1. Head(q) \in Events /\ Tail(q) \in Seq(Events) /\ Len(Tail(q)) = Len(q) - 1
    OBVIOUS
<1> QED BY <1>1, NotifyAssumption

\* Add keeps the buckets of events and leaves none that it touches empty.
LEMMA AddType ==
  ASSUME buckets \in [Buckets -> Seq(Events)], NEW e \in Events
  PROVE  /\ Add(e) \in [Buckets -> Seq(Events)]
         /\ \A b \in Buckets : b # BucketOf[e] => Add(e)[b] = buckets[b]
<1>1. BucketOf[e] \in Buckets
    BY NotifyAssumption
<1>2. <<e>> \in Seq(Events) /\ Append(buckets[BucketOf[e]], e) \in Seq(Events)
    BY <1>1
<1> QED BY <1>1, <1>2 DEF Add

\* FlushExpired moves the expired buckets into intents that hold events.
LEMMA FlushType ==
  ASSUME NEW bs \in [Buckets -> Seq(Events)], NEW over \in SUBSET Buckets,
         \A b \in over : bs[b] # <<>>, FlushExpired(bs, over)
  PROVE  /\ buckets' \in [Buckets -> Seq(Events)]
         /\ expired' = {}
         /\ flushed' \in SUBSET Seq(Events) /\ <<>> \notin flushed'
<1>1. buckets' \in [Buckets -> Seq(Events)]
    BY DEF FlushExpired
<1>2. flushed' \in SUBSET Seq(Events) /\ <<>> \notin flushed'
    BY DEF FlushExpired
<1> QED BY <1>1, <1>2 DEF FlushExpired

\* A conflict leaves the outbox, a new key gets one pending row.
LEMMA InsertType ==
  ASSUME outbox \in [Ids -> Row], NEW id \in Ids, NEW x \in Seq(Events),
         InsertOutbox(id, x)
  PROVE  /\ outbox' \in [Ids -> Row]
         /\ \A i \in Ids : outbox[i].status # "absent" => outbox'[i] = outbox[i]
         /\ \A i \in Ids : outbox[i].status = "absent" =>
              outbox'[i].status \in {"absent", "pending"}
<1> DEFINE new == [status |-> "pending", attempts |-> 0, body |-> x]
<1>1. new \in Row
    BY NotifyAssumption DEF Row
<1>2. CASE outbox[id].status # "absent"
    BY <1>2 DEF InsertOutbox
<1>3. CASE outbox[id].status = "absent"
  <2>1. outbox' = [outbox EXCEPT ![id] = new]
      BY <1>3 DEF InsertOutbox
  <2>2. outbox' \in [Ids -> Row]
      BY <1>1, <2>1
  <2>3. \A i \in Ids : outbox'[i] = IF i = id THEN new ELSE outbox[i]
      BY <2>1
  <2> QED BY <1>3, <2>2, <2>3
<1> QED BY <1>2, <1>3

LEMMA NoRowType == NoRow \in Row
BY NotifyAssumption DEF NoRow, Row

-----------------------------------------------------------------------------
(* The invariant holds initially.                                          *)

LEMMA InitInv == Init => IInv
<1> SUFFICES ASSUME Init PROVE IInv
    OBVIOUS
<1>1. outbox \in [Ids -> Row]
    BY NoRowType DEF Init
<1>2. TypeOK
  <2>1. observerCh \in Seq(Events) /\ events \in Seq(Events) /\ intent \in Seq(Events)
      BY DEF Init
  <2>2. Len(observerCh) <= QueueSize /\ Len(events) <= QueueSize
      BY NotifyAssumption DEF Init
  <2>3. buckets \in [Buckets -> Seq(Events)]
      BY DEF Init
  <2>4. ok \in BOOLEAN
      BY DEF Init
  <2>5. /\ delivered \in [Ids -> Nat] /\ unsure \in [Ids -> Nat]
        /\ emits \in Nat /\ failures \in Nat /\ crashes \in Nat /\ changes \in Nat
      BY DEF Init
  <2>6. /\ expired \in SUBSET Buckets /\ flushed \in SUBSET Seq(Events)
        /\ todo \in SUBSET Users /\ targets \in SUBSET Users
        /\ waiting \in SUBSET Ids /\ batch \in SUBSET Ids
        /\ cur \in Ids \cup {None}
      BY DEF Init
  <2> QED BY <1>1, <2>1, <2>2, <2>3, <2>4, <2>5, <2>6 DEF TypeOK
<1>3. Nonempty
    BY DEF Init, Nonempty
<1>4. BatchIsDue /\ InHand
    BY DEF Init, BatchIsDue, InHand
<1>5. DuplicateOnlyAfterFailure
    BY DEF Init, DuplicateOnlyAfterFailure
<1> QED BY <1>2, <1>3, <1>4, <1>5 DEF IInv

-----------------------------------------------------------------------------
(* What the dispatcher's side and the rest do to the worker's invariant:   *)
(* nothing, as long as rows that exist stay as they are.                   *)

LEMMA WorkerUndisturbed ==
  ASSUME IInv, UNCHANGED <<workerVars, history>>,
         \A id \in Ids : outbox[id].status # "absent" => outbox'[id] = outbox[id],
         \A id \in Ids : outbox[id].status = "absent" =>
           outbox'[id].status \in {"absent", "pending"}
  PROVE  BatchIsDue' /\ InHand' /\ DuplicateOnlyAfterFailure'
<1> USE DEF workerVars, history
<1>1. BatchIsDue'
  <2> SUFFICES ASSUME NEW id \in batch
               PROVE  outbox'[id].status = "pending"
                      /\ outbox'[id].attempts < MaxAttempts
      BY DEF BatchIsDue
  <2>1. id \in Ids /\ outbox[id].status = "pending"
        /\ outbox[id].attempts < MaxAttempts
      BY DEF IInv, TypeOK, BatchIsDue
  <2> QED BY <2>1
<1>2. InHand'
    BY DEF IInv, InHand
<1>3. DuplicateOnlyAfterFailure'
  <2> SUFFICES ASSUME NEW id \in Ids
               PROVE  delivered[id] <= unsure[id] +
                        (IF outbox'[id].status = "sent" \/ (cur = id /\ ok)
                         THEN 1 ELSE 0)
      BY DEF DuplicateOnlyAfterFailure
  <2>1. (outbox'[id].status = "sent") <=> (outbox[id].status = "sent")
      OBVIOUS
  <2> QED BY <2>1 DEF IInv, DuplicateOnlyAfterFailure
<1> QED BY <1>1, <1>2, <1>3

-----------------------------------------------------------------------------
(* The steps of the watcher and the dispatcher.                            *)

LEMMA EmitInv == ASSUME IInv, NEW e \in Events, Emit(e) PROVE IInv'
<1> USE DEF IInv
<1>1. observerCh' \in Seq(Events) /\ Len(observerCh') <= QueueSize
    BY OfferType DEF Emit, TypeOK
<1>2. TypeOK'
    BY <1>1 DEF Emit, TypeOK, dispatchVars, workerVars, history
<1>3. Nonempty'
    BY DEF Emit, Nonempty, dispatchVars
<1>4. BatchIsDue' /\ InHand' /\ DuplicateOnlyAfterFailure'
    BY WorkerUndisturbed DEF Emit, TypeOK, Row
<1> QED BY <1>2, <1>3, <1>4

LEMMA RunObserverInv == ASSUME IInv, RunObserver PROVE IInv'
<1> USE DEF IInv
<1>1. /\ Head(observerCh) \in Events
      /\ observerCh' \in Seq(Events) /\ Len(observerCh') <= QueueSize
    BY TailType DEF RunObserver, TypeOK
<1>2. events' \in Seq(Events) /\ Len(events') <= QueueSize
    BY <1>1, OfferType DEF RunObserver, TypeOK
<1>3. TypeOK'
    BY <1>1, <1>2 DEF RunObserver, TypeOK, dispatchVars, workerVars, history, bounds
<1>4. Nonempty'
    BY DEF RunObserver, Nonempty, dispatchVars
<1>5. BatchIsDue' /\ InHand' /\ DuplicateOnlyAfterFailure'
    BY WorkerUndisturbed DEF RunObserver, TypeOK, Row
<1> QED BY <1>3, <1>4, <1>5

LEMMA HandleEventInv == ASSUME IInv, HandleEvent PROVE IInv'
<1> USE DEF IInv
<1> DEFINE e == Head(events)
<1>1. e \in Events /\ events' \in Seq(Events) /\ Len(events') <= QueueSize
    BY TailType DEF HandleEvent, TypeOK
<1>2. /\ Add(e) \in [Buckets -> Seq(Events)]
      /\ \A b \in Buckets : b # BucketOf[e] => Add(e)[b] = buckets[b]
    BY <1>1, AddType DEF TypeOK
<1>3. \A b \in expired \ {BucketOf[e]} : Add(e)[b] # <<>>
    BY <1>2 DEF TypeOK, Nonempty
<1>4. /\ buckets' \in [Buckets -> Seq(Events)] /\ expired' = {}
      /\ flushed' \in SUBSET Seq(Events) /\ <<>> \notin flushed'
  <2>1. expired \ {BucketOf[e]} \in SUBSET Buckets
      BY DEF TypeOK
  <2>2. FlushExpired(Add(e), expired \ {BucketOf[e]})
      BY DEF HandleEvent
  <2> HIDE DEF e
  <2> QED BY <1>2, <1>3, <2>1, <2>2, FlushType
<1>5. TypeOK'
    BY <1>1, <1>4 DEF HandleEvent, TypeOK, workerVars, history, bounds
<1>6. Nonempty'
    BY <1>4 DEF HandleEvent, Nonempty
<1>7. BatchIsDue' /\ InHand' /\ DuplicateOnlyAfterFailure'
    BY WorkerUndisturbed DEF HandleEvent, TypeOK, Row
<1> QED BY <1>5, <1>6, <1>7

LEMMA FlushTickInv == ASSUME IInv, FlushTick PROVE IInv'
<1> USE DEF IInv
<1>1. /\ buckets' \in [Buckets -> Seq(Events)] /\ expired' = {}
      /\ flushed' \in SUBSET Seq(Events) /\ <<>> \notin flushed'
    BY FlushType DEF FlushTick, TypeOK, Nonempty
<1>2. TypeOK'
    BY <1>1 DEF FlushTick, TypeOK, queueVars, workerVars, history, bounds
<1>3. Nonempty'
    BY <1>1 DEF FlushTick, Nonempty
<1>4. BatchIsDue' /\ InHand' /\ DuplicateOnlyAfterFailure'
    BY WorkerUndisturbed DEF FlushTick, TypeOK, Row
<1> QED BY <1>2, <1>3, <1>4

LEMMA WindowEndsInv == ASSUME IInv, NEW b \in Buckets, WindowEnds(b) PROVE IInv'
<1> USE DEF IInv
<1>1. TypeOK'
    BY DEF WindowEnds, TypeOK, queueVars, workerVars, history, bounds
<1>2. Nonempty'
    BY DEF WindowEnds, Nonempty
<1>3. BatchIsDue' /\ InHand' /\ DuplicateOnlyAfterFailure'
    BY WorkerUndisturbed DEF WindowEnds, TypeOK, Row
<1> QED BY <1>1, <1>2, <1>3

LEMMA TakeIntentInv == ASSUME IInv, TakeIntent PROVE IInv'
<1> USE DEF IInv
<1>1. PICK x \in flushed :
        /\ flushed' = flushed \ {x}
        /\ \/ /\ DbAnswers
              /\ todo' = targets
              /\ intent' = IF targets = {} THEN <<>> ELSE x
           \/ DbFails /\ UNCHANGED <<intent, todo>>
    BY DEF TakeIntent
<1>2. x \in Seq(Events) /\ x # <<>>
    BY DEF TypeOK, Nonempty
<1>3. intent' \in Seq(Events) /\ todo' \in SUBSET Users /\ failures' \in Nat
  <2>1. intent' \in Seq(Events)
    <3>1. intent' \in {intent, x, <<>>}
        BY <1>1
    <3>2. intent \in Seq(Events) /\ <<>> \in Seq(Events)
        BY DEF TypeOK
    <3> QED BY <1>2, <3>1, <3>2
  <2>2. todo' \in SUBSET Users
      BY <1>1 DEF TypeOK
  <2>3. failures' \in Nat
      BY <1>1 DEF TypeOK, DbAnswers, DbFails
  <2> QED BY <2>1, <2>2, <2>3
<1>4. TypeOK'
    BY <1>1, <1>3 DEF TakeIntent, TypeOK, queueVars, workerVars, history
<1>5. todo' # {} => intent' # <<>>
    BY <1>1, <1>2 DEF Nonempty
<1>6. Nonempty'
    BY <1>1, <1>5 DEF TakeIntent, Nonempty
<1>7. BatchIsDue' /\ InHand' /\ DuplicateOnlyAfterFailure'
    BY WorkerUndisturbed DEF TakeIntent, TypeOK, Row
<1> QED BY <1>4, <1>6, <1>7

\* A dispatch inserts one row at most, under a key of the index.
LEMMA DispatchEffect ==
  ASSUME IInv, NEW u \in Users, DispatchTo(u)
  PROVE  /\ outbox' \in [Ids -> Row]
         /\ \A i \in Ids : outbox[i].status # "absent" => outbox'[i] = outbox[i]
         /\ \A i \in Ids : outbox[i].status = "absent" =>
              outbox'[i].status \in {"absent", "pending"}
<1> USE DEF IInv
<1> DEFINE id == <<u, KeyOf[Head(intent)]>>
<1>1. intent \in Seq(Events) /\ intent # <<>>
    BY DEF DispatchTo, TypeOK, Nonempty
<1>2. Head(intent) \in Events
    BY <1>1
<1>3. id \in Ids
    BY <1>2, NotifyAssumption DEF Ids
<1>4. CASE InsertOutbox(id, intent)
  <2> HIDE DEF id
  <2> QED BY <1>1, <1>3, <1>4, InsertType DEF TypeOK
<1>5. CASE UNCHANGED outbox
    BY <1>5 DEF TypeOK, Row
<1> QED BY <1>4, <1>5 DEF DispatchTo

LEMMA DispatchToInv == ASSUME IInv, NEW u \in Users, DispatchTo(u) PROVE IInv'
<1> USE DEF IInv
<1>1. failures' \in Nat
    BY DEF DispatchTo, TypeOK, DbAnswers, DbFails
<1>2. intent' \in Seq(Events) /\ todo' \in SUBSET Users
    BY DEF DispatchTo, TypeOK
<1>3. outbox' \in [Ids -> Row]
    BY DispatchEffect
<1>4. TypeOK'
    BY <1>1, <1>2, <1>3 DEF DispatchTo, TypeOK, queueVars, workerVars, history
<1>5. Nonempty'
    BY DEF DispatchTo, Nonempty
<1>6. BatchIsDue' /\ InHand' /\ DuplicateOnlyAfterFailure'
    BY WorkerUndisturbed, DispatchEffect DEF DispatchTo
<1> QED BY <1>4, <1>5, <1>6

-----------------------------------------------------------------------------
(* The steps of the worker.                                                *)

LEMMA ListPendingInv == ASSUME IInv, ListPending PROVE IInv'
<1> USE DEF IInv
<1>1. TypeOK'
    BY DEF ListPending, TypeOK, queueVars, dispatchVars, history, bounds
<1>2. Nonempty'
    BY DEF ListPending, Nonempty, dispatchVars
<1>3. BatchIsDue'
    BY DEF ListPending, BatchIsDue, Due
<1>4. InHand'
    BY DEF ListPending, InHand, history
<1>5. DuplicateOnlyAfterFailure'
    BY DEF ListPending, DuplicateOnlyAfterFailure, history
<1> QED BY <1>1, <1>2, <1>3, <1>4, <1>5

LEMMA SendInv == ASSUME IInv, NEW id \in Ids, Send(id) PROVE IInv'
<1> USE DEF IInv
<1>1. id \in batch /\ cur = None /\ cur' = id /\ id # None
    BY NotifyAssumption DEF Send
<1>2. ~ok /\ outbox[id].status = "pending"
    BY <1>1 DEF InHand, BatchIsDue
<1>3. /\ failures' \in Nat
      /\ delivered' \in [Ids -> Nat]
      /\ unsure' \in [Ids -> Nat]
  <2>1. failures' \in Nat
      BY DEF Send, TypeOK, DbAnswers, DbFails
  <2>2. delivered' \in [Ids -> Nat]
      BY DEF Send, TypeOK, history
  <2>3. unsure' \in [Ids -> Nat]
      BY DEF Send, TypeOK, history
  <2> QED BY <2>1, <2>2, <2>3
<1>4. ok' \in BOOLEAN
    BY DEF Send
<1>5. TypeOK'
    BY <1>1, <1>3, <1>4 DEF Send, TypeOK, queueVars, dispatchVars
<1>6. Nonempty'
    BY DEF Send, Nonempty, dispatchVars
<1>7. BatchIsDue'
    BY DEF Send, BatchIsDue
<1>8. InHand'
    BY <1>1 DEF Send, InHand, TypeOK
<1>9. DuplicateOnlyAfterFailure'
  <2> SUFFICES ASSUME NEW i \in Ids
               PROVE  delivered'[i] <= unsure'[i] +
                        (IF outbox'[i].status = "sent" \/ (cur' = i /\ ok')
                         THEN 1 ELSE 0)
      BY DEF DuplicateOnlyAfterFailure
  <2>1. delivered[i] <= unsure[i] + (IF outbox[i].status = "sent" THEN 1 ELSE 0)
      BY <1>2 DEF DuplicateOnlyAfterFailure
  <2>2. outbox' = outbox
      BY DEF Send
  <2>3. delivered[i] \in Nat /\ unsure[i] \in Nat
      BY DEF TypeOK
  <2>4. CASE i # id
    <3>1. delivered'[i] = delivered[i] /\ unsure'[i] = unsure[i]
        BY <2>4 DEF Send, TypeOK, history
    <3> QED BY <1>1, <2>1, <2>2, <2>4, <3>1
  <2>5. CASE i = id
    <3>1. delivered[i] <= unsure[i]
        BY <1>2, <2>1, <2>3, <2>5
    <3>2. \/ ok' /\ delivered'[i] = delivered[i] + 1 /\ unsure'[i] = unsure[i]
          \/ ~ok' /\ delivered'[i] = delivered[i] /\ unsure'[i] = unsure[i]
          \/ ~ok' /\ delivered'[i] = delivered[i] + 1 /\ unsure'[i] = unsure[i] + 1
        BY <2>5 DEF Send, TypeOK, history
    <3> QED BY <1>1, <1>2, <2>2, <2>3, <2>5, <3>1, <3>2
  <2> QED BY <2>4, <2>5
<1> QED BY <1>5, <1>6, <1>7, <1>8, <1>9

\* Mark changes the row in hand only: sent after Telegram said so, or one
\* more attempt.
LEMMA MarkEffect ==
  ASSUME IInv, Mark
  PROVE  /\ cur \in Ids /\ outbox' \in [Ids -> Row]
         /\ \A i \in Ids : i # cur => outbox'[i] = outbox[i]
         /\ \/ outbox'[cur] = outbox[cur] /\ unsure' = Unrecorded
            \/ ok /\ outbox'[cur].status = "sent" /\ unsure' = unsure
            \/ ~ok /\ outbox'[cur].status = "pending" /\ unsure' = unsure
<1> USE DEF IInv
<1>1. cur \in Ids /\ cur \in batch
    BY DEF Mark, InHand, TypeOK
<1>2. /\ outbox[cur] \in Row /\ outbox[cur].status = "pending"
      /\ outbox[cur].attempts < MaxAttempts
    BY <1>1 DEF BatchIsDue, TypeOK
<1>3. CASE DbFails /\ unsure' = Unrecorded /\ UNCHANGED <<outbox, waiting>>
    BY <1>1, <1>3 DEF TypeOK
<1>4. CASE ok /\ unsure' = unsure /\ outbox' = [outbox EXCEPT ![cur].status = "sent"]
  <2>1. [outbox[cur] EXCEPT !.status = "sent"] \in Row
      BY <1>2 DEF Row
  <2>2. outbox' \in [Ids -> Row]
      BY <1>1, <1>4, <2>1 DEF TypeOK
  <2>3. outbox'[cur].status = "sent" /\ \A i \in Ids : i # cur => outbox'[i] = outbox[i]
      BY <1>1, <1>2, <1>4 DEF TypeOK, Row
  <2> QED BY <1>1, <1>4, <2>2, <2>3
<1>5. CASE ~ok /\ unsure' = unsure /\ outbox' = [outbox EXCEPT ![cur].attempts = @ + 1]
  <2>1. outbox[cur].attempts + 1 \in 0..MaxAttempts
      BY <1>2, NotifyAssumption DEF Row
  <2>2. [outbox[cur] EXCEPT !.attempts = @ + 1] \in Row
      BY <1>2, <2>1 DEF Row
  <2>3. outbox' \in [Ids -> Row]
      BY <1>1, <1>5, <2>2 DEF TypeOK
  <2>4. outbox'[cur].status = "pending" /\ \A i \in Ids : i # cur => outbox'[i] = outbox[i]
      BY <1>1, <1>2, <1>5 DEF TypeOK, Row
  <2> QED BY <1>1, <1>5, <2>3, <2>4
<1> QED BY <1>3, <1>4, <1>5 DEF Mark

\* A send that nobody recorded makes one more unsure.
LEMMA UnrecordedType ==
  ASSUME IInv
  PROVE  /\ Unrecorded \in [Ids -> Nat]
         /\ \A i \in Ids : Unrecorded[i] =
              unsure[i] + (IF cur = i /\ ok THEN 1 ELSE 0)
<1> USE DEF IInv
<1>1. CASE ok
  <2>1. cur \in Ids
      BY <1>1 DEF InHand, TypeOK
  <2>2. Unrecorded = [unsure EXCEPT ![cur] = @ + 1]
      BY <1>1 DEF Unrecorded
  <2> QED BY <1>1, <2>1, <2>2 DEF TypeOK
<1>2. CASE ~ok
  <2>1. Unrecorded = unsure
      BY <1>2 DEF Unrecorded
  <2> QED BY <1>2, <2>1 DEF TypeOK
<1> QED BY <1>1, <1>2

LEMMA MarkInv == ASSUME IInv, Mark PROVE IInv'
<1> USE DEF IInv
<1>1. cur' = None /\ ~ok' /\ batch' = batch \ {cur}
    BY DEF Mark
<1>2. unsure' \in [Ids -> Nat] /\ waiting' \in SUBSET Ids /\ failures' \in Nat
  <2>1. unsure' \in [Ids -> Nat]
      BY MarkEffect, UnrecordedType DEF TypeOK
  <2>2. waiting' \in SUBSET Ids
      BY MarkEffect DEF Mark, TypeOK
  <2>3. failures' \in Nat
      BY DEF Mark, TypeOK, DbAnswers, DbFails
  <2> QED BY <2>1, <2>2, <2>3
<1>3. ok' \in BOOLEAN
    BY DEF Mark
<1>4. TypeOK'
    BY <1>1, <1>2, <1>3, MarkEffect DEF Mark, TypeOK, queueVars, dispatchVars
<1>5. Nonempty'
    BY DEF Mark, Nonempty, dispatchVars
<1>6. BatchIsDue'
    BY <1>1, MarkEffect DEF BatchIsDue, TypeOK
<1>7. InHand'
    BY <1>1 DEF InHand
<1>8. DuplicateOnlyAfterFailure'
  <2> SUFFICES ASSUME NEW i \in Ids
               PROVE  delivered[i] <= unsure'[i] +
                        (IF outbox'[i].status = "sent" THEN 1 ELSE 0)
      BY <1>1 DEF Mark, DuplicateOnlyAfterFailure
  <2>1. delivered[i] <= unsure[i] +
          (IF outbox[i].status = "sent" \/ (cur = i /\ ok) THEN 1 ELSE 0)
      BY DEF DuplicateOnlyAfterFailure
  <2>2. /\ delivered[i] \in Nat /\ unsure[i] \in Nat
        /\ Unrecorded[i] = unsure[i] + (IF cur = i /\ ok THEN 1 ELSE 0)
      BY UnrecordedType DEF TypeOK
  <2>3. cur = i => outbox[i].status = "pending"
      BY DEF Mark, InHand, BatchIsDue
  <2>4. CASE i # cur
    <3>1. outbox'[i] = outbox[i] /\ unsure'[i] = unsure[i]
        BY <2>2, <2>4, MarkEffect
    <3> QED BY <2>1, <2>4, <3>1
  <2>5. CASE i = cur
    <3>1. delivered[i] <= unsure[i] + (IF ok THEN 1 ELSE 0)
        BY <2>1, <2>3, <2>5
    <3>2. \/ unsure'[i] = unsure[i] + (IF ok THEN 1 ELSE 0)
          \/ ok /\ outbox'[i].status = "sent" /\ unsure'[i] = unsure[i]
          \/ ~ok /\ unsure'[i] = unsure[i]
        BY <2>2, <2>5, MarkEffect
    <3>3. unsure'[i] \in Nat
        BY <1>2
    <3> QED BY <2>2, <3>1, <3>2, <3>3
  <2> QED BY <2>4, <2>5
<1> QED BY <1>4, <1>5, <1>6, <1>7, <1>8

-----------------------------------------------------------------------------
(* The environment and the process.                                        *)

LEMMA BackoffEndsInv == ASSUME IInv, NEW id \in Ids, BackoffEnds(id) PROVE IInv'
<1> USE DEF IInv
<1>1. TypeOK'
    BY DEF BackoffEnds, TypeOK, queueVars, dispatchVars, workerVars, history, bounds
<1>2. Nonempty'
    BY DEF BackoffEnds, Nonempty, dispatchVars
<1>3. BatchIsDue' /\ InHand' /\ DuplicateOnlyAfterFailure'
    BY WorkerUndisturbed DEF BackoffEnds, TypeOK, Row
<1> QED BY <1>1, <1>2, <1>3

LEMMA TargetsChangeInv == ASSUME IInv, NEW u \in Users, TargetsChange(u) PROVE IInv'
<1> USE DEF IInv
<1>1. TypeOK'
    BY DEF TargetsChange, TypeOK, queueVars, dispatchVars, workerVars, history
<1>2. Nonempty'
    BY DEF TargetsChange, Nonempty, dispatchVars
<1>3. BatchIsDue' /\ InHand' /\ DuplicateOnlyAfterFailure'
    BY WorkerUndisturbed DEF TargetsChange, TypeOK, Row
<1> QED BY <1>1, <1>2, <1>3

LEMMA CrashInv == ASSUME IInv, Crash PROVE IInv'
<1> USE DEF IInv
<1>1. /\ observerCh' \in Seq(Events) /\ events' \in Seq(Events)
      /\ intent' \in Seq(Events)
      /\ Len(observerCh') <= QueueSize /\ Len(events') <= QueueSize
    BY NotifyAssumption DEF Crash
<1>2. buckets' \in [Buckets -> Seq(Events)]
    BY DEF Crash
<1>3. ok' \in BOOLEAN
    BY DEF Crash
<1>4. unsure' \in [Ids -> Nat]
    BY UnrecordedType DEF Crash
<1>5. TypeOK'
    BY <1>1, <1>2, <1>3, <1>4 DEF Crash, TypeOK
<1>6. Nonempty'
    BY DEF Crash, Nonempty
<1>7. BatchIsDue' /\ InHand'
    BY DEF Crash, BatchIsDue, InHand
<1>8. DuplicateOnlyAfterFailure'
  <2> SUFFICES ASSUME NEW i \in Ids
               PROVE  delivered[i] <= Unrecorded[i] +
                        (IF outbox[i].status = "sent" THEN 1 ELSE 0)
      BY DEF Crash, DuplicateOnlyAfterFailure
  <2>1. delivered[i] <= unsure[i] +
          (IF outbox[i].status = "sent" \/ (cur = i /\ ok) THEN 1 ELSE 0)
      BY DEF DuplicateOnlyAfterFailure
  <2>2. /\ delivered[i] \in Nat /\ unsure[i] \in Nat
        /\ Unrecorded[i] = unsure[i] + (IF cur = i /\ ok THEN 1 ELSE 0)
      BY UnrecordedType DEF TypeOK
  <2> QED BY <2>1, <2>2
<1> QED BY <1>5, <1>6, <1>7, <1>8

LEMMA StutterInv == ASSUME IInv, UNCHANGED vars PROVE IInv'
<1> USE DEF IInv, vars, queueVars, dispatchVars, workerVars, history, bounds
<1>1. TypeOK'
    BY DEF TypeOK
<1>2. Nonempty'
    BY DEF Nonempty
<1>3. BatchIsDue' /\ InHand' /\ DuplicateOnlyAfterFailure'
    BY DEF BatchIsDue, InHand, DuplicateOnlyAfterFailure
<1> QED BY <1>1, <1>2, <1>3

LEMMA NextInv == IInv /\ [Next]_vars => IInv'
<1> SUFFICES ASSUME IInv, [Next]_vars PROVE IInv'
    OBVIOUS
<1>1. CASE WatcherStep
    BY <1>1, EmitInv, RunObserverInv DEF WatcherStep
<1>2. CASE DispatcherStep
    BY <1>2, HandleEventInv, FlushTickInv, TakeIntentInv, DispatchToInv
       DEF DispatcherStep
<1>3. CASE WorkerStep
    BY <1>3, ListPendingInv, SendInv, MarkInv DEF WorkerStep
<1>4. CASE \E b \in Buckets : WindowEnds(b)
    BY <1>4, WindowEndsInv
<1>5. CASE \E id \in Ids : BackoffEnds(id)
    BY <1>5, BackoffEndsInv
<1>6. CASE \E u \in Users : TargetsChange(u)
    BY <1>6, TargetsChangeInv
<1>7. CASE Crash
    BY <1>7, CrashInv
<1>8. CASE UNCHANGED vars
    BY <1>8, StutterInv
<1> QED BY <1>1, <1>2, <1>3, <1>4, <1>5, <1>6, <1>7, <1>8 DEF Next

\* The inductive invariant of the pipeline.
THEOREM Invariant == Spec => []IInv
<1> QED BY InitInv, NextInv, PTL DEF Spec

\* Every variable of the pipeline keeps its type.
THEOREM TypeCorrect == Spec => []TypeOK
<1>1. IInv => TypeOK
    BY DEF IInv
<1> QED BY <1>1, Invariant, PTL

\* Telegram takes the message of a row twice only after a failure that was
\* not recorded (worker.go RunOnce).
THEOREM DuplicatesAreExplained == Spec => []DuplicateOnlyAfterFailure
<1>1. IInv => DuplicateOnlyAfterFailure
    BY DEF IInv
<1> QED BY <1>1, Invariant, PTL

-----------------------------------------------------------------------------
(* The refinement.                                                         *)

LEMMA InitRefines == Init => Abstract!Init
BY DEF Init, Abstract!Init, NoRow

\* A dispatch queues a message, or finds its key taken.
LEMMA DispatchRefines ==
  ASSUME IInv, NEW u \in Users, DispatchTo(u)
  PROVE  (\E id \in Ids : Abstract!Queue(id)) \/ UNCHANGED <<outbox, delivered>>
<1> USE DEF IInv
<1> DEFINE id == <<u, KeyOf[Head(intent)]>>
<1>1. intent \in Seq(Events) /\ intent # <<>> /\ UNCHANGED delivered
    BY DEF DispatchTo, TypeOK, Nonempty, history
<1>2. Head(intent) \in Events
    BY <1>1
<1>3. id \in Ids
    BY <1>2, NotifyAssumption DEF Ids
<1>4. CASE UNCHANGED outbox
    BY <1>1, <1>4
<1>5. CASE outbox[id].status = "absent" /\ InsertOutbox(id, intent)
  <2> HIDE DEF id
  <2> DEFINE new == [status |-> "pending", attempts |-> 0, body |-> intent]
  <2>1. outbox' = [outbox EXCEPT ![id] = new]
      BY <1>5 DEF InsertOutbox
  <2>2. outbox'[id] = new
      BY <1>3, <2>1 DEF TypeOK
  <2>3. outbox'[id].body = intent
      BY <2>2
  <2>4. outbox' = [outbox EXCEPT ![id] = [status |-> "pending", attempts |-> 0,
                                         body |-> outbox'[id].body]]
      BY <2>1, <2>3
  <2>5. Abstract!Queue(id)
      BY <1>1, <1>5, <2>3, <2>4 DEF Abstract!Queue
  <2> QED BY <1>3, <2>5
<1> QED BY <1>4, <1>5 DEF DispatchTo, InsertOutbox

\* A send delivers, or fails without a trace.
LEMMA SendRefines ==
  ASSUME IInv, NEW id \in Ids, Send(id)
  PROVE  Abstract!Deliver(id) \/ UNCHANGED <<outbox, delivered>>
<1>1. Abstract!Pending(id)
    BY DEF IInv, Send, BatchIsDue, Abstract!Pending
<1> QED BY <1>1 DEF Send, Abstract!Deliver, history

\* A mark settles the row in hand, gives it back, or is lost.
LEMMA MarkRefines ==
  ASSUME IInv, Mark
  PROVE  \/ \E id \in Ids : Abstract!Settle(id) \/ Abstract!GiveBack(id)
         \/ UNCHANGED <<outbox, delivered>>
<1>1. cur \in Ids /\ Abstract!Pending(cur) /\ (ok => delivered[cur] > 0)
    BY DEF IInv, TypeOK, Mark, InHand, BatchIsDue, Abstract!Pending
<1>2. UNCHANGED delivered
    BY DEF Mark
<1>3. CASE ok /\ outbox' = [outbox EXCEPT ![cur].status = "sent"]
    BY <1>1, <1>2, <1>3 DEF Abstract!Settle
<1>4. CASE ~ok /\ outbox' = [outbox EXCEPT ![cur].attempts = @ + 1]
    BY <1>1, <1>2, <1>4 DEF Abstract!GiveBack
<1>5. CASE UNCHANGED outbox
    BY <1>2, <1>5
<1> QED BY <1>3, <1>4, <1>5 DEF Mark

LEMMA StepRefines == IInv /\ [Next]_vars => [Abstract!Next]_<<outbox, delivered>>
<1> SUFFICES ASSUME IInv, [Next]_vars
             PROVE  Abstract!Next \/ UNCHANGED <<outbox, delivered>>
    OBVIOUS
<1>1. CASE \E u \in Users : DispatchTo(u)
    BY <1>1, DispatchRefines DEF Abstract!Next
<1>2. CASE \E id \in Ids : Send(id)
    BY <1>2, SendRefines DEF Abstract!Next
<1>3. CASE Mark
    BY <1>3, MarkRefines DEF Abstract!Next
<1>4. CASE WatcherStep
    BY <1>4 DEF WatcherStep, Emit, RunObserver, history
<1>5. CASE HandleEvent \/ FlushTick \/ TakeIntent
    BY <1>5 DEF HandleEvent, FlushTick, TakeIntent, history
<1>6. CASE ListPending
    BY <1>6 DEF ListPending, history
<1>7. CASE \E b \in Buckets : WindowEnds(b)
    BY <1>7 DEF WindowEnds, history
<1>8. CASE \E id \in Ids : BackoffEnds(id)
    BY <1>8 DEF BackoffEnds, history
<1>9. CASE (\E u \in Users : TargetsChange(u)) \/ Crash \/ UNCHANGED vars
    BY <1>9 DEF TargetsChange, Crash, vars, history
<1> QED BY <1>1, <1>2, <1>3, <1>4, <1>5, <1>6, <1>7, <1>8, <1>9
        DEF Next, DispatcherStep, WorkerStep

\* The pipeline implements the abstract outbox: messages are queued once,
\* keep their text, and sent or exhausted ones are final.
THEOREM PipelineImplementsOutbox == Spec => OutboxSpec
<1> QED BY InitRefines, StepRefines, Invariant, PTL
        DEF Spec, OutboxSpec, Abstract!Spec, Abstract!outboxVars
=============================================================================

--------------------------- MODULE NotifyPipeline ---------------------------
(***************************************************************************)
(* Telegram notifications (src/internal/notify): the events a watcher      *)
(* emits pass two bounded queues to the dispatcher, which collects those   *)
(* of one (wallet, coin, direction) for a window, and writes one outbox    *)
(* row per user whose group holds the wallet.  A worker sends the rows.    *)
(*                                                                         *)
(* Four goroutines: the watcher's caller and its observer loop, the        *)
(* dispatcher, the worker.  The queues, the buckets and what the two       *)
(* loops have in hand are memory and die with the process; the outbox and  *)
(* the bindings are in the database.  Any database call may fail and any   *)
(* send may fail, also after Telegram took the message.  An event may be   *)
(* emitted again: a userFills snapshot repeats fills and is not told from  *)
(* news (src/internal/hyperliquid/userstream.go, dispatch).                *)
(*                                                                         *)
(* Events are those MapWalletEvent makes an intent of.  Of a message its   *)
(* list of events is kept, which its sums are computed from.  A worker     *)
(* without a sender would mark every due row sent; app.go starts none.     *)
(***************************************************************************)
EXTENDS Integers, Sequences, FiniteSets, SequencesExt

CONSTANTS
  Events, Users, Buckets, Keys,
  BucketOf,      \* coalesceKeyOf: the bucket of an event
  KeyOf,         \* Intent.DedupKey: the oid or the tid of an event
  None,
  QueueSize,     \* capacity of both queues (1024 in the code)
  MaxAttempts,   \* attempts of a row (5 in ListPendingOutbox)
  MaxEmits, MaxFailures, MaxCrashes, MaxChanges  \* bounds of the model

Ids == Users \X Keys    \* perUserDedupKey, the unique index of the outbox

ASSUME NotifyAssumption ==
  /\ BucketOf \in [Events -> Buckets]
  /\ KeyOf \in [Events -> Keys]
  /\ None \notin Ids
  /\ QueueSize \in Nat /\ MaxAttempts \in Nat \ {0}
  /\ MaxEmits \in Nat /\ MaxFailures \in Nat
  /\ MaxCrashes \in Nat /\ MaxChanges \in Nat

VARIABLES
  observerCh,    \* WatcherManager.observerCh
  events,        \* Dispatcher.events
  buckets,       \* Coalescer.buckets; <<>>: no such bucket
  expired,       \* buckets whose window is over
  flushed,       \* intents of the last FlushExpired, still to be dispatched
  intent, todo,  \* the intent being dispatched and its remaining targets
  targets,       \* users with an active binding and an enabled group
  outbox,        \* telegram_outbox
  waiting,       \* rows whose next_attempt_at is in the future
  batch,         \* rows RunOnce has read and not yet handled
  cur, ok,       \* the row RunOnce has sent, and whether Telegram said so
  delivered,     \* history: how often Telegram took the message of a row
  unsure,        \* history: how often that was not recorded
  emits, failures, crashes, changes

queueVars == <<observerCh, events>>
dispatchVars == <<buckets, expired, flushed, intent, todo>>
workerVars == <<batch, cur, ok>>
history == <<delivered, unsure>>
bounds == <<emits, failures, crashes, changes>>
vars == <<queueVars, dispatchVars, targets, outbox, waiting, workerVars,
          history, bounds>>

Row == [status: {"absent", "pending", "sent"}, attempts: 0..MaxAttempts,
        body: Seq(Events)]
NoRow == [status |-> "absent", attempts |-> 0, body |-> <<>>]

TypeOK ==
  /\ observerCh \in Seq(Events) /\ Len(observerCh) <= QueueSize
  /\ events \in Seq(Events) /\ Len(events) <= QueueSize
  /\ buckets \in [Buckets -> Seq(Events)]
  /\ expired \in SUBSET Buckets
  /\ flushed \in SUBSET Seq(Events)
  /\ intent \in Seq(Events) /\ todo \in SUBSET Users
  /\ targets \in SUBSET Users
  /\ outbox \in [Ids -> Row]
  /\ waiting \in SUBSET Ids /\ batch \in SUBSET Ids
  /\ cur \in Ids \cup {None} /\ ok \in BOOLEAN
  /\ delivered \in [Ids -> Nat] /\ unsure \in [Ids -> Nat]
  /\ emits \in Nat /\ failures \in Nat /\ crashes \in Nat /\ changes \in Nat

Init ==
  /\ observerCh = <<>> /\ events = <<>>
  /\ buckets = [b \in Buckets |-> <<>>] /\ expired = {}
  /\ flushed = {} /\ intent = <<>> /\ todo = {}
  /\ targets \in SUBSET Users
  /\ outbox = [id \in Ids |-> NoRow] /\ waiting = {}
  /\ batch = {} /\ cur = None /\ ok = FALSE
  /\ delivered = [id \in Ids |-> 0] /\ unsure = [id \in Ids |-> 0]
  /\ emits = 0 /\ failures = 0 /\ crashes = 0 /\ changes = 0

-----------------------------------------------------------------------------
(* From the watcher to the dispatcher: a full queue drops the event.       *)

\* Mutant of Offer: one event too many.
OfferOneMore(queue, e) ==
  IF Len(queue) <= QueueSize THEN Append(queue, e) ELSE queue

Offer(queue, e) == IF Len(queue) < QueueSize THEN Append(queue, e) ELSE queue

Emit(e) ==
  /\ emits < MaxEmits
  /\ observerCh' = Offer(observerCh, e)
  /\ emits' = emits + 1
  /\ UNCHANGED <<events, dispatchVars, targets, outbox, waiting, workerVars,
                 history, failures, crashes, changes>>

RunObserver ==
  /\ observerCh # <<>>
  /\ events' = Offer(events, Head(observerCh))
  /\ observerCh' = Tail(observerCh)
  /\ UNCHANGED <<dispatchVars, targets, outbox, waiting, workerVars, history,
                 bounds>>

-----------------------------------------------------------------------------
(* The dispatcher.                                                         *)

DispatcherIdle == flushed = {} /\ intent = <<>>

\* Coalescer.Add: a bucket whose window is over makes way for a new one.
Add(e) ==
  LET b == BucketOf[e] IN
  [buckets EXCEPT ![b] = IF b \in expired THEN <<e>> ELSE Append(@, e)]

FlushExpired(bs, over) ==
  /\ flushed' = {bs[b] : b \in over}
  /\ buckets' = [b \in Buckets |-> IF b \in over THEN <<>> ELSE bs[b]]
  /\ expired' = {}

HandleEvent ==
  /\ DispatcherIdle /\ events # <<>>
  /\ LET e == Head(events) IN FlushExpired(Add(e), expired \ {BucketOf[e]})
  /\ events' = Tail(events)
  /\ UNCHANGED <<observerCh, intent, todo, targets, outbox, waiting,
                 workerVars, history, bounds>>

FlushTick ==
  /\ DispatcherIdle /\ expired # {}
  /\ FlushExpired(buckets, expired)
  /\ UNCHANGED <<queueVars, intent, todo, targets, outbox, waiting, workerVars,
                 history, bounds>>

WindowEnds(b) ==
  /\ buckets[b] # <<>> /\ b \notin expired
  /\ expired' = expired \cup {b}
  /\ UNCHANGED <<queueVars, buckets, flushed, intent, todo, targets, outbox,
                 waiting, workerVars, history, bounds>>

DbAnswers == UNCHANGED failures
DbFails == failures < MaxFailures /\ failures' = failures + 1

\* dispatchCoalesced; an error of TargetsForWallet ends it.
TakeIntent ==
  /\ intent = <<>>
  /\ \E x \in flushed :
       /\ flushed' = flushed \ {x}
       /\ \/ /\ DbAnswers
             /\ todo' = targets
             /\ intent' = IF targets = {} THEN <<>> ELSE x
          \/ DbFails /\ UNCHANGED <<intent, todo>>
  /\ UNCHANGED <<queueVars, buckets, expired, targets, outbox, waiting,
                 workerVars, history, emits, crashes, changes>>

\* Mutant of InsertOutbox: a conflict updates the row.
InsertOverwriting(id, body) ==
  outbox' = [outbox EXCEPT ![id] = [status |-> "pending", attempts |-> 0,
                                    body |-> body]]

\* HasDedupKey and ON CONFLICT DO NOTHING: the key's first row stays.
InsertOutbox(id, body) ==
  outbox' = IF outbox[id].status # "absent" THEN outbox
            ELSE [outbox EXCEPT ![id] = [status |-> "pending", attempts |-> 0,
                                         body |-> body]]

\* Dispatch: the key of a coalesced intent is that of its first event.
DispatchTo(u) ==
  /\ u \in todo
  /\ \/ DbAnswers /\ InsertOutbox(<<u, KeyOf[Head(intent)]>>, intent)
     \/ DbFails /\ UNCHANGED outbox
  /\ todo' = todo \ {u}
  /\ intent' = IF todo' = {} THEN <<>> ELSE intent
  /\ UNCHANGED <<queueVars, buckets, expired, flushed, targets, waiting,
                 workerVars, history, emits, crashes, changes>>

-----------------------------------------------------------------------------
(* The worker.                                                             *)

\* Mutants of Due: rows that were sent, and one attempt less.
DueAlsoSent(id) ==
  /\ outbox[id].status # "absent" /\ id \notin waiting
  /\ outbox[id].attempts < MaxAttempts
DueOnceLess(id) ==
  /\ outbox[id].status = "pending" /\ id \notin waiting
  /\ outbox[id].attempts + 1 < MaxAttempts

Due(id) ==
  /\ outbox[id].status = "pending" /\ id \notin waiting
  /\ outbox[id].attempts < MaxAttempts

ListPending ==
  /\ batch = {} /\ cur = None
  /\ batch' = {id \in Ids : Due(id)} /\ batch' # {}
  /\ UNCHANGED <<queueVars, dispatchVars, targets, outbox, waiting, cur, ok,
                 history, bounds>>

\* SendMessage: accepted; or an error, which may come after the message did.
Send(id) ==
  /\ cur = None /\ id \in batch
  /\ cur' = id
  /\ \/ /\ ok' = TRUE /\ DbAnswers
        /\ delivered' = [delivered EXCEPT ![id] = @ + 1]
        /\ UNCHANGED unsure
     \/ ok' = FALSE /\ DbFails /\ UNCHANGED history
     \/ /\ ok' = FALSE /\ DbFails
        /\ delivered' = [delivered EXCEPT ![id] = @ + 1]
        /\ unsure' = [unsure EXCEPT ![id] = @ + 1]
  /\ UNCHANGED <<queueVars, dispatchVars, targets, outbox, waiting, batch,
                 emits, crashes, changes>>

Unrecorded == IF ok THEN [unsure EXCEPT ![cur] = @ + 1] ELSE unsure

\* MarkSent or MarkAttempt, whose errors are ignored.
Mark ==
  /\ cur # None
  /\ \/ /\ DbAnswers /\ UNCHANGED unsure
        /\ outbox' = IF ok THEN [outbox EXCEPT ![cur].status = "sent"]
                     ELSE [outbox EXCEPT ![cur].attempts = @ + 1]
        /\ waiting' = IF ok THEN waiting ELSE waiting \cup {cur}
     \/ DbFails /\ unsure' = Unrecorded /\ UNCHANGED <<outbox, waiting>>
  /\ batch' = batch \ {cur} /\ cur' = None /\ ok' = FALSE
  /\ UNCHANGED <<queueVars, dispatchVars, targets, delivered, emits, crashes,
                 changes>>

BackoffEnds(id) ==
  /\ id \in waiting
  /\ waiting' = waiting \ {id}
  /\ UNCHANGED <<queueVars, dispatchVars, targets, outbox, workerVars, history,
                 bounds>>

-----------------------------------------------------------------------------
(* Bindings and the process.                                               *)

\* handleStop and handleStart of the bot, a group enabled or disabled.
TargetsChange(u) ==
  /\ changes < MaxChanges /\ changes' = changes + 1
  /\ targets' = IF u \in targets THEN targets \ {u} ELSE targets \cup {u}
  /\ UNCHANGED <<queueVars, dispatchVars, outbox, waiting, workerVars, history,
                 emits, failures, crashes>>

\* The process ends: the Flush of Start uses a context that is done, so it
\* finds no targets.
Crash ==
  /\ crashes < MaxCrashes /\ crashes' = crashes + 1
  /\ observerCh' = <<>> /\ events' = <<>>
  /\ buckets' = [b \in Buckets |-> <<>>] /\ expired' = {}
  /\ flushed' = {} /\ intent' = <<>> /\ todo' = {}
  /\ batch' = {} /\ cur' = None /\ ok' = FALSE
  /\ unsure' = Unrecorded
  /\ UNCHANGED <<targets, outbox, waiting, delivered, emits, failures, changes>>

WatcherStep == (\E e \in Events : Emit(e)) \/ RunObserver

DispatcherStep ==
  \/ HandleEvent \/ FlushTick \/ TakeIntent \/ \E u \in Users : DispatchTo(u)

WorkerStep == ListPending \/ (\E id \in Ids : Send(id)) \/ Mark

Next ==
  \/ WatcherStep \/ DispatcherStep \/ WorkerStep
  \/ \E b \in Buckets : WindowEnds(b)
  \/ \E id \in Ids : BackoffEnds(id)
  \/ \E u \in Users : TargetsChange(u)
  \/ Crash

Spec == Init /\ [][Next]_vars

\* The worker's ticker fires, a send and a query end within their timeouts,
\* and next_attempt_at passes.
Fairness ==
  /\ WF_vars(WorkerStep)
  /\ \A id \in Ids : WF_vars(BackoffEnds(id))

FairSpec == Spec /\ Fairness

-----------------------------------------------------------------------------
(* Properties.                                                             *)

\* Telegram gets the message of a row a second time only if taking it before
\* was not recorded: the send timed out, MarkSent failed, or the process died
\* between the two (worker.go RunOnce).
DuplicateOnlyAfterFailure ==
  \A id \in Ids :
    delivered[id] <= unsure[id] +
      (IF outbox[id].status = "sent" \/ (cur = id /\ ok) THEN 1 ELSE 0)

\* Every row is sent or runs out of attempts (worker.go RunOnce,
\* repository.go ListPendingOutbox).
RowsSettle ==
  \A id \in Ids :
    outbox[id].status = "pending"
      ~> outbox[id].status = "sent" \/ outbox[id].attempts = MaxAttempts

\* Coalescer "collapses Intents ... within a window" (coalescer.go:17), three
\* fills in three seconds to one intent (TESTPLAN TG-U-14): what a bucket has
\* collected stays in it until it is dispatched.
CollectedIsDispatched ==
  [][crashes' = crashes =>
       \A b \in Buckets : \/ IsPrefix(buckets[b], buckets'[b])
                          \/ buckets[b] \in flushed']_vars

Abstract == INSTANCE Outbox WITH Bodies <- Seq(Events), NoBody <- <<>>

\* The pipeline implements the abstract outbox.
OutboxSpec == Abstract!Spec
=============================================================================

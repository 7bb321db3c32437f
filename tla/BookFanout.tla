----------------------------- MODULE BookFanout -----------------------------
(***************************************************************************)
(* The order book service and the browsers that watch one of its books.    *)
(* A browser has a hub registration, a channel the service fills, a buffer *)
(* the socket is written from, and three goroutines: readPump, writePump   *)
(* and a forwarder from the channel to the buffer.  Channels drop what     *)
(* does not fit.  The book's content is the number of the change that made *)
(* it; what the engine does with the levels is module OrderBook.           *)
(***************************************************************************)
EXTENDS Api, Integers, Sequences

CONSTANTS
  Browsers,
  SubBuffer,    \* capacity of a subscriber's channel (100)
  SendBuffer,   \* capacity of client.send (256)
  MaxSequence   \* bound

VARIABLES
  book,         \* the engine's book: state, sequence, age; sequence 0: none yet
  feed,         \* the goroutine that feeds the service
  rows,         \* orderbook_snapshots and orderbook_deltas, by sequence
  hub,          \* hub.clients
  subscribers,  \* service.subscribers
  inbox,        \* a subscriber's channel
  send,         \* client.send
  closed,       \* client.send is closed
  client,       \* the browser's goroutines: see Gone
  seen,         \* the last sequence written to the socket
  due,          \* history: the last sequence a channel of the browser took; 0 once that is dropped
  down          \* a panic outside a request: the process is gone

bookVars == <<book, feed, rows>>
pipeVars == <<inbox, send, closed, seen, due>>
clientVars == <<hub, subscribers, client>>

NoBook == [state |-> "NONE", seq |-> 0, age |-> 0]
Gone == [request |-> "none", reader |-> "none", writer |-> "none", forwarder |-> "none",
         holds |-> 0, writes |-> 0, socket |-> TRUE, cancelled |-> FALSE]
Init ==
  /\ book = NoBook /\ feed = [pc |-> "idle", seq |-> 0] /\ rows = {}
  /\ hub = {} /\ subscribers = {}
  /\ inbox = [c \in Browsers |-> <<>>] /\ send = inbox /\ closed = {}
  /\ client = [c \in Browsers |-> Gone]
  /\ seen = [c \in Browsers |-> 0] /\ due = seen /\ down = FALSE

---------------------------------------------------------------------------
(* The service, called by one goroutine for a book.                        *)

\* A book is DISCONNECTED until its first snapshot; the call may make it.  A
\* snapshot ends that and RESYNCING, nothing else: a DESYNCED book stays it.
ApplySnapshot ==
  /\ feed.pc = "idle" /\ book.seq < MaxSequence
  /\ book' = [state |-> IF book.state = "DESYNCED" THEN "DESYNCED" ELSE "HEALTHY", seq |-> book.seq + 1, age |-> 0]
  /\ feed' = [pc |-> "store", seq |-> book.seq + 1]
  /\ UNCHANGED rows
\* An insert that fails ends the call: nobody is told.
CreateSnapshot ==
  /\ feed.pc = "store" /\ UNCHANGED book
  /\ \/ feed' = [feed EXCEPT !.pc = "notify"] /\ rows' = rows \cup {feed.seq}
     \/ feed' = [feed EXCEPT !.pc = "idle"] /\ UNCHANGED rows
\* A delta that fits is stored and not told; one behind a gap is neither.
ApplyDelta ==
  /\ feed.pc = "idle" /\ book.seq \in 1..(MaxSequence - 1)
  /\ book' = [state |-> IF book.state = "DESYNCED" THEN "HEALTHY" ELSE book.state, seq |-> book.seq + 1, age |-> 0]
  /\ feed' = [pc |-> "delta", seq |-> book.seq + 1]
  /\ UNCHANGED rows
SequenceMismatch ==
  /\ feed.pc = "idle" /\ book.seq > 0
  /\ book' = [book EXCEPT !.state = "DESYNCED"] /\ UNCHANGED <<feed, rows>>
CreateDelta ==
  /\ feed.pc = "delta" /\ feed' = [feed EXCEPT !.pc = "idle"] /\ UNCHANGED book
  /\ rows' = rows \/ rows' = rows \cup {feed.seq}
Fits(c) == Len(inbox[c]) < SubBuffer
\* All subscribers under one lock; a full channel is passed over.
NotifySubscribers ==
  /\ feed.pc = "notify" /\ feed' = [feed EXCEPT !.pc = "idle"]
  /\ inbox' = [c \in Browsers |-> IF c \in subscribers /\ Fits(c) THEN Append(inbox[c], feed.seq) ELSE inbox[c]]
  /\ due' = [c \in Browsers |-> IF c \in subscribers /\ Fits(c) THEN feed.seq ELSE due[c]]
  /\ UNCHANGED <<book, rows, send, closed, seen>>
\* Five and ten seconds: the stale and the sync threshold.
Ages == book.seq > 0 /\ book.age < 2 /\ book' = [book EXCEPT !.age = @ + 1] /\ UNCHANGED <<feed, rows>>
RequestResync == book.seq > 0 /\ book' = [book EXCEPT !.state = "RESYNCING"] /\ UNCHANGED <<feed, rows>>
\* The answers of the other routes, in this state.
GetHealth == IF book.state \notin {"DISCONNECTED", "RESYNCING"} /\ book.age > 0 THEN "STALE" ELSE book.state
IsTradable == book.state = "HEALTHY" /\ book.age < 2
GetDepth(depth) ==
  IF book.seq = 0 THEN RespondError("NOT_FOUND")
  ELSE IF depth \notin 1..20 THEN RespondValidationError ELSE RespondSuccess

---------------------------------------------------------------------------
(* One browser.                                                            *)

\* sendSnapshot: on a closed channel it panics, whichever goroutine it is in.
SendSnapshot(c, seq) ==
  IF c \in closed THEN down' = TRUE /\ UNCHANGED <<send, due>>
  ELSE /\ UNCHANGED down
       /\ IF Len(send[c]) < SendBuffer
          THEN send' = [send EXCEPT ![c] = Append(@, seq)] /\ due' = [due EXCEPT ![c] = IF @ < seq THEN seq ELSE @]
          ELSE due' = [due EXCEPT ![c] = IF @ = seq THEN 0 ELSE @] /\ UNCHANGED send
\* The hub is free whenever one of its channels is offered something.
Register(c) ==
  /\ client[c].request = "none"
  /\ client' = [client EXCEPT ![c].request = "read"] /\ hub' = hub \cup {c}
  /\ UNCHANGED <<subscribers, pipeVars, down>>
SendCurrent(c) ==
  /\ client[c].request = "read" /\ client' = [client EXCEPT ![c].request = "subscribe"]
  /\ IF book.seq = 0 THEN UNCHANGED <<send, due, down>> ELSE SendSnapshot(c, book.seq)
  /\ UNCHANGED <<hub, subscribers, inbox, closed, seen>>
\* What is published between the two steps is not seen.
Subscribe(c) ==
  /\ client[c].request = "subscribe" /\ subscribers' = subscribers \cup {c}
  /\ client' = [client EXCEPT ![c].request = "done", ![c].reader = "read", ![c].writer = "wait", ![c].forwarder = "wait"]
  /\ UNCHANGED <<hub, pipeVars, down>>

\* The forwarder: a select takes either branch that is ready.
Receive(c) ==
  /\ client[c].forwarder = "wait" /\ inbox[c] # <<>>
  /\ client' = [client EXCEPT ![c].forwarder = "send", ![c].holds = Head(inbox[c])]
  /\ inbox' = [inbox EXCEPT ![c] = Tail(@)]
  /\ UNCHANGED <<hub, subscribers, send, closed, seen, due, down>>
Forward(c) ==
  /\ client[c].forwarder = "send" /\ client' = [client EXCEPT ![c].forwarder = "wait", ![c].holds = 0]
  /\ SendSnapshot(c, client[c].holds)
  /\ UNCHANGED <<hub, subscribers, inbox, closed, seen>>
Cancelled(c) ==
  /\ client[c].forwarder = "wait" /\ client[c].cancelled
  /\ client' = [client EXCEPT ![c].forwarder = "unsubscribe"]
  /\ UNCHANGED <<hub, subscribers, pipeVars, down>>
UnsubscribeNot(c) == \* a mutant
  /\ client[c].forwarder = "unsubscribe" /\ client' = [client EXCEPT ![c].forwarder = "unregister"]
  /\ UNCHANGED <<hub, subscribers, pipeVars, down>>
Unsubscribe(c) ==
  /\ client[c].forwarder = "unsubscribe" /\ client' = [client EXCEPT ![c].forwarder = "unregister"]
  /\ subscribers' = subscribers \ {c}
  /\ UNCHANGED <<hub, pipeVars, down>>
\* Whoever comes first closes client.send.
Unregister(c) == hub' = hub \ {c} /\ closed' = IF c \in hub THEN closed \cup {c} ELSE closed
ForwarderEnds(c) ==
  /\ client[c].forwarder = "unregister" /\ client' = [client EXCEPT ![c].forwarder = "done"]
  /\ Unregister(c)
  /\ UNCHANGED <<subscribers, inbox, send, seen, due, down>>

\* readPump: the peer left, its pongs stopped, or this side closed the socket.
\* It ends by leaving the hub, closing the socket and cancelling, in this order.
Reader(c, from, to) == client[c].reader = from /\ client' = [client EXCEPT ![c].reader = to]
\* Text "ping": the pong is written beside writePump, and gorilla panics when
\* it notices two writers.
Pong(c) ==
  /\ client[c].reader = "read" /\ client[c].socket
  /\ down' \in {FALSE, client[c].writer = "write"}
  /\ UNCHANGED <<clientVars, pipeVars>>
ReadFails(c) == Reader(c, "read", "leave") /\ UNCHANGED <<hub, subscribers, pipeVars, down>>
LeaveHub(c) == Reader(c, "leave", "close") /\ Unregister(c) /\ UNCHANGED <<subscribers, inbox, send, seen, due, down>>
CloseSocket(c) ==
  /\ client[c].reader = "close" /\ client' = [client EXCEPT ![c].reader = "cancel", ![c].socket = FALSE]
  /\ UNCHANGED <<hub, subscribers, pipeVars, down>>
Cancel(c) ==
  /\ client[c].reader = "cancel" /\ client' = [client EXCEPT ![c].reader = "done", ![c].cancelled = TRUE]
  /\ UNCHANGED <<hub, subscribers, pipeVars, down>>

\* writePump: a closed channel still gives what it holds.
Take(c) ==
  /\ client[c].writer = "wait" /\ send[c] # <<>>
  /\ client' = [client EXCEPT ![c].writer = "write", ![c].writes = Head(send[c])]
  /\ send' = [send EXCEPT ![c] = Tail(@)]
  /\ UNCHANGED <<hub, subscribers, inbox, closed, seen, due, down>>
Write(c) ==
  /\ client[c].writer = "write"
  /\ \/ /\ client[c].socket /\ seen' = [seen EXCEPT ![c] = client[c].writes]
        /\ client' = [client EXCEPT ![c].writer = "wait", ![c].writes = 0]
     \/ client' = [client EXCEPT ![c].writer = "done", ![c].writes = 0, ![c].socket = FALSE] /\ UNCHANGED seen
  /\ UNCHANGED <<hub, subscribers, inbox, send, closed, due, down>>
\* A closed and drained channel, or a ping that fails.
WriterEnds(c) ==
  /\ client[c].writer = "wait" /\ (send[c] = <<>> \/ c \notin closed)
  /\ client' = [client EXCEPT ![c].writer = "done", ![c].socket = FALSE]
  /\ UNCHANGED <<hub, subscribers, pipeVars, down>>

Request(c) == Register(c) \/ SendCurrent(c) \/ Subscribe(c)
Forwarder(c) == Receive(c) \/ Forward(c) \/ Cancelled(c) \/ Unsubscribe(c) \/ ForwarderEnds(c)
ReadPump(c) == Pong(c) \/ ReadFails(c) \/ LeaveHub(c) \/ CloseSocket(c) \/ Cancel(c)
WritePump(c) == Take(c) \/ Write(c) \/ WriterEnds(c)
FanoutNext ==
  /\ ~down
  /\ \/ (ApplySnapshot \/ CreateSnapshot \/ ApplyDelta \/ SequenceMismatch \/ CreateDelta \/ Ages \/ RequestResync)
        /\ UNCHANGED <<clientVars, pipeVars, down>>
     \/ NotifySubscribers /\ UNCHANGED <<clientVars, down>>
     \/ UNCHANGED bookVars /\ \E c \in Browsers : Request(c) \/ Forwarder(c) \/ ReadPump(c) \/ WritePump(c)
Spec == Init /\ [][FanoutNext]_<<bookVars, pipeVars, clientVars, down>>

---------------------------------------------------------------------------
Some(n) == IF n = 0 THEN <<>> ELSE <<n>>
\* Everything on its way to the browser, oldest first.
Pipe(c) == Some(seen[c]) \o Some(client[c].writes) \o send[c] \o Some(client[c].holds) \o inbox[c]
Done(c) == client[c].reader = "done" /\ client[c].forwarder = "done"
\* A browser never sees the book go back, the newest thing given to it is on its
\* way or has arrived while its socket is served, and when its goroutines have
\* ended neither the hub nor the service knows it.
BrowsersFollow == \A c \in Browsers : LET p == Pipe(c) IN
  /\ \A i, j \in DOMAIN p : i <= j => p[i] <= p[j]
  /\ (client[c].socket /\ ~down /\ due[c] # 0) => p # <<>> /\ p[Len(p)] >= due[c]
  /\ Done(c) => c \notin hub \cup subscribers
\* A snapshot is told only after it is stored; a tradable book has an answer, and
\* is not one a snapshot is awaited for.
ToldIsStored ==
  /\ \A c \in Browsers : \A i \in DOMAIN inbox[c] : inbox[c][i] \in rows
  /\ IsTradable => GetDepth(10) = RespondSuccess /\ GetHealth \in {"HEALTHY", "STALE"}
FanoutHolds == BrowsersFollow /\ ToldIsStored
=============================================================================

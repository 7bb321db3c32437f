------------------------------ MODULE Watcher ------------------------------
(***************************************************************************)
(* The wallet watchers (src/internal/trader/watcher.go): one WalletWatcher *)
(* per watched address, counted by the browser clients of the activity hub *)
(* (activity.go, activity_ws.go) and by the notification supervisor        *)
(* (src/internal/notify/supervisor.go).                                    *)
(*                                                                         *)
(* The counts and the map are written under m.mu.  Outside of it run the   *)
(* hub's own subscription, the bootstrap of a new watcher, which its first *)
(* subscriber executes unless the gate is full, and the Unsubscribe of the *)
(* upstream after a teardown.  A watcher that was torn down may still have *)
(* a goroutine in its REST resync.                                         *)
(*                                                                         *)
(* The upstream is what UserStream gives the manager: an address is        *)
(* streamed or not, and a connection that drops comes back by itself.      *)
(* WatcherManager.Reconnect is called by tests only and is left out, as    *)
(* are the fills and fundings of the snapshot.                             *)
(***************************************************************************)
EXTENDS Integers, FiniteSets, Functions

CONSTANTS
  Wallets, Clients, Oids,
  Watchers,         \* identities of WalletWatcher objects
  None,
  GateSize,         \* capacity of WatcherManager.gate (4 in app.go)
  UpstreamMayFail,  \* may upstream.Subscribe return an error?
  MaxDrops          \* bound on upstream connections that break

States == {"DISCONNECTED", "RECONNECT", "RESYNC", "RECONCILE", "LIVE"}

ASSUME WatcherAssumption ==
  /\ IsFiniteSet(Clients)
  /\ None \notin Watchers \cup States
  /\ GateSize \in Nat \ {0}
  /\ UpstreamMayFail \in BOOLEAN
  /\ MaxDrops \in Nat

VARIABLES
  watchers,    \* WatcherManager.watchers
  obj,         \* the WalletWatcher objects
  pc,          \* control point of an object's bootstrap
  snap,        \* what the REST resync of the bootstrap returned
  closing,     \* torn down, upstream.Unsubscribe still to be called
  cpc, cw,     \* control point and wallet of a browser client
  badge,       \* connection state a client was last told
  held,        \* Supervisor.retained
  toRetain, toRelease,  \* what a Reconcile has still to do
  supAt,       \* the watcher whose bootstrap or teardown Reconcile is in
  stream,      \* the upstream of a wallet
  drops,       \* number of breaks so far
  created      \* history: order.created events of an object

watchVars == <<watchers, obj, pc, snap, closing>>
clientVars == <<cpc, cw, badge>>
supVars == <<held, toRetain, toRelease, supAt>>
upVars == <<stream, drops>>
vars == <<watchVars, clientVars, supVars, upVars, created>>

WalletWatcher ==
  [addr: Wallets \cup {None}, browserRefs: Nat, retained: Nat,
   state: States, stopped: BOOLEAN, orders: SUBSET Oids]

\* An order.created event and the one before it for the same oid.
CreatedEvents == [oid: Oids, at: States, before: States \cup {None}]

TypeOK ==
  /\ watchers \in [Wallets -> Watchers \cup {None}]
  /\ obj \in [Watchers -> WalletWatcher]
  /\ pc \in [Watchers -> {"none", "begin", "upstream", "gate", "parked",
                          "fetch", "store", "live"}]
  /\ snap \in [Watchers -> SUBSET Oids]
  /\ closing \in SUBSET Watchers
  /\ cpc \in [Clients -> {"out", "hub", "boot", "in", "leaving"}]
  /\ cw \in [Clients -> Wallets \cup {None}]
  /\ badge \in [Clients -> States \cup {None}]
  /\ held \in SUBSET Wallets
  /\ toRetain \in SUBSET Wallets /\ toRelease \in SUBSET Wallets
  /\ supAt \in Watchers \cup {None}
  /\ stream \in [Wallets -> {"off", "on", "down"}]
  /\ drops \in Nat
  /\ created \in [Watchers -> SUBSET CreatedEvents]

Blank == [addr |-> None, browserRefs |-> 0, retained |-> 0,
          state |-> "DISCONNECTED", stopped |-> FALSE, orders |-> {}]

Init ==
  /\ watchers = [w \in Wallets |-> None]
  /\ obj = [i \in Watchers |-> Blank]
  /\ pc = [i \in Watchers |-> "none"]
  /\ snap = [i \in Watchers |-> {}]
  /\ closing = {}
  /\ cpc = [c \in Clients |-> "out"]
  /\ cw = [c \in Clients |-> None]
  /\ badge = [c \in Clients |-> None]
  /\ held = {} /\ toRetain = {} /\ toRelease = {} /\ supAt = None
  /\ stream = [w \in Wallets |-> "off"]
  /\ drops = 0
  /\ created = [i \in Watchers |-> {}]

\* An object nothing refers to is garbage; its identity may be used again.
Unused(i) == obj[i] = Blank

\* The hub's subscribers of a wallet (ActivityHub.subs).
HubSubs(w) == {c \in Clients : cw[c] = w /\ cpc[c] \in {"hub", "boot", "in"}}

\* setState: the state of i becomes st; emit tells the hub's subscribers.
EmitState(i, st) ==
  badge' = [c \in Clients |->
              IF c \in HubSubs(obj[i].addr) THEN st ELSE badge[c]]

SetState(i, st) ==
  /\ obj' = [obj EXCEPT ![i].state = st]
  /\ EmitState(i, st)

-----------------------------------------------------------------------------
(* Getting a watcher, under m.mu: Subscribe of a browser client ...        *)

NewWatcher(i, w) ==
  /\ Unused(i)
  /\ watchers' = [watchers EXCEPT ![w] = i]
  /\ pc' = [pc EXCEPT ![i] = "begin"]
  /\ created' = [created EXCEPT ![i] = {}]

\* WatcherManager.Subscribe registers the client with the hub first.
HubSubscribe(c, w) ==
  /\ cpc[c] = "out"
  /\ cpc' = [cpc EXCEPT ![c] = "hub"]
  /\ cw' = [cw EXCEPT ![c] = w]
  /\ UNCHANGED <<watchVars, badge, supVars, upVars, created>>

SubscribeShared(c) ==
  /\ cpc[c] = "hub" /\ watchers[cw[c]] # None
  /\ obj' = [obj EXCEPT ![watchers[cw[c]]].browserRefs = @ + 1]
  /\ cpc' = [cpc EXCEPT ![c] = "in"]
  /\ UNCHANGED <<watchers, pc, snap, closing, cw, badge, supVars, upVars,
                 created>>

SubscribeFirst(c) ==
  /\ cpc[c] = "hub" /\ watchers[cw[c]] = None
  /\ \E i \in Watchers :
       /\ NewWatcher(i, cw[c])
       /\ obj' = [obj EXCEPT ![i] = [Blank EXCEPT !.addr = cw[c],
                                                  !.browserRefs = 1]]
  /\ cpc' = [cpc EXCEPT ![c] = "boot"]
  /\ UNCHANGED <<snap, closing, cw, badge, supVars, upVars>>

\* ... and the Retain of the supervisor.
RetainShared(w) ==
  /\ supAt = None /\ w \in toRetain /\ watchers[w] # None
  /\ obj' = [obj EXCEPT ![watchers[w]].retained = @ + 1]
  /\ toRetain' = toRetain \ {w}
  /\ UNCHANGED <<watchers, pc, snap, closing, clientVars, held, toRelease,
                 supAt, upVars, created>>

RetainFirst(w) ==
  /\ supAt = None /\ w \in toRetain /\ watchers[w] = None
  /\ \E i \in Watchers :
       /\ NewWatcher(i, w)
       /\ obj' = [obj EXCEPT ![i] = [Blank EXCEPT !.addr = w,
                                                  !.retained = 1]]
       /\ supAt' = i
  /\ toRetain' = toRetain \ {w}
  /\ UNCHANGED <<snap, closing, clientVars, held, toRelease, upVars>>

-----------------------------------------------------------------------------
(* Leaving a watcher: the last one tears it down under m.mu and calls      *)
(* upstream.Unsubscribe afterwards.                                        *)

\* Mutant of Teardown: retained is not looked at.
TeardownIgnoringRetained(i, w, o) ==
  IF o.browserRefs = 0
  THEN /\ watchers' = [watchers EXCEPT ![w] = None]
       /\ obj' = [obj EXCEPT ![i] = [o EXCEPT !.stopped = TRUE]]
       /\ closing' = closing \cup {i}
  ELSE /\ obj' = [obj EXCEPT ![i] = o]
       /\ UNCHANGED <<watchers, closing>>

Teardown(i, w, o) ==
  IF o.browserRefs = 0 /\ o.retained = 0
  THEN /\ watchers' = [watchers EXCEPT ![w] = None]
       /\ obj' = [obj EXCEPT ![i] = [o EXCEPT !.stopped = TRUE]]
       /\ closing' = closing \cup {i}
  ELSE /\ obj' = [obj EXCEPT ![i] = o]
       /\ UNCHANGED <<watchers, closing>>

HubUnsubscribe(c) ==
  /\ cpc[c] = "in"
  /\ cpc' = [cpc EXCEPT ![c] = "leaving"]
  /\ badge' = [badge EXCEPT ![c] = None]
  /\ UNCHANGED <<watchVars, cw, supVars, upVars, created>>

\* The count never is 0 here, nor the wallet without a watcher: Counted.
UnsubscribeWatcher(c) ==
  /\ cpc[c] = "leaving" /\ watchers[cw[c]] # None
  /\ LET i == watchers[cw[c]]
         n == obj[i].browserRefs
         o == [obj[i] EXCEPT !.browserRefs = IF n > 0 THEN n - 1 ELSE n]
     IN Teardown(i, cw[c], o)
  /\ cpc' = [cpc EXCEPT ![c] = "out"]
  /\ cw' = [cw EXCEPT ![c] = None]
  /\ UNCHANGED <<pc, snap, badge, supVars, upVars, created>>

Release(w) ==
  /\ supAt = None /\ toRetain = {} /\ w \in toRelease /\ watchers[w] # None
  /\ LET i == watchers[w]
         n == obj[i].retained
         o == [obj[i] EXCEPT !.retained = IF n > 0 THEN n - 1 ELSE n]
     IN /\ Teardown(i, w, o)
        /\ supAt' = IF watchers'[w] = None THEN i ELSE None
  /\ toRelease' = toRelease \ {w}
  /\ UNCHANGED <<pc, snap, clientVars, held, toRetain, upVars, created>>

\* Mutant of CloseUpstream: a teardown forgets the upstream.
CloseSilently(i) ==
  /\ i \in closing
  /\ closing' = closing \ {i}
  /\ obj' = IF pc[i] = "none" THEN [obj EXCEPT ![i] = Blank] ELSE obj
  /\ supAt' = IF supAt = i THEN None ELSE supAt
  /\ UNCHANGED <<watchers, pc, snap, clientVars, held, toRetain, toRelease,
                 upVars, created>>

CloseUpstream(i) ==
  /\ i \in closing
  /\ stream' = [stream EXCEPT ![obj[i].addr] = "off"]
  /\ closing' = closing \ {i}
  /\ obj' = IF pc[i] = "none" THEN [obj EXCEPT ![i] = Blank] ELSE obj
  /\ supAt' = IF supAt = i THEN None ELSE supAt
  /\ UNCHANGED <<watchers, pc, snap, clientVars, held, toRetain, toRelease,
                 drops, created>>

\* Supervisor.Reconcile takes over the wallets that groups ask for, then
\* retains the new ones, then releases the others.
Reconcile(desired) ==
  /\ supAt = None /\ toRetain = {} /\ toRelease = {} /\ desired # held
  /\ held' = desired
  /\ toRetain' = desired \ held
  /\ toRelease' = held \ desired
  /\ UNCHANGED <<watchVars, clientVars, supAt, upVars, created>>

-----------------------------------------------------------------------------
(* bootstrap.                                                              *)

\* Its caller, a client or the supervisor, goes on.
ReturnFrom(i) ==
  /\ cpc' = [c \in Clients |->
               IF cpc[c] = "boot" /\ watchers[cw[c]] = i THEN "in" ELSE cpc[c]]
  /\ supAt' = IF supAt = i /\ i \notin closing THEN None ELSE supAt

BootReconnect(i) ==
  /\ pc[i] = "begin"
  /\ SetState(i, "RECONNECT")
  /\ pc' = [pc EXCEPT ![i] = "upstream"]
  /\ UNCHANGED <<watchers, snap, closing, cpc, cw, supVars, upVars, created>>

\* The error of upstream.Subscribe is ignored; an active address stays so.
BootUpstream(i) ==
  /\ pc[i] = "upstream"
  /\ \/ stream' = [stream EXCEPT ![obj[i].addr] = IF @ = "off" THEN "on" ELSE @]
     \/ UpstreamMayFail /\ stream[obj[i].addr] = "off" /\ UNCHANGED stream
  /\ pc' = [pc EXCEPT ![i] = "gate"]
  /\ UNCHANGED <<watchers, obj, snap, closing, clientVars, supVars, drops,
                 created>>

InGate == {i \in Watchers : pc[i] = "fetch"}

BootResync(i) ==
  /\ pc[i] = "gate" /\ Cardinality(InGate) < GateSize
  /\ SetState(i, "RESYNC")
  /\ pc' = [pc EXCEPT ![i] = "fetch"]
  /\ UNCHANGED <<watchers, snap, closing, cpc, cw, supVars, upVars, created>>

\* The gate is full: RESYNC, then RECONNECT, and a goroutine waits for it.
BootPark(i) ==
  /\ pc[i] = "gate" /\ Cardinality(InGate) >= GateSize
  /\ SetState(i, "RECONNECT")
  /\ pc' = [pc EXCEPT ![i] = "parked"]
  /\ ReturnFrom(i)
  /\ UNCHANGED <<watchers, snap, closing, cw, held, toRetain, toRelease,
                 upVars, created>>

\* Mutant of ParkedEnters: the goroutine waits for stopCh only.
ParkedWaitsForStop(i) ==
  /\ pc[i] = "parked" /\ obj[i].stopped /\ i \in closing
  /\ pc' = [pc EXCEPT ![i] = "none"]
  /\ UNCHANGED <<watchers, obj, snap, closing, clientVars, supVars, upVars,
                 created>>

ParkedEnters(i) ==
  /\ pc[i] = "parked" /\ Cardinality(InGate) < GateSize
  /\ pc' = [pc EXCEPT ![i] = "fetch"]
  /\ UNCHANGED <<watchers, obj, snap, closing, clientVars, supVars, upVars,
                 created>>

ParkedStops(i) ==
  /\ pc[i] = "parked" /\ obj[i].stopped
  /\ pc' = [pc EXCEPT ![i] = "none"]
  /\ obj' = IF i \in closing THEN obj ELSE [obj EXCEPT ![i] = Blank]
  /\ UNCHANGED <<watchers, snap, closing, clientVars, supVars, upVars, created>>

\* resyncSnapshot: the orders open at the venue, or none if the request fails.
BootFetch(i) ==
  /\ pc[i] = "fetch"
  /\ \E os \in SUBSET Oids : snap' = [snap EXCEPT ![i] = os]
  /\ pc' = [pc EXCEPT ![i] = "store"]
  /\ UNCHANGED <<watchers, obj, closing, clientVars, supVars, upVars, created>>

BootStore(i) ==
  /\ pc[i] = "store"
  /\ obj' = [obj EXCEPT ![i].orders = snap[i], ![i].state = "RECONCILE"]
  /\ snap' = [snap EXCEPT ![i] = {}]
  /\ EmitState(i, "RECONCILE")
  /\ pc' = [pc EXCEPT ![i] = "live"]
  /\ UNCHANGED <<watchers, closing, cpc, cw, supVars, upVars, created>>

BootLive(i) ==
  /\ pc[i] = "live"
  /\ obj' = [obj EXCEPT ![i] = IF @.stopped /\ i \notin closing THEN Blank
                               ELSE [@ EXCEPT !.state = "LIVE"]]
  /\ EmitState(i, "LIVE")
  /\ pc' = [pc EXCEPT ![i] = "none"]
  /\ ReturnFrom(i)
  /\ UNCHANGED <<watchers, snap, closing, cw, held, toRetain, toRelease,
                 upVars, created>>

BootStep(i) ==
  \/ BootReconnect(i) \/ BootUpstream(i) \/ BootResync(i) \/ BootPark(i)
  \/ BootFetch(i) \/ BootStore(i) \/ BootLive(i)

-----------------------------------------------------------------------------
(* Upstream events.                                                        *)

\* i emits order.created for o: one event per earlier one it repeats.
RecordCreated(i, o) ==
  LET st == obj[i].state
      earlier == {e.at : e \in {f \in created[i] : f.oid = o}}
      events == IF earlier = {} THEN {[oid |-> o, at |-> st, before |-> None]}
                ELSE {[oid |-> o, at |-> st, before |-> b] : b \in earlier}
  IN created' = [created EXCEPT ![i] = @ \cup events]

\* Mutant of OnOrder: a first-seen order is not remembered.
OnOrderForgetting(w, o) ==
  /\ stream[w] = "on" /\ watchers[w] # None
  /\ IF o \in obj[watchers[w]].orders THEN UNCHANGED created
     ELSE RecordCreated(watchers[w], o)
  /\ UNCHANGED <<watchVars, clientVars, supVars, upVars>>

\* An oid absent from the snapshot is new: order.created, else order.updated.
OnOrder(w, o) ==
  /\ stream[w] = "on" /\ watchers[w] # None
  /\ LET i == watchers[w] IN
     /\ obj' = [obj EXCEPT ![i].orders = @ \cup {o}]
     /\ IF o \in obj[i].orders THEN UNCHANGED created ELSE RecordCreated(i, o)
  /\ UNCHANGED <<watchers, pc, snap, closing, clientVars, supVars, upVars>>

UpstreamBreaks(w) ==
  /\ stream[w] = "on" /\ drops < MaxDrops
  /\ stream' = [stream EXCEPT ![w] = "down"]
  /\ drops' = drops + 1
  /\ UNCHANGED <<watchVars, clientVars, supVars, created>>

\* UserStream.reconnect subscribes again; the manager is not told.
UpstreamResumes(w) ==
  /\ stream[w] = "down"
  /\ stream' = [stream EXCEPT ![w] = "on"]
  /\ UNCHANGED <<watchVars, clientVars, supVars, drops, created>>

-----------------------------------------------------------------------------
ClientStep(c) ==
  \/ \E w \in Wallets : HubSubscribe(c, w)
  \/ SubscribeShared(c) \/ SubscribeFirst(c)
  \/ HubUnsubscribe(c) \/ UnsubscribeWatcher(c)

SupervisorStep ==
  \/ \E desired \in SUBSET Wallets : Reconcile(desired)
  \/ \E w \in Wallets : RetainShared(w) \/ RetainFirst(w) \/ Release(w)

UpstreamStep ==
  \E w \in Wallets : \/ \E o \in Oids : OnOrder(w, o)
                     \/ UpstreamBreaks(w) \/ UpstreamResumes(w)

Next ==
  \/ \E c \in Clients : ClientStep(c)
  \/ SupervisorStep
  \/ \E i \in Watchers : \/ CloseUpstream(i) \/ BootStep(i)
                         \/ ParkedEnters(i) \/ ParkedStops(i)
  \/ UpstreamStep

Spec == Init /\ [][Next]_vars

\* Goroutines run and REST requests time out; the waiters of the gate's
\* channel are served in turn.
Fairness ==
  \A i \in Watchers :
    /\ WF_vars(BootStep(i)) /\ WF_vars(CloseUpstream(i))
    /\ SF_vars(ParkedEnters(i)) /\ WF_vars(ParkedStops(i))

FairSpec == Spec /\ Fairness

-----------------------------------------------------------------------------
(* Properties.                                                             *)

\* The clients and the supervisor that count on a wallet's watcher.
Counting(w) == {c \in Clients : cw[c] = w /\ cpc[c] \in {"boot", "in", "leaving"}}
Retaining(w) == (w \in held \ toRetain) \/ w \in toRelease

\* A wallet has a watcher exactly as long as somebody counts on it, and the
\* watcher's counts say how many do, whatever joins or leaves between the
\* hub's lock and m.mu (browserRefs "mirrors hub subscriber count").
Counted ==
  \A w \in Wallets :
    IF watchers[w] = None
    THEN Counting(w) = {} /\ ~Retaining(w)
    ELSE LET o == obj[watchers[w]] IN
         /\ o.addr = w /\ ~o.stopped
         /\ o.browserRefs = Cardinality(Counting(w))
         /\ o.retained = IF Retaining(w) THEN 1 ELSE 0
         /\ o.browserRefs + o.retained > 0

\* The upstream streams no wallet that nobody watches: a watcher is torn down
\* only after its own upstream.Subscribe, so the Unsubscribe comes last.
UpstreamReleased ==
  \A w \in Wallets :
    stream[w] # "off" =>
      \/ watchers[w] # None
      \/ \E i \in closing : obj[i].addr = w

\* A client that stays gets a LIVE watcher, even if the gate was full.
EventuallyLive ==
  \A c \in Clients :
    cpc[c] = "in" ~>
      (cpc[c] # "in" \/ obj[watchers[cw[c]]].state = "LIVE")

\* order.created of an oid is sent once by a LIVE watcher: the only repetition
\* is of an event sent before the snapshot was stored.
CreatedOnceWhenLive ==
  \A i \in Watchers : \A e \in created[i] : e.before # "LIVE"

\* watcher.go:17: never a LIVE badge over data that is not LIVE, at least once
\* the client's watcher has announced a state of its own.
BadgeIsHonest ==
  \A c \in Clients :
    cpc[c] = "in" /\ badge[c] = "LIVE" =>
      obj[watchers[cw[c]]].state \in {"LIVE", "DISCONNECTED"}

\* watcher.go:277: further subscribers share the upstream of the first; a
\* LIVE watcher nobody is tearing down is streamed.
LiveIsStreamed ==
  \A w \in Wallets :
    (watchers[w] # None /\ closing = {}) =>
      (obj[watchers[w]].state = "LIVE" => stream[w] # "off")
=============================================================================

----------------------------- MODULE WatcherProofs -----------------------------
(***************************************************************************)
(* Proofs about the wallet watchers, for any wallets, clients, watchers,   *)
(* orders, gate and number of breaks: the counts of a watcher are those of *)
(* its users, the upstream is released with the last of them, and a LIVE   *)
(* watcher sends order.created of an order once.                           *)
(*                                                                         *)
(* The argument: a watcher whose bootstrap has not been through its        *)
(* upstream.Subscribe has a caller that waits in it and is counted         *)
(* (Booting), so that it cannot be torn down before; what was torn down is *)
(* not used again before its upstream is closed and its goroutine has      *)
(* ended (Objects); and the set of orders is replaced for the last time    *)
(* before the watcher turns LIVE (Remembered).                             *)
(***************************************************************************)
EXTENDS Watcher, FiniteSetTheorems, TLAPS

Current(i) == \E w \in Wallets : watchers[w] = i

\* What a control point, a teardown and a client's place say of an object.
Objects ==
  /\ \A i \in Watchers :
       /\ pc[i] # "none" => Current(i) \/ obj[i].stopped
       /\ i \in closing => obj[i].stopped
       /\ obj[i].stopped => obj[i].addr \in Wallets
  /\ \A c \in Clients : cpc[c] # "out" => cw[c] \in Wallets

\* What Reconcile has still to retain is desired, what it releases is not.
Supervised == toRetain \subseteq held /\ toRelease \cap held = {}

\* The caller of a bootstrap: the first client of a wallet, or the supervisor.
Called(i, w) ==
  \/ \E c \in Clients : cpc[c] = "boot" /\ cw[c] = w
  \/ supAt = i /\ Retaining(w)

Booting ==
  \A i \in Watchers : pc[i] \in {"begin", "upstream", "gate"} =>
    \E w \in Wallets : watchers[w] = i /\ Called(i, w)

\* A LIVE watcher has ended its bootstrap and remembers what it announced.
Remembered ==
  \A w \in Wallets : watchers[w] # None =>
    /\ obj[watchers[w]].state = "LIVE" => pc[watchers[w]] = "none"
    /\ \A e \in created[watchers[w]] :
         e.at = "LIVE" => obj[watchers[w]].state = "LIVE" /\ e.oid \in obj[watchers[w]].orders

IInv ==
  /\ TypeOK /\ Counted /\ Objects /\ Supervised /\ Booting
  /\ Remembered /\ UpstreamReleased /\ CreatedOnceWhenLive
-----------------------------------------------------------------------------
(* Lemmas about objects and counts.                                        *)

LEMMA ObjectType ==
  ASSUME TypeOK, NEW i \in Watchers
  PROVE  /\ obj[i] \in WalletWatcher
         /\ obj[i].addr \in Wallets \cup {None}
         /\ obj[i].browserRefs \in Nat /\ obj[i].retained \in Nat
         /\ obj[i].state \in States /\ obj[i].stopped \in BOOLEAN
         /\ obj[i].orders \in SUBSET Oids
BY DEF TypeOK, WalletWatcher

\* An object with one field set to something else.
LEMMA FieldSet ==
  ASSUME NEW o \in WalletWatcher
  PROVE  /\ \A n \in Nat : [o EXCEPT !.browserRefs = n] \in WalletWatcher
         /\ \A n \in Nat : [o EXCEPT !.retained = n] \in WalletWatcher
         /\ \A st \in States : [o EXCEPT !.state = st] \in WalletWatcher
         /\ [o EXCEPT !.stopped = TRUE] \in WalletWatcher
         /\ \A os \in SUBSET Oids : [o EXCEPT !.orders = os] \in WalletWatcher
<1>1. \A n \in Nat : [o EXCEPT !.browserRefs = n] \in WalletWatcher
    BY DEF WalletWatcher
<1>2. \A n \in Nat : [o EXCEPT !.retained = n] \in WalletWatcher
    BY DEF WalletWatcher
<1>3. \A st \in States : [o EXCEPT !.state = st] \in WalletWatcher
    BY DEF WalletWatcher
<1>4. [o EXCEPT !.stopped = TRUE] \in WalletWatcher
    BY DEF WalletWatcher
<1>5. \A os \in SUBSET Oids : [o EXCEPT !.orders = os] \in WalletWatcher
    BY DEF WalletWatcher
<1> QED BY <1>1, <1>2, <1>3, <1>4, <1>5

LEMMA ObjectSet ==
  ASSUME TypeOK, NEW i \in Watchers
  PROVE  /\ \A n \in Nat : [obj EXCEPT ![i].browserRefs = n] \in [Watchers -> WalletWatcher]
         /\ \A n \in Nat : [obj EXCEPT ![i].retained = n] \in [Watchers -> WalletWatcher]
         /\ \A st \in States : [obj EXCEPT ![i].state = st] \in [Watchers -> WalletWatcher]
         /\ \A o \in WalletWatcher : [obj EXCEPT ![i] = o] \in [Watchers -> WalletWatcher]
<1>1. obj \in [Watchers -> WalletWatcher] /\ obj[i] \in WalletWatcher
    BY DEF TypeOK
<1>2. ASSUME NEW n \in Nat PROVE [obj EXCEPT ![i].browserRefs = n] \in [Watchers -> WalletWatcher]
  <2>1. [obj[i] EXCEPT !.browserRefs = n] \in WalletWatcher
      BY <1>1, FieldSet
  <2> QED BY <1>1, <2>1
<1>3. ASSUME NEW n \in Nat PROVE [obj EXCEPT ![i].retained = n] \in [Watchers -> WalletWatcher]
  <2>1. [obj[i] EXCEPT !.retained = n] \in WalletWatcher
      BY <1>1, FieldSet
  <2> QED BY <1>1, <2>1
<1>4. ASSUME NEW st \in States PROVE [obj EXCEPT ![i].state = st] \in [Watchers -> WalletWatcher]
  <2>1. [obj[i] EXCEPT !.state = st] \in WalletWatcher
      BY <1>1, FieldSet
  <2> QED BY <1>1, <2>1
<1>5. \A o \in WalletWatcher : [obj EXCEPT ![i] = o] \in [Watchers -> WalletWatcher]
    BY <1>1
<1> QED BY <1>2, <1>3, <1>4, <1>5

LEMMA BlankType == Blank \in WalletWatcher
BY DEF Blank, WalletWatcher, States

\* The watcher of a wallet: it is of no other wallet, in use and not torn down.
LEMMA CurrentFacts ==
  ASSUME IInv, NEW w \in Wallets, watchers[w] # None
  PROVE  /\ watchers[w] \in Watchers /\ watchers[w] \notin closing
         /\ obj[watchers[w]].addr = w /\ ~obj[watchers[w]].stopped
         /\ obj[watchers[w]].browserRefs = Cardinality(Counting(w))
         /\ obj[watchers[w]].retained = IF Retaining(w) THEN 1 ELSE 0
         /\ obj[watchers[w]].browserRefs + obj[watchers[w]].retained > 0
         /\ ~Unused(watchers[w])
         /\ \A v \in Wallets : watchers[v] = watchers[w] => v = w
<1>1. watchers[w] \in Watchers
    BY DEF IInv, TypeOK
<1>2. /\ obj[watchers[w]].addr = w /\ ~obj[watchers[w]].stopped
      /\ obj[watchers[w]].browserRefs = Cardinality(Counting(w))
      /\ obj[watchers[w]].retained = IF Retaining(w) THEN 1 ELSE 0
      /\ obj[watchers[w]].browserRefs + obj[watchers[w]].retained > 0
    BY DEF IInv, Counted
<1>3. watchers[w] \notin closing
    BY <1>1, <1>2 DEF IInv, Objects
<1>4. ~Unused(watchers[w])
    BY <1>2 DEF Unused, Blank
<1>5. \A v \in Wallets : watchers[v] = watchers[w] => v = w
    BY <1>2 DEF IInv, Counted
<1> QED BY <1>1, <1>2, <1>3, <1>4, <1>5

LEMMA CountingFinite ==
  ASSUME NEW w \in Wallets
  PROVE  IsFiniteSet(Counting(w)) /\ Cardinality(Counting(w)) \in Nat
         /\ (Cardinality(Counting(w)) = 0 <=> Counting(w) = {})
BY WatcherAssumption, FS_Subset, FS_CardinalityType, FS_EmptySet DEF Counting

\* The counts stay what they are when neither users nor objects in use change.
LEMMA CountsStay ==
  ASSUME IInv, UNCHANGED watchers,
         \A w \in Wallets : Counting(w)' = Counting(w) /\ (Retaining(w)' <=> Retaining(w)),
         \A w \in Wallets : watchers[w] # None =>
           /\ obj'[watchers[w]].addr = obj[watchers[w]].addr
           /\ obj'[watchers[w]].browserRefs = obj[watchers[w]].browserRefs
           /\ obj'[watchers[w]].retained = obj[watchers[w]].retained
           /\ obj'[watchers[w]].stopped = obj[watchers[w]].stopped
  PROVE  Counted'
BY DEF IInv, Counted

\* The same for the other facts about a watcher in use.
LEMMA MemoryStays ==
  ASSUME IInv, UNCHANGED <<watchers, created>>,
         \A w \in Wallets : watchers[w] # None =>
           /\ obj'[watchers[w]].state = obj[watchers[w]].state
           /\ obj'[watchers[w]].orders = obj[watchers[w]].orders
           /\ pc'[watchers[w]] = pc[watchers[w]]
  PROVE  Remembered' /\ CreatedOnceWhenLive'
<1>1. Remembered'
    BY DEF IInv, Remembered
<1>2. CreatedOnceWhenLive'
    BY DEF IInv, CreatedOnceWhenLive
<1> QED BY <1>1, <1>2

LEMMA InitInv == Init => IInv
<1> SUFFICES ASSUME Init PROVE IInv
    OBVIOUS
<1>1. TypeOK
    BY BlankType DEF Init, TypeOK, WalletWatcher, States, CreatedEvents
<1>2. Counted
    BY DEF Init, Counted, Counting, Retaining
<1>3. Objects /\ Supervised /\ Booting /\ Remembered
    BY WatcherAssumption DEF Init, Objects, Supervised, Booting, Remembered, Blank
<1>4. UpstreamReleased /\ CreatedOnceWhenLive
    BY DEF Init, UpstreamReleased, CreatedOnceWhenLive
<1> QED BY <1>1, <1>2, <1>3, <1>4 DEF IInv

-----------------------------------------------------------------------------
(* The steps.                                                              *)

LEMMA HubStep ==
  ASSUME IInv, NEW c \in Clients,
         (\E w \in Wallets : HubSubscribe(c, w)) \/ HubUnsubscribe(c)
  PROVE  IInv'
<1>1. /\ UNCHANGED <<watchers, obj, pc, snap, closing, held, toRetain, toRelease, supAt,
                     stream, drops, created>>
      /\ \A d \in Clients \ {c} : cpc'[d] = cpc[d] /\ cw'[d] = cw[d]
      /\ \/ cpc[c] = "out" /\ cpc'[c] = "hub" /\ cw'[c] \in Wallets
         \/ cpc[c] = "in" /\ cpc'[c] = "leaving" /\ cw'[c] = cw[c]
    BY DEF HubSubscribe, HubUnsubscribe, watchVars, supVars, upVars, IInv, TypeOK
<1>2. TypeOK'
    BY DEF HubSubscribe, HubUnsubscribe, watchVars, supVars, upVars, IInv, TypeOK
<1>3. \A w \in Wallets : Counting(w)' = Counting(w) /\ (Retaining(w)' <=> Retaining(w))
    BY <1>1 DEF Counting, Retaining
<1>4. Counted'
    BY <1>1, <1>3, CountsStay
<1>5. Objects' /\ Supervised'
    BY <1>1 DEF IInv, Objects, Supervised, Current
<1>6. Booting'
    BY <1>1 DEF IInv, Booting, Called, Retaining
<1>7. Remembered' /\ CreatedOnceWhenLive'
    BY <1>1, MemoryStays
<1>8. UpstreamReleased'
    BY <1>1 DEF IInv, UpstreamReleased
<1> QED BY <1>2, <1>4, <1>5, <1>6, <1>7, <1>8 DEF IInv
LEMMA SubscribeSharedStep ==
  ASSUME IInv, NEW c \in Clients, SubscribeShared(c)
  PROVE  IInv'
<1>1. PICK w \in Wallets : w = cw[c] /\ watchers[w] # None
    BY DEF SubscribeShared, IInv, Objects
<1>2. PICK i \in Watchers : i = watchers[w]
    BY <1>1, CurrentFacts
<1>3. /\ obj' = [obj EXCEPT ![i].browserRefs = @ + 1]
      /\ cpc[c] = "hub" /\ cpc' = [cpc EXCEPT ![c] = "in"]
      /\ UNCHANGED <<watchers, pc, snap, closing, cw, badge, held, toRetain, toRelease, supAt,
                     stream, drops, created>>
    BY <1>1, <1>2 DEF SubscribeShared, supVars, upVars
<1>4. /\ obj'[i].addr = obj[i].addr /\ obj'[i].browserRefs = obj[i].browserRefs + 1
      /\ obj'[i].retained = obj[i].retained /\ obj'[i].stopped = obj[i].stopped
      /\ obj'[i].state = obj[i].state /\ obj'[i].orders = obj[i].orders
      /\ \A j \in Watchers \ {i} : obj'[j] = obj[j]
    BY <1>3 DEF IInv, TypeOK, WalletWatcher
<1>5. TypeOK'
  <2>1. obj[i].browserRefs + 1 \in Nat
      BY ObjectType DEF IInv
  <2>2. obj' \in [Watchers -> WalletWatcher]
      BY <1>3, <2>1, ObjectSet DEF IInv
  <2> QED BY <1>3, <2>2 DEF IInv, TypeOK
<1>6. Counted'
  <2>1. c \notin Counting(w) /\ Counting(w)' = Counting(w) \cup {c}
      BY <1>1, <1>3 DEF IInv, TypeOK, Counting
  <2>2. \A v \in Wallets \ {w} : Counting(v)' = Counting(v)
      BY <1>1, <1>3 DEF IInv, TypeOK, Counting
  <2>3. \A v \in Wallets : Retaining(v)' <=> Retaining(v)
      BY <1>3 DEF Retaining
  <2>4. Cardinality(Counting(w)') = Cardinality(Counting(w)) + 1
      BY <2>1, CountingFinite, FS_AddElement
  <2>5. Cardinality(Counting(w)) \in Nat
      BY CountingFinite
  <2> SUFFICES ASSUME NEW v \in Wallets
               PROVE  IF watchers[v] = None THEN Counting(v)' = {} /\ ~Retaining(v)'
                      ELSE /\ obj'[watchers[v]].addr = v /\ ~obj'[watchers[v]].stopped
                           /\ obj'[watchers[v]].browserRefs = Cardinality(Counting(v)')
                           /\ obj'[watchers[v]].retained = IF Retaining(v)' THEN 1 ELSE 0
                           /\ obj'[watchers[v]].browserRefs + obj'[watchers[v]].retained > 0
      BY <1>3 DEF Counted
  <2>6. CASE v = w
      BY <1>1, <1>2, <1>4, <2>3, <2>4, <2>5, <2>6, CurrentFacts
  <2>7. CASE v # w /\ watchers[v] = None
      BY <2>2, <2>3, <2>7 DEF IInv, Counted
  <2>8. CASE v # w /\ watchers[v] # None
    <3>1. watchers[v] # i /\ watchers[v] \in Watchers
        BY <1>1, <1>2, <2>8, CurrentFacts
    <3> QED BY <1>4, <2>2, <2>3, <2>8, <3>1, CurrentFacts
  <2> QED BY <2>6, <2>7, <2>8
<1>7. Objects' /\ Supervised'
    BY <1>1, <1>3, <1>4 DEF IInv, TypeOK, Objects, Supervised, Current
<1>8. Booting'
    BY <1>3 DEF IInv, TypeOK, Booting, Called, Retaining
<1>9. Remembered' /\ CreatedOnceWhenLive'
  <2>1. \A v \in Wallets : watchers[v] # None =>
           /\ obj'[watchers[v]].state = obj[watchers[v]].state
           /\ obj'[watchers[v]].orders = obj[watchers[v]].orders
      BY <1>4, CurrentFacts
  <2> QED BY <1>3, <2>1, MemoryStays
<1>10. UpstreamReleased'
    BY <1>3, <1>4 DEF IInv, TypeOK, UpstreamReleased
<1> QED BY <1>5, <1>6, <1>7, <1>8, <1>9, <1>10 DEF IInv

\* A new watcher takes an identity that nothing refers to.
LEMMA NewIsUnused ==
  ASSUME IInv, NEW i \in Watchers, Unused(i)
  PROVE  /\ ~Current(i) /\ i \notin closing /\ pc[i] = "none" /\ ~obj[i].stopped
<1>1. ~obj[i].stopped
    BY DEF Unused, Blank
<1>2. ~Current(i)
    BY CurrentFacts, WatcherAssumption DEF Current
<1> QED BY <1>1, <1>2 DEF IInv, Objects
\* A watcher is made for a wallet that has none: whoever asked for it counts.
LEMMA NewStep ==
  ASSUME IInv, NEW w \in Wallets, watchers[w] = None, NEW i \in Watchers, Unused(i),
         TypeOK', Objects', Supervised',
         watchers' = [watchers EXCEPT ![w] = i], pc' = [pc EXCEPT ![i] = "begin"],
         created' = [created EXCEPT ![i] = {}],
         obj'[i].addr = w, ~obj'[i].stopped, obj'[i].state # "LIVE",
         \A j \in Watchers \ {i} : obj'[j] = obj[j],
         UNCHANGED <<closing, stream>>,
         \A v \in Wallets \ {w} :
           Counting(v)' = Counting(v) /\ (Retaining(v)' <=> Retaining(v)),
         obj'[i].browserRefs = Cardinality(Counting(w)'),
         obj'[i].retained = IF Retaining(w)' THEN 1 ELSE 0,
         obj'[i].browserRefs + obj'[i].retained > 0,
         Called(i, w)',
         \A j \in Watchers, v \in Wallets : Called(j, v) => Called(j, v)'
  PROVE  IInv'
<1>1. /\ ~Current(i) /\ i \notin closing /\ pc[i] = "none" /\ ~obj[i].stopped
    BY NewIsUnused
<1>2. /\ watchers'[w] = i /\ i # None
      /\ \A v \in Wallets \ {w} : watchers'[v] = watchers[v] /\ watchers[v] # i
    BY <1>1, WatcherAssumption DEF IInv, TypeOK, Current
<1>3. Counted'
  <2> SUFFICES ASSUME NEW v \in Wallets
               PROVE  IF watchers'[v] = None THEN Counting(v)' = {} /\ ~Retaining(v)'
                      ELSE /\ obj'[watchers'[v]].addr = v /\ ~obj'[watchers'[v]].stopped
                           /\ obj'[watchers'[v]].browserRefs = Cardinality(Counting(v)')
                           /\ obj'[watchers'[v]].retained = IF Retaining(v)' THEN 1 ELSE 0
                           /\ obj'[watchers'[v]].browserRefs + obj'[watchers'[v]].retained > 0
      BY DEF Counted
  <2>1. CASE v = w
      BY <1>2, <2>1
  <2>2. CASE v # w /\ watchers[v] = None
      BY <1>2, <2>2 DEF IInv, Counted
  <2>3. CASE v # w /\ watchers[v] # None
    <3>1. watchers[v] \in Watchers \ {i}
        BY <1>2, <2>3, CurrentFacts
    <3> QED BY <1>2, <2>3, <3>1, CurrentFacts
  <2> QED BY <2>1, <2>2, <2>3
<1>4. Booting'
  <2> SUFFICES ASSUME NEW j \in Watchers, pc'[j] \in {"begin", "upstream", "gate"}
               PROVE  \E v \in Wallets : watchers'[v] = j /\ Called(j, v)'
      BY DEF Booting
  <2>1. CASE j = i
      BY <1>2, <2>1
  <2>2. CASE j # i
    <3>1. pc[j] \in {"begin", "upstream", "gate"}
        BY <2>2 DEF IInv, TypeOK
    <3>2. PICK v \in Wallets : watchers[v] = j /\ Called(j, v)
        BY <3>1 DEF IInv, Booting
    <3>3. v # w
        BY <3>2, WatcherAssumption
    <3> QED BY <1>2, <3>2, <3>3
  <2> QED BY <2>1, <2>2
<1>5. Remembered'
  <2> SUFFICES ASSUME NEW v \in Wallets, watchers'[v] # None
               PROVE  /\ obj'[watchers'[v]].state = "LIVE" => pc'[watchers'[v]] = "none"
                      /\ \A e \in created'[watchers'[v]] : e.at = "LIVE" =>
                            /\ obj'[watchers'[v]].state = "LIVE"
                            /\ e.oid \in obj'[watchers'[v]].orders
      BY DEF Remembered
  <2>1. CASE v = w
      BY <1>2, <2>1 DEF IInv, TypeOK
  <2>2. CASE v # w
    <3>1. watchers[v] \in Watchers \ {i} /\ watchers[v] # None
        BY <1>2, <2>2, CurrentFacts
    <3>2. pc'[watchers[v]] = pc[watchers[v]] /\ created'[watchers[v]] = created[watchers[v]]
        BY <3>1 DEF IInv, TypeOK
    <3> QED BY <1>2, <2>2, <3>1, <3>2 DEF IInv, Remembered
  <2> QED BY <2>1, <2>2
<1>6. UpstreamReleased'
    BY <1>1, <1>2 DEF IInv, TypeOK, UpstreamReleased
<1>7. CreatedOnceWhenLive'
    BY DEF IInv, TypeOK, CreatedOnceWhenLive
<1> QED BY <1>3, <1>4, <1>5, <1>6, <1>7 DEF IInv

LEMMA SubscribeFirstStep ==
  ASSUME IInv, NEW c \in Clients, SubscribeFirst(c)
  PROVE  IInv'
<1>1. PICK w \in Wallets : w = cw[c] /\ watchers[w] = None
    BY DEF SubscribeFirst, IInv, Objects
<1> DEFINE new == [Blank EXCEPT !.addr = w, !.browserRefs = 1]
<1>2. PICK i \in Watchers : NewWatcher(i, w) /\ obj' = [obj EXCEPT ![i] = new]
    BY <1>1 DEF SubscribeFirst
<1>3. /\ new \in WalletWatcher /\ new.addr = w /\ new.browserRefs = 1 /\ new.retained = 0
      /\ ~new.stopped /\ new.state # "LIVE"
    BY DEF Blank, WalletWatcher, States
<1> HIDE DEF new
<1>4. /\ obj'[i] = new /\ \A j \in Watchers \ {i} : obj'[j] = obj[j]
    BY <1>2 DEF IInv, TypeOK
<1>5. /\ Unused(i) /\ watchers' = [watchers EXCEPT ![w] = i] /\ pc' = [pc EXCEPT ![i] = "begin"]
      /\ created' = [created EXCEPT ![i] = {}]
      /\ cpc[c] = "hub" /\ cpc' = [cpc EXCEPT ![c] = "boot"]
      /\ UNCHANGED <<snap, closing, cw, badge, held, toRetain, toRelease, supAt, stream, drops>>
    BY <1>2 DEF NewWatcher, SubscribeFirst, supVars, upVars
<1>6. TypeOK'
    BY <1>2, <1>3, <1>5 DEF IInv, TypeOK
<1>7. Objects'
  <2>1. ~Current(i) /\ i \notin closing
      BY <1>5, NewIsUnused
  <2>2. Current(i)' /\ \A j \in Watchers \ {i} : Current(j) => Current(j)'
      BY <1>1, <1>5, WatcherAssumption DEF IInv, TypeOK, Current
  <2>3. \A j \in Watchers \ {i} : pc'[j] = pc[j]
      BY <1>5 DEF IInv, TypeOK
  <2>4. \A d \in Clients : cpc'[d] # "out" => cw'[d] \in Wallets
      BY <1>1, <1>5 DEF IInv, TypeOK, Objects
  <2>5. ASSUME NEW j \in Watchers
        PROVE  /\ pc'[j] # "none" => Current(j)' \/ obj'[j].stopped
               /\ j \in closing' => obj'[j].stopped
               /\ obj'[j].stopped => obj'[j].addr \in Wallets
    <3>1. CASE j = i
        BY <1>3, <1>4, <1>5, <2>1, <2>2, <3>1
    <3>2. CASE j # i
        BY <1>4, <1>5, <2>2, <2>3, <3>2 DEF IInv, Objects
    <3> QED BY <3>1, <3>2
  <2> QED BY <2>4, <2>5 DEF Objects
<1>8. Supervised' /\ \A v \in Wallets : Retaining(v)' <=> Retaining(v)
    BY <1>5 DEF IInv, Supervised, Retaining
<1>9. Counting(w)' = {c} /\ \A v \in Wallets \ {w} : Counting(v)' = Counting(v)
  <2>1. Counting(w) = {}
      BY <1>1 DEF IInv, Counted
  <2>2. Counting(w)' = Counting(w) \cup {c}
      BY <1>1, <1>5 DEF IInv, TypeOK, Counting
  <2>3. \A v \in Wallets \ {w} : Counting(v)' = Counting(v)
      BY <1>1, <1>5 DEF IInv, TypeOK, Counting
  <2> QED BY <2>1, <2>2, <2>3
<1>10. Cardinality(Counting(w)') = 1
    BY <1>9, FS_Singleton
<1>11. ~Retaining(w)
    BY <1>1 DEF IInv, Counted
<1>12. Called(i, w)' /\ \A j \in Watchers, v \in Wallets : Called(j, v) => Called(j, v)'
  <2>1. Called(i, w)'
      BY <1>1, <1>5 DEF IInv, TypeOK, Called
  <2>2. ASSUME NEW j \in Watchers, NEW v \in Wallets, Called(j, v) PROVE Called(j, v)'
      BY <1>5, <2>2 DEF IInv, TypeOK, Called, Retaining
  <2> QED BY <2>1, <2>2
<1>13. /\ obj'[i].browserRefs = Cardinality(Counting(w)')
       /\ obj'[i].retained = IF Retaining(w)' THEN 1 ELSE 0
       /\ obj'[i].browserRefs + obj'[i].retained > 0
       /\ obj'[i].addr = w /\ ~obj'[i].stopped /\ obj'[i].state # "LIVE"
    BY <1>3, <1>4, <1>8, <1>10, <1>11
<1> QED BY <1>1, <1>4, <1>5, <1>6, <1>7, <1>8, <1>9, <1>12, <1>13, NewStep

LEMMA RetainFirstStep ==
  ASSUME IInv, NEW w \in Wallets, RetainFirst(w)
  PROVE  IInv'
<1> DEFINE new == [Blank EXCEPT !.addr = w, !.retained = 1]
<1>1. PICK i \in Watchers :
        NewWatcher(i, w) /\ obj' = [obj EXCEPT ![i] = new] /\ supAt' = i
    BY DEF RetainFirst
<1>2. /\ new \in WalletWatcher /\ new.addr = w /\ new.browserRefs = 0 /\ new.retained = 1
      /\ ~new.stopped /\ new.state # "LIVE"
    BY DEF Blank, WalletWatcher, States
<1> HIDE DEF new
<1>3. /\ obj'[i] = new /\ \A j \in Watchers \ {i} : obj'[j] = obj[j]
    BY <1>1 DEF IInv, TypeOK
<1>4. /\ Unused(i) /\ watchers' = [watchers EXCEPT ![w] = i] /\ pc' = [pc EXCEPT ![i] = "begin"]
      /\ created' = [created EXCEPT ![i] = {}] /\ watchers[w] = None
      /\ supAt = None /\ w \in toRetain /\ toRetain' = toRetain \ {w}
      /\ UNCHANGED <<snap, closing, cpc, cw, badge, held, toRelease, stream, drops>>
    BY <1>1 DEF NewWatcher, RetainFirst, clientVars, upVars
<1>5. TypeOK'
    BY <1>1, <1>2, <1>4 DEF IInv, TypeOK
<1>6. Objects'
  <2>1. ~Current(i) /\ i \notin closing
      BY <1>4, NewIsUnused
  <2>2. Current(i)' /\ \A j \in Watchers \ {i} : Current(j) => Current(j)'
      BY <1>4, WatcherAssumption DEF IInv, TypeOK, Current
  <2>3. \A j \in Watchers \ {i} : pc'[j] = pc[j]
      BY <1>4 DEF IInv, TypeOK
  <2>4. \A d \in Clients : cpc'[d] # "out" => cw'[d] \in Wallets
      BY <1>4 DEF IInv, Objects
  <2>5. ASSUME NEW j \in Watchers
        PROVE  /\ pc'[j] # "none" => Current(j)' \/ obj'[j].stopped
               /\ j \in closing' => obj'[j].stopped
               /\ obj'[j].stopped => obj'[j].addr \in Wallets
    <3>1. CASE j = i
        BY <1>2, <1>3, <1>4, <2>1, <2>2, <3>1
    <3>2. CASE j # i
        BY <1>3, <1>4, <2>2, <2>3, <3>2 DEF IInv, Objects
    <3> QED BY <3>1, <3>2
  <2> QED BY <2>4, <2>5 DEF Objects
<1>7. Supervised'
    BY <1>4 DEF IInv, Supervised
<1>8. Retaining(w)' /\ \A v \in Wallets \ {w} : Retaining(v)' <=> Retaining(v)
    BY <1>4 DEF IInv, Supervised, Retaining
<1>9. \A v \in Wallets : Counting(v)' = Counting(v)
    BY <1>4 DEF Counting
<1>10. Cardinality(Counting(w)') = 0
    BY <1>4, <1>9, FS_EmptySet DEF IInv, Counted
<1>11. Called(i, w)' /\ \A j \in Watchers, v \in Wallets : Called(j, v) => Called(j, v)'
    BY <1>1, <1>4, <1>8, WatcherAssumption DEF Called
<1>12. /\ obj'[i].browserRefs = Cardinality(Counting(w)')
       /\ obj'[i].retained = IF Retaining(w)' THEN 1 ELSE 0
       /\ obj'[i].browserRefs + obj'[i].retained > 0
       /\ obj'[i].addr = w /\ ~obj'[i].stopped /\ obj'[i].state # "LIVE"
    BY <1>2, <1>3, <1>8, <1>10
<1> QED BY <1>3, <1>4, <1>5, <1>6, <1>7, <1>8, <1>9, <1>11, <1>12, NewStep

LEMMA RetainSharedStep ==
  ASSUME IInv, NEW w \in Wallets, RetainShared(w)
  PROVE  IInv'
<1>1. PICK i \in Watchers : i = watchers[w] /\ watchers[w] # None
    BY CurrentFacts DEF RetainShared
<1>2. /\ obj' = [obj EXCEPT ![i].retained = @ + 1]
      /\ supAt = None /\ w \in toRetain /\ toRetain' = toRetain \ {w}
      /\ UNCHANGED <<watchers, pc, snap, closing, cpc, cw, badge, held, toRelease, supAt,
                     stream, drops, created>>
    BY <1>1 DEF RetainShared, clientVars, upVars
<1>3. /\ obj'[i].addr = obj[i].addr /\ obj'[i].retained = obj[i].retained + 1
      /\ obj'[i].browserRefs = obj[i].browserRefs /\ obj'[i].stopped = obj[i].stopped
      /\ obj'[i].state = obj[i].state /\ obj'[i].orders = obj[i].orders
      /\ \A j \in Watchers \ {i} : obj'[j] = obj[j]
    BY <1>2 DEF IInv, TypeOK, WalletWatcher
<1>4. TypeOK'
  <2>1. obj[i].retained + 1 \in Nat
      BY ObjectType DEF IInv
  <2>2. obj' \in [Watchers -> WalletWatcher]
      BY <1>2, <2>1, ObjectSet DEF IInv
  <2> QED BY <1>2, <2>2 DEF IInv, TypeOK
<1>5. Retaining(w)' /\ ~Retaining(w) /\ \A v \in Wallets \ {w} : Retaining(v)' <=> Retaining(v)
    BY <1>2 DEF IInv, Supervised, Retaining
<1>6. \A v \in Wallets : Counting(v)' = Counting(v)
    BY <1>2 DEF Counting
<1>7. Counted'
  <2> SUFFICES ASSUME NEW v \in Wallets
               PROVE  IF watchers[v] = None THEN Counting(v)' = {} /\ ~Retaining(v)'
                      ELSE /\ obj'[watchers[v]].addr = v /\ ~obj'[watchers[v]].stopped
                           /\ obj'[watchers[v]].browserRefs = Cardinality(Counting(v)')
                           /\ obj'[watchers[v]].retained = IF Retaining(v)' THEN 1 ELSE 0
                           /\ obj'[watchers[v]].browserRefs + obj'[watchers[v]].retained > 0
      BY <1>2 DEF Counted
  <2>1. CASE v = w
      BY <1>1, <1>3, <1>5, <1>6, <2>1, CurrentFacts, CountingFinite
  <2>2. CASE v # w /\ watchers[v] = None
      BY <1>5, <1>6, <2>2 DEF IInv, Counted
  <2>3. CASE v # w /\ watchers[v] # None
    <3>1. watchers[v] # i /\ watchers[v] \in Watchers
        BY <1>1, <2>3, CurrentFacts
    <3> QED BY <1>3, <1>5, <1>6, <2>3, <3>1, CurrentFacts
  <2> QED BY <2>1, <2>2, <2>3
<1>8. Objects' /\ Supervised'
    BY <1>2, <1>3 DEF IInv, TypeOK, Objects, Supervised, Current
<1>9. Booting'
    BY <1>2, WatcherAssumption DEF IInv, TypeOK, Booting, Called
<1>10. Remembered' /\ CreatedOnceWhenLive'
  <2>1. \A v \in Wallets : watchers[v] # None =>
           /\ obj'[watchers[v]].state = obj[watchers[v]].state
           /\ obj'[watchers[v]].orders = obj[watchers[v]].orders
      BY <1>3, CurrentFacts
  <2> QED BY <1>2, <2>1, MemoryStays
<1>11. UpstreamReleased'
    BY <1>2, <1>3 DEF IInv, TypeOK, UpstreamReleased
<1> QED BY <1>4, <1>7, <1>8, <1>9, <1>10, <1>11 DEF IInv
\* Somebody leaves the watcher of w, which is torn down with the last one.
LEMMA LeaveStep ==
  ASSUME IInv, NEW w \in Wallets, NEW i \in Watchers, watchers[w] = i,
         NEW o \in WalletWatcher, Teardown(i, w, o),
         o.addr = obj[i].addr, o.stopped = obj[i].stopped, o.state = obj[i].state,
         o.orders = obj[i].orders,
         o.browserRefs = Cardinality(Counting(w)'),
         o.retained = IF Retaining(w)' THEN 1 ELSE 0,
         TypeOK', Supervised', UNCHANGED <<pc, stream, created>>,
         \A c \in Clients : cpc'[c] # "out" => cw'[c] \in Wallets,
         \A v \in Wallets \ {w} :
           Counting(v)' = Counting(v) /\ (Retaining(v)' <=> Retaining(v)),
         IsFiniteSet(Counting(w)'),
         \A j \in Watchers, v \in Wallets : Called(j, v) => Called(j, v)'
  PROVE  IInv'
<1>1. /\ i # None /\ i \notin closing /\ obj[i].addr = w /\ ~obj[i].stopped
      /\ \A v \in Wallets \ {w} : watchers[v] # i
    BY WatcherAssumption, CurrentFacts
<1>2. CASE o.browserRefs = 0 /\ o.retained = 0
  <2> DEFINE gone == [o EXCEPT !.stopped = TRUE]
  <2>1. /\ watchers' = [watchers EXCEPT ![w] = None] /\ closing' = closing \cup {i}
        /\ obj' = [obj EXCEPT ![i] = gone]
      BY <1>2 DEF Teardown
  <2>2. gone.stopped /\ gone.addr = w
      BY <1>1 DEF WalletWatcher
  <2> HIDE DEF gone
  <2>3. /\ obj'[i] = gone /\ \A j \in Watchers \ {i} : obj'[j] = obj[j]
        /\ watchers'[w] = None /\ \A v \in Wallets \ {w} : watchers'[v] = watchers[v]
      BY <2>1 DEF IInv, TypeOK
  <2>4. Counting(w)' = {} /\ ~Retaining(w)'
    <3>1. Counting(w)' = {}
        BY <1>2, FS_EmptySet
    <3>2. ~Retaining(w)'
        BY <1>2
    <3> QED BY <3>1, <3>2
  <2>5. Counted'
    <3> SUFFICES ASSUME NEW v \in Wallets
                 PROVE  IF watchers'[v] = None THEN Counting(v)' = {} /\ ~Retaining(v)'
                        ELSE /\ obj'[watchers'[v]].addr = v /\ ~obj'[watchers'[v]].stopped
                             /\ obj'[watchers'[v]].browserRefs = Cardinality(Counting(v)')
                             /\ obj'[watchers'[v]].retained = IF Retaining(v)' THEN 1 ELSE 0
                             /\ obj'[watchers'[v]].browserRefs + obj'[watchers'[v]].retained > 0
        BY DEF Counted
    <3>1. CASE v = w
        BY <2>3, <2>4, <3>1
    <3>2. CASE v # w /\ watchers[v] = None
        BY <2>3, <3>2 DEF IInv, Counted
    <3>3. CASE v # w /\ watchers[v] # None
      <4>1. watchers[v] \in Watchers \ {i}
          BY <1>1, <3>3, CurrentFacts
      <4> QED BY <2>3, <3>3, <4>1, CurrentFacts
    <3> QED BY <3>1, <3>2, <3>3
  <2>6. Objects'
    <3>1. \A j \in Watchers \ {i} : Current(j) => Current(j)'
        BY <2>3 DEF Current
    <3> QED BY <2>1, <2>2, <2>3, <3>1 DEF IInv, Objects
  <2>7. Booting'
    <3> SUFFICES ASSUME NEW j \in Watchers, pc[j] \in {"begin", "upstream", "gate"}
                 PROVE  \E v \in Wallets : watchers'[v] = j /\ Called(j, v)'
        BY DEF Booting
    <3>1. PICK v \in Wallets : watchers[v] = j /\ Called(j, v)
        BY DEF IInv, Booting
    <3>2. v # w
      <4>1. ~(\E c \in Clients : cpc'[c] = "boot" /\ cw'[c] = w)
          BY <2>4 DEF Counting
      <4>2. ~Called(j, w)'
          BY <2>4, <4>1 DEF Called
      <4> QED BY <3>1, <4>2
    <3> QED BY <2>3, <3>1, <3>2
  <2>8. Remembered'
    <3> SUFFICES ASSUME NEW v \in Wallets, watchers'[v] # None
                 PROVE  /\ obj'[watchers'[v]].state = "LIVE" => pc[watchers'[v]] = "none"
                        /\ \A e \in created[watchers'[v]] : e.at = "LIVE" =>
                              /\ obj'[watchers'[v]].state = "LIVE"
                              /\ e.oid \in obj'[watchers'[v]].orders
        BY DEF Remembered
    <3>1. v # w /\ watchers'[v] = watchers[v] /\ watchers[v] \in Watchers \ {i}
        BY <1>1, <2>3, CurrentFacts
    <3> QED BY <2>3, <3>1 DEF IInv, Remembered
  <2>9. UpstreamReleased'
    <3> SUFFICES ASSUME NEW v \in Wallets, stream[v] # "off", watchers'[v] = None
                 PROVE  \E j \in closing' : obj'[j].addr = v
        BY DEF UpstreamReleased
    <3>1. CASE v = w
        BY <2>1, <2>2, <2>3, <3>1
    <3>2. CASE v # w
      <4>1. PICK j \in closing : obj[j].addr = v
          BY <2>3, <3>2 DEF IInv, UpstreamReleased
      <4> QED BY <1>1, <2>1, <2>3, <4>1 DEF IInv, TypeOK
    <3> QED BY <3>1, <3>2
  <2>10. CreatedOnceWhenLive'
      BY DEF IInv, CreatedOnceWhenLive
  <2> QED BY <2>5, <2>6, <2>7, <2>8, <2>9, <2>10 DEF IInv
<1>3. CASE ~(o.browserRefs = 0 /\ o.retained = 0)
  <2>1. UNCHANGED <<watchers, closing>> /\ obj' = [obj EXCEPT ![i] = o]
      BY <1>3 DEF Teardown
  <2>2. obj'[i] = o /\ \A j \in Watchers \ {i} : obj'[j] = obj[j]
      BY <2>1 DEF IInv, TypeOK
  <2>3. Counted'
    <3> SUFFICES ASSUME NEW v \in Wallets
                 PROVE  IF watchers[v] = None THEN Counting(v)' = {} /\ ~Retaining(v)'
                        ELSE /\ obj'[watchers[v]].addr = v /\ ~obj'[watchers[v]].stopped
                             /\ obj'[watchers[v]].browserRefs = Cardinality(Counting(v)')
                             /\ obj'[watchers[v]].retained = IF Retaining(v)' THEN 1 ELSE 0
                             /\ obj'[watchers[v]].browserRefs + obj'[watchers[v]].retained > 0
        BY <2>1 DEF Counted
    <3>1. CASE v = w
      <4>1. o.browserRefs \in Nat /\ o.retained \in Nat
          BY DEF WalletWatcher
      <4> QED BY <1>1, <1>3, <2>2, <3>1, <4>1
    <3>2. CASE v # w /\ watchers[v] = None
        BY <3>2 DEF IInv, Counted
    <3>3. CASE v # w /\ watchers[v] # None
      <4>1. watchers[v] \in Watchers \ {i}
          BY <1>1, <3>3, CurrentFacts
      <4> QED BY <2>2, <3>3, <4>1, CurrentFacts
    <3> QED BY <3>1, <3>2, <3>3
  <2>4. Objects'
    <3>1. \A j \in Watchers : Current(j)' <=> Current(j)
        BY <2>1 DEF Current
    <3> QED BY <2>1, <2>2, <3>1 DEF IInv, Objects
  <2>5. Booting'
      BY <2>1 DEF IInv, Booting
  <2>6. Remembered' /\ CreatedOnceWhenLive'
    <3>1. \A v \in Wallets : watchers[v] # None =>
             /\ obj'[watchers[v]].state = obj[watchers[v]].state
             /\ obj'[watchers[v]].orders = obj[watchers[v]].orders
        BY <2>2, CurrentFacts
    <3> QED BY <2>1, <3>1, MemoryStays
  <2>7. UpstreamReleased'
      BY <2>1, <2>2 DEF IInv, TypeOK, UpstreamReleased
  <2> QED BY <2>3, <2>4, <2>5, <2>6, <2>7 DEF IInv
<1> QED BY <1>2, <1>3

LEMMA UnsubscribeStep ==
  ASSUME IInv, NEW c \in Clients, UnsubscribeWatcher(c)
  PROVE  IInv'
<1>1. PICK w \in Wallets : w = cw[c] /\ watchers[w] # None
    BY DEF UnsubscribeWatcher, IInv, Objects
<1>2. PICK i \in Watchers : i = watchers[w]
    BY <1>1, CurrentFacts
<1>3. c \in Counting(w)
    BY <1>1 DEF UnsubscribeWatcher, Counting
<1>4. /\ obj[i].browserRefs = Cardinality(Counting(w)) /\ obj[i].browserRefs \in Nat
      /\ obj[i].browserRefs > 0
      /\ obj[i].retained = IF Retaining(w) THEN 1 ELSE 0
    BY <1>1, <1>2, <1>3, CurrentFacts, CountingFinite
<1> DEFINE o == [obj[i] EXCEPT !.browserRefs = obj[i].browserRefs - 1]
<1>5. /\ Teardown(i, w, o) /\ cpc[c] = "leaving"
      /\ cpc' = [cpc EXCEPT ![c] = "out"] /\ cw' = [cw EXCEPT ![c] = None]
      /\ UNCHANGED <<pc, snap, badge, held, toRetain, toRelease, supAt, stream, drops, created>>
    BY <1>1, <1>2, <1>4 DEF UnsubscribeWatcher, supVars, upVars
<1>6. /\ o \in WalletWatcher /\ o.addr = obj[i].addr /\ o.stopped = obj[i].stopped
      /\ o.state = obj[i].state /\ o.orders = obj[i].orders /\ o.retained = obj[i].retained
      /\ o.browserRefs = obj[i].browserRefs - 1
  <2>1. obj[i].browserRefs - 1 \in Nat /\ obj[i] \in WalletWatcher
      BY <1>4, ObjectType DEF IInv
  <2>2. o \in WalletWatcher
      BY <2>1, FieldSet
  <2> QED BY <2>1, <2>2 DEF WalletWatcher
<1> HIDE DEF o
<1>7. Counting(w)' = Counting(w) \ {c} /\ \A v \in Wallets \ {w} : Counting(v)' = Counting(v)
    BY <1>1, <1>5 DEF IInv, TypeOK, Counting
<1>8. IsFiniteSet(Counting(w)') /\ Cardinality(Counting(w)') = obj[i].browserRefs - 1
    BY <1>3, <1>4, <1>7, CountingFinite, FS_RemoveElement
<1>9. \A v \in Wallets : Retaining(v)' <=> Retaining(v)
    BY <1>5 DEF Retaining
<1>10. TypeOK'
  <2>1. /\ [o EXCEPT !.stopped = TRUE] \in WalletWatcher /\ watchers' \in [Wallets -> Watchers \cup {None}]
        /\ closing' \in SUBSET Watchers
      BY <1>5, <1>6, FieldSet DEF Teardown, IInv, TypeOK
  <2>2. obj' \in [Watchers -> WalletWatcher]
    <3>1. \/ obj' = [obj EXCEPT ![i] = o]
          \/ obj' = [obj EXCEPT ![i] = [o EXCEPT !.stopped = TRUE]]
        BY <1>5 DEF Teardown
    <3> QED BY <1>6, <2>1, <3>1 DEF IInv, TypeOK
  <2> QED BY <1>5, <2>1, <2>2 DEF IInv, TypeOK
<1>11. Supervised' /\ \A d \in Clients : cpc'[d] # "out" => cw'[d] \in Wallets
    BY <1>5 DEF IInv, TypeOK, Supervised, Objects
<1>12. \A j \in Watchers, v \in Wallets : Called(j, v) => Called(j, v)'
    BY <1>5, <1>9 DEF IInv, TypeOK, Called
<1>13. o.browserRefs = Cardinality(Counting(w)') /\ o.retained = IF Retaining(w)' THEN 1 ELSE 0
    BY <1>4, <1>6, <1>8, <1>9
<1> QED BY <1>2, <1>5, <1>6, <1>7, <1>8, <1>9, <1>10, <1>11, <1>12, <1>13, LeaveStep

LEMMA ReleaseStep ==
  ASSUME IInv, NEW w \in Wallets, Release(w)
  PROVE  IInv'
<1>1. PICK i \in Watchers : i = watchers[w] /\ watchers[w] # None
    BY CurrentFacts DEF Release
<1>2. supAt = None /\ w \in toRelease /\ Retaining(w)
    BY DEF Release, Retaining
<1>3. /\ obj[i].browserRefs = Cardinality(Counting(w)) /\ obj[i].retained = 1
    BY <1>1, <1>2, CurrentFacts
<1> DEFINE o == [obj[i] EXCEPT !.retained = 0]
<1>4. /\ Teardown(i, w, o) /\ supAt' = (IF watchers'[w] = None THEN i ELSE None)
      /\ toRelease' = toRelease \ {w}
      /\ UNCHANGED <<pc, snap, cpc, cw, badge, held, toRetain, stream, drops, created>>
    BY <1>1, <1>3 DEF Release, clientVars, upVars
<1>5. /\ o \in WalletWatcher /\ o.addr = obj[i].addr /\ o.stopped = obj[i].stopped
      /\ o.state = obj[i].state /\ o.orders = obj[i].orders /\ o.retained = 0
      /\ o.browserRefs = obj[i].browserRefs
  <2>1. obj[i] \in WalletWatcher
      BY ObjectType DEF IInv
  <2>2. o \in WalletWatcher
      BY <2>1, FieldSet
  <2> QED BY <2>1, <2>2 DEF WalletWatcher
<1> HIDE DEF o
<1>6. ~Retaining(w)' /\ \A v \in Wallets \ {w} : Retaining(v)' <=> Retaining(v)
    BY <1>2, <1>4 DEF IInv, Supervised, Retaining
<1>7. \A v \in Wallets : Counting(v)' = Counting(v)
    BY <1>4 DEF Counting
<1>8. TypeOK'
  <2>1. /\ [o EXCEPT !.stopped = TRUE] \in WalletWatcher /\ watchers' \in [Wallets -> Watchers \cup {None}]
        /\ closing' \in SUBSET Watchers
      BY <1>4, <1>5, FieldSet DEF Teardown, IInv, TypeOK
  <2>2. obj' \in [Watchers -> WalletWatcher]
    <3>1. \/ obj' = [obj EXCEPT ![i] = o]
          \/ obj' = [obj EXCEPT ![i] = [o EXCEPT !.stopped = TRUE]]
        BY <1>4 DEF Teardown
    <3> QED BY <1>5, <2>1, <3>1 DEF IInv, TypeOK
  <2> QED BY <1>4, <2>1, <2>2 DEF IInv, TypeOK
<1>9. Supervised' /\ \A d \in Clients : cpc'[d] # "out" => cw'[d] \in Wallets
    BY <1>4 DEF IInv, Supervised, Objects
<1>10. \A j \in Watchers, v \in Wallets : Called(j, v) => Called(j, v)'
    BY <1>2, <1>4, WatcherAssumption DEF Called
<1>11. o.browserRefs = Cardinality(Counting(w)') /\ o.retained = IF Retaining(w)' THEN 1 ELSE 0
    BY <1>3, <1>5, <1>6, <1>7
<1>12. IsFiniteSet(Counting(w)')
    BY <1>7, CountingFinite
<1> QED BY <1>1, <1>4, <1>5, <1>6, <1>7, <1>8, <1>9, <1>10, <1>11, <1>12, LeaveStep

LEMMA ReconcileStep ==
  ASSUME IInv, NEW desired \in SUBSET Wallets, Reconcile(desired)
  PROVE  IInv'
<1>1. /\ supAt = None /\ toRetain = {} /\ toRelease = {}
      /\ held' = desired /\ toRetain' = desired \ held /\ toRelease' = held \ desired
      /\ UNCHANGED <<watchers, obj, pc, snap, closing, cpc, cw, badge, supAt, stream, drops, created>>
    BY DEF Reconcile, watchVars, clientVars, upVars
<1>2. TypeOK'
    BY <1>1 DEF IInv, TypeOK
<1>3. \A w \in Wallets : Counting(w)' = Counting(w) /\ (Retaining(w)' <=> Retaining(w))
    BY <1>1 DEF Counting, Retaining
<1>4. Counted'
    BY <1>1, <1>3, CountsStay
<1>5. Objects' /\ Supervised'
    BY <1>1 DEF IInv, Objects, Supervised, Current
<1>6. Booting'
    BY <1>1, <1>3 DEF IInv, Booting, Called
<1>7. Remembered' /\ CreatedOnceWhenLive'
    BY <1>1, MemoryStays
<1>8. UpstreamReleased'
    BY <1>1 DEF IInv, UpstreamReleased
<1> QED BY <1>2, <1>4, <1>5, <1>6, <1>7, <1>8 DEF IInv
\* Clients and the supervisor that i served go on, nobody else is concerned.
Returned(i) ==
  /\ \A c \in Clients : \/ cpc'[c] = cpc[c]
                        \/ cpc[c] = "boot" /\ cpc'[c] = "in" /\ watchers[cw[c]] = i
  /\ supAt' = supAt \/ supAt = i

LEMMA UsersStay ==
  ASSUME IInv, NEW i \in Watchers, Returned(i), UNCHANGED <<cw, held, toRetain, toRelease>>
  PROVE  /\ \A w \in Wallets : Counting(w)' = Counting(w) /\ (Retaining(w)' <=> Retaining(w))
         /\ \A c \in Clients : cpc'[c] # "out" => cw'[c] \in Wallets
         /\ \A j \in Watchers \ {i}, w \in Wallets :
              watchers[w] = j /\ Called(j, w) => Called(j, w)'
<1>1. \A w \in Wallets : Counting(w)' = Counting(w)
    BY DEF Returned, Counting
<1>2. \A w \in Wallets : Retaining(w)' <=> Retaining(w)
    BY DEF Retaining
<1>3. \A c \in Clients : cpc'[c] # "out" => cw'[c] \in Wallets
    BY DEF Returned, IInv, Objects
<1>4. ASSUME NEW j \in Watchers \ {i}, NEW w \in Wallets, watchers[w] = j, Called(j, w)
      PROVE  Called(j, w)'
  <2>1. CASE \E c \in Clients : cpc[c] = "boot" /\ cw[c] = w
    <3>1. PICK c \in Clients : cpc[c] = "boot" /\ cw[c] = w
        BY <2>1
    <3>2. cpc'[c] = "boot"
        BY <1>4, <3>1 DEF Returned
    <3> QED BY <3>1, <3>2 DEF Called
  <2>2. CASE supAt = j /\ Retaining(w)
    <3>1. supAt' = j /\ Retaining(w)'
        BY <1>2, <2>2 DEF Returned
    <3> QED BY <3>1 DEF Called
  <2> QED BY <1>4, <2>1, <2>2 DEF Called
<1> QED BY <1>1, <1>2, <1>3, <1>4

\* A bootstrap goes on: nobody joins or leaves.
LEMMA GoesOn ==
  ASSUME IInv, NEW i \in Watchers, pc[i] # "none", TypeOK', Returned(i),
         UNCHANGED <<watchers, closing, cw, held, toRetain, toRelease, stream, created>>,
         obj'[i].addr = obj[i].addr, obj'[i].browserRefs = obj[i].browserRefs,
         obj'[i].retained = obj[i].retained, obj'[i].stopped = obj[i].stopped,
         obj'[i].state = "LIVE" => pc'[i] = "none" \/ obj[i].stopped,
         \A j \in Watchers \ {i} : obj'[j] = obj[j] /\ pc'[j] = pc[j],
         pc'[i] \in {"begin", "upstream", "gate"} =>
           pc[i] \in {"begin", "upstream", "gate"} /\ UNCHANGED <<cpc, supAt>>
  PROVE  IInv'
<1>1. /\ \A w \in Wallets : Counting(w)' = Counting(w) /\ (Retaining(w)' <=> Retaining(w))
      /\ \A c \in Clients : cpc'[c] # "out" => cw'[c] \in Wallets
      /\ \A j \in Watchers \ {i}, w \in Wallets :
           watchers[w] = j /\ Called(j, w) => Called(j, w)'
    BY UsersStay
<1>2. Counted'
  <2>1. \A w \in Wallets : watchers[w] # None =>
           /\ obj'[watchers[w]].addr = obj[watchers[w]].addr
           /\ obj'[watchers[w]].browserRefs = obj[watchers[w]].browserRefs
           /\ obj'[watchers[w]].retained = obj[watchers[w]].retained
           /\ obj'[watchers[w]].stopped = obj[watchers[w]].stopped
      BY CurrentFacts
  <2> QED BY <1>1, <2>1, CountsStay
<1>3. Objects'
  <2>1. \A j \in Watchers : Current(j)' <=> Current(j)
      BY DEF Current
  <2> QED BY <1>1, <2>1 DEF IInv, Objects
<1>4. Supervised'
    BY DEF IInv, Supervised
<1>5. Booting'
  <2> SUFFICES ASSUME NEW j \in Watchers, pc'[j] \in {"begin", "upstream", "gate"}
               PROVE  \E w \in Wallets : watchers[w] = j /\ Called(j, w)'
      BY DEF Booting
  <2>1. PICK w \in Wallets : watchers[w] = j /\ Called(j, w)
      BY DEF IInv, Booting
  <2>2. CASE j = i
    <3>1. UNCHANGED <<cpc, supAt>>
        BY <2>2
    <3> QED BY <1>1, <2>1, <3>1 DEF Called
  <2>3. CASE j # i
      BY <1>1, <2>1, <2>3
  <2> QED BY <2>2, <2>3
<1>6. Remembered'
  <2> SUFFICES ASSUME NEW w \in Wallets, watchers[w] # None
               PROVE  /\ obj'[watchers[w]].state = "LIVE" => pc'[watchers[w]] = "none"
                      /\ \A e \in created[watchers[w]] : e.at = "LIVE" =>
                            /\ obj'[watchers[w]].state = "LIVE"
                            /\ e.oid \in obj'[watchers[w]].orders
      BY DEF Remembered
  <2>1. watchers[w] \in Watchers
      BY CurrentFacts
  <2>2. CASE watchers[w] = i
      BY <2>2, CurrentFacts DEF IInv, Remembered
  <2>3. CASE watchers[w] # i
      BY <2>1, <2>3 DEF IInv, Remembered
  <2> QED BY <2>2, <2>3
<1>7. CreatedOnceWhenLive'
    BY DEF IInv, CreatedOnceWhenLive
<1>8. UpstreamReleased'
    BY DEF IInv, TypeOK, UpstreamReleased
<1> QED BY <1>2, <1>3, <1>4, <1>5, <1>6, <1>7, <1>8 DEF IInv

\* What is left of a watcher that was torn down goes: its goroutine ends, its
\* upstream is closed, or both have happened and nothing refers to it.
LEMMA Fades ==
  ASSUME IInv, NEW i \in Watchers, obj[i].stopped, TypeOK', Returned(i),
         UNCHANGED <<watchers, cw, held, toRetain, toRelease, created>>,
         obj'[i] = obj[i] \/ (obj'[i] = Blank /\ pc'[i] = "none" /\ i \notin closing'),
         \A j \in Watchers \ {i} : obj'[j] = obj[j] /\ pc'[j] = pc[j],
         pc'[i] = pc[i] \/ pc'[i] = "none",
         closing' \subseteq closing, closing \ {i} \subseteq closing',
         \A w \in Wallets : stream'[w] = stream[w] \/ stream'[w] = "off",
         i \in closing /\ i \notin closing' => stream'[obj[i].addr] = "off"
  PROVE  IInv'
<1>1. /\ \A w \in Wallets : Counting(w)' = Counting(w) /\ (Retaining(w)' <=> Retaining(w))
      /\ \A c \in Clients : cpc'[c] # "out" => cw'[c] \in Wallets
      /\ \A j \in Watchers \ {i}, w \in Wallets :
           watchers[w] = j /\ Called(j, w) => Called(j, w)'
    BY UsersStay
<1>2. \A w \in Wallets : watchers[w] # None => watchers[w] \in Watchers \ {i}
    BY CurrentFacts
<1>3. Counted'
    BY <1>1, <1>2, CountsStay
<1>4. Objects'
  <2>1. \A j \in Watchers : Current(j)' <=> Current(j)
      BY DEF Current
  <2>2. ASSUME NEW j \in Watchers
        PROVE  /\ pc'[j] # "none" => Current(j)' \/ obj'[j].stopped
               /\ j \in closing' => obj'[j].stopped
               /\ obj'[j].stopped => obj'[j].addr \in Wallets
    <3>1. ~Blank.stopped
        BY DEF Blank
    <3>2. CASE j = i
        BY <3>1, <3>2 DEF IInv, Objects
    <3>3. CASE j # i
        BY <2>1, <3>3 DEF IInv, Objects
    <3> QED BY <3>2, <3>3
  <2> QED BY <1>1, <2>2 DEF Objects
<1>5. Supervised'
    BY DEF IInv, Supervised
<1>6. Booting'
  <2> SUFFICES ASSUME NEW j \in Watchers, pc'[j] \in {"begin", "upstream", "gate"}
               PROVE  \E w \in Wallets : watchers[w] = j /\ Called(j, w)'
      BY DEF Booting
  <2>1. pc[j] \in {"begin", "upstream", "gate"}
      OBVIOUS
  <2>2. PICK w \in Wallets : watchers[w] = j /\ Called(j, w)
      BY <2>1 DEF IInv, Booting
  <2>3. j # i
      BY <1>2, <2>2, WatcherAssumption
  <2> QED BY <1>1, <2>2, <2>3
<1>7. Remembered' /\ CreatedOnceWhenLive'
    BY <1>2, MemoryStays
<1>8. UpstreamReleased'
  <2> SUFFICES ASSUME NEW w \in Wallets, stream'[w] # "off", watchers[w] = None
               PROVE  \E j \in closing' : obj'[j].addr = w
      BY DEF UpstreamReleased
  <2>1. PICK j \in closing : obj[j].addr = w
      BY DEF IInv, UpstreamReleased
  <2>2. j \in closing' /\ j \in Watchers
      BY <2>1 DEF IInv, TypeOK
  <2> QED BY <2>1, <2>2
<1> QED BY <1>3, <1>4, <1>5, <1>6, <1>7, <1>8 DEF IInv

-----------------------------------------------------------------------------
(* The bootstrap and the end of a watcher.                                 *)

\* A control point moves, and what the hub's clients are told are states.
LEMMA PointMoves ==
  ASSUME IInv, NEW i \in Watchers,
         NEW p \in {"none", "begin", "upstream", "gate", "parked", "fetch", "store", "live"},
         pc' = [pc EXCEPT ![i] = p]
  PROVE  /\ pc' \in [Watchers -> {"none", "begin", "upstream", "gate", "parked",
                                  "fetch", "store", "live"}]
         /\ pc'[i] = p /\ \A j \in Watchers \ {i} : pc'[j] = pc[j]
BY DEF IInv, TypeOK

LEMMA BadgeType ==
  ASSUME IInv, NEW i \in Watchers, NEW st \in States, EmitState(i, st)
  PROVE  badge' \in [Clients -> States \cup {None}]
BY DEF IInv, TypeOK, EmitState

LEMMA StateSet ==
  ASSUME IInv, NEW i \in Watchers, NEW st \in States, obj' = [obj EXCEPT ![i].state = st]
  PROVE  /\ obj' \in [Watchers -> WalletWatcher]
         /\ obj'[i].addr = obj[i].addr /\ obj'[i].browserRefs = obj[i].browserRefs
         /\ obj'[i].retained = obj[i].retained /\ obj'[i].stopped = obj[i].stopped
         /\ obj'[i].orders = obj[i].orders /\ obj'[i].state = st
         /\ \A j \in Watchers \ {i} : obj'[j] = obj[j]
<1>1. obj' \in [Watchers -> WalletWatcher]
    BY ObjectSet DEF IInv
<1> QED BY <1>1 DEF IInv, TypeOK, WalletWatcher

LEMMA ReturnType ==
  ASSUME IInv, NEW i \in Watchers, ReturnFrom(i)
  PROVE  /\ cpc' \in [Clients -> {"out", "hub", "boot", "in", "leaving"}]
         /\ supAt' \in Watchers \cup {None}
         /\ Returned(i)
<1>1. cpc' \in [Clients -> {"out", "hub", "boot", "in", "leaving"}]
    BY DEF IInv, TypeOK, ReturnFrom
<1>2. supAt' \in Watchers \cup {None}
    BY DEF IInv, TypeOK, ReturnFrom
<1>3. Returned(i)
    BY DEF ReturnFrom, Returned
<1> QED BY <1>1, <1>2, <1>3

LEMMA BootReconnectStep ==
  ASSUME IInv, NEW i \in Watchers, BootReconnect(i)
  PROVE  IInv'
<1>1. /\ pc[i] = "begin" /\ pc' = [pc EXCEPT ![i] = "upstream"]
      /\ obj' = [obj EXCEPT ![i].state = "RECONNECT"] /\ EmitState(i, "RECONNECT")
      /\ UNCHANGED <<watchers, snap, closing, cpc, cw, held, toRetain, toRelease, supAt,
                     stream, drops, created>>
    BY DEF BootReconnect, SetState, supVars, upVars
<1>2. "RECONNECT" \in States
    BY DEF States
<1>3. TypeOK'
    BY <1>1, <1>2, PointMoves, BadgeType, StateSet DEF IInv, TypeOK
<1>4. Returned(i)
    BY <1>1 DEF Returned
<1>5. /\ pc'[i] = "upstream" /\ obj'[i].state = "RECONNECT"
      /\ obj'[i].addr = obj[i].addr /\ obj'[i].browserRefs = obj[i].browserRefs
      /\ obj'[i].retained = obj[i].retained /\ obj'[i].stopped = obj[i].stopped
      /\ \A j \in Watchers \ {i} : obj'[j] = obj[j] /\ pc'[j] = pc[j]
    BY <1>1, <1>2, PointMoves, StateSet
<1> QED BY <1>1, <1>3, <1>4, <1>5, GoesOn

LEMMA BootResyncStep ==
  ASSUME IInv, NEW i \in Watchers, BootResync(i)
  PROVE  IInv'
<1>1. /\ pc[i] = "gate" /\ pc' = [pc EXCEPT ![i] = "fetch"]
      /\ obj' = [obj EXCEPT ![i].state = "RESYNC"] /\ EmitState(i, "RESYNC")
      /\ UNCHANGED <<watchers, snap, closing, cpc, cw, held, toRetain, toRelease, supAt,
                     stream, drops, created>>
    BY DEF BootResync, SetState, supVars, upVars
<1>2. "RESYNC" \in States
    BY DEF States
<1>3. TypeOK'
    BY <1>1, <1>2, PointMoves, BadgeType, StateSet DEF IInv, TypeOK
<1>4. Returned(i)
    BY <1>1 DEF Returned
<1>5. /\ pc'[i] = "fetch" /\ obj'[i].state = "RESYNC"
      /\ obj'[i].addr = obj[i].addr /\ obj'[i].browserRefs = obj[i].browserRefs
      /\ obj'[i].retained = obj[i].retained /\ obj'[i].stopped = obj[i].stopped
      /\ \A j \in Watchers \ {i} : obj'[j] = obj[j] /\ pc'[j] = pc[j]
    BY <1>1, <1>2, PointMoves, StateSet
<1> QED BY <1>1, <1>3, <1>4, <1>5, GoesOn

LEMMA BootParkStep ==
  ASSUME IInv, NEW i \in Watchers, BootPark(i)
  PROVE  IInv'
<1>1. /\ pc[i] = "gate" /\ pc' = [pc EXCEPT ![i] = "parked"] /\ ReturnFrom(i)
      /\ obj' = [obj EXCEPT ![i].state = "RECONNECT"] /\ EmitState(i, "RECONNECT")
      /\ UNCHANGED <<watchers, snap, closing, cw, held, toRetain, toRelease,
                     stream, drops, created>>
    BY DEF BootPark, SetState, upVars
<1>2. "RECONNECT" \in States
    BY DEF States
<1>3. TypeOK'
    BY <1>1, <1>2, PointMoves, BadgeType, StateSet, ReturnType DEF IInv, TypeOK
<1>4. Returned(i)
    BY <1>1, ReturnType
<1>5. /\ pc'[i] = "parked" /\ obj'[i].state = "RECONNECT"
      /\ obj'[i].addr = obj[i].addr /\ obj'[i].browserRefs = obj[i].browserRefs
      /\ obj'[i].retained = obj[i].retained /\ obj'[i].stopped = obj[i].stopped
      /\ \A j \in Watchers \ {i} : obj'[j] = obj[j] /\ pc'[j] = pc[j]
    BY <1>1, <1>2, PointMoves, StateSet
<1> QED BY <1>1, <1>3, <1>4, <1>5, GoesOn

LEMMA ParkedEntersStep ==
  ASSUME IInv, NEW i \in Watchers, ParkedEnters(i)
  PROVE  IInv'
<1>1. /\ pc[i] = "parked" /\ pc' = [pc EXCEPT ![i] = "fetch"]
      /\ UNCHANGED <<watchers, obj, snap, closing, cpc, cw, badge, held, toRetain, toRelease,
                     supAt, stream, drops, created>>
    BY DEF ParkedEnters, clientVars, supVars, upVars
<1>2. TypeOK'
    BY <1>1, PointMoves DEF IInv, TypeOK
<1>3. Returned(i)
    BY <1>1 DEF Returned
<1>4. obj'[i].state # "LIVE" \/ obj[i].stopped
    BY <1>1, WatcherAssumption DEF IInv, Objects, Remembered, Current
<1> QED BY <1>1, <1>2, <1>3, <1>4, PointMoves, GoesOn

LEMMA BootFetchStep ==
  ASSUME IInv, NEW i \in Watchers, BootFetch(i)
  PROVE  IInv'
<1>1. PICK os \in SUBSET Oids : snap' = [snap EXCEPT ![i] = os]
    BY DEF BootFetch
<1>2. /\ pc[i] = "fetch" /\ pc' = [pc EXCEPT ![i] = "store"]
      /\ UNCHANGED <<watchers, obj, closing, cpc, cw, badge, held, toRetain, toRelease,
                     supAt, stream, drops, created>>
    BY DEF BootFetch, clientVars, supVars, upVars
<1>3. snap' \in [Watchers -> SUBSET Oids]
    BY <1>1 DEF IInv, TypeOK
<1>4. TypeOK'
    BY <1>2, <1>3, PointMoves DEF IInv, TypeOK
<1>5. Returned(i)
    BY <1>2 DEF Returned
<1>6. obj'[i].state # "LIVE" \/ obj[i].stopped
    BY <1>2, WatcherAssumption DEF IInv, Objects, Remembered, Current
<1> QED BY <1>2, <1>4, <1>5, <1>6, PointMoves, GoesOn

LEMMA BootStoreStep ==
  ASSUME IInv, NEW i \in Watchers, BootStore(i)
  PROVE  IInv'
<1>1. /\ pc[i] = "store" /\ pc' = [pc EXCEPT ![i] = "live"]
      /\ obj' = [obj EXCEPT ![i].orders = snap[i], ![i].state = "RECONCILE"]
      /\ snap' = [snap EXCEPT ![i] = {}] /\ EmitState(i, "RECONCILE")
      /\ UNCHANGED <<watchers, closing, cpc, cw, held, toRetain, toRelease, supAt,
                     stream, drops, created>>
    BY DEF BootStore, supVars, upVars
<1>2. "RECONCILE" \in States
    BY DEF States
<1>3. snap[i] \in SUBSET Oids /\ obj[i] \in WalletWatcher
    BY DEF IInv, TypeOK
<1>4. PICK o \in WalletWatcher : o = [obj[i] EXCEPT !.orders = snap[i], !.state = "RECONCILE"]
    BY <1>2, <1>3 DEF WalletWatcher
<1>5. obj' = [obj EXCEPT ![i] = o] /\ obj' \in [Watchers -> WalletWatcher]
    BY <1>1, <1>4, ObjectSet DEF IInv, TypeOK
<1>6. /\ o.state = "RECONCILE" /\ o.addr = obj[i].addr /\ o.stopped = obj[i].stopped
      /\ o.browserRefs = obj[i].browserRefs /\ o.retained = obj[i].retained
    BY <1>3, <1>4 DEF WalletWatcher
<1>7. obj'[i] = o /\ \A j \in Watchers \ {i} : obj'[j] = obj[j]
    BY <1>5 DEF IInv, TypeOK
<1>8. snap' \in [Watchers -> SUBSET Oids]
    BY <1>1 DEF IInv, TypeOK
<1>9. TypeOK'
    BY <1>1, <1>2, <1>5, <1>8, PointMoves, BadgeType DEF IInv, TypeOK
<1>10. Returned(i)
    BY <1>1 DEF Returned
<1> QED BY <1>1, <1>6, <1>7, <1>9, <1>10, PointMoves, GoesOn

LEMMA BootLiveStep ==
  ASSUME IInv, NEW i \in Watchers, BootLive(i)
  PROVE  IInv'
<1>1. /\ pc[i] = "live" /\ pc' = [pc EXCEPT ![i] = "none"] /\ ReturnFrom(i)
      /\ EmitState(i, "LIVE")
      /\ UNCHANGED <<watchers, snap, closing, cw, held, toRetain, toRelease,
                     stream, drops, created>>
    BY DEF BootLive, upVars
<1>2. "LIVE" \in States
    BY DEF States
<1>3. Returned(i)
    BY <1>1, ReturnType
<1>4. ASSUME obj' \in [Watchers -> WalletWatcher] PROVE TypeOK'
    BY <1>1, <1>2, <1>4, PointMoves, BadgeType, ReturnType DEF IInv, TypeOK
<1>5. CASE obj[i].stopped /\ i \notin closing
  <2>1. obj' = [obj EXCEPT ![i] = Blank]
      BY <1>5 DEF BootLive
  <2>2. /\ obj' \in [Watchers -> WalletWatcher] /\ obj'[i] = Blank
        /\ \A j \in Watchers \ {i} : obj'[j] = obj[j]
      BY <2>1, BlankType, ObjectSet DEF IInv, TypeOK
  <2> QED BY <1>1, <1>3, <1>4, <1>5, <2>2, PointMoves, Fades
<1>6. CASE ~(obj[i].stopped /\ i \notin closing)
  <2>1. obj' = [obj EXCEPT ![i].state = "LIVE"]
      BY <1>6 DEF BootLive
  <2> QED BY <1>1, <1>2, <1>3, <1>4, <2>1, PointMoves, StateSet, GoesOn
<1> QED BY <1>5, <1>6

LEMMA ParkedStopsStep ==
  ASSUME IInv, NEW i \in Watchers, ParkedStops(i)
  PROVE  IInv'
<1>1. /\ obj[i].stopped /\ pc' = [pc EXCEPT ![i] = "none"]
      /\ obj' = IF i \in closing THEN obj ELSE [obj EXCEPT ![i] = Blank]
      /\ UNCHANGED <<watchers, snap, closing, cpc, cw, badge, held, toRetain, toRelease,
                     supAt, stream, drops, created>>
    BY DEF ParkedStops, clientVars, supVars, upVars
<1>2. /\ obj' \in [Watchers -> WalletWatcher]
      /\ obj'[i] = obj[i] \/ (obj'[i] = Blank /\ i \notin closing')
      /\ \A j \in Watchers \ {i} : obj'[j] = obj[j]
    BY <1>1, BlankType, ObjectSet DEF IInv, TypeOK
<1>3. TypeOK'
    BY <1>1, <1>2, PointMoves DEF IInv, TypeOK
<1>4. Returned(i)
    BY <1>1 DEF Returned
<1> QED BY <1>1, <1>2, <1>3, <1>4, PointMoves, Fades

LEMMA CloseStep ==
  ASSUME IInv, NEW i \in Watchers, CloseUpstream(i)
  PROVE  IInv'
<1>1. /\ i \in closing /\ stream' = [stream EXCEPT ![obj[i].addr] = "off"]
      /\ closing' = closing \ {i}
      /\ obj' = IF pc[i] = "none" THEN [obj EXCEPT ![i] = Blank] ELSE obj
      /\ supAt' = IF supAt = i THEN None ELSE supAt
      /\ UNCHANGED <<watchers, pc, snap, cpc, cw, badge, held, toRetain, toRelease,
                     drops, created>>
    BY DEF CloseUpstream, clientVars
<1>2. obj[i].stopped /\ obj[i].addr \in Wallets
    BY <1>1 DEF IInv, Objects
<1>3. /\ obj' \in [Watchers -> WalletWatcher]
      /\ obj'[i] = obj[i] \/ (obj'[i] = Blank /\ pc'[i] = "none" /\ i \notin closing')
      /\ \A j \in Watchers \ {i} : obj'[j] = obj[j] /\ pc'[j] = pc[j]
    BY <1>1, BlankType, ObjectSet DEF IInv, TypeOK
<1>4. /\ stream'[obj[i].addr] = "off"
      /\ \A w \in Wallets : stream'[w] = stream[w] \/ stream'[w] = "off"
    BY <1>1, <1>2 DEF IInv, TypeOK
<1>5. TypeOK'
    BY <1>1, <1>3 DEF IInv, TypeOK
<1>6. Returned(i)
    BY <1>1 DEF Returned
<1> QED BY <1>1, <1>2, <1>3, <1>4, <1>5, <1>6, Fades

\* A new watcher subscribes upstream while its caller keeps it in the map.
LEMMA BootUpstreamStep ==
  ASSUME IInv, NEW i \in Watchers, BootUpstream(i)
  PROVE  IInv'
<1>1. /\ pc[i] = "upstream" /\ pc' = [pc EXCEPT ![i] = "gate"]
      /\ UNCHANGED <<watchers, obj, snap, closing, cpc, cw, badge, held, toRetain, toRelease,
                     supAt, drops, created>>
    BY DEF BootUpstream, clientVars, supVars
<1>2. PICK w \in Wallets : watchers[w] = i /\ Called(i, w)
    BY <1>1 DEF IInv, Booting
<1>3. watchers[w] # None /\ obj[i].addr = w
    BY <1>2, WatcherAssumption, CurrentFacts
<1>4. /\ stream' \in [Wallets -> {"off", "on", "down"}]
      /\ \A v \in Wallets \ {w} : stream'[v] = stream[v]
    BY <1>3 DEF BootUpstream, IInv, TypeOK
<1>5. pc'[i] = "gate" /\ \A j \in Watchers \ {i} : pc'[j] = pc[j]
    BY <1>1, PointMoves
<1>6. TypeOK'
    BY <1>1, <1>4, PointMoves DEF IInv, TypeOK
<1>7. Counted'
    BY <1>1, CountsStay DEF Counting, Retaining
<1>8. Objects' /\ Supervised'
    BY <1>1, <1>5 DEF IInv, Objects, Supervised, Current
<1>9. Booting'
    BY <1>1, <1>5 DEF IInv, Booting, Called, Retaining
<1>10. Remembered' /\ CreatedOnceWhenLive'
    BY <1>1, <1>5 DEF IInv, Remembered, CreatedOnceWhenLive
<1>11. UpstreamReleased'
    BY <1>1, <1>3, <1>4 DEF IInv, UpstreamReleased
<1> QED BY <1>6, <1>7, <1>8, <1>9, <1>10, <1>11 DEF IInv

\* order.created of an order the watcher does not know.
LEMMA RecordedEvents ==
  ASSUME IInv, NEW i \in Watchers, NEW o \in Oids, RecordCreated(i, o)
  PROVE  /\ created' \in [Watchers -> SUBSET CreatedEvents]
         /\ \A j \in Watchers \ {i} : created'[j] = created[j]
         /\ \A e \in created'[i] :
              \/ e \in created[i]
              \/ /\ e.oid = o /\ e.at = obj[i].state
                 /\ e.before = None \/ \E f \in created[i] : f.oid = o /\ f.at = e.before
<1> DEFINE st == obj[i].state
           earlier == {e.at : e \in {f \in created[i] : f.oid = o}}
           events == IF earlier = {} THEN {[oid |-> o, at |-> st, before |-> None]}
                     ELSE {[oid |-> o, at |-> st, before |-> b] : b \in earlier}
<1>1. created' = [created EXCEPT ![i] = @ \cup events] /\ created \in [Watchers -> SUBSET CreatedEvents]
    BY DEF RecordCreated, IInv, TypeOK
<1>2. st \in States /\ created[i] \in SUBSET CreatedEvents
    BY <1>1, ObjectType DEF IInv
<1>3. \A b \in earlier : b \in States /\ \E f \in created[i] : f.oid = o /\ f.at = b
    BY <1>2 DEF CreatedEvents
<1>4. ASSUME NEW e \in events
      PROVE  /\ e \in CreatedEvents /\ e.oid = o /\ e.at = st
             /\ e.before = None \/ e.before \in earlier
  <2>1. PICK b \in States \cup {None} :
           e = [oid |-> o, at |-> st, before |-> b] /\ (b = None \/ b \in earlier)
      BY <1>3
  <2>2. e \in CreatedEvents
      BY <1>2, <2>1 DEF CreatedEvents
  <2> QED BY <2>1, <2>2
<1>5. created'[i] = created[i] \cup events /\ \A j \in Watchers \ {i} : created'[j] = created[j]
    BY <1>1
<1> HIDE DEF events
<1>6. created' \in [Watchers -> SUBSET CreatedEvents]
    BY <1>1, <1>2, <1>4
<1>7. ASSUME NEW e \in created'[i], e \notin created[i]
      PROVE  /\ e.oid = o /\ e.at = obj[i].state
             /\ e.before = None \/ \E f \in created[i] : f.oid = o /\ f.at = e.before
  <2>1. e \in events
      BY <1>5, <1>7
  <2>2. e.oid = o /\ e.at = st /\ (e.before = None \/ e.before \in earlier)
      BY <1>4, <2>1
  <2> QED BY <1>3, <2>2
<1> QED BY <1>5, <1>6, <1>7

LEMMA OrderStep ==
  ASSUME IInv, NEW w \in Wallets, NEW o \in Oids, OnOrder(w, o)
  PROVE  IInv'
<1>1. PICK i \in Watchers : i = watchers[w] /\ watchers[w] # None
    BY CurrentFacts DEF OnOrder
<1>2. /\ obj' = [obj EXCEPT ![i].orders = @ \cup {o}]
      /\ IF o \in obj[i].orders THEN UNCHANGED created ELSE RecordCreated(i, o)
      /\ UNCHANGED <<watchers, pc, snap, closing, cpc, cw, badge, held, toRetain, toRelease,
                     supAt, stream, drops>>
    BY <1>1 DEF OnOrder, clientVars, supVars, upVars
<1>3. obj[i] \in WalletWatcher /\ obj[i].orders \cup {o} \in SUBSET Oids
    BY ObjectType DEF IInv
<1>4. PICK n \in WalletWatcher : n = [obj[i] EXCEPT !.orders = obj[i].orders \cup {o}]
    BY <1>3, FieldSet
<1>5. obj' = [obj EXCEPT ![i] = n] /\ obj' \in [Watchers -> WalletWatcher]
    BY <1>2, <1>4, ObjectSet DEF IInv, TypeOK
<1>6. /\ n.state = obj[i].state /\ n.addr = obj[i].addr /\ n.stopped = obj[i].stopped
      /\ n.browserRefs = obj[i].browserRefs /\ n.retained = obj[i].retained
      /\ n.orders = obj[i].orders \cup {o}
    BY <1>3, <1>4 DEF WalletWatcher
<1>7. obj'[i] = n /\ \A j \in Watchers \ {i} : obj'[j] = obj[j]
    BY <1>5 DEF IInv, TypeOK
<1>8. /\ created' \in [Watchers -> SUBSET CreatedEvents]
      /\ \A j \in Watchers \ {i} : created'[j] = created[j]
      /\ \A e \in created'[i] :
           \/ e \in created[i]
           \/ /\ e.oid = o /\ e.at = obj[i].state /\ o \notin obj[i].orders
              /\ e.before = None \/ \E f \in created[i] : f.oid = o /\ f.at = e.before
  <2>1. CASE o \in obj[i].orders
      BY <1>2, <2>1 DEF IInv, TypeOK
  <2>2. CASE o \notin obj[i].orders
    <3>1. RecordCreated(i, o)
        BY <1>2, <2>2
    <3> QED BY <2>2, <3>1, RecordedEvents
  <2> QED BY <2>1, <2>2
<1>9. TypeOK'
    BY <1>2, <1>5, <1>8 DEF IInv, TypeOK
<1>10. Counted'
  <2>1. \A v \in Wallets : watchers[v] # None =>
           /\ obj'[watchers[v]].addr = obj[watchers[v]].addr
           /\ obj'[watchers[v]].browserRefs = obj[watchers[v]].browserRefs
           /\ obj'[watchers[v]].retained = obj[watchers[v]].retained
           /\ obj'[watchers[v]].stopped = obj[watchers[v]].stopped
      BY <1>6, <1>7, CurrentFacts
  <2> QED BY <1>2, <2>1, CountsStay DEF Counting, Retaining
<1>11. Objects' /\ Supervised'
    BY <1>2, <1>6, <1>7 DEF IInv, Objects, Supervised, Current
<1>12. Booting'
    BY <1>2 DEF IInv, Booting, Called, Retaining
<1>13. Remembered'
  <2> SUFFICES ASSUME NEW v \in Wallets, watchers[v] # None
               PROVE  /\ obj'[watchers[v]].state = "LIVE" => pc[watchers[v]] = "none"
                      /\ \A e \in created'[watchers[v]] : e.at = "LIVE" =>
                            /\ obj'[watchers[v]].state = "LIVE"
                            /\ e.oid \in obj'[watchers[v]].orders
      BY <1>2 DEF Remembered
  <2>1. watchers[v] \in Watchers
      BY CurrentFacts
  <2>2. /\ obj[watchers[v]].state = "LIVE" => pc[watchers[v]] = "none"
        /\ \A e \in created[watchers[v]] : e.at = "LIVE" =>
              obj[watchers[v]].state = "LIVE" /\ e.oid \in obj[watchers[v]].orders
      BY DEF IInv, Remembered
  <2>3. CASE watchers[v] = i
      BY <1>6, <1>7, <1>8, <2>2, <2>3
  <2>4. CASE watchers[v] # i
      BY <1>7, <1>8, <2>1, <2>2, <2>4
  <2> QED BY <2>3, <2>4
<1>14. CreatedOnceWhenLive'
  <2> SUFFICES ASSUME NEW j \in Watchers, NEW e \in created'[j] PROVE e.before # "LIVE"
      BY DEF CreatedOnceWhenLive
  <2>1. CASE e \in created[j]
      BY <2>1 DEF IInv, CreatedOnceWhenLive
  <2>2. CASE e \notin created[j]
    <3>1. j = i /\ o \notin obj[i].orders
        BY <1>8, <2>2
    <3>2. e.before = None \/ \E f \in created[i] : f.oid = o /\ f.at = e.before
        BY <1>8, <2>2, <3>1
    <3>3. \A f \in created[i] : f.at = "LIVE" => f.oid \in obj[i].orders
        BY <1>1 DEF IInv, Remembered
    <3>4. None # "LIVE"
        BY WatcherAssumption DEF States
    <3> QED BY <3>1, <3>2, <3>3, <3>4
  <2> QED BY <2>1, <2>2
<1>15. UpstreamReleased'
    BY <1>2, <1>6, <1>7 DEF IInv, TypeOK, UpstreamReleased
<1> QED BY <1>9, <1>10, <1>11, <1>12, <1>13, <1>14, <1>15 DEF IInv

\* The connection of a wallet that is streamed breaks and comes back.
LEMMA ConnectionStep ==
  ASSUME IInv, NEW w \in Wallets, UpstreamBreaks(w) \/ UpstreamResumes(w)
  PROVE  IInv'
<1>1. /\ stream' \in [Wallets -> {"off", "on", "down"}] /\ stream[w] # "off"
      /\ \A v \in Wallets \ {w} : stream'[v] = stream[v]
      /\ drops' \in Nat
      /\ UNCHANGED <<watchers, obj, pc, snap, closing, cpc, cw, badge, held, toRetain,
                     toRelease, supAt, created>>
    BY DEF UpstreamBreaks, UpstreamResumes, watchVars, clientVars, supVars, IInv, TypeOK
<1>2. TypeOK'
    BY <1>1 DEF IInv, TypeOK
<1>3. Counted'
    BY <1>1, CountsStay DEF Counting, Retaining
<1>4. Objects' /\ Supervised' /\ Booting'
    BY <1>1 DEF IInv, Objects, Supervised, Booting, Current, Called, Retaining
<1>5. Remembered' /\ CreatedOnceWhenLive'
    BY <1>1, MemoryStays
<1>6. UpstreamReleased'
    BY <1>1 DEF IInv, UpstreamReleased
<1> QED BY <1>2, <1>3, <1>4, <1>5, <1>6 DEF IInv

LEMMA StutterStep == ASSUME IInv, UNCHANGED vars PROVE IInv'
<1>1. UNCHANGED <<watchers, obj, pc, snap, closing, cpc, cw, badge, held, toRetain, toRelease,
                  supAt, stream, drops, created>>
    BY DEF vars, watchVars, clientVars, supVars, upVars
<1>2. TypeOK' /\ Supervised' /\ UpstreamReleased' /\ CreatedOnceWhenLive' /\ Remembered'
    BY <1>1 DEF IInv, TypeOK, Supervised, UpstreamReleased, CreatedOnceWhenLive, Remembered
<1>3. Counted'
    BY <1>1, CountsStay DEF Counting, Retaining
<1>4. Objects' /\ Booting'
    BY <1>1 DEF IInv, Objects, Booting, Current, Called, Retaining
<1> QED BY <1>2, <1>3, <1>4 DEF IInv

LEMMA NextInv == IInv /\ [Next]_vars => IInv'
<1> SUFFICES ASSUME IInv, [Next]_vars PROVE IInv'
    OBVIOUS
<1>1. CASE \E c \in Clients : ClientStep(c)
    BY <1>1, HubStep, SubscribeSharedStep, SubscribeFirstStep, UnsubscribeStep DEF ClientStep
<1>2. CASE SupervisorStep
    BY <1>2, ReconcileStep, RetainSharedStep, RetainFirstStep, ReleaseStep DEF SupervisorStep
<1>3. ASSUME NEW i \in Watchers, BootStep(i) PROVE IInv'
    BY <1>3, BootReconnectStep, BootUpstreamStep, BootResyncStep, BootParkStep, BootFetchStep,
       BootStoreStep, BootLiveStep DEF BootStep
<1>4. CASE \E i \in Watchers : CloseUpstream(i) \/ ParkedEnters(i) \/ ParkedStops(i)
    BY <1>4, CloseStep, ParkedEntersStep, ParkedStopsStep
<1>5. CASE UpstreamStep
    BY <1>5, OrderStep, ConnectionStep DEF UpstreamStep
<1>6. CASE UNCHANGED vars
    BY <1>6, StutterStep
<1> QED BY <1>1, <1>2, <1>3, <1>4, <1>5, <1>6 DEF Next

-----------------------------------------------------------------------------
(* The theorems.                                                           *)

\* The inductive invariant, of every run of the watchers, fair or not.
THEOREM Invariance == Spec => []IInv
<1>1. Init => IInv
    BY InitInv
<1>2. IInv /\ [Next]_vars => IInv'
    BY NextInv
<1> QED BY <1>1, <1>2, PTL DEF Spec

\* However browser clients and the supervisor come and go between the lock of
\* the hub and m.mu (watcher.go, Subscribe, Unsubscribe, Retain and Release), a
\* wallet has a watcher exactly while somebody counts on it, and browserRefs
\* and retained say how many do.
THEOREM CountsAreUsers == Spec => []Counted
<1>1. IInv => Counted
    BY DEF IInv
<1> QED BY <1>1, Invariance, PTL

\* The upstream subscription of a wallet nobody watches is gone, or its
\* Unsubscribe is the next thing the teardown does: a bootstrap in flight does
\* not subscribe after it.
THEOREM NoUpstreamLeaks == Spec => []UpstreamReleased
<1>1. IInv => UpstreamReleased
    BY DEF IInv
<1> QED BY <1>1, Invariance, PTL

\* Once a watcher is LIVE it announces an order as created once: the set of
\* orders it compares with is replaced by the snapshot before that, not after.
THEOREM CreatedOnce == Spec => []CreatedOnceWhenLive
<1>1. IInv => CreatedOnceWhenLive
    BY DEF IInv
<1> QED BY <1>1, Invariance, PTL
=============================================================================

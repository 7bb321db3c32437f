--------------------------- MODULE UserStreamProofs ---------------------------
(***************************************************************************)
(* Proofs about the user streams, for any addresses, connections, capacity *)
(* and number of broken connections: what a listed connection carries, and *)
(* that an address is neither doubled nor lost.                            *)
(*                                                                         *)
(* None of the four properties is inductive.  They hold because an address *)
(* that is on its way from a broken connection to the next is accounted    *)
(* for at every point of handleDrop and reconnect (Holds, Safe), because   *)
(* a connection that left the list carries nothing until its socket is     *)
(* closed (Emptied), and because the identity of a connection is used      *)
(* again only after that (Phases, Closing).                                *)
(***************************************************************************)
EXTENDS UserStream, FiniteSetTheorems, SequenceTheorems, TLAPS

\* Where handleDrop and reconnect of a connection are says what its socket is.
Phases ==
  \A c \in Conns :
    /\ rpc[c] \in {"check", "sleep"} => link[c] = "closed"
    /\ rpc[c] = "drop" => link[c] # "open"
    /\ rpc[c] = "sleep" => toSub[c] # {} /\ toSub[c] \subseteq taken[c]
    /\ rpc[c] = "sleep" => taken[c] \subseteq toSub[c] \cup dropped

ListedInUse == \A c \in Listed : subs[c] # {} /\ link[c] # "closed"

Closing ==
  \A f \in sends : f.op = "close" => link[f.conn] # "closed" /\ f.conn \notin Listed

\* A connection that left the list before its socket is closed: the last
\* Unsubscribe took it out, and closes it.
Emptied ==
  \A c \in Conns : c \notin Listed =>
    /\ link[c] # "closed" => subs[c] = {}
    /\ link[c] = "open" => \E f \in sends : f.op = "close" /\ f.conn = c

Room ==
  \A c \in Conns : Cardinality(subs[c]) <= MaxSubs /\ Cardinality(taken[c]) <= MaxSubs

\* An address is on a connection, or on its way to the next one.
Holds(c, a) ==
  \/ c \in Listed /\ a \in subs[c]
  \/ rpc[c] \in {"drop", "check"} /\ a \in taken[c]
  \/ rpc[c] = "sleep" /\ a \in toSub[c]

Single ==
  \A a \in Addrs \ dropped :
    /\ \A c \in Conns : Holds(c, a) => a \in active
    /\ \A c, d \in Conns : Holds(c, a) /\ Holds(d, a) => c = d

\* It is, and handleDrop has not passed by without taking it.
Safe(c, a) ==
  \/ c \in Listed /\ a \in subs[c] /\ rpc[c] = "none"
  \/ rpc[c] \in {"drop", "check"} /\ a \in taken[c]
  \/ rpc[c] = "sleep" /\ a \in toSub[c]

Kept == \A a \in active \ raced : \E c \in Conns : Safe(c, a)

IInv ==
  /\ TypeOK /\ Phases /\ ListedInUse /\ Closing /\ Emptied
  /\ Room /\ Single /\ Kept
-----------------------------------------------------------------------------

\* The list of connections: what Append and removeUserConn make of it.
LEMMA Appended ==
  ASSUME NEW c \in Conns, conns \in Seq(Conns), IsInjective(conns), c \notin Listed,
         conns' = Append(conns, c)
  PROVE  conns' \in Seq(Conns) /\ IsInjective(conns') /\ Listed' = Listed \cup {c}
<1>1. /\ conns' \in Seq(Conns) /\ Len(conns') = Len(conns) + 1
      /\ \A i \in 1..Len(conns) : conns'[i] = conns[i]
      /\ conns'[Len(conns) + 1] = c
    BY AppendProperties
<1>2. DOMAIN conns' = 1..(Len(conns) + 1) /\ DOMAIN conns = 1..Len(conns) /\ Len(conns) \in Nat
    BY <1>1, LenProperties
<1>3. Listed' = Listed \cup {c}
    BY <1>1, <1>2 DEF Listed
<1>4. IsInjective(conns')
  <2>1. \A i \in 1..Len(conns) : conns[i] # c
      BY DEF Listed
  <2>2. ASSUME NEW i \in 1..(Len(conns) + 1), NEW j \in 1..(Len(conns) + 1), conns'[i] = conns'[j]
        PROVE  i = j
    <3>1. CASE i \in 1..Len(conns) /\ j \in 1..Len(conns)
        BY <1>1, <1>2, <2>2, <3>1 DEF IsInjective
    <3>2. CASE i = Len(conns) + 1 \/ j = Len(conns) + 1
        BY <1>1, <1>2, <2>1, <2>2, <3>2
    <3> QED BY <1>2, <3>1, <3>2
  <2> QED BY <1>2, <2>2 DEF IsInjective
<1> QED BY <1>1, <1>3, <1>4

LEMMA Removed ==
  ASSUME NEW c \in Conns, conns \in Seq(Conns), IsInjective(conns),
         conns' = RemoveUserConn(c)
  PROVE  conns' \in Seq(Conns) /\ IsInjective(conns') /\ Listed' = Listed \ {c}
<1>1. CASE c \notin Listed
    BY <1>1 DEF RemoveUserConn, Listed
<1>2. CASE c \in Listed
  <2> DEFINE n == Len(conns)
             k == CHOOSE i \in 1..n : conns[i] = c
             left == SubSeq(conns, 1, k - 1)
             right == SubSeq(conns, k + 1, n)
  <2>1. k \in 1..n /\ conns[k] = c
      BY <1>2 DEF Listed
  <2>2. conns' = left \o right
      BY <1>2 DEF RemoveUserConn, RemoveAt
  <2>3. n \in Nat /\ DOMAIN conns = 1..n /\ \A i \in 1..n : conns[i] \in Conns
      BY LenProperties
  <2> HIDE DEF k, n
  <2>4. /\ left \in Seq(Conns) /\ Len(left) = k - 1
        /\ \A i \in 1..(k - 1) : left[i] = conns[i]
    <3>1. \A i \in 1..(k - 1) : conns[i] \in Conns
        BY <2>1, <2>3
    <3>2. /\ left \in Seq(Conns) /\ Len(left) = IF 1 <= k - 1 THEN k - 1 - 1 + 1 ELSE 0
          /\ \A i \in 1..(k - 1 - 1 + 1) : left[i] = conns[1 + i - 1]
        BY <2>1, <2>3, <3>1, SubSeqProperties
    <3> QED BY <2>1, <2>3, <3>2
  <2>5. /\ right \in Seq(Conns) /\ Len(right) = n - k
        /\ \A i \in 1..(n - k) : right[i] = conns[k + i]
    <3>1. \A i \in (k + 1)..n : conns[i] \in Conns
        BY <2>1, <2>3
    <3>2. /\ right \in Seq(Conns) /\ Len(right) = IF k + 1 <= n THEN n - (k + 1) + 1 ELSE 0
          /\ \A i \in 1..(n - (k + 1) + 1) : right[i] = conns[k + 1 + i - 1]
        BY <2>1, <2>3, <3>1, SubSeqProperties
    <3> QED BY <2>1, <2>3, <3>2
  <2> HIDE DEF left, right
  <2>6. /\ conns' \in Seq(Conns) /\ Len(conns') = n - 1 /\ DOMAIN conns' = 1..(n - 1)
        /\ \A i \in 1..(n - 1) : conns'[i] = IF i < k THEN conns[i] ELSE conns[i + 1]
    <3>1. /\ conns' \in Seq(Conns) /\ Len(conns') = Len(left) + Len(right)
          /\ \A i \in 1..(Len(left) + Len(right)) :
                conns'[i] = IF i <= Len(left) THEN left[i] ELSE right[i - Len(left)]
        BY <2>2, <2>4, <2>5, ConcatProperties
    <3>2. Len(conns') = n - 1
        BY <2>1, <2>3, <2>4, <2>5, <3>1
    <3>3. ASSUME NEW i \in 1..(n - 1)
          PROVE  conns'[i] = IF i < k THEN conns[i] ELSE conns[i + 1]
      <4>1. CASE i < k
        <5>1. i \in 1..(k - 1)
            BY <2>1, <2>3, <4>1
        <5> QED BY <2>1, <2>3, <2>4, <2>5, <3>1, <4>1, <5>1
      <4>2. CASE ~(i < k)
        <5>1. i - (k - 1) \in 1..(n - k)
            BY <2>1, <2>3, <4>2
        <5>2. conns'[i] = right[i - (k - 1)]
            BY <2>1, <2>3, <2>4, <2>5, <3>1, <4>2
        <5>3. k + (i - (k - 1)) = i + 1
            BY <2>1, <2>3
        <5> QED BY <2>5, <4>2, <5>1, <5>2, <5>3
      <4> QED BY <4>1, <4>2
    <3> QED BY <3>1, <3>2, <3>3, LenProperties
  <2>7. Listed' = Listed \ {c}
    <3>1. ASSUME NEW i \in 1..(n - 1) PROVE conns'[i] \in Listed \ {c}
      <4> DEFINE j == IF i < k THEN i ELSE i + 1
      <4>1. conns'[i] = conns[j] /\ j \in 1..n /\ j # k
          BY <2>1, <2>3, <2>6
      <4> HIDE DEF j
      <4> QED BY <2>1, <2>3, <4>1 DEF Listed, IsInjective, n
    <3>2. ASSUME NEW i \in 1..n, i # k PROVE \E j \in 1..(n - 1) : conns'[j] = conns[i]
      <4>1. CASE i < k
          BY <2>1, <2>3, <2>6, <4>1
      <4>2. CASE i > k
        <5>1. i - 1 \in 1..(n - 1) /\ ~(i - 1 < k) /\ (i - 1) + 1 = i
            BY <2>1, <2>3, <4>2
        <5> QED BY <2>6, <5>1
      <4> QED BY <2>1, <2>3, <3>2, <4>1, <4>2
    <3> QED BY <2>1, <2>6, <3>1, <3>2 DEF Listed, n
  <2>8. IsInjective(conns')
    <3>1. ASSUME NEW i \in 1..(n - 1), NEW j \in 1..(n - 1), conns'[i] = conns'[j]
          PROVE  i = j
      <4> DEFINE p == IF i < k THEN i ELSE i + 1
                 q == IF j < k THEN j ELSE j + 1
      <4>1. p \in 1..n /\ q \in 1..n /\ conns[p] = conns[q]
          BY <2>1, <2>3, <2>6, <3>1
      <4>2. p = q
          BY <2>3, <4>1 DEF IsInjective
      <4> QED BY <2>1, <2>3, <4>2
    <3> QED BY <2>6, <3>1 DEF IsInjective
  <2> QED BY <2>6, <2>7, <2>8
<1> QED BY <1>1, <1>2
-----------------------------------------------------------------------------

LEMMA InitInv == Init => IInv
<1> SUFFICES ASSUME Init PROVE IInv
    OBVIOUS
<1> USE StreamAssumption
<1>1. Listed = {}
    BY DEF Init, Listed
<1>2. TypeOK
    BY DEF Init, TypeOK, IsInjective
<1>3. Phases /\ ListedInUse /\ Closing /\ Emptied
    BY <1>1 DEF Init, Phases, ListedInUse, Closing, Emptied
<1>4. Room
    BY FS_EmptySet DEF Init, Room
<1>5. Single /\ Kept
    BY <1>1 DEF Init, Single, Kept, Holds, Safe
<1> QED BY <1>2, <1>3, <1>4, <1>5 DEF IInv

\* A set of addresses that gets one more, or is a part of another.
LEMMA OneMore ==
  ASSUME NEW S \in SUBSET Addrs, NEW a \in Addrs, Cardinality(S) < MaxSubs
  PROVE  Cardinality(S \cup {a}) <= MaxSubs
<1>1. IsFiniteSet(S)
    BY StreamAssumption, FS_Subset
<1>2. Cardinality(S \cup {a}) = IF a \in S THEN Cardinality(S) ELSE Cardinality(S) + 1
    BY <1>1, FS_AddElement
<1>3. Cardinality(S) \in Nat /\ MaxSubs \in Nat
    BY <1>1, StreamAssumption, FS_CardinalityType
<1> QED BY <1>2, <1>3

LEMMA PartFits ==
  ASSUME NEW S \in SUBSET Addrs, NEW T \in SUBSET S, Cardinality(S) <= MaxSubs
  PROVE  Cardinality(T) <= MaxSubs
<1>1. IsFiniteSet(S) /\ IsFiniteSet(T) /\ Cardinality(T) <= Cardinality(S)
    BY StreamAssumption, FS_Subset
<1> QED BY <1>1, StreamAssumption, FS_CardinalityType

LEMMA SharedStep ==
  ASSUME IInv, NEW a \in Addrs, SubscribeShared(a)
  PROVE  IInv'
<1>1. PICK i \in 1..Len(conns) :
         /\ HasRoom(conns[i])
         /\ subs' = [subs EXCEPT ![conns[i]] = @ \cup {a}]
         /\ sends' = sends \cup {Frame("subscribe", conns[i], a)}
         /\ raced' = IF rpc[conns[i]] = "drop" THEN raced \cup {a} ELSE raced
    BY DEF SubscribeShared
<1>2. PICK c \in Conns : c = conns[i] /\ c \in Listed
    BY ElementOfSeq DEF IInv, TypeOK, Listed
<1>3. /\ HasRoom(c) /\ subs' = [subs EXCEPT ![c] = @ \cup {a}]
      /\ sends' = sends \cup {Frame("subscribe", c, a)}
      /\ raced' = IF rpc[c] = "drop" THEN raced \cup {a} ELSE raced
    BY <1>1, <1>2
<1>4. /\ a \notin active /\ active' = active \cup {a}
      /\ UNCHANGED <<conns, link, server, rpc, taken, toSub, drops, dropped>>
    BY DEF SubscribeShared, dropVars
<1>5. Listed' = Listed
    BY <1>4 DEF Listed
<1>6. TypeOK'
    BY <1>2, <1>3, <1>4 DEF IInv, TypeOK, Frames, Frame
<1>7. Phases' /\ ListedInUse' /\ Closing' /\ Emptied'
  <2>1. Phases' 
      BY <1>4 DEF IInv, Phases
  <2>2. ListedInUse'
      BY <1>2, <1>3, <1>4, <1>5 DEF IInv, TypeOK, ListedInUse
  <2>3. Closing'
      BY <1>3, <1>4, <1>5 DEF IInv, Closing, Frame
  <2>4. Emptied'
      BY <1>2, <1>3, <1>4, <1>5 DEF IInv, TypeOK, Emptied
  <2> QED BY <2>1, <2>2, <2>3, <2>4
<1>8. Room'
    BY <1>2, <1>3, <1>4, OneMore DEF IInv, TypeOK, Room, HasRoom
<1>9. Single'
    BY <1>2, <1>3, <1>4, <1>5 DEF IInv, TypeOK, Single, Holds
<1>10. Kept'
  <2>1. \A d \in Conns, b \in Addrs : Safe(d, b) => Safe(d, b)'
      BY <1>2, <1>3, <1>4, <1>5 DEF IInv, TypeOK, Safe
  <2>2. rpc[c] \in {"none", "drop"}
      BY <1>2 DEF IInv, TypeOK, Phases, ListedInUse
  <2>3. a \in raced' \/ Safe(c, a)'
    <3>1. CASE rpc[c] = "drop"
        BY <1>3, <3>1
    <3>2. CASE rpc[c] = "none"
        BY <1>2, <1>3, <1>4, <1>5, <3>2 DEF IInv, TypeOK, Safe
    <3> QED BY <2>2, <3>1, <3>2
  <2>4. raced \subseteq raced' /\ active \subseteq Addrs
      BY <1>3 DEF IInv, TypeOK
  <2>5. SUFFICES ASSUME NEW b \in (active \ raced)' PROVE \E d \in Conns : Safe(d, b)'
      BY DEF Kept
  <2>6. CASE b = a
      BY <1>2, <2>3, <2>6
  <2>7. CASE b # a
    <3>1. PICK d \in Conns : Safe(d, b)
        BY <1>4, <2>4, <2>7 DEF IInv, Kept
    <3> QED BY <1>4, <2>1, <2>4, <2>7, <3>1
  <2> QED BY <2>6, <2>7
<1> QED BY <1>6, <1>7, <1>8, <1>9, <1>10 DEF IInv

\* Dialling connection c, whose identity nobody uses, for some addresses.
LEMMA Opened ==
  ASSUME IInv, NEW c \in Conns, NEW as \in SUBSET Addrs, as # {}, Open(c, as)
  PROVE  /\ c \notin Listed /\ Listed' = Listed \cup {c} /\ link[c] = "closed"
         /\ conns' \in Seq(Conns) /\ IsInjective(conns')
         /\ subs' = [subs EXCEPT ![c] = as] /\ link' = [link EXCEPT ![c] = "open"]
         /\ server' \in [Conns -> SUBSET Addrs] /\ sends' \in SUBSET Frames
         /\ \A f : f \in sends' /\ f.op = "close" <=> f \in sends /\ f.op = "close"
<1>1. c \notin Listed /\ link[c] = "closed"
    BY DEF Open, IInv, ListedInUse
<1>2. conns' \in Seq(Conns) /\ IsInjective(conns') /\ Listed' = Listed \cup {c}
    BY <1>1, Appended DEF Open, IInv, TypeOK
<1>3. sends' = sends \cup {Frame("subscribe", c, a) : a \in as}
    BY DEF Open
<1> DEFINE new == {Frame("subscribe", c, a) : a \in as}
<1>4. new \in SUBSET Frames /\ \A f \in new : f.op # "close"
  <2>1. \A a \in as : Frame("subscribe", c, a) \in Frames /\ Frame("subscribe", c, a).op # "close"
      BY DEF Frames, Frame
  <2> QED BY <2>1
<1>5. /\ sends' \in SUBSET Frames
      /\ \A f : f \in sends' /\ f.op = "close" <=> f \in sends /\ f.op = "close"
  <2> HIDE DEF new
  <2>1. sends' = sends \cup new
      BY <1>3 DEF new
  <2> QED BY <1>4, <2>1 DEF IInv, TypeOK
<1>6. server' \in [Conns -> SUBSET Addrs]
    BY DEF Open, IInv, TypeOK
<1> QED BY <1>1, <1>2, <1>5, <1>6 DEF Open
LEMMA DialStep ==
  ASSUME IInv, NEW a \in Addrs, SubscribeDial(a)
  PROVE  IInv'
<1>1. PICK c \in Conns : rpc[c] = "none" /\ Open(c, {a})
    BY DEF SubscribeDial
<1>2. /\ a \notin active /\ active' = active \cup {a}
      /\ UNCHANGED <<rpc, taken, toSub, drops, dropped, raced>>
    BY DEF SubscribeDial, dropVars, history
<1>3. /\ c \notin Listed /\ Listed' = Listed \cup {c} /\ link[c] = "closed"
      /\ conns' \in Seq(Conns) /\ IsInjective(conns')
      /\ subs' = [subs EXCEPT ![c] = {a}] /\ link' = [link EXCEPT ![c] = "open"]
      /\ server' \in [Conns -> SUBSET Addrs] /\ sends' \in SUBSET Frames
      /\ \A f : f \in sends' /\ f.op = "close" <=> f \in sends /\ f.op = "close"
    BY <1>1, Opened
<1>4. TypeOK'
    BY <1>2, <1>3 DEF IInv, TypeOK
<1>5. Phases' /\ ListedInUse'
  <2>1. Phases'
      BY <1>1, <1>2, <1>3 DEF IInv, TypeOK, Phases
  <2>3. ListedInUse'
    <3> SUFFICES ASSUME NEW d \in Listed' PROVE subs'[d] # {} /\ link'[d] # "closed"
        BY DEF ListedInUse
    <3>1. CASE d = c
        BY <1>3, <3>1 DEF IInv, TypeOK
    <3>2. CASE d # c
      <4>1. d \in Listed /\ subs'[d] = subs[d] /\ link'[d] = link[d]
          BY <1>3, <3>2 DEF IInv, TypeOK
      <4> QED BY <4>1 DEF IInv, ListedInUse
    <3> QED BY <3>1, <3>2
  <2> QED BY <2>1, <2>3
<1>6. Closing'
    BY <1>2, <1>3 DEF IInv, TypeOK, Frames, Closing
<1>7. Emptied'
    BY <1>2, <1>3 DEF IInv, TypeOK, Frames, Emptied
<1>8. Room'
  <2>1. Cardinality({a}) <= MaxSubs
      BY FS_Singleton, StreamAssumption
  <2> QED BY <1>2, <1>3, <2>1 DEF IInv, TypeOK, Room
<1>9. Single'
    BY <1>1, <1>2, <1>3 DEF IInv, TypeOK, Single, Holds
<1>10. Kept'
  <2>1. ASSUME NEW d \in Conns, NEW b \in Addrs, Safe(d, b) PROVE Safe(d, b)'
      BY <1>2, <1>3, <2>1 DEF IInv, TypeOK, Safe
  <2>2. Safe(c, a)'
      BY <1>1, <1>2, <1>3 DEF IInv, TypeOK, Safe
  <2> QED BY <1>2, <2>1, <2>2 DEF IInv, TypeOK, Kept
<1> QED BY <1>4, <1>5, <1>6, <1>7, <1>8, <1>9, <1>10 DEF IInv

LEMMA UnsubscribeListedStep ==
  ASSUME IInv, NEW a \in Addrs, UnsubscribeListed(a)
  PROVE  IInv'
<1>1. PICK i \in 1..Len(conns) :
         LET c == conns[i] IN
         /\ HasAddr(c, a)
         /\ subs' = [subs EXCEPT ![c] = @ \ {a}]
         /\ \/ /\ subs[c] = {a}
               /\ conns' = RemoveUserConn(c)
               /\ sends' = sends \cup {Frame("close", c, a)}
            \/ /\ subs[c] # {a}
               /\ sends' = sends \cup {Frame("unsubscribe", c, a)}
               /\ UNCHANGED conns
    BY DEF UnsubscribeListed
<1>2. PICK c \in Conns : c = conns[i] /\ c \in Listed
    BY ElementOfSeq DEF IInv, TypeOK, Listed
<1>3. /\ a \in active /\ active' = active \ {a}
      /\ dropped' = dropped \cup {a} /\ raced' = raced \ {a}
      /\ UNCHANGED <<link, server, rpc, taken, toSub, drops>>
    BY DEF UnsubscribeListed, dropVars
<1>4. a \in subs[c] /\ subs' = [subs EXCEPT ![c] = @ \ {a}]
    BY <1>1, <1>2 DEF HasAddr
<1>5. \/ /\ subs[c] = {a}
         /\ conns' \in Seq(Conns) /\ IsInjective(conns') /\ Listed' = Listed \ {c}
         /\ sends' = sends \cup {Frame("close", c, a)}
      \/ /\ subs[c] # {a}
         /\ conns' \in Seq(Conns) /\ IsInjective(conns') /\ Listed' = Listed
         /\ sends' = sends \cup {Frame("unsubscribe", c, a)}
  <2>1. CASE conns' = RemoveUserConn(c) /\ subs[c] = {a} /\ sends' = sends \cup {Frame("close", c, a)}
      BY <2>1, Removed DEF IInv, TypeOK
  <2>2. CASE conns' = conns /\ subs[c] # {a} /\ sends' = sends \cup {Frame("unsubscribe", c, a)}
      BY <2>2 DEF IInv, TypeOK, Listed
  <2> QED BY <1>1, <1>2, <2>1, <2>2
<1>6. TypeOK'
    BY <1>3, <1>4, <1>5 DEF IInv, TypeOK, Frames, Frame
<1>7. Phases'
    BY <1>3 DEF IInv, Phases
<1>8. ListedInUse'
    BY <1>2, <1>3, <1>4, <1>5 DEF IInv, TypeOK, ListedInUse
<1>9. Closing' /\ Emptied'
  <2>1. CASE subs[c] = {a} /\ Listed' = Listed \ {c} /\ sends' = sends \cup {Frame("close", c, a)}
    <3>1. Frame("close", c, a).op = "close" /\ Frame("close", c, a).conn = c
        BY DEF Frame
    <3>2. Closing'
        BY <1>2, <1>3, <2>1, <3>1 DEF IInv, ListedInUse, Closing
    <3>3. Emptied'
      <4> SUFFICES ASSUME NEW d \in Conns, d \notin Listed'
                   PROVE  /\ link[d] # "closed" => subs'[d] = {}
                          /\ link[d] = "open" => \E f \in sends' : f.op = "close" /\ f.conn = d
          BY <1>3 DEF Emptied
      <4>1. CASE d = c
          BY <1>2, <1>4, <2>1, <3>1, <4>1 DEF IInv, TypeOK
      <4>2. CASE d # c
          BY <1>4, <2>1, <4>2 DEF IInv, TypeOK, Emptied
      <4> QED BY <4>1, <4>2
    <3> QED BY <3>2, <3>3
  <2>2. CASE Listed' = Listed /\ sends' = sends \cup {Frame("unsubscribe", c, a)}
    <3>1. Closing'
        BY <1>3, <2>2 DEF IInv, Closing, Frame
    <3>2. Emptied'
        BY <1>2, <1>3, <1>4, <2>2 DEF IInv, TypeOK, Emptied
    <3> QED BY <3>1, <3>2
  <2> QED BY <1>5, <2>1, <2>2
<1>10. Room'
  <2>1. Cardinality(subs[c] \ {a}) <= MaxSubs
      BY PartFits DEF IInv, TypeOK, Room
  <2> QED BY <1>3, <1>4, <2>1 DEF IInv, TypeOK, Room
<1>11. Single'
  <2>1. ASSUME NEW d \in Conns, NEW b \in Addrs, Holds(d, b)' PROVE Holds(d, b)
      BY <1>2, <1>3, <1>4, <1>5, <2>1 DEF IInv, TypeOK, Holds
  <2> QED BY <1>3, <2>1 DEF IInv, Single
<1>12. Kept'
  <2>1. ASSUME NEW d \in Conns, NEW b \in Addrs \ {a}, Safe(d, b) PROVE Safe(d, b)'
      BY <1>2, <1>3, <1>4, <1>5, <2>1 DEF IInv, TypeOK, Safe
  <2> QED BY <1>3, <2>1 DEF IInv, TypeOK, Kept
<1> QED BY <1>6, <1>7, <1>8, <1>9, <1>10, <1>11, <1>12 DEF IInv
LEMMA UnsubscribeUnlistedStep ==
  ASSUME IInv, NEW a \in Addrs, UnsubscribeUnlisted(a)
  PROVE  IInv'
<1>1. /\ active' = active \ {a} /\ dropped' = dropped \cup {a} /\ raced' = raced \ {a}
      /\ UNCHANGED <<conns, subs, link, server, sends, rpc, taken, toSub, drops>>
    BY DEF UnsubscribeUnlisted, connVars, dropVars
<1>2. Listed' = Listed
    BY <1>1 DEF Listed
<1>3. TypeOK' /\ Room'
    BY <1>1 DEF IInv, TypeOK, Room
<1>4. Phases' /\ ListedInUse' /\ Closing' /\ Emptied'
    BY <1>1, <1>2 DEF IInv, Phases, ListedInUse, Closing, Emptied
<1>5. Single' /\ Kept'
    BY <1>1, <1>2 DEF IInv, Single, Kept, Holds, Safe
<1> QED BY <1>3, <1>4, <1>5 DEF IInv

LEMMA FrameStep ==
  ASSUME IInv, NEW f \in sends, WriteFrame(f) \/ CloseConn(f)
  PROVE  IInv'
<1>1. UNCHANGED <<active, conns, subs, rpc, taken, toSub, drops, dropped, raced>>
    BY DEF WriteFrame, CloseConn, dropVars, history
<1>2. Listed' = Listed
    BY <1>1 DEF Listed
<1>3. f.conn \in Conns /\ f.addr \in Addrs
    BY DEF IInv, TypeOK, Frames
<1>4. Room' /\ Single' /\ Kept'
    BY <1>1, <1>2 DEF IInv, Room, Single, Kept, Holds, Safe
<1>5. CASE WriteFrame(f)
  <2>1. UNCHANGED link /\ f.op # "close" /\ sends' = sends \ {f}
      BY <1>5 DEF WriteFrame
  <2>2. TypeOK'
      BY <1>1, <1>3, <1>5 DEF WriteFrame, IInv, TypeOK
  <2>3. Phases' /\ ListedInUse' /\ Closing' /\ Emptied'
      BY <1>1, <1>2, <2>1 DEF IInv, Phases, ListedInUse, Closing, Emptied
  <2> QED BY <1>4, <2>2, <2>3 DEF IInv
<1>6. CASE CloseConn(f)
  <2>1. /\ f.op = "close" /\ sends' = {g \in sends : g.conn # f.conn}
        /\ link' = [link EXCEPT ![f.conn] = "closed"]
        /\ server' = [server EXCEPT ![f.conn] = {}]
      BY <1>6 DEF CloseConn, SendsWithout
  <2>2. f.conn \notin Listed
      BY <2>1 DEF IInv, Closing
  <2>3. TypeOK'
      BY <1>1, <1>3, <2>1 DEF IInv, TypeOK
  <2>4. Phases' /\ ListedInUse'
      BY <1>1, <1>2, <1>3, <2>1, <2>2 DEF IInv, TypeOK, Phases, ListedInUse
  <2>5. Closing'
      BY <1>1, <1>2, <1>3, <2>1 DEF IInv, TypeOK, Frames, Closing
  <2>6. Emptied'
      BY <1>1, <1>2, <1>3, <2>1 DEF IInv, TypeOK, Emptied
  <2> QED BY <1>4, <2>3, <2>4, <2>5, <2>6 DEF IInv
<1> QED BY <1>5, <1>6

LEMMA BreakStep ==
  ASSUME IInv, NEW c \in Conns, ConnBreaks(c)
  PROVE  IInv'
<1>1. /\ link[c] = "open" /\ link' = [link EXCEPT ![c] = "broken"]
      /\ server' = [server EXCEPT ![c] = {}] /\ drops' = drops + 1
      /\ UNCHANGED <<active, conns, subs, sends, rpc, taken, toSub, dropped, raced>>
    BY DEF ConnBreaks, history
<1>2. Listed' = Listed
    BY <1>1 DEF Listed
<1>3. TypeOK'
    BY <1>1 DEF IInv, TypeOK
<1>4. Phases' /\ ListedInUse'
    BY <1>1, <1>2 DEF IInv, TypeOK, Phases, ListedInUse
<1>5. Closing' /\ Emptied'
    BY <1>1, <1>2 DEF IInv, TypeOK, Frames, Closing, Emptied
<1>6. Room' /\ Single' /\ Kept'
    BY <1>1, <1>2 DEF IInv, Room, Single, Kept, Holds, Safe
<1> QED BY <1>3, <1>4, <1>5, <1>6 DEF IInv

\* A step of handleDrop or reconnect that leaves the list and sockets alone.
LEMMA QuietStep ==
  ASSUME IInv, NEW c \in Conns,
         UNCHANGED <<active, conns, subs, link, server, sends, drops, dropped, raced>>,
         TypeOK', Phases', Cardinality(taken'[c]) <= MaxSubs,
         \A d \in Conns \ {c} : taken'[d] = taken[d] /\ toSub'[d] = toSub[d] /\ rpc'[d] = rpc[d],
         \A a \in Addrs : Holds(c, a)' => Holds(c, a),
         \A a \in active : Safe(c, a) => Safe(c, a)'
  PROVE  IInv'
<1>1. Listed' = Listed
    BY DEF Listed
<1>2. ListedInUse' /\ Closing' /\ Emptied'
    BY <1>1 DEF IInv, ListedInUse, Closing, Emptied
<1>3. Room'
    BY DEF IInv, Room
<1>4. Single'
  <2>1. ASSUME NEW d \in Conns, NEW a \in Addrs, Holds(d, a)' PROVE Holds(d, a)
      BY <1>1, <2>1 DEF Holds
  <2> QED BY <2>1 DEF IInv, Single
<1>5. Kept'
  <2>1. ASSUME NEW d \in Conns, NEW a \in active, Safe(d, a) PROVE Safe(d, a)'
      BY <1>1, <2>1 DEF Safe
  <2> QED BY <2>1 DEF IInv, Kept
<1> QED BY <1>2, <1>3, <1>4, <1>5 DEF IInv

LEMMA HandleDropStep ==
  ASSUME IInv, NEW c \in Conns, HandleDrop(c)
  PROVE  IInv'
<1>1. /\ link[c] = "broken" /\ rpc[c] = "none"
      /\ taken' = [taken EXCEPT ![c] = subs[c]] /\ rpc' = [rpc EXCEPT ![c] = "drop"]
      /\ UNCHANGED <<active, conns, subs, link, server, sends, toSub, drops, dropped, raced>>
    BY DEF HandleDrop, connVars, history
<1>2. TypeOK'
    BY <1>1 DEF IInv, TypeOK
<1>3. Phases'
    BY <1>1 DEF IInv, TypeOK, Phases
<1>4. Cardinality(taken'[c]) <= MaxSubs
    BY <1>1 DEF IInv, TypeOK, Room
<1>5. Listed' = Listed
    BY <1>1 DEF Listed
<1>6. \A a \in Addrs : Holds(c, a)' => Holds(c, a)
    BY <1>1, <1>5 DEF IInv, TypeOK, Emptied, Holds
<1>7. \A a \in active : Safe(c, a) => Safe(c, a)'
    BY <1>1, <1>5 DEF IInv, TypeOK, Safe
<1>8. \A d \in Conns \ {c} : taken'[d] = taken[d] /\ toSub'[d] = toSub[d] /\ rpc'[d] = rpc[d]
    BY <1>1 DEF IInv, TypeOK
<1> QED BY <1>1, <1>2, <1>3, <1>4, <1>6, <1>7, <1>8, QuietStep

LEMMA ReconnectCheckStep ==
  ASSUME IInv, NEW c \in Conns, ReconnectCheck(c)
  PROVE  IInv'
<1>1. /\ rpc[c] = "check" /\ toSub' = [toSub EXCEPT ![c] = taken[c] \cap active]
      /\ rpc' = [rpc EXCEPT ![c] = IF taken[c] \cap active = {} THEN "none" ELSE "sleep"]
      /\ UNCHANGED <<active, conns, subs, link, server, sends, taken, drops, dropped, raced>>
    BY DEF ReconnectCheck, connVars, history
<1>2. TypeOK'
    BY <1>1 DEF IInv, TypeOK
<1>3. Phases'
  <2>1. taken[c] \subseteq active \cup dropped
      BY <1>1 DEF IInv, TypeOK, Single, Holds
  <2> QED BY <1>1, <2>1 DEF IInv, TypeOK, Phases
<1>4. Cardinality(taken'[c]) <= MaxSubs
    BY <1>1 DEF IInv, TypeOK, Room
<1>5. Listed' = Listed
    BY <1>1 DEF Listed
<1>6. \A a \in Addrs : Holds(c, a)' => Holds(c, a)
    BY <1>1, <1>5 DEF IInv, TypeOK, Holds
<1>7. \A a \in active : Safe(c, a) => Safe(c, a)'
    BY <1>1, <1>5 DEF IInv, TypeOK, Safe
<1>8. \A d \in Conns \ {c} : taken'[d] = taken[d] /\ toSub'[d] = toSub[d] /\ rpc'[d] = rpc[d]
    BY <1>1 DEF IInv, TypeOK
<1> QED BY <1>1, <1>2, <1>3, <1>4, <1>6, <1>7, <1>8, QuietStep

LEMMA DialFailsStep ==
  ASSUME IInv, NEW c \in Conns, ReconnectDialFails(c)
  PROVE  IInv'
<1>1. /\ rpc[c] = "sleep" /\ rpc' = [rpc EXCEPT ![c] = "check"]
      /\ UNCHANGED <<active, conns, subs, link, server, sends, taken, toSub, drops, dropped, raced>>
    BY DEF ReconnectDialFails, connVars, history
<1>2. TypeOK' /\ Room'
    BY <1>1 DEF IInv, TypeOK, Room
<1>3. Phases'
    BY <1>1 DEF IInv, TypeOK, Phases
<1>4. Listed' = Listed
    BY <1>1 DEF Listed
<1>5. ListedInUse' /\ Closing' /\ Emptied'
    BY <1>1, <1>4 DEF IInv, ListedInUse, Closing, Emptied
<1>6. Single'
  <2>1. ASSUME NEW d \in Conns, NEW a \in Addrs \ dropped, Holds(d, a)' PROVE Holds(d, a)
      BY <1>1, <1>4, <2>1 DEF IInv, TypeOK, Phases, Holds
  <2> QED BY <1>1, <2>1 DEF IInv, Single
<1>7. Kept'
  <2>1. ASSUME NEW d \in Conns, NEW a \in Addrs, Safe(d, a) PROVE Safe(d, a)'
      BY <1>1, <1>4, <2>1 DEF IInv, TypeOK, Phases, Safe
  <2> QED BY <1>1, <2>1 DEF IInv, TypeOK, Kept
<1> QED BY <1>2, <1>3, <1>5, <1>6, <1>7 DEF IInv

LEMMA RemoveStep ==
  ASSUME IInv, NEW c \in Conns, RemoveDropped(c)
  PROVE  IInv'
<1>1. /\ rpc[c] = "drop" /\ conns' = RemoveUserConn(c)
      /\ link' = [link EXCEPT ![c] = "closed"] /\ rpc' = [rpc EXCEPT ![c] = "check"]
      /\ sends' = {f \in sends : f.conn # c}
      /\ UNCHANGED <<active, subs, server, taken, toSub, drops, dropped, raced>>
    BY DEF RemoveDropped, SendsWithout, history
<1>2. conns' \in Seq(Conns) /\ IsInjective(conns') /\ Listed' = Listed \ {c}
    BY <1>1, Removed DEF IInv, TypeOK
<1>3. TypeOK'
    BY <1>1, <1>2 DEF IInv, TypeOK
<1>4. Phases'
    BY <1>1 DEF IInv, TypeOK, Phases
<1>5. ListedInUse' /\ Closing'
    BY <1>1, <1>2 DEF IInv, TypeOK, Frames, ListedInUse, Closing
<1>6. Emptied'
    BY <1>1, <1>2 DEF IInv, TypeOK, Frames, Emptied
<1>7. Room'
    BY <1>1 DEF IInv, Room
<1>8. Single'
  <2>1. ASSUME NEW d \in Conns, NEW a \in Addrs, Holds(d, a)' PROVE Holds(d, a)
      BY <1>1, <1>2, <2>1 DEF IInv, TypeOK, Holds
  <2> QED BY <1>1, <2>1 DEF IInv, Single
<1>9. Kept'
  <2>1. ASSUME NEW d \in Conns, NEW a \in Addrs, Safe(d, a) PROVE Safe(d, a)'
      BY <1>1, <1>2, <2>1 DEF IInv, TypeOK, Safe
  <2> QED BY <1>1, <2>1 DEF IInv, TypeOK, Kept
<1> QED BY <1>3, <1>4, <1>5, <1>6, <1>7, <1>8, <1>9 DEF IInv

LEMMA ReconnectOpensStep ==
  ASSUME IInv, NEW c \in Conns, ReconnectOpens(c)
  PROVE  IInv'
<1>1. /\ rpc[c] = "sleep" /\ Open(c, toSub[c]) /\ rpc' = [rpc EXCEPT ![c] = "none"]
      /\ UNCHANGED <<active, taken, toSub, drops, dropped, raced>>
    BY DEF ReconnectOpens, history
<1>2. toSub[c] \in SUBSET Addrs /\ toSub[c] # {} /\ toSub[c] \in SUBSET taken[c]
    BY <1>1 DEF IInv, TypeOK, Phases
<1>3. /\ c \notin Listed /\ Listed' = Listed \cup {c} /\ link[c] = "closed"
      /\ conns' \in Seq(Conns) /\ IsInjective(conns')
      /\ subs' = [subs EXCEPT ![c] = toSub[c]] /\ link' = [link EXCEPT ![c] = "open"]
      /\ server' \in [Conns -> SUBSET Addrs] /\ sends' \in SUBSET Frames
      /\ \A f : f \in sends' /\ f.op = "close" <=> f \in sends /\ f.op = "close"
    BY <1>1, <1>2, Opened
<1>4. TypeOK'
    BY <1>1, <1>2, <1>3 DEF IInv, TypeOK
<1>5. Phases'
    BY <1>1, <1>3 DEF IInv, TypeOK, Phases
<1>6. ListedInUse'
    BY <1>2, <1>3 DEF IInv, TypeOK, ListedInUse
<1>7. Closing'
    BY <1>3 DEF IInv, TypeOK, Frames, Closing
<1>8. Emptied'
    BY <1>3 DEF IInv, TypeOK, Frames, Emptied
<1>9. Room'
  <2>1. Cardinality(toSub[c]) <= MaxSubs
      BY <1>2, PartFits DEF IInv, TypeOK, Room
  <2> QED BY <1>1, <1>3, <2>1 DEF IInv, TypeOK, Room
<1>10. Single'
  <2>1. ASSUME NEW d \in Conns, NEW a \in Addrs, Holds(d, a)' PROVE Holds(d, a)
      BY <1>1, <1>3, <2>1 DEF IInv, TypeOK, Holds
  <2> QED BY <1>1, <2>1 DEF IInv, Single
<1>11. Kept'
  <2>1. ASSUME NEW d \in Conns, NEW a \in Addrs, Safe(d, a) PROVE Safe(d, a)'
      BY <1>1, <1>3, <2>1 DEF IInv, TypeOK, Safe
  <2> QED BY <1>1, <2>1 DEF IInv, TypeOK, Kept
<1> QED BY <1>4, <1>5, <1>6, <1>7, <1>8, <1>9, <1>10, <1>11 DEF IInv
-----------------------------------------------------------------------------

LEMMA NextInv == IInv /\ [Next]_vars => IInv'
<1> SUFFICES ASSUME IInv, [Next]_vars PROVE IInv'
    OBVIOUS
<1>1. CASE \E a \in Addrs : Subscribe(a) \/ Unsubscribe(a)
    BY <1>1, SharedStep, DialStep, UnsubscribeListedStep, UnsubscribeUnlistedStep
       DEF Subscribe, Unsubscribe
<1>2. CASE \E f \in sends : WriteFrame(f) \/ CloseConn(f)
    BY <1>2, FrameStep
<1>3. CASE \E c \in Conns : ConnBreaks(c) \/ DropStep(c)
    BY <1>3, BreakStep, HandleDropStep, RemoveStep, ReconnectCheckStep DEF DropStep
<1>4. CASE \E c \in Conns : ReconnectDialFails(c) \/ ReconnectOpens(c)
    BY <1>4, DialFailsStep, ReconnectOpensStep
<1>5. CASE UNCHANGED vars
  <2>1. UNCHANGED <<active, conns, subs, link, server, sends, rpc, taken, toSub, drops,
                    dropped, raced>>
      BY <1>5 DEF vars, connVars, dropVars, history
  <2>2. Listed' = Listed
      BY <2>1 DEF Listed
  <2> QED BY <2>1, <2>2 DEF IInv, TypeOK, Phases, ListedInUse, Closing, Emptied, Room,
                            Single, Kept, Holds, Safe
<1> QED BY <1>1, <1>2, <1>3, <1>4, <1>5 DEF Next

\* The inductive invariant holds: who is listed, what each connection carries,
\* what each reconnect has taken over and still has to put back.
THEOREM Invariance == Spec => []IInv
BY InitInv, NextInv, PTL DEF Spec

\* However connections break and are replaced, no listed connection carries
\* more addresses than the venue allows (Subscribe, reconnect).
THEOREM WithinCapacity == Spec => []Capacity
<1>1. IInv => Capacity
  <2> SUFFICES ASSUME IInv, NEW c \in Listed PROVE Cardinality(subs[c]) <= MaxSubs
      BY DEF Capacity
  <2>1. c \in Conns
      BY ElementOfSeq DEF IInv, TypeOK, Listed
  <2> QED BY <2>1 DEF IInv, Room
<1> QED BY <1>1, Invariance, PTL

\* A connection is listed exactly as long as it serves an address: an open one
\* that is not is about to be closed (Unsubscribe, handleDrop).
THEOREM NoneIdle == Spec => []NoIdleConnections
<1>1. IInv => NoIdleConnections
    BY DEF IInv, ListedInUse, Emptied, NoIdleConnections
<1> QED BY <1>1, Invariance, PTL

\* Whatever breaks, an address that nobody unsubscribed is on one connection
\* at most (reconnect never doubles a subscription).
THEOREM NeverDoubled == Spec => []SingleUnlessUnsubscribed
<1>1. IInv => SingleUnlessUnsubscribed
  <2> SUFFICES ASSUME IInv, NEW a \in Addrs \ dropped, NEW c \in Listed, NEW d \in Listed,
                      HasAddr(c, a), HasAddr(d, a)
               PROVE  c = d
      BY DEF SingleUnlessUnsubscribed
  <2>1. c \in Conns /\ d \in Conns
      BY ElementOfSeq DEF IInv, TypeOK, Listed
  <2> QED BY <2>1 DEF IInv, Single, Holds, HasAddr
<1> QED BY <1>1, Invariance, PTL

\* Whatever breaks, an active address is on a connection or in a reconnect,
\* unless it was put on a connection in the middle of its handleDrop.
THEOREM NeverLost == Spec => []CarriedUnlessRaced
<1>1. IInv => CarriedUnlessRaced
  <2> SUFFICES ASSUME IInv, NEW a \in active \ raced PROVE Carried(a)
      BY DEF CarriedUnlessRaced
  <2>1. PICK c \in Conns : Safe(c, a)
      BY DEF IInv, Kept
  <2> QED BY <2>1 DEF Safe, Carried, HasAddr
<1> QED BY <1>1, Invariance, PTL
=============================================================================

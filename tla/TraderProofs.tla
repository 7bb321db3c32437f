---------------------------- MODULE TraderProofs ----------------------------
(***************************************************************************)
(* Proofs about the wallets: their sync, for any fills, horizon, retention *)
(* and page size, and the live tabs, for any callers and requests, each    *)
(* with any number of failures.                                            *)
(*                                                                         *)
(* CursorNeverAhead: the cursor is never ahead of what is stored.  It is   *)
(* not inductive: that the cursor may move to the newest fetched fill      *)
(* follows from what a pass knows when it does so.  Everything from its    *)
(* start to its now was fetched (FetchedAll), all of that is staged        *)
(* (Staged), and its start leaves no gap after the old cursor but one that *)
(* is older than the retention (StartsInTime).                             *)
(*                                                                         *)
(* RowsHold, PeriodsHold: a daily row is what the wallet did that day, and *)
(* a period row sums such rows.  A pass knows the first k fills, all that  *)
(* are older than its now, and no other (Knows); the buffer has those of   *)
(* them that are recent (Kept); what came before was flat (WasFlat).  So   *)
(* the row it writes is the one after the first k fills (RowRebuilt, from  *)
(* ReconstructionIsRight and CyclesAfterFlat), and a row that it does not  *)
(* write would not change (RowUnplanned, from CyclesBefore).               *)
(*                                                                         *)
(* ReconstructionIsRight: ReconstructTrades yields the trades that the     *)
(* comment of CompletedTrade describes, for the fills of any market.  The  *)
(* fold is a recursive function over the subsets of the fills.  That it    *)
(* has a solution (Solved) and only one (SolvedOnce), and so unfolds one   *)
(* fill at a time (RunUnfolds, PositionUnfolds), is proved from the least  *)
(* element of a set of naturals, and so is the induction over the fills    *)
(* (RunRight): a least counterexample would be a step that breaks          *)
(* RunIsRight (RightStep), which besides the trades says what the open     *)
(* cycle is, the one that begins where the position last changed sign      *)
(* (Opens), of which there is only one (OpensOnce).                        *)
(*                                                                         *)
(* TabsAnswer: a live tab answers with a value that is whole and as young  *)
(* as the time to live says.  Where a call is in GetOrFetch says what it   *)
(* leads and how old the value it holds may be (Fine); who leads a flight  *)
(* fetches, and leads only that one (Flights), which no tick passes twice  *)
(* (Under).  A universe taken from the cache may be about to expire and a  *)
(* tick may pass before what is made of it is stored, a time to live and   *)
(* one tick old then (Lag).  After a look-up that found nothing fresh only *)
(* what was stored at that moment is (Sees).                               *)
(***************************************************************************)
EXTENDS TraderSync, MCReads, WellFoundedInduction, FiniteSetTheorems, TLAPS

-----------------------------------------------------------------------------
(* Reconstruction.                                                         *)

\* The fills of a market that ReconstructTrades may be given: ids that differ,
\* finitely many (an upper bound of the ids), no fill of quantity 0.
AnyFill == [tid : Nat, at : Nat, q : Int \ {0}]
Below(n, S) == \A f \in S : f.tid < n
FillSet(S) ==
  /\ S \subseteq AnyFill
  /\ \A f, g \in S : f.tid = g.tid => f = g
  /\ \E n \in Nat : Below(n, S)

-----------------------------------------------------------------------------
(* Least elements.                                                         *)

\* A set of naturals has a least one: the form of induction used below.
LEMMA LeastExists ==
  ASSUME NEW T \in SUBSET Nat, T # {}
  PROVE  \E m \in T : \A n \in T : m <= n
<1>1. PICK m \in T : \A n \in T : ~(<<n, m>> \in OpToRel(<, Nat))
  <2>1. IsWellFoundedOn(OpToRel(<, Nat), Nat)
      BY NatLessThanWellFounded
  <2> QED BY <2>1, WFMin
<1>2. ASSUME NEW n \in T PROVE m <= n
  <2>1. ~(n < m) /\ n \in Nat /\ m \in Nat
      BY <1>1 DEF OpToRel
  <2> QED BY <2>1
<1> QED BY <1>2

LEMMA SubFills ==
  ASSUME NEW S, FillSet(S), NEW T \in SUBSET S
  PROVE  FillSet(T)
BY DEF FillSet, Below

\* The newest fill of a set is one of them, and above all the others.
LEMMA NewestIsLast ==
  ASSUME NEW S, FillSet(S), S # {}
  PROVE  /\ Newest(S) \in S /\ Newest(S).tid \in Nat
         /\ \A f \in S \ {Newest(S)} : f.tid < Newest(S).tid
<1> DEFINE Bounds == {n \in Nat : Below(n, S)}
<1>1. PICK m \in Bounds : \A n \in Bounds : m <= n
  <2>1. Bounds \in SUBSET Nat /\ Bounds # {}
      BY DEF FillSet
  <2> HIDE DEF Bounds
  <2> QED BY <2>1, LeastExists
<1>2. \A f \in S : f.tid \in Nat
    BY DEF FillSet, AnyFill
<1>3. m \in Nat /\ Below(m, S) /\ m # 0
    BY <1>2 DEF Below
<1>4. PICK f \in S : f.tid = m - 1
  <2>1. m - 1 \in Nat /\ ~(m <= m - 1)
      BY <1>3
  <2>2. ~Below(m - 1, S)
      BY <1>1, <2>1
  <2> QED BY <1>2, <1>3, <2>2 DEF Below
<1>5. \A g \in S : g.tid <= f.tid
    BY <1>2, <1>3, <1>4 DEF Below
<1>6. Newest(S) \in S /\ \A g \in S : g.tid <= Newest(S).tid
    BY <1>5 DEF Newest
<1> QED BY <1>2, <1>6 DEF FillSet

-----------------------------------------------------------------------------
(* The two folds of the module, over one recursion.                        *)

Start(k) == IF k = "position" THEN 0 ELSE [pos |-> 0, cycle |-> NoCycle, trades |-> {}]
Step(k, f, v) == IF k = "position" THEN f.q + v ELSE ApplyFill(f, v)
Unfold(k, g, s) == IF s = {} THEN Start(k) ELSE Step(k, Newest(s), g[s \ {Newest(s)}])

SetsBelow(n, S) == {s \in SUBSET S : Below(n, s)}
IteratesTo(k, g, S, n) == g = [s \in SetsBelow(n, S) |-> Unfold(k, g, s)]
Iterates(k, g, S) == g = [s \in SUBSET S |-> Unfold(k, g, s)]

\* Without its newest fill a set is below that fill.
LEMMA OneLess ==
  ASSUME NEW S, FillSet(S), NEW n \in Nat, NEW s \in SetsBelow(n, S), s # {}
  PROVE  n - 1 \in Nat /\ s \ {Newest(s)} \in SetsBelow(n - 1, S)
<1>1. FillSet(s)
    BY SubFills DEF SetsBelow
<1>2. /\ Newest(s) \in s /\ Newest(s).tid \in Nat
      /\ \A f \in s \ {Newest(s)} : f.tid < Newest(s).tid
    BY <1>1, NewestIsLast
<1>3. Newest(s).tid < n
    BY <1>2 DEF SetsBelow, Below
<1>4. \A f \in s : f.tid \in Nat
    BY <1>1 DEF FillSet, AnyFill
<1>5. \A f \in s \ {Newest(s)} : f.tid < n - 1
    BY <1>2, <1>3, <1>4
<1> QED BY <1>2, <1>3, <1>5 DEF SetsBelow, Below

\* The recursion has a solution on the sets below any bound ...
LEMMA SolvedBelow ==
  ASSUME NEW S, FillSet(S), NEW k
  PROVE  \A n \in Nat : \E g : IteratesTo(k, g, S, n)
<1> DEFINE Bad == {n \in Nat : ~\E g : IteratesTo(k, g, S, n)}
<1> SUFFICES ASSUME Bad # {} PROVE FALSE
    OBVIOUS
<1>1. PICK m \in Bad : \A n \in Bad : m <= n
  <2>1. Bad \in SUBSET Nat
      OBVIOUS
  <2> HIDE DEF Bad
  <2> QED BY <2>1, LeastExists
<1>2. CASE m = 0
  <2> DEFINE g == [s \in SetsBelow(m, S) |-> Start(k)]
  <2>1. \A s \in SetsBelow(m, S) : s = {}
    <3>1. \A s \in SetsBelow(m, S) : s # {} => m - 1 \in Nat
        BY OneLess
    <3> QED BY <1>2, <3>1
  <2>2. IteratesTo(k, g, S, m)
      BY <2>1 DEF IteratesTo, Unfold
  <2> QED BY <2>2
<1>3. CASE m # 0
  <2>1. m \in Nat /\ m - 1 \in Nat /\ ~(m <= m - 1)
      BY <1>3
  <2>2. m - 1 \notin Bad
      BY <1>1, <2>1
  <2>3. PICK h : IteratesTo(k, h, S, m - 1)
      BY <2>1, <2>2
  <2> DEFINE g == [s \in SetsBelow(m, S) |-> Unfold(k, h, s)]
  <2>4. SetsBelow(m - 1, S) \subseteq SetsBelow(m, S)
    <3>1. \A f \in S : f.tid \in Nat
        BY DEF FillSet, AnyFill
    <3>2. \A s \in SUBSET S : Below(m - 1, s) => Below(m, s)
        BY <2>1, <3>1 DEF Below
    <3> QED BY <3>2 DEF SetsBelow
  <2>5. \A t \in SetsBelow(m - 1, S) : g[t] = h[t]
    <3> TAKE t \in SetsBelow(m - 1, S)
    <3>1. g[t] = Unfold(k, h, t)
        BY <2>4
    <3>2. h[t] = Unfold(k, h, t)
        BY <2>3 DEF IteratesTo
    <3> QED BY <3>1, <3>2
  <2>6. ASSUME NEW s \in SetsBelow(m, S)
        PROVE  Unfold(k, h, s) = Unfold(k, g, s)
    <3>1. CASE s = {}
        BY <3>1 DEF Unfold
    <3>2. CASE s # {}
      <4>1. s \ {Newest(s)} \in SetsBelow(m - 1, S)
          BY <2>1, <3>2, OneLess
      <4>2. g[s \ {Newest(s)}] = h[s \ {Newest(s)}]
          BY <2>5, <4>1
      <4> HIDE DEF g
      <4> QED BY <4>2 DEF Unfold
    <3> QED BY <3>1, <3>2
  <2>7. g = [s \in SetsBelow(m, S) |-> Unfold(k, g, s)]
    <3> DEFINE G == g
    <3>1. \A s \in SetsBelow(m, S) : Unfold(k, h, s) = Unfold(k, G, s)
        BY <2>6
    <3> HIDE DEF G
    <3>2. [s \in SetsBelow(m, S) |-> Unfold(k, h, s)] = [s \in SetsBelow(m, S) |-> Unfold(k, G, s)]
        BY <3>1
    <3> QED BY <3>2 DEF G
  <2> QED BY <2>7 DEF IteratesTo
<1> QED BY <1>2, <1>3

\* ... and so on all the subsets of a set.
LEMMA Solved ==
  ASSUME NEW S, FillSet(S), NEW k
  PROVE  \E g : Iterates(k, g, S)
<1>1. PICK n \in Nat : Below(n, S)
    BY DEF FillSet
<1>2. SetsBelow(n, S) = SUBSET S
    BY <1>1 DEF SetsBelow, Below
<1>3. PICK g : IteratesTo(k, g, S, n)
    BY SolvedBelow
<1> QED BY <1>2, <1>3 DEF IteratesTo, Iterates

\* Two solutions agree where both are defined.
LEMMA SolvedOnce ==
  ASSUME NEW S, FillSet(S), NEW R \in SUBSET S, NEW k,
         NEW g, Iterates(k, g, S), NEW h, Iterates(k, h, R)
  PROVE  \A s \in SUBSET R : g[s] = h[s]
<1> DEFINE Bad == {n \in Nat : \E s \in SetsBelow(n, R) : g[s] # h[s]}
<1>1. FillSet(R)
    BY SubFills
<1>2. Bad = {}
  <2> SUFFICES ASSUME Bad # {} PROVE FALSE
      OBVIOUS
  <2>1. PICK m \in Bad : \A n \in Bad : m <= n
    <3>1. Bad \in SUBSET Nat
        OBVIOUS
    <3> HIDE DEF Bad
    <3> QED BY <3>1, LeastExists
  <2>2. PICK s \in SetsBelow(m, R) : g[s] # h[s]
      OBVIOUS
  <2>3. s \in SUBSET R /\ s \in SUBSET S
      BY DEF SetsBelow
  <2>4. g[s] = Unfold(k, g, s) /\ h[s] = Unfold(k, h, s)
      BY <2>3 DEF Iterates
  <2>5. s # {}
      BY <2>2, <2>4 DEF Unfold
  <2>6. m - 1 \in Nat /\ s \ {Newest(s)} \in SetsBelow(m - 1, R)
      BY <1>1, <2>5, OneLess
  <2>7. m - 1 \notin Bad
      BY <2>1, <2>6
  <2>8. g[s \ {Newest(s)}] = h[s \ {Newest(s)}]
      BY <2>6, <2>7
  <2> QED BY <2>2, <2>4, <2>8 DEF Unfold
<1>3. PICK n \in Nat : Below(n, R)
    BY <1>1 DEF FillSet
<1>4. \A s \in SUBSET R : s \in SetsBelow(n, R)
    BY <1>3 DEF SetsBelow, Below
<1> QED BY <1>2, <1>3, <1>4

\* One step of either fold: the last fill comes on top of the fold of the
\* others, which is that of a smaller set.
LEMMA OneStep ==
  ASSUME NEW S, FillSet(S), S # {}, NEW k,
         NEW g, Iterates(k, g, S), NEW h, Iterates(k, h, S \ {Newest(S)})
  PROVE  g[S] = Step(k, Newest(S), h[S \ {Newest(S)}])
<1> DEFINE R == S \ {Newest(S)}
<1>1. g[S] = Step(k, Newest(S), g[R])
    BY DEF Iterates, Unfold
<1>2. g[R] = h[R]
    BY SolvedOnce
<1> QED BY <1>1, <1>2

RunOf(S) == MapThenFoldSet(ApplyFill, [pos |-> 0, cycle |-> NoCycle, trades |-> {}],
                           LAMBDA f : f, Newest, S)

LEMMA PositionIterates ==
  ASSUME NEW S, FillSet(S)
  PROVE  \E g : Iterates("position", g, S) /\ Position(S) = g[S]
<1> DEFINE iter == CHOOSE g : g = [s \in SUBSET S |-> IF s = {} THEN 0 ELSE Newest(s).q + g[s \ {Newest(s)}]]
<1>1. \E g : g = [s \in SUBSET S |-> IF s = {} THEN 0 ELSE Newest(s).q + g[s \ {Newest(s)}]]
  <2>1. PICK g : Iterates("position", g, S)
      BY Solved
  <2> QED BY <2>1 DEF Iterates, Unfold, Start, Step
<1>2. iter = [s \in SUBSET S |-> IF s = {} THEN 0 ELSE Newest(s).q + iter[s \ {Newest(s)}]]
    BY <1>1
<1>3. Position(S) = iter[S]
    BY DEF Position, MapThenFoldSet
<1> HIDE DEF iter
<1>4. Iterates("position", iter, S)
    BY <1>2 DEF Iterates, Unfold, Start, Step
<1> QED BY <1>3, <1>4

LEMMA RunIterates ==
  ASSUME NEW S, FillSet(S)
  PROVE  \E g : Iterates("run", g, S) /\ RunOf(S) = g[S]
<1> DEFINE base == [pos |-> 0, cycle |-> NoCycle, trades |-> {}]
<1> DEFINE iter == CHOOSE g : g = [s \in SUBSET S |-> IF s = {} THEN base ELSE ApplyFill(Newest(s), g[s \ {Newest(s)}])]
<1>1. \E g : g = [s \in SUBSET S |-> IF s = {} THEN base ELSE ApplyFill(Newest(s), g[s \ {Newest(s)}])]
  <2>1. PICK g : Iterates("run", g, S)
      BY Solved
  <2> QED BY <2>1 DEF Iterates, Unfold, Start, Step
<1>2. iter = [s \in SUBSET S |-> IF s = {} THEN base ELSE ApplyFill(Newest(s), iter[s \ {Newest(s)}])]
    BY <1>1
<1>3. RunOf(S) = iter[S]
    BY DEF RunOf, MapThenFoldSet
<1> HIDE DEF iter
<1>4. Iterates("run", iter, S)
    BY <1>2 DEF Iterates, Unfold, Start, Step
<1> QED BY <1>3, <1>4

\* The position after the fills of S.
LEMMA PositionUnfolds ==
  ASSUME NEW S, FillSet(S)
  PROVE  Position(S) = IF S = {} THEN 0
                       ELSE Newest(S).q + Position(S \ {Newest(S)})
<1>1. PICK g : Iterates("position", g, S) /\ Position(S) = g[S]
    BY PositionIterates
<1>2. CASE S = {}
    BY <1>1, <1>2 DEF Iterates, Unfold, Start
<1>3. CASE S # {}
  <2>1. FillSet(S \ {Newest(S)})
      BY SubFills
  <2>2. PICK h : /\ Iterates("position", h, S \ {Newest(S)})
                 /\ Position(S \ {Newest(S)}) = h[S \ {Newest(S)}]
      BY <2>1, PositionIterates
  <2>3. g[S] = Step("position", Newest(S), h[S \ {Newest(S)}])
      BY <1>1, <1>3, <2>2, OneStep
  <2> QED BY <1>1, <1>3, <2>2, <2>3 DEF Step
<1> QED BY <1>2, <1>3

\* The state of ReconstructTrades after the fills of S.
LEMMA RunUnfolds ==
  ASSUME NEW S, FillSet(S)
  PROVE  RunOf(S) = IF S = {} THEN [pos |-> 0, cycle |-> NoCycle, trades |-> {}]
                    ELSE ApplyFill(Newest(S), RunOf(S \ {Newest(S)}))
<1>1. PICK g : Iterates("run", g, S) /\ RunOf(S) = g[S]
    BY RunIterates
<1>2. CASE S = {}
    BY <1>1, <1>2 DEF Iterates, Unfold, Start
<1>3. CASE S # {}
  <2>1. FillSet(S \ {Newest(S)})
      BY SubFills
  <2>2. PICK h : /\ Iterates("run", h, S \ {Newest(S)})
                 /\ RunOf(S \ {Newest(S)}) = h[S \ {Newest(S)}]
      BY <2>1, RunIterates
  <2>3. g[S] = Step("run", Newest(S), h[S \ {Newest(S)}])
      BY <1>1, <1>3, <2>2, OneStep
  <2> QED BY <1>1, <1>3, <2>2, <2>3 DEF Step
<1> QED BY <1>2, <1>3

-----------------------------------------------------------------------------
(* What one more fill changes.                                             *)

\* The fills older than one of a set are the same in the set without its
\* newest fill, and all of the set are up to the newest.
LEMMA OlderFills ==
  ASSUME NEW S, FillSet(S), S # {}, NEW P, P = S \ {Newest(S)}
  PROVE  /\ UpTo(Newest(S), S) = S /\ Before(Newest(S), S) = P
         /\ \A f \in P : UpTo(f, S) = UpTo(f, P) /\ Before(f, S) = Before(f, P)
<1>1. /\ Newest(S) \in S /\ Newest(S).tid \in Nat
      /\ \A f \in P : f.tid < Newest(S).tid
    BY NewestIsLast
<1>2. \A f \in S : f.tid \in Nat
    BY DEF FillSet, AnyFill
<1>3. \A f \in S : f.tid <= Newest(S).tid
    BY <1>1, <1>2
<1>4. UpTo(Newest(S), S) = S
    BY <1>3 DEF UpTo
<1>5. Before(Newest(S), S) = P
    BY <1>1, <1>2 DEF Before
<1>6. ASSUME NEW f \in P
      PROVE  UpTo(f, S) = UpTo(f, P) /\ Before(f, S) = Before(f, P)
  <2>1. ~(Newest(S).tid <= f.tid) /\ ~(Newest(S).tid < f.tid)
      BY <1>1, <1>2
  <2> QED BY <2>1 DEF UpTo, Before
<1> QED BY <1>4, <1>5, <1>6

LEMMA SgnType ==
  ASSUME NEW x \in Int
  PROVE  /\ Sgn(x) \in {-1, 0, 1}
         /\ Sgn(x) = 0 <=> x = 0
         /\ Sgn(x) = 1 <=> x > 0
BY DEF Sgn

\* The same of the signs of the position around each fill.
LEMMA OlderSigns ==
  ASSUME NEW S, FillSet(S), S # {}, NEW P, P = S \ {Newest(S)}
  PROVE  /\ SignAt(Newest(S), S) = Sgn(Position(S))
         /\ SignBefore(Newest(S), S) = Sgn(Position(P))
         /\ \A f \in P : /\ SignAt(f, S) = SignAt(f, P)
                         /\ SignBefore(f, S) = SignBefore(f, P)
BY OlderFills DEF SignAt, SignBefore

\* The position before a fill is the one after the fill that precedes it.
LEMMA SignsMeet ==
  ASSUME NEW S, FillSet(S), NEW f \in S, Before(f, S) # {}
  PROVE  \E e \in S :
           /\ e.tid < f.tid /\ SignAt(e, S) = SignBefore(f, S)
           /\ \A d \in S : d.tid < f.tid => d.tid <= e.tid
<1> DEFINE B == Before(f, S)
<1>1. FillSet(B)
    BY SubFills DEF Before
<1>2. Newest(B) \in B /\ \A d \in B \ {Newest(B)} : d.tid < Newest(B).tid
    BY <1>1, NewestIsLast
<1>3. \A d \in S : d.tid \in Nat
    BY DEF FillSet, AnyFill
<1>4. Newest(B) \in S /\ Newest(B).tid < f.tid
    BY <1>2 DEF Before
<1>5. \A d \in S : d.tid < f.tid => d.tid <= Newest(B).tid
  <2>1. \A d \in B : d.tid <= Newest(B).tid
      BY <1>2, <1>3, <1>4 DEF Before
  <2> QED BY <2>1 DEF Before
<1>6. UpTo(Newest(B), S) = B
  <2>1. \A d \in S : d.tid <= Newest(B).tid <=> d.tid < f.tid
      BY <1>3, <1>4, <1>5
  <2> QED BY <2>1 DEF UpTo, Before
<1> QED BY <1>4, <1>5, <1>6 DEF SignAt, SignBefore

-----------------------------------------------------------------------------
(* The open cycle.                                                         *)

\* A fill begins the cycle that is open after S: the sign of the position
\* changes there and is the same ever after.
Opens(f, S) ==
  /\ SignBefore(f, S) # SignAt(f, S)
  /\ \A g \in S : f.tid <= g.tid => SignAt(g, S) = Sgn(Position(S))

CycleFrom(f, S) ==
  [long |-> Sgn(Position(S)) = 1, open |-> f.at,
   of |-> {g.tid : g \in {h \in S : h.tid > f.tid
                                    \/ (h = f /\ SignBefore(f, S) = 0)}}]

\* One fill at most begins it.
LEMMA OpensOnce ==
  ASSUME NEW S, FillSet(S), NEW a \in S, NEW b \in S, Opens(a, S), Opens(b, S)
  PROVE  a = b
<1>1. \A f \in S : f.tid \in Nat
    BY DEF FillSet, AnyFill
<1>2. ASSUME NEW x \in S, NEW y \in S, Opens(x, S), Opens(y, S), x.tid < y.tid
      PROVE  FALSE
  <2>1. Before(y, S) # {}
      BY <1>2 DEF Before
  <2>2. PICK e \in S : /\ e.tid < y.tid /\ SignAt(e, S) = SignBefore(y, S)
                       /\ \A d \in S : d.tid < y.tid => d.tid <= e.tid
      BY <2>1, SignsMeet
  <2>3. x.tid <= e.tid
      BY <1>2, <2>2
  <2>4. SignAt(e, S) = Sgn(Position(S)) /\ SignAt(y, S) = Sgn(Position(S))
      BY <1>1, <1>2, <2>3 DEF Opens
  <2> QED BY <1>2, <2>2, <2>4 DEF Opens
<1>3. a.tid = b.tid
    BY <1>1, <1>2
<1> QED BY <1>3 DEF FillSet

\* The state of the fold after S: the position, the trades that have ended,
\* and the open cycle, if the position is not flat.
RunIsRight(S) ==
  /\ Position(S) \in Int
  /\ RunOf(S).pos = Position(S)
  /\ RunOf(S).trades = TrueTrades(S)
  /\ Position(S) = 0 => RunOf(S).cycle = NoCycle
  /\ Position(S) # 0 =>
       \E f \in S : Opens(f, S) /\ RunOf(S).cycle = CycleFrom(f, S)

\* The trades of S are those without its newest fill, and the one it ends.
LEMMA TradesOfOneMore ==
  ASSUME NEW S, FillSet(S), S # {}, NEW P, P = S \ {Newest(S)},
         Position(P) \in Int
  PROVE  TrueTrades(S) =
           TrueTrades(P) \cup
             {TrueTrade(f, Newest(S), S) :
                f \in {g \in P : /\ Opens(g, P) /\ Position(P) # 0
                                 /\ Sgn(Position(S)) # Sgn(Position(P))}}
<1> DEFINE n == Newest(S)
           Ends == {g \in P : /\ Opens(g, P) /\ Position(P) # 0
                              /\ Sgn(Position(S)) # Sgn(Position(P))}
<1>1. /\ n \in S /\ n.tid \in Nat /\ \A f \in P : f.tid < n.tid
      /\ \A f \in S : f.tid \in Nat
      /\ S = P \cup {n} /\ n \notin P
  <2>1. n \in S /\ n.tid \in Nat /\ \A f \in P : f.tid < n.tid
      BY NewestIsLast
  <2>2. \A f \in S : f.tid \in Nat
      BY DEF FillSet, AnyFill
  <2> QED BY <2>1, <2>2
<1>2. FillSet(P)
    BY SubFills
<1>3. /\ SignAt(n, S) = Sgn(Position(S))
      /\ \A f \in P : SignAt(f, S) = SignAt(f, P) /\ SignBefore(f, S) = SignBefore(f, P)
      /\ \A f \in P : UpTo(f, S) = UpTo(f, P)
    BY OlderSigns, OlderFills
<1> HIDE DEF n
<1>4. ASSUME NEW f \in P, NEW l \in P
      PROVE  /\ IsCycle(f, l, S) <=> IsCycle(f, l, P)
             /\ TrueTrade(f, l, S) = TrueTrade(f, l, P)
  <2>1. ~(n.tid < l.tid)
      BY <1>1
  <2>2. IsCycle(f, l, S) <=> IsCycle(f, l, P)
      BY <1>1, <1>3, <2>1 DEF IsCycle
  <2> QED BY <1>3, <2>2 DEF TrueTrade
<1>5. \A l \in S : ~IsCycle(n, l, S)
    BY <1>1 DEF IsCycle
<1>6. ASSUME NEW f \in P PROVE IsCycle(f, n, S) <=> f \in Ends
  <2>1. PICK e \in P : /\ \A d \in P : d.tid <= e.tid
                       /\ SignAt(e, P) = Sgn(Position(P))
    <3>1. P # {}
        OBVIOUS
    <3>2. Newest(P) \in P /\ \A d \in P \ {Newest(P)} : d.tid < Newest(P).tid
        BY <1>2, <3>1, NewestIsLast
    <3>3. SignAt(Newest(P), P) = Sgn(Position(P))
        BY <1>2, <3>1, OlderSigns
    <3>4. \A d \in P : d.tid <= Newest(P).tid
        BY <1>1, <3>2
    <3> QED BY <3>2, <3>3, <3>4
  <2>2. ASSUME IsCycle(f, n, S) PROVE f \in Ends
    <3>1. /\ SignAt(f, P) # 0 /\ SignBefore(f, P) # SignAt(f, P)
          /\ Sgn(Position(S)) # SignAt(f, P)
          /\ \A g \in P : f.tid < g.tid => SignAt(g, P) = SignAt(f, P)
        BY <1>1, <1>3, <2>2 DEF IsCycle
    <3>2. SignAt(f, P) = Sgn(Position(P))
      <4>1. CASE f.tid < e.tid
          BY <2>1, <3>1, <4>1
      <4>2. CASE f.tid = e.tid
          BY <1>2, <2>1, <4>2 DEF FillSet
      <4> QED BY <1>1, <2>1, <4>1, <4>2
    <3>3. \A g \in P : f.tid <= g.tid => SignAt(g, P) = Sgn(Position(P))
      <4> SUFFICES ASSUME NEW g \in P, f.tid <= g.tid
                   PROVE  SignAt(g, P) = Sgn(Position(P))
          OBVIOUS
      <4>1. CASE f.tid < g.tid
          BY <3>1, <3>2, <4>1
      <4>2. CASE f.tid = g.tid
          BY <1>2, <3>2, <4>2 DEF FillSet
      <4> QED BY <1>1, <4>1, <4>2
    <3>4. Position(P) # 0
        BY <3>1, <3>2, SgnType
    <3> QED BY <3>1, <3>2, <3>3, <3>4 DEF Opens
  <2>3. ASSUME f \in Ends PROVE IsCycle(f, n, S)
    <3>1. /\ SignBefore(f, P) # SignAt(f, P)
          /\ \A g \in P : f.tid <= g.tid => SignAt(g, P) = Sgn(Position(P))
          /\ Position(P) # 0 /\ Sgn(Position(S)) # Sgn(Position(P))
        BY <2>3 DEF Opens
    <3>2. SignAt(f, P) = Sgn(Position(P)) /\ Sgn(Position(P)) # 0
      <4>1. f.tid \in Nat /\ f.tid <= f.tid
          BY <1>1
      <4> QED BY <3>1, <4>1, SgnType
    <3>3. ASSUME NEW g \in S, f.tid < g.tid /\ g.tid < n.tid
          PROVE  SignAt(g, S) = SignAt(f, S)
      <4>1. g \in P /\ f.tid <= g.tid
          BY <1>1, <3>3
      <4> QED BY <1>3, <3>1, <3>2, <4>1
    <3> QED BY <1>1, <1>3, <3>1, <3>2, <3>3 DEF IsCycle
  <2> QED BY <2>2, <2>3
<1> HIDE DEF Ends
<1>7. ASSUME NEW t \in TrueTrades(S)
      PROVE  t \in TrueTrades(P) \cup {TrueTrade(f, n, S) : f \in Ends}
  <2>1. PICK f \in S, l \in S : IsCycle(f, l, S) /\ t = TrueTrade(f, l, S)
      BY <1>7 DEF TrueTrades
  <2>2. f \in P
      BY <1>1, <1>5, <2>1
  <2>3. CASE l \in P
    <3>1. IsCycle(f, l, P) /\ t = TrueTrade(f, l, P)
        BY <1>4, <2>1, <2>2, <2>3
    <3>2. <<f, l>> \in P \X P /\ <<f, l>>[1] = f /\ <<f, l>>[2] = l
        BY <2>2, <2>3
    <3> QED BY <3>1, <3>2 DEF TrueTrades
  <2>4. CASE l = n
      BY <1>6, <2>1, <2>2, <2>4
  <2> QED BY <1>1, <2>3, <2>4
<1>8. ASSUME NEW t \in TrueTrades(P) PROVE t \in TrueTrades(S)
  <2>1. PICK f \in P, l \in P : IsCycle(f, l, P) /\ t = TrueTrade(f, l, P)
      BY <1>8 DEF TrueTrades
  <2>2. IsCycle(f, l, S) /\ t = TrueTrade(f, l, S)
      BY <1>4, <2>1
  <2>3. <<f, l>> \in S \X S /\ <<f, l>>[1] = f /\ <<f, l>>[2] = l
      BY <1>1
  <2> QED BY <2>2, <2>3 DEF TrueTrades
<1>9. ASSUME NEW f \in Ends PROVE TrueTrade(f, n, S) \in TrueTrades(S)
  <2>1. f \in P
      BY DEF Ends
  <2>2. IsCycle(f, n, S)
      BY <1>6, <2>1
  <2>3. <<f, n>> \in S \X S /\ <<f, n>>[1] = f /\ <<f, n>>[2] = n
      BY <1>1, <2>1
  <2> QED BY <2>2, <2>3 DEF TrueTrades
<1> QED BY <1>7, <1>8, <1>9 DEF Ends, n

\* One more fill: applyFill keeps the state right.
LEMMA RightStep ==
  ASSUME NEW S, FillSet(S), S # {}, RunIsRight(S \ {Newest(S)})
  PROVE  RunIsRight(S)
<1> DEFINE n == Newest(S)
           P == S \ {n}
<1>1. /\ n \in S /\ n.tid \in Nat /\ n.at \in Nat /\ n.q \in Int /\ n.q # 0
      /\ \A f \in P : f.tid < n.tid
      /\ \A f \in S : f.tid \in Nat /\ f.at \in Nat
      /\ S = P \cup {n} /\ n \notin P
  <2>1. n \in S /\ n.tid \in Nat /\ \A f \in P : f.tid < n.tid
      BY NewestIsLast
  <2>2. S \subseteq AnyFill
      BY DEF FillSet
  <2> QED BY <2>1, <2>2 DEF AnyFill
<1>2. Position(S) = n.q + Position(P)
    BY PositionUnfolds
<1>3. RunOf(S) = ApplyFill(n, RunOf(P))
    BY RunUnfolds
<1>4. RunIsRight(P)
    OBVIOUS
<1>5. Position(P) \in Int /\ Position(S) \in Int
    BY <1>1, <1>2, <1>4 DEF RunIsRight
<1>6. /\ SignAt(n, S) = Sgn(Position(S)) /\ SignBefore(n, S) = Sgn(Position(P))
      /\ \A f \in P : SignAt(f, S) = SignAt(f, P) /\ SignBefore(f, S) = SignBefore(f, P)
    BY OlderSigns
<1>7. TrueTrades(S) =
        TrueTrades(P) \cup
          {TrueTrade(f, n, S) :
             f \in {g \in P : /\ Opens(g, P) /\ Position(P) # 0
                              /\ Sgn(Position(S)) # Sgn(Position(P))}}
    BY <1>5, TradesOfOneMore
<1>8. UpTo(n, S) = S
    BY OlderFills
<1>9. FillSet(P)
    BY SubFills
<1> HIDE DEF n, P
<1> DEFINE r == RunOf(P)
           after == Position(S)
           c == IF r.cycle = NoCycle THEN OpenCycle(n, n.q > 0) ELSE r.cycle
           joined == [c EXCEPT !.of = @ \cup {n.tid}]
           closes == Position(P) # 0 /\ Sgn(after) # Sgn(Position(P))
<1>10. RunOf(S) =
         [pos    |-> after,
          cycle  |-> IF ~closes THEN joined
                     ELSE IF after # 0 THEN OpenCycle(n, after > 0) ELSE NoCycle,
          trades |-> r.trades \cup (IF closes THEN {Trade(joined, n)} ELSE {})]
  <2>1. r.pos = Position(P) /\ r.pos + n.q = after
      BY <1>1, <1>2, <1>4, <1>5 DEF RunIsRight
  <2> QED BY <1>3, <2>1 DEF ApplyFill
<1>11. RunOf(S).pos = Position(S)
    BY <1>10
<1>12. ~closes => RunOf(S).cycle = joined /\ RunOf(S).trades = TrueTrades(P)
  <2>1. r.trades = TrueTrades(P)
      BY <1>4 DEF RunIsRight
  <2> HIDE DEF joined, closes
  <2> QED BY <1>10, <2>1
\* The newest fill opens a cycle exactly when the sign changes with it.
<1>13. Sgn(after) # Sgn(Position(P)) => Opens(n, S)
  <2>1. \A g \in S : n.tid <= g.tid => g = n
      BY <1>1
  <2> QED BY <1>6, <2>1 DEF Opens
<1>14. CASE Position(P) = 0
  <2>1. r.cycle = NoCycle /\ after = n.q /\ after # 0 /\ ~closes
      BY <1>1, <1>2, <1>4, <1>14 DEF RunIsRight
  <2>2. joined = [long |-> n.q > 0, open |-> n.at, of |-> {n.tid}]
      BY <2>1 DEF OpenCycle
  <2>3. RunOf(S).cycle = joined /\ RunOf(S).trades = TrueTrades(P)
      BY <1>12, <2>1
  <2>4. TrueTrades(S) = TrueTrades(P)
      BY <1>7, <1>14
  <2>5. Sgn(after) # Sgn(Position(P)) /\ SignBefore(n, S) = 0
      BY <1>5, <1>6, <1>14, <2>1, SgnType
  <2>6. CycleFrom(n, S) = joined
    <3>1. {h \in S : h.tid > n.tid \/ (h = n /\ SignBefore(n, S) = 0)} = {n}
        BY <1>1, <2>5
    <3>2. (Sgn(after) = 1) = (n.q > 0)
        BY <1>5, <2>1, SgnType
    <3> QED BY <2>2, <3>1, <3>2 DEF CycleFrom
  <2> QED BY <1>1, <1>5, <1>11, <1>13, <2>1, <2>3, <2>4, <2>5, <2>6 DEF RunIsRight
<1>15. CASE Position(P) # 0
  <2>1. PICK f \in P : Opens(f, P) /\ r.cycle = CycleFrom(f, P)
      BY <1>4, <1>15 DEF RunIsRight
  <2>2. \A g \in P : Opens(g, P) => g = f
      BY <1>9, <2>1, OpensOnce
  <2>3. r.cycle # NoCycle
    <3>1. r.cycle.open = f.at /\ NoCycle.open = -1 /\ f.at \in Nat
        BY <1>1, <2>1 DEF CycleFrom, NoCycle
    <3> QED BY <3>1
  <2> DEFINE Of == {g.tid : g \in {h \in S : h.tid > f.tid \/ (h = f /\ SignBefore(f, S) = 0)}}
  <2>4. joined = [long |-> Sgn(Position(P)) = 1, open |-> f.at, of |-> Of]
    <3>1. Of = CycleFrom(f, P).of \cup {n.tid}
      <4>1. {h \in S : h.tid > f.tid \/ (h = f /\ SignBefore(f, S) = 0)}
              = {h \in P : h.tid > f.tid \/ (h = f /\ SignBefore(f, P) = 0)} \cup {n}
          BY <1>1, <1>6
      <4> QED BY <4>1 DEF CycleFrom
    <3>2. joined = [CycleFrom(f, P) EXCEPT !.of = @ \cup {n.tid}]
        BY <2>1, <2>3
    <3>3. CycleFrom(f, P) = [long |-> Sgn(Position(P)) = 1, open |-> f.at,
                             of |-> CycleFrom(f, P).of]
        BY DEF CycleFrom
    <3> DEFINE o == CycleFrom(f, P).of
    <3>4. CycleFrom(f, P) = [long |-> Sgn(Position(P)) = 1, open |-> f.at, of |-> o]
        BY <3>3
    <3>5. Of = o \cup {n.tid}
        BY <3>1
    <3> HIDE DEF o, Of, joined
    <3> QED BY <3>2, <3>4, <3>5
  <2>5. CASE ~closes
    <3>1. Sgn(after) = Sgn(Position(P)) /\ after # 0
        BY <1>5, <1>15, <2>5, SgnType
    <3>2. RunOf(S).cycle = joined /\ RunOf(S).trades = TrueTrades(P)
        BY <1>12, <2>5
    <3>3. TrueTrades(S) = TrueTrades(P)
        BY <1>7, <3>1
    <3>4. Opens(f, S) /\ f \in S
      <4>1. SignBefore(f, S) # SignAt(f, S)
          BY <1>6, <2>1 DEF Opens
      <4>2. \A g \in S : f.tid <= g.tid => SignAt(g, S) = Sgn(Position(S))
          BY <1>1, <1>6, <2>1, <3>1 DEF Opens
      <4> QED BY <1>1, <4>1, <4>2 DEF Opens
    <3>5. joined = CycleFrom(f, S)
        BY <2>4, <3>1 DEF CycleFrom
    <3> QED BY <1>5, <1>11, <3>1, <3>2, <3>3, <3>4, <3>5 DEF RunIsRight
  <2>6. CASE closes
    <3>1. RunOf(S).trades = TrueTrades(P) \cup {Trade(joined, n)}
        BY <1>4, <1>10, <2>6 DEF RunIsRight
    <3>2. Trade(joined, n) = TrueTrade(f, n, S)
      <4>1. SignAt(f, S) = Sgn(Position(P))
        <5>1. f.tid \in Nat /\ f.tid <= f.tid
            BY <1>1
        <5> QED BY <1>6, <2>1, <5>1 DEF Opens
      <4>2. {g \in UpTo(n, S) : g.tid > f.tid \/ (g = f /\ SignBefore(f, S) = 0)}
              = {h \in S : h.tid > f.tid \/ (h = f /\ SignBefore(f, S) = 0)}
          BY <1>8
      <4> QED BY <2>4, <4>1, <4>2 DEF Trade, TrueTrade
    <3>3. {g \in P : /\ Opens(g, P) /\ Position(P) # 0
                     /\ Sgn(Position(S)) # Sgn(Position(P))} = {f}
        BY <1>15, <2>1, <2>2, <2>6
    <3>4. RunOf(S).trades = TrueTrades(S)
        BY <1>7, <3>1, <3>2, <3>3
    <3>5. CASE after = 0
      <4>1. RunOf(S).cycle = NoCycle
          BY <1>10, <2>6, <3>5
      <4> QED BY <1>5, <1>11, <3>4, <3>5, <4>1 DEF RunIsRight
    <3>6. CASE after # 0
      <4>1. RunOf(S).cycle = OpenCycle(n, after > 0)
          BY <1>10, <2>6, <3>6
      <4>2. SignBefore(n, S) # 0
          BY <1>5, <1>6, <1>15, SgnType
      <4>3. {h \in S : h.tid > n.tid \/ (h = n /\ SignBefore(n, S) = 0)} = {}
          BY <1>1, <4>2
      <4>4. (Sgn(after) = 1) = (after > 0)
          BY <1>5, SgnType
      <4>5. OpenCycle(n, after > 0) = CycleFrom(n, S)
          BY <4>3, <4>4 DEF OpenCycle, CycleFrom
      <4> QED BY <1>1, <1>5, <1>11, <1>13, <2>6, <3>4, <3>6, <4>1, <4>5 DEF RunIsRight
    <3> QED BY <3>5, <3>6
  <2> QED BY <2>5, <2>6
<1> QED BY <1>14, <1>15

LEMMA RightStart == RunIsRight({})
<1>1. FillSet({})
    BY DEF FillSet, Below
<1>2. Position({}) = 0
    BY <1>1, PositionUnfolds
<1>3. RunOf({}) = [pos |-> 0, cycle |-> NoCycle, trades |-> {}]
    BY <1>1, RunUnfolds
<1>4. TrueTrades({}) = {}
    BY DEF TrueTrades
<1> QED BY <1>2, <1>3, <1>4 DEF RunIsRight

LEMMA RunRight ==
  ASSUME NEW S, FillSet(S)
  PROVE  RunIsRight(S)
<1> DEFINE Bad == {n \in Nat : \E s \in SetsBelow(n, S) : ~RunIsRight(s)}
<1>1. Bad = {}
  <2> SUFFICES ASSUME Bad # {} PROVE FALSE
      OBVIOUS
  <2>1. PICK m \in Bad : \A n \in Bad : m <= n
    <3>1. Bad \in SUBSET Nat
        OBVIOUS
    <3> HIDE DEF Bad
    <3> QED BY <3>1, LeastExists
  <2>2. PICK s \in SetsBelow(m, S) : ~RunIsRight(s)
      OBVIOUS
  <2>3. s # {}
      BY <2>2, RightStart
  <2>4. m - 1 \in Nat /\ s \ {Newest(s)} \in SetsBelow(m - 1, S)
      BY <2>3, OneLess
  <2>5. m - 1 \notin Bad
      BY <2>1, <2>4
  <2>6. RunIsRight(s \ {Newest(s)})
      BY <2>4, <2>5
  <2>7. FillSet(s)
      BY SubFills DEF SetsBelow
  <2> QED BY <2>2, <2>3, <2>6, <2>7, RightStep
<1>2. PICK n \in Nat : Below(n, S)
    BY DEF FillSet
<1>3. S \in SetsBelow(n, S)
    BY <1>2 DEF SetsBelow
<1> QED BY <1>1, <1>2, <1>3

\* Whatever the fills of a market are, the fold of applyFill over them yields
\* the trades the comment of CompletedTrade describes: one per cycle of the
\* position, with the fills from the first after flat to the one that ends it
\* (reconstruct.go ReconstructTrades).
THEOREM ReconstructionIsRight ==
  \A S : FillSet(S) => ReconstructTrades(S) = TrueTrades(S)
BY RunRight DEF RunIsRight, RunOf, ReconstructTrades

-----------------------------------------------------------------------------
(* Cutting the fills in two.                                               *)

\* P holds the first fills of S, up to some moment.
Begins(P, S) == P \subseteq S /\ \A p \in P, m \in S \ P : p.tid < m.tid

LEMMA NewestIs ==
  ASSUME NEW S, FillSet(S), NEW f \in S, \A g \in S \ {f} : g.tid < f.tid
  PROVE  Newest(S) = f
<1>1. /\ Newest(S) \in S /\ Newest(S).tid \in Nat
      /\ \A g \in S \ {Newest(S)} : g.tid < Newest(S).tid
    BY NewestIsLast
<1>2. f.tid \in Nat
    BY DEF FillSet, AnyFill
<1>3. CASE Newest(S) # f
  <2>1. f.tid < Newest(S).tid /\ Newest(S).tid < f.tid
      BY <1>1, <1>3
  <2> QED BY <1>1, <1>2, <2>1
<1> QED BY <1>3

\* The position is the sum over the two parts.
LEMMA PositionAdds ==
  ASSUME NEW S, FillSet(S), NEW P, Begins(P, S)
  PROVE  Position(S) = Position(P) + Position(S \ P)
<1> DEFINE Adds(s) == Position(s) = Position(s \cap P) + Position(s \ P)
           Bad == {n \in Nat : \E s \in SetsBelow(n, S) : ~Adds(s)}
<1>1. \A T \in SUBSET S : FillSet(T) /\ Position(T) \in Int
    BY SubFills, RunRight DEF RunIsRight
<1>2. ASSUME NEW s \in SUBSET S, s # {}, Adds(s \ {Newest(s)})
      PROVE  Adds(s)
  <2> DEFINE n == Newest(s)
  <2>1. FillSet(s) /\ n \in s /\ n.tid \in Nat /\ \A f \in s \ {n} : f.tid < n.tid
      BY <1>1, <1>2, NewestIsLast
  <2>2. Position(s) = n.q + Position(s \ {n})
      BY <1>2, <2>1, PositionUnfolds
  <2>3. n.q \in Int
      BY <2>1 DEF FillSet, AnyFill
  <2>4. \A f \in S : f.tid \in Nat
      BY DEF FillSet, AnyFill
  <2> HIDE DEF n
  <2>5. CASE n \in P
    <3>1. s \ P = {}
      <4> SUFFICES ASSUME NEW m \in s, m \notin P PROVE FALSE
          OBVIOUS
      <4>1. n.tid < m.tid /\ m.tid < n.tid
          BY <2>1, <2>5 DEF Begins
      <4> QED BY <2>1, <2>4, <4>1
    <3>2. s \cap P = s
        BY <3>1
    <3>3. Position({}) = 0
        BY PositionUnfolds DEF FillSet, Below
    <3>4. Position(s) \in Int
        BY <1>1
    <3> QED BY <3>1, <3>2, <3>3, <3>4
  <2>6. CASE n \notin P
    <3> DEFINE M == s \ P
    <3>1. FillSet(M) /\ n \in M /\ M # {}
        BY <1>1, <2>1, <2>6
    <3>2. Newest(M) = n
        BY <2>1, <3>1, NewestIs
    <3>3. Position(M) = n.q + Position(M \ {n})
        BY <3>1, <3>2, PositionUnfolds
    <3>4. (s \ {n}) \cap P = s \cap P /\ (s \ {n}) \ P = M \ {n}
        BY <2>6
    <3>5. Position(s \ {n}) = Position(s \cap P) + Position(M \ {n})
        BY <1>2, <3>4 DEF n
    <3>6. Position(s \cap P) \in Int /\ Position(M \ {n}) \in Int
        BY <1>1
    <3> HIDE DEF M
    <3>7. Position(s) = Position(s \cap P) + Position(M)
        BY <2>2, <2>3, <3>3, <3>5, <3>6
    <3> QED BY <3>7 DEF M
  <2> QED BY <2>5, <2>6
<1>3. Adds({})
  <2>1. Position({}) = 0
      BY PositionUnfolds DEF FillSet, Below
  <2> QED BY <2>1
<1> HIDE DEF Adds
<1>4. Bad = {}
  <2> SUFFICES ASSUME Bad # {} PROVE FALSE
      OBVIOUS
  <2>1. PICK m \in Bad : \A n \in Bad : m <= n
    <3>1. Bad \in SUBSET Nat
        OBVIOUS
    <3> HIDE DEF Bad
    <3> QED BY <3>1, LeastExists
  <2>2. PICK s \in SetsBelow(m, S) : ~Adds(s)
      OBVIOUS
  <2>3. s \in SUBSET S /\ s # {}
      BY <1>3, <2>2 DEF SetsBelow
  <2>4. m - 1 \in Nat /\ s \ {Newest(s)} \in SetsBelow(m - 1, S)
      BY <2>3, OneLess
  <2>5. m - 1 \notin Bad
      BY <2>1, <2>4
  <2> QED BY <1>2, <2>2, <2>3, <2>4, <2>5
<1>5. PICK n \in Nat : Below(n, S)
    BY DEF FillSet
<1>6. S \in SetsBelow(n, S)
    BY <1>5 DEF SetsBelow
<1>7. Adds(S)
    BY <1>4, <1>6
<1>8. S \cap P = P
    BY DEF Begins
<1> QED BY <1>7, <1>8 DEF Adds

\* What happened up to some moment does not depend on what came after.
LEMMA CyclesBefore ==
  ASSUME NEW S, FillSet(S), NEW P, Begins(P, S)
  PROVE  \A f, l \in P : /\ IsCycle(f, l, P) <=> IsCycle(f, l, S)
                         /\ TrueTrade(f, l, P) = TrueTrade(f, l, S)
<1>1. \A f \in S : f.tid \in Nat
    BY DEF FillSet, AnyFill
<1>2. P \subseteq S
    BY DEF Begins
<1>3. ASSUME NEW f \in P
      PROVE  /\ UpTo(f, P) = UpTo(f, S) /\ Before(f, P) = Before(f, S)
             /\ SignAt(f, P) = SignAt(f, S) /\ SignBefore(f, P) = SignBefore(f, S)
  <2>1. \A m \in S \ P : ~(m.tid <= f.tid) /\ ~(m.tid < f.tid)
      BY <1>1, <1>2 DEF Begins
  <2>2. UpTo(f, P) = UpTo(f, S) /\ Before(f, P) = Before(f, S)
      BY <1>2, <2>1 DEF UpTo, Before
  <2> QED BY <2>2 DEF SignAt, SignBefore
<1>4. ASSUME NEW f \in P, NEW l \in P
      PROVE  IsCycle(f, l, P) <=> IsCycle(f, l, S)
  <2>1. \A g \in S : f.tid < g.tid /\ g.tid < l.tid => g \in P
    <3> SUFFICES ASSUME NEW g \in S, g.tid < l.tid, g \notin P PROVE FALSE
        OBVIOUS
    <3>1. l.tid < g.tid
        BY DEF Begins
    <3> QED BY <1>1, <1>2, <3>1
  <2> QED BY <1>2, <1>3, <2>1 DEF IsCycle
<1>5. ASSUME NEW f \in P, NEW l \in P
      PROVE  TrueTrade(f, l, P) = TrueTrade(f, l, S)
  <2>1. /\ UpTo(l, P) = UpTo(l, S)
        /\ SignAt(f, P) = SignAt(f, S) /\ SignBefore(f, P) = SignBefore(f, S)
      BY <1>3
  <2> QED BY <2>1 DEF TrueTrade
<1> QED BY <1>4, <1>5

\* After a flat position the cycles are those of the later fills alone, and no
\* cycle reaches over the moment at which it was flat.
LEMMA CyclesAfterFlat ==
  ASSUME NEW S, FillSet(S), NEW P, Begins(P, S), Position(P) = 0
  PROVE  /\ \A f \in P, l \in S \ P : ~IsCycle(f, l, S)
         /\ \A f, l \in S \ P : /\ IsCycle(f, l, S \ P) <=> IsCycle(f, l, S)
                                /\ TrueTrade(f, l, S \ P) = TrueTrade(f, l, S)
<1> DEFINE M == S \ P
<1>1. \A f \in S : f.tid \in Nat
    BY DEF FillSet, AnyFill
<1>2. P \subseteq S /\ \A p \in P, m \in M : p.tid < m.tid
    BY DEF Begins
<1>3. ASSUME NEW T \in SUBSET M
      PROVE  Position(P \cup T) = Position(T)
  <2>1. FillSet(P \cup T)
      BY <1>2, SubFills
  <2>2. Begins(P, P \cup T) /\ (P \cup T) \ P = T
      BY <1>2 DEF Begins
  <2>3. Position(T) \in Int
    <3>1. FillSet(T)
        BY SubFills
    <3> QED BY <3>1, RunRight DEF RunIsRight
  <2> QED BY <2>1, <2>2, <2>3, PositionAdds
<1>4. ASSUME NEW f \in M
      PROVE  SignAt(f, M) = SignAt(f, S) /\ SignBefore(f, M) = SignBefore(f, S)
  <2>1. \A p \in P : p.tid <= f.tid /\ p.tid < f.tid
      BY <1>1, <1>2
  <2>2. UpTo(f, S) = P \cup UpTo(f, M) /\ Before(f, S) = P \cup Before(f, M)
      BY <1>2, <2>1 DEF UpTo, Before
  <2>3. UpTo(f, M) \in SUBSET M /\ Before(f, M) \in SUBSET M
      BY DEF UpTo, Before
  <2> QED BY <1>3, <2>2, <2>3 DEF SignAt, SignBefore
<1>5. ASSUME NEW f \in M, NEW g \in S, f.tid <= g.tid
      PROVE  g \in M
  <2>1. CASE g \in P
    <3>1. g.tid < f.tid
        BY <1>2, <2>1
    <3> QED BY <1>1, <1>5, <3>1
  <2> QED BY <2>1
<1>6. ASSUME NEW f \in M, NEW l \in M
      PROVE  IsCycle(f, l, M) <=> IsCycle(f, l, S)
  <2>1. \A g \in S : f.tid < g.tid => g \in M
    <3> SUFFICES ASSUME NEW g \in S, f.tid < g.tid PROVE g \in M
        OBVIOUS
    <3>1. f.tid <= g.tid
        BY <1>1
    <3> QED BY <1>5, <3>1
  <2>2. M \subseteq S
      OBVIOUS
  <2> HIDE DEF M
  <2> QED BY <1>4, <2>1, <2>2 DEF IsCycle
<1>7. ASSUME NEW f \in M, NEW l \in M
      PROVE  TrueTrade(f, l, M) = TrueTrade(f, l, S)
  <2>1. SignAt(f, M) = SignAt(f, S) /\ SignBefore(f, M) = SignBefore(f, S)
      BY <1>4
  <2>2. \A g \in S : g.tid > f.tid \/ g = f => g \in M
    <3> SUFFICES ASSUME NEW g \in S, g.tid > f.tid PROVE g \in M
        OBVIOUS
    <3>1. f.tid <= g.tid
        BY <1>1
    <3> QED BY <1>5, <3>1
  <2>3. \A g : g \in UpTo(l, M) <=> g \in UpTo(l, S) /\ g \in M
      BY DEF UpTo
  <2>4. \A g : g \in UpTo(l, S) => g \in S
      BY DEF UpTo
  <2> HIDE DEF M
  <2>5. {g \in UpTo(l, M) : g.tid > f.tid \/ (g = f /\ SignBefore(f, S) = 0)}
          = {g \in UpTo(l, S) : g.tid > f.tid \/ (g = f /\ SignBefore(f, S) = 0)}
      BY <2>2, <2>3, <2>4
  <2> QED BY <2>1, <2>5 DEF TrueTrade
<1>8. ASSUME NEW f \in P, NEW l \in M, IsCycle(f, l, S)
      PROVE  FALSE
  <2> DEFINE o == Newest(P)
  <2>1. FillSet(P) /\ P # {}
      BY <1>2, SubFills
  <2>2. o \in P /\ \A p \in P \ {o} : p.tid < o.tid
      BY <2>1, NewestIsLast
  <2> HIDE DEF o
  <2>3. UpTo(o, S) = P
    <3>1. \A p \in P : p.tid <= o.tid
        BY <1>1, <1>2, <2>2
    <3>2. \A m \in M : ~(m.tid <= o.tid)
        BY <1>1, <1>2, <2>2
    <3> QED BY <1>2, <3>1, <3>2 DEF UpTo
  <2>4. SignAt(o, S) = 0
      BY <2>3 DEF SignAt, Sgn
  <2>5. o.tid < l.tid /\ (f = o \/ f.tid < o.tid) /\ o \in S
      BY <1>2, <2>2
  <2> QED BY <1>8, <2>4, <2>5 DEF IsCycle
<1> QED BY <1>6, <1>7, <1>8

-----------------------------------------------------------------------------
(* The sync.                                                               *)

Fields == {"pc", "now", "full", "start", "since", "fetched", "truncated", "days", "next"}

\* The types the argument needs.
Types ==
  /\ clock \in Nat
  /\ sync.cursor \in Times /\ "cursor" \in DOMAIN sync
  /\ DOMAIN pass = Fields
  /\ pass.now \in Nat /\ pass.start \in Int
  /\ lossy \in BOOLEAN

\* Nothing is dated in the future.
InThePast ==
  /\ \A f \in fills : f.at \in Nat /\ f.at <= clock
  /\ sync.cursor <= clock /\ pass.now <= clock

FetchedBeforeNow == \A f \in pass.fetched : f \in fills /\ f.at <= pass.now

StartsInTime ==
  pass.pc \in {"syncing", "fetch", "stage", "days"} =>
    pass.start <= sync.cursor \/ pass.start <= pass.now - FullLookback

FetchedAll ==
  ~lossy /\ pass.pc \in {"stage", "days"} =>
    \A f \in fills : pass.start <= f.at /\ f.at < pass.now => f \in pass.fetched

Staged == pass.pc = "days" => pass.fetched \subseteq buffer

IInv == /\ Types /\ InThePast /\ FetchedBeforeNow
        /\ StartsInTime /\ FetchedAll /\ Staged /\ NothingSkipped

-----------------------------------------------------------------------------

\* A set of times up to a bound has a latest one.
LEMMA LatestExists ==
  ASSUME NEW S \in SUBSET Nat, S # {}, NEW n \in Nat, \A s \in S : s <= n
  PROVE  \E m \in S : \A s \in S : s <= m
<1> DEFINE T == {n - s : s \in S}
<1>1. T \subseteq Nat /\ T # {}
  <2>1. \A s \in S : n - s \in Nat
      OBVIOUS
  <2> QED BY <2>1
<1>2. PICK x \in T : \A y \in T : ~(<<y, x>> \in OpToRel(<, Nat))
  <2>1. IsWellFoundedOn(OpToRel(<, Nat), Nat)
      BY NatLessThanWellFounded
  <2> HIDE DEF T
  <2> QED BY <1>1, <2>1, WFMin
<1>3. PICK m \in S : x = n - m
    OBVIOUS
<1>4. \A s \in S : s <= m
  <2>1. TAKE s \in S
  <2>2. n - s \in T /\ n - s \in Nat /\ x \in Nat
      OBVIOUS
  <2>3. ~(n - s < x)
      BY <1>2, <2>2 DEF OpToRel
  <2> QED BY <1>3, <2>3
<1> QED BY <1>4

\* maxFillCursor yields the time of a fetched fill, or now: never a later one.
LEMMA CursorNotAhead ==
  ASSUME Types, InThePast, FetchedBeforeNow
  PROVE  NextCursor \in Nat /\ NextCursor <= pass.now
<1>1. CASE pass.fetched = {}
    BY <1>1 DEF NextCursor, Types
<1>2. CASE pass.fetched # {}
  <2> DEFINE S == {f.at : f \in pass.fetched}
  <2>1. S \in SUBSET Nat /\ S # {} /\ \A s \in S : s <= pass.now
      BY <1>2 DEF FetchedBeforeNow, InThePast
  <2>2. \E m \in S : \A s \in S : s <= m
    <3> HIDE DEF S
    <3> QED BY <2>1, LatestExists DEF Types
  <2>3. \E m \in S : \A f \in pass.fetched : f.at <= m
      BY <2>2
  <2>4. NextCursor \in S
      BY <1>2, <2>3 DEF NextCursor
  <2> QED BY <2>1, <2>4
<1> QED BY <1>1, <1>2

\* Steps that change neither the clock, the fills, the buffer nor the sync row,
\* and leave the window of the pass as it is.
LEMMA QuietStep ==
  ASSUME IInv, UNCHANGED <<clock, fills, buffer, lossy>>,
         sync'.cursor = sync.cursor, "cursor" \in DOMAIN sync',
         DOMAIN pass' = Fields, pass'.now = pass.now, pass'.start = pass.start,
         pass'.fetched = pass.fetched,
         pass'.pc \in {"syncing", "fetch", "stage", "days"} => 
            pass.pc \in {"syncing", "fetch", "stage", "days"},
         pass'.pc \in {"stage", "days"} => pass.pc \in {"stage", "days"},
         pass'.pc = "days" => pass.fetched \subseteq buffer
  PROVE  IInv'
<1>1. Types' /\ InThePast' /\ FetchedBeforeNow'
    BY DEF IInv, Types, InThePast, FetchedBeforeNow
<1>2. StartsInTime' /\ FetchedAll' /\ Staged'
    BY DEF IInv, StartsInTime, FetchedAll, Staged
<1>3. NothingSkipped'
    BY DEF IInv, NothingSkipped
<1> QED BY <1>1, <1>2, <1>3 DEF IInv

\* A pass that ends leaves nothing to remember.
LEMMA PassEnds ==
  ASSUME IInv, UNCHANGED <<clock, fills, buffer, sync, lossy>>, pass' = IdlePass
  PROVE  IInv'
<1>1. Types' /\ InThePast' /\ FetchedBeforeNow'
    BY DEF IInv, Types, InThePast, FetchedBeforeNow, IdlePass, Fields
<1>2. StartsInTime' /\ FetchedAll' /\ Staged'
    BY DEF StartsInTime, FetchedAll, Staged, IdlePass
<1>3. NothingSkipped'
    BY DEF IInv, NothingSkipped
<1> QED BY <1>1, <1>2, <1>3 DEF IInv

-----------------------------------------------------------------------------

LEMMA InitInv == Init => IInv
<1> SUFFICES ASSUME Init PROVE IInv
    OBVIOUS
<1>1. Types
  <2>1. lossy \in BOOLEAN
      BY DEF Init
  <2>2. DOMAIN pass = Fields
      BY DEF Init, IdlePass, Fields
  <2>3. /\ clock \in Nat /\ sync.cursor \in Times
        /\ pass.now \in Nat /\ pass.start \in Int
      BY DEF Init, IdlePass, Times, Null
  <2>4. "cursor" \in DOMAIN sync
      BY DEF Init
  <2> QED BY <2>1, <2>2, <2>3, <2>4 DEF Types
<1>2. InThePast /\ FetchedBeforeNow
    BY DEF Init, InThePast, FetchedBeforeNow, IdlePass, Null
<1>3. StartsInTime /\ FetchedAll /\ Staged
    BY DEF Init, StartsInTime, FetchedAll, Staged, IdlePass
<1>4. NothingSkipped
    BY DEF Init, NothingSkipped
<1> QED BY <1>1, <1>2, <1>3, <1>4 DEF IInv

LEMMA NextInv == IInv /\ [Next]_vars => IInv'
<1> SUFFICES ASSUME IInv, [Next]_vars PROVE IInv'
    OBVIOUS
<1> USE SyncAssumption
<1>1. CASE Tick
  <2>1. UNCHANGED <<fills, buffer, sync, pass, lossy>> /\ clock' = clock + 1
      BY <1>1 DEF Tick, tables, history
  <2>2. Types' /\ InThePast' /\ FetchedBeforeNow'
      BY <2>1 DEF IInv, Types, InThePast, FetchedBeforeNow, Times, Null
  <2>3. StartsInTime' /\ FetchedAll' /\ Staged'
      BY <2>1 DEF IInv, StartsInTime, FetchedAll, Staged
  <2>4. NothingSkipped'
      BY <2>1 DEF IInv, NothingSkipped, Types, InThePast
  <2> QED BY <2>2, <2>3, <2>4 DEF IInv
<1>2. CASE \E q \in Sizes : Fills(q)
  <2>1. PICK q \in Sizes : Fills(q)
      BY <1>2
  <2> DEFINE new == [tid |-> Cardinality(fills) + 1, at |-> clock, q |-> q]
  <2>2. /\ UNCHANGED <<clock, buffer, sync, pass, lossy>>
        /\ fills' = fills \cup {new} /\ new.at = clock
      BY <2>1 DEF Fills, tables, history
  <2> HIDE DEF new
  <2>3. Types' /\ InThePast' /\ FetchedBeforeNow'
      BY <2>2 DEF IInv, Types, InThePast, FetchedBeforeNow
  <2>4. StartsInTime' /\ Staged'
      BY <2>2 DEF IInv, StartsInTime, Staged
  <2>5. FetchedAll'
      BY <2>2 DEF IInv, FetchedAll, Types, InThePast
  <2>6. NothingSkipped'
      BY <2>2 DEF IInv, NothingSkipped, Types, InThePast, Times, Null
  <2> QED BY <2>3, <2>4, <2>5, <2>6 DEF IInv
<1>3. CASE SyncAll
  <2>1. /\ UNCHANGED <<clock, fills, buffer, sync, lossy>>
        /\ DOMAIN pass' = Fields /\ pass'.pc = "begin" /\ pass'.now = clock
        /\ pass'.start = 0 /\ pass'.fetched = {}
      BY <1>3 DEF SyncAll, IdlePass, Fields, tables, history
  <2>2. Types' /\ InThePast' /\ FetchedBeforeNow'
      BY <2>1 DEF IInv, Types, InThePast, FetchedBeforeNow
  <2>3. StartsInTime' /\ FetchedAll' /\ Staged'
      BY <2>1 DEF StartsInTime, FetchedAll, Staged
  <2>4. NothingSkipped'
      BY <2>1 DEF IInv, NothingSkipped
  <2> QED BY <2>2, <2>3, <2>4 DEF IInv
<1>4. CASE Begin
  <2>1. /\ UNCHANGED <<clock, fills, buffer, sync, lossy>>
        /\ DOMAIN pass' = Fields /\ pass'.pc \in {"syncing", "fetch"}
        /\ pass'.now = pass.now /\ pass'.fetched = pass.fetched
        /\ pass'.start = StartOf(~sync.backfilled)
      BY <1>4 DEF Begin, IInv, Types, Fields, tables, history
  <2>2. \/ pass'.start = pass.now - FullLookback
        \/ pass'.start = sync.cursor
      BY <2>1 DEF StartOf
  <2>3. pass'.start \in Int
      BY <2>2 DEF IInv, Types, Times, Null
  <2>4. Types' /\ InThePast' /\ FetchedBeforeNow'
      BY <2>1, <2>3 DEF IInv, Types, InThePast, FetchedBeforeNow
  <2>5. StartsInTime'
      BY <2>1, <2>2, <2>3 DEF StartsInTime
  <2>6. FetchedAll' /\ Staged' /\ NothingSkipped'
      BY <2>1 DEF IInv, FetchedAll, Staged, NothingSkipped
  <2> QED BY <2>4, <2>5, <2>6 DEF IInv
<1>5. CASE MarkSyncing
  <2>1. sync'.cursor = sync.cursor /\ "cursor" \in DOMAIN sync'
      BY <1>5 DEF MarkSyncing, IInv, Types
  <2> QED BY <1>5, <2>1, QuietStep DEF MarkSyncing, Goto, IInv, Types, Fields, history
<1>6. CASE FetchComplete
  <2>1. /\ UNCHANGED <<clock, fills, buffer, sync, lossy>>
        /\ DOMAIN pass' = Fields /\ pass.pc = "fetch" /\ pass'.pc = "stage"
        /\ pass'.now = pass.now /\ pass'.start = pass.start
        /\ pass'.fetched = Window
      BY <1>6 DEF FetchComplete, IInv, Types, Fields, tables, history
  <2>2. Types' /\ InThePast' /\ FetchedBeforeNow'
      BY <2>1 DEF IInv, Types, InThePast, FetchedBeforeNow, Window
  <2>3. StartsInTime' /\ Staged'
      BY <2>1 DEF IInv, StartsInTime, Staged
  <2>4. FetchedAll'
      BY <2>1 DEF IInv, Types, InThePast, FetchedAll, Window
  <2>5. NothingSkipped'
      BY <2>1 DEF IInv, NothingSkipped
  <2> QED BY <2>2, <2>3, <2>4, <2>5 DEF IInv
<1>7. CASE FetchTruncated
  <2>1. PICK got \in SUBSET Window :
          /\ UNCHANGED <<clock, fills, buffer, sync>>
          /\ DOMAIN pass' = Fields /\ pass.pc = "fetch" /\ pass'.pc = "stage"
          /\ pass'.now = pass.now /\ pass'.start = pass.start
          /\ pass'.fetched = got
          /\ lossy' = (lossy \/ got # Window)
      BY <1>7 DEF FetchTruncated, IInv, Types, Fields, tables
  <2>2. lossy' \in BOOLEAN /\ (~lossy' => ~lossy /\ got = Window)
      BY <2>1
  <2>3. Types' /\ InThePast' /\ FetchedBeforeNow'
      BY <2>1, <2>2 DEF IInv, Types, InThePast, FetchedBeforeNow, Window
  <2>4. StartsInTime' /\ Staged'
      BY <2>1 DEF IInv, StartsInTime, Staged
  <2>5. FetchedAll'
      BY <2>1, <2>2 DEF IInv, Types, InThePast, FetchedAll, Window
  <2>6. NothingSkipped'
      BY <2>1, <2>2 DEF IInv, NothingSkipped
  <2> QED BY <2>3, <2>4, <2>5, <2>6 DEF IInv
<1>8. CASE FetchFails \/ MarkErrorFails
    BY <1>8, QuietStep
       DEF FetchFails, MarkErrorFails, Goto, IInv, Types, Fields, tables, history
<1>9. CASE MarkError
  <2>1. sync'.cursor = sync.cursor /\ "cursor" \in DOMAIN sync'
      BY <1>9 DEF MarkError, IInv, Types
  <2> QED BY <1>9, <2>1, QuietStep DEF MarkError, Goto, IInv, Types, Fields, history
<1>10. CASE StageFill
  <2>1. PICK f \in pass.fetched : buffer' = buffer \cup {f}
      BY <1>10 DEF StageFill
  <2>2. UNCHANGED <<clock, fills, sync, pass, lossy>>
      BY <1>10 DEF StageFill, history
  <2>3. Types' /\ InThePast' /\ FetchedBeforeNow'
      BY <2>2 DEF IInv, Types, InThePast, FetchedBeforeNow
  <2>4. StartsInTime' /\ FetchedAll' /\ Staged'
      BY <2>1, <2>2 DEF IInv, StartsInTime, FetchedAll, Staged
  <2>5. NothingSkipped'
      BY <2>1, <2>2 DEF IInv, NothingSkipped
  <2> QED BY <2>3, <2>4, <2>5 DEF IInv
<1>11. CASE PlanDays
    BY <1>11, QuietStep DEF PlanDays, IInv, Types, Fields, tables
<1>12. CASE \E d \in Days : UpsertDay(d)
    BY <1>12, QuietStep DEF UpsertDay, IInv, Types, Staged, Fields, history
<1>13. CASE UpdateProgress
  <2>1. /\ UNCHANGED <<clock, fills, buffer, lossy>>
        /\ DOMAIN pass' = Fields /\ pass.pc = "days" /\ pass'.pc = "mark_synced"
        /\ pass'.now = pass.now /\ pass'.start = pass.start
        /\ pass'.fetched = pass.fetched
      BY <1>13 DEF UpdateProgress, Goto, IInv, Types, Fields, history
  <2>2. sync'.cursor = NextCursor /\ "cursor" \in DOMAIN sync'
      BY <1>13 DEF UpdateProgress, IInv, Types
  <2>3. NextCursor \in Nat /\ NextCursor <= pass.now
      BY CursorNotAhead DEF IInv
  <2>4. Types' /\ InThePast' /\ FetchedBeforeNow'
      BY <2>1, <2>2, <2>3 DEF IInv, Types, InThePast, FetchedBeforeNow, Times
  <2>5. StartsInTime' /\ FetchedAll' /\ Staged'
      BY <2>1 DEF StartsInTime, FetchedAll, Staged
  <2>6. NothingSkipped'
    <3> SUFFICES ASSUME ~lossy, NEW f \in fills,
                        f.at >= clock - Retention, f.at < NextCursor
                 PROVE  f \in buffer
        BY <2>1, <2>2 DEF NothingSkipped
    <3>1. /\ f.at \in Nat /\ clock \in Nat /\ pass.now \in Nat /\ pass.now <= clock
          /\ sync.cursor \in Int /\ pass.start \in Int
        BY DEF IInv, Types, InThePast, Times, Null
    <3>2. CASE f.at < sync.cursor
        BY <3>2 DEF IInv, NothingSkipped
    <3>3. CASE f.at >= sync.cursor
      <4>1. pass.start <= f.at
          BY <2>1, <3>1, <3>3 DEF IInv, StartsInTime
      <4>2. f \in pass.fetched
          BY <2>1, <2>3, <3>1, <4>1 DEF IInv, FetchedAll
      <4> QED BY <2>1, <4>2 DEF IInv, Staged
    <3> QED BY <3>1, <3>2, <3>3
  <2> QED BY <2>4, <2>5, <2>6 DEF IInv
<1>14. CASE MarkSynced
  <2>1. sync'.cursor = sync.cursor /\ "cursor" \in DOMAIN sync'
      BY <1>14 DEF MarkSynced, IInv, Types
  <2> QED BY <1>14, <2>1, QuietStep DEF MarkSynced, Goto, IInv, Types, Fields, history
<1>15. CASE RecalcPeriod \/ RecalcFailed
    BY <1>15, QuietStep DEF RecalcPeriod, RecalcFailed, IInv, Types, Fields, history
<1>16. CASE PurgeBuffer
  <2>1. /\ UNCHANGED <<clock, fills, sync, lossy>> /\ pass' = IdlePass
        /\ buffer' = {f \in buffer : f.at >= pass.now - Retention}
      BY <1>16 DEF PurgeBuffer, Cutoff, history
  <2>2. Types' /\ InThePast' /\ FetchedBeforeNow'
      BY <2>1 DEF IInv, Types, InThePast, FetchedBeforeNow, IdlePass, Fields
  <2>3. StartsInTime' /\ FetchedAll' /\ Staged'
      BY <2>1 DEF StartsInTime, FetchedAll, Staged, IdlePass
  <2>4. NothingSkipped'
      BY <2>1 DEF IInv, NothingSkipped, Types, InThePast
  <2> QED BY <2>2, <2>3, <2>4 DEF IInv
<1>17. CASE PassFailed \/ Abort
    BY <1>17, PassEnds DEF PassFailed, Abort, tables, history
<1>18. CASE UNCHANGED vars
  <2>1. UNCHANGED <<clock, fills, buffer, sync, pass, lossy>>
      BY <1>18 DEF vars, tables, history
  <2> QED BY <2>1 DEF IInv, Types, InThePast, FetchedBeforeNow, StartsInTime,
                      FetchedAll, Staged, NothingSkipped
<1> QED BY <1>1, <1>2, <1>3, <1>4, <1>5, <1>6, <1>7, <1>8, <1>9, <1>10, <1>11, <1>12,
           <1>13, <1>14, <1>15, <1>16, <1>17, <1>18 DEF Next

\* Whatever passes are cut short, delayed or repeated, and whatever the wallet
\* trades meanwhile, no recent fill before the cursor is missing from the buffer
\* unless a truncated fetch has left it out (SyncWallet, UpdateSyncProgress).
THEOREM CursorNeverAhead == Spec => []NothingSkipped
<1>1. IInv => NothingSkipped
    BY DEF IInv
<1> QED BY InitInv, NextInv, <1>1, PTL DEF Spec

-----------------------------------------------------------------------------
(* Types.                                                                  *)

\* Days are in the order of their times, and begin in it.
LEMMA DayOrder ==
  ASSUME NEW a \in Nat, NEW b \in Nat, a <= b
  PROVE  /\ DayOf(a) \in Nat /\ DayOf(a) <= DayOf(b)
         /\ DayStart(DayOf(a)) <= a
<1> DEFINE p == a \div Day
           q == b \div Day
           r == a % Day
           u == b % Day
<1>1. Day \in Nat \ {0}
    BY SyncAssumption
<1>2. /\ p \in Nat /\ r \in 0..(Day - 1) /\ a = Day * p + r
      /\ q \in Nat /\ u \in 0..(Day - 1) /\ b = Day * q + u
    BY <1>1
<1> HIDE DEF p, q, r, u
<1>3. p <= q
  <2> SUFFICES ASSUME q + 1 <= p PROVE FALSE
      BY <1>2
  <2>1. PICK d \in Nat : p = (q + 1) + d
    <3>1. p - (q + 1) \in Nat /\ p = (q + 1) + (p - (q + 1))
        BY <1>2
    <3> QED BY <3>1
  <2>2. Day * p = Day * q + Day + Day * d /\ Day * d \in Nat /\ Day * q \in Nat
      BY <1>1, <1>2, <2>1
  <2> QED BY <1>1, <1>2, <2>2
<1>4. p * Day <= a
    BY <1>1, <1>2
<1> QED BY <1>2, <1>3, <1>4 DEF DayOf, DayStart, p, q

\* The venue's fills are numbered in the order of their times.
Numbered ==
  /\ IsFiniteSet(fills)
  /\ \A f \in fills : f.tid \in 1..Cardinality(fills) /\ f.at <= clock
  /\ \A f, g \in fills : f.tid = g.tid => f = g
  /\ \A f, g \in fills : f.tid < g.tid => f.at <= g.at

\* The days of a row end no later than the horizon.
LEMMA KnownDay ==
  ASSUME NEW t \in Nat, t <= Horizon
  PROVE  DayOf(t) \in Days
<1>1. Horizon \in Nat
    BY SyncAssumption
<1> QED BY <1>1, DayOrder DEF Days

LEMMA FillsAreFills ==
  ASSUME TypeOK, Numbered
  PROVE  FillSet(fills) /\ FillSet(buffer)
<1>1. \A f \in fills : f \in AnyFill
    BY SyncAssumption DEF TypeOK, Fill, AnyFill
<1>2. Cardinality(fills) + 1 \in Nat /\ \A f \in fills : f.tid < Cardinality(fills) + 1
    BY FS_CardinalityType DEF Numbered
<1>3. FillSet(fills)
    BY <1>1, <1>2 DEF FillSet, Below, Numbered
<1> QED BY <1>3, SubFills DEF TypeOK

\* A reconstructed trade ends with one of the fills.
LEMMA ClosesAtAFill ==
  ASSUME NEW S, FillSet(S), NEW t \in ReconstructTrades(S)
  PROVE  \E f \in S : t.close = f.at
<1>1. t \in TrueTrades(S)
    BY ReconstructionIsRight
<1> QED BY <1>1 DEF TrueTrades, TrueTrade

LEMMA TypeInit == Init => TypeOK /\ Numbered
<1> SUFFICES ASSUME Init PROVE TypeOK /\ Numbered
    OBVIOUS
<1> USE SyncAssumption DEF Init
<1>1. Numbered
    BY FS_EmptySet DEF Numbered
<1>2. clock \in 0..Horizon /\ fills \in SUBSET Fill /\ buffer \subseteq fills
    OBVIOUS
<1>3. DOMAIN rows = Days /\ DOMAIN period = Periods
    OBVIOUS
<1>4. sync \in [cursor : Times, status : {"pending", "syncing", "ready", "error"},
                retry : Nat, failedAt : Nat, lastSuccess : Times, backfilled : BOOLEAN]
    BY DEF Times
<1>5. pass \in [pc : {"idle", "begin", "syncing", "fetch", "mark_error", "stage", "days",
                      "mark_synced", "recalc", "recalc_failed"},
                now : Nat, full : BOOLEAN, start : Int, since : Times,
                fetched : SUBSET fills, truncated : BOOLEAN,
                days : SUBSET Days, next : Nat]
    BY DEF IdlePass, Times
<1>6. failures \in Nat /\ lossy \in BOOLEAN /\ cut \in BOOLEAN
    OBVIOUS
<1> QED BY <1>1, <1>2, <1>3, <1>4, <1>5, <1>6 DEF TypeOK

LEMMA TypeStep ==
  ASSUME IInv, TypeOK, Numbered, [Next]_vars
  PROVE  TypeOK' /\ Numbered'
<1> USE SyncAssumption
<1>1. CASE Tick
  <2>1. UNCHANGED <<fills, tables, pass, failures, history>> /\ clock' = clock + 1
        /\ clock < Horizon
      BY <1>1 DEF Tick
  <2>2. clock' \in 0..Horizon
      BY <2>1 DEF TypeOK
  <2>3. Numbered'
    <3>1. \A f \in fills : f.at \in Nat /\ clock \in Nat
        BY DEF TypeOK, Fill
    <3>2. \A f \in fills : f.at <= clock'
        BY <2>1, <3>1 DEF Numbered
    <3> QED BY <2>1, <3>2 DEF Numbered
  <2> QED BY <2>1, <2>2, <2>3 DEF TypeOK, tables, history
<1>2. CASE \E q \in Sizes : Fills(q)
  <2>1. PICK q \in Sizes : Fills(q)
      BY <1>2
  <2> DEFINE new == [tid |-> Cardinality(fills) + 1, at |-> clock, q |-> q]
  <2>2. /\ UNCHANGED <<clock, tables, pass, failures, history>>
        /\ fills' = fills \cup {new}
      BY <2>1 DEF Fills
  <2>3. Cardinality(fills) \in Nat /\ IsFiniteSet(fills)
      BY FS_CardinalityType DEF Numbered
  <2>4. new \in Fill /\ new \notin fills
      BY <2>3 DEF Fill, TypeOK, Numbered
  <2>5. IsFiniteSet(fills') /\ Cardinality(fills') = Cardinality(fills) + 1
      BY <2>2, <2>3, <2>4, FS_AddElement
  <2>6. new.tid = Cardinality(fills) + 1 /\ new.at = clock
      OBVIOUS
  <2> HIDE DEF new
  <2>7. TypeOK'
      BY <2>2, <2>4 DEF TypeOK, tables, history
  <2>8. Numbered'
    <3>1. \A f \in fills' : f.tid \in 1..Cardinality(fills') /\ f.at <= clock'
        BY <2>2, <2>3, <2>5, <2>6 DEF Numbered, TypeOK
    <3>2. \A f, g \in fills' : f.tid = g.tid => f = g
        BY <2>2, <2>3, <2>6 DEF Numbered
    <3>3. \A f, g \in fills' : f.tid < g.tid => f.at <= g.at
        BY <2>2, <2>3, <2>6 DEF Numbered, TypeOK
    <3> QED BY <2>5, <3>1, <3>2, <3>3 DEF Numbered
  <2> QED BY <2>7, <2>8
<1>3. CASE SyncAll
  <2>1. pass' = [IdlePass EXCEPT !.pc = "begin", !.now = clock]
        /\ UNCHANGED <<clock, fills, tables, failures, history>>
      BY <1>3 DEF SyncAll
  <2>2. clock \in Nat /\ Null \in Times
      BY DEF TypeOK, Times
  <2>3. pass' = [pc |-> "begin", now |-> clock, full |-> FALSE, start |-> 0, since |-> Null,
                 fetched |-> {}, truncated |-> FALSE, days |-> {}, next |-> 1]
      BY <2>1 DEF IdlePass
  <2> DEFINE n == Null
  <2>4. n \in Times
      BY <2>2
  <2>5. pass' = [pc |-> "begin", now |-> clock, full |-> FALSE, start |-> 0, since |-> n,
                 fetched |-> {}, truncated |-> FALSE, days |-> {}, next |-> 1]
      BY <2>3
  <2> HIDE DEF n
  <2>6. pass' \in [pc : {"idle", "begin", "syncing", "fetch", "mark_error", "stage", "days",
                        "mark_synced", "recalc", "recalc_failed"},
                   now : Nat, full : BOOLEAN, start : Int, since : Times,
                   fetched : SUBSET fills, truncated : BOOLEAN,
                   days : SUBSET Days, next : Nat]
    <3> DEFINE c == clock
    <3>1. c \in Nat
        BY <2>2
    <3> HIDE DEF c
    <3> QED BY <2>4, <2>5, <3>1 DEF c
  <2>7. UNCHANGED <<clock, fills, tables, failures, history>>
      BY <2>1
  <2>8. TypeOK'
      BY <2>6, <2>7 DEF TypeOK, tables, history
  <2>9. Numbered'
      BY <2>7 DEF Numbered
  <2> QED BY <2>8, <2>9
<1>4. CASE Begin
  <2>1. pass' = [pass EXCEPT !.pc = IF ~sync.backfilled THEN "syncing" ELSE "fetch",
                             !.full = ~sync.backfilled, !.start = StartOf(~sync.backfilled),
                             !.since = sync.lastSuccess]
        /\ UNCHANGED <<clock, fills, tables, failures, history>>
      BY <1>4 DEF Begin
  <2> DEFINE pc == IF ~sync.backfilled THEN "syncing" ELSE "fetch"
             full == ~sync.backfilled
             start == StartOf(~sync.backfilled)
             since == sync.lastSuccess
  <2>2. start \in Int
      BY DEF StartOf, TypeOK, Times, Null
  <2>3. since \in Times /\ full \in BOOLEAN /\ pc \in {"syncing", "fetch"}
      BY DEF TypeOK
  <2>4. pass' = [pass EXCEPT !.pc = pc, !.full = full, !.start = start, !.since = since]
      BY <2>1
  <2> HIDE DEF pc, full, start, since
  <2> QED BY <2>1, <2>2, <2>3, <2>4 DEF TypeOK, Numbered, tables, history
<1>5. CASE MarkSyncing
    BY <1>5 DEF MarkSyncing, Goto, TypeOK, Numbered, history
<1>6. CASE FetchComplete
  <2>1. Window \subseteq fills
      BY DEF Window
  <2> QED BY <1>6, <2>1 DEF FetchComplete, TypeOK, Numbered, tables, history
<1>7. CASE FetchTruncated
  <2>1. PICK got \in SUBSET Window :
          /\ pass' = [pass EXCEPT !.pc = "stage", !.fetched = got, !.truncated = TRUE]
          /\ lossy' = (lossy \/ got # Window)
          /\ UNCHANGED <<clock, fills, tables, failures, cut>>
      BY <1>7 DEF FetchTruncated
  <2>2. got \subseteq fills
      BY DEF Window
  <2>3. lossy' \in BOOLEAN
      BY <2>1
  <2> QED BY <2>1, <2>2, <2>3 DEF TypeOK, Numbered, tables
<1>8. CASE FetchFails \/ MarkErrorFails
    BY <1>8 DEF FetchFails, MarkErrorFails, Goto, TypeOK, Numbered, tables, history
<1>9. CASE MarkError
  <2>1. Retries(1) \in Nat /\ clock \in Nat
      BY DEF Retries, TypeOK
  <2> QED BY <1>9, <2>1 DEF MarkError, Goto, TypeOK, Numbered, history
<1>10. CASE StageFill
    BY <1>10 DEF StageFill, TypeOK, Numbered, history
<1>11. CASE PlanDays
  <2> DEFINE ds == {DayOf(f.at) : f \in {f \in pass.fetched : f.at >= Cutoff}}
                   \cup {DayOf(t.close) : t \in Closed}
  <2>1. /\ pass' = [pass EXCEPT !.pc = "days", !.days = ds]
        /\ cut' = (cut \/ Position(OlderThan(Cutoff)) # 0)
        /\ UNCHANGED <<clock, fills, tables, failures, lossy>>
      BY <1>11 DEF PlanDays
  <2>2. cut' \in BOOLEAN
      BY <2>1 DEF TypeOK
  <2>3. \A f \in fills : DayOf(f.at) \in Days
    <3>1. \A f \in fills : f.at \in Nat /\ f.at <= Horizon
        BY DEF TypeOK, Fill, Numbered
    <3> QED BY <3>1, KnownDay
  <2>4. \A t \in Closed : \E f \in fills : t.close = f.at
    <3>1. FillSet(Loaded)
        BY FillsAreFills, SubFills DEF Loaded
    <3>2. Loaded \subseteq fills
        BY DEF Loaded, TypeOK
    <3> QED BY <3>1, <3>2, ClosesAtAFill DEF Closed
  <2>5. ds \subseteq Days
      BY <2>3, <2>4 DEF TypeOK
  <2> HIDE DEF ds
  <2> QED BY <2>1, <2>2, <2>5 DEF TypeOK, Numbered, tables
<1>12. CASE \E d \in Days : UpsertDay(d)
  <2>1. PICK d \in Days : UpsertDay(d)
      BY <1>12
  <2>2. /\ pass' = [pass EXCEPT !.days = @ \ {d}] /\ DOMAIN rows' = DOMAIN rows
        /\ UNCHANGED <<clock, fills, buffer, period, sync, failures, history>>
      BY <2>1 DEF UpsertDay
  <2> QED BY <2>2 DEF TypeOK, Numbered, history
<1>13. CASE UpdateProgress
  <2>1. NextCursor \in Times /\ Retries(-sync.retry - 10) \in Nat
    <3>1. NextCursor \in Nat
        BY CursorNotAhead DEF IInv
    <3>2. sync.retry \in Nat
        BY DEF TypeOK
    <3> QED BY <3>1, <3>2 DEF Times, Retries
  <2> QED BY <1>13, <2>1 DEF UpdateProgress, Goto, TypeOK, Numbered, history
<1>14. CASE MarkSynced
  <2>1. pass.now \in Times /\ (sync.backfilled \/ pass.full) \in BOOLEAN
      BY DEF TypeOK, Times
  <2> QED BY <1>14, <2>1 DEF MarkSynced, Goto, TypeOK, Numbered, history
<1>15. CASE RecalcPeriod \/ RecalcFailed
  <2>1. /\ pass' = [pass EXCEPT !.next = pass.next + 1]
        /\ DOMAIN period' = DOMAIN period
        /\ UNCHANGED <<clock, fills, buffer, rows, sync, failures, history>>
      BY <1>15 DEF RecalcPeriod, RecalcFailed
  <2>2. pass.next + 1 \in Nat
      BY DEF TypeOK
  <2> QED BY <2>1, <2>2 DEF TypeOK, Numbered, history
<1>16. CASE PurgeBuffer
    BY <1>16 DEF PurgeBuffer, IdlePass, TypeOK, Numbered, Times, history
<1>17. CASE PassFailed \/ Abort
  <2>1. /\ pass' = IdlePass /\ failures' \in Nat
        /\ UNCHANGED <<clock, fills, tables, history>>
      BY <1>17 DEF PassFailed, Abort, TypeOK
  <2>2. Null \in Times
      BY DEF Times
  <2> QED BY <2>1, <2>2 DEF IdlePass, TypeOK, Numbered, tables, history
<1>18. CASE UNCHANGED vars
    BY <1>18 DEF vars, TypeOK, Numbered, tables, history
<1> QED BY <1>1, <1>2, <1>3, <1>4, <1>5, <1>6, <1>7, <1>8, <1>9, <1>10, <1>11, <1>12,
           <1>13, <1>14, <1>15, <1>16, <1>17, <1>18 DEF Next

\* The tables and the running pass keep their types; above all, every day a
\* pass rebuilds is one that has a row.
THEOREM TypeCorrect == Spec => []TypeOK
BY InitInv, NextInv, TypeInit, TypeStep, PTL DEF Spec

-----------------------------------------------------------------------------
(* The daily rows.  As the row of a day is a function of the fills behind  *)
(* it, what the argument needs of a row is a moment up to which it has     *)
(* them all: RowAt.                                                        *)

FirstOf(F, k) == {f \in F : f.tid <= k}
RowOf(S, d) ==
  [trades |-> {t \in TrueTrades(S) : DayOf(t.close) = d},
   fills  |-> {f.tid : f \in {f \in S : DayOf(f.at) = d}}]

\* The row of day d, of the wallet with fills F, as it was at t or later.
RowAt(F, row, d, t) ==
  \E k \in 0..Cardinality(F) :
    {f \in F : f.at < t} \subseteq FirstOf(F, k) /\ row = RowOf(FirstOf(F, k), d)

LEMMA RowEarlier ==
  ASSUME NEW F \in SUBSET AnyFill, NEW row, NEW d,
         NEW t \in Int, NEW u \in Int, u <= t, RowAt(F, row, d, t)
  PROVE  RowAt(F, row, d, u)
<1>1. \A f \in F : f.at < u => f.at < t
    BY DEF AnyFill
<1> QED BY <1>1 DEF RowAt

\* What is traded later does not change what a row says of an earlier moment.
LEMMA RowStays ==
  ASSUME NEW F \in SUBSET AnyFill, IsFiniteSet(F), NEW new \in AnyFill,
         new.tid = Cardinality(F) + 1, new \notin F,
         NEW row, NEW d, NEW t \in Int, t <= new.at, RowAt(F, row, d, t)
  PROVE  RowAt(F \cup {new}, row, d, t)
<1> DEFINE G == F \cup {new}
<1>1. Cardinality(F) \in Nat /\ Cardinality(G) = Cardinality(F) + 1
    BY FS_CardinalityType, FS_AddElement
<1>2. PICK k \in 0..Cardinality(F) :
        {f \in F : f.at < t} \subseteq FirstOf(F, k) /\ row = RowOf(FirstOf(F, k), d)
    BY DEF RowAt
<1>3. ~(new.at < t)
    BY DEF AnyFill
<1>4. {f \in G : f.at < t} = {f \in F : f.at < t}
    BY <1>3
<1>5. FirstOf(G, k) = FirstOf(F, k)
    BY <1>1 DEF FirstOf
<1>6. k \in 0..Cardinality(G)
    BY <1>1
<1> HIDE DEF G
<1>7. RowAt(G, row, d, t)
    BY <1>2, <1>4, <1>5, <1>6 DEF RowAt
<1> QED BY <1>7 DEF G

\* Later fills of other days leave the row of a day as it is.
LEMMA RowOfMore ==
  ASSUME NEW S, FillSet(S), NEW P, Begins(P, S), NEW d,
         \A f \in S \ P : DayOf(f.at) # d
  PROVE  RowOf(P, d) = RowOf(S, d)
<1>1. P \subseteq S /\ \A f \in S : f.tid \in Nat
    BY DEF Begins, FillSet, AnyFill
<1>2. ASSUME NEW t, t \in TrueTrades(S), DayOf(t.close) = d
      PROVE  t \in TrueTrades(P)
  <2>1. PICK f \in S, l \in S : IsCycle(f, l, S) /\ t = TrueTrade(f, l, S)
      BY <1>2 DEF TrueTrades
  <2>2. t.close = l.at /\ f.tid < l.tid
      BY <2>1 DEF TrueTrade, IsCycle
  <2>3. l \in P
      BY <1>2, <2>2
  <2>4. f \in P
    <3>1. CASE f \notin P
      <4>1. l.tid < f.tid
          BY <2>3, <3>1 DEF Begins
      <4> QED BY <1>1, <2>2, <4>1
    <3> QED BY <3>1
  <2>5. IsCycle(f, l, P) /\ t = TrueTrade(f, l, P)
      BY <2>1, <2>3, <2>4, CyclesBefore
  <2>6. <<f, l>> \in P \X P /\ <<f, l>>[1] = f /\ <<f, l>>[2] = l
      BY <2>3, <2>4
  <2> QED BY <2>5, <2>6 DEF TrueTrades
<1>3. ASSUME NEW t \in TrueTrades(P) PROVE t \in TrueTrades(S)
  <2>1. PICK f \in P, l \in P : IsCycle(f, l, P) /\ t = TrueTrade(f, l, P)
      BY <1>3 DEF TrueTrades
  <2>2. IsCycle(f, l, S) /\ t = TrueTrade(f, l, S)
      BY <2>1, CyclesBefore
  <2>3. <<f, l>> \in S \X S /\ <<f, l>>[1] = f /\ <<f, l>>[2] = l
      BY <1>1
  <2> QED BY <2>2, <2>3 DEF TrueTrades
<1>4. {t \in TrueTrades(P) : DayOf(t.close) = d} = {t \in TrueTrades(S) : DayOf(t.close) = d}
    BY <1>2, <1>3
<1>5. {f \in P : DayOf(f.at) = d} = {f \in S : DayOf(f.at) = d}
    BY <1>1
<1> QED BY <1>4, <1>5 DEF RowOf

\* The row of a day can be made from the fills after a moment before that day
\* at which the position was flat.
LEMMA RowAfterFlat ==
  ASSUME NEW S, FillSet(S), NEW P, Begins(P, S), Position(P) = 0, NEW d,
         \A f \in P : DayOf(f.at) # d
  PROVE  RowOf(S \ P, d) = RowOf(S, d)
<1> DEFINE M == S \ P
<1>1. P \subseteq S
    BY DEF Begins
<1>2. ASSUME NEW t, t \in TrueTrades(S), DayOf(t.close) = d
      PROVE  t \in TrueTrades(M)
  <2>1. PICK f \in S, l \in S : IsCycle(f, l, S) /\ t = TrueTrade(f, l, S)
      BY <1>2 DEF TrueTrades
  <2>2. t.close = l.at
      BY <2>1 DEF TrueTrade
  <2>3. l \in M
      BY <1>2, <2>2
  <2>4. f \in M
      BY <2>1, <2>3, CyclesAfterFlat
  <2>5. IsCycle(f, l, M) /\ t = TrueTrade(f, l, M)
      BY <2>1, <2>3, <2>4, CyclesAfterFlat
  <2>6. <<f, l>> \in M \X M /\ <<f, l>>[1] = f /\ <<f, l>>[2] = l
      BY <2>3, <2>4
  <2> HIDE DEF M
  <2> QED BY <2>5, <2>6 DEF TrueTrades
<1>3. ASSUME NEW t \in TrueTrades(M) PROVE t \in TrueTrades(S)
  <2>1. PICK f \in M, l \in M : IsCycle(f, l, M) /\ t = TrueTrade(f, l, M)
    <3> HIDE DEF M
    <3> QED BY <1>3 DEF TrueTrades
  <2>2. IsCycle(f, l, S) /\ t = TrueTrade(f, l, S)
      BY <2>1, CyclesAfterFlat
  <2>3. <<f, l>> \in S \X S /\ <<f, l>>[1] = f /\ <<f, l>>[2] = l
      OBVIOUS
  <2> QED BY <2>2, <2>3 DEF TrueTrades
<1>4. {f \in M : DayOf(f.at) = d} = {f \in S : DayOf(f.at) = d}
    OBVIOUS
<1> HIDE DEF M
<1>5. {t \in TrueTrades(M) : DayOf(t.close) = d} = {t \in TrueTrades(S) : DayOf(t.close) = d}
    BY <1>2, <1>3
<1>6. RowOf(M, d) = RowOf(S, d)
    BY <1>4, <1>5 DEF RowOf
<1> QED BY <1>6 DEF M

\* While a pass runs, nothing stored is newer than its now.
Past == pass.pc # "idle" =>
  /\ sync.cursor <= pass.now
  /\ \A f \in buffer : f.at <= pass.now

\* While a pass runs, the buffer has the fills before the cursor that are in
\* what the pass will load.
Kept == ~lossy /\ pass.pc # "idle" =>
  \A f \in fills : Cutoff <= f.at /\ f.at < sync.cursor => f \in buffer

\* After its fetch a pass knows the fills up to the k-th, and no other.
Knows(k) ==
  /\ \A f \in fills : f.at < pass.now => f.tid <= k
  /\ \A f \in fills : f.tid <= k => f.at <= pass.now
  /\ \A f \in fills : f.tid <= k /\ f.at >= pass.start => f \in pass.fetched
  /\ \A f \in buffer \cup pass.fetched : f.tid <= k
KnowsSome ==
  ~lossy /\ pass.pc \in {"stage", "days"} => \E k \in 0..Cardinality(fills) : Knows(k)

WasFlat == ~cut /\ pass.pc = "days" => Position(OlderThan(Cutoff)) = 0

\* A row a pass has written, or need not write, is up to its now.
RowsCurrent ==
  ~lossy /\ ~cut /\ pass.pc \in {"days", "mark_synced", "recalc"} =>
    \A d \in Days \ pass.days : Recent(d) => RowAt(fills, rows[d], d, pass.now)

AllDaysDone == pass.pc \in {"mark_synced", "recalc"} => pass.days = {}

ReadyPeriods ==
  \A p \in Periods : period[p].status = "ready" =>
    /\ period[p].asOf \in Nat /\ period[p].asOf <= clock
    /\ DOMAIN period[p].rows \subseteq Days

RowsWhole ==
  ~lossy /\ ~cut => \A d \in Days : Recent(d) => RowAt(fills, rows[d], d, sync.cursor)
PeriodsWhole ==
  ~lossy /\ ~cut =>
    \A p \in Periods : period[p].status = "ready" =>
      \A d \in DOMAIN period[p].rows :
        Recent(d) => RowAt(fills, period[p].rows[d], d, period[p].asOf)

PInv == Past /\ Kept /\ KnowsSome /\ WasFlat /\ AllDaysDone
RInv == RowsWhole /\ RowsCurrent /\ ReadyPeriods /\ PeriodsWhole
TInv == IInv /\ TypeOK /\ Numbered

\* The fills of a recent day are in what a pass loads.
LEMMA RecentIsLoaded ==
  ASSUME TInv, NEW d \in Days, Recent(d), NEW f \in fills, DayOf(f.at) = d
  PROVE  f.at >= clock - Retention /\ f.at >= Cutoff
<1>1. f.at \in Nat /\ clock \in Nat /\ pass.now \in Nat /\ pass.now <= clock
    BY DEF TInv, IInv, Types, InThePast
<1>2. DayStart(d) <= f.at
    BY <1>1, DayOrder
<1>3. DayStart(d) \in Int /\ Day \in Nat /\ Retention \in Nat /\ d \in Nat
    BY SyncAssumption DEF DayStart, Days
<1> QED BY <1>1, <1>2, <1>3 DEF Recent, Cutoff

\* What a pass has to rebuild from: all the fills it knows that are not older
\* than the retention.
LEMMA KnownIsLoaded ==
  ASSUME TInv, PInv, ~lossy, pass.pc \in {"stage", "days"}, pass.fetched \subseteq buffer,
         NEW k \in 0..Cardinality(fills), Knows(k)
  PROVE  /\ Loaded = {f \in FirstOf(fills, k) : f.at >= Cutoff}
         /\ \A f \in FirstOf(fills, k) :
              f.at >= Cutoff /\ f.at >= sync.cursor => f \in pass.fetched
<1>1. /\ pass.now \in Nat /\ pass.start \in Int /\ sync.cursor \in Int
      /\ \A f \in fills : f.at \in Nat
      /\ buffer \subseteq fills
    BY DEF TInv, TypeOK, IInv, Types, InThePast, Times, Null
<1>2. pass.start <= sync.cursor \/ pass.start <= Cutoff
    BY <1>1, SyncAssumption DEF TInv, IInv, StartsInTime, Cutoff
<1>3. Cutoff \in Int
    BY <1>1, SyncAssumption DEF Cutoff
<1>4. ASSUME NEW f \in FirstOf(fills, k), f.at >= Cutoff, f.at >= sync.cursor
      PROVE  f \in pass.fetched
  <2>1. f \in fills /\ f.tid <= k /\ f.at >= pass.start
      BY <1>1, <1>2, <1>3, <1>4 DEF FirstOf
  <2> QED BY <2>1 DEF Knows
<1>5. ASSUME NEW f \in FirstOf(fills, k), f.at >= Cutoff
      PROVE  f \in Loaded
  <2>1. f \in fills /\ f.at <= pass.now
      BY DEF FirstOf, Knows
  <2>2. f \in buffer
    <3>1. CASE f.at < sync.cursor
        BY <1>5, <2>1, <3>1 DEF PInv, Kept
    <3>2. CASE f.at >= sync.cursor
        BY <1>4, <1>5, <3>2
    <3> QED BY <1>1, <2>1, <3>1, <3>2
  <2>3. f.at < pass.now + 1
      BY <1>1, <2>1
  <2> QED BY <1>5, <2>2, <2>3 DEF Loaded
<1>6. ASSUME NEW f \in Loaded
      PROVE  f \in FirstOf(fills, k) /\ f.at >= Cutoff
  <2>1. f \in buffer /\ f \in fills /\ f.at >= Cutoff
      BY <1>1, <1>3 DEF Loaded
  <2> QED BY <2>1 DEF Knows, FirstOf
<1> QED BY <1>4, <1>5, <1>6

\* UpsertDay: the row of a recent day is that of the fills the pass knows.
LEMMA RowRebuilt ==
  ASSUME TInv, PInv, ~lossy, ~cut, pass.pc = "days", NEW d \in Days, Recent(d)
  PROVE  RowAt(fills, RollupDay({f \in buffer : DayOf(f.at) = d},
                                {t \in Closed : DayOf(t.close) = d}), d, pass.now)
<1>1. pass.fetched \subseteq buffer
    BY DEF TInv, IInv, Staged
<1>2. PICK k \in 0..Cardinality(fills) : Knows(k)
    BY DEF PInv, KnowsSome
<1> DEFINE S == FirstOf(fills, k)
           P == {f \in S : f.at < Cutoff}
<1>3. Loaded = S \ P
  <2>1. Loaded = {f \in S : f.at >= Cutoff}
      BY <1>1, <1>2, KnownIsLoaded
  <2>2. Cutoff \in Int /\ \A f \in fills : f.at \in Int
      BY SyncAssumption DEF Cutoff, TInv, IInv, Types, InThePast
  <2> QED BY <2>1, <2>2 DEF FirstOf
<1>4. FillSet(S)
    BY FillsAreFills, SubFills DEF FirstOf, TInv
<1>5. Begins(P, S)
  <2>1. ASSUME NEW p \in P, NEW m \in S \ P PROVE p.tid < m.tid
    <3>1. /\ p \in fills /\ m \in fills /\ p.at < Cutoff /\ ~(m.at < Cutoff) /\ p # m
          /\ p.at \in Nat /\ m.at \in Nat /\ Cutoff \in Int
        BY SyncAssumption DEF FirstOf, Cutoff, TInv, IInv, Types, InThePast
    <3>2. p.tid # m.tid
        BY <3>1 DEF TInv, Numbered
    <3>3. ~(m.tid < p.tid)
        BY <3>1 DEF TInv, Numbered
    <3>4. p.tid \in Int /\ m.tid \in Int
        BY <3>1 DEF TInv, TypeOK, Fill
    <3> QED BY <3>2, <3>3, <3>4
  <2> QED BY <2>1 DEF Begins
<1>6. Position(P) = 0
  <2>1. P = OlderThan(Cutoff)
    <3>1. ASSUME NEW f \in fills, f.at < Cutoff PROVE f \in S
      <4>1. f.at < pass.now
          BY <3>1, SyncAssumption DEF Cutoff, TInv, IInv, Types, InThePast
      <4> QED BY <1>2, <4>1 DEF Knows, FirstOf
    <3> QED BY <3>1 DEF OlderThan, FirstOf
  <2> QED BY <2>1 DEF PInv, WasFlat
<1>7. \A f \in P : DayOf(f.at) # d
  <2> SUFFICES ASSUME NEW f \in P, DayOf(f.at) = d PROVE FALSE
      OBVIOUS
  <2>1. f \in fills /\ f.at < Cutoff /\ f.at \in Nat /\ Cutoff \in Int
      BY SyncAssumption DEF FirstOf, Cutoff, TInv, IInv, Types, InThePast
  <2>2. f.at >= Cutoff
      BY <2>1, RecentIsLoaded
  <2> QED BY <2>1, <2>2
<1>8. RowOf(Loaded, d) = RowOf(S, d)
  <2> HIDE DEF S, P
  <2> QED BY <1>3, <1>4, <1>5, <1>6, <1>7, RowAfterFlat
<1>9. FillSet(Loaded) /\ Loaded \subseteq fills
    BY FillsAreFills, SubFills DEF TInv, TypeOK, Loaded
<1>10. {t \in Closed : DayOf(t.close) = d} = {t \in TrueTrades(Loaded) : DayOf(t.close) = d}
  <2>1. ReconstructTrades(Loaded) = TrueTrades(Loaded)
      BY <1>9, ReconstructionIsRight
  <2>2. ASSUME NEW t \in TrueTrades(Loaded), DayOf(t.close) = d PROVE t.close >= Cutoff
    <3>1. PICK f \in Loaded : t.close = f.at
        BY <1>9, <2>1, ClosesAtAFill
    <3> QED BY <1>9, <2>2, <3>1, RecentIsLoaded
  <2> QED BY <2>1, <2>2 DEF Closed
<1>11. {f \in buffer : DayOf(f.at) = d} = {f \in Loaded : DayOf(f.at) = d}
  <2>1. ASSUME NEW f \in buffer, DayOf(f.at) = d PROVE f \in Loaded
    <3>1. f \in fills /\ f.at <= pass.now /\ f.at \in Nat /\ pass.now \in Nat
        BY DEF PInv, Past, TInv, TypeOK, IInv, Types, InThePast
    <3>2. f.at >= Cutoff
        BY <2>1, <3>1, RecentIsLoaded
    <3>3. Cutoff \in Int
        BY <3>1, SyncAssumption DEF Cutoff
    <3> QED BY <3>1, <3>2, <3>3 DEF Loaded
  <2> QED BY <2>1 DEF Loaded
<1>12. RollupDay({f \in buffer : DayOf(f.at) = d}, {t \in Closed : DayOf(t.close) = d})
         = RowOf(S, d)
  <2> HIDE DEF S
  <2> QED BY <1>8, <1>10, <1>11 DEF RollupDay, RowOf
<1>13. {f \in fills : f.at < pass.now} \subseteq S
    BY <1>2 DEF Knows, FirstOf
<1> QED BY <1>12, <1>13 DEF RowAt

\* PlanDays: a recent day it does not plan has a row that is up to its now.
LEMMA RowUnplanned ==
  ASSUME TInv, PInv, RInv, ~lossy, ~cut, pass.pc = "stage", pass.fetched \subseteq buffer,
         NEW d \in Days, Recent(d),
         \A f \in pass.fetched : f.at >= Cutoff => DayOf(f.at) # d
  PROVE  RowAt(fills, rows[d], d, pass.now)
<1>1. PICK k \in 0..Cardinality(fills) : Knows(k)
    BY DEF PInv, KnowsSome
<1>2. PICK j \in 0..Cardinality(fills) :
        /\ {f \in fills : f.at < sync.cursor} \subseteq FirstOf(fills, j)
        /\ rows[d] = RowOf(FirstOf(fills, j), d)
    BY DEF RInv, RowsWhole, RowAt
<1>3. /\ Cardinality(fills) \in Nat /\ j \in Nat /\ k \in Nat
      /\ \A f \in fills : f.tid \in Nat /\ f.at \in Nat
      /\ sync.cursor \in Int
    BY FS_CardinalityType
       DEF TInv, Numbered, TypeOK, Fill, IInv, Types, Times, Null
<1>4. {f \in fills : f.at < pass.now} \subseteq FirstOf(fills, k)
    BY <1>1 DEF Knows, FirstOf
<1>5. CASE k <= j
  <2>1. FirstOf(fills, k) \subseteq FirstOf(fills, j)
      BY <1>3, <1>5 DEF FirstOf
  <2> QED BY <1>2, <1>4, <2>1 DEF RowAt
<1>6. CASE j < k
  <2> DEFINE P == FirstOf(fills, j)
             S == FirstOf(fills, k)
  <2>1. FillSet(S)
      BY FillsAreFills, SubFills DEF FirstOf, TInv
  <2>2. Begins(P, S)
      BY <1>3, <1>6 DEF FirstOf, Begins
  <2>3. \A f \in S \ P : DayOf(f.at) # d
    <3> SUFFICES ASSUME NEW f \in S \ P, DayOf(f.at) = d PROVE FALSE
        OBVIOUS
    <3>1. f \in fills
        BY DEF FirstOf
    <3>2. f.at >= Cutoff
        BY <3>1, RecentIsLoaded
    <3>3. f.at >= sync.cursor
        BY <1>2, <1>3, <3>1
    <3>4. f \in pass.fetched
        BY <1>1, <3>2, <3>3, KnownIsLoaded
    <3> QED BY <3>2, <3>4
  <2>4. RowOf(P, d) = RowOf(S, d)
    <3> HIDE DEF P, S
    <3> QED BY <2>1, <2>2, <2>3, RowOfMore
  <2> QED BY <1>2, <1>4, <2>4 DEF RowAt
<1> QED BY <1>3, <1>5, <1>6

-----------------------------------------------------------------------------
(* What a pass knows.                                                      *)

\* Steps that touch neither the buffer nor the cursor, nor what was fetched.
LEMMA PassQuiet ==
  ASSUME PInv, UNCHANGED <<clock, fills, buffer, lossy, cut>>,
         sync'.cursor = sync.cursor, pass.pc # "idle", pass'.now = pass.now,
         pass'.pc \in {"stage", "days"} =>
            /\ pass'.pc = pass.pc
            /\ pass'.start = pass.start /\ pass'.fetched = pass.fetched,
         pass'.pc \in {"mark_synced", "recalc"} => pass'.days = {}
  PROVE  PInv'
<1>1. Past' /\ Kept'
    BY DEF PInv, Past, Kept, Cutoff
<1>2. KnowsSome'
    BY DEF PInv, KnowsSome, Knows
<1>3. WasFlat'
    BY DEF PInv, WasFlat, Cutoff, OlderThan
<1>4. AllDaysDone'
    BY DEF AllDaysDone
<1> QED BY <1>1, <1>2, <1>3, <1>4 DEF PInv

\* Of the fills up to now there is a last one.
LEMMA KnownExists ==
  ASSUME TInv, Past, pass.pc # "idle"
  PROVE  \E k \in 0..Cardinality(fills) :
           \A f \in fills : f.tid <= k <=> f.at <= pass.now
<1> DEFINE N == Cardinality(fills)
           K == {n \in Nat : \A f \in fills : f.at <= pass.now => f.tid <= n}
<1>1. /\ N \in Nat /\ pass.now \in Nat
      /\ \A f \in fills : f.tid \in 1..N /\ f.at \in Nat
    BY FS_CardinalityType DEF TInv, Numbered, IInv, Types, InThePast
<1>2. N \in K
    BY <1>1
<1>3. PICK k \in K : \A n \in K : k <= n
  <2>1. K \in SUBSET Nat /\ K # {}
      BY <1>2
  <2> HIDE DEF K
  <2> QED BY <2>1, LeastExists
<1>4. k \in 0..N
    BY <1>1, <1>2, <1>3
<1>5. ASSUME NEW f \in fills, f.tid <= k PROVE f.at <= pass.now
  <2>1. k - 1 \in Nat /\ ~(k <= k - 1)
      BY <1>1, <1>5
  <2>2. k - 1 \notin K
      BY <1>3, <2>1
  <2>3. PICK g \in fills : g.at <= pass.now /\ ~(g.tid <= k - 1)
      BY <2>1, <2>2
  <2>4. f.tid <= g.tid
      BY <1>1, <1>5, <2>1, <2>3
  <2>5. f.at <= g.at
      BY <1>1, <2>4 DEF TInv, Numbered
  <2> QED BY <1>1, <2>3, <2>5
<1> QED BY <1>3, <1>4, <1>5

\* A fetch that leaves nothing out makes the pass know all fills up to now.
LEMMA FetchKnows ==
  ASSUME TInv, PInv, pass.pc = "fetch", UNCHANGED <<clock, fills, buffer, cut>>,
         sync'.cursor = sync.cursor, pass'.now = pass.now, pass'.start = pass.start,
         pass'.pc = "stage", ~lossy' => ~lossy /\ pass'.fetched = Window
  PROVE  PInv'
<1>1. Past' /\ Kept'
    BY DEF PInv, Past, Kept, Cutoff
<1>2. KnowsSome'
  <2> SUFFICES ASSUME ~lossy' PROVE \E k \in 0..Cardinality(fills)' : Knows(k)'
      BY DEF KnowsSome
  <2>1. PICK k \in 0..Cardinality(fills) :
           \A f \in fills : f.tid <= k <=> f.at <= pass.now
      BY KnownExists DEF PInv
  <2>2. pass'.fetched = Window /\ buffer \subseteq fills
      BY DEF TInv, TypeOK
  <2>3. \A f \in fills : f.at \in Nat /\ pass.now \in Nat
      BY DEF TInv, IInv, Types, InThePast
  <2>4. \A f \in buffer : f.tid <= k
      BY <2>1, <2>2 DEF PInv, Past
  <2>5. \A f \in Window : f.tid <= k
      BY <2>1 DEF Window
  <2>6. \A f \in fills : f.at < pass.now => f.tid <= k
      BY <2>1, <2>3
  <2>7. \A f \in fills : f.tid <= k /\ f.at >= pass.start => f \in Window
      BY <2>1, <2>3 DEF Window, TInv, IInv, Types
  <2>8. Knows(k)'
      BY <2>1, <2>2, <2>4, <2>5, <2>6, <2>7 DEF Knows
  <2> QED BY <2>8
<1>3. WasFlat' /\ AllDaysDone'
    BY DEF WasFlat, AllDaysDone
<1> QED BY <1>1, <1>2, <1>3 DEF PInv

LEMMA PassInit == Init => PInv
<1> SUFFICES ASSUME Init PROVE PInv
    OBVIOUS
<1>1. pass.pc = "idle"
    BY DEF Init, IdlePass
<1> QED BY <1>1 DEF PInv, Past, Kept, KnowsSome, WasFlat, AllDaysDone

LEMMA PassStep ==
  ASSUME TInv, PInv, [Next]_vars
  PROVE  PInv'
<1> USE SyncAssumption
<1>1. CASE Tick
  <2>1. UNCHANGED <<fills, buffer, sync, pass, lossy, cut>>
      BY <1>1 DEF Tick, tables, history
  <2>2. Past' /\ Kept'
      BY <2>1 DEF PInv, Past, Kept, Cutoff
  <2>3. KnowsSome'
      BY <2>1 DEF PInv, KnowsSome, Knows
  <2>4. WasFlat' /\ AllDaysDone'
      BY <2>1 DEF PInv, WasFlat, AllDaysDone, Cutoff, OlderThan
  <2> QED BY <2>2, <2>3, <2>4 DEF PInv
<1>2. CASE \E q \in Sizes : Fills(q)
  <2>1. PICK q \in Sizes : Fills(q)
      BY <1>2
  <2> DEFINE new == [tid |-> Cardinality(fills) + 1, at |-> clock, q |-> q]
  <2>2. /\ UNCHANGED <<clock, buffer, sync, pass, lossy, cut>>
        /\ fills' = fills \cup {new}
        /\ new.at = clock /\ new.tid = Cardinality(fills) + 1
      BY <2>1 DEF Fills, tables, history
  <2> HIDE DEF new
  <2>3. /\ Cardinality(fills) \in Nat /\ IsFiniteSet(fills) /\ new \notin fills
        /\ clock \in Nat /\ pass.now \in Nat /\ pass.now <= clock /\ sync.cursor <= clock
        /\ sync.cursor \in Int
      BY <2>2, FS_CardinalityType
         DEF TInv, Numbered, IInv, Types, InThePast, Times, Null
  <2>4. Cardinality(fills') = Cardinality(fills) + 1
      BY <2>2, <2>3, FS_AddElement
  <2>5. Past'
      BY <2>2 DEF PInv, Past
  <2>6. Kept'
      BY <2>2, <2>3 DEF PInv, Kept, Cutoff
  <2>7. KnowsSome'
    <3> SUFFICES ASSUME ~lossy, pass.pc \in {"stage", "days"}
                 PROVE  \E k \in 0..Cardinality(fills)' : Knows(k)'
        BY <2>2 DEF KnowsSome
    <3>1. PICK k \in 0..Cardinality(fills) : Knows(k)
        BY DEF PInv, KnowsSome
    <3>2. Knows(k)'
        BY <2>2, <2>3, <3>1 DEF Knows
    <3> QED BY <2>3, <2>4, <3>1, <3>2
  <2>8. OlderThan(Cutoff)' = OlderThan(Cutoff)
      BY <2>2, <2>3 DEF OlderThan, Cutoff
  <2>9. WasFlat' /\ AllDaysDone'
      BY <2>2, <2>8 DEF PInv, WasFlat, AllDaysDone
  <2> QED BY <2>5, <2>6, <2>7, <2>9 DEF PInv
<1>3. CASE SyncAll
  <2>1. /\ UNCHANGED <<clock, fills, buffer, sync, lossy, cut>>
        /\ pass'.pc = "begin" /\ pass'.now = clock
      BY <1>3 DEF SyncAll, IdlePass, tables, history
  <2>2. Past'
      BY <2>1 DEF Past, TInv, TypeOK, IInv, InThePast
  <2>3. Kept'
      BY <2>1 DEF Kept, Cutoff, TInv, IInv, NothingSkipped
  <2>4. KnowsSome' /\ WasFlat' /\ AllDaysDone'
      BY <2>1 DEF KnowsSome, WasFlat, AllDaysDone
  <2> QED BY <2>2, <2>3, <2>4 DEF PInv
<1>4. CASE Begin
  <2>1. /\ UNCHANGED <<clock, fills, buffer, sync, lossy, cut>>
        /\ pass.pc = "begin" /\ pass'.pc \in {"syncing", "fetch"} /\ pass'.now = pass.now
      BY <1>4 DEF Begin, TInv, IInv, Types, Fields, tables, history
  <2> QED BY <2>1, PassQuiet
<1>5. CASE MarkSyncing
  <2>1. sync'.cursor = sync.cursor /\ pass'.now = pass.now /\ pass'.pc = "fetch"
      BY <1>5 DEF MarkSyncing, Goto, TInv, IInv, Types, Fields
  <2> QED BY <1>5, <2>1, PassQuiet DEF MarkSyncing, history
<1>6. CASE FetchComplete
  <2>1. /\ UNCHANGED <<clock, fills, buffer, sync, lossy, cut>>
        /\ pass.pc = "fetch" /\ pass'.pc = "stage" /\ pass'.now = pass.now
        /\ pass'.start = pass.start /\ pass'.fetched = Window
      BY <1>6 DEF FetchComplete, TInv, IInv, Types, Fields, tables, history
  <2> QED BY <2>1, FetchKnows
<1>7. CASE FetchTruncated
  <2>1. PICK got \in SUBSET Window :
          /\ UNCHANGED <<clock, fills, buffer, sync, cut>>
          /\ pass.pc = "fetch" /\ pass'.pc = "stage" /\ pass'.now = pass.now
          /\ pass'.start = pass.start /\ pass'.fetched = got
          /\ lossy' = (lossy \/ got # Window)
      BY <1>7 DEF FetchTruncated, TInv, IInv, Types, Fields, tables
  <2>2. ~lossy' => ~lossy /\ pass'.fetched = Window
      BY <2>1
  <2> QED BY <2>1, <2>2, FetchKnows
<1>8. CASE FetchFails \/ MarkErrorFails
  <2>1. /\ UNCHANGED <<clock, fills, buffer, sync, lossy, cut>>
        /\ pass.pc # "idle" /\ pass'.pc \in {"mark_error", "recalc_failed"}
        /\ pass'.now = pass.now
      BY <1>8 DEF FetchFails, MarkErrorFails, Goto, TInv, IInv, Types, Fields,
                  tables, history
  <2> QED BY <2>1, PassQuiet
<1>9. CASE MarkError
  <2>1. /\ UNCHANGED <<clock, fills, buffer, lossy, cut>> /\ sync'.cursor = sync.cursor
        /\ pass.pc # "idle" /\ pass'.pc = "recalc_failed" /\ pass'.now = pass.now
      BY <1>9 DEF MarkError, Goto, TInv, IInv, Types, Fields, history
  <2> QED BY <2>1, PassQuiet
<1>10. CASE StageFill
  <2>1. PICK f \in pass.fetched : buffer' = buffer \cup {f}
      BY <1>10 DEF StageFill
  <2>2. UNCHANGED <<clock, fills, sync, pass, lossy, cut>> /\ pass.pc = "stage"
      BY <1>10 DEF StageFill, history
  <2>3. Past' /\ Kept'
      BY <2>1, <2>2 DEF PInv, Past, Kept, Cutoff, TInv, IInv, FetchedBeforeNow
  <2>4. KnowsSome'
      BY <2>1, <2>2 DEF PInv, KnowsSome, Knows
  <2>5. WasFlat' /\ AllDaysDone'
      BY <2>2 DEF WasFlat, AllDaysDone
  <2> QED BY <2>3, <2>4, <2>5 DEF PInv
<1>11. CASE PlanDays
  <2>1. /\ UNCHANGED <<clock, fills, buffer, sync, lossy>>
        /\ pass.pc = "stage" /\ pass'.pc = "days" /\ pass'.now = pass.now
        /\ pass'.start = pass.start /\ pass'.fetched = pass.fetched
        /\ cut' = (cut \/ Position(OlderThan(Cutoff)) # 0)
      BY <1>11 DEF PlanDays, TInv, IInv, Types, Fields, tables
  <2>2. Past' /\ Kept'
      BY <2>1 DEF PInv, Past, Kept, Cutoff
  <2>3. KnowsSome'
      BY <2>1 DEF PInv, KnowsSome, Knows
  <2>4. WasFlat' /\ AllDaysDone'
      BY <2>1 DEF WasFlat, AllDaysDone, Cutoff, OlderThan
  <2> QED BY <2>2, <2>3, <2>4 DEF PInv
<1>12. CASE \E d \in Days : UpsertDay(d)
  <2>1. /\ UNCHANGED <<clock, fills, buffer, sync, lossy, cut>>
        /\ pass.pc = "days" /\ pass'.pc = "days" /\ pass'.now = pass.now
        /\ pass'.start = pass.start /\ pass'.fetched = pass.fetched
      BY <1>12 DEF UpsertDay, TInv, IInv, Types, Fields, history
  <2> QED BY <2>1, PassQuiet
<1>13. CASE UpdateProgress
  <2>1. /\ UNCHANGED <<clock, fills, buffer, lossy, cut>>
        /\ pass.pc = "days" /\ pass'.pc = "mark_synced" /\ pass'.now = pass.now
        /\ pass.days = {} /\ pass'.days = pass.days /\ sync'.cursor = NextCursor
      BY <1>13 DEF UpdateProgress, Goto, TInv, IInv, Types, Fields, TypeOK, history
  <2>2. NextCursor \in Nat /\ NextCursor <= pass.now
      BY CursorNotAhead DEF TInv, IInv
  <2>3. Past'
      BY <2>1, <2>2 DEF PInv, Past
  <2>4. Kept'
    <3> SUFFICES ASSUME ~lossy, NEW f \in fills, Cutoff <= f.at, f.at < NextCursor
                 PROVE  f \in buffer
        BY <2>1 DEF Kept, Cutoff
    <3>1. PICK k \in 0..Cardinality(fills) : Knows(k)
        BY <2>1 DEF PInv, KnowsSome
    <3>2. f.at \in Nat /\ pass.now \in Nat /\ Cutoff \in Int
        BY DEF Cutoff, TInv, IInv, Types, InThePast
    <3>3. f \in FirstOf(fills, k)
        BY <2>2, <3>1, <3>2 DEF Knows, FirstOf
    <3>4. pass.fetched \subseteq buffer
        BY <2>1 DEF TInv, IInv, Staged
    <3>5. f \in Loaded
        BY <2>1, <3>1, <3>2, <3>3, <3>4, KnownIsLoaded
    <3> QED BY <3>5 DEF Loaded
  <2>5. KnowsSome' /\ WasFlat' /\ AllDaysDone'
      BY <2>1 DEF KnowsSome, WasFlat, AllDaysDone
  <2> QED BY <2>3, <2>4, <2>5 DEF PInv
<1>14. CASE MarkSynced
  <2>1. /\ UNCHANGED <<clock, fills, buffer, lossy, cut>> /\ sync'.cursor = sync.cursor
        /\ pass.pc = "mark_synced" /\ pass'.pc = "recalc" /\ pass'.now = pass.now
        /\ pass'.days = pass.days
      BY <1>14 DEF MarkSynced, Goto, TInv, IInv, Types, Fields, TypeOK, history
  <2> QED BY <2>1, PassQuiet DEF PInv, AllDaysDone
<1>15. CASE RecalcPeriod \/ RecalcFailed
  <2>1. /\ UNCHANGED <<clock, fills, buffer, sync, lossy, cut>>
        /\ pass.pc \in {"recalc", "recalc_failed"} /\ pass'.pc = pass.pc
        /\ pass'.now = pass.now /\ pass'.days = pass.days
      BY <1>15 DEF RecalcPeriod, RecalcFailed, TInv, IInv, Types, Fields, TypeOK, history
  <2> QED BY <2>1, PassQuiet DEF PInv, AllDaysDone
<1>16. CASE PurgeBuffer \/ PassFailed \/ Abort
  <2>1. pass'.pc = "idle"
      BY <1>16 DEF PurgeBuffer, PassFailed, Abort, IdlePass
  <2> QED BY <2>1 DEF PInv, Past, Kept, KnowsSome, WasFlat, AllDaysDone
<1>17. CASE UNCHANGED vars
  <2>1. UNCHANGED <<fills, buffer, sync, pass, lossy, cut>>
      BY <1>17 DEF vars, tables, history
  <2>2. Past' /\ Kept'
      BY <2>1 DEF PInv, Past, Kept, Cutoff
  <2>3. KnowsSome'
      BY <2>1 DEF PInv, KnowsSome, Knows
  <2>4. WasFlat' /\ AllDaysDone'
      BY <2>1 DEF PInv, WasFlat, AllDaysDone, Cutoff, OlderThan
  <2> QED BY <2>2, <2>3, <2>4 DEF PInv
<1> QED BY <1>1, <1>2, <1>3, <1>4, <1>5, <1>6, <1>7, <1>8, <1>9, <1>10, <1>11, <1>12,
           <1>13, <1>14, <1>15, <1>16, <1>17 DEF Next

-----------------------------------------------------------------------------
(* What the rows say.                                                      *)

\* Steps that write no row and do not move the cursor.
LEMMA RowsQuiet ==
  ASSUME RInv, UNCHANGED <<clock, fills, rows, period>>, sync'.cursor = sync.cursor,
         ~lossy' => ~lossy, ~cut' => ~cut,
         pass'.pc \in {"days", "mark_synced", "recalc"} =>
            /\ pass.pc \in {"days", "mark_synced", "recalc"}
            /\ pass'.now = pass.now /\ pass'.days = pass.days
  PROVE  RInv'
<1>1. RowsWhole'
    BY DEF RInv, RowsWhole, Recent
<1>2. RowsCurrent'
    BY DEF RInv, RowsCurrent, Recent
<1>3. ReadyPeriods' /\ PeriodsWhole'
    BY DEF RInv, ReadyPeriods, PeriodsWhole, Recent
<1> QED BY <1>1, <1>2, <1>3 DEF RInv

\* Of a wallet that has traded nothing every row is empty.
LEMMA RowsInit == Init => RInv
<1> SUFFICES ASSUME Init PROVE RInv
    OBVIOUS
<1>1. \A d \in Days : RowAt(fills, rows[d], d, sync.cursor)
  <2> SUFFICES ASSUME NEW d \in Days PROVE RowAt(fills, rows[d], d, sync.cursor)
      OBVIOUS
  <2>1. fills = {} /\ FirstOf(fills, 0) = {} /\ Cardinality(fills) = 0
      BY FS_EmptySet DEF Init, FirstOf
  <2>2. RowOf({}, d) = NoRow
      BY DEF RowOf, NoRow, TrueTrades
  <2>3. rows[d] = NoRow
      BY DEF Init
  <2>4. 0 \in 0..Cardinality(fills)
      BY <2>1
  <2> QED BY <2>1, <2>2, <2>3, <2>4 DEF RowAt
<1>2. \A p \in Periods : period[p].status = "absent"
    BY DEF Init, NoMetrics
<1>3. pass.pc = "idle"
    BY DEF Init, IdlePass
<1> QED BY <1>1, <1>2, <1>3 DEF RInv, RowsWhole, RowsCurrent, ReadyPeriods, PeriodsWhole

LEMMA RowsStep ==
  ASSUME TInv, PInv, RInv, [Next]_vars
  PROVE  RInv'
<1> USE SyncAssumption
<1>1. CASE Tick
  <2>1. UNCHANGED <<fills, rows, period, sync, pass, lossy, cut>> /\ clock' = clock + 1
      BY <1>1 DEF Tick, tables, history
  <2>2. clock \in Nat /\ \A d \in Days : DayStart(d) \in Int
      BY DEF TInv, TypeOK, DayStart, Days
  <2>3. \A d \in Days : Recent(d)' => Recent(d)
      BY <2>1, <2>2 DEF Recent
  <2>4. RowsWhole'
      BY <2>1, <2>3 DEF RInv, RowsWhole
  <2>5. RowsCurrent'
      BY <2>1, <2>3 DEF RInv, RowsCurrent
  <2>6. ReadyPeriods'
      BY <2>1, <2>2 DEF RInv, ReadyPeriods
  <2>7. PeriodsWhole'
    <3> SUFFICES ASSUME ~lossy, ~cut, NEW p \in Periods, period[p].status = "ready",
                        NEW d \in DOMAIN period[p].rows, Recent(d)
                 PROVE  RowAt(fills, period[p].rows[d], d, period[p].asOf)
        BY <2>1, <2>3 DEF RInv, PeriodsWhole, ReadyPeriods
    <3> QED BY DEF RInv, PeriodsWhole
  <2> QED BY <2>4, <2>5, <2>6, <2>7 DEF RInv
<1>2. CASE \E q \in Sizes : Fills(q)
  <2>1. PICK q \in Sizes : Fills(q)
      BY <1>2
  <2> DEFINE new == [tid |-> Cardinality(fills) + 1, at |-> clock, q |-> q]
  <2>2. /\ UNCHANGED <<clock, rows, period, sync, pass, lossy, cut>>
        /\ fills' = fills \cup {new}
      BY <2>1 DEF Fills, tables, history
  <2>3. /\ fills \in SUBSET AnyFill /\ IsFiniteSet(fills) /\ new \in AnyFill
        /\ new.tid = Cardinality(fills) + 1 /\ new \notin fills /\ new.at = clock
    <3>1. Cardinality(fills) \in Nat /\ IsFiniteSet(fills)
        BY FS_CardinalityType DEF TInv, Numbered
    <3>2. new \in AnyFill /\ new.tid = Cardinality(fills) + 1 /\ new.at = clock
        BY <3>1 DEF AnyFill, TInv, TypeOK
    <3>3. \A f \in fills : f.tid # new.tid
        BY <3>1 DEF TInv, Numbered
    <3>4. fills \in SUBSET AnyFill
        BY FillsAreFills DEF FillSet, TInv
    <3> QED BY <3>1, <3>2, <3>3, <3>4
  <2> HIDE DEF new
  <2>4. \A row, d : \A t \in Int :
           t <= clock /\ RowAt(fills, row, d, t) => RowAt(fills', row, d, t)
      BY <2>2, <2>3, RowStays
  <2>5. /\ sync.cursor \in Int /\ sync.cursor <= clock
        /\ pass.now \in Int /\ pass.now <= clock
      BY DEF TInv, IInv, Types, InThePast, Times, Null
  <2>6. RowsWhole'
      BY <2>2, <2>4, <2>5 DEF RInv, RowsWhole, Recent
  <2>7. RowsCurrent'
      BY <2>2, <2>4, <2>5 DEF RInv, RowsCurrent, Recent
  <2>8. ReadyPeriods'
      BY <2>2 DEF RInv, ReadyPeriods
  <2>9. PeriodsWhole'
    <3> SUFFICES ASSUME ~lossy, ~cut, NEW p \in Periods, period[p].status = "ready",
                        NEW d \in DOMAIN period[p].rows, Recent(d)
                 PROVE  RowAt(fills', period[p].rows[d], d, period[p].asOf)
        BY <2>2 DEF PeriodsWhole, Recent
    <3>1. RowAt(fills, period[p].rows[d], d, period[p].asOf)
        BY DEF RInv, PeriodsWhole
    <3>2. period[p].asOf \in Int /\ period[p].asOf <= clock
        BY DEF RInv, ReadyPeriods
    <3> QED BY <2>4, <3>1, <3>2
  <2> QED BY <2>6, <2>7, <2>8, <2>9 DEF RInv
<1>3. CASE SyncAll
  <2>1. pass'.pc = "begin"
      BY <1>3 DEF SyncAll, IdlePass
  <2> QED BY <1>3, <2>1, RowsQuiet DEF SyncAll, tables, history
<1>4. CASE Begin
  <2>1. pass'.pc \in {"syncing", "fetch"}
      BY <1>4 DEF Begin, TInv, IInv, Types, Fields
  <2> QED BY <1>4, <2>1, RowsQuiet DEF Begin, tables, history
<1>5. CASE MarkSyncing
  <2>1. pass'.pc = "fetch" /\ sync'.cursor = sync.cursor
      BY <1>5 DEF MarkSyncing, Goto, TInv, IInv, Types, Fields
  <2> QED BY <1>5, <2>1, RowsQuiet DEF MarkSyncing, history
<1>6. CASE FetchComplete \/ FetchTruncated
  <2>1. /\ pass'.pc = "stage" /\ (~lossy' => ~lossy)
        /\ UNCHANGED <<clock, fills, tables, cut>>
      BY <1>6 DEF FetchComplete, FetchTruncated, TInv, IInv, Types, Fields, history
  <2> QED BY <2>1, RowsQuiet DEF tables
<1>7. CASE FetchFails \/ MarkErrorFails
  <2>1. /\ pass'.pc \in {"mark_error", "recalc_failed"}
        /\ UNCHANGED <<clock, fills, tables, history>>
      BY <1>7 DEF FetchFails, MarkErrorFails, Goto, TInv, IInv, Types, Fields
  <2> QED BY <2>1, RowsQuiet DEF tables, history
<1>8. CASE MarkError
  <2>1. pass'.pc = "recalc_failed" /\ sync'.cursor = sync.cursor
      BY <1>8 DEF MarkError, Goto, TInv, IInv, Types, Fields
  <2> QED BY <1>8, <2>1, RowsQuiet DEF MarkError, history
<1>9. CASE StageFill
  <2>1. pass'.pc = "stage" /\ UNCHANGED <<clock, fills, rows, period, sync, history>>
      BY <1>9 DEF StageFill
  <2> QED BY <2>1, RowsQuiet DEF history
<1>10. CASE PlanDays
  <2>1. /\ UNCHANGED <<clock, fills, rows, period, sync, lossy>> /\ (~cut' => ~cut)
        /\ pass.pc = "stage" /\ pass.fetched \subseteq buffer
        /\ pass'.pc = "days" /\ pass'.now = pass.now
        /\ {DayOf(f.at) : f \in {f \in pass.fetched : f.at >= Cutoff}} \subseteq pass'.days
    <3> DEFINE ds == {DayOf(f.at) : f \in {f \in pass.fetched : f.at >= Cutoff}}
               ct == {DayOf(t.close) : t \in Closed}
    <3>1. pass' = [pass EXCEPT !.pc = "days", !.days = ds \cup ct]
        BY <1>10 DEF PlanDays
    <3> HIDE DEF ds, ct
    <3>2. pass'.pc = "days" /\ pass'.now = pass.now /\ pass'.days = ds \cup ct
        BY <3>1 DEF TInv, IInv, Types, Fields
    <3>3. ds \subseteq pass'.days
        BY <3>2
    <3> QED BY <1>10, <3>2, <3>3 DEF PlanDays, tables, ds
  <2>2. RowsCurrent'
    <3> SUFFICES ASSUME ~lossy, ~cut, NEW d \in Days, d \notin pass'.days, Recent(d)
                 PROVE  RowAt(fills, rows[d], d, pass.now)
        BY <2>1 DEF RowsCurrent, Recent
    <3>1. \A f \in pass.fetched : f.at >= Cutoff => DayOf(f.at) # d
        BY <2>1
    <3> QED BY <2>1, <3>1, RowUnplanned
  <2>3. RowsWhole' /\ ReadyPeriods' /\ PeriodsWhole'
      BY <2>1 DEF RInv, RowsWhole, ReadyPeriods, PeriodsWhole, Recent
  <2> QED BY <2>2, <2>3 DEF RInv
<1>11. CASE \E d \in Days : UpsertDay(d)
  <2>1. PICK d \in Days : UpsertDay(d)
      BY <1>11
  <2> DEFINE row == RollupDay({f \in buffer : DayOf(f.at) = d},
                              {t \in Closed : DayOf(t.close) = d})
  <2>2. /\ UNCHANGED <<clock, fills, period, sync, lossy, cut>>
        /\ pass.pc = "days" /\ pass'.pc = "days" /\ pass'.now = pass.now
        /\ pass'.days = pass.days \ {d}
        /\ rows'[d] = row /\ \A e \in Days : e # d => rows'[e] = rows[e]
      BY <2>1 DEF UpsertDay, TInv, TypeOK, IInv, Types, Fields, history
  <2>3. ~lossy /\ ~cut /\ Recent(d) => RowAt(fills, row, d, pass.now)
      BY <2>2, RowRebuilt
  <2> HIDE DEF row
  <2>4. RowsCurrent'
      BY <2>2, <2>3 DEF RInv, RowsCurrent, Recent
  <2>5. RowsWhole'
    <3>1. /\ sync.cursor \in Int /\ pass.now \in Int /\ sync.cursor <= pass.now
          /\ fills \in SUBSET AnyFill
      <4>1. sync.cursor \in Int /\ pass.now \in Int /\ sync.cursor <= pass.now
          BY <2>2 DEF TInv, IInv, Types, Times, Null, PInv, Past
      <4>2. fills \in SUBSET AnyFill
          BY FillsAreFills DEF FillSet, TInv
      <4> QED BY <4>1, <4>2
    <3>2. ~lossy /\ ~cut /\ Recent(d) => RowAt(fills, row, d, sync.cursor)
        BY <2>3, <3>1, RowEarlier
    <3> QED BY <2>2, <3>2 DEF RInv, RowsWhole, Recent
  <2>6. ReadyPeriods' /\ PeriodsWhole'
      BY <2>2 DEF RInv, ReadyPeriods, PeriodsWhole, Recent
  <2> QED BY <2>4, <2>5, <2>6 DEF RInv
<1>12. CASE UpdateProgress
  <2>1. /\ UNCHANGED <<clock, fills, rows, period, lossy, cut>>
        /\ pass.pc = "days" /\ pass'.pc = "mark_synced" /\ pass'.now = pass.now
        /\ pass.days = {} /\ pass'.days = pass.days /\ sync'.cursor = NextCursor
      BY <1>12 DEF UpdateProgress, Goto, TInv, IInv, Types, Fields, TypeOK, history
  <2>2. NextCursor \in Nat /\ NextCursor <= pass.now /\ pass.now \in Nat
      BY CursorNotAhead DEF TInv, IInv, Types
  <2>3. fills \in SUBSET AnyFill
      BY FillsAreFills DEF FillSet, TInv
  <2>4. ~lossy /\ ~cut => \A d \in Days : Recent(d) => RowAt(fills, rows[d], d, pass.now)
      BY <2>1 DEF RInv, RowsCurrent
  <2>5. ~lossy /\ ~cut => \A d \in Days : Recent(d) => RowAt(fills, rows[d], d, NextCursor)
      BY <2>2, <2>3, <2>4, RowEarlier
  <2>6. RowsWhole'
      BY <2>1, <2>5 DEF RowsWhole, Recent
  <2>7. RowsCurrent' /\ ReadyPeriods' /\ PeriodsWhole'
      BY <2>1 DEF RInv, RowsCurrent, ReadyPeriods, PeriodsWhole, Recent
  <2> QED BY <2>6, <2>7 DEF RInv
<1>13. CASE MarkSynced
  <2>1. /\ UNCHANGED <<clock, fills, rows, period, history>> /\ sync'.cursor = sync.cursor
        /\ pass.pc = "mark_synced" /\ pass'.now = pass.now /\ pass'.days = pass.days
      BY <1>13 DEF MarkSynced, Goto, TInv, IInv, Types, Fields, TypeOK
  <2> QED BY <2>1, RowsQuiet DEF history
<1>14. CASE RecalcPeriod
  <2> DEFINE p == pass.next
             span == Days \cap (DayOf(pass.now - Lookback[p])..DayOf(pass.now))
             sums == [d \in span |-> rows[d]]
             new == [status |-> "ready", asOf |-> pass.now, partial |-> pass.truncated,
                     rows |-> sums]
  <2>1. /\ UNCHANGED <<clock, fills, rows, sync, lossy, cut>>
        /\ pass.pc = "recalc" /\ pass'.pc = "recalc" /\ pass'.now = pass.now
        /\ pass'.days = pass.days
      BY <1>14 DEF RecalcPeriod, TInv, IInv, Types, Fields, TypeOK, history
  <2>2. p \in Periods /\ period' = [period EXCEPT ![p] = new]
      BY <1>14 DEF RecalcPeriod, Metrics
  <2> HIDE DEF new
  <2>3. period'[p] = new /\ \A r \in Periods : r # p => period'[r] = period[r]
      BY <2>2 DEF TInv, TypeOK
  <2>4. new.status = "ready" /\ new.asOf = pass.now /\ new.rows = sums
      BY DEF new
  <2>5. DOMAIN sums \subseteq Days /\ \A d \in DOMAIN sums : sums[d] = rows[d]
      OBVIOUS
  <2> HIDE DEF sums, p
  <2>6. pass.now \in Nat /\ pass.now <= clock
      BY DEF TInv, IInv, Types, InThePast
  <2>7. ~lossy /\ ~cut => \A d \in Days : Recent(d) => RowAt(fills, rows[d], d, pass.now)
      BY <2>1 DEF RInv, RowsCurrent, PInv, AllDaysDone
  <2>8. ReadyPeriods'
      BY <2>1, <2>3, <2>4, <2>5, <2>6 DEF RInv, ReadyPeriods
  <2>9. PeriodsWhole'
    <3> SUFFICES ASSUME ~lossy, ~cut, NEW r \in Periods, period'[r].status = "ready",
                        NEW d \in DOMAIN period'[r].rows, Recent(d)
                 PROVE  RowAt(fills, period'[r].rows[d], d, period'[r].asOf)
        BY <2>1 DEF PeriodsWhole, Recent
    <3>1. CASE r = p
        BY <2>3, <2>4, <2>5, <2>7, <3>1
    <3>2. CASE r # p
        BY <2>3, <3>2 DEF RInv, PeriodsWhole
    <3> QED BY <3>1, <3>2
  <2>10. RowsWhole' /\ RowsCurrent'
      BY <2>1 DEF RInv, RowsWhole, RowsCurrent, Recent
  <2> QED BY <2>8, <2>9, <2>10 DEF RInv
<1>15. CASE RecalcFailed
  <2> DEFINE p == pass.next
  <2>1. /\ UNCHANGED <<clock, fills, rows, sync, lossy, cut>>
        /\ pass'.pc = "recalc_failed" /\ p \in Periods
      BY <1>15 DEF RecalcFailed, TInv, IInv, Types, Fields, history
  <2>2. period'[p].status = "error" /\ \A r \in Periods : r # p => period'[r] = period[r]
      BY <1>15 DEF RecalcFailed, Metrics, TInv, TypeOK
  <2> HIDE DEF p
  <2>3. ReadyPeriods' /\ PeriodsWhole'
      BY <2>1, <2>2 DEF RInv, ReadyPeriods, PeriodsWhole, Recent
  <2>4. RowsWhole' /\ RowsCurrent'
      BY <2>1 DEF RInv, RowsWhole, RowsCurrent, Recent
  <2> QED BY <2>3, <2>4 DEF RInv
<1>16. CASE PurgeBuffer \/ PassFailed \/ Abort
  <2>1. pass'.pc = "idle" /\ UNCHANGED <<clock, fills, rows, period, sync, history>>
      BY <1>16 DEF PurgeBuffer, PassFailed, Abort, IdlePass, tables
  <2> QED BY <2>1, RowsQuiet DEF history
<1>17. CASE UNCHANGED vars
    BY <1>17, RowsQuiet DEF vars, tables, history
<1> QED BY <1>1, <1>2, <1>3, <1>4, <1>5, <1>6, <1>7, <1>8, <1>9, <1>10, <1>11, <1>12,
           <1>13, <1>14, <1>15, <1>16, <1>17 DEF Next

LEMMA RowsAreRows == RInv => RowsAreWhole /\ AsOfIsCovered
BY DEF RInv, RowsWhole, PeriodsWhole, RowAt, RowOf, FirstOf,
       RowsAreWhole, AsOfIsCovered, ReachesTo, OlderThan, Prefix, RowAfter

LEMMA WholeInv == Spec => [](TInv /\ PInv /\ RInv)
<1>1. Init => TInv /\ PInv /\ RInv
    BY InitInv, TypeInit, PassInit, RowsInit DEF TInv
<1>2. TInv /\ PInv /\ RInv /\ [Next]_vars => (TInv /\ PInv /\ RInv)'
    BY NextInv, TypeStep, PassStep, RowsStep DEF TInv
<1> QED BY <1>1, <1>2, PTL DEF Spec

\* Whatever passes were cut short and repeated, the row of a recent day is what
\* the wallet did that day: every trade once and none that was not, at a moment
\* not before the cursor.  Unless a truncated fetch has left a fill out or a
\* pass had to rebuild from the middle of a cycle (recomputeAffected, rollupDay).
THEOREM RowsHold == Spec => []RowsAreWhole
BY WholeInv, RowsAreRows, PTL

\* Under the same conditions a period row that says "ready" and as_of t sums
\* rows that hold every fill before t (recalcAll after the daily rows, with the
\* now of the pass).
THEOREM PeriodsHold == Spec => []AsOfIsCovered
BY WholeInv, RowsAreRows, PTL

-----------------------------------------------------------------------------
(* The live tabs, for any callers, wallets, requests, dexes and times.     *)

---------------------------------------------------------------------------
(* The invariant.  A caller's record r is judged at time t, with what is   *)
(* cached in m and what is under way in f.                                 *)
Value == {v \in [id : Nat, at : Nat, whole : BOOLEAN, status : {"ready", "error"}] :
            v.status = IF v.whole THEN "ready" ELSE "error"}
Result == Value \cup {Tabs!Failed}
AnyKey == {Tabs!Key(q) : q \in Requests} \cup {Tabs!UniverseKey(q.wallet) : q \in Requests} \cup {<<>>}
Place == {"none", "get", "do", "wait", "fetch", "nested", "combine", "put", "evict"}
Level == {"tab", "universe"}
FrameType == [key : AnyKey, pc : Place, val : Result]
CallerType ==
  [pc : {"idle", "serving", "answering", "done"}, q : Requests, at : Nat \cup {-1}, had : BOOLEAN, level : Level,
   frames : [tab : FrameType, universe : FrameType],
   answer : [status : {"none", "refused", "panic", "ready", "error"}, at : Nat \cup {-1}, whole : BOOLEAN]]

\* How much older than its storing a cached value may be: what is made of the
\* universe is made of one that may be about to expire.
OfUniverse(k) == k[1] = "activity" \/ (k[1] \in {"performance", "detail"} /\ k[3] \in {"1D", "7D", "30D"} /\ k[4] # "series")
Lag(k) == IF OfUniverse(k) THEN Ttl + 1 ELSE 1
NoOlder(v, t, age) == v # Tabs!Failed => t - v.at <= age
\* Who finds nothing fresh sees next only what was stored at this moment.
Sees(k, t, m) == k \in DOMAIN m /\ t < m[k].set + Ttl => m[k].set = t
Under(k, r, t, f) == k \in DOMAIN f /\ (t = r.at + 1 => f[k].ticks = 1)

AtTab(r, t, m, f) ==
  LET k == r.frames.tab.key
      pc == r.frames.tab.pc
      v == r.frames.tab.val
  IN  /\ r.frames.universe = Tabs!NoFrame
      /\ pc \in {"get", "do", "wait", "fetch", "combine", "put"}
      /\ pc \in {"get", "do"} => t = r.at
      /\ pc = "do" => Sees(k, t, m)
      /\ pc \in {"wait", "fetch", "combine"} => Under(k, r, t, f)
      /\ pc = "combine" => Tabs!ReadsUniverse(r.q) /\ NoOlder(v, t, Ttl + 1) /\ (f[k].ticks = 0 => NoOlder(v, t, Ttl))
      /\ pc = "put" => v # Tabs!Failed /\ NoOlder(v, t, Lag(k))
AtUniverse(r, t, m, f) ==
  LET k == r.frames.universe.key
      pc == r.frames.universe.pc
      v == r.frames.universe.val
  IN  /\ Tabs!ReadsUniverse(r.q) /\ r.frames.tab.pc = "nested" /\ Under(r.frames.tab.key, r, t, f)
      /\ k = Tabs!UniverseKey(r.q.wallet)
      /\ pc \in {"get", "do", "wait", "fetch", "put", "evict"}
      /\ pc = "do" => Sees(k, t, m)
      /\ pc \in {"wait", "fetch"} => k \in DOMAIN f
      /\ pc \in {"put", "evict"} => v # Tabs!Failed /\ NoOlder(v, t, 1)
Serving(r, t, m, f) ==
  /\ r.frames.tab.key = Tabs!Key(r.q)
  /\ r.at \in Nat /\ r.at <= t /\ t <= r.at + 1
  /\ r.had => Tabs!Key(r.q) \in DOMAIN m
  /\ r.level = "tab" => AtTab(r, t, m, f)
  /\ r.level = "universe" => AtUniverse(r, t, m, f)
Answering(r, m) ==
  /\ r.level = "tab"
  /\ NoOlder(r.frames.tab.val, r.at, Tabs!Levels(r.q) * Ttl)
  /\ r.had => Tabs!Key(r.q) \in DOMAIN m
Answered(r) ==
  /\ r.answer.status = "ready" /\ r.answer.at >= 0 => r.at - r.answer.at <= Tabs!Levels(r.q) * Ttl
  /\ r.answer.status = "error" /\ r.had => r.answer.at >= 0
  /\ r.answer.status = "ready" /\ r.q.tab # "detail" => r.answer.whole
Fine(r, t, m, f) ==
  /\ r \in CallerType
  /\ r.pc = "serving" => Serving(r, t, m, f)
  /\ r.pc = "answering" => Answering(r, m)
  /\ r.pc = "done" => Answered(r)

Leads(r, k) ==
  /\ r.pc = "serving"
  /\ \/ r.frames.tab.key = k /\ r.frames.tab.pc \in {"fetch", "nested", "combine"}
     \/ r.frames.universe.key = k /\ r.frames.universe.pc = "fetch"
Waits(r, k) == r.pc = "serving" /\ r.frames[r.level].pc = "wait" /\ r.frames[r.level].key = k

Cached(t, m) ==
  \A k \in DOMAIN m : /\ m[k] = [val |-> m[k].val, set |-> m[k].set]
                      /\ m[k].val \in Value /\ m[k].set \in Nat /\ m[k].set <= t /\ m[k].set - m[k].val.at <= Lag(k)
Flights(all, f) ==
  /\ \A k \in DOMAIN f : /\ f[k] = [leader |-> f[k].leader, ticks |-> f[k].ticks]
                         /\ f[k].leader \in Callers /\ f[k].ticks \in {0, 1} /\ Leads(all[f[k].leader], k)
  /\ \A c \in Callers : \A k : Leads(all[c], k) => k \in DOMAIN f /\ f[k].leader = c
Trimming == {c \in Callers : Tabs!At(c, "evict")}
Bounded ==
  /\ IsFiniteSet(Tabs!Universes)
  /\ Cardinality(Tabs!Universes) <= MaxUniverses + Cardinality(Trimming)

TabsInv ==
  /\ now \in Nat /\ fetches \in Nat
  /\ DOMAIN caller = Callers
  /\ \A c \in Callers : Fine(caller[c], now, cache, flight)
  /\ Cached(now, cache)
  /\ Flights(caller, flight)
  /\ Bounded

---------------------------------------------------------------------------
LEMMA Quadruple ==
  ASSUME NEW a, NEW b, NEW x, NEW y, NEW k, k = <<a, b, x, y>>
  PROVE  k[1] = a /\ k[3] = x /\ k[4] = y
OBVIOUS

LEMMA KeysAre ==
  ASSUME Tabs!OnDemandAssumption, NEW q \in Requests
  PROVE  /\ Tabs!Key(q)[1] = q.tab /\ q.tab # "universe"
         /\ OfUniverse(Tabs!Key(q)) <=> Tabs!ReadsUniverse(q)
<1>0. PICK k : k = Tabs!Key(q)
    OBVIOUS
<1>1. q.tab # "universe" /\ (q.tab = "detail" => q.mode = "")
    BY DEF Tabs!OnDemandAssumption
<1>2. CASE q.tab = "performance"
  <2> DEFINE x == IF q.mode = "series" THEN "series" ELSE q.period
             y == IF q.mode = "" THEN "perps" ELSE q.mode
  <2>1. k = <<"performance", q.wallet, x, y>>
      BY <1>0, <1>2 DEF Tabs!Key, Tabs!PerformanceKey, Tabs!NormalizePerformanceMode
  <2>2. k[1] = "performance" /\ k[3] = x /\ k[4] = y
      BY <2>1, Quadruple
  <2>3. y # "series" <=> q.mode # "series"
      OBVIOUS
  <2>4. q.mode # "series" => x = q.period
      OBVIOUS
  <2> HIDE DEF x, y
  <2>5. OfUniverse(k) <=> (x \in {"1D", "7D", "30D"} /\ y # "series")
      BY <2>2 DEF OfUniverse
  <2>6. Tabs!ReadsUniverse(q) <=> (q.period \in {"1D", "7D", "30D"} /\ q.mode # "series")
      BY <1>2 DEF Tabs!ReadsUniverse, Tabs!PeriodFillsLookback
  <2>7. OfUniverse(k) <=> Tabs!ReadsUniverse(q)
      BY <2>3, <2>4, <2>5, <2>6
  <2> QED BY <1>0, <1>1, <1>2, <2>2, <2>7
<1>3. CASE q.tab = "detail"
  <2>1. k = <<"detail", q.wallet, q.period, "">>
      BY <1>0, <1>3 DEF Tabs!Key
  <2>2. k[1] = "detail" /\ k[3] = q.period /\ k[4] = ""
      BY <2>1, Quadruple
  <2>3. OfUniverse(k) <=> Tabs!ReadsUniverse(q)
      BY <1>1, <1>3, <2>2 DEF OfUniverse, Tabs!ReadsUniverse, Tabs!PeriodFillsLookback
  <2> QED BY <1>0, <1>1, <1>3, <2>2, <2>3
<1>4. CASE q.tab \notin {"performance", "detail"}
  <2>1. k[1] = q.tab
    <3>1. CASE q.tab \in {"orders", "transfers"}
      <4>1. k = <<q.tab, q.wallet, q.mode, "">>
          BY <1>0, <1>4, <3>1 DEF Tabs!Key
      <4> QED BY <4>1, Quadruple
    <3>2. CASE q.tab \notin {"orders", "transfers"}
      <4>1. k = <<q.tab, q.wallet, "", "">>
          BY <1>0, <1>4, <3>2 DEF Tabs!Key
      <4> QED BY <4>1, Quadruple
    <3> QED BY <3>1, <3>2
  <2>2. OfUniverse(k) <=> Tabs!ReadsUniverse(q)
      BY <1>4, <2>1 DEF OfUniverse, Tabs!ReadsUniverse
  <2> QED BY <1>0, <1>1, <2>1, <2>2
<1> QED BY <1>2, <1>3, <1>4

LEMMA UniverseKeysAre ==
  ASSUME NEW w
  PROVE  Tabs!UniverseKey(w)[1] = "universe" /\ ~OfUniverse(Tabs!UniverseKey(w))
BY DEF Tabs!UniverseKey, OfUniverse

LEMMA ResultsAre ==
  /\ Tabs!Failed \in Result /\ Tabs!Failed \notin Value /\ Tabs!Failed.at = -1 /\ Tabs!Failed.whole = FALSE
  /\ \A v \in Result : v # Tabs!Failed => v \in Value
  /\ \A v \in Value : v.at \in Nat /\ v.id \in Nat /\ v.whole \in BOOLEAN /\ v.status = IF v.whole THEN "ready" ELSE "error"
BY DEF Tabs!Failed, Value, Result

---------------------------------------------------------------------------
(* What a step makes of a caller.                                          *)

LEMMA TopIs ==
  ASSUME NEW c \in Callers, caller[c] \in CallerType
  PROVE  /\ caller[c].level = "tab" => Tabs!Top(c) = caller[c].frames.tab
         /\ caller[c].level = "universe" => Tabs!Top(c) = caller[c].frames.universe
         /\ caller[c].level \in Level /\ Tabs!Top(c) \in FrameType
BY DEF Tabs!Top, CallerType, Level

LEMMA WithTopIs ==
  ASSUME NEW c \in Callers, caller[c] \in CallerType, NEW pc \in Place, NEW v \in Result,
         NEW w, w = Tabs!WithTop(c, pc, v)
  PROVE  /\ w \in CallerType
         /\ w.pc = caller[c].pc /\ w.q = caller[c].q /\ w.at = caller[c].at /\ w.had = caller[c].had
         /\ w.level = caller[c].level
         /\ caller[c].level = "tab" =>
              /\ w.frames.tab.key = caller[c].frames.tab.key /\ w.frames.tab.pc = pc /\ w.frames.tab.val = v
              /\ w.frames.universe = caller[c].frames.universe
         /\ caller[c].level = "universe" =>
              /\ w.frames.universe.key = caller[c].frames.universe.key
              /\ w.frames.universe.pc = pc /\ w.frames.universe.val = v
              /\ w.frames.tab = caller[c].frames.tab
<1>1. CASE caller[c].level = "tab"
    BY <1>1 DEF Tabs!WithTop, CallerType, FrameType, Level
<1>2. CASE caller[c].level = "universe"
    BY <1>2 DEF Tabs!WithTop, CallerType, FrameType, Level
<1> QED BY <1>1, <1>2 DEF CallerType, Level

LEMMA NoFrameIs == Tabs!NoFrame \in FrameType /\ Tabs!NoFrame.pc = "none"
BY ResultsAre DEF Tabs!NoFrame, FrameType, AnyKey, Place

LEMMA PoppedIs ==
  ASSUME NEW c \in Callers, caller[c] \in CallerType, NEW v \in Result,
         NEW w, w = Tabs!Popped(c, v)
  PROVE  /\ w \in CallerType
         /\ w.q = caller[c].q /\ w.at = caller[c].at /\ w.had = caller[c].had
         /\ w.level = "tab" /\ w.frames.tab.key = caller[c].frames.tab.key /\ w.frames.tab.val = v
         /\ caller[c].level = "tab" =>
              /\ w.pc = "answering" /\ w.frames.tab.pc = caller[c].frames.tab.pc
              /\ w.frames.universe = caller[c].frames.universe
         /\ caller[c].level = "universe" =>
              /\ w.pc = caller[c].pc /\ w.frames.tab.pc = "combine" /\ w.frames.universe = Tabs!NoFrame
<1>1. CASE caller[c].level = "tab"
    BY <1>1 DEF Tabs!Popped, CallerType, FrameType, Level
<1>2. CASE caller[c].level = "universe"
    BY <1>2, NoFrameIs DEF Tabs!Popped, CallerType, FrameType, Level, Place
<1> QED BY <1>1, <1>2 DEF CallerType, Level

---------------------------------------------------------------------------
(* Who does not move, and what moving one caller needs.                    *)

LEMMA Stays ==
  ASSUME Tabs!OnDemandAssumption, NEW r, NEW t \in Nat, NEW m, NEW n, NEW f, NEW g, Fine(r, t, m, f),
         \A k \in DOMAIN m : k[1] # "universe" => k \in DOMAIN n,
         \A k \in DOMAIN n : (k \in DOMAIN m /\ n[k] = m[k]) \/ n[k].set = t,
         \A k \in DOMAIN f : Leads(r, k) \/ Waits(r, k) => k \in DOMAIN g /\ g[k] = f[k]
  PROVE  Fine(r, t, n, g)
<1>1. r \in CallerType
    BY DEF Fine
<1>2. \A k : Sees(k, t, m) => Sees(k, t, n)
    BY DEF Sees
<1>3. r.had => (Tabs!Key(r.q) \in DOMAIN m => Tabs!Key(r.q) \in DOMAIN n)
  <2>1. PICK k : k = Tabs!Key(r.q)
      OBVIOUS
  <2>2. r.q \in Requests
      BY <1>1 DEF CallerType
  <2>3. k[1] # "universe"
      BY <2>1, <2>2, KeysAre
  <2> QED BY <2>1, <2>3
<1>4. ASSUME r.pc = "serving" PROVE Serving(r, t, n, g)
  <2>1. Serving(r, t, m, f)
      BY <1>4 DEF Fine
  <2>2. CASE r.level = "tab"
    <3>1. AtTab(r, t, m, f)
        BY <2>1, <2>2 DEF Serving
    <3>2. r.frames.tab.pc \in {"wait", "fetch", "combine"} =>
            /\ r.frames.tab.key \in DOMAIN f
            /\ Leads(r, r.frames.tab.key) \/ Waits(r, r.frames.tab.key)
        BY <1>4, <2>2, <3>1 DEF AtTab, Under, Leads, Waits
    <3>3. r.frames.tab.pc \in {"wait", "fetch", "combine"} =>
            /\ r.frames.tab.key \in DOMAIN g
            /\ g[r.frames.tab.key] = f[r.frames.tab.key]
        BY <3>2
    <3>4. AtTab(r, t, n, g)
        BY <1>2, <3>1, <3>3 DEF AtTab, Under
    <3> QED BY <1>3, <2>1, <2>2, <3>4 DEF Serving
  <2>3. CASE r.level = "universe"
    <3>1. AtUniverse(r, t, m, f)
        BY <2>1, <2>3 DEF Serving
    <3>2. /\ r.frames.tab.key \in DOMAIN f /\ Leads(r, r.frames.tab.key)
          /\ r.frames.universe.pc \in {"wait", "fetch"} =>
               /\ r.frames.universe.key \in DOMAIN f
               /\ Leads(r, r.frames.universe.key) \/ Waits(r, r.frames.universe.key)
        BY <1>4, <2>3, <3>1 DEF AtUniverse, Under, Leads, Waits
    <3>3. /\ r.frames.tab.key \in DOMAIN g /\ g[r.frames.tab.key] = f[r.frames.tab.key]
          /\ r.frames.universe.pc \in {"wait", "fetch"} => r.frames.universe.key \in DOMAIN g
        BY <3>2
    <3>4. AtUniverse(r, t, n, g)
        BY <1>2, <3>1, <3>3 DEF AtUniverse, Under
    <3> QED BY <1>3, <2>1, <2>3, <3>4 DEF Serving
  <2> QED BY <1>1, <2>2, <2>3 DEF CallerType, Level
<1>5. r.pc = "answering" => Answering(r, n)
    BY <1>3 DEF Fine, Answering
<1> QED BY <1>1, <1>4, <1>5 DEF Fine

\* A flight stays with its leader when a caller moves that leads what it led.
LEMMA FlightsStay ==
  ASSUME Flights(caller, flight), DOMAIN caller = Callers, NEW c \in Callers, NEW w,
         \A k : Leads(w, k) <=> Leads(caller[c], k)
  PROVE  Flights([caller EXCEPT ![c] = w], flight)
<1> DEFINE all == [caller EXCEPT ![c] = w]
<1>1. \A d \in Callers : \A k : Leads(all[d], k) <=> Leads(caller[d], k)
    OBVIOUS
<1> HIDE DEF all
<1>2. Flights(all, flight)
    BY <1>1 DEF Flights
<1> QED BY <1>2 DEF all

LEMMA Counting ==
  \A S : (Tabs!Cardinality(S) = Cardinality(S)) /\ (Tabs!IsFiniteSet(S) <=> IsFiniteSet(S))
BY DEF Tabs!Cardinality, Cardinality, Tabs!IsFiniteSet, IsFiniteSet

LEMMA TrimmingIsFinite ==
  ASSUME Tabs!OnDemandAssumption
  PROVE  IsFiniteSet(Trimming) /\ Cardinality(Trimming) \in Nat /\ IsFiniteSet(Callers)
<1>1. IsFiniteSet(Callers)
    BY Counting DEF Tabs!OnDemandAssumption
<1>2. Trimming \subseteq Callers
    BY DEF Trimming
<1> QED BY <1>1, <1>2, FS_Subset, FS_CardinalityType

\* More callers that have yet to trim, and no more universes.
LEMMA BoundedStays ==
  ASSUME Tabs!OnDemandAssumption, Bounded, Tabs!Universes' \subseteq Tabs!Universes, Trimming \subseteq Trimming'
  PROVE  Bounded'
<1>1. IsFiniteSet(Callers) /\ Trimming \in SUBSET Callers /\ Trimming' \in SUBSET Callers
    BY TrimmingIsFinite DEF Trimming
<1>2. IsFiniteSet(Trimming') /\ Cardinality(Trimming') \in Nat /\ Cardinality(Trimming) \in Nat
    BY <1>1, FS_Subset, FS_CardinalityType
<1>3. Cardinality(Trimming) <= Cardinality(Trimming')
    BY <1>2, FS_Subset
<1>4. IsFiniteSet(Tabs!Universes)
    BY DEF Bounded
<1>5. /\ IsFiniteSet(Tabs!Universes') /\ Cardinality(Tabs!Universes') <= Cardinality(Tabs!Universes)
      /\ Cardinality(Tabs!Universes) \in Nat /\ Cardinality(Tabs!Universes') \in Nat
    BY <1>4, FS_Subset, FS_CardinalityType
<1>6. MaxUniverses \in Nat
    BY DEF Tabs!OnDemandAssumption
<1>7. Cardinality(Tabs!Universes) <= MaxUniverses + Cardinality(Trimming)
    BY DEF Bounded
<1>8. Cardinality(Tabs!Universes') <= MaxUniverses + Cardinality(Trimming')
    BY <1>2, <1>3, <1>5, <1>6, <1>7
<1> QED BY <1>5, <1>8 DEF Bounded

LEMMA OneMoves ==
  ASSUME Tabs!OnDemandAssumption, TabsInv, NEW c \in Callers, NEW w, caller' = [caller EXCEPT ![c] = w],
         now' = now,
         \A k \in DOMAIN cache : k[1] # "universe" => k \in DOMAIN cache',
         \A k \in DOMAIN cache' : (k \in DOMAIN cache /\ cache'[k] = cache[k]) \/ cache'[k].set = now,
         \A k \in DOMAIN flight : k \in DOMAIN flight' /\ flight'[k] = flight[k],
         Fine(w, now, cache', flight')
  PROVE  DOMAIN caller' = Callers /\ \A d \in Callers : Fine(caller'[d], now', cache', flight')
<1>1. DOMAIN caller = Callers /\ now \in Nat
    BY DEF TabsInv
<1>2. ASSUME NEW d \in Callers, d # c PROVE Fine(caller'[d], now, cache', flight')
  <2>1. caller'[d] = caller[d] /\ Fine(caller[d], now, cache, flight)
      BY <1>1, <1>2 DEF TabsInv
  <2>2. Fine(caller[d], now, cache', flight')
      BY <1>1, <2>1, Stays
  <2> QED BY <2>1, <2>2
<1>3. caller'[c] = w
    BY <1>1
<1> QED BY <1>1, <1>2, <1>3

LEMMA TrimmingStays ==
  ASSUME NEW c \in Callers, NEW w, caller' = [caller EXCEPT ![c] = w], DOMAIN caller = Callers,
         ~Tabs!At(c, "evict")
  PROVE  Trimming \subseteq Trimming'
BY DEF Trimming, Tabs!At, Tabs!Top

\* A step of one caller that touches nothing else.
LEMMA CallerStep ==
  ASSUME Tabs!OnDemandAssumption, TabsInv, NEW c \in Callers, NEW w, caller' = [caller EXCEPT ![c] = w],
         UNCHANGED <<now, fetches, cache, flight>>,
         Fine(w, now, cache, flight), \A k : Leads(w, k) <=> Leads(caller[c], k), ~Tabs!At(c, "evict")
  PROVE  TabsInv'
<1>1. DOMAIN caller' = Callers /\ \A d \in Callers : Fine(caller'[d], now', cache', flight')
    BY OneMoves
<1>2. Flights(caller', flight')
    BY FlightsStay DEF TabsInv
<1>3. Bounded'
  <2>1. Tabs!Universes' = Tabs!Universes
      BY DEF Tabs!Universes
  <2>2. Trimming \subseteq Trimming' /\ Bounded
      BY TrimmingStays DEF TabsInv
  <2> QED BY <2>1, <2>2, BoundedStays
<1>4. now \in Nat /\ fetches \in Nat /\ Cached(now, cache)
    BY DEF TabsInv
<1> QED BY <1>1, <1>2, <1>3, <1>4 DEF TabsInv

LEMMA LevelsAre ==
  ASSUME Tabs!OnDemandAssumption, NEW q \in Requests
  PROVE  /\ Tabs!Levels(q) * Ttl \in Nat /\ Lag(Tabs!Key(q)) \in Nat
         /\ Lag(Tabs!Key(q)) <= Tabs!Levels(q) * Ttl
         /\ Lag(Tabs!Key(q)) + Ttl <= Tabs!Levels(q) * Ttl + 1
         /\ Lag(Tabs!Key(q)) = IF Tabs!ReadsUniverse(q) THEN Ttl + 1 ELSE 1
<1>1. Ttl \in Nat /\ Ttl >= 1
  <2>1. Ttl \in Nat \ {0}
      BY DEF Tabs!OnDemandAssumption
  <2> QED BY <2>1
<1>2. OfUniverse(Tabs!Key(q)) <=> Tabs!ReadsUniverse(q)
    BY KeysAre
<1>3. CASE Tabs!ReadsUniverse(q)
  <2>1. Tabs!Levels(q) = 2 /\ Lag(Tabs!Key(q)) = Ttl + 1
      BY <1>2, <1>3 DEF Tabs!Levels, Lag
  <2> QED BY <1>1, <1>3, <2>1
<1>4. CASE ~Tabs!ReadsUniverse(q)
  <2>1. Tabs!Levels(q) = 1 /\ Lag(Tabs!Key(q)) = 1
      BY <1>2, <1>4 DEF Tabs!Levels, Lag
  <2> QED BY <1>1, <1>4, <2>1
<1> QED BY <1>3, <1>4

\* What a caller leads, by how far it is.
LEMMA LeadsIs ==
  ASSUME NEW r, NEW t, NEW m, NEW f, Fine(r, t, m, f)
  PROVE  /\ r.pc # "serving" => \A k : ~Leads(r, k)
         /\ r.pc = "serving" /\ r.level = "tab" =>
              \A k : Leads(r, k) <=> k = r.frames.tab.key /\ r.frames.tab.pc \in {"fetch", "combine"}
         /\ r.pc = "serving" /\ r.level = "universe" =>
              \A k : Leads(r, k) <=> \/ k = r.frames.tab.key
                                     \/ k = r.frames.universe.key /\ r.frames.universe.pc = "fetch"
BY NoFrameIs DEF Fine, Serving, AtTab, AtUniverse, Leads

\* A call returns: its caller combines, or answers.
LEMMA Pops ==
  ASSUME Tabs!OnDemandAssumption, NEW t \in Nat, NEW m, NEW f, NEW c \in Callers,
         Fine(caller[c], t, m, f), caller[c].pc = "serving", NEW v \in Result,
         caller[c].level = "tab" => NoOlder(v, caller[c].at, Tabs!Levels(caller[c].q) * Ttl),
         caller[c].level = "universe" => NoOlder(v, t, Ttl)
  PROVE  /\ Fine(Tabs!Popped(c, v), t, m, f)
         /\ \A k : Leads(Tabs!Popped(c, v), k) <=> caller[c].level = "universe" /\ k = caller[c].frames.tab.key
         /\ caller[c].level = "tab" => Tabs!Popped(c, v).pc = "answering"
         /\ caller[c].level = "universe" => Tabs!Popped(c, v).frames.tab.pc = "combine"
         /\ Tabs!Popped(c, v).level = "tab"
<1>1. PICK w : w = Tabs!Popped(c, v)
    OBVIOUS
<1>2. caller[c] \in CallerType /\ Serving(caller[c], t, m, f)
    BY DEF Fine
<1>3. /\ w \in CallerType /\ w.q = caller[c].q /\ w.at = caller[c].at /\ w.had = caller[c].had
      /\ w.level = "tab" /\ w.frames.tab.key = caller[c].frames.tab.key /\ w.frames.tab.val = v
    BY <1>1, <1>2, PoppedIs
<1>4. CASE caller[c].level = "tab"
  <2>1. w.pc = "answering"
      BY <1>1, <1>2, <1>4, PoppedIs
  <2>2. Fine(w, t, m, f)
      BY <1>2, <1>3, <1>4, <2>1 DEF Fine, Answering, Serving
  <2> QED BY <1>1, <1>3, <1>4, <2>1, <2>2 DEF Leads
<1>5. CASE caller[c].level = "universe"
  <2>1. w.pc = "serving" /\ w.frames.tab.pc = "combine" /\ w.frames.universe = Tabs!NoFrame
      BY <1>1, <1>2, <1>5, PoppedIs
  <2>2. AtUniverse(caller[c], t, m, f)
      BY <1>2, <1>5 DEF Serving
  <2>3. Under(w.frames.tab.key, w, t, f) /\ Tabs!ReadsUniverse(w.q)
      BY <1>3, <2>2 DEF AtUniverse, Under
  <2>4. NoOlder(v, t, Ttl) /\ NoOlder(v, t, Ttl + 1)
    <3>1. Ttl \in Nat
        BY DEF Tabs!OnDemandAssumption
    <3> QED BY <1>5, <3>1, ResultsAre DEF NoOlder
  <2>5. AtTab(w, t, m, f)
      BY <1>3, <2>1, <2>3, <2>4 DEF AtTab
  <2>6. Fine(w, t, m, f)
      BY <1>2, <1>3, <2>1, <2>5 DEF Fine, Serving
  <2>7. \A k : Leads(w, k) <=> k = caller[c].frames.tab.key
      BY <1>3, <2>1, <2>6, LeadsIs
  <2> QED BY <1>1, <1>3, <1>5, <2>1, <2>6, <2>7
<1> QED BY <1>2, <1>4, <1>5 DEF CallerType, Level

---------------------------------------------------------------------------
(* The steps that touch neither the cache nor a flight.                    *)

LEMMA IdleIs ==
  ASSUME Tabs!OnDemandAssumption
  PROVE  /\ Tabs!Idle \in CallerType /\ Tabs!Idle.pc = "idle" /\ Tabs!Idle.level = "tab"
         /\ Tabs!Idle.frames = Tabs!NoFrames /\ Tabs!Idle.answer = Tabs!NoAnswer /\ Tabs!Idle.had = FALSE
         /\ DOMAIN Tabs!Idle = {"pc", "q", "at", "had", "level", "frames", "answer"}
<1>1. (CHOOSE q \in Requests : TRUE) \in Requests
    BY DEF Tabs!OnDemandAssumption
<1> QED BY <1>1, NoFrameIs DEF Tabs!Idle, CallerType, Tabs!NoFrames, Tabs!NoAnswer, Level

LEMMA AskedIs ==
  ASSUME NEW d, NEW fs, NEW a, NEW i, NEW q, NEW t, NEW h, NEW g, NEW w,
         i = [pc |-> "idle", q |-> d, at |-> -1, had |-> FALSE, level |-> "tab", frames |-> fs, answer |-> a],
         w = [i EXCEPT !.pc = "serving", !.q = q, !.at = t, !.had = h, !.frames.tab = g]
  PROVE  w = [pc |-> "serving", q |-> q, at |-> t, had |-> h, level |-> "tab", frames |-> [fs EXCEPT !.tab = g], answer |-> a]
OBVIOUS

LEMMA AskStep ==
  ASSUME Tabs!OnDemandAssumption, TabsInv, NEW c \in Callers, NEW q \in Requests, Tabs!Ask(c, q)
  PROVE  TabsInv'
<1>1. /\ now \in Nat /\ Fine(caller[c], now, cache, flight) /\ caller[c].pc = "idle"
      /\ UNCHANGED <<now, fetches, cache, flight>>
    BY DEF TabsInv, Tabs!Ask
<1>2. (\A k : ~Leads(caller[c], k)) /\ ~Tabs!At(c, "evict")
    BY <1>1, LeadsIs DEF Tabs!At
<1>3. CASE q.valid /\ q.wallet \in Wallets
  <2> DEFINE w == [Tabs!Idle EXCEPT !.pc = "serving", !.q = q, !.at = now, !.had = Tabs!Found(Tabs!Key(q)),
                                   !.frames.tab = Tabs!Frame(Tabs!Key(q))]
  <2>2. caller' = [caller EXCEPT ![c] = w]
      BY <1>3 DEF Tabs!Ask
  <2>3. Tabs!Frame(Tabs!Key(q)) = [key |-> Tabs!Key(q), pc |-> "get", val |-> Tabs!Failed] /\ Tabs!Key(q) \in AnyKey
      BY DEF Tabs!Frame, AnyKey
  <2>4. Tabs!Found(Tabs!Key(q)) \in BOOLEAN /\ (Tabs!Found(Tabs!Key(q)) => Tabs!Key(q) \in DOMAIN cache)
      BY DEF Tabs!Found
  <2>5. w = [pc |-> "serving", q |-> q, at |-> now, had |-> Tabs!Found(Tabs!Key(q)), level |-> "tab",
             frames |-> [tab |-> Tabs!Frame(Tabs!Key(q)), universe |-> Tabs!NoFrame], answer |-> Tabs!NoAnswer]
    <3>1. w = [pc |-> "serving", q |-> q, at |-> now, had |-> Tabs!Found(Tabs!Key(q)), level |-> "tab",
               frames |-> [Tabs!NoFrames EXCEPT !.tab = Tabs!Frame(Tabs!Key(q))], answer |-> Tabs!NoAnswer]
      <4>1. PICK d : d = CHOOSE x \in Requests : TRUE
          OBVIOUS
      <4>2. PICK i : i = Tabs!Idle
          OBVIOUS
      <4>3. i = [pc |-> "idle", q |-> d, at |-> -1, had |-> FALSE, level |-> "tab", frames |-> Tabs!NoFrames,
                 answer |-> Tabs!NoAnswer]
          BY <4>1, <4>2 DEF Tabs!Idle
      <4>4. PICK h, g : h = Tabs!Found(Tabs!Key(q)) /\ g = Tabs!Frame(Tabs!Key(q))
          OBVIOUS
      <4>5. w = [i EXCEPT !.pc = "serving", !.q = q, !.at = now, !.had = h, !.frames.tab = g]
          BY <4>2, <4>4
      <4> HIDE DEF w
      <4>6. w = [pc |-> "serving", q |-> q, at |-> now, had |-> h, level |-> "tab",
                 frames |-> [Tabs!NoFrames EXCEPT !.tab = g], answer |-> Tabs!NoAnswer]
          BY ONLY <4>3, <4>5, AskedIs
      <4> QED BY <4>4, <4>6
    <3>2. [Tabs!NoFrames EXCEPT !.tab = Tabs!Frame(Tabs!Key(q))] = [tab |-> Tabs!Frame(Tabs!Key(q)), universe |-> Tabs!NoFrame]
        BY DEF Tabs!NoFrames
    <3> QED BY <3>1, <3>2
  <2> HIDE DEF w
  <2>10. Tabs!Frame(Tabs!Key(q)) \in FrameType
      BY <2>3, ResultsAre DEF FrameType, Place
  <2>11. w \in CallerType
      BY <1>1, <2>4, <2>5, <2>10, NoFrameIs DEF CallerType, Tabs!NoAnswer, Level
  <2>12. w.frames.tab.key = Tabs!Key(q) /\ w.frames.tab.pc = "get" /\ w.frames.universe = Tabs!NoFrame
      BY <2>3, <2>5
  <2>6. AtTab(w, now, cache, flight)
      BY <2>5, <2>12 DEF AtTab
  <2>7. Fine(w, now, cache, flight)
      BY <1>1, <2>4, <2>5, <2>6, <2>11, <2>12 DEF Fine, Serving
  <2>8. \A k : ~Leads(w, k)
      BY <2>5, <2>7, <2>12, LeadsIs
  <2> QED BY <1>1, <1>2, <2>2, <2>7, <2>8, CallerStep
<1>4. CASE ~(q.valid /\ q.wallet \in Wallets)
  <2>1. PICK w : w = [Tabs!Idle EXCEPT !.pc = "done", !.q = q, !.answer.status = "refused"]
      OBVIOUS
  <2>2. caller' = [caller EXCEPT ![c] = w]
      BY <1>4, <2>1 DEF Tabs!Ask
  <2>3. w.pc = "done" /\ w.answer.status = "refused" /\ w \in CallerType
      BY <2>1, IdleIs DEF CallerType, Tabs!NoAnswer
  <2>4. Fine(w, now, cache, flight) /\ \A k : ~Leads(w, k)
      BY <2>3 DEF Fine, Answered, Leads
  <2> QED BY <1>1, <1>2, <2>2, <2>4, CallerStep
<1> QED BY <1>3, <1>4

LEMMA CloseStep ==
  ASSUME Tabs!OnDemandAssumption, TabsInv, NEW c \in Callers, Tabs!Close(c)
  PROVE  TabsInv'
<1>1. /\ Fine(caller[c], now, cache, flight) /\ caller[c].pc = "done"
      /\ UNCHANGED <<now, fetches, cache, flight>> /\ caller' = [caller EXCEPT ![c] = Tabs!Idle]
    BY DEF TabsInv, Tabs!Close
<1>2. (\A k : ~Leads(caller[c], k)) /\ ~Tabs!At(c, "evict")
    BY <1>1, LeadsIs DEF Tabs!At
<1>3. Fine(Tabs!Idle, now, cache, flight) /\ \A k : ~Leads(Tabs!Idle, k)
    BY IdleIs DEF Fine, Leads
<1> QED BY <1>1, <1>2, <1>3, CallerStep

LEMMA AnsweredIs ==
  ASSUME NEW c \in Callers, caller[c] \in CallerType, NEW s \in {"panic", "ready", "error"},
         NEW v \in Result, NEW w, w = Tabs!Answered(c, s, v)
  PROVE  /\ w \in CallerType /\ w.pc = "done" /\ w.q = caller[c].q /\ w.at = caller[c].at /\ w.had = caller[c].had
         /\ w.answer.status = s /\ w.answer.at = v.at /\ w.answer.whole = v.whole
<1>1. v.at \in Nat \cup {-1} /\ v.whole \in BOOLEAN
    BY ResultsAre
<1> QED BY <1>1, NoFrameIs DEF Tabs!Answered, CallerType, Tabs!NoFrames, Level

LEMMA AnswerStep ==
  ASSUME Tabs!OnDemandAssumption, TabsInv, NEW c \in Callers, Tabs!Answer(c)
  PROVE  TabsInv'
<1>1. /\ Fine(caller[c], now, cache, flight) /\ caller[c].pc = "answering"
      /\ UNCHANGED <<now, fetches, cache, flight>>
    BY DEF TabsInv, Tabs!Answer
<1>2. (\A k : ~Leads(caller[c], k)) /\ ~Tabs!At(c, "evict")
    BY <1>1, LeadsIs DEF Tabs!At
<1>3. PICK v : v = Tabs!Top(c).val
    OBVIOUS
<1>4. PICK k : k = Tabs!Key(caller[c].q)
    OBVIOUS
<1>5. caller[c] \in CallerType /\ Answering(caller[c], cache)
    BY <1>1 DEF Fine
<1>6. v = caller[c].frames.tab.val /\ v \in Result
    BY <1>3, <1>5, TopIs DEF Answering, FrameType
<1>7. caller[c].q \in Requests /\ caller[c].at \in Int
    BY <1>5 DEF CallerType
<1>8. CASE v # Tabs!Failed
  <2>1. v \in Value /\ NoOlder(v, caller[c].at, Tabs!Levels(caller[c].q) * Ttl)
      BY <1>5, <1>6, <1>8, ResultsAre DEF Answering
  <2>2. PICK s : s = Tabs!Status(caller[c].q, v)
      OBVIOUS
  <2>3. s \in {"ready", "error"} /\ (s = "ready" /\ caller[c].q.tab # "detail" => v.whole)
      BY <2>1, <2>2, ResultsAre DEF Tabs!Status
  <2>4. PICK w : w = Tabs!Answered(c, s, v)
      OBVIOUS
  <2>5. caller' = [caller EXCEPT ![c] = w]
      BY <1>3, <1>8, <2>2, <2>4 DEF Tabs!Answer
  <2>6. /\ w \in CallerType /\ w.pc = "done" /\ w.q = caller[c].q /\ w.at = caller[c].at /\ w.had = caller[c].had
        /\ w.answer.status = s /\ w.answer.at = v.at /\ w.answer.whole = v.whole
      BY <1>5, <1>6, <2>3, <2>4, AnsweredIs
  <2>7. v.at \in Nat
      BY <2>1, ResultsAre
  <2>8. Answered(w)
      BY <1>8, <2>1, <2>3, <2>6, <2>7 DEF Answered, NoOlder
  <2>9. Fine(w, now, cache, flight) /\ \A j : ~Leads(w, j)
      BY <2>6, <2>8 DEF Fine, Leads
  <2> QED BY <1>1, <1>2, <2>5, <2>9, CallerStep
<1>9. CASE v = Tabs!Failed
  <2>1. PICK u : u = IF Tabs!Found(k) THEN cache[k].val ELSE Tabs!Failed
      OBVIOUS
  <2>2. u \in Result /\ (Tabs!Found(k) => u \in Value)
      BY <2>1, ResultsAre DEF TabsInv, Cached, Tabs!Found, Result
  <2>3. PICK w : w = Tabs!Answered(c, "error", u)
      OBVIOUS
  <2>4. caller' = [caller EXCEPT ![c] = w]
      BY <1>3, <1>4, <1>9, <2>1, <2>3 DEF Tabs!Answer
  <2>5. /\ w \in CallerType /\ w.pc = "done" /\ w.had = caller[c].had
        /\ w.answer.status = "error" /\ w.answer.at = u.at
      BY <1>5, <2>2, <2>3, AnsweredIs
  <2>6. w.had => u.at \in Nat
      BY <1>4, <1>5, <2>2, <2>5, ResultsAre DEF Answering, Tabs!Found
  <2>7. Answered(w)
      BY <2>5, <2>6 DEF Answered
  <2>8. Fine(w, now, cache, flight) /\ \A j : ~Leads(w, j)
      BY <2>5, <2>7 DEF Fine, Leads
  <2> QED BY <1>1, <1>2, <2>4, <2>8, CallerStep
<1> QED BY <1>8, <1>9

LEMMA TimeIs ==
  ASSUME Tabs!OnDemandAssumption
  PROVE  Ttl \in Nat /\ Ttl >= 1 /\ MaxUniverses \in Nat
<1>1. Ttl \in Nat \ {0} /\ MaxUniverses \in Nat
    BY DEF Tabs!OnDemandAssumption
<1> QED BY <1>1

\* A caller that is served, where it is.
LEMMA ServedAt ==
  ASSUME TabsInv, NEW c \in Callers, NEW pc, Tabs!At(c, pc)
  PROVE  /\ now \in Nat /\ fetches \in Nat /\ DOMAIN caller = Callers
         /\ caller[c] \in CallerType /\ caller[c].pc = "serving" /\ Fine(caller[c], now, cache, flight)
         /\ Serving(caller[c], now, cache, flight) /\ caller[c].q \in Requests /\ caller[c].at \in Nat
         /\ \/ /\ caller[c].level = "tab" /\ Tabs!Top(c) = caller[c].frames.tab
               /\ AtTab(caller[c], now, cache, flight) /\ Tabs!Top(c).key = Tabs!Key(caller[c].q)
            \/ /\ caller[c].level = "universe" /\ Tabs!Top(c) = caller[c].frames.universe
               /\ AtUniverse(caller[c], now, cache, flight) /\ Tabs!Top(c).key = Tabs!UniverseKey(caller[c].q.wallet)
         /\ Tabs!Top(c).pc = pc /\ Tabs!Top(c).val \in Result
<1>1. /\ now \in Nat /\ fetches \in Nat /\ DOMAIN caller = Callers /\ Fine(caller[c], now, cache, flight)
      /\ caller[c].pc = "serving" /\ Tabs!Top(c).pc = pc
    BY DEF TabsInv, Tabs!At
<1>2. caller[c] \in CallerType /\ Serving(caller[c], now, cache, flight)
    BY <1>1 DEF Fine
<1>3. Tabs!Top(c).val \in Result /\ caller[c].q \in Requests /\ caller[c].at \in Nat
    BY <1>2, TopIs DEF FrameType, CallerType, Serving
<1>4. CASE caller[c].level = "tab"
    BY <1>1, <1>2, <1>3, <1>4, TopIs DEF Serving
<1>5. CASE caller[c].level = "universe"
    BY <1>1, <1>2, <1>3, <1>5, TopIs DEF Serving, AtUniverse
<1> QED BY <1>2, <1>4, <1>5, TopIs DEF Level

\* What is cached under the key of a call is no older than the key allows.
LEMMA CachedIs ==
  ASSUME Tabs!OnDemandAssumption, TabsInv, NEW k \in DOMAIN cache
  PROVE  /\ cache[k].val \in Value /\ cache[k].val \in Result /\ cache[k].val # Tabs!Failed /\ cache[k].val.at \in Nat
         /\ cache[k].set \in Nat /\ cache[k].set <= now /\ cache[k].set - cache[k].val.at <= Lag(k)
         /\ Lag(k) \in Nat
<1>1. cache[k].val \in Value /\ cache[k].set \in Nat /\ cache[k].set <= now /\ cache[k].set - cache[k].val.at <= Lag(k)
    BY DEF TabsInv, Cached
<1>2. Lag(k) \in Nat
    BY TimeIs DEF Lag
<1> QED BY <1>1, <1>2, ResultsAre DEF Result

LEMMA GetStep ==
  ASSUME Tabs!OnDemandAssumption, TabsInv, NEW c \in Callers, Tabs!Get(c)
  PROVE  TabsInv'
<1>0. Tabs!At(c, "get") /\ UNCHANGED <<now, fetches, cache, flight>>
    BY DEF Tabs!Get
<1>1. PICK k : k = Tabs!Top(c).key
    OBVIOUS
<1>2. /\ now \in Nat /\ caller[c] \in CallerType /\ caller[c].pc = "serving" /\ Fine(caller[c], now, cache, flight)
      /\ Serving(caller[c], now, cache, flight) /\ caller[c].q \in Requests
      /\ \/ /\ caller[c].level = "tab" /\ Tabs!Top(c) = caller[c].frames.tab
            /\ AtTab(caller[c], now, cache, flight) /\ Tabs!Top(c).key = Tabs!Key(caller[c].q)
         \/ /\ caller[c].level = "universe" /\ Tabs!Top(c) = caller[c].frames.universe
            /\ AtUniverse(caller[c], now, cache, flight) /\ Tabs!Top(c).key = Tabs!UniverseKey(caller[c].q.wallet)
      /\ Tabs!Top(c).pc = "get"
    BY <1>0, ServedAt
<1>3. ~Tabs!At(c, "evict")
    BY <1>2 DEF Tabs!At
<1>4. \A j : Leads(caller[c], j) <=> caller[c].level = "universe" /\ j = caller[c].frames.tab.key
    BY <1>2, LeadsIs
<1>5. CASE Tabs!Fresh(k)
  <2>1. PICK v : v = cache[k].val
      OBVIOUS
  <2>2. caller' = [caller EXCEPT ![c] = Tabs!Popped(c, v)]
      BY <1>1, <1>5, <2>1 DEF Tabs!Get
  <2>3. k \in DOMAIN cache /\ now < cache[k].set + Ttl
      BY <1>5 DEF Tabs!Fresh, Tabs!Found
  <2>4. v \in Result /\ v.at \in Nat /\ now - v.at < Lag(k) + Ttl
      BY <1>2, <2>1, <2>3, CachedIs, TimeIs
  <2>5. caller[c].level = "tab" => NoOlder(v, caller[c].at, Tabs!Levels(caller[c].q) * Ttl)
    <3>1. SUFFICES ASSUME caller[c].level = "tab" PROVE NoOlder(v, caller[c].at, Tabs!Levels(caller[c].q) * Ttl)
        OBVIOUS
    <3>2. k = Tabs!Key(caller[c].q) /\ caller[c].at = now
        BY <1>1, <1>2, <3>1 DEF AtTab
    <3>3. Lag(k) + Ttl <= Tabs!Levels(caller[c].q) * Ttl + 1 /\ Lag(k) \in Nat /\ Tabs!Levels(caller[c].q) * Ttl \in Nat
        BY <1>2, <3>2, LevelsAre
    <3> QED BY <1>2, <2>4, <3>2, <3>3, TimeIs DEF NoOlder
  <2>6. caller[c].level = "universe" => NoOlder(v, now, Ttl)
    <3>1. SUFFICES ASSUME caller[c].level = "universe" PROVE NoOlder(v, now, Ttl)
        OBVIOUS
    <3>2. Lag(k) = 1
        BY <1>1, <1>2, <3>1, UniverseKeysAre DEF Lag
    <3> QED BY <1>2, <2>4, <3>2, TimeIs DEF NoOlder
  <2>7. /\ Fine(Tabs!Popped(c, v), now, cache, flight)
        /\ \A j : Leads(Tabs!Popped(c, v), j) <=> caller[c].level = "universe" /\ j = caller[c].frames.tab.key
      BY <1>2, <2>4, <2>5, <2>6, Pops
  <2> QED BY <1>0, <1>3, <1>4, <2>2, <2>7, CallerStep
<1>6. CASE ~Tabs!Fresh(k)
  <2>1. PICK w : w = Tabs!WithTop(c, "do", Tabs!Failed)
      OBVIOUS
  <2>2. caller' = [caller EXCEPT ![c] = w]
      BY <1>1, <1>6, <2>1 DEF Tabs!Get
  <2>3. Sees(k, now, cache)
      BY <1>6 DEF Tabs!Fresh, Tabs!Found, Sees
  <2>4. /\ w \in CallerType
        /\ w.pc = caller[c].pc /\ w.q = caller[c].q /\ w.at = caller[c].at /\ w.had = caller[c].had
        /\ w.level = caller[c].level
        /\ caller[c].level = "tab" =>
             /\ w.frames.tab.key = caller[c].frames.tab.key /\ w.frames.tab.pc = "do"
             /\ w.frames.universe = caller[c].frames.universe
        /\ caller[c].level = "universe" =>
             /\ w.frames.universe.key = caller[c].frames.universe.key
             /\ w.frames.universe.pc = "do"
             /\ w.frames.tab = caller[c].frames.tab
    <3>1. "do" \in Place
        BY DEF Place
    <3> QED BY <1>2, <2>1, <3>1, WithTopIs, ResultsAre
  <2>5. Fine(w, now, cache, flight)
    <3>1. CASE caller[c].level = "tab"
      <4>1. AtTab(w, now, cache, flight)
          BY <1>1, <1>2, <2>3, <2>4, <3>1 DEF AtTab
      <4> QED BY <1>2, <2>4, <3>1, <4>1 DEF Fine, Serving
    <3>2. CASE caller[c].level = "universe"
      <4>1. AtUniverse(w, now, cache, flight)
          BY <1>1, <1>2, <2>3, <2>4, <3>2 DEF AtUniverse, Under
      <4> QED BY <1>2, <2>4, <3>2, <4>1 DEF Fine, Serving
    <3> QED BY <1>2, <3>1, <3>2
  <2>6. \A j : Leads(w, j) <=> caller[c].level = "universe" /\ j = caller[c].frames.tab.key
      BY <1>2, <2>4, <2>5, LeadsIs
  <2> QED BY <1>0, <1>3, <1>4, <2>2, <2>5, <2>6, CallerStep
<1> QED BY <1>5, <1>6

LEMMA OpenStep ==
  ASSUME Tabs!OnDemandAssumption, TabsInv, NEW c \in Callers, Tabs!OpenUniverse(c)
  PROVE  TabsInv'
<1>0. /\ Tabs!At(c, "fetch") /\ UNCHANGED <<now, fetches, cache, flight>>
      /\ caller[c].level = "tab" /\ Tabs!ReadsUniverse(caller[c].q)
    BY DEF Tabs!OpenUniverse
<1>1. /\ now \in Nat /\ caller[c] \in CallerType /\ caller[c].pc = "serving" /\ Fine(caller[c], now, cache, flight)
      /\ Serving(caller[c], now, cache, flight) /\ caller[c].q \in Requests
      /\ Tabs!Top(c) = caller[c].frames.tab /\ AtTab(caller[c], now, cache, flight)
      /\ caller[c].frames.tab.pc = "fetch"
    BY <1>0, ServedAt
<1>2. ~Tabs!At(c, "evict")
    BY <1>1 DEF Tabs!At
<1>3. PICK g : g = Tabs!Frame(Tabs!UniverseKey(caller[c].q.wallet))
    OBVIOUS
<1>4. g \in FrameType /\ g.pc = "get" /\ g.key = Tabs!UniverseKey(caller[c].q.wallet)
  <2>1. Tabs!UniverseKey(caller[c].q.wallet) \in AnyKey
      BY <1>1 DEF AnyKey
  <2> QED BY <1>3, <2>1, ResultsAre DEF Tabs!Frame, FrameType, Place
<1>5. PICK w : w = [caller[c] EXCEPT !.level = "universe",
                      !.frames = [tab |-> [@.tab EXCEPT !.pc = "nested"], universe |-> g]]
    OBVIOUS
<1>6. caller' = [caller EXCEPT ![c] = w]
  <2>1. caller' = [caller EXCEPT ![c].level = "universe",
                     ![c].frames = [tab |-> [@.tab EXCEPT !.pc = "nested"], universe |-> g]]
      BY <1>3 DEF Tabs!OpenUniverse
  <2> QED BY <1>5, <2>1 DEF TabsInv
<1>7. /\ w \in CallerType /\ w.pc = "serving" /\ w.q = caller[c].q /\ w.at = caller[c].at /\ w.had = caller[c].had
      /\ w.level = "universe" /\ w.frames.tab.key = caller[c].frames.tab.key /\ w.frames.tab.pc = "nested"
      /\ w.frames.universe = g
  <2>1. [caller[c].frames.tab EXCEPT !.pc = "nested"] \in FrameType
      BY <1>1 DEF CallerType, FrameType, Place
  <2> QED BY <1>1, <1>4, <1>5, <2>1 DEF CallerType, FrameType, Level
<1>8. Fine(w, now, cache, flight)
  <2>1. Under(w.frames.tab.key, w, now, flight)
      BY <1>1, <1>7 DEF AtTab, Under
  <2>2. AtUniverse(w, now, cache, flight)
      BY <1>0, <1>4, <1>7, <2>1 DEF AtUniverse
  <2> QED BY <1>1, <1>7, <2>2 DEF Fine, Serving
<1>9. \A j : Leads(w, j) <=> Leads(caller[c], j)
  <2>1. \A j : Leads(w, j) <=> j = caller[c].frames.tab.key
      BY <1>4, <1>7, <1>8, LeadsIs
  <2>2. \A j : Leads(caller[c], j) <=> j = caller[c].frames.tab.key
      BY <1>0, <1>1, LeadsIs
  <2> QED BY <2>1, <2>2
<1> QED BY <1>0, <1>2, <1>6, <1>8, <1>9, CallerStep

LEMMA DoStep ==
  ASSUME Tabs!OnDemandAssumption, TabsInv, NEW c \in Callers, Tabs!Do(c)
  PROVE  TabsInv'
<1>0. Tabs!At(c, "do") /\ UNCHANGED <<now, fetches, cache>>
    BY DEF Tabs!Do
<1>1. PICK k : k = Tabs!Top(c).key
    OBVIOUS
<1>2. /\ now \in Nat /\ caller[c] \in CallerType /\ caller[c].pc = "serving" /\ Fine(caller[c], now, cache, flight)
      /\ Serving(caller[c], now, cache, flight) /\ caller[c].q \in Requests
      /\ \/ /\ caller[c].level = "tab" /\ Tabs!Top(c) = caller[c].frames.tab
            /\ AtTab(caller[c], now, cache, flight) /\ Tabs!Top(c).key = Tabs!Key(caller[c].q)
         \/ /\ caller[c].level = "universe" /\ Tabs!Top(c) = caller[c].frames.universe
            /\ AtUniverse(caller[c], now, cache, flight) /\ Tabs!Top(c).key = Tabs!UniverseKey(caller[c].q.wallet)
      /\ Tabs!Top(c).pc = "do"
    BY <1>0, ServedAt
<1>3. ~Tabs!At(c, "evict")
    BY <1>2 DEF Tabs!At
<1>4. \A j : Leads(caller[c], j) <=> caller[c].level = "universe" /\ j = caller[c].frames.tab.key
    BY <1>2, LeadsIs
<1>5. \A pc \in Place, v \in Result : \A w : w = Tabs!WithTop(c, pc, v) =>
        /\ w \in CallerType
        /\ w.pc = caller[c].pc /\ w.q = caller[c].q /\ w.at = caller[c].at /\ w.had = caller[c].had
        /\ w.level = caller[c].level
        /\ caller[c].level = "tab" =>
             /\ w.frames.tab.key = caller[c].frames.tab.key /\ w.frames.tab.pc = pc /\ w.frames.tab.val = v
             /\ w.frames.universe = caller[c].frames.universe
        /\ caller[c].level = "universe" =>
             /\ w.frames.universe.key = caller[c].frames.universe.key
             /\ w.frames.universe.pc = pc /\ w.frames.universe.val = v
             /\ w.frames.tab = caller[c].frames.tab
    BY <1>2, WithTopIs
<1>6. Tabs!Failed \in Result /\ {"wait", "put", "fetch"} \subseteq Place
    BY ResultsAre DEF Place
<1>7. CASE k \in DOMAIN flight
  <2>1. PICK w : w = Tabs!WithTop(c, "wait", Tabs!Failed)
      OBVIOUS
  <2>2. caller' = [caller EXCEPT ![c] = w] /\ flight' = flight
      BY <1>1, <1>7, <2>1 DEF Tabs!Do
  <2>3. Fine(w, now, cache, flight)
    <3>1. CASE caller[c].level = "tab"
      <4>1. Under(w.frames.tab.key, w, now, flight)
          BY <1>1, <1>2, <1>5, <1>6, <1>7, <2>1, <3>1 DEF AtTab, Under
      <4>2. AtTab(w, now, cache, flight)
          BY <1>2, <1>5, <1>6, <2>1, <3>1, <4>1 DEF AtTab
      <4> QED BY <1>2, <1>5, <1>6, <2>1, <3>1, <4>2 DEF Fine, Serving
    <3>2. CASE caller[c].level = "universe"
      <4>1. AtUniverse(w, now, cache, flight)
          BY <1>1, <1>2, <1>5, <1>6, <1>7, <2>1, <3>2 DEF AtUniverse, Under
      <4> QED BY <1>2, <1>5, <1>6, <2>1, <3>2, <4>1 DEF Fine, Serving
    <3> QED BY <1>2, <3>1, <3>2
  <2>4. \A j : Leads(w, j) <=> caller[c].level = "universe" /\ j = caller[c].frames.tab.key
      BY <1>2, <1>5, <1>6, <2>1, <2>3, LeadsIs
  <2> QED BY <1>0, <1>3, <1>4, <2>2, <2>3, <2>4, CallerStep
<1>8. CASE k \notin DOMAIN flight /\ Tabs!Fresh(k)
  <2>1. PICK v : v = cache[k].val
      OBVIOUS
  <2>2. PICK w : w = Tabs!WithTop(c, "put", v)
      OBVIOUS
  <2>3. caller' = [caller EXCEPT ![c] = w] /\ flight' = flight
      BY <1>1, <1>8, <2>1, <2>2 DEF Tabs!Do
  <2>4. k \in DOMAIN cache /\ now < cache[k].set + Ttl
      BY <1>8 DEF Tabs!Fresh, Tabs!Found
  <2>5. Sees(k, now, cache)
      BY <1>1, <1>2 DEF AtTab, AtUniverse
  <2>6. cache[k].set = now
      BY <2>4, <2>5 DEF Sees
  <2>7. v \in Result /\ v # Tabs!Failed /\ NoOlder(v, now, Lag(k))
      BY <2>1, <2>4, <2>6, CachedIs DEF NoOlder
  <2>8. Fine(w, now, cache, flight)
    <3>1. CASE caller[c].level = "tab"
      <4>1. AtTab(w, now, cache, flight)
          BY <1>1, <1>2, <1>5, <1>6, <2>2, <2>7, <3>1 DEF AtTab
      <4> QED BY <1>2, <1>5, <1>6, <2>2, <2>7, <3>1, <4>1 DEF Fine, Serving
    <3>2. CASE caller[c].level = "universe"
      <4>1. Lag(k) = 1
          BY <1>1, <1>2, <3>2, UniverseKeysAre DEF Lag
      <4>2. AtUniverse(w, now, cache, flight)
          BY <1>1, <1>2, <1>5, <1>6, <2>2, <2>7, <3>2, <4>1 DEF AtUniverse, Under
      <4> QED BY <1>2, <1>5, <1>6, <2>2, <2>7, <3>2, <4>2 DEF Fine, Serving
    <3> QED BY <1>2, <3>1, <3>2
  <2>9. \A j : Leads(w, j) <=> caller[c].level = "universe" /\ j = caller[c].frames.tab.key
      BY <1>2, <1>5, <1>6, <2>2, <2>7, <2>8, LeadsIs
  <2> QED BY <1>0, <1>3, <1>4, <2>3, <2>8, <2>9, CallerStep
<1>9. CASE k \notin DOMAIN flight /\ ~Tabs!Fresh(k)
  <2>1. PICK w : w = Tabs!WithTop(c, "fetch", Tabs!Failed)
      OBVIOUS
  <2>2. PICK g : g = Tabs!Written(flight, k, [leader |-> c, ticks |-> 0])
      OBVIOUS
  <2>3. caller' = [caller EXCEPT ![c] = w] /\ flight' = g
      BY <1>1, <1>9, <2>1, <2>2 DEF Tabs!Do
  <2>4. /\ DOMAIN g = DOMAIN flight \cup {k} /\ g[k] = [leader |-> c, ticks |-> 0]
        /\ \A j \in DOMAIN flight : g[j] = flight[j]
      BY <1>9, <2>2 DEF Tabs!Written
  <2>5. Fine(w, now, cache, g)
    <3>1. CASE caller[c].level = "tab"
      <4>1. Under(w.frames.tab.key, w, now, g)
          BY <1>1, <1>2, <1>5, <1>6, <2>1, <2>4, <3>1 DEF AtTab, Under
      <4>2. AtTab(w, now, cache, g)
          BY <1>2, <1>5, <1>6, <2>1, <3>1, <4>1 DEF AtTab
      <4> QED BY <1>2, <1>5, <1>6, <2>1, <3>1, <4>2 DEF Fine, Serving
    <3>2. CASE caller[c].level = "universe"
      <4>1. AtUniverse(w, now, cache, g)
          BY <1>1, <1>2, <1>5, <1>6, <2>1, <2>4, <3>2 DEF AtUniverse, Under
      <4> QED BY <1>2, <1>5, <1>6, <2>1, <3>2, <4>1 DEF Fine, Serving
    <3> QED BY <1>2, <3>1, <3>2
  <2>6. \A j : Leads(w, j) <=> \/ caller[c].level = "universe" /\ j = caller[c].frames.tab.key
                               \/ j = k
      BY <1>1, <1>2, <1>5, <1>6, <2>1, <2>5, LeadsIs
  <2>7. DOMAIN caller' = Callers /\ \A d \in Callers : Fine(caller'[d], now', cache', flight')
      BY <1>0, <2>3, <2>4, <2>5, OneMoves
  <2>8. Flights(caller', flight')
    <3>1. /\ \A j \in DOMAIN flight : /\ flight[j] = [leader |-> flight[j].leader, ticks |-> flight[j].ticks]
                                      /\ flight[j].leader \in Callers /\ flight[j].ticks \in {0, 1}
                                      /\ Leads(caller[flight[j].leader], j)
          /\ \A d \in Callers : \A j : Leads(caller[d], j) => j \in DOMAIN flight /\ flight[j].leader = d
          /\ DOMAIN caller = Callers
        BY DEF TabsInv, Flights
    <3>2. \A d \in Callers : \A j : Leads(caller[d], j) => Leads(caller'[d], j)
        BY <1>4, <2>3, <2>6, <3>1
    <3>3. \A d \in Callers : \A j : Leads(caller'[d], j) => Leads(caller[d], j) \/ (d = c /\ j = k)
        BY <1>4, <2>3, <2>6, <3>1
    <3>4. Leads(caller'[c], k)
        BY <2>3, <2>6, <3>1
    <3>5. g[k] = [leader |-> g[k].leader, ticks |-> g[k].ticks] /\ g[k].leader = c /\ g[k].ticks = 0
        BY <2>4
    <3>6. \A j \in DOMAIN g : /\ g[j] = [leader |-> g[j].leader, ticks |-> g[j].ticks]
                             /\ g[j].leader \in Callers /\ g[j].ticks \in {0, 1} /\ Leads(caller'[g[j].leader], j)
        BY <2>4, <3>1, <3>2, <3>4, <3>5
    <3>7. \A d \in Callers : \A j : Leads(caller'[d], j) => j \in DOMAIN g /\ g[j].leader = d
        BY <2>4, <3>1, <3>3, <3>5
    <3> QED BY <2>3, <3>6, <3>7 DEF Flights
  <2>9. Bounded'
    <3>1. Tabs!Universes' = Tabs!Universes
        BY <1>0 DEF Tabs!Universes
    <3>2. Trimming \subseteq Trimming' /\ Bounded
        BY <1>3, <2>3, TrimmingStays DEF TabsInv
    <3> QED BY <3>1, <3>2, BoundedStays
  <2>10. now \in Nat /\ fetches \in Nat /\ Cached(now, cache)
      BY DEF TabsInv
  <2> QED BY <1>0, <2>7, <2>8, <2>9, <2>10 DEF TabsInv
<1> QED BY <1>7, <1>8, <1>9

---------------------------------------------------------------------------
(* A flight lands.                                                         *)

LEMMA Puts ==
  ASSUME Tabs!OnDemandAssumption, NEW t \in Nat, NEW m, NEW f, NEW c \in Callers,
         Fine(caller[c], t, m, f), caller[c].pc = "serving", NEW v \in Result, v # Tabs!Failed,
         caller[c].level = "tab" => NoOlder(v, t, Lag(Tabs!Key(caller[c].q))),
         caller[c].level = "universe" => NoOlder(v, t, 1),
         NEW pc, pc = "put" \/ (pc = "evict" /\ caller[c].level = "universe")
  PROVE  /\ Fine(Tabs!WithTop(c, pc, v), t, m, f)
         /\ \A k : Leads(Tabs!WithTop(c, pc, v), k) <=> caller[c].level = "universe" /\ k = caller[c].frames.tab.key
         /\ Tabs!WithTop(c, pc, v).frames[Tabs!WithTop(c, pc, v).level].pc = pc
<1>1. PICK w : w = Tabs!WithTop(c, pc, v)
    OBVIOUS
<1>2. caller[c] \in CallerType /\ Serving(caller[c], t, m, f) /\ pc \in Place
    BY DEF Fine, Place
<1>3. /\ w \in CallerType
      /\ w.pc = caller[c].pc /\ w.q = caller[c].q /\ w.at = caller[c].at /\ w.had = caller[c].had
      /\ w.level = caller[c].level
      /\ caller[c].level = "tab" =>
           /\ w.frames.tab.key = caller[c].frames.tab.key /\ w.frames.tab.pc = pc /\ w.frames.tab.val = v
           /\ w.frames.universe = caller[c].frames.universe
      /\ caller[c].level = "universe" =>
           /\ w.frames.universe.key = caller[c].frames.universe.key
           /\ w.frames.universe.pc = pc /\ w.frames.universe.val = v
           /\ w.frames.tab = caller[c].frames.tab
    BY <1>1, <1>2, WithTopIs
<1>4. CASE caller[c].level = "tab"
  <2>1. AtTab(w, t, m, f)
      BY <1>2, <1>3, <1>4 DEF Serving, AtTab
  <2>2. Fine(w, t, m, f)
      BY <1>2, <1>3, <1>4, <2>1 DEF Fine, Serving
  <2>3. \A k : ~Leads(w, k)
      BY <1>3, <1>4, <2>2, LeadsIs
  <2> QED BY <1>1, <1>3, <1>4, <2>2, <2>3
<1>5. CASE caller[c].level = "universe"
  <2>1. AtUniverse(w, t, m, f)
      BY <1>2, <1>3, <1>5 DEF Serving, AtUniverse, Under
  <2>2. Fine(w, t, m, f)
      BY <1>2, <1>3, <1>5, <2>1 DEF Fine, Serving
  <2>3. \A k : Leads(w, k) <=> k = caller[c].frames.tab.key
      BY <1>3, <1>5, <2>2, LeadsIs
  <2> QED BY <1>1, <1>3, <1>5, <2>2, <2>3
<1> QED BY <1>2, <1>4, <1>5 DEF CallerType, Level

LEMMA LandedStep ==
  ASSUME Tabs!OnDemandAssumption, TabsInv, NEW c \in Callers, NEW v \in Result, Tabs!Landed(c, v),
         Tabs!At(c, "fetch") \/ Tabs!At(c, "combine"), NoOlder(v, now, Lag(Tabs!Top(c).key))
  PROVE  TabsInv'
<1>1. PICK k : k = Tabs!Top(c).key
    OBVIOUS
<1> DEFINE In(d) == d = c \/ (Tabs!At(d, "wait") /\ Tabs!Top(d).key = k)
<1>2. PICK g : g = [j \in DOMAIN flight \ {k} |-> flight[j]]
    OBVIOUS
<1>3. /\ flight' = g
      /\ caller' = [d \in Callers |-> IF ~In(d) THEN caller[d]
                                      ELSE IF v = Tabs!Failed THEN Tabs!Popped(d, Tabs!Failed) ELSE Tabs!WithTop(d, "put", v)]
      /\ fetches' = IF v.id > fetches THEN v.id ELSE fetches
      /\ now' = now /\ cache' = cache
    BY <1>1, <1>2 DEF Tabs!Landed
<1>4. DOMAIN g = DOMAIN flight \ {k} /\ \A j \in DOMAIN g : g[j] = flight[j]
    BY <1>2
<1>5. now \in Nat /\ fetches \in Nat /\ DOMAIN caller = Callers /\ Cached(now, cache) /\ Bounded
    BY DEF TabsInv
<1>6. /\ \A j \in DOMAIN flight : /\ flight[j] = [leader |-> flight[j].leader, ticks |-> flight[j].ticks]
                                  /\ flight[j].leader \in Callers /\ flight[j].ticks \in {0, 1}
                                  /\ Leads(caller[flight[j].leader], j)
      /\ \A d \in Callers : \A j : Leads(caller[d], j) => j \in DOMAIN flight /\ flight[j].leader = d
    BY DEF TabsInv, Flights
<1>7. Leads(caller[c], k)
    BY <1>1, ServedAt, LeadsIs DEF AtTab, AtUniverse
\* Who is in the flight returns from it, or stores what it was given.
<1>8. ASSUME NEW d \in Callers, In(d)
      PROVE  /\ Fine(caller'[d], now, cache, g)
             /\ \A j : Leads(caller'[d], j) <=> Leads(caller[d], j) /\ j # k
             /\ ~Tabs!At(d, "evict")
  <2>1. PICK pc \in {"fetch", "combine", "wait"} : Tabs!At(d, pc)
      BY <1>8
  <2>2. /\ Fine(caller[d], now, cache, flight) /\ caller[d].pc = "serving" /\ caller[d].q \in Requests
        /\ caller[d] \in CallerType /\ caller[d].at \in Nat /\ Serving(caller[d], now, cache, flight)
        /\ Tabs!Top(d).pc = pc /\ Tabs!Top(d).key = k
        /\ \/ /\ caller[d].level = "tab" /\ Tabs!Top(d) = caller[d].frames.tab
              /\ AtTab(caller[d], now, cache, flight) /\ k = Tabs!Key(caller[d].q)
           \/ /\ caller[d].level = "universe" /\ Tabs!Top(d) = caller[d].frames.universe
              /\ AtUniverse(caller[d], now, cache, flight) /\ k = Tabs!UniverseKey(caller[d].q.wallet)
      BY <1>1, <1>8, <2>1, ServedAt
  <2>3. caller[d].level = "universe" => caller[d].frames.tab.key # k
    <3>1. PICK j : j = Tabs!Key(caller[d].q)
        OBVIOUS
    <3>2. j[1] # "universe"
        BY <2>2, <3>1, KeysAre
    <3>3. caller[d].level = "universe" => k[1] = "universe"
        BY <2>2, UniverseKeysAre
    <3>4. caller[d].frames.tab.key = j
        BY <2>2, <3>1 DEF Serving
    <3> QED BY <3>2, <3>3, <3>4
  <2>4. \A j : Leads(caller[d], j) /\ j # k <=> caller[d].level = "universe" /\ j = caller[d].frames.tab.key
      BY <2>2, <2>3, LeadsIs
  <2>5. PICK w : w = caller'[d]
      OBVIOUS
  <2>6. /\ Fine(w, now, cache, flight)
        /\ \A j : Leads(w, j) <=> caller[d].level = "universe" /\ j = caller[d].frames.tab.key
        /\ w.pc = "serving" => w.frames[w.level].pc \in {"combine", "put"}
    <3>1. CASE v = Tabs!Failed
      <4>1. w = Tabs!Popped(d, v)
          BY <1>3, <1>8, <2>5, <3>1
      <4>2. NoOlder(v, caller[d].at, Tabs!Levels(caller[d].q) * Ttl) /\ NoOlder(v, now, Ttl)
          BY <3>1 DEF NoOlder
      <4>3. /\ Fine(w, now, cache, flight)
            /\ \A j : Leads(w, j) <=> caller[d].level = "universe" /\ j = caller[d].frames.tab.key
            /\ caller[d].level = "tab" => w.pc = "answering"
            /\ caller[d].level = "universe" => w.frames.tab.pc = "combine"
            /\ w.level = "tab"
          BY <1>5, <2>2, <4>1, <4>2, Pops
      <4> QED BY <2>2, <4>3
    <3>2. CASE v # Tabs!Failed
      <4>1. w = Tabs!WithTop(d, "put", v)
          BY <1>3, <1>8, <2>5, <3>2
      <4>2. caller[d].level = "tab" => NoOlder(v, now, Lag(Tabs!Key(caller[d].q)))
          BY <1>1, <2>2
      <4>3. caller[d].level = "universe" => NoOlder(v, now, 1)
        <5>1. caller[d].level = "universe" => Lag(k) = 1
            BY <2>2, UniverseKeysAre DEF Lag
        <5> QED BY <1>1, <5>1
      <4> QED BY <1>5, <2>2, <3>2, <4>1, <4>2, <4>3, Puts
    <3> QED BY <3>1, <3>2
  <2>7. \A j \in DOMAIN flight : Leads(w, j) \/ Waits(w, j) => j \in DOMAIN g /\ g[j] = flight[j]
    <3>1. \A j : ~Waits(w, j)
        BY <2>6 DEF Waits
    <3>2. \A j : Leads(w, j) => j # k
        BY <2>3, <2>6
    <3> QED BY <1>4, <3>1, <3>2
  <2>8. Fine(w, now, cache, g)
      BY <1>5, <2>6, <2>7, Stays
  <2> QED BY <2>2, <2>4, <2>5, <2>6, <2>8 DEF Tabs!At
<1>9. ASSUME NEW d \in Callers, ~In(d)
      PROVE  /\ caller'[d] = caller[d]
             /\ Fine(caller'[d], now, cache, g)
             /\ \A j : Leads(caller'[d], j) <=> Leads(caller[d], j) /\ j # k
  <2>1. caller'[d] = caller[d] /\ Fine(caller[d], now, cache, flight)
      BY <1>3, <1>9 DEF TabsInv
  <2>2. ~Leads(caller[d], k)
      BY <1>6, <1>7, <1>9
  <2>3. ~Waits(caller[d], k)
      BY <1>9 DEF Waits, Tabs!At, Tabs!Top
  <2>4. \A j \in DOMAIN flight : Leads(caller[d], j) \/ Waits(caller[d], j) => j \in DOMAIN g /\ g[j] = flight[j]
      BY <1>4, <2>2, <2>3
  <2>5. Fine(caller[d], now, cache, g)
      BY <1>5, <2>1, <2>4, Stays
  <2> QED BY <2>1, <2>2, <2>5
<1>10. \A d \in Callers : Fine(caller'[d], now, cache, g) /\ \A j : Leads(caller'[d], j) <=> Leads(caller[d], j) /\ j # k
    BY <1>8, <1>9
<1>11. Flights(caller', flight')
  <2>1. \A j \in DOMAIN g : /\ g[j] = [leader |-> g[j].leader, ticks |-> g[j].ticks]
                           /\ g[j].leader \in Callers /\ g[j].ticks \in {0, 1} /\ Leads(caller'[g[j].leader], j)
      BY <1>4, <1>6, <1>10
  <2>2. \A d \in Callers : \A j : Leads(caller'[d], j) => j \in DOMAIN g /\ g[j].leader = d
      BY <1>4, <1>6, <1>10
  <2> QED BY <1>3, <2>1, <2>2 DEF Flights
<1>12. Bounded'
  <2>1. Tabs!Universes' = Tabs!Universes
      BY <1>3 DEF Tabs!Universes
  <2>2. Trimming \subseteq Trimming'
    <3>1. SUFFICES ASSUME NEW d \in Trimming PROVE d \in Trimming'
        OBVIOUS
    <3>2. d \in Callers /\ Tabs!At(d, "evict")
        BY DEF Trimming
    <3>3. caller'[d] = caller[d]
        BY <1>8, <1>9, <3>2
    <3> QED BY <3>2, <3>3 DEF Trimming, Tabs!At, Tabs!Top
  <2> QED BY <1>5, <2>1, <2>2, BoundedStays
<1>13. fetches' \in Nat
    BY <1>3, <1>5 DEF Result, Value, Tabs!Failed
<1>14. DOMAIN caller' = Callers
    BY <1>3
<1> HIDE DEF In
<1> QED BY <1>3, <1>5, <1>10, <1>11, <1>12, <1>13, <1>14 DEF TabsInv

LEMMA ValueIs ==
  ASSUME TabsInv, NEW at \in Nat, NEW whole \in BOOLEAN
  PROVE  Tabs!Value(at, whole) \in Result /\ Tabs!Value(at, whole).at = at
<1>1. fetches + 1 \in Nat
    BY DEF TabsInv
<1> QED BY <1>1 DEF Tabs!Value, Value, Result

\* What is fetched now, or was by who asked, is not too old.
LEMMA Lands ==
  ASSUME Tabs!OnDemandAssumption, TabsInv, NEW c \in Callers, NEW v, Tabs!Landed(c, v),
         Tabs!At(c, "fetch") \/ Tabs!At(c, "combine"),
         \/ v = Tabs!Failed
         \/ \E at \in {now, caller[c].at}, whole \in BOOLEAN : v = Tabs!Value(at, whole)
  PROVE  TabsInv'
<1>1. now \in Nat /\ caller[c].at \in Nat /\ now <= caller[c].at + 1
    BY ServedAt DEF Serving
<1>2. Lag(Tabs!Top(c).key) \in Nat /\ Lag(Tabs!Top(c).key) >= 1
    BY TimeIs DEF Lag
<1>3. v \in Result /\ NoOlder(v, now, Lag(Tabs!Top(c).key))
  <2>1. CASE v = Tabs!Failed
      BY <2>1, ResultsAre DEF NoOlder
  <2>2. CASE \E at \in {now, caller[c].at}, whole \in BOOLEAN : v = Tabs!Value(at, whole)
    <3>1. PICK at \in {now, caller[c].at}, whole \in BOOLEAN : v = Tabs!Value(at, whole)
        BY <2>2
    <3>2. v \in Result /\ v.at = at
        BY <1>1, <3>1, ValueIs
    <3>3. now - v.at <= Lag(Tabs!Top(c).key)
        BY <1>1, <1>2, <3>2
    <3> QED BY <3>2, <3>3 DEF NoOlder
  <2> QED BY <2>1, <2>2
<1> QED BY <1>3, LandedStep

LEMMA FetchBalancesStep ==
  ASSUME Tabs!OnDemandAssumption, TabsInv, NEW c \in Callers, Tabs!FetchBalances(c)
  PROVE  TabsInv'
<1>1. PICK answered \in SUBSET ({"default"} \cup Dexes), spot \in BOOLEAN :
        Tabs!Landed(c, IF ~Tabs!PerpAnswers(answered) /\ ~spot THEN Tabs!Failed
                       ELSE Tabs!Value(now, Tabs!PerpAnswers(answered) /\ spot))
    BY DEF Tabs!FetchBalances
<1>2. Tabs!At(c, "fetch") /\ (Tabs!PerpAnswers(answered) /\ spot) \in BOOLEAN
    BY DEF Tabs!FetchBalances
<1> QED BY <1>1, <1>2, Lands

LEMMA FetchDexesStep ==
  ASSUME Tabs!OnDemandAssumption, TabsInv, NEW c \in Callers, Tabs!FetchDexes(c)
  PROVE  TabsInv'
<1>1. PICK answered \in SUBSET ({"default"} \cup Dexes) :
        Tabs!Landed(c, IF answered = {} THEN Tabs!Failed ELSE Tabs!Value(now, TRUE))
    BY DEF Tabs!FetchDexes
<1>2. Tabs!At(c, "fetch")
    BY DEF Tabs!FetchDexes
<1> QED BY <1>1, <1>2, Lands

LEMMA FetchRowsStep ==
  ASSUME Tabs!OnDemandAssumption, TabsInv, NEW c \in Callers, Tabs!FetchRows(c)
  PROVE  TabsInv'
<1>1. PICK ok \in BOOLEAN : Tabs!Landed(c, IF ok THEN Tabs!Value(now, TRUE) ELSE Tabs!Failed)
    BY DEF Tabs!FetchRows
<1>2. Tabs!At(c, "fetch")
    BY DEF Tabs!FetchRows
<1> QED BY <1>1, <1>2, Lands

LEMMA FetchUniverseStep ==
  ASSUME Tabs!OnDemandAssumption, TabsInv, NEW c \in Callers, Tabs!FetchUniverse(c)
  PROVE  TabsInv'
<1>1. PICK ok \in BOOLEAN : Tabs!Landed(c, IF ok THEN Tabs!Value(caller[c].at, TRUE) ELSE Tabs!Failed)
    BY DEF Tabs!FetchUniverse
<1>2. Tabs!At(c, "fetch")
    BY DEF Tabs!FetchUniverse
<1> QED BY <1>1, <1>2, Lands

LEMMA FetchAllStep ==
  ASSUME Tabs!OnDemandAssumption, TabsInv, NEW c \in Callers, Tabs!FetchPerformanceAll(c)
  PROVE  TabsInv'
<1>1. PICK portfolio \in BOOLEAN, ref \in BOOLEAN :
        Tabs!Landed(c, IF portfolio \/ (ref /\ caller[c].q.mode /= "series") THEN Tabs!Value(caller[c].at, TRUE)
                       ELSE Tabs!Failed)
    BY DEF Tabs!FetchPerformanceAll
<1>2. Tabs!At(c, "fetch")
    BY DEF Tabs!FetchPerformanceAll
<1> QED BY <1>1, <1>2, Lands

\* What is made of a universe is as old as the universe.
LEMMA Combines ==
  ASSUME Tabs!OnDemandAssumption, TabsInv, NEW c \in Callers, Tabs!At(c, "combine"),
         Tabs!Top(c).val # Tabs!Failed, NEW v, v = Tabs!Value(Tabs!Top(c).val.at, TRUE), Tabs!Landed(c, v)
  PROVE  TabsInv'
<1>1. PICK u : u = Tabs!Top(c).val
    OBVIOUS
<1>2. /\ caller[c].level = "tab" /\ Tabs!Top(c) = caller[c].frames.tab /\ Tabs!Top(c).pc = "combine"
      /\ AtTab(caller[c], now, cache, flight) /\ Tabs!Top(c).key = Tabs!Key(caller[c].q)
      /\ u \in Result /\ caller[c].q \in Requests /\ now \in Nat
    BY <1>1, ServedAt DEF AtUniverse
<1>3. u \in Value /\ now - u.at <= Ttl + 1 /\ u.at \in Nat /\ Tabs!ReadsUniverse(caller[c].q)
    BY <1>1, <1>2, ResultsAre DEF AtTab, NoOlder
<1>4. Lag(Tabs!Top(c).key) = Ttl + 1
    BY <1>2, <1>3, LevelsAre
<1>5. v \in Result /\ v.at = u.at
    BY <1>1, <1>3, ValueIs
<1>6. NoOlder(v, now, Lag(Tabs!Top(c).key))
    BY <1>3, <1>4, <1>5 DEF NoOlder
<1> QED BY <1>5, <1>6, LandedStep

LEMMA CombineActivityStep ==
  ASSUME Tabs!OnDemandAssumption, TabsInv, NEW c \in Callers, Tabs!CombineActivity(c)
  PROVE  TabsInv'
<1>1. /\ Tabs!At(c, "combine")
      /\ Tabs!Landed(c, IF Tabs!Top(c).val = Tabs!Failed THEN Tabs!Failed ELSE Tabs!Value(Tabs!Top(c).val.at, TRUE))
    BY DEF Tabs!CombineActivity
<1>2. CASE Tabs!Top(c).val = Tabs!Failed
    BY <1>1, <1>2, Lands
<1>3. CASE Tabs!Top(c).val # Tabs!Failed
    BY <1>1, <1>3, Combines
<1> QED BY <1>2, <1>3

LEMMA CombinePerformanceStep ==
  ASSUME Tabs!OnDemandAssumption, TabsInv, NEW c \in Callers, Tabs!CombinePerformance(c)
  PROVE  TabsInv'
<1>1. Tabs!At(c, "combine")
    BY DEF Tabs!CombinePerformance
<1>2. PICK portfolio \in BOOLEAN :
        Tabs!Landed(c, IF Tabs!Top(c).val = Tabs!Failed /\ ~portfolio THEN Tabs!Failed
                       ELSE IF Tabs!Top(c).val = Tabs!Failed \/ ~portfolio THEN Tabs!Value(caller[c].at, FALSE)
                       ELSE Tabs!Value(Tabs!Top(c).val.at, TRUE))
    BY DEF Tabs!CombinePerformance
<1>3. CASE Tabs!Top(c).val = Tabs!Failed \/ ~portfolio
    BY <1>1, <1>2, <1>3, Lands
<1>4. CASE Tabs!Top(c).val # Tabs!Failed /\ portfolio
    BY <1>1, <1>2, <1>4, Combines
<1> QED BY <1>3, <1>4

---------------------------------------------------------------------------
(* The cache, and the clock.                                               *)

LEMMA PutStep ==
  ASSUME Tabs!OnDemandAssumption, TabsInv, NEW c \in Callers, Tabs!Put(c)
  PROVE  TabsInv'
<1>0. Tabs!At(c, "put") /\ UNCHANGED <<now, fetches, flight>>
    BY DEF Tabs!Put
<1>1. PICK k : k = Tabs!Top(c).key
    OBVIOUS
<1>2. PICK v : v = Tabs!Top(c).val
    OBVIOUS
<1>3. /\ now \in Nat /\ DOMAIN caller = Callers
      /\ caller[c] \in CallerType /\ caller[c].pc = "serving" /\ Fine(caller[c], now, cache, flight)
      /\ Serving(caller[c], now, cache, flight) /\ caller[c].q \in Requests /\ caller[c].at \in Nat
      /\ \/ /\ caller[c].level = "tab" /\ Tabs!Top(c) = caller[c].frames.tab
            /\ AtTab(caller[c], now, cache, flight) /\ k = Tabs!Key(caller[c].q)
         \/ /\ caller[c].level = "universe" /\ Tabs!Top(c) = caller[c].frames.universe
            /\ AtUniverse(caller[c], now, cache, flight) /\ k = Tabs!UniverseKey(caller[c].q.wallet)
      /\ Tabs!Top(c).pc = "put" /\ v \in Result
    BY <1>0, <1>1, <1>2, ServedAt
<1>4. ~Tabs!At(c, "evict")
    BY <1>3 DEF Tabs!At
<1>5. \A j : Leads(caller[c], j) <=> caller[c].level = "universe" /\ j = caller[c].frames.tab.key
    BY <1>3, LeadsIs
<1>6. k[1] = "universe" <=> caller[c].level = "universe"
  <2>1. CASE caller[c].level = "tab"
      BY <1>3, <2>1, KeysAre
  <2>2. CASE caller[c].level = "universe"
      BY <1>3, <2>2, UniverseKeysAre
  <2> QED BY <1>3, <2>1, <2>2
<1>7. Lag(k) \in Nat /\ (caller[c].level = "universe" => Lag(k) = 1)
  <2>1. caller[c].level = "universe" => ~OfUniverse(k)
      BY <1>3, UniverseKeysAre
  <2> QED BY <2>1, TimeIs DEF Lag
<1>8. v # Tabs!Failed /\ v \in Value /\ v.at \in Nat /\ now - v.at <= Lag(k)
  <2>1. v # Tabs!Failed /\ NoOlder(v, now, Lag(k))
      BY <1>1, <1>2, <1>3, <1>7 DEF AtTab, AtUniverse
  <2> QED BY <1>3, <2>1, ResultsAre DEF NoOlder
<1>9. CASE Tabs!Fresh(k) /\ k[1] \in Tabs!Slices
  <2>1. PICK w : w = Tabs!Answered(c, "panic", Tabs!Failed)
      OBVIOUS
  <2>2. caller' = [caller EXCEPT ![c] = w] /\ cache' = cache
      BY <1>1, <1>2, <1>9, <2>1 DEF Tabs!Put
  <2>3. w \in CallerType /\ w.pc = "done" /\ w.answer.status = "panic"
      BY <1>3, <2>1, AnsweredIs, ResultsAre
  <2>4. Fine(w, now, cache, flight) /\ \A j : ~Leads(w, j)
      BY <2>3 DEF Fine, Answered, Leads
  <2>5. \A j : ~Leads(caller[c], j)
      BY <1>5, <1>6, <1>9 DEF Tabs!Slices
  <2> QED BY <1>0, <1>4, <2>2, <2>4, <2>5, CallerStep
<1>10. CASE ~(Tabs!Fresh(k) /\ k[1] \in Tabs!Slices)
  <2>1. PICK w : w = IF k[1] = "universe" THEN Tabs!WithTop(c, "evict", v) ELSE Tabs!Popped(c, v)
      OBVIOUS
  <2>2. PICK m : m = IF Tabs!Fresh(k) /\ cache[k].val.id = v.id THEN cache ELSE Tabs!Set(cache, k, v)
      OBVIOUS
  <2>3. caller' = [caller EXCEPT ![c] = w] /\ cache' = m
      BY <1>1, <1>2, <1>10, <2>1, <2>2 DEF Tabs!Put
  <2>4. /\ \A j \in DOMAIN cache : j \in DOMAIN m
        /\ \A j \in DOMAIN m : (j \in DOMAIN cache /\ m[j] = cache[j]) \/ (j = k /\ m[j] = [val |-> v, set |-> now])
      BY <2>2 DEF Tabs!Set, Tabs!Written
  <2>5. \A j \in DOMAIN m : (j \in DOMAIN cache /\ m[j] = cache[j]) \/ m[j].set = now
      BY <2>4
  <2>6. Fine(w, now, cache, flight) /\ \A j : Leads(w, j) <=> Leads(caller[c], j)
    <3>1. CASE caller[c].level = "tab"
      <4>1. w = Tabs!Popped(c, v)
          BY <1>6, <2>1, <3>1
      <4>2. NoOlder(v, caller[c].at, Tabs!Levels(caller[c].q) * Ttl)
        <5>1. k = Tabs!Key(caller[c].q)
            BY <1>3, <3>1
        <5>2. Lag(k) <= Tabs!Levels(caller[c].q) * Ttl /\ Tabs!Levels(caller[c].q) * Ttl \in Nat
            BY <1>3, <5>1, LevelsAre
        <5>3. caller[c].at <= now
            BY <1>3 DEF Serving
        <5> QED BY <1>3, <1>7, <1>8, <5>2, <5>3 DEF NoOlder
      <4> QED BY <1>3, <1>5, <3>1, <4>1, <4>2, Pops
    <3>2. CASE caller[c].level = "universe"
      <4>1. w = Tabs!WithTop(c, "evict", v)
          BY <1>6, <2>1, <3>2
      <4>2. NoOlder(v, now, 1)
          BY <1>7, <1>8, <3>2 DEF NoOlder
      <4> QED BY <1>3, <1>5, <1>8, <3>2, <4>1, <4>2, Puts
    <3> QED BY <1>3, <3>1, <3>2
  <2>7. Fine(w, now, m, flight)
      BY <1>3, <2>4, <2>5, <2>6, Stays
  <2>8. DOMAIN caller' = Callers /\ \A d \in Callers : Fine(caller'[d], now', cache', flight')
      BY <1>0, <2>3, <2>4, <2>5, <2>7, OneMoves
  <2>9. Cached(now, m)
    <3>1. \A j \in DOMAIN cache : /\ cache[j] = [val |-> cache[j].val, set |-> cache[j].set]
                      /\ cache[j].val \in Value /\ cache[j].set \in Nat /\ cache[j].set <= now
                      /\ cache[j].set - cache[j].val.at <= Lag(j)
        BY DEF TabsInv, Cached
    <3>2. SUFFICES ASSUME NEW j \in DOMAIN m
                   PROVE  /\ m[j] = [val |-> m[j].val, set |-> m[j].set]
                          /\ m[j].val \in Value /\ m[j].set \in Nat /\ m[j].set <= now /\ m[j].set - m[j].val.at <= Lag(j)
        BY DEF Cached
    <3>3. CASE j \in DOMAIN cache /\ m[j] = cache[j]
        BY <3>1, <3>3
    <3>4. CASE j = k /\ m[j] = [val |-> v, set |-> now]
        BY <1>3, <1>8, <3>4
    <3> QED BY <2>4, <3>3, <3>4
  <2>10. Flights(caller', flight')
      BY <1>0, <1>3, <2>3, <2>6, FlightsStay DEF TabsInv
  <2>11. Bounded'
    <3>1. Bounded /\ Trimming \subseteq Trimming'
        BY <1>3, <1>4, <2>3, TrimmingStays DEF TabsInv
    <3>2. CASE k[1] # "universe"
      <4>1. Tabs!Universes' \subseteq Tabs!Universes
          BY <2>3, <2>4, <3>2 DEF Tabs!Universes
      <4> QED BY <3>1, <4>1, BoundedStays
    <3>3. CASE k[1] = "universe"
      <4>1. Tabs!Universes' \subseteq Tabs!Universes \cup {k}
          BY <2>3, <2>4 DEF Tabs!Universes
      <4>2. c \notin Trimming /\ Trimming \cup {c} \subseteq Trimming'
        <5>1. w.frames[w.level].pc = "evict" /\ w.pc = "serving"
          <6>1. w = Tabs!WithTop(c, "evict", v) /\ caller[c].level = "universe" /\ "evict" \in Place
              BY <1>6, <2>1, <3>3 DEF Place
          <6> QED BY <1>3, <6>1, WithTopIs
        <5>2. caller'[c] = w
            BY <1>3, <2>3
        <5>3. c \in Trimming'
            BY <5>1, <5>2 DEF Trimming, Tabs!At, Tabs!Top
        <5> QED BY <1>4, <3>1, <5>3 DEF Trimming
      <4>3. IsFiniteSet(Trimming) /\ Cardinality(Trimming) \in Nat /\ IsFiniteSet(Callers)
          BY TrimmingIsFinite
      <4>4. IsFiniteSet(Trimming') /\ Cardinality(Trimming') \in Nat
        <5>1. Trimming' \subseteq Callers
            BY DEF Trimming
        <5> QED BY <4>3, <5>1, FS_Subset, FS_CardinalityType
      <4>5. Cardinality(Trimming') >= Cardinality(Trimming) + 1
        <5>1. IsFiniteSet(Trimming \cup {c}) /\ Cardinality(Trimming \cup {c}) = Cardinality(Trimming) + 1
            BY <4>2, <4>3, FS_AddElement
        <5>2. Cardinality(Trimming \cup {c}) <= Cardinality(Trimming')
            BY <4>2, <4>4, FS_Subset
        <5> QED BY <4>3, <4>4, <5>1, <5>2
      <4>6. IsFiniteSet(Tabs!Universes) /\ Cardinality(Tabs!Universes) <= MaxUniverses + Cardinality(Trimming)
          BY <3>1 DEF Bounded
      <4>7. /\ IsFiniteSet(Tabs!Universes \cup {k}) /\ Cardinality(Tabs!Universes \cup {k}) <= Cardinality(Tabs!Universes) + 1
            /\ Cardinality(Tabs!Universes) \in Nat /\ Cardinality(Tabs!Universes \cup {k}) \in Nat
          BY <4>6, FS_AddElement, FS_CardinalityType
      <4>8. IsFiniteSet(Tabs!Universes') /\ Cardinality(Tabs!Universes') <= Cardinality(Tabs!Universes \cup {k})
            /\ Cardinality(Tabs!Universes') \in Nat
          BY <4>1, <4>7, FS_Subset, FS_CardinalityType
      <4>9. Cardinality(Tabs!Universes') <= MaxUniverses + Cardinality(Trimming')
          BY <4>3, <4>4, <4>5, <4>6, <4>7, <4>8, TimeIs
      <4> QED BY <4>8, <4>9 DEF Bounded
    <3> QED BY <3>2, <3>3
  <2>12. now \in Nat /\ fetches \in Nat
      BY DEF TabsInv
  <2> QED BY <1>0, <2>3, <2>8, <2>9, <2>10, <2>11, <2>12 DEF TabsInv
<1> QED BY <1>9, <1>10

LEMMA EvictStep ==
  ASSUME Tabs!OnDemandAssumption, TabsInv, NEW c \in Callers, Tabs!Evict(c)
  PROVE  TabsInv'
<1>0. Tabs!At(c, "evict") /\ UNCHANGED <<now, fetches, flight>>
    BY DEF Tabs!Evict
<1>1. PICK v : v = Tabs!Top(c).val
    OBVIOUS
<1>2. /\ now \in Nat /\ fetches \in Nat /\ DOMAIN caller = Callers
      /\ caller[c] \in CallerType /\ caller[c].pc = "serving" /\ Fine(caller[c], now, cache, flight)
      /\ caller[c].level = "universe" /\ Tabs!Top(c) = caller[c].frames.universe
      /\ AtUniverse(caller[c], now, cache, flight) /\ caller[c].frames.universe.pc = "evict" /\ v \in Result
    BY <1>0, <1>1, ServedAt DEF AtTab
<1> DEFINE Without(gone) ==
      /\ DOMAIN cache' = DOMAIN cache \ gone /\ \A j \in DOMAIN cache' : cache'[j] = cache[j]
      /\ Cardinality(Tabs!Universes) > MaxUniverses =>
           Tabs!Overdue \subseteq gone /\ Cardinality((Tabs!Universes \ Tabs!Overdue) \ gone) <= MaxUniverses
<1>3. \E gone \in SUBSET Tabs!Universes : Without(gone)
  <2>1. CASE Tabs!Cardinality(Tabs!Universes) <= MaxUniverses
    <3>1. cache' = cache
        BY <2>1 DEF Tabs!Evict
    <3>2. DOMAIN cache' = DOMAIN cache \ {} /\ \A j \in DOMAIN cache' : cache'[j] = cache[j]
        BY <3>1
    <3>3. ~(Cardinality(Tabs!Universes) > MaxUniverses)
      <4>1. Cardinality(Tabs!Universes) \in Nat /\ Cardinality(Tabs!Universes) <= MaxUniverses
          BY <2>1, Counting, FS_CardinalityType DEF TabsInv, Bounded
      <4> QED BY <4>1, TimeIs
    <3>4. Without({})
        BY <3>2, <3>3
    <3> HIDE DEF Without
    <3> QED BY <3>4
  <2>2. CASE ~(Tabs!Cardinality(Tabs!Universes) <= MaxUniverses)
    <3>1. PICK gone \in SUBSET Tabs!Universes : Tabs!Evicted(gone) /\ cache' = [j \in DOMAIN cache \ gone |-> cache[j]]
        BY <2>2 DEF Tabs!Evict
    <3>2. PICK left : left = Tabs!Universes \ Tabs!Overdue
        OBVIOUS
    <3>3. Tabs!Overdue \subseteq gone /\ Cardinality(left \ gone) = IF Cardinality(left) > MaxUniverses THEN MaxUniverses ELSE Cardinality(left)
        BY <3>1, <3>2, Counting DEF Tabs!Evicted
    <3>4. Cardinality(left) \in Nat
        BY <3>2, FS_Subset, FS_CardinalityType DEF TabsInv, Bounded
    <3>5. Cardinality(left \ gone) <= MaxUniverses
        BY <3>3, <3>4, TimeIs
    <3>6. Without(gone)
        BY <3>1, <3>2, <3>3, <3>5
    <3> HIDE DEF Without
    <3> QED BY <3>6
  <2> QED BY <2>1, <2>2
<1> PICK gone \in SUBSET Tabs!Universes : Without(gone)
    BY <1>3
<1>4. PICK w : w = Tabs!Popped(c, v)
    OBVIOUS
<1>5. caller' = [caller EXCEPT ![c] = w]
    BY <1>1, <1>4 DEF Tabs!Evict
<1>6. DOMAIN cache' = DOMAIN cache \ gone /\ \A j \in DOMAIN cache' : j \in DOMAIN cache /\ cache'[j] = cache[j]
    OBVIOUS
<1>7. \A j \in DOMAIN cache : j[1] # "universe" => j \in DOMAIN cache'
    BY <1>6 DEF Tabs!Universes
<1>8. Fine(w, now, cache, flight) /\ \A j : Leads(w, j) <=> Leads(caller[c], j)
  <2>1. NoOlder(v, now, Ttl)
    <3>1. v # Tabs!Failed /\ NoOlder(v, now, 1) /\ v.at \in Nat
        BY <1>1, <1>2, ResultsAre DEF AtUniverse
    <3> QED BY <1>2, <3>1, TimeIs DEF NoOlder
  <2>2. \A j : Leads(caller[c], j) <=> j = caller[c].frames.tab.key
      BY <1>2, LeadsIs
  <2> QED BY <1>2, <1>4, <2>1, <2>2, Pops
<1>9. Fine(w, now, cache', flight')
    BY <1>0, <1>2, <1>6, <1>7, <1>8, Stays
<1>10. DOMAIN caller' = Callers /\ \A d \in Callers : Fine(caller'[d], now', cache', flight')
    BY <1>0, <1>5, <1>6, <1>7, <1>9, OneMoves
<1>11. Cached(now', cache')
    BY <1>0, <1>6 DEF TabsInv, Cached
<1>12. Flights(caller', flight')
    BY <1>0, <1>2, <1>5, <1>8, FlightsStay DEF TabsInv
<1>13. Bounded'
  <2>1. Tabs!Universes' = Tabs!Universes \ gone
      BY <1>6 DEF Tabs!Universes
  <2>2. /\ IsFiniteSet(Tabs!Universes) /\ IsFiniteSet(Tabs!Universes') /\ Cardinality(Tabs!Universes) \in Nat
        /\ Cardinality(Tabs!Universes') \in Nat /\ Cardinality(Tabs!Universes') <= Cardinality(Tabs!Universes)
      BY <2>1, FS_Subset, FS_CardinalityType DEF TabsInv, Bounded
  <2>3. Cardinality(Tabs!Universes') <= MaxUniverses
    <3>1. CASE Cardinality(Tabs!Universes) > MaxUniverses
      <4>1. Tabs!Universes' = (Tabs!Universes \ Tabs!Overdue) \ gone
          BY <2>1, <3>1
      <4> QED BY <3>1, <4>1
    <3>2. CASE ~(Cardinality(Tabs!Universes) > MaxUniverses)
        BY <2>2, <3>2, TimeIs
    <3> QED BY <3>1, <3>2
  <2>4. Cardinality(Trimming') \in Nat
    <3>1. Trimming' \subseteq Callers /\ IsFiniteSet(Callers)
        BY TrimmingIsFinite DEF Trimming
    <3> QED BY <3>1, FS_Subset, FS_CardinalityType
  <2>5. Cardinality(Tabs!Universes') <= MaxUniverses + Cardinality(Trimming')
      BY <2>2, <2>3, <2>4, TimeIs
  <2> QED BY <2>2, <2>5 DEF Bounded
<1> QED BY <1>0, <1>2, <1>10, <1>11, <1>12, <1>13 DEF TabsInv

LEMMA TickStep ==
  ASSUME Tabs!OnDemandAssumption, TabsInv, Tabs!Tick
  PROVE  TabsInv'
<1>1. /\ \A c \in Callers : caller[c].pc = "serving" => Tabs!Top(c).pc \in {"fetch", "wait", "combine"}
      /\ \A c \in Callers : caller[c].pc # "answering"
      /\ \A k \in DOMAIN flight : flight[k].ticks = 0
      /\ now' = now + 1 /\ fetches' = fetches /\ cache' = cache /\ caller' = caller
    BY DEF Tabs!Tick
<1>2. PICK g : g = [k \in DOMAIN flight |-> [flight[k] EXCEPT !.ticks = 1]]
    OBVIOUS
<1>3. flight' = g
    BY <1>2 DEF Tabs!Tick
<1>4. now \in Nat /\ fetches \in Nat /\ DOMAIN caller = Callers /\ Bounded
    BY DEF TabsInv
<1>5. /\ \A j \in DOMAIN flight : /\ flight[j] = [leader |-> flight[j].leader, ticks |-> flight[j].ticks]
                                  /\ flight[j].leader \in Callers /\ flight[j].ticks \in {0, 1}
                                  /\ Leads(caller[flight[j].leader], j)
      /\ \A d \in Callers : \A j : Leads(caller[d], j) => j \in DOMAIN flight /\ flight[j].leader = d
    BY DEF TabsInv, Flights
<1>6. DOMAIN g = DOMAIN flight /\ \A k \in DOMAIN g : g[k] = [leader |-> flight[k].leader, ticks |-> 1]
  <2>1. DOMAIN g = DOMAIN flight /\ \A k \in DOMAIN g : g[k] = [flight[k] EXCEPT !.ticks = 1]
      BY <1>2
  <2>2. ASSUME NEW k \in DOMAIN g PROVE g[k] = [leader |-> flight[k].leader, ticks |-> 1]
    <3>1. PICK e : e = flight[k]
        OBVIOUS
    <3>2. e = [leader |-> e.leader, ticks |-> e.ticks] /\ g[k] = [e EXCEPT !.ticks = 1]
        BY <1>5, <2>1, <3>1
    <3>3. [e EXCEPT !.ticks = 1] = [leader |-> e.leader, ticks |-> 1]
        BY ONLY <3>2
    <3> QED BY <3>1, <3>2, <3>3
  <2> QED BY <2>1, <2>2
<1>7. ASSUME NEW c \in Callers PROVE Fine(caller[c], now + 1, cache, g)
  <2>1. Fine(caller[c], now, cache, flight)
      BY DEF TabsInv
  <2>2. CASE caller[c].pc # "serving"
      BY <1>1, <2>1, <2>2 DEF Fine
  <2>3. CASE caller[c].pc = "serving"
    <3>1. PICK pc \in {"fetch", "wait", "combine"} : Tabs!At(c, pc)
        BY <1>1, <2>3 DEF Tabs!At
    <3>2. /\ caller[c] \in CallerType /\ Serving(caller[c], now, cache, flight) /\ caller[c].at \in Nat
          /\ Tabs!Top(c).pc = pc
          /\ \/ /\ caller[c].level = "tab" /\ Tabs!Top(c) = caller[c].frames.tab
                /\ AtTab(caller[c], now, cache, flight)
             \/ /\ caller[c].level = "universe" /\ Tabs!Top(c) = caller[c].frames.universe
                /\ AtUniverse(caller[c], now, cache, flight)
        BY <3>1, ServedAt
    <3>3. Under(caller[c].frames.tab.key, caller[c], now, flight)
        BY <3>2 DEF AtTab, AtUniverse
    <3>4. caller[c].at = now
        BY <1>1, <1>4, <3>2, <3>3 DEF Under, Serving
    <3>5. Under(caller[c].frames.tab.key, caller[c], now + 1, g) /\ g[caller[c].frames.tab.key].ticks = 1
        BY <1>6, <3>3 DEF Under
    <3>6. CASE caller[c].level = "tab"
      <4>1. AtTab(caller[c], now, cache, flight) /\ caller[c].frames.tab.pc \in {"fetch", "wait", "combine"}
          BY <3>2, <3>6
      <4>2. ASSUME caller[c].frames.tab.pc = "combine" PROVE NoOlder(caller[c].frames.tab.val, now + 1, Ttl + 1)
        <5>1. PICK v : v = caller[c].frames.tab.val
            OBVIOUS
        <5>2. flight[caller[c].frames.tab.key].ticks = 0
            BY <1>1, <3>3 DEF Under
        <5>3. NoOlder(v, now, Ttl) /\ v \in Result
            BY <3>2, <4>1, <4>2, <5>1, <5>2 DEF AtTab, CallerType, FrameType
        <5>4. NoOlder(v, now + 1, Ttl + 1)
            BY <1>4, <5>3, TimeIs, ResultsAre DEF NoOlder
        <5> QED BY <5>1, <5>4
      <4>3. AtTab(caller[c], now + 1, cache, g)
          BY <3>5, <4>1, <4>2 DEF AtTab
      <4> QED BY <1>4, <2>3, <3>2, <3>4, <3>6, <4>3 DEF Fine, Serving
    <3>7. CASE caller[c].level = "universe"
      <4>1. AtUniverse(caller[c], now, cache, flight) /\ caller[c].frames.universe.pc \in {"fetch", "wait", "combine"}
          BY <3>2, <3>7
      <4>2. AtUniverse(caller[c], now + 1, cache, g)
          BY <1>6, <3>5, <4>1 DEF AtUniverse
      <4> QED BY <1>4, <2>3, <3>2, <3>4, <3>7, <4>2 DEF Fine, Serving
    <3> QED BY <3>2, <3>6, <3>7
  <2> QED BY <2>2, <2>3
<1>8. Cached(now + 1, cache)
    BY <1>4 DEF TabsInv, Cached
<1>9. Flights(caller, g)
  <2>1. \A k \in DOMAIN g : /\ g[k] = [leader |-> g[k].leader, ticks |-> g[k].ticks]
                           /\ g[k].leader \in Callers /\ g[k].ticks \in {0, 1} /\ Leads(caller[g[k].leader], k)
      BY <1>5, <1>6
  <2>2. \A d \in Callers : \A k : Leads(caller[d], k) => k \in DOMAIN g /\ g[k].leader = d
      BY <1>5, <1>6
  <2> QED BY <2>1, <2>2 DEF Flights
<1>10. Bounded'
  <2>1. Tabs!Universes' = Tabs!Universes /\ Trimming' = Trimming
      BY <1>1 DEF Tabs!Universes, Trimming, Tabs!At, Tabs!Top
  <2> QED BY <1>4, <2>1, BoundedStays
<1> QED BY <1>1, <1>3, <1>4, <1>7, <1>8, <1>9, <1>10 DEF TabsInv

---------------------------------------------------------------------------
LEMMA TabsInit ==
  ASSUME Tabs!OnDemandAssumption, Tabs!Init
  PROVE  TabsInv
<1>1. now = 0 /\ fetches = 0 /\ DOMAIN cache = {} /\ DOMAIN flight = {} /\ caller = [c \in Callers |-> Tabs!Idle]
    BY DEF Tabs!Init
<1>2. \A c \in Callers : Fine(caller[c], now, cache, flight) /\ \A k : ~Leads(caller[c], k)
    BY <1>1, IdleIs DEF Fine, Leads
<1>3. Flights(caller, flight) /\ Cached(now, cache)
    BY <1>1, <1>2 DEF Flights, Cached
<1>4. Bounded
  <2>1. Tabs!Universes = {}
      BY <1>1 DEF Tabs!Universes
  <2> QED BY <2>1, TrimmingIsFinite, TimeIs, FS_EmptySet DEF Bounded
<1> QED BY <1>1, <1>2, <1>3, <1>4 DEF TabsInv

LEMMA TabsStep ==
  ASSUME Tabs!OnDemandAssumption, TabsInv, [Tabs!Next]_(Tabs!odVars)
  PROVE  TabsInv'
<1>1. CASE Tabs!Tick
    BY <1>1, TickStep
<1>2. ASSUME NEW c \in Callers, NEW q \in Requests, Tabs!Ask(c, q) PROVE TabsInv'
    BY <1>2, AskStep
<1>3. ASSUME NEW c \in Callers,
             Tabs!Get(c) \/ Tabs!Do(c) \/ Tabs!Put(c) \/ Tabs!Evict(c) \/ Tabs!Answer(c) \/ Tabs!Close(c)
      PROVE  TabsInv'
    BY <1>3, GetStep, DoStep, PutStep, EvictStep, AnswerStep, CloseStep
<1>4. ASSUME NEW c \in Callers,
             \/ Tabs!FetchBalances(c) \/ Tabs!FetchDexes(c) \/ Tabs!FetchRows(c) \/ Tabs!FetchUniverse(c)
             \/ Tabs!OpenUniverse(c) \/ Tabs!CombineActivity(c) \/ Tabs!CombinePerformance(c)
             \/ Tabs!FetchPerformanceAll(c)
      PROVE  TabsInv'
    BY <1>4, FetchBalancesStep, FetchDexesStep, FetchRowsStep, FetchUniverseStep, OpenStep, CombineActivityStep,
       CombinePerformanceStep, FetchAllStep
<1>5. CASE UNCHANGED Tabs!odVars
  <2>1. UNCHANGED <<now, fetches, cache, flight, caller>>
      BY <1>5 DEF Tabs!odVars
  <2>2. Bounded <=> Bounded'
      BY <2>1 DEF Bounded, Tabs!Universes, Trimming, Tabs!At, Tabs!Top
  <2> QED BY <2>1, <2>2 DEF TabsInv
<1> QED BY <1>1, <1>2, <1>3, <1>4, <1>5 DEF Tabs!Next

\* Every waiter's flight is led by one who is fetching, and not by a waiter on it.
LEMMA Led ==
  ASSUME Tabs!OnDemandAssumption, TabsInv
  PROVE  Tabs!WaitersAreLed
<1>1. ASSUME NEW c \in Callers, Tabs!At(c, "wait"), NEW k, k = Tabs!Top(c).key, NEW l, l = flight[k].leader
      PROVE  /\ k \in DOMAIN flight /\ l \in Callers /\ l # c /\ Leads(caller[l], k)
             /\ (l \in Callers /\ Tabs!At(l, "wait") => caller[c].level = "tab" /\ caller[l].level = "universe")
  <2>1. /\ Fine(caller[c], now, cache, flight) /\ caller[c].pc = "serving" /\ caller[c].q \in Requests
        /\ Serving(caller[c], now, cache, flight)
        /\ \/ /\ caller[c].level = "tab" /\ Tabs!Top(c) = caller[c].frames.tab
              /\ AtTab(caller[c], now, cache, flight) /\ k = Tabs!Key(caller[c].q)
           \/ /\ caller[c].level = "universe" /\ Tabs!Top(c) = caller[c].frames.universe
              /\ AtUniverse(caller[c], now, cache, flight) /\ k = Tabs!UniverseKey(caller[c].q.wallet)
        /\ Tabs!Top(c).pc = "wait"
      BY <1>1, ServedAt
  <2>2. k \in DOMAIN flight
      BY <1>1, <2>1 DEF AtTab, AtUniverse, Under
  <2>3. l \in Callers /\ Leads(caller[l], k)
      BY <1>1, <2>2 DEF TabsInv, Flights
  <2>4. caller[c].level = "universe" => k[1] = "universe" /\ caller[c].frames.tab.key # k
    <3>1. PICK j : j = Tabs!Key(caller[c].q)
        OBVIOUS
    <3>2. j[1] # "universe" /\ caller[c].frames.tab.key = j
        BY <2>1, <3>1, KeysAre DEF Serving
    <3> QED BY <2>1, <3>2, UniverseKeysAre
  <2>5. ~Leads(caller[c], k)
      BY <1>1, <2>1, <2>4, LeadsIs
  <2>6. ASSUME Tabs!At(l, "wait") PROVE caller[c].level = "tab" /\ caller[l].level = "universe"
    <3>1. /\ Fine(caller[l], now, cache, flight) /\ caller[l].pc = "serving" /\ caller[l].q \in Requests
          /\ Serving(caller[l], now, cache, flight) /\ Tabs!Top(l).pc = "wait"
          /\ \/ caller[l].level = "tab" /\ Tabs!Top(l) = caller[l].frames.tab
             \/ caller[l].level = "universe" /\ Tabs!Top(l) = caller[l].frames.universe
        BY <2>3, <2>6, ServedAt
    <3>2. caller[l].level = "universe" /\ k = caller[l].frames.tab.key
        BY <2>3, <3>1, LeadsIs
    <3>3. k[1] # "universe"
      <4>1. PICK j : j = Tabs!Key(caller[l].q)
          OBVIOUS
      <4> QED BY <3>1, <3>2, <4>1, KeysAre DEF Serving
    <3> QED BY <2>1, <2>4, <3>2, <3>3
  <2> QED BY <2>2, <2>3, <2>5, <2>6
<1>2. ASSUME NEW c \in Callers, Tabs!At(c, "wait")
      PROVE  /\ Tabs!Top(c).key \in DOMAIN flight
             /\ LET l == flight[Tabs!Top(c).key].leader
                IN  /\ l # c /\ caller[l].pc = "serving"
                    /\ \E i \in DOMAIN caller[l].frames :
                         caller[l].frames[i].key = Tabs!Top(c).key
                         /\ caller[l].frames[i].pc \in {"fetch", "nested", "combine"}
  <2>1. PICK k, l : k = Tabs!Top(c).key /\ l = flight[k].leader
      OBVIOUS
  <2>2. k \in DOMAIN flight /\ l \in Callers /\ l # c /\ Leads(caller[l], k)
      BY <1>1, <1>2, <2>1
  <2>3. DOMAIN caller[l].frames = {"tab", "universe"}
      BY <2>2 DEF TabsInv, Fine, CallerType
  <2>4. \E i \in DOMAIN caller[l].frames :
          caller[l].frames[i].key = k /\ caller[l].frames[i].pc \in {"fetch", "nested", "combine"}
      BY <2>2, <2>3 DEF Leads
  <2> QED BY <2>1, <2>2, <2>4 DEF Leads
<1>3. ASSUME NEW c \in Callers, NEW d \in Callers, Tabs!At(c, "wait"), Tabs!At(d, "wait"),
             flight[Tabs!Top(c).key].leader = d, flight[Tabs!Top(d).key].leader = c
      PROVE  FALSE
  <2>1. PICK k, j : k = Tabs!Top(c).key /\ j = Tabs!Top(d).key
      OBVIOUS
  <2>2. caller[c].level = "tab" /\ caller[d].level = "universe"
      BY <1>1, <1>3, <2>1
  <2>3. caller[d].level = "tab"
      BY <1>1, <1>3, <2>1
  <2> QED BY <2>2, <2>3
<1> QED BY <1>2, <1>3 DEF Tabs!WaitersAreLed

LEMMA TabsHold ==
  ASSUME Tabs!OnDemandAssumption, TabsInv
  PROVE  Tabs!OnDemandHolds
<1>1. \A c \in Callers : Tabs!Done(c) => Answered(caller[c])
    BY DEF TabsInv, Fine, Tabs!Done
<1>2. Tabs!AgeBounded /\ Tabs!LastKept /\ Tabs!ReadyIsWhole
    BY <1>1 DEF Tabs!AgeBounded, Tabs!LastKept, Tabs!ReadyIsWhole, Answered
<1>3. Tabs!UniversesBounded
    BY Counting DEF TabsInv, Bounded, Trimming, Tabs!UniversesBounded
<1> QED BY <1>2, <1>3, Led DEF Tabs!OnDemandHolds

\* A tab answers (OnDemandCache.GetOrFetch) what is as young as it says, keeps
\* the last value it had, waits only for a fetch that is under way, and keeps
\* no more universes than it may.
THEOREM TabsAnswer == Tabs!Spec => []OnDemandHolds
<1>1. Tabs!OnDemandAssumption
    BY TabsAssumption
<1>2. Tabs!Init => TabsInv
    BY <1>1, TabsInit
<1>3. TabsInv /\ [Tabs!Next]_(Tabs!odVars) => TabsInv'
    BY <1>1, TabsStep
<1>4. TabsInv => OnDemandHolds
    BY <1>1, TabsHold DEF OnDemandHolds
<1> QED BY <1>2, <1>3, <1>4, PTL DEF Tabs!Spec
=============================================================================

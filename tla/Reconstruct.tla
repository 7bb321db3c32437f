---------------------------- MODULE Reconstruct ----------------------------
(***************************************************************************)
(* Completed trades out of fills (src/internal/trader/reconstruct.go).  A  *)
(* trade is one position cycle of a market: from flat to flat, or to the   *)
(* fill that turns the position over.  Markets do not touch each other, so *)
(* the fills are those of one.                                             *)
(*                                                                         *)
(* A fill is [tid, at, q]: its id, its time, its signed quantity.  PnL,    *)
(* volume, fees, prices and the size of a trade are sums over the fills    *)
(* attributed to it: the set "of" stands for them.  Fills are ordered by   *)
(* time and tid; here tids are given in that order.                        *)
(***************************************************************************)
EXTENDS Integers, FiniteSets, Folds

Sgn(x) == IF x > 0 THEN 1 ELSE IF x < 0 THEN -1 ELSE 0

\* The last of a set of fills in the order of the fold.
Newest(fs) == CHOOSE f \in fs : \A g \in fs : g.tid <= f.tid

NoCycle == [long |-> FALSE, open |-> -1, of |-> {}]
OpenCycle(f, long) == [long |-> long, open |-> f.at, of |-> {}]
Trade(c, f) == [long |-> c.long, open |-> c.open, close |-> f.at, of |-> c.of]

\* One fill: it joins the open cycle (or opens one), and closes it when the
\* position becomes flat or changes sign; a flip opens the next cycle, with
\* nothing attributed to it yet.
ApplyFill(f, s) ==
  LET after  == s.pos + f.q
      c      == IF s.cycle = NoCycle THEN OpenCycle(f, f.q > 0) ELSE s.cycle
      joined == [c EXCEPT !.of = @ \cup {f.tid}]
      closes == s.pos # 0 /\ Sgn(after) # Sgn(s.pos)
  IN [pos    |-> after,
      cycle  |-> IF ~closes THEN joined
                 ELSE IF after # 0 THEN OpenCycle(f, after > 0) ELSE NoCycle,
      trades |-> s.trades \cup (IF closes THEN {Trade(joined, f)} ELSE {})]

ReconstructTrades(fills) ==
  MapThenFoldSet(ApplyFill, [pos |-> 0, cycle |-> NoCycle, trades |-> {}],
                 LAMBDA f : f, Newest, fills).trades

-----------------------------------------------------------------------------
\* What the comment of CompletedTrade says, without a fold: with Pos the
\* position after each fill, a cycle starts where Pos leaves 0 or changes
\* sign, and ends at the next fill where the sign is another.

Position(fs) == MapThenFoldSet(LAMBDA f, sum : f.q + sum, 0, LAMBDA f : f, Newest, fs)
UpTo(f, fills)   == {g \in fills : g.tid <= f.tid}
Before(f, fills) == {g \in fills : g.tid < f.tid}
SignAt(f, fills)     == Sgn(Position(UpTo(f, fills)))
SignBefore(f, fills) == Sgn(Position(Before(f, fills)))

\* first and last are the fills that begin and end a cycle.
IsCycle(first, last, fills) ==
  LET s == SignAt(first, fills) IN
  /\ first.tid < last.tid
  /\ s # 0 /\ SignBefore(first, fills) # s
  /\ SignAt(last, fills) # s
  /\ \A f \in fills : first.tid < f.tid /\ f.tid < last.tid => SignAt(f, fills) = s

\* A fill that turns the position over belongs to the cycle it ends.
TrueTrade(first, last, fills) ==
  [long |-> SignAt(first, fills) = 1, open |-> first.at, close |-> last.at,
   of |-> {f.tid : f \in {g \in UpTo(last, fills) :
             \/ g.tid > first.tid
             \/ g = first /\ SignBefore(first, fills) = 0}}]

TrueTrades(fills) ==
  {TrueTrade(p[1], p[2], fills) :
     p \in {p \in fills \X fills : IsCycle(p[1], p[2], fills)}}
=============================================================================

------------------------------ MODULE RateLimit ------------------------------
(***************************************************************************)
(* The login rate limiter, for the requests of one address.  A request     *)
(* reads the clock once, looks its bucket up under the limiter's lock and  *)
(* counts under the bucket's; a clean-up removes expired buckets from the  *)
(* map in between.                                                         *)
(***************************************************************************)
EXTENDS Integers, FiniteSets

CONSTANTS
  Requests,     \* bound: the requests, each runs once
  Limit, Window,
  Delay,        \* the longest a request takes, in ticks
  MaxTime       \* bound

VARIABLES
  now,
  buckets,  \* every bucket ever made, by number
  entry,    \* the one in the map, or 0
  held,     \* each request: where it is, the time it read, its bucket
  passed,   \* history: the time read by each request that passed
  orphaned  \* history: a bucket left the map while a request held it

limiterVars == <<now, buckets, entry, held, passed, orphaned>>

Init ==
  /\ now = 0 /\ buckets = <<>> /\ entry = 0
  /\ held = [r \in Requests |-> [at |-> "none", now |-> 0, bucket |-> 0]]
  /\ passed = <<>> /\ orphaned = FALSE

\* The map with bucket b in it, and the record of a request that passes.
WithBucket(b, new) == [c \in DOMAIN buckets \cup {b} |-> IF c = b THEN new ELSE buckets[c]]
Passes(r) == [q \in DOMAIN passed \cup {r} |-> IF q = r THEN held[r].now ELSE passed[q]]

\* isAllowed: the clock.
ReadClock(r) ==
  /\ held[r].at = "none" /\ held' = [held EXCEPT ![r].at = "lookup", ![r].now = now]
  /\ UNCHANGED <<now, buckets, entry, passed, orphaned>>
\* The bucket of the address, a new one if there is none.
Lookup(r) ==
  /\ held[r].at = "lookup"
  /\ LET b == IF entry # 0 THEN entry ELSE Cardinality(DOMAIN buckets) + 1
     IN  /\ entry' = b /\ held' = [held EXCEPT ![r].at = "count", ![r].bucket = b]
         /\ buckets' = IF entry # 0 THEN buckets
                       ELSE WithBucket(b, [count |-> 0, resetAt |-> held[r].now + Window])
  /\ UNCHANGED <<now, passed, orphaned>>

\* A new window if the old one is over, then the count.
RenewedCount(b, t) == IF t > buckets[b].resetAt THEN [buckets[b] EXCEPT !.count = 0] ELSE buckets[b] \* a mutant
Renewed(b, t) ==
  IF t > buckets[b].resetAt THEN [count |-> 0, resetAt |-> t + Window] ELSE buckets[b]
Count(r) ==
  /\ held[r].at = "count" /\ held' = [held EXCEPT ![r].at = "done"]
  /\ LET b == Renewed(held[r].bucket, held[r].now) IN
     IF b.count >= Limit THEN buckets' = WithBucket(held[r].bucket, b) /\ UNCHANGED passed
     ELSE /\ buckets' = WithBucket(held[r].bucket, [b EXCEPT !.count = @ + 1])
          /\ passed' = Passes(r)
  /\ UNCHANGED <<now, entry, orphaned>>

CleanUp ==
  /\ entry # 0 /\ now > buckets[entry].resetAt /\ entry' = 0
  /\ orphaned' = (orphaned \/ \E r \in Requests : held[r].at = "count" /\ held[r].bucket = entry)
  /\ UNCHANGED <<now, buckets, held, passed>>

InFlight(r) == held[r].at \in {"lookup", "count"}
Tick ==
  /\ now < MaxTime /\ \A r \in Requests : InFlight(r) => now < held[r].now + Delay
  /\ now' = now + 1 /\ UNCHANGED <<buckets, entry, held, passed, orphaned>>

Next ==
  \/ \E r \in Requests : ReadClock(r)
  \/ \E r \in Requests : Lookup(r)
  \/ \E r \in Requests : Count(r)
  \/ CleanUp
  \/ Tick

Spec == Init /\ [][Next]_limiterVars

---------------------------------------------------------------------------
(* In any span that is shorter than the window by what two requests may      *)
(* take, an address gets through no more than twice the limit (the end of    *)
(* one window and the start of the next), unless the clean-up removed a      *)
(* bucket that a request held: that one is counted in a bucket nobody else   *)
(* sees.                                                                     *)
TwiceTheLimit ==
  ~orphaned =>
    \A t \in 0..MaxTime :
      Cardinality({r \in DOMAIN passed : t <= passed[r] /\ passed[r] <= t + Window - 2 * Delay}) <= 2 * Limit
=============================================================================

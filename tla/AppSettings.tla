------------------------------ MODULE AppSettings ------------------------------
(***************************************************************************)
(* The settings an administrator changes: the wallet cap and the list of   *)
(* perp dexes.  Reads go through a cache of five minutes; the lock is not  *)
(* held while a reader queries the row or a writer updates it.             *)
(***************************************************************************)
EXTENDS Api, Integers, FiniteSets

CONSTANTS
  Readers, Writers,
  MaxWrites,    \* bound
  CapMin, CapMax, CapDefault,
  CapRequests,  \* the caps an administrator asks for, as singletons
  DexRequests,  \* the lists an administrator asks for, as sets of names
  KnownDexes

VARIABLES
  rows,     \* app_settings; a key may have no row
  cached,   \* the value each key is served from, whether the five minutes are
            \* running, and history: whether what was stored may be outdated
  reading,  \* what each reader has between its query and its store
  writing,  \* what each writer has between its statements
  writes

settingVars == <<rows, cached, reading, writing, writes>>

Keys == {"telegram_max_wallets_per_user", "perp_dexes"}
Default(k) == IF k = "perp_dexes" THEN {"xyz"} ELSE {CapDefault}
NotReading == [key |-> "", raw |-> {}, late |-> FALSE]
NotWriting == [key |-> "", value |-> {}, at |-> "idle"]

Init ==
  /\ rows = <<>> /\ writes = 0
  /\ cached = [k \in Keys |-> [value |-> Default(k), fresh |-> FALSE, suspect |-> FALSE]]
  /\ reading = [r \in Readers |-> NotReading] /\ writing = [w \in Writers |-> NotWriting]

---------------------------------------------------------------------------
\* What a query gives: the row, parsed, or the default when it fails.
Get(k) == IF k \in DOMAIN rows THEN rows[k] ELSE Default(k)
ValidCap(value) == \A v \in value : v >= CapMin /\ v <= CapMax
Parsed(k, raw) == IF k = "perp_dexes" \/ ValidCap(raw) THEN raw ELSE Default(k)

\* INSERT or UPDATE of a key.
Upsert(k, value) == [j \in DOMAIN rows \cup {k} |-> IF j = k THEN value ELSE rows[j]]

\* MaxWalletsPerUser and GetPerpDexes: answered from the cache, or a query.
Read(r) ==
  /\ reading[r].key = ""
  /\ \E k \in Keys :
       /\ ~cached[k].fresh
       /\ \/ reading' = [reading EXCEPT ![r] = [key |-> k, raw |-> Get(k), late |-> FALSE]]
          \/ reading' = [reading EXCEPT ![r] = [key |-> k, raw |-> Default(k), late |-> TRUE]] \* it failed
  /\ UNCHANGED <<rows, cached, writing, writes>>
Store(r) ==
  /\ reading[r].key # ""
  /\ LET k == reading[r].key IN
     cached' = [cached EXCEPT ![k] = [value |-> Parsed(k, reading[r].raw), fresh |-> TRUE,
                                      suspect |-> reading[r].late]]
  /\ reading' = [reading EXCEPT ![r] = NotReading]
  /\ UNCHANGED <<rows, writing, writes>>
\* What a read is answered at once while the five minutes run.
Served(k) == cached[k].value

\* SetMaxWalletsPerUser: the range; SetPerpDexes: known names, if the list of
\* them can be fetched.
Accepted(k, value) == IF k = "perp_dexes" THEN value \subseteq KnownDexes ELSE ValidCap(value)
Validate(w) ==
  /\ writing[w].at = "idle" /\ writes < MaxWrites
  /\ \E k \in Keys : \E value \in IF k = "perp_dexes" THEN DexRequests ELSE CapRequests :
       writing' = IF Accepted(k, value) THEN [writing EXCEPT ![w] = [key |-> k, value |-> value, at |-> "set"]]
                  ELSE writing
  /\ writes' = writes + 1 /\ UNCHANGED <<rows, cached, reading>>
Set(w) ==
  /\ writing[w].at = "set"
  /\ \/ /\ rows' = Upsert(writing[w].key, writing[w].value)
        /\ writing' = [writing EXCEPT ![w].at = "invalidate"]
     \/ writing' = [writing EXCEPT ![w] = NotWriting] /\ UNCHANGED rows \* it failed
  /\ UNCHANGED <<cached, reading, writes>>
InvalidateValue(k) == [cached EXCEPT ![k].value = Default(k)] \* a mutant
Invalidated(k) == [cached EXCEPT ![k].fresh = FALSE]
\* A reader that queried before and has not stored yet comes late.
Invalidate(w) ==
  /\ writing[w].at = "invalidate"
  /\ cached' = Invalidated(writing[w].key)
  /\ reading' = [r \in Readers |-> [reading[r] EXCEPT !.late = @ \/ reading[r].key = writing[w].key]]
  /\ writing' = [writing EXCEPT ![w] = NotWriting]
  /\ UNCHANGED <<rows, writes>>

TtlEnds ==
  /\ \E k \in Keys : cached[k].fresh /\ cached' = [cached EXCEPT ![k].fresh = FALSE]
  /\ UNCHANGED <<rows, reading, writing, writes>>

Next ==
  \/ \E r \in Readers : Read(r)
  \/ \E r \in Readers : Store(r)
  \/ \E w \in Writers : Validate(w)
  \/ \E w \in Writers : Set(w)
  \/ \E w \in Writers : Invalidate(w)
  \/ TtlEnds

Spec == Init /\ [][Next]_settingVars

---------------------------------------------------------------------------
(* Once every update is answered, what the cache serves is the row, except   *)
(* for the five minutes after a reader stored what it had queried before the *)
(* update, or the default after a failed query.                              *)
ServedIsCurrent ==
  (\A w \in Writers : writing[w].at # "invalidate") =>
    \A k \in Keys : cached[k].fresh /\ ~cached[k].suspect => Served(k) = Get(k)
=============================================================================

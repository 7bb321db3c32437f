---------------------------- MODULE LiveUpstream ----------------------------
(* The client of the live tabs (internal/hyperliquid): calls pass a gate of  *)
(* a few places, are spaced by an adaptive pacer they share, end with a      *)
(* timeout and are retried once when the venue is rate limiting; a window of *)
(* fills is split until no page is full.                                     *)
EXTENDS Integers, Sequences, FiniteSets

CONSTANTS
  Callers,      \* requests that may call at once
  Concurrency,  \* places of the gate
  Floor,        \* the pacer's base interval, in ticks
  MaxBackoff,   \* its cap
  Second,       \* LiveRetryBackoff, and the first step of an unpaced client
  Timeout,      \* of a call, and of a window of fills
  Books,        \* what the venue may hold: sets of fills [tid, time]
  Window,       \* the window asked for: <<first, last>>
  PageSize,     \* maxFillsPerResponse
  MinSlice,     \* minSliceMs
  MaxCalls,     \* maxFillsFetchCalls
  Offered,      \* the calls that are made: subset of "single", "plain", "unpaced", "window"
  MaxNow        \* bound on the clock

VARIABLES
  now,
  book,   \* the fills of the wallet, which do not change meanwhile
  pacer,  \* AdaptivePacer: current, streak, last
  gate,   \* len(LiveClient.sem)
  call    \* per caller: pc and the locals of its call

luVars == <<now, book, pacer, gate, call>>

Quiet == [pc |-> "idle", kind |-> "none", tries |-> 0, until |-> 0, wake |-> 0, marks |-> <<>>,
          walk |-> <<>>, out |-> <<>>, calls |-> 0, cut |-> FALSE, err |-> "none"]
\* The settings are what NewClient and NewAdaptivePacer are given; a fill has one tid.
LiveAssumption ==
  /\ IsFiniteSet(Callers) /\ Concurrency \in Nat /\ PageSize \in Nat \ {0}
  /\ {Floor, MaxBackoff, Second, Timeout, MinSlice} \subseteq Nat
  /\ Window \in Int \X Int
  /\ \A b \in Books : IsFiniteSet(b) /\ b \subseteq [tid : Nat, time : Int]
                      /\ \A f, g \in b : f.tid = g.tid => f = g
\* NewLiveClient: the pacer starts at its floor.
Init ==
  /\ now = 0 /\ book \in Books
  /\ pacer = [current |-> Floor, streak |-> 0, last |-> -MaxBackoff]
  /\ gate = 0
  /\ call = [c \in Callers |-> Quiet]

Lower(s, t) == IF s < t THEN s ELSE t
Higher(s, t) == IF s > t THEN s ELSE t
Step(c, r) == call' = [call EXCEPT ![c] = r]

---------------------------------------------------------------------------
(* AdaptivePacer *)
Backoff(p) ==
  LET doubled == IF Floor = 0 THEN Higher(2 * p.current, Second) ELSE 2 * p.current
  IN  [p EXCEPT !.current = Higher(Lower(doubled, MaxBackoff), Floor), !.streak = 0]
Success(p) ==
  IF p.streak + 1 >= 5 THEN [p EXCEPT !.current = Higher(@ \div 2, Floor), !.streak = 0]
  ELSE [p EXCEPT !.streak = @ + 1]
NoteStatus(p, reply) ==
  IF reply = "429" THEN Backoff(p) ELSE IF reply \in {"ok", "garbled"} THEN Success(p) ELSE p

\* The last two times this call went upstream.
Marked(r) == [r EXCEPT !.pc = "send", !.marks = Append(IF Len(@) = 2 THEN Tail(@) ELSE @, now)]
\* Wait reads the interval once; nothing is reserved, so callers that wait for
\* the same moment go together.
Wait(c) ==
  /\ call[c].pc = "pace"
  /\ IF now - pacer.last >= pacer.current
     THEN Step(c, Marked(call[c])) /\ pacer' = [pacer EXCEPT !.last = now]
     ELSE Step(c, [call[c] EXCEPT !.pc = "sleep", !.wake = pacer.last + pacer.current]) /\ UNCHANGED pacer
  /\ UNCHANGED <<now, book, gate>>
Wake(c) ==
  /\ call[c].pc = "sleep" /\ now >= call[c].wake
  /\ Step(c, Marked(call[c])) /\ pacer' = [pacer EXCEPT !.last = now]
  /\ UNCHANGED <<now, book, gate>>

---------------------------------------------------------------------------
(* LiveClient: the gate, the timeout and the retry *)
Retried(kind) == kind \in {"single", "unpaced", "window"}
Paced(kind) == kind /= "unpaced"

Ask(c, kind) ==
  /\ call[c].pc = "idle" /\ kind \in Offered
  /\ Step(c, [Quiet EXCEPT !.pc = "gate", !.kind = kind])
  /\ UNCHANGED <<now, book, pacer, gate>>
\* Clearinghouse state, perp dexes, spot state and open orders; user fills, historical
\* orders, ledger updates and user funding; the portfolio; a window of fills.
FetchClearinghouseState(c) == Ask(c, "single")
FetchUserFills(c) == Ask(c, "plain")
FetchPortfolio(c) == Ask(c, "unpaced")
FetchFillsWindow(c) == Ask(c, "window")

Acquire(c) ==
  /\ call[c].pc = "gate" /\ gate < Concurrency
  /\ gate' = gate + 1
  /\ Step(c, [call[c] EXCEPT !.pc = "start"])
  /\ UNCHANGED <<now, book, pacer>>
\* The reader goes away before it has a place, or while it waits to retry.
Cancelled(c) ==
  /\ call[c].pc \in {"gate", "again"}
  /\ Step(c, [call[c] EXCEPT !.pc = IF @ = "gate" THEN "done" ELSE "release", !.err = "cancelled"])
  /\ UNCHANGED <<now, book, pacer, gate>>
\* singleCtx and windowCtx: every attempt has a timeout of its own.
Start(c) ==
  /\ call[c].pc = "start"
  /\ Step(c, [call[c] EXCEPT !.until = now + Timeout, !.err = "none", !.out = <<>>, !.cut = FALSE, !.calls = 0,
       !.walk = IF call[c].kind = "window" THEN <<Window>> ELSE <<>>,
       !.pc = IF call[c].kind = "window" THEN "walk" ELSE IF Paced(call[c].kind) THEN "pace" ELSE "send"])
  /\ UNCHANGED <<now, book, pacer, gate>>

\* doWithRetry: one more attempt after a 429, with the place kept meanwhile.
Attempted(r, err) ==
  IF err = "429" /\ r.tries = 0 /\ Retried(r.kind)
  THEN [r EXCEPT !.pc = "again", !.tries = 1, !.wake = now + Second, !.walk = <<>>]
  ELSE [r EXCEPT !.pc = "release", !.err = err, !.walk = <<>>]
Again(c) ==
  /\ call[c].pc = "again" /\ now >= call[c].wake
  /\ Step(c, [call[c] EXCEPT !.pc = "start"])
  /\ UNCHANGED <<now, book, pacer, gate>>
Release(c) ==
  /\ call[c].pc = "release"
  /\ gate' = gate - 1
  /\ Step(c, [call[c] EXCEPT !.pc = "done"])
  /\ UNCHANGED <<now, book, pacer>>
Finish(c) ==
  /\ call[c].pc = "done"
  /\ Step(c, Quiet)
  /\ UNCHANGED <<now, book, pacer, gate>>

---------------------------------------------------------------------------
(* Client: one request, and FetchAll *)
Replies == {"ok", "429", "500", "timeout", "garbled"}
PostInfo(c, reply) ==
  /\ call[c].pc = "send" /\ call[c].kind /= "window"
  /\ pacer' = NoteStatus(pacer, reply)
  /\ Step(c, Attempted(call[c], IF reply = "ok" THEN "none" ELSE reply))
  /\ UNCHANGED <<now, book, gate>>

\* What the venue answers for a slice: its newest fills, a page at most.
Earlier(f, g) == f.time < g.time \/ (f.time = g.time /\ f.tid < g.tid)
Rows(s) == {s[i] : i \in DOMAIN s}
Slice(s, e) == {f \in book : s <= f.time /\ f.time <= e}
Page(s, e) ==
  {page \in [1..Lower(Cardinality(Slice(s, e)), PageSize) -> Slice(s, e)] :
     /\ \A i, j \in DOMAIN page : i < j => Earlier(page[j], page[i])
     /\ \A i \in DOMAIN page, f \in Slice(s, e) \ Rows(page) : Earlier(f, page[i])}

\* walk: a slice is not fetched once the reader is gone, or the time or the calls
\* are used up.
Walk(c) ==
  LET r == call[c]
  IN  /\ r.pc = "walk" /\ r.walk /= <<>>
      /\ \/ Step(c, [r EXCEPT !.cut = TRUE, !.walk = <<>>])
         \/ now < r.until /\ r.calls < MaxCalls /\ Step(c, [r EXCEPT !.pc = "pace", !.calls = @ + 1])
      /\ UNCHANGED <<now, book, pacer, gate>>
\* An error ends the fetch while nothing is collected, later it only marks it.
WalkFails(r, err) ==
  IF r.out = <<>> THEN Attempted(r, err) ELSE [r EXCEPT !.pc = "walk", !.cut = TRUE, !.walk = Tail(@)]
\* A page that is not full is kept; a full one is split, the newer half first, or
\* kept and flagged when the slice is the smallest.
WalkReply(r, page) ==
  LET s == Head(r.walk)[1]
      e == Head(r.walk)[2]
      mid == s + (e - s) \div 2
  IN  IF Len(page) < PageSize THEN [r EXCEPT !.pc = "walk", !.out = @ \o page, !.walk = Tail(@)]
      ELSE IF e - s <= MinSlice THEN [r EXCEPT !.pc = "walk", !.out = @ \o page, !.cut = TRUE, !.walk = Tail(@)]
      ELSE [r EXCEPT !.pc = "walk", !.walk = <<<<mid, e>>, <<s, mid>>>> \o Tail(@)]
FetchWindow(c, reply) ==
  /\ call[c].pc = "send" /\ call[c].kind = "window"
  /\ pacer' = NoteStatus(pacer, reply)
  /\ IF reply = "ok"
     THEN \E page \in Page(Head(call[c].walk)[1], Head(call[c].walk)[2]) : Step(c, WalkReply(call[c], page))
     ELSE Step(c, WalkFails(call[c], reply))
  /\ UNCHANGED <<now, book, gate>>
\* The wait for the pacer outlives the context.
WaitExpires(c) ==
  /\ call[c].pc = "sleep" /\ now >= call[c].until
  /\ Step(c, IF call[c].kind = "window" THEN WalkFails(call[c], "timeout") ELSE Attempted(call[c], "timeout"))
  /\ UNCHANGED <<now, book, pacer, gate>>

\* The slices share their boundary: a fill found twice counts once; oldest first.
Firsts(out) == {i \in DOMAIN out : \A j \in 1..(i - 1) : out[j].tid # out[i].tid}
Deduped(out) ==
  {[n \in DOMAIN order |-> out[order[n]]] : order \in
    {order \in [1..Cardinality(Firsts(out)) -> Firsts(out)] :
       \A m, n \in DOMAIN order : m < n => Earlier(out[order[m]], out[order[n]])}}
FetchAll(c) ==
  /\ call[c].pc = "walk" /\ call[c].walk = <<>>
  /\ \E fills \in Deduped(call[c].out) : Step(c, [call[c] EXCEPT !.pc = "release", !.out = fills])
  /\ UNCHANGED <<now, book, pacer, gate>>

\* No wait and no request outlives its context, and nothing else takes time.
Tick ==
  /\ now < MaxNow
  /\ \A c \in Callers :
       /\ call[c].pc \in {"idle", "gate", "sleep", "send", "again", "done"}
       /\ call[c].pc = "sleep" => now < call[c].wake /\ now < call[c].until
       /\ call[c].pc = "send" => now < call[c].until
       /\ call[c].pc = "again" => now < call[c].wake
  /\ now' = now + 1
  /\ UNCHANGED <<book, pacer, gate, call>>

LiveNext ==
  \/ Tick
  \/ \E c \in Callers :
       \/ FetchClearinghouseState(c) \/ FetchUserFills(c) \/ FetchPortfolio(c) \/ FetchFillsWindow(c)
       \/ Acquire(c) \/ Cancelled(c) \/ Start(c) \/ Again(c) \/ Release(c) \/ Finish(c)
       \/ Wait(c) \/ Wake(c) \/ WaitExpires(c) \/ Walk(c) \/ FetchAll(c)
       \/ \E reply \in Replies : PostInfo(c, reply) \/ FetchWindow(c, reply)

LiveSpec == Init /\ [][LiveNext]_luVars

---------------------------------------------------------------------------
\* A place of the gate is held by each call between its acquire and its release,
\* waits and retries included, and by nobody else.
GateHeld ==
  /\ gate <= Concurrency
  /\ gate = Cardinality({c \in Callers : call[c].pc \notin {"idle", "gate", "done"}})

\* A window that is neither an error nor flagged holds every fill of the window,
\* each once and oldest first; a flagged one holds some, as well ordered.
WindowWhole ==
  \A c \in Callers : call[c].pc \in {"release", "done"} /\ call[c].kind = "window" /\ call[c].err = "none" =>
    LET out == call[c].out
    IN  /\ \A i \in 1..(Len(out) - 1) : Earlier(out[i], out[i + 1])
        /\ Rows(out) \subseteq Slice(Window[1], Window[2])
        /\ ~call[c].cut => Rows(out) = Slice(Window[1], Window[2])

\* Two requests of one call are never closer than the floor, and the interval
\* stays between the floor and the cap.
Spaced ==
  /\ Floor <= pacer.current /\ pacer.current <= Higher(MaxBackoff, Floor)
  /\ \A c \in Callers : Len(call[c].marks) = 2 => call[c].marks[2] - call[c].marks[1] >= Floor

LiveHolds == GateHeld /\ WindowWhole /\ Spaced
=============================================================================

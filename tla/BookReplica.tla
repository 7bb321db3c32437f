---------------------------- MODULE BookReplica ----------------------------
(***************************************************************************)
(* What a local order book promises: whatever is lost, delayed or          *)
(* reordered on the way, the book it shows is one the venue really had,    *)
(* the one at the sequence number the replica claims (0: an empty book).   *)
(* It may lag, skip ahead, fall back or be emptied; it never shows a mix.  *)
(***************************************************************************)
EXTENDS Integers, Sequences

CONSTANTS Contents, Empty

VARIABLES
  hist,      \* the venue's books, in sequence order
  content,   \* the book the replica shows
  at         \* the sequence number the replica claims

replicaVars == <<hist, content, at>>

Init ==
  /\ \E c \in Contents : hist = <<c>>
  /\ content = Empty /\ at = 0

VenuePublishes ==
  /\ \E c \in Contents : hist' = Append(hist, c)
  /\ UNCHANGED <<content, at>>

ReplicaMoves ==
  /\ \E n \in 1..Len(hist) : at' = n /\ content' = hist[n]
  /\ UNCHANGED hist

ReplicaEmptied ==
  /\ at' = 0 /\ content' = Empty
  /\ UNCHANGED hist

Next == VenuePublishes \/ ReplicaMoves \/ ReplicaEmptied

Spec == Init /\ [][Next]_replicaVars
=============================================================================

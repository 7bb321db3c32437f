------------------------------- MODULE Outbox -------------------------------
(***************************************************************************)
(* What the Telegram outbox promises: a message is queued once under its   *)
(* key and keeps its text; it is handed to Telegram only while it is       *)
(* pending and has attempts left, possibly more than once, and counts as   *)
(* sent only after it was handed over.  Sent and exhausted are final.      *)
(***************************************************************************)
EXTENDS Integers

CONSTANTS Ids, Bodies, NoBody, MaxAttempts

VARIABLES
  outbox,     \* the messages, by key
  delivered   \* how often Telegram accepted each

outboxVars == <<outbox, delivered>>

Pending(id) == outbox[id].status = "pending" /\ outbox[id].attempts < MaxAttempts

Init ==
  /\ outbox = [id \in Ids |-> [status |-> "absent", attempts |-> 0,
                               body |-> NoBody]]
  /\ delivered = [id \in Ids |-> 0]

Queue(id) ==
  /\ outbox[id].status = "absent"
  /\ outbox'[id].body \in Bodies
  /\ outbox' = [outbox EXCEPT ![id] = [status |-> "pending", attempts |-> 0,
                                      body |-> outbox'[id].body]]
  /\ UNCHANGED delivered

Deliver(id) ==
  /\ Pending(id)
  /\ delivered' = [delivered EXCEPT ![id] = @ + 1]
  /\ UNCHANGED outbox

GiveBack(id) ==
  /\ Pending(id)
  /\ outbox' = [outbox EXCEPT ![id].attempts = @ + 1]
  /\ UNCHANGED delivered

Settle(id) ==
  /\ Pending(id) /\ delivered[id] > 0
  /\ outbox' = [outbox EXCEPT ![id].status = "sent"]
  /\ UNCHANGED delivered

Next == \E id \in Ids : Queue(id) \/ Deliver(id) \/ GiveBack(id) \/ Settle(id)

Spec == Init /\ [][Next]_outboxVars
=============================================================================

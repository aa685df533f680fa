-------------------------- MODULE OrderedDelivery --------------------------
(***************************************************************************)
(* What the edge's outbox promises to whoever listens behind the           *)
(* transport, with threads, SQLite, batches, crashes and retries left out: *)
(* messages are accepted in the order of their sequence numbers, the       *)
(* transport always gets the oldest message that has not been removed, and *)
(* a message is removed only after the transport got it.  A message may be *)
(* handed over more than once; it is never skipped and never overtaken.    *)
(* EdgeRuntime is shown to implement this specification.                   *)
(***************************************************************************)
EXTENDS Naturals

VARIABLES accepted,   \* sequence numbers of the messages stored so far
          pending,    \* those still stored
          delivered   \* those the transport got at least once

vars == <<accepted, pending, delivered>>

Init == accepted = {} /\ pending = {} /\ delivered = {}

\* New messages arrive, each younger than everything accepted before.
Accept ==
  /\ accepted \subseteq accepted' /\ accepted' \subseteq Nat
  /\ \A s \in accepted' \ accepted, a \in accepted : a < s
  /\ pending' = pending \cup (accepted' \ accepted)
  /\ UNCHANGED delivered

Oldest(s) == s \in pending /\ \A p \in pending : s <= p

\* The transport gets the oldest stored message, for the first time or again.
Deliver ==
  \E s \in pending :
    /\ Oldest(s)
    /\ delivered' = delivered \cup {s}
    /\ UNCHANGED <<accepted, pending>>

\* The oldest stored message is removed, once it has been delivered.
Remove ==
  \E s \in pending \cap delivered :
    /\ Oldest(s)
    /\ pending' = pending \ {s}
    /\ UNCHANGED <<accepted, delivered>>

Next == Accept \/ Deliver \/ Remove

Spec == Init /\ [][Next]_vars
-----------------------------------------------------------------------------
\* Every accepted message is still stored or was handed to the transport.
NothingLost == accepted = pending \cup delivered

\* First deliveries happen in sequence order: what was never delivered is
\* younger than everything that was.
InOrder == \A s \in accepted \ delivered, d \in delivered : d < s
=============================================================================

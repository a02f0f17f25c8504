---------------------------- MODULE DurableOutbox ----------------------------
(***************************************************************************)
(* What the DurableOutbox port promises (crates/aether-ports/src/outbox.rs *)
(* and ADR 0002): a bounded queue whose content changes by whole enqueues  *)
(* and acknowledgements only, whatever crashes in between.                 *)
(***************************************************************************)
EXTENDS Naturals, FiniteSets

CONSTANTS Messages, MaxId, Capacity

VARIABLES pending,   \* the entries that are stored
          next       \* the identifier of the next entry

promised == <<pending, next>>

Init == pending = {} /\ next = 1

\* A message is stored under an identifier that was never used before
Enqueue == /\ next < MaxId
           /\ Cardinality(pending) < Capacity
           /\ \E m \in Messages : pending' = pending \cup {[id |-> next, msg |-> m]}
           /\ next' = next + 1

\* Some stored entries are removed
Acknowledge == /\ pending' \in SUBSET pending
               /\ UNCHANGED next

Next == Enqueue \/ Acknowledge

Spec == Init /\ [][Next]_promised
=============================================================================

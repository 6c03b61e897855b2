-------------------------- MODULE DeliveryContract --------------------------
(***************************************************************************)
(* What the projection path promises to the registry that publishes the    *)
(* lifecycle events, without saying how: an offset is given back to Kafka   *)
(* only when every record up to it was projected or parked in the DLQ, and  *)
(* nothing that was projected, parked or committed is ever taken back.      *)
(*                                                                         *)
(* Consumer implements this specification.                                  *)
(***************************************************************************)
EXTENDS Naturals, Sequences

CONSTANTS
  Partitions,   \* partitions of the source topics
  Events,       \* event ids; a duplicated record carries the same event
  Home          \* Home[e]: the partition the registry publishes e to

VARIABLES
  log,          \* log[p]: the records of partition p, a sequence of events
  processed,    \* events with a row in processed_events
  dlq,          \* records <<p, o>> with a message in the dead-letter topic
  committed     \* committed[p]: the group's committed offset of p

contractVars == <<log, processed, dlq, committed>>

\* The record at offset o of partition p needs no further delivery.
Settled(p, o) == log[p][o] \in processed \/ <<p, o>> \in dlq

Init ==
  /\ log = [p \in Partitions |-> << >>]
  /\ processed = {}
  /\ dlq = {}
  /\ committed = [p \in Partitions |-> 0]

\* The registry's outbox publisher appends a record.
Produce ==
  /\ \E e \in Events : log' = [log EXCEPT ![Home[e]] = Append(@, e)]
  /\ UNCHANGED <<processed, dlq, committed>>

\* An event that was published is projected.
Project ==
  /\ \E p \in Partitions : \E o \in 1..Len(log[p]) :
       processed' = processed \union {log[p][o]}
  /\ UNCHANGED <<log, dlq, committed>>

\* A published record is parked.
Park ==
  /\ \E p \in Partitions : \E o \in 1..Len(log[p]) : dlq' = dlq \union {<<p, o>>}
  /\ UNCHANGED <<log, processed, committed>>

\* Offsets advance over settled records only.
Commit ==
  /\ committed' \in [Partitions -> Nat]
  /\ \A p \in Partitions :
       /\ committed[p] <= committed'[p]
       /\ committed'[p] <= Len(log[p])
       /\ \A o \in 1..committed'[p] : Settled(p, o)
  /\ UNCHANGED <<log, processed, dlq>>

Next == Produce \/ Project \/ Park \/ Commit

Spec == Init /\ [][Next]_contractVars
=============================================================================

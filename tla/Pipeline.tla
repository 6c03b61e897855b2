------------------------------ MODULE Pipeline ------------------------------
(***************************************************************************)
(* Consumer and replayer around the source topic and the DLQ: the events of   *)
(* one diploma, which the registry publishes in order, are projected or       *)
(* parked, and a replayer without limit or dry run puts what is parked back    *)
(* behind the newer events.                                                  *)
(*                                                                         *)
(* One step handles one record with all its retries; Consumer and Replayer     *)
(* show the steps inside. Batches are of any size: a commit may come after     *)
(* any record, and a crash goes back to the last commit.                     *)
(* Definitions introduced by "Mistake:" are not part of the specification.   *)
(***************************************************************************)
EXTENDS Naturals, Sequences, FiniteSets

CONSTANTS
  NEvents,    \* events of the diploma; event e + 1 supersedes event e
  Kind,       \* Kind[e]: "good", "poison" (never writes) or "conflict" (writes
              \* the verification record, then always fails)
  MaxCopies,  \* bound: copies of an event that cannot be projected after which
              \* the operator's event filter keeps it out
  MaxTwice,   \* bound: events the registry publishes a second time
  MaxFaults   \* bound: crashes and failures of good projections

ASSUME BoundsAssumption == {NEvents, MaxCopies, MaxTwice, MaxFaults} \subseteq Nat
Events == 1..NEvents
ASSUME KindAssumption == Kind \in [Events -> {"good", "poison", "conflict"}]

VARIABLES
  source,     \* the source topic
  dlq,        \* the DLQ topic: the events of its messages
  row,        \* the event that wrote the verification record last, 0 for none
  processed,  \* processed_events
  cursor, committed,              \* the consumer's position and committed offset
  replayCursor, replayCommitted,  \* the replayer's
  announced,  \* events the registry published
  twice, faults  \* what is left of the bounds

topics   == <<source, dlq>>
model    == <<row, processed>>
consumer == <<cursor, committed>>
replayer == <<replayCursor, replayCommitted>>
bounds   == <<announced, twice, faults>>
vars     == <<topics, model, consumer, replayer, bounds>>

Init ==
  /\ source = << >> /\ dlq = << >>
  /\ row = 0 /\ processed = {}
  /\ cursor = 0 /\ committed = 0
  /\ replayCursor = 0 /\ replayCommitted = 0
  /\ announced = 0 /\ twice = MaxTwice /\ faults = MaxFaults

Copies(e) == Cardinality({i \in 1..Len(source) : source[i] = e})
Parked(e) == \E i \in 1..Len(dlq) : dlq[i] = e
Fault == faults > 0 /\ faults' = faults - 1

-----------------------------------------------------------------------------
\* The outbox publisher publishes the next event, or an earlier one again.
PublishNext ==
  /\ announced < NEvents
  /\ announced' = announced + 1
  /\ source' = Append(source, announced + 1)
  /\ UNCHANGED <<dlq, model, consumer, replayer, twice, faults>>

PublishAgain ==
  /\ twice > 0 /\ twice' = twice - 1
  /\ \E e \in 1..announced : source' = Append(source, e)
  /\ UNCHANGED <<dlq, model, consumer, replayer, announced, faults>>

-----------------------------------------------------------------------------
More  == cursor < Len(source)
Event == source[cursor + 1]
Advance == cursor' = cursor + 1 /\ UNCHANGED committed

\* IsProcessed.
SkipProcessed ==
  /\ More /\ Event \in processed
  /\ Advance
  /\ UNCHANGED <<topics, model, replayer, bounds>>

\* Mistake: the event is projected although it is marked processed.
ProjectAgain ==
  /\ More /\ Kind[Event] = "good"
  /\ row' = Event
  /\ processed' = processed \union {Event}
  /\ Advance
  /\ UNCHANGED <<topics, replayer, bounds>>

\* Handle succeeds, at once or in a retry.
Project ==
  /\ More /\ Event \notin processed /\ Kind[Event] = "good"
  /\ row' = Event
  /\ processed' = processed \union {Event}
  /\ Advance
  /\ UNCHANGED <<topics, replayer, bounds>>

\* Mistake: the failure is logged and the record left behind.
DropGood ==
  /\ More /\ Event \notin processed /\ Kind[Event] = "good" /\ Fault
  /\ row' \in {row, Event}
  /\ Advance
  /\ UNCHANGED <<topics, processed, replayer, announced, twice>>

\* Every attempt fails, before or after the first upsert, and the record goes to
\* the DLQ.
ParkGood ==
  /\ More /\ Event \notin processed /\ Kind[Event] = "good" /\ Fault
  /\ row' \in {row, Event}
  /\ dlq' = Append(dlq, Event)
  /\ Advance
  /\ UNCHANGED <<source, processed, replayer, announced, twice>>

\* An event that cannot be projected goes to the DLQ each time it is delivered.
ParkBad ==
  /\ More /\ Kind[Event] # "good"
  /\ row' = IF Kind[Event] = "conflict" THEN Event ELSE row
  /\ dlq' = Append(dlq, Event)
  /\ Advance
  /\ UNCHANGED <<source, processed, replayer, bounds>>

\* CommitUncommittedOffsets after a batch.
Commit ==
  /\ committed < cursor
  /\ committed' = cursor
  /\ UNCHANGED <<cursor, topics, model, replayer, bounds>>

\* The consumer dies, possibly after some statements of Handle or after the
\* write to the DLQ, and is restarted.
Crash ==
  /\ Fault
  /\ cursor' = committed
  /\ \/ UNCHANGED <<row, dlq, processed>>
     \/ /\ More /\ Event \notin processed /\ Kind[Event] # "poison"
        /\ row' = Event /\ UNCHANGED <<dlq, processed>>
     \/ /\ More /\ Event \notin processed /\ Kind[Event] = "good"
        /\ row' = Event /\ processed' = processed \union {Event} /\ UNCHANGED dlq
     \/ /\ More /\ Kind[Event] # "good"
        /\ row' = IF Kind[Event] = "conflict" THEN Event ELSE row
        /\ dlq' = Append(dlq, Event) /\ UNCHANGED processed
  /\ UNCHANGED <<source, committed, replayer, announced, twice>>

-----------------------------------------------------------------------------
Message == dlq[replayCursor + 1]

\* The operator's filter does not let the message pass any more.
Filtered(e) == Kind[e] # "good" /\ Copies(e) >= MaxCopies

\* Mistake: the message is counted and not published.
ReplayOnlyCounts ==
  /\ replayCursor < Len(dlq) /\ ~Filtered(Message)
  /\ replayCursor' = replayCursor + 1
  /\ UNCHANGED <<topics, model, consumer, replayCommitted, bounds>>

\* A message is put back into the source topic.
Replay ==
  /\ replayCursor < Len(dlq) /\ ~Filtered(Message)
  /\ source' = Append(source, Message)
  /\ replayCursor' = replayCursor + 1
  /\ UNCHANGED <<dlq, model, consumer, replayCommitted, bounds>>

SkipFiltered ==
  /\ replayCursor < Len(dlq) /\ Filtered(Message)
  /\ replayCursor' = replayCursor + 1
  /\ UNCHANGED <<topics, model, consumer, replayCommitted, bounds>>

ReplayCommit ==
  /\ replayCommitted < replayCursor
  /\ replayCommitted' = replayCursor
  /\ UNCHANGED <<replayCursor, topics, model, consumer, bounds>>

\* The replayer dies, possibly after a publish, and is started again.
ReplayCrash ==
  /\ Fault
  /\ replayCursor' = replayCommitted
  /\ source' \in {source} \union
       IF replayCursor < Len(dlq) THEN {Append(source, Message)} ELSE {}
  /\ UNCHANGED <<dlq, model, consumer, replayCommitted, announced, twice>>

-----------------------------------------------------------------------------
Consume == SkipProcessed \/ Project \/ ParkGood \/ ParkBad
Next ==
  \/ PublishNext \/ PublishAgain
  \/ Consume \/ Commit \/ Crash
  \/ Replay \/ SkipFiltered \/ ReplayCommit \/ ReplayCrash

Spec == Init /\ [][Next]_vars

\* Both processes run, and are restarted when they end.
FairSpec ==
  /\ Spec
  /\ WF_vars(Consume) /\ WF_vars(Commit)
  /\ WF_vars(Replay \/ SkipFiltered) /\ WF_vars(ReplayCommit)

-----------------------------------------------------------------------------
\* The variables hold values of the expected kind, and positions lie in order.
TypeOK ==
  /\ source \in Seq(Events) /\ dlq \in Seq(Events)
  /\ row \in 0..NEvents /\ processed \subseteq Events
  /\ committed \in 0..cursor /\ cursor \in 0..Len(source)
  /\ replayCommitted \in 0..replayCursor /\ replayCursor \in 0..Len(dlq)
  /\ announced \in 0..NEvents /\ twice \in 0..MaxTwice /\ faults \in 0..MaxFaults

\* The read model shows an event older than one already processed only if the
\* older one had been parked: neither redelivery nor a repeated publication
\* takes a diploma back, only the DLQ does (and its replay, for good).
StaleRowWasParked ==
  \A e \in processed : row < e => row # 0 /\ Parked(row)

\* An event that is processed is not written again, however it comes back: by
\* redelivery, by a second publication or by the replay of an older failure.
ProjectedOnce ==
  [][\A e \in processed : Kind[e] = "good" /\ row' = e => row = e]_vars

\* Every event that can be projected is, once faults stop and as long as the
\* replayer runs, also after it was parked and behind any poison.
EventuallyProjected ==
  \A e \in Events : Kind[e] = "good" => (announced >= e ~> e \in processed)
=============================================================================

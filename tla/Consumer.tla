------------------------------ MODULE Consumer ------------------------------
(***************************************************************************)
(* The projection path of diasoft-gateway-consumer: one or more consumer    *)
(* processes of one Kafka consumer group poll batches of lifecycle events,  *)
(* project each record into PostgreSQL (usecase.ProjectEvents.Handle, one   *)
(* statement at a time and without a transaction around them), retry,       *)
(* write what keeps failing to the DLQ, and commit the whole batch.         *)
(*                                                                         *)
(* The environment: the registry publishes (possibly twice), the group      *)
(* coordinator moves partitions at any time, processes crash, are stopped   *)
(* by a signal and are started again, and any call to PostgreSQL, Redis or  *)
(* Kafka may fail, with or without having taken effect.                     *)
(*                                                                         *)
(* Definitions introduced by "Mistake:" are not part of the specification.   *)
(* Each is a plausible bug in the definition after it; a property that       *)
(* would not notice any of them would say nothing about the code.            *)
(***************************************************************************)
EXTENDS Naturals, Sequences, FiniteSets

CONSTANTS
  Consumers,      \* the consumer processes of the group
  Partitions,     \* partitions of the diploma and share-link topics
  Events,         \* event ids
  Keys,           \* rows of the read model: diploma ids and share tokens
  Home,           \* Home[e]: partition the registry publishes e to
  Key,            \* Key[e]: the row e is about
  Kind,           \* Kind[e]: how the record decodes and projects
  RetryAttempts,  \* KafkaConfig.ProjectRetryAttempts
  WithDLQ,        \* processes whose KafkaConfig.DLQTopic is not blank
  NoOne,          \* owner of a partition no live member holds
  NoRecord,       \* no record is being handled
  MaxLog,         \* bound: records per partition
  MaxFaults       \* bound: crashes, signals, takeovers, failed calls in total

(***************************************************************************)
(* "diploma", "sharelink" project normally. "nameless" is a diploma event   *)
(* with a blank number or student name, which has no account. "conflict" is *)
(* one whose auth_users insert violates the primary key (the number         *)
(* changed), after its record was written. "rejected" fails every time      *)
(* and writes nothing: blank id or type, unsupported type, bad payload or   *)
(* a constraint of the first upsert. "malformed" is not an envelope.        *)
(***************************************************************************)
Kinds == {"diploma", "nameless", "sharelink", "conflict", "rejected", "malformed"}
AccountKinds == {"diploma", "conflict"}
DiplomaKinds == AccountKinds \union {"nameless"}

ASSUME HomeAssumption  == Home \in [Events -> Partitions]
ASSUME KeyAssumption   == Key \in [Events -> Keys]
ASSUME KindAssumption  == Kind \in [Events -> Kinds]
ASSUME KeyedAssumption == \A e, f \in Events : Key[e] = Key[f] => Home[e] = Home[f]
ASSUME NobodyAssumption == NoOne \notin Consumers
ASSUME NoRecordAssumption == NoRecord \notin Partitions \X Nat
ASSUME BoundsAssumption == /\ RetryAttempts \in Nat /\ MaxLog \in Nat
                           /\ MaxFaults \in Nat /\ WithDLQ \subseteq Consumers

VARIABLES
  \* Kafka
  log,        \* log[p]: records of p, a sequence of events
  committed,  \* committed[p]: committed offset of the group
  dlq,        \* source records <<p, o>> that have a message in the DLQ topic
  owner,      \* owner[p]: the member p is assigned to
  position,   \* position[p]: last offset fetched by p's owner in this session
  \* PostgreSQL and Redis
  row,        \* row[k]: offset of the record that wrote row k last, 0 for none
  writes,     \* <<e, t>>: the upsert of event e into table t was applied
  processed,  \* event ids in processed_events
  cache,      \* cache[k]: "dirty" if k was written since its last invalidation
  \* one consumer process
  stage,      \* stage[c]: where Run of c stands
  todo,       \* todo[c]: records of the polled batch still to be handled
  current,    \* current[c]: the record being handled
  attempt,    \* attempt[c]: retries of the current record so far
  cancelled,  \* cancelled[c]: the context of c was cancelled by a signal
  \* bound
  faults      \* remaining budget of faults

kafka  == <<log, committed, dlq, position>>
store  == <<row, writes, processed, cache>>
worker == <<stage, todo, current, attempt, cancelled, owner>>
vars   == <<kafka, store, worker, faults>>

Stages == {"down", "poll", "batch", "check", "upsert", "auth", "invalidate",
           "mark", "backoff", "park"}
Offsets == Nat \ {0}
Records == Partitions \X Offsets

\* The event of record r, of the current record of c, and the row it is about.
EventOf(r) == log[r[1]][r[2]]
Event(c)   == EventOf(current[c])
Row(c)     == Key[Event(c)]

\* A record that needs no further delivery.
Settled(r) == EventOf(r) \in processed \/ r \in dlq

Init ==
  /\ log = [p \in Partitions |-> << >>]
  /\ committed = [p \in Partitions |-> 0]
  /\ dlq = {}
  /\ owner = [p \in Partitions |-> NoOne]
  /\ position = [p \in Partitions |-> 0]
  /\ row = [k \in Keys |-> 0]
  /\ writes = {}
  /\ processed = {}
  /\ cache = [k \in Keys |-> "clean"]
  /\ stage = [c \in Consumers |-> "down"]
  /\ todo = [c \in Consumers |-> {}]
  /\ current = [c \in Consumers |-> NoRecord]
  /\ attempt = [c \in Consumers |-> 0]
  /\ cancelled = [c \in Consumers |-> FALSE]
  /\ faults = MaxFaults

-----------------------------------------------------------------------------
(***************************************************************************)
(* What a call may return, and where control goes.                          *)
(***************************************************************************)

\* A call succeeds; takes effect but returns an error; or fails altogether.
Outcomes == {"ok", "lost", "failed"}

\* Calls under a cancelled context fail; other failures use up the budget.
Call(c, out) ==
  \/ out = "ok" /\ ~cancelled[c] /\ faults' = faults
  \/ out # "ok" /\ cancelled[c] /\ faults' = faults
  \/ out # "ok" /\ ~cancelled[c] /\ faults > 0 /\ faults' = faults - 1

Goto(c, s) ==
  /\ stage' = [stage EXCEPT ![c] = s]
  /\ UNCHANGED <<todo, current, attempt, cancelled, owner>>

\* Run returns and the process ends: the batch is forgotten, the client
\* leaves the group and its partitions await another member.
Exit(c) ==
  /\ stage' = [stage EXCEPT ![c] = "down"]
  /\ todo' = [todo EXCEPT ![c] = {}]
  /\ current' = [current EXCEPT ![c] = NoRecord]
  /\ attempt' = [attempt EXCEPT ![c] = 0]
  /\ cancelled' = [cancelled EXCEPT ![c] = FALSE]
  /\ owner' = [p \in Partitions |-> IF owner[p] = c THEN NoOne ELSE owner[p]]

\* processRecord returned nil.
RecordDone(c) ==
  /\ stage' = [stage EXCEPT ![c] = "batch"]
  /\ todo' = [todo EXCEPT ![c] = @ \ {current[c]}]
  /\ current' = [current EXCEPT ![c] = NoRecord]
  /\ attempt' = [attempt EXCEPT ![c] = 0]
  /\ UNCHANGED <<cancelled, owner>>

\* Mistake: the retry loop runs once more than configured.
HandleFailedOneMore(c) ==
  \/ cancelled[c] /\ Exit(c)
  \/ /\ ~cancelled[c] /\ attempt[c] <= RetryAttempts
     /\ stage' = [stage EXCEPT ![c] = "backoff"]
     /\ attempt' = [attempt EXCEPT ![c] = @ + 1]
     /\ UNCHANGED <<todo, current, cancelled, owner>>
  \/ ~cancelled[c] /\ attempt[c] > RetryAttempts /\ Goto(c, "park")

\* Mistake: the first failure already counts as a retry.
HandleFailedOneLess(c) ==
  \/ cancelled[c] /\ Exit(c)
  \/ /\ ~cancelled[c] /\ attempt[c] + 1 < RetryAttempts
     /\ stage' = [stage EXCEPT ![c] = "backoff"]
     /\ attempt' = [attempt EXCEPT ![c] = @ + 1]
     /\ UNCHANGED <<todo, current, cancelled, owner>>
  \/ ~cancelled[c] /\ attempt[c] + 1 >= RetryAttempts /\ Goto(c, "park")

\* Handle returned an error: stop if the context is cancelled, retry, or give up.
HandleFailed(c) ==
  \/ cancelled[c] /\ Exit(c)
  \/ /\ ~cancelled[c] /\ attempt[c] < RetryAttempts
     /\ stage' = [stage EXCEPT ![c] = "backoff"]
     /\ attempt' = [attempt EXCEPT ![c] = @ + 1]
     /\ UNCHANGED <<todo, current, cancelled, owner>>
  \/ ~cancelled[c] /\ attempt[c] = RetryAttempts /\ Goto(c, "park")

-----------------------------------------------------------------------------
(***************************************************************************)
(* The poll loop.                                                           *)
(***************************************************************************)

Owned(c) == {p \in Partitions : owner[p] = c}
Backlog(c) == {p \in Owned(c) : position[p] < Len(log[p])}

\* PollFetches returns some records of c's partitions.
Poll(c) ==
  /\ stage[c] = "poll" /\ ~cancelled[c]
  /\ Backlog(c) # {}
  /\ \E n \in [Backlog(c) -> 1..MaxLog] :
       /\ \A p \in Backlog(c) : position[p] <= n[p] /\ n[p] <= Len(log[p])
       /\ \E p \in Backlog(c) : position[p] < n[p]
       /\ position' = [p \in Partitions |-> IF p \in Backlog(c) THEN n[p] ELSE position[p]]
       /\ todo' = [todo EXCEPT ![c] =
            UNION {{<<p, o>> : o \in (position[p] + 1)..n[p]} : p \in Backlog(c)}]
  /\ stage' = [stage EXCEPT ![c] = "batch"]
  /\ UNCHANGED <<current, attempt, cancelled, owner, log, committed, dlq, store, faults>>

\* PollFetches blocks while there is nothing to fetch.
Idle(c) ==
  /\ stage[c] = "poll" /\ ~cancelled[c] /\ Backlog(c) = {}
  /\ UNCHANGED vars

\* The context is cancelled, or a fetch failed: Run returns.
PollEnds(c) ==
  /\ stage[c] = "poll"
  /\ \E out \in {"failed"} : Call(c, out)
  /\ Exit(c)
  /\ UNCHANGED <<kafka, store>>

\* Mistake: the records of a partition are handled in any order.
BeginAnyOrder(c) ==
  /\ stage[c] = "batch"
  /\ \E r \in todo[c] :
       /\ current' = [current EXCEPT ![c] = r]
       /\ stage' = [stage EXCEPT ![c] =
            IF Kind[EventOf(r)] = "malformed" THEN "park" ELSE "check"]
  /\ UNCHANGED <<todo, attempt, cancelled, owner, kafka, store, faults>>

\* EachRecord: the next record of some partition of the batch is decoded; one
\* that is no envelope goes to the DLQ without a retry.
Begin(c) ==
  /\ stage[c] = "batch"
  /\ \E r \in todo[c] :
       /\ \A s \in todo[c] : s[1] = r[1] => r[2] <= s[2]
       /\ current' = [current EXCEPT ![c] = r]
       /\ stage' = [stage EXCEPT ![c] =
            IF Kind[EventOf(r)] = "malformed" THEN "park" ELSE "check"]
  /\ UNCHANGED <<todo, attempt, cancelled, owner, kafka, store, faults>>

\* CommitUncommittedOffsets after the whole batch, for the partitions c still
\* owns. On an error any part of the commit may have reached the coordinator.
Commit(c) ==
  /\ stage[c] = "batch" /\ todo[c] = {}
  /\ \E out \in Outcomes, part \in SUBSET Owned(c) :
       /\ Call(c, out)
       /\ out = "ok" => part = Owned(c)
       /\ out = "failed" => part = {}
       /\ committed' = [p \in Partitions |-> IF p \in part THEN position[p] ELSE committed[p]]
       /\ IF out = "ok" THEN Goto(c, "poll") ELSE Exit(c)
  /\ UNCHANGED <<log, dlq, position, store>>

-----------------------------------------------------------------------------
(***************************************************************************)
(* ProjectEvents.Handle, one statement at a time.                           *)
(***************************************************************************)

\* Mistake: the event is claimed in processed_events before it is projected.
CheckAndClaim(c) ==
  /\ stage[c] = "check"
  /\ \E out \in Outcomes :
       /\ Call(c, out)
       /\ processed' = IF out = "failed" THEN processed ELSE processed \union {Event(c)}
       /\ \/ out = "ok" /\ Event(c) \in processed /\ RecordDone(c)
          \/ out = "ok" /\ Event(c) \notin processed /\ Goto(c, "upsert")
          \/ out # "ok" /\ HandleFailed(c)
  /\ UNCHANGED <<kafka, row, writes, cache>>

\* IsProcessed; a processed event ends Handle with no error.
Check(c) ==
  /\ stage[c] = "check"
  /\ \E out \in Outcomes :
       /\ Call(c, out)
       /\ \/ out = "ok" /\ Event(c) \in processed /\ RecordDone(c)
          \/ out = "ok" /\ Event(c) \notin processed /\ Goto(c, "upsert")
          \/ out # "ok" /\ HandleFailed(c)
  /\ UNCHANGED <<kafka, store>>

\* Decode the payload by type and upsert the verification record or share link.
Upsert(c) ==
  /\ stage[c] = "upsert"
  /\ Kind[Event(c)] # "rejected"
  /\ \E out \in Outcomes :
       /\ Call(c, out)
       /\ IF out = "failed" THEN UNCHANGED <<row, writes, cache>>
          ELSE /\ row' = [row EXCEPT ![Row(c)] = current[c][2]]
               /\ writes' = writes \union {<<Event(c), "record">>}
               /\ cache' = IF Kind[Event(c)] \in DiplomaKinds
                           THEN [cache EXCEPT ![Row(c)] = "dirty"] ELSE cache
       /\ IF out = "ok"
          THEN Goto(c, IF Kind[Event(c)] \in DiplomaKinds THEN "auth" ELSE "mark")
          ELSE HandleFailed(c)
  /\ UNCHANGED <<kafka, processed>>

\* The event cannot be projected, whatever the database does.
Reject(c) ==
  /\ stage[c] = "upsert"
  /\ Kind[Event(c)] = "rejected"
  /\ HandleFailed(c)
  /\ UNCHANGED <<kafka, store, faults>>

\* Mistake: the cache is not invalidated after the upserts.
AuthThenMark(c) ==
  /\ stage[c] = "auth"
  /\ Kind[Event(c)] = "diploma"
  /\ \E out \in Outcomes :
       /\ Call(c, out)
       /\ writes' = IF out = "failed" THEN writes
                    ELSE writes \union {<<Event(c), "auth">>}
       /\ IF out = "ok" THEN Goto(c, "mark") ELSE HandleFailed(c)
  /\ UNCHANGED <<kafka, row, processed, cache>>

\* UpsertStudentAuthUser.
Auth(c) ==
  /\ stage[c] = "auth"
  /\ Kind[Event(c)] = "diploma"
  /\ \E out \in Outcomes :
       /\ Call(c, out)
       /\ writes' = IF out = "failed" THEN writes
                    ELSE writes \union {<<Event(c), "auth">>}
       /\ IF out = "ok" THEN Goto(c, "invalidate") ELSE HandleFailed(c)
  /\ UNCHANGED <<kafka, row, processed, cache>>

\* UpsertStudentAuthUser returns before its statement: there is no account.
AuthNameless(c) ==
  /\ stage[c] = "auth"
  /\ Kind[Event(c)] = "nameless"
  /\ Goto(c, "invalidate")
  /\ UNCHANGED <<kafka, store, faults>>

\* UpsertStudentAuthUser runs into the primary key of another login's row.
AuthConflict(c) ==
  /\ stage[c] = "auth"
  /\ Kind[Event(c)] = "conflict"
  /\ HandleFailed(c)
  /\ UNCHANGED <<kafka, store, faults>>

\* invalidateVerificationCache: the errors of both deletes are ignored.
Invalidate(c) ==
  /\ stage[c] = "invalidate"
  /\ \E out \in Outcomes :
       /\ Call(c, out)
       /\ cache' = [cache EXCEPT ![Row(c)] = IF out = "failed" THEN "missed" ELSE "clean"]
  /\ Goto(c, "mark")
  /\ UNCHANGED <<kafka, row, writes, processed>>

\* MarkProcessed, the last statement of Handle.
Mark(c) ==
  /\ stage[c] = "mark"
  /\ \E out \in Outcomes :
       /\ Call(c, out)
       /\ processed' = IF out = "failed" THEN processed ELSE processed \union {Event(c)}
       /\ IF out = "ok" THEN RecordDone(c) ELSE HandleFailed(c)
  /\ UNCHANGED <<kafka, row, writes, cache>>

\* sleepContext between two attempts.
Backoff(c) ==
  /\ stage[c] = "backoff"
  /\ IF cancelled[c] THEN Exit(c) ELSE Goto(c, "check")
  /\ UNCHANGED <<kafka, store, faults>>

\* Mistake: an error of the DLQ writer is logged and the record is skipped.
ParkIgnoresError(c) ==
  /\ stage[c] = "park" /\ c \in WithDLQ
  /\ \E out \in Outcomes :
       /\ Call(c, out)
       /\ dlq' = IF out = "failed" THEN dlq ELSE dlq \union {current[c]}
  /\ RecordDone(c)
  /\ UNCHANGED <<log, committed, position, store>>

\* Mistake: the cause is returned although the DLQ has the record.
ParkThenFail(c) ==
  /\ stage[c] = "park" /\ c \in WithDLQ
  /\ \E out \in Outcomes :
       /\ Call(c, out)
       /\ dlq' = IF out = "failed" THEN dlq ELSE dlq \union {current[c]}
  /\ Exit(c)
  /\ UNCHANGED <<log, committed, position, store>>

\* handleFailure: the record is written to the DLQ, or Run returns the error.
ParkRecord(c) ==
  /\ stage[c] = "park" /\ c \in WithDLQ
  /\ \E out \in Outcomes :
       /\ Call(c, out)
       /\ dlq' = IF out = "failed" THEN dlq ELSE dlq \union {current[c]}
       /\ IF out = "ok" THEN RecordDone(c) ELSE Exit(c)
  /\ UNCHANGED <<log, committed, position, store>>

\* Mistake: without a DLQ writer the record is dropped.
NoDLQSkips(c) ==
  /\ stage[c] = "park" /\ c \notin WithDLQ
  /\ RecordDone(c)
  /\ UNCHANGED <<kafka, store, faults>>

\* handleFailure without a DLQ writer.
NoDLQ(c) ==
  /\ stage[c] = "park" /\ c \notin WithDLQ
  /\ Exit(c)
  /\ UNCHANGED <<kafka, store, faults>>

-----------------------------------------------------------------------------
(***************************************************************************)
(* The environment.                                                         *)
(***************************************************************************)

\* The registry publishes an event, possibly one it published before.
Publish(e) ==
  /\ Len(log[Home[e]]) < MaxLog
  /\ log' = [log EXCEPT ![Home[e]] = Append(@, e)]
  /\ UNCHANGED <<committed, dlq, position, store, worker, faults>>

\* A consumer process is started and joins the group.
Start(c) ==
  /\ stage[c] = "down"
  /\ Goto(c, "poll")
  /\ UNCHANGED <<kafka, store, faults>>

\* Mistake: every session starts at the beginning of the partition.
AssignFromStart(p, c) ==
  /\ stage[c] # "down"
  /\ \/ owner[p] = NoOne /\ faults' = faults
     \/ owner[p] # NoOne /\ faults > 0 /\ faults' = faults - 1
  /\ owner' = [owner EXCEPT ![p] = c]
  /\ position' = [position EXCEPT ![p] = 0]
  /\ UNCHANGED <<log, committed, dlq, store, stage, todo, current, attempt, cancelled>>

\* The group coordinator gives p to c, which fetches from the committed offset.
\* Taking p from a live member is a fault: that member keeps its batch.
Assign(p, c) ==
  /\ stage[c] # "down"
  /\ \/ owner[p] = NoOne /\ faults' = faults
     \/ owner[p] # NoOne /\ faults > 0 /\ faults' = faults - 1
  /\ owner' = [owner EXCEPT ![p] = c]
  /\ position' = [position EXCEPT ![p] = committed[p]]
  /\ UNCHANGED <<log, committed, dlq, store, stage, todo, current, attempt, cancelled>>

\* The process dies at any point.
Crash(c) ==
  /\ stage[c] # "down" /\ faults > 0
  /\ faults' = faults - 1
  /\ Exit(c)
  /\ UNCHANGED <<kafka, store>>

\* SIGTERM or SIGINT cancels the context of Run.
Cancel(c) ==
  /\ stage[c] # "down" /\ ~cancelled[c] /\ faults > 0
  /\ faults' = faults - 1
  /\ cancelled' = [cancelled EXCEPT ![c] = TRUE]
  /\ UNCHANGED <<kafka, store, stage, todo, current, attempt, owner>>

-----------------------------------------------------------------------------
Handle(c) ==
  \/ Check(c) \/ Upsert(c) \/ Reject(c) \/ Auth(c) \/ AuthNameless(c)
  \/ AuthConflict(c) \/ Invalidate(c) \/ Mark(c)

Run(c) ==
  \/ Start(c) \/ Poll(c) \/ PollEnds(c) \/ Begin(c) \/ Handle(c)
  \/ Backoff(c) \/ ParkRecord(c) \/ NoDLQ(c) \/ Commit(c)

Next ==
  \/ \E c \in Consumers : Run(c) \/ Idle(c) \/ Crash(c) \/ Cancel(c)
  \/ \E p \in Partitions, c \in Consumers : Assign(p, c)
  \/ \E e \in Events : Publish(e)

Spec == Init /\ [][Next]_vars

\* The process keeps running its loop and is restarted when it ends, and the
\* coordinator hands orphaned partitions to a live member.
Fairness ==
  /\ \A c \in Consumers : WF_vars(Run(c))
  /\ \A p \in Partitions : WF_vars(owner[p] = NoOne /\ \E c \in Consumers : Assign(p, c))

FairSpec == Spec /\ Fairness

-----------------------------------------------------------------------------
(***************************************************************************)
(* Properties.                                                              *)
(***************************************************************************)

\* The variables hold values of the expected kind: positions and committed
\* offsets are offsets, a batch and the DLQ hold records, and a process has a
\* current record exactly in the stages that handle one.
TypeOK ==
  /\ log \in [Partitions -> Seq(Events)]
  /\ committed \in [Partitions -> Nat]
  /\ dlq \subseteq Records
  /\ owner \in [Partitions -> Consumers \union {NoOne}]
  /\ position \in [Partitions -> Nat]
  /\ row \in [Keys -> Nat]
  /\ writes \subseteq Events \X {"record", "auth"}
  /\ processed \subseteq Events
  /\ cache \in [Keys -> {"clean", "dirty", "missed"}]
  /\ stage \in [Consumers -> Stages]
  /\ todo \in [Consumers -> SUBSET Records]
  /\ current \in [Consumers -> Records \union {NoRecord}]
  /\ attempt \in [Consumers -> 0..RetryAttempts]
  /\ cancelled \in [Consumers -> BOOLEAN]
  /\ faults \in 0..MaxFaults

\* Every record below a committed offset was projected or has a message in the
\* DLQ: no crash, signal, failed call or takeover in the middle of a batch makes
\* the group skip a record (Run commits only what processRecord returned nil for).
NoRecordLost ==
  \A p \in Partitions : \A o \in 1..committed[p] : Settled(<<p, o>>)

\* An event is marked processed only when all of its rows were written, the
\* student's account included where the event has one: Handle never skips half
\* of a projection that an earlier attempt, or an earlier process, left unfinished.
ProcessedIsComplete ==
  \A e \in processed :
    /\ <<e, "record">> \in writes
    /\ Kind[e] \in AccountKinds => <<e, "auth">> \in writes

\* With a single consumer process, a diploma row written without an attempt to
\* invalidate the cache belongs to an event that is not marked processed, so
\* that a redelivery or a replay of the event still invalidates it.
UninvalidatedIsUnprocessed ==
  \A k \in Keys : cache[k] = "dirty" =>
    \E e \in Events : /\ Key[e] = k /\ e \notin processed
                      /\ <<e, "record">> \in writes

\* An event that the database could have projected is parked only after
\* RetryAttempts + 1 failed calls of its own: one failure, or a shutdown that
\* cancels the calls, never sends it to the DLQ.
ParkedAfterAllRetries ==
  LET good == {r \in dlq : Kind[EventOf(r)] \in {"diploma", "nameless", "sharelink"}}
  IN Cardinality(good) * (RetryAttempts + 1) <= MaxFaults - faults

\* With a single consumer process, a read-model row goes back to the content of
\* an earlier record only when that record had been parked in the DLQ (and is
\* delivered again after a crash): redelivery alone never undoes a later event.
RegressOnlyFromDLQ ==
  [][\A e \in Events : LET k == Key[e] IN
       row'[k] < row[k] => <<Home[e], row'[k]>> \in dlq]_vars

\* Committed offsets never move back, whichever member commits: a member that
\* lost a partition cannot undo its successor's commit.
CommitNeverRewinds ==
  [][\A p \in Partitions : committed[p] <= committed'[p]]_vars

\* "processed_events protects projection from duplicate handling": no event is
\* written to the read model once it is marked processed.
NoDuplicateHandling ==
  [][\A c \in Consumers : Upsert(c) => Event(c) \notin processed]_vars

\* The committed offset of a partition catches up with its last record again and
\* again, poison records included, once faults stop: "DLQ protects the consumer from
\* poison-message loops".
EverythingIsCommitted ==
  \A p \in Partitions : []<>(committed[p] = Len(log[p]))

\* The consumer group implements the delivery contract of the projection path.
Contract ==
  INSTANCE DeliveryContract
    WITH Partitions <- Partitions, Events <- Events, Home <- Home,
         log <- log, processed <- processed, dlq <- dlq, committed <- committed
ImplementsContract == Contract!Spec
=============================================================================

------------------------------ MODULE Replayer ------------------------------
(***************************************************************************)
(* diasoft-gateway-dlq-replayer: an operator starts it, each time with some   *)
(* policy, to put the messages of the DLQ topic back into the topics they     *)
(* came from. It polls batches as a consumer group of its own, skips what is  *)
(* malformed or filtered, publishes the rest (or only counts it, in a dry     *)
(* run), commits the polled batch and ends at the replay limit.              *)
(*                                                                         *)
(* One replayer runs at a time. It may die or lose its group session           *)
(* anywhere, and any call to Kafka may fail, with or without having taken     *)
(* effect; a signal shows as a call that fails, for it cancels the context    *)
(* of the calls and nothing else.                                            *)
(* Definitions introduced by "Mistake:" are not part of the specification.   *)
(***************************************************************************)
EXTENDS Naturals, Sequences, FiniteSets

CONSTANTS
  Partitions,  \* partitions of the DLQ topic
  Messages,    \* kinds of DLQ message
  Malformed,   \* those that are not JSON or have no source_topic
  Fields,      \* the fields a policy can filter by
  Attr,        \* Attr[m][f]: the trimmed value of field f of message m
  Configs,     \* configurations an operator starts the replayer with: records
               \* with fields policy, limit and dryRun
  MaxLog,      \* bound: messages per partition
  MaxFaults    \* bound: crashes and failed calls
ASSUME MalformedAssumption == Malformed \subseteq Messages
ASSUME ConfigsAssumption ==
  \A cfg \in Configs : cfg.limit \in Nat /\ cfg.dryRun \in BOOLEAN
ASSUME BoundsAssumption == MaxLog \in Nat /\ MaxFaults \in Nat

VARIABLES
  dlq,        \* dlq[p]: the messages of partition p
  committed,  \* committed[p]: committed offset of the replay group
  published,  \* DLQ records published to their source topics, in order
  stage,      \* where Run stands
  config,     \* the configuration of this or the last run
  position,   \* position[p]: last offset fetched by this run
  todo,       \* records of the polled batch still to be looked at
  handled,    \* handledMatches of this run
  started,    \* how much was published when this run started (history)
  faults      \* remaining budget of faults

run  == <<stage, config, position, todo, handled, started>>
vars == <<dlq, committed, published, run, faults>>

Records == Partitions \X (Nat \ {0})
Message(r) == dlq[r[1]][r[2]]

Init ==
  /\ dlq = [p \in Partitions |-> << >>]
  /\ committed = [p \in Partitions |-> 0]
  /\ published = << >>
  /\ stage = "down"
  /\ config \in Configs
  /\ position = [p \in Partitions |-> 0]
  /\ todo = {}
  /\ handled = 0
  /\ started = 0
  /\ faults = MaxFaults

\* ReplayPolicy.Matches: an empty filter lets everything pass.
Matches(m) == \A f \in Fields : config.policy[f] = {} \/ Attr[m][f] \in config.policy[f]
Selected(m) == m \notin Malformed /\ Matches(m)

\* Mistake: the run ends one match late.
StopAfterLimit == config.limit > 0 /\ handled > config.limit

\* shouldStop; also the value of stopAfterCommit, since nothing is looked at
\* after the match that reached the limit.
ShouldStop == config.limit > 0 /\ handled >= config.limit

Outcomes == {"ok", "lost", "failed"}
Call(out) ==
  \/ out = "ok" /\ faults' = faults
  \/ out # "ok" /\ faults > 0 /\ faults' = faults - 1

Exit ==
  /\ stage' = "down"
  /\ todo' = {}
  /\ handled' = 0
  /\ UNCHANGED <<config, position, started>>

-----------------------------------------------------------------------------
\* The operator starts the replayer, which joins its group.
Start(cfg) ==
  /\ stage = "down"
  /\ stage' = "poll"
  /\ config' = cfg
  /\ position' = committed
  /\ started' = Len(published)
  /\ UNCHANGED <<dlq, committed, published, todo, handled, faults>>

Backlog == {p \in Partitions : position[p] < Len(dlq[p])}

\* Mistake: the fetch starts at the record before.
PollOneBack ==
  /\ stage = "poll"
  /\ Backlog # {}
  /\ \E n \in [Backlog -> 1..MaxLog] :
       /\ \A p \in Backlog : position[p] <= n[p] /\ n[p] <= Len(dlq[p])
       /\ \E p \in Backlog : position[p] < n[p]
       /\ position' = [p \in Partitions |-> IF p \in Backlog THEN n[p] ELSE position[p]]
       /\ todo' = UNION {{<<p, o>> : o \in position[p]..n[p]} : p \in Backlog}
  /\ stage' = "batch"
  /\ UNCHANGED <<dlq, committed, published, config, handled, started, faults>>

\* PollFetches returns some records.
Poll ==
  /\ stage = "poll"
  /\ Backlog # {}
  /\ \E n \in [Backlog -> 1..MaxLog] :
       /\ \A p \in Backlog : position[p] <= n[p] /\ n[p] <= Len(dlq[p])
       /\ \E p \in Backlog : position[p] < n[p]
       /\ position' = [p \in Partitions |-> IF p \in Backlog THEN n[p] ELSE position[p]]
       /\ todo' = UNION {{<<p, o>> : o \in (position[p] + 1)..n[p]} : p \in Backlog}
  /\ stage' = "batch"
  /\ UNCHANGED <<dlq, committed, published, config, handled, started, faults>>

\* A signal or a fetch error ends Run.
PollEnds ==
  /\ stage = "poll"
  /\ Call("failed")
  /\ Exit
  /\ UNCHANGED <<dlq, committed, published>>

\* Mistake: the records of a partition are looked at in any order.
NextAny(r) == stage = "batch" /\ ~ShouldStop /\ r \in todo

\* r is the next record of its partition that EachRecord hands out.
NextIs(r) ==
  /\ stage = "batch" /\ ~ShouldStop
  /\ r \in todo
  /\ \A s \in todo : s[1] = r[1] => r[2] <= s[2]

\* A message that is malformed or filtered.
Skip(r) ==
  /\ NextIs(r) /\ ~Selected(Message(r))
  /\ todo' = todo \ {r}
  /\ UNCHANGED <<dlq, committed, published, stage, config, position, handled, started, faults>>

\* A match in a dry run.
DryRunMatch(r) ==
  /\ NextIs(r) /\ Selected(Message(r)) /\ config.dryRun
  /\ todo' = todo \ {r}
  /\ handled' = handled + 1
  /\ UNCHANGED <<dlq, committed, published, stage, config, position, started, faults>>

\* Mistake: a message that cannot be published is skipped.
PublishOrSkip(r) ==
  /\ NextIs(r) /\ Selected(Message(r)) /\ ~config.dryRun
  /\ \E out \in Outcomes :
       /\ Call(out)
       /\ published' = IF out = "failed" THEN published ELSE Append(published, r)
  /\ todo' = todo \ {r}
  /\ handled' = handled + 1
  /\ UNCHANGED <<dlq, committed, stage, config, position, started>>

\* A match is published; an error ends Run before anything is committed.
Publish(r) ==
  /\ NextIs(r) /\ Selected(Message(r)) /\ ~config.dryRun
  /\ \E out \in Outcomes :
       /\ Call(out)
       /\ published' = IF out = "failed" THEN published ELSE Append(published, r)
       /\ IF out = "ok"
          THEN /\ todo' = todo \ {r}
               /\ handled' = handled + 1
               /\ UNCHANGED <<stage, config, position, started>>
          ELSE Exit
  /\ UNCHANGED <<dlq, committed>>

\* Mistake: Run goes on polling after the limit.
CommitGoesOn ==
  /\ stage = "batch" /\ (todo = {} \/ ShouldStop)
  /\ \E out \in Outcomes, part \in SUBSET Partitions :
       /\ Call(out)
       /\ out = "ok" => part = Partitions
       /\ out = "failed" => part = {}
       /\ committed' = [p \in Partitions |-> IF p \in part THEN position[p] ELSE committed[p]]
       /\ IF out = "ok"
          THEN stage' = "poll" /\ todo' = {} /\ UNCHANGED <<config, position, handled, started>>
          ELSE Exit
  /\ UNCHANGED <<dlq, published>>

\* Mistake: the offsets of a run that reached its limit are not committed.
CommitUnlessStopped ==
  /\ stage = "batch" /\ (todo = {} \/ ShouldStop)
  /\ \E out \in Outcomes, part \in SUBSET Partitions :
       /\ Call(out)
       /\ out = "ok" => part = Partitions
       /\ out = "failed" => part = {}
       /\ committed' = [p \in Partitions |->
                          IF p \in part /\ ~ShouldStop THEN position[p] ELSE committed[p]]
       /\ IF out = "ok" /\ ~ShouldStop
          THEN stage' = "poll" /\ UNCHANGED <<config, position, todo, handled, started>>
          ELSE Exit
  /\ UNCHANGED <<dlq, published>>

\* CommitUncommittedOffsets: everything polled, also what was not looked at
\* because the limit was reached. Then Run ends, or polls again.
Commit ==
  /\ stage = "batch" /\ (todo = {} \/ ShouldStop)
  /\ \E out \in Outcomes, part \in SUBSET Partitions :
       /\ Call(out)
       /\ out = "ok" => part = Partitions
       /\ out = "failed" => part = {}
       /\ committed' = [p \in Partitions |-> IF p \in part THEN position[p] ELSE committed[p]]
       /\ IF out = "ok" /\ ~ShouldStop
          THEN stage' = "poll" /\ UNCHANGED <<config, position, todo, handled, started>>
          ELSE Exit
  /\ UNCHANGED <<dlq, published>>

-----------------------------------------------------------------------------
\* The process dies at any point.
Crash ==
  /\ stage # "down" /\ faults > 0
  /\ faults' = faults - 1
  /\ Exit
  /\ UNCHANGED <<dlq, committed, published>>

\* The group coordinator drops the replayer, which joins again and fetches from
\* the committed offsets; the batch at hand is kept.
Rejoin ==
  /\ stage # "down" /\ faults > 0
  /\ faults' = faults - 1
  /\ position' = committed
  /\ UNCHANGED <<dlq, committed, published, stage, config, todo, handled, started>>

\* The consumer, or anyone, writes to the DLQ topic.
Park(p, m) ==
  /\ Len(dlq[p]) < MaxLog
  /\ dlq' = [dlq EXCEPT ![p] = Append(@, m)]
  /\ UNCHANGED <<committed, published, run, faults>>

\* PollFetches blocks while the DLQ has nothing more.
Idle ==
  /\ stage = "poll" /\ Backlog = {}
  /\ UNCHANGED vars

Step ==
  \/ Poll \/ Commit
  \/ \E r \in todo : Skip(r) \/ DryRunMatch(r) \/ Publish(r)

Next ==
  \/ Step \/ PollEnds \/ Crash \/ Rejoin \/ Idle
  \/ \E cfg \in Configs : Start(cfg)
  \/ \E p \in Partitions, m \in Messages : Park(p, m)

Spec == Init /\ [][Next]_vars

\* A replayer that was started runs its loop; nobody has to start one.
FairSpec == Spec /\ WF_vars(Step)

-----------------------------------------------------------------------------
\* The variables hold values of the expected kind.
TypeOK ==
  /\ dlq \in [Partitions -> Seq(Messages)]
  /\ committed \in [Partitions -> Nat]
  /\ published \in Seq(Records)
  /\ stage \in {"down", "poll", "batch"}
  /\ config \in Configs
  /\ position \in [Partitions -> Nat]
  /\ todo \subseteq Records
  /\ handled \in Nat /\ started \in Nat
  /\ faults \in 0..MaxFaults

\* What the current run published.
Fresh == {published[i] : i \in (started + 1)..Len(published)}

\* The records a step commits.
NewlyCommitted ==
  UNION {{<<p, o>> : o \in (committed[p] + 1)..committed'[p]} : p \in Partitions}

\* "Replayer commits the DLQ offset only after successful replay or explicit
\* skip of malformed or filtered DLQ payload."
CommitsOnlyHandled ==
  [][\A r \in NewlyCommitted : Selected(Message(r)) => r \in Fresh]_vars

\* The same, but for dry runs and for runs that reached their limit: a failed
\* publish, a crash or a lost commit never makes the group skip a selected message.
SkipsOnlyAtLimit ==
  [][\A r \in NewlyCommitted :
       Selected(Message(r)) => r \in Fresh \/ config.dryRun \/ ShouldStop]_vars

\* A run publishes no more messages than its limit, whatever was polled, and
\* nothing in a dry run.
RunRespectsLimit ==
  stage # "down" =>
    /\ config.limit > 0 => Len(published) - started <= config.limit
    /\ config.dryRun => Len(published) = started

\* Without a fault no message is replayed twice, over any number of runs: each
\* further copy in the source topic takes a crash or a failed call.
Copies(r) == Cardinality({i \in 1..Len(published) : published[i] = r})
CopiesTakeFaults ==
  \A i \in 1..Len(published) : Copies(published[i]) <= 1 + (MaxFaults - faults)

\* Within a run, the first copies of the messages of a DLQ partition reach the
\* source topics in DLQ order, also when the group is joined again half way.
RunKeepsOrder ==
  \A i, j \in (started + 1)..Len(published) :
    LET r == published[i]
        s == published[j]
        repeated == \E k \in (started + 1)..(j - 1) : published[k] = s
    IN i < j /\ r[1] = s[1] /\ ~repeated => r[2] < s[2]

\* A run that has as many selected messages before it as its limit still
\* allows comes to its end.
Ahead == {r \in UNION {{<<p, o>> : o \in 1..Len(dlq[p])} : p \in Partitions} :
            Selected(Message(r)) /\ (r \in todo \/ r[2] > position[r[1]])}
LimitedRunEnds ==
  (stage # "down" /\ config.limit > 0 /\ Cardinality(Ahead) + handled >= config.limit)
    ~> stage = "down"
=============================================================================

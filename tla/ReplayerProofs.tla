--------------------------- MODULE ReplayerProofs ---------------------------
(***************************************************************************)
(* What Replayer guarantees for any DLQ topic, any filters and limits, any      *)
(* number of runs and of faults: a run keeps within its limit, and it passes    *)
(* over a selected message only in a dry run or once its limit is reached.      *)
(*                                                                         *)
(* The argument: what a run has fetched past the committed offsets is           *)
(* published by it, not selected, or still in its batch; a commit finds the     *)
(* batch empty, or the limit reached.                                        *)
(***************************************************************************)
EXTENDS Replayer, FiniteSetTheorems, TLAPS

\* The messages a run has come to are those it has put back or counted.
Counted ==
  /\ stage = "down" => handled = 0
  /\ stage # "down" =>
       /\ started <= Len(published)
       /\ config.dryRun => Len(published) = started
       /\ ~config.dryRun => Len(published) - started = handled
       /\ config.limit > 0 => handled <= config.limit

\* Offsets stay within the topic, and batches hold its messages.
Fetched ==
  /\ \A p \in Partitions : /\ committed[p] <= position[p] \/ stage = "down"
                           /\ committed[p] <= Len(dlq[p]) /\ position[p] <= Len(dlq[p])
  /\ \A r \in todo : r[2] <= Len(dlq[r[1]])
  /\ stage \in {"down", "poll"} => todo = {}

\* A message that the run is done with.
Passed(r) == Selected(Message(r)) => r \in Fresh \/ config.dryRun \/ ShouldStop

\* What was fetched past the committed offset is done with or still to be looked at.
Covered ==
  stage # "down" =>
    \A p \in Partitions : \A o \in (committed[p] + 1)..position[p] :
      <<p, o>> \in todo \/ Passed(<<p, o>>)

IInv == TypeOK /\ Counted /\ Fetched /\ Covered

-----------------------------------------------------------------------------
\* A record of a batch or below a position is a message of the topic.
LEMMA MessageIsThere ==
  ASSUME TypeOK, NEW r \in Records, r[2] <= Len(dlq[r[1]])
  PROVE  Message(r) \in Messages
BY DEF TypeOK, Records, Message

\* What a run has published stays published while it appends to it.
LEMMA FreshGrows ==
  ASSUME TypeOK, NEW r, published' = Append(published, r), started' = started,
         started <= Len(published)
  PROVE  Fresh \subseteq Fresh' /\ r \in Fresh'
<1>1. /\ Len(published) \in Nat /\ Len(published') = Len(published) + 1
      /\ \A i \in 1..Len(published) : published'[i] = published[i]
      /\ published'[Len(published) + 1] = r
  BY DEF TypeOK
<1>2. Fresh \subseteq Fresh'
  <2> SUFFICES ASSUME NEW s \in Fresh PROVE s \in Fresh'
    OBVIOUS
  <2>1. PICK i \in (started + 1)..Len(published) : s = published[i]
    BY DEF Fresh
  <2>2. i \in (started + 1)..Len(published') /\ published'[i] = s
    BY <1>1, <2>1 DEF TypeOK
  <2>3. QED BY <2>2 DEF Fresh
<1>3. Len(published) + 1 \in (started' + 1)..Len(published')
  BY <1>1 DEF TypeOK
<1>4. QED BY <1>1, <1>2, <1>3 DEF Fresh

LEMMA InitIInv == Init => IInv
BY BoundsAssumption DEF Init, IInv, TypeOK, Counted, Fetched, Covered

\* A run that has ended promises nothing.
LEMMA ExitStep ==
  ASSUME IInv, Exit, dlq' = dlq, faults' \in 0..MaxFaults,
         published' \in Seq(Records), committed' \in [Partitions -> Nat],
         \A p \in Partitions : committed'[p] <= Len(dlq[p])
  PROVE  IInv'
BY DEF IInv, TypeOK, Counted, Fetched, Covered, Exit

\* Nothing is fetched past the committed offsets.
LEMMA NothingFetched ==
  ASSUME TypeOK', position' = committed'
  PROVE  Covered'
<1>1. ASSUME NEW p \in Partitions, NEW o \in (committed'[p] + 1)..position'[p] PROVE FALSE
  BY DEF TypeOK
<1>2. QED BY <1>1 DEF Covered

\* The operator's run starts at the committed offsets.
LEMMA StartStep ==
  ASSUME IInv, NEW cfg \in Configs, Start(cfg) PROVE IInv'
<1>1. TypeOK' /\ Fetched'
  BY DEF IInv, TypeOK, Start, Fetched
<1>2. Counted'
  <2>1. /\ stage' = "poll" /\ started' = Len(published') /\ handled' = 0
        /\ config' = cfg /\ cfg.limit \in Nat /\ Len(published') \in Nat
    BY ConfigsAssumption DEF IInv, TypeOK, Counted, Start
  <2>2. QED BY <2>1 DEF Counted
<1>3. Covered'
  BY <1>1, NothingFetched DEF Start
<1>4. QED BY <1>1, <1>2, <1>3 DEF IInv

\* A step that leaves the topic, the offsets and the registers of the run alone.
LEMMA PassedFrame ==
  ASSUME TypeOK, UNCHANGED <<dlq, published, config, started, handled>>
  PROVE  \A r : Passed(r)' <=> Passed(r)
BY DEF Passed, Selected, Message, Matches, Fresh, ShouldStop

\* A poll puts what it fetches into the batch.
LEMMA PollStep ==
  ASSUME IInv, Poll PROVE IInv'
<1>1. PICK n \in [Backlog -> 1..MaxLog] :
        /\ \A p \in Backlog : position[p] <= n[p] /\ n[p] <= Len(dlq[p])
        /\ position' = [p \in Partitions |-> IF p \in Backlog THEN n[p] ELSE position[p]]
        /\ todo' = UNION {{<<p, o>> : o \in (position[p] + 1)..n[p]} : p \in Backlog}
  BY DEF Poll
<1>2. Backlog \subseteq Partitions /\ \A p \in Backlog : n[p] \in Nat
  BY <1>1, BoundsAssumption DEF Backlog
<1>3. \A r : r \in todo' <=>
        \E p \in Backlog : \E o \in (position[p] + 1)..n[p] : r = <<p, o>>
  BY <1>1
<1>4. \A p \in Partitions : /\ position[p] \in Nat /\ Len(dlq[p]) \in Nat /\ committed[p] \in Nat
                            /\ position'[p] \in Nat /\ position[p] <= position'[p]
                            /\ position'[p] <= Len(dlq[p])
  BY <1>1, <1>2 DEF IInv, TypeOK, Fetched
<1>5. /\ stage = "poll" /\ stage' = "batch"
      /\ UNCHANGED <<dlq, committed, published, config, handled, started, faults>>
  BY DEF Poll
<1>6. \A r \in todo' : r \in Records /\ r[2] <= Len(dlq[r[1]])
  BY <1>1, <1>2, <1>3, <1>4 DEF Records
<1>7. TypeOK'
  <2>1. position' \in [Partitions -> Nat]
    BY <1>1, <1>4
  <2>2. QED BY <1>5, <1>6, <2>1 DEF IInv, TypeOK
<1>8. Counted' /\ Fetched'
  BY <1>4, <1>5, <1>6 DEF IInv, Counted, Fetched
<1>9. Covered'
  <2> SUFFICES ASSUME NEW p \in Partitions, NEW o \in (committed[p] + 1)..position'[p]
               PROVE  <<p, o>> \in todo' \/ Passed(<<p, o>>)'
    BY <1>5 DEF Covered
  <2>1. CASE o <= position[p]
    <3>1. <<p, o>> \in todo \/ Passed(<<p, o>>)
      BY <1>4, <1>5, <2>1 DEF IInv, Covered
    <3>2. QED BY <1>5, <3>1, PassedFrame DEF IInv, Fetched
  <2>2. CASE o > position[p]
    <3>1. p \in Backlog /\ o \in (position[p] + 1)..n[p]
      BY <1>1, <1>2, <1>4, <2>2
    <3>2. QED BY <1>3, <3>1
  <2>3. QED BY <1>4, <2>1, <2>2
<1>10. QED BY <1>7, <1>8, <1>9 DEF IInv

\* A message that was looked at leaves the batch; it is done with.
LEMMA LookedAt ==
  ASSUME Covered, NEW r, todo' = todo \ {r}, Passed(r)',
         stage = "batch", \A s : Passed(s) => Passed(s)',
         UNCHANGED <<committed, position>>
  PROVE  Covered'
BY DEF Covered

LEMMA SkipStep ==
  ASSUME IInv, NEW r \in todo, Skip(r) PROVE IInv'
<1>1. UNCHANGED <<dlq, committed, published, stage, config, position, handled, started, faults>>
  BY DEF Skip
<1>2. TypeOK' /\ Counted' /\ Fetched'
  BY <1>1 DEF Skip, NextIs, IInv, TypeOK, Counted, Fetched
<1>3. \A s : Passed(s)' <=> Passed(s)
  BY <1>1, PassedFrame DEF IInv
<1>4. Passed(r)
  BY DEF Skip, Passed
<1>5. Covered'
  BY <1>1, <1>3, <1>4, LookedAt DEF IInv, Skip, NextIs
<1>6. QED BY <1>2, <1>5 DEF IInv

\* One more match does not take a run past its limit.
LEMMA OneMore ==
  ASSUME IInv, ~ShouldStop, stage = "batch"
  PROVE  config.limit > 0 => handled + 1 <= config.limit
BY ConfigsAssumption DEF IInv, TypeOK, ShouldStop

LEMMA DryRunStep ==
  ASSUME IInv, NEW r \in todo, DryRunMatch(r) PROVE IInv'
<1>1. /\ UNCHANGED <<dlq, committed, published, stage, config, position, started, faults>>
      /\ stage = "batch" /\ config.dryRun /\ handled' = handled + 1 /\ todo' = todo \ {r}
  BY DEF DryRunMatch, NextIs
<1>2. TypeOK' /\ Fetched'
  BY <1>1 DEF IInv, TypeOK, Fetched
<1>3. Counted'
  BY <1>1, OneMore DEF DryRunMatch, NextIs, IInv, Counted
<1>4. \A s : Passed(s)'
  BY <1>1 DEF Passed
<1>5. Covered'
  BY <1>1, <1>4 DEF Covered
<1>6. QED BY <1>2, <1>3, <1>5 DEF IInv

\* A match is put back before it leaves the batch, or the run ends.
LEMMA PublishStep ==
  ASSUME IInv, NEW r \in todo, Publish(r) PROVE IInv'
<1>1. /\ stage = "batch" /\ ~ShouldStop /\ ~config.dryRun /\ r \in Records
      /\ UNCHANGED <<dlq, committed>>
  BY DEF Publish, NextIs, IInv, TypeOK
<1>2. PICK out \in Outcomes :
        /\ Call(out)
        /\ published' = IF out = "failed" THEN published ELSE Append(published, r)
        /\ IF out = "ok"
           THEN /\ todo' = todo \ {r}
                /\ handled' = handled + 1
                /\ UNCHANGED <<stage, config, position, started>>
           ELSE Exit
  BY DEF Publish
<1>3. faults' \in 0..MaxFaults
  BY <1>2, BoundsAssumption DEF Call, IInv, TypeOK
<1>4. CASE out # "ok"
  <2>1. published' \in Seq(Records)
    BY <1>1, <1>2 DEF IInv, TypeOK
  <2>2. QED BY <1>1, <1>2, <1>3, <1>4, <2>1, ExitStep DEF IInv, TypeOK, Fetched
<1>5. CASE out = "ok"
  <2>1. /\ published' = Append(published, r) /\ Len(published') = Len(published) + 1
        /\ published' \in Seq(Records) /\ Len(published) \in Nat
    BY <1>1, <1>2, <1>5 DEF IInv, TypeOK
  <2>2. TypeOK' /\ Fetched'
    BY <1>1, <1>2, <1>3, <1>5, <2>1 DEF IInv, TypeOK, Fetched
  <2>3. Counted'
    <3>1. /\ stage' = "batch" /\ started' = started /\ config' = config /\ handled' = handled + 1
          /\ started <= Len(published) /\ Len(published) - started = handled
          /\ handled \in Nat /\ started \in Nat
      BY <1>1, <1>2, <1>5 DEF IInv, TypeOK, Counted
    <3>2. config.limit > 0 => handled + 1 <= config.limit
      BY <1>1, OneMore
    <3>3. QED BY <1>1, <2>1, <3>1, <3>2 DEF Counted
  <2>4. Fresh \subseteq Fresh' /\ r \in Fresh'
    BY <1>1, <1>2, <1>5, <2>1, FreshGrows DEF IInv, Counted
  <2>5. \A s : Passed(s) => Passed(s)'
    BY <1>1, <1>2, <1>5, <2>4 DEF Passed, Selected, Message, Matches, ShouldStop
  <2>6. Passed(r)'
    BY <2>4 DEF Passed
  <2>7. Covered'
    BY <1>1, <1>2, <1>5, <2>5, <2>6, LookedAt DEF IInv
  <2>8. QED BY <2>2, <2>3, <2>7 DEF IInv
<1>6. QED BY <1>4, <1>5

\* What a commit commits is done with, or the run was at its limit.
LEMMA CommitStep ==
  ASSUME IInv, Commit
  PROVE  /\ IInv'
         /\ \A p \in Partitions : \A o \in (committed[p] + 1)..committed'[p] : Passed(<<p, o>>)
<1>1. PICK out \in Outcomes, part \in SUBSET Partitions :
        /\ Call(out)
        /\ out = "ok" => part = Partitions
        /\ committed' = [p \in Partitions |-> IF p \in part THEN position[p] ELSE committed[p]]
        /\ IF out = "ok" /\ ~ShouldStop
           THEN stage' = "poll" /\ UNCHANGED <<config, position, todo, handled, started>>
           ELSE Exit
  BY DEF Commit
<1>2. /\ stage = "batch" /\ (todo = {} \/ ShouldStop) /\ UNCHANGED <<dlq, published>>
  BY DEF Commit
<1>3. faults' \in 0..MaxFaults
  BY <1>1, BoundsAssumption DEF Call, IInv, TypeOK
<1>4. /\ committed' \in [Partitions -> Nat]
      /\ \A p \in Partitions : committed'[p] <= Len(dlq[p])
  BY <1>1 DEF IInv, TypeOK, Fetched
<1>5. ASSUME NEW p \in Partitions, NEW o \in (committed[p] + 1)..committed'[p]
      PROVE  Passed(<<p, o>>)
  <2>1. o \in (committed[p] + 1)..position[p]
    BY <1>1 DEF IInv, TypeOK
  <2>2. <<p, o>> \in todo \/ Passed(<<p, o>>)
    BY <1>2, <2>1 DEF IInv, Covered
  <2>3. QED BY <1>2, <2>2 DEF Passed
<1>6. CASE Exit
  BY <1>2, <1>3, <1>4, <1>5, <1>6, ExitStep DEF IInv, TypeOK
<1>7. CASE /\ out = "ok" /\ ~ShouldStop /\ stage' = "poll"
           /\ UNCHANGED <<config, position, todo, handled, started>>
  <2>1. committed' = position
    BY <1>1, <1>7 DEF IInv, TypeOK
  <2>2. TypeOK' /\ Counted'
    BY <1>2, <1>3, <1>4, <1>7 DEF IInv, TypeOK, Counted
  <2>3. Fetched'
    BY <1>2, <1>7, <2>1 DEF IInv, TypeOK, Fetched
  <2>4. Covered'
    BY <1>7, <2>1, <2>2, NothingFetched
  <2>5. QED BY <1>5, <2>2, <2>3, <2>4 DEF IInv
<1>8. QED BY <1>1, <1>5, <1>6, <1>7

\* The fetch goes back to the committed offsets.
LEMMA RejoinStep ==
  ASSUME IInv, Rejoin PROVE IInv'
<1>1. /\ position' = committed /\ faults' \in 0..MaxFaults
      /\ UNCHANGED <<dlq, committed, published, stage, config, todo, handled, started>>
  BY BoundsAssumption DEF Rejoin, IInv, TypeOK
<1>2. TypeOK' /\ Counted' /\ Fetched'
  BY <1>1 DEF IInv, TypeOK, Counted, Fetched
<1>3. Covered'
  BY <1>1, <1>2, NothingFetched
<1>4. QED BY <1>2, <1>3 DEF IInv

\* A new message changes none of those before it.
LEMMA ParkStep ==
  ASSUME IInv, NEW p \in Partitions, NEW m \in Messages, Park(p, m) PROVE IInv'
<1>1. /\ dlq' = [dlq EXCEPT ![p] = Append(@, m)]
      /\ UNCHANGED <<committed, published, stage, config, position, todo, handled, started, faults>>
  BY DEF Park, run
<1>2. /\ dlq' \in [Partitions -> Seq(Messages)]
      /\ \A q \in Partitions : /\ Len(dlq[q]) \in Nat /\ Len(dlq[q]) <= Len(dlq'[q])
                               /\ \A o \in 1..Len(dlq[q]) : dlq'[q][o] = dlq[q][o]
  BY <1>1 DEF IInv, TypeOK
<1>3. TypeOK' /\ Counted'
  BY <1>1, <1>2 DEF IInv, TypeOK, Counted
<1>4. Fetched'
  <2>1. \A r \in todo : r[1] \in Partitions /\ r[2] \in Nat
    BY DEF IInv, TypeOK, Records
  <2>2. \A q \in Partitions : Len(dlq'[q]) \in Nat
    BY <1>2
  <2>3. QED BY <1>1, <1>2, <2>1, <2>2 DEF IInv, TypeOK, Fetched
<1>5. Covered'
  <2> SUFFICES ASSUME stage # "down", NEW q \in Partitions,
                      NEW o \in (committed[q] + 1)..position[q]
               PROVE  <<q, o>> \in todo \/ Passed(<<q, o>>)'
    BY <1>1 DEF Covered
  <2>1. <<q, o>> \in todo \/ Passed(<<q, o>>)
    BY DEF IInv, Covered
  <2>2. o \in 1..Len(dlq[q])
    BY <1>2 DEF IInv, TypeOK, Fetched
  <2>3. Message(<<q, o>>)' = Message(<<q, o>>)
    BY <1>2, <2>2 DEF Message
  <2>4. Passed(<<q, o>>)' <=> Passed(<<q, o>>)
    BY <1>1, <2>3 DEF Passed, Selected, Matches, Fresh, ShouldStop
  <2>5. QED BY <2>1, <2>4
<1>6. QED BY <1>3, <1>4, <1>5 DEF IInv

\* The end of a run, by a signal, a failed fetch or a crash.
LEMMA EndStep ==
  ASSUME IInv, PollEnds \/ Crash PROVE IInv'
<1>1. Exit /\ UNCHANGED <<dlq, committed, published>>
  BY DEF PollEnds, Crash
<1>2. faults' \in 0..MaxFaults
  BY BoundsAssumption DEF PollEnds, Crash, Call, IInv, TypeOK
<1>3. QED BY <1>1, <1>2, ExitStep DEF IInv, TypeOK, Fetched

\* A step that changes nothing.
LEMMA StutterStep ==
  ASSUME IInv, UNCHANGED vars PROVE IInv'
<1>1. UNCHANGED <<dlq, published, config, started, handled, committed, position, stage, todo, faults>>
  BY DEF vars, run
<1>2. TypeOK' /\ Counted' /\ Fetched'
  BY <1>1 DEF IInv, TypeOK, Counted, Fetched
<1>3. Covered'
  BY <1>1, PassedFrame DEF IInv, Covered
<1>4. QED BY <1>2, <1>3 DEF IInv

\* No step of the replayer, of Kafka or of the operator breaks IInv.
LEMMA NextIInv == IInv /\ [Next]_vars => IInv'
<1> SUFFICES ASSUME IInv, [Next]_vars PROVE IInv'
  OBVIOUS
<1>1. CASE Step
  BY <1>1, PollStep, CommitStep, SkipStep, DryRunStep, PublishStep DEF Step
<1>2. CASE Next /\ ~Step
  BY <1>2, EndStep, RejoinStep, StartStep, ParkStep, StutterStep DEF Next, Idle
<1>3. QED BY <1>1, <1>2, StutterStep

\* IInv holds in every reachable state.
LEMMA Invariance == Spec => []IInv
BY InitIInv, NextIInv, PTL DEF Spec

-----------------------------------------------------------------------------
\* Type correctness of the replayer, over any number of runs.
THEOREM TypeCorrect == Spec => []TypeOK
<1>1. IInv => TypeOK
  BY DEF IInv
<1>2. QED BY <1>1, Invariance, PTL

\* A run publishes no more than its limit, whatever the batches it polls and the
\* faults it meets, and nothing in a dry run.
THEOREM LimitIsRespected == Spec => []RunRespectsLimit
<1>1. IInv => RunRespectsLimit
  BY ConfigsAssumption DEF IInv, TypeOK, Counted, RunRespectsLimit
<1>2. QED BY <1>1, Invariance, PTL

\* No fault makes the group pass over a selected message: a run that is not dry
\* and not at its limit commits only what it has put back or was asked to skip.
THEOREM PassesOverAtLimitOnly == Spec => SkipsOnlyAtLimit
<1> DEFINE Skips == \A r \in NewlyCommitted :
              Selected(Message(r)) => r \in Fresh \/ config.dryRun \/ ShouldStop
<1>1. IInv /\ [Next]_vars => [Skips]_vars
  <2> SUFFICES ASSUME IInv, Next PROVE Skips
    OBVIOUS
  <2>1. committed' = committed \/ Commit
    BY DEF Next, Step, Poll, Skip, DryRunMatch, Publish, PollEnds, Crash, Rejoin, Idle,
           Start, Park, vars
  <2>2. \A p \in Partitions : \A o \in (committed[p] + 1)..committed'[p] : Passed(<<p, o>>)
    <3>1. CASE committed' = committed
      BY <3>1 DEF IInv, TypeOK
    <3>2. QED BY <2>1, <3>1, CommitStep
  <2>3. QED BY <2>2 DEF NewlyCommitted, Passed
<1>2. QED BY <1>1, Invariance, PTL DEF Spec, SkipsOnlyAtLimit
-----------------------------------------------------------------------------
(***************************************************************************)
(* The order of the copies. A run that joins its group again goes back to the   *)
(* committed offsets and finds there what it has put back already: everything   *)
(* below a message it has put back is passed.                                *)
(***************************************************************************)

\* Everything before r that is not committed is passed, or is in the batch.
Behind(r) ==
  \A o \in (committed[r[1]] + 1)..(r[2] - 1) : <<r[1], o>> \in todo \/ Passed(<<r[1], o>>)

Ordered ==
  /\ RunKeepsOrder
  /\ \A i \in 1..Len(published) : published[i][2] <= Len(dlq[published[i][1]])
  /\ stage # "down" =>
       /\ \A r \in todo : r[2] > committed[r[1]] /\ Behind(r)
       /\ \A s \in Fresh : \A o \in (committed[s[1]] + 1)..(s[2] - 1) : Passed(<<s[1], o>>)

\* What was put back are records of the DLQ topic.
LEMMA PublishedAreRecords ==
  ASSUME TypeOK
  PROVE  /\ \A i \in 1..Len(published) : /\ published[i] \in Records
                                         /\ published[i][1] \in Partitions /\ published[i][2] \in Nat
         /\ \A r \in Fresh : r \in Records /\ r[1] \in Partitions /\ r[2] \in Nat
<1>1. \A i \in 1..Len(published) : published[i] \in Records
  BY DEF TypeOK
<1>2. \A r \in Records : r[1] \in Partitions /\ r[2] \in Nat
  BY DEF Records
<1>3. \A i \in (started + 1)..Len(published) : i \in 1..Len(published)
  BY DEF TypeOK
<1>4. QED BY <1>1, <1>2, <1>3 DEF Fresh

\* A step that publishes nothing and drops only passed messages from the batch.
LEMMA QuietOrder ==
  ASSUME IInv, Ordered, stage # "down", UNCHANGED <<dlq, published, started>>,
         committed' \in [Partitions -> Nat],
         \A p \in Partitions : committed[p] <= committed'[p],
         todo' = {} \/ committed' = committed,
         todo' \subseteq todo, \A s : Passed(s) => Passed(s)',
         \A s \in todo : s \in todo' \/ Passed(s)'
  PROVE  Ordered'
<1>1. RunKeepsOrder' /\ Fresh' = Fresh
  BY DEF Ordered, RunKeepsOrder, Fresh
<1>2. \A i \in 1..Len(published)' : (published[i][2] <= Len(dlq[published[i][1]]))'
  BY DEF Ordered
<1>3. \A r \in Fresh : r[1] \in Partitions /\ r[2] \in Nat
  BY PublishedAreRecords DEF IInv
<1>4. \A p \in Partitions : committed[p] \in Nat /\ committed'[p] \in Nat
  BY DEF IInv, TypeOK
<1>5. ASSUME NEW r \in todo' PROVE r[2] > committed'[r[1]] /\ Behind(r)'
  BY <1>5 DEF Ordered, Behind
<1>6. ASSUME NEW s \in Fresh', NEW o \in (committed'[s[1]] + 1)..(s[2] - 1)
      PROVE  Passed(<<s[1], o>>)'
  BY <1>1, <1>3, <1>4 DEF Ordered
<1>7. QED BY <1>1, <1>2, <1>5, <1>6 DEF Ordered

\* A step after which no run is under way, and which publishes nothing.
LEMMA DownOrder ==
  ASSUME IInv, Ordered, stage' = "down", UNCHANGED <<dlq, published, started>>
  PROVE  Ordered'
BY DEF Ordered, RunKeepsOrder

\* A run starts with nothing put back and nothing in its batch.
LEMMA StartOrder ==
  ASSUME IInv, Ordered, NEW cfg \in Configs, Start(cfg) PROVE Ordered'
<1>1. /\ todo' = {} /\ started' = Len(published) /\ UNCHANGED <<dlq, published>>
      /\ Len(published) \in Nat
  BY DEF Start, IInv, TypeOK, Fetched
<1>2. Fresh' = {} /\ RunKeepsOrder'
  BY <1>1 DEF Fresh, RunKeepsOrder
<1>3. QED BY <1>1, <1>2 DEF Ordered

\* What a poll fetches has nothing before it that was not fetched with it or passed.
LEMMA PollOrder ==
  ASSUME IInv, Ordered, Poll PROVE Ordered'
<1>1. /\ UNCHANGED <<dlq, committed, published, config, started, handled>>
      /\ stage # "down" /\ todo = {}
  BY DEF Poll, IInv, Fetched
<1>2. RunKeepsOrder' /\ Fresh' = Fresh
  BY <1>1 DEF Ordered, RunKeepsOrder, Fresh
<1>3. PICK n \in [Backlog -> 1..MaxLog] :
        todo' = UNION {{<<p, o>> : o \in (position[p] + 1)..n[p]} : p \in Backlog}
  BY DEF Poll
<1>4. Backlog \subseteq Partitions /\ \A p \in Backlog : n[p] \in Nat
  BY <1>3, BoundsAssumption DEF Backlog
<1>5. \A s : Passed(s)' <=> Passed(s)
  BY <1>1, PassedFrame DEF IInv
<1>6. ASSUME NEW r \in todo' PROVE r[2] > committed'[r[1]] /\ Behind(r)'
  <2>1. PICK p \in Backlog : \E o \in (position[p] + 1)..n[p] : r = <<p, o>>
    BY <1>3
  <2>2. PICK m \in (position[p] + 1)..n[p] : r = <<p, m>>
    BY <2>1
  <2>3. /\ p \in Partitions /\ position[p] \in Nat /\ committed[p] \in Nat
        /\ committed[p] <= position[p] /\ n[p] \in Nat
    BY <1>1, <1>4 DEF IInv, TypeOK, Fetched
  <2>4. ASSUME NEW o \in (committed[p] + 1)..(m - 1)
        PROVE  <<p, o>> \in todo' \/ Passed(<<p, o>>)
    <3>1. CASE o <= position[p]
      BY <1>1, <2>3, <3>1 DEF IInv, Covered
    <3>2. CASE o > position[p]
      <4>1. o \in (position[p] + 1)..n[p]
        BY <2>3, <3>2
      <4>2. QED BY <1>3, <4>1
    <3>3. QED BY <2>3, <3>1, <3>2
  <2>5. QED BY <1>1, <1>5, <2>2, <2>3, <2>4 DEF Behind
<1>7. QED BY <1>1, <1>2, <1>5, <1>6 DEF Ordered

\* A new message comes behind everything that was put back.
LEMMA ParkOrder ==
  ASSUME IInv, Ordered, NEW p \in Partitions, NEW m \in Messages, Park(p, m) PROVE Ordered'
<1>1. /\ dlq' = [dlq EXCEPT ![p] = Append(@, m)]
      /\ UNCHANGED <<committed, published, stage, config, position, todo, handled, started, faults>>
  BY DEF Park, run
<1>2. \A q \in Partitions : /\ Len(dlq[q]) \in Nat /\ Len(dlq'[q]) \in Nat
                            /\ Len(dlq[q]) <= Len(dlq'[q])
                            /\ \A o \in 1..Len(dlq[q]) : dlq'[q][o] = dlq[q][o]
  BY <1>1 DEF IInv, TypeOK
<1>3. RunKeepsOrder' /\ Fresh' = Fresh
  BY <1>1 DEF Ordered, RunKeepsOrder, Fresh
<1>4. \A q \in Partitions : \A o \in 1..Len(dlq[q]) : Passed(<<q, o>>)' <=> Passed(<<q, o>>)
  <2> SUFFICES ASSUME NEW q \in Partitions, NEW o \in 1..Len(dlq[q])
               PROVE  Passed(<<q, o>>)' <=> Passed(<<q, o>>)
    OBVIOUS
  <2>1. Message(<<q, o>>)' = Message(<<q, o>>)
    BY <1>2 DEF Message
  <2>2. QED BY <1>1, <2>1 DEF Passed, Selected, Matches, Fresh, ShouldStop
<1>5. \A i \in 1..Len(published) : published[i][1] \in Partitions /\ published[i][2] \in Nat
  BY PublishedAreRecords DEF IInv
<1>6. \A i \in 1..Len(published)' : (published[i][2] <= Len(dlq[published[i][1]]))'
  BY <1>1, <1>2, <1>5 DEF Ordered
<1>7. \A r \in Fresh : r[1] \in Partitions /\ r[2] \in Nat /\ r[2] <= Len(dlq[r[1]])
  BY <1>5 DEF Fresh, Ordered, IInv, TypeOK
<1>8. \A r \in todo : r[1] \in Partitions /\ r[2] \in Nat /\ r[2] <= Len(dlq[r[1]])
  BY DEF IInv, TypeOK, Records, Fetched
<1>9. \A q \in Partitions : committed[q] \in Nat
  BY DEF IInv, TypeOK
<1>10. ASSUME stage # "down", NEW r \in todo PROVE r[2] > committed[r[1]] /\ Behind(r)'
  <2>1. r[2] > committed[r[1]] /\ Behind(r)
    BY <1>10 DEF Ordered
  <2>2. \A o \in (committed[r[1]] + 1)..(r[2] - 1) : o \in 1..Len(dlq[r[1]])
    BY <1>2, <1>8, <1>9
  <2>3. QED BY <1>1, <1>4, <1>8, <2>1, <2>2 DEF Behind
<1>11. ASSUME stage # "down", NEW s \in Fresh, NEW o \in (committed[s[1]] + 1)..(s[2] - 1)
       PROVE  Passed(<<s[1], o>>)'
  <2>1. o \in 1..Len(dlq[s[1]]) /\ s[1] \in Partitions
    BY <1>2, <1>7, <1>9
  <2>2. QED BY <1>4, <1>11, <2>1 DEF Ordered
<1>12. QED BY <1>1, <1>3, <1>6, <1>10, <1>11 DEF Ordered

\* The message that is put back is behind all those put back before, or is one of
\* them.
LEMMA PublishOrder ==
  ASSUME IInv, IInv', Ordered, NEW r \in todo, Publish(r) PROVE Ordered'
<1>1. /\ stage = "batch" /\ ~ShouldStop /\ ~config.dryRun /\ r \in Records
      /\ UNCHANGED <<dlq, committed>> /\ r[1] \in Partitions /\ r[2] \in Nat
      /\ Selected(Message(r)) /\ \A s \in todo : s[1] = r[1] => r[2] <= s[2]
  BY DEF Publish, NextIs, IInv, TypeOK, Records
<1>2. PICK out \in Outcomes :
        /\ published' = IF out = "failed" THEN published ELSE Append(published, r)
        /\ IF out = "ok"
           THEN /\ todo' = todo \ {r}
                /\ handled' = handled + 1
                /\ UNCHANGED <<stage, config, position, started>>
           ELSE Exit
  BY DEF Publish
<1>3. UNCHANGED <<config, started>>
  BY <1>2 DEF Exit
<1>4. CASE out = "failed"
  BY <1>1, <1>2, <1>4, DownOrder DEF Exit
<1>5. CASE out # "failed"
  <2>1. /\ Len(published) \in Nat /\ Len(published') = Len(published) + 1
        /\ \A i \in 1..Len(published) : published'[i] = published[i]
        /\ published'[Len(published) + 1] = r /\ started \in Nat /\ started <= Len(published)
        /\ published' = Append(published, r)
    BY <1>1, <1>2, <1>5 DEF IInv, TypeOK, Counted
  <2>2. \A s \in Fresh : /\ s[1] \in Partitions /\ s[2] \in Nat /\ s \in Records
                         /\ s[1] = r[1] /\ s[2] >= r[2] => r \in Fresh
    <3> SUFFICES ASSUME NEW s \in Fresh
                 PROVE  /\ s[1] \in Partitions /\ s[2] \in Nat /\ s \in Records
                        /\ s[1] = r[1] /\ s[2] >= r[2] => r \in Fresh
      OBVIOUS
    <3>1. s \in Records /\ s[1] \in Partitions /\ s[2] \in Nat
      BY PublishedAreRecords DEF IInv
    <3>2. ASSUME s[1] = r[1], s[2] = r[2] PROVE r \in Fresh
      BY <1>1, <3>1, <3>2 DEF Records
    <3>3. ASSUME s[1] = r[1], s[2] > r[2] PROVE r \in Fresh
      <4>1. r[2] > committed[r[1]] /\ committed[r[1]] \in Nat
        BY <1>1 DEF Ordered, IInv, TypeOK
      <4>2. r[2] \in (committed[s[1]] + 1)..(s[2] - 1) /\ r = <<s[1], r[2]>>
        BY <1>1, <3>1, <3>3, <4>1 DEF Records
      <4>3. Passed(r)
        BY <1>1, <4>2 DEF Ordered
      <4>4. QED BY <1>1, <4>3 DEF Passed
    <3>4. QED BY <1>1, <3>1, <3>2, <3>3
  <2>3. RunKeepsOrder'
    <3> SUFFICES ASSUME NEW i \in (started + 1)..Len(published'),
                        NEW j \in (started + 1)..Len(published'),
                        i < j, published'[i][1] = published'[j][1],
                        ~\E k \in (started + 1)..(j - 1) : published'[k] = published'[j]
                 PROVE  published'[i][2] < published'[j][2]
      BY <1>3 DEF RunKeepsOrder
    <3>1. CASE j <= Len(published)
      <4>1. i \in (started + 1)..Len(published) /\ j \in (started + 1)..Len(published)
        BY <2>1, <3>1
      <4>2. ~\E k \in (started + 1)..(j - 1) : published[k] = published[j]
        BY <2>1, <4>1
      <4>3. published[i][1] = published[j][1] => published[i][2] < published[j][2]
        BY <4>1, <4>2 DEF Ordered, RunKeepsOrder
      <4>4. QED BY <2>1, <4>1, <4>3
    <3>2. CASE j = Len(published) + 1
      <4>1. /\ i \in (started + 1)..Len(published) /\ published'[i] = published[i]
            /\ published'[j] = r /\ published[i] \in Fresh
        BY <2>1, <3>2 DEF Fresh
      <4>2. r \notin Fresh
        BY <2>1, <3>2, <4>1 DEF Fresh
      <4>3. published[i][2] \in Nat /\ ~(published[i][2] >= r[2])
        BY <2>2, <4>1, <4>2
      <4>4. QED BY <1>1, <4>1, <4>3
    <3>3. QED BY <2>1, <3>1, <3>2
  <2>4. \A i \in 1..Len(published') : published'[i][2] <= Len(dlq'[published'[i][1]])
    BY <1>1, <2>1 DEF Ordered, IInv, Fetched
  <2>5. ASSUME out = "ok"
        PROVE  /\ \A s \in todo' : s[2] > committed'[s[1]] /\ Behind(s)'
               /\ \A s \in Fresh' : \A o \in (committed'[s[1]] + 1)..(s[2] - 1) :
                    Passed(<<s[1], o>>)'
    <3>1. Fresh \subseteq Fresh' /\ r \in Fresh'
      BY <1>3, <2>1, FreshGrows DEF IInv
    <3>2. \A s : Passed(s) => Passed(s)'
      BY <1>1, <1>2, <2>5, <3>1 DEF Passed, Selected, Message, Matches, ShouldStop
    <3>3. Passed(r)' /\ todo' = todo \ {r}
      BY <1>2, <2>5, <3>1 DEF Passed
    <3>4. \A s \in todo' : s[2] > committed'[s[1]] /\ Behind(s)'
      BY <1>1, <3>2, <3>3 DEF Ordered, Behind
    <3>5. Fresh' \subseteq Fresh \union {r}
      BY <1>3, <2>1 DEF Fresh
    <3>6. \A o \in (committed[r[1]] + 1)..(r[2] - 1) : Passed(<<r[1], o>>)
      <4> SUFFICES ASSUME NEW o \in (committed[r[1]] + 1)..(r[2] - 1)
                   PROVE  Passed(<<r[1], o>>)
        OBVIOUS
      <4>1. committed[r[1]] \in Nat /\ o < r[2]
        BY <1>1 DEF IInv, TypeOK
      <4>2. <<r[1], o>> \notin todo
        BY <1>1, <4>1
      <4>3. QED BY <1>1, <4>2 DEF Ordered, Behind
    <3>7. QED BY <1>1, <3>2, <3>4, <3>5, <3>6 DEF Ordered
  <2>6. out # "ok" => stage' = "down"
    BY <1>2 DEF Exit
  <2>7. QED BY <2>3, <2>4, <2>5, <2>6 DEF Ordered
<1>6. QED BY <1>4, <1>5

\* What was committed in a run that goes on was fetched by it.
LEMMA CommitOrder ==
  ASSUME IInv, Ordered, Commit PROVE Ordered'
<1>1. PICK out \in Outcomes, part \in SUBSET Partitions :
        /\ out = "ok" => part = Partitions
        /\ committed' = [p \in Partitions |-> IF p \in part THEN position[p] ELSE committed[p]]
        /\ IF out = "ok" /\ ~ShouldStop
           THEN stage' = "poll" /\ UNCHANGED <<config, position, todo, handled, started>>
           ELSE Exit
  BY DEF Commit
<1>2. /\ stage = "batch" /\ (todo = {} \/ ShouldStop) /\ UNCHANGED <<dlq, published>>
  BY DEF Commit
<1>3. CASE Exit
  BY <1>2, <1>3, DownOrder DEF Exit
<1>4. CASE ~ShouldStop /\ UNCHANGED <<config, position, todo, handled, started>>
  <2>1. /\ committed' \in [Partitions -> Nat]
        /\ \A p \in Partitions : committed[p] <= committed'[p]
    BY <1>1, <1>2 DEF IInv, TypeOK, Fetched
  <2>2. \A s : Passed(s)' <=> Passed(s)
    BY <1>2, <1>4, PassedFrame DEF IInv
  <2>3. QED BY <1>2, <1>4, <2>1, <2>2, QuietOrder
<1>5. QED BY <1>1, <1>3, <1>4

LEMMA InitOrdered == Init => Ordered
BY DEF Init, Ordered, RunKeepsOrder

\* No step of the replayer, of Kafka or of the operator breaks the order.
LEMMA NextOrdered == IInv /\ IInv' /\ Ordered /\ [Next]_vars => Ordered'
<1> SUFFICES ASSUME IInv, IInv', Ordered, [Next]_vars PROVE Ordered'
  OBVIOUS
<1>1. \A p \in Partitions : committed[p] <= committed[p] /\ committed \in [Partitions -> Nat]
  BY DEF IInv, TypeOK
<1>2. CASE UNCHANGED vars
  <2>1. UNCHANGED <<dlq, committed, published, stage, config, position, todo, handled, started>>
    BY <1>2 DEF vars, run
  <2>2. CASE stage = "down"
    BY <2>1, <2>2, DownOrder
  <2>3. CASE stage # "down"
    <3>1. \A s : Passed(s)' <=> Passed(s)
      BY <2>1, PassedFrame DEF IInv
    <3>2. QED BY <1>1, <2>1, <2>3, <3>1, QuietOrder DEF IInv, TypeOK
  <2>4. QED BY <2>2, <2>3
<1>3. ASSUME NEW r \in todo, Skip(r) \/ DryRunMatch(r) PROVE Ordered'
  <2>1. /\ UNCHANGED <<dlq, committed, published, stage, config, started>>
        /\ stage = "batch" /\ todo' = todo \ {r}
    BY <1>3 DEF Skip, DryRunMatch, NextIs
  <2>2. Passed(r)' /\ \A s : Passed(s) => Passed(s)'
    BY <1>3, <2>1 DEF Skip, DryRunMatch, Passed, Selected, Message, Matches, Fresh, ShouldStop
  <2>3. QED BY <1>1, <2>1, <2>2, QuietOrder DEF IInv, TypeOK
<1>4. CASE Rejoin
  <2>1. UNCHANGED <<dlq, committed, published, stage, config, todo, handled, started>> /\ stage # "down"
    BY <1>4 DEF Rejoin
  <2>2. \A s : Passed(s)' <=> Passed(s)
    BY <2>1, PassedFrame DEF IInv
  <2>3. QED BY <1>1, <2>1, <2>2, QuietOrder DEF IInv, TypeOK
<1>5. CASE PollEnds \/ Crash
  BY <1>5, DownOrder DEF PollEnds, Crash, Exit
<1>6. QED BY <1>2, <1>3, <1>4, <1>5, PollOrder, CommitOrder, PublishOrder, StartOrder, ParkOrder
          DEF Next, Step, Idle

\* Within a run the first copies reach the source topics in the order of the DLQ,
\* for any batches and however often the group is joined again.
THEOREM OrderIsKept == Spec => []RunKeepsOrder
<1>1. Ordered => RunKeepsOrder
  BY DEF Ordered
<1>2. QED BY <1>1, InitOrdered, NextOrdered, InitIInv, NextIInv, PTL DEF Spec
-----------------------------------------------------------------------------
(***************************************************************************)
(* The number of copies. A record may still be put back once from the batch     *)
(* and once when it is fetched again, and each fault adds one such chance.     *)
(***************************************************************************)

\* The offset up to which p was fetched, or will have been when a run starts.
Reached(p) == IF stage = "down" THEN committed[p] ELSE position[p]

\* The chances that are left to put r back.
Chances(r) == (IF r \in todo THEN 1 ELSE 0) + (IF r[2] > Reached(r[1]) THEN 1 ELSE 0)

Rationed == \A r \in Records : Copies(r) + Chances(r) <= 1 + (MaxFaults - faults)

\* Copies are counted by natural numbers.
LEMMA CopiesAreCounted ==
  ASSUME NEW s \in Seq(Records), NEW r
  PROVE  LET at == {i \in 1..Len(s) : s[i] = r} IN IsFiniteSet(at) /\ Cardinality(at) \in Nat
<1> DEFINE at == {i \in 1..Len(s) : s[i] = r}
<1>1. IsFiniteSet(1..Len(s)) /\ at \subseteq 1..Len(s)
  BY FS_Interval
<1>2. IsFiniteSet(at)
  BY <1>1, FS_Subset
<1>3. QED BY <1>2, FS_CardinalityType

LEMMA CopiesAreNatural ==
  ASSUME published \in Seq(Records), NEW r PROVE Copies(r) \in Nat
BY CopiesAreCounted DEF Copies

\* So are chances.
LEMMA ChancesAreFew ==
  ASSUME NEW r PROVE Chances(r) \in 0..2 /\ Chances(r)' \in 0..2
<1>1. (IF r \in todo THEN 1 ELSE 0) \in 0..1 /\ (IF r \in todo' THEN 1 ELSE 0) \in 0..1
  OBVIOUS
<1>2. /\ (IF r[2] > Reached(r[1]) THEN 1 ELSE 0) \in 0..1
      /\ (IF r[2] > Reached(r[1])' THEN 1 ELSE 0) \in 0..1
  OBVIOUS
<1>3. \A a, b \in 0..1 : a + b \in 0..2
  OBVIOUS
<1>4. QED BY <1>1, <1>2, <1>3 DEF Chances

\* One more copy of r.
LEMMA OneMoreCopy ==
  ASSUME TypeOK, NEW r, published' = Append(published, r), NEW s
  PROVE  Copies(s)' = IF s = r THEN Copies(s) + 1 ELSE Copies(s)
<1> DEFINE n == Len(published)
           Before == {i \in 1..n : published[i] = s}
           After == {i \in 1..Len(published') : published'[i] = s}
<1>1. /\ n \in Nat /\ Len(published') = n + 1 /\ published'[n + 1] = r
      /\ \A i \in 1..n : published'[i] = published[i]
  BY DEF TypeOK
<1>2. IsFiniteSet(Before) /\ Cardinality(Before) \in Nat
  <2>1. published \in Seq(Records)
    BY DEF TypeOK
  <2>2. QED BY <2>1, CopiesAreCounted
<1>3. n + 1 \notin Before
  BY <1>1
<1>4. After = IF s = r THEN Before \union {n + 1} ELSE Before
  BY <1>1
<1>5. Cardinality(Before \union {n + 1}) = Cardinality(Before) + 1
  BY <1>2, <1>3, FS_AddElement
<1>6. QED BY <1>4, <1>5 DEF Copies

\* A fault adds at most one chance, and copies use them up.
LEMMA ChancesStep ==
  ASSUME TypeOK, TypeOK', Rationed,
         \A r \in Records : Copies(r)' + Chances(r)' + faults' <= Copies(r) + Chances(r) + faults
  PROVE  Rationed'
<1> SUFFICES ASSUME NEW r \in Records
             PROVE  Copies(r)' + Chances(r)' <= 1 + (MaxFaults - faults')
  BY DEF Rationed
<1>1. Copies(r) \in Nat /\ Copies(r)' \in Nat
  BY CopiesAreCounted DEF TypeOK, Copies
<1>2. Chances(r) \in Nat /\ Chances(r)' \in Nat
  BY ChancesAreFew
<1>3. faults \in Nat /\ faults' \in Nat /\ MaxFaults \in Nat
  BY BoundsAssumption DEF TypeOK
<1>4. /\ Copies(r) + Chances(r) <= 1 + (MaxFaults - faults)
      /\ Copies(r)' + Chances(r)' + faults' <= Copies(r) + Chances(r) + faults
  BY DEF Rationed
<1>5. QED BY <1>1, <1>2, <1>3, <1>4

\* Steps that put nothing back and add no chance without a fault.
LEMMA SameCopies ==
  ASSUME TypeOK, TypeOK', Rationed, published' = published,
         \A r \in Records : Chances(r)' + faults' <= Chances(r) + faults
  PROVE  Rationed'
<1>1. ASSUME NEW r \in Records
      PROVE  Copies(r)' + Chances(r)' + faults' <= Copies(r) + Chances(r) + faults
  <2>1. Copies(r)' = Copies(r) /\ Copies(r) \in Nat
    BY CopiesAreCounted DEF Copies, TypeOK
  <2>2. Chances(r) \in Nat /\ Chances(r)' \in Nat
    BY ChancesAreFew
  <2>3. faults \in Nat /\ faults' \in Nat
    BY BoundsAssumption DEF TypeOK
  <2>4. QED BY <2>1, <2>2, <2>3
<1>2. QED BY <1>1, ChancesStep

\* The end of a run empties the batch, and lets what is not committed be fetched again.
LEMMA ExitChances ==
  ASSUME IInv, Exit, committed' = committed, NEW r \in Records
  PROVE  /\ Chances(r)' <= 1
         /\ r \in todo => Chances(r)' <= Chances(r)
         /\ Chances(r)' <= Chances(r) + 1
<1>1. r[1] \in Partitions /\ r[2] \in Nat /\ committed[r[1]] \in Nat /\ position[r[1]] \in Nat
  BY DEF IInv, TypeOK, Records
<1>2. QED BY <1>1 DEF Exit, Chances, Reached

\* A poll moves what it fetches from the topic to the batch.
LEMMA PollCopies ==
  ASSUME IInv, IInv', Rationed, Poll PROVE Rationed'
<1>1. PICK n \in [Backlog -> 1..MaxLog] :
        /\ \A p \in Backlog : position[p] <= n[p] /\ n[p] <= Len(dlq[p])
        /\ position' = [p \in Partitions |-> IF p \in Backlog THEN n[p] ELSE position[p]]
        /\ todo' = UNION {{<<p, o>> : o \in (position[p] + 1)..n[p]} : p \in Backlog}
  BY DEF Poll
<1>2. /\ stage = "poll" /\ stage' = "batch" /\ todo = {}
      /\ UNCHANGED <<published, faults>>
  BY DEF Poll, IInv, Fetched
<1>3. ASSUME NEW r \in Records PROVE Chances(r)' <= Chances(r)
  <2>1. PICK p \in Partitions, o \in Nat : r = <<p, o>>
    BY DEF Records
  <2>2. position[p] \in Nat /\ position'[p] \in Nat /\ position[p] <= position'[p]
    BY <1>1, BoundsAssumption DEF IInv, TypeOK
  <2>3. r \in todo' => position[p] < o /\ o <= position'[p]
    <3>1. ASSUME r \in todo' PROVE position[p] < o /\ o <= position'[p]
      <4>1. PICK q \in Backlog : \E j \in (position[q] + 1)..n[q] : r = <<q, j>>
        BY <1>1, <3>1
      <4>2. q = p /\ o \in (position[p] + 1)..n[p] /\ position'[p] = n[p] /\ n[p] \in Nat
        BY <1>1, <2>1, <4>1, BoundsAssumption DEF Backlog
      <4>3. QED BY <2>2, <4>2
    <3>2. QED BY <3>1
  <2>4. QED BY <1>2, <2>1, <2>2, <2>3 DEF Chances, Reached
<1>4. QED BY <1>2, <1>3, SameCopies DEF IInv, TypeOK, Chances

\* A copy uses up the chance of the batch; if the run ends with it, that takes a fault.
LEMMA PublishCopies ==
  ASSUME IInv, IInv', Rationed, NEW r \in todo, Publish(r) PROVE Rationed'
<1>1. PICK out \in Outcomes :
        /\ Call(out)
        /\ published' = IF out = "failed" THEN published ELSE Append(published, r)
        /\ IF out = "ok"
           THEN /\ todo' = todo \ {r}
                /\ handled' = handled + 1
                /\ UNCHANGED <<stage, config, position, started>>
           ELSE Exit
  BY DEF Publish
<1>2. committed' = committed
  BY DEF Publish
<1>3. /\ faults \in Nat /\ faults' \in Nat
      /\ out = "ok" => faults' = faults
      /\ out # "ok" => faults' = faults - 1
  BY <1>1, BoundsAssumption DEF Call, IInv, TypeOK
<1>4. ASSUME NEW s \in Records
      PROVE  Copies(s)' + Chances(s)' + faults' <= Copies(s) + Chances(s) + faults
  <2>1. /\ Copies(s) \in Nat /\ Chances(s) \in Nat /\ Chances(s)' \in Nat
    <3>1. published \in Seq(Records)
      BY DEF IInv, TypeOK
    <3>2. QED BY <3>1, ChancesAreFew, CopiesAreNatural
  <2>2. Copies(s)' = Copies(s) \/ (s = r /\ Copies(s)' = Copies(s) + 1)
    <3>1. CASE published' = published
      BY <3>1 DEF Copies
    <3>2. CASE published' = Append(published, r)
      BY <3>2, OneMoreCopy DEF IInv
    <3>3. QED BY <1>1, <3>1, <3>2
  <2>3. CASE out = "ok"
    <3>1. s = r => Chances(s)' = Chances(s) - 1
      BY <1>1, <1>2, <2>3 DEF Chances, Reached
    <3>2. s # r => Chances(s)' = Chances(s)
      BY <1>1, <1>2, <2>3 DEF Chances, Reached
    <3>3. QED BY <1>3, <2>1, <2>3, <2>2, <3>1, <3>2
  <2>4. CASE out # "ok"
    <3>1. /\ Chances(s)' <= Chances(s) + 1
          /\ s = r => Chances(s)' <= Chances(s)
      BY <1>1, <1>2, <2>4, ExitChances
    <3>2. QED BY <1>3, <2>1, <2>4, <2>2, <3>1
  <2>5. QED BY <2>3, <2>4
<1>5. QED BY <1>4, ChancesStep DEF IInv

\* A commit adds no chance, unless its fault keeps part of it back.
LEMMA CommitCopies ==
  ASSUME IInv, IInv', Rationed, Commit PROVE Rationed'
<1>1. PICK out \in Outcomes, part \in SUBSET Partitions :
        /\ Call(out)
        /\ out = "ok" => part = Partitions
        /\ committed' = [p \in Partitions |-> IF p \in part THEN position[p] ELSE committed[p]]
        /\ IF out = "ok" /\ ~ShouldStop
           THEN stage' = "poll" /\ UNCHANGED <<config, position, todo, handled, started>>
           ELSE Exit
  BY DEF Commit
<1>2. stage = "batch" /\ published' = published
  BY DEF Commit
<1>3. ASSUME NEW r \in Records PROVE Chances(r)' + faults' <= Chances(r) + faults
  <2>1. /\ r[1] \in Partitions /\ r[2] \in Nat /\ position[r[1]] \in Nat /\ committed'[r[1]] \in Nat
        /\ faults \in Nat /\ faults' \in Nat
    BY DEF IInv, TypeOK, Records
  <2>2. CASE out = "ok"
    <3>1. committed'[r[1]] = position[r[1]] /\ faults' = faults
      BY <1>1, <2>1, <2>2 DEF Call
    <3>2. Chances(r)' <= Chances(r)
      BY <1>1, <1>2, <2>1, <2>2, <3>1 DEF Exit, Chances, Reached
    <3>3. QED BY <2>1, <3>1, <3>2 DEF Chances
  <2>3. CASE out # "ok"
    <3>1. faults' = faults - 1 /\ Chances(r)' <= 1
      BY <1>1, <2>1, <2>3 DEF Call, Exit, Chances, Reached
    <3>2. QED BY <2>1, <3>1 DEF Chances
  <2>4. QED BY <2>2, <2>3
<1>4. QED BY <1>2, <1>3, SameCopies DEF IInv

\* All other steps.
LEMMA RestCopies ==
  ASSUME IInv, IInv', Rationed, published' = published,
         \/ \E r \in todo : Skip(r) \/ DryRunMatch(r)
         \/ PollEnds \/ Crash \/ Rejoin \/ UNCHANGED vars
         \/ \E cfg \in Configs : Start(cfg)
         \/ \E p \in Partitions, m \in Messages : Park(p, m)
  PROVE  Rationed'
<1>1. ASSUME NEW r \in Records PROVE Chances(r)' + faults' <= Chances(r) + faults
  <2>0. Chances(r) \in Nat /\ Chances(r)' \in Nat
    BY ChancesAreFew
  <2>1. /\ r[1] \in Partitions /\ r[2] \in Nat /\ committed[r[1]] \in Nat /\ position[r[1]] \in Nat
        /\ faults \in Nat /\ faults' \in Nat
    BY BoundsAssumption DEF IInv, TypeOK, Records
  <2>2. CASE PollEnds \/ Crash
    <3>1. faults' = faults - 1 /\ Exit /\ committed' = committed
      BY <2>2 DEF PollEnds, Crash, Call
    <3>2. QED BY <2>0, <2>1, <3>1, ExitChances
  <2>3. CASE Rejoin
    <3>1. faults' = faults - 1 /\ todo' = todo
      BY <2>3 DEF Rejoin
    <3>2. QED BY <2>0, <2>1, <3>1 DEF Chances
  <2>4. ASSUME NEW s \in todo, Skip(s) \/ DryRunMatch(s)
        PROVE  Chances(r)' + faults' <= Chances(r) + faults
    <3>1. todo' = todo \ {s} /\ UNCHANGED <<stage, committed, position, faults>>
      BY <2>4 DEF Skip, DryRunMatch
    <3>2. QED BY <2>0, <2>1, <3>1 DEF Chances, Reached
  <2>5. ASSUME NEW cfg \in Configs, Start(cfg)
        PROVE  Chances(r)' + faults' <= Chances(r) + faults
    <3>1. /\ stage = "down" /\ stage' = "poll" /\ position' = committed
          /\ UNCHANGED <<todo, faults>>
      BY <2>5 DEF Start
    <3>2. QED BY <2>0, <2>1, <3>1 DEF Chances, Reached
  <2>6. CASE UNCHANGED vars \/ \E p \in Partitions, m \in Messages : Park(p, m)
    <3>1. UNCHANGED <<stage, committed, position, todo, faults>>
      BY <2>6 DEF Park, vars, run
    <3>2. QED BY <2>0, <2>1, <3>1 DEF Chances, Reached
  <2>7. QED BY <2>2, <2>3, <2>4, <2>5, <2>6
<1>2. QED BY <1>1, SameCopies DEF IInv

\* Nothing is published, and there is one chance at most.
LEMMA InitRationed == Init => Rationed
<1> SUFFICES ASSUME Init, NEW r \in Records PROVE Copies(r) + Chances(r) <= 1 + (MaxFaults - faults)
  BY DEF Rationed
<1>1. {i \in 1..Len(published) : published[i] = r} = {}
  BY DEF Init
<1>2. Copies(r) = 0
  BY <1>1, FS_EmptySet DEF Copies
<1>3. Chances(r) \in 0..1
  BY DEF Init, Chances
<1>4. QED BY <1>2, <1>3, BoundsAssumption DEF Init

LEMMA NextRationed == IInv /\ IInv' /\ Rationed /\ [Next]_vars => Rationed'
<1> SUFFICES ASSUME IInv, IInv', Rationed, [Next]_vars PROVE Rationed'
  OBVIOUS
<1>1. ASSUME NEW r \in todo, Publish(r) PROVE Rationed'
  BY <1>1, PublishCopies
<1>2. CASE /\ published' = published
           /\ \/ \E r \in todo : Skip(r) \/ DryRunMatch(r)
              \/ PollEnds \/ Crash \/ Rejoin \/ UNCHANGED vars
              \/ \E cfg \in Configs : Start(cfg)
              \/ \E p \in Partitions, m \in Messages : Park(p, m)
  BY <1>2, RestCopies
<1>3. CASE Poll \/ Commit
  BY <1>3, PollCopies, CommitCopies
<1>4. QED BY <1>1, <1>2, <1>3
       DEF Next, Step, Skip, DryRunMatch, PollEnds, Crash, Rejoin, Idle, Start, Park, vars

\* Over any number of runs, a message has more copies than one only for as many
\* faults: crashes, failed or lost calls, and rejoins.
THEOREM CopiesAreFaults == Spec => []CopiesTakeFaults
<1>1. IInv /\ Rationed => CopiesTakeFaults
  <2> SUFFICES ASSUME IInv, Rationed, NEW i \in 1..Len(published)
               PROVE  Copies(published[i]) <= 1 + (MaxFaults - faults)
    BY DEF CopiesTakeFaults
  <2> DEFINE r == published[i]
  <2>1. r \in Records
    BY DEF IInv, TypeOK
  <2>2. published \in Seq(Records) /\ faults \in Nat /\ MaxFaults \in Nat
    BY BoundsAssumption DEF IInv, TypeOK
  <2>3. Copies(r) \in Nat /\ Chances(r) \in Nat
    BY <2>2, CopiesAreNatural, ChancesAreFew
  <2>4. Copies(r) + Chances(r) <= 1 + (MaxFaults - faults)
    BY <2>1 DEF Rationed
  <2>5. QED BY <2>2, <2>3, <2>4
<1>2. QED BY <1>1, InitRationed, NextRationed, InitIInv, NextIInv, PTL DEF Spec
=============================================================================

--------------------------- MODULE ConsumerProofs ---------------------------
(***************************************************************************)
(* Theorems about Consumer, for every number of consumers, partitions and   *)
(* events, every retry limit and every budget of faults.                    *)
(*                                                                         *)
(* The inductive invariant IInv joins three parts. WorkerInv says what a     *)
(* process holds in each stage, LogInv orders the offsets, and Covered says   *)
(* that what the owner of a partition has fetched is settled or still in its  *)
(* batch. A commit publishes fetched offsets when the batch is empty, so      *)
(* Covered is what makes NoRecordLost inductive.                             *)
(*                                                                         *)
(* The second half is about what Consumer leaves in the read model: an event *)
(* is marked processed with all of its rows written, and parked only after   *)
(* all retries; and a process that is alone in its group undoes a newer       *)
(* record by a parked one only, and leaves no row uninvalidated whose event   *)
(* is processed.                                                           *)
(***************************************************************************)
EXTENDS Consumer, FiniteSetTheorems, TLAPS

Handling == Stages \ {"down", "poll", "batch"}

\* The records the registry has published.
Published == {r \in Records : r[2] <= Len(log[r[1]])}

\* What a consumer process holds: no batch outside the loop body, and a current
\* record of its batch in every stage that handles one.
WorkerInv ==
  /\ owner \in [Partitions -> Consumers \union {NoOne}]
  /\ stage \in [Consumers -> Stages]
  /\ todo \in [Consumers -> SUBSET Records]
  /\ current \in [Consumers -> Records \union {NoRecord}]
  /\ attempt \in [Consumers -> 0..RetryAttempts]
  /\ cancelled \in [Consumers -> BOOLEAN]
  /\ \A c \in Consumers :
       /\ stage[c] \in {"down", "poll"} => todo[c] = {}
       /\ stage[c] \in Handling => current[c] \in todo[c]

\* Offsets are ordered, and batches hold published records.
LogInv ==
  /\ log \in [Partitions -> Seq(Events)]
  /\ committed \in [Partitions -> Nat]
  /\ position \in [Partitions -> Nat]
  /\ dlq \subseteq Records
  /\ \A p \in Partitions : committed[p] <= position[p] /\ position[p] <= Len(log[p])
  /\ \A c \in Consumers : todo[c] \subseteq Published

StoreInv ==
  /\ row \in [Keys -> Nat]
  /\ writes \subseteq Events \X {"record", "auth"}
  /\ processed \subseteq Events
  /\ cache \in [Keys -> {"clean", "dirty", "missed"}]
  /\ faults \in 0..MaxFaults

\* What the owner of a partition has fetched is settled or still in its batch.
Covered ==
  \A p \in Partitions, c \in Consumers : owner[p] = c =>
    \A o \in 1..position[p] : Settled(<<p, o>>) \/ <<p, o>> \in todo[c]

IInv == WorkerInv /\ LogInv /\ StoreInv /\ Covered /\ NoRecordLost

-----------------------------------------------------------------------------
(***************************************************************************)
(* Control steps of one process.                                            *)
(***************************************************************************)

\* No process gains a partition, and a process that keeps one drops only
\* settled records from its batch.
DropsSettled ==
  \A p \in Partitions, d \in Consumers : owner'[p] = d =>
    /\ owner[p] = d
    /\ \A r \in todo[d] : r \in todo'[d] \/ Settled(r)'

\* Batches never grow in a control step.
Shrinks == \A d \in Consumers : todo'[d] \subseteq todo[d]

\* A jump to a stage that the process holds the right data for keeps WorkerInv.
LEMMA GotoStep ==
  ASSUME WorkerInv, NEW c \in Consumers, NEW s \in Stages, Goto(c, s),
         s \in {"down", "poll"} => todo[c] = {},
         s \in Handling => current[c] \in todo[c]
  PROVE  WorkerInv' /\ DropsSettled /\ Shrinks
  BY DEF WorkerInv, Goto, DropsSettled, Shrinks

\* The end of Run keeps WorkerInv: the process owns nothing and holds nothing.
LEMMA ExitStep ==
  ASSUME WorkerInv, NEW c \in Consumers, Exit(c)
  PROVE  WorkerInv' /\ DropsSettled /\ Shrinks
<1>1. WorkerInv'
  BY BoundsAssumption DEF WorkerInv, Exit, Stages, Handling
<1>2. DropsSettled
  BY NobodyAssumption DEF WorkerInv, Exit, DropsSettled
<1>3. Shrinks
  BY DEF WorkerInv, Exit, Shrinks
<1>4. QED BY <1>1, <1>2, <1>3

\* A record that was handled without an error may leave the batch if it is settled.
LEMMA DoneStep ==
  ASSUME WorkerInv, NEW c \in Consumers, RecordDone(c), \A r \in Records : r = current[c] => Settled(r)'
  PROVE  WorkerInv' /\ DropsSettled /\ Shrinks
<1>0. current'[c] = NoRecord
  BY DEF WorkerInv, RecordDone
<1>1. WorkerInv'
  BY BoundsAssumption DEF WorkerInv, RecordDone, Stages, Handling
<1>2. QED
  BY <1>1 DEF WorkerInv, RecordDone, DropsSettled, Shrinks

\* Whatever HandleFailed does with the record being handled keeps WorkerInv.
LEMMA FailedStep ==
  ASSUME WorkerInv, NEW c \in Consumers, HandleFailed(c), stage[c] \in Handling
  PROVE  WorkerInv' /\ DropsSettled /\ Shrinks
<1>1. CASE cancelled[c] /\ Exit(c)
  BY <1>1, ExitStep
<1>2. CASE /\ ~cancelled[c] /\ attempt[c] < RetryAttempts
           /\ stage' = [stage EXCEPT ![c] = "backoff"]
           /\ attempt' = [attempt EXCEPT ![c] = @ + 1]
           /\ UNCHANGED <<todo, current, cancelled, owner>>
  BY <1>2, BoundsAssumption DEF WorkerInv, DropsSettled, Shrinks, Stages, Handling
<1>3. CASE ~cancelled[c] /\ attempt[c] = RetryAttempts /\ Goto(c, "park")
  BY <1>3, GotoStep DEF WorkerInv, Stages, Handling
<1>4. QED BY <1>1, <1>2, <1>3 DEF HandleFailed

\* The record being handled was published, so its event and row exist.
LEMMA CurrentIsPublished ==
  ASSUME WorkerInv, LogInv, NEW c \in Consumers, stage[c] \in Handling
  PROVE  /\ current[c] \in Published
         /\ current[c][2] \in Nat
         /\ Event(c) \in Events
         /\ Row(c) \in Keys
<1>1. current[c] \in Published
  BY DEF WorkerInv, LogInv
<1>2. /\ current[c][1] \in Partitions
      /\ current[c][2] \in 1..Len(log[current[c][1]])
  BY <1>1 DEF Published, Records, Offsets, LogInv
<1>3. Event(c) \in Events
  BY <1>2 DEF LogInv, Event, EventOf
<1>4. QED BY <1>1, <1>2, <1>3, KeyAssumption DEF Row

\* A control step that leaves the offsets alone keeps the log part.
LEMMA LogFrame ==
  ASSUME LogInv, log' = log, committed' = committed, position' = position,
         dlq' \subseteq Records, Shrinks
  PROVE  LogInv'
  BY DEF LogInv, Shrinks, Published

\* A control step that unsettles nothing and drops only settled records keeps
\* every fetched record covered and every committed record settled.
LEMMA CoverFrame ==
  ASSUME IInv, log' = log, committed' = committed, position' = position,
         dlq \subseteq dlq', processed \subseteq processed',
         WorkerInv', DropsSettled
  PROVE  Covered' /\ NoRecordLost'
<1>1. ASSUME NEW p \in Partitions, NEW o \in Nat, Settled(<<p, o>>)
      PROVE  Settled(<<p, o>>)'
  BY <1>1 DEF Settled, EventOf
<1>2. Covered'
  <2> SUFFICES ASSUME NEW p \in Partitions, NEW c \in Consumers, owner'[p] = c,
                      NEW o \in 1..position'[p]
               PROVE  Settled(<<p, o>>)' \/ <<p, o>> \in todo'[c]
    BY DEF Covered
  <2>1. owner[p] = c /\ \A r \in todo[c] : r \in todo'[c] \/ Settled(r)'
    BY DEF DropsSettled
  <2>2. Settled(<<p, o>>) \/ <<p, o>> \in todo[c]
    BY <2>1 DEF IInv, Covered
  <2>3. o \in Nat
    BY DEF IInv, LogInv
  <2>4. QED BY <1>1, <2>1, <2>2, <2>3
<1>3. NoRecordLost'
  <2> SUFFICES ASSUME NEW p \in Partitions, NEW o \in 1..committed'[p]
               PROVE  Settled(<<p, o>>)'
    BY DEF NoRecordLost
  <2>1. o \in Nat /\ Settled(<<p, o>>)
    BY DEF IInv, LogInv, NoRecordLost
  <2>2. QED BY <1>1, <2>1
<1>4. QED BY <1>2, <1>3

\* A failed or successful call never raises the fault budget.
LEMMA CallBudget ==
  ASSUME faults \in 0..MaxFaults, NEW c, NEW out, Call(c, out)
  PROVE  faults' \in 0..MaxFaults
  BY BoundsAssumption DEF Call
-----------------------------------------------------------------------------
(***************************************************************************)
(* Every step keeps IInv.                                                   *)
(***************************************************************************)

\* A statement of Handle, or a Redis call, that leaves the log, the offsets and
\* the DLQ alone, and then moves the process by one of the control steps.
LEMMA StatementStep ==
  ASSUME IInv, NEW c \in Consumers, stage[c] \in Handling,
         UNCHANGED kafka,
         processed \subseteq processed',
         StoreInv',
         WorkerInv', DropsSettled, Shrinks
  PROVE  IInv'
<1>1. LogInv'
  BY LogFrame DEF IInv, kafka, LogInv
<1>2. Covered' /\ NoRecordLost'
  BY CoverFrame DEF kafka
<1>3. QED BY <1>1, <1>2 DEF IInv

\* IsProcessed keeps IInv: a record leaves the batch only as processed.
LEMMA CheckStep ==
  ASSUME IInv, NEW c \in Consumers, Check(c)
  PROVE  IInv'
<1>1. stage[c] = "check" /\ stage[c] \in Handling /\ current[c] \in todo[c]
  BY DEF Check, Handling, Stages, IInv, WorkerInv
<1>2. PICK out \in Outcomes :
        /\ Call(c, out)
        /\ \/ out = "ok" /\ Event(c) \in processed /\ RecordDone(c)
           \/ out = "ok" /\ Event(c) \notin processed /\ Goto(c, "upsert")
           \/ out # "ok" /\ HandleFailed(c)
  BY DEF Check
<1>3. StoreInv'
  BY <1>2, CallBudget DEF Check, IInv, StoreInv, store
<1>4. WorkerInv' /\ DropsSettled /\ Shrinks
  <2>1. CASE Event(c) \in processed /\ RecordDone(c)
    <3>1. \A r \in Records : r = current[c] => Settled(r)'
      BY <2>1 DEF Check, kafka, store, Settled, EventOf, Event
    <3>2. QED BY <2>1, <3>1, DoneStep DEF IInv
  <2>2. CASE Goto(c, "upsert")
    BY <1>1, <2>2, GotoStep DEF IInv, Stages, Handling
  <2>3. CASE HandleFailed(c)
    BY <1>1, <2>3, FailedStep DEF IInv
  <2>4. QED BY <1>2, <2>1, <2>2, <2>3
<1>5. QED BY <1>1, <1>3, <1>4, StatementStep DEF Check, store, kafka

\* The upsert of a verification record or share link keeps IInv.
LEMMA UpsertStep ==
  ASSUME IInv, NEW c \in Consumers, Upsert(c)
  PROVE  IInv'
<1>1. stage[c] \in Handling /\ current[c] \in todo[c]
  BY DEF Upsert, Handling, Stages, IInv, WorkerInv
<1>2. current[c][2] \in Nat /\ Event(c) \in Events /\ Row(c) \in Keys
  BY <1>1, CurrentIsPublished DEF IInv
<1>3. StoreInv'
  BY <1>2, CallBudget DEF Upsert, IInv, StoreInv
<1>4. WorkerInv' /\ DropsSettled /\ Shrinks
  <2>1. CASE HandleFailed(c)
    BY <1>1, <2>1, FailedStep DEF IInv
  <2>2. ASSUME NEW s \in {"auth", "mark"}, Goto(c, s)
        PROVE  WorkerInv' /\ DropsSettled /\ Shrinks
    BY <1>1, <2>2, GotoStep DEF IInv, Stages, Handling
  <2>3. QED BY <2>1, <2>2 DEF Upsert
<1>5. QED BY <1>1, <1>3, <1>4, StatementStep DEF Upsert, kafka

\* An event that can never be projected keeps IInv.
LEMMA RejectStep ==
  ASSUME IInv, NEW c \in Consumers, Reject(c) \/ AuthConflict(c)
  PROVE  IInv'
<1>1. stage[c] \in Handling
  BY DEF Reject, AuthConflict, Handling, Stages
<1>2. WorkerInv' /\ DropsSettled /\ Shrinks
  BY <1>1, FailedStep DEF IInv, Reject, AuthConflict
<1>3. StoreInv'
  BY DEF IInv, StoreInv, store, Reject, AuthConflict
<1>4. QED BY <1>1, <1>2, <1>3, StatementStep DEF Reject, AuthConflict, kafka, store

\* The upsert of the student's account keeps IInv.
LEMMA AuthStep ==
  ASSUME IInv, NEW c \in Consumers, Auth(c)
  PROVE  IInv'
<1>1. stage[c] \in Handling /\ current[c] \in todo[c]
  BY DEF Auth, Handling, Stages, IInv, WorkerInv
<1>2. Event(c) \in Events
  BY <1>1, CurrentIsPublished DEF IInv
<1>3. StoreInv'
  BY <1>2, CallBudget DEF Auth, IInv, StoreInv
<1>4. WorkerInv' /\ DropsSettled /\ Shrinks
  <2>1. CASE HandleFailed(c)
    BY <1>1, <2>1, FailedStep DEF IInv
  <2>2. CASE Goto(c, "invalidate")
    BY <1>1, <2>2, GotoStep DEF IInv, Stages, Handling
  <2>3. QED BY <2>1, <2>2 DEF Auth
<1>5. QED BY <1>1, <1>3, <1>4, StatementStep DEF Auth, kafka

\* The event without an account keeps IInv.
LEMMA NamelessStep ==
  ASSUME IInv, NEW c \in Consumers, AuthNameless(c)
  PROVE  IInv'
<1>1. stage[c] \in Handling /\ current[c] \in todo[c]
  BY DEF AuthNameless, Handling, Stages, IInv, WorkerInv
<1>2. WorkerInv' /\ DropsSettled /\ Shrinks
  BY <1>1, GotoStep DEF AuthNameless, IInv, Stages, Handling
<1>3. StoreInv'
  BY DEF IInv, StoreInv, store, AuthNameless
<1>4. QED BY <1>1, <1>2, <1>3, StatementStep DEF AuthNameless, kafka, store

\* The two cache deletes keep IInv.
LEMMA InvalidateStep ==
  ASSUME IInv, NEW c \in Consumers, Invalidate(c)
  PROVE  IInv'
<1>1. stage[c] \in Handling /\ current[c] \in todo[c]
  BY DEF Invalidate, Handling, Stages, IInv, WorkerInv
<1>2. Row(c) \in Keys
  BY <1>1, CurrentIsPublished DEF IInv
<1>3. StoreInv'
  BY <1>2, CallBudget DEF Invalidate, IInv, StoreInv
<1>4. WorkerInv' /\ DropsSettled /\ Shrinks
  BY <1>1, GotoStep DEF Invalidate, IInv, Stages, Handling
<1>5. QED BY <1>1, <1>3, <1>4, StatementStep DEF Invalidate, kafka

\* MarkProcessed settles the record before it leaves the batch.
LEMMA MarkStep ==
  ASSUME IInv, NEW c \in Consumers, Mark(c)
  PROVE  IInv'
<1>1. stage[c] \in Handling /\ current[c] \in todo[c]
  BY DEF Mark, Handling, Stages, IInv, WorkerInv
<1>2. Event(c) \in Events
  BY <1>1, CurrentIsPublished DEF IInv
<1>3. PICK out \in Outcomes :
        /\ Call(c, out)
        /\ processed' = IF out = "failed" THEN processed ELSE processed \union {Event(c)}
        /\ IF out = "ok" THEN RecordDone(c) ELSE HandleFailed(c)
  BY DEF Mark
<1>4. StoreInv'
  BY <1>2, <1>3, CallBudget DEF Mark, IInv, StoreInv
<1>5. WorkerInv' /\ DropsSettled /\ Shrinks
  <2>1. CASE out = "ok"
    <3>1. \A r \in Records : r = current[c] => Settled(r)'
      BY <1>3, <2>1 DEF Mark, kafka, Settled, EventOf, Event
    <3>2. QED BY <1>3, <2>1, <3>1, DoneStep DEF IInv
  <2>2. CASE out # "ok"
    BY <1>1, <1>3, <2>2, FailedStep DEF IInv
  <2>3. QED BY <2>1, <2>2
<1>6. processed \subseteq processed'
  BY <1>3
<1>7. QED BY <1>1, <1>4, <1>5, <1>6, StatementStep DEF Mark, kafka

\* The wait between two attempts keeps IInv.
LEMMA BackoffStep ==
  ASSUME IInv, NEW c \in Consumers, Backoff(c)
  PROVE  IInv'
<1>1. stage[c] \in Handling /\ current[c] \in todo[c]
  BY DEF Backoff, Handling, Stages, IInv, WorkerInv
<1>2. WorkerInv' /\ DropsSettled /\ Shrinks
  <2>1. CASE Exit(c)
    BY <2>1, ExitStep DEF IInv
  <2>2. CASE Goto(c, "check")
    BY <1>1, <2>2, GotoStep DEF IInv, Stages, Handling
  <2>3. QED BY <2>1, <2>2 DEF Backoff
<1>3. StoreInv'
  BY DEF Backoff, IInv, StoreInv, store
<1>4. QED BY <1>1, <1>2, <1>3, StatementStep DEF Backoff, kafka, store

\* A record leaves the batch for the DLQ only once the DLQ has it.
LEMMA ParkStep ==
  ASSUME IInv, NEW c \in Consumers, ParkRecord(c)
  PROVE  IInv'
<1>1. stage[c] \in Handling /\ current[c] \in todo[c] /\ current[c] \in Records
  BY DEF ParkRecord, Handling, Stages, IInv, WorkerInv
<1>2. PICK out \in Outcomes :
        /\ Call(c, out)
        /\ dlq' = IF out = "failed" THEN dlq ELSE dlq \union {current[c]}
        /\ IF out = "ok" THEN RecordDone(c) ELSE Exit(c)
  BY DEF ParkRecord
<1>3. WorkerInv' /\ DropsSettled /\ Shrinks
  <2>1. CASE out = "ok"
    <3>1. \A r \in Records : r = current[c] => Settled(r)'
      BY <1>2, <2>1 DEF Settled
    <3>2. QED BY <1>2, <2>1, <3>1, DoneStep DEF IInv
  <2>2. CASE out # "ok"
    BY <1>2, <2>2, ExitStep DEF IInv
  <2>3. QED BY <2>1, <2>2
<1>4. dlq \subseteq dlq' /\ dlq' \subseteq Records
  BY <1>1, <1>2 DEF IInv, LogInv
<1>5. LogInv'
  BY <1>3, <1>4, LogFrame DEF ParkRecord, IInv
<1>6. Covered' /\ NoRecordLost'
  BY <1>3, <1>4, CoverFrame DEF ParkRecord, store
<1>7. StoreInv'
  BY <1>2, CallBudget DEF ParkRecord, IInv, StoreInv, store
<1>8. QED BY <1>3, <1>5, <1>6, <1>7 DEF IInv

\* The end of the process, for whatever reason, keeps IInv.
LEMMA EndStep ==
  ASSUME IInv, NEW c \in Consumers, Exit(c), UNCHANGED <<kafka, store>>,
         faults' \in 0..MaxFaults
  PROVE  IInv'
<1>1. WorkerInv' /\ DropsSettled /\ Shrinks
  BY ExitStep DEF IInv
<1>2. LogInv'
  BY <1>1, LogFrame DEF IInv, LogInv, kafka
<1>3. Covered' /\ NoRecordLost'
  BY <1>1, CoverFrame DEF kafka, store
<1>4. StoreInv'
  BY DEF IInv, StoreInv, store
<1>5. QED BY <1>1, <1>2, <1>3, <1>4 DEF IInv

\* A process that only changes its stage or context, outside the handling of a
\* record, keeps IInv.
LEMMA QuietStep ==
  ASSUME IInv, WorkerInv', UNCHANGED <<kafka, store, todo, owner>>,
         faults' \in 0..MaxFaults
  PROVE  IInv'
<1>1. DropsSettled /\ Shrinks
  BY DEF DropsSettled, Shrinks
<1>2. LogInv'
  BY <1>1, LogFrame DEF IInv, LogInv, kafka
<1>3. Covered' /\ NoRecordLost'
  BY <1>1, CoverFrame DEF kafka, store
<1>4. StoreInv'
  BY DEF IInv, StoreInv, store
<1>5. QED BY <1>2, <1>3, <1>4 DEF IInv

\* The start of a process, the start of a record and a signal keep IInv.
LEMMA StartBeginCancelStep ==
  ASSUME IInv, NEW c \in Consumers, Start(c) \/ Begin(c) \/ Cancel(c)
  PROVE  IInv'
<1>1. CASE Start(c)
  <2>1. WorkerInv'
    BY <1>1, GotoStep DEF Start, IInv, WorkerInv, Stages, Handling
  <2>2. QED BY <1>1, <2>1, QuietStep DEF Start, Goto, IInv, StoreInv
<1>2. CASE Begin(c)
  <2>1. WorkerInv'
    BY <1>2 DEF Begin, IInv, WorkerInv, Stages, Handling
  <2>2. QED BY <1>2, <2>1, QuietStep DEF Begin, IInv, StoreInv
<1>3. CASE Cancel(c)
  <2>1. WorkerInv'
    BY <1>3 DEF Cancel, IInv, WorkerInv
  <2>2. QED BY <1>3, <2>1, QuietStep, BoundsAssumption DEF Cancel, IInv, StoreInv
<1>4. QED BY <1>1, <1>2, <1>3

\* What a poll fetches is in the new batch, and what was fetched before is
\* settled, because the previous batch was handled to its end.
LEMMA PollStep ==
  ASSUME IInv, NEW c \in Consumers, Poll(c)
  PROVE  IInv'
<1> DEFINE B == Backlog(c)
<1>1. PICK n \in [B -> 1..MaxLog] :
        /\ \A p \in B : position[p] <= n[p] /\ n[p] <= Len(log[p])
        /\ position' = [p \in Partitions |-> IF p \in B THEN n[p] ELSE position[p]]
        /\ todo' = [todo EXCEPT ![c] =
             UNION {{<<p, o>> : o \in (position[p] + 1)..n[p]} : p \in B}]
  BY DEF Poll
<1>2. B \subseteq Partitions /\ \A p \in B : n[p] \in Nat /\ owner[p] = c
  BY <1>1, BoundsAssumption DEF Backlog, Owned
<1>3. \A r : r \in todo'[c] <=>
        \E p \in B : \E o \in (position[p] + 1)..n[p] : r = <<p, o>>
  BY <1>1 DEF IInv, WorkerInv
<1>4. \A p \in Partitions : /\ position[p] \in Nat /\ Len(log[p]) \in Nat
                            /\ position'[p] \in Nat /\ position[p] <= position'[p]
                            /\ position'[p] <= Len(log[p])
  BY <1>1, <1>2 DEF IInv, LogInv
<1>5. todo'[c] \subseteq Published
  BY <1>1, <1>2, <1>3, <1>4 DEF Published, Records, Offsets
<1>6. \A d \in Consumers : d # c => todo'[d] = todo[d]
  BY <1>1 DEF IInv, WorkerInv
<1>7. WorkerInv'
  <2>1. todo' \in [Consumers -> SUBSET Records]
    BY <1>1, <1>5, <1>6 DEF IInv, WorkerInv, Published
  <2>2. stage' = [stage EXCEPT ![c] = "batch"] /\ UNCHANGED <<current, attempt, cancelled, owner>>
    BY DEF Poll
  <2>3. QED BY <2>1, <2>2, <1>6 DEF IInv, WorkerInv, Stages, Handling
<1>8. LogInv'
  <2>1. \A p \in Partitions : committed'[p] <= position'[p] /\ position'[p] <= Len(log'[p])
    BY <1>4 DEF Poll, IInv, LogInv
  <2>2. \A d \in Consumers : todo'[d] \subseteq Published'
    BY <1>5, <1>6 DEF Poll, IInv, LogInv, Published
  <2>3. position' \in [Partitions -> Nat]
    BY <1>1, <1>2, <1>4
  <2>4. UNCHANGED <<log, committed, dlq>>
    BY DEF Poll
  <2>5. QED BY <2>1, <2>2, <2>3, <2>4 DEF IInv, LogInv
<1>9. \A r : Settled(r)' <=> Settled(r)
  BY DEF Poll, Settled, EventOf, store
<1>10. Covered'
  <2> SUFFICES ASSUME NEW p \in Partitions, NEW d \in Consumers, owner'[p] = d,
                      NEW o \in 1..position'[p]
               PROVE  Settled(<<p, o>>)' \/ <<p, o>> \in todo'[d]
    BY DEF Covered
  <2>1. owner[p] = d /\ todo[c] = {} /\ o \in Nat
    BY <1>4 DEF Poll, IInv, WorkerInv
  <2>2. CASE o <= position[p]
    <3>1. Settled(<<p, o>>) \/ <<p, o>> \in todo[d]
      BY <1>4, <2>1, <2>2 DEF IInv, Covered
    <3>2. QED BY <3>1, <2>1, <1>6, <1>9
  <2>3. CASE o > position[p]
    <3>1. p \in B
      BY <2>1, <2>3, <1>1, <1>4
    <3>2. d = c /\ o \in (position[p] + 1)..n[p]
      BY <3>1, <2>1, <2>3, <1>1, <1>2, <1>4
    <3>3. QED BY <3>1, <3>2, <1>3
  <2>4. QED BY <2>1, <2>2, <2>3, <1>4
<1>11. NoRecordLost' /\ StoreInv'
  BY <1>9 DEF Poll, IInv, NoRecordLost, StoreInv, store
<1>12. QED BY <1>7, <1>8, <1>10, <1>11 DEF IInv

\* A commit moves offsets over covered records of an empty batch only.
LEMMA CommitStep ==
  ASSUME IInv, NEW c \in Consumers, Commit(c)
  PROVE  /\ IInv'
         /\ \A p \in Partitions : committed[p] <= committed'[p]
<1>1. PICK out \in Outcomes, part \in SUBSET Owned(c) :
        /\ Call(c, out)
        /\ committed' = [p \in Partitions |-> IF p \in part THEN position[p] ELSE committed[p]]
        /\ IF out = "ok" THEN Goto(c, "poll") ELSE Exit(c)
  BY DEF Commit
<1>2. WorkerInv' /\ DropsSettled /\ Shrinks
  <2>1. CASE Goto(c, "poll")
    BY <2>1, GotoStep DEF Commit, IInv, Stages, Handling
  <2>2. CASE Exit(c)
    BY <2>2, ExitStep DEF IInv
  <2>3. QED BY <1>1, <2>1, <2>2
<1>3. \A p \in Partitions : /\ committed'[p] \in Nat
                            /\ committed[p] <= committed'[p]
                            /\ committed'[p] <= position[p]
  BY <1>1 DEF IInv, LogInv
<1>4. LogInv'
  <2>1. committed' \in [Partitions -> Nat]
    BY <1>1, <1>3
  <2>2. QED BY <1>2, <1>3, <2>1 DEF Commit, IInv, LogInv, Shrinks, Published
<1>5. \A r : Settled(r)' <=> Settled(r)
  BY DEF Commit, Settled, EventOf, store
<1>6. Covered'
  <2> SUFFICES ASSUME NEW p \in Partitions, NEW d \in Consumers, owner'[p] = d,
                      NEW o \in 1..position'[p]
               PROVE  Settled(<<p, o>>)' \/ <<p, o>> \in todo'[d]
    BY DEF Covered
  <2>1. owner[p] = d /\ \A r \in todo[d] : r \in todo'[d] \/ Settled(r)'
    BY <1>2 DEF DropsSettled
  <2>2. Settled(<<p, o>>) \/ <<p, o>> \in todo[d]
    BY <2>1 DEF Commit, IInv, Covered
  <2>3. QED BY <1>5, <2>1, <2>2
<1>7. NoRecordLost'
  <2> SUFFICES ASSUME NEW p \in Partitions, NEW o \in 1..committed'[p]
               PROVE  Settled(<<p, o>>)'
    BY DEF NoRecordLost
  <2>1. CASE p \in part
    <3>1. owner[p] = c /\ todo[c] = {} /\ o \in 1..position[p]
      BY <1>1, <2>1 DEF Commit, Owned
    <3>2. QED BY <3>1, <1>5 DEF IInv, Covered
  <2>2. CASE p \notin part
    BY <1>1, <1>5, <2>2 DEF IInv, NoRecordLost
  <2>3. QED BY <2>1, <2>2
<1>8. StoreInv'
  BY <1>1, CallBudget DEF Commit, IInv, StoreInv, store
<1>9. QED BY <1>2, <1>3, <1>4, <1>6, <1>7, <1>8 DEF IInv

\* A published record changes no record before it.
LEMMA PublishStep ==
  ASSUME IInv, NEW e \in Events, Publish(e)
  PROVE  IInv'
<1>1. /\ log' \in [Partitions -> Seq(Events)]
      /\ \A p \in Partitions : Len(log[p]) \in Nat /\ Len(log[p]) <= Len(log'[p])
      /\ \A p \in Partitions : \A o \in 1..Len(log[p]) : log'[p][o] = log[p][o]
  BY HomeAssumption DEF Publish, IInv, LogInv
<1>2. \A p \in Partitions : \A o \in 1..Len(log[p]) : Settled(<<p, o>>)' <=> Settled(<<p, o>>)
  BY <1>1 DEF Publish, Settled, EventOf, store
<1>3. WorkerInv' /\ StoreInv'
  BY DEF Publish, IInv, WorkerInv, StoreInv, worker, store
<1>4. LogInv'
  <2>1. Published \subseteq Published'
    BY <1>1 DEF Published, Records, Offsets
  <2>2. QED BY <1>1, <2>1 DEF Publish, IInv, LogInv, worker
<1>5. \A p \in Partitions : \A o \in 1..position[p] : o \in 1..Len(log[p])
  BY <1>1 DEF IInv, LogInv
<1>6. \A p \in Partitions : \A o \in 1..committed[p] : o \in 1..Len(log[p])
  BY <1>1 DEF IInv, LogInv
<1>7. Covered'
  BY <1>2, <1>5 DEF Publish, IInv, Covered, worker
<1>8. NoRecordLost'
  BY <1>2, <1>6 DEF Publish, IInv, NoRecordLost
<1>9. QED BY <1>3, <1>4, <1>7, <1>8 DEF IInv

\* The new owner of a partition starts from the committed offset, below which
\* everything is settled.
LEMMA AssignStep ==
  ASSUME IInv, NEW p \in Partitions, NEW c \in Consumers, Assign(p, c)
  PROVE  IInv'
<1>1. WorkerInv'
  BY DEF Assign, IInv, WorkerInv
<1>2. LogInv'
  BY DEF Assign, IInv, LogInv, Published
<1>3. StoreInv'
  BY BoundsAssumption DEF Assign, IInv, StoreInv, store
<1>4. \A r : Settled(r)' <=> Settled(r)
  BY DEF Assign, Settled, EventOf, store
<1>5. NoRecordLost'
  BY <1>4 DEF Assign, IInv, NoRecordLost
<1>6. Covered'
  <2> SUFFICES ASSUME NEW q \in Partitions, NEW d \in Consumers, owner'[q] = d,
                      NEW o \in 1..position'[q]
               PROVE  Settled(<<q, o>>)' \/ <<q, o>> \in todo'[d]
    BY DEF Covered
  <2>1. CASE q = p
    <3>1. o \in 1..committed[p]
      BY <2>1 DEF Assign, IInv, LogInv
    <3>2. QED BY <1>4, <2>1, <3>1 DEF IInv, NoRecordLost
  <2>2. CASE q # p
    <3>1. owner[q] = d /\ o \in 1..position[q]
      BY <2>2 DEF Assign, IInv, WorkerInv, LogInv
    <3>2. QED BY <1>4, <3>1 DEF Assign, IInv, Covered
  <2>3. QED BY <2>1, <2>2
<1>7. QED BY <1>1, <1>2, <1>3, <1>5, <1>6 DEF IInv

\* Initially nothing is committed, fetched or held.
LEMMA InitIInv == Init => IInv
<1> SUFFICES ASSUME Init PROVE IInv
  OBVIOUS
<1>1. WorkerInv
  BY BoundsAssumption DEF Init, WorkerInv, Stages, Handling
<1>2. LogInv
  BY DEF Init, LogInv
<1>3. StoreInv
  BY BoundsAssumption DEF Init, StoreInv
<1>4. Covered /\ NoRecordLost
  BY DEF Init, Covered, NoRecordLost
<1>5. QED BY <1>1, <1>2, <1>3, <1>4 DEF IInv

\* No step of a consumer or of its environment breaks IInv.
LEMMA NextIInv == IInv /\ [Next]_vars => IInv'
<1> SUFFICES ASSUME IInv, [Next]_vars PROVE IInv'
  OBVIOUS
<1>1. ASSUME NEW c \in Consumers, Handle(c) PROVE IInv'
  BY <1>1, CheckStep, UpsertStep, RejectStep, AuthStep, NamelessStep, InvalidateStep,
     MarkStep DEF Handle
<1>2. ASSUME NEW c \in Consumers, PollEnds(c) PROVE IInv'
  <2>1. faults' \in 0..MaxFaults
    BY <1>2, CallBudget DEF PollEnds, IInv, StoreInv
  <2>2. QED BY <1>2, <2>1, EndStep DEF PollEnds
<1>3. ASSUME NEW c \in Consumers, NoDLQ(c) \/ Crash(c) PROVE IInv'
  <2>1. faults' \in 0..MaxFaults
    BY <1>3, BoundsAssumption DEF NoDLQ, Crash, IInv, StoreInv
  <2>2. QED BY <1>3, <2>1, EndStep DEF NoDLQ, Crash
<1>4. ASSUME NEW c \in Consumers, Run(c) PROVE IInv'
  BY <1>1, <1>2, <1>3, <1>4, StartBeginCancelStep, PollStep, BackoffStep, ParkStep, CommitStep
  DEF Run
<1>5. CASE UNCHANGED vars
  BY <1>5, QuietStep DEF vars, worker, IInv, WorkerInv, StoreInv
<1>6. CASE Next
  BY <1>3, <1>4, <1>5, <1>6, StartBeginCancelStep, AssignStep, PublishStep DEF Next, Idle
<1>7. QED BY <1>5, <1>6

\* Type correctness of the consumer group.
THEOREM TypeCorrect == Spec => []TypeOK
<1>1. IInv => TypeOK
  BY DEF IInv, WorkerInv, LogInv, StoreInv, TypeOK
<1>2. QED BY <1>1, InitIInv, NextIInv, PTL DEF Spec

\* No record is lost: every record below a committed offset was projected or is
\* in the DLQ, whatever crashes, signals, failed calls and takeovers happened.
THEOREM NoRecordIsLost == Spec => []NoRecordLost
<1>1. IInv => NoRecordLost
  BY DEF IInv
<1>2. QED BY <1>1, InitIInv, NextIInv, PTL DEF Spec
-----------------------------------------------------------------------------
(***************************************************************************)
(* Action properties and the delivery contract.                             *)
(***************************************************************************)

\* Committed offsets never move back: the position of an owner starts at the
\* committed offset and only grows, and other members' commits do not count.
THEOREM CommitsAdvance == Spec => CommitNeverRewinds
<1> DEFINE Advance == \A p \in Partitions : committed[p] <= committed'[p]
<1>1. IInv /\ [Next]_vars => [Advance]_vars
  <2> SUFFICES ASSUME IInv, Next PROVE Advance
    OBVIOUS
  <2>1. committed' = committed \/ \E c \in Consumers : Commit(c)
    BY DEF Next, Run, Handle, Idle, Crash, Cancel, Assign, Publish, Start, Poll,
           PollEnds, Begin, Backoff, ParkRecord, NoDLQ, Check, Upsert, Reject, Auth,
           AuthNameless, AuthConflict, Invalidate, Mark, vars, kafka
  <2>2. CASE committed' = committed
    BY <2>2 DEF IInv, LogInv
  <2>3. QED BY <2>1, <2>2, CommitStep
<1>2. QED BY <1>1, InitIInv, NextIInv, PTL DEF Spec, CommitNeverRewinds

\* What each kind of step does to the variables of the contract.
LEMMA ContractStep == IInv /\ IInv' /\ [Next]_vars => [Contract!Next]_<<log, processed, dlq, committed>>
<1> SUFFICES ASSUME IInv, IInv', [Next]_vars
             PROVE  Contract!Next \/ UNCHANGED <<log, processed, dlq, committed>>
  OBVIOUS
<1> USE DEF Contract!Next
<1>1. ASSUME NEW e \in Events, Publish(e) PROVE Contract!Produce
  BY <1>1 DEF Publish, store, Contract!Produce
<1>2. ASSUME NEW c \in Consumers, stage[c] \in Handling
      PROVE  /\ current[c][1] \in Partitions
             /\ current[c][2] \in 1..Len(log[current[c][1]])
             /\ current[c] = <<current[c][1], current[c][2]>>
  <2>1. current[c] \in Published
    BY <1>2, CurrentIsPublished DEF IInv
  <2>2. QED BY <2>1 DEF Published, Records, Offsets, IInv, LogInv
<1>3. ASSUME NEW c \in Consumers, Mark(c)
      PROVE  Contract!Project \/ UNCHANGED <<log, processed, dlq, committed>>
  <2>1. processed' = processed \/ processed' = processed \union {Event(c)}
    BY <1>3 DEF Mark
  <2>2. stage[c] \in Handling
    BY <1>3 DEF Mark, Handling, Stages
  <2>3. UNCHANGED <<log, dlq, committed>>
    BY <1>3 DEF Mark, kafka
  <2>4. QED BY <1>2, <2>1, <2>2, <2>3 DEF Event, EventOf, Contract!Project
<1>4. ASSUME NEW c \in Consumers, ParkRecord(c)
      PROVE  Contract!Park \/ UNCHANGED <<log, processed, dlq, committed>>
  <2>1. dlq' = dlq \/ dlq' = dlq \union {current[c]}
    BY <1>4 DEF ParkRecord
  <2>2. stage[c] \in Handling
    BY <1>4 DEF ParkRecord, Handling, Stages
  <2>3. UNCHANGED <<log, processed, committed>>
    BY <1>4 DEF ParkRecord, store
  <2>4. CASE dlq' = dlq
    BY <2>3, <2>4
  <2>5. CASE dlq' = dlq \union {current[c]}
    <3>1. dlq' = dlq \union {<<current[c][1], current[c][2]>>}
      BY <1>2, <2>2, <2>5
    <3>2. QED BY <1>2, <2>2, <2>3, <3>1 DEF Contract!Park
  <2>6. QED BY <2>1, <2>4, <2>5
<1>5. ASSUME NEW c \in Consumers, Commit(c) PROVE Contract!Commit
  <2>1. UNCHANGED <<log, processed, dlq>>
    BY <1>5 DEF Commit, store
  <2>2. committed' \in [Partitions -> Nat]
    BY DEF IInv, LogInv
  <2>3. ASSUME NEW p \in Partitions
        PROVE  /\ committed[p] <= committed'[p]
               /\ committed'[p] <= Len(log[p])
    BY <1>5, <2>1, CommitStep DEF IInv, LogInv
  <2>4. ASSUME NEW p \in Partitions, NEW o \in 1..committed'[p]
        PROVE  Contract!Settled(p, o)
    BY <2>1 DEF IInv, NoRecordLost, Settled, EventOf, Contract!Settled
  <2>5. QED BY <2>1, <2>2, <2>3, <2>4 DEF Contract!Commit
<1>6. ASSUME NEW c \in Consumers,
             \/ Start(c) \/ Poll(c) \/ PollEnds(c) \/ Begin(c) \/ Backoff(c)
             \/ NoDLQ(c) \/ Idle(c) \/ Crash(c) \/ Cancel(c)
      PROVE  UNCHANGED <<log, processed, dlq, committed>>
  BY <1>6 DEF Start, Poll, PollEnds, Begin, Backoff, NoDLQ, Idle, Crash, Cancel,
              vars, kafka, store
<1>7. ASSUME NEW c \in Consumers,
             \/ Check(c) \/ Upsert(c) \/ Reject(c) \/ Auth(c) \/ AuthNameless(c)
             \/ AuthConflict(c) \/ Invalidate(c)
      PROVE  UNCHANGED <<log, processed, dlq, committed>>
  BY <1>7 DEF Check, Upsert, Reject, Auth, AuthNameless, AuthConflict, Invalidate, kafka, store
<1>8. ASSUME NEW p \in Partitions, NEW c \in Consumers, Assign(p, c)
      PROVE  UNCHANGED <<log, processed, dlq, committed>>
  BY <1>8 DEF Assign, store
<1>9. CASE UNCHANGED vars
  BY <1>9 DEF vars, kafka, store
<1>10. QED BY <1>1, <1>3, <1>4, <1>5, <1>6, <1>7, <1>8, <1>9 DEF Next, Run, Handle

\* The consumer group implements the delivery contract: every step is a step of
\* the contract or leaves its variables alone.
THEOREM ConsumerImplementsContract == Spec => ImplementsContract
<1>1. Init => Contract!Init
  BY DEF Init, Contract!Init
<1>2. QED BY <1>1, InitIInv, NextIInv, ContractStep, PTL
          DEF Spec, ImplementsContract, Contract!Spec, Contract!contractVars

(***************************************************************************)
(* The read model. A batch has its records in order behind settled ones, and *)
(* a process handles the first of a partition; so whatever a row was written  *)
(* by, everything before it in its partition is settled.                     *)
(***************************************************************************)
\* Before a record of the batch come settled records and others of the batch.
Queue(c) ==
  \A r \in todo[c] : \A o \in 1..(r[2] - 1) : Settled(<<r[1], o>>) \/ <<r[1], o>> \in todo[c]

\* The record being handled is the first of its partition in the batch.
First(c) ==
  stage[c] \in Handling => \A s \in todo[c] : s[1] = current[c][1] => current[c][2] <= s[2]

\* What Handle has written by the time it comes to a stage.
Written(c) ==
  /\ stage[c] \in {"auth", "invalidate", "mark"} => <<Event(c), "record">> \in writes
  /\ stage[c] \in {"invalidate", "mark"} /\ Kind[Event(c)] \in AccountKinds =>
       <<Event(c), "auth">> \in writes

\* Events are in their home partition.
Homes == \A p \in Partitions : \A i \in 1..Len(log[p]) : Home[log[p][i]] = p

\* Everything before the record that wrote a row last is settled.
Older ==
  \A e \in Events : /\ row[Key[e]] <= Len(log[Home[e]])
                    /\ \A o \in 1..(row[Key[e]] - 1) : Settled(<<Home[e], o>>)

Workers == \A c \in Consumers : Queue(c) /\ First(c) /\ Written(c)

RInv == Homes /\ Older /\ ProcessedIsComplete /\ Workers

-----------------------------------------------------------------------------
(***************************************************************************)
(* What a step of c does to its batch.                                       *)
(***************************************************************************)

\* c keeps the record it handles, and its batch loses settled records or all.
Moves(c) ==
  /\ \A d \in Consumers \ {c} : /\ stage'[d] = stage[d] /\ current'[d] = current[d]
                                /\ todo'[d] = todo[d]
  /\ todo'[c] = {} \/ /\ todo'[c] \subseteq todo[c]
                      /\ \A r \in todo[c] : r \in todo'[c] \/ Settled(r)'
  /\ stage'[c] \in Handling => stage[c] \in Handling /\ current'[c] = current[c]

LEMMA GotoMoves ==
  ASSUME WorkerInv, NEW c \in Consumers, NEW s \in Stages, Goto(c, s),
         s \in Handling => stage[c] \in Handling
  PROVE  Moves(c) /\ stage'[c] = s
BY DEF WorkerInv, Goto, Moves

LEMMA ExitMoves ==
  ASSUME WorkerInv, NEW c \in Consumers, Exit(c)
  PROVE  Moves(c) /\ stage'[c] = "down"
BY DEF WorkerInv, Exit, Moves, Handling

LEMMA DoneMoves ==
  ASSUME WorkerInv, NEW c \in Consumers, RecordDone(c), \A r : r = current[c] => Settled(r)'
  PROVE  Moves(c) /\ stage'[c] = "batch"
BY DEF WorkerInv, RecordDone, Moves, Handling

LEMMA FailedMoves ==
  ASSUME WorkerInv, NEW c \in Consumers, HandleFailed(c), stage[c] \in Handling
  PROVE  Moves(c) /\ stage'[c] \in {"down", "backoff", "park"}
<1>1. CASE cancelled[c] /\ Exit(c)
  BY <1>1, ExitMoves
<1>2. CASE /\ stage' = [stage EXCEPT ![c] = "backoff"]
           /\ UNCHANGED <<todo, current>>
  BY <1>2 DEF WorkerInv, Moves
<1>3. CASE Goto(c, "park")
  BY <1>3, GotoMoves DEF Stages
<1>4. QED BY <1>1, <1>2, <1>3 DEF HandleFailed

\* Nobody's batch, record or stage changes.
LEMMA NobodyMoves ==
  ASSUME UNCHANGED <<stage, todo, current>>, NEW c \in Consumers
  PROVE  Moves(c) /\ stage'[c] = stage[c] /\ current'[c] = current[c]
BY DEF Moves

-----------------------------------------------------------------------------
(***************************************************************************)
(* What RInv rests on.                                                       *)
(***************************************************************************)

\* The record being handled, its event and its row.
LEMMA CurrentIsHome ==
  ASSUME IInv, RInv, NEW c \in Consumers, stage[c] \in Handling
  PROVE  /\ current[c] \in todo[c] /\ current[c] \in Records
         /\ current[c] = <<current[c][1], current[c][2]>>
         /\ current[c][1] \in Partitions /\ current[c][2] \in 1..Len(log[current[c][1]])
         /\ Event(c) \in Events /\ Row(c) = Key[Event(c)] /\ Row(c) \in Keys
         /\ Home[Event(c)] = current[c][1]
         /\ Event(c) = EventOf(<<current[c][1], current[c][2]>>)
<1>1. current[c] \in Published /\ Event(c) \in Events /\ Row(c) \in Keys
  BY CurrentIsPublished DEF IInv
<1>2. /\ current[c] = <<current[c][1], current[c][2]>>
      /\ current[c][1] \in Partitions /\ current[c][2] \in 1..Len(log[current[c][1]])
  BY <1>1 DEF Published, Records, Offsets, IInv, LogInv
<1>3. Home[Event(c)] = current[c][1]
  BY <1>2 DEF RInv, Homes, Event, EventOf
<1>4. current[c] \in todo[c] /\ current[c] \in Records
  BY <1>1 DEF IInv, WorkerInv, Published
<1>5. QED BY <1>1, <1>2, <1>3, <1>4 DEF Row, Event, EventOf

\* Settled records stay settled while the log, the DLQ and processed_events grow.
LEMMA SettledStays ==
  ASSUME NEW r, log' = log, dlq \subseteq dlq', processed \subseteq processed', Settled(r)
  PROVE  Settled(r)'
BY DEF Settled, EventOf

\* A step of c keeps the order of the batches.
LEMMA MovesKeepOrder ==
  ASSUME IInv, RInv, NEW c \in Consumers, Moves(c),
         log' = log, dlq \subseteq dlq', processed \subseteq processed'
  PROVE  \A d \in Consumers : Queue(d)' /\ First(d)'
<1>1. \A r : Settled(r) => Settled(r)'
  BY SettledStays
<1>2. ASSUME NEW d \in Consumers \ {c} PROVE Queue(d)' /\ First(d)'
  BY <1>1, <1>2 DEF RInv, Workers, Moves, Queue, First
<1>3. Queue(c)'
  <2>1. CASE todo'[c] = {}
    BY <2>1 DEF Queue
  <2>2. CASE todo'[c] \subseteq todo[c] /\ \A r \in todo[c] : r \in todo'[c] \/ Settled(r)'
    BY <1>1, <2>2 DEF RInv, Workers, Queue
  <2>3. QED BY <2>1, <2>2 DEF Moves
<1>4. First(c)'
  BY DEF RInv, Workers, Moves, First
<1>5. QED BY <1>2, <1>3, <1>4

\* What is written stays written, and a process that does not come to one of the
\* stages after the upsert has nothing to show for it.
LEMMA MovesKeepWritten ==
  ASSUME NEW c \in Consumers, Moves(c), Workers, log' = log, writes \subseteq writes',
         \/ stage'[c] \notin {"auth", "invalidate", "mark"}
         \/ Written(c)'
  PROVE  \A d \in Consumers : Written(d)'
<1>1. ASSUME NEW d \in Consumers \ {c} PROVE Written(d)'
  BY <1>1 DEF Workers, Moves, Written, Event, EventOf
<1>2. Written(c)'
  BY DEF Written
<1>3. QED BY <1>1, <1>2

\* A step that writes no row and settles nothing but what it adds to the DLQ or
\* to processed_events.
LEMMA RowsFrame ==
  ASSUME IInv, RInv, NEW c \in Consumers, Moves(c), UNCHANGED <<log, row>>,
         dlq \subseteq dlq', processed \subseteq processed', writes \subseteq writes',
         ProcessedIsComplete',
         \/ stage'[c] \notin {"auth", "invalidate", "mark"}
         \/ Written(c)'
  PROVE  RInv'
<1>1. Homes' /\ Older'
  BY SettledStays DEF RInv, Homes, Older
<1>2. \A d \in Consumers : Queue(d)' /\ First(d)'
  BY MovesKeepOrder
<1>3. \A d \in Consumers : Written(d)'
  BY MovesKeepWritten DEF RInv
<1>4. QED BY <1>1, <1>2, <1>3 DEF RInv, Workers

\* What is complete stays so while no event is marked.
LEMMA CompleteFrame ==
  ASSUME RInv, processed' = processed, writes \subseteq writes'
  PROVE  ProcessedIsComplete'
BY DEF RInv, ProcessedIsComplete

-----------------------------------------------------------------------------
(***************************************************************************)
(* Every step keeps RInv.                                                    *)
(***************************************************************************)

LEMMA CheckRows ==
  ASSUME IInv, RInv, NEW c \in Consumers, Check(c) PROVE RInv' /\ Moves(c)
<1>1. /\ stage[c] = "check" /\ stage[c] \in Handling /\ "upsert" \in Stages
      /\ UNCHANGED <<log, dlq, row, processed, writes>>
  BY DEF Check, kafka, store, Handling, Stages
<1>2. Moves(c) /\ stage'[c] \in {"batch", "upsert", "down", "backoff", "park"}
  <2>1. CASE Event(c) \in processed /\ RecordDone(c)
    <3>1. \A r : r = current[c] => Settled(r)'
      BY <1>1, <2>1 DEF Settled, Event, EventOf
    <3>2. QED BY <2>1, <3>1, DoneMoves DEF IInv
  <2>2. CASE Goto(c, "upsert")
    BY <1>1, <2>2, GotoMoves DEF IInv
  <2>3. CASE HandleFailed(c)
    BY <1>1, <2>3, FailedMoves DEF IInv
  <2>4. QED BY <2>1, <2>2, <2>3 DEF Check
<1>3. QED BY <1>1, <1>2, CompleteFrame, RowsFrame

\* The upsert comes after everything before its record is settled.
LEMMA UpsertRows ==
  ASSUME IInv, RInv, NEW c \in Consumers, Upsert(c) PROVE RInv' /\ Moves(c)
<1>1. /\ stage[c] = "upsert" /\ stage[c] \in Handling
      /\ {"auth", "mark"} \subseteq Stages
      /\ UNCHANGED <<log, dlq, processed>>
  BY DEF Upsert, kafka, Handling, Stages
<1>2. /\ current[c] \in todo[c] /\ current[c] \in Records
      /\ current[c] = <<current[c][1], current[c][2]>>
      /\ current[c][1] \in Partitions /\ current[c][2] \in 1..Len(log[current[c][1]])
      /\ Event(c) \in Events /\ Row(c) = Key[Event(c)] /\ Row(c) \in Keys
      /\ Home[Event(c)] = current[c][1]
  BY <1>1, CurrentIsHome
<1>3. PICK out \in Outcomes :
        /\ IF out = "failed" THEN UNCHANGED <<row, writes, cache>>
           ELSE /\ row' = [row EXCEPT ![Row(c)] = current[c][2]]
                /\ writes' = writes \union {<<Event(c), "record">>}
        /\ IF out = "ok"
           THEN Goto(c, IF Kind[Event(c)] \in DiplomaKinds THEN "auth" ELSE "mark")
           ELSE HandleFailed(c)
  BY DEF Upsert
<1>4. /\ Moves(c)
      /\ \/ stage'[c] \notin {"auth", "invalidate", "mark"}
         \/ /\ out = "ok"
            /\ stage'[c] = IF Kind[Event(c)] \in DiplomaKinds THEN "auth" ELSE "mark"
  <2>1. CASE out = "ok"
    BY <1>1, <1>3, <2>1, GotoMoves DEF IInv
  <2>2. CASE out # "ok"
    BY <1>1, <1>3, <2>2, FailedMoves DEF IInv
  <2>3. QED BY <2>1, <2>2
<1>5. \A r : Settled(r) => Settled(r)'
  BY <1>1, SettledStays
<1>6. \A o \in 1..(current[c][2] - 1) : Settled(<<current[c][1], o>>)
  <2> SUFFICES ASSUME NEW o \in 1..(current[c][2] - 1) PROVE Settled(<<current[c][1], o>>)
    OBVIOUS
  <2>1. Settled(<<current[c][1], o>>) \/ <<current[c][1], o>> \in todo[c]
    BY <1>2 DEF RInv, Workers, Queue
  <2>2. <<current[c][1], o>> \notin todo[c]
    BY <1>1, <1>2 DEF RInv, Workers, First
  <2>3. QED BY <2>1, <2>2
<1>7. Older'
  <2> SUFFICES ASSUME NEW e \in Events
               PROVE  /\ row'[Key[e]] <= Len(log'[Home[e]])
                      /\ \A o \in 1..(row'[Key[e]] - 1) : Settled(<<Home[e], o>>)'
    BY DEF Older
  <2>1. CASE row'[Key[e]] = row[Key[e]]
    BY <1>1, <1>5, <2>1 DEF RInv, Older
  <2>2. CASE row'[Key[e]] # row[Key[e]]
    <3>1. Key[e] = Row(c) /\ row'[Key[e]] = current[c][2]
      <4>1. Key[e] \in Keys /\ row \in [Keys -> Nat]
        BY KeyAssumption DEF IInv, StoreInv
      <4>2. QED BY <1>2, <1>3, <2>2, <4>1
    <3>2. Home[e] = current[c][1]
      BY <1>2, <3>1, KeyedAssumption
    <3>3. QED BY <1>1, <1>2, <1>5, <1>6, <3>1, <3>2
  <2>3. QED BY <2>1, <2>2
<1>8. Homes' /\ ProcessedIsComplete'
  BY <1>1, <1>3, CompleteFrame DEF RInv, Homes
<1>9. \A d \in Consumers : Queue(d)' /\ First(d)'
  BY <1>1, <1>4, MovesKeepOrder
<1>10. stage'[c] \notin {"auth", "invalidate", "mark"} \/ Written(c)'
  <2> SUFFICES ASSUME out = "ok", stage'[c] = IF Kind[Event(c)] \in DiplomaKinds THEN "auth" ELSE "mark"
               PROVE  Written(c)'
    BY <1>4
  <2>1. stage'[c] \in {"auth", "mark"} /\ (stage'[c] = "mark" => Kind[Event(c)] \notin DiplomaKinds)
    OBVIOUS
  <2>2. current'[c] = current[c]
    BY <2>1, <1>4 DEF Moves, Handling, Stages
  <2>3. Event(c)' = Event(c) /\ <<Event(c), "record">> \in writes'
    BY <1>1, <1>3, <2>2 DEF Event, EventOf
  <2>4. QED BY <2>1, <2>3 DEF Written, DiplomaKinds
<1>11. \A d \in Consumers : Written(d)'
  BY <1>1, <1>3, <1>4, <1>10, MovesKeepWritten DEF RInv
<1>12. QED BY <1>4, <1>7, <1>8, <1>9, <1>11 DEF RInv, Workers

LEMMA FailureRows ==
  ASSUME IInv, RInv, NEW c \in Consumers, Reject(c) \/ AuthConflict(c)
  PROVE  RInv' /\ Moves(c) /\ stage'[c] \in {"down", "backoff", "park"}
<1>1. /\ stage[c] \in Handling /\ HandleFailed(c)
      /\ UNCHANGED <<log, dlq, row, processed, writes>>
  BY DEF Reject, AuthConflict, kafka, store, Handling, Stages
<1>2. Moves(c) /\ stage'[c] \in {"down", "backoff", "park"}
  BY <1>1, FailedMoves DEF IInv
<1>3. QED BY <1>1, <1>2, CompleteFrame, RowsFrame

LEMMA AuthRows ==
  ASSUME IInv, RInv, NEW c \in Consumers, Auth(c) PROVE RInv' /\ Moves(c)
<1>1. /\ stage[c] = "auth" /\ stage[c] \in Handling /\ "invalidate" \in Handling
      /\ Handling \subseteq Stages /\ UNCHANGED <<log, dlq, row, processed>>
  BY DEF Auth, kafka, Handling, Stages
<1>2. PICK out \in Outcomes :
        /\ writes' = IF out = "failed" THEN writes ELSE writes \union {<<Event(c), "auth">>}
        /\ IF out = "ok" THEN Goto(c, "invalidate") ELSE HandleFailed(c)
  BY DEF Auth
<1>3. CASE out = "ok"
  <2>1. Moves(c) /\ stage'[c] = "invalidate"
    BY <1>1, <1>2, <1>3, GotoMoves DEF IInv
  <2>2. Event(c)' = Event(c)
    BY <1>1, <2>1 DEF Moves, Event, EventOf
  <2>3. Written(c)'
    BY <1>1, <1>2, <1>3, <2>1, <2>2 DEF Written, RInv, Workers
  <2>4. QED BY <1>1, <1>2, <2>1, <2>3, CompleteFrame, RowsFrame
<1>4. CASE out # "ok"
  <2>1. Moves(c) /\ stage'[c] \in {"down", "backoff", "park"}
    BY <1>1, <1>2, <1>4, FailedMoves DEF IInv
  <2>2. QED BY <1>1, <1>2, <2>1, CompleteFrame, RowsFrame
<1>5. QED BY <1>3, <1>4

\* An event without an account needs no account's row.
LEMMA NamelessRows ==
  ASSUME IInv, RInv, NEW c \in Consumers, AuthNameless(c)
  PROVE  RInv' /\ Moves(c) /\ stage'[c] = "invalidate"
<1>1. /\ stage[c] = "auth" /\ stage[c] \in Handling /\ "invalidate" \in Handling
      /\ Handling \subseteq Stages /\ UNCHANGED <<log, dlq, row, processed, writes>>
      /\ Kind[Event(c)] \notin AccountKinds
  BY DEF AuthNameless, AccountKinds, kafka, store, Handling, Stages
<1>2. Moves(c) /\ stage'[c] = "invalidate"
  BY <1>1, GotoMoves DEF AuthNameless, IInv
<1>3. Event(c)' = Event(c)
  BY <1>1, <1>2 DEF Moves, Event, EventOf
<1>4. Written(c)'
  BY <1>1, <1>2, <1>3 DEF Written, RInv, Workers
<1>5. QED BY <1>1, <1>2, <1>4, CompleteFrame, RowsFrame

LEMMA InvalidateRows ==
  ASSUME IInv, RInv, NEW c \in Consumers, Invalidate(c)
  PROVE  RInv' /\ Moves(c) /\ stage'[c] = "mark"
<1>1. /\ stage[c] = "invalidate" /\ stage[c] \in Handling /\ "mark" \in Handling
      /\ Handling \subseteq Stages /\ UNCHANGED <<log, dlq, row, processed, writes>>
  BY DEF Invalidate, kafka, Handling, Stages
<1>2. Moves(c) /\ stage'[c] = "mark"
  BY <1>1, GotoMoves DEF Invalidate, IInv
<1>3. Event(c)' = Event(c)
  BY <1>1, <1>2 DEF Moves, Event, EventOf
<1>4. Written(c)'
  BY <1>1, <1>2, <1>3 DEF Written, RInv, Workers
<1>5. QED BY <1>1, <1>2, <1>4, CompleteFrame, RowsFrame

\* The mark comes after the rows.
LEMMA MarkRows ==
  ASSUME IInv, RInv, NEW c \in Consumers, Mark(c)
  PROVE  RInv' /\ Moves(c) /\ stage'[c] \in {"batch", "down", "backoff", "park"}
<1>1. /\ stage[c] = "mark" /\ stage[c] \in Handling
      /\ UNCHANGED <<log, dlq, row, writes>>
  BY DEF Mark, kafka, Handling, Stages
<1>2. PICK out \in Outcomes :
        /\ processed' = IF out = "failed" THEN processed ELSE processed \union {Event(c)}
        /\ IF out = "ok" THEN RecordDone(c) ELSE HandleFailed(c)
  BY DEF Mark
<1>3. Moves(c) /\ stage'[c] \in {"batch", "down", "backoff", "park"}
  <2>1. CASE out = "ok"
    <3>1. \A r : r = current[c] => Settled(r)'
      BY <1>1, <1>2, <2>1 DEF Settled, Event, EventOf
    <3>2. QED BY <1>2, <2>1, <3>1, DoneMoves DEF IInv
  <2>2. CASE out # "ok"
    BY <1>1, <1>2, <2>2, FailedMoves DEF IInv
  <2>3. QED BY <2>1, <2>2
<1>4. ProcessedIsComplete'
  BY <1>1, <1>2 DEF RInv, Workers, Written, ProcessedIsComplete
<1>5. QED BY <1>1, <1>2, <1>3, <1>4, RowsFrame

\* A record leaves the batch for the DLQ once the DLQ has it.
LEMMA ParkRows ==
  ASSUME IInv, RInv, NEW c \in Consumers, ParkRecord(c)
  PROVE  RInv' /\ Moves(c) /\ stage'[c] \in {"batch", "down"}
<1>1. UNCHANGED <<log, row, processed, writes>>
  BY DEF ParkRecord, store
<1>2. PICK out \in Outcomes :
        /\ dlq' = IF out = "failed" THEN dlq ELSE dlq \union {current[c]}
        /\ IF out = "ok" THEN RecordDone(c) ELSE Exit(c)
  BY DEF ParkRecord
<1>3. Moves(c) /\ stage'[c] \in {"batch", "down"}
  <2>1. CASE out = "ok"
    <3>1. \A r : r = current[c] => Settled(r)'
      BY <1>2, <2>1 DEF Settled
    <3>2. QED BY <1>2, <2>1, <3>1, DoneMoves DEF IInv
  <2>2. CASE out # "ok"
    BY <1>2, <2>2, ExitMoves DEF IInv
  <2>3. QED BY <2>1, <2>2
<1>4. QED BY <1>1, <1>2, <1>3, CompleteFrame, RowsFrame

\* Steps that touch neither rows nor tables nor the log.
LEMMA QuietRows ==
  ASSUME IInv, RInv, NEW c \in Consumers,
         \/ Start(c) \/ PollEnds(c) \/ Backoff(c) \/ NoDLQ(c) \/ Commit(c) \/ Crash(c)
  PROVE  RInv' /\ Moves(c) /\ stage'[c] \in {"poll", "down", "check"} /\ UNCHANGED store
<1>1. UNCHANGED <<log, dlq, row, processed, writes>> /\ UNCHANGED store
  BY DEF Start, PollEnds, Backoff, NoDLQ, Commit, Crash, kafka, store
<1>2. Moves(c) /\ stage'[c] \in {"poll", "down", "check"}
  <2>1. {"poll", "down", "check"} \subseteq Stages /\ {"poll", "down"} \intersect Handling = {}
    BY DEF Stages, Handling
  <2>2. CASE Exit(c)
    BY <2>2, ExitMoves DEF IInv
  <2>3. CASE Goto(c, "poll")
    BY <2>1, <2>3, GotoMoves DEF IInv
  <2>4. CASE Goto(c, "check") /\ stage[c] = "backoff"
    BY <2>1, <2>4, GotoMoves DEF IInv, Handling, Stages
  <2>5. QED BY <2>2, <2>3, <2>4 DEF Start, PollEnds, Backoff, NoDLQ, Commit, Crash
<1>3. QED BY <1>1, <1>2, CompleteFrame, RowsFrame

\* A signal, an assignment or nothing: no process moves.
LEMMA StillRows ==
  ASSUME IInv, RInv, UNCHANGED <<stage, todo, current, log, dlq, store>> PROVE RInv'
<1>1. UNCHANGED <<row, processed, writes>>
  BY DEF store
<1>2. \A r : Settled(r)' <=> Settled(r)
  BY <1>1 DEF Settled, EventOf
<1>3. Homes' /\ Older' /\ ProcessedIsComplete'
  BY <1>1, <1>2 DEF RInv, Homes, Older, ProcessedIsComplete
<1>4. Workers'
  BY <1>1, <1>2 DEF RInv, Workers, Queue, First, Written, Event, EventOf
<1>5. QED BY <1>3, <1>4 DEF RInv

\* The next record is the first of its partition.
LEMMA BeginRows ==
  ASSUME IInv, RInv, NEW c \in Consumers, Begin(c)
  PROVE  RInv' /\ stage'[c] \in {"park", "check"}
<1>1. PICK r \in todo[c] :
        /\ \A s \in todo[c] : s[1] = r[1] => r[2] <= s[2]
        /\ current' = [current EXCEPT ![c] = r]
        /\ stage' = [stage EXCEPT ![c] = IF Kind[EventOf(r)] = "malformed" THEN "park" ELSE "check"]
  BY DEF Begin
<1>2. UNCHANGED <<todo, log, dlq, row, processed, writes>>
  BY DEF Begin, kafka, store
<1>3. /\ stage'[c] \in {"park", "check"} /\ current'[c] = r
      /\ \A d \in Consumers \ {c} : stage'[d] = stage[d] /\ current'[d] = current[d]
  BY <1>1 DEF IInv, WorkerInv
<1>4. \A q : Settled(q)' <=> Settled(q)
  BY <1>2 DEF Settled, EventOf
<1>5. Homes' /\ Older' /\ ProcessedIsComplete'
  BY <1>2, <1>4 DEF RInv, Homes, Older, ProcessedIsComplete
<1>6. ASSUME NEW d \in Consumers PROVE Queue(d)' /\ First(d)' /\ Written(d)'
  <2>1. CASE d = c
    <3>1. Queue(c)'
      BY <1>2, <1>4 DEF RInv, Workers, Queue
    <3>2. First(c)'
      BY <1>1, <1>2, <1>3 DEF First
    <3>3. Written(c)'
      BY <1>3 DEF Written
    <3>4. QED BY <2>1, <3>1, <3>2, <3>3
  <2>2. CASE d # c
    BY <1>2, <1>3, <1>4, <2>2 DEF RInv, Workers, Queue, First, Written, Event, EventOf
  <2>3. QED BY <2>1, <2>2
<1>7. QED BY <1>3, <1>5, <1>6 DEF RInv, Workers

\* What a poll fetches comes behind settled records.
LEMMA PollRows ==
  ASSUME IInv, RInv, NEW c \in Consumers, Poll(c) PROVE RInv' /\ stage'[c] = "batch"
<1>1. PICK n \in [Backlog(c) -> 1..MaxLog] :
        todo' = [todo EXCEPT ![c] =
          UNION {{<<p, o>> : o \in (position[p] + 1)..n[p]} : p \in Backlog(c)}]
  BY DEF Poll
<1>2. /\ UNCHANGED <<current, log, dlq, row, processed, writes>>
      /\ stage' = [stage EXCEPT ![c] = "batch"] /\ todo[c] = {}
  BY DEF Poll, store, IInv, WorkerInv
<1>3. \A q : Settled(q)' <=> Settled(q)
  BY <1>2 DEF Settled, EventOf
<1>4. Homes' /\ Older' /\ ProcessedIsComplete'
  BY <1>2, <1>3 DEF RInv, Homes, Older, ProcessedIsComplete
<1>5. \A r : r \in todo'[c] <=>
        \E p \in Backlog(c) : \E o \in (position[p] + 1)..n[p] : r = <<p, o>>
  BY <1>1 DEF IInv, WorkerInv
<1>6. \A d \in Consumers \ {c} : stage'[d] = stage[d] /\ todo'[d] = todo[d]
  BY <1>1, <1>2 DEF IInv, WorkerInv
<1>7. \A p \in Backlog(c) : n[p] \in Nat
  BY <1>1, BoundsAssumption
<1>8. Queue(c)'
  <2> SUFFICES ASSUME NEW r \in todo'[c], NEW o \in 1..(r[2] - 1)
               PROVE  Settled(<<r[1], o>>)' \/ <<r[1], o>> \in todo'[c]
    BY DEF Queue
  <2>1. PICK p \in Backlog(c) : \E m \in (position[p] + 1)..n[p] : r = <<p, m>>
    BY <1>5
  <2>2. PICK m \in (position[p] + 1)..n[p] : r = <<p, m>>
    BY <2>1
  <2>3. p \in Partitions /\ owner[p] = c /\ position[p] \in Nat /\ n[p] \in Nat
    BY <1>7 DEF Backlog, Owned, IInv, LogInv
  <2>4. CASE o <= position[p]
    BY <1>2, <1>3, <2>2, <2>3, <2>4 DEF IInv, Covered
  <2>5. CASE o > position[p]
    <3>1. o \in (position[p] + 1)..n[p]
      BY <2>2, <2>3, <2>5
    <3>2. QED BY <1>5, <2>2, <3>1
  <2>6. QED BY <2>2, <2>3, <2>4, <2>5
<1>9. stage'[c] = "batch" /\ First(c)' /\ Written(c)'
  BY <1>2 DEF IInv, WorkerInv, First, Written, Handling
<1>10. ASSUME NEW d \in Consumers \ {c} PROVE Queue(d)' /\ First(d)' /\ Written(d)'
  BY <1>2, <1>3, <1>6 DEF RInv, Workers, Queue, First, Written, Event, EventOf
<1>11. QED BY <1>4, <1>8, <1>9, <1>10 DEF RInv, Workers

\* A published record changes nothing of those before it.
LEMMA PublishRows ==
  ASSUME IInv, RInv, NEW e \in Events, Publish(e) PROVE RInv'
<1>1. /\ UNCHANGED <<dlq, row, processed, writes, stage, todo, current>>
      /\ log' = [log EXCEPT ![Home[e]] = Append(@, e)] /\ Home[e] \in Partitions
  BY HomeAssumption DEF Publish, store, worker
<1>2. \A p \in Partitions : /\ Len(log[p]) \in Nat /\ Len(log'[p]) \in Nat
                            /\ Len(log[p]) <= Len(log'[p])
                            /\ \A o \in 1..Len(log[p]) : log'[p][o] = log[p][o]
                            /\ \A o \in 1..Len(log'[p]) :
                                 o \in 1..Len(log[p]) \/ (p = Home[e] /\ log'[p][o] = e)
  <2> SUFFICES ASSUME NEW p \in Partitions
               PROVE  /\ Len(log[p]) \in Nat /\ Len(log'[p]) \in Nat
                      /\ Len(log[p]) <= Len(log'[p])
                      /\ \A o \in 1..Len(log[p]) : log'[p][o] = log[p][o]
                      /\ \A o \in 1..Len(log'[p]) :
                           o \in 1..Len(log[p]) \/ (p = Home[e] /\ log'[p][o] = e)
    OBVIOUS
  <2>1. log[p] \in Seq(Events) /\ log \in [Partitions -> Seq(Events)]
    BY DEF IInv, LogInv
  <2>2. CASE p = Home[e]
    <3>1. log'[p] = Append(log[p], e)
      BY <1>1, <2>1, <2>2
    <3>2. QED BY <2>1, <2>2, <3>1
  <2>3. CASE p # Home[e]
    <3>1. log'[p] = log[p]
      BY <1>1, <2>1, <2>3
    <3>2. QED BY <2>1, <3>1
  <2>4. QED BY <2>2, <2>3
<1>3. \A p \in Partitions : \A o \in 1..Len(log[p]) : Settled(<<p, o>>)' <=> Settled(<<p, o>>)
  BY <1>1, <1>2 DEF Settled, EventOf
<1>4. Homes'
  BY <1>2 DEF RInv, Homes
<1>5. Older'
  <2> SUFFICES ASSUME NEW f \in Events
               PROVE  /\ row[Key[f]] <= Len(log'[Home[f]])
                      /\ \A o \in 1..(row[Key[f]] - 1) : Settled(<<Home[f], o>>)'
    BY <1>1 DEF Older
  <2>1. Home[f] \in Partitions /\ row[Key[f]] \in Nat
    BY HomeAssumption, KeyAssumption DEF IInv, StoreInv
  <2>2. row[Key[f]] <= Len(log[Home[f]])
    BY DEF RInv, Older
  <2>3. \A o \in 1..(row[Key[f]] - 1) : o \in 1..Len(log[Home[f]]) /\ Settled(<<Home[f], o>>)
    BY <1>2, <2>1, <2>2 DEF RInv, Older
  <2>4. QED BY <1>2, <1>3, <2>1, <2>2, <2>3
<1>6. ProcessedIsComplete'
  BY <1>1 DEF RInv, ProcessedIsComplete
<1>7. ASSUME NEW d \in Consumers PROVE Queue(d)' /\ First(d)' /\ Written(d)'
  <2>1. \A r \in todo[d] : r[1] \in Partitions /\ r[2] \in 1..Len(log[r[1]])
    BY DEF IInv, LogInv, Published, Records, Offsets
  <2>2. Queue(d)'
    <3> SUFFICES ASSUME NEW r \in todo[d], NEW o \in 1..(r[2] - 1)
                 PROVE  Settled(<<r[1], o>>)' \/ <<r[1], o>> \in todo[d]
      BY <1>1 DEF Queue
    <3>1. o \in 1..Len(log[r[1]]) /\ r[1] \in Partitions
      BY <1>2, <2>1
    <3>2. QED BY <1>3, <3>1 DEF RInv, Workers, Queue
  <2>3. First(d)'
    BY <1>1 DEF RInv, Workers, First
  <2>4. Written(d)'
    <3>1. CASE stage[d] \in Handling
      <4>1. Event(d)' = Event(d)
        BY <1>1, <1>2, <3>1, CurrentIsHome DEF Event, EventOf
      <4>2. QED BY <1>1, <4>1 DEF RInv, Workers, Written
    <3>2. CASE stage[d] \notin Handling
      BY <1>1, <3>2 DEF Written, Handling, Stages
    <3>3. QED BY <3>1, <3>2
  <2>5. QED BY <2>2, <2>3, <2>4
<1>8. QED BY <1>4, <1>5, <1>6, <1>7 DEF RInv, Workers

LEMMA InitRows == Init => RInv
<1> SUFFICES ASSUME Init PROVE RInv
  OBVIOUS
<1>1. Homes /\ Older /\ ProcessedIsComplete
  BY HomeAssumption, KeyAssumption DEF Init, Homes, Older, ProcessedIsComplete
<1>2. Workers
  BY DEF Init, Workers, Queue, First, Written, Handling
<1>3. QED BY <1>1, <1>2 DEF RInv

\* No step of a consumer or of its environment breaks RInv.
LEMMA NextRows == IInv /\ RInv /\ [Next]_vars => RInv'
<1> SUFFICES ASSUME IInv, RInv, [Next]_vars PROVE RInv'
  OBVIOUS
<1>1. ASSUME NEW c \in Consumers, Run(c) PROVE RInv'
  BY <1>1, CheckRows, UpsertRows, FailureRows, AuthRows, NamelessRows, InvalidateRows, MarkRows, ParkRows,
     QuietRows, BeginRows, PollRows DEF Run, Handle
<1>2. CASE UNCHANGED vars
  BY <1>2, StillRows DEF vars, kafka, worker
<1>3. ASSUME NEW c \in Consumers, Idle(c) \/ Cancel(c) PROVE RInv'
  BY <1>2, <1>3, StillRows DEF Idle, Cancel, kafka
<1>4. ASSUME NEW p \in Partitions, NEW c \in Consumers, Assign(p, c) PROVE RInv'
  BY <1>4, StillRows DEF Assign
<1>5. QED BY <1>1, <1>2, <1>3, <1>4, QuietRows, PublishRows DEF Next

\* An event that is marked processed has all of its rows, for any number of
\* processes that take over from each other at any statement.
THEOREM ProcessedHasItsRows == Spec => []ProcessedIsComplete
<1>1. RInv => ProcessedIsComplete
  BY DEF RInv
<1>2. QED BY <1>1, InitIInv, NextIInv, InitRows, NextRows, PTL DEF Spec
-----------------------------------------------------------------------------
(***************************************************************************)
(* One process alone in its group. Nobody marks the event it handles, so        *)
(* that what it found unprocessed is unprocessed when it writes.               *)
(***************************************************************************)
Alone == \A c, d \in Consumers : c = d

\* The event being projected is not processed.
Unmarked(c) ==
  stage[c] \in {"upsert", "auth", "invalidate", "mark"} => Event(c) \notin processed

\* The mark of a diploma event comes after the deletes.
Deleted(c) ==
  stage[c] = "mark" /\ Kind[Event(c)] \in DiplomaKinds => cache[Row(c)] # "dirty"

\* A row that was not invalidated was written by a diploma event to come again.
DirtyIsUnprocessed ==
  \A k \in Keys : cache[k] = "dirty" =>
    \E e \in Events : /\ Key[e] = k /\ e \notin processed
                      /\ <<e, "record">> \in writes /\ Kind[e] \in DiplomaKinds

SInv == DirtyIsUnprocessed /\ \A c \in Consumers : Unmarked(c) /\ Deleted(c)

\* A step that neither projects nor marks.
LEMMA AloneFrame ==
  ASSUME Alone, SInv, NEW c \in Consumers, UNCHANGED <<cache, processed>>, writes \subseteq writes',
         stage'[c] \notin {"upsert", "auth", "invalidate", "mark"}
  PROVE  SInv'
<1>1. \A d \in Consumers : Unmarked(d)' /\ Deleted(d)'
  BY DEF Alone, Unmarked, Deleted
<1>2. DirtyIsUnprocessed'
  BY DEF SInv, DirtyIsUnprocessed
<1>3. QED BY <1>1, <1>2 DEF SInv

\* The record at hand stays the same while it is projected.
LEMMA SameEvent ==
  ASSUME NEW c \in Consumers, Moves(c), log' = log, stage'[c] \in Handling
  PROVE  Event(c)' = Event(c) /\ Row(c)' = Row(c)
BY DEF Moves, Event, EventOf, Row

LEMMA CheckAlone ==
  ASSUME Alone, IInv, RInv, SInv, NEW c \in Consumers, Check(c) PROVE SInv'
<1>1. UNCHANGED <<log, cache, processed, writes>> /\ Moves(c)
  BY CheckRows DEF Check, kafka, store
<1>2. CASE stage'[c] \notin {"upsert", "auth", "invalidate", "mark"}
  BY <1>1, <1>2, AloneFrame
<1>3. CASE stage'[c] \in {"upsert", "auth", "invalidate", "mark"}
  <2>1. stage'[c] = "upsert" /\ Event(c) \notin processed
    <3>1. CASE Event(c) \in processed /\ RecordDone(c)
      BY <1>3, <3>1 DEF RecordDone, IInv, WorkerInv
    <3>2. CASE HandleFailed(c)
      <4>1. stage'[c] \in {"down", "backoff", "park"}
        BY <3>2, FailedMoves DEF Check, IInv, Handling, Stages
      <4>2. QED BY <1>3, <4>1
    <3>3. CASE Event(c) \notin processed /\ Goto(c, "upsert")
      BY <3>3 DEF Goto, IInv, WorkerInv
    <3>4. QED BY <3>1, <3>2, <3>3 DEF Check
  <2>2. Event(c)' = Event(c)
    BY <1>1, <2>1, SameEvent DEF Handling, Stages
  <2>3. \A d \in Consumers : Unmarked(d)' /\ Deleted(d)'
    BY <1>1, <2>1, <2>2 DEF Alone, Unmarked, Deleted
  <2>4. DirtyIsUnprocessed'
    BY <1>1 DEF SInv, DirtyIsUnprocessed
  <2>5. QED BY <2>3, <2>4 DEF SInv
<1>4. QED BY <1>2, <1>3

LEMMA UpsertAlone ==
  ASSUME Alone, IInv, RInv, SInv, NEW c \in Consumers, Upsert(c) PROVE SInv'
<1>1. /\ stage[c] = "upsert" /\ stage[c] \in Handling
      /\ UNCHANGED <<log, processed>> /\ Moves(c)
  BY UpsertRows DEF Upsert, kafka, Handling, Stages
<1>2. /\ Event(c) \in Events /\ Event(c) \notin processed /\ Row(c) = Key[Event(c)]
      /\ Row(c) \in Keys
  BY <1>1, CurrentIsHome DEF SInv, Unmarked
<1>3. /\ writes \subseteq writes'
      /\ cache' = cache \/ /\ <<Event(c), "record">> \in writes'
                           /\ Kind[Event(c)] \in DiplomaKinds
                           /\ cache' = [cache EXCEPT ![Row(c)] = "dirty"]
  BY DEF Upsert
<1>4. DirtyIsUnprocessed'
  BY <1>1, <1>2, <1>3 DEF SInv, DirtyIsUnprocessed, IInv, StoreInv
<1>5. Unmarked(c)' /\ Deleted(c)'
  <2>1. CASE stage'[c] \notin {"upsert", "auth", "invalidate", "mark"}
    BY <2>1 DEF Unmarked, Deleted
  <2>2. CASE stage'[c] \in {"upsert", "auth", "invalidate", "mark"}
    <3>1. Event(c)' = Event(c)
      BY <1>1, <2>2, SameEvent DEF Handling, Stages
    <3>2. stage'[c] = "mark" => Kind[Event(c)] \notin DiplomaKinds
      <4>1. ASSUME HandleFailed(c) PROVE stage'[c] # "mark"
        BY <1>1, <4>1, FailedMoves DEF IInv
      <4>2. ASSUME NEW s \in {"auth", "mark"}, Goto(c, s),
                   s = IF Kind[Event(c)] \in DiplomaKinds THEN "auth" ELSE "mark"
            PROVE  stage'[c] = "mark" => Kind[Event(c)] \notin DiplomaKinds
        BY <4>2 DEF Goto, IInv, WorkerInv
      <4>3. QED BY <4>1, <4>2 DEF Upsert
    <3>3. QED BY <1>1, <1>2, <3>1, <3>2 DEF Unmarked, Deleted
  <2>3. QED BY <2>1, <2>2
<1>6. \A d \in Consumers : d = c
  BY DEF Alone
<1>7. QED BY <1>4, <1>5, <1>6 DEF SInv

LEMMA AuthAlone ==
  ASSUME Alone, IInv, RInv, SInv, NEW c \in Consumers, Auth(c) PROVE SInv'
<1>1. /\ stage[c] = "auth" /\ UNCHANGED <<log, cache, processed>> /\ Moves(c)
      /\ writes \subseteq writes'
  BY AuthRows DEF Auth, kafka
<1>2. Unmarked(c)' /\ Deleted(c)'
  <2>1. CASE stage'[c] \notin {"upsert", "auth", "invalidate", "mark"}
    BY <2>1 DEF Unmarked, Deleted
  <2>2. CASE stage'[c] \in {"upsert", "auth", "invalidate", "mark"}
    <3>1. Event(c)' = Event(c)
      BY <1>1, <2>2, SameEvent DEF Handling, Stages
    <3>2. stage'[c] # "mark"
      <4>1. ASSUME HandleFailed(c) PROVE stage'[c] # "mark"
        BY <1>1, <4>1, FailedMoves DEF IInv, Handling, Stages
      <4>2. ASSUME Goto(c, "invalidate") PROVE stage'[c] # "mark"
        BY <4>2 DEF Goto, IInv, WorkerInv
      <4>3. QED BY <4>1, <4>2 DEF Auth
    <3>3. QED BY <1>1, <3>1, <3>2 DEF SInv, Unmarked, Deleted
  <2>3. QED BY <2>1, <2>2
<1>3. DirtyIsUnprocessed'
  BY <1>1 DEF SInv, DirtyIsUnprocessed
<1>4. \A d \in Consumers : d = c
  BY DEF Alone
<1>5. QED BY <1>2, <1>3, <1>4 DEF SInv

LEMMA NamelessAlone ==
  ASSUME Alone, IInv, RInv, SInv, NEW c \in Consumers, AuthNameless(c) PROVE SInv'
<1>1. /\ stage[c] = "auth" /\ stage'[c] = "invalidate" /\ Moves(c)
      /\ UNCHANGED <<log, cache, processed, writes>>
  BY NamelessRows DEF AuthNameless, kafka, store
<1>2. Event(c)' = Event(c)
  BY <1>1, SameEvent DEF Handling, Stages
<1>3. \A d \in Consumers : Unmarked(d)' /\ Deleted(d)'
  BY <1>1, <1>2 DEF Alone, SInv, Unmarked, Deleted
<1>4. DirtyIsUnprocessed'
  BY <1>1 DEF SInv, DirtyIsUnprocessed
<1>5. QED BY <1>3, <1>4 DEF SInv

LEMMA InvalidateAlone ==
  ASSUME Alone, IInv, RInv, SInv, NEW c \in Consumers, Invalidate(c) PROVE SInv'
<1>1. /\ stage[c] = "invalidate" /\ stage[c] \in Handling /\ stage'[c] = "mark"
      /\ UNCHANGED <<log, processed, writes>> /\ Moves(c)
  BY InvalidateRows DEF Invalidate, kafka, Handling, Stages
<1>2. PICK v \in {"missed", "clean"} : cache' = [cache EXCEPT ![Row(c)] = v]
  BY DEF Invalidate
<1>3. Event(c)' = Event(c) /\ Row(c)' = Row(c) /\ Row(c) \in Keys
  BY <1>1, SameEvent, CurrentIsHome DEF Handling, Stages
<1>4. \A k \in Keys : cache'[k] = "dirty" => cache[k] = "dirty" /\ k # Row(c)
  BY <1>2 DEF IInv, StoreInv
<1>5. DirtyIsUnprocessed'
  BY <1>1, <1>4 DEF SInv, DirtyIsUnprocessed
<1>6. Unmarked(c)' /\ Deleted(c)'
  BY <1>1, <1>3, <1>4 DEF SInv, Unmarked, Deleted
<1>7. \A d \in Consumers : d = c
  BY DEF Alone
<1>8. QED BY <1>5, <1>6, <1>7 DEF SInv

\* The event that is marked leaves no row uninvalidated.
LEMMA MarkAlone ==
  ASSUME Alone, IInv, RInv, SInv, NEW c \in Consumers, Mark(c) PROVE SInv'
<1>1. /\ stage[c] = "mark" /\ stage[c] \in Handling /\ UNCHANGED <<cache, writes>>
      /\ stage'[c] \in {"batch", "down", "backoff", "park"}
      /\ processed' \subseteq processed \union {Event(c)}
  BY MarkRows DEF Mark, Handling, Stages
<1>2. Row(c) = Key[Event(c)]
  BY DEF Row
<1>3. DirtyIsUnprocessed'
  <2> SUFFICES ASSUME NEW k \in Keys, cache[k] = "dirty"
               PROVE  \E e \in Events : /\ Key[e] = k /\ e \notin processed'
                                        /\ <<e, "record">> \in writes /\ Kind[e] \in DiplomaKinds
    BY <1>1 DEF DirtyIsUnprocessed
  <2>1. PICK e \in Events : /\ Key[e] = k /\ e \notin processed
                            /\ <<e, "record">> \in writes /\ Kind[e] \in DiplomaKinds
    BY DEF SInv, DirtyIsUnprocessed
  <2>2. e # Event(c)
    BY <1>1, <1>2, <2>1 DEF SInv, Deleted
  <2>3. QED BY <1>1, <2>1, <2>2
<1>4. \A d \in Consumers : Unmarked(d)' /\ Deleted(d)'
  BY <1>1 DEF Alone, Unmarked, Deleted
<1>5. QED BY <1>3, <1>4 DEF SInv

\* Steps that project nothing and leave the process where its record is safe.
LEMMA OtherAlone ==
  ASSUME Alone, IInv, RInv, SInv, NEW c \in Consumers,
         \/ Reject(c) \/ AuthConflict(c) \/ ParkRecord(c) \/ Begin(c) \/ Poll(c)
         \/ Start(c) \/ PollEnds(c) \/ Backoff(c) \/ NoDLQ(c) \/ Commit(c) \/ Crash(c)
  PROVE  SInv'
<1>1. UNCHANGED <<cache, processed, writes>>
  BY DEF Reject, AuthConflict, ParkRecord, Begin, Poll, Start, PollEnds, Backoff, NoDLQ, Commit,
         Crash, store
<1>2. stage'[c] \in {"down", "poll", "batch", "check", "backoff", "park"}
  BY FailureRows, ParkRows, BeginRows, PollRows, QuietRows
<1>3. QED BY <1>1, <1>2, AloneFrame

\* A step of the environment.
LEMMA StillAlone ==
  ASSUME IInv, RInv, SInv, UNCHANGED <<stage, current, cache, processed, writes>>,
         log' = log \/ \E e \in Events : Publish(e)
  PROVE  SInv'
<1>1. ASSUME NEW c \in Consumers, stage[c] \in Handling
      PROVE  Event(c)' = Event(c) /\ Row(c)' = Row(c)
  <2>1. /\ current[c][1] \in Partitions /\ current[c][2] \in 1..Len(log[current[c][1]])
        /\ log \in [Partitions -> Seq(Events)]
    BY <1>1, CurrentIsHome DEF IInv, LogInv
  <2>2. log'[current[c][1]][current[c][2]] = log[current[c][1]][current[c][2]]
    <3>1. CASE log' = log
      BY <3>1
    <3>2. ASSUME NEW e \in Events, Publish(e)
          PROVE  log'[current[c][1]][current[c][2]] = log[current[c][1]][current[c][2]]
      BY <2>1, <3>2, HomeAssumption DEF Publish
    <3>3. QED BY <3>1, <3>2
  <2>3. QED BY <2>2 DEF Event, EventOf, Row
<1>2. \A c \in Consumers : Unmarked(c)' /\ Deleted(c)'
  BY <1>1 DEF SInv, Unmarked, Deleted, Handling, Stages
<1>3. DirtyIsUnprocessed'
  BY DEF SInv, DirtyIsUnprocessed
<1>4. QED BY <1>2, <1>3 DEF SInv

\* No step breaks SInv while the process is alone.
LEMMA NextAlone == Alone /\ IInv /\ RInv /\ SInv /\ [Next]_vars => SInv'
<1> SUFFICES ASSUME Alone, IInv, RInv, SInv, [Next]_vars PROVE SInv'
  OBVIOUS
<1>1. ASSUME NEW c \in Consumers, Run(c) PROVE SInv'
  BY <1>1, CheckAlone, UpsertAlone, AuthAlone, NamelessAlone, InvalidateAlone, MarkAlone,
     OtherAlone
  DEF Run, Handle
<1>2. CASE UNCHANGED vars
  BY <1>2, StillAlone DEF vars, kafka, store, worker
<1>3. ASSUME NEW c \in Consumers, Idle(c) \/ Cancel(c) PROVE SInv'
  BY <1>2, <1>3, StillAlone DEF Idle, Cancel, kafka, store
<1>4. ASSUME NEW p \in Partitions, NEW c \in Consumers, Assign(p, c) PROVE SInv'
  BY <1>4, StillAlone DEF Assign, store
<1>5. ASSUME NEW e \in Events, Publish(e) PROVE SInv'
  <2>1. UNCHANGED <<stage, current, cache, processed, writes>>
    BY <1>5 DEF Publish, store, worker
  <2>2. QED BY <1>5, <2>1, StillAlone
<1>6. QED BY <1>1, <1>2, <1>3, <1>4, <1>5, OtherAlone DEF Next

LEMMA InitAlone == Init => SInv
BY DEF Init, SInv, DirtyIsUnprocessed, Unmarked, Deleted

\* The invariants together, and that Alone is about constants only.
LEMMA AloneInvariance == Alone /\ Spec => [](Alone /\ IInv /\ RInv /\ SInv)
<1>1. Alone => Alone'
  BY DEF Alone
<1>2. QED BY <1>1, InitIInv, NextIInv, InitRows, NextRows, InitAlone, NextAlone, PTL DEF Spec

\* With one process, a row that was written and not invalidated is invalidated by
\* its event's next delivery, for any events, crashes, signals and failed calls.
THEOREM DirtyRowsComeAgain == Alone /\ Spec => []UninvalidatedIsUnprocessed
<1>1. SInv => UninvalidatedIsUnprocessed
  BY DEF SInv, DirtyIsUnprocessed, UninvalidatedIsUnprocessed
<1>2. QED BY <1>1, AloneInvariance, PTL

\* With one process, only a parked record is ever written over a newer one, for
\* any batches and any redelivery after crashes and failed commits.
THEOREM OnlyParkedRegress == Alone /\ Spec => RegressOnlyFromDLQ
<1> DEFINE Regress == \A e \in Events : LET k == Key[e] IN
              row'[k] < row[k] => <<Home[e], row'[k]>> \in dlq
<1>1. IInv /\ RInv /\ SInv /\ [Next]_vars => [Regress]_vars
  <2> SUFFICES ASSUME IInv, RInv, SInv, Next, NEW e \in Events, row'[Key[e]] < row[Key[e]]
               PROVE  <<Home[e], row'[Key[e]]>> \in dlq
    OBVIOUS
  <2>1. Key[e] \in Keys /\ row \in [Keys -> Nat]
    BY KeyAssumption DEF IInv, StoreInv
  <2>2. row' # row
    BY <2>1
  <2>3. PICK c \in Consumers : Upsert(c)
    BY <2>2 DEF Next, Run, Handle, Idle, Crash, Cancel, Assign, Publish, Start, Poll,
                PollEnds, Begin, Backoff, ParkRecord, NoDLQ, Commit, Check, Reject, Auth,
                AuthNameless, AuthConflict, Invalidate, Mark, vars, store
  <2>4. stage[c] = "upsert" /\ stage[c] \in Handling
    BY <2>3 DEF Upsert, Handling, Stages
  <2>5. /\ current[c][2] \in 1..Len(log[current[c][1]])
        /\ Event(c) \in Events /\ Row(c) = Key[Event(c)] /\ Row(c) \in Keys
        /\ Home[Event(c)] = current[c][1]
        /\ Event(c) = EventOf(<<current[c][1], current[c][2]>>)
    BY <2>4, CurrentIsHome
  <2>6. row' = [row EXCEPT ![Row(c)] = current[c][2]]
    BY <2>2, <2>3 DEF Upsert
  <2>7. Key[e] = Row(c) /\ row'[Key[e]] = current[c][2]
    BY <2>1, <2>5, <2>6
  <2>8. Home[e] = current[c][1]
    BY <2>5, <2>7, KeyedAssumption
  <2>9. Settled(<<Home[e], current[c][2]>>)
    <3>1. current[c][2] \in 1..(row[Key[e]] - 1)
      BY <2>1, <2>5, <2>7
    <3>2. QED BY <3>1 DEF RInv, Older
  <2>10. Event(c) \notin processed
    BY <2>4 DEF SInv, Unmarked
  <2>11. QED BY <2>5, <2>7, <2>8, <2>9, <2>10 DEF Settled
<1>2. QED BY <1>1, AloneInvariance, PTL DEF Spec, RegressOnlyFromDLQ
-----------------------------------------------------------------------------
(***************************************************************************)
(* The price of a parked record. A record that can be projected is parked by    *)
(* RetryAttempts + 1 failures, each of which takes from the budget of faults,    *)
(* because the calls that a signal makes fail end the process.                  *)
(***************************************************************************)
Good(r) == Kind[EventOf(r)] \in {"diploma", "nameless", "sharelink"}

\* What the records in the DLQ that could have been projected have cost.
Price == Cardinality({r \in dlq : Good(r)}) * (RetryAttempts + 1)

\* The failures of the record at hand.
Failures(c) == IF stage[c] = "park" THEN attempt[c] + 1 ELSE attempt[c]

\* Failures are of the record at hand, and are counted to the limit.
Counts(c) ==
  /\ stage[c] \notin Handling => attempt[c] = 0
  /\ stage[c] = "park" /\ Good(current[c]) => attempt[c] = RetryAttempts

\* The failures of all records at hand. Several processes may hold the same record,
\* and each of them counts its own.
Debts ==
  {d \in Consumers \X (1..RetryAttempts + 1) :
     /\ stage[d[1]] \in Handling /\ Good(current[d[1]])
     /\ d[2] <= Failures(d[1])}

\* They were paid for, on top of what is parked.
PInv ==
  /\ IsFiniteSet(dlq) /\ dlq \subseteq Published
  /\ IsFiniteSet(Debts)
  /\ Price + Cardinality(Debts) <= MaxFaults - faults
  /\ \A c \in Consumers : Counts(c)

LEMMA PriceIsNatural ==
  ASSUME IsFiniteSet(dlq) PROVE Price \in Nat
<1>1. Cardinality({r \in dlq : Good(r)}) \in Nat
  BY FS_Subset, FS_CardinalityType
<1>2. QED BY <1>1, BoundsAssumption DEF Price

\* A step of c leaves the records and failures of the others alone.
Others(c) ==
  \A d \in Consumers \ {c} :
    stage'[d] = stage[d] /\ current'[d] = current[d] /\ attempt'[d] = attempt[d]

LEMMA StepsLeaveOthers ==
  ASSUME IInv, NEW c \in Consumers,
         Exit(c) \/ RecordDone(c) \/ HandleFailed(c) \/ \E s \in Stages : Goto(c, s)
  PROVE  Others(c)
BY DEF Exit, RecordDone, HandleFailed, Goto, Others, IInv, WorkerInv

LEMMA OneMore ==
  ASSUME NEW p \in Nat, NEW a \in Nat, NEW b \in Nat, NEW f \in Nat, NEW g \in Nat,
         b <= a + 1, g + 1 = f, p + a <= MaxFaults - f
  PROVE  p + b <= MaxFaults - g
BY BoundsAssumption

\* What was afforded is afforded with no new failure and no less spent, or with one
\* more failure and one more fault.
LEMMA StillAfforded ==
  ASSUME IInv, PInv, faults' \in Nat, Price' = Price,
         \/ Debts' \subseteq Debts /\ faults' <= faults
         \/ /\ \E d : Debts' \subseteq Debts \union {d}
            /\ faults' + 1 = faults
  PROVE  IsFiniteSet(Debts') /\ Price' + Cardinality(Debts') <= MaxFaults - faults'
<1>1. /\ IsFiniteSet(Debts) /\ Cardinality(Debts) \in Nat /\ Price \in Nat
      /\ Price + Cardinality(Debts) <= MaxFaults - faults
      /\ faults \in Nat /\ MaxFaults \in Nat
  BY PriceIsNatural, FS_CardinalityType, BoundsAssumption DEF PInv, IInv, StoreInv
<1>2. CASE Debts' \subseteq Debts /\ faults' <= faults
  <2>1. /\ IsFiniteSet(Debts') /\ Cardinality(Debts') \in Nat
        /\ Cardinality(Debts') <= Cardinality(Debts)
    BY <1>1, <1>2, FS_Subset, FS_CardinalityType
  <2>2. QED BY <1>1, <1>2, <2>1
<1>3. ASSUME NEW d, Debts' \subseteq Debts \union {d}, faults' + 1 = faults
      PROVE  IsFiniteSet(Debts') /\ Price' + Cardinality(Debts') <= MaxFaults - faults'
  <2>0. /\ IsFiniteSet(Debts \union {d})
        /\ Cardinality(Debts \union {d}) =
             IF d \in Debts THEN Cardinality(Debts) ELSE Cardinality(Debts) + 1
    BY <1>1, FS_AddElement
  <2>1. /\ IsFiniteSet(Debts \union {d})
        /\ Cardinality(Debts \union {d}) <= Cardinality(Debts) + 1
    BY <1>1, <2>0
  <2>2. /\ IsFiniteSet(Debts') /\ Cardinality(Debts') \in Nat
        /\ Cardinality(Debts') <= Cardinality(Debts \union {d})
        /\ Cardinality(Debts \union {d}) \in Nat
    BY <1>3, <2>1, FS_Subset, FS_CardinalityType
  <2>3. Cardinality(Debts') <= Cardinality(Debts) + 1
    BY <1>1, <2>1, <2>2
  <2>4. Price + Cardinality(Debts') <= MaxFaults - faults'
    BY <1>1, <1>3, <2>2, <2>3, OneMore
  <2>5. QED BY <2>2, <2>4
<1>4. QED BY <1>2, <1>3

\* A step of c that parks nothing and adds no failure but for a fault.
LEMMA PaidFrame ==
  ASSUME IInv, IInv', PInv, NEW c \in Consumers, UNCHANGED <<log, dlq>>, Others(c),
         faults' <= faults, Counts(c)',
         \/ stage'[c] \notin Handling
         \/ ~Good(current'[c])
         \/ Failures(c)' = 0
         \/ /\ stage[c] \in Handling /\ current'[c] = current[c]
            /\ \/ Failures(c)' = Failures(c)
               \/ Failures(c)' = Failures(c) + 1 /\ faults' + 1 = faults
  PROVE  PInv'
<1>1. \A r : Good(r)' <=> Good(r)
  BY DEF Good, EventOf
<1>2. Price' = Price /\ Published' = Published
  BY <1>1 DEF Price, Published
<1>3. faults' \in Nat
  BY DEF IInv, StoreInv
<1>4. ASSUME NEW d \in Consumers \ {c}
      PROVE  /\ Counts(d)' /\ Failures(d)' = Failures(d)
             /\ stage'[d] = stage[d] /\ (Good(current[d])' <=> Good(current[d]))
  <2>1. stage'[d] = stage[d] /\ current'[d] = current[d] /\ attempt'[d] = attempt[d]
    BY DEF Others
  <2>2. Good(current[d])' <=> Good(current[d])
    BY <2>1 DEF Good, EventOf
  <2>3. QED BY <2>1, <2>2 DEF PInv, Counts, Failures
<1>5. Good(current[c])' <=> Good(current'[c])
  BY DEF Good, EventOf
<1>6. attempt[c] \in Nat /\ Failures(c) \in Nat
  BY BoundsAssumption DEF IInv, WorkerInv, Failures
<1>7. ASSUME NEW d \in Debts', d \notin Debts
      PROVE  /\ d = <<c, Failures(c) + 1>>
             /\ faults' + 1 = faults
  <2>1. /\ d \in Consumers \X (1..RetryAttempts + 1)
        /\ stage'[d[1]] \in Handling /\ Good(current[d[1]])' /\ d[2] <= Failures(d[1])'
    BY <1>7 DEF Debts
  <2>2. d[1] = c
    <3> SUFFICES ASSUME d[1] # c PROVE FALSE
      OBVIOUS
    <3>1. d[1] \in Consumers \ {c}
      BY <2>1
    <3>2. d \in Debts
      BY <1>4, <2>1, <3>1 DEF Debts
    <3>3. QED BY <1>7, <3>2
  <2>3. /\ stage'[c] \in Handling /\ Good(current'[c])
        /\ d[2] <= Failures(c)' /\ d[2] \in Nat \ {0}
    BY <1>5, <2>1, <2>2, BoundsAssumption
  <2>4. /\ stage[c] \in Handling /\ current'[c] = current[c]
        /\ \/ Failures(c)' = Failures(c)
           \/ Failures(c)' = Failures(c) + 1 /\ faults' + 1 = faults
    BY <2>3
  <2>5. Good(current[c])
    BY <2>3, <2>4
  <2>6. ~(d[2] <= Failures(c))
    BY <1>7, <2>1, <2>2, <2>4, <2>5 DEF Debts
  <2>7. d[2] = Failures(c) + 1 /\ faults' + 1 = faults
    BY <1>6, <2>3, <2>4, <2>6
  <2>8. QED BY <2>1, <2>2, <2>7
<1>8. \/ Debts' \subseteq Debts
      \/ Debts' \subseteq Debts \union {<<c, Failures(c) + 1>>} /\ faults' + 1 = faults
  BY <1>7
<1>9. IsFiniteSet(Debts') /\ Price' + Cardinality(Debts') <= MaxFaults - faults'
  BY <1>2, <1>3, <1>8, StillAfforded
<1>10. QED BY <1>2, <1>4, <1>9 DEF PInv

\* A failed call of a record that is handled counts one failure, or ends the process.
LEMMA FailureCounts ==
  ASSUME IInv, NEW c \in Consumers, stage[c] \in Handling \ {"park"}, HandleFailed(c)
  PROVE  /\ Counts(c)'
         /\ \/ cancelled[c] /\ stage'[c] \notin Handling
            \/ ~cancelled[c] /\ current'[c] = current[c] /\ Failures(c)' = Failures(c) + 1
<1>1. CASE cancelled[c] /\ Exit(c)
  BY <1>1 DEF Exit, Counts, Handling, IInv, WorkerInv
<1>2. CASE /\ ~cancelled[c]
           /\ stage' = [stage EXCEPT ![c] = "backoff"]
           /\ attempt' = [attempt EXCEPT ![c] = @ + 1]
           /\ UNCHANGED <<todo, current, cancelled, owner>>
  <2>1. stage'[c] = "backoff" /\ attempt'[c] = attempt[c] + 1 /\ current'[c] = current[c]
    BY <1>2 DEF IInv, WorkerInv
  <2>2. QED BY <1>2, <2>1 DEF Counts, Failures, Handling, Stages
<1>3. CASE ~cancelled[c] /\ attempt[c] = RetryAttempts /\ Goto(c, "park")
  <2>1. stage'[c] = "park" /\ attempt'[c] = attempt[c] /\ current'[c] = current[c]
    BY <1>3 DEF Goto, IInv, WorkerInv
  <2>2. QED BY <1>3, <2>1 DEF Counts, Failures, Handling, Stages
<1>4. QED BY <1>1, <1>2, <1>3 DEF HandleFailed

\* A process that goes on to another statement has the failures it had.
LEMMA GotoCounts ==
  ASSUME IInv, NEW c \in Consumers, stage[c] \in Handling \ {"park"},
         NEW s \in Handling \ {"park"}, Goto(c, s)
  PROVE  Counts(c)' /\ current'[c] = current[c] /\ Failures(c)' = Failures(c)
<1>1. stage'[c] = s /\ attempt'[c] = attempt[c] /\ current'[c] = current[c]
  BY DEF Goto, IInv, WorkerInv
<1>2. QED BY <1>1 DEF Counts, Failures

\* A process without a record has no failures.
LEMMA FreshCounts ==
  ASSUME IInv, NEW c \in Consumers, Exit(c) \/ RecordDone(c)
  PROVE  Counts(c)' /\ stage'[c] \notin Handling
BY DEF IInv, WorkerInv, Exit, RecordDone, Counts, Handling, Stages

\* The end of a call costs a fault if it failed under a live context.
LEMMA CallCosts ==
  ASSUME IInv, NEW c \in Consumers, NEW out \in Outcomes, Call(c, out)
  PROVE  /\ faults \in Nat /\ faults' \in Nat /\ faults' <= faults
         /\ out # "ok" /\ ~cancelled[c] => faults' + 1 = faults
BY BoundsAssumption DEF Call, IInv, StoreInv

\* A statement of Handle.
LEMMA StatementPaid ==
  ASSUME IInv, IInv', PInv, NEW c \in Consumers, NEW out \in Outcomes, Call(c, out),
         UNCHANGED <<log, dlq>>, stage[c] \in Handling \ {"park"},
         \/ RecordDone(c)
         \/ \E s \in Handling \ {"park"} : Goto(c, s)
         \/ out # "ok" /\ HandleFailed(c)
  PROVE  PInv'
<1>0. /\ faults \in Nat /\ faults' \in Nat /\ faults' <= faults
      /\ out # "ok" /\ ~cancelled[c] => faults' + 1 = faults
  BY CallCosts
<1>1. Others(c)
  BY StepsLeaveOthers DEF Handling
<1>2. CASE RecordDone(c)
  BY <1>0, <1>1, <1>2, FreshCounts, PaidFrame
<1>3. ASSUME NEW s \in Handling \ {"park"}, Goto(c, s) PROVE PInv'
  <2>1. Counts(c)' /\ current'[c] = current[c] /\ Failures(c)' = Failures(c)
    BY <1>3, GotoCounts
  <2>2. QED BY <1>0, <1>1, <2>1, PaidFrame
<1>4. CASE out # "ok" /\ HandleFailed(c)
  <2>1. /\ Counts(c)'
        /\ \/ cancelled[c] /\ stage'[c] \notin Handling
           \/ ~cancelled[c] /\ current'[c] = current[c] /\ Failures(c)' = Failures(c) + 1
    BY <1>4, FailureCounts
  <2>2. CASE stage'[c] \notin Handling
    BY <1>0, <1>1, <2>1, <2>2, PaidFrame
  <2>3. CASE ~cancelled[c] /\ current'[c] = current[c] /\ Failures(c)' = Failures(c) + 1
    BY <1>0, <1>1, <1>4, <2>1, <2>3, PaidFrame
  <2>4. QED BY <2>1, <2>2, <2>3
<1>5. QED BY <1>2, <1>3, <1>4

LEMMA HandlePaid ==
  ASSUME IInv, IInv', PInv, NEW c \in Consumers, Handle(c) PROVE PInv'
<1>1. {"upsert", "auth", "invalidate", "mark"} \subseteq Handling \ {"park"}
  BY DEF Handling, Stages
<1>2. /\ stage[c] \in {"check", "upsert", "auth", "invalidate", "mark"}
      /\ UNCHANGED <<log, dlq>>
  BY DEF Handle, Check, Upsert, Reject, Auth, AuthNameless, AuthConflict, Invalidate,
         Mark, kafka
<1>3. stage[c] \in Handling \ {"park"}
  BY <1>2 DEF Handling, Stages
<1>4. CASE Check(c)
  <2>1. PICK out \in Outcomes : /\ Call(c, out)
                                /\ \/ RecordDone(c) \/ Goto(c, "upsert")
                                   \/ out # "ok" /\ HandleFailed(c)
    BY <1>4 DEF Check
  <2>2. QED BY <1>1, <1>2, <1>3, <2>1, StatementPaid
<1>5. CASE Upsert(c)
  <2>1. PICK out \in Outcomes : /\ Call(c, out)
                                /\ \/ Goto(c, "auth") \/ Goto(c, "mark")
                                   \/ out # "ok" /\ HandleFailed(c)
    BY <1>5 DEF Upsert
  <2>2. QED BY <1>1, <1>2, <1>3, <2>1, StatementPaid
<1>6. CASE Auth(c)
  <2>1. PICK out \in Outcomes : /\ Call(c, out)
                                /\ \/ Goto(c, "invalidate")
                                   \/ out # "ok" /\ HandleFailed(c)
    BY <1>6 DEF Auth
  <2>2. QED BY <1>1, <1>2, <1>3, <2>1, StatementPaid
<1>7. CASE Invalidate(c)
  <2>1. PICK out \in Outcomes : Call(c, out) /\ Goto(c, "mark")
    BY <1>7 DEF Invalidate
  <2>2. QED BY <1>1, <1>2, <1>3, <2>1, StatementPaid
<1>8. CASE Mark(c)
  <2>1. PICK out \in Outcomes : /\ Call(c, out)
                                /\ \/ RecordDone(c)
                                   \/ out # "ok" /\ HandleFailed(c)
    BY <1>8 DEF Mark
  <2>2. QED BY <1>1, <1>2, <1>3, <2>1, StatementPaid
<1>9. CASE Reject(c) \/ AuthConflict(c)
  <2>1. HandleFailed(c) /\ faults' = faults /\ ~Good(current[c])
    BY <1>9 DEF Reject, AuthConflict, Good, Event
  <2>2. Counts(c)' /\ (stage'[c] \notin Handling \/ ~Good(current'[c]))
    <3>1. /\ Counts(c)'
          /\ stage'[c] \notin Handling \/ current'[c] = current[c]
      BY <1>3, <2>1, FailureCounts
    <3>2. QED BY <2>1, <3>1
  <2>3. faults' <= faults
    BY <2>1 DEF IInv, StoreInv
  <2>4. Others(c)
    BY <2>1, StepsLeaveOthers
  <2>5. QED BY <1>2, <2>2, <2>3, <2>4, PaidFrame
<1>10. CASE AuthNameless(c)
  <2>1. Goto(c, "invalidate") /\ faults' <= faults
    BY <1>10 DEF AuthNameless, IInv, StoreInv
  <2>2. Counts(c)' /\ current'[c] = current[c] /\ Failures(c)' = Failures(c)
    BY <1>1, <1>3, <2>1, GotoCounts
  <2>3. Others(c)
    BY <1>1, <2>1, StepsLeaveOthers DEF Handling
  <2>4. QED BY <1>2, <1>3, <2>1, <2>2, <2>3, PaidFrame
<1>11. QED BY <1>4, <1>5, <1>6, <1>7, <1>8, <1>9, <1>10 DEF Handle

\* The failures of a record that c gives up are n.
LEMMA WithoutTheDebtsOf ==
  ASSUME NEW S, IsFiniteSet(S), NEW T, NEW c, NEW n \in Nat,
         {c} \X (1..n) \subseteq S, T \subseteq S \ ({c} \X (1..n))
  PROVE  IsFiniteSet(T) /\ Cardinality(T) \in Nat /\ Cardinality(T) + n <= Cardinality(S)
<1> DEFINE D == {c} \X (1..n)
<1>1. IsFiniteSet({c}) /\ Cardinality({c}) = 1
  BY FS_Singleton
<1>2. IsFiniteSet(1..n) /\ Cardinality(1..n) = n
  BY FS_Interval
<1>3. Cardinality(D) = n
  <2>1. Cardinality(D) = Cardinality({c}) * Cardinality(1..n)
    BY <1>1, <1>2, FS_Product
  <2>2. QED BY <1>1, <1>2, <2>1
<1>4. S \cap D = D
  OBVIOUS
<1>5. IsFiniteSet(S \ D) /\ Cardinality(S \ D) = Cardinality(S) - n
  <2>1. IsFiniteSet(S \ D) /\ Cardinality(S \ D) = Cardinality(S) - Cardinality(S \cap D)
    BY FS_Difference
  <2>2. QED BY <1>3, <1>4, <2>1
<1>6. /\ IsFiniteSet(T) /\ Cardinality(T) \in Nat /\ Cardinality(T) <= Cardinality(S \ D)
  BY <1>5, FS_Subset, FS_CardinalityType
<1>7. Cardinality(S) \in Nat
  BY FS_CardinalityType
<1>8. QED BY <1>5, <1>6, <1>7

\* A record that is parked takes its failures with it into the DLQ.
LEMMA ParkPaid ==
  ASSUME IInv, IInv', PInv, NEW c \in Consumers, ParkRecord(c) PROVE PInv'
<1>1. PICK out \in Outcomes :
        /\ Call(c, out)
        /\ dlq' = IF out = "failed" THEN dlq ELSE dlq \union {current[c]}
        /\ IF out = "ok" THEN RecordDone(c) ELSE Exit(c)
  BY DEF ParkRecord
<1>2. /\ log' = log /\ stage[c] = "park" /\ stage[c] \in Handling
  BY DEF ParkRecord, Handling, Stages
<1>3. Counts(c)' /\ stage'[c] \notin Handling
  BY <1>1, FreshCounts
<1>4. faults \in Nat /\ faults' \in Nat /\ faults' <= faults /\ MaxFaults \in Nat
  BY <1>1, CallCosts, BoundsAssumption
<1>0. Others(c)
  BY <1>1, StepsLeaveOthers
<1>5. CASE dlq' = dlq
  BY <1>0, <1>2, <1>3, <1>4, <1>5, PaidFrame
<1>6. CASE dlq' = dlq \union {current[c]}
  <2> DEFINE S == {r \in dlq : Good(r)}
             n == RetryAttempts + 1
  <2>1. \A r : Good(r)' <=> Good(r)
    BY <1>2 DEF Good, EventOf
  <2>2. IsFiniteSet(S) /\ Cardinality(S) \in Nat /\ n \in Nat /\ IsFiniteSet(dlq)
    BY FS_Subset, FS_CardinalityType, BoundsAssumption DEF PInv
  <2>3. /\ Price' = Cardinality({r \in dlq' : Good(r)}) * n
        /\ Price = Cardinality(S) * n /\ Price \in Nat
    BY <2>1, <2>2, PriceIsNatural DEF Price
  <2>4. IsFiniteSet(Debts') /\ Price' + Cardinality(Debts') <= MaxFaults - faults'
    <3>0. Debts' \subseteq Debts \ ({c} \X (1..n))
      <4> SUFFICES ASSUME NEW d \in Debts' PROVE d \in Debts /\ d[1] # c
        OBVIOUS
      <4>1. /\ d \in Consumers \X (1..n)
            /\ stage'[d[1]] \in Handling /\ Good(current[d[1]])' /\ d[2] <= Failures(d[1])'
        BY DEF Debts
      <4>2. d[1] # c
        BY <1>3, <4>1
      <4>3. /\ stage'[d[1]] = stage[d[1]] /\ current'[d[1]] = current[d[1]]
            /\ attempt'[d[1]] = attempt[d[1]]
        BY <1>0, <4>1, <4>2 DEF Others
      <4>4. Good(current[d[1]]) /\ Failures(d[1])' = Failures(d[1])
        BY <1>2, <4>1, <4>3 DEF Good, EventOf, Failures
      <4>5. QED BY <4>1, <4>2, <4>3, <4>4 DEF Debts
    <3>1. CASE Good(current[c]) /\ current[c] \notin S
      <4>1. {r \in dlq' : Good(r)} = S \union {current[c]}
        BY <1>6, <3>1
      <4>2. Cardinality(S \union {current[c]}) = Cardinality(S) + 1
        BY <2>2, <3>1, FS_AddElement
      <4>3. Price' = (Cardinality(S) + 1) * n
        BY <2>3, <4>1, <4>2
      <4>4. (Cardinality(S) + 1) * n = Cardinality(S) * n + n
        BY <2>2
      <4>5. Price' = Price + n
        BY <2>3, <4>3, <4>4
      <4>6. Failures(c) = n
        BY <1>2, <3>1 DEF PInv, Counts, Failures
      <4>7. {c} \X (1..n) \subseteq Debts
        BY <1>2, <2>2, <3>1, <4>6 DEF Debts
      <4>8. /\ IsFiniteSet(Debts') /\ Cardinality(Debts') \in Nat
            /\ Cardinality(Debts') + n <= Cardinality(Debts)
        BY <2>2, <3>0, <4>7, WithoutTheDebtsOf DEF PInv
      <4>9. /\ Price + Cardinality(Debts) <= MaxFaults - faults
            /\ Cardinality(Debts) \in Nat
        BY FS_CardinalityType DEF PInv
      <4>10. QED BY <1>4, <2>2, <2>3, <4>5, <4>8, <4>9
    <3>2. CASE ~(Good(current[c]) /\ current[c] \notin S)
      <4>1. {r \in dlq' : Good(r)} = S
        BY <1>6, <3>2
      <4>2. Price' = Price
        BY <2>3, <4>1
      <4>3. Debts' \subseteq Debts
        BY <3>0
      <4>4. QED BY <1>4, <4>2, <4>3, StillAfforded
    <3>3. QED BY <3>1, <3>2
  <2>5. IsFiniteSet(dlq') /\ dlq' \subseteq Published'
    <3>1. current[c] \in Published /\ Published' = Published
      BY <1>2, CurrentIsPublished DEF IInv, Published
    <3>2. IsFiniteSet(dlq')
      BY <1>6, <2>2, FS_AddElement
    <3>3. QED BY <1>6, <3>1, <3>2 DEF PInv
  <2>6. ASSUME NEW d \in Consumers \ {c} PROVE Counts(d)'
    <3>1. /\ stage'[d] = stage[d] /\ current'[d] = current[d] /\ attempt'[d] = attempt[d]
          /\ log' = log
      BY <1>0, <1>2 DEF Others
    <3>2. QED BY <3>1 DEF PInv, Counts, Good, EventOf
  <2>7. QED BY <1>3, <2>4, <2>5, <2>6 DEF PInv
<1>7. QED BY <1>1, <1>5, <1>6

\* A step that neither calls the database nor parks.
LEMMA LoopPaid ==
  ASSUME IInv, IInv', PInv, NEW c \in Consumers,
         \/ Start(c) \/ Poll(c) \/ PollEnds(c) \/ Begin(c) \/ Backoff(c) \/ NoDLQ(c)
         \/ Commit(c) \/ Crash(c)
  PROVE  PInv'
<1>1. /\ UNCHANGED <<log, dlq>> /\ faults \in Nat
      /\ \/ faults' = faults \/ faults' = faults - 1
  BY DEF Start, Poll, PollEnds, Begin, Backoff, NoDLQ, Commit, Crash, Call, kafka, IInv, StoreInv
<1>2. faults' <= faults
  BY <1>1
<1>0. Others(c)
  <2>1. CASE Poll(c) \/ Begin(c)
    BY <2>1 DEF Poll, Begin, Others, IInv, WorkerInv
  <2>2. {"check", "poll"} \subseteq Stages
    BY DEF Stages
  <2>3. CASE Start(c) \/ PollEnds(c) \/ Backoff(c) \/ NoDLQ(c) \/ Commit(c) \/ Crash(c)
    <3>1. Exit(c) \/ \E s \in {"check", "poll"} : Goto(c, s)
      BY <2>3 DEF Start, PollEnds, Backoff, NoDLQ, Commit, Crash
    <3>2. QED BY <2>2, <3>1, StepsLeaveOthers
  <2>4. QED BY <2>1, <2>3
<1>3. CASE Exit(c)
  BY <1>0, <1>1, <1>2, <1>3, FreshCounts, PaidFrame
<1>4. CASE stage[c] \notin Handling /\ attempt' = attempt /\ stage'[c] \notin Handling
  BY <1>0, <1>1, <1>2, <1>4, PaidFrame DEF PInv, Counts, Handling, Stages
<1>5. CASE Backoff(c) /\ Goto(c, "check")
  <2>1. stage[c] \in Handling \ {"park"} /\ "check" \in Handling \ {"park"}
    BY <1>5 DEF Backoff, Handling, Stages
  <2>2. Counts(c)' /\ current'[c] = current[c] /\ Failures(c)' = Failures(c)
    BY <1>5, <2>1, GotoCounts
  <2>3. QED BY <1>0, <1>1, <1>2, <2>1, <2>2, PaidFrame
<1>6. CASE Begin(c)
  <2>1. PICK r \in todo[c] :
          /\ current' = [current EXCEPT ![c] = r]
          /\ stage' = [stage EXCEPT ![c] = IF Kind[EventOf(r)] = "malformed" THEN "park" ELSE "check"]
    BY <1>6 DEF Begin
  <2>2. attempt'[c] = 0
    BY <1>6 DEF Begin, PInv, Counts, Handling
  <2>3. current'[c] = r /\ stage'[c] = IF Kind[EventOf(r)] = "malformed" THEN "park" ELSE "check"
    BY <2>1 DEF IInv, WorkerInv
  <2>4. stage'[c] = "park" => ~Good(current'[c])
    BY <2>3 DEF Good
  <2>5. stage'[c] # "park" => Failures(c)' = 0
    BY <2>2 DEF Failures
  <2>6. Good(current[c])' <=> Good(current'[c])
    BY <1>1 DEF Good, EventOf
  <2>7. Counts(c)'
    BY <2>2, <2>4, <2>6 DEF Counts
  <2>8. QED BY <1>0, <1>1, <1>2, <2>4, <2>5, <2>7, PaidFrame
<1>7. QED
  <2>1. Start(c) \/ Poll(c) \/ (Commit(c) /\ Goto(c, "poll")) =>
          stage[c] \notin Handling /\ attempt' = attempt /\ stage'[c] \notin Handling
    BY DEF Start, Poll, Commit, Goto, Handling, Stages, IInv, WorkerInv
  <2>2. PollEnds(c) \/ NoDLQ(c) \/ Crash(c) => Exit(c)
    BY DEF PollEnds, NoDLQ, Crash
  <2>3. Backoff(c) => Exit(c) \/ Goto(c, "check")
    BY DEF Backoff
  <2>4. Commit(c) => Exit(c) \/ Goto(c, "poll")
    BY DEF Commit
  <2>5. QED BY <1>3, <1>4, <1>5, <1>6, <2>1, <2>2, <2>3, <2>4

\* A signal, an assignment, or nothing.
LEMMA StillPaid ==
  ASSUME IInv, IInv', PInv, UNCHANGED <<log, dlq, stage, current, attempt>>,
         faults' = faults \/ faults' = faults - 1
  PROVE  PInv'
<1>1. \A r : Good(r)' <=> Good(r)
  BY DEF Good, EventOf
<1>2. Price' = Price /\ Published' = Published
  BY <1>1 DEF Price, Published
<1>3. ASSUME NEW c \in Consumers PROVE Counts(c)' /\ Failures(c)' = Failures(c)
  BY <1>1 DEF PInv, Counts, Failures, Good, EventOf
<1>4. Debts' = Debts
  BY <1>1, <1>3 DEF Debts, Good, EventOf
<1>5. faults \in Nat /\ faults' \in Nat /\ faults' <= faults
  BY DEF IInv, StoreInv
<1>6. IsFiniteSet(Debts') /\ Price' + Cardinality(Debts') <= MaxFaults - faults'
  BY <1>2, <1>4, <1>5, StillAfforded
<1>7. QED BY <1>2, <1>3, <1>6 DEF PInv

\* A new record changes nothing of the published ones.
LEMMA PublishPaid ==
  ASSUME IInv, PInv, NEW e \in Events, Publish(e) PROVE PInv'
<1>1. /\ UNCHANGED <<dlq, stage, current, attempt, faults>>
      /\ log' = [log EXCEPT ![Home[e]] = Append(@, e)] /\ Home[e] \in Partitions
      /\ log \in [Partitions -> Seq(Events)]
  BY HomeAssumption DEF Publish, worker, IInv, LogInv
<1>2. ASSUME NEW p \in Partitions, NEW o \in 1..Len(log[p])
      PROVE  log'[p][o] = log[p][o] /\ o <= Len(log'[p])
  <2>1. CASE p = Home[e]
    <3>1. log'[p] = Append(log[p], e) /\ log[p] \in Seq(Events)
      BY <1>1, <2>1
    <3>2. QED BY <3>1
  <2>2. CASE p # Home[e]
    <3>1. log'[p] = log[p] /\ log[p] \in Seq(Events)
      BY <1>1, <2>2
    <3>2. QED BY <3>1
  <2>3. QED BY <2>1, <2>2
<1>3. ASSUME NEW r \in Published PROVE (Good(r)' <=> Good(r)) /\ r \in Published'
  <2>1. r \in Records /\ r[1] \in Partitions /\ r[2] \in 1..Len(log[r[1]])
    BY DEF Published, Records, Offsets, IInv, LogInv
  <2>2. log'[r[1]][r[2]] = log[r[1]][r[2]] /\ r[2] <= Len(log'[r[1]])
    BY <1>2, <2>1
  <2>3. QED BY <2>1, <2>2 DEF Good, EventOf, Published
<1>4. {r \in dlq' : Good(r)'} = {r \in dlq : Good(r)}
  BY <1>1, <1>3 DEF PInv
<1>5. Price' = Price
  BY <1>4 DEF Price
<1>6. ASSUME NEW c \in Consumers
      PROVE  /\ stage[c] \in Handling => (Good(current[c])' <=> Good(current[c]))
             /\ Failures(c)' = Failures(c) /\ Counts(c)'
  <2>1. stage[c] \in Handling => (Good(current[c])' <=> Good(current[c]))
    <3>1. stage[c] \in Handling => current[c] \in Published
      BY CurrentIsPublished DEF IInv
    <3>2. QED BY <1>1, <1>3, <3>1 DEF Good, EventOf
  <2>2. "park" \in Handling
    BY DEF Handling, Stages
  <2>3. QED BY <1>1, <2>1, <2>2 DEF PInv, Counts, Failures
<1>7. Debts' = Debts
  <2>1. ASSUME NEW d \in Consumers \X (1..RetryAttempts + 1)
        PROVE  /\ stage'[d[1]] = stage[d[1]] /\ Failures(d[1])' = Failures(d[1])
               /\ stage[d[1]] \in Handling => (Good(current[d[1]])' <=> Good(current[d[1]]))
    BY <1>1, <1>6
  <2>2. QED BY <2>1 DEF Debts
<1>8. QED BY <1>1, <1>3, <1>5, <1>6, <1>7 DEF PInv

LEMMA NextPaid == IInv /\ IInv' /\ PInv /\ [Next]_vars => PInv'
<1> SUFFICES ASSUME IInv, IInv', PInv, [Next]_vars PROVE PInv'
  OBVIOUS
<1>1. ASSUME NEW c \in Consumers, Run(c) \/ Crash(c) PROVE PInv'
  BY <1>1, HandlePaid, ParkPaid, LoopPaid DEF Run
<1>2. CASE UNCHANGED vars
  BY <1>2, StillPaid DEF vars, kafka, worker
<1>3. ASSUME NEW c \in Consumers, Idle(c) \/ Cancel(c) PROVE PInv'
  BY <1>2, <1>3, StillPaid DEF Idle, Cancel, kafka
<1>4. ASSUME NEW p \in Partitions, NEW c \in Consumers, Assign(p, c) PROVE PInv'
  BY <1>4, StillPaid DEF Assign
<1>5. QED BY <1>1, <1>2, <1>3, <1>4, PublishPaid DEF Next

LEMMA InitPaid == Init => PInv
<1> SUFFICES ASSUME Init PROVE PInv
  OBVIOUS
<1>1. {r \in dlq : Good(r)} = {} /\ dlq = {}
  BY DEF Init
<1>2. Price = 0
  BY <1>1, FS_EmptySet, BoundsAssumption DEF Price
<1>3. \A c \in Consumers : Counts(c)
  BY DEF Init, Counts, Handling
<1>4. Debts = {}
  BY DEF Init, Debts, Handling
<1>5. QED BY <1>1, <1>2, <1>3, <1>4, FS_EmptySet, BoundsAssumption DEF PInv, Init

\* An event that can be projected is in the DLQ only after RetryAttempts + 1 failed
\* calls of its own, for any limit and any number of processes, records, takeovers,
\* crashes and signals.
THEOREM ParkingTakesAllRetries == Spec => []ParkedAfterAllRetries
<1>1. ASSUME IInv, PInv PROVE ParkedAfterAllRetries
  <2>1. /\ Price \in Nat /\ Cardinality(Debts) \in Nat
        /\ Price + Cardinality(Debts) <= MaxFaults - faults
    BY <1>1, PriceIsNatural, FS_CardinalityType DEF PInv
  <2>2. Price <= MaxFaults - faults
    <3>1. MaxFaults \in Nat /\ faults \in Nat
      BY <1>1, BoundsAssumption DEF IInv, StoreInv
    <3>2. QED BY <2>1, <3>1
  <2>3. Cardinality({r \in dlq : Good(r)}) * (RetryAttempts + 1) <= MaxFaults - faults
    BY <2>2 DEF Price
  <2>4. QED BY <2>3 DEF Good, ParkedAfterAllRetries
<1>2. QED BY <1>1, InitIInv, NextIInv, InitPaid, NextPaid, PTL DEF Spec
=============================================================================

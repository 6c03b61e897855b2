--------------------------- MODULE PipelineProofs ---------------------------
(***************************************************************************)
(* What Pipeline guarantees for any number of events of any kinds, repeated    *)
(* publications, crashes, failures and replays: only what was parked takes a   *)
(* diploma back, and nothing processed is written again.                     *)
(*                                                                         *)
(* The argument: an event first comes after all the events it supersedes, and  *)
(* the consumer leaves no record before it is processed or parked; so when a   *)
(* newer event is settled, every older one is.                               *)
(***************************************************************************)
EXTENDS Pipeline, TLAPS

Has(e) == \E i \in 1..Len(source) : source[i] = e
Settled(e) == e \in processed \/ Parked(e)

\* The source topic holds each event behind all those it supersedes.
Published ==
  /\ \A i \in 1..Len(source) : \A f \in Events :
       f < source[i] => \E j \in 1..i - 1 : source[j] = f
  /\ \A e \in Events : e <= announced => Has(e)
  /\ \A i \in 1..Len(dlq) : Has(dlq[i])

\* Every record the consumer has passed is settled, and with it what it supersedes.
Handled ==
  /\ \A i \in 1..cursor : Settled(source[i])
  /\ \A e, f \in Events : Settled(e) /\ f < e => Settled(f)

IInv == TypeOK /\ Published /\ Handled /\ StaleRowWasParked

-----------------------------------------------------------------------------
LEMMA InitIInv == Init => IInv
<1> SUFFICES ASSUME Init PROVE IInv
  OBVIOUS
<1>1. NEvents \in Nat /\ MaxTwice \in Nat /\ MaxFaults \in Nat
  BY BoundsAssumption
<1>2. TypeOK
  BY <1>1 DEF Init, TypeOK
<1>3. Published /\ Handled /\ StaleRowWasParked
  BY <1>1 DEF Init, Published, Handled, Settled, Parked, StaleRowWasParked, Events
<1>4. QED BY <1>2, <1>3 DEF IInv

\* The record the consumer has come to.
LEMMA NextRecord ==
  ASSUME TypeOK, More
  PROVE  Event \in Events /\ cursor + 1 \in 1..Len(source) /\ Event = source[cursor + 1]
BY DEF TypeOK, More, Event

\* An event is put behind all those it supersedes.
LEMMA SourceGrows ==
  ASSUME TypeOK, Published, NEW e \in Events, \A f \in Events : f < e => Has(f),
         source' = Append(source, e), dlq' = dlq,
         announced' = announced \/ (announced' = announced + 1 /\ e = announced + 1)
  PROVE  Published' /\ Len(source') = Len(source) + 1
         /\ \A i \in 1..Len(source) : source'[i] = source[i]
<1>1. /\ Len(source) \in Nat /\ Len(source') = Len(source) + 1
      /\ \A i \in 1..Len(source) : source'[i] = source[i]
      /\ source'[Len(source) + 1] = e
  BY DEF TypeOK
<1>2. \A f \in Events : Has(f) => Has(f)'
  BY <1>1 DEF Has
<1>3. Has(e)'
  BY <1>1 DEF Has
<1>4. ASSUME NEW i \in 1..Len(source'), NEW f \in Events, f < source'[i]
      PROVE  \E j \in 1..i - 1 : source'[j] = f
  <2>1. CASE i \in 1..Len(source)
    <3>1. PICK j \in 1..i - 1 : source[j] = f
      BY <1>1, <1>4, <2>1 DEF Published
    <3>2. j \in 1..Len(source)
      BY <2>1, <1>1
    <3>3. QED BY <1>1, <3>1, <3>2
  <2>2. CASE i = Len(source) + 1
    <3>1. PICK j \in 1..Len(source) : source[j] = f
      BY <1>1, <1>4, <2>2 DEF Has
    <3>2. QED BY <1>1, <2>2, <3>1
  <2>3. QED BY <1>1, <2>1, <2>2
<1>5. ASSUME NEW f \in Events, f <= announced' PROVE Has(f)'
  BY <1>2, <1>3, <1>5 DEF Published, TypeOK, Events
<1>6. ASSUME NEW i \in 1..Len(dlq)' PROVE Has(dlq[i])'
  <2>1. i \in 1..Len(dlq) /\ dlq[i] \in Events /\ Has(dlq[i])
    BY <1>6 DEF TypeOK, Published
  <2>2. PICK f \in Events : f = dlq[i] /\ Has(f)
    BY <2>1
  <2>3. Has(f)'
    BY <1>2, <2>2
  <2>4. QED BY <2>2, <2>3 DEF Has
<1>7. QED BY <1>1, <1>4, <1>5, <1>6 DEF Published

\* An event is parked.
LEMMA DlqGrows ==
  ASSUME TypeOK, NEW e \in Events, dlq' = Append(dlq, e)
  PROVE  /\ dlq' \in Seq(Events) /\ Len(dlq') = Len(dlq) + 1
         /\ \A x \in Events : Parked(x)' <=> Parked(x) \/ x = e
         /\ \A i \in 1..Len(dlq) : dlq'[i] = dlq[i]
         /\ dlq'[Len(dlq) + 1] = e
BY DEF TypeOK, Parked

\* A step that settles nothing but the record the consumer has come to, and passes
\* it only then.
LEMMA HandledStep ==
  ASSUME TypeOK, Published, Handled, More, source' = source, NEW e \in Events, e = Event,
         \A x \in Events : Settled(x) => Settled(x)',
         \A x \in Events : Settled(x)' => Settled(x) \/ x = e,
         cursor' \in 0..cursor \/ (cursor' = cursor + 1 /\ Settled(e)')
  PROVE  Handled'
<1>1. /\ cursor + 1 \in 1..Len(source) /\ e = source[cursor + 1]
      /\ cursor \in Nat /\ \A i \in 1..Len(source) : source[i] \in Events
  BY NextRecord DEF TypeOK
<1>2. ASSUME NEW i \in 1..cursor' PROVE Settled(source[i])'
  <2>1. CASE i = cursor + 1
    <3>1. cursor' = cursor + 1 /\ Settled(e)'
      BY <1>1, <1>2, <2>1
    <3>2. QED BY <1>1, <2>1, <3>1 DEF Settled, Parked
  <2>2. CASE i \in 1..cursor
    <3>1. PICK x \in Events : x = source[i] /\ Settled(x)
      BY <1>1, <2>2 DEF Handled
    <3>2. Settled(x)'
      BY <3>1
    <3>3. QED BY <3>1, <3>2 DEF Settled, Parked
  <2>3. QED BY <1>1, <1>2, <2>1, <2>2
<1>3. ASSUME NEW f \in Events, f < e PROVE Settled(f)
  <2>1. PICK j \in 1..(cursor + 1) - 1 : source[j] = f
    BY <1>1, <1>3 DEF Published
  <2>2. j \in 1..cursor
    BY <1>1
  <2>3. QED BY <2>1, <2>2 DEF Handled
<1>4. ASSUME NEW x \in Events, NEW f \in Events, Settled(x)', f < x PROVE Settled(f)'
  <2>1. Settled(x) \/ x = e
    BY <1>4
  <2>2. Settled(f)
    BY <1>3, <1>4, <2>1 DEF Handled
  <2>3. QED BY <2>2
<1>5. QED BY <1>2, <1>4 DEF Handled

\* The last event that wrote the row: one that is not older than what is processed,
\* or one that is parked.
LEMMA RowStep ==
  ASSUME TypeOK, Handled, StaleRowWasParked, NEW e \in Events,
         \A x \in Events : Parked(x) => Parked(x)',
         \/ row' = row /\ processed' \subseteq processed
         \/ row' = e /\ e \notin processed /\ processed' \subseteq processed \union {e}
         \/ row' = e /\ Parked(e)' /\ processed' \subseteq processed
  PROVE  StaleRowWasParked'
<1> SUFFICES ASSUME NEW x \in processed', row' < x PROVE row' # 0 /\ Parked(row)'
  BY DEF StaleRowWasParked
<1>1. e # 0 /\ e \in Nat /\ NEvents \in Nat /\ \A y \in processed : y \in Events
  BY BoundsAssumption DEF Events, TypeOK
<1>2. CASE row' = row /\ processed' \subseteq processed
  <2>1. PICK r \in Events : r = row /\ Parked(r)
    BY <1>1, <1>2 DEF StaleRowWasParked, TypeOK, Events
  <2>2. Parked(r)'
    BY <2>1
  <2>3. QED BY <1>1, <1>2, <2>1, <2>2 DEF Parked, Events
<1>3. CASE row' = e /\ e \notin processed /\ processed' \subseteq processed \union {e}
  <2>1. x \in processed /\ x \in Events /\ e < x
    BY <1>1, <1>3 DEF Events
  <2>2. Settled(e)
    BY <2>1 DEF Handled, Settled
  <2>3. Parked(e)'
    BY <1>3, <2>2 DEF Settled
  <2>4. QED BY <1>1, <1>3, <2>3 DEF Parked
<1>4. CASE row' = e /\ Parked(e)' /\ processed' \subseteq processed
  BY <1>1, <1>4 DEF Parked
<1>5. QED BY <1>2, <1>3, <1>4

-----------------------------------------------------------------------------
\* A record is handled, by the consumer's step or up to its crash.
LEMMA ConsumeStep ==
  ASSUME IInv, Consume \/ (Crash /\ More) PROVE IInv'
<1>1. /\ TypeOK /\ Published /\ Handled /\ StaleRowWasParked
      /\ More /\ source' = source /\ announced' = announced
      /\ UNCHANGED <<replayer, twice>>
  BY DEF IInv, Consume, SkipProcessed, Project, ParkGood, ParkBad, Crash, topics, bounds
<1>2. PICK e \in Events :
        e = Event /\ cursor + 1 \in 1..Len(source) /\ source[cursor + 1] = e
  BY <1>1, NextRecord
<1>3. \/ dlq' = dlq
      \/ dlq' = Append(dlq, e)
  BY <1>2 DEF Consume, SkipProcessed, Project, ParkGood, ParkBad, Crash, topics
<1>4. /\ \A x \in Events : Parked(x) => Parked(x)'
      /\ \A x \in Events : Parked(x)' => Parked(x) \/ x = e
      /\ dlq' \in Seq(Events) /\ Len(dlq') \in Nat /\ Len(dlq') >= Len(dlq)
      /\ \A i \in 1..Len(dlq') : dlq'[i] = e \/ (i \in 1..Len(dlq) /\ dlq'[i] = dlq[i])
  <2>1. CASE dlq' = dlq
    BY <1>1, <2>1 DEF Parked, TypeOK
  <2>2. CASE dlq' = Append(dlq, e)
    <3>1. Len(dlq) \in Nat
      BY <1>1 DEF TypeOK
    <3>2. QED BY <1>1, <1>2, <2>2, <3>1, DlqGrows
  <2>3. QED BY <1>3, <2>1, <2>2
<1>5. processed \subseteq processed' /\ processed' \subseteq processed \union {e}
  BY <1>2 DEF Consume, SkipProcessed, Project, ParkGood, ParkBad, Crash, model
<1>6. Published'
  <2>1. \A x : Has(x)' <=> Has(x)
    BY <1>1 DEF Has
  <2>2. Has(e)
    BY <1>2 DEF Has
  <2>3. ASSUME NEW i \in 1..Len(dlq)' PROVE Has(dlq[i])'
    BY <1>1, <1>4, <2>2 DEF Published, Has
  <2>4. QED BY <1>1, <2>1, <2>3 DEF Published
<1>7. /\ \A x \in Events : Settled(x) => Settled(x)'
      /\ \A x \in Events : Settled(x)' => Settled(x) \/ x = e
  BY <1>4, <1>5 DEF Settled
<1>8. \/ cursor' \in 0..cursor
      \/ cursor' = cursor + 1 /\ Settled(e)'
  <2>1. CASE SkipProcessed \/ Project
    BY <1>2, <2>1 DEF SkipProcessed, Project, Advance, Settled, model
  <2>2. CASE ParkGood \/ ParkBad
    <3>1. dlq' = Append(dlq, e) /\ cursor' = cursor + 1
      BY <1>2, <2>2 DEF ParkGood, ParkBad, Advance
    <3>2. Parked(e)'
      BY <1>1, <1>2, <3>1, DlqGrows
    <3>3. QED BY <3>1, <3>2 DEF Settled
  <2>3. CASE Crash
    BY <1>1, <2>3 DEF Crash, TypeOK
  <2>4. QED BY <2>1, <2>2, <2>3 DEF Consume
<1>9. Handled'
  BY <1>1, <1>2, <1>7, <1>8, HandledStep
<1>10. \/ row' = row /\ processed' \subseteq processed
       \/ row' = e /\ e \notin processed /\ processed' \subseteq processed \union {e}
       \/ row' = e /\ Parked(e)' /\ processed' \subseteq processed
  <2>1. ASSUME dlq' = Append(dlq, e) PROVE Parked(e)'
    BY <1>1, <1>2, <2>1, DlqGrows
  <2>2. CASE SkipProcessed \/ Project
    BY <1>2, <2>2 DEF SkipProcessed, Project, model
  <2>3. CASE ParkGood \/ ParkBad
    BY <1>2, <2>1, <2>3 DEF ParkGood, ParkBad
  <2>4. CASE Crash
    BY <1>1, <1>2, <2>1, <2>4 DEF Crash
  <2>5. QED BY <2>2, <2>3, <2>4 DEF Consume
<1>11. StaleRowWasParked'
  BY <1>1, <1>2, <1>4, <1>10, RowStep
<1>12. TypeOK'
  <2>1. /\ cursor' \in Nat /\ cursor' <= Len(source) /\ committed' = committed
        /\ committed <= cursor' /\ committed \in Nat /\ Len(source) \in Nat
    BY <1>1, <1>2 DEF TypeOK, Consume, SkipProcessed, Project, ParkGood, ParkBad, Crash, Advance
  <2>2. row' \in 0..NEvents /\ processed' \subseteq Events
    <3>1. row \in 0..NEvents /\ e \in 0..NEvents /\ row' \in {row, e}
      BY <1>1, <1>2, <1>10, BoundsAssumption DEF TypeOK, Events
    <3>2. processed' \subseteq Events
      BY <1>1, <1>2, <1>5 DEF TypeOK
    <3>3. QED BY <3>1, <3>2
  <2>3. faults' \in 0..MaxFaults
    <3>1. faults' = faults \/ (faults > 0 /\ faults' = faults - 1)
      BY <1>2 DEF Consume, SkipProcessed, Project, ParkGood, ParkBad, Crash, Fault, bounds
    <3>2. faults \in 0..MaxFaults /\ MaxFaults \in Nat
      BY <1>1, BoundsAssumption DEF TypeOK
    <3>3. QED BY <3>1, <3>2
  <2>4. committed' \in 0..cursor' /\ cursor' \in 0..Len(source')
    BY <1>1, <2>1
  <2>5. replayCommitted' \in 0..replayCursor' /\ replayCursor' \in 0..Len(dlq')
    <3>1. replayCommitted \in 0..replayCursor /\ replayCursor \in 0..Len(dlq) /\ Len(dlq) \in Nat
      BY <1>1 DEF TypeOK
    <3>2. replayCommitted' = replayCommitted /\ replayCursor' = replayCursor
      BY <1>1 DEF replayer
    <3>3. QED BY <1>4, <3>1, <3>2
  <2>6. /\ source' \in Seq(Events) /\ dlq' \in Seq(Events)
        /\ announced' \in 0..NEvents /\ twice' \in 0..MaxTwice
    BY <1>1, <1>4 DEF TypeOK
  <2>7. QED BY <2>2, <2>3, <2>4, <2>5, <2>6 DEF TypeOK
<1>13. QED BY <1>6, <1>9, <1>11, <1>12 DEF IInv

\* The consumer dies with no record left to handle.
LEMMA IdleCrash ==
  ASSUME IInv, Crash, ~More PROVE IInv'
<1>1. /\ UNCHANGED <<topics, model, replayer, announced, twice, committed>>
      /\ cursor' = committed /\ faults > 0 /\ faults' = faults - 1
  BY DEF Crash, Fault, topics, model
<1>2. /\ cursor \in Nat /\ cursor' \in 0..cursor /\ cursor' \in 0..Len(source)
      /\ committed \in 0..cursor' /\ faults' \in 0..MaxFaults
  BY <1>1, BoundsAssumption DEF IInv, TypeOK
<1>3. TypeOK' /\ StaleRowWasParked'
  BY <1>1, <1>2
     DEF IInv, TypeOK, StaleRowWasParked, Parked, topics, model, replayer
<1>4. Published'
  BY <1>1 DEF IInv, Published, Has, topics
<1>5. Handled'
  BY <1>1, <1>2 DEF IInv, Handled, Settled, Parked, topics, model
<1>6. QED BY <1>3, <1>4, <1>5 DEF IInv

\* A step that appends an event to the source topic, behind those it supersedes.
LEMMA AppendStep ==
  ASSUME IInv, NEW e \in Events, \A f \in Events : f < e => Has(f),
         source' = Append(source, e), UNCHANGED <<dlq, model, consumer>>,
         announced' = announced \/ (announced' = announced + 1 /\ e = announced + 1),
         announced' \in 0..NEvents, twice' \in 0..MaxTwice, faults' \in 0..MaxFaults,
         replayCommitted' \in 0..replayCursor', replayCursor' \in 0..Len(dlq)
  PROVE  IInv'
<1>1. /\ Published' /\ Len(source') = Len(source) + 1
      /\ \A i \in 1..Len(source) : source'[i] = source[i]
  BY SourceGrows DEF IInv
<1>2. TypeOK'
  <2>1. source' \in Seq(Events) /\ dlq' \in Seq(Events)
    BY DEF IInv, TypeOK
  <2>2. /\ row' \in 0..NEvents /\ processed' \subseteq Events
        /\ committed' \in 0..cursor' /\ cursor' = cursor
    BY DEF IInv, TypeOK, model, consumer
  <2>3. cursor \in 0..Len(source) /\ Len(source) \in Nat /\ Len(dlq') = Len(dlq)
    BY DEF IInv, TypeOK
  <2>4. cursor' \in 0..Len(source')
    BY <1>1, <2>2, <2>3
  <2>5. announced' \in 0..NEvents
    OBVIOUS
  <2>6. QED BY <2>1, <2>2, <2>3, <2>4, <2>5 DEF TypeOK
<1>3. \A x : (Parked(x)' <=> Parked(x)) /\ (Settled(x)' <=> Settled(x))
  BY DEF Settled, Parked, model
<1>4. Handled'
  <2>1. ASSUME NEW i \in 1..cursor' PROVE Settled(source[i])'
    <3>1. i \in 1..cursor /\ i \in 1..Len(source)
      BY <2>1 DEF IInv, TypeOK, consumer
    <3>2. PICK x : x = source[i] /\ Settled(x)
      BY <3>1 DEF IInv, Handled
    <3>3. Settled(x)' /\ source'[i] = x
      BY <1>1, <1>3, <3>1, <3>2
    <3>4. QED BY <3>3 DEF Settled, Parked
  <2>2. QED BY <1>3, <2>1 DEF IInv, Handled
<1>5. StaleRowWasParked'
  BY DEF IInv, StaleRowWasParked, Parked, model
<1>6. QED BY <1>1, <1>2, <1>4, <1>5 DEF IInv

\* Steps that append nothing and handle nothing.
LEMMA IdleStep ==
  ASSUME IInv, UNCHANGED <<topics, model, cursor, announced, twice>>,
         committed' \in 0..cursor, faults' \in 0..MaxFaults,
         replayCommitted' \in 0..replayCursor', replayCursor' \in 0..Len(dlq)
  PROVE  IInv'
<1>1. TypeOK' /\ StaleRowWasParked'
  BY DEF IInv, TypeOK, StaleRowWasParked, Parked, topics, model
<1>2. Published' /\ Handled'
  BY DEF IInv, Published, Has, Handled, Settled, Parked, topics, model
<1>3. QED BY <1>1, <1>2 DEF IInv

\* The registry publishes.
LEMMA PublishStep ==
  ASSUME IInv, PublishNext \/ PublishAgain PROVE IInv'
<1>1. /\ announced \in 0..NEvents /\ twice \in 0..MaxTwice /\ faults \in 0..MaxFaults
      /\ NEvents \in Nat /\ MaxTwice \in Nat /\ UNCHANGED <<dlq, model, consumer>>
      /\ replayCommitted' \in 0..replayCursor' /\ replayCursor' \in 0..Len(dlq)
  BY BoundsAssumption DEF IInv, TypeOK, PublishNext, PublishAgain, replayer
<1>2. ASSUME NEW e \in Events, e <= announced + 1 PROVE \A f \in Events : f < e => Has(f)
  BY <1>1, <1>2 DEF IInv, Published, Events
<1>3. CASE PublishNext
  <2>1. announced + 1 \in Events /\ announced' = announced + 1 /\ announced' \in 0..NEvents
    BY <1>1, <1>3 DEF PublishNext, Events
  <2>2. twice' \in 0..MaxTwice /\ faults' \in 0..MaxFaults /\ source' = Append(source, announced + 1)
    BY <1>1, <1>3 DEF PublishNext
  <2>3. \A f \in Events : f < announced + 1 => Has(f)
    BY <1>1, <1>2, <2>1
  <2>4. QED BY <1>1, <2>1, <2>2, <2>3, AppendStep
<1>4. CASE PublishAgain
  <2>1. PICK e \in 1..announced : source' = Append(source, e)
    BY <1>4 DEF PublishAgain
  <2>2. e \in Events /\ e <= announced + 1
    BY <1>1, <2>1 DEF Events
  <2>3. twice' \in 0..MaxTwice /\ faults' \in 0..MaxFaults /\ announced' = announced
    BY <1>1, <1>4 DEF PublishAgain
  <2>4. QED BY <1>1, <1>2, <2>1, <2>2, <2>3, AppendStep
<1>5. QED BY <1>3, <1>4

\* What is parked was published behind all that it supersedes.
LEMMA ReplayedIsBehind ==
  ASSUME IInv, replayCursor < Len(dlq)
  PROVE  Message \in Events /\ \A f \in Events : f < Message => Has(f)
<1>1. replayCursor + 1 \in 1..Len(dlq) /\ Message = dlq[replayCursor + 1]
  BY DEF IInv, TypeOK, Message
<1>2. PICK i \in 1..Len(source) : source[i] = Message
  BY <1>1 DEF IInv, Published, Has
<1>3. ASSUME NEW f \in Events, f < Message PROVE Has(f)
  <2>1. PICK j \in 1..i - 1 : source[j] = f
    BY <1>2, <1>3 DEF IInv, Published
  <2>2. j \in 1..Len(source)
    BY <1>2 DEF IInv, TypeOK
  <2>3. QED BY <2>1, <2>2 DEF Has
<1>4. QED BY <1>1, <1>3 DEF IInv, TypeOK

\* The replayer.
LEMMA ReplayStep ==
  ASSUME IInv, Replay \/ SkipFiltered \/ ReplayCommit \/ ReplayCrash PROVE IInv'
<1>1. /\ announced \in 0..NEvents /\ twice \in 0..MaxTwice /\ faults \in 0..MaxFaults
      /\ MaxFaults \in Nat /\ Len(dlq) \in Nat /\ committed \in 0..cursor
      /\ replayCommitted \in 0..replayCursor /\ replayCursor \in 0..Len(dlq)
  BY BoundsAssumption DEF IInv, TypeOK
<1>2. /\ UNCHANGED <<dlq, model, consumer, announced, twice>>
      /\ faults' \in 0..MaxFaults
      /\ replayCommitted' \in 0..replayCursor' /\ replayCursor' \in 0..Len(dlq)
  <2>1. CASE Replay \/ SkipFiltered
    BY <1>1, <2>1 DEF Replay, SkipFiltered, topics, bounds
  <2>2. CASE ReplayCommit
    BY <1>1, <2>2 DEF ReplayCommit, topics, bounds
  <2>3. CASE ReplayCrash
    BY <1>1, <2>3 DEF ReplayCrash, Fault
  <2>4. QED BY <2>1, <2>2, <2>3
<1>3. source' = source \/ (replayCursor < Len(dlq) /\ source' = Append(source, Message))
  BY DEF Replay, SkipFiltered, ReplayCommit, ReplayCrash, topics
<1>4. CASE source' = source
  BY <1>1, <1>2, <1>4, IdleStep DEF topics, consumer
<1>5. CASE replayCursor < Len(dlq) /\ source' = Append(source, Message)
  BY <1>1, <1>2, <1>5, ReplayedIsBehind, AppendStep
<1>6. QED BY <1>3, <1>4, <1>5

LEMMA NextIInv == IInv /\ [Next]_vars => IInv'
<1> SUFFICES ASSUME IInv, [Next]_vars PROVE IInv'
  OBVIOUS
<1>1. CASE Commit
  BY <1>1, IdleStep DEF Commit, IInv, TypeOK, topics, model, replayer, bounds
<1>2. CASE UNCHANGED vars
  BY <1>2, IdleStep DEF vars, IInv, TypeOK, consumer, replayer, bounds
<1>3. QED BY <1>1, <1>2, ConsumeStep, IdleCrash, PublishStep, ReplayStep DEF Next

LEMMA Invariance == Spec => []IInv
BY InitIInv, NextIInv, PTL DEF Spec

-----------------------------------------------------------------------------
\* The variables keep their kinds and the positions their order.
THEOREM TypeCorrect == Spec => []TypeOK
<1>1. IInv => TypeOK
  BY DEF IInv
<1>2. QED BY <1>1, Invariance, PTL

\* The read model falls behind what is processed only by way of the DLQ, however
\* often events are published, delivered and replayed.
THEOREM OnlyTheDLQTakesBack == Spec => []StaleRowWasParked
<1>1. IInv => StaleRowWasParked
  BY DEF IInv
<1>2. QED BY <1>1, Invariance, PTL

\* No way in which a processed event comes back writes it again.
THEOREM ProcessedOnce == Spec => ProjectedOnce
<1>1. [Next]_vars => [\A e \in processed : Kind[e] = "good" /\ row' = e => row = e]_vars
  <2> SUFFICES ASSUME Next, NEW e \in processed, Kind[e] = "good", row' = e PROVE row = e
    OBVIOUS
  <2>1. CASE Consume
    BY <2>1 DEF Consume, SkipProcessed, Project, ParkGood, ParkBad, model
  <2>2. CASE Crash
    BY <2>2 DEF Crash
  <2>3. CASE ~Consume /\ ~Crash
    BY <2>3 DEF Next, PublishNext, PublishAgain, Commit, Replay, SkipFiltered, ReplayCommit,
                ReplayCrash, model
  <2>4. QED BY <2>1, <2>2, <2>3
<1>2. QED BY <1>1, PTL DEF Spec, ProjectedOnce
=============================================================================

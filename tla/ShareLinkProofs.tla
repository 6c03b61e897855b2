--------------------------- MODULE ShareLinkProofs ---------------------------
(***************************************************************************)
(* What ShareLink guarantees for every number of requests, every projection   *)
(* and every bound: no view is lost, none is granted past the limit, each one  *)
(* is shown or accounted for, and only a projection takes a link out of        *)
(* "revoked".                                                                *)
(*                                                                         *)
(* The argument is the row lock: the request that is about to write holds the *)
(* lock, and what it read under the lock is still the committed row.          *)
(***************************************************************************)
EXTENDS ShareLink, FiniteSetTheorems, TLAPS

\* The parts of TypeOK an update of the row depends on.
RowInv ==
  /\ row \in Rows \union {NoRow}
  /\ lock \in Requests \union {NoOne}
  /\ pc \in [Requests -> {"idle", "select", "commit", "find"}]
  /\ now \in [Requests -> 0..MaxTime]
  /\ seen \in [Requests -> Rows \union {NoRow}]
  /\ clock \in 0..MaxTime

CountInv ==
  /\ events \subseteq Payloads /\ diploma \in BOOLEAN
  /\ base \in Nat /\ granted \in Nat /\ views \in Nat /\ allowed \in Nat \union {NoLimit}
  /\ shown \in Nat /\ missed \in Nat /\ early \in Nat
  /\ requests \in 0..MaxRequests /\ upserts \in 0..MaxUpserts /\ faults \in 0..MaxFaults

\* Who is about to write holds the lock and has read the current row.
Locked ==
  \A q \in Requests : pc[q] = "commit" => lock = q /\ row \in Rows /\ seen[q] = row

\* What the row still lets through fits into what the projections opened.
Budgeted ==
  /\ row = NoRow /\ allowed # NoLimit => views <= allowed
  /\ row # NoRow /\ allowed # NoLimit =>
       Opened(row) # NoLimit /\ views + Opened(row) <= allowed

\* The limit of the current row, the first part of ViewsWithinLimit.
RowLimit == row # NoRow /\ row.max # NoLimit /\ base <= row.max => base + granted <= row.max

IInv == RowInv /\ CountInv /\ Locked /\ EveryViewIsCounted /\ RowLimit /\ Budgeted

-----------------------------------------------------------------------------
\* Without a row nothing is counted, locked or limited.
LEMMA InitIInv == Init => IInv
<1> SUFFICES ASSUME Init PROVE IInv
  OBVIOUS
<1>1. /\ 0 \in 0..MaxTime /\ MaxRequests \in 0..MaxRequests
      /\ MaxUpserts \in 0..MaxUpserts /\ MaxFaults \in 0..MaxFaults
  BY BoundsAssumption
<1>2. RowInv
  BY <1>1 DEF Init, RowInv
<1>3. CountInv
  BY <1>1 DEF Init, CountInv
<1>4. Locked /\ EveryViewIsCounted /\ RowLimit /\ Budgeted
  BY NothingAssumption DEF Init, Locked, EveryViewIsCounted, RowLimit, Budgeted
<1>5. QED BY <1>2, <1>3, <1>4 DEF IInv

\* What Resolve writes: a row, with one more view exactly if it was granted.
LEMMA ResolvedRow ==
  ASSUME NEW q \in Requests, seen[q] \in Rows
  PROVE  /\ Resolved(q) \in Rows
         /\ Resolved(q).max = seen[q].max
         /\ Granted(q) => Resolved(q).used = seen[q].used + 1
         /\ ~Granted(q) => Resolved(q).used = seen[q].used
         /\ Granted(q) /\ seen[q].max # NoLimit => seen[q].used + 1 <= seen[q].max
         /\ seen[q].status = "revoked" => Resolved(q).status = "revoked" /\ ~Granted(q)
<1> DEFINE x == seen[q]
<1>1. /\ x \in Rows /\ x.used \in Nat /\ x.max \in Nat \union {NoLimit} /\ x.status \in States
      /\ x = [status |-> x.status, used |-> x.used, max |-> x.max, expires |-> x.expires]
      /\ x.expires \in Nat
  BY DEF Rows
<1>2. CASE x.status # "active"
  BY <1>1, <1>2 DEF Resolved, Granted
<1>3. CASE x.status = "active" /\ Expiring(q)
  <2>1. Resolved(q) = [x EXCEPT !.status = "expired"]
    BY <1>3 DEF Resolved
  <2>2. QED BY <1>1, <1>3, <2>1 DEF Granted, Rows, States
<1>4. CASE x.status = "active" /\ ~Expiring(q)
  <2> DEFINE s == IF ViewLimitReached(x, x.used + 1) THEN "expired" ELSE "active"
  <2>1. Resolved(q) = [x EXCEPT !.used = @ + 1, !.status = s]
    BY <1>4 DEF Resolved
  <2>2. Resolved(q) = [status |-> s, used |-> x.used + 1, max |-> x.max, expires |-> x.expires]
    BY <1>1, <2>1
  <2>3. x.max # NoLimit => x.used + 1 <= x.max
    BY <1>1, <1>4 DEF Expiring, ViewLimitReached
  <2>4. s \in States
    BY DEF States
  <2>5. QED BY <1>1, <1>4, <2>2, <2>3, <2>4 DEF Granted, Rows
<1>5. QED BY <1>1, <1>2, <1>3, <1>4

\* The views a row opens are a number or unlimited.
LEMMA OpenedKind ==
  ASSUME NEW x \in Rows PROVE Opened(x) \in Nat \union {NoLimit}
BY DEF Opened, Rows

\* Each view Resolve grants is taken from what the row lets through, and nothing
\* Resolve writes lets more through.
LEMMA ResolvedOpens ==
  ASSUME NEW q \in Requests, seen[q] \in Rows, Opened(seen[q]) # NoLimit
  PROVE  /\ Opened(Resolved(q)) # NoLimit
         /\ Granted(q) => Opened(Resolved(q)) + 1 <= Opened(seen[q])
         /\ ~Granted(q) => Opened(Resolved(q)) <= Opened(seen[q])
<1> DEFINE x == seen[q]
<1>1. /\ x \in Rows /\ x.used \in Nat /\ x.max \in Nat \union {NoLimit} /\ x.status \in States
      /\ x = [status |-> x.status, used |-> x.used, max |-> x.max, expires |-> x.expires]
      /\ x.expires \in Nat
  BY DEF Rows
<1>2. CASE x.status # "active"
  BY <1>1, <1>2, NothingAssumption DEF Resolved, Granted, Opened
<1>3. CASE x.status = "active" /\ Expiring(q)
  <2>1. Resolved(q) = [x EXCEPT !.status = "expired"]
    BY <1>3 DEF Resolved
  <2>2. Opened(Resolved(q)) = 0
    BY <1>1, <2>1 DEF Opened
  <2>3. Opened(x) \in Nat
    BY <1>1, OpenedKind
  <2>4. QED BY <1>3, <2>2, <2>3, NothingAssumption DEF Granted
<1>4. CASE x.status = "active" /\ ~Expiring(q)
  <2> DEFINE s == IF ViewLimitReached(x, x.used + 1) THEN "expired" ELSE "active"
  <2>1. Resolved(q) = [x EXCEPT !.used = @ + 1, !.status = s]
    BY <1>4 DEF Resolved
  <2>2. Resolved(q) = [status |-> s, used |-> x.used + 1, max |-> x.max, expires |-> x.expires]
    BY <1>1, <2>1
  <2>3. x.max \in Nat /\ x.used < x.max /\ Opened(x) = x.max - x.used
    BY <1>1, <1>4 DEF Opened, Expiring, ViewLimitReached
  <2>4. CASE x.used + 1 < x.max
    BY <1>1, <2>2, <2>3, <2>4, NothingAssumption DEF Opened, ViewLimitReached
  <2>5. CASE x.used + 1 = x.max
    BY <1>1, <2>2, <2>3, <2>5, NothingAssumption DEF Opened, ViewLimitReached
  <2>6. Granted(q)
    BY <1>4 DEF Granted
  <2>7. QED BY <1>1, <2>3, <2>4, <2>5, <2>6
<1>5. QED BY <1>1, <1>2, <1>3, <1>4

\* Done leaves a request that is not about to write, and the others as they were.
LEMMA DoneKeepsKinds ==
  ASSUME RowInv, NEW q \in Requests, Done(q)
  PROVE  /\ pc' \in [Requests -> {"idle", "select", "commit", "find"}]
         /\ now' \in [Requests -> 0..MaxTime]
         /\ seen' \in [Requests -> Rows \union {NoRow}]
         /\ pc'[q] = "idle"
         /\ \A r \in Requests \ {q} : pc'[r] = pc[r] /\ seen'[r] = seen[r]
BY BoundsAssumption DEF RowInv, Done

\* A failed call never raises the fault budget.
LEMMA FailKeepsBudget ==
  ASSUME CountInv, Fail PROVE faults' \in 0..MaxFaults
BY BoundsAssumption DEF CountInv, Fail

-----------------------------------------------------------------------------
\* A transaction that takes effect keeps the counts.
LEMMA ApplyStep ==
  ASSUME IInv, NEW q \in Requests, pc[q] = "commit", Apply(q),
         faults' \in 0..MaxFaults,
         pc' \in [Requests -> {"idle", "select", "commit", "find"}],
         now' \in [Requests -> 0..MaxTime],
         seen' \in [Requests -> Rows \union {NoRow}],
         pc'[q] # "commit",
         \A r \in Requests \ {q} : pc'[r] = pc[r]
  PROVE  IInv'
<1>1. lock = q /\ seen[q] = row /\ seen[q] \in Rows
  BY DEF IInv, Locked
<1>2. row # NoRow
  BY <1>1, NothingAssumption
<1>3. /\ early' = early \/ early' = early + 1
      /\ row' = Resolved(q) /\ lock' = NoOne
      /\ clock' = clock /\ base' = base /\ shown' = shown /\ missed' = missed
      /\ events' = events /\ diploma' = diploma /\ allowed' = allowed
      /\ requests' = requests /\ upserts' = upserts
      /\ Granted(q) => granted' = granted + 1 /\ views' = views + 1
      /\ ~Granted(q) => granted' = granted /\ views' = views
  BY DEF Apply, answers
<1>4. row' \in Rows /\ row'.max = row.max
  BY <1>1, <1>3, ResolvedRow
<1>5. row.used \in Nat /\ row.max \in Nat \union {NoLimit}
  BY <1>1 DEF Rows
<1>6. RowInv'
  BY <1>3, <1>4 DEF IInv, RowInv
<1>7. CountInv'
  BY <1>3 DEF IInv, CountInv
<1>8. Locked'
  BY <1>1, NothingAssumption DEF IInv, Locked
<1>9. EveryViewIsCounted'
  BY <1>1, <1>2, <1>3, <1>4, <1>5, ResolvedRow DEF IInv, CountInv, EveryViewIsCounted
<1>10. RowLimit'
  <2>1. CASE Granted(q)
    BY <1>1, <1>2, <1>3, <1>4, <1>5, <2>1, ResolvedRow
       DEF IInv, CountInv, EveryViewIsCounted, RowLimit
  <2>2. CASE ~Granted(q)
    BY <1>1, <1>2, <1>3, <1>4, <1>5, <2>2 DEF IInv, RowLimit
  <2>3. QED BY <2>1, <2>2
<1>11. Budgeted'
  <2>1. CASE allowed = NoLimit
    BY <1>3, <2>1 DEF Budgeted
  <2>2. CASE allowed # NoLimit
    <3>1. Opened(row) # NoLimit /\ views + Opened(row) <= allowed
      BY <1>2, <2>2 DEF IInv, Budgeted
    <3>2. /\ Opened(row) \in Nat /\ Opened(row') \in Nat
          /\ Opened(row') # NoLimit
          /\ Granted(q) => Opened(row') + 1 <= Opened(row)
          /\ ~Granted(q) => Opened(row') <= Opened(row)
      BY <1>1, <1>3, <1>4, <3>1, OpenedKind, ResolvedOpens
    <3>3. views \in Nat /\ allowed \in Nat
      BY <2>2 DEF IInv, CountInv
    <3>4. QED BY <1>3, <1>4, <3>1, <3>2, <3>3, NothingAssumption DEF Budgeted
  <2>3. QED BY <2>1, <2>2
<1>12. QED BY <1>6, <1>7, <1>8, <1>9, <1>10, <1>11 DEF IInv

\* The end of the transaction keeps IInv, whether its answer arrives or is lost.
LEMMA CommitStep ==
  ASSUME IInv, NEW q \in Requests, Commit(q) \/ CommitLost(q) PROVE IInv'
<1>1. pc[q] = "commit" /\ Apply(q)
  BY DEF Commit, CommitLost
<1>2. faults' \in 0..MaxFaults
  BY FailKeepsBudget DEF Commit, CommitLost, IInv, CountInv
<1>3. CASE Done(q)
  BY <1>1, <1>2, <1>3, DoneKeepsKinds, ApplyStep DEF IInv
<1>4. CASE pc' = [pc EXCEPT ![q] = "find"] /\ UNCHANGED <<now, seen>>
  BY <1>1, <1>2, <1>4, ApplyStep DEF IInv, RowInv
<1>5. QED BY <1>3, <1>4 DEF Commit, CommitLost

\* SELECT ... FOR UPDATE.
LEMMA SelectStep ==
  ASSUME IInv, NEW q \in Requests, Select(q) PROVE IInv'
<1>1. /\ pc[q] = "select" /\ lock = NoOne
      /\ UNCHANGED <<row, events, diploma, clock, history, requests, upserts, faults>>
  BY DEF Select
<1>2. \A r \in Requests : pc[r] # "commit"
  BY <1>1, NothingAssumption DEF IInv, Locked
<1>3. CountInv' /\ EveryViewIsCounted' /\ RowLimit' /\ Budgeted'
  BY <1>1 DEF IInv, CountInv, history, answers, EveryViewIsCounted, RowLimit, Budgeted
<1>4. CASE row = NoRow
  <2>1. Done(q) /\ lock' = lock
    BY <1>4 DEF Select
  <2>2. RowInv'
    BY <1>1, <2>1, DoneKeepsKinds DEF IInv, RowInv
  <2>3. Locked'
    BY <1>2, <2>1, DoneKeepsKinds DEF IInv, Locked
  <2>4. QED BY <1>3, <2>2, <2>3 DEF IInv
<1>5. CASE row # NoRow
  <2>1. /\ lock' = q /\ now' = now
        /\ pc' = [pc EXCEPT ![q] = "commit"] /\ seen' = [seen EXCEPT ![q] = row]
    BY <1>5 DEF Select
  <2>2. RowInv'
    BY <1>1, <2>1 DEF IInv, RowInv
  <2>3. Locked'
    BY <1>1, <1>2, <1>5, <2>1 DEF IInv, RowInv, Locked
  <2>4. QED BY <1>3, <2>2, <2>3 DEF IInv
<1>6. QED BY <1>4, <1>5

\* A step of one request that writes nothing.
LEMMA QuietStep ==
  ASSUME IInv, NEW q \in Requests,
         Arrive(q) \/ Rollback(q) \/ Show(q) \/ FindFails(q)
  PROVE  IInv'
<1>1. /\ UNCHANGED <<row, events, diploma, clock, base, granted, views, allowed, early, upserts>>
      /\ shown' \in Nat /\ missed' \in Nat /\ requests' \in 0..MaxRequests
  BY BoundsAssumption
     DEF Arrive, Rollback, Show, FindFails, Fail, history, answers, IInv, CountInv
<1>2. faults' \in 0..MaxFaults
  BY FailKeepsBudget DEF Arrive, Rollback, Show, FindFails, IInv, CountInv
<1>3. CountInv' /\ EveryViewIsCounted' /\ RowLimit' /\ Budgeted'
  BY <1>1, <1>2 DEF IInv, CountInv, EveryViewIsCounted, RowLimit, Budgeted
<1>4. CASE Arrive(q)
  BY <1>1, <1>3, <1>4 DEF IInv, RowInv, Locked, Arrive
<1>5. CASE Rollback(q)
  <2>1. Done(q) /\ lock' = IF lock = q THEN NoOne ELSE lock
    BY <1>5 DEF Rollback
  <2>2. RowInv'
    BY <1>1, <2>1, DoneKeepsKinds DEF IInv, RowInv
  <2>3. Locked'
    BY <1>1, <2>1, DoneKeepsKinds DEF IInv, Locked
  <2>4. QED BY <1>3, <2>2, <2>3 DEF IInv
<1>6. CASE Show(q) \/ FindFails(q)
  <2>1. Done(q) /\ lock' = lock
    BY <1>6 DEF Show, FindFails
  <2>2. RowInv'
    BY <1>1, <2>1, DoneKeepsKinds DEF IInv, RowInv
  <2>3. Locked'
    BY <1>1, <2>1, DoneKeepsKinds DEF IInv, Locked
  <2>4. QED BY <1>3, <2>2, <2>3 DEF IInv
<1>7. QED BY <1>4, <1>5, <1>6

\* A projection overwrites the row while nobody is about to write it.
LEMMA OverwriteStep ==
  ASSUME IInv, NEW x \in Payloads, Overwrite(x),
         events' \subseteq Payloads, upserts' \in 0..MaxUpserts, faults' \in 0..MaxFaults
  PROVE  IInv'
<1>1. /\ lock = NoOne /\ row' = x /\ base' = x.used /\ granted' = 0
      /\ allowed' = IF NoLimit \in {allowed, Opened(x)} THEN NoLimit ELSE allowed + Opened(x)
      /\ UNCHANGED <<diploma, lock, pc, now, seen, clock, views, shown, missed, early, requests>>
  BY DEF Overwrite, request, answers
<1>2. x \in Rows /\ x.used \in Nat /\ x.max \in Nat \union {NoLimit}
  BY PayloadsAssumption DEF Rows
<1>3. \A q \in Requests : pc[q] # "commit"
  BY <1>1, NothingAssumption DEF IInv, Locked
<1>4. RowInv'
  BY <1>1, <1>2 DEF IInv, RowInv
<1>5. allowed' \in Nat \union {NoLimit} /\ Opened(x) \in Nat \union {NoLimit}
  BY <1>1, <1>2, OpenedKind DEF IInv, CountInv
<1>6. CountInv'
  BY <1>1, <1>2, <1>5 DEF IInv, CountInv
<1>7. Locked'
  BY <1>1, <1>3 DEF Locked
<1>8. EveryViewIsCounted' /\ RowLimit'
  BY <1>1, <1>2 DEF EveryViewIsCounted, RowLimit
<1>9. Budgeted'
  <2>1. CASE NoLimit \in {allowed, Opened(x)}
    BY <1>1, <2>1 DEF Budgeted
  <2>2. CASE allowed # NoLimit /\ Opened(x) # NoLimit
    <3>1. views \in Nat /\ allowed \in Nat /\ Opened(x) \in Nat
      BY <1>5, <2>2 DEF IInv, CountInv
    <3>2. views <= allowed
      <4>1. CASE row = NoRow
        BY <2>2, <4>1 DEF IInv, Budgeted
      <4>2. CASE row # NoRow
        BY <2>2, <3>1, <4>2, OpenedKind DEF IInv, RowInv, Budgeted
      <4>3. QED BY <4>1, <4>2
    <3>3. row' = x /\ views' = views /\ allowed' = allowed + Opened(x) /\ x # NoRow
      BY <1>1, <1>2, <2>2, NothingAssumption
    <3>4. QED BY <2>2, <3>1, <3>2, <3>3 DEF Budgeted
  <2>3. QED BY <2>1, <2>2
<1>10. QED BY <1>4, <1>6, <1>7, <1>8, <1>9 DEF IInv

\* An event is projected, for the first time or again.
LEMMA UpsertStep ==
  ASSUME IInv, NEW x \in Payloads, Upsert(x) \/ UpsertAgain(x) PROVE IInv'
<1>1. Overwrite(x)
  BY DEF Upsert, UpsertAgain
<1>2. /\ events' \subseteq Payloads /\ upserts' \in 0..MaxUpserts /\ faults' \in 0..MaxFaults
  BY BoundsAssumption, FailKeepsBudget DEF Upsert, UpsertAgain, IInv, CountInv
<1>3. QED BY <1>1, <1>2, OverwriteStep

\* No step of a request, of the projector or of the clock breaks IInv.
LEMMA NextIInv == IInv /\ [Next]_vars => IInv'
<1> SUFFICES ASSUME IInv, [Next]_vars PROVE IInv'
  OBVIOUS
<1>1. CASE UNCHANGED vars
  BY <1>1 DEF vars, request, history, answers, IInv, RowInv, CountInv, Locked,
              EveryViewIsCounted, RowLimit, Budgeted
<1>2. CASE Tick
  BY <1>2, BoundsAssumption DEF Tick, request, history, answers, IInv, RowInv, CountInv, Locked,
              EveryViewIsCounted, RowLimit, Budgeted
<1>3. CASE ProjectDiploma
  BY <1>3 DEF ProjectDiploma, request, history, answers, IInv, RowInv, CountInv, Locked,
              EveryViewIsCounted, RowLimit, Budgeted
<1>4. ASSUME NEW q \in Requests,
             Arrive(q) \/ Serve(q) \/ CommitLost(q) \/ Rollback(q) \/ FindFails(q)
      PROVE  IInv'
  BY <1>4, QuietStep, SelectStep, CommitStep DEF Serve
<1>5. QED BY <1>1, <1>2, <1>3, <1>4, UpsertStep DEF Next, Rest

\* IInv holds in every reachable state.
LEMMA Invariance == Spec => []IInv
BY InitIInv, NextIInv, PTL DEF Spec

-----------------------------------------------------------------------------
\* The variables keep their kinds (ShareLink's TypeOK).
THEOREM TypeCorrect == Spec => []TypeOK
<1>1. IInv => TypeOK
  BY DEF IInv, RowInv, CountInv, TypeOK
<1>2. QED BY <1>1, Invariance, PTL

\* Concurrent calls of Resolve lose no view: used_views is the registry's count
\* plus every view granted since.
THEOREM NoViewIsLost == Spec => []EveryViewIsCounted
<1>1. IInv => EveryViewIsCounted
  BY DEF IInv
<1>2. QED BY <1>1, Invariance, PTL

\* However many requests resolve a link at once, max_views is not exceeded, nor
\* the sum of what its projections opened.
THEOREM LimitIsKept == Spec => []ViewsWithinLimit
<1>1. IInv => ViewsWithinLimit
  BY OpenedKind DEF IInv, RowInv, CountInv, RowLimit, Budgeted, ViewsWithinLimit
<1>2. QED BY <1>1, Invariance, PTL

\* Only a projection takes a link out of "revoked": Resolve never does.
THEOREM RevocationIsFinal == Spec => RevocationSticks
<1> DEFINE Kept == row # NoRow /\ row.status = "revoked" =>
                     row'.status = "revoked" \/ \E x \in Payloads : Overwrite(x)
<1>1. ASSUME IInv, [Next]_vars, row # NoRow, row.status = "revoked",
             ~ \E x \in Payloads : Overwrite(x)
      PROVE  row'.status = "revoked"
  <2>1. CASE row' = row
    BY <1>1, <2>1
  <2>2. ASSUME NEW q \in Requests, pc[q] = "commit", Apply(q)
        PROVE  row'.status = "revoked"
    <3>1. seen[q] = row /\ seen[q] \in Rows
      BY <1>1, <2>2 DEF IInv, Locked
    <3>2. QED BY <1>1, <2>2, <3>1, ResolvedRow DEF Apply
  <2>3. QED BY <1>1, <2>1, <2>2
       DEF Next, vars, Serve, Arrive, Select, Commit, Show, CommitLost,
           Rollback, FindFails, Upsert, UpsertAgain, ProjectDiploma, Tick, Rest
<1>2. IInv /\ [Next]_vars => [Kept]_vars
  BY <1>1
<1>3. QED BY <1>2, Invariance, PTL DEF Spec, RevocationSticks

-----------------------------------------------------------------------------
(***************************************************************************)
(* Every counted view is shown, missed or lost to a failure.                *)
(***************************************************************************)

\* Until the diploma is there, every view is an early one.
EarlyInv == missed <= early /\ (~diploma => early = views)

Shown == EarlyInv /\ CountedIsShown

\* How the set of requests that look for the diploma changes.
LEMMA FindingChanges ==
  ASSUME NEW q \in Requests, pc \in [Requests -> {"idle", "select", "commit", "find"}],
         NEW s, pc' = [pc EXCEPT ![q] = s]
  PROVE  /\ Cardinality(Finding) \in Nat /\ Cardinality(Finding') \in Nat
         /\ pc[q] # "find" /\ s # "find" => Cardinality(Finding') = Cardinality(Finding)
         /\ pc[q] # "find" /\ s = "find" => Cardinality(Finding') = Cardinality(Finding) + 1
         /\ pc[q] = "find" /\ s # "find" => Cardinality(Finding') = Cardinality(Finding) - 1
<1>1. IsFiniteSet(Finding) /\ IsFiniteSet(Finding')
  BY RequestsAssumption, FS_Subset DEF Finding
<1>2. Cardinality(Finding) \in Nat /\ Cardinality(Finding') \in Nat
  BY <1>1, FS_CardinalityType
<1>3. ASSUME pc[q] # "find", s # "find" PROVE Finding' = Finding
  BY <1>3 DEF Finding
<1>4. ASSUME pc[q] # "find", s = "find"
      PROVE  Finding' = Finding \union {q} /\ q \notin Finding
  BY <1>4 DEF Finding
<1>5. ASSUME pc[q] = "find", s # "find" PROVE Finding' = Finding \ {q} /\ q \in Finding
  BY <1>5 DEF Finding
<1>6. /\ Cardinality(Finding \union {q}) =
           IF q \in Finding THEN Cardinality(Finding) ELSE Cardinality(Finding) + 1
      /\ Cardinality(Finding \ {q}) =
           IF q \in Finding THEN Cardinality(Finding) - 1 ELSE Cardinality(Finding)
  BY <1>1, FS_AddElement, FS_RemoveElement
<1>7. QED BY <1>2, <1>3, <1>4, <1>5, <1>6

\* A request that ends looks for the diploma no more.
LEMMA FindingEnds ==
  ASSUME NEW q \in Requests, pc \in [Requests -> {"idle", "select", "commit", "find"}],
         pc' = [pc EXCEPT ![q] = "idle"]
  PROVE  /\ Cardinality(Finding) \in Nat /\ Cardinality(Finding') \in Nat
         /\ pc[q] # "find" => Cardinality(Finding') = Cardinality(Finding)
         /\ pc[q] = "find" => Cardinality(Finding') = Cardinality(Finding) - 1
<1> DEFINE s == "idle"
<1>1. s # "find" /\ pc' = [pc EXCEPT ![q] = s]
  OBVIOUS
<1> HIDE DEF s
<1>2. QED BY <1>1, FindingChanges

\* A step after which as many requests look for the diploma, and no view is
\* counted or answered.
LEMMA SameCounts ==
  ASSUME IInv, Shown, faults' \in Nat, faults' <= faults,
         Cardinality(Finding) \in Nat, Cardinality(Finding') = Cardinality(Finding),
         UNCHANGED <<views, shown, missed, early>>, diploma' = diploma \/ diploma'
  PROVE  Shown'
<1>1. /\ views \in Nat /\ shown \in Nat /\ missed \in Nat /\ early \in Nat
      /\ faults \in 0..MaxFaults /\ MaxFaults \in Nat
  BY BoundsAssumption DEF IInv, CountInv
<1>2. EarlyInv'
  BY DEF Shown, EarlyInv
<1>3. QED BY <1>1, <1>2 DEF Shown, CountedIsShown, Answered

\* The end of the transaction.
LEMMA CommitShown ==
  ASSUME IInv, Shown, NEW q \in Requests, Commit(q) \/ CommitLost(q) PROVE Shown'
<1>1. /\ pc[q] = "commit" /\ diploma' = diploma
      /\ UNCHANGED <<shown, missed>>
      /\ Granted(q) => views' = views + 1 /\ early' = IF diploma THEN early ELSE early + 1
      /\ ~Granted(q) => views' = views /\ early' = early
  BY DEF Commit, CommitLost, Apply, answers
<1>2. /\ views \in Nat /\ shown \in Nat /\ missed \in Nat /\ early \in Nat
      /\ faults \in 0..MaxFaults /\ MaxFaults \in Nat
      /\ pc \in [Requests -> {"idle", "select", "commit", "find"}]
  BY BoundsAssumption DEF IInv, RowInv, CountInv
<1>3. EarlyInv'
  BY <1>1, <1>2 DEF Shown, EarlyInv
<1>4. CASE Commit(q) /\ Granted(q)
  <2>1. pc' = [pc EXCEPT ![q] = "find"] /\ faults' = faults
    BY <1>4 DEF Commit
  <2>2. Cardinality(Finding) \in Nat /\ Cardinality(Finding') = Cardinality(Finding) + 1
    BY <1>1, <1>2, <2>1, FindingChanges
  <2>3. QED BY <1>1, <1>2, <1>3, <1>4, <2>1, <2>2 DEF Shown, CountedIsShown, Answered, EarlyInv
<1>5. CASE Commit(q) /\ ~Granted(q)
  <2>1. pc' = [pc EXCEPT ![q] = "idle"] /\ faults' = faults
    BY <1>5 DEF Commit, Done
  <2>2. Cardinality(Finding) \in Nat /\ Cardinality(Finding') = Cardinality(Finding)
    BY <1>1, <1>2, <2>1, FindingEnds
  <2>3. QED BY <1>1, <1>2, <1>3, <1>5, <2>1, <2>2 DEF Shown, CountedIsShown, Answered, EarlyInv
<1>6. CASE CommitLost(q)
  <2>1. pc' = [pc EXCEPT ![q] = "idle"] /\ faults > 0 /\ faults' = faults - 1
    BY <1>6 DEF CommitLost, Done, Fail
  <2>2. Cardinality(Finding) \in Nat /\ Cardinality(Finding') = Cardinality(Finding)
    BY <1>1, <1>2, <2>1, FindingEnds
  <2>3. views' = views \/ views' = views + 1
    BY <1>1
  <2>4. QED BY <1>1, <1>2, <1>3, <2>1, <2>2, <2>3 DEF Shown, CountedIsShown, Answered, EarlyInv
<1>7. QED BY <1>4, <1>5, <1>6

\* The answer, with the diploma or without it, or an error.
LEMMA FindShown ==
  ASSUME IInv, Shown, NEW q \in Requests, Show(q) \/ FindFails(q) PROVE Shown'
<1>1. /\ pc[q] = "find" /\ pc' = [pc EXCEPT ![q] = "idle"]
      /\ UNCHANGED <<views, early, diploma>>
  BY DEF Show, FindFails, Done, history, answers
<1>2. /\ views \in Nat /\ shown \in Nat /\ missed \in Nat /\ early \in Nat
      /\ faults \in 0..MaxFaults /\ MaxFaults \in Nat
      /\ pc \in [Requests -> {"idle", "select", "commit", "find"}]
  BY BoundsAssumption DEF IInv, RowInv, CountInv
<1>3. /\ Cardinality(Finding) \in Nat /\ Cardinality(Finding') \in Nat
      /\ Cardinality(Finding') = Cardinality(Finding) - 1
  BY <1>1, <1>2, FindingEnds
<1>4. CASE Show(q) /\ diploma
  <2>1. shown' = shown + 1 /\ missed' = missed /\ faults' = faults
    BY <1>4 DEF Show
  <2>2. QED BY <1>1, <1>2, <1>3, <1>4, <2>1 DEF Shown, CountedIsShown, Answered, EarlyInv
<1>5. CASE Show(q) /\ ~diploma
  <2>1. shown' = shown /\ missed' = missed + 1 /\ faults' = faults
    BY <1>5 DEF Show
  <2>2. early = views /\ missed + 1 <= early
    BY <1>2, <1>3, <1>5 DEF Shown, CountedIsShown, Answered, EarlyInv
  <2>3. QED BY <1>1, <1>2, <1>3, <1>5, <2>1, <2>2 DEF Shown, CountedIsShown, Answered, EarlyInv
<1>6. CASE FindFails(q)
  <2>1. UNCHANGED <<shown, missed>> /\ faults > 0 /\ faults' = faults - 1
    BY <1>6 DEF FindFails, Fail, history, answers
  <2>2. QED BY <1>1, <1>2, <1>3, <2>1 DEF Shown, CountedIsShown, Answered, EarlyInv
<1>7. QED BY <1>4, <1>5, <1>6

\* A request arrives, waits for the row or gives up before its view is counted.
LEMMA BeforeShown ==
  ASSUME IInv, Shown, NEW q \in Requests, Arrive(q) \/ Select(q) \/ Rollback(q)
  PROVE  Shown'
<1>1. /\ UNCHANGED <<views, shown, missed, early, diploma>>
      /\ faults' = faults \/ (faults > 0 /\ faults' = faults - 1)
  BY DEF Arrive, Select, Rollback, Fail, history, answers
<1>2. pc \in [Requests -> {"idle", "select", "commit", "find"}] /\ faults \in Nat
  BY BoundsAssumption DEF IInv, RowInv, CountInv
<1>3. PICK s \in {"idle", "select", "commit"} : pc' = [pc EXCEPT ![q] = s] /\ pc[q] # "find"
  BY DEF Arrive, Select, Rollback, Done
<1>4. Cardinality(Finding) \in Nat /\ Cardinality(Finding') = Cardinality(Finding)
  BY <1>2, <1>3, FindingChanges
<1>5. QED BY <1>1, <1>2, <1>4, SameCounts

\* No step loses a counted view without a failure.
LEMMA NextShown == IInv /\ Shown /\ [Next]_vars => Shown'
<1> SUFFICES ASSUME IInv, Shown, [Next]_vars PROVE Shown'
  OBVIOUS
<1>1. ASSUME UNCHANGED <<pc, views, shown, missed, early>>, diploma' = diploma \/ diploma',
             faults' \in Nat, faults' <= faults
      PROVE  Shown'
  <2>1. Finding' = Finding
    BY <1>1 DEF Finding
  <2>2. Cardinality(Finding) \in Nat
    BY RequestsAssumption, FS_Subset, FS_CardinalityType DEF Finding
  <2>3. QED BY <1>1, <2>1, <2>2, SameCounts
<1>2. faults \in Nat
  BY BoundsAssumption DEF IInv, CountInv
<1>3. CASE UNCHANGED vars
  BY <1>1, <1>2, <1>3 DEF vars, request, history, answers
<1>4. CASE Tick \/ ProjectDiploma
  BY <1>1, <1>2, <1>4 DEF Tick, ProjectDiploma, request, history, answers
<1>5. ASSUME NEW x \in Payloads, Upsert(x) \/ UpsertAgain(x) PROVE Shown'
  BY <1>1, <1>2, <1>5 DEF Upsert, UpsertAgain, Overwrite, Fail, request, answers
<1>6. ASSUME NEW q \in Requests,
             Arrive(q) \/ Serve(q) \/ CommitLost(q) \/ Rollback(q) \/ FindFails(q)
      PROVE  Shown'
  BY <1>6, CommitShown, FindShown, BeforeShown DEF Serve
<1>7. QED BY <1>3, <1>4, <1>5, <1>6 DEF Next, Rest

\* Each counted view is answered with the diploma, was counted before the diploma
\* was projected, or met a failure of its own.
THEOREM ViewsAreShown == Spec => []CountedIsShown
<1>1. Init => Shown
  <2> SUFFICES ASSUME Init PROVE Shown
    OBVIOUS
  <2>1. Finding = {}
    BY DEF Init, Finding
  <2>2. Cardinality(Finding) = 0
    BY <2>1, FS_EmptySet
  <2>3. QED BY <2>2, BoundsAssumption DEF Init, Shown, EarlyInv, CountedIsShown, Answered
<1>2. Shown => CountedIsShown
  BY DEF Shown
<1>3. QED BY <1>1, <1>2, NextShown, Invariance, PTL DEF Spec
=============================================================================

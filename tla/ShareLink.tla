------------------------------ MODULE ShareLink ------------------------------
(***************************************************************************)
(* One share link: API requests that resolve it (usecase.ResolveShareLink,    *)
(* sharelink.Store.Resolve) against the projector that overwrites its row      *)
(* (readmodel.Store.UpsertShareLinkRecord), and the diploma it leads to, which *)
(* comes from another topic and may be projected later.                       *)
(*                                                                         *)
(* Resolve is a transaction that locks the row, counts the view and commits;  *)
(* the diploma is read after it. The row holds the registry's count of views  *)
(* when it is projected and the gateway's own count from then on. A request   *)
(* takes its time before it waits for the row. Any statement may fail, a       *)
(* commit may take effect although its answer is lost, and an event may be     *)
(* delivered again before it is marked processed, or by way of the DLQ.       *)
(* Definitions introduced by "Mistake:" are not part of the specification.   *)
(***************************************************************************)
EXTENDS Naturals, FiniteSets

CONSTANTS
  Requests,   \* concurrent API requests
  Payloads,   \* rows the registry's events project: records with fields
              \* status, used, max, expires
  NoRow,      \* the link was never projected
  NoLimit,    \* max_views is null
  NoOne,      \* the row is not locked
  MaxTime,    \* bound: the clock
  MaxRequests, \* bound: requests
  MaxUpserts, \* bound: events projected
  MaxFaults   \* bound: failed statements, lost requests, repeated deliveries

States == {"active", "expired", "revoked", "unknown"}
Rows == [status : States, used : Nat, max : Nat \union {NoLimit}, expires : Nat]

ASSUME PayloadsAssumption == Payloads \subseteq Rows
ASSUME RequestsAssumption == IsFiniteSet(Requests)
ASSUME NothingAssumption == NoRow \notin Rows /\ NoLimit \notin Nat /\ NoOne \notin Requests
ASSUME BoundsAssumption == {MaxTime, MaxRequests, MaxUpserts, MaxFaults} \subseteq Nat

VARIABLES
  row,     \* the committed row of share_link_records, or NoRow
  events,  \* the events projected so far
  diploma, \* the diploma is projected
  lock,    \* the request whose transaction holds the row lock
  pc,      \* pc[q]: where request q stands
  now,     \* now[q]: the time request q goes by
  seen,    \* seen[q]: the row request q read under the lock
  clock,   \* the wall clock
  base,    \* used_views of the last projection (history)
  granted, \* views counted since then (history)
  views,   \* views counted ever (history)
  allowed, \* views the projections opened ever, or NoLimit (history)
  shown,   \* diplomas shown ever (history)
  missed,  \* views answered with not found ever (history)
  early,   \* views counted before the diploma was projected (history)
  requests, upserts, faults   \* what is left of the bounds

request == <<pc, now, seen>>
answers == <<shown, missed>>
history == <<base, granted, views, allowed, answers, early>>
vars == <<row, events, diploma, lock, request, clock, history, requests, upserts, faults>>

Init ==
  /\ row = NoRow
  /\ events = {}
  /\ diploma = FALSE
  /\ lock = NoOne
  /\ pc = [q \in Requests |-> "idle"]
  /\ now = [q \in Requests |-> 0]
  /\ seen = [q \in Requests |-> NoRow]
  /\ clock = 0
  /\ base = 0 /\ granted = 0 /\ views = 0 /\ allowed = 0
  /\ shown = 0 /\ missed = 0 /\ early = 0
  /\ requests = MaxRequests /\ upserts = MaxUpserts /\ faults = MaxFaults

\* Mistake: the last view is one more than allowed.
OverLimit(x, used) == x.max # NoLimit /\ used > x.max

ViewLimitReached(x, used) == x.max # NoLimit /\ used >= x.max

Done(q) ==
  /\ pc' = [pc EXCEPT ![q] = "idle"]
  /\ now' = [now EXCEPT ![q] = 0]
  /\ seen' = [seen EXCEPT ![q] = NoRow]

Fail == faults > 0 /\ faults' = faults - 1

-----------------------------------------------------------------------------
\* Run takes the time and calls Resolve.
Arrive(q) ==
  /\ pc[q] = "idle" /\ requests > 0
  /\ requests' = requests - 1
  /\ pc' = [pc EXCEPT ![q] = "select"]
  /\ now' = [now EXCEPT ![q] = clock]
  /\ UNCHANGED <<row, events, diploma, lock, seen, clock, history, upserts, faults>>

\* Mistake: the row is read without FOR UPDATE.
SelectUnlocked(q) ==
  /\ pc[q] = "select"
  /\ IF row = NoRow THEN Done(q) /\ UNCHANGED lock
     ELSE /\ pc' = [pc EXCEPT ![q] = "commit"]
          /\ seen' = [seen EXCEPT ![q] = row]
          /\ UNCHANGED <<lock, now>>
  /\ UNCHANGED <<row, events, diploma, clock, history, requests, upserts, faults>>

\* SELECT ... FOR UPDATE waits for the row; without a row the answer is not found.
Select(q) ==
  /\ pc[q] = "select" /\ lock = NoOne
  /\ IF row = NoRow THEN Done(q) /\ UNCHANGED lock
     ELSE /\ lock' = q
          /\ pc' = [pc EXCEPT ![q] = "commit"]
          /\ seen' = [seen EXCEPT ![q] = row]
          /\ UNCHANGED now
  /\ UNCHANGED <<row, events, diploma, clock, history, requests, upserts, faults>>

Expiring(q) == seen[q].expires <= now[q] \/ ViewLimitReached(seen[q], seen[q].used)
Granted(q)  == seen[q].status = "active" /\ ~Expiring(q)

\* Mistake: time and limit are looked at before the state.
ResolvedExpiresFirst(q) ==
  LET x == seen[q] IN
  IF Expiring(q) THEN [x EXCEPT !.status = "expired"]
  ELSE IF x.status # "active" THEN x
  ELSE [x EXCEPT !.used = @ + 1,
                 !.status = IF ViewLimitReached(x, x.used + 1) THEN "expired" ELSE "active"]

\* Mistake: used_views counts down.
ResolvedCountsDown(q) ==
  LET x == seen[q] IN
  IF x.status # "active" THEN x
  ELSE IF Expiring(q) THEN [x EXCEPT !.status = "expired"]
  ELSE [x EXCEPT !.used = @ - 1,
                 !.status = IF ViewLimitReached(x, x.used - 1) THEN "expired" ELSE "active"]

\* The row Resolve leaves: an inactive link as it is, one past its time or its
\* limit expired, else one more view, the last of which expires it.
Resolved(q) ==
  LET x == seen[q] IN
  IF x.status # "active" THEN x
  ELSE IF Expiring(q) THEN [x EXCEPT !.status = "expired"]
  ELSE [x EXCEPT !.used = @ + 1,
                 !.status = IF ViewLimitReached(x, x.used + 1) THEN "expired" ELSE "active"]

\* The transaction takes effect.
Apply(q) ==
  /\ row' = Resolved(q)
  /\ lock' = NoOne
  /\ IF Granted(q)
     THEN /\ granted' = granted + 1 /\ views' = views + 1
          /\ early' = IF diploma THEN early ELSE early + 1
     ELSE UNCHANGED <<granted, views, early>>
  /\ UNCHANGED <<events, diploma, clock, base, allowed, answers, requests, upserts>>

\* Mistake: the state the row was left in is reported, not the one it was found in.
CommitReportsNext(q) ==
  /\ pc[q] = "commit"
  /\ Apply(q)
  /\ IF Granted(q) /\ Resolved(q).status = "active"
     THEN pc' = [pc EXCEPT ![q] = "find"] /\ UNCHANGED <<now, seen>>
     ELSE Done(q)
  /\ UNCHANGED faults

\* Mistake: the transaction of an inactive link is left open.
CommitOnlyActive(q) ==
  /\ pc[q] = "commit" /\ seen[q].status = "active"
  /\ Apply(q)
  /\ IF Granted(q) THEN pc' = [pc EXCEPT ![q] = "find"] /\ UNCHANGED <<now, seen>>
     ELSE Done(q)
  /\ UNCHANGED faults

\* The update and the commit. Only a link found active leads on to the diploma.
Commit(q) ==
  /\ pc[q] = "commit"
  /\ Apply(q)
  /\ IF Granted(q) THEN pc' = [pc EXCEPT ![q] = "find"] /\ UNCHANGED <<now, seen>>
     ELSE Done(q)
  /\ UNCHANGED faults

\* The commit takes effect but reports an error: the request ends with it.
CommitLost(q) ==
  /\ pc[q] = "commit" /\ Fail
  /\ Apply(q)
  /\ Done(q)

\* A statement of the transaction fails, the client goes away or the process
\* dies: the transaction is rolled back.
Rollback(q) ==
  /\ pc[q] \in {"select", "commit"} /\ Fail
  /\ lock' = IF lock = q THEN NoOne ELSE lock
  /\ Done(q)
  /\ UNCHANGED <<row, events, diploma, clock, history, requests, upserts>>

\* FindByID, and the answer: the diploma, or not found if it is not projected yet.
Show(q) ==
  /\ pc[q] = "find"
  /\ IF diploma THEN shown' = shown + 1 /\ missed' = missed
     ELSE missed' = missed + 1 /\ shown' = shown
  /\ Done(q)
  /\ UNCHANGED <<row, events, diploma, lock, clock, base, granted, views, allowed, early,
                 requests, upserts, faults>>

\* FindByID fails: the view is counted all the same.
FindFails(q) ==
  /\ pc[q] = "find" /\ Fail
  /\ Done(q)
  /\ UNCHANGED <<row, events, diploma, lock, clock, history, requests, upserts>>

-----------------------------------------------------------------------------
\* The views a projected row opens.
Opened(x) ==
  IF x.status # "active" THEN 0
  ELSE IF x.max = NoLimit THEN NoLimit
  ELSE IF x.used < x.max THEN x.max - x.used ELSE 0

\* UpsertShareLinkRecord waits for the row and overwrites all of it.
Overwrite(x) ==
  /\ lock = NoOne
  /\ row' = x
  /\ base' = x.used
  /\ granted' = 0
  /\ allowed' = IF NoLimit \in {allowed, Opened(x)} THEN NoLimit ELSE allowed + Opened(x)
  /\ UNCHANGED <<diploma, lock, request, clock, views, answers, early, requests>>

\* An event of the link is projected.
Upsert(x) ==
  /\ upserts > 0 /\ upserts' = upserts - 1
  /\ Overwrite(x)
  /\ events' = events \union {x}
  /\ UNCHANGED faults

\* An event is projected once more: its consumer died before it was marked
\* processed, another one took over, or it comes out of the DLQ.
UpsertAgain(x) ==
  /\ x \in events /\ Fail
  /\ Overwrite(x)
  /\ UNCHANGED <<events, upserts>>

\* The diploma is projected, from the topic of its own.
ProjectDiploma ==
  /\ ~diploma
  /\ diploma' = TRUE
  /\ UNCHANGED <<row, events, lock, request, clock, history, requests, upserts, faults>>

Tick ==
  /\ clock < MaxTime
  /\ clock' = clock + 1
  /\ UNCHANGED <<row, events, diploma, lock, request, history, requests, upserts, faults>>

\* No more requests or events.
Rest ==
  /\ \A q \in Requests : pc[q] = "idle"
  /\ UNCHANGED vars

Serve(q) == Select(q) \/ Commit(q) \/ Show(q)

Next ==
  \/ \E q \in Requests :
       Arrive(q) \/ Serve(q) \/ CommitLost(q) \/ Rollback(q) \/ FindFails(q)
  \/ \E x \in Payloads : Upsert(x) \/ UpsertAgain(x)
  \/ ProjectDiploma \/ Tick \/ Rest

Spec == Init /\ [][Next]_vars

\* Requests run to their end, and PostgreSQL grants a row lock in turn.
Fairness ==
  \A q \in Requests : SF_vars(Select(q)) /\ WF_vars(Commit(q) \/ Show(q))

FairSpec == Spec /\ Fairness

-----------------------------------------------------------------------------
\* The variables hold values of the expected kind.
TypeOK ==
  /\ row \in Rows \union {NoRow}
  /\ events \subseteq Payloads /\ diploma \in BOOLEAN
  /\ lock \in Requests \union {NoOne}
  /\ pc \in [Requests -> {"idle", "select", "commit", "find"}]
  /\ now \in [Requests -> 0..MaxTime]
  /\ seen \in [Requests -> Rows \union {NoRow}]
  /\ clock \in 0..MaxTime
  /\ base \in Nat /\ granted \in Nat /\ views \in Nat /\ allowed \in Nat \union {NoLimit}
  /\ shown \in Nat /\ missed \in Nat /\ early \in Nat
  /\ requests \in 0..MaxRequests /\ upserts \in 0..MaxUpserts /\ faults \in 0..MaxFaults

\* Concurrent requests lose no view: the row counts what the registry had
\* counted when it projected the link and every view granted since.
EveryViewIsCounted == row # NoRow => row.used = base + granted

\* A link with a limit grants no view past it, whatever requests arrive at once,
\* unless the registry had already counted more. Over its life it grants no more
\* than its projections opened: only a projected event, a repeated one included,
\* opens a used-up link again.
ViewsWithinLimit ==
  /\ row # NoRow /\ row.max # NoLimit /\ base <= row.max => base + granted <= row.max
  /\ allowed # NoLimit => views <= allowed

\* Requests never reopen or expire a revoked link: only a projection takes a
\* link out of "revoked", also when a request was under way as it was revoked.
RevocationSticks ==
  [][row # NoRow /\ row.status = "revoked" =>
       row'.status = "revoked" \/ \E x \in Payloads : Overwrite(x)]_vars

\* Each view that is counted shows the diploma, takes a failure of its own, or was
\* counted before the diploma was projected: the view that exhausts the limit is
\* shown too, and none is used up for nothing once both topics are projected.
Finding == {q \in Requests : pc[q] = "find"}
Answered == shown + missed + Cardinality(Finding)
CountedIsShown ==
  /\ Answered <= views /\ views <= Answered + (MaxFaults - faults)
  /\ missed <= early

\* Every request gets its answer: no path of Resolve leaves the row locked.
EveryRequestEnds == \A q \in Requests : pc[q] # "idle" ~> pc[q] = "idle"
=============================================================================

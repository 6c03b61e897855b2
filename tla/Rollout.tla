------------------------------- MODULE Rollout -------------------------------
(***************************************************************************)
(* A release is rolled out: replicas of the API start, each applies the        *)
(* migrations its binary contains (migrations.Apply), connects to Redis and    *)
(* serves; whoever fails exits and is started again. At the same time the      *)
(* consumer, which does not look at the schema, handles events: what needs a   *)
(* table that is not there yet fails, is retried after a growing wait and is   *)
(* parked in the end.                                                         *)
(*                                                                         *)
(* PostgreSQL: statements of an open transaction are seen by nobody else; a    *)
(* migration waits for another transaction that runs the same file; a second   *)
(* row for one version violates the primary key; the transaction of a process  *)
(* that dies is rolled back. Time passes in ticks, and binds the consumer's     *)
(* waits only: everything else takes any time.                                *)
(* Definitions introduced by "Mistake:" are not part of the specification.   *)
(***************************************************************************)
EXTENDS Integers, FiniteSets

CONSTANTS
  Replicas,     \* processes of diasoft-gateway, of one release or of several
  N,            \* number of migrations of the latest release
  Files,        \* Files[r]: how many of them the binary of r contains
  Events,       \* events 1..Events of the topic, in order
  Needs,        \* Needs[e]: the migration that makes the tables of event e
  Retries,      \* KafkaConfig: records with attempts, backoff and max, the
                \* ProjectRetry* settings, durations in ticks
  MaxDuration,  \* the greatest time.Duration
  MaxTime,      \* bound: ticks
  MaxFaults     \* bound: processes that die, calls that fail

Versions == 1..N

ASSUME FilesAssumption == N \in Nat /\ Files \in [Replicas -> 0..N]
ASSUME EventsAssumption == Events \in Nat /\ Needs \in [1..Events -> Versions]
\* Config.validate
ASSUME RetriesAssumption ==
  \A retry \in Retries :
    /\ retry.attempts \in Nat
    /\ retry.backoff \in 0..MaxDuration /\ retry.max \in 0..MaxDuration
    /\ retry.max > 0 => retry.backoff <= retry.max
ASSUME BoundsAssumption == MaxDuration \in Nat /\ MaxTime \in Nat /\ MaxFaults \in Nat

VARIABLES
  \* PostgreSQL
  table,        \* schema_migrations exists
  installed,    \* migrations whose changes are in the database
  recorded,     \* migrations with a row in schema_migrations
  installedAt,  \* when they were installed (history)
  \* the API
  stage,        \* stage[r]: where run of r stands
  at,           \* at[r]: the migration Apply of r has come to
  tx,           \* tx[r]: files run and rows inserted in r's open transaction
  \* the consumer
  retry,        \* its configuration
  step,         \* where it stands
  event,        \* the event it handles, all before it are settled
  attempt,      \* retries of it so far
  due,          \* when the current wait ends
  firstTry,     \* firstTry[e]: when e was tried first in its last delivery (history)
  parked,       \* events in the DLQ
  \* time and bounds
  now, faults

schema   == <<table, installed, recorded, installedAt>>
api      == <<stage, at, tx>>
consumer == <<retry, step, event, attempt, due, firstTry, parked>>
vars     == <<schema, api, consumer, now, faults>>

Stages == {"down", "ensure", "create", "check", "exec", "record", "commit", "redis", "serve"}
NoTx == [ran |-> {}, noted |-> {}]

Init ==
  /\ table = FALSE
  /\ installed = {} /\ recorded = {}
  /\ installedAt = [v \in Versions |-> 0]
  /\ stage = [r \in Replicas |-> "down"]
  /\ at = [r \in Replicas |-> 1]
  /\ tx = [r \in Replicas |-> NoTx]
  /\ retry \in Retries
  /\ step = "down"
  /\ event = 1
  /\ attempt = 0
  /\ due = 0
  /\ firstTry = [e \in 1..Events |-> 0]
  /\ parked = {}
  /\ now = 0
  /\ faults = MaxFaults

Fault == faults > 0 /\ faults' = faults - 1

-----------------------------------------------------------------------------
(***************************************************************************)
(* A replica of the API, from its start to ListenAndServe.                  *)
(***************************************************************************)

Goto(r, s) == stage' = [stage EXCEPT ![r] = s] /\ UNCHANGED <<at, tx>>

\* run returns an error, or the process dies: its transaction is rolled back.
Exit(r) ==
  /\ stage' = [stage EXCEPT ![r] = "down"]
  /\ at' = [at EXCEPT ![r] = 1]
  /\ tx' = [tx EXCEPT ![r] = NoTx]

Start(r) ==
  /\ stage[r] = "down"
  /\ Goto(r, "ensure")
  /\ UNCHANGED <<schema, consumer, now, faults>>

\* CREATE TABLE IF NOT EXISTS schema_migrations: it looks whether the table is
\* there before it creates it.
Ensure(r) ==
  /\ stage[r] = "ensure"
  /\ Goto(r, IF table THEN "check" ELSE "create")
  /\ UNCHANGED <<schema, consumer, now, faults>>

\* Two replicas that both saw no table: the second one gets an error. The answer
\* to a replica that created it may be lost.
Create(r) ==
  /\ stage[r] = "create"
  /\ table' = TRUE
  /\ \/ table /\ Exit(r) /\ faults' = faults
     \/ ~table /\ Goto(r, "check") /\ faults' = faults
     \/ ~table /\ Exit(r) /\ Fault
  /\ UNCHANGED <<installed, recorded, installedAt, consumer, now>>

\* Mistake: every file is run at every start.
CheckNothing(r) ==
  /\ stage[r] = "check"
  /\ Goto(r, IF at[r] > Files[r] THEN "redis" ELSE "exec")
  /\ UNCHANGED <<schema, consumer, now, faults>>

\* The loop over the files: done, already applied, or to be applied.
Check(r) ==
  /\ stage[r] = "check"
  /\ IF at[r] \in recorded /\ at[r] <= Files[r]
     THEN at' = [at EXCEPT ![r] = @ + 1] /\ UNCHANGED <<stage, tx>>
     ELSE Goto(r, IF at[r] > Files[r] THEN "redis" ELSE "exec")
  /\ UNCHANGED <<schema, consumer, now, faults>>

\* Mistake: the file runs outside the transaction.
ExecOutside(r) ==
  /\ stage[r] = "exec"
  /\ \A q \in Replicas \ {r} : at[r] \notin tx[q].ran
  /\ installed' = installed \union {at[r]}
  /\ Goto(r, "record")
  /\ UNCHANGED <<table, recorded, installedAt, consumer, now, faults>>

\* Begin and run the file, after any other transaction that runs it. If another
\* replica applied it since the check, it does nothing or it fails.
Exec(r) ==
  /\ stage[r] = "exec"
  /\ \A q \in Replicas \ {r} : at[r] \notin tx[q].ran
  /\ \/ /\ stage' = [stage EXCEPT ![r] = "record"]
        /\ tx' = [tx EXCEPT ![r].ran = {at[r]}]
        /\ at' = at
     \/ at[r] \in installed /\ Exit(r)
  /\ UNCHANGED <<schema, consumer, now, faults>>

\* Insert the version; a version that is there already is an error.
Record(r) ==
  /\ stage[r] = "record"
  /\ \/ /\ at[r] \notin recorded
        /\ stage' = [stage EXCEPT ![r] = "commit"]
        /\ tx' = [tx EXCEPT ![r].noted = {at[r]}]
        /\ at' = at
     \/ at[r] \in recorded /\ Exit(r)
  /\ UNCHANGED <<schema, consumer, now, faults>>

\* The commit takes effect; its answer may be lost.
Commit(r) ==
  /\ stage[r] = "commit"
  /\ installed' = installed \union tx[r].ran
  /\ recorded' = recorded \union tx[r].noted
  /\ installedAt' = [v \in Versions |->
       IF v \in tx[r].ran \ installed THEN now ELSE installedAt[v]]
  /\ \/ /\ stage' = [stage EXCEPT ![r] = "check"]
        /\ at' = [at EXCEPT ![r] = @ + 1]
        /\ tx' = [tx EXCEPT ![r] = NoTx]
        /\ faults' = faults
     \/ Exit(r) /\ Fault
  /\ UNCHANGED <<table, consumer, now>>

\* Redis answers, and the server listens.
Listen(r) ==
  /\ stage[r] = "redis"
  /\ Goto(r, "serve")
  /\ UNCHANGED <<schema, consumer, now, faults>>

\* A call fails without effect, a signal arrives or the process dies.
Die(r) ==
  /\ stage[r] # "down" /\ Fault
  /\ Exit(r)
  /\ UNCHANGED <<schema, consumer, now>>

-----------------------------------------------------------------------------
(***************************************************************************)
(* The consumer, as far as the schema matters to it.                        *)
(***************************************************************************)

\* A signed integer as wide as a time.Duration.
Wrapped(d) == ((d + MaxDuration + 1) % (2 * (MaxDuration + 1))) - (MaxDuration + 1)

\* Mistake: the maximum is not looked at after doubling.
DoubledUncapped(max, b) == IF max > 0 /\ b >= max THEN max ELSE Wrapped(2 * b)

\* One round of the loop of retryBackoff; its early return is a fixed point.
Doubled(max, b) ==
  LET d == Wrapped(2 * b)
  IN IF max > 0 /\ (b >= max \/ d > max) THEN max ELSE d

\* The wait before the n-th retry of a consumer with the settings s.
RetryBackoff(s, n) ==
  LET after[i \in Nat] == IF i <= 1 THEN s.backoff ELSE Doubled(s.max, after[i - 1])
  IN after[n]

StartConsumer ==
  /\ step = "down"
  /\ step' = "try"
  /\ attempt' = 0
  /\ UNCHANGED <<retry, event, due, firstTry, parked, schema, api, now, faults>>

\* Mistake: the last retry is not made.
TryOneLess ==
  /\ step = "try" /\ event <= Events
  /\ firstTry' = IF attempt = 0 THEN [firstTry EXCEPT ![event] = now] ELSE firstTry
  /\ IF Needs[event] \in installed \/ attempt + 1 >= retry.attempts
     THEN /\ event' = event + 1
          /\ attempt' = 0
          /\ parked' = IF Needs[event] \in installed THEN parked ELSE parked \union {event}
          /\ UNCHANGED <<step, due>>
     ELSE /\ step' = "wait"
          /\ attempt' = attempt + 1
          /\ due' = now + RetryBackoff(retry, attempt + 1)
          /\ UNCHANGED <<event, parked>>
  /\ UNCHANGED <<retry, schema, api, now, faults>>

\* Handle succeeds when its tables are there; else the event is retried, and
\* parked when its retries are used up.
Try ==
  /\ step = "try" /\ event <= Events
  /\ firstTry' = IF attempt = 0 THEN [firstTry EXCEPT ![event] = now] ELSE firstTry
  /\ IF Needs[event] \in installed \/ attempt = retry.attempts
     THEN /\ event' = event + 1
          /\ attempt' = 0
          /\ parked' = IF Needs[event] \in installed THEN parked ELSE parked \union {event}
          /\ UNCHANGED <<step, due>>
     ELSE /\ step' = "wait"
          /\ attempt' = attempt + 1
          /\ due' = now + RetryBackoff(retry, attempt + 1)
          /\ UNCHANGED <<event, parked>>
  /\ UNCHANGED <<retry, schema, api, now, faults>>

\* sleepContext returns, at once if the wait is not positive.
Wake ==
  /\ step = "wait" /\ due <= now
  /\ step' = "try"
  /\ UNCHANGED <<retry, event, attempt, due, firstTry, parked, schema, api, now, faults>>

\* The consumer dies; the event will be delivered again.
ConsumerDies ==
  /\ step # "down" /\ Fault
  /\ step' = "down"
  /\ UNCHANGED <<retry, event, attempt, due, firstTry, parked, schema, api, now>>

Tick ==
  /\ now < MaxTime
  /\ now' = now + 1
  /\ UNCHANGED <<schema, api, consumer, faults>>

-----------------------------------------------------------------------------
Run(r) ==
  \/ Start(r) \/ Ensure(r) \/ Create(r) \/ Check(r) \/ Exec(r) \/ Record(r)
  \/ Commit(r) \/ Listen(r)

Next ==
  \/ \E r \in Replicas : Run(r) \/ Die(r)
  \/ StartConsumer \/ Try \/ Wake \/ ConsumerDies
  \/ Tick

Spec == Init /\ [][Next]_vars

\* A replica goes on, and is started again when it has exited.
FairSpec == Spec /\ \A r \in Replicas : WF_vars(Run(r))

-----------------------------------------------------------------------------
\* Migrations are applied in order, each once, its changes together with its row,
\* whatever replicas of whatever releases start, fail and die at the same time.
Contract == INSTANCE SchemaContract WITH
  Versions <- Versions, installed <- installed, recorded <- recorded
ImplementsContract == Contract!Spec

\* A replica that serves finds every table its release was written for.
ServingIsMigrated ==
  \A r \in Replicas : stage[r] \in {"redis", "serve"} => 1..Files[r] \subseteq installed

\* Every replica serves in the end: one that lost the race for a migration, or for
\* schema_migrations itself, fails but gets past it when it is started again.
EveryReplicaServes == \A r \in Replicas : <>[](stage[r] = "serve")

\* The n-th wait the settings s ask for: doubled each time, up to the maximum; and
\* the first n of them together.
Doubling(s, n) ==
  LET wait[i \in Nat] == IF i <= 1 THEN s.backoff ELSE 2 * wait[i - 1] IN wait[n]
Asked(s, n) ==
  IF s.max > 0 /\ Doubling(s, n) > s.max THEN s.max ELSE Doubling(s, n)
Waits(s, n) ==
  LET sum[i \in Nat] == IF i = 0 THEN 0 ELSE sum[i - 1] + Asked(s, i) IN sum[n]
Patience == Waits(retry, retry.attempts)

\* The doubling stays within a time.Duration.
Fits(s) == \A n \in 1..s.attempts : 2 * Asked(s, n) <= MaxDuration

\* An event is parked for a missing table only when the table was missing for the
\* whole time that the retry settings add up to: a consumer that starts before the
\* migrations parks nothing if they are through by then.
ParkedAfterPatience ==
  Fits(retry) => \A e \in parked :
    Needs[e] \in installed => installedAt[Needs[e]] >= firstTry[e] + Patience

\* No wait is longer than the settings ask for: the backlog is not held up longer
\* than the maximum by one retry.
WaitAsConfigured ==
  step = "wait" /\ Fits(retry) => due <= now + Asked(retry, attempt)
=============================================================================

# diasoft-gateway in TLA+

Specifications of the parts of diasoft-gateway in which the order of events
matters: what happens to a lifecycle event between Kafka and the read model,
what a verification request may answer meanwhile, what a DLQ replay does, how a
share link counts its views, what a session of the private API may do while
the accounts change under it, whom the rate limit refuses, and what a rollout does to the
database and to the consumer. TLC checks them on small instances; TLAPS proves
their safety properties for every instance.

## Inventory

| Component | State | Operations | Talks to | What is hard |
|---|---|---|---|---|
| Projection consumer (`infrastructure/kafka/consumer.go`) | polled batch, record at hand, retry count, fetch positions; the group's committed offsets in Kafka | poll, decode, project with retries, park, commit, stop on a signal | `ProjectEvents.Handle`, DLQ writer, group coordinator | batch commit with partial failure, crash and rebalance in the middle of a batch, cancelled context |
| Event projection (`usecase/project_events.go`, `storage/readmodel`) | `verification_records`, `share_link_records`, `auth_users`, `processed_events` | `Handle`: check, upsert, student account, invalidate, mark | PostgreSQL, Redis | five statements and no transaction, check-then-act, upserts blind to age |
| DLQ envelope and writer (`kafka/dlq.go`) | DLQ topic | `Write`, `ParseDLQMessage`, replay key and headers | Kafka | lost acknowledgement |
| DLQ replayer (`kafka/replayer.go`) | matches handled in this run; offsets of its own group | poll, filter, dry run, publish, commit, stop at the limit | DLQ topic, source topics | limit within a batch, dry run and offsets, copies after a crash |
| Public verification (`usecase/verify.go`, `storage/diploma`) | none of its own | `Run`, `RunByToken` | cache, PostgreSQL | read before, store after a concurrent projection |
| Verification cache (`redis/verification_cache.go`) | entries with a TTL | `Get`, `Set`, `Delete` | Redis | ignored errors, keys of replaced values |
| Share links (`usecase/resolve_share_link.go`, `storage/sharelink`) | `used_views`, `status` of the row | `Resolve` transaction, answer | PostgreSQL, projector | view limit under concurrency, view counted and not shown |
| Verification audit | `verification_audit` | insert | PostgreSQL | best effort only |
| Rate limiting (`redis/rate_limiter.go`, `middleware/ratelimit.go`) | a counter per key and window | script `INCR`/`EXPIRE`, middleware | Redis | window edges, fail-open, Retry-After |
| Client IP (`middleware/clientip.go`) | none | `Resolve` | - | trusted proxy chain (pure) |
| Private API (`privateapi`, `middleware/privateauth.go`, `storage/authuser`) | `auth_users`, signed tokens | login, me, token check | PostgreSQL, projector | accounts found by diploma number and rebound by later events, tokens that outlive what they claim |
| Registry client, private handlers | none | calls in the name of the session | registry | in whose name a call is made, lost answers |
| Migrations (`migrations/migrations.go`) | `schema_migrations` | `Apply` | PostgreSQL | several replicas at start |
| Configuration (`internal/config`) | none | normalise, validate | - | what is not validated (`verify_ttl`) |
| HTTP surface, observability, clients, API documents | none | routing, rendering, metrics, traces | - | nothing TLC could add |

What makes them correct: no published event is lost between Kafka and the read
model and none is half projected; a poison record neither blocks nor loses its
neighbours; the DLQ is the last resort; an answer of the cache is wrong only for
reasons that pass; a replay run skips nothing it was asked to replay and repeats
nothing without a fault; no view of a share link is lost or granted past the limit; a
projected diploma has an account to log in with, and a session acts for the diploma or the
university of its own account only; nobody is refused for another client's calls; a replica serves
only over the schema its release needs, and a rollout parks no event it could have waited for.
`PROJECT.json` lists the hazards with their lines and the properties that cover them.

## Modules

`DeliveryContract` is the promise of the projection path to the registry: offsets
advance over records that were projected or parked, and nothing of that is taken back.

`Consumer` is the path in detail. A process is a program counter `stage[c]`:
`poll`, `batch` (between two records of `EachRecord`), `check`, `upsert`, `auth`,
`invalidate`, `mark` (the statements of `Handle`), `backoff`, `park`, `down`.
`todo[c]` is what is left of the polled batch, `position[p]` what the owner of `p`
fetched, `committed[p]` the group's offset. Every call has three outcomes: it
succeeds, it takes effect and reports an error, or it fails. `Kind` is how an event decodes and projects; one
without a number or a student's name (`"nameless"`) has no account, and `AuthNameless` passes over the statement. Once a signal cancels the
context (`Cancel`) calls only fail. `Assign` moves a partition to another member at any
time while the old one keeps its batch; it commits only partitions it still owns, as
`CommitUncommittedOffsets` does. `WithDLQ` are the processes with a DLQ topic; one without ends with
the error of a record it cannot project (`consumer.go:210`). `processed` and `dlq` are the tables; `row` remembers
which record wrote a row last, `writes` which halves of an event were written, and
`cache` whether a row was written since its last invalidation.

`VerifyCache` takes up the cache with contents: rows with token, number (which stands for the university code
too), holder and status, entries under token and number keys, requests in three steps (miss, read, store),
and a projector whose two deletes may fail. Keys, parameters of queries and answers are in normal form (`Normal`:
trimmed, the university code in upper case), rows hold what the event said: `Columns` is what a query compares,
`TokenKey` and `LookupKey` are the cache keys, and `Answer` is what `NewDiploma` and `buildResult` make of a
row, if it is `Buildable`. So a row may be found by its token and not by its number, and `StoreLookup` then stores its
answer under a number that answers NOT_FOUND (`ByToken`, `Misplaced`). `excused` is history: the keys for which a
late store or a failed delete explains a stale entry.

`Replayer` is a sequence of runs of the DLQ replayer, each started by an operator
with its own filter, limit and dry-run flag. `published` is the sequence of DLQ
records put back, `started` its length when the run began.

`ShareLink` is one link: `Select` takes the row lock of `SELECT ... FOR UPDATE`,
`Commit` writes what `Resolved` computes and releases it, `Show` looks for the diploma and
answers. `Upsert` is the projector overwriting the row, `UpsertAgain` the same event once
more (a redelivery or a replay), and `ProjectDiploma` the diploma arriving by its own topic.
`base`, `granted` (views since the last projection), `views`, `allowed` (what projections opened),
`shown`, `missed` and `early` (views before the diploma was there) are history.

`Pipeline` puts consumer and replayer around the topics they share, for the events of one
diploma in the order of the registry. One step handles one record with all its retries
(`SkipProcessed`, `Project`, `ParkGood`, `ParkBad`) or one DLQ message (`Replay`, `SkipFiltered`),
and both processes commit (`Commit`, `ReplayCommit`) after any record, so batches are of any size.
The steps inside a record, which `Consumer` and `Replayer` show, appear here as their outcomes: a
failing record may or may not have written its row, and a crash may leave any
prefix of `Handle` behind. `PublishAgain` is the at-least-once outbox of the registry.
`Kind` says which events can be projected: `"poison"` fails before it
writes, `"conflict"` after it wrote the verification record (the student's account is
refused), and both fail each time.

`Accounts` is the table `auth_users`, the sessions of browsers and the registry calls made in
their name. `Project` runs the upsert of `UpsertStudentAuthUser`: the account of a number is bound
to the diploma of the event and keeps its id, and a new account must find its id free. Events come
in any order and any number of times until one is marked processed, which is what `Consumer`
and `Pipeline` leave to rely on. `Login` copies an account into `session[c]` (`Claims`), `Live` and
`Admitted` are the two middlewares, `Ask` takes the subject of a registry call from the
claims and never from the table; `AskStudent`, `AskUniversity` and `CreateLink` are the handlers, and
`Refuse` is the answer 401 or 403. `written`, `asked`, `calls`, `made` and `told` are history. Names,
password hashes and signatures are left out: a login is one with the right password, and a token is
what `Issue` signed.

`RateLimit` is the limiter in front of the public routes, with the resolution of the client's address
that names the counter. `ForwardedFor` and `Resolve` are the resolver, `Label` the normalisation of the
path, `Count` and `Within` the Lua script, `Lifetime` and `RetryAfter` the two conversions of the
window to seconds, which round differently. `Attempt` is one run of the script: it may fail before or after it
counted, the client library tries again (`MaxRetries`: a setting of 0 is its default of three times, -1 is
never), and when it gives up the request passes. `Restart` is
Redis without its counters. `Arrivals` are what the proxies in front make of a client's request: it comes
from outside, with whatever the client put into `X-Forwarded-For` before the entries of the proxies
(`FromOutside`), or from a proxy itself (`FromProxy`), or with `X-Real-IP` and no usable `X-Forwarded-For`
(`AsRealIP`). That the proxies append to the header, and that an address outside is not a trusted one, is assumed.
A path like `/api/v1/public/share-links/{token}` is not normalised by the code, so each
token has a counter of its own. `Bypass` is a limiter whose numbers are zero, which is how the code
switches it off: `RateLimit.Enabled` decides only whether the numbers are validated.

`SchemaContract` is the promise of the migrations to everything that uses the database: files are applied
in order, each once, together with its row in `schema_migrations`. `Rollout` is `Apply` in detail for replicas of
several releases: `Ensure` and `Create` are `CREATE TABLE IF NOT EXISTS`, which may collide, `Check`, `Exec`,
`Record` and `Commit` one file's transaction, `tx[r]` what is in it and seen by nobody else; `Die` is any failure,
after which the process exits and is started again. Beside it the consumer, which does not look at the schema,
meets events whose tables may be missing: `Try`, `Wake` and `RetryBackoff` are `handleRecord` and
`retryBackoff` with the width of `time.Duration` (`Wrapped`); `Asked` and `Patience` are what the settings ask
for, the n-th wait and all of them together, and `Fits` says that the doubling stays within the width.
`installedAt` and `firstTry` are history.

`MC*` modules give the constants their values. Definitions introduced by
`Mistake:` are plausible bugs, each in the form of the definition after it; the
properties are expected to notice them and the specifications do not use them.

## Runs

| Run | Question | Bounds |
|---|---|---|
| `consumer_single` | Is a record ever skipped, parked too early, left uninvalidated, or an older one written over a newer one, by one process? Does everything get committed in the end? | two partitions, four events (a diploma issued, and revoked by an event without a name, a share link, an undecodable one), 2 records per partition, 1 retry, 2 faults |
| `consumer_group` | Are processed events complete and do commits advance when two processes, one with a DLQ and one without, fight over a partition with an event that always fails half way and one of an unknown type? Is the group an implementation of `DeliveryContract`? | 2 records, 1 retry, 3 faults |
| `consumer_duplicate` | Does `processed_events` prevent duplicate handling? No | 1 event, 1 takeover |
| `verify_cache` | Which stale answers exist, and do they go away? | 2 diplomas sharing a number, one of them first not in normal form, the other with a status that is refused, 3 projections, 1 request at a time, two kinds of keys |
| `verify_reissue` | Are all affected keys invalidated? No | 1 diploma whose token changes |
| `replayer` | Limits, copies, order, skips, ends of runs | 3 messages, 3 kinds, limits 0 and 1, with and without filter and dry run, 2 faults |
| `replayer_skips` | Is an offset committed only after a replay or an explicit skip? No | 2 messages, limits 0 and 1, dry runs |
| `share_link` | Are views counted, limited and shown; does revocation stick; does nobody hang? | 2 concurrent requests, 4 in all, 2 projections, limits 1, 2 and none, 1 fault |
| `pipeline` | Can a replay or a repeated publication take a diploma back, and does every good event arrive? | 3 events of one diploma, the second failing half way, 1 repeated publication, 2 faults |
| `accounts` | Does a projected diploma always have an account, does a session keep its account, and in whose name is the registry asked? | 1 browser, 5 events (two diplomas sharing a number, two corrected numbers, one incomplete event), 2 seeded accounts, 3 ticks, 2 links, 1 fault |
| `rate_limit` | Is anybody refused for another's calls, how many requests pass, and does waiting as told help? | 4 requests, a client and two proxies in 6 arrangements, 3 paths, windows of 1, 2 and 3 half-seconds, no, one and three retries, 4 ticks, 1 fault |
| `rollout` | Do the migrations keep their contract, does every replica serve in the end, and what is parked meanwhile? | a replica with one migration and one with two, 2 events, 3 retry settings, durations up to 7, 4 ticks, 1 fault |

The bounds `MaxLog`, `MaxFaults`, `MaxEvents`, `MaxRequests`, `MaxUpserts`, `MaxCalls` and `MaxTime` are
guards of environment actions only; the code's own steps are unbounded. Two records make
a batch that can be cut in the middle, and with two partitions one batch can fail in one
and succeed in the other. Two faults allow a failure during the recovery from a first,
three a takeover and its return; a fault in the budget means any failing call, signal,
crash or takeover at any point. In `verify_cache` three projections let two events of one
diploma interleave with one of another that shares its number. `MaxTwice` bounds the
registry. `MaxCopies` is the filter an operator sets (by event id) once an event came back that
often: without it a message that fails each time would go round between consumer and replayer, and the
topics would grow without end.
Three events let a good one be parked and replayed behind a newer one with a
failing one between them. The view limits 1
and 2 put four requests below, at and past the limit, and leave requests for what a second projection
opens. In `rate_limit` a second is two ticks, so that one window is shorter than a second, one is a second and
one longer but not whole; four requests fill two windows of a limit of two. In `rollout` the three settings are a wait without maximum, one
that its maximum cuts, and one whose doubling passes the greatest duration, 7 ticks: there `retryBackoff` returns a
negative wait, and the properties of the waits, which suppose that a doubling fits, promise nothing. With 64 bits of
nanoseconds this takes a wait of 146 years. In `accounts` a token lives 2 of 3 ticks, so
that it can be opened late and expire, and a login waits for a clock that leaves room for its expiry; one
number of the instance belongs to a seeded account, one to two diplomas, and one to the correction
of a diploma whose id the first account may hold.

Fairness. `Consumer`, in the run of one process: it keeps executing and is restarted when it ends (the
deployment restarts it; the loop has no other wait than the poll and the backoff timer), and
the coordinator assigns orphaned partitions. `VerifyCache`: requests run to their end,
Redis expires entries (`verify_ttl` above zero). `Replayer`: a started run goes on, nobody has
to start one. `ShareLink`: requests run on and PostgreSQL grants a row lock in turn, which
is strong fairness of `Select`. `Pipeline`: consumer and replayer both run and are restarted; the
registry is not obliged to publish. `Accounts`: time passes. `Rollout`: a replica runs on and is started again
when it has exited; neither the consumer nor the clock has to move. Faults are never fair, and their budget is
finite: liveness is what holds once faults stop.

Three runs are checked without deadlock detection, because the modelled system comes to rest in them:
`pipeline` when everything is published, consumed, replayed and committed, `rate_limit` when all requests are
answered and the clock is at its bound, `rollout` when every replica serves and the events are settled.

### Disagreements with the documentation

- `docs/architecture.md:242` "`processed_events` protects projection from duplicate
  handling": two members holding the same record both pass `IsProcessed`; one projects again
  after the other marked it. `ProcessedIsComplete` still holds, and the rows written are the same
  except for share links, whose views are reset.
- `docs/architecture.md:159` "Consumer invalidates Redis cache keys affected by the event": the
  keys of the values an update replaces are not among those deleted.
- `docs/architecture.md:169` "Replayer commits the DLQ offset only after successful replay or
  explicit skip of malformed or filtered DLQ payload": reaching the limit inside a batch commits the
  rest of the batch, and a dry run commits what it matched. `SkipsOnlyAtLimit` shows that
  these are the only ways to skip.

What `Pipeline` says for the good events holds: a repeated or replayed event that
was processed is not written again (`ProjectedOnce`), so only an event that was parked while a newer
one was projected can take the diploma back, and then for good once it is replayed
(`StaleRowWasParked` names the parked event as the only cause).

What a reader of `VerifyCache` should know: a row whose university code or number is not in normal form (`msu`)
is never found by number, and the API answers NOT_FOUND; a lookup by its token finds it and caches VALID under the
number too, so that lookups by number answer VALID until that entry expires, and again after the next lookup by
token. `StaleIsExplained` and `CacheConverges` name this case (`Misplaced`) and no other that lasts; no document says
that events come in normal form, or that they need not.

What a reader of `RateLimit` should know: a fixed window lets through up to one less than twice its limit in an
interval of its own length, plus its limit for each restart of Redis, plus every request whose calls all failed
(`PassesWithinLimit`); a call whose answer is
lost counts twice; and when the window is longer than a second and no whole number of seconds, `Retry-After` is a
second short (`WaitTicks`).

What a reader of `Rollout` should know: a replica that loses the race for a migration fails and gets past it at its
next start, so simultaneous starts cost restarts and nothing else; a consumer that is started before the
migrations parks good events once its retries are used up, and they need a replay (`ParkedAfterPatience`).

What a reader of `Accounts` should know: a session works on the diploma its account had at login,
also after the account was rebound to another one, and ends only by expiry (`StaleSessionsEnd`); a
second diploma with the same number takes the account over, so `ProcessedCanLogIn` promises a
diploma that was projected under the number and not each of them; and an event that corrects a number to
one without an account fails for as long as the id of its diploma is taken by the old number's account.

## Proofs

Each proof module extends the module it is about. The theorems hold for every value of the constants
that meets the assumptions the module names: bounds are natural numbers, special values are none of
the values they stand beside, and what is listed below. TLC evaluates the assumptions in every run.

| Module | Theorem | Statement |
|---|---|---|
| `ConsumerProofs` | `TypeCorrect`, `NoRecordIsLost` | `Spec => []TypeOK`, `Spec => []NoRecordLost` |
| | `CommitsAdvance` | `Spec => CommitNeverRewinds` |
| | `ConsumerImplementsContract` | `Spec => ImplementsContract` |
| | `ProcessedHasItsRows`, `ParkingTakesAllRetries` | `Spec => []ProcessedIsComplete`, `Spec => []ParkedAfterAllRetries` |
| | `DirtyRowsComeAgain` | `Alone /\ Spec => []UninvalidatedIsUnprocessed` |
| | `OnlyParkedRegress` | `Alone /\ Spec => RegressOnlyFromDLQ` |
| `ReplayerProofs` | `TypeCorrect`, `LimitIsRespected`, `OrderIsKept`, `CopiesAreFaults` | `Spec => []TypeOK`, `[]RunRespectsLimit`, `[]RunKeepsOrder`, `[]CopiesTakeFaults` |
| | `PassesOverAtLimitOnly` | `Spec => SkipsOnlyAtLimit` |
| `PipelineProofs` | `TypeCorrect`, `OnlyTheDLQTakesBack` | `Spec => []TypeOK`, `[]StaleRowWasParked` |
| | `ProcessedOnce` | `Spec => ProjectedOnce` |
| `VerifyCacheProofs` | `TypeCorrect` | `Spec => []TypeOK` |
| | `StaleHasAReason` | `SameKeys /\ Spec => []StaleIsExplained` |
| `ShareLinkProofs` | `TypeCorrect`, `NoViewIsLost`, `LimitIsKept`, `ViewsAreShown` | `Spec => []TypeOK`, `[]EveryViewIsCounted`, `[]ViewsWithinLimit`, `[]CountedIsShown` |
| | `RevocationIsFinal` | `Spec => RevocationSticks` |
| `AccountsProofs` | `TypeCorrect`, `SessionsKeepAccounts`, `ProcessedHasAccount`, `CallsAreOwned`, `LinksAreKnown` | `Spec => []TypeOK`, `[]SessionKeepsItsAccount`, `[]ProcessedCanLogIn`, `[]CallsNameTheirOwner`, `[]LinksAreAccounted` |
| `RolloutProofs` | `ServesMigrated` | `Spec => []ServingIsMigrated` |
| | `RolloutImplementsContract` | `Spec => ImplementsContract` |
| | `WaitsAsConfigured`, `ParksAfterPatience` | `Spec => []WaitAsConfigured`, `[]ParkedAfterPatience` |
| | `BackoffWithinMaximum` | `RetryBackoff(s, n) = Asked(s, n)`, which is in `0..s.max`, for all settings with `s.max > 0 /\ 2 * s.max <= MaxDuration` and attempts `n` |
| `RateLimitProofs` | `ResolvesTheClient` | `Resolve(a) = a.client` for every arrival `a` |
| | `TypeCorrect`, `RefusalsAreEarned`, `LimitHolds`, `WaitingIsEnough` | `Spec => []TypeOK`, `[]RefusalIsEarned`, `[]PassesWithinLimit`, `[]WaitingHelps` |

`ConsumerProofs`. Every event has a home partition, a row and a kind, and events of one row share a
partition. `NoRecordLost` is not inductive: `Commit` moves the offset to `position[p]`, so what counts is
what lies between the two. The invariant `IInv` adds `Covered`: every record up to
`position[p]` is settled or still in the owner's `todo`; `WorkerInv`: a process that handles a record
has it in `todo`, and between batches `todo` is empty; `LogInv`: `committed[p] <= position[p] <=
Len(log[p])`; and `StoreInv`, the kinds of the tables. A commit happens with an empty `todo`, so `Covered`
gives that everything up to `position[p]` is settled. A takeover sets `position[p]` back to
`committed[p]`, where `NoRecordLost` itself covers the new owner. The refinement needs one more fact, which
`LogInv` gives: the batch of every process, also of one that lost its partition, holds published records only. It
maps `Mark` to `Project`, `ParkRecord` to `Park`, `Publish` to `Produce`, `Commit` to `Commit` and everything
else to a stutter.

Its second half is about the read model. `Written` says what `Handle` has written by each of its stages, which makes
`ProcessedIsComplete` inductive for any number of processes. For the order of writes `Queue` and `First` say that a
process handles the first record of a partition in its batch and that everything before it is
settled, and `Older` that therefore everything before the record that wrote a row is. `DirtyRowsComeAgain` and
`OnlyParkedRegress` suppose a process alone in its group (`Alone`): a second one may mark an event between the check
and the write of the first (`consumer_duplicate`). Then an event found unprocessed is unprocessed when it writes
(`Unmarked`), and the mark of a diploma event comes after its deletes (`Deleted`). For the DLQ nobody has to be
alone: `Price` is what the parked records have cost, `Debts` the failures of the records that all processes have at hand,
each with its process, and `PInv` says that both together were paid for by faults. A failed call adds one debt and takes one
fault, a call that fails because of a signal costs nothing but ends the process, and parking turns the
`RetryAttempts + 1` debts of a process into the price of its record, or lets them go if another process parked it first.

`ReplayerProofs`. The limit needs `Counted`: what a run has put back is what it has counted, and nothing in a dry
run. The commits need `Covered`: what was fetched past the committed offset was put back, was not selected, or is
still in the batch. The order has to survive a rejoin, after which the run fetches again what it has put back already:
`Ordered` says that everything below a message it has put back is passed, so what is fetched a second time comes
before nothing new. Copies are rationed (`Rationed`): a record has one chance to be put back, from the batch or when
it is fetched, and every fault gives it at most one more.

`PipelineProofs`. `Published` says that an event first comes behind all those it supersedes, also in the DLQ;
`Handled`, that what the consumer has passed is settled and that the settled events are a prefix. So an
event that is projected over a newer one was parked.

`VerifyCacheProofs`. While `Handle` goes on no row changes, so a key it has deleted becomes stale again only by
a store over the new row, and that is excused: `ClearedIsExcused`. When the last key is deleted, all keys of the
diploma are cleared, provided that its events name the same keys in normal form (`SameKeys`); without this premise
the statement is false, as `verify_reissue` shows. A wrong entry (`Wrong`) is one that neither a row that matches
its key nor a row found by token gives; of the normal form only `NormalAssumption` is used, that taking it
twice is taking it once.

`ShareLinkProofs`. Projected rows are rows, and there are finitely many requests. A request writes what it computed
from the row it read before, so the properties of the row are not inductive. `Locked` says that a request about to
write holds the row lock and that what it read is still the row: `Select` establishes it, because it reads
and locks in one step; `Upsert` needs the free lock and disturbs nobody; `Commit` releases it.
`ResolvedRow` is the arithmetic of the update: one more view exactly if the view was
granted, never past the limit, never out of "revoked". `Budgeted` adds what the row still lets through to what was
granted. `EarlyInv` says that before the diploma arrives every view is an early one; `FindingChanges` follows
the number of requests that look for it.

`AccountsProofs`. Seeded accounts have the subject of their role and distinct keys, and the
migrations use no diploma id. The invariant is `Table` (the two unique keys of `auth_users`, id and
login with role, and a subject for each role), `Session` (the account a session was opened for is
still there under its id, and the claims have the subject of the role), `Bound` (what was
processed has an account bound to a diploma written under its number) and the last call. Both keys
are needed at once: the login key says that an upsert rebinds at most one account, the id key that
the profile of a session is one row. `UpsertKeepsTable` carries them over an upsert; all other
actions leave the table alone. `Accounted` is the same for the links of the registry.

`RolloutProofs`. A file is run by one open transaction at a time (`Alone`, because `Exec` waits), so whoever has
inserted its version is the only one to commit it, and all files before it were recorded when this replica passed
them (`Progress`). `OpenTx` says what is in a transaction at each stage, `InOrder` that what is installed and
recorded are the same first files.

The waits of the consumer are computed by a loop, a recursive function in the model. The theorems of the library on
recursive functions take an operator as a parameter, which the provers cannot instantiate; so `Recursion` proves
from the well-foundedness of the naturals that a function given by a first value and a step (itself a
function) unfolds. `BackoffAsAsked` then compares the loop, which doubles, wraps and cuts in each round, with the plain doubling
cut at the end: under `Fits` they agree. `BackoffWithinMaximum` says which maxima exclude an overflow altogether. `Waited` says that a consumer before its n-th retry has waited at least as long as the
waits up to it add up to, since its first try, and `Patient` the same of the parked events whose table came later;
a table that is there is never found missing, so an event is parked only if its table came after the last try.

`RateLimitProofs`. `ResolvesTheClient` is about the resolver alone: the last foreign address of the header is the client's,
since only proxies come after it, and without a foreign one the first is. So a counter belongs to one client and one
label (`RequestInv`), and `RefusalIsEarned` reduces to `Counted`: a counter shows no more than the calls recorded for its key
since it began. It began less than a window ago, because it expires, so a refusal over the limit has more than the
limit of calls in its window. `PassesWithinLimit` needs a bound for every interval and not only those that begin with
an answer. `Few` is that bound for the calls let through from a moment `t` on: what the counter of this moment and
those after it show, plus the limit for every counter that went. Inside an interval as long as the window a counter
goes by expiry once only, so its successor began inside the interval and outlives it; all others went by a restart.
A request that passes because Redis does not answer has met a fault in each of its attempts: `Met` are these faults,
`Debts` all of them together, and `Paid` says that they, and the restarts, were taken from the budget.
`WaitCovers` is the arithmetic of the two roundings of the window, for every window and every length of a second.

Only model-checked: liveness (`EverythingIsCommitted`, `CacheConverges`, `LimitedRunEnds`, `EveryRequestEnds`,
`EventuallyProjected`, `StaleSessionsEnd`, `EveryReplicaServes`), which under fairness is out of the prover's
reach. `DirtyRowsComeAgain`, `OnlyParkedRegress` and `StaleHasAReason` are proved under the premise in their statement
(one process, keys that do not change) and are not claimed without it. The arithmetic of the model with numbers of a
fixed width is proved under `Fits`; beyond it the properties promise nothing (a wait of 146 years).

## Not modelled

Metrics, traces and logs; message keys and headers; Kafka's own replication; the loss of committed PostgreSQL data.
In `Consumer` the waits between retries have no length (they have in `Rollout`), the contents of rows are
offsets of the records that wrote them, and the source log holds no replays; replays are the subject of
`Pipeline`, which in turn has one partition, one diploma and one process of each kind. A replayer shares its
group with no other. In `ShareLink` the diploma behind a link is there or not, and has no contents. In `Accounts`
the password, the name and the signature are left out, and the answers of the registry with them. In `RateLimit` a
remote address that does not parse, which the code counts under its text, the trimming of headers, and settings of
`max_retries` below -1 are left out. In `VerifyCache` a name or program is part of an answer whose trimming is left out. In `Rollout` reading the embedded files and the demonstration seeds (`seed.go`) are left out, and a replica that
serves does not look at the database again.

Not modelled at all, because there is no state or order in them for TLC to explore: the verification audit (one
best-effort insert whose error is logged), HTTP routing and rendering, observability, the set-up of clients, API
documents and scripts, and the loading and defaults of the configuration, whose rules appear as assumptions on the constants of
`RateLimit` and `Rollout`. `PROJECT.json` gives the reason for each.

## Plan

Done, in the order of importance: `DeliveryContract`, `Consumer`, `VerifyCache`, `Replayer`, `ShareLink`, `Pipeline`,
`Accounts`, `RateLimit`, `SchemaContract`, `Rollout`, and the eight proof modules, which state every safety
property the runs check. What is left:

1. An abstract limiter that `RateLimit` implements, and an abstract view counter for `ShareLink`.
2. The answers of the registry and their mapping to HTTP statuses, beside `Accounts`.

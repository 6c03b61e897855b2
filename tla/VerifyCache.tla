----------------------------- MODULE VerifyCache -----------------------------
(***************************************************************************)
(* The verification path of the API over the Redis cache, against the        *)
(* consumer that projects diploma events and invalidates that cache.         *)
(*                                                                         *)
(* API requests (usecase.Verify) look a diploma up by number and university  *)
(* code or by verification token: Redis first, then PostgreSQL, then the     *)
(* answer is stored. The projector (usecase.ProjectEvents.Handle) writes the  *)
(* row and then deletes the two keys named by the event. Nothing orders the  *)
(* two sides, and every error of a Set or a Delete is ignored.               *)
(*                                                                         *)
(* Requests, cache keys and answers use normal values (trimmed, the university *)
(* code in upper case). The projector writes values as they come, so a row may *)
(* not answer under its own keys: one found by its token need not be found by  *)
(* its number, under which that answer is stored all the same.               *)
(* Definitions introduced by "Mistake:" are not part of the specification.   *)
(***************************************************************************)
EXTENDS Naturals, FiniteSets

CONSTANTS
  Diplomas,   \* diploma ids
  Payloads,   \* Payloads[d]: what lifecycle events of d may say, records with
              \* fields token, number (with the university code), holder (with
              \* the program) and status
  Normal,     \* Normal[v]: the normal form of token or number v
  Requests,   \* concurrent API requests
  MaxEvents,  \* bound: projections attempted
  NoRow, NoEntry, NotFound

ASSUME MaxEventsAssumption == MaxEvents \in Nat

Contents == UNION {Payloads[d] : d \in Diplomas}

\* Trimming and upper-casing twice is doing it once.
ASSUME NormalAssumption ==
  \A x \in Contents : \A v \in {x.token, x.number} : Normal[Normal[v]] = Normal[v]

TokenKey(x)  == <<"token", Normal[x.token]>>
LookupKey(x) == <<"number", Normal[x.number]>>
KeysOf(x)    == {TokenKey(x), LookupKey(x)}
CacheKeys    == UNION {KeysOf(x) : x \in Contents}

\* NewDiploma refuses a row with another status (which stands here for a blank
\* field as well), and buildResult makes an answer of what it accepts.
Buildable(x) == x.status \in {"valid", "revoked"}
Answer(x) == [number |-> Normal[x.number], holder |-> x.holder, status |-> x.status]
Answers == {Answer(x) : x \in Contents} \union {NotFound}

VARIABLES
  row,      \* row[d]: the verification record of d, or NoRow
  cache,    \* cache[k]: the answer Redis holds under k, or NoEntry
  pc,       \* pc[q]: where request q stands
  key,      \* key[q]: the cache key request q looks up
  got,      \* got[q]: the answer request q read from PostgreSQL
  stage,    \* where Handle stands
  event,    \* the diploma and payload being projected
  pending,  \* diplomas whose row was written by a Handle that did not complete
  excused,  \* keys whose entry was stored after the row changed under it, or
            \* whose deletion failed since: history, not code
  budget    \* projections left

vars == <<row, cache, pc, key, got, stage, event, pending, excused, budget>>
request == <<pc, key, got>>
handler == <<stage, event, pending, budget>>

Init ==
  /\ row = [d \in Diplomas |-> NoRow]
  /\ cache = [k \in CacheKeys |-> NoEntry]
  /\ pc = [q \in Requests |-> "idle"]
  /\ key = [q \in Requests |-> NoEntry]
  /\ got = [q \in Requests |-> NotFound]
  /\ stage = "idle"
  /\ event = NoEntry
  /\ pending = {}
  /\ excused = {}
  /\ budget = MaxEvents

\* The values of row x that the queries compare with a normal one, as keys.
Columns(x) == {<<"token", x.token>>, <<"number", x.number>>}

\* What the read model answers under key k: a row that matches, or not found.
\* A row that NewDiploma refuses is an error and no answer.
Rows(k) == {row[d] : d \in {e \in Diplomas : row[e] # NoRow /\ k \in Columns(row[e])}}
FromReadModel(k) ==
  IF Rows(k) = {} THEN {NotFound} ELSE {Answer(x) : x \in {y \in Rows(k) : Buildable(y)}}

\* What it answers under the token of a row whose normal number is k.
ByToken(k) ==
  {Answer(row[d]) : d \in {e \in Diplomas :
     /\ row[e] # NoRow /\ Buildable(row[e])
     /\ TokenKey(row[e]) \in Columns(row[e]) /\ LookupKey(row[e]) = k}}

\* The cache answers k differently from the read model, and with what the read
\* model answers by token, because a number is stored in another form.
Stale(k) == cache[k] # NoEntry /\ cache[k] \notin FromReadModel(k)
Misplaced(k) == cache[k] \in ByToken(k)

-----------------------------------------------------------------------------
(***************************************************************************)
(* API requests. A cache hit changes nothing and is left out.               *)
(***************************************************************************)

\* fromCache finds no entry.
Miss(q, k) ==
  /\ pc[q] = "idle" /\ cache[k] = NoEntry
  /\ pc' = [pc EXCEPT ![q] = "find"]
  /\ key' = [key EXCEPT ![q] = k]
  /\ UNCHANGED <<row, cache, got, handler, excused>>

Forget(q) ==
  /\ pc' = [pc EXCEPT ![q] = "idle"]
  /\ key' = [key EXCEPT ![q] = NoEntry]
  /\ got' = [got EXCEPT ![q] = NotFound]

\* FindByNumberAndUniversityCode or FindByVerificationToken.
Find(q) ==
  /\ pc[q] = "find"
  /\ \/ /\ \E x \in FromReadModel(key[q]) : got' = [got EXCEPT ![q] = x]
        /\ pc' = [pc EXCEPT ![q] = "store"]
        /\ key' = key
     \/ (\E x \in Rows(key[q]) : ~Buildable(x)) /\ Forget(q)
  /\ UNCHANGED <<row, cache, handler, excused>>

\* toCache under key k; the entry may replace an older one, and Set may fail.
ToCache(q, k) ==
  /\ \/ /\ cache' = [cache EXCEPT ![k] = got[q]]
        /\ excused' = IF got[q] \in FromReadModel(k) \union ByToken(k)
                      THEN excused \ {k} ELSE excused \union {k}
     \/ UNCHANGED <<cache, excused>>

\* The answer is stored under the key it was looked up by; one that was found
\* by token is then stored under its number as well.
Store(q) ==
  /\ pc[q] = "store"
  /\ ToCache(q, key[q])
  /\ IF key[q][1] = "token" /\ got[q] # NotFound
     THEN pc' = [pc EXCEPT ![q] = "storeLookup"] /\ UNCHANGED <<key, got>>
     ELSE Forget(q)
  /\ UNCHANGED <<row, handler>>

StoreLookup(q) ==
  /\ pc[q] = "storeLookup"
  /\ ToCache(q, LookupKey(got[q]))
  /\ Forget(q)
  /\ UNCHANGED <<row, handler>>

\* A query fails, the client goes away or the API process ends.
Abandon(q) ==
  /\ pc[q] # "idle"
  /\ Forget(q)
  /\ UNCHANGED <<row, cache, handler, excused>>

\* Mistake: entries are stored without a TTL.
ExpireNever(k) ==
  /\ cache[k] # NoEntry
  /\ UNCHANGED vars

\* Redis expires or evicts an entry.
Expire(k) ==
  /\ cache[k] # NoEntry
  /\ cache' = [cache EXCEPT ![k] = NoEntry]
  /\ excused' = excused \ {k}
  /\ UNCHANGED <<row, request, handler>>

-----------------------------------------------------------------------------
(***************************************************************************)
(* Handle of a diploma event. Failed attempts are left where they stopped;    *)
(* what Consumer does with them (a retry, the DLQ, a redelivery) shows here   *)
(* as another event of the diploma, or none.                                 *)
(***************************************************************************)

\* UpsertVerificationRecord; the token is unique over the diplomas.
Upsert(d, x) ==
  /\ stage = "idle" /\ budget > 0
  /\ \A e \in Diplomas \ {d} : row[e] # NoRow => row[e].token # x.token
  /\ budget' = budget - 1
  /\ row' = [row EXCEPT ![d] = x]
  /\ event' = <<d, x>>
  /\ pending' = pending \union {d}
  /\ stage' = "auth"
  /\ UNCHANGED <<cache, request, excused>>

\* UpsertStudentAuthUser succeeds.
Auth ==
  /\ stage = "auth"
  /\ stage' = "deleteToken"
  /\ UNCHANGED <<row, cache, request, event, pending, excused, budget>>

\* One of the two deletes of invalidateVerificationCache; its error is ignored.
Delete(k) ==
  \/ cache' = [cache EXCEPT ![k] = NoEntry] /\ excused' = excused \ {k}
  \/ cache[k] # NoEntry /\ cache' = cache /\ excused' = excused \union {k}

DeleteToken ==
  /\ stage = "deleteToken"
  /\ Delete(TokenKey(event[2]))
  /\ stage' = "deleteLookup"
  /\ UNCHANGED <<row, request, event, pending, budget>>

\* Mistake: the key of the number is not deleted.
KeepLookup ==
  /\ stage = "deleteLookup"
  /\ Delete(TokenKey(event[2]))
  /\ stage' = "mark"
  /\ UNCHANGED <<row, request, event, pending, budget>>

DeleteLookup ==
  /\ stage = "deleteLookup"
  /\ Delete(LookupKey(event[2]))
  /\ stage' = "mark"
  /\ UNCHANGED <<row, request, event, pending, budget>>

\* MarkProcessed.
Mark ==
  /\ stage = "mark"
  /\ stage' = "idle"
  /\ event' = NoEntry
  /\ pending' = pending \ {event[1]}
  /\ UNCHANGED <<row, cache, request, excused, budget>>

\* A statement fails or the process ends: the rest of Handle does not happen.
Abort ==
  /\ stage # "idle"
  /\ stage' = "idle"
  /\ event' = NoEntry
  /\ UNCHANGED <<row, cache, request, pending, excused, budget>>

-----------------------------------------------------------------------------
Serve(q) == (\E k \in CacheKeys : Miss(q, k)) \/ Find(q) \/ Store(q) \/ StoreLookup(q)
Project  == (\E d \in Diplomas : \E x \in Payloads[d] : Upsert(d, x))
              \/ Auth \/ DeleteToken \/ DeleteLookup \/ Mark

Next ==
  \/ \E q \in Requests : Serve(q) \/ Abandon(q)
  \/ \E k \in CacheKeys : Expire(k)
  \/ Project
  \/ Abort

Spec == Init /\ [][Next]_vars

\* Requests are served to their end and entries outlive their TTL by no more
\* than Redis's expiry cycle (verify_ttl above zero).
Fairness ==
  /\ \A q \in Requests : WF_vars(Find(q) \/ Store(q) \/ StoreLookup(q))
  /\ \A k \in CacheKeys : WF_vars(Expire(k))

FairSpec == Spec /\ Fairness

-----------------------------------------------------------------------------
\* The variables hold values of the expected kind.
TypeOK ==
  /\ row \in [Diplomas -> Contents \union {NoRow}]
  /\ cache \in [CacheKeys -> Answers \union {NoEntry}]
  /\ pc \in [Requests -> {"idle", "find", "store", "storeLookup"}]
  /\ \A q \in Requests : pc[q] # "idle" => key[q] \in CacheKeys /\ got[q] \in Answers
  /\ stage \in {"idle", "auth", "deleteToken", "deleteLookup", "mark"}
  /\ stage # "idle" => event[1] \in pending /\ event[2] \in Payloads[event[1]]
  /\ pending \subseteq Diplomas
  /\ excused \subseteq CacheKeys
  /\ budget \in 0..MaxEvents

\* "Consumer invalidates Redis cache keys affected by the event": an entry that
\* disagrees with the read model is one a request stored over a newer row or one
\* Redis refused to delete, or belongs to a diploma whose event is not processed,
\* or it is what the read model answers by token for a number stored in another form.
StaleIsExplained ==
  \A k \in CacheKeys : Stale(k) =>
    \/ k \in excused
    \/ \E d \in pending : \E x \in Payloads[d] : k \in KeysOf(x)
    \/ Misplaced(k)

\* Once events stop, every entry of the cache agrees with the read model for
\* good, also after a failed delete, a late Set or an abandoned projection; only
\* answers by token come back under numbers stored in another form.
CacheConverges == <>[](\A k \in CacheKeys : Stale(k) => Misplaced(k))
=============================================================================

-------------------------- MODULE VerifyCacheProofs --------------------------
(***************************************************************************)
(* What VerifyCache guarantees for any diplomas, any number of requests and    *)
(* any sequence of projections, failed deletes and late stores: as long as no  *)
(* event changes the token or the number of a diploma, every stale entry has a *)
(* reason.                                                                  *)
(*                                                                         *)
(* The argument is about wrong entries: those the read model gives neither by   *)
(* number nor by token. While Handle goes on no row changes, so a key it has   *)
(* deleted can only become wrong again by a store over the new row, which      *)
(* excuses it. A row matters for its own keys alone, because normal values are *)
(* their own normal form.                                                    *)
(***************************************************************************)
EXTENDS VerifyCache, TLAPS

\* The kinds of a request's registers, and what a row and a second store rest on.
RegistersOK ==
  /\ key \in [Requests -> CacheKeys \union {NoEntry}]
  /\ got \in [Requests -> Answers]
  /\ \A q \in Requests : pc[q] = "storeLookup" => got[q] # NotFound
  /\ \A d \in Diplomas : row[d] \in Payloads[d] \union {NoRow}

\* The keys the Handle under way has deleted, or tried to.
Cleared(k) ==
  \/ stage \in {"deleteLookup", "mark"} /\ k = TokenKey(event[2])
  \/ stage = "mark" /\ k = LookupKey(event[2])

\* The read model does not give the entry under k, by number or by token.
Offered(k) == FromReadModel(k) \union ByToken(k)
Wrong(k) == cache[k] # NoEntry /\ cache[k] \notin Offered(k)

ClearedIsExcused == \A k \in CacheKeys : Cleared(k) /\ Wrong(k) => k \in excused

\* A wrong entry has a reason other than the form of a stored number.
WrongIsExplained ==
  \A k \in CacheKeys : Wrong(k) =>
    k \in excused \/ \E d \in pending : \E x \in Payloads[d] : k \in KeysOf(x)

Kept == WrongIsExplained /\ ClearedIsExcused

\* Events of one diploma name the same keys.
SameKeys == \A d \in Diplomas : \A x, y \in Payloads[d] : KeysOf(x) = KeysOf(y)

-----------------------------------------------------------------------------
\* The keys of a payload are keys of the cache.
LEMMA KeysAreCacheKeys ==
  ASSUME NEW x \in Contents PROVE TokenKey(x) \in CacheKeys /\ LookupKey(x) \in CacheKeys
BY DEF CacheKeys, KeysOf

\* A row answers under no cache keys but its own.
LEMMA ColumnsAreKeys ==
  ASSUME NEW x \in Contents, NEW k \in CacheKeys, k \in Columns(x) PROVE k \in KeysOf(x)
<1>1. PICK y \in Contents : k \in KeysOf(y)
  BY DEF CacheKeys
<1>2. CASE k = TokenKey(y)
  <2>1. k = <<"token", x.token>> /\ x.token = Normal[y.token]
    BY <1>2 DEF Columns, TokenKey
  <2>2. Normal[x.token] = x.token
    BY <2>1, NormalAssumption
  <2>3. QED BY <2>1, <2>2 DEF KeysOf, TokenKey
<1>3. CASE k = LookupKey(y)
  <2>1. k = <<"number", x.number>> /\ x.number = Normal[y.number]
    BY <1>3 DEF Columns, LookupKey
  <2>2. Normal[x.number] = x.number
    BY <2>1, NormalAssumption
  <2>3. QED BY <2>1, <2>2 DEF KeysOf, LookupKey
<1>4. QED BY <1>1, <1>2, <1>3 DEF KeysOf

\* An answer is stored under the number of its row.
LEMMA AnswerKey ==
  ASSUME NEW a \in Answers, a # NotFound PROVE LookupKey(a) \in CacheKeys
<1>1. PICK x \in Contents : a = Answer(x)
  BY DEF Answers
<1>2. LookupKey(a) = LookupKey(x)
  BY <1>1, NormalAssumption DEF Answer, LookupKey
<1>3. QED BY <1>2, KeysAreCacheKeys

\* The read model answers with what a payload says or with not found.
LEMMA ReadModelAnswers ==
  ASSUME TypeOK, NEW k PROVE FromReadModel(k) \subseteq Answers
BY DEF TypeOK, FromReadModel, Rows, Answers

LEMMA InitTypes == Init => TypeOK /\ RegistersOK
BY MaxEventsAssumption DEF Init, TypeOK, RegistersOK, Answers

\* A store of q changes one entry, to q's answer.
LEMMA ToCacheTypes ==
  ASSUME TypeOK, NEW q \in Requests, NEW k \in CacheKeys, got[q] \in Answers, ToCache(q, k)
  PROVE  cache' \in [CacheKeys -> Answers \union {NoEntry}] /\ excused' \subseteq CacheKeys
BY DEF TypeOK, ToCache

\* Requests keep the kinds of the variables.
LEMMA RequestTypes ==
  ASSUME TypeOK, RegistersOK, NEW q \in Requests, Serve(q) \/ Abandon(q)
  PROVE  TypeOK' /\ RegistersOK'
<1>1. CASE \E k \in CacheKeys : Miss(q, k)
  BY <1>1 DEF TypeOK, RegistersOK, Miss, handler
<1>2. CASE Find(q)
  <2>1. NotFound \in Answers /\ UNCHANGED <<row, cache, handler, excused>> /\ pc[q] = "find"
    BY <1>2 DEF Find, Answers
  <2>2. CASE Forget(q)
    BY <2>1, <2>2 DEF TypeOK, RegistersOK, Forget, handler
  <2>3. CASE ~Forget(q)
    <3>1. PICK x \in FromReadModel(key[q]) : got' = [got EXCEPT ![q] = x]
      BY <1>2, <2>3 DEF Find
    <3>2. pc' = [pc EXCEPT ![q] = "store"] /\ key' = key
      BY <1>2, <2>3 DEF Find
    <3>3. x \in Answers
      BY <3>1, ReadModelAnswers
    <3>4. QED BY <2>1, <3>1, <3>2, <3>3 DEF TypeOK, RegistersOK, handler
  <2>4. QED BY <2>2, <2>3
<1>3. CASE Store(q)
  <2>1. got[q] \in Answers /\ key[q] \in CacheKeys /\ NotFound \in Answers
    BY <1>3 DEF Store, TypeOK, Answers
  <2>2. cache' \in [CacheKeys -> Answers \union {NoEntry}] /\ excused' \subseteq CacheKeys
    BY <1>3, <2>1, ToCacheTypes DEF Store
  <2>3. QED BY <1>3, <2>1, <2>2 DEF TypeOK, RegistersOK, Store, Forget, handler
<1>4. CASE StoreLookup(q)
  <2>1. got[q] \in Answers \ {NotFound} /\ NotFound \in Answers
    BY <1>4 DEF StoreLookup, TypeOK, RegistersOK, Answers
  <2>2. cache' \in [CacheKeys -> Answers \union {NoEntry}] /\ excused' \subseteq CacheKeys
    BY <1>4, <2>1, AnswerKey, ToCacheTypes DEF StoreLookup
  <2>3. QED BY <1>4, <2>1, <2>2 DEF TypeOK, RegistersOK, StoreLookup, Forget, handler
<1>5. CASE Abandon(q)
  BY <1>5 DEF TypeOK, RegistersOK, Abandon, Forget, handler, Answers
<1>6. QED BY <1>1, <1>2, <1>3, <1>4, <1>5 DEF Serve

\* The event under way says something about a diploma.
LEMMA EventContents ==
  ASSUME TypeOK, stage # "idle" PROVE event[2] \in Contents /\ event[1] \in Diplomas
BY DEF TypeOK, Contents

\* The projector keeps the kinds of the variables.
LEMMA ProjectTypes ==
  ASSUME TypeOK, RegistersOK, Project \/ Abort PROVE TypeOK' /\ RegistersOK'
<1>1. ASSUME NEW d \in Diplomas, NEW x \in Payloads[d], Upsert(d, x) PROVE TypeOK' /\ RegistersOK'
  <2>1. x \in Contents /\ event'[1] = d /\ event'[2] = x /\ budget - 1 \in 0..MaxEvents
    BY <1>1, MaxEventsAssumption DEF Upsert, Contents, TypeOK
  <2>2. TypeOK'
    BY <1>1, <2>1 DEF TypeOK, Upsert, request
  <2>3. RegistersOK'
    BY <1>1, <2>1 DEF TypeOK, RegistersOK, Upsert, request
  <2>4. QED BY <2>2, <2>3
<1>2. CASE Auth
  BY <1>2 DEF TypeOK, RegistersOK, Auth, request
<1>3. ASSUME NEW k \in CacheKeys, Delete(k)
      PROVE  cache' \in [CacheKeys -> Answers \union {NoEntry}] /\ excused' \subseteq CacheKeys
  BY <1>3 DEF TypeOK, Delete
<1>4. CASE DeleteToken \/ DeleteLookup
  <2>1. cache' \in [CacheKeys -> Answers \union {NoEntry}] /\ excused' \subseteq CacheKeys
    BY <1>3, <1>4, EventContents, KeysAreCacheKeys DEF DeleteToken, DeleteLookup
  <2>2. QED BY <1>4, <2>1 DEF TypeOK, RegistersOK, DeleteToken, DeleteLookup, request
<1>5. CASE Mark
  BY <1>5 DEF TypeOK, RegistersOK, Mark, request
<1>6. CASE Abort
  BY <1>6 DEF TypeOK, RegistersOK, Abort, request
<1>7. QED BY <1>1, <1>2, <1>4, <1>5, <1>6 DEF Project

LEMMA NextTypes == TypeOK /\ RegistersOK /\ [Next]_vars => TypeOK' /\ RegistersOK'
<1> SUFFICES ASSUME TypeOK, RegistersOK, [Next]_vars PROVE TypeOK' /\ RegistersOK'
  OBVIOUS
<1>1. ASSUME NEW k \in CacheKeys, Expire(k) PROVE TypeOK' /\ RegistersOK'
  BY <1>1 DEF TypeOK, RegistersOK, Expire, request, handler
<1>2. CASE UNCHANGED vars
  BY <1>2 DEF TypeOK, RegistersOK, vars
<1>3. QED BY <1>1, <1>2, RequestTypes, ProjectTypes DEF Next

\* The variables keep their kinds.
THEOREM TypeCorrect == Spec => []TypeOK
<1>1. Init => TypeOK /\ RegistersOK
  BY InitTypes
<1>2. TypeOK /\ RegistersOK /\ [Next]_vars => (TypeOK /\ RegistersOK)'
  BY NextTypes
<1>3. QED BY <1>1, <1>2, PTL DEF Spec

-----------------------------------------------------------------------------
\* As long as no row changes, the read model gives the same.
LEMMA SameRows ==
  ASSUME row' = row
  PROVE  /\ \A k : Offered(k)' = Offered(k)
         /\ cache' = cache => \A k \in CacheKeys : Wrong(k)' <=> Wrong(k)
<1>1. \A k : Rows(k)' = Rows(k) /\ ByToken(k)' = ByToken(k)
  BY DEF Rows, ByToken
<1>2. \A k : Offered(k)' = Offered(k)
  BY <1>1 DEF Offered, FromReadModel
<1>3. QED BY <1>2 DEF Wrong

\* A step that leaves the rows and the event under way alone, and makes an entry
\* stale only by excusing it.
LEMMA QuietStep ==
  ASSUME Kept, UNCHANGED <<row, stage, event, pending>>,
         \A k \in CacheKeys : Wrong(k)' => k \in excused' \/ (Wrong(k) /\ k \notin excused)
  PROVE  Kept'
<1>1. \A k \in CacheKeys : Cleared(k)' <=> Cleared(k)
  BY DEF Cleared
<1>2. ClearedIsExcused'
  BY <1>1 DEF Kept, ClearedIsExcused
<1>3. WrongIsExplained'
  BY DEF Kept, WrongIsExplained
<1>4. QED BY <1>2, <1>3 DEF Kept

\* What a store makes stale it excuses.
LEMMA ToCacheExcuses ==
  ASSUME TypeOK, NEW q \in Requests, NEW j \in CacheKeys, ToCache(q, j), row' = row
  PROVE  \A k \in CacheKeys : Wrong(k)' => k \in excused' \/ (Wrong(k) /\ k \notin excused)
<1>1. \A k \in CacheKeys : Offered(k)' = Offered(k)
  BY SameRows
<1>2. SUFFICES ASSUME NEW k \in CacheKeys, Wrong(k)'
               PROVE  k \in excused' \/ (Wrong(k) /\ k \notin excused)
  OBVIOUS
<1>3. CASE UNCHANGED <<cache, excused>>
  BY <1>1, <1>2, <1>3 DEF Wrong
<1>4. CASE /\ cache' = [cache EXCEPT ![j] = got[q]]
           /\ excused' = IF got[q] \in Offered(j) THEN excused \ {j}
                         ELSE excused \union {j}
  <2>1. CASE k = j
    BY <1>1, <1>2, <1>4, <2>1 DEF Wrong, TypeOK
  <2>2. CASE k # j
    BY <1>1, <1>2, <1>4, <2>2 DEF Wrong, TypeOK
  <2>3. QED BY <2>1, <2>2
<1>5. QED BY <1>3, <1>4 DEF ToCache, Offered

\* A deleted entry is not stale, one that was not deleted is excused.
LEMMA DeleteExcuses ==
  ASSUME TypeOK, NEW j \in CacheKeys, Delete(j), row' = row
  PROVE  /\ \A k \in CacheKeys : Wrong(k)' => k \in excused' \/ (Wrong(k) /\ k \notin excused)
         /\ Wrong(j)' => j \in excused'
<1>1. \A k \in CacheKeys : Offered(k)' = Offered(k)
  BY SameRows
<1>2. ASSUME NEW k \in CacheKeys, Wrong(k)'
      PROVE  IF k = j THEN k \in excused' ELSE k \in excused' \/ (Wrong(k) /\ k \notin excused)
  BY <1>1, <1>2 DEF Delete, Wrong, TypeOK
<1>3. QED BY <1>2

\* Requests, and Redis on its own.
LEMMA RequestKept ==
  ASSUME TypeOK, RegistersOK, Kept,
         (\E q \in Requests : Serve(q) \/ Abandon(q)) \/ (\E k \in CacheKeys : Expire(k))
  PROVE  Kept'
<1>1. ASSUME UNCHANGED <<row, cache, excused, stage, event, pending>> PROVE Kept'
  BY <1>1, SameRows DEF Kept, WrongIsExplained, ClearedIsExcused, Cleared
<1>2. ASSUME NEW q \in Requests, (\E k \in CacheKeys : Miss(q, k)) \/ Find(q) \/ Abandon(q)
      PROVE  Kept'
  BY <1>1, <1>2 DEF Miss, Find, Abandon, handler
<1>3. ASSUME NEW q \in Requests, Store(q) PROVE Kept'
  <2>1. key[q] \in CacheKeys /\ ToCache(q, key[q])
    BY <1>3 DEF Store, TypeOK
  <2>2. UNCHANGED <<row, stage, event, pending>>
    BY <1>3 DEF Store, handler
  <2>3. QED BY <2>1, <2>2, ToCacheExcuses, QuietStep
<1>4. ASSUME NEW q \in Requests, StoreLookup(q) PROVE Kept'
  <2>1. got[q] \in Answers \ {NotFound}
    BY <1>4 DEF StoreLookup, TypeOK, RegistersOK
  <2>2. UNCHANGED <<row, stage, event, pending>> /\ ToCache(q, LookupKey(got[q]))
    BY <1>4 DEF StoreLookup, handler
  <2>3. QED BY <2>1, <2>2, AnswerKey, ToCacheExcuses, QuietStep
<1>5. ASSUME NEW j \in CacheKeys, Expire(j) PROVE Kept'
  <2>1. UNCHANGED <<row, stage, event, pending>>
    BY <1>5 DEF Expire, handler
  <2>2. \A k \in CacheKeys : Wrong(k)' => k \in excused' \/ (Wrong(k) /\ k \notin excused)
    BY <1>5, SameRows DEF Expire, Wrong, TypeOK
  <2>3. QED BY <2>1, <2>2, QuietStep
<1>6. QED BY <1>2, <1>3, <1>4, <1>5 DEF Serve

\* Only the keys of the old row and of the new one get another answer.
LEMMA UpsertKept ==
  ASSUME TypeOK, RegistersOK, Kept, NEW d \in Diplomas, NEW x \in Payloads[d], Upsert(d, x)
  PROVE  Kept'
<1>1. /\ row' = [row EXCEPT ![d] = x] /\ pending' = pending \union {d} /\ stage' = "auth"
      /\ UNCHANGED <<cache, excused>>
  BY DEF Upsert
<1>2. ClearedIsExcused'
  BY <1>1 DEF ClearedIsExcused, Cleared
<1>3. ASSUME NEW k \in CacheKeys, Wrong(k)'
      PROVE  k \in excused' \/ \E e \in pending' : \E y \in Payloads[e] : k \in KeysOf(y)
  <2>1. CASE \E y \in Payloads[d] : k \in KeysOf(y)
    BY <1>1, <2>1
  <2>2. CASE \A y \in Payloads[d] : k \notin KeysOf(y)
    <3>1. k \notin KeysOf(x) /\ (row[d] = NoRow \/ k \notin KeysOf(row[d]))
      BY <2>2 DEF RegistersOK
    <3>2. k \notin Columns(x) /\ (row[d] = NoRow \/ k \notin Columns(row[d]))
      BY <3>1, ColumnsAreKeys DEF TypeOK, Contents
    <3>3. Rows(k)' = Rows(k)
      BY <1>1, <3>2 DEF Rows, TypeOK
    <3>4. LookupKey(x) # k /\ (row[d] = NoRow \/ LookupKey(row[d]) # k)
      BY <3>1 DEF KeysOf
    <3>5. ByToken(k)' = ByToken(k)
      BY <1>1, <3>4 DEF ByToken, TypeOK
    <3>6. Wrong(k)
      BY <1>1, <1>3, <3>3, <3>5 DEF Wrong, Offered, FromReadModel
    <3>7. QED BY <1>1, <3>6 DEF Kept, WrongIsExplained
  <2>3. QED BY <2>1, <2>2
<1>4. QED BY <1>2, <1>3 DEF Kept, WrongIsExplained

\* A deleted key joins those that are cleared.
LEMMA DeleteKept ==
  ASSUME TypeOK, Kept, DeleteToken \/ DeleteLookup PROVE Kept'
<1>1. /\ UNCHANGED <<row, event, pending>>
      /\ stage # "idle" /\ stage' \notin {"idle", "auth", "deleteToken"}
  BY DEF DeleteToken, DeleteLookup
<1>2. PICK j \in CacheKeys :
        /\ Delete(j)
        /\ \A k \in CacheKeys : Cleared(k)' => Cleared(k) \/ k = j
  BY <1>1, EventContents, KeysAreCacheKeys DEF DeleteToken, DeleteLookup, Cleared
<1>3. \A k \in CacheKeys : Wrong(k)' => k \in excused' \/ (Wrong(k) /\ k \notin excused)
  BY <1>1, <1>2, DeleteExcuses
<1>4. Wrong(j)' => j \in excused'
  BY <1>1, <1>2, DeleteExcuses
<1>5. ClearedIsExcused'
  BY <1>2, <1>3, <1>4 DEF Kept, ClearedIsExcused
<1>6. WrongIsExplained'
  BY <1>1, <1>3 DEF Kept, WrongIsExplained
<1>7. QED BY <1>5, <1>6 DEF Kept

\* When Handle completes, the keys of the diploma are all cleared.
LEMMA MarkKept ==
  ASSUME TypeOK, SameKeys, Kept, Mark PROVE Kept'
<1>1. /\ stage = "mark" /\ stage' = "idle" /\ pending' = pending \ {event[1]}
      /\ UNCHANGED <<row, cache, excused>>
  BY DEF Mark, request
<1>2. ClearedIsExcused'
  BY <1>1 DEF ClearedIsExcused, Cleared
<1>3. ASSUME NEW k \in CacheKeys, Wrong(k)'
      PROVE  k \in excused' \/ \E d \in pending' : \E x \in Payloads[d] : k \in KeysOf(x)
  <2>1. Wrong(k)
    BY <1>1, <1>3, SameRows
  <2>2. CASE \E x \in Payloads[event[1]] : k \in KeysOf(x)
    <3>1. k \in KeysOf(event[2])
      BY <1>1, <2>2, EventContents DEF TypeOK, SameKeys
    <3>2. QED BY <1>1, <2>1, <3>1 DEF Kept, ClearedIsExcused, Cleared, KeysOf
  <2>3. CASE ~ \E x \in Payloads[event[1]] : k \in KeysOf(x)
    BY <1>1, <2>1, <2>3 DEF Kept, WrongIsExplained
  <2>4. QED BY <2>2, <2>3
<1>4. QED BY <1>2, <1>3 DEF Kept, WrongIsExplained

LEMMA NextKept ==
  SameKeys /\ TypeOK /\ RegistersOK /\ Kept /\ [Next]_vars => Kept'
<1> SUFFICES ASSUME SameKeys, TypeOK, RegistersOK, Kept, [Next]_vars PROVE Kept'
  OBVIOUS
<1>1. ASSUME UNCHANGED <<row, cache, excused, pending>>, \A k \in CacheKeys : ~Cleared(k)'
      PROVE  Kept'
  BY <1>1, SameRows DEF Kept, WrongIsExplained, ClearedIsExcused
<1>2. CASE Auth \/ Abort
  BY <1>1, <1>2 DEF Auth, Abort, Cleared
<1>3. CASE UNCHANGED vars
  BY <1>3, SameRows DEF vars, Kept, WrongIsExplained, ClearedIsExcused, Cleared
<1>4. QED BY <1>2, <1>3, RequestKept, UpsertKept, DeleteKept, MarkKept DEF Next, Project

\* If no event changes the keys of a diploma, an entry disagrees with the read
\* model only if a request stored it over a newer row, Redis refused to delete it,
\* an event of the diploma is not processed, or a number is stored in another form
\* and the entry is what the read model answers by token.
THEOREM StaleHasAReason == SameKeys /\ Spec => []StaleIsExplained
<1>1. Init => TypeOK /\ RegistersOK /\ Kept
  <2>1. Init => Kept
    BY DEF Init, Kept, WrongIsExplained, ClearedIsExcused, Cleared, Wrong
  <2>2. QED BY <2>1, InitTypes
<1>2. SameKeys /\ TypeOK /\ RegistersOK /\ Kept /\ [Next]_vars => (TypeOK /\ RegistersOK /\ Kept)'
  BY NextTypes, NextKept
<1>3. Kept => StaleIsExplained
  BY DEF Kept, WrongIsExplained, StaleIsExplained, Wrong, Offered, Stale, Misplaced
<1>4. SameKeys => SameKeys'
  BY DEF SameKeys
<1>5. QED BY <1>1, <1>2, <1>3, <1>4, PTL DEF Spec
=============================================================================

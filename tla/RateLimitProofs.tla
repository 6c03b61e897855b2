--------------------------- MODULE RateLimitProofs ---------------------------
(***************************************************************************)
(* Theorems about RateLimit, for every number of requests, every limit and   *)
(* window, every header a client may carry and every chain of trusted proxies. *)
(*                                                                         *)
(* The argument: the resolver finds the client, so that a counter counts the  *)
(* calls of one client for one route. What it shows has been counted since it   *)
(* began, less than a window ago, which is why a refusal is earned. What is let *)
(* through from any moment on is bounded by what the counter of this moment and *)
(* those after it show; a second one begins by expiry once, and else by a       *)
(* restart of Redis. What passes without an answer took as many failed calls as *)
(* the client library makes.                                               *)
(***************************************************************************)
EXTENDS RateLimit, FiniteSetTheorems, TLAPS

-----------------------------------------------------------------------------
(***************************************************************************)
(* The window.                                                             *)
(***************************************************************************)

LEMMA Division ==
  ASSUME NEW n \in Nat, NEW d \in Nat \ {0}
  PROVE  /\ n \div d \in Nat
         /\ (n \div d) * d <= n
         /\ n < (n \div d) * d + d
         /\ n % d = n - (n \div d) * d
OBVIOUS

\* The quotient is the only number with these bounds.
LEMMA QuotientIs ==
  ASSUME NEW a \in Nat, NEW b \in Nat, NEW d \in Nat \ {0},
         a * d < b * d + d
  PROVE  a <= b
<1>1. SUFFICES ASSUME a >= b + 1 PROVE FALSE
  OBVIOUS
<1>2. (b + 1) * d = b * d + d
  OBVIOUS
<1>3. PICK m \in Nat : a = (b + 1) + m
  <2>1. a - (b + 1) \in Nat /\ a = (b + 1) + (a - (b + 1))
    BY <1>1
  <2>2. QED BY <2>1
<1>4. a * d = (b + 1) * d + m * d /\ m * d \in Nat
  BY <1>3
<1>5. QED BY <1>2, <1>4

\* A key lives at least as long as the window, and less than a second longer.
LEMMA LifetimeBounds ==
  ASSUME config \in Configs
  PROVE  /\ config.window \in Nat /\ Second \in Nat \ {0}
         /\ WindowSeconds \in Nat /\ Lifetime \in Nat
         /\ config.window <= Lifetime /\ Lifetime < config.window + Second
         /\ config.window > 0 => Lifetime > 0
<1>1. config.window \in Nat /\ Second \in Nat \ {0}
  BY ConfigsAssumption, SecondAssumption
<1> DEFINE n == config.window + Second - 1
<1>2. n \in Nat
  BY <1>1
<1>3. /\ n \div Second \in Nat
      /\ (n \div Second) * Second <= n
      /\ n < (n \div Second) * Second + Second
  BY <1>1, <1>2, Division
<1>4. WindowSeconds = n \div Second /\ Lifetime = (n \div Second) * Second
  BY DEF WindowSeconds, Lifetime
<1>5. (n \div Second) * Second \in Nat
  BY <1>1, <1>3
<1>6. QED BY <1>1, <1>3, <1>4, <1>5

\* Whoever waits as the answer says has waited for as long as the key lives.
LEMMA WaitCovers ==
  ASSUME config \in Configs, config.window > 0
  PROVE  WaitTicks \in Nat /\ Lifetime <= WaitTicks
<1> DEFINE w == config.window
           q == w \div Second
           s == WindowSeconds
<1>1. /\ w \in Nat /\ Second \in Nat \ {0} /\ s \in Nat
      /\ Lifetime = s * Second /\ Lifetime \in Nat
      /\ w <= Lifetime /\ Lifetime < w + Second
  BY LifetimeBounds DEF Lifetime
<1>2. q \in Nat /\ q * Second <= w /\ w < q * Second + Second /\ w % Second = w - q * Second
  BY <1>1, Division
<1>3. q * Second \in Nat /\ (q + 1) * Second = q * Second + Second
  BY <1>1, <1>2
<1>4. CASE w <= Second
  <2>1. WaitTicks = Second
    <3>1. CASE w < Second
      BY <1>1, <3>1 DEF WaitTicks, RetryAfter, Rounded
    <3>2. CASE w = Second
      <4>1. q = 1
        BY <1>1, <3>2
      <4>2. RetryAfter = 1 /\ ~Rounded
        BY <1>1, <3>2, <4>1 DEF RetryAfter, Rounded
      <4>3. QED BY <1>1, <4>2 DEF WaitTicks
    <3>3. QED BY <1>1, <1>4, <3>1, <3>2
  <2>2. s * Second < 1 * Second + Second
    BY <1>1, <1>4
  <2>3. s <= 1
    BY <1>1, <2>2, QuotientIs
  <2>4. Lifetime <= Second
    <3>1. s = 0 \/ s = 1
      BY <1>1, <2>3
    <3>2. QED BY <1>1, <3>1
  <2>5. QED BY <1>1, <2>1, <2>4
<1>5. CASE w > Second /\ w % Second # 0
  <2>1. WaitTicks = (q + 1) * Second
    BY <1>1, <1>5 DEF WaitTicks, RetryAfter, Rounded
  <2>2. s * Second < (q + 1) * Second + Second
    BY <1>1, <1>2, <1>3
  <2>3. s <= q + 1
    BY <1>1, <1>2, <2>2, QuotientIs
  <2>4. s * Second <= (q + 1) * Second
    BY <1>1, <1>2, <2>3
  <2>5. QED BY <1>1, <1>3, <2>1, <2>4
<1>6. CASE w > Second /\ w % Second = 0
  <2>1. WaitTicks = q * Second
    BY <1>1, <1>6 DEF WaitTicks, RetryAfter, Rounded
  <2>2. s * Second < q * Second + Second
    BY <1>1, <1>2, <1>6
  <2>3. s <= q
    BY <1>1, <1>2, <2>2, QuotientIs
  <2>4. s * Second <= q * Second
    BY <1>1, <1>2, <2>3
  <2>5. QED BY <1>1, <1>3, <2>1, <2>4
<1>7. QED BY <1>1, <1>4, <1>5, <1>6

-----------------------------------------------------------------------------
(***************************************************************************)
(* The address.                                                            *)
(***************************************************************************)

LEMMA MaxOf ==
  ASSUME NEW S, S \subseteq Nat, NEW m \in S, \A n \in S : n <= m
  PROVE  Max(S) = m
<1>1. m \in S /\ \A y \in S : m >= y
  OBVIOUS
<1>2. Max(S) \in S /\ \A y \in S : Max(S) >= y
  BY <1>1 DEF Max
<1>3. Max(S) \in Nat /\ m \in Nat /\ Max(S) >= m /\ Max(S) <= m
  BY <1>2
<1>4. QED BY <1>3

LEMMA MinOf ==
  ASSUME NEW S, S \subseteq Nat, NEW m \in S, \A n \in S : m <= n
  PROVE  Min(S) = m
<1>1. m \in S /\ \A y \in S : m <= y
  OBVIOUS
<1>2. Min(S) \in S /\ \A y \in S : Min(S) <= y
  BY <1>1 DEF Min
<1>3. Min(S) \in Nat /\ m \in Nat /\ Min(S) <= m /\ Min(S) >= m
  BY <1>2
<1>4. QED BY <1>3

\* Whatever came before, the last address that is no proxy's is found.
LEMMA LastForeign ==
  ASSUME NEW header, NEW n \in Nat, DOMAIN header = 1..n, NEW i \in 1..n,
         header[i] \in Addresses \ Trusted,
         \A j \in 1..n : j > i => header[j] \in Trusted
  PROVE  ForwardedFor(header) = header[i]
<1> DEFINE valid == {j \in DOMAIN header : header[j] # Junk}
           foreign == {j \in valid : header[j] \notin Trusted}
<1>1. foreign \subseteq Nat /\ i \in foreign
  BY AddressAssumption
<1>2. \A j \in foreign : j <= i
  OBVIOUS
<1>3. Max(foreign) = i
  BY <1>1, <1>2, MaxOf
<1>4. QED BY <1>1, <1>3 DEF ForwardedFor

\* If all of them are proxies, the first one is.
LEMMA FirstOfProxies ==
  ASSUME NEW header, NEW n \in Nat \ {0}, DOMAIN header = 1..n,
         \A j \in 1..n : header[j] \in Trusted
  PROVE  ForwardedFor(header) = header[1]
<1> DEFINE valid == {j \in DOMAIN header : header[j] # Junk}
           foreign == {j \in valid : header[j] \notin Trusted}
<1>1. valid = 1..n /\ foreign = {}
  BY AddressAssumption
<1>2. valid \subseteq Nat /\ 1 \in valid /\ \A j \in valid : 1 <= j
  BY <1>1
<1>3. Min(valid) = 1
  BY <1>2, MinOf
<1>4. QED BY <1>1, <1>2, <1>3 DEF ForwardedFor

\* The resolver finds the client's address, whatever header the client sent and
\* however many proxies it went through: nobody can be charged for another's calls,
\* or have its own charged to another.
THEOREM ResolvesTheClient == \A a \in Arrivals : Resolve(a) = a.client
<1> SUFFICES ASSUME NEW a \in Arrivals PROVE Resolve(a) = a.client
  OBVIOUS
<1> DEFINE n == Len(a.forwarded)
<1>1. a.client \in Addresses /\ n \in Nat /\ DOMAIN a.forwarded = 1..n
  BY ArrivalsAssumption
<1>2. CASE FromOutside(a)
  <2>1. CASE a.remote = a.client
    BY <1>2, <2>1 DEF FromOutside, Resolve
  <2>2. CASE a.remote # a.client
    <3>1. PICK i \in 1..n : /\ a.forwarded[i] = a.client
                            /\ \A j \in 1..n : j > i => a.forwarded[j] \in Trusted
      BY <1>1, <1>2, <2>2 DEF FromOutside, Header
    <3>2. a.client \notin Trusted /\ a.remote \in Trusted
      BY <1>2, <2>2 DEF FromOutside
    <3>3. ForwardedFor(a.forwarded) = a.client
      BY <1>1, <3>1, <3>2, LastForeign
    <3>4. QED BY <1>1, <3>2, <3>3, AddressAssumption DEF Resolve
  <2>3. QED BY <2>1, <2>2
<1>3. CASE FromProxy(a)
  <2>1. /\ a.client \in Trusted /\ a.remote \in Trusted /\ a.real = Nobody
        /\ \A j \in 1..n : a.forwarded[j] \in Trusted
    BY <1>1, <1>3 DEF FromProxy, Header
  <2>2. CASE DOMAIN a.forwarded = {}
    <3>1. ForwardedFor(a.forwarded) = Nobody
      BY <2>2 DEF ForwardedFor
    <3>2. QED BY <1>3, <2>1, <2>2, <3>1 DEF FromProxy, Resolve
  <2>3. CASE DOMAIN a.forwarded # {}
    <3>1. n # 0
      BY <1>1, <2>3
    <3>2. a.forwarded[1] = a.client
      BY <1>3, <2>3 DEF FromProxy
    <3>3. ForwardedFor(a.forwarded) = a.client
      BY <1>1, <2>1, <3>1, <3>2, FirstOfProxies
    <3>4. QED BY <1>1, <2>1, <3>3, AddressAssumption DEF Resolve
  <2>4. QED BY <2>2, <2>3
<1>4. CASE AsRealIP(a)
  <2>1. /\ a.remote \in Trusted /\ a.real = a.client
        /\ \A j \in 1..n : a.forwarded[j] = Junk
    BY <1>1, <1>4 DEF AsRealIP, Header
  <2>2. {j \in DOMAIN a.forwarded : a.forwarded[j] # Junk} = {}
    BY <1>1, <2>1
  <2>3. ForwardedFor(a.forwarded) = Nobody
    BY <2>2 DEF ForwardedFor
  <2>4. QED BY <1>1, <2>1, <2>3, AddressAssumption DEF Resolve
<1>5. QED BY <1>2, <1>3, <1>4, ArrivalsAssumption

-----------------------------------------------------------------------------
(***************************************************************************)
(* The invariant.                                                          *)
(***************************************************************************)

Known == {r \in Requests : request[r].stage # "new"}
Answered == {"allowed", "refused"}

\* A request is charged to its client, and has a call for each fault it met, and
\* one more for its answer.
RequestInv ==
  /\ IsFiniteSet(Known)
  /\ \A r \in Known :
       /\ request[r].key = <<request[r].client, request[r].label>>
       /\ request[r].stage \in Answered \union {"asked"} => Limiting
       /\ request[r].stage \in Answered => Len(request[r].hits) > 0
       /\ Len(request[r].hits) <=
            (MaxFaults - faults) + (IF request[r].stage \in Answered THEN 1 ELSE 0)
       /\ \A i \in DOMAIN request[r].hits : request[r].hits[i] <= now

\* The calls under key k from time t on.
Calls(k, t) ==
  {h \in Requests \X (1..MaxFaults + 1) :
     /\ h[1] \in Known /\ request[h[1]].key = k
     /\ h[2] \in DOMAIN request[h[1]].hits /\ t <= request[h[1]].hits[h[2]]}

\* A counter shows no more than was called since it began.
Counted ==
  \A k \in Keys, t \in Nat : counter[k].since = t => counter[k].n <= Cardinality(Calls(k, t))

\* What c was allowed on l in the window that begins with t.
Passes(c, l, t) == Cardinality(AllowedIn(c, l, t))

\* What Redis has let through for good with the counters that are gone.
Gone == (restarts + 1) * config.requests

\* Passes are few, q being the limit and g what is gone. As long as the window that
\* begins with t goes on: of a counter that began before it, one call at least was
\* before it; one that began within it is the second by expiry, or follows a restart.
Few(passes, n, since, t, time, life, g, q) ==
  /\ passes < g + q
  /\ time < t + life =>
       /\ n = 0 => passes < g
       /\ n > 0 /\ since < t => passes < n /\ passes < q
       /\ n > 0 /\ t <= since => passes < g + n

Passing ==
  \A c \in Addresses, l \in Labels, t \in 0..now :
    Few(Passes(c, l, t), counter[<<c, l>>].n, counter[<<c, l>>].since, t, now, Lifetime,
        Gone, config.requests)

\* How many calls failed for the request that q records, and all of them.
Met(q) == IF q.stage = "passed" THEN MaxRetries + 1 ELSE q.retries
Debts == {h \in Requests \X (1..MaxRetries + 1) : h[1] \in Known /\ h[2] <= Met(request[h[1]])}

\* They are among those of Redis.
Paid == Limiting => IsFiniteSet(Debts) /\ Cardinality(Debts) <= Failed

IInv ==
  /\ TypeOK /\ RequestInv /\ Counted /\ RefusalIsEarned /\ Paid
  /\ IF Limiting THEN Passing ELSE Allowed = {}

-----------------------------------------------------------------------------
(***************************************************************************)
(* Steps.                                                                  *)
(***************************************************************************)

\* The calls that were counted for r so far.
Before(r) == IF r \in Known THEN request[r].hits ELSE << >>

\* And those that failed.
Had(r) == IF r \in Known THEN request[r].retries ELSE 0

\* The script did not run for r.
Missed(r, p) ==
  /\ faults > 0 /\ faults' = faults - 1 /\ counter' = counter
  /\ p.stage \in {"asked", "passed"} /\ p.hits = Before(r)

\* It ran, and its answer came or was lost.
Ran(r, p) ==
  /\ counter' = [counter EXCEPT ![p.key] = Count(@)]
  /\ p.hits = Append(Before(r), now)
  /\ \/ faults > 0 /\ faults' = faults - 1 /\ p.stage \in {"asked", "passed"}
     \/ /\ faults' = faults
        /\ p.stage = IF counter'[p.key].n <= config.requests THEN "allowed" ELSE "refused"

\* An attempt to run the script, after which r stands at p.
CallStep(r, p) ==
  /\ Limiting /\ UNCHANGED <<now, config, restarts>>
  /\ p \in Sent /\ p.key = <<p.client, p.label>>
  /\ r \in Known => /\ request[r].stage = "asked" /\ request[r].key = p.key
                    /\ request[r].client = p.client /\ request[r].label = p.label
  /\ request' = [request EXCEPT ![r] = p]
  /\ Had(r) \in 0..MaxRetries
  /\ Met(p) = IF faults' = faults THEN Had(r) ELSE Had(r) + 1
  /\ Missed(r, p) \/ Ran(r, p)

LEMMA Types ==
  ASSUME IInv
  PROVE  /\ now \in 0..MaxTime /\ MaxTime \in Nat /\ MaxFaults \in Nat /\ faults \in 0..MaxFaults
         /\ config \in Configs /\ config.requests \in Nat /\ config.window \in Nat
         /\ MaxRetries \in Nat /\ restarts \in Nat /\ Lifetime \in Nat
         /\ Limiting => config.requests > 0 /\ Lifetime > 0
         /\ counter \in [Keys -> [n : Nat, since : Nat, until : Nat]]
         /\ request \in [Requests -> Sent \union {New}]
<1>1. config \in Configs
  BY DEF IInv, TypeOK
<1>2. /\ config.requests \in Nat /\ config.window \in Nat
      /\ MaxRetries \in Nat
  BY <1>1, ConfigsAssumption DEF MaxRetries
<1>3. Lifetime \in Nat /\ (config.window > 0 => Lifetime > 0)
  BY <1>1, LifetimeBounds
<1>4. QED BY <1>1, <1>2, <1>3, BoundsAssumption DEF IInv, TypeOK, Limiting

LEMMA KnownIsSent ==
  ASSUME request \in [Requests -> Sent \union {New}], NEW r \in Known
  PROVE  r \in Requests /\ request[r] \in Sent
BY DEF Known, New

LEMMA AttemptIsCall ==
  ASSUME IInv, NEW r \in Requests, NEW q \in Sent, q.stage = "asked", Limiting,
         q.key = <<q.client, q.label>>,
         (r \in Known /\ q = request[r]) \/ (r \notin Known /\ q.hits = << >> /\ q.retries = 0),
         UNCHANGED <<now, config, restarts>>, Attempt(r, q)
  PROVE  \E p \in Sent : CallStep(r, p)
<1> DEFINE counted == [counter EXCEPT ![q.key] = Count(@)]
           last == q.retries = MaxRetries
<1>1. q.hits = Before(r) /\ q.retries = Had(r)
  BY DEF Before, Had
<1>2. /\ q.key \in Keys /\ q.hits \in Seq(0..MaxTime) /\ q.client \in Addresses
      /\ q.label \in Labels /\ q.retries \in 0..MaxRetries
  BY DEF Sent
<1>3. Append(q.hits, now) \in Seq(0..MaxTime) /\ counter \in [Keys -> [n : Nat, since : Nat, until : Nat]]
  BY <1>2, Types
<1>4. ASSUME NEW p \in Sent, p.client = q.client, p.label = q.label, p.key = q.key,
             request' = [request EXCEPT ![r] = p], Missed(r, p) \/ Ran(r, p),
             Met(p) = IF faults' = faults THEN Had(r) ELSE Had(r) + 1
      PROVE  CallStep(r, p)
  BY <1>1, <1>2, <1>4 DEF CallStep
<1>5. CASE /\ counter' = counted
           /\ request' = [request EXCEPT ![r] =
                [q EXCEPT !.stage = IF Within(counted[q.key].n) THEN "allowed" ELSE "refused",
                          !.hits = Append(@, now)]]
           /\ faults' = faults
  <2> DEFINE p == [q EXCEPT !.stage = IF Within(counted[q.key].n) THEN "allowed" ELSE "refused",
                            !.hits = Append(@, now)]
  <2>1. /\ p \in Sent /\ p.client = q.client /\ p.label = q.label /\ p.key = q.key
        /\ p.hits = Append(q.hits, now) /\ p.retries = q.retries
        /\ p.stage = IF Within(counted[q.key].n) THEN "allowed" ELSE "refused"
    BY <1>2, <1>3 DEF Sent
  <2> HIDE DEF p
  <2>2. Ran(r, p)
    BY <1>1, <1>5, <2>1 DEF Ran, Within
  <2>3. request' = [request EXCEPT ![r] = p]
    BY <1>5 DEF p
  <2>4. Met(p) = Had(r)
    BY <1>1, <2>1 DEF Met
  <2>5. QED BY <1>4, <1>5, <2>1, <2>2, <2>3, <2>4
<1>6. ASSUME NEW ran \in BOOLEAN, faults > 0, faults' = faults - 1,
             counter' = IF ran THEN counted ELSE counter,
             request' = [request EXCEPT ![r] =
               [q EXCEPT !.stage = IF last THEN "passed" ELSE "asked",
                         !.retries = IF last THEN @ ELSE @ + 1,
                         !.hits = IF ran THEN Append(@, now) ELSE @]]
      PROVE  \E p \in Sent : CallStep(r, p)
  <2> DEFINE p == [q EXCEPT !.stage = IF last THEN "passed" ELSE "asked",
                            !.retries = IF last THEN @ ELSE @ + 1,
                            !.hits = IF ran THEN Append(@, now) ELSE @]
  <2>1. (IF last THEN q.retries ELSE q.retries + 1) \in 0..MaxRetries
    <3>1. MaxRetries \in Nat /\ q.retries \in 0..MaxRetries
      BY <1>2, Types
    <3>2. \A m \in Nat : \A n \in 0..m : (IF n = m THEN n ELSE n + 1) \in 0..m
      OBVIOUS
    <3>3. QED BY <3>1, <3>2
  <2>2. /\ p \in Sent /\ p.client = q.client /\ p.label = q.label /\ p.key = q.key
        /\ p.hits = IF ran THEN Append(q.hits, now) ELSE q.hits
        /\ p.stage = (IF last THEN "passed" ELSE "asked")
        /\ p.retries = (IF last THEN q.retries ELSE q.retries + 1)
    BY <1>2, <1>3, <2>1 DEF Sent
  <2>3. request' = [request EXCEPT ![r] = p]
    BY <1>6
  <2> HIDE DEF p
  <2>4. p.stage \in {"asked", "passed"}
    BY <2>2
  <2>5. Met(p) = Had(r) + 1 /\ faults' # faults
    <3>1. Met(p) = q.retries + 1
      BY <2>2 DEF Met
    <3>2. faults' # faults
      BY <1>6, Types
    <3>3. QED BY <1>1, <3>1, <3>2
  <2>6. CASE ran
    <3>1. Ran(r, p)
      BY <1>1, <1>6, <2>2, <2>4, <2>6 DEF Ran
    <3>2. QED BY <1>4, <2>2, <2>3, <2>5, <3>1
  <2>7. CASE ~ran
    <3>1. Missed(r, p)
      BY <1>1, <1>6, <2>2, <2>4, <2>7 DEF Missed
    <3>2. QED BY <1>4, <2>2, <2>3, <2>5, <3>1
  <2>8. QED BY <2>6, <2>7
<1>7. QED BY <1>5, <1>6 DEF Attempt

\* The key of a request is the client's, and the route's.
LEMMA KeyOfClient ==
  ASSUME NEW a \in Arrivals, NEW path \in Paths
  PROVE  /\ a.client \in Addresses /\ Label(path) \in Labels /\ Resolve(a) = a.client
         /\ <<a.client, Label(path)>> \in Keys
BY ResolvesTheClient, ArrivalsAssumption DEF Labels, Keys

LEMMA AskIsCall ==
  ASSUME IInv, NEW r \in Requests, NEW a \in Arrivals, NEW path \in Paths, Ask(r, a, path)
  PROVE  \E p \in Sent : CallStep(r, p)
<1> DEFINE q == [stage |-> "asked", client |-> a.client, label |-> Label(path),
                 key |-> <<Resolve(a), Label(path)>>, retries |-> 0, hits |-> << >>]
<1>1. q \in Sent /\ q.key = <<q.client, q.label>> /\ q.stage = "asked" /\ q.hits = << >> /\ q.retries = 0
  <2>1. /\ a.client \in Addresses /\ Label(path) \in Labels /\ Resolve(a) = a.client
        /\ <<Resolve(a), Label(path)>> \in Keys
    BY KeyOfClient
  <2>2. 0 \in 0..MaxRetries /\ << >> \in Seq(0..MaxTime)
    BY Types
  <2>3. q \in Sent
    BY <2>1, <2>2 DEF Sent
  <2>4. QED BY <2>1, <2>3
<1>2. r \notin Known /\ Limiting /\ Attempt(r, q) /\ UNCHANGED <<now, config, restarts>>
  BY DEF Ask, Known
<1> HIDE DEF q
<1>3. QED BY <1>1, <1>2, AttemptIsCall

LEMMA AskAgainIsCall ==
  ASSUME IInv, NEW r \in Requests, AskAgain(r)
  PROVE  \E p \in Sent : CallStep(r, p)
<1>1. r \in Known /\ request[r].stage = "asked"
  BY DEF AskAgain, Known
<1>2. request[r] \in Sent /\ Limiting /\ request[r].key = <<request[r].client, request[r].label>>
  BY <1>1, Types, KnownIsSent DEF IInv, RequestInv
<1>3. Attempt(r, request[r]) /\ UNCHANGED <<now, config, restarts>>
  BY DEF AskAgain
<1>4. QED BY <1>1, <1>2, <1>3, AttemptIsCall
\* A limiter without a limit lets r pass, which then stands at p.
PassStep(r, p) ==
  /\ ~Limiting /\ r \notin Known /\ p \in Sent
  /\ p.stage = "passed" /\ p.key = <<p.client, p.label>> /\ p.hits = << >>
  /\ request' = [request EXCEPT ![r] = p]
  /\ UNCHANGED <<now, config, counter, restarts, faults>>

LEMMA BypassIsPass ==
  ASSUME IInv, NEW r \in Requests, NEW a \in Arrivals, NEW path \in Paths, Bypass(r, a, path)
  PROVE  \E p \in Sent : PassStep(r, p)
<1> DEFINE p == [stage |-> "passed", client |-> a.client, label |-> Label(path),
                 key |-> <<Resolve(a), Label(path)>>, retries |-> 0, hits |-> << >>]
<1>1. /\ a.client \in Addresses /\ Label(path) \in Labels /\ Resolve(a) = a.client
      /\ <<Resolve(a), Label(path)>> \in Keys
  BY KeyOfClient
<1>2. 0 \in 0..MaxRetries /\ << >> \in Seq(0..MaxTime)
  BY Types
<1>3. p \in Sent
  BY <1>1, <1>2 DEF Sent
<1>4. /\ p.stage = "passed" /\ p.key = <<p.client, p.label>> /\ p.hits = << >>
  BY <1>1
<1>5. /\ ~Limiting /\ r \notin Known /\ request' = [request EXCEPT ![r] = p]
      /\ UNCHANGED <<now, config, counter, restarts, faults>>
  BY DEF Bypass, Known
<1> HIDE DEF p
<1>6. QED BY <1>3, <1>4, <1>5 DEF PassStep

LEMMA StepCases ==
  ASSUME IInv, [Next]_vars
  PROVE  \/ \E r \in Requests, p \in Sent : CallStep(r, p) \/ PassStep(r, p)
         \/ Restart \/ Tick \/ UNCHANGED vars
<1>1. ASSUME NEW r \in Requests, AskAgain(r) PROVE \E p \in Sent : CallStep(r, p)
  BY <1>1, AskAgainIsCall
<1>2. ASSUME NEW r \in Requests, NEW a \in Arrivals, NEW path \in Paths, Ask(r, a, path)
      PROVE  \E p \in Sent : CallStep(r, p)
  BY <1>2, AskIsCall
<1>3. ASSUME NEW r \in Requests, NEW a \in Arrivals, NEW path \in Paths, Bypass(r, a, path)
      PROVE  \E p \in Sent : PassStep(r, p)
  BY <1>3, BypassIsPass
<1>4. QED BY <1>1, <1>2, <1>3 DEF Next

LEMMA SameConfig ==
  ASSUME config' = config
  PROVE  /\ Sent' = Sent /\ Lifetime' = Lifetime /\ Limiting' = Limiting
         /\ MaxRetries' = MaxRetries
BY DEF Sent, MaxRetries, Lifetime, WindowSeconds, Limiting

\* What a step leaves of the requests.
LEMMA Elsewhere ==
  ASSUME IInv, NEW r \in Requests, NEW p \in Sent, request' = [request EXCEPT ![r] = p]
  PROVE  /\ Known' = Known \union {r} /\ request'[r] = p
         /\ \A s \in Requests \ {r} : request'[s] = request[s]
         /\ request' \in [Requests -> Sent \union {New}]
<1>1. request \in [Requests -> Sent \union {New}] /\ p.stage # "new"
  BY Types DEF Sent
<1>2. QED BY <1>1 DEF Known

\* The hits of r before and after.
LEMMA HitsOf ==
  ASSUME IInv, NEW r \in Requests, NEW p \in Sent, CallStep(r, p)
  PROVE  LET b == Before(r) IN
         /\ Len(b) \in Nat /\ DOMAIN b = 1..Len(b) /\ Len(b) <= MaxFaults - faults
         /\ Len(p.hits) \in Nat /\ DOMAIN p.hits = 1..Len(p.hits)
         /\ \A i \in DOMAIN b : i \in DOMAIN p.hits /\ p.hits[i] = b[i]
         /\ \A i \in DOMAIN p.hits : p.hits[i] <= now
         /\ p.stage \in Answered => Ran(r, p)
         /\ Ran(r, p) => Len(p.hits) = Len(b) + 1 /\ p.hits[Len(p.hits)] = now
<1> DEFINE b == Before(r)
<1>1. /\ b \in Seq(0..MaxTime) /\ Len(b) <= MaxFaults - faults
      /\ \A i \in DOMAIN b : b[i] <= now
  <2>1. CASE r \in Known
    <3>1. request[r] \in Sent /\ request[r].stage = "asked" /\ b = request[r].hits
      BY <2>1, Types, KnownIsSent DEF CallStep, Before
    <3>2. b \in Seq(0..MaxTime)
      BY <3>1 DEF Sent
    <3>3. "asked" \notin Answered
      BY DEF Answered
    <3>4. /\ Len(b) <= (MaxFaults - faults) + 0
          /\ \A i \in DOMAIN b : b[i] <= now
      BY <2>1, <3>1, <3>3 DEF IInv, RequestInv
    <3>5. QED BY <3>2, <3>4, Types
  <2>2. CASE r \notin Known
    BY <2>2, Types DEF Before
  <2>3. QED BY <2>1, <2>2
<1>2. now \in 0..MaxTime /\ p.hits \in Seq(0..MaxTime)
  BY Types DEF Sent
<1>3. p.stage \in Answered => Ran(r, p)
  BY DEF CallStep, Missed, Answered
<1>4. CASE Missed(r, p)
  <2>1. p.hits = b
    BY <1>4 DEF Missed
  <2>2. CASE Ran(r, p)
    BY <1>1, <1>2, <2>1, <2>2 DEF Ran
  <2>3. QED BY <1>1, <1>2, <1>3, <2>1, <2>2
<1>5. CASE Ran(r, p)
  <2>1. p.hits = Append(b, now)
    BY <1>5 DEF Ran
  <2>2. QED BY <1>1, <1>2, <1>3, <2>1
<1>6. QED BY <1>4, <1>5 DEF CallStep

\* The counter after another call.
LEMMA CountOf ==
  ASSUME IInv, Limiting, NEW k \in Keys
  PROVE  LET c == counter[k]
             d == Count(c)
         IN /\ d \in [n : Nat, since : Nat, until : Nat] /\ c.n \in Nat /\ c.since \in Nat
            /\ d.n = c.n + 1 /\ d.since = IF c.n = 0 THEN now ELSE c.since
            /\ d.since <= now /\ now < d.until /\ d.until = d.since + Lifetime
<1> DEFINE c == counter[k]
<1>1. /\ c \in [n : Nat, since : Nat, until : Nat] /\ now \in Nat
      /\ Lifetime \in Nat /\ Lifetime > 0
      /\ c.n > 0 => c.since <= now /\ now < c.until /\ c.until = c.since + Lifetime
  BY Types DEF IInv, TypeOK
<1>2. CASE c.n = 0
  BY <1>1, <1>2 DEF Count
<1>3. CASE c.n # 0
  BY <1>1, <1>3 DEF Count
<1>4. QED BY <1>2, <1>3
-----------------------------------------------------------------------------
(***************************************************************************)
(* Each step keeps the types, and what is known of the requests.            *)
(***************************************************************************)

LEMMA CallKeepsTypes ==
  ASSUME IInv, NEW r \in Requests, NEW p \in Sent, CallStep(r, p)
  PROVE  TypeOK'
<1>1. now' = now /\ config' = config /\ restarts' = restarts /\ Limiting
  BY DEF CallStep
<1>2. /\ now \in 0..MaxTime /\ config \in Configs /\ restarts \in Nat
      /\ faults \in 0..MaxFaults /\ MaxFaults \in Nat
      /\ counter \in [Keys -> [n : Nat, since : Nat, until : Nat]]
  BY Types
<1>3. faults' \in 0..MaxFaults
  BY <1>2 DEF CallStep, Missed, Ran
<1>4. request' \in [Requests -> Sent \union {New}]
  BY Elsewhere DEF CallStep
<1>5. p.key \in Keys
  BY DEF Sent
<1>6. \A k \in Keys : counter[k].n > 0 =>
         /\ counter[k].since <= now /\ now < counter[k].until
         /\ counter[k].until = counter[k].since + Lifetime
  BY DEF IInv, TypeOK
<1>7. counter' = counter \/ counter' = [counter EXCEPT ![p.key] = Count(counter[p.key])]
  BY DEF CallStep, Missed, Ran
<1>8. /\ counter' \in [Keys -> [n : Nat, since : Nat, until : Nat]]
      /\ \A k \in Keys : counter'[k].n > 0 =>
           /\ counter'[k].since <= now /\ now < counter'[k].until
           /\ counter'[k].until = counter'[k].since + Lifetime
  <2>1. CASE counter' = counter
    BY <1>2, <1>6, <2>1
  <2>2. CASE counter' = [counter EXCEPT ![p.key] = Count(counter[p.key])]
    <3> DEFINE d == Count(counter[p.key])
    <3>1. /\ d \in [n : Nat, since : Nat, until : Nat]
          /\ d.since <= now /\ now < d.until /\ d.until = d.since + Lifetime
      BY <1>1, <1>5, CountOf
    <3> HIDE DEF d
    <3>2. counter' = [counter EXCEPT ![p.key] = d]
      BY <2>2 DEF d
    <3>3. QED BY <1>2, <1>5, <1>6, <3>1, <3>2
  <2>3. QED BY <1>7, <2>1, <2>2
<1>9. Sent' = Sent /\ Lifetime' = Lifetime
  BY <1>1, SameConfig
<1>10. QED BY <1>1, <1>2, <1>3, <1>4, <1>8, <1>9 DEF TypeOK

LEMMA CallKeepsRequests ==
  ASSUME IInv, NEW r \in Requests, NEW p \in Sent, CallStep(r, p)
  PROVE  RequestInv'
<1> DEFINE Fits(q, s) == /\ q.key = <<q.client, q.label>>
                         /\ q.stage \in Answered \union {"asked"} => Limiting
                         /\ q.stage \in Answered => Len(q.hits) > 0
                         /\ Len(q.hits) <= s + (IF q.stage \in Answered THEN 1 ELSE 0)
                         /\ \A i \in DOMAIN q.hits : q.hits[i] <= now
<1>1. /\ now' = now /\ Limiting' = Limiting /\ Limiting
      /\ request' = [request EXCEPT ![r] = p] /\ p.key = <<p.client, p.label>>
  BY SameConfig DEF CallStep
<1>2. /\ Known' = Known \union {r} /\ request'[r] = p
      /\ \A s \in Requests \ {r} : request'[s] = request[s]
  BY <1>1, Elsewhere
<1>3. IsFiniteSet(Known')
  BY <1>2, FS_AddElement DEF IInv, RequestInv
<1>4. /\ faults \in 0..MaxFaults /\ MaxFaults \in Nat /\ faults' <= faults /\ faults' \in Nat
      /\ faults' # faults => faults' = faults - 1
  BY Types DEF CallStep, Missed, Ran
<1>5. Fits(p, MaxFaults - faults')
  <2> DEFINE b == Before(r)
  <2>1. /\ Len(b) \in Nat /\ Len(b) <= MaxFaults - faults
        /\ \A i \in DOMAIN p.hits : p.hits[i] <= now
        /\ p.stage \in Answered => Ran(r, p)
        /\ Ran(r, p) => Len(p.hits) = Len(b) + 1
    BY HitsOf
  <2> HIDE DEF b
  <2>2. /\ p.stage \in Answered => Len(p.hits) > 0
        /\ Len(p.hits) <= (MaxFaults - faults') + (IF p.stage \in Answered THEN 1 ELSE 0)
    <3>1. CASE Missed(r, p)
      <4>1. p.hits = b /\ p.stage \notin Answered /\ faults' = faults - 1
        BY <3>1 DEF Missed, b, Answered
      <4>2. QED BY <1>4, <2>1, <4>1
    <3>2. CASE Ran(r, p)
      <4>1. \/ faults' = faults - 1
            \/ p.stage \in Answered /\ faults' = faults
        BY <3>2 DEF Ran, Answered
      <4>2. Len(p.hits) = Len(b) + 1
        BY <2>1, <3>2
      <4>3. CASE faults' = faults - 1
        BY <1>4, <2>1, <4>2, <4>3
      <4>4. CASE p.stage \in Answered /\ faults' = faults
        BY <1>4, <2>1, <4>2, <4>4
      <4>5. QED BY <4>1, <4>3, <4>4
    <3>3. QED BY <3>1, <3>2 DEF CallStep
  <2>3. QED BY <1>1, <2>1, <2>2
<1>6. \A s \in Known : Fits(request[s], MaxFaults - faults)
  BY DEF IInv, RequestInv
<1>7. ASSUME NEW s \in Known, s # r PROVE Fits(request'[s], MaxFaults - faults')
  <2>1. request'[s] = request[s] /\ request[s] \in Sent
    BY <1>2, <1>7, Types, KnownIsSent
  <2>2. Len(request[s].hits) \in Nat
    BY <2>1 DEF Sent
  <2>3. QED BY <1>4, <1>6, <2>1, <2>2
<1>8. \A s \in Known' : Fits(request'[s], MaxFaults - faults')
  BY <1>2, <1>5, <1>7
<1>9. QED BY <1>1, <1>3, <1>8 DEF RequestInv

LEMMA PassKeeps ==
  ASSUME IInv, NEW r \in Requests, NEW p \in Sent, PassStep(r, p)
  PROVE  TypeOK' /\ RequestInv'
<1>1. /\ Limiting' = Limiting /\ Sent' = Sent /\ Lifetime' = Lifetime
      /\ request' = [request EXCEPT ![r] = p]
      /\ UNCHANGED <<now, config, counter, restarts, faults>>
  BY SameConfig DEF PassStep
<1>2. /\ Known' = Known \union {r} /\ request'[r] = p
      /\ \A s \in Requests \ {r} : request'[s] = request[s]
      /\ request' \in [Requests -> Sent \union {New}]
  BY <1>1, Elsewhere
<1>3. TypeOK'
  BY <1>1, <1>2 DEF IInv, TypeOK
<1>4. IsFiniteSet(Known')
  BY <1>2, FS_AddElement DEF IInv, RequestInv
<1>5. /\ p.key = <<p.client, p.label>> /\ p.hits = << >>
      /\ p.stage \notin Answered \union {"asked"}
  BY DEF PassStep, Answered
<1>6. Len(p.hits) <= (MaxFaults - faults) + 0 /\ DOMAIN p.hits = {}
  BY <1>5, Types
<1>7. ASSUME NEW s \in Known'
      PROVE  /\ request'[s].key = <<request'[s].client, request'[s].label>>
             /\ request'[s].stage \in Answered \union {"asked"} => Limiting
             /\ request'[s].stage \in Answered => Len(request'[s].hits) > 0
             /\ Len(request'[s].hits) <=
                  (MaxFaults - faults) + (IF request'[s].stage \in Answered THEN 1 ELSE 0)
             /\ \A i \in DOMAIN request'[s].hits : request'[s].hits[i] <= now
  <2>1. CASE s = r
    BY <1>2, <1>5, <1>6, <2>1
  <2>2. CASE s # r
    <3>1. s \in Known /\ request'[s] = request[s]
      BY <1>2, <2>2 DEF Known
    <3>2. QED BY <3>1 DEF IInv, RequestInv
  <2>3. QED BY <2>1, <2>2
<1>8. QED BY <1>1, <1>3, <1>4, <1>7 DEF RequestInv

LEMMA RestartKeeps ==
  ASSUME IInv, Restart
  PROVE  /\ TypeOK' /\ RequestInv' /\ Known' = Known /\ Sent' = Sent
         /\ Lifetime' = Lifetime /\ Limiting' = Limiting
<1>1. /\ Limiting' = Limiting /\ Sent' = Sent /\ Lifetime' = Lifetime
      /\ UNCHANGED <<now, config, request>>
      /\ faults > 0 /\ faults' = faults - 1 /\ restarts' = restarts + 1
      /\ counter' = [k \in Keys |-> Absent]
  BY SameConfig DEF Restart
<1>2. Known' = Known
  BY <1>1 DEF Known
<1>3. TypeOK'
  <2>1. faults' \in 0..MaxFaults /\ restarts' \in Nat
    BY <1>1, Types
  <2>2. /\ counter' \in [Keys -> [n : Nat, since : Nat, until : Nat]]
        /\ \A k \in Keys : counter'[k].n = 0
    BY <1>1 DEF Absent
  <2>3. QED BY <1>1, <2>1, <2>2 DEF IInv, TypeOK
<1>4. RequestInv'
  <2>1. ASSUME NEW s \in Known
        PROVE  Len(request[s].hits) <=
                 (MaxFaults - faults') + (IF request[s].stage \in Answered THEN 1 ELSE 0)
    <3>1. Len(request[s].hits) \in Nat
      BY KnownIsSent, Types DEF Sent
    <3>2. Len(request[s].hits) <=
            (MaxFaults - faults) + (IF request[s].stage \in Answered THEN 1 ELSE 0)
      BY DEF IInv, RequestInv
    <3>3. faults \in Nat /\ MaxFaults \in Nat
      BY Types
    <3>4. QED BY <1>1, <3>1, <3>2, <3>3
  <2>2. QED BY <1>1, <1>2, <2>1 DEF IInv, RequestInv
<1>5. QED BY <1>1, <1>2, <1>3, <1>4

LEMMA ElementOf ==
  ASSUME NEW S, NEW q \in Seq(S), NEW i \in DOMAIN q
  PROVE  q[i] \in S
<1>1. Len(q) \in Nat /\ q \in [1..Len(q) -> S]
  OBVIOUS
<1>2. DOMAIN q = 1..Len(q)
  OBVIOUS
<1>3. QED BY <1>1, <1>2

LEMMA TickKeeps ==
  ASSUME IInv, Tick
  PROVE  /\ TypeOK' /\ RequestInv' /\ Known' = Known /\ Sent' = Sent
         /\ Lifetime' = Lifetime /\ Limiting' = Limiting
<1>1. /\ Limiting' = Limiting /\ Sent' = Sent /\ Lifetime' = Lifetime
      /\ UNCHANGED <<config, request, restarts, faults>>
      /\ now < MaxTime /\ now' = now + 1
      /\ counter' = [k \in Keys |-> IF counter[k].until <= now' THEN Absent ELSE counter[k]]
  BY SameConfig DEF Tick
<1>2. Known' = Known
  BY <1>1 DEF Known
<1>3. now' \in 0..MaxTime /\ now \in Nat
  BY <1>1, Types
<1>4. TypeOK'
  <2>1. counter' \in [Keys -> [n : Nat, since : Nat, until : Nat]]
    BY <1>1, Types DEF Absent
  <2>2. ASSUME NEW k \in Keys, counter'[k].n > 0
        PROVE  /\ counter'[k].since <= now' /\ now' < counter'[k].until
               /\ counter'[k].until = counter'[k].since + Lifetime
    <3>1. counter'[k] = counter[k] /\ ~(counter[k].until <= now')
      BY <1>1, <2>2 DEF Absent
    <3>2. counter[k].until \in Nat /\ counter[k].since \in Nat
      BY Types
    <3>3. counter[k].since <= now /\ counter[k].until = counter[k].since + Lifetime
      BY <2>2, <3>1 DEF IInv, TypeOK
    <3>4. QED BY <1>1, <1>3, <3>1, <3>2, <3>3
  <2>3. QED BY <1>1, <1>3, <2>1, <2>2 DEF IInv, TypeOK
<1>5. RequestInv'
  <2>1. ASSUME NEW s \in Known, NEW i \in DOMAIN request[s].hits
        PROVE  request[s].hits[i] <= now'
    <3>1. request[s].hits[i] <= now
      BY DEF IInv, RequestInv
    <3>2. request[s].hits \in Seq(0..MaxTime)
      BY KnownIsSent, Types DEF Sent
    <3>3. request[s].hits[i] \in 0..MaxTime
      BY <3>2, ElementOf
    <3>4. QED BY <1>1, <1>3, <3>1, <3>3
  <2>2. QED BY <1>1, <1>2, <2>1 DEF IInv, RequestInv
<1>6. QED BY <1>1, <1>2, <1>4, <1>5
-----------------------------------------------------------------------------
(***************************************************************************)
(* The calls.                                                              *)
(***************************************************************************)

\* However often the requests at work were tried, their calls can be counted.
LEMMA FewCalls ==
  ASSUME NEW K, IsFiniteSet(K), NEW m \in Nat, NEW S, S \subseteq K \X (1..m)
  PROVE  IsFiniteSet(S) /\ Cardinality(S) \in Nat
<1>1. IsFiniteSet(1..m)
  BY FS_Interval
<1>2. IsFiniteSet(K \X (1..m))
  BY <1>1, FS_Product
<1>3. QED BY <1>2, FS_Subset, FS_CardinalityType

LEMMA CallsFinite ==
  ASSUME IInv, NEW k, NEW t
  PROVE  IsFiniteSet(Calls(k, t)) /\ Cardinality(Calls(k, t)) \in Nat
<1>1. IsFiniteSet(Known) /\ MaxFaults + 1 \in Nat
  BY Types DEF IInv, RequestInv
<1>2. Calls(k, t) \subseteq Known \X (1..MaxFaults + 1)
  BY DEF Calls
<1>3. QED BY <1>1, <1>2, FewCalls

LEMMA CallsFiniteNext ==
  ASSUME RequestInv', NEW k, NEW t
  PROVE  IsFiniteSet(Calls(k, t)') /\ Cardinality(Calls(k, t)') \in Nat
<1>1. IsFiniteSet(Known') /\ MaxFaults + 1 \in Nat
  BY BoundsAssumption DEF RequestInv
<1>2. Calls(k, t)' \subseteq Known' \X (1..MaxFaults + 1)
  BY DEF Calls
<1>3. QED BY <1>1, <1>2, FewCalls

\* What was called remains called.
Grows ==
  \A u \in Known :
    /\ u \in Known' /\ request'[u].key = request[u].key
    /\ request'[u].client = request[u].client /\ request'[u].label = request[u].label
    /\ \A i \in DOMAIN request[u].hits :
         i \in DOMAIN request'[u].hits /\ request'[u].hits[i] = request[u].hits[i]

LEMMA CallGrows ==
  ASSUME IInv, NEW r \in Requests, NEW p \in Sent, CallStep(r, p)
  PROVE  Grows
<1>1. /\ Known' = Known \union {r} /\ request'[r] = p
      /\ \A s \in Requests \ {r} : request'[s] = request[s]
  BY Elsewhere DEF CallStep
<1>2. \A i \in DOMAIN Before(r) : i \in DOMAIN p.hits /\ p.hits[i] = Before(r)[i]
  BY HitsOf
<1>3. r \in Known => /\ request[r].key = p.key /\ Before(r) = request[r].hits
                     /\ request[r].client = p.client /\ request[r].label = p.label
  BY DEF CallStep, Before
<1>4. \A u \in Known : u # r => request'[u] = request[u]
  BY <1>1 DEF Known
<1>5. QED BY <1>1, <1>2, <1>3, <1>4 DEF Grows

LEMMA GrowsCalls ==
  ASSUME Grows, NEW k, NEW t
  PROVE  Calls(k, t) \subseteq Calls(k, t)'
BY DEF Calls, Grows

\* What runs now is another call.
LEMMA CallsGrow ==
  ASSUME IInv, NEW r \in Requests, NEW p \in Sent, CallStep(r, p), Ran(r, p),
         NEW t, t <= now
  PROVE  \E h \in Calls(p.key, t)' : h \notin Calls(p.key, t)
<1>1. Known' = Known \union {r} /\ request'[r] = p
  BY Elsewhere DEF CallStep
<1> DEFINE b == Before(r)
           h == <<r, Len(b) + 1>>
<1>2. /\ Len(b) \in Nat /\ DOMAIN b = 1..Len(b) /\ Len(b) <= MaxFaults - faults
      /\ DOMAIN p.hits = 1..Len(p.hits)
      /\ Len(p.hits) = Len(b) + 1 /\ p.hits[Len(p.hits)] = now
  BY HitsOf
<1>3. r \in Known => b = request[r].hits
  BY DEF Before
<1> HIDE DEF b
<1>4. Len(b) + 1 \in 1..MaxFaults + 1
  BY <1>2, Types
<1>5. Len(b) + 1 \in DOMAIN p.hits /\ p.hits[Len(b) + 1] = now
  BY <1>2
<1>6. h \in Calls(p.key, t)'
  BY <1>1, <1>4, <1>5 DEF Calls
<1>7. h \notin Calls(p.key, t)
  <2>1. SUFFICES ASSUME h \in Calls(p.key, t) PROVE FALSE
    OBVIOUS
  <2>2. r \in Known /\ Len(b) + 1 \in DOMAIN request[r].hits
    BY <2>1 DEF Calls
  <2>3. QED BY <1>2, <1>3, <2>2
<1>8. QED BY <1>6, <1>7

LEMMA CallKeepsCounted ==
  ASSUME IInv, NEW r \in Requests, NEW p \in Sent, CallStep(r, p)
  PROVE  Counted'
<1>1. RequestInv' /\ p.key \in Keys /\ Limiting
  BY CallKeepsRequests DEF CallStep, Sent
<1>2. ASSUME NEW k \in Keys, NEW t \in Nat, counter'[k].since = t, counter'[k] = counter[k]
      PROVE  counter'[k].n <= Cardinality(Calls(k, t)')
  <2> DEFINE A == Calls(k, t)
             B == Calls(k, t)'
  <2>1. IsFiniteSet(B) /\ Cardinality(B) \in Nat /\ A \subseteq B
    BY <1>1, CallsFiniteNext, CallGrows, GrowsCalls
  <2>2. Cardinality(A) <= Cardinality(B) /\ Cardinality(A) \in Nat
    BY <2>1, FS_Subset, FS_CardinalityType
  <2>3. counter[k].n \in Nat /\ counter[k].n <= Cardinality(A)
    BY <1>2, Types DEF IInv, Counted
  <2> HIDE DEF A, B
  <2>4. counter[k].n <= Cardinality(B)
    BY <2>1, <2>2, <2>3
  <2>5. QED BY <1>2, <2>4 DEF B
<1>3. CASE Missed(r, p)
  BY <1>2, <1>3 DEF Missed, Counted
<1>4. CASE Ran(r, p)
  <2> DEFINE k == p.key
             c == counter[k]
             d == Count(c)
  <2>1. counter' = [counter EXCEPT ![k] = d]
    BY <1>4 DEF Ran
  <2>2. /\ d.n = c.n + 1 /\ d.since = IF c.n = 0 THEN now ELSE c.since
        /\ d.since <= now /\ c.n \in Nat
    BY <1>1, CountOf
  <2>3. ASSUME NEW t \in Nat, d.since = t PROVE d.n <= Cardinality(Calls(k, t)')
    <3> DEFINE A == Calls(k, t)
               B == Calls(k, t)'
    <3>1. A \subseteq B /\ \E h \in B : h \notin A
      BY <1>4, <2>2, <2>3, CallGrows, GrowsCalls, CallsGrow
    <3>2. IsFiniteSet(B) /\ Cardinality(B) \in Nat /\ IsFiniteSet(A) /\ Cardinality(A) \in Nat
      BY <1>1, CallsFinite, CallsFiniteNext
    <3>3. c.n <= Cardinality(A)
      <4>1. CASE c.n = 0
        BY <3>2, <4>1
      <4>2. CASE c.n # 0
        <5>1. c.since = t
          BY <2>2, <2>3, <4>2
        <5>2. QED BY <1>1, <5>1 DEF IInv, Counted
      <4>3. QED BY <4>1, <4>2
    <3> HIDE DEF A, B
    <3>4. Cardinality(A) < Cardinality(B)
      <4>1. A # B
        BY <3>1
      <4>2. Cardinality(A) <= Cardinality(B) /\ Cardinality(A) # Cardinality(B)
        BY <3>1, <3>2, <4>1, FS_Subset
      <4>3. QED BY <3>2, <4>2
    <3>5. d.n <= Cardinality(B)
      BY <2>2, <3>2, <3>3, <3>4
    <3>6. QED BY <3>5 DEF B
  <2>4. counter'[k] = d
    BY <1>1, <2>1, Types
  <2>5. ASSUME NEW j \in Keys, j # k PROVE counter'[j] = counter[j]
    BY <2>1, <2>5, Types
  <2> HIDE DEF k, c, d
  <2>6. ASSUME NEW j \in Keys, NEW t \in Nat, counter'[j].since = t
        PROVE  counter'[j].n <= Cardinality(Calls(j, t)')
    <3>1. CASE j = k
      BY <2>3, <2>4, <2>6, <3>1
    <3>2. CASE j # k
      BY <1>2, <2>5, <2>6, <3>2
    <3>3. QED BY <3>1, <3>2
  <2>7. QED BY <2>6 DEF Counted
<1>5. QED BY <1>3, <1>4 DEF CallStep

\* A step that leaves the hits, and every counter or nothing of it.
LEMMA KeepsCounted ==
  ASSUME IInv, RequestInv', Grows,
         \A k \in Keys : counter'[k] \in {counter[k], Absent}
  PROVE  Counted'
<1>1. ASSUME NEW k \in Keys, NEW t \in Nat, counter'[k].since = t
      PROVE  counter'[k].n <= Cardinality(Calls(k, t)')
  <2> DEFINE A == Calls(k, t)
             B == Calls(k, t)'
  <2>1. IsFiniteSet(B) /\ Cardinality(B) \in Nat /\ A \subseteq B
    BY CallsFiniteNext, GrowsCalls
  <2>2. Cardinality(A) <= Cardinality(B) /\ Cardinality(A) \in Nat
    BY <2>1, FS_Subset, FS_CardinalityType
  <2>3. CASE counter'[k] = counter[k]
    <3>1. counter[k].n \in Nat /\ counter[k].n <= Cardinality(A)
      BY <1>1, <2>3, Types DEF IInv, Counted
    <3> HIDE DEF A, B
    <3>2. counter[k].n <= Cardinality(B)
      BY <2>1, <2>2, <3>1
    <3>3. QED BY <2>3, <3>2 DEF B
  <2>4. CASE counter'[k] = Absent
    <3>1. counter'[k].n = 0
      BY <2>4 DEF Absent
    <3>2. QED BY <2>1, <3>1
  <2>5. QED BY <2>3, <2>4
<1>2. QED BY <1>1 DEF Counted
-----------------------------------------------------------------------------
(***************************************************************************)
(* Refusals.                                                               *)
(***************************************************************************)

LEMMA AnswerOf ==
  ASSUME IInv, NEW r \in Refused \union Allowed
  PROVE  /\ r \in Known /\ request[r] \in Sent /\ Limiting
         /\ AnsweredAt(r) \in 0..now /\ AnsweredAt(r) \in Nat
         /\ request[r].client \in Addresses /\ request[r].label \in Labels
<1>1. r \in Known /\ request[r].stage \in Answered
  BY DEF Refused, Allowed, Known, Answered
<1>2. request[r] \in Sent
  BY <1>1, Types, KnownIsSent
<1> DEFINE q == request[r].hits
<1>3. q \in Seq(0..MaxTime) /\ Len(q) > 0 /\ \A i \in DOMAIN q : q[i] <= now
  BY <1>1, <1>2 DEF IInv, RequestInv, Sent
<1>4. Len(q) \in Nat /\ DOMAIN q = 1..Len(q)
  BY <1>3
<1>5. Len(q) \in DOMAIN q
  BY <1>3, <1>4
<1>6. q[Len(q)] \in 0..MaxTime /\ q[Len(q)] <= now
  BY <1>3, <1>5, ElementOf
<1>7. AnsweredAt(r) \in 0..now /\ AnsweredAt(r) \in Nat
  BY <1>6, Types DEF AnsweredAt
<1>8. QED BY <1>1, <1>2, <1>7 DEF IInv, RequestInv, Sent

\* A refusal that was earned stays so.
LEMMA EarnedStays ==
  ASSUME IInv, RequestInv', Grows, config' = config,
         NEW r \in Refused, request'[r] = request[r]
  PROVE  Cardinality(Charged(r)') > config'.requests
<1> DEFINE A == Charged(r)
           B == Charged(r)'
<1>1. Lifetime' = Lifetime /\ AnsweredAt(r)' = AnsweredAt(r)
  BY SameConfig DEF AnsweredAt
<1>2. ASSUME NEW h \in A PROVE h \in B
  <2>1. /\ h \in Requests \X (1..MaxFaults + 1) /\ h[1] \in Known
        /\ h[2] \in DOMAIN request[h[1]].hits
        /\ request[h[1]].client = request[r].client /\ request[h[1]].label = request[r].label
        /\ AnsweredAt(r) - Lifetime < request[h[1]].hits[h[2]]
        /\ request[h[1]].hits[h[2]] <= AnsweredAt(r)
    BY DEF Charged, Known
  <2>2. /\ request'[h[1]].stage # "new" /\ h[2] \in DOMAIN request'[h[1]].hits
        /\ request'[h[1]].client = request[r].client /\ request'[h[1]].label = request[r].label
        /\ request'[h[1]].hits[h[2]] = request[h[1]].hits[h[2]]
    BY <2>1 DEF Grows, Known
  <2>3. QED BY <1>1, <2>1, <2>2 DEF Charged
<1>3. B \subseteq Known' \X (1..MaxFaults + 1)
  BY DEF Charged, Known
<1>4. IsFiniteSet(B) /\ Cardinality(B) \in Nat
  <2>1. IsFiniteSet(Known') /\ MaxFaults + 1 \in Nat
    BY BoundsAssumption DEF RequestInv
  <2>2. QED BY <1>3, <2>1, FewCalls
<1>5. Cardinality(A) <= Cardinality(B) /\ Cardinality(A) \in Nat
  BY <1>2, <1>4, FS_Subset, FS_CardinalityType
<1>6. Cardinality(A) > config.requests /\ config.requests \in Nat
  BY Types DEF IInv, RefusalIsEarned
<1> HIDE DEF A, B
<1>7. Cardinality(B) > config.requests
  BY <1>4, <1>5, <1>6
<1>8. QED BY <1>7 DEF B

\* A refusal is: what the counter shows was called within its time.
LEMMA EarnedNow ==
  ASSUME IInv, NEW r \in Requests, NEW p \in Sent, CallStep(r, p), p.stage = "refused"
  PROVE  Cardinality(Charged(r)') > config'.requests
<1>1. TypeOK' /\ RequestInv' /\ Counted'
  BY CallKeepsTypes, CallKeepsRequests, CallKeepsCounted
<1>2. /\ Known' = Known \union {r} /\ request'[r] = p /\ config' = config /\ now' = now
      /\ p.key \in Keys /\ p.key = <<p.client, p.label>> /\ Lifetime' = Lifetime
  BY Elsewhere, SameConfig DEF CallStep, Sent
<1>3. Ran(r, p) /\ p.hits[Len(p.hits)] = now
  BY HitsOf DEF Answered
<1>4. counter'[p.key].n \in Nat /\ counter'[p.key].since \in Nat
  BY <1>1, <1>2 DEF TypeOK
<1>5. counter'[p.key].n > config.requests /\ config.requests \in Nat
  <2>1. ~(counter'[p.key].n <= config.requests)
    BY <1>3 DEF Ran
  <2>2. QED BY <1>4, <2>1, Types
<1>6. PICK t \in Nat : t = counter'[p.key].since
  BY <1>4
<1>7. /\ now < t + Lifetime
      /\ counter'[p.key].n <= Cardinality(Calls(p.key, t)')
  <2>1. counter'[p.key].until = t + Lifetime /\ now < counter'[p.key].until
    BY <1>1, <1>2, <1>4, <1>5, <1>6, Types DEF TypeOK
  <2>2. counter'[p.key].n <= Cardinality(Calls(p.key, t)')
    BY <1>1, <1>2, <1>6 DEF Counted
  <2>3. QED BY <2>1, <2>2
<1> DEFINE A == Calls(p.key, t)'
           B == Charged(r)'
<1>8. AnsweredAt(r)' = now
  BY <1>2, <1>3 DEF AnsweredAt
<1>9. ASSUME NEW h \in A PROVE h \in B
  <2> DEFINE u == h[1]
             x == request'[u].hits[h[2]]
  <2>1. /\ h \in Requests \X (1..MaxFaults + 1) /\ u \in Known' /\ request'[u].key = p.key
        /\ h[2] \in DOMAIN request'[u].hits /\ t <= x
    BY DEF Calls
  <2>2. x <= now
    BY <1>1, <1>2, <2>1 DEF RequestInv
  <2>3. x \in Nat
    <3>1. request'[u] \in Sent
      <4>1. request' \in [Requests -> Sent \union {New}]
        BY Elsewhere DEF CallStep
      <4>2. u \in Requests /\ request'[u].stage # "new"
        BY <2>1 DEF Known
      <4>3. QED BY <4>1, <4>2 DEF New
    <3>2. request'[u].hits \in Seq(0..MaxTime)
      BY <3>1 DEF Sent
    <3>3. x \in 0..MaxTime
      BY <2>1, <3>2, ElementOf
    <3>4. QED BY <3>3
  <2>4. request'[u].client = p.client /\ request'[u].label = p.label
    BY <1>1, <1>2, <2>1 DEF RequestInv
  <2>5. request'[u].stage # "new"
    BY <2>1 DEF Known
  <2> HIDE DEF x
  <2>6. now - Lifetime < x
    BY <1>7, <2>1, <2>3, Types
  <2>7. QED BY <1>2, <1>8, <2>1, <2>2, <2>4, <2>5, <2>6 DEF Charged, x
<1>10. IsFiniteSet(B) /\ Cardinality(B) \in Nat
  <2>1. IsFiniteSet(Known') /\ MaxFaults + 1 \in Nat
    BY <1>1, BoundsAssumption DEF RequestInv
  <2>2. B \subseteq Known' \X (1..MaxFaults + 1)
    BY DEF Charged, Known
  <2>3. QED BY <2>1, <2>2, FewCalls
<1>11. Cardinality(A) <= Cardinality(B) /\ Cardinality(A) \in Nat
  BY <1>9, <1>10, FS_Subset, FS_CardinalityType
<1> DEFINE n == counter'[p.key].n
<1>12. n <= Cardinality(A) /\ n \in Nat /\ n > config.requests
  BY <1>4, <1>5, <1>7
<1> HIDE DEF A, B, n
<1>13. Cardinality(B) > config.requests
  BY <1>5, <1>10, <1>11, <1>12
<1>14. QED BY <1>2, <1>13 DEF B

LEMMA CallKeepsEarned ==
  ASSUME IInv, NEW r \in Requests, NEW p \in Sent, CallStep(r, p)
  PROVE  RefusalIsEarned'
<1>1. RequestInv' /\ Grows /\ config' = config
  BY CallKeepsRequests, CallGrows DEF CallStep
<1>2. request'[r] = p /\ \A s \in Requests \ {r} : request'[s] = request[s]
  BY Elsewhere DEF CallStep
<1>3. ASSUME NEW s \in Refused' PROVE Cardinality(Charged(s)') > config'.requests
  <2>1. CASE s = r
    BY <1>2, <2>1, EarnedNow DEF Refused
  <2>2. CASE s # r
    <3>1. s \in Refused /\ request'[s] = request[s]
      BY <1>2, <2>2 DEF Refused
    <3>2. QED BY <1>1, <3>1, EarnedStays
  <2>3. QED BY <2>1, <2>2
<1>4. QED BY <1>3 DEF RefusalIsEarned
-----------------------------------------------------------------------------
(***************************************************************************)
(* Passes.                                                                 *)
(***************************************************************************)

\* Another call, which passes only within the limit.
LEMMA FewAfterCall ==
  ASSUME NEW P \in Nat, NEW n \in Nat, NEW s \in Nat, NEW t \in Nat, NEW u \in Nat,
         NEW L \in Nat, NEW g \in Nat, NEW q \in Nat, NEW Q \in Nat, NEW z \in Nat,
         Few(P, n, s, t, u, L, g, q), t <= u, z = IF n = 0 THEN u ELSE s,
         Q <= P \/ (Q <= P + 1 /\ u < t + L /\ n + 1 <= q)
  PROVE  Few(Q, n + 1, z, t, u, L, g, q)
<1>1. CASE n = 0
  <2>1. z = u /\ ~(z < t)
    BY <1>1
  <2>2. Q < g + q
    BY <1>1 DEF Few
  <2>3. u < t + L => Q < g + (n + 1)
    BY <1>1 DEF Few
  <2>4. QED BY <1>1, <2>1, <2>2, <2>3 DEF Few
<1>2. CASE n # 0 /\ s < t
  <2>1. z = s /\ n > 0 /\ ~(t <= z) /\ n + 1 # 0
    BY <1>2
  <2>2. u < t + L => P < n /\ P < q
    BY <1>2, <2>1 DEF Few
  <2>3. Q < g + q
    BY <1>2, <2>2 DEF Few
  <2>4. u < t + L => Q < n + 1 /\ Q < q
    BY <1>2, <2>2
  <2>5. QED BY <2>1, <2>3, <2>4 DEF Few
<1>3. CASE n # 0 /\ t <= s
  <2>1. z = s /\ n > 0 /\ ~(z < t) /\ n + 1 # 0
    BY <1>3
  <2>2. u < t + L => P < g + n
    BY <1>3, <2>1 DEF Few
  <2>3. Q < g + q
    BY <1>3, <2>2 DEF Few
  <2>4. u < t + L => Q < g + (n + 1)
    BY <1>3, <2>2
  <2>5. QED BY <2>1, <2>3, <2>4 DEF Few
<1>4. QED BY <1>1, <1>2, <1>3

\* Redis forgets all calls: as many may pass again.
LEMMA FewAfterRestart ==
  ASSUME NEW P \in Nat, NEW n \in Nat, NEW s \in Nat, NEW t \in Nat, NEW u \in Nat,
         NEW L \in Nat, NEW g \in Nat, NEW q \in Nat, NEW z \in Nat,
         Few(P, n, s, t, u, L, g, q)
  PROVE  Few(P, 0, z, t, u, L, g + q, q)
BY DEF Few

\* Time passes: a counter that is gone began before every window that goes on.
LEMMA FewLater ==
  ASSUME NEW P \in Nat, NEW n \in Nat, NEW s \in Nat, NEW t \in Nat, NEW u \in Nat,
         NEW L \in Nat, NEW g \in Nat, NEW q \in Nat, NEW m \in Nat, NEW z \in Nat,
         Few(P, n, s, t, u, L, g, q), q <= g,
         (m = n /\ z = s) \/ (m = 0 /\ (n > 0 => s + L <= u + 1))
  PROVE  Few(P, m, z, t, u + 1, L, g, q)
<1>1. P < g + q
  BY DEF Few
<1>2. CASE m = n /\ z = s
  BY <1>1, <1>2 DEF Few
<1>3. CASE m = 0 /\ (n > 0 => s + L <= u + 1)
  <2>1. ASSUME u + 1 < t + L PROVE P < g
    <3>1. u < t + L
      BY <2>1
    <3>2. CASE n = 0
      BY <3>1, <3>2 DEF Few
    <3>3. CASE n > 0
      <4>1. s < t
        BY <1>3, <2>1, <3>3
      <4>2. P < q
        BY <3>1, <3>3, <4>1 DEF Few
      <4>3. QED BY <4>2
    <3>4. QED BY <3>2, <3>3
  <2>2. QED BY <1>1, <1>3, <2>1 DEF Few
<1>4. QED BY <1>2, <1>3

\* Nothing passed yet in a window that begins now.
LEMMA FewInNewWindow ==
  ASSUME NEW n \in Nat, NEW s \in Nat, NEW u \in Nat, NEW L \in Nat, NEW g \in Nat,
         NEW q \in Nat, g > 0, q > 0, n > 0 => s <= u
  PROVE  Few(0, n, s, u + 1, u + 1, L, g, q)
BY DEF Few

LEMMA GoneIs ==
  ASSUME NEW n \in Nat, NEW q \in Nat
  PROVE  /\ (n + 1) * q \in Nat /\ q <= (n + 1) * q
         /\ ((n + 1) + 1) * q = (n + 1) * q + q
         /\ (2 + n) * q = (n + 1) * q + q
<1>1. n * q \in Nat /\ (n + 1) * q = n * q + q
  OBVIOUS
<1>2. ((n + 1) + 1) * q = (n + 1) * q + q /\ (2 + n) * q = n * q + q + q
  OBVIOUS
<1>3. QED BY <1>1, <1>2

LEMMA PassesType ==
  ASSUME IInv, NEW c, NEW l, NEW t
  PROVE  IsFiniteSet(AllowedIn(c, l, t)) /\ Passes(c, l, t) \in Nat
<1>1. AllowedIn(c, l, t) \subseteq Known
  BY DEF AllowedIn, Allowed, Known
<1>2. QED BY <1>1, FS_Subset, FS_CardinalityType DEF IInv, RequestInv, Passes

\* What a step allows more.
LEMMA PassesAfterCall ==
  ASSUME IInv, NEW r \in Requests, NEW p \in Sent, CallStep(r, p),
         NEW c \in Addresses, NEW l \in Labels, NEW t \in 0..now
  PROVE  /\ Passes(c, l, t)' \in Nat
         /\ \/ Passes(c, l, t)' = Passes(c, l, t)
            \/ /\ Passes(c, l, t)' <= Passes(c, l, t) + 1
               /\ p.key = <<c, l>> /\ now < t + Lifetime
               /\ Ran(r, p) /\ counter'[p.key].n <= config.requests
<1> DEFINE A == AllowedIn(c, l, t)
           B == AllowedIn(c, l, t)'
<1>1. /\ request'[r] = p /\ \A s \in Requests \ {r} : request'[s] = request[s]
      /\ Lifetime' = Lifetime /\ p.key = <<p.client, p.label>>
  BY Elsewhere, SameConfig DEF CallStep
<1>2. r \notin Allowed
  BY DEF CallStep, Allowed, Known
<1>3. ASSUME NEW s \in Requests, s # r PROVE s \in B <=> s \in A
  <2>1. request'[s] = request[s]
    BY <1>1, <1>3
  <2>2. QED BY <1>1, <2>1 DEF AllowedIn, Allowed, AnsweredAt
<1>4. A \subseteq Requests /\ B \subseteq Requests /\ r \notin A
  BY <1>2 DEF AllowedIn, Allowed
<1>5. IsFiniteSet(A) /\ Cardinality(A) \in Nat /\ Passes(c, l, t) = Cardinality(A)
  BY PassesType, FS_CardinalityType DEF Passes
<1>6. Passes(c, l, t)' = Cardinality(B)
  BY DEF Passes
<1>7. CASE r \notin B
  <2>1. A = B
    BY <1>3, <1>4, <1>7
  <2>2. QED BY <1>5, <1>6, <2>1
<1>8. CASE r \in B
  <2>1. B = A \union {r}
    BY <1>3, <1>4, <1>8
  <2>2. Cardinality(B) = Cardinality(A) + 1
    BY <1>4, <1>5, <2>1, FS_AddElement
  <2>3. p.stage = "allowed" /\ p.client = c /\ p.label = l
    BY <1>1, <1>8 DEF AllowedIn, Allowed
  <2>4. Ran(r, p) /\ p.hits[Len(p.hits)] = now
    BY <2>3, HitsOf DEF Answered
  <2>5. counter'[p.key].n <= config.requests
    BY <2>3, <2>4 DEF Ran
  <2>6. now \in t..(t + Lifetime - 1)
    BY <1>1, <1>8, <2>4 DEF AllowedIn, AnsweredAt
  <2>7. now < t + Lifetime
    BY <2>6, Types
  <2>8. QED BY <1>1, <1>5, <1>6, <2>2, <2>3, <2>4, <2>5, <2>7
<1>9. QED BY <1>7, <1>8

LEMMA CallKeepsPassing ==
  ASSUME IInv, NEW r \in Requests, NEW p \in Sent, CallStep(r, p)
  PROVE  Passing'
<1>1. /\ now' = now /\ config' = config /\ Lifetime' = Lifetime /\ Gone' = Gone
      /\ Limiting /\ p.key \in Keys
  BY SameConfig DEF CallStep, Sent, Gone
<1>2. ASSUME NEW c \in Addresses, NEW l \in Labels, NEW t \in 0..now
      PROVE  Few(Passes(c, l, t)', counter'[<<c, l>>].n, counter'[<<c, l>>].since, t, now,
                 Lifetime, Gone, config.requests)
  <2> DEFINE k == <<c, l>>
  <2>1. k \in Keys
    BY DEF Keys
  <2>2. PICK P \in Nat, Q \in Nat, n \in Nat, s \in Nat :
          /\ P = Passes(c, l, t) /\ Q = Passes(c, l, t)'
          /\ n = counter[k].n /\ s = counter[k].since
    <3>1. counter[k].n \in Nat /\ counter[k].since \in Nat
      BY <2>1, Types
    <3>2. QED BY <3>1, PassesType, PassesAfterCall
  <2>3. Few(P, n, s, t, now, Lifetime, Gone, config.requests)
    BY <1>1, <2>2 DEF IInv, Passing
  <2>4. \/ Q = P
        \/ /\ Q <= P + 1 /\ p.key = k /\ now < t + Lifetime
           /\ Ran(r, p) /\ counter'[p.key].n <= config.requests
    BY <2>2, PassesAfterCall
  <2>5. CASE Ran(r, p) /\ p.key = k
    <3> DEFINE d == Count(counter[k])
    <3>1. d.n = n + 1 /\ d.since = IF n = 0 THEN now ELSE s
      BY <1>1, <2>1, <2>2, CountOf
    <3>2. counter' = [counter EXCEPT ![k] = d]
      BY <2>5 DEF Ran
    <3>3. counter'[k] = d
      BY <2>1, <3>2, Types
    <3> HIDE DEF d
    <3>4. PICK z \in Nat : z = counter'[k].since /\ z = IF n = 0 THEN now ELSE s
      BY <3>1, <3>3, Types
    <3>5. Q <= P \/ (Q <= P + 1 /\ now < t + Lifetime /\ n + 1 <= config.requests)
      BY <2>4, <2>5, <3>1, <3>3
    <3>6. /\ now \in Nat /\ Lifetime \in Nat /\ config.requests \in Nat /\ Gone \in Nat
          /\ t \in Nat /\ t <= now
      BY Types, GoneIs DEF Gone
    <3>7. Few(Q, n + 1, z, t, now, Lifetime, Gone, config.requests)
      BY <2>3, <3>4, <3>5, <3>6, FewAfterCall
    <3>8. QED BY <2>2, <3>1, <3>3, <3>4, <3>7
  <2>6. CASE ~(Ran(r, p) /\ p.key = k)
    <3>1. Q = P
      BY <2>4, <2>6
    <3>2. counter'[k] = counter[k]
      <4>1. CASE Missed(r, p)
        BY <4>1 DEF Missed
      <4>2. CASE Ran(r, p)
        <5>1. p.key # k
          BY <2>6, <4>2
        <5>2. QED BY <2>1, <4>2, <5>1, Types DEF Ran
      <4>3. QED BY <4>1, <4>2 DEF CallStep
    <3>3. QED BY <2>2, <2>3, <3>1, <3>2
  <2>7. QED BY <2>5, <2>6
<1>3. QED BY <1>1, <1>2 DEF Passing

\* Without another answer, and without a counter more, the windows hold.
LEMMA RestartKeepsPassing ==
  ASSUME IInv, Limiting, Restart
  PROVE  Passing'
<1>1. /\ now' = now /\ config' = config /\ request' = request /\ restarts' = restarts + 1
      /\ Lifetime' = Lifetime
      /\ counter' = [k \in Keys |-> Absent]
  BY RestartKeeps DEF Restart
<1>2. /\ Gone' = Gone + config.requests /\ Gone \in Nat
      /\ now \in Nat /\ Lifetime \in Nat /\ config.requests \in Nat
  BY <1>1, Types, GoneIs DEF Gone
<1>3. ASSUME NEW c \in Addresses, NEW l \in Labels, NEW t \in 0..now
      PROVE  Few(Passes(c, l, t)', counter'[<<c, l>>].n, counter'[<<c, l>>].since, t, now,
                 Lifetime, Gone + config.requests, config.requests)
  <2> DEFINE k == <<c, l>>
  <2>1. k \in Keys
    BY DEF Keys
  <2>2. PICK P \in Nat, n \in Nat, s \in Nat :
          P = Passes(c, l, t) /\ n = counter[k].n /\ s = counter[k].since
    BY <2>1, PassesType, Types
  <2>3. Few(P, n, s, t, now, Lifetime, Gone, config.requests)
    BY <2>2 DEF IInv, Passing
  <2>4. Passes(c, l, t)' = P
    BY <1>1, <2>2 DEF Passes, AllowedIn, Allowed, AnsweredAt
  <2>5. counter'[k].n = 0 /\ counter'[k].since = 0
    BY <1>1, <2>1 DEF Absent
  <2>6. Few(P, 0, 0, t, now, Lifetime, Gone + config.requests, config.requests)
    <3>1. t \in Nat
      BY <1>2
    <3>2. QED BY <1>2, <2>3, <3>1, FewAfterRestart
  <2>7. QED BY <2>4, <2>5, <2>6
<1>4. QED BY <1>1, <1>2, <1>3 DEF Passing

LEMMA TickKeepsPassing ==
  ASSUME IInv, Limiting, Tick
  PROVE  Passing'
<1>1. /\ now' = now + 1 /\ config' = config /\ request' = request /\ restarts' = restarts
      /\ Lifetime' = Lifetime
      /\ counter' = [k \in Keys |-> IF counter[k].until <= now + 1 THEN Absent ELSE counter[k]]
  BY TickKeeps DEF Tick
<1>2. /\ Gone' = Gone /\ Gone \in Nat /\ config.requests <= Gone
      /\ now \in Nat /\ Lifetime \in Nat /\ config.requests \in Nat /\ config.requests > 0
  BY <1>1, Types, GoneIs DEF Gone
<1>3. ASSUME NEW c \in Addresses, NEW l \in Labels, NEW t \in 0..(now + 1)
      PROVE  Few(Passes(c, l, t)', counter'[<<c, l>>].n, counter'[<<c, l>>].since, t, now + 1,
                 Lifetime, Gone, config.requests)
  <2> DEFINE k == <<c, l>>
  <2>1. k \in Keys
    BY DEF Keys
  <2>2. PICK P \in Nat, n \in Nat, s \in Nat, u \in Nat :
          /\ P = Passes(c, l, t)
          /\ n = counter[k].n /\ s = counter[k].since /\ u = counter[k].until
    BY <2>1, PassesType, Types
  <2>3. n > 0 => s <= now /\ u = s + Lifetime
    BY <2>1, <2>2 DEF IInv, TypeOK
  <2>4. Passes(c, l, t)' = P
    BY <1>1, <2>2 DEF Passes, AllowedIn, Allowed, AnsweredAt
  <2>5. PICK m \in Nat, z \in Nat : /\ m = counter'[k].n /\ z = counter'[k].since
                                    /\ (m = n /\ z = s) \/ (m = 0 /\ z = 0 /\ u <= now + 1)
    BY <1>1, <2>1, <2>2 DEF Absent
  <2>6. CASE t <= now
    <3>1. Few(P, n, s, t, now, Lifetime, Gone, config.requests)
      BY <1>2, <2>2, <2>6 DEF IInv, Passing
    <3>2. (m = n /\ z = s) \/ (m = 0 /\ (n > 0 => s + Lifetime <= now + 1))
      BY <2>3, <2>5
    <3>3. Few(P, m, z, t, now + 1, Lifetime, Gone, config.requests)
      <4>1. t \in Nat
        BY <1>2
      <4>2. QED BY <1>2, <3>1, <3>2, <4>1, FewLater
    <3>4. QED BY <2>4, <2>5, <3>3
  <2>7. CASE t = now + 1
    <3>1. AllowedIn(c, l, t) = {}
      <4>1. SUFFICES ASSUME NEW r \in AllowedIn(c, l, t) PROVE FALSE
        OBVIOUS
      <4>2. r \in Allowed /\ AnsweredAt(r) \in t..(t + Lifetime - 1)
        BY DEF AllowedIn
      <4>3. AnsweredAt(r) \in 0..now
        BY <4>2, AnswerOf
      <4>4. QED BY <1>2, <2>7, <4>2, <4>3
    <3>2. P = 0
      BY <2>2, <3>1, FS_EmptySet DEF Passes
    <3>3. m > 0 => z <= now
      BY <1>2, <2>3, <2>5
    <3>4. Few(0, m, z, t, now + 1, Lifetime, Gone, config.requests)
      BY <1>2, <2>7, <3>3, FewInNewWindow
    <3>5. QED BY <2>4, <2>5, <3>2, <3>4
  <2>8. QED BY <1>2, <2>6, <2>7
<1>4. QED BY <1>1, <1>2, <1>3 DEF Passing

-----------------------------------------------------------------------------
(***************************************************************************)
(* Requests that pass because Redis does not answer.                        *)
(***************************************************************************)

\* A call that fails is one debt more.
LEMMA CallKeepsPaid ==
  ASSUME IInv, NEW r \in Requests, NEW p \in Sent, CallStep(r, p)
  PROVE  Paid'
<1>1. /\ Limiting /\ MaxRetries' = MaxRetries /\ restarts' = restarts
      /\ Had(r) \in 0..MaxRetries /\ MaxRetries \in Nat
      /\ Met(p) = IF faults' = faults THEN Had(r) ELSE Had(r) + 1
  BY SameConfig, Types DEF CallStep
<1>2. /\ Known' = Known \union {r} /\ request'[r] = p
      /\ \A s \in Requests \ {r} : request'[s] = request[s]
  BY Elsewhere DEF CallStep
<1>3. IsFiniteSet(Debts) /\ Cardinality(Debts) <= Failed /\ Cardinality(Debts) \in Nat
  BY <1>1, FS_CardinalityType DEF IInv, Paid
<1>4. /\ faults \in Nat /\ restarts \in Nat /\ MaxFaults \in Nat
      /\ faults' = faults \/ faults' = faults - 1
  BY Types DEF CallStep, Missed, Ran
<1>5. \A q \in Sent : Met(q)' = Met(q)
  BY <1>1 DEF Met
<1>6. ASSUME r \in Known PROVE Met(request[r]) = Had(r)
  BY <1>6 DEF CallStep, Had, Met
<1>7. ASSUME NEW h \in Debts', h[1] # r PROVE h \in Debts
  <2>1. h \in Requests \X (1..MaxRetries + 1) /\ h[1] \in Known' /\ h[2] <= Met(request[h[1]])'
    BY <1>1 DEF Debts
  <2>2. h[1] \in Known /\ request'[h[1]] = request[h[1]]
    BY <1>2, <1>7, <2>1
  <2>3. Met(request[h[1]])' = Met(request[h[1]])
    BY <1>1, <2>2 DEF Met
  <2>4. QED BY <2>1, <2>2, <2>3 DEF Debts
<1>8. ASSUME NEW h \in Debts', h[1] = r PROVE h \in Debts \union {<<r, Had(r) + 1>>}
  <2>1. h \in Requests \X (1..MaxRetries + 1) /\ h[2] <= Met(request[r])' /\ h = <<r, h[2]>>
    BY <1>1, <1>8 DEF Debts
  <2>2. Met(request[r])' = Met(p)
    BY <1>1, <1>2 DEF Met
  <2>3. h[2] \in 1..MaxRetries + 1
    BY <2>1
  <2>4. CASE h[2] <= Had(r)
    <3>1. r \in Known
      BY <2>3, <2>4 DEF Had
    <3>2. QED BY <1>6, <2>1, <2>4, <3>1 DEF Debts
  <2>5. CASE h[2] = Had(r) + 1
    BY <2>1, <2>5
  <2>6. QED BY <1>1, <2>1, <2>2, <2>3, <2>4, <2>5
<1>9. CASE faults' = faults
  <2>1. ASSUME NEW h \in Debts', h[1] = r PROVE h \in Debts
    <3>1. h \in Requests \X (1..MaxRetries + 1) /\ h[2] <= Met(request[r])'
      BY <1>1, <2>1 DEF Debts
    <3>2. h[2] <= Had(r) /\ h[2] \in 1..MaxRetries + 1
      BY <1>1, <1>2, <1>9, <3>1 DEF Met
    <3>3. r \in Known
      BY <3>2 DEF Had
    <3>4. QED BY <1>6, <2>1, <3>1, <3>2, <3>3 DEF Debts
  <2>2. Debts' \subseteq Debts
    BY <1>7, <2>1
  <2>3. IsFiniteSet(Debts') /\ Cardinality(Debts') <= Cardinality(Debts)
        /\ Cardinality(Debts') \in Nat
    BY <1>3, <2>2, FS_Subset, FS_CardinalityType
  <2>4. Failed' = Failed
    BY <1>1, <1>9 DEF Failed
  <2>5. Failed \in Int
    BY <1>4 DEF Failed
  <2>6. QED BY <1>3, <2>3, <2>4, <2>5 DEF Paid
<1>10. CASE faults' = faults - 1
  <2> DEFINE D == Debts \union {<<r, Had(r) + 1>>}
  <2>1. Debts' \subseteq D
    BY <1>7, <1>8
  <2>2. IsFiniteSet(D) /\ Cardinality(D) \in Nat /\ Cardinality(D) <= Cardinality(Debts) + 1
    <3> DEFINE x == <<r, Had(r) + 1>>
    <3>1. /\ IsFiniteSet(Debts \union {x})
          /\ Cardinality(Debts \union {x}) =
               IF x \in Debts THEN Cardinality(Debts) ELSE Cardinality(Debts) + 1
      BY <1>3, FS_AddElement
    <3> HIDE DEF x
    <3>2. /\ Cardinality(Debts \union {x}) \in Nat
          /\ Cardinality(Debts \union {x}) <= Cardinality(Debts) + 1
      BY <1>3, <3>1
    <3>3. QED BY <3>1, <3>2 DEF x
  <2>3. IsFiniteSet(Debts') /\ Cardinality(Debts') <= Cardinality(D)
        /\ Cardinality(Debts') \in Nat
    BY <2>1, <2>2, FS_Subset, FS_CardinalityType
  <2>4. Failed' = Failed + 1 /\ Failed \in Int
    BY <1>1, <1>4, <1>10 DEF Failed
  <2> HIDE DEF D
  <2>5. QED BY <1>3, <2>2, <2>3, <2>4 DEF Paid
<1>11. QED BY <1>4, <1>9, <1>10

\* A request that passed took all its calls.
LEMMA PassedArePaid ==
  ASSUME IInv, Limiting, NEW c, NEW l
  PROVE  /\ IsFiniteSet(Passed(c, l)) /\ Cardinality(Passed(c, l)) \in Nat
         /\ Cardinality(Passed(c, l)) <= Failed \div (MaxRetries + 1)
         /\ Failed \div (MaxRetries + 1) \in Nat
<1> DEFINE P == Passed(c, l)
           m == MaxRetries + 1
<1>1. P \subseteq Known /\ \A r \in P : r \in Requests /\ request[r].stage = "passed"
  BY DEF Passed, Known
<1>2. IsFiniteSet(P) /\ Cardinality(P) \in Nat
  BY <1>1, FS_Subset, FS_CardinalityType DEF IInv, RequestInv
<1>3. MaxRetries \in Nat /\ m \in Nat \ {0}
  BY Types
<1>4. IsFiniteSet(1..m) /\ Cardinality(1..m) = m
  BY <1>3, FS_Interval
<1>5. IsFiniteSet(P \X (1..m)) /\ Cardinality(P \X (1..m)) = Cardinality(P) * m
  BY <1>2, <1>4, FS_Product
<1>6. P \X (1..m) \subseteq Debts
  <2>1. SUFFICES ASSUME NEW h \in P \X (1..m) PROVE h \in Debts
    OBVIOUS
  <2>2. h[1] \in P /\ h[2] \in 1..m /\ h \in Requests \X (1..m)
    BY <1>1, <2>1
  <2>3. Met(request[h[1]]) = m
    BY <1>1, <2>2 DEF Met
  <2>4. h[2] <= m
    BY <1>3, <2>2
  <2>5. QED BY <1>1, <2>2, <2>3, <2>4 DEF Debts
<1>7. IsFiniteSet(Debts) /\ Cardinality(Debts) <= Failed /\ Cardinality(Debts) \in Nat
  BY FS_CardinalityType DEF IInv, Paid
<1>8. Cardinality(P \X (1..m)) <= Cardinality(Debts)
  BY <1>6, <1>7, FS_Subset
<1>9. Failed \in Nat
  <2>1. Failed \in Int
    BY Types DEF Failed
  <2>2. QED BY <1>7, <2>1
<1> DEFINE a == Cardinality(P)
           b == Failed \div m
<1>10. b \in Nat /\ Failed < b * m + m
  BY <1>3, <1>9, Division
<1> HIDE DEF P, m, a, b
<1>11. a * m <= Failed /\ a \in Nat
  <2>1. a * m = Cardinality(P \X (1..m)) /\ a \in Nat
    BY <1>2, <1>5 DEF a
  <2>2. a * m \in Nat
    BY <1>3, <2>1
  <2>3. QED BY <1>7, <1>8, <1>9, <2>1, <2>2
<1>12. a * m < b * m + m
  <2>1. a * m \in Nat /\ b * m \in Nat
    BY <1>3, <1>10, <1>11
  <2>2. QED BY <1>3, <1>9, <1>10, <1>11, <2>1
<1>13. a <= b
  BY <1>3, <1>10, <1>11, <1>12, QuotientIs
<1>14. QED BY <1>2, <1>10, <1>13 DEF P, m, a, b

-----------------------------------------------------------------------------
(***************************************************************************)
(* The theorems.                                                           *)
(***************************************************************************)

LEMMA InitIsInvariant ==
  ASSUME Init
  PROVE  IInv
<1>1. now = 0 /\ config \in Configs /\ restarts = 0 /\ faults = MaxFaults
  BY DEF Init
<1>2. /\ config.requests \in Nat /\ MaxTime \in Nat /\ MaxFaults \in Nat
      /\ Lifetime \in Nat
  BY <1>1, ConfigsAssumption, BoundsAssumption, LifetimeBounds
<1>3. request = [r \in Requests |-> New] /\ counter = [k \in Keys |-> Absent]
  BY DEF Init
<1>4. Known = {} /\ Refused = {} /\ Allowed = {}
  BY <1>3 DEF Known, Refused, Allowed, New
<1>5. counter \in [Keys -> [n : Nat, since : Nat, until : Nat]] /\ \A k \in Keys : counter[k].n = 0
  BY <1>3 DEF Absent
<1>6. TypeOK
  <2>1. request \in [Requests -> Sent \union {New}]
    BY <1>3
  <2>2. now \in 0..MaxTime /\ faults \in 0..MaxFaults /\ restarts \in Nat
    BY <1>1, <1>2
  <2>3. QED BY <1>1, <1>5, <2>1, <2>2 DEF TypeOK
<1>7. RequestInv
  BY <1>4, FS_EmptySet DEF RequestInv
<1>8. Counted
  <2>1. \A k, t : Calls(k, t) = {}
    BY <1>4 DEF Calls
  <2>2. QED BY <1>5, <2>1, FS_EmptySet DEF Counted
<1>9. RefusalIsEarned
  BY <1>4 DEF RefusalIsEarned
<1>10. ASSUME Limiting PROVE Passing
  <2>1. \A c, l, t : Passes(c, l, t) = 0
    BY <1>4, FS_EmptySet DEF Passes, AllowedIn
  <2>2. Gone = config.requests /\ config.requests > 0
    BY <1>1, <1>2, <1>10 DEF Gone, Limiting
  <2>3. ASSUME NEW c \in Addresses, NEW l \in Labels, NEW t \in 0..now
        PROVE  Few(0, counter[<<c, l>>].n, counter[<<c, l>>].since, t, now, Lifetime,
                   Gone, config.requests)
    <3>1. counter[<<c, l>>].n = 0
      BY <1>5 DEF Keys
    <3>2. QED BY <1>2, <2>2, <3>1 DEF Few
  <2>4. QED BY <2>1, <2>3 DEF Passing
<1>11. Paid
  <2>1. Debts = {}
    BY <1>4 DEF Debts
  <2>2. Failed = 0
    BY <1>1, <1>2 DEF Failed
  <2>3. QED BY <2>1, <2>2, FS_EmptySet DEF Paid
<1>12. QED BY <1>4, <1>6, <1>7, <1>8, <1>9, <1>10, <1>11 DEF IInv

LEMMA NextKeepsInvariant ==
  ASSUME IInv, [Next]_vars
  PROVE  IInv'
<1>1. ASSUME NEW r \in Requests, NEW p \in Sent, CallStep(r, p) PROVE IInv'
  <2>1. Limiting' = Limiting /\ Limiting
    BY <1>1, SameConfig DEF CallStep
  <2>2. QED BY <1>1, <2>1, CallKeepsTypes, CallKeepsRequests, CallKeepsCounted,
              CallKeepsEarned, CallKeepsPassing, CallKeepsPaid DEF IInv
<1>2. ASSUME NEW r \in Requests, NEW p \in Sent, PassStep(r, p) PROVE IInv'
  <2>1. TypeOK' /\ RequestInv'
    BY <1>2, PassKeeps
  <2>2. /\ Known' = Known \union {r} /\ request'[r] = p
        /\ \A s \in Requests \ {r} : request'[s] = request[s]
    BY <1>2, Elsewhere DEF PassStep
  <2>3. /\ config' = config /\ counter' = counter /\ ~Limiting /\ ~Limiting'
        /\ p.stage = "passed" /\ r \notin Known
    BY <1>2, SameConfig DEF PassStep
  <2>4. \A s \in Known : s \in Known' /\ request'[s] = request[s]
    BY <2>2, <2>3 DEF Known
  <2>5. Grows
    BY <2>4 DEF Grows
  <2>6. Counted'
    BY <2>1, <2>3, <2>5, KeepsCounted
  <2>7. RefusalIsEarned'
    <3>1. ASSUME NEW s \in Refused' PROVE Cardinality(Charged(s)') > config'.requests
      <4>1. s # r /\ s \in Refused /\ request'[s] = request[s]
        BY <2>2, <2>3 DEF Refused
      <4>2. QED BY <2>1, <2>3, <2>5, <4>1, EarnedStays
    <3>2. QED BY <3>1 DEF RefusalIsEarned
  <2>8. Allowed' = {}
    <3>1. Allowed = {}
      BY <2>3 DEF IInv
    <3>2. QED BY <2>2, <2>3, <3>1 DEF Allowed
  <2>9. QED BY <2>1, <2>3, <2>6, <2>7, <2>8 DEF IInv, Paid
<1>3. ASSUME Restart \/ Tick PROVE IInv'
  <2>1. /\ TypeOK' /\ RequestInv' /\ Known' = Known /\ Limiting' = Limiting
        /\ config' = config /\ request' = request
    BY <1>3, RestartKeeps, TickKeeps DEF Restart, Tick
  <2>2. Grows
    BY <2>1 DEF Grows
  <2>3. \A k \in Keys : counter'[k] \in {counter[k], Absent}
    BY <1>3 DEF Restart, Tick
  <2>4. Counted'
    BY <2>1, <2>2, <2>3, KeepsCounted
  <2>5. RefusalIsEarned'
    <3>1. ASSUME NEW s \in Refused' PROVE Cardinality(Charged(s)') > config'.requests
      <4>1. s \in Refused /\ request'[s] = request[s]
        BY <2>1 DEF Refused
      <4>2. QED BY <2>1, <2>2, <4>1, EarnedStays
    <3>2. QED BY <3>1 DEF RefusalIsEarned
  <2>6. Allowed' = Allowed
    BY <2>1 DEF Allowed
  <2>7. Limiting => Passing'
    BY <1>3, RestartKeepsPassing, TickKeepsPassing
  <2>8. Paid'
    <3>1. Failed' = Failed
      BY <1>3, Types DEF Restart, Tick, Failed
    <3>2. Debts' = Debts
      BY <2>1, SameConfig DEF Debts, Met
    <3>3. QED BY <2>1, <3>1, <3>2 DEF IInv, Paid
  <2>9. QED BY <2>1, <2>4, <2>5, <2>6, <2>7, <2>8 DEF IInv
<1>4. CASE UNCHANGED vars
  BY <1>4 DEF vars, IInv, TypeOK, Sent, RequestInv, Known, Counted, Calls, RefusalIsEarned,
     Refused, Charged, AnsweredAt, Passing, Passes, AllowedIn, Allowed, Gone, Limiting,
     Lifetime, WindowSeconds, MaxRetries, Paid, Debts, Met, Failed
<1>5. QED BY <1>1, <1>2, <1>3, <1>4, StepCases

\* What the counters show and what was let through agree in every reachable state; the
\* theorems below are read off this.
LEMMA InvariantHolds == Spec => []IInv
<1>1. Init => IInv
  BY InitIsInvariant
<1>2. IInv /\ [Next]_vars => IInv'
  BY NextKeepsInvariant
<1>3. QED BY <1>1, <1>2, PTL DEF Spec

\* Values stay of their kind, and every counter has its expiry.
THEOREM TypeCorrect == Spec => []TypeOK
<1>1. IInv => TypeOK
  BY DEF IInv
<1>2. QED BY <1>1, InvariantHolds, PTL

\* A client is refused for calls of its own only, more than the limit within a window,
\* however many replicas count at once, and whatever was retried or lost.
THEOREM RefusalsAreEarned == Spec => []RefusalIsEarned
<1>1. IInv => RefusalIsEarned
  BY DEF IInv
<1>2. QED BY <1>1, InvariantHolds, PTL

\* The replicas together let a client pass less than twice the limit in any interval
\* as long as the window, the limit more for every restart of Redis, and one request
\* more for as many failed calls as a request makes.
THEOREM LimitHolds == Spec => []PassesWithinLimit
<1>1. ASSUME IInv, Limiting, NEW c \in Addresses, NEW l \in Labels, NEW t \in 0..now
      PROVE  Cardinality(AllowedIn(c, l, t) \union Passed(c, l))
               < (2 + restarts) * config.requests + Failed \div (MaxRetries + 1)
  <2> DEFINE A == AllowedIn(c, l, t)
             P == Passed(c, l)
             b == Failed \div (MaxRetries + 1)
  <2>1. Cardinality(A) < Gone + config.requests
    BY <1>1 DEF IInv, Passing, Few, Passes
  <2>2. (2 + restarts) * config.requests = Gone + config.requests /\ Gone \in Nat
    BY <1>1, Types, GoneIs DEF Gone
  <2>3. IsFiniteSet(A) /\ Cardinality(A) \in Nat
    BY <1>1, PassesType, FS_CardinalityType
  <2>4. IsFiniteSet(P) /\ Cardinality(P) \in Nat /\ Cardinality(P) <= b /\ b \in Nat
    BY <1>1, PassedArePaid
  <2> HIDE DEF A, P, b
  <2>5. Cardinality(A \union P) \in Nat /\ Cardinality(A \union P) <= Cardinality(A) + Cardinality(P)
    <3>1. /\ IsFiniteSet(A \union P) /\ IsFiniteSet(A \cap P)
          /\ Cardinality(A \union P) = Cardinality(A) + Cardinality(P) - Cardinality(A \cap P)
      BY <2>3, <2>4, FS_Union, FS_Intersection
    <3>2. Cardinality(A \union P) \in Nat /\ Cardinality(A \cap P) \in Nat
      BY <3>1, FS_CardinalityType
    <3>3. QED BY <2>3, <2>4, <3>1, <3>2
  <2>6. Cardinality(A \union P) < Gone + config.requests + b
    BY <1>1, <2>1, <2>2, <2>3, <2>4, <2>5, Types
  <2>7. QED BY <2>2, <2>6 DEF A, P, b
<1>2. IInv => PassesWithinLimit
  BY <1>1 DEF PassesWithinLimit
<1>3. QED BY <1>2, InvariantHolds, PTL

\* A refused client that waits as told finds the counter that refused it gone.
THEOREM WaitingIsEnough == Spec => []WaitingHelps
<1>1. ASSUME IInv, NEW r \in Refused,
             now >= AnsweredAt(r) + WaitTicks, counter[request[r].key].n > 0
      PROVE  AnsweredAt(r) < counter[request[r].key].since
  <2> DEFINE c == counter[request[r].key]
  <2>1. Limiting /\ AnsweredAt(r) \in Nat /\ request[r] \in Sent
    BY <1>1, AnswerOf
  <2>2. request[r].key \in Keys
    BY <2>1 DEF Sent
  <2>3. /\ c.since \in Nat /\ c.until \in Nat
        /\ now < c.until /\ c.until = c.since + Lifetime
    BY <1>1, <2>2, Types DEF IInv, TypeOK
  <2>4. WaitTicks \in Nat /\ Lifetime <= WaitTicks
    BY <1>1, <2>1, Types, WaitCovers DEF Limiting
  <2> HIDE DEF c
  <2>5. AnsweredAt(r) < c.since
    BY <1>1, <2>1, <2>3, <2>4, Types
  <2>6. QED BY <2>5 DEF c
<1>2. IInv => WaitingHelps
  BY <1>1 DEF WaitingHelps
<1>3. QED BY <1>2, InvariantHolds, PTL
=============================================================================

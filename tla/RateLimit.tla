------------------------------ MODULE RateLimit ------------------------------
(***************************************************************************)
(* The rate limit in front of the public routes: middleware.NewRateLimit     *)
(* builds a key from the client's address, the method and the normalised      *)
(* path, redis.RateLimiter runs a script that counts the call in a window     *)
(* that starts with the first one, and the request is served, refused with a  *)
(* Retry-After, or served because Redis does not answer.                     *)
(*                                                                         *)
(* All replicas of the API share the counters. The Redis client tries a call   *)
(* again when it fails, also when only its answer was lost, and Redis may      *)
(* lose its counters in a restart. Proxies put the address they were called   *)
(* from into X-Forwarded-For or X-Real-IP. Time passes in ticks.             *)
(* Definitions introduced by "Mistake:" are not part of the specification.   *)
(***************************************************************************)
EXTENDS Integers, Sequences, FiniteSets, FiniteSetsExt

CONSTANTS
  Requests,    \* requests to public routes, each of them sent at most once
  Arrivals,    \* ways a request may reach the API: records with the client's
               \* address, and remote, forwarded and real as the API sees them
  Addresses,   \* addresses of clients and proxies
  Trusted,     \* those inside HTTPConfig.TrustedProxies
  Junk,        \* an entry of X-Forwarded-For that is no address
  Nobody,      \* no address
  Paths,       \* pairs of a route, with its method, and a token
  Templated,   \* routes whose token normalizePath replaces by a placeholder
  Configs,     \* RateLimitConfig with enabled, requests and window (in ticks), and
               \* retries, for RedisConfig.MaxRetries, which is not validated
  Second,      \* ticks of a second
  MaxTime,     \* bound: ticks
  MaxFaults    \* bound: failed calls and restarts of Redis

\* Config.validate
ASSUME ConfigsAssumption ==
  \A cfg \in Configs :
    /\ cfg.enabled \in BOOLEAN /\ cfg.retries \in Nat \union {-1}
    /\ cfg.requests \in Nat /\ cfg.window \in Nat
    /\ cfg.enabled => cfg.requests > 0 /\ cfg.window > 0
ASSUME SecondAssumption == Second \in Nat \ {0}
ASSUME BoundsAssumption == MaxTime \in Nat /\ MaxFaults \in Nat
ASSUME AddressAssumption == /\ Nobody \notin Addresses /\ Junk \notin Addresses
                            /\ Trusted \subseteq Addresses

Header(entries, a) == {i \in DOMAIN a.forwarded : a.forwarded[i] \in entries}

\* A client outside calls the API itself, or through proxies: then the header ends
\* with its address and those of proxies. Whatever it sent comes before.
FromOutside(a) ==
  /\ a.client \notin Trusted
  /\ \/ a.remote = a.client
     \/ /\ a.remote \in Trusted
        /\ \E i \in Header({a.client}, a) :
             \A j \in DOMAIN a.forwarded : j > i => j \in Header(Trusted, a)

\* A proxy sends a request of its own, directly or through other proxies.
FromProxy(a) ==
  /\ a.client \in Trusted /\ a.remote \in Trusted /\ a.real = Nobody
  /\ Header(Trusted, a) = DOMAIN a.forwarded
  /\ IF DOMAIN a.forwarded = {} THEN a.remote = a.client ELSE a.forwarded[1] = a.client

\* The proxy in front puts the client's address into X-Real-IP instead.
AsRealIP(a) ==
  /\ a.remote \in Trusted /\ a.real = a.client
  /\ Header({Junk}, a) = DOMAIN a.forwarded

ASSUME ArrivalsAssumption ==
  \A a \in Arrivals :
    /\ a.client \in Addresses /\ Len(a.forwarded) \in Nat
    /\ DOMAIN a.forwarded = 1..Len(a.forwarded)
    /\ FromOutside(a) \/ FromProxy(a) \/ AsRealIP(a)

VARIABLES
  now,       \* the time
  config,    \* the configuration of the replicas
  counter,   \* counter[k]: n, the value under key k, 0 if absent; until, when it
             \* expires; since, when it was first counted (history)
  request,   \* request[r]: where r stands
  restarts,  \* how often Redis lost its counters (history)
  faults     \* remaining budget of faults

vars == <<now, config, counter, request, restarts, faults>>

\* Mistake: the first valid entry of the header is taken.
ForwardedFirst(header) ==
  LET valid == {i \in DOMAIN header : header[i] # Junk}
  IN IF valid # {} THEN header[Min(valid)] ELSE Nobody

\* The last address of X-Forwarded-For that is not a trusted proxy, or else the
\* first address of it.
ForwardedFor(header) ==
  LET valid == {i \in DOMAIN header : header[i] # Junk}
      foreign == {i \in valid : header[i] \notin Trusted}
  IN IF foreign # {} THEN header[Max(foreign)]
     ELSE IF valid # {} THEN header[Min(valid)] ELSE Nobody

\* ClientIPResolver.Resolve
Resolve(a) ==
  IF a.remote \notin Trusted THEN a.remote
  ELSE IF ForwardedFor(a.forwarded) # Nobody THEN ForwardedFor(a.forwarded)
  ELSE IF a.real # Nobody THEN a.real ELSE a.remote

\* normalizePath
Label(path) == IF path[1] \in Templated THEN <<path[1]>> ELSE path
Labels == {Label(path) : path \in Paths}

Keys == Addresses \X Labels
Absent == [n |-> 0, since |-> 0, until |-> 0]
New == [stage |-> "new"]

\* How often the Redis client tries a call again: it takes 0 for its default, and
\* -1 for never.
MaxRetries ==
  IF config.retries = 0 THEN 3 ELSE IF config.retries = -1 THEN 0 ELSE config.retries

\* The window in seconds, rounded up; its ticks; and the answer's Retry-After.
WindowSeconds == (config.window + Second - 1) \div Second
Lifetime == WindowSeconds * Second
RetryAfter == IF config.window < Second THEN 1 ELSE config.window \div Second

Init ==
  /\ now = 0
  /\ config \in Configs
  /\ counter = [k \in Keys |-> Absent]
  /\ request = [r \in Requests |-> New]
  /\ restarts = 0
  /\ faults = MaxFaults

Limiting == config.requests > 0 /\ config.window > 0

-----------------------------------------------------------------------------
\* Mistake: every call puts the expiry off.
CountRenewing(c) ==
  [n |-> c.n + 1, since |-> IF c.n = 0 THEN now ELSE c.since, until |-> now + Lifetime]

\* The script: INCR, and EXPIRE if the call is the first.
Count(c) ==
  IF c.n = 0 THEN [n |-> 1, since |-> now, until |-> now + Lifetime]
  ELSE [c EXCEPT !.n = @ + 1]

\* Mistake: one call more than the limit is let through.
WithinOneMore(n) == n <= config.requests + 1

\* The script's answer.
Within(n) == n <= config.requests

\* An attempt to run the script for q, which is where r stands: it runs and its
\* answer arrives, or it fails, after it ran or before. The client library tries
\* again as often as configured; then Allow returns the error, and r is served.
Attempt(r, q) ==
  LET counted == [counter EXCEPT ![q.key] = Count(@)]
      last == q.retries = MaxRetries
  IN
  \/ /\ counter' = counted
     /\ request' = [request EXCEPT ![r] =
          [q EXCEPT !.stage = IF Within(counted[q.key].n) THEN "allowed" ELSE "refused",
                    !.hits = Append(@, now)]]
     /\ faults' = faults
  \/ /\ faults > 0 /\ faults' = faults - 1
     /\ \E ran \in BOOLEAN :
          /\ counter' = IF ran THEN counted ELSE counter
          /\ request' = [request EXCEPT ![r] =
               [q EXCEPT !.stage = IF last THEN "passed" ELSE "asked",
                         !.retries = IF last THEN @ ELSE @ + 1,
                         !.hits = IF ran THEN Append(@, now) ELSE @]]

\* A request arrives, and the limiter asks Redis for the first time.
Ask(r, a, path) ==
  /\ request[r].stage = "new" /\ Limiting
  /\ Attempt(r, [stage |-> "asked", client |-> a.client, label |-> Label(path),
                 key |-> <<Resolve(a), Label(path)>>, retries |-> 0, hits |-> << >>])
  /\ UNCHANGED <<now, config, restarts>>

AskAgain(r) ==
  /\ request[r].stage = "asked"
  /\ Attempt(r, request[r])
  /\ UNCHANGED <<now, config, restarts>>

\* A limiter without a limit or a window lets the request pass.
Bypass(r, a, path) ==
  /\ request[r].stage = "new" /\ ~Limiting
  /\ request' = [request EXCEPT ![r] =
       [stage |-> "passed", client |-> a.client, label |-> Label(path),
        key |-> <<Resolve(a), Label(path)>>, retries |-> 0, hits |-> << >>]]
  /\ UNCHANGED <<now, config, counter, restarts, faults>>

\* Redis is restarted without its counters.
Restart ==
  /\ faults > 0
  /\ faults' = faults - 1
  /\ restarts' = restarts + 1
  /\ counter' = [k \in Keys |-> Absent]
  /\ UNCHANGED <<now, config, request>>

\* Time passes; a key whose time has come is gone.
Tick ==
  /\ now < MaxTime
  /\ now' = now + 1
  /\ counter' = [k \in Keys |-> IF counter[k].until <= now' THEN Absent ELSE counter[k]]
  /\ UNCHANGED <<config, request, restarts, faults>>

Next ==
  \/ Restart \/ Tick
  \/ \E r \in Requests :
       \/ AskAgain(r)
       \/ \E a \in Arrivals, path \in Paths : Ask(r, a, path) \/ Bypass(r, a, path)

Spec == Init /\ [][Next]_vars

-----------------------------------------------------------------------------
Sent ==
  [stage : {"asked", "allowed", "refused", "passed"}, client : Addresses,
   label : Labels, key : Keys, retries : 0..MaxRetries, hits : Seq(0..MaxTime)]

\* The variables hold values of the expected kind, and a key that is set expires
\* one window after it was first counted: no counter stays for ever.
TypeOK ==
  /\ now \in 0..MaxTime
  /\ config \in Configs
  /\ counter \in [Keys -> [n : Nat, since : Nat, until : Nat]]
  /\ request \in [Requests -> Sent \union {New}]
  /\ restarts \in Nat
  /\ faults \in 0..MaxFaults
  /\ \A k \in Keys : counter[k].n > 0 =>
       /\ counter[k].since <= now /\ now < counter[k].until
       /\ counter[k].until = counter[k].since + Lifetime

Refused == {r \in Requests : request[r].stage = "refused"}
Allowed == {r \in Requests : request[r].stage = "allowed"}

\* When the answer of an answered request was computed.
AnsweredAt(r) == request[r].hits[Len(request[r].hits)]

\* The calls of r's client for r's label that Redis counted in the window before
\* r's answer.
Charged(r) ==
  {h \in Requests \X (1..MaxFaults + 1) : LET q == request[h[1]] IN
     /\ q.stage # "new" /\ h[2] \in DOMAIN q.hits
     /\ q.client = request[r].client /\ q.label = request[r].label
     /\ AnsweredAt(r) - Lifetime < q.hits[h[2]] /\ q.hits[h[2]] <= AnsweredAt(r)}

\* A client is refused only after calls of its own: more than the limit of them
\* were counted for this client and route within one window, however the proxies
\* in front report its address. A retried call may count more than once.
RefusalIsEarned == \A r \in Refused : Cardinality(Charged(r)) > config.requests

AllowedIn(c, l, t) ==
  {r \in Allowed : /\ request[r].client = c /\ request[r].label = l
                   /\ AnsweredAt(r) \in t..(t + Lifetime - 1)}
Passed(c, l) ==
  {r \in Requests : /\ request[r].stage = "passed"
                    /\ request[r].client = c /\ request[r].label = l}

\* Calls of Redis that failed: all faults but the restarts.
Failed == MaxFaults - faults - restarts

\* Replicas together let a client pass less than twice the limit in any interval
\* as long as the window, plus the limit for each restart of Redis; "fixed-window
\* public rate limiting" does not promise less. What passes because Redis does not
\* answer comes on top, one request at most for each call that failed with all its
\* retries: they are all counted here, whenever they passed.
PassesWithinLimit ==
  Limiting => \A c \in Addresses, l \in Labels, t \in 0..now :
    Cardinality(AllowedIn(c, l, t) \union Passed(c, l))
      < (2 + restarts) * config.requests + Failed \div (MaxRetries + 1)

\* After the seconds named by Retry-After, and one more if the window is longer but
\* no whole number of seconds, a refused request is not counted any more: the counter that
\* refused it is gone, whatever was refused in the meantime.
Rounded == config.window > Second /\ config.window % Second # 0
WaitTicks == (IF Rounded THEN RetryAfter + 1 ELSE RetryAfter) * Second
WaitingHelps ==
  \A r \in Refused : LET c == counter[request[r].key] IN
    now >= AnsweredAt(r) + WaitTicks /\ c.n > 0 => AnsweredAt(r) < c.since
=============================================================================

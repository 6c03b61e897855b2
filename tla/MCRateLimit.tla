---------------------------- MODULE MCRateLimit ----------------------------
(***************************************************************************)
(* Instances of RateLimit: a client behind trusted proxies, one of which    *)
(* also sends requests of its own, and headers that a request carried before. *)
(***************************************************************************)
EXTENDS RateLimit, TLC

CONSTANTS alice, edge, ingress, t1, t2

MCSymmetry == Permutations(Requests)

\* A request of client x that carries the header before it passes the chain of
\* proxies, each of which appends the address it was called from.
Through(x, carried, chain) ==
  [client |-> x, real |-> Nobody,
   remote |-> IF chain = << >> THEN x ELSE chain[Len(chain)],
   forwarded |-> IF chain = << >> THEN carried
                 ELSE carried \o <<x>> \o SubSeq(chain, 1, Len(chain) - 1)]

\* Requests of a client that carry the address of a proxy, directly and through
\* proxies; of a client whose proxy sets X-Real-IP instead; probes by a proxy.
MCArrivals ==
  {Through(alice, <<edge>>, << >>), Through(alice, <<edge, Junk>>, <<ingress>>),
   Through(alice, << >>, <<edge, ingress>>),
   [client |-> alice, remote |-> ingress, forwarded |-> <<Junk>>, real |-> alice],
   Through(edge, << >>, << >>), Through(edge, << >>, <<ingress>>)}

MCPaths == {<<"verify", t1>>, <<"verify", t2>>, <<"share-links", t1>>}

Every(requests, window, retries) ==
  [enabled |-> TRUE, requests |-> requests, window |-> window, retries |-> retries]
MCConfigs ==
  {Every(1, 3, 1), Every(2, 1, 0), Every(2, 2, -1),
   [enabled |-> FALSE, requests |-> 0, window |-> 2, retries |-> 0]}
=============================================================================

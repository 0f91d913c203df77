--------------------------- MODULE MCRateLimiter ---------------------------
\* An instance of RateLimitMount for TLC: the rate limiter with its mounts.
EXTENDS RateLimitMount, TLC

CONSTANTS k1, k2

\* Behind a proxy that names each client; on a connection of its own without
\* one; and a header that names nobody.
MCClients ==
  {[peer |-> k2, forwarded |-> k1], [peer |-> k2, forwarded |-> None], [peer |-> None, forwarded |-> Blank]}

LimiterSymmetry == Permutations(Requests)
=============================================================================

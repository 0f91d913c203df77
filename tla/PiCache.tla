------------------------------ MODULE PiCache ------------------------------
(***************************************************************************)
(* create_pi_cache (stripe_multichain/pi_cache.py) in the instances of one  *)
(* deployment: the deposit addresses a merchant minted, in Redis (when      *)
(* redis_url is set) and in a dict of the instance, and the payment intents *)
(* and sibling addresses they belong to, in dicts of the instance only.     *)
(*                                                                          *)
(* The operators below are the operations of the cache; PayToAddress says   *)
(* who calls them, and when.                                                *)
(***************************************************************************)
EXTENDS Integers, FiniteSets

CONSTANTS
  Instances,       \* processes
  Intents,         \* Stripe payment intents; one per order
  Networks,        \* the chains on which a payment intent has an address
  TTL,             \* ttl_seconds, in ticks
  Deployments,     \* what the deployment may be, of the three below
  Foreign,         \* an address that is not the merchant's
  None

\* A deposit address belongs to one payment intent and one network.
Deposits == Intents \X Networks
Statics == {"static"} \X Networks
Addresses == Deposits \cup Statics \cup {Foreign}

ASSUME CacheAssumption ==
  /\ TTL \in Nat \ {0}
  /\ Deployments \subseteq {"in_process", "redis", "failing_redis"}
  /\ "static" \notin Intents
  /\ Foreign \notin Deposits \cup Statics
  /\ None \notin Nat \cup Intents \cup Addresses \cup [value : Intents, expires_at : Nat]

VARIABLES
  deployment,             \* no redis_url; or one, and its commands may raise or not
  clock,                  \* time.time(), and Redis's clock
  redis,                  \* address -> the time its key lapses, or None
  addr_mem_cache,         \* instance -> address -> expiry or None
  pi_cache,               \* instance -> address -> [value, expires_at] or None
  network_address_cache   \* instance -> intent -> expiry of its address map, or None

UsesRedis == deployment # "in_process"
RedisFails == deployment = "failing_redis"

cacheVars == <<redis, addr_mem_cache, pi_cache, network_address_cache>>

CacheTypeOK ==
  /\ deployment \in Deployments
  /\ clock \in Nat
  /\ redis \in [Addresses -> Nat \cup {None}]
  /\ addr_mem_cache \in [Instances -> [Addresses -> Nat \cup {None}]]
  /\ pi_cache \in [Instances -> [Addresses -> [value : Intents, expires_at : Nat] \cup {None}]]
  /\ network_address_cache \in [Instances -> [Intents -> Nat \cup {None}]]

CacheInit ==
  /\ deployment \in Deployments
  /\ clock = 0
  /\ redis = [a \in Addresses |-> None]
  /\ addr_mem_cache = [i \in Instances |-> [a \in Addresses |-> None]]
  /\ pi_cache = [i \in Instances |-> [a \in Addresses |-> None]]
  /\ network_address_cache = [i \in Instances |-> [p \in Intents |-> None]]

-----------------------------------------------------------------------------
\* await r.set(address, "1", ex=ttl), when it does not raise.
RedisSet(a) == redis' = [redis EXCEPT ![a] = clock + TTL]

\* Slip: the key was set without ex=ttl.
RedisHoldsForever(a) == redis[a] # None

\* bool(await r.get(address)).
RedisHolds(a) == redis[a] # None /\ redis[a] > clock

\* has_address, the dict.
MemHolds(i, a) == addr_mem_cache[i][a] # None /\ addr_mem_cache[i][a] > clock

\* get_payment_intent_id; the entry it finds lapsed is dropped.
IntentLapsed(i, a) == pi_cache[i][a] # None /\ pi_cache[i][a].expires_at < clock
IntentOf(i, a) ==
  IF pi_cache[i][a] = None \/ IntentLapsed(i, a) THEN None ELSE pi_cache[i][a].value
DropLapsedIntent(i, a) ==
  pi_cache' = IF IntentLapsed(i, a) THEN [pi_cache EXCEPT ![i][a] = None] ELSE pi_cache

\* get_network_deposit_address, for any network, drops likewise.
MapLapsed(i, p) == network_address_cache[i][p] # None /\ network_address_cache[i][p] < clock
HasMap(i, p) == network_address_cache[i][p] # None /\ ~MapLapsed(i, p)
DropLapsedMap(i, p) ==
  network_address_cache' =
    IF p # None /\ MapLapsed(i, p)
    THEN [network_address_cache EXCEPT ![i][p] = None] ELSE network_address_cache

\* Slip: the intent is not kept with the address.
StoreAddressOnly(i, p, a) ==
  /\ addr_mem_cache' = [addr_mem_cache EXCEPT ![i][a] = clock + TTL]
  /\ UNCHANGED pi_cache

\* cache_address past Redis, and cache_payment_intent for a deposit of p.
StoreHere(i, p, a) ==
  /\ addr_mem_cache' = [addr_mem_cache EXCEPT ![i][a] = clock + TTL]
  /\ pi_cache' = IF a \in {p} \X Networks
                 THEN [pi_cache EXCEPT ![i][a] = [value |-> p, expires_at |-> clock + TTL]]
                 ELSE pi_cache

\* Slip: the sweep takes every sibling map.
SweepAllMaps(i) ==
  /\ pi_cache' = [pi_cache EXCEPT ![i] =
       [a \in Addresses |-> IF IntentLapsed(i, a) THEN None ELSE @[a]]]
  /\ network_address_cache' = [network_address_cache EXCEPT ![i] = [p \in Intents |-> None]]

\* What a sweep leaves of the payment intents and of the sibling maps.
SweepIntents(i) ==
  /\ pi_cache' = [pi_cache EXCEPT ![i] =
       [a \in Addresses |-> IF IntentLapsed(i, a) THEN None ELSE @[a]]]
  /\ network_address_cache' = [network_address_cache EXCEPT ![i] =
       [p \in Intents |-> IF MapLapsed(i, p) THEN None ELSE @[p]]]

\* One round of _evict_loop.
Evict(i) ==
  /\ SweepIntents(i)
  /\ addr_mem_cache' = [addr_mem_cache EXCEPT ![i] =
       [a \in Addresses |-> IF @[a] # None /\ @[a] < clock THEN None ELSE @[a]]]
  /\ UNCHANGED <<deployment, clock, redis>>

\* The dicts of a process that starts anew.
ForgetAll(i) ==
  /\ addr_mem_cache' = [addr_mem_cache EXCEPT ![i] = [a \in Addresses |-> None]]
  /\ pi_cache' = [pi_cache EXCEPT ![i] = [a \in Addresses |-> None]]
  /\ network_address_cache' = [network_address_cache EXCEPT ![i] = [p \in Intents |-> None]]
=============================================================================

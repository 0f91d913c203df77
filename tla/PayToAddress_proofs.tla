------------------------ MODULE PayToAddress_proofs ------------------------
(***************************************************************************)
(* Proofs about the deposit cache and the credentials bound to its          *)
(* addresses: any number of instances, orders and legs, any networks.       *)
(***************************************************************************)
EXTENDS PayToAddress, TLAPS

\* The addresses of an order, as its leg caches them.
OfOrder(p) == DepositsOf(p) \cup StaticAddresses

\* What was kept is where it was put until it has lapsed.
KeptInv ==
  \A e \in kept :
    /\ e.at <= clock /\ e.addr # Foreign
    /\ e.where = Shared => UsesRedis /\ redis[e.addr] # None /\ e.at + TTL <= redis[e.addr]
    /\ e.where # Shared =>
         /\ \/ e.at + TTL < clock
            \/ addr_mem_cache[e.where][e.addr] # None /\ e.at + TTL <= addr_mem_cache[e.where][e.addr]
         /\ e.addr \in Deposits =>
              \/ e.at + TTL < clock
              \/ pi_cache[e.where][e.addr] # None /\ e.at + TTL <= pi_cache[e.where][e.addr].expires_at

\* What is found somewhere was put there, a lifetime before it lapses.
HeldInv ==
  /\ \A a \in Addresses : redis[a] # None =>
       \E e \in kept : e.addr = a /\ e.where = Shared /\ e.at + TTL = redis[a]
  /\ \A i \in Instances, a \in Addresses : addr_mem_cache[i][a] # None =>
       \E e \in kept : e.addr = a /\ e.where = i /\ e.at + TTL = addr_mem_cache[i][a]

\* An address has its own payment intent and, in process, that intent's map for
\* as long as it is held itself.
SiblingInv ==
  /\ \A i \in Instances, a \in Addresses :
       pi_cache[i][a] # None => a \in {pi_cache[i][a].value} \X Networks
  /\ ~UsesRedis =>
       \A i \in Instances, p \in Intents, n \in Networks : addr_mem_cache[i][<<p, n>>] # None =>
         \/ addr_mem_cache[i][<<p, n>>] < clock
         \/ /\ network_address_cache[i][p] # None
            /\ addr_mem_cache[i][<<p, n>>] <= network_address_cache[i][p]

\* What Redis said of the address that a leg asked for.
Heard(r) ==
  /\ asked[r] \in Nat /\ asked[r] <= clock
  /\ hit[r] => \E e \in kept : e.addr = address[r] /\ e.where = Shared /\ e.at + TTL > asked[r]
  /\ ~hit[r] /\ ~RedisFails =>
       \A e \in kept : e.addr = address[r] /\ e.where = Shared /\ e.at < asked[r] => e.at + TTL <= asked[r]

\* Where a leg stands tells what it holds.
LegInv(r) ==
  /\ pc[r] = "idle" => address[r] = None /\ asked[r] = None
  /\ pc[r] \in {"set", "store", "get", "resolve"} => UsesRedis /\ inst[r] \in Instances /\ address[r] \in Addresses
  /\ pc[r] \in {"set", "store"} =>
       intent[r] \in Intents /\ address[r] \in OfOrder(intent[r]) /\ todo[r] \subseteq OfOrder(intent[r])
  /\ pc[r] = "resolve" => Heard(r)
  /\ pc[r] = "minted" => \E p \in Intents : recipients[r] = Merged(p)
  /\ ~UsesRedis /\ pc[r] = "reused" => address[r] \in recipients[r]

PayToInv == TypeOK /\ KeptInv /\ HeldInv /\ SiblingInv /\ \A r \in Requests : LegInv(r)

-----------------------------------------------------------------------------
(* Addresses. *)

\* An order's addresses are the merchant's: its own deposits, and the statics.
LEMMA OrderAddresses ==
  /\ Deposits \subseteq Addresses /\ StaticAddresses \subseteq Addresses
  /\ Foreign \in Addresses /\ Foreign \notin Deposits \cup StaticAddresses
  /\ StaticAddresses \cap Deposits = {}
  /\ \A p \in Intents : OfOrder(p) \subseteq Addresses \ {Foreign} /\ Merged(p) \subseteq Addresses
  /\ \A p \in Intents : \A a \in OfOrder(p) : a \in Deposits => a \in {p} \X Networks
<1>1. StripeNets \subseteq Networks /\ StaticNets \subseteq Networks
  BY PayToAssumption DEF StripeNets
<1>2. StaticAddresses \subseteq Statics /\ Deposits \subseteq Addresses /\ Statics \subseteq Addresses /\ Foreign \in Addresses
  BY <1>1 DEF StaticAddresses, Statics, Addresses
<1>3. Statics \cap Deposits = {} /\ Foreign \notin Deposits \cup Statics
  BY CacheAssumption DEF Statics, Deposits
<1>4. ASSUME NEW p \in Intents
      PROVE  DepositsOf(p) \subseteq {p} \X Networks /\ DepositsOf(p) \subseteq Deposits
             /\ Merged(p) \subseteq Deposits \cup StaticAddresses
  BY <1>1 DEF DepositsOf, Deposits, Merged
<1> QED BY <1>2, <1>3, <1>4 DEF OfOrder

\* The types of what is read from the caches.
LEMMA CacheTypes ==
  ASSUME TypeOK
  PROVE  /\ clock \in Nat /\ TTL \in Nat /\ TTL > 0 /\ None \notin Nat
         /\ \A a \in Addresses : redis[a] \in Nat \cup {None}
         /\ \A i \in Instances, a \in Addresses :
              /\ addr_mem_cache[i][a] \in Nat \cup {None}
              /\ pi_cache[i][a] # None => pi_cache[i][a].value \in Intents /\ pi_cache[i][a].expires_at \in Nat
         /\ \A i \in Instances, p \in Intents : network_address_cache[i][p] \in Nat \cup {None}
         /\ \A e \in kept : e.addr \in Addresses /\ e.where \in Instances \cup {Shared} /\ e.at \in Nat
<1>1. \A i \in Instances, a \in Addresses : pi_cache[i][a] \in [value : Intents, expires_at : Nat] \cup {None}
  BY DEF TypeOK, CacheTypeOK
<1>2. \A e \in kept : e.addr \in Addresses /\ e.where \in Instances \cup {Shared} /\ e.at \in Nat
  BY DEF TypeOK
<1> QED BY <1>1, <1>2, CacheAssumption DEF TypeOK, CacheTypeOK

-----------------------------------------------------------------------------
(* Parts of steps. *)

\* Time passes, and what has lapsed is dropped somewhere.
LEMMA Fade ==
  ASSUME PayToInv, TypeOK', UNCHANGED <<deployment, redis, kept>>, clock <= clock',
         \A i \in Instances, a \in Addresses :
           addr_mem_cache'[i][a] = addr_mem_cache[i][a]
             \/ (addr_mem_cache'[i][a] = None /\ addr_mem_cache[i][a] # None /\ addr_mem_cache[i][a] < clock),
         \A i \in Instances, a \in Addresses :
           pi_cache'[i][a] = pi_cache[i][a]
             \/ (pi_cache'[i][a] = None /\ pi_cache[i][a] # None /\ pi_cache[i][a].expires_at < clock),
         \A i \in Instances, p \in Intents :
           network_address_cache'[i][p] = network_address_cache[i][p]
             \/ (network_address_cache'[i][p] = None /\ network_address_cache[i][p] # None
                   /\ network_address_cache[i][p] < clock)
  PROVE  KeptInv' /\ HeldInv' /\ SiblingInv'
<1>1. /\ TypeOK /\ KeptInv /\ HeldInv /\ SiblingInv /\ UsesRedis' = UsesRedis
      /\ clock' \in Nat /\ Deposits \subseteq Addresses
  BY OrderAddresses DEF PayToInv, UsesRedis, TypeOK, CacheTypeOK
<1>2. KeptInv'
  <2> SUFFICES ASSUME NEW e \in kept
               PROVE  /\ e.at <= clock' /\ e.addr # Foreign
                      /\ e.where = Shared => UsesRedis /\ redis[e.addr] # None /\ e.at + TTL <= redis[e.addr]
                      /\ e.where # Shared =>
                           /\ \/ e.at + TTL < clock'
                              \/ /\ addr_mem_cache'[e.where][e.addr] # None
                                 /\ e.at + TTL <= addr_mem_cache'[e.where][e.addr]
                           /\ e.addr \in Deposits =>
                                \/ e.at + TTL < clock'
                                \/ /\ pi_cache'[e.where][e.addr] # None
                                   /\ e.at + TTL <= pi_cache'[e.where][e.addr].expires_at
    BY <1>1 DEF KeptInv
  <2>1. /\ e.at <= clock /\ e.addr # Foreign
        /\ e.where = Shared => UsesRedis /\ redis[e.addr] # None /\ e.at + TTL <= redis[e.addr]
        /\ e.where # Shared =>
             /\ \/ e.at + TTL < clock
                \/ addr_mem_cache[e.where][e.addr] # None /\ e.at + TTL <= addr_mem_cache[e.where][e.addr]
             /\ e.addr \in Deposits =>
                  \/ e.at + TTL < clock
                  \/ pi_cache[e.where][e.addr] # None /\ e.at + TTL <= pi_cache[e.where][e.addr].expires_at
        /\ e.at \in Nat /\ e.addr \in Addresses /\ e.where \in Instances \cup {Shared}
    BY <1>1, CacheTypes DEF KeptInv
  <2>2. e.where # Shared =>
          /\ addr_mem_cache[e.where][e.addr] \in Nat \cup {None}
          /\ pi_cache[e.where][e.addr] # None => pi_cache[e.where][e.addr].expires_at \in Nat
    BY <1>1, <2>1, CacheTypes
  <2>3. clock \in Nat /\ TTL \in Nat /\ None \notin Nat
    BY <1>1, CacheTypes
  <2> QED BY <1>1, <2>1, <2>2, <2>3
<1>3. HeldInv'
  BY <1>1 DEF HeldInv
<1>4. SiblingInv'
  <2>1. \A i \in Instances, a \in Addresses :
          pi_cache'[i][a] # None => a \in {pi_cache'[i][a].value} \X Networks
    BY <1>1 DEF SiblingInv
  <2>2. ASSUME ~UsesRedis, NEW i \in Instances, NEW p \in Intents, NEW n \in Networks,
               addr_mem_cache'[i][<<p, n>>] # None
        PROVE  \/ addr_mem_cache'[i][<<p, n>>] < clock'
               \/ /\ network_address_cache'[i][p] # None
                  /\ addr_mem_cache'[i][<<p, n>>] <= network_address_cache'[i][p]
    <3> DEFINE x == addr_mem_cache[i][<<p, n>>]
    <3>1. <<p, n>> \in Addresses
      BY OrderAddresses DEF Deposits
    <3>2. x # None /\ addr_mem_cache'[i][<<p, n>>] = x /\ x \in Nat
      BY <1>1, <2>2, <3>1, CacheTypes
    <3>3. x < clock \/ (network_address_cache[i][p] # None /\ x <= network_address_cache[i][p])
      BY <1>1, <2>2, <3>2 DEF SiblingInv
    <3>4. clock \in Nat /\ network_address_cache[i][p] \in Nat \cup {None}
      BY <1>1, CacheTypes
    <3> QED BY <1>1, <3>2, <3>3, <3>4
  <2> QED BY <1>1, <2>1, <2>2 DEF SiblingInv
<1> QED BY <1>2, <1>3, <1>4

\* A leg that a step is not about.
LEMMA Bystander ==
  ASSUME PayToInv, NEW s \in Requests, UNCHANGED deployment, clock' \in Nat, clock <= clock',
         pc'[s] \in {pc[s], "dropped"}, inst'[s] = inst[s], intent'[s] = intent[s], todo'[s] = todo[s],
         address'[s] = address[s], hit'[s] = hit[s], asked'[s] = asked[s], recipients'[s] = recipients[s],
         \A e \in kept : e.where = Shared => e \in kept',
         \A e \in kept' : e \in kept \/ e.at = clock
  PROVE  LegInv(s)'
<1>1. LegInv(s) /\ clock \in Nat /\ UsesRedis' = UsesRedis /\ RedisFails' = RedisFails
  BY DEF PayToInv, TypeOK, CacheTypeOK, UsesRedis, RedisFails
<1>2. CASE pc'[s] = "dropped"
  BY <1>2 DEF LegInv
<1>3. CASE pc'[s] = pc[s]
  <2>1. pc[s] = "resolve" => Heard(s)'
    BY <1>1 DEF LegInv, Heard
  <2> QED BY <1>1, <1>3, <2>1 DEF LegInv
<1> QED BY <1>2, <1>3

-----------------------------------------------------------------------------
(* Steps that leave the cache alone. *)

\* With Redis, a leg begins to cache what it minted.
LEMMA MintBeginInv ==
  ASSUME PayToInv, NEW r \in Requests, NEW i \in Instances, NEW p \in Intents, MintBegin(r, i, p)
  PROVE  PayToInv'
<1>1. /\ TypeOK /\ UsesRedis /\ pc' = [pc EXCEPT ![r] = "set"] /\ inst' = [inst EXCEPT ![r] = i]
      /\ intent' = [intent EXCEPT ![r] = p]
      /\ UNCHANGED <<deployment, clock, redis, addr_mem_cache, pi_cache, network_address_cache,
                     hit, asked, recipients, kept, restarts>>
  BY DEF MintBegin, PayToInv, cacheVars
<1>2. PICK a \in DepositsOf(p) : /\ address' = [address EXCEPT ![r] = a]
                                 /\ todo' = [todo EXCEPT ![r] = OfOrder(p) \ {a}]
  BY DEF MintBegin, OfOrder
<1>3. a \in OfOrder(p) /\ a \in Addresses /\ OfOrder(p) \subseteq Addresses
  BY <1>2, OrderAddresses DEF OfOrder
<1>4. /\ pc'[r] = "set" /\ inst'[r] = i /\ intent'[r] = p /\ address'[r] = a /\ todo'[r] = OfOrder(p) \ {a}
      /\ \A s \in Requests \ {r} : /\ pc'[s] = pc[s] /\ inst'[s] = inst[s] /\ intent'[s] = intent[s]
                                   /\ address'[s] = address[s] /\ todo'[s] = todo[s]
  BY <1>1, <1>2 DEF TypeOK
<1>5. TypeOK'
  BY <1>1, <1>2, <1>3 DEF TypeOK, CacheTypeOK
<1>6. clock \in Nat /\ clock <= clock
  BY <1>1 DEF TypeOK, CacheTypeOK
<1>7. KeptInv' /\ HeldInv' /\ SiblingInv'
  BY <1>1, <1>5, <1>6, Fade
<1>8. LegInv(r)'
  BY <1>1, <1>3, <1>4 DEF LegInv, UsesRedis, OfOrder, DepositsOf, StaticAddresses
<1>9. ASSUME NEW s \in Requests \ {r} PROVE LegInv(s)'
  BY <1>1, <1>4, <1>6, Bystander
<1> QED BY <1>5, <1>7, <1>8, <1>9 DEF PayToInv

\* Redis answers: what it says is what it has been told and still holds.
LEMMA SettleGetInv ==
  ASSUME PayToInv, NEW r \in Requests, SettleGet(r)
  PROVE  PayToInv'
<1>1. /\ TypeOK /\ KeptInv /\ HeldInv /\ LegInv(r) /\ pc[r] = "get" /\ pc' = [pc EXCEPT ![r] = "resolve"]
      /\ asked' = [asked EXCEPT ![r] = clock]
      /\ UNCHANGED <<deployment, clock, redis, addr_mem_cache, pi_cache, network_address_cache,
                     inst, intent, todo, address, recipients, kept, restarts>>
  BY DEF SettleGet, PayToInv, cacheVars
<1>2. PICK h \in BOOLEAN : hit' = [hit EXCEPT ![r] = h] /\ (h => RedisHolds(address[r]))
                           /\ (~h /\ ~RedisFails => ~RedisHolds(address[r]))
  BY DEF SettleGet, RedisHolds
<1>3. /\ pc'[r] = "resolve" /\ asked'[r] = clock /\ hit'[r] = h
      /\ \A s \in Requests \ {r} : pc'[s] = pc[s] /\ asked'[s] = asked[s] /\ hit'[s] = hit[s]
  BY <1>1, <1>2 DEF TypeOK
<1>4. TypeOK'
  BY <1>1, <1>2 DEF TypeOK, CacheTypeOK
<1>5. clock \in Nat /\ clock <= clock /\ TTL \in Nat
  BY <1>1, CacheTypes
<1>6. KeptInv' /\ HeldInv' /\ SiblingInv'
  BY <1>1, <1>4, <1>5, Fade
<1>7. UsesRedis /\ inst[r] \in Instances /\ address[r] \in Addresses
  BY <1>1 DEF LegInv
<1>8. Heard(r)'
  <2>1. h => \E e \in kept : e.addr = address[r] /\ e.where = Shared /\ e.at + TTL > clock
    BY <1>1, <1>2, <1>7 DEF HeldInv, RedisHolds
  <2>2. ASSUME ~h, ~RedisFails, NEW e \in kept, e.addr = address[r], e.where = Shared
        PROVE  e.at + TTL <= clock
    <3>1. redis[e.addr] # None /\ e.at + TTL <= redis[e.addr] /\ ~RedisHolds(e.addr)
      BY <1>1, <1>2, <2>2 DEF KeptInv
    <3>2. redis[e.addr] \in Nat /\ e.at \in Nat
      BY <1>1, <3>1, CacheTypes
    <3> QED BY <1>5, <3>1, <3>2 DEF RedisHolds
  <2> QED BY <1>1, <1>3, <1>5, <2>1, <2>2 DEF Heard, RedisFails
<1>9. LegInv(r)'
  BY <1>1, <1>3, <1>7, <1>8 DEF LegInv, UsesRedis
<1>10. ASSUME NEW s \in Requests \ {r} PROVE LegInv(s)'
  BY <1>1, <1>3, <1>5, Bystander
<1> QED BY <1>4, <1>6, <1>9, <1>10 DEF PayToInv

\* Nothing to look up.
LEMMA SettleMalformedInv ==
  ASSUME PayToInv, NEW r \in Requests, SettleMalformed(r)
  PROVE  PayToInv'
<1>1. /\ TypeOK /\ pc' = [pc EXCEPT ![r] = "refused"]
      /\ UNCHANGED <<deployment, clock, redis, addr_mem_cache, pi_cache, network_address_cache,
                     inst, intent, todo, address, hit, asked, recipients, kept, restarts>>
  BY DEF SettleMalformed, PayToInv, cacheVars
<1>2. pc'[r] = "refused" /\ \A s \in Requests \ {r} : pc'[s] = pc[s]
  BY <1>1 DEF TypeOK
<1>3. TypeOK' /\ clock \in Nat /\ clock <= clock
  BY <1>1 DEF TypeOK, CacheTypeOK
<1>4. KeptInv' /\ HeldInv' /\ SiblingInv'
  BY <1>1, <1>3, Fade
<1>5. LegInv(r)'
  BY <1>2 DEF LegInv
<1>6. ASSUME NEW s \in Requests \ {r} PROVE LegInv(s)'
  BY <1>1, <1>2, <1>3, Bystander
<1> QED BY <1>3, <1>4, <1>5, <1>6 DEF PayToInv

\* A tick of the clock.
LEMMA TickInv ==
  ASSUME PayToInv, Tick
  PROVE  PayToInv'
<1>1. /\ TypeOK /\ clock' = clock + 1
      /\ UNCHANGED <<deployment, redis, addr_mem_cache, pi_cache, network_address_cache, pc, inst, intent, todo,
                     address, hit, asked, recipients, kept, restarts>>
  BY DEF Tick, PayToInv, cacheVars, legVars
<1>2. clock' \in Nat /\ clock <= clock' /\ TypeOK'
  BY <1>1 DEF TypeOK, CacheTypeOK
<1>3. KeptInv' /\ HeldInv' /\ SiblingInv'
  BY <1>1, <1>2, Fade
<1>4. ASSUME NEW s \in Requests PROVE LegInv(s)'
  BY <1>1, <1>2, Bystander
<1> QED BY <1>2, <1>3, <1>4 DEF PayToInv

\* A round of the eviction task.
LEMMA SweepInv ==
  ASSUME PayToInv, NEW i \in Instances, Sweep(i)
  PROVE  PayToInv'
<1>1. /\ TypeOK /\ UNCHANGED <<deployment, clock, redis, pc, inst, intent, todo, address, hit, asked, recipients, kept, restarts>>
      /\ pi_cache' = [pi_cache EXCEPT ![i] = [a \in Addresses |-> IF IntentLapsed(i, a) THEN None ELSE pi_cache[i][a]]]
      /\ network_address_cache' = [network_address_cache EXCEPT ![i] =
           [p \in Intents |-> IF MapLapsed(i, p) THEN None ELSE network_address_cache[i][p]]]
      /\ addr_mem_cache' = [addr_mem_cache EXCEPT ![i] =
           [a \in Addresses |-> IF addr_mem_cache[i][a] # None /\ addr_mem_cache[i][a] < clock
                                THEN None ELSE addr_mem_cache[i][a]]]
  BY DEF Sweep, Evict, SweepIntents, PayToInv, legVars
<1>2. /\ \A j \in Instances, a \in Addresses :
           pi_cache'[j][a] = IF j = i /\ IntentLapsed(i, a) THEN None ELSE pi_cache[j][a]
      /\ \A j \in Instances, p \in Intents :
           network_address_cache'[j][p] = IF j = i /\ MapLapsed(i, p) THEN None ELSE network_address_cache[j][p]
      /\ \A j \in Instances, a \in Addresses :
           addr_mem_cache'[j][a] = IF j = i /\ addr_mem_cache[i][a] # None /\ addr_mem_cache[i][a] < clock
                                   THEN None ELSE addr_mem_cache[j][a]
  BY <1>1 DEF TypeOK, CacheTypeOK
<1>3. TypeOK'
  BY <1>1 DEF TypeOK, CacheTypeOK
<1>4. clock \in Nat /\ clock <= clock
  BY <1>1 DEF TypeOK, CacheTypeOK
<1>5. KeptInv' /\ HeldInv' /\ SiblingInv'
  BY <1>1, <1>2, <1>3, <1>4, Fade DEF IntentLapsed, MapLapsed
<1>6. ASSUME NEW s \in Requests PROVE LegInv(s)'
  BY <1>1, <1>4, Bystander
<1> QED BY <1>3, <1>5, <1>6 DEF PayToInv

-----------------------------------------------------------------------------
(* Steps that put an address somewhere. *)

\* Redis holds the address from now on, or did not hear of it.
LEMMA MintSetInv ==
  ASSUME PayToInv, NEW r \in Requests, MintSet(r)
  PROVE  PayToInv'
<1> DEFINE a == address[r]
           new == [addr |-> a, where |-> Shared, at |-> clock]
<1>1. /\ TypeOK /\ KeptInv /\ HeldInv /\ SiblingInv /\ LegInv(r)
      /\ pc[r] = "set" /\ pc' = [pc EXCEPT ![r] = "store"]
      /\ \/ redis' = [redis EXCEPT ![a] = clock + TTL] /\ kept' = kept \cup {new}
         \/ UNCHANGED <<redis, kept>>
      /\ UNCHANGED <<deployment, clock, addr_mem_cache, pi_cache, network_address_cache, inst, intent, todo, address,
                     hit, asked, recipients, restarts>>
  BY DEF MintSet, RedisSet, PayToInv
<1>2. /\ UsesRedis /\ inst[r] \in Instances /\ intent[r] \in Intents /\ todo[r] \subseteq OfOrder(intent[r])
      /\ a \in OfOrder(intent[r]) /\ a \in Addresses
  BY <1>1 DEF LegInv
<1>3. a # Foreign
  BY <1>2, OrderAddresses
<1>4. clock \in Nat /\ TTL \in Nat /\ TTL > 0 /\ None \notin Nat
  BY <1>1, CacheTypes
<1>5. pc'[r] = "store" /\ \A s \in Requests \ {r} : pc'[s] = pc[s]
  BY <1>1 DEF TypeOK
<1>6. TypeOK'
  BY <1>1, <1>2, <1>4 DEF TypeOK, CacheTypeOK
<1>7. LegInv(r)'
  BY <1>1, <1>2, <1>5 DEF LegInv, UsesRedis, OfOrder, DepositsOf, StaticAddresses
<1>8. ASSUME NEW s \in Requests \ {r} PROVE LegInv(s)'
  BY <1>1, <1>4, <1>5, Bystander
<1>9. CASE UNCHANGED <<redis, kept>>
  <2>1. KeptInv' /\ HeldInv' /\ SiblingInv'
    BY <1>1, <1>4, <1>6, <1>9, Fade
  <2> QED BY <1>6, <1>7, <1>8, <2>1 DEF PayToInv
<1>10. CASE redis' = [redis EXCEPT ![a] = clock + TTL] /\ kept' = kept \cup {new}
  <2>1. redis'[a] = clock + TTL /\ \A b \in Addresses \ {a} : redis'[b] = redis[b]
    BY <1>1, <1>2, <1>10 DEF TypeOK, CacheTypeOK
  <2>2. new.addr = a /\ new.where = Shared /\ new.at = clock
    OBVIOUS
  <2> HIDE DEF new
  <2>3. KeptInv'
    <3> SUFFICES ASSUME NEW e \in kept \cup {new}
                 PROVE  /\ e.at <= clock /\ e.addr # Foreign
                        /\ e.where = Shared => UsesRedis /\ redis'[e.addr] # None /\ e.at + TTL <= redis'[e.addr]
                        /\ e.where # Shared =>
                             /\ \/ e.at + TTL < clock
                                \/ /\ addr_mem_cache[e.where][e.addr] # None
                                   /\ e.at + TTL <= addr_mem_cache[e.where][e.addr]
                             /\ e.addr \in Deposits =>
                                  \/ e.at + TTL < clock
                                  \/ /\ pi_cache[e.where][e.addr] # None
                                     /\ e.at + TTL <= pi_cache[e.where][e.addr].expires_at
      BY <1>1, <1>10 DEF KeptInv, UsesRedis
    <3>1. CASE e = new
      BY <1>2, <1>3, <1>4, <2>1, <2>2, <3>1
    <3>2. CASE e \in kept
      <4>1. e.addr \in Addresses /\ e.at \in Nat /\ e.at <= clock
        BY <1>1, <3>2, CacheTypes DEF KeptInv
      <4>2. e.where = Shared => UsesRedis /\ redis'[e.addr] # None /\ e.at + TTL <= redis'[e.addr]
        BY <1>1, <1>4, <2>1, <3>2, <4>1 DEF KeptInv
      <4> QED BY <1>1, <3>2, <4>2 DEF KeptInv
    <3> QED BY <3>1, <3>2
  <2>4. HeldInv'
    <3>1. ASSUME NEW b \in Addresses, redis'[b] # None
          PROVE  \E e \in kept' : e.addr = b /\ e.where = Shared /\ e.at + TTL = redis'[b]
      <4>1. CASE b = a
        BY <1>10, <2>1, <2>2, <4>1
      <4>2. CASE b # a
        BY <1>1, <1>10, <2>1, <3>1, <4>2 DEF HeldInv
      <4> QED BY <4>1, <4>2
    <3>2. kept \subseteq kept'
      BY <1>10
    <3> QED BY <1>1, <3>1, <3>2 DEF HeldInv
  <2>5. SiblingInv'
    BY <1>1 DEF SiblingInv, UsesRedis
  <2>6. ASSUME NEW s \in Requests \ {r} PROVE LegInv(s)'
    BY <1>1, <1>4, <1>5, <1>10, <2>2, Bystander
  <2> QED BY <1>6, <1>7, <2>3, <2>4, <2>5, <2>6 DEF PayToInv
<1> QED BY <1>1, <1>9, <1>10

\* A set of addresses is put on one instance, with the payment intent of each
\* deposit.
Puts(i, p, T) ==
  /\ UNCHANGED <<deployment, clock, redis>>
  /\ kept' = kept \cup {[addr |-> a, where |-> i, at |-> clock] : a \in T}
  /\ \A j \in Instances, a \in Addresses :
       addr_mem_cache'[j][a] = IF j = i /\ a \in T THEN clock + TTL ELSE addr_mem_cache[j][a]
  /\ \A j \in Instances, a \in Addresses :
       pi_cache'[j][a] = IF j = i /\ a \in T /\ a \in Deposits
                         THEN [value |-> p, expires_at |-> clock + TTL] ELSE pi_cache[j][a]

\* Each is then kept and found there.
LEMMA PutHere ==
  ASSUME PayToInv, TypeOK', NEW i \in Instances, NEW p \in Intents, NEW T \in SUBSET OfOrder(p), Puts(i, p, T)
  PROVE  /\ KeptInv' /\ HeldInv'
         /\ \A j \in Instances, a \in Addresses :
              pi_cache'[j][a] # None => a \in {pi_cache'[j][a].value} \X Networks
<1> USE DEF Puts
<1>1. /\ TypeOK /\ KeptInv /\ HeldInv /\ SiblingInv /\ UsesRedis' = UsesRedis
      /\ clock \in Nat /\ TTL \in Nat /\ TTL > 0 /\ None \notin Nat
  BY CacheTypes DEF PayToInv, UsesRedis
<1>2. T \subseteq Addresses \ {Foreign} /\ \A a \in T : a \in Deposits => a \in {p} \X Networks
  BY OrderAddresses
<1>3. [value |-> p, expires_at |-> clock + TTL] # None
  <2>1. [value |-> p, expires_at |-> clock + TTL] \in [value : Intents, expires_at : Nat]
    BY <1>1
  <2> QED BY <2>1, CacheAssumption
<1>4. KeptInv'
  <2> SUFFICES ASSUME NEW e \in kept'
               PROVE  /\ e.at <= clock /\ e.addr # Foreign
                      /\ e.where = Shared => UsesRedis /\ redis[e.addr] # None /\ e.at + TTL <= redis[e.addr]
                      /\ e.where # Shared =>
                           /\ \/ e.at + TTL < clock
                              \/ /\ addr_mem_cache'[e.where][e.addr] # None
                                 /\ e.at + TTL <= addr_mem_cache'[e.where][e.addr]
                           /\ e.addr \in Deposits =>
                                \/ e.at + TTL < clock
                                \/ /\ pi_cache'[e.where][e.addr] # None
                                   /\ e.at + TTL <= pi_cache'[e.where][e.addr].expires_at
    BY <1>1 DEF KeptInv
  <2>1. CASE e \notin kept
    <3>1. PICK a \in T : e = [addr |-> a, where |-> i, at |-> clock]
      BY <2>1
    <3>2. e.addr = a /\ e.where = i /\ e.at = clock /\ i # Shared
      BY <3>1, SharedAssumption
    <3>3. addr_mem_cache'[i][a] = clock + TTL
      BY <1>2, <3>1
    <3>4. a \in Deposits => pi_cache'[i][a] # None /\ pi_cache'[i][a].expires_at = clock + TTL
      BY <1>2, <1>3, <3>1
    <3> QED BY <1>1, <1>2, <3>2, <3>3, <3>4
  <2>2. CASE e \in kept
    <3>1. e.addr \in Addresses /\ e.where \in Instances \cup {Shared} /\ e.at \in Nat /\ e.at <= clock
      BY <1>1, <2>2, CacheTypes DEF KeptInv
    <3>2. ASSUME e.where # Shared
          PROVE  \/ e.at + TTL < clock
                 \/ addr_mem_cache'[e.where][e.addr] # None /\ e.at + TTL <= addr_mem_cache'[e.where][e.addr]
      BY <1>1, <2>2, <3>1, <3>2 DEF KeptInv
    <3>3. ASSUME e.where # Shared, e.addr \in Deposits
          PROVE  \/ e.at + TTL < clock
                 \/ /\ pi_cache'[e.where][e.addr] # None
                    /\ e.at + TTL <= pi_cache'[e.where][e.addr].expires_at
      <4>1. CASE e.where = i /\ e.addr \in T
        <5>1. pi_cache'[e.where][e.addr] = [value |-> p, expires_at |-> clock + TTL]
          BY <3>1, <3>3, <4>1
        <5> QED BY <1>1, <1>3, <3>1, <5>1
      <4>2. CASE ~(e.where = i /\ e.addr \in T)
        <5>1. pi_cache'[e.where][e.addr] = pi_cache[e.where][e.addr]
          BY <3>1, <3>3, <4>2
        <5> QED BY <1>1, <2>2, <3>3, <5>1 DEF KeptInv
      <4> QED BY <4>1, <4>2
    <3> QED BY <1>1, <2>2, <3>2, <3>3 DEF KeptInv
  <2> QED BY <2>1, <2>2
<1>5. HeldInv'
  <2>1. kept \subseteq kept'
    OBVIOUS
  <2>2. ASSUME NEW j \in Instances, NEW a \in Addresses, addr_mem_cache'[j][a] # None
        PROVE  \E e \in kept' : e.addr = a /\ e.where = j /\ e.at + TTL = addr_mem_cache'[j][a]
    <3>1. CASE j = i /\ a \in T
      <4> DEFINE e == [addr |-> a, where |-> i, at |-> clock]
      <4>1. e \in kept' /\ e.addr = a /\ e.where = j /\ e.at + TTL = addr_mem_cache'[j][a]
        BY <3>1
      <4> QED BY <4>1
    <3>2. CASE ~(j = i /\ a \in T)
      BY <1>1, <2>1, <2>2, <3>2 DEF HeldInv
    <3> QED BY <3>1, <3>2
  <2> QED BY <1>1, <2>1, <2>2 DEF HeldInv
<1>6. ASSUME NEW j \in Instances, NEW a \in Addresses, pi_cache'[j][a] # None
      PROVE  a \in {pi_cache'[j][a].value} \X Networks
  <2>1. CASE j = i /\ a \in T /\ a \in Deposits
    BY <1>2, <2>1
  <2>2. CASE ~(j = i /\ a \in T /\ a \in Deposits)
    BY <1>1, <1>6, <2>2 DEF SiblingInv
  <2> QED BY <2>1, <2>2
<1> QED BY <1>4, <1>5, <1>6

\* The rest of caching one address; then the next, or the return.
LEMMA MintStoreInv ==
  ASSUME PayToInv, NEW r \in Requests, MintStore(r)
  PROVE  PayToInv'
<1> DEFINE i == inst[r]
           p == intent[r]
           a == address[r]
<1>1. /\ TypeOK /\ KeptInv /\ HeldInv /\ SiblingInv /\ LegInv(r) /\ pc[r] = "store" /\ StoreHere(i, p, a)
      /\ kept' = kept \cup {[addr |-> a, where |-> i, at |-> clock]}
      /\ \/ \E b \in todo[r] : /\ pc' = [pc EXCEPT ![r] = "set"] /\ address' = [address EXCEPT ![r] = b]
                               /\ todo' = [todo EXCEPT ![r] = todo[r] \ {b}]
                               /\ UNCHANGED <<network_address_cache, recipients>>
         \/ /\ pc' = [pc EXCEPT ![r] = "minted"]
            /\ network_address_cache' = [network_address_cache EXCEPT ![i][p] = clock + TTL]
            /\ recipients' = [recipients EXCEPT ![r] = Merged(p)]
            /\ UNCHANGED <<address, todo>>
      /\ UNCHANGED <<deployment, clock, redis, inst, intent, hit, asked, restarts>>
  BY DEF MintStore, PayToInv
<1>2. /\ UsesRedis /\ i \in Instances /\ p \in Intents /\ todo[r] \subseteq OfOrder(p)
      /\ a \in OfOrder(p) /\ a \in Addresses
  BY <1>1 DEF LegInv
<1>3. clock \in Nat /\ TTL \in Nat
  BY <1>1, CacheTypes
<1>4. a \in {p} \X Networks <=> a \in Deposits
  BY <1>2, OrderAddresses DEF Deposits
<1>5. /\ addr_mem_cache' = [addr_mem_cache EXCEPT ![i][a] = clock + TTL]
      /\ pi_cache' = IF a \in Deposits
                     THEN [pi_cache EXCEPT ![i][a] = [value |-> p, expires_at |-> clock + TTL]] ELSE pi_cache
  BY <1>1, <1>4 DEF StoreHere
<1>6. /\ addr_mem_cache' \in [Instances -> [Addresses -> Nat \cup {None}]]
      /\ pi_cache' \in [Instances -> [Addresses -> [value : Intents, expires_at : Nat] \cup {None}]]
  <2>1. [value |-> p, expires_at |-> clock + TTL] \in [value : Intents, expires_at : Nat]
    BY <1>2, <1>3
  <2> QED BY <1>1, <1>2, <1>3, <1>5, <2>1 DEF TypeOK, CacheTypeOK
<1>7. network_address_cache' \in [Instances -> [Intents -> Nat \cup {None}]]
  <2>1. network_address_cache' \in {network_address_cache, [network_address_cache EXCEPT ![i][p] = clock + TTL]}
    BY <1>1
  <2>2. network_address_cache \in [Instances -> [Intents -> Nat \cup {None}]] /\ clock + TTL \in Nat
    BY <1>1, <1>3 DEF TypeOK, CacheTypeOK
  <2> QED BY <1>2, <2>1, <2>2
<1>8. [addr |-> a, where |-> i, at |-> clock] \in [addr : Addresses, where : Instances \cup {Shared}, at : Nat]
  BY <1>2, <1>3
<1>9. OfOrder(p) \subseteq Addresses /\ Merged(p) \subseteq Addresses
  BY <1>2, OrderAddresses
<1>10. /\ pc' \in [Requests -> {"idle", "set", "store", "get", "resolve", "minted", "reused", "refused", "dropped"}]
       /\ address' \in [Requests -> Addresses \cup {None}]
       /\ todo' \in [Requests -> SUBSET Addresses] /\ recipients' \in [Requests -> SUBSET Addresses]
       /\ \A s \in Requests \ {r} : /\ pc'[s] = pc[s] /\ address'[s] = address[s] /\ todo'[s] = todo[s]
                                    /\ recipients'[s] = recipients[s]
  BY <1>1, <1>2, <1>9 DEF TypeOK
<1>11. TypeOK'
  BY <1>1, <1>3, <1>6, <1>7, <1>8, <1>10 DEF TypeOK, CacheTypeOK
<1>12. /\ \A j \in Instances, b \in Addresses :
            addr_mem_cache'[j][b] = IF j = i /\ b \in {a} THEN clock + TTL ELSE addr_mem_cache[j][b]
       /\ \A j \in Instances, b \in Addresses :
            pi_cache'[j][b] = IF j = i /\ b \in {a} /\ b \in Deposits
                              THEN [value |-> p, expires_at |-> clock + TTL] ELSE pi_cache[j][b]
  BY <1>1, <1>2, <1>5 DEF TypeOK, CacheTypeOK
<1>13. kept' = kept \cup {[addr |-> b, where |-> i, at |-> clock] : b \in {a}}
  BY <1>1
<1>14. /\ KeptInv' /\ HeldInv'
       /\ \A j \in Instances, b \in Addresses : pi_cache'[j][b] # None => b \in {pi_cache'[j][b].value} \X Networks
  <2>1. {a} \in SUBSET OfOrder(p)
    BY <1>2
  <2>2. Puts(i, p, {a})
    BY <1>1, <1>12, <1>13 DEF Puts
  <2> QED BY <1>2, <1>11, <2>1, <2>2, PutHere
<1>15. SiblingInv'
  BY <1>1, <1>2, <1>14 DEF SiblingInv, UsesRedis
<1>16. LegInv(r)'
  <2>1. CASE \E b \in todo[r] : /\ pc' = [pc EXCEPT ![r] = "set"] /\ address' = [address EXCEPT ![r] = b]
                                /\ todo' = [todo EXCEPT ![r] = todo[r] \ {b}]
    <3>1. PICK b \in todo[r] : /\ pc' = [pc EXCEPT ![r] = "set"] /\ address' = [address EXCEPT ![r] = b]
                               /\ todo' = [todo EXCEPT ![r] = todo[r] \ {b}]
      BY <2>1
    <3>2. pc'[r] = "set" /\ address'[r] = b /\ todo'[r] = todo[r] \ {b}
      BY <1>1, <3>1 DEF TypeOK
    <3>3. UsesRedis' /\ inst'[r] = i /\ intent'[r] = p /\ b \in OfOrder(p) /\ b \in Addresses
      BY <1>1, <1>2, <1>9 DEF UsesRedis
    <3> QED BY <1>2, <3>2, <3>3 DEF LegInv, OfOrder, DepositsOf, StaticAddresses
  <2>2. CASE pc' = [pc EXCEPT ![r] = "minted"] /\ recipients' = [recipients EXCEPT ![r] = Merged(p)]
    <3>1. pc'[r] = "minted" /\ recipients'[r] = Merged(p)
      BY <1>1, <2>2 DEF TypeOK
    <3> QED BY <1>2, <3>1 DEF LegInv, Merged, StaticAddresses
  <2> QED BY <1>1, <2>1, <2>2
<1>17. ASSUME NEW s \in Requests \ {r} PROVE LegInv(s)'
  <2>1. \A e \in kept' : e \in kept \/ e.at = clock
    BY <1>1
  <2> QED BY <1>1, <1>3, <1>10, <2>1, Bystander
<1> QED BY <1>11, <1>14, <1>15, <1>16, <1>17 DEF PayToInv

\* Without Redis a leg mints and caches in one go.
LEMMA MintInProcessInv ==
  ASSUME PayToInv, NEW r \in Requests, NEW i \in Instances, NEW p \in Intents, MintInProcess(r, i, p)
  PROVE  PayToInv'
<1>1. /\ TypeOK /\ KeptInv /\ HeldInv /\ SiblingInv /\ ~UsesRedis
      /\ pc' = [pc EXCEPT ![r] = "minted"] /\ inst' = [inst EXCEPT ![r] = i]
      /\ intent' = [intent EXCEPT ![r] = p] /\ recipients' = [recipients EXCEPT ![r] = Merged(p)]
      /\ addr_mem_cache' = [addr_mem_cache EXCEPT ![i] =
           [a \in Addresses |-> IF a \in OfOrder(p) THEN clock + TTL ELSE addr_mem_cache[i][a]]]
      /\ pi_cache' = [pi_cache EXCEPT ![i] =
           [a \in Addresses |-> IF a \in DepositsOf(p) THEN [value |-> p, expires_at |-> clock + TTL]
                                ELSE pi_cache[i][a]]]
      /\ network_address_cache' = [network_address_cache EXCEPT ![i][p] = clock + TTL]
      /\ kept' = kept \cup {[addr |-> a, where |-> i, at |-> clock] : a \in OfOrder(p)}
      /\ UNCHANGED <<deployment, clock, redis, todo, address, hit, asked, restarts>>
  BY DEF MintInProcess, PayToInv, OfOrder
<1>2. clock \in Nat /\ TTL \in Nat /\ TTL > 0 /\ None \notin Nat
  BY <1>1, CacheTypes
<1>3. /\ OfOrder(p) \subseteq Addresses /\ Merged(p) \subseteq Addresses
      /\ \A a \in Addresses : a \in DepositsOf(p) <=> a \in OfOrder(p) /\ a \in Deposits
  <2>1. DepositsOf(p) \subseteq Deposits
    BY PayToAssumption DEF DepositsOf, Deposits, StripeNets
  <2> QED BY <2>1, OrderAddresses DEF OfOrder
<1>4. /\ \A j \in Instances, a \in Addresses :
           addr_mem_cache'[j][a] = IF j = i /\ a \in OfOrder(p) THEN clock + TTL ELSE addr_mem_cache[j][a]
      /\ \A j \in Instances, a \in Addresses :
           pi_cache'[j][a] = IF j = i /\ a \in OfOrder(p) /\ a \in Deposits
                             THEN [value |-> p, expires_at |-> clock + TTL] ELSE pi_cache[j][a]
      /\ \A j \in Instances, q \in Intents :
           network_address_cache'[j][q] = IF j = i /\ q = p THEN clock + TTL ELSE network_address_cache[j][q]
  BY <1>1, <1>3 DEF TypeOK, CacheTypeOK
<1>5. [value |-> p, expires_at |-> clock + TTL] \in [value : Intents, expires_at : Nat]
  BY <1>2
<1>6. CacheTypeOK'
  BY <1>1, <1>2, <1>5 DEF TypeOK, CacheTypeOK
<1>7. kept' \subseteq [addr : Addresses, where : Instances \cup {Shared}, at : Nat]
  BY <1>1, <1>2, <1>3 DEF TypeOK
<1>8. TypeOK'
  BY <1>1, <1>3, <1>6, <1>7 DEF TypeOK
<1>9. /\ KeptInv' /\ HeldInv'
      /\ \A j \in Instances, a \in Addresses : pi_cache'[j][a] # None => a \in {pi_cache'[j][a].value} \X Networks
  <2>1. Puts(i, p, OfOrder(p))
    BY <1>1, <1>4 DEF Puts
  <2> QED BY <1>8, <2>1, PutHere
<1>10. SiblingInv'
  <2>1. ASSUME NEW j \in Instances, NEW q \in Intents, NEW n \in Networks, addr_mem_cache'[j][<<q, n>>] # None
        PROVE  \/ addr_mem_cache'[j][<<q, n>>] < clock
               \/ /\ network_address_cache'[j][q] # None
                  /\ addr_mem_cache'[j][<<q, n>>] <= network_address_cache'[j][q]
    <3>1. <<q, n>> \in Deposits /\ <<q, n>> \in Addresses
      BY OrderAddresses DEF Deposits
    <3>2. <<q, n>> \in OfOrder(p) => q = p
      BY <3>1, OrderAddresses
    <3>3. CASE j = i /\ <<q, n>> \in OfOrder(p)
      BY <1>2, <1>4, <3>1, <3>2, <3>3
    <3>4. CASE ~(j = i /\ <<q, n>> \in OfOrder(p))
      <4> DEFINE x == addr_mem_cache[j][<<q, n>>]
      <4>1. addr_mem_cache'[j][<<q, n>>] = x /\ x # None
        BY <1>4, <2>1, <3>1, <3>4
      <4>2. PICK e \in kept : e.at + TTL = x
        BY <1>1, <3>1, <4>1 DEF HeldInv
      <4>3. x <= clock + TTL /\ x \in Nat
        BY <1>1, <1>2, <4>2, CacheTypes DEF KeptInv
      <4>4. x < clock \/ (network_address_cache[j][q] # None /\ x <= network_address_cache[j][q])
        BY <1>1, <4>1 DEF SiblingInv
      <4> QED BY <1>2, <1>4, <4>1, <4>3, <4>4
    <3> QED BY <3>3, <3>4
  <2> QED BY <1>1, <1>9, <2>1 DEF SiblingInv, UsesRedis
<1>11. /\ pc'[r] = "minted" /\ recipients'[r] = Merged(p)
       /\ \A s \in Requests \ {r} : /\ pc'[s] = pc[s] /\ inst'[s] = inst[s] /\ intent'[s] = intent[s]
                                    /\ recipients'[s] = recipients[s]
  BY <1>1 DEF TypeOK
<1>12. LegInv(r)'
  BY <1>11 DEF LegInv, Merged, StaticAddresses
<1>13. ASSUME NEW s \in Requests \ {r} PROVE LegInv(s)'
  <2>1. \A e \in kept' : e \in kept \/ e.at = clock
    BY <1>1
  <2> QED BY <1>1, <1>2, <1>11, <2>1, Bystander
<1> QED BY <1>8, <1>9, <1>10, <1>12, <1>13 DEF PayToInv

-----------------------------------------------------------------------------
(* Credentials. *)

\* What honouring and refusing have in common: the leg ends, and what has
\* lapsed may be dropped.
LEMMA LookupParts ==
  ASSUME TypeOK, NEW r \in Requests, NEW i \in Instances, NEW a \in Addresses, Reuse(r, i, a) \/ Refuse(r)
  PROVE  /\ pi_cache' \in [Instances -> [Addresses -> [value : Intents, expires_at : Nat] \cup {None}]]
         /\ network_address_cache' \in [Instances -> [Intents -> Nat \cup {None}]]
         /\ \A j \in Instances, b \in Addresses :
              pi_cache'[j][b] = pi_cache[j][b]
                \/ (pi_cache'[j][b] = None /\ pi_cache[j][b] # None /\ pi_cache[j][b].expires_at < clock)
         /\ \A j \in Instances, q \in Intents :
              network_address_cache'[j][q] = network_address_cache[j][q]
                \/ (network_address_cache'[j][q] = None /\ network_address_cache[j][q] # None
                      /\ network_address_cache[j][q] < clock)
         /\ pc' \in [Requests -> {"idle", "set", "store", "get", "resolve", "minted", "reused", "refused", "dropped"}]
         /\ intent' \in [Requests -> Intents \cup {None}] /\ recipients' \in [Requests -> SUBSET Addresses]
         /\ pc'[r] \in {"reused", "refused"}
         /\ \A s \in Requests \ {r} : pc'[s] = pc[s] /\ intent'[s] = intent[s] /\ recipients'[s] = recipients[s]
<1>1. CASE Refuse(r)
  BY <1>1 DEF Refuse, TypeOK, CacheTypeOK
<1>2. CASE Reuse(r, i, a)
  <2> DEFINE p == IntentOf(i, a)
             found == IF p # None /\ HasMap(i, p) THEN Merged(p) ELSE StaticAddresses
  <2>1. /\ pc' = [pc EXCEPT ![r] = "reused"] /\ intent' = [intent EXCEPT ![r] = p]
        /\ recipients' = [recipients EXCEPT ![r] = found]
        /\ DropLapsedIntent(i, a) /\ DropLapsedMap(i, p)
    BY <1>2 DEF Reuse
  <2>2. p \in Intents \cup {None}
    BY CacheTypes DEF IntentOf
  <2>3. found \subseteq Addresses
    BY <2>2, OrderAddresses
  <2>4. /\ pi_cache' \in [Instances -> [Addresses -> [value : Intents, expires_at : Nat] \cup {None}]]
        /\ \A j \in Instances, b \in Addresses :
             pi_cache'[j][b] = pi_cache[j][b]
               \/ (pi_cache'[j][b] = None /\ pi_cache[j][b] # None /\ pi_cache[j][b].expires_at < clock)
    <3>1. CASE IntentLapsed(i, a)
      <4>1. pi_cache' = [pi_cache EXCEPT ![i][a] = None] /\ pi_cache[i][a] # None /\ pi_cache[i][a].expires_at < clock
        BY <2>1, <3>1 DEF DropLapsedIntent, IntentLapsed
      <4> QED BY <4>1 DEF TypeOK, CacheTypeOK
    <3>2. CASE ~IntentLapsed(i, a)
      <4>1. pi_cache' = pi_cache
        BY <2>1, <3>2 DEF DropLapsedIntent
      <4> QED BY <4>1 DEF TypeOK, CacheTypeOK
    <3> QED BY <3>1, <3>2
  <2>5. /\ network_address_cache' \in [Instances -> [Intents -> Nat \cup {None}]]
        /\ \A j \in Instances, q \in Intents :
             network_address_cache'[j][q] = network_address_cache[j][q]
               \/ (network_address_cache'[j][q] = None /\ network_address_cache[j][q] # None
                     /\ network_address_cache[j][q] < clock)
    <3>1. CASE p # None /\ MapLapsed(i, p)
      <4>1. /\ network_address_cache' = [network_address_cache EXCEPT ![i][p] = None] /\ p \in Intents
            /\ network_address_cache[i][p] # None /\ network_address_cache[i][p] < clock
        BY <2>1, <2>2, <3>1 DEF DropLapsedMap, MapLapsed
      <4> HIDE DEF p
      <4> QED BY <4>1 DEF TypeOK, CacheTypeOK
    <3>2. CASE ~(p # None /\ MapLapsed(i, p))
      <4>1. network_address_cache' = network_address_cache
        BY <2>1, <3>2 DEF DropLapsedMap
      <4> QED BY <4>1 DEF TypeOK, CacheTypeOK
    <3> QED BY <3>1, <3>2
  <2> HIDE DEF p, found
  <2>6. /\ pc' \in [Requests -> {"idle", "set", "store", "get", "resolve", "minted", "reused", "refused", "dropped"}]
        /\ intent' \in [Requests -> Intents \cup {None}] /\ recipients' \in [Requests -> SUBSET Addresses]
        /\ pc'[r] \in {"reused", "refused"}
        /\ \A s \in Requests \ {r} : pc'[s] = pc[s] /\ intent'[s] = intent[s] /\ recipients'[s] = recipients[s]
    BY <2>1, <2>2, <2>3 DEF TypeOK
  <2> QED BY <2>4, <2>5, <2>6
<1> QED BY <1>1, <1>2

\* In process, an address that was offered and is still held is found with its
\* payment intent and that intent's addresses, itself among them.
LEMMA HeldWithSiblings ==
  ASSUME PayToInv, ~UsesRedis, NEW i \in Instances, NEW a \in Offered \cup {Foreign},
         a \notin StaticAddresses, MemHolds(i, a)
  PROVE  LET p == IntentOf(i, a) IN p # None /\ HasMap(i, p) /\ a \in Merged(p)
<1>1. /\ TypeOK /\ KeptInv /\ HeldInv /\ SiblingInv /\ \A s \in Requests : LegInv(s)
      /\ clock \in Nat /\ TTL \in Nat /\ None \notin Nat
  BY CacheTypes DEF PayToInv
<1>2. a \in Addresses
  <2>1. \A s \in Requests : recipients[s] \subseteq Addresses
    BY <1>1 DEF TypeOK
  <2> QED BY <2>1, OrderAddresses DEF Offered
<1>3. addr_mem_cache[i][a] # None /\ addr_mem_cache[i][a] > clock /\ addr_mem_cache[i][a] \in Nat
  BY <1>1, <1>2, CacheTypes DEF MemHolds
<1>4. PICK e \in kept : e.addr = a /\ e.where = i /\ e.at + TTL = addr_mem_cache[i][a]
  BY <1>1, <1>2, <1>3 DEF HeldInv
<1>5. a # Foreign
  BY <1>1, <1>4 DEF KeptInv
<1>6. PICK s \in Requests : pc[s] = "minted" /\ a \in recipients[s]
  BY <1>5 DEF Offered
<1>7. PICK q \in Intents : recipients[s] = Merged(q)
  BY <1>1, <1>6 DEF LegInv
<1>8. PICK n \in Networks : a = <<q, n>>
  BY <1>6, <1>7 DEF Merged, StripeNets
<1>9. a \in Deposits
  BY <1>8 DEF Deposits
<1>10. /\ pi_cache[i][a] # None /\ pi_cache[i][a].expires_at >= e.at + TTL /\ pi_cache[i][a].expires_at \in Nat
  <2>1. i # Shared /\ e.at \in Nat
    BY <1>1, CacheTypes, SharedAssumption
  <2>2. e.at + TTL < clock \/ (pi_cache[i][a] # None /\ e.at + TTL <= pi_cache[i][a].expires_at)
    BY <1>1, <1>4, <1>9, <2>1 DEF KeptInv
  <2>3. pi_cache[i][a] # None => pi_cache[i][a].expires_at \in Nat
    BY <1>1, <1>2, CacheTypes
  <2> QED BY <1>1, <1>3, <1>4, <2>1, <2>2, <2>3
<1>11. pi_cache[i][a].value = q
  BY <1>1, <1>2, <1>8, <1>10 DEF SiblingInv
<1>12. IntentOf(i, a) = q
  BY <1>1, <1>3, <1>4, <1>10, <1>11 DEF IntentOf, IntentLapsed
<1>13. HasMap(i, q)
  <2>1. \/ addr_mem_cache[i][a] < clock
        \/ network_address_cache[i][q] # None /\ addr_mem_cache[i][a] <= network_address_cache[i][q]
    BY <1>1, <1>3, <1>8 DEF SiblingInv
  <2>2. network_address_cache[i][q] \in Nat \cup {None}
    BY <1>1, CacheTypes
  <2> QED BY <1>1, <1>3, <2>1, <2>2 DEF HasMap, MapLapsed
<1>14. q # None
  BY CacheAssumption
<1> QED BY <1>6, <1>7, <1>12, <1>13, <1>14

\* A settle leg begins: a static recipient is honoured, another looked for.
LEMMA SettleBeginInv ==
  ASSUME PayToInv, NEW r \in Requests, NEW i \in Instances, NEW a \in Offered \cup {Foreign}, SettleBegin(r, i, a)
  PROVE  PayToInv'
<1>1. /\ TypeOK /\ pc[r] = "idle" /\ inst' = [inst EXCEPT ![r] = i] /\ address' = [address EXCEPT ![r] = a]
      /\ UNCHANGED <<deployment, clock, redis, addr_mem_cache, todo, hit, kept, restarts>>
      /\ clock \in Nat /\ clock <= clock /\ UsesRedis' = UsesRedis
  BY DEF SettleBegin, PayToInv, TypeOK, CacheTypeOK, UsesRedis
<1>2. a \in Addresses
  <2>1. \A s \in Requests : recipients[s] \subseteq Addresses
    BY <1>1 DEF TypeOK
  <2> QED BY <2>1, OrderAddresses DEF Offered
<1>3. /\ inst'[r] = i /\ address'[r] = a
      /\ \A s \in Requests \ {r} : inst'[s] = inst[s] /\ address'[s] = address[s]
      /\ inst' \in [Requests -> Instances \cup {None}] /\ address' \in [Requests -> Addresses \cup {None}]
  BY <1>1, <1>2 DEF TypeOK
<1>4. asked' \in {asked, [asked EXCEPT ![r] = clock]}
  BY DEF SettleBegin
<1>5. asked' \in [Requests -> Nat \cup {None}] /\ \A s \in Requests \ {r} : asked'[s] = asked[s]
  BY <1>1, <1>4 DEF TypeOK
<1>6. CASE /\ UsesRedis /\ pc' = [pc EXCEPT ![r] = "get"]
           /\ UNCHANGED <<asked, intent, recipients, pi_cache, network_address_cache>>
  <2>1. pc'[r] = "get" /\ \A s \in Requests \ {r} : pc'[s] = pc[s]
    BY <1>1, <1>6 DEF TypeOK
  <2>2. TypeOK'
    BY <1>1, <1>3, <1>5, <1>6 DEF TypeOK, CacheTypeOK
  <2>3. KeptInv' /\ HeldInv' /\ SiblingInv'
    BY <1>1, <1>6, <2>2, Fade
  <2>4. LegInv(r)'
    BY <1>1, <1>2, <1>3, <1>6, <2>1 DEF LegInv
  <2>5. ASSUME NEW s \in Requests \ {r} PROVE LegInv(s)'
    BY <1>1, <1>3, <1>6, <2>1, Bystander
  <2> QED BY <2>2, <2>3, <2>4, <2>5 DEF PayToInv
<1>7. CASE /\ Reuse(r, i, a) \/ Refuse(r)
           /\ ~UsesRedis /\ Reuse(r, i, a) => a \in StaticAddresses \/ MemHolds(i, a)
  <2>1. /\ pi_cache' \in [Instances -> [Addresses -> [value : Intents, expires_at : Nat] \cup {None}]]
        /\ network_address_cache' \in [Instances -> [Intents -> Nat \cup {None}]]
        /\ pc' \in [Requests -> {"idle", "set", "store", "get", "resolve", "minted", "reused", "refused", "dropped"}]
        /\ intent' \in [Requests -> Intents \cup {None}] /\ recipients' \in [Requests -> SUBSET Addresses]
        /\ pc'[r] \in {"reused", "refused"}
        /\ \A s \in Requests \ {r} : pc'[s] = pc[s] /\ intent'[s] = intent[s] /\ recipients'[s] = recipients[s]
    BY <1>1, <1>2, <1>7, LookupParts
  <2>2. TypeOK'
    BY <1>1, <1>3, <1>5, <2>1 DEF TypeOK, CacheTypeOK
  <2>3. KeptInv' /\ HeldInv' /\ SiblingInv'
    <3>1. /\ \A j \in Instances, b \in Addresses :
               pi_cache'[j][b] = pi_cache[j][b]
                 \/ (pi_cache'[j][b] = None /\ pi_cache[j][b] # None /\ pi_cache[j][b].expires_at < clock)
          /\ \A j \in Instances, q \in Intents :
               network_address_cache'[j][q] = network_address_cache[j][q]
                 \/ (network_address_cache'[j][q] = None /\ network_address_cache[j][q] # None
                       /\ network_address_cache[j][q] < clock)
      BY <1>1, <1>2, <1>7, LookupParts
    <3> QED BY <1>1, <2>2, <3>1, Fade
  <2>4. ~UsesRedis /\ pc'[r] = "reused" => a \in recipients'[r]
    <3> SUFFICES ASSUME ~UsesRedis, pc'[r] = "reused" PROVE a \in recipients'[r]
      OBVIOUS
    <3>1. Reuse(r, i, a)
      BY <1>1, <1>7 DEF Refuse, TypeOK
    <3>2. recipients'[r] = IF IntentOf(i, a) # None /\ HasMap(i, IntentOf(i, a))
                           THEN Merged(IntentOf(i, a)) ELSE StaticAddresses
      BY <1>1, <3>1 DEF Reuse, TypeOK
    <3>3. CASE a \in StaticAddresses
      BY <3>2, <3>3 DEF Merged
    <3>4. CASE a \notin StaticAddresses
      <4>1. MemHolds(i, a)
        BY <1>7, <3>1, <3>4
      <4> QED BY <3>2, <3>4, <4>1, HeldWithSiblings
    <3> QED BY <3>3, <3>4
  <2>5. LegInv(r)'
    BY <1>1, <1>3, <2>1, <2>4 DEF LegInv
  <2>6. ASSUME NEW s \in Requests \ {r} PROVE LegInv(s)'
    BY <1>1, <1>3, <1>5, <2>1, Bystander
  <2> QED BY <2>2, <2>3, <2>5, <2>6 DEF PayToInv
<1>8. \/ Reuse(r, i, a) /\ a \in StaticAddresses
      \/ MemHolds(i, a) /\ Reuse(r, i, a)
      \/ Refuse(r)
      \/ /\ UsesRedis /\ pc' = [pc EXCEPT ![r] = "get"]
         /\ UNCHANGED <<asked, intent, recipients, pi_cache, network_address_cache>>
  BY DEF SettleBegin, Honour
<1>9. ~(Reuse(r, i, a) /\ Refuse(r))
  BY <1>1 DEF Reuse, Refuse, TypeOK
<1> QED BY <1>6, <1>7, <1>8, <1>9

\* The leg that asked Redis ends.
LEMMA SettleResolveInv ==
  ASSUME PayToInv, NEW r \in Requests, SettleResolve(r)
  PROVE  PayToInv'
<1>1. /\ TypeOK /\ LegInv(r) /\ pc[r] = "resolve"
      /\ Reuse(r, inst[r], address[r]) \/ Refuse(r)
      /\ UNCHANGED <<deployment, clock, redis, addr_mem_cache, inst, todo, address, hit, asked, kept, restarts>>
      /\ clock \in Nat /\ clock <= clock
  BY DEF SettleResolve, Honour, PayToInv, TypeOK, CacheTypeOK
<1>2. UsesRedis /\ inst[r] \in Instances /\ address[r] \in Addresses
  BY <1>1 DEF LegInv
<1>3. /\ pi_cache' \in [Instances -> [Addresses -> [value : Intents, expires_at : Nat] \cup {None}]]
      /\ network_address_cache' \in [Instances -> [Intents -> Nat \cup {None}]]
      /\ pc' \in [Requests -> {"idle", "set", "store", "get", "resolve", "minted", "reused", "refused", "dropped"}]
      /\ intent' \in [Requests -> Intents \cup {None}] /\ recipients' \in [Requests -> SUBSET Addresses]
      /\ pc'[r] \in {"reused", "refused"}
      /\ \A s \in Requests \ {r} : pc'[s] = pc[s] /\ intent'[s] = intent[s] /\ recipients'[s] = recipients[s]
  BY <1>1, <1>2, LookupParts
<1>4. /\ \A j \in Instances, b \in Addresses :
           pi_cache'[j][b] = pi_cache[j][b]
             \/ (pi_cache'[j][b] = None /\ pi_cache[j][b] # None /\ pi_cache[j][b].expires_at < clock)
      /\ \A j \in Instances, q \in Intents :
           network_address_cache'[j][q] = network_address_cache[j][q]
             \/ (network_address_cache'[j][q] = None /\ network_address_cache[j][q] # None
                   /\ network_address_cache[j][q] < clock)
  BY <1>1, <1>2, LookupParts
<1>5. TypeOK'
  BY <1>1, <1>3 DEF TypeOK, CacheTypeOK
<1>6. KeptInv' /\ HeldInv' /\ SiblingInv'
  BY <1>1, <1>4, <1>5, Fade
<1>7. LegInv(r)'
  BY <1>1, <1>2, <1>3 DEF LegInv, UsesRedis
<1>8. ASSUME NEW s \in Requests \ {r} PROVE LegInv(s)'
  BY <1>1, <1>3, Bystander
<1> QED BY <1>5, <1>6, <1>7, <1>8 DEF PayToInv

\* An instance forgets all it knew, and what was kept there is gone with it.
LEMMA RestartInv ==
  ASSUME PayToInv, NEW i \in Instances, Restart(i)
  PROVE  PayToInv'
<1>1. /\ TypeOK /\ KeptInv /\ HeldInv /\ SiblingInv /\ restarts' = restarts + 1
      /\ addr_mem_cache' = [addr_mem_cache EXCEPT ![i] = [a \in Addresses |-> None]]
      /\ pi_cache' = [pi_cache EXCEPT ![i] = [a \in Addresses |-> None]]
      /\ network_address_cache' = [network_address_cache EXCEPT ![i] = [p \in Intents |-> None]]
      /\ pc' = [r \in Requests |-> IF inst[r] = i /\ pc[r] \in {"set", "store", "get", "resolve"}
                                   THEN "dropped" ELSE pc[r]]
      /\ kept' = {e \in kept : e.where # i}
      /\ UNCHANGED <<deployment, clock, redis, inst, intent, todo, address, hit, asked, recipients>>
      /\ UsesRedis' = UsesRedis /\ clock \in Nat /\ clock <= clock
  BY DEF Restart, ForgetAll, PayToInv, TypeOK, CacheTypeOK, UsesRedis
<1>2. TypeOK'
  BY <1>1 DEF TypeOK, CacheTypeOK
<1>3. /\ \A j \in Instances, a \in Addresses :
           /\ addr_mem_cache'[j][a] = IF j = i THEN None ELSE addr_mem_cache[j][a]
           /\ pi_cache'[j][a] = IF j = i THEN None ELSE pi_cache[j][a]
      /\ \A j \in Instances, p \in Intents :
           network_address_cache'[j][p] = IF j = i THEN None ELSE network_address_cache[j][p]
  BY <1>1 DEF TypeOK, CacheTypeOK
<1>4. KeptInv'
  <2> SUFFICES ASSUME NEW e \in kept, e.where # i
               PROVE  /\ e.at <= clock /\ e.addr # Foreign
                      /\ e.where = Shared => UsesRedis /\ redis[e.addr] # None /\ e.at + TTL <= redis[e.addr]
                      /\ e.where # Shared =>
                           /\ \/ e.at + TTL < clock
                              \/ /\ addr_mem_cache'[e.where][e.addr] # None
                                 /\ e.at + TTL <= addr_mem_cache'[e.where][e.addr]
                           /\ e.addr \in Deposits =>
                                \/ e.at + TTL < clock
                                \/ /\ pi_cache'[e.where][e.addr] # None
                                   /\ e.at + TTL <= pi_cache'[e.where][e.addr].expires_at
    BY <1>1 DEF KeptInv
  <2>1. e.addr \in Addresses /\ e.where \in Instances \cup {Shared}
    BY <1>1, CacheTypes
  <2>2. e.where # Shared => /\ addr_mem_cache'[e.where][e.addr] = addr_mem_cache[e.where][e.addr]
                            /\ pi_cache'[e.where][e.addr] = pi_cache[e.where][e.addr]
    BY <1>3, <2>1
  <2> QED BY <1>1, <2>2 DEF KeptInv
<1>5. HeldInv'
  <2>1. \A a \in Addresses : redis'[a] # None =>
          \E e \in kept' : e.addr = a /\ e.where = Shared /\ e.at + TTL = redis'[a]
    BY <1>1, SharedAssumption DEF HeldInv
  <2>2. ASSUME NEW j \in Instances, NEW a \in Addresses, addr_mem_cache'[j][a] # None
        PROVE  \E e \in kept' : e.addr = a /\ e.where = j /\ e.at + TTL = addr_mem_cache'[j][a]
    <3>1. j # i /\ addr_mem_cache'[j][a] = addr_mem_cache[j][a]
      BY <1>3, <2>2
    <3>2. PICK e \in kept : e.addr = a /\ e.where = j /\ e.at + TTL = addr_mem_cache[j][a]
      BY <1>1, <2>2, <3>1 DEF HeldInv
    <3> QED BY <1>1, <3>1, <3>2
  <2> QED BY <2>1, <2>2 DEF HeldInv
<1>6. SiblingInv'
  <2>1. \A j \in Instances, p \in Intents, n \in Networks : <<p, n>> \in Addresses
    BY OrderAddresses DEF Deposits
  <2> QED BY <1>1, <1>3, <2>1 DEF SiblingInv
<1>7. ASSUME NEW s \in Requests PROVE LegInv(s)'
  <2>1. pc'[s] \in {pc[s], "dropped"}
    BY <1>1
  <2>2. /\ \A e \in kept : e.where = Shared => e \in kept'
        /\ \A e \in kept' : e \in kept \/ e.at = clock
    BY <1>1, SharedAssumption
  <2> QED BY <1>1, <2>1, <2>2, Bystander
<1> QED BY <1>2, <1>4, <1>5, <1>6, <1>7 DEF PayToInv

-----------------------------------------------------------------------------
(* Every state of every behaviour. *)

\* A deployment that has just been started.
LEMMA InitInv == Init => PayToInv
<1> SUFFICES ASSUME Init PROVE PayToInv
  OBVIOUS
<1>1. TypeOK
  BY DEF Init, CacheInit, TypeOK, CacheTypeOK
<1>2. KeptInv /\ HeldInv /\ SiblingInv
  BY OrderAddresses DEF Init, CacheInit, KeptInv, HeldInv, SiblingInv, Deposits
<1>3. ASSUME NEW r \in Requests PROVE LegInv(r)
  BY DEF Init, LegInv
<1> QED BY <1>1, <1>2, <1>3 DEF PayToInv

\* Every step, and none.
LEMMA NextInv == PayToInv /\ [Next]_vars => PayToInv'
<1> SUFFICES ASSUME PayToInv, [Next]_vars PROVE PayToInv'
  OBVIOUS
<1>1. CASE UNCHANGED vars
  BY <1>1 DEF PayToInv, vars, legVars, cacheVars, TypeOK, CacheTypeOK, KeptInv, HeldInv, SiblingInv, LegInv, Heard,
              UsesRedis, RedisFails
<1>2. CASE Next
  BY <1>2, MintInProcessInv, MintBeginInv, SettleBeginInv, MintSetInv, MintStoreInv, SettleGetInv, SettleResolveInv,
     SettleMalformedInv, SweepInv, RestartInv, TickInv DEF Next
<1> QED BY <1>1, <1>2

\* The invariant holds from the start and is kept by every step.
THEOREM Invariance == Spec => []PayToInv
  BY InitInv, NextInv, PTL DEF Spec

\* Every variable of the cache and its legs keeps its type.
THEOREM TypeCorrect == Spec => []TypeOK
<1>1. PayToInv => TypeOK
  BY DEF PayToInv
<1> QED BY <1>1, Invariance, PTL

\* A settle leg answers with the address the buyer signed for, whenever the
\* cache is the instance's own.
THEOREM SignedIsReused == Spec => []SignedPayToReused
<1>1. PayToInv => SignedPayToReused
  BY DEF PayToInv, LegInv, SignedPayToReused
<1> QED BY <1>1, Invariance, PTL

-----------------------------------------------------------------------------
(* Verdicts on credentials. *)

\* Only three steps end a leg that brought a credential.
LEMMA EndsOfLegs ==
  ASSUME TypeOK, Next, NEW r \in Requests, Becomes(r, "reused") \/ Becomes(r, "refused")
  PROVE  \/ \E i \in Instances, a \in Offered \cup {Foreign} : SettleBegin(r, i, a)
         \/ SettleResolve(r) \/ SettleMalformed(r)
<1> USE DEF Becomes, TypeOK
<1>1. ASSUME NEW s \in Requests, NEW i \in Instances, NEW p \in Intents, MintInProcess(s, i, p) \/ MintBegin(s, i, p)
      PROVE  FALSE
  BY <1>1 DEF MintInProcess, MintBegin
<1>2. ASSUME NEW s \in Requests, MintSet(s) \/ MintStore(s) \/ SettleGet(s) PROVE FALSE
  BY <1>2 DEF MintSet, MintStore, SettleGet
<1>3. ASSUME NEW i \in Instances, Sweep(i) \/ Restart(i) PROVE FALSE
  BY <1>3 DEF Sweep, Restart, legVars
<1>4. CASE Tick
  BY <1>4 DEF Tick, legVars
<1>5. ASSUME NEW s \in Requests, s # r
      PROVE  \A to \in {"refused", "reused", "get"} : pc' # [pc EXCEPT ![s] = to]
  BY <1>5
<1>6. ASSUME NEW s \in Requests, NEW i \in Instances, NEW a \in Offered \cup {Foreign}, SettleBegin(s, i, a) PROVE s = r
  BY <1>5, <1>6 DEF SettleBegin, Honour, Reuse, Refuse
<1>7. ASSUME NEW s \in Requests, SettleResolve(s) \/ SettleMalformed(s) PROVE s = r
  BY <1>5, <1>7 DEF SettleResolve, SettleMalformed, Honour, Reuse, Refuse
<1> QED BY <1>1, <1>2, <1>3, <1>4, <1>6, <1>7 DEF Next

\* What a leg that is honoured, but for a static recipient, has found.
LEMMA HonouredHasIt ==
  ASSUME PayToInv, Next, NEW r \in Requests, Becomes(r, "reused"), asked'[r] # None
  PROVE  \E e \in kept : /\ e.addr = address'[r] /\ e.addr # Foreign
                         /\ e.where \in {inst'[r], Shared} /\ e.at + TTL > asked'[r]
<1>1. /\ TypeOK /\ KeptInv /\ HeldInv /\ LegInv(r) /\ pc[r] # "reused" /\ pc'[r] = "reused"
      /\ clock \in Nat /\ TTL \in Nat /\ None \notin Nat
      /\ \A e \in kept : e.addr # Foreign /\ e.at \in Nat
  BY CacheTypes DEF PayToInv, Becomes, KeptInv
<1>2. ASSUME NEW i \in Instances, NEW a \in Addresses, MemHolds(i, a)
      PROVE  \E e \in kept : e.addr = a /\ e.where = i /\ e.at + TTL > clock
  BY <1>1, <1>2 DEF MemHolds, HeldInv
<1>3. CASE \E i \in Instances, a \in Offered \cup {Foreign} : SettleBegin(r, i, a)
  <2>1. PICK i \in Instances, a \in Offered \cup {Foreign} : SettleBegin(r, i, a)
    BY <1>3
  <2>2. a \in Addresses
    BY <1>1, OrderAddresses DEF Offered, TypeOK
  <2>3. inst'[r] = i /\ address'[r] = a /\ asked[r] = None
    BY <1>1, <2>1 DEF SettleBegin, TypeOK, LegInv
  <2>4. MemHolds(i, a) /\ asked'[r] = clock
    BY <1>1, <2>1, <2>3 DEF SettleBegin, Honour, Refuse, TypeOK
  <2> QED BY <1>1, <1>2, <2>2, <2>3, <2>4
<1>4. CASE SettleResolve(r)
  <2>1. /\ inst'[r] = inst[r] /\ address'[r] = address[r] /\ asked'[r] = asked[r] /\ Heard(r)
        /\ inst[r] \in Instances /\ address[r] \in Addresses /\ asked[r] \in Nat /\ asked[r] <= clock
    BY <1>1, <1>4 DEF SettleResolve, LegInv, Heard
  <2>2. hit[r] \/ MemHolds(inst[r], address[r])
    BY <1>1, <1>4 DEF SettleResolve, Honour, Refuse, TypeOK
  <2>3. CASE hit[r]
    BY <1>1, <2>1, <2>3 DEF Heard
  <2>4. CASE MemHolds(inst[r], address[r])
    <3>1. PICK e \in kept : e.addr = address[r] /\ e.where = inst[r] /\ e.at + TTL > clock
      BY <1>2, <2>1, <2>4
    <3> QED BY <1>1, <2>1, <3>1
  <2> QED BY <2>2, <2>3, <2>4
<1>5. ~SettleMalformed(r)
  BY <1>1 DEF SettleMalformed, TypeOK
<1> QED BY <1>1, <1>3, <1>4, <1>5, EndsOfLegs DEF PayToInv

\* A credential is honoured only for an address of the merchant's that was put
\* in the cache less than a lifetime before it was asked.
THEOREM HonoursOwnFresh == Spec => OnlyOwnFresh
<1> DEFINE Step == \A r \in Requests :
                     Becomes(r, "reused") /\ asked'[r] # None =>
                       \E e \in kept : /\ e.addr = address'[r]
                                       /\ e.addr # Foreign
                                       /\ e.where \in {inst'[r], Shared}
                                       /\ e.at + TTL > asked'[r]
<1>1. PayToInv /\ [Next]_vars => [Step]_vars
  BY HonouredHasIt
<1>2. [][Step]_vars => OnlyOwnFresh
  BY DEF OnlyOwnFresh
<1> QED BY <1>1, <1>2, Invariance, PTL DEF Spec

\* What a leg that is refused has not found.
LEMMA RefusedHasNot ==
  ASSUME PayToInv, Next, NEW r \in Requests, Becomes(r, "refused"), NEW e \in kept, e.addr = address'[r]
  PROVE  /\ e.where = inst'[r] => e.at + TTL <= clock
         /\ e.where = Shared /\ ~RedisFails /\ e.at < asked'[r] => e.at + TTL <= asked'[r]
<1>1. /\ TypeOK /\ KeptInv /\ HeldInv /\ LegInv(r) /\ pc[r] # "refused" /\ pc'[r] = "refused"
      /\ clock \in Nat /\ TTL \in Nat /\ None \notin Nat
      /\ e.addr \in Addresses /\ e.where \in Instances \cup {Shared} /\ e.at \in Nat
  BY CacheTypes DEF PayToInv, Becomes
<1>2. ASSUME NEW i \in Instances, e.where = i, ~MemHolds(i, e.addr) PROVE e.at + TTL <= clock
  <2>1. i # Shared /\ addr_mem_cache[i][e.addr] \in Nat \cup {None}
    BY <1>1, CacheTypes, SharedAssumption
  <2>2. e.at + TTL < clock \/ (addr_mem_cache[i][e.addr] # None /\ e.at + TTL <= addr_mem_cache[i][e.addr])
    BY <1>1, <1>2, <2>1 DEF KeptInv
  <2> QED BY <1>1, <1>2, <2>1, <2>2 DEF MemHolds
<1>3. CASE \E i \in Instances, a \in Offered \cup {Foreign} : SettleBegin(r, i, a)
  <2>1. PICK i \in Instances, a \in Offered \cup {Foreign} : SettleBegin(r, i, a)
    BY <1>3
  <2>2. inst'[r] = i /\ address'[r] = a
    BY <1>1, <2>1 DEF SettleBegin, TypeOK
  <2>3. ~UsesRedis /\ ~MemHolds(i, a)
    BY <1>1, <2>1 DEF SettleBegin, Honour, Reuse, TypeOK
  <2>4. e.where # Shared
    BY <1>1, <2>3 DEF KeptInv
  <2> QED BY <1>2, <2>2, <2>3, <2>4
<1>4. CASE SettleResolve(r)
  <2>1. /\ inst'[r] = inst[r] /\ address'[r] = address[r] /\ asked'[r] = asked[r] /\ Heard(r)
        /\ inst[r] \in Instances
    BY <1>1, <1>4 DEF SettleResolve, LegInv
  <2>2. ~hit[r] /\ ~MemHolds(inst[r], address[r])
    BY <1>1, <1>4 DEF SettleResolve, Honour, Reuse, TypeOK
  <2> QED BY <1>2, <2>1, <2>2 DEF Heard
<1>5. CASE SettleMalformed(r)
  <2>1. address'[r] = None
    BY <1>1, <1>5 DEF SettleMalformed, LegInv
  <2> QED BY <1>1, <2>1, CacheAssumption
<1> QED BY <1>1, <1>3, <1>4, <1>5, EndsOfLegs DEF PayToInv

\* A credential is refused only when its address has lapsed wherever it was
\* kept within reach.
THEOREM RefusesOnlyLapsed == Spec => PromptCredentialHonoured
<1> DEFINE Step == \A r \in Requests :
                     Becomes(r, "refused") =>
                       \A e \in kept :
                         e.addr = address'[r] =>
                           /\ e.where = inst'[r] => e.at + TTL <= clock
                           /\ e.where = Shared /\ ~RedisFails /\ e.at < asked'[r] => e.at + TTL <= asked'[r]
<1>1. PayToInv /\ [Next]_vars => [Step]_vars
  BY RefusedHasNot
<1>2. [][Step]_vars => PromptCredentialHonoured
  BY DEF PromptCredentialHonoured
<1> QED BY <1>1, <1>2, Invariance, PTL DEF Spec

\* What a leg that does not find the payment intent of a deposit has not found.
LEMMA IntentLost ==
  ASSUME PayToInv, Next, NEW r \in Requests, Becomes(r, "reused"), intent'[r] = None,
         NEW e \in kept, e.addr = address'[r], e.addr \in Deposits, e.where = inst'[r]
  PROVE  e.at + TTL < clock
<1>1. /\ TypeOK /\ KeptInv /\ LegInv(r) /\ pc[r] # "reused" /\ pc'[r] = "reused"
      /\ clock \in Nat /\ TTL \in Nat
      /\ e.addr \in Addresses /\ e.where \in Instances \cup {Shared} /\ e.at \in Nat
  BY CacheTypes DEF PayToInv, Becomes
<1>2. ASSUME NEW i \in Instances, e.where = i, IntentOf(i, e.addr) = None PROVE e.at + TTL < clock
  <2>1. i # Shared
    BY SharedAssumption
  <2>2. e.at + TTL < clock \/ (pi_cache[i][e.addr] # None /\ e.at + TTL <= pi_cache[i][e.addr].expires_at)
    BY <1>1, <1>2, <2>1 DEF KeptInv
  <2>3. pi_cache[i][e.addr] # None => pi_cache[i][e.addr].value # None /\ pi_cache[i][e.addr].expires_at \in Nat
    BY <1>1, CacheTypes, CacheAssumption
  <2> QED BY <1>1, <1>2, <2>2, <2>3 DEF IntentOf, IntentLapsed
<1>3. CASE \E i \in Instances, a \in Offered \cup {Foreign} : SettleBegin(r, i, a)
  <2>1. PICK i \in Instances, a \in Offered \cup {Foreign} : SettleBegin(r, i, a)
    BY <1>3
  <2>2. inst'[r] = i /\ address'[r] = a
    BY <1>1, <2>1 DEF SettleBegin, TypeOK
  <2>3. Reuse(r, i, a)
    BY <1>1, <2>1 DEF SettleBegin, Honour, Refuse, TypeOK
  <2>4. IntentOf(i, a) = None
    BY <1>1, <2>3 DEF Reuse, TypeOK
  <2> QED BY <1>2, <2>2, <2>4
<1>4. CASE SettleResolve(r)
  <2>1. inst'[r] = inst[r] /\ address'[r] = address[r] /\ inst[r] \in Instances
    BY <1>1, <1>4 DEF SettleResolve, LegInv
  <2>2. Reuse(r, inst[r], address[r])
    BY <1>1, <1>4 DEF SettleResolve, Honour, Refuse, TypeOK
  <2>3. IntentOf(inst[r], address[r]) = None
    BY <1>1, <2>2 DEF Reuse, TypeOK
  <2> QED BY <1>2, <2>1, <2>3
<1>5. ~SettleMalformed(r)
  BY <1>1 DEF SettleMalformed, TypeOK
<1> QED BY <1>1, <1>3, <1>4, <1>5, EndsOfLegs DEF PayToInv

\* A payment intent is lost to a leg on the instance that minted it only when
\* its entry there has lapsed.
THEOREM IntentsAreKnownHere == Spec => IntentKnownHere
<1> DEFINE Step == \A r \in Requests :
                     Becomes(r, "reused") /\ intent'[r] = None =>
                       \A e \in kept : e.addr = address'[r] /\ e.addr \in Deposits /\ e.where = inst'[r]
                                         => e.at + TTL < clock
<1>1. PayToInv /\ [Next]_vars => [Step]_vars
  BY IntentLost
<1>2. [][Step]_vars => IntentKnownHere
  BY DEF IntentKnownHere
<1> QED BY <1>1, <1>2, Invariance, PTL DEF Spec
=============================================================================

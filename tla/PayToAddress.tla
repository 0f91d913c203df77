---------------------------- MODULE PayToAddress ----------------------------
(***************************************************************************)
(* mint_multichain_recipients (stripe_multichain/pay_to_address.py), as the *)
(* requests of a deployment call it: a discovery leg mints a payment intent *)
(* and caches its addresses, a settle leg whose MPP credential is bound to  *)
(* a recipient takes that recipient, if it is the merchant's and has not    *)
(* lapsed, and looks up its payment intent and siblings.                    *)
(*                                                                          *)
(* A leg gives up control only where it awaits Redis; without Redis it runs *)
(* in one go.  Stripe's call is synchronous (PaymentIntentFlights).         *)
(***************************************************************************)
EXTENDS PiCache

CONSTANTS
  Requests,        \* calls of mint_multichain_recipients
  StaticNets,      \* networks of static_recipients
  MaxClock,        \* bound of the model: the clock stops here
  MaxRestarts      \* bound of the model: restarts of instances

ASSUME PayToAssumption ==
  /\ StaticNets \subseteq Networks
  /\ MaxClock \in Nat /\ MaxRestarts \in Nat

VARIABLES
  pc,              \* request -> the await it is suspended at
  inst,            \* request -> the instance that serves it
  intent,          \* request -> the payment intent it minted, or looked up
  todo,            \* request -> the addresses it has yet to cache
  address,         \* request -> the address it is caching, or was asked to honour
  hit,             \* request -> Redis held the address when it was asked
  asked,           \* request -> when has_address looked, or None
  recipients,      \* request -> the addresses it returned
  kept,            \* history: where, when and which address was cached
  restarts

legVars == <<pc, inst, intent, todo, address, hit, asked, recipients>>
vars == <<deployment, clock, cacheVars, legVars, kept, restarts>>

Shared == "shared"       \* the place of Redis in kept

ASSUME SharedAssumption == Shared \notin Instances /\ None \notin Instances

TypeOK ==
  /\ CacheTypeOK
  /\ pc \in [Requests -> {"idle", "set", "store", "get", "resolve", "minted", "reused",
                          "refused", "dropped"}]
  /\ inst \in [Requests -> Instances \cup {None}]
  /\ intent \in [Requests -> Intents \cup {None}]
  /\ todo \in [Requests -> SUBSET Addresses]
  /\ address \in [Requests -> Addresses \cup {None}]
  /\ hit \in [Requests -> BOOLEAN]
  /\ asked \in [Requests -> Nat \cup {None}]
  /\ recipients \in [Requests -> SUBSET Addresses]
  /\ kept \subseteq [addr : Addresses, where : Instances \cup {Shared}, at : Nat]
  /\ restarts \in Nat

Init ==
  /\ CacheInit
  /\ pc = [r \in Requests |-> "idle"]
  /\ inst = [r \in Requests |-> None]
  /\ intent = [r \in Requests |-> None]
  /\ todo = [r \in Requests |-> {}]
  /\ address = [r \in Requests |-> None]
  /\ hit = [r \in Requests |-> FALSE]
  /\ asked = [r \in Requests |-> None]
  /\ recipients = [r \in Requests |-> {}]
  /\ kept = {}
  /\ restarts = 0

-----------------------------------------------------------------------------
StaticAddresses == {"static"} \X StaticNets

\* networks = [n for n in networks if n not in static_recipients]; an empty
\* list is taken for no list, and means all of them.
StripeNets == IF StaticNets = Networks THEN Networks ELSE Networks \ StaticNets
DepositsOf(p) == {p} \X StripeNets

\* {**deposit_addresses, **static_recipients}: a static one displaces.
Merged(p) == ({p} \X (StripeNets \ StaticNets)) \cup StaticAddresses

\* Every address a 402 has named so far.
Offered == UNION {recipients[r] : r \in {s \in Requests : pc[s] = "minted"}}

\* Stripe answered with payment intent p, and there is no Redis: every address
\* is cached at once, the statics included.
MintInProcess(r, i, p) ==
  /\ ~UsesRedis
  /\ pc[r] = "idle"
  /\ pc' = [pc EXCEPT ![r] = "minted"]
  /\ inst' = [inst EXCEPT ![r] = i]
  /\ intent' = [intent EXCEPT ![r] = p]
  /\ recipients' = [recipients EXCEPT ![r] = Merged(p)]
  /\ addr_mem_cache' = [addr_mem_cache EXCEPT ![i] =
       [a \in Addresses |-> IF a \in DepositsOf(p) \cup StaticAddresses THEN clock + TTL ELSE @[a]]]
  /\ pi_cache' = [pi_cache EXCEPT ![i] =
       [a \in Addresses |-> IF a \in DepositsOf(p) THEN [value |-> p, expires_at |-> clock + TTL]
                            ELSE @[a]]]
  /\ network_address_cache' = [network_address_cache EXCEPT ![i][p] = clock + TTL]
  /\ kept' = kept \cup {[addr |-> a, where |-> i, at |-> clock] : a \in DepositsOf(p) \cup StaticAddresses}
  /\ UNCHANGED <<deployment, clock, redis, todo, address, hit, asked, restarts>>

\* With Redis: the first address is on its way to it.
MintBegin(r, i, p) ==
  /\ UsesRedis
  /\ pc[r] = "idle"
  /\ pc' = [pc EXCEPT ![r] = "set"]
  /\ inst' = [inst EXCEPT ![r] = i]
  /\ intent' = [intent EXCEPT ![r] = p]
  /\ \E a \in DepositsOf(p) :
       /\ address' = [address EXCEPT ![r] = a]
       /\ todo' = [todo EXCEPT ![r] = (DepositsOf(p) \cup StaticAddresses) \ {a}]
  /\ UNCHANGED <<deployment, clock, cacheVars, hit, asked, recipients, kept, restarts>>

\* cache_address, as far as Redis; an exception is suppressed.
MintSet(r) ==
  /\ pc[r] = "set"
  /\ pc' = [pc EXCEPT ![r] = "store"]
  /\ \/ /\ RedisSet(address[r])
        /\ kept' = kept \cup {[addr |-> address[r], where |-> Shared, at |-> clock]}
     \/ RedisFails /\ UNCHANGED <<redis, kept>>
  /\ UNCHANGED <<deployment, clock, addr_mem_cache, pi_cache, network_address_cache, inst, intent, todo, address,
                 hit, asked, recipients, restarts>>

\* The rest of cache_address and cache_payment_intent; then the next address,
\* the statics last, or cache_network_addresses and the return.
MintStore(r) ==
  LET i == inst[r]
      p == intent[r]
      a == address[r]
  IN  /\ pc[r] = "store"
      /\ StoreHere(i, p, a)
      /\ kept' = kept \cup {[addr |-> a, where |-> i, at |-> clock]}
      /\ \/ \E b \in todo[r] :
              /\ todo[r] \cap Deposits # {} => b \in Deposits
              /\ pc' = [pc EXCEPT ![r] = "set"]
              /\ address' = [address EXCEPT ![r] = b]
              /\ todo' = [todo EXCEPT ![r] = @ \ {b}]
              /\ UNCHANGED <<network_address_cache, recipients>>
         \/ /\ todo[r] = {}
            /\ pc' = [pc EXCEPT ![r] = "minted"]
            /\ network_address_cache' = [network_address_cache EXCEPT ![i][p] = clock + TTL]
            /\ recipients' = [recipients EXCEPT ![r] = Merged(p)]
            /\ UNCHANGED <<address, todo>>
      /\ UNCHANGED <<deployment, clock, redis, inst, intent, hit, asked, restarts>>

-----------------------------------------------------------------------------
\* The credential's recipient is honoured: look up its intent and the intent's
\* addresses on this instance.
Reuse(r, i, a) ==
  LET p == IntentOf(i, a)
  IN  /\ pc' = [pc EXCEPT ![r] = "reused"]
      /\ intent' = [intent EXCEPT ![r] = p]
      /\ recipients' = [recipients EXCEPT ![r] =
           IF p # None /\ HasMap(i, p) THEN Merged(p) ELSE StaticAddresses]
      /\ DropLapsedIntent(i, a)
      /\ DropLapsedMap(i, p)

Refuse(r) ==
  /\ pc' = [pc EXCEPT ![r] = "refused"]
  /\ UNCHANGED <<pi_cache, network_address_cache, intent, recipients>>

\* Slip: only the dict is believed.
HonourIfHere(r, i, a, held) ==
  (MemHolds(i, a) /\ Reuse(r, i, a)) \/ (~MemHolds(i, a) /\ Refuse(r))

\* The recipient is in the cache, or the credential is refused with a 401.
Honour(r, i, a, held) == (held /\ Reuse(r, i, a)) \/ (~held /\ Refuse(r))

\* A settle leg whose credential is bound to recipient a, on network n: a
\* static recipient of that network needs no cache; otherwise has_address.
SettleBegin(r, i, a) ==
  /\ pc[r] = "idle"
  /\ inst' = [inst EXCEPT ![r] = i]
  /\ address' = [address EXCEPT ![r] = a]
  /\ \/ /\ a \in StaticAddresses
        /\ asked' = asked
        /\ Reuse(r, i, a)
     \/ /\ ~UsesRedis
        /\ a \notin StaticAddresses
        /\ asked' = [asked EXCEPT ![r] = clock]
        /\ Honour(r, i, a, MemHolds(i, a))
     \/ /\ UsesRedis
        /\ a \notin StaticAddresses
        /\ pc' = [pc EXCEPT ![r] = "get"]
        /\ UNCHANGED <<asked, intent, recipients, pi_cache, network_address_cache>>
  /\ UNCHANGED <<deployment, clock, redis, addr_mem_cache, todo, hit, kept, restarts>>

\* Redis answers the get, or raises.
SettleGet(r) ==
  /\ pc[r] = "get"
  /\ pc' = [pc EXCEPT ![r] = "resolve"]
  /\ asked' = [asked EXCEPT ![r] = clock]
  /\ hit' \in {[hit EXCEPT ![r] = RedisHolds(address[r])]}
              \cup (IF RedisFails THEN {[hit EXCEPT ![r] = FALSE]} ELSE {})
  /\ UNCHANGED <<deployment, clock, cacheVars, inst, intent, todo, address, recipients, kept, restarts>>

\* The answer arrived; a miss leaves the dict.
SettleResolve(r) ==
  /\ pc[r] = "resolve"
  /\ Honour(r, inst[r], address[r], hit[r] \/ MemHolds(inst[r], address[r]))
  /\ UNCHANGED <<deployment, clock, redis, addr_mem_cache, inst, todo, address, hit, asked, kept, restarts>>

\* A header that is no MPP credential, or one without a recipient.
SettleMalformed(r) ==
  /\ pc[r] = "idle"
  /\ pc' = [pc EXCEPT ![r] = "refused"]
  /\ UNCHANGED <<deployment, clock, cacheVars, inst, intent, todo, address, hit, asked, recipients, kept, restarts>>

-----------------------------------------------------------------------------
Sweep(i) == Evict(i) /\ UNCHANGED <<legVars, kept, restarts>>

Tick ==
  /\ clock < MaxClock
  /\ clock' = clock + 1
  /\ UNCHANGED <<deployment, cacheVars, legVars, kept, restarts>>

\* An instance restarts: its dicts are empty, its open requests gone.
Restart(i) ==
  /\ restarts < MaxRestarts
  /\ restarts' = restarts + 1
  /\ ForgetAll(i)
  /\ pc' = [r \in Requests |->
       IF inst[r] = i /\ pc[r] \in {"set", "store", "get", "resolve"} THEN "dropped" ELSE pc[r]]
  /\ kept' = {e \in kept : e.where # i}
  /\ UNCHANGED <<deployment, clock, redis, inst, intent, todo, address, hit, asked, recipients>>

Next ==
  \/ \E r \in Requests, i \in Instances :
       \/ \E p \in Intents : MintInProcess(r, i, p) \/ MintBegin(r, i, p)
       \/ \E a \in Offered \cup {Foreign} : SettleBegin(r, i, a)
  \/ \E r \in Requests :
       MintSet(r) \/ MintStore(r) \/ SettleGet(r) \/ SettleResolve(r) \/ SettleMalformed(r)
  \/ \E i \in Instances : Sweep(i) \/ Restart(i)
  \/ Tick

Spec == Init /\ [][Next]_vars

-----------------------------------------------------------------------------
Becomes(r, outcome) == pc[r] # outcome /\ pc'[r] = outcome

\* "Validates the credential's deposit address against the addresses the
\* merchant has actually minted": a credential is honoured only for an address
\* of the merchant's, put in the cache that was asked less than TTL before.
OnlyOwnFresh ==
  [][\A r \in Requests :
       Becomes(r, "reused") /\ asked'[r] # None =>
         \E e \in kept : /\ e.addr = address'[r]
                         /\ e.addr # Foreign
                         /\ e.where \in {inst'[r], Shared}
                         /\ e.at + TTL > asked'[r]]_vars

\* A credential is refused only when the address has lapsed wherever it was
\* kept within reach: on this instance, and in a Redis that does not fail.
\* Restarts, sweeps and other instances' orders take nothing away.
PromptCredentialHonoured ==
  [][\A r \in Requests :
       Becomes(r, "refused") =>
         \A e \in kept :
           e.addr = address'[r] =>
             /\ e.where = inst'[r] => e.at + TTL <= clock
             /\ e.where = Shared /\ ~RedisFails /\ e.at < asked'[r] => e.at + TTL <= asked'[r]]_vars

\* The settle leg answers with the address the buyer signed for; "otherwise
\* the verify leg would compare against a freshly-rotated address and reject
\* the credential".  Whenever the cache is the instance's own.
SignedPayToReused ==
  ~UsesRedis => \A r \in Requests : pc[r] = "reused" => address[r] \in recipients[r]

\* A payment intent is lost to the leg that settles on the instance that
\* minted it only when its entry there has lapsed.
IntentKnownHere ==
  [][\A r \in Requests :
       Becomes(r, "reused") /\ intent'[r] = None =>
         \A e \in kept : e.addr = address'[r] /\ e.addr \in Deposits /\ e.where = inst'[r]
                           => e.at + TTL < clock]_vars
=============================================================================

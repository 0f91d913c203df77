---------------------------- MODULE RateLimiter ----------------------------
(***************************************************************************)
(* create_rate_limiter (middleware/_core.py) in the instances of one        *)
(* deployment: a fixed window per key, counted in Redis where redis_url is  *)
(* set and in the dict of the instance where it is not, or when a Redis     *)
(* call raises.  The counter and its expiry are two Redis calls, and a      *)
(* request may be cancelled while it awaits the second one (its client hung *)
(* up).                                                                     *)
(*                                                                          *)
(* One action is the code between two awaits.  Redis applies each command   *)
(* atomically; a command that raises may have been applied all the same.    *)
(***************************************************************************)
EXTENDS Integers, FiniteSets

CONSTANTS
  Instances,       \* processes, each with its own mem_state
  Requests,        \* calls of check
  Keys,            \* rate limit keys: client addresses
  Window,          \* window_seconds, in ticks
  MaxRequests,     \* max_requests
  MaxClock,        \* bound of the model: the clock stops here
  RedisInstances,  \* the instances with a redis_url
  None

Never == -1        \* the expiry of a Redis key without one
Redis == "redis"   \* the counter of a decision that was made on Redis's count

ASSUME LimiterAssumption ==
  /\ Window \in Nat \ {0} /\ MaxRequests \in Nat \ {0} /\ MaxClock \in Nat
  /\ RedisInstances \subseteq Instances
  /\ None \notin Instances \cup Keys \cup Int
  /\ Redis \notin Instances
  /\ IsFiniteSet(Requests)

Bucket == [count : Nat, reset_at : Nat \cup {Never}]
Decision == [allowed : BOOLEAN, remaining : Nat, at : Nat, by : Instances \cup {Redis}]

ASSUME BucketAssumption == None \notin Bucket \cup Decision
ASSUME CountAssumption == None \notin [n : Nat, at : Nat]

VARIABLES
  clock,           \* time.monotonic(), and Redis's clock
  redis,           \* key -> bucket or None
  mem_state,       \* instance -> key -> bucket or None
  pc,              \* request -> the await it is suspended at
  inst,            \* request -> the instance that serves it
  key,             \* request -> its key
  count,           \* request -> [n, at]: what incr returned, and when, or None
  decision,        \* request -> its decision, when and by which counter, or None
  mishap           \* history: a Redis command raised, or a request was cancelled

vars == <<clock, redis, mem_state, pc, inst, key, count, decision, mishap>>

TypeOK ==
  /\ clock \in Nat
  /\ redis \in [Keys -> Bucket \cup {None}]
  /\ mem_state \in [Instances -> [Keys -> Bucket \cup {None}]]
  /\ pc \in [Requests -> {"idle", "expire", "fallback", "done"}]
  /\ inst \in [Requests -> Instances \cup {None}]
  /\ key \in [Requests -> Keys \cup {None}]
  /\ count \in [Requests -> [n : Nat, at : Nat] \cup {None}]
  /\ decision \in [Requests -> Decision \cup {None}]
  /\ mishap \in BOOLEAN

Init ==
  /\ clock = 0
  /\ redis = [k \in Keys |-> None]
  /\ mem_state = [i \in Instances |-> [k \in Keys |-> None]]
  /\ pc = [r \in Requests |-> "idle"]
  /\ inst = [r \in Requests |-> None]
  /\ key = [r \in Requests |-> None]
  /\ count = [r \in Requests |-> None]
  /\ decision = [r \in Requests |-> None]
  /\ mishap = FALSE

-----------------------------------------------------------------------------
\* Slip: one request too many fits into a bucket.
DecideLoose(r, n, at, by) ==
  /\ pc' = [pc EXCEPT ![r] = "done"]
  /\ decision' = [decision EXCEPT ![r] =
       [allowed |-> n <= MaxRequests + 1,
        remaining |-> IF n < MaxRequests THEN MaxRequests - n ELSE 0,
        at |-> at, by |-> by]]

\* allowed=count <= max_requests, remaining=max(0, max_requests - count): the
\* decision on the n-th request of a bucket, counted at the time given.
Decide(r, n, at, by) ==
  /\ pc' = [pc EXCEPT ![r] = "done"]
  /\ decision' = [decision EXCEPT ![r] =
       [allowed |-> n <= MaxRequests,
        remaining |-> IF n < MaxRequests THEN MaxRequests - n ELSE 0,
        at |-> at, by |-> by]]

\* _check_mem, which awaits nothing.
CheckMem(r, i, k) ==
  LET e == mem_state[i][k]
      fresh == e = None \/ e.reset_at < clock
      n == IF fresh THEN 1 ELSE e.count + 1
  IN  /\ mem_state' = [mem_state EXCEPT ![i][k] =
           [count |-> n, reset_at |-> IF fresh THEN clock + Window ELSE e.reset_at]]
      /\ Decide(r, n, clock, i)

Begin(r, i, k) ==
  /\ pc[r] = "idle"
  /\ inst' = [inst EXCEPT ![r] = i]
  /\ key' = [key EXCEPT ![r] = k]

\* No redis_url: the whole of check runs without an await.
CheckInProcess(r, i, k) ==
  /\ i \notin RedisInstances
  /\ Begin(r, i, k)
  /\ CheckMem(r, i, k)
  /\ UNCHANGED <<clock, redis, count, mishap>>

\* INCR of a key that Redis does not hold, or holds no more, starts at 1 and
\* without an expiry.
Held(k) == redis[k] # None /\ (redis[k].reset_at = Never \/ redis[k].reset_at > clock)
NextCount(k) == IF Held(k) THEN redis[k].count + 1 ELSE 1
Incremented(k) ==
  [redis EXCEPT ![k] = [count |-> NextCount(k), reset_at |-> IF Held(k) THEN redis[k].reset_at ELSE Never]]

\* Slip: the expiry is asked for by the second request of a bucket.
IncrExpiresSecond(r, i, k) ==
  /\ i \in RedisInstances
  /\ Begin(r, i, k)
  /\ redis' = Incremented(k)
  /\ count' = [count EXCEPT ![r] = [n |-> NextCount(k), at |-> clock]]
  /\ \/ NextCount(k) = 2 /\ pc' = [pc EXCEPT ![r] = "expire"] /\ UNCHANGED decision
     \/ NextCount(k) # 2 /\ Decide(r, NextCount(k), clock, Redis)
  /\ UNCHANGED <<clock, mem_state, mishap>>

\* count = await r.incr(full_key): the first of a bucket goes on to give it an
\* expiry, the others decide at once.
Incr(r, i, k) ==
  /\ i \in RedisInstances
  /\ Begin(r, i, k)
  /\ redis' = Incremented(k)
  /\ count' = [count EXCEPT ![r] = [n |-> NextCount(k), at |-> clock]]
  /\ \/ NextCount(k) = 1 /\ pc' = [pc EXCEPT ![r] = "expire"] /\ UNCHANGED decision
     \/ NextCount(k) # 1 /\ Decide(r, NextCount(k), clock, Redis)
  /\ UNCHANGED <<clock, mem_state, mishap>>

\* The increment raises, applied or not.
IncrRaises(r, i, k) ==
  /\ i \in RedisInstances
  /\ Begin(r, i, k)
  /\ redis' \in {redis, Incremented(k)}
  /\ pc' = [pc EXCEPT ![r] = "fallback"]
  /\ mishap' = TRUE
  /\ UNCHANGED <<clock, mem_state, count, decision>>

Expiring(k) == IF Held(k) THEN [redis EXCEPT ![k].reset_at = clock + Window] ELSE redis

\* await r.expire(full_key, window_seconds)
Expire(r) ==
  /\ pc[r] = "expire"
  /\ redis' = Expiring(key[r])
  /\ Decide(r, count[r].n, count[r].at, Redis)
  /\ UNCHANGED <<clock, mem_state, inst, key, count, mishap>>

\* The expiry raises, applied or not: the request is counted a second time, in
\* process.
ExpireRaises(r) ==
  /\ pc[r] = "expire"
  /\ redis' \in {redis, Expiring(key[r])}
  /\ pc' = [pc EXCEPT ![r] = "fallback"]
  /\ mishap' = TRUE
  /\ UNCHANGED <<clock, mem_state, inst, key, count, decision>>

Fallback(r) ==
  /\ pc[r] = "fallback"
  /\ CheckMem(r, inst[r], key[r])
  /\ UNCHANGED <<clock, redis, inst, key, count, mishap>>

\* CancelledError is no Exception: nothing falls back, nobody is answered.
Cancel(r) ==
  /\ pc[r] = "expire"
  /\ pc' = [pc EXCEPT ![r] = "done"]
  /\ mishap' = TRUE
  /\ UNCHANGED <<clock, redis, mem_state, inst, key, count, decision>>

Tick ==
  /\ clock < MaxClock
  /\ clock' = clock + 1
  /\ UNCHANGED <<redis, mem_state, pc, inst, key, count, decision, mishap>>

Check(r) ==
  \E i \in Instances, k \in Keys : CheckInProcess(r, i, k) \/ Incr(r, i, k) \/ IncrRaises(r, i, k)

Next ==
  \/ \E r \in Requests : Check(r) \/ Expire(r) \/ ExpireRaises(r) \/ Fallback(r) \/ Cancel(r)
  \/ Tick

Spec == Init /\ [][Next]_vars

-----------------------------------------------------------------------------
\* The requests for a key that a counter admitted in a span of time.
Admitted(by, k, from, to) ==
  {r \in Requests : decision[r] # None /\ key[r] = k /\ decision[r].allowed
                    /\ decision[r].by = by /\ from <= decision[r].at /\ decision[r].at <= to}

\* Over any span of time as long as the window, wherever it begins, a counter
\* admits at most two buckets' worth of requests for a key, although requests
\* of several instances interleave, Redis comes and goes and a bucket's expiry
\* is set some time after it was opened (check and _check_mem, _core.py:88-112).
AdmissionBounded ==
  \A k \in Keys, t \in 0..clock, c \in Instances \cup {Redis} :
    Cardinality(Admitted(c, k, t, t + Window)) <= 2 * MaxRequests

\* Every counter in Redis has an expiry, or its first request is about to set
\* one: while no command raises and no request is cancelled, a bucket ends
\* (incr and expire, _core.py:106-108).
Ending(k) ==
  redis[k] # None /\ redis[k].reset_at = Never => \E r \in Requests : pc[r] = "expire" /\ key[r] = k

BucketEnds == mishap \/ \A k \in Keys : Ending(k)
=============================================================================

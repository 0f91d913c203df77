------------------------------ MODULE LazyOnce ------------------------------
(***************************************************************************)
(* What a process builds once, on first use, and hands to every request:    *)
(*   - the x402 and MPP servers (payment/lazy.py), behind an asyncio.Lock;  *)
(*   - the UCP signing key (load_ucp_signing_key_from_env,                  *)
(*     identity/ucp_jwks.py), behind a threading.Lock;                      *)
(*   - the Redis clients (_redis.py), behind a flag.                        *)
(*                                                                          *)
(* FastAPI, aiohttp and Sanic run every request on one event loop; Flask    *)
(* and Django bridge each request into a loop of its own on its own thread  *)
(* (handle_flask and handle_django, checkout.py).  A step is what a call    *)
(* does until another thread, or another coroutine, can be seen to run (a   *)
(* key is loaded without an await: on one loop the model lets more in       *)
(* between than the code).                                                  *)
(*                                                                          *)
(* asyncio.Lock is modelled from CPython 3.11: it binds itself to the loop  *)
(* of the first call that has to wait, and a waiter is woken by a callback  *)
(* that another thread leaves on its loop without waking the loop.  Which   *)
(* of several waiters is woken first is left open.                          *)
(***************************************************************************)
EXTENDS FiniteSets

CONSTANTS
  Calls,         \* calls of a getter, each by one request
  Getters,       \* what is built: one getter each
  AsyncGetters,  \* those with an asyncio.Lock
  RedisGetters,  \* those with a flag; the rest hold a threading.Lock
  Frames,        \* the frameworks the process may run on
  None

ASSUME LazyAssumption ==
  /\ AsyncGetters \subseteq Getters /\ RedisGetters \subseteq Getters \ AsyncGetters
  /\ Frames \subseteq {"fastapi", "aiohttp", "sanic", "flask", "django"}
  /\ None \notin Calls \cup Getters
  /\ Calls \cap {"raised", "wrong_loop", "cancelled"} = {}

VARIABLES
  frame,         \* the framework of this process
  pc,            \* call -> where it is
  getter,        \* call -> the getter it calls
  cache,         \* getter -> what it holds, named by the call that built it
  locked,        \* the getters whose lock is taken
  bound,         \* getter -> a call on the loop its lock is bound to, or None
  woken,         \* waiting call -> "no", "heard" by its loop, or "unheard"
  attempted,     \* the Redis getters whose flag is up
  got            \* call -> what it was given, or how it failed

lazyVars == <<frame, pc, getter, cache, locked, bound, woken, attempted, got>>

Failed == {"raised", "wrong_loop", "cancelled"}

LazyTypeOK ==
  /\ frame \in Frames
  /\ pc \in [Calls -> {"idle", "acquiring", "waiting", "holding", "connecting", "done"}]
  /\ getter \in [Calls -> Getters \cup {None}]
  /\ cache \in [Getters -> Calls \cup {None}]
  /\ locked \subseteq Getters
  /\ bound \in [Getters -> Calls \cup {None}]
  /\ woken \in [Calls -> {"no", "heard", "unheard"}]
  /\ attempted \subseteq Getters
  /\ got \in [Calls -> Calls \cup Failed \cup {None}]

LazyInit ==
  /\ frame \in Frames
  /\ pc = [c \in Calls |-> "idle"]
  /\ getter = [c \in Calls |-> None]
  /\ cache = [g \in Getters |-> None]
  /\ locked = {}
  /\ bound = [g \in Getters |-> None]
  /\ woken = [c \in Calls |-> "no"]
  /\ attempted = {}
  /\ got = [c \in Calls |-> None]

\* Every request on one loop, or each on a loop of its own.
OneLoop == frame \in {"fastapi", "aiohttp", "sanic"}
SameLoop(c, d) == OneLoop \/ c = d

Waiting(g) == {c \in Calls : pc[c] = "waiting" /\ getter[c] = g}

-----------------------------------------------------------------------------
(* The lock. *)

Done(c, x) ==
  /\ pc' = [pc EXCEPT ![c] = "done"]
  /\ got' = [got EXCEPT ![c] = x]

Take(g) == locked' = locked \cup {g}

\* _wake_up_first: the first waiter of ws is woken, unless that was done
\* before; across threads its loop may be asleep and never learn of it.
WakeUpFirst(c, ws) ==
  IF ws = {} \/ \E w \in ws : woken[w] # "no" THEN UNCHANGED woken
  ELSE \E w \in ws, h \in {"heard", "unheard"} :
         /\ SameLoop(c, w) => h = "heard"
         /\ woken' = [woken EXCEPT ![w] = h]

Release(c) ==
  LET g == getter[c] IN
  /\ locked' = locked \ {g}
  /\ IF g \in AsyncGetters THEN WakeUpFirst(c, Waiting(g)) ELSE UNCHANGED woken

-----------------------------------------------------------------------------
(* A getter with a lock. *)

\* The first look, outside the lock.
Look(c, g) ==
  /\ pc[c] = "idle" /\ g \notin RedisGetters
  /\ getter' = [getter EXCEPT ![c] = g]
  /\ \/ cache[g] # None /\ Done(c, cache[g])
     \/ cache[g] = None /\ pc' = [pc EXCEPT ![c] = "acquiring"] /\ UNCHANGED got
  /\ UNCHANGED <<frame, cache, locked, bound, woken, attempted>>

\* The lock is free, and nobody is before this call: an asyncio.Lock is not
\* free while somebody waits, awake or not.
Acquire(c) ==
  /\ pc[c] = "acquiring" /\ getter[c] \notin locked
  /\ getter[c] \in AsyncGetters => Waiting(getter[c]) = {}
  /\ Take(getter[c])
  /\ pc' = [pc EXCEPT ![c] = "holding"]
  /\ UNCHANGED <<frame, getter, cache, bound, woken, attempted, got>>

\* It is not: the call waits, and the lock is bound to its loop; a lock that
\* is bound to another loop raises.  (A thread blocked on a threading.Lock has
\* no step until Acquire is possible.)
Queue(c) ==
  LET g == getter[c] IN
  /\ pc[c] = "acquiring" /\ g \in AsyncGetters
  /\ g \in locked \/ Waiting(g) # {}
  /\ \/ /\ bound[g] = None \/ SameLoop(bound[g], c)
        /\ bound' = [bound EXCEPT ![g] = IF @ = None THEN c ELSE @]
        /\ pc' = [pc EXCEPT ![c] = "waiting"]
        /\ UNCHANGED got
     \/ /\ bound[g] # None /\ ~SameLoop(bound[g], c)
        /\ Done(c, "wrong_loop")
        /\ UNCHANGED bound
  /\ UNCHANGED <<frame, getter, cache, locked, woken, attempted>>

Resume(c) ==
  /\ pc[c] = "waiting" /\ woken[c] = "heard"
  /\ Take(getter[c])
  /\ woken' = [woken EXCEPT ![c] = "no"]
  /\ pc' = [pc EXCEPT ![c] = "holding"]
  /\ UNCHANGED <<frame, getter, cache, bound, attempted, got>>

\* The second look, under the lock, finds what another call built.
Recheck(c) ==
  /\ pc[c] = "holding" /\ cache[getter[c]] # None
  /\ Done(c, cache[getter[c]])
  /\ Release(c)
  /\ UNCHANGED <<frame, getter, cache, bound, attempted>>

\* Slip: no second look.
ConstructAgain(c) ==
  /\ pc[c] = "holding"
  /\ cache' = [cache EXCEPT ![getter[c]] = c]
  /\ Done(c, c)
  /\ Release(c)
  /\ UNCHANGED <<frame, getter, bound, attempted>>

\* It finds nothing: the call builds, and what it built is everybody's.
Construct(c) ==
  /\ pc[c] = "holding" /\ cache[getter[c]] = None
  /\ cache' = [cache EXCEPT ![getter[c]] = c]
  /\ Done(c, c)
  /\ Release(c)
  /\ UNCHANGED <<frame, getter, bound, attempted>>

\* Slip: the lock is given back only after a success.
ConstructRaisesLocked(c) ==
  /\ pc[c] = "holding" /\ cache[getter[c]] = None
  /\ Done(c, "raised")
  /\ UNCHANGED <<frame, getter, cache, locked, bound, woken, attempted>>

\* The construction raises: nothing is cached, and the lock is given back.
ConstructRaises(c) ==
  /\ pc[c] = "holding" /\ cache[getter[c]] = None
  /\ Done(c, "raised")
  /\ Release(c)
  /\ UNCHANGED <<frame, getter, cache, bound, attempted>>

\* The request is cancelled on the loop it shares: while it builds, or while
\* it waits, when a wakeup that had reached it is passed on.
CancelBuild(c) ==
  /\ OneLoop /\ pc[c] = "holding" /\ getter[c] \in AsyncGetters /\ cache[getter[c]] = None
  /\ Done(c, "cancelled")
  /\ Release(c)
  /\ UNCHANGED <<frame, getter, cache, bound, attempted>>

CancelWait(c) ==
  LET g == getter[c]
      others == Waiting(g) \ {c}
  IN
  /\ OneLoop /\ pc[c] = "waiting"
  /\ Done(c, "cancelled")
  /\ IF g \in locked \/ others = {} \/ woken[c] = "no" THEN woken' = [woken EXCEPT ![c] = "no"]
     ELSE \E w \in others : woken' = [woken EXCEPT ![c] = "no", ![w] = "heard"]
  /\ UNCHANGED <<frame, getter, cache, locked, bound, attempted>>

-----------------------------------------------------------------------------
(* A getter with a flag. *)

\* The first caller raises the flag and connects.  On one loop nobody is seen
\* to run until it has: there is nothing to wait for in between.
Attempt(c, g) ==
  /\ pc[c] = "idle" /\ g \in RedisGetters
  /\ OneLoop => \A d \in Calls : pc[d] # "connecting"
  /\ getter' = [getter EXCEPT ![c] = g]
  /\ \/ /\ g \notin attempted
        /\ attempted' = attempted \cup {g}
        /\ pc' = [pc EXCEPT ![c] = "connecting"]
        /\ UNCHANGED got
     \/ /\ g \in attempted
        /\ Done(c, cache[g])
        /\ UNCHANGED attempted
  /\ UNCHANGED <<frame, cache, locked, bound, woken>>

\* A client, or None for the life of the process: no URL, no library, or a
\* construction that failed.
Connect(c) ==
  /\ pc[c] = "connecting"
  /\ \E client \in {c, None} :
       /\ cache' = [cache EXCEPT ![getter[c]] = client]
       /\ Done(c, client)
  /\ UNCHANGED <<frame, getter, locked, bound, woken, attempted>>

-----------------------------------------------------------------------------
Advance(c) ==
  \/ Acquire(c) \/ Queue(c) \/ Resume(c) \/ Recheck(c) \/ Construct(c) \/ ConstructRaises(c)
  \/ Connect(c)

Cancel(c) == CancelBuild(c) \/ CancelWait(c)

LazyNext ==
  \E c \in Calls : Advance(c) \/ Cancel(c) \/ \E g \in Getters : Look(c, g) \/ Attempt(c, g)

\* A coroutine or thread that can go on is scheduled, and a construction ends;
\* nothing makes a request come, or be cancelled.
LazySpec == LazyInit /\ [][LazyNext]_lazyVars
LazyFairSpec == LazySpec /\ \A c \in Calls : WF_lazyVars(Advance(c))

-----------------------------------------------------------------------------
\* However many first callers there are, on whatever loops and threads, and
\* whichever constructions fail or are cancelled, whoever gets a server or a
\* key gets the one the process keeps; and on one loop the Redis client, or its
\* absence, is the same for all (lazy.py:63-69; ucp_jwks.py:666-668;
\* _redis.py:81-82).
OneInstance ==
  \A c \in Calls :
    /\ pc[c] = "done" /\ got[c] \in Calls => got[c] = cache[getter[c]]
    /\ pc[c] = "done" /\ getter[c] \in RedisGetters /\ OneLoop => got[c] = cache[getter[c]]

\* Every call returns or raises: wakeups of failed and cancelled holders reach
\* the next in line, for the coroutines of one loop and for threads behind a
\* threading.Lock.
EveryCallerAnswered ==
  \A c \in Calls :
    pc[c] # "idle" /\ (OneLoop \/ getter[c] \notin AsyncGetters) ~> pc[c] \in {"idle", "done"}

-----------------------------------------------------------------------------
(* What a source says and the code does not do; refuted by a run. *)

\* lazy.py:4-5: "the returned getter is safe to call from any number of
\* concurrent handlers": each of them gets the server, or what its own
\* construction raised.
SafeFromAnyHandler ==
  \A c \in Calls : pc[c] = "acquiring" ~> pc[c] = "done" /\ got[c] \in Calls \cup {"raised", "cancelled"}
=============================================================================

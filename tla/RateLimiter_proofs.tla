------------------------- MODULE RateLimiter_proofs -------------------------
(***************************************************************************)
(* Proofs about the rate limiter, for any instances, requests, keys and     *)
(* limits; then about the mounted one: what holds of any keys holds of those *)
(* a mount chooses, and a refusal is earned by those it cannot tell apart.  *)
(***************************************************************************)
EXTENDS RateLimitMount, FiniteSetTheorems, TLAPS

\* A request in progress knows its instance, its key and its count, and is not
\* decided.
RequestInv(r) ==
  /\ pc[r] \in {"expire", "fallback"} => inst[r] \in Instances /\ key[r] \in Keys
  /\ pc[r] # "done" => decision[r] = None
  /\ pc[r] = "expire" => count[r] # None /\ count[r].n = 1 /\ count[r].at <= clock

LimiterInv == TypeOK /\ \A r \in Requests : RequestInv(r)

\* A decision is a decision, and ends the request.
LEMMA DecideType ==
  ASSUME TypeOK, NEW r \in Requests, NEW n \in Nat, NEW at \in Nat,
         NEW by \in Instances \cup {Redis}, Decide(r, n, at, by)
  PROVE  /\ pc' = [pc EXCEPT ![r] = "done"]
         /\ pc' \in [Requests -> {"idle", "expire", "fallback", "done"}]
         /\ decision' \in [Requests -> Decision \cup {None}]
         /\ pc'[r] = "done" /\ \A s \in Requests \ {r} : pc'[s] = pc[s] /\ decision'[s] = decision[s]
  BY LimiterAssumption DEF TypeOK, Decide, Decision

\* The in-process check keeps the types of what it changes.
LEMMA CheckMemType ==
  ASSUME TypeOK, NEW r \in Requests, NEW i \in Instances, NEW k \in Keys, CheckMem(r, i, k)
  PROVE  /\ mem_state' \in [Instances -> [Keys -> Bucket \cup {None}]]
         /\ pc' = [pc EXCEPT ![r] = "done"]
         /\ pc' \in [Requests -> {"idle", "expire", "fallback", "done"}]
         /\ decision' \in [Requests -> Decision \cup {None}]
         /\ pc'[r] = "done" /\ \A s \in Requests \ {r} : pc'[s] = pc[s] /\ decision'[s] = decision[s]
<1> DEFINE e == mem_state[i][k]
           fresh == e = None \/ e.reset_at < clock
           n == IF fresh THEN 1 ELSE e.count + 1
           b == [count |-> n, reset_at |-> IF fresh THEN clock + Window ELSE e.reset_at]
<1>1. e \in Bucket \cup {None}
  BY DEF TypeOK
<1>2. n \in Nat /\ b \in Bucket
  BY <1>1, LimiterAssumption DEF TypeOK, Bucket, Never
<1>3. mem_state' = [mem_state EXCEPT ![i][k] = b] /\ Decide(r, n, clock, i)
  BY DEF CheckMem
<1> HIDE DEF e, fresh, n, b
<1>4. mem_state' \in [Instances -> [Keys -> Bucket \cup {None}]]
  BY <1>2, <1>3 DEF TypeOK
<1> QED
  BY <1>2, <1>3, <1>4, DecideType DEF TypeOK

\* A request of which nothing changes, but that it may be done, knows the same.
LEMMA RequestKept ==
  ASSUME TypeOK, NEW s \in Requests, RequestInv(s), clock \in Nat, clock' \in Nat, clock <= clock',
         inst'[s] = inst[s], key'[s] = key[s], count'[s] = count[s],
         pc'[s] = "done" \/ (pc'[s] = pc[s] /\ decision'[s] = decision[s])
  PROVE  RequestInv(s)'
  BY CountAssumption DEF TypeOK, RequestInv

\* An increment keeps a Redis key's type, and the others as they were.
LEMMA IncrementedType ==
  ASSUME TypeOK, NEW k \in Keys
  PROVE  /\ NextCount(k) \in Nat
         /\ Incremented(k) \in [Keys -> Bucket \cup {None}]
         /\ \A j \in Keys \ {k} : Incremented(k)[j] = redis[j]
         /\ Incremented(k)[k].reset_at = Never => NextCount(k) = 1 \/ (redis[k] # None /\ redis[k].reset_at = Never)
<1>1. redis[k] \in Bucket \cup {None}
  BY DEF TypeOK
<1>2. NextCount(k) \in Nat
  BY <1>1 DEF NextCount, Held, Bucket
<1> QED
  BY <1>1, <1>2 DEF TypeOK, Incremented, NextCount, Held, Bucket, Never

-----------------------------------------------------------------------------
\* The invariant holds before the first request.
LEMMA InitInv == Init => LimiterInv
<1> SUFFICES ASSUME Init PROVE LimiterInv
  OBVIOUS
<1>1. TypeOK
  BY DEF Init, TypeOK
<1> QED BY <1>1 DEF Init, LimiterInv, RequestInv

\* Every step keeps the types and what a request in progress knows.
LEMMA NextInv == LimiterInv /\ [Next]_vars => LimiterInv'
<1> SUFFICES ASSUME LimiterInv, [Next]_vars PROVE LimiterInv'
  OBVIOUS
<1> USE LimiterAssumption, BucketAssumption
<1>0. TypeOK /\ \A s \in Requests : RequestInv(s)
  BY DEF LimiterInv
<1>1. ASSUME NEW r \in Requests, NEW i \in Instances, NEW k \in Keys, CheckInProcess(r, i, k)
      PROVE  LimiterInv'
  <2>1. CheckMem(r, i, k) /\ Begin(r, i, k) /\ UNCHANGED <<clock, redis, count, mishap>>
    BY <1>1 DEF CheckInProcess
  <2>2. TypeOK'
    BY <1>0, <2>1, CheckMemType DEF TypeOK, Begin
  <2>3. ASSUME NEW s \in Requests PROVE RequestInv(s)'
    <3>1. CASE s = r
      BY <1>0, <2>1, <3>1, CheckMemType DEF RequestInv
    <3>2. CASE s # r
      BY <1>0, <2>1, <3>2, CheckMemType, RequestKept DEF TypeOK, Begin
    <3> QED BY <3>1, <3>2
  <2> QED BY <2>2, <2>3 DEF LimiterInv
<1>2. ASSUME NEW r \in Requests, NEW i \in Instances, NEW k \in Keys, Incr(r, i, k)
      PROVE  LimiterInv'
  <2> DEFINE n == NextCount(k)
  <2>1. n \in Nat /\ Incremented(k) \in [Keys -> Bucket \cup {None}]
    BY <1>0, IncrementedType
  <2>2. /\ Begin(r, i, k) /\ redis' = Incremented(k)
        /\ count' = [count EXCEPT ![r] = [n |-> n, at |-> clock]]
        /\ UNCHANGED <<clock, mem_state, mishap>>
    BY <1>2 DEF Incr
  <2>3. \/ n = 1 /\ pc' = [pc EXCEPT ![r] = "expire"] /\ UNCHANGED decision
        \/ Decide(r, n, clock, Redis)
    BY <1>2 DEF Incr
  <2> HIDE DEF n
  <2>4. /\ count' \in [Requests -> [n : Nat, at : Nat] \cup {None}]
        /\ count'[r] # None /\ count'[r].n = n /\ count'[r].at = clock
        /\ \A s \in Requests \ {r} : count'[s] = count[s]
    <3>1. [n |-> n, at |-> clock] \in [n : Nat, at : Nat]
      BY <1>0, <2>1 DEF TypeOK
    <3> QED BY <1>0, <2>2, <3>1, CountAssumption DEF TypeOK
  <2>5. CASE n = 1 /\ pc' = [pc EXCEPT ![r] = "expire"] /\ UNCHANGED decision
    <3>1. TypeOK'
      BY <1>0, <2>1, <2>2, <2>4, <2>5 DEF TypeOK, Begin
    <3>2. RequestInv(r)'
      BY <1>0, <2>2, <2>4, <2>5 DEF TypeOK, RequestInv, Begin
    <3>3. ASSUME NEW s \in Requests \ {r} PROVE RequestInv(s)'
      BY <1>0, <2>2, <2>4, <2>5, RequestKept DEF TypeOK, Begin
    <3> QED BY <3>1, <3>2, <3>3 DEF LimiterInv
  <2>6. CASE Decide(r, n, clock, Redis)
    <3>1. /\ pc' \in [Requests -> {"idle", "expire", "fallback", "done"}] /\ pc'[r] = "done"
          /\ decision' \in [Requests -> Decision \cup {None}]
          /\ \A s \in Requests \ {r} : pc'[s] = pc[s] /\ decision'[s] = decision[s]
      BY <1>0, <2>1, <2>6, DecideType DEF TypeOK
    <3>2. TypeOK'
      BY <1>0, <2>1, <2>2, <2>4, <3>1 DEF TypeOK, Begin
    <3>3. RequestInv(r)'
      BY <3>1 DEF RequestInv
    <3>4. ASSUME NEW s \in Requests \ {r} PROVE RequestInv(s)'
      BY <1>0, <2>2, <2>4, <3>1, RequestKept DEF TypeOK, Begin
    <3> QED BY <3>2, <3>3, <3>4 DEF LimiterInv
  <2> QED BY <2>3, <2>5, <2>6
<1>3. ASSUME NEW r \in Requests, NEW i \in Instances, NEW k \in Keys, IncrRaises(r, i, k)
      PROVE  LimiterInv'
  <2>1. TypeOK'
    BY <1>0, <1>3, IncrementedType DEF TypeOK, IncrRaises, Begin
  <2>2. RequestInv(r)'
    BY <1>0, <1>3 DEF TypeOK, RequestInv, IncrRaises, Begin
  <2>3. ASSUME NEW s \in Requests \ {r} PROVE RequestInv(s)'
    BY <1>0, <1>3, RequestKept DEF TypeOK, IncrRaises, Begin
  <2> QED BY <2>1, <2>2, <2>3 DEF LimiterInv
<1>4. ASSUME NEW r \in Requests, Expire(r) PROVE LimiterInv'
  <2>1. key[r] \in Keys /\ count[r].n \in Nat /\ count[r].at \in Nat
    BY <1>0, <1>4 DEF Expire, TypeOK, RequestInv
  <2>2. Expiring(key[r]) \in [Keys -> Bucket \cup {None}]
    BY <1>0, <2>1 DEF TypeOK, Expiring, Held, Bucket
  <2>3. Decide(r, count[r].n, count[r].at, Redis) /\ redis' = Expiring(key[r])
        /\ UNCHANGED <<clock, mem_state, inst, key, count, mishap>>
    BY <1>4 DEF Expire
  <2>4. /\ pc' \in [Requests -> {"idle", "expire", "fallback", "done"}] /\ pc'[r] = "done"
        /\ decision' \in [Requests -> Decision \cup {None}]
        /\ \A s \in Requests \ {r} : pc'[s] = pc[s] /\ decision'[s] = decision[s]
    BY <1>0, <2>1, <2>3, DecideType
  <2>5. TypeOK'
    BY <1>0, <2>1, <2>2, <2>3, <2>4 DEF TypeOK
  <2>6. ASSUME NEW s \in Requests PROVE RequestInv(s)'
    BY <1>0, <2>3, <2>4, RequestKept DEF TypeOK
  <2> QED BY <2>5, <2>6 DEF LimiterInv
<1>5. ASSUME NEW r \in Requests, ExpireRaises(r) PROVE LimiterInv'
  <2>1. key[r] \in Keys
    BY <1>0, <1>5 DEF ExpireRaises, RequestInv
  <2>2. Expiring(key[r]) \in [Keys -> Bucket \cup {None}]
    BY <1>0, <2>1 DEF TypeOK, Expiring, Held, Bucket
  <2>3. TypeOK'
    BY <1>0, <1>5, <2>2 DEF TypeOK, ExpireRaises
  <2>4. RequestInv(r)'
    BY <1>0, <1>5 DEF TypeOK, RequestInv, ExpireRaises
  <2>5. ASSUME NEW s \in Requests \ {r} PROVE RequestInv(s)'
    BY <1>0, <1>5, RequestKept DEF TypeOK, ExpireRaises
  <2> QED BY <2>3, <2>4, <2>5 DEF LimiterInv
<1>6. ASSUME NEW r \in Requests, Fallback(r) PROVE LimiterInv'
  <2>1. inst[r] \in Instances /\ key[r] \in Keys /\ CheckMem(r, inst[r], key[r])
        /\ UNCHANGED <<clock, redis, inst, key, count, mishap>>
    BY <1>0, <1>6 DEF Fallback, RequestInv
  <2>2. TypeOK'
    BY <1>0, <2>1, CheckMemType DEF TypeOK
  <2>3. ASSUME NEW s \in Requests PROVE RequestInv(s)'
    BY <1>0, <2>1, CheckMemType, RequestKept DEF TypeOK
  <2> QED BY <2>2, <2>3 DEF LimiterInv
<1>7. ASSUME NEW r \in Requests, Cancel(r) PROVE LimiterInv'
  <2>1. TypeOK'
    BY <1>0, <1>7 DEF TypeOK, Cancel
  <2>2. ASSUME NEW s \in Requests PROVE RequestInv(s)'
    BY <1>0, <1>7, RequestKept DEF TypeOK, Cancel
  <2> QED BY <2>1, <2>2 DEF LimiterInv
<1>8. CASE Tick \/ UNCHANGED vars
  <2>1. TypeOK'
    BY <1>0, <1>8 DEF TypeOK, Tick, vars
  <2>2. ASSUME NEW s \in Requests PROVE RequestInv(s)'
    BY <1>0, <1>8, RequestKept DEF TypeOK, Tick, vars
  <2> QED BY <2>1, <2>2 DEF LimiterInv
<1> QED BY <1>1, <1>2, <1>3, <1>4, <1>5, <1>6, <1>7, <1>8 DEF Next, Check

\* Every variable keeps its type, whatever fails or is cancelled.
THEOREM TypeCorrect == Spec => []TypeOK
<1>1. Init => LimiterInv
  BY InitInv
<1>2. LimiterInv /\ [Next]_vars => LimiterInv'
  BY NextInv
<1>3. LimiterInv => TypeOK
  BY DEF LimiterInv
<1> QED BY <1>1, <1>2, <1>3, PTL DEF Spec

-----------------------------------------------------------------------------
\* Short of a mishap a step leaves no bucket without an end: only the first
\* request of a bucket opens it, and it goes on to end it.
LEMMA BucketStep ==
  ASSUME LimiterInv, BucketEnds, [Next]_vars
  PROVE  BucketEnds'
<1> USE LimiterAssumption, BucketAssumption DEF LimiterInv, RequestInv, BucketEnds, Ending
<1>1. ASSUME NEW r \in Requests, NEW i \in Instances, NEW k \in Keys, CheckInProcess(r, i, k)
      PROVE  BucketEnds'
  BY <1>1 DEF TypeOK, CheckInProcess, CheckMem, Decide, Begin
<1>2. ASSUME NEW r \in Requests, NEW i \in Instances, NEW k \in Keys, Incr(r, i, k)
      PROVE  BucketEnds'
  <2> SUFFICES ASSUME ~mishap', NEW j \in Keys, redis'[j] # None, redis'[j].reset_at = Never
               PROVE  \E s \in Requests : pc'[s] = "expire" /\ key'[s] = j
    OBVIOUS
  <2>1. CASE j = k /\ NextCount(k) = 1
    BY <1>2, <2>1 DEF TypeOK, Incr, Begin
  <2>2. CASE j = k /\ NextCount(k) # 1
    <3>1. redis[k] # None /\ redis[k].reset_at = Never
      BY <1>2, <2>2, IncrementedType DEF TypeOK, Incr
    <3> QED BY <1>2, <2>2, <3>1 DEF TypeOK, Incr, Begin, Decide
  <2>3. CASE j # k
    <3>1. redis[j] = redis'[j]
      BY <1>2, <2>3, IncrementedType DEF TypeOK, Incr
    <3> QED BY <1>2, <3>1 DEF TypeOK, Incr, Begin, Decide
  <2> QED BY <2>1, <2>2, <2>3
<1>3. ASSUME NEW r \in Requests, Expire(r) PROVE BucketEnds'
  <2> SUFFICES ASSUME ~mishap', NEW j \in Keys, redis'[j] # None, redis'[j].reset_at = Never
               PROVE  \E s \in Requests : pc'[s] = "expire" /\ key'[s] = j
    OBVIOUS
  <2>1. redis[j] # None /\ redis[j].reset_at = Never /\ j # key[r]
    BY <1>3 DEF TypeOK, Expire, Expiring, Held, Bucket, Never
  <2>2. PICK s \in Requests : pc[s] = "expire" /\ key[s] = j
    BY <1>3, <2>1 DEF Expire
  <2> QED BY <1>3, <2>1, <2>2 DEF TypeOK, Expire, Decide
<1>4. ASSUME NEW r \in Requests, Fallback(r) PROVE BucketEnds'
  BY <1>4 DEF TypeOK, Fallback, CheckMem, Decide
<1>5. CASE Tick \/ UNCHANGED vars
  BY <1>5 DEF Tick, vars
<1> QED
  BY <1>1, <1>2, <1>3, <1>4, <1>5 DEF Next, Check, IncrRaises, ExpireRaises, Cancel

\* While no Redis command has raised and no request was cancelled, every
\* bucket of Redis has an end, or is about to be given one.
THEOREM BucketsEnd == Spec => []BucketEnds
<1>1. Init => LimiterInv /\ BucketEnds
  BY InitInv DEF Init, BucketEnds, Ending
<1>2. LimiterInv /\ BucketEnds /\ [Next]_vars => (LimiterInv /\ BucketEnds)'
  BY NextInv, BucketStep
<1> QED BY <1>1, <1>2, PTL DEF Spec

-----------------------------------------------------------------------------
(* How many requests a counter admits, over any span as long as its window.  *)
(* A span that can still grow meets the present bucket and at most one       *)
(* before it, since a bucket is opened no sooner than a window after the     *)
(* last one was.                                                             *)

\* Of a set of requests, those that an assignment of times puts into a span.
Between(T, f, from, to) == {r \in T : from <= f[r] /\ f[r] <= to}

\* What a counter admitted (T, at the times f), if its present bucket was
\* opened at o and has counted m requests.
Ledger(T, f, o, m) ==
  /\ \A t \in Int : Cardinality(Between(T, f, t, t + Window)) <= 2 * MaxRequests
  /\ LET since == {r \in T : o <= f[r]}
     IN  Cardinality(since) <= m /\ Cardinality(since) <= MaxRequests
  /\ \A t \in Int : o <= t + Window =>
       Cardinality({r \in T : t <= f[r] /\ f[r] < o}) <= MaxRequests

\* Nothing admitted is a sound ledger.
LEMMA LedgerEmpty ==
  ASSUME NEW f, NEW o \in Int
  PROVE  Ledger({}, f, o, 0)
<1>1. /\ \A t \in Int : Between({}, f, t, t + Window) = {}
      /\ {r \in {} : o <= f[r]} = {}
      /\ \A t \in Int : {r \in {} : t <= f[r] /\ f[r] < o} = {}
  BY DEF Between
<1> QED BY <1>1, FS_EmptySet, LimiterAssumption DEF Ledger

\* A ledger stays sound when entries are taken from it, or a request is counted
\* that is not admitted.
LEMMA LedgerLess ==
  ASSUME NEW T \in SUBSET Requests, NEW U \in SUBSET T, NEW f, NEW g, NEW o \in Int,
         NEW m \in Nat, NEW n \in Nat, m <= n, Ledger(T, f, o, m), \A r \in U : g[r] = f[r]
  PROVE  Ledger(U, g, o, n)
<1>1. ASSUME NEW A \in SUBSET T, NEW B \in SUBSET A
      PROVE  Cardinality(A) \in Nat /\ Cardinality(B) \in Nat /\ Cardinality(B) <= Cardinality(A)
  BY LimiterAssumption, FS_Subset, FS_CardinalityType
<1>2. ASSUME NEW t \in Int PROVE Cardinality(Between(U, g, t, t + Window)) <= 2 * MaxRequests
  <2> DEFINE A == Between(T, f, t, t + Window)
             B == Between(U, g, t, t + Window)
  <2>1. A \in SUBSET T /\ B \in SUBSET A
    BY DEF Between
  <2>2. Cardinality(A) <= 2 * MaxRequests
    BY DEF Ledger
  <2> HIDE DEF A, B
  <2>3. Cardinality(B) <= 2 * MaxRequests
    BY <1>1, <2>1, <2>2, LimiterAssumption
  <2> QED BY <2>3 DEF B
<1>3. Cardinality({r \in U : o <= g[r]}) <= n /\ Cardinality({r \in U : o <= g[r]}) <= MaxRequests
  <2> DEFINE A == {r \in T : o <= f[r]}
             B == {r \in U : o <= g[r]}
  <2>1. A \in SUBSET T /\ B \in SUBSET A
    OBVIOUS
  <2>2. Cardinality(A) <= m /\ Cardinality(A) <= MaxRequests
    BY DEF Ledger
  <2> HIDE DEF A, B
  <2>3. Cardinality(B) <= n /\ Cardinality(B) <= MaxRequests
    BY <1>1, <2>1, <2>2, LimiterAssumption
  <2> QED BY <2>3 DEF B
<1>4. ASSUME NEW t \in Int, o <= t + Window
      PROVE  Cardinality({r \in U : t <= g[r] /\ g[r] < o}) <= MaxRequests
  <2> DEFINE A == {r \in T : t <= f[r] /\ f[r] < o}
             B == {r \in U : t <= g[r] /\ g[r] < o}
  <2>1. A \in SUBSET T /\ B \in SUBSET A
    OBVIOUS
  <2>2. Cardinality(A) <= MaxRequests
    BY <1>4 DEF Ledger
  <2> HIDE DEF A, B
  <2>3. Cardinality(B) <= MaxRequests
    BY <1>1, <2>1, <2>2, LimiterAssumption
  <2> QED BY <2>3 DEF B
<1> QED BY <1>2, <1>3, <1>4 DEF Ledger

\* A new bucket may be opened when a window has passed since the last was, and
\* all that was admitted lies before: of the spans that still grow, none reaches
\* back beyond the bucket that ends.
LEMMA LedgerOpens ==
  ASSUME NEW T \in SUBSET Requests, NEW f, NEW o \in Int, NEW m \in Nat, NEW now \in Int,
         Ledger(T, f, o, m), o + Window <= now, \A r \in T : f[r] \in Int /\ f[r] < now
  PROVE  Ledger(T, f, now, 0)
<1>1. {r \in T : now <= f[r]} = {}
  OBVIOUS
<1>2. ASSUME NEW t \in Int, now <= t + Window
      PROVE  Cardinality({r \in T : t <= f[r] /\ f[r] < now}) <= MaxRequests
  <2> DEFINE A == {r \in T : o <= f[r]}
             B == {r \in T : t <= f[r] /\ f[r] < now}
  <2>1. A \in SUBSET Requests /\ B \in SUBSET A
    BY <1>2, LimiterAssumption
  <2>2. Cardinality(A) <= MaxRequests
    BY DEF Ledger
  <2> HIDE DEF A, B
  <2>3. IsFiniteSet(A)
    BY <2>1, LimiterAssumption, FS_Subset
  <2>4. Cardinality(A) \in Nat /\ Cardinality(B) \in Nat /\ Cardinality(B) <= Cardinality(A)
    BY <2>1, <2>3, FS_Subset, FS_CardinalityType
  <2>5. Cardinality(B) <= MaxRequests
    BY <2>2, <2>4, LimiterAssumption
  <2> QED BY <2>5 DEF B
<1>3. Cardinality({r \in T : now <= f[r]}) = 0
  BY <1>1, FS_EmptySet
<1>4. 0 <= MaxRequests
  BY LimiterAssumption
<1>5. \A t \in Int : Cardinality(Between(T, f, t, t + Window)) <= 2 * MaxRequests
  BY DEF Ledger
<1> QED BY <1>2, <1>3, <1>4, <1>5 DEF Ledger

\* A request that still fits into the present bucket may be admitted: a span
\* that holds it holds one bucket of those before, and this one.
LEMMA LedgerAdmits ==
  ASSUME NEW T \in SUBSET Requests, NEW f, NEW g, NEW o \in Int, NEW m \in Nat, NEW r \in Requests,
         Ledger(T, f, o, m), r \notin T, m < MaxRequests, g[r] \in Int, o <= g[r],
         \A q \in T : f[q] \in Int /\ g[q] = f[q]
  PROVE  Ledger(T \cup {r}, g, o, m + 1)
<1> DEFINE since == {q \in T : o <= f[q]}
           Before(t) == {q \in T : t <= f[q] /\ f[q] < o}
<1>1. IsFiniteSet(T) /\ IsFiniteSet(since) /\ Cardinality(since) \in Nat
  BY LimiterAssumption, FS_Subset, FS_CardinalityType
<1>2. Cardinality(since) <= m
  BY DEF Ledger
<1>3. /\ IsFiniteSet(since \cup {r}) /\ Cardinality(since \cup {r}) = Cardinality(since) + 1
      /\ Cardinality(since \cup {r}) <= m + 1 /\ Cardinality(since \cup {r}) <= MaxRequests
  <2> HIDE DEF since
  <2>1. r \notin since
    BY DEF since
  <2>2. IsFiniteSet(since \cup {r}) /\ Cardinality(since \cup {r}) = Cardinality(since) + 1
    BY <1>1, <2>1, FS_AddElement
  <2>3. MaxRequests \in Nat
    BY LimiterAssumption
  <2> QED BY <1>1, <1>2, <2>2, <2>3
<1>4. {q \in T \cup {r} : o <= g[q]} = since \cup {r}
  OBVIOUS
<1>5. ASSUME NEW t \in Int, o <= t + Window
      PROVE  /\ {q \in T \cup {r} : t <= g[q] /\ g[q] < o} = Before(t)
             /\ IsFiniteSet(Before(t)) /\ Cardinality(Before(t)) \in Nat
             /\ Cardinality(Before(t)) <= MaxRequests
  <2>1. {q \in T \cup {r} : t <= g[q] /\ g[q] < o} = Before(t)
    OBVIOUS
  <2>2. Cardinality(Before(t)) <= MaxRequests
    BY <1>5 DEF Ledger
  <2>3. Before(t) \in SUBSET T
    OBVIOUS
  <2> HIDE DEF Before
  <2>4. IsFiniteSet(Before(t)) /\ Cardinality(Before(t)) \in Nat
    BY <1>1, <2>3, FS_Subset, FS_CardinalityType
  <2> QED BY <2>1, <2>2, <2>4 DEF Before
<1>6. ASSUME NEW t \in Int
      PROVE  Cardinality(Between(T \cup {r}, g, t, t + Window)) <= 2 * MaxRequests
  <2> DEFINE B == Between(T \cup {r}, g, t, t + Window)
  <2>1. CASE t + Window < o
    <3>1. B = Between(T, f, t, t + Window)
      BY <2>1, LimiterAssumption DEF Between
    <3> QED BY <3>1 DEF Ledger
  <2>2. CASE o <= t + Window
    <3>1. B \in SUBSET (Before(t) \cup (since \cup {r}))
      BY DEF Between
    <3> DEFINE A == Before(t)
               S == since \cup {r}
    <3>2. IsFiniteSet(A) /\ Cardinality(A) \in Nat /\ Cardinality(A) <= MaxRequests
      BY <1>5, <2>2
    <3>3. IsFiniteSet(S) /\ Cardinality(S) <= MaxRequests
      BY <1>3
    <3>4. B \in SUBSET (A \cup S)
      BY <3>1
    <3> HIDE DEF A, S, B
    <3>5. /\ IsFiniteSet(A \cup S)
          /\ Cardinality(A \cup S) = Cardinality(A) + Cardinality(S) - Cardinality(A \cap S)
      BY <3>2, <3>3, FS_Union
    <3>6. Cardinality(A \cap S) \in Nat /\ Cardinality(S) \in Nat
      <4>1. IsFiniteSet(A \cap S)
        BY <3>2, FS_Subset
      <4> QED BY <3>3, <4>1, FS_CardinalityType
    <3>7. Cardinality(B) \in Nat /\ Cardinality(B) <= Cardinality(A \cup S)
      BY <3>4, <3>5, FS_Subset, FS_CardinalityType
    <3>8. Cardinality(A \cup S) \in Nat
      BY <3>5, FS_CardinalityType
    <3>9. Cardinality(B) <= 2 * MaxRequests
      BY <3>2, <3>3, <3>5, <3>6, <3>7, <3>8, LimiterAssumption
    <3> QED BY <3>9 DEF B
  <2> QED BY <2>1, <2>2, LimiterAssumption
<1> QED BY <1>3, <1>4, <1>5, <1>6 DEF Ledger

\* When a request was counted, as far as it is admitted or about to be.
When == [r \in Requests |-> IF pc[r] = "expire" THEN count[r].at
                            ELSE IF decision[r] # None THEN decision[r].at ELSE 0]

\* The requests for a key that a counter admitted, or is about to.
Taken(c, k) ==
  {r \in Requests : /\ key[r] = k
                    /\ \/ decision[r] # None /\ decision[r].allowed /\ decision[r].by = c
                       \/ c = Redis /\ pc[r] = "expire"}

Counter(c, k) == IF c = Redis THEN redis[k] ELSE mem_state[c][k]

\* Every counter's bucket was opened at some time, from which on it counts; it
\* ends a window later or more, and admits nothing when it has.
Book(c, k) ==
  LET b == Counter(c, k)
  IN  IF b = None THEN Taken(c, k) = {}
      ELSE /\ \E o \in Int : /\ o <= clock
                             /\ Ledger(Taken(c, k), When, o, b.count)
                             /\ b.reset_at # Never => o + Window <= b.reset_at
           /\ \A r \in Taken(c, k) : /\ When[r] <= clock
                                     /\ b.reset_at # Never => When[r] <= b.reset_at
                                     /\ b.reset_at # Never /\ c = Redis => When[r] < b.reset_at
           /\ c # Redis => b.reset_at # Never

BookInv == LimiterInv /\ \A c \in Instances \cup {Redis}, k \in Keys : Book(c, k)

LEMMA CounterType ==
  ASSUME TypeOK, NEW c \in Instances \cup {Redis}, NEW k \in Keys
  PROVE  Counter(c, k) \in Bucket \cup {None}
  BY LimiterAssumption DEF TypeOK, Counter

LEMMA WhenType ==
  ASSUME LimiterInv, NEW q \in Requests
  PROVE  When[q] \in Nat
<1>1. decision[q] # None => decision[q].at \in Nat
  BY DEF LimiterInv, TypeOK, Decision
<1>2. pc[q] = "expire" => count[q].at \in Nat
  BY DEF LimiterInv, RequestInv, TypeOK
<1> QED BY <1>1, <1>2 DEF When

\* A step that is one request's leaves the others in the books as they were.
LEMMA OthersTaken ==
  ASSUME NEW r \in Requests,
         \A s \in Requests \ {r} : /\ pc'[s] = pc[s] /\ key'[s] = key[s]
                                   /\ count'[s] = count[s] /\ decision'[s] = decision[s]
  PROVE  /\ \A c, k : Taken(c, k)' \ {r} = Taken(c, k) \ {r}
         /\ \A q \in Requests \ {r} : When'[q] = When[q]
<1>1. ASSUME NEW c, NEW k PROVE Taken(c, k)' \ {r} = Taken(c, k) \ {r}
  BY DEF Taken
<1>2. ASSUME NEW q \in Requests \ {r} PROVE When'[q] = When[q]
  BY DEF When
<1> QED BY <1>1, <1>2

\* A book stays one when entries are taken from it, time goes by, the bucket
\* counts without admitting, or its end is put off.
LEMMA BookKept ==
  ASSUME LimiterInv, LimiterInv', NEW c \in Instances \cup {Redis}, NEW k \in Keys, Book(c, k),
         Taken(c, k)' \subseteq Taken(c, k), \A q \in Taken(c, k)' : When'[q] = When[q],
         clock <= clock', (Counter(c, k) = None) <=> (Counter(c, k)' = None),
         Counter(c, k) # None =>
           /\ Counter(c, k).count <= Counter(c, k)'.count
           /\ \/ Counter(c, k)'.reset_at = Counter(c, k).reset_at
              \/ c = Redis /\ Counter(c, k)'.reset_at = clock' + Window
  PROVE  Book(c, k)'
<1> DEFINE b == Counter(c, k)
           d == Counter(c, k)'
           T == Taken(c, k)
           U == Taken(c, k)'
<1>1. CASE b = None
  BY <1>1 DEF Book
<1>2. CASE b # None
  <2>1. b \in Bucket /\ d \in Bucket /\ clock \in Nat /\ clock' \in Nat
    <3>1. TypeOK /\ TypeOK'
      BY DEF LimiterInv
    <3>2. b \in Bucket \cup {None}
      BY <3>1, CounterType
    <3>3. d \in Bucket \cup {None}
      BY <3>1, LimiterAssumption DEF TypeOK, Counter
    <3> QED BY <1>2, <3>1, <3>2, <3>3 DEF TypeOK
  <2>2. PICK o \in Int : o <= clock /\ Ledger(T, When, o, b.count) /\ (b.reset_at # Never => o + Window <= b.reset_at)
    BY <1>2 DEF Book
  <2>3. T \in SUBSET Requests /\ U \in SUBSET T
    BY DEF Taken
  <2>4. \A q \in U : When'[q] = When[q]
    OBVIOUS
  <2>5. b.count \in Nat /\ d.count \in Nat /\ b.count <= d.count
    BY <1>2, <2>1 DEF Bucket
  <2>6. Ledger(U, When', o, d.count)
    <3> HIDE DEF b, d, T, U
    <3> QED BY <2>2, <2>3, <2>4, <2>5, LedgerLess
  <2>7. d.reset_at = b.reset_at \/ (c = Redis /\ d.reset_at = clock' + Window)
    BY <1>2
  <2>8. \A q \in T : /\ When[q] \in Nat /\ When[q] <= clock /\ (b.reset_at # Never => When[q] <= b.reset_at)
                     /\ b.reset_at # Never /\ c = Redis => When[q] < b.reset_at
    BY <1>2, <2>3, WhenType DEF Book
  <2>9. c # Redis => b.reset_at # Never
    BY <1>2 DEF Book
  <2>10. d # None
    BY <1>2
  <2> HIDE DEF b, d, T, U
  <2>11. o <= clock' /\ (d.reset_at # Never => o + Window <= d.reset_at)
    BY <2>1, <2>2, <2>7, LimiterAssumption
  <2>12. \A q \in U : /\ When'[q] <= clock' /\ (d.reset_at # Never => When'[q] <= d.reset_at)
                      /\ d.reset_at # Never /\ c = Redis => When'[q] < d.reset_at
    BY <2>1, <2>3, <2>4, <2>7, <2>8, LimiterAssumption
  <2>13. c # Redis => d.reset_at # Never
    BY <2>7, <2>9
  <2> QED BY <2>6, <2>10, <2>11, <2>12, <2>13 DEF Book, b, d, T, U
<1> QED BY <1>1, <1>2

\* When a counter has no bucket, or its bucket has ended, the books allow a new
\* one to be opened.
LEMMA BookOpens ==
  ASSUME LimiterInv, NEW c \in Instances \cup {Redis}, NEW k \in Keys, Book(c, k),
         \/ Counter(c, k) = None
         \/ c = Redis /\ Counter(c, k).reset_at # Never /\ Counter(c, k).reset_at <= clock
         \/ c # Redis /\ Counter(c, k).reset_at < clock
  PROVE  /\ Ledger(Taken(c, k), When, clock, 0)
         /\ \A q \in Taken(c, k) : When[q] < clock
<1> DEFINE b == Counter(c, k)
           T == Taken(c, k)
<1>0. clock \in Nat
  BY DEF LimiterInv, TypeOK
<1>1. CASE b = None
  <2>1. T = {}
    BY <1>1 DEF Book
  <2> QED BY <1>0, <2>1, LedgerEmpty
<1>2. CASE b # None
  <2>1. b \in Bucket
    BY <1>2, CounterType DEF LimiterInv
  <2>2. PICK o \in Int : o <= clock /\ Ledger(T, When, o, b.count) /\ (b.reset_at # Never => o + Window <= b.reset_at)
    BY <1>2 DEF Book
  <2>3. /\ \A q \in T : When[q] \in Nat /\ When[q] <= clock /\ (b.reset_at # Never => When[q] <= b.reset_at)
                        /\ (b.reset_at # Never /\ c = Redis => When[q] < b.reset_at)
        /\ c # Redis => b.reset_at # Never
    BY <1>2, WhenType DEF Book, Taken
  <2>4. T \in SUBSET Requests /\ b.count \in Nat
    BY <2>1 DEF Taken, Bucket
  <2>5. b.reset_at # Never /\ b.reset_at \in Nat /\ b.reset_at <= clock
    BY <1>0, <1>2, <2>1, <2>3 DEF Bucket, Never
  <2> HIDE DEF b, T
  <2>6. o + Window <= clock /\ \A q \in T : When[q] \in Int /\ When[q] < clock
    <3>1. CASE c = Redis
      BY <1>0, <2>2, <2>3, <2>5, <3>1, LimiterAssumption
    <3>2. CASE c # Redis
      <4>1. b.reset_at < clock
        BY <1>2, <3>2 DEF b
      <4> QED BY <1>0, <2>2, <2>3, <2>5, <4>1, LimiterAssumption
    <3> QED BY <3>1, <3>2
  <2>7. Ledger(T, When, clock, 0)
    BY <1>0, <2>2, <2>4, <2>6, LedgerOpens
  <2> QED BY <2>6, <2>7 DEF T
<1> QED BY <1>1, <1>2

\* The next request of a bucket is entered in the book, if the bucket has room.
LEMMA BookCounts ==
  ASSUME LimiterInv, LimiterInv', NEW c \in Instances \cup {Redis}, NEW k \in Keys,
         NEW r \in Requests, r \notin Taken(c, k), NEW o \in Int, NEW m \in Nat, o <= clock,
         Ledger(Taken(c, k), When, o, m), clock' = clock,
         Taken(c, k)' = IF m < MaxRequests THEN Taken(c, k) \cup {r} ELSE Taken(c, k),
         m < MaxRequests => When'[r] = clock,
         \A q \in Taken(c, k) : When'[q] = When[q] /\ When[q] <= clock,
         Counter(c, k)' # None, Counter(c, k)'.count = m + 1,
         Counter(c, k)'.reset_at # Never =>
           /\ o + Window <= Counter(c, k)'.reset_at /\ clock <= Counter(c, k)'.reset_at
           /\ c = Redis => clock < Counter(c, k)'.reset_at,
         c # Redis => Counter(c, k)'.reset_at # Never
  PROVE  Book(c, k)'
<1> DEFINE d == Counter(c, k)'
           T == Taken(c, k)
           U == Taken(c, k)'
<1>1. /\ T \in SUBSET Requests /\ clock \in Nat
      /\ \A q \in T : When[q] \in Nat
  BY WhenType DEF Taken, LimiterInv, TypeOK
<1>2. d \in Bucket /\ d # None
  BY LimiterAssumption DEF LimiterInv, TypeOK, Counter
<1>3. U = IF m < MaxRequests THEN T \cup {r} ELSE T
  OBVIOUS
<1>4. /\ m < MaxRequests => When'[r] = clock
      /\ \A q \in T : When'[q] = When[q] /\ When[q] <= clock
      /\ r \notin T /\ Ledger(T, When, o, m)
  OBVIOUS
<1>5. /\ d.count = m + 1 /\ d.reset_at \in Nat \cup {Never}
      /\ d.reset_at # Never => o + Window <= d.reset_at /\ clock <= d.reset_at /\ (c = Redis => clock < d.reset_at)
      /\ c # Redis => d.reset_at # Never
  BY <1>2 DEF Bucket
<1> HIDE DEF d, T, U
<1>6. Ledger(U, When', o, m + 1)
  <2>1. CASE m < MaxRequests
    <3>1. When'[r] \in Int /\ o <= When'[r]
      BY <1>1, <1>4, <2>1
    <3>2. \A q \in T : When[q] \in Int /\ When'[q] = When[q]
      BY <1>1, <1>4
    <3>3. Ledger(T \cup {r}, When', o, m + 1)
      BY <1>1, <1>4, <2>1, <3>1, <3>2, LedgerAdmits
    <3> QED BY <1>3, <2>1, <3>3
  <2>2. CASE ~(m < MaxRequests)
    <3>1. T \in SUBSET T /\ m + 1 \in Nat /\ m <= m + 1
      OBVIOUS
    <3>2. Ledger(T, When', o, m + 1)
      BY <1>1, <1>4, <3>1, LedgerLess
    <3> QED BY <1>3, <2>2, <3>2
  <2> QED BY <2>1, <2>2
<1>7. \A q \in U : /\ When'[q] <= clock
                   /\ d.reset_at # Never => When'[q] <= d.reset_at
                   /\ d.reset_at # Never /\ c = Redis => When'[q] < d.reset_at
  <2>1. \A q \in U : When'[q] \in Nat /\ When'[q] <= clock
    BY <1>1, <1>3, <1>4
  <2> QED BY <1>1, <1>5, <2>1 DEF Never
<1> QED BY <1>2, <1>5, <1>6, <1>7 DEF Book, d, T, U

\* What the in-process check does to the books, for a request of key k.
LEMMA CheckMemBooks ==
  ASSUME BookInv, LimiterInv', NEW r \in Requests, NEW i \in Instances, NEW k \in Keys,
         pc[r] \in {"idle", "fallback"}, CheckMem(r, i, k), key'[r] = k,
         \A s \in Requests \ {r} : key'[s] = key[s],
         UNCHANGED <<clock, redis, count>>
  PROVE  BookInv'
<1> DEFINE e == mem_state[i][k]
           fresh == e = None \/ e.reset_at < clock
           n == IF fresh THEN 1 ELSE e.count + 1
           x == IF fresh THEN clock + Window ELSE e.reset_at
<1>1. LimiterInv /\ TypeOK /\ RequestInv(r) /\ \A c \in Instances \cup {Redis}, j \in Keys : Book(c, j)
  BY DEF BookInv, LimiterInv
<1>2. e \in Bucket \cup {None} /\ clock \in Nat
  BY <1>1 DEF TypeOK
<1>3. n \in Nat \ {0}
  BY <1>2 DEF Bucket
<1>4. /\ mem_state' = [mem_state EXCEPT ![i][k] = [count |-> n, reset_at |-> x]]
      /\ Decide(r, n, clock, i)
  BY DEF CheckMem
<1>5. Counter(i, k) = e /\ Counter(i, k)' = [count |-> n, reset_at |-> x]
  BY <1>1, <1>4, LimiterAssumption DEF TypeOK, Counter
<1>6. ASSUME NEW c \in Instances \cup {Redis}, NEW j \in Keys, c # i \/ j # k
      PROVE  Counter(c, j)' = Counter(c, j)
  BY <1>1, <1>4, <1>6, LimiterAssumption DEF TypeOK, Counter
<1> HIDE DEF e, n, x, fresh
<1>7. /\ decision' = [decision EXCEPT ![r] = decision'[r]] /\ pc' = [pc EXCEPT ![r] = "done"]
      /\ decision'[r] # None /\ decision'[r].allowed = (n <= MaxRequests)
      /\ decision'[r].at = clock /\ decision'[r].by = i
  <2>1. decision'[r] = [allowed |-> n <= MaxRequests,
                        remaining |-> IF n < MaxRequests THEN MaxRequests - n ELSE 0,
                        at |-> clock, by |-> i]
    BY <1>1, <1>4 DEF TypeOK, Decide
  <2>2. decision'[r] \in Decision
    BY <1>2, <1>3, <2>1, LimiterAssumption DEF Decision
  <2> QED BY <1>1, <1>4, <2>1, <2>2, BucketAssumption DEF Decide, TypeOK
<1>8. /\ \A c, j : Taken(c, j)' \ {r} = Taken(c, j) \ {r}
      /\ \A q \in Requests \ {r} : When'[q] = When[q]
  BY <1>1, <1>7, OthersTaken DEF TypeOK
<1>9. pc'[r] = "done" /\ \A c, j : r \notin Taken(c, j)
  BY <1>1, <1>7 DEF TypeOK, Taken, RequestInv
<1>10. When'[r] = clock /\ \A c, j : r \in Taken(c, j)' <=> c = i /\ j = k /\ n <= MaxRequests
  BY <1>7, <1>9, LimiterAssumption DEF When, Taken
<1>11. ASSUME NEW c \in Instances \cup {Redis}, NEW j \in Keys, c # i \/ j # k
       PROVE  Book(c, j)'
  <2>1. Taken(c, j)' = Taken(c, j) /\ Counter(c, j)' = Counter(c, j)
    BY <1>6, <1>8, <1>9, <1>10, <1>11
  <2>2. \A q \in Taken(c, j)' : When'[q] = When[q]
    BY <1>8, <1>9, <2>1 DEF Taken
  <2>3. Counter(c, j) # None => Counter(c, j).count <= Counter(c, j)'.count
    BY <1>1, <2>1, CounterType DEF Bucket
  <2>4. clock <= clock'
    BY <1>2
  <2> QED BY <1>1, <2>1, <2>2, <2>3, <2>4, BookKept
<1>12. Book(i, k)'
  <2>1. PICK o \in Int, m \in Nat :
          /\ o <= clock /\ Ledger(Taken(i, k), When, o, m) /\ n = m + 1 /\ x # Never /\ o + Window <= x
          /\ clock <= x /\ \A q \in Taken(i, k) : When[q] <= clock
    <3>1. CASE fresh
      <4>1. Ledger(Taken(i, k), When, clock, 0) /\ \A q \in Taken(i, k) : When[q] < clock
        BY <1>1, <1>5, <3>1, LimiterAssumption, BookOpens DEF fresh
      <4>2. n = 0 + 1 /\ x = clock + Window
        BY <3>1 DEF n, x
      <4>3. \A q \in Taken(i, k) : When[q] \in Nat
        BY <1>1, WhenType DEF Taken
      <4>4. x # Never /\ clock <= x /\ clock + Window <= x
        BY <1>2, <4>2, LimiterAssumption DEF Never
      <4> QED BY <1>2, <4>1, <4>2, <4>3, <4>4
    <3>2. CASE ~fresh
      <4>1. e # None /\ e \in Bucket /\ ~(e.reset_at < clock) /\ n = e.count + 1 /\ x = e.reset_at
        BY <1>2, <3>2 DEF fresh, n, x
      <4>2. PICK o \in Int : /\ o <= clock /\ Ledger(Taken(i, k), When, o, e.count)
                             /\ e.reset_at # Never => o + Window <= e.reset_at
        BY <1>1, <1>5, <4>1 DEF Book
      <4>3. e.reset_at # Never /\ \A q \in Taken(i, k) : When[q] <= clock
        BY <1>1, <1>5, <4>1, LimiterAssumption DEF Book
      <4>4. e.count \in Nat /\ clock <= e.reset_at
        BY <1>2, <4>1, <4>3 DEF Bucket
      <4> QED BY <4>1, <4>2, <4>3, <4>4
    <3> QED BY <3>1, <3>2
  <2>2. n <= MaxRequests <=> m < MaxRequests
    BY <2>1, LimiterAssumption
  <2>3. Taken(i, k)' = IF m < MaxRequests THEN Taken(i, k) \cup {r} ELSE Taken(i, k)
    BY <1>8, <1>9, <1>10, <2>2
  <2>4. \A q \in Taken(i, k) : When'[q] = When[q]
    BY <1>8, <1>9 DEF Taken
  <2>5. /\ Counter(i, k)' # None /\ Counter(i, k)'.count = m + 1 /\ Counter(i, k)'.reset_at = x
    <3>1. Counter(i, k)' \in Bucket
      <4>1. x \in Nat \cup {Never}
        BY <1>2, LimiterAssumption DEF x, fresh, Bucket
      <4> QED BY <1>3, <1>5, <4>1 DEF Bucket
    <3> QED BY <1>5, <2>1, <3>1, BucketAssumption
  <2>6. i # Redis
    BY LimiterAssumption
  <2> QED BY <1>1, <1>9, <1>10, <2>1, <2>3, <2>4, <2>5, <2>6, BookCounts
<1> QED BY <1>11, <1>12 DEF BookInv

\* An increment counts in the bucket that Redis holds, or opens one.
LEMMA IncrementedCounter ==
  ASSUME LimiterInv, NEW k \in Keys, Book(Redis, k)
  PROVE  /\ Incremented(k)[k] = [count |-> NextCount(k),
                                 reset_at |-> IF Held(k) THEN redis[k].reset_at ELSE Never]
         /\ Incremented(k)[k] # None
         /\ \E o \in Int, m \in Nat :
              /\ o <= clock /\ Ledger(Taken(Redis, k), When, o, m) /\ NextCount(k) = m + 1
              /\ Held(k) /\ redis[k].reset_at # Never =>
                   o + Window <= redis[k].reset_at /\ clock < redis[k].reset_at
              /\ \A q \in Taken(Redis, k) : When[q] <= clock
<1>1. TypeOK /\ clock \in Nat /\ redis[k] \in Bucket \cup {None} /\ Counter(Redis, k) = redis[k]
  BY DEF LimiterInv, TypeOK, Counter
<1>2. Incremented(k)[k] = [count |-> NextCount(k),
                           reset_at |-> IF Held(k) THEN redis[k].reset_at ELSE Never]
  BY <1>1 DEF Incremented, TypeOK
<1>3. Incremented(k)[k] # None
  <2>1. NextCount(k) \in Nat
    BY <1>1, IncrementedType
  <2>2. (IF Held(k) THEN redis[k].reset_at ELSE Never) \in Nat \cup {Never}
    BY <1>1 DEF Held, Bucket
  <2>3. Incremented(k)[k] \in Bucket
    BY <1>2, <2>1, <2>2 DEF Bucket
  <2> QED BY <2>3, BucketAssumption
<1>4. CASE Held(k)
  <2>1. redis[k] # None /\ redis[k] \in Bucket /\ NextCount(k) = redis[k].count + 1
    BY <1>1, <1>4 DEF Held, NextCount
  <2>2. PICK o \in Int : /\ o <= clock /\ Ledger(Taken(Redis, k), When, o, redis[k].count)
                         /\ redis[k].reset_at # Never => o + Window <= redis[k].reset_at
    BY <1>1, <2>1 DEF Book
  <2>3. \A q \in Taken(Redis, k) : When[q] <= clock
    BY <1>1, <2>1 DEF Book
  <2>4. redis[k].count \in Nat /\ (redis[k].reset_at # Never => clock < redis[k].reset_at)
    BY <1>1, <1>4, <2>1 DEF Held, Bucket, Never
  <2> QED BY <1>2, <1>3, <2>1, <2>2, <2>3, <2>4
<1>5. CASE ~Held(k)
  <2>1. \/ Counter(Redis, k) = None
        \/ Counter(Redis, k).reset_at # Never /\ Counter(Redis, k).reset_at <= clock
    BY <1>1, <1>5 DEF Held, Bucket, Never
  <2>2. Ledger(Taken(Redis, k), When, clock, 0) /\ \A q \in Taken(Redis, k) : When[q] < clock
    BY <2>1, BookOpens
  <2>3. \A q \in Taken(Redis, k) : When[q] \in Nat
    BY WhenType DEF Taken
  <2>4. NextCount(k) = 0 + 1
    BY <1>5 DEF NextCount
  <2> QED BY <1>1, <1>2, <1>3, <1>5, <2>2, <2>3, <2>4
<1> QED BY <1>4, <1>5

\* The books of the counters that a step does not touch.
LEMMA BookUntouched ==
  ASSUME LimiterInv, LimiterInv', NEW c \in Instances \cup {Redis}, NEW k \in Keys, Book(c, k),
         Taken(c, k)' \subseteq Taken(c, k), \A q \in Taken(c, k)' : When'[q] = When[q],
         Counter(c, k)' = Counter(c, k), clock <= clock'
  PROVE  Book(c, k)'
<1>1. Counter(c, k) # None => Counter(c, k).count <= Counter(c, k)'.count
  BY CounterType DEF LimiterInv, Bucket
<1> QED BY <1>1, BookKept

LEMMA IncrBooks ==
  ASSUME BookInv, LimiterInv', NEW r \in Requests, NEW i \in Instances, NEW k \in Keys, Incr(r, i, k)
  PROVE  BookInv'
<1> DEFINE n == NextCount(k)
<1>1. LimiterInv /\ TypeOK /\ RequestInv(r) /\ \A c \in Instances \cup {Redis}, j \in Keys : Book(c, j)
  BY DEF BookInv, LimiterInv
<1>2. /\ pc[r] = "idle" /\ key' = [key EXCEPT ![r] = k] /\ redis' = Incremented(k)
      /\ count' = [count EXCEPT ![r] = [n |-> n, at |-> clock]]
      /\ UNCHANGED <<clock, mem_state>>
  BY DEF Incr, Begin
<1>3. \/ n = 1 /\ pc' = [pc EXCEPT ![r] = "expire"] /\ UNCHANGED decision
      \/ Decide(r, n, clock, Redis)
  BY DEF Incr
<1>4. n \in Nat /\ clock \in Nat /\ \A j \in Keys \ {k} : redis'[j] = redis[j]
  BY <1>1, <1>2, IncrementedType DEF TypeOK
<1> HIDE DEF n
<1>5. /\ \A s \in Requests \ {r} : /\ pc'[s] = pc[s] /\ key'[s] = key[s]
                                   /\ count'[s] = count[s] /\ decision'[s] = decision[s]
      /\ key'[r] = k /\ count'[r].at = clock /\ decision[r] = None
      /\ \A c, j : r \notin Taken(c, j)
  BY <1>1, <1>2, <1>3 DEF TypeOK, Decide, RequestInv, Taken
<1>6. When'[r] = clock /\ \A c, j : r \in Taken(c, j)' <=> c = Redis /\ j = k /\ n <= MaxRequests
  <2>1. CASE n = 1 /\ pc' = [pc EXCEPT ![r] = "expire"] /\ UNCHANGED decision
    <3>1. pc'[r] = "expire" /\ decision'[r] = None /\ n <= MaxRequests
      BY <1>1, <1>5, <2>1, LimiterAssumption DEF TypeOK
    <3> QED BY <1>5, <3>1 DEF When, Taken
  <2>2. CASE Decide(r, n, clock, Redis)
    <3>1. pc'[r] = "done" /\ decision'[r] # None /\ decision'[r].allowed = (n <= MaxRequests)
          /\ decision'[r].at = clock /\ decision'[r].by = Redis
      <4>1. decision'[r] = [allowed |-> n <= MaxRequests,
                            remaining |-> IF n < MaxRequests THEN MaxRequests - n ELSE 0,
                            at |-> clock, by |-> Redis]
        BY <1>1, <2>2 DEF TypeOK, Decide
      <4>2. decision'[r] \in Decision
        BY <1>4, <4>1, LimiterAssumption DEF Decision
      <4> QED BY <1>1, <2>2, <4>1, <4>2, BucketAssumption DEF Decide, TypeOK
    <3> QED BY <1>5, <3>1 DEF When, Taken
  <2> QED BY <1>3, <2>1, <2>2
<1>7. /\ \A c, j : Taken(c, j)' \ {r} = Taken(c, j) \ {r}
      /\ \A q \in Requests \ {r} : When'[q] = When[q]
  BY <1>5, OthersTaken
<1>8. ASSUME NEW c \in Instances \cup {Redis}, NEW j \in Keys, c # Redis \/ j # k
      PROVE  Book(c, j)'
  <2>1. Taken(c, j)' = Taken(c, j) /\ Counter(c, j)' = Counter(c, j)
    BY <1>2, <1>4, <1>5, <1>6, <1>7, <1>8 DEF Counter
  <2>2. \A q \in Taken(c, j)' : When'[q] = When[q]
    BY <1>5, <1>7, <2>1 DEF Taken
  <2> QED BY <1>1, <1>2, <1>4, <2>1, <2>2, BookUntouched
<1>9. Book(Redis, k)'
  <2>1. /\ redis'[k] = [count |-> n, reset_at |-> IF Held(k) THEN redis[k].reset_at ELSE Never]
        /\ redis'[k] # None /\ Counter(Redis, k)' = redis'[k]
    BY <1>1, <1>2, IncrementedCounter DEF n, Counter
  <2>2. PICK o \in Int, m \in Nat :
          /\ o <= clock /\ Ledger(Taken(Redis, k), When, o, m) /\ n = m + 1
          /\ Held(k) /\ redis[k].reset_at # Never =>
               o + Window <= redis[k].reset_at /\ clock < redis[k].reset_at
          /\ \A q \in Taken(Redis, k) : When[q] <= clock
    BY <1>1, IncrementedCounter DEF n
  <2>3. n <= MaxRequests <=> m < MaxRequests
    BY <2>2, LimiterAssumption
  <2>4. Taken(Redis, k)' = IF m < MaxRequests THEN Taken(Redis, k) \cup {r} ELSE Taken(Redis, k)
    BY <1>5, <1>6, <1>7, <2>3
  <2>5. \A q \in Taken(Redis, k) : When'[q] = When[q]
    BY <1>5, <1>7 DEF Taken
  <2>6. redis'[k].reset_at # Never =>
          o + Window <= redis'[k].reset_at /\ clock <= redis'[k].reset_at /\ clock < redis'[k].reset_at
    <3>1. redis'[k].reset_at # Never => Held(k) /\ redis'[k].reset_at = redis[k].reset_at
      BY <2>1
    <3>2. redis'[k].reset_at \in Nat \cup {Never}
      BY <2>1 DEF LimiterInv, TypeOK, Bucket
    <3> QED BY <1>4, <2>2, <3>1, <3>2 DEF Never
  <2>7. redis'[k].count = m + 1
    BY <2>1, <2>2
  <2> QED BY <1>1, <1>2, <1>5, <1>6, <2>1, <2>2, <2>4, <2>5, <2>6, <2>7, BookCounts
<1> QED BY <1>8, <1>9 DEF BookInv

\* An increment that raises counts nobody, applied or not.
LEMMA IncrRaisesBooks ==
  ASSUME BookInv, LimiterInv', NEW r \in Requests, NEW i \in Instances, NEW k \in Keys, IncrRaises(r, i, k)
  PROVE  BookInv'
<1>1. LimiterInv /\ TypeOK /\ RequestInv(r) /\ \A c \in Instances \cup {Redis}, j \in Keys : Book(c, j)
  BY DEF BookInv, LimiterInv
<1>2. /\ pc[r] = "idle" /\ key' = [key EXCEPT ![r] = k] /\ redis' \in {redis, Incremented(k)}
      /\ pc' = [pc EXCEPT ![r] = "fallback"]
      /\ UNCHANGED <<clock, mem_state, count, decision>> /\ clock \in Nat
  BY <1>1 DEF IncrRaises, Begin, TypeOK
<1>3. /\ \A s \in Requests \ {r} : /\ pc'[s] = pc[s] /\ key'[s] = key[s]
                                   /\ count'[s] = count[s] /\ decision'[s] = decision[s]
      /\ \A c, j : r \notin Taken(c, j) /\ r \notin Taken(c, j)'
  BY <1>1, <1>2 DEF TypeOK, RequestInv, Taken
<1>4. /\ \A c, j : Taken(c, j)' = Taken(c, j)
      /\ \A q \in Requests \ {r} : When'[q] = When[q]
  <2>1. \A c, j : Taken(c, j)' \ {r} = Taken(c, j) \ {r}
    BY <1>3, OthersTaken
  <2> QED BY <1>3, <2>1, OthersTaken
<1>5. \A c, j : \A q \in Taken(c, j) : When'[q] = When[q]
  BY <1>3, <1>4 DEF Taken
<1>6. ASSUME NEW c \in Instances \cup {Redis}, NEW j \in Keys, Counter(c, j)' = Counter(c, j)
      PROVE  Book(c, j)'
  <2>1. clock <= clock'
    BY <1>2
  <2> QED BY <1>1, <1>4, <1>5, <1>6, <2>1, BookUntouched
<1>7. ASSUME NEW c \in Instances \cup {Redis}, NEW j \in Keys, c # Redis \/ j # k \/ redis' = redis
      PROVE  Counter(c, j)' = Counter(c, j)
  BY <1>1, <1>2, <1>7, IncrementedType DEF Counter
<1>8. CASE redis' = Incremented(k)
  <2>1. /\ redis'[k] = [count |-> NextCount(k), reset_at |-> IF Held(k) THEN redis[k].reset_at ELSE Never]
        /\ redis'[k] # None /\ Counter(Redis, k)' = redis'[k] /\ Counter(Redis, k) = redis[k]
    BY <1>1, <1>8, IncrementedCounter DEF Counter
  <2>2. PICK o \in Int, m \in Nat :
          /\ o <= clock /\ Ledger(Taken(Redis, k), When, o, m) /\ NextCount(k) = m + 1
          /\ Held(k) /\ redis[k].reset_at # Never =>
               o + Window <= redis[k].reset_at /\ clock < redis[k].reset_at
          /\ \A q \in Taken(Redis, k) : When[q] <= clock
    BY <1>1, IncrementedCounter
  <2>3. Ledger(Taken(Redis, k)', When', o, m + 1)
    <3> DEFINE T == Taken(Redis, k)
    <3>1. T \in SUBSET Requests /\ T \in SUBSET T /\ m + 1 \in Nat /\ m <= m + 1
      BY DEF Taken
    <3>2. \A q \in T : When'[q] = When[q]
      BY <1>5
    <3>3. Taken(Redis, k)' = T /\ Ledger(T, When, o, m)
      BY <1>4, <2>2
    <3> HIDE DEF T
    <3>4. Ledger(T, When', o, m + 1)
      BY <3>1, <3>2, <3>3, LedgerLess
    <3> QED BY <3>3, <3>4
  <2>4. redis'[k].reset_at \in Nat \cup {Never} /\ redis'[k].count = m + 1
    BY <2>1, <2>2 DEF LimiterInv, TypeOK, Bucket
  <2>5. redis'[k].reset_at # Never => o + Window <= redis'[k].reset_at /\ clock < redis'[k].reset_at
    BY <2>1, <2>2
  <2>6. \A q \in Taken(Redis, k)' : When'[q] \in Nat /\ When'[q] <= clock
    <3>1. \A q \in Taken(Redis, k) : When[q] \in Nat
      BY <1>1, WhenType DEF Taken
    <3> QED BY <1>4, <1>5, <2>2, <3>1
  <2>7. \A q \in Taken(Redis, k)' : redis'[k].reset_at # Never => When'[q] < redis'[k].reset_at
                                                               /\ When'[q] <= redis'[k].reset_at
    BY <1>2, <2>4, <2>5, <2>6 DEF Never
  <2>8. Book(Redis, k)'
    <3>1. o <= clock' /\ clock' = clock
      BY <1>2, <2>2
    <3> QED BY <2>1, <2>3, <2>4, <2>5, <2>6, <2>7, <3>1 DEF Book
  <2> QED BY <1>6, <1>7, <2>8 DEF BookInv
<1> QED BY <1>2, <1>6, <1>7, <1>8 DEF BookInv

\* The second command, or none in its place: who is decided was counted at the
\* first, who is not drops out of the books.
LEMMA ExpiryBooks ==
  ASSUME BookInv, LimiterInv', NEW r \in Requests, Expire(r) \/ ExpireRaises(r) \/ Cancel(r)
  PROVE  BookInv'
<1>1. /\ LimiterInv /\ TypeOK /\ RequestInv(r) /\ \A c \in Instances \cup {Redis}, j \in Keys : Book(c, j)
  BY DEF BookInv, LimiterInv
<1>2. /\ pc[r] = "expire" /\ key[r] \in Keys /\ decision[r] = None
      /\ count[r] # None /\ count[r].n = 1 /\ count[r].at \in Nat /\ clock \in Nat
  BY <1>1 DEF Expire, ExpireRaises, Cancel, RequestInv, TypeOK
<1>3. /\ \A s \in Requests \ {r} : /\ pc'[s] = pc[s] /\ key'[s] = key[s]
                                   /\ count'[s] = count[s] /\ decision'[s] = decision[s]
      /\ UNCHANGED <<clock, mem_state, key, count>> /\ pc'[r] # "expire"
  BY <1>1 DEF TypeOK, Expire, ExpireRaises, Cancel, Decide
<1>4. ASSUME NEW c, NEW j, r \in Taken(c, j)'
      PROVE  r \in Taken(c, j) /\ When'[r] = When[r]
  <2>1. CASE Expire(r)
    <3>1. decision'[r] = [allowed |-> TRUE, remaining |-> IF 1 < MaxRequests THEN MaxRequests - 1 ELSE 0,
                          at |-> count[r].at, by |-> Redis]
      <4>1. 1 <= MaxRequests
        BY LimiterAssumption
      <4> QED BY <1>1, <1>2, <2>1, <4>1 DEF TypeOK, Expire, Decide
    <3>2. decision'[r] # None
      <4>1. decision'[r] \in Decision
        BY <1>2, <3>1, LimiterAssumption DEF Decision
      <4> QED BY <4>1, BucketAssumption
    <3>3. c = Redis /\ key[r] = j
      BY <1>3, <1>4, <3>1 DEF Taken
    <3>4. When'[r] = count[r].at /\ When[r] = count[r].at
      BY <1>2, <1>3, <3>1, <3>2 DEF When
    <3> QED BY <1>2, <3>3, <3>4 DEF Taken
  <2>2. CASE ExpireRaises(r) \/ Cancel(r)
    BY <1>2, <1>3, <1>4, <2>2 DEF Taken, ExpireRaises, Cancel
  <2> QED BY <2>1, <2>2
<1>5. /\ \A c, j : Taken(c, j)' \ {r} = Taken(c, j) \ {r}
      /\ \A q \in Requests \ {r} : When'[q] = When[q]
  BY <1>3, OthersTaken
<1>6. ASSUME NEW c, NEW j
      PROVE  Taken(c, j)' \subseteq Taken(c, j) /\ \A q \in Taken(c, j)' : When'[q] = When[q]
  BY <1>4, <1>5 DEF Taken
<1>7. redis' = redis \/ redis' = Expiring(key[r])
  BY DEF Expire, ExpireRaises, Cancel
<1>8. ASSUME NEW c \in Instances \cup {Redis}, NEW j \in Keys PROVE Book(c, j)'
  <2>1. CASE Counter(c, j)' = Counter(c, j)
    BY <1>1, <1>2, <1>3, <1>6, <2>1, BookUntouched
  <2>2. CASE Counter(c, j)' # Counter(c, j)
    <3>1. /\ c = Redis /\ redis[j] # None /\ redis'[j] = [redis[j] EXCEPT !.reset_at = clock + Window]
          /\ redis'[j].count = redis[j].count /\ redis'[j].reset_at = clock + Window
          /\ redis[j] \in Bucket
      <4>1. c = Redis /\ redis'[j] # redis[j]
        BY <1>3, <2>2 DEF Counter
      <4>2. redis' = [redis EXCEPT ![key[r]].reset_at = clock + Window] /\ redis[key[r]] # None
        BY <1>7, <4>1 DEF Expiring, Held
      <4>3. j = key[r] /\ redis'[j] = [redis[j] EXCEPT !.reset_at = clock + Window]
        BY <1>1, <1>2, <4>1, <4>2 DEF TypeOK
      <4>4. redis[j] \in Bucket
        BY <1>1, <4>2, <4>3 DEF TypeOK
      <4> QED BY <4>1, <4>2, <4>3, <4>4 DEF Bucket
    <3>2. redis'[j] # None
      <4>1. redis'[j] \in Bucket
        BY <1>2, <3>1, LimiterAssumption DEF Bucket
      <4> QED BY <4>1, BucketAssumption
    <3>3. /\ Counter(c, j)'.reset_at = clock' + Window /\ Counter(c, j)' # None /\ Counter(c, j) # None
          /\ Counter(c, j).count <= Counter(c, j)'.count /\ clock <= clock'
      BY <1>2, <1>3, <3>1, <3>2 DEF Counter, Bucket
    <3> QED BY <1>1, <1>6, <3>1, <3>3, BookKept
  <2> QED BY <2>1, <2>2
<1> QED BY <1>8 DEF BookInv

\* Nothing of the books changes when nothing but the clock does, or a request
\* that was not counted ends uncounted.
LEMMA IdleBooks ==
  ASSUME BookInv, LimiterInv', clock <= clock', UNCHANGED <<redis, mem_state, key, count, decision>>,
         \A s \in Requests : pc'[s] = pc[s] \/ (pc[s] = "idle" /\ pc'[s] = "done")
  PROVE  BookInv'
<1>1. LimiterInv /\ \A c \in Instances \cup {Redis}, j \in Keys : Book(c, j)
  BY DEF BookInv
<1>2. \A c, j : Taken(c, j)' = Taken(c, j)
  BY DEF Taken
<1>3. ASSUME NEW q \in Requests PROVE When'[q] = When[q]
  BY DEF When
<1>4. \A c, j : Counter(c, j)' = Counter(c, j)
  BY DEF Counter
<1>5. \A c, j : Taken(c, j) \subseteq Requests
  BY DEF Taken
<1>6. ASSUME NEW c \in Instances \cup {Redis}, NEW j \in Keys PROVE Book(c, j)'
  BY <1>1, <1>2, <1>3, <1>4, <1>5, BookUntouched
<1> QED BY <1>6 DEF BookInv

LEMMA NextBooks ==
  ASSUME BookInv, [Next]_vars
  PROVE  BookInv'
<1>1. LimiterInv' /\ TypeOK
  BY NextInv DEF BookInv, LimiterInv
<1>2. ASSUME NEW r \in Requests, NEW i \in Instances, NEW k \in Keys, CheckInProcess(r, i, k)
      PROVE  BookInv'
  <2>1. /\ pc[r] = "idle" /\ CheckMem(r, i, k) /\ key' = [key EXCEPT ![r] = k]
        /\ UNCHANGED <<clock, redis, count>>
    BY <1>2 DEF CheckInProcess, Begin
  <2>2. key'[r] = k /\ \A s \in Requests \ {r} : key'[s] = key[s]
    BY <1>1, <2>1 DEF TypeOK
  <2> QED BY <1>1, <2>1, <2>2, CheckMemBooks
<1>3. ASSUME NEW r \in Requests, Fallback(r) PROVE BookInv'
  <2>1. /\ pc[r] = "fallback" /\ CheckMem(r, inst[r], key[r]) /\ UNCHANGED <<clock, redis, count, key>>
        /\ inst[r] \in Instances /\ key[r] \in Keys
    BY <1>3 DEF Fallback, BookInv, LimiterInv, RequestInv
  <2> QED BY <1>1, <2>1, CheckMemBooks
<1>4. ASSUME NEW r \in Requests, NEW i \in Instances, NEW k \in Keys, Incr(r, i, k) \/ IncrRaises(r, i, k)
      PROVE  BookInv'
  BY <1>1, <1>4, IncrBooks, IncrRaisesBooks
<1>5. ASSUME NEW r \in Requests, Expire(r) \/ ExpireRaises(r) \/ Cancel(r) PROVE BookInv'
  BY <1>1, <1>5, ExpiryBooks
<1>6. CASE Tick \/ UNCHANGED vars
  <2>1. clock <= clock' /\ UNCHANGED <<redis, mem_state, key, count, decision, pc>>
    BY <1>1, <1>6 DEF Tick, vars, TypeOK
  <2> QED BY <1>1, <2>1, IdleBooks
<1> QED BY <1>2, <1>3, <1>4, <1>5, <1>6 DEF Next, Check

LEMMA InitBooks == Init => BookInv
<1> SUFFICES ASSUME Init PROVE BookInv
  OBVIOUS
<1>1. LimiterInv
  BY InitInv
<1>2. ASSUME NEW c \in Instances \cup {Redis}, NEW k \in Keys PROVE Book(c, k)
  BY LimiterAssumption DEF Init, Book, Counter, Taken
<1> QED BY <1>1, <1>2 DEF BookInv

\* The books bound what the decisions admit.
LEMMA BooksBoundAdmission == BookInv => AdmissionBounded
<1> SUFFICES ASSUME BookInv, NEW k \in Keys, NEW t \in 0..clock, NEW c \in Instances \cup {Redis}
             PROVE  Cardinality(Admitted(c, k, t, t + Window)) <= 2 * MaxRequests
  BY DEF AdmissionBounded
<1>1. LimiterInv /\ Book(c, k)
  BY DEF BookInv
<1> DEFINE A == Admitted(c, k, t, t + Window)
           S == Between(Taken(c, k), When, t, t + Window)
<1>2. A \subseteq S
  <2>1. ASSUME NEW r \in A PROVE r \in S
    <3>1. /\ r \in Requests /\ decision[r] # None /\ key[r] = k /\ decision[r].allowed
          /\ decision[r].by = c /\ t <= decision[r].at /\ decision[r].at <= t + Window
      BY <2>1 DEF Admitted
    <3>2. pc[r] = "done"
      BY <1>1, <3>1 DEF LimiterInv, RequestInv
    <3>3. r \in Taken(c, k) /\ When[r] = decision[r].at
      BY <3>1, <3>2 DEF Taken, When
    <3> QED BY <3>1, <3>3 DEF Between
  <2> QED BY <2>1
<1>3. S \in SUBSET Requests /\ t \in Int
  BY <1>1 DEF Between, Taken, LimiterInv, TypeOK
<1>4. Cardinality(S) <= 2 * MaxRequests
  <2>1. CASE Counter(c, k) = None
    <3>1. S = {}
      BY <1>1, <2>1 DEF Book, Between
    <3>2. Cardinality(S) = 0
      BY <3>1, FS_EmptySet
    <3>3. 0 <= 2 * MaxRequests
      BY LimiterAssumption
    <3> HIDE DEF S
    <3> QED BY <3>2, <3>3
  <2>2. CASE Counter(c, k) # None
    BY <1>1, <1>3, <2>2 DEF Book, Ledger
  <2> QED BY <2>1, <2>2
<1> HIDE DEF A, S
<1>5. IsFiniteSet(S) /\ Cardinality(A) \in Nat /\ Cardinality(S) \in Nat /\ Cardinality(A) <= Cardinality(S)
  BY <1>2, <1>3, LimiterAssumption, FS_Subset, FS_CardinalityType
<1>6. Cardinality(A) <= 2 * MaxRequests
  BY <1>4, <1>5, LimiterAssumption
<1> QED BY <1>6 DEF A

\* A counter admits at most two buckets' worth of requests for a key over any
\* span as long as the window, with any number of instances, requests and
\* limits, and whatever Redis does (check and _check_mem, _core.py:88-112).
THEOREM AdmissionIsBounded == Spec => []AdmissionBounded
<1>1. Init => BookInv
  BY InitBooks
<1>2. BookInv /\ [Next]_vars => BookInv'
  BY NextBooks
<1> QED BY <1>1, <1>2, BooksBoundAdmission, PTL DEF Spec

-----------------------------------------------------------------------------
(* The limiter as a mount uses it. *)

\* Who is counted is counted under his own key.
ClientInv(r) ==
  decision[r] # None \/ pc[r] \in {"expire", "fallback"} =>
    client[r] \in Clients /\ key[r] = KeyOf(client[r])

\* The requests for a key that an instance admitted on its own count from a
\* time on.
AdmittedSince(i, k, t) ==
  {q \in Requests : /\ decision[q] # None /\ decision[q].allowed /\ decision[q].by = i
                    /\ key[q] = k /\ t <= decision[q].at}

\* What a bucket in process has counted, up to the limit, it has admitted since
\* it was opened.
Full(i, k) ==
  LET b == mem_state[i][k]
      admitted == AdmittedSince(i, k, b.reset_at - Window)
  IN  b # None => /\ b.reset_at - Window <= clock
                  /\ Cardinality(admitted) >= b.count \/ Cardinality(admitted) >= MaxRequests

MountInv ==
  /\ BookInv
  /\ mount \in Mounts /\ client \in [Requests -> Clients \cup {None}]
  /\ \A r \in Requests : ClientInv(r)
  /\ \A i \in Instances, k \in Keys : Full(i, k)
  /\ RefusalIsOwn

-----------------------------------------------------------------------------
(* Buckets and clients. *)

\* A client has a bucket.
LEMMA KeyType ==
  ASSUME NEW c \in Clients
  PROVE  KeyOf(c) \in Keys
  BY MountAssumption, LimiterAssumption DEF KeyOf, DefaultScopeKeyResolver, DefaultKeyFromForwardedFor

\* Those who share a bucket cannot be told apart.
LEMMA SharedBucket ==
  ASSUME NEW c \in Clients, NEW d \in Clients, KeyOf(c) = KeyOf(d)
  PROVE  Seen(c) = Seen(d)
<1>1. ASSUME NEW x \in Clients
      PROVE  KeyOf(x) = IF Seen(x) = None THEN Unknown ELSE Seen(x)
  <2>1. /\ x.peer \in Keys \cup {None} /\ x.forwarded \in Keys \cup {Blank, None}
        /\ Unknown \in Keys /\ Blank \notin Keys \cup {None} /\ None \notin Keys
    BY MountAssumption, LimiterAssumption
  <2> QED BY <2>1 DEF KeyOf, Seen, DefaultScopeKeyResolver, DefaultKeyFromForwardedFor
<1>2. ASSUME NEW x \in Clients PROVE Seen(x) # Unknown
  <2>1. Unknown \in Keys /\ None \notin Keys
    BY MountAssumption, LimiterAssumption
  <2> QED BY <2>1 DEF Seen
<1> QED BY <1>1, <1>2

-----------------------------------------------------------------------------
(* The steps. *)

\* What a mount adds to the steps of the limiter.
LEMMA MountStep ==
  ASSUME MountInv, [MountNext]_allVars
  PROVE  /\ UNCHANGED mount
         /\ \/ [Next]_vars
            \/ \E r \in Requests : PassBy(r)
         /\ \A r \in Requests : pc[r] # "idle" => client'[r] = client[r]
<1>1. ASSUME NEW r \in Requests, NEW c \in Clients, Arrive(r, c)
      PROVE  Next /\ UNCHANGED mount /\ \A q \in Requests : pc[q] # "idle" => client'[q] = client[q]
  <2>1. KeyOf(c) \in Keys
    BY KeyType
  <2>2. PICK i \in Instances :
          CheckInProcess(r, i, KeyOf(c)) \/ Incr(r, i, KeyOf(c)) \/ IncrRaises(r, i, KeyOf(c))
    BY <1>1 DEF Arrive
  <2>3. pc[r] = "idle"
    BY <2>2 DEF CheckInProcess, Incr, IncrRaises, Begin
  <2>4. Check(r)
    BY <2>1, <2>2 DEF Check
  <2> QED BY <1>1, <2>3, <2>4 DEF Arrive, Next
<1>2. ASSUME NEW r \in Requests,
             ((Expire(r) \/ ExpireRaises(r) \/ Fallback(r)) /\ UNCHANGED mountVars) \/ CutOff(r)
      PROVE  Next /\ UNCHANGED mountVars
  BY <1>2 DEF Next, CutOff
<1>3. CASE Tick /\ UNCHANGED mountVars
  BY <1>3 DEF Next, mountVars
<1>4. ASSUME NEW r \in Requests, PassBy(r) PROVE UNCHANGED mountVars
  BY <1>4 DEF PassBy
<1>5. CASE UNCHANGED allVars
  BY <1>5 DEF allVars, mountVars
<1> QED BY <1>1, <1>2, <1>3, <1>4, <1>5 DEF MountNext, mountVars

\* The books are kept, and what is decided stays decided.
LEMMA MountBooks ==
  ASSUME MountInv, [MountNext]_allVars
  PROVE  /\ BookInv'
         /\ \A q \in Requests : pc[q] # "idle" => key'[q] = key[q]
         /\ \A q \in Requests : decision[q] # None => pc[q] = "done" /\ decision'[q] = decision[q]
<1>1. LimiterInv /\ TypeOK /\ BookInv
  BY DEF MountInv, BookInv, LimiterInv
<1>2. \A q \in Requests : decision[q] # None => pc[q] = "done"
  BY <1>1 DEF LimiterInv, RequestInv
<1>3. CASE [Next]_vars
  <2>1. \A q \in Requests : pc[q] # "idle" => key'[q] = key[q]
    BY <1>1, <1>3 DEF Next, Check, CheckInProcess, Incr, IncrRaises, Begin, Expire, ExpireRaises, Fallback,
                      Cancel, Tick, vars, TypeOK
  <2>2. \A q \in Requests : pc[q] = "done" => decision'[q] = decision[q]
    <3>1. ASSUME NEW r \in Requests, NEW n, NEW at, NEW by, Decide(r, n, at, by), pc[r] # "done"
          PROVE  \A q \in Requests : pc[q] = "done" => decision'[q] = decision[q]
      BY <1>1, <3>1 DEF Decide, TypeOK
    <3>2. ASSUME NEW r \in Requests, NEW i, NEW k, CheckMem(r, i, k), pc[r] # "done"
          PROVE  \A q \in Requests : pc[q] = "done" => decision'[q] = decision[q]
      BY <3>1, <3>2 DEF CheckMem
    <3>3. ASSUME NEW r \in Requests, NEW i \in Instances, NEW k \in Keys,
                 CheckInProcess(r, i, k) \/ Incr(r, i, k) \/ IncrRaises(r, i, k)
          PROVE  \A q \in Requests : pc[q] = "done" => decision'[q] = decision[q]
      <4>1. pc[r] = "idle"
        BY <3>3 DEF CheckInProcess, Incr, IncrRaises, Begin
      <4>2. CASE CheckInProcess(r, i, k)
        BY <3>2, <4>1, <4>2 DEF CheckInProcess
      <4>3. CASE Incr(r, i, k)
        BY <3>1, <4>1, <4>3 DEF Incr
      <4>4. CASE IncrRaises(r, i, k)
        BY <4>4 DEF IncrRaises
      <4> QED BY <3>3, <4>2, <4>3, <4>4
    <3>4. ASSUME NEW r \in Requests, Expire(r) \/ ExpireRaises(r) \/ Fallback(r) \/ Cancel(r)
          PROVE  \A q \in Requests : pc[q] = "done" => decision'[q] = decision[q]
      BY <3>1, <3>2, <3>4 DEF Expire, ExpireRaises, Fallback, Cancel
    <3>5. CASE Tick \/ UNCHANGED vars
      BY <3>5 DEF Tick, vars
    <3> QED BY <1>3, <3>3, <3>4, <3>5 DEF Next, Check
  <2> QED BY <1>1, <1>2, <1>3, <2>1, <2>2, NextBooks
<1>4. ASSUME NEW r \in Requests, PassBy(r)
      PROVE  BookInv' /\ UNCHANGED <<key, decision>>
  <2>1. /\ UNCHANGED <<clock, redis, mem_state, inst, key, count, decision, mishap>>
        /\ pc' = [pc EXCEPT ![r] = "done"] /\ pc[r] = "idle" /\ clock \in Nat
    BY <1>1, <1>4 DEF PassBy, TypeOK
  <2>2. TypeOK'
    BY <1>1, <2>1 DEF TypeOK
  <2>3. ASSUME NEW s \in Requests PROVE RequestInv(s)'
    BY <1>1, <2>1, RequestKept DEF LimiterInv, TypeOK
  <2>4. LimiterInv'
    BY <2>2, <2>3 DEF LimiterInv
  <2>5. \A s \in Requests : pc'[s] = pc[s] \/ (pc[s] = "idle" /\ pc'[s] = "done")
    BY <1>1, <2>1 DEF TypeOK
  <2>6. clock <= clock'
    BY <2>1
  <2> QED BY <1>1, <2>1, <2>4, <2>5, <2>6, IdleBooks
<1> QED BY <1>2, <1>3, <1>4, MountStep

\* A step of the limiter is one request's, or the clock's.
LEMMA OneRequest ==
  ASSUME TypeOK, NEW r \in Requests,
         \/ \E i \in Instances, k \in Keys : CheckInProcess(r, i, k) \/ Incr(r, i, k) \/ IncrRaises(r, i, k)
         \/ Expire(r) \/ ExpireRaises(r) \/ Fallback(r) \/ Cancel(r)
         \/ PassBy(r)
  PROVE  \A q \in Requests \ {r} : pc'[q] = pc[q] /\ decision'[q] = decision[q] /\ key'[q] = key[q]
<1>1. ASSUME NEW n, NEW at, NEW by, Decide(r, n, at, by)
      PROVE  \A q \in Requests \ {r} : pc'[q] = pc[q] /\ decision'[q] = decision[q]
  BY <1>1 DEF Decide, TypeOK
<1>2. ASSUME NEW i, NEW k, CheckMem(r, i, k)
      PROVE  \A q \in Requests \ {r} : pc'[q] = pc[q] /\ decision'[q] = decision[q]
  BY <1>1, <1>2 DEF CheckMem
<1>3. ASSUME NEW i \in Instances, NEW k \in Keys, Begin(r, i, k)
      PROVE  \A q \in Requests \ {r} : key'[q] = key[q]
  BY <1>3 DEF Begin, TypeOK
<1>4. ASSUME NEW i \in Instances, NEW k \in Keys, CheckInProcess(r, i, k) \/ Incr(r, i, k) \/ IncrRaises(r, i, k)
      PROVE  \A q \in Requests \ {r} : pc'[q] = pc[q] /\ decision'[q] = decision[q] /\ key'[q] = key[q]
  <2>1. \A q \in Requests \ {r} : key'[q] = key[q]
    BY <1>3, <1>4 DEF CheckInProcess, Incr, IncrRaises
  <2>2. CASE CheckInProcess(r, i, k)
    BY <1>2, <2>1, <2>2 DEF CheckInProcess
  <2>3. CASE Incr(r, i, k)
    <3>1. CASE Decide(r, NextCount(k), clock, Redis)
      BY <1>1, <2>1, <3>1
    <3>2. CASE pc' = [pc EXCEPT ![r] = "expire"] /\ UNCHANGED decision
      BY <2>1, <3>2 DEF TypeOK
    <3> QED BY <2>3, <3>1, <3>2 DEF Incr
  <2>4. CASE IncrRaises(r, i, k)
    BY <2>1, <2>4 DEF IncrRaises, TypeOK
  <2> QED BY <1>4, <2>2, <2>3, <2>4
<1>5. CASE Expire(r)
  BY <1>1, <1>5 DEF Expire
<1>6. CASE Fallback(r)
  BY <1>2, <1>6 DEF Fallback
<1>7. CASE ExpireRaises(r) \/ Cancel(r) \/ PassBy(r)
  BY <1>7 DEF ExpireRaises, Cancel, PassBy, TypeOK
<1> QED BY <1>4, <1>5, <1>6, <1>7

\* Who is counted stays counted under his own key.
LEMMA ClientsKept ==
  ASSUME MountInv, [MountNext]_allVars
  PROVE  /\ client' \in [Requests -> Clients \cup {None}]
         /\ \A q \in Requests : ClientInv(q)'
<1>1. /\ TypeOK /\ LimiterInv /\ client \in [Requests -> Clients \cup {None}]
      /\ \A q \in Requests : ClientInv(q) /\ RequestInv(q)
  BY DEF MountInv, BookInv, LimiterInv
<1>2. UNCHANGED mount
  BY MountStep
<1>3. ASSUME NEW q \in Requests, pc'[q] = pc[q], decision'[q] = decision[q], key'[q] = key[q],
             client'[q] = client[q]
      PROVE  ClientInv(q)'
  BY <1>1, <1>2, <1>3 DEF ClientInv, KeyOf
<1>4. ASSUME NEW r \in Requests, NEW c \in Clients, Arrive(r, c)
      PROVE  client' \in [Requests -> Clients \cup {None}] /\ \A q \in Requests : ClientInv(q)'
  <2>1. PICK i \in Instances :
          CheckInProcess(r, i, KeyOf(c)) \/ Incr(r, i, KeyOf(c)) \/ IncrRaises(r, i, KeyOf(c))
    BY <1>4 DEF Arrive
  <2>2. KeyOf(c) \in Keys
    BY KeyType
  <2>3. \A q \in Requests \ {r} : pc'[q] = pc[q] /\ decision'[q] = decision[q] /\ key'[q] = key[q]
    BY <1>1, <2>1, <2>2, OneRequest
  <2>4. client' = [client EXCEPT ![r] = c]
    BY <1>4 DEF Arrive
  <2>5. key'[r] = KeyOf(c)
    BY <1>1, <2>1 DEF CheckInProcess, Incr, IncrRaises, Begin, TypeOK
  <2>6. ClientInv(r)'
    BY <1>1, <1>2, <2>4, <2>5 DEF ClientInv, KeyOf
  <2>7. ASSUME NEW q \in Requests \ {r} PROVE ClientInv(q)'
    BY <1>1, <1>3, <2>3, <2>4
  <2> QED BY <1>1, <2>4, <2>6, <2>7
<1>5. ASSUME NEW r \in Requests, Expire(r) \/ ExpireRaises(r) \/ Fallback(r) \/ Cancel(r) \/ PassBy(r),
             UNCHANGED mountVars
      PROVE  client' \in [Requests -> Clients \cup {None}] /\ \A q \in Requests : ClientInv(q)'
  <2>1. \A q \in Requests \ {r} : pc'[q] = pc[q] /\ decision'[q] = decision[q] /\ key'[q] = key[q]
    BY <1>1, <1>5, OneRequest
  <2>2. UNCHANGED <<client, key>>
    BY <1>5 DEF mountVars, Expire, ExpireRaises, Fallback, Cancel, PassBy
  <2>3. ASSUME NEW q \in Requests \ {r} PROVE ClientInv(q)'
    BY <1>3, <2>1, <2>2
  <2>4. ASSUME pc[r] \in {"expire", "fallback"} PROVE ClientInv(r)'
    BY <1>1, <1>2, <2>2, <2>4 DEF ClientInv, KeyOf
  <2>5. ASSUME PassBy(r) PROVE ClientInv(r)'
    BY <1>1, <1>2, <2>2, <2>5 DEF ClientInv, KeyOf, PassBy, TypeOK
  <2>6. ClientInv(r)'
    BY <1>5, <2>4, <2>5 DEF Expire, ExpireRaises, Fallback, Cancel
  <2> QED BY <1>1, <2>2, <2>3, <2>6
<1>6. CASE (Tick /\ UNCHANGED mountVars) \/ UNCHANGED allVars
  BY <1>1, <1>3, <1>6 DEF Tick, mountVars, allVars, vars
<1>7. \A r \in Requests : PassBy(r) => UNCHANGED mountVars
  BY DEF PassBy
<1> QED BY <1>4, <1>5, <1>6, <1>7 DEF MountNext, CutOff

\* What was admitted since a time is finite, and stays admitted.
LEMMA AdmittedKept ==
  ASSUME MountInv, [MountNext]_allVars, NEW i \in Instances, NEW k \in Keys, NEW t \in Int
  PROVE  /\ IsFiniteSet(AdmittedSince(i, k, t)) /\ IsFiniteSet(AdmittedSince(i, k, t)')
         /\ AdmittedSince(i, k, t) \subseteq AdmittedSince(i, k, t)'
         /\ Cardinality(AdmittedSince(i, k, t)) \in Nat
         /\ Cardinality(AdmittedSince(i, k, t)') \in Nat
         /\ Cardinality(AdmittedSince(i, k, t)) <= Cardinality(AdmittedSince(i, k, t)')
<1> DEFINE A == AdmittedSince(i, k, t)
           B == AdmittedSince(i, k, t)'
<1>1. A \in SUBSET Requests /\ B \in SUBSET Requests
  BY DEF AdmittedSince
<1>2. A \in SUBSET B
  BY MountBooks DEF AdmittedSince
<1> HIDE DEF A, B
<1>3. IsFiniteSet(A) /\ IsFiniteSet(B)
  BY <1>1, LimiterAssumption, FS_Subset
<1>4. Cardinality(A) \in Nat /\ Cardinality(B) \in Nat /\ Cardinality(A) <= Cardinality(B)
  BY <1>2, <1>3, FS_Subset, FS_CardinalityType
<1> QED BY <1>2, <1>3, <1>4 DEF A, B

\* The clock does not go back.
LEMMA ClockKept ==
  ASSUME MountInv, [MountNext]_allVars
  PROVE  clock \in Int /\ clock' \in Int /\ clock <= clock'
<1>1. clock \in Nat
  BY DEF MountInv, BookInv, LimiterInv, TypeOK
<1>2. CASE [Next]_vars
  BY <1>1, <1>2 DEF Next, Check, CheckInProcess, Incr, IncrRaises, Expire, ExpireRaises, Fallback, Cancel, Tick, vars
<1>3. ASSUME NEW r \in Requests, PassBy(r) PROVE clock' = clock
  BY <1>3 DEF PassBy
<1> QED BY <1>1, <1>2, <1>3, MountStep

\* A bucket that a step leaves alone stays full.
LEMMA FullUntouched ==
  ASSUME MountInv, [MountNext]_allVars, NEW i \in Instances, NEW k \in Keys,
         mem_state'[i][k] = mem_state[i][k]
  PROVE  Full(i, k)'
<1> SUFFICES ASSUME mem_state[i][k] # None PROVE Full(i, k)'
  BY DEF Full
<1> DEFINE b == mem_state[i][k]
           t == b.reset_at - Window
<1>1. b \in Bucket /\ t \in Int /\ b.count \in Nat
  <2>1. b \in Bucket
    BY DEF MountInv, BookInv, LimiterInv, TypeOK
  <2> QED BY <2>1, LimiterAssumption DEF Bucket, Never
<1>2. /\ t <= clock
      /\ \/ Cardinality(AdmittedSince(i, k, t)) >= b.count
         \/ Cardinality(AdmittedSince(i, k, t)) >= MaxRequests
  BY DEF MountInv, Full
<1>3. mem_state'[i][k] = b /\ b # None
  OBVIOUS
<1>4. /\ Cardinality(AdmittedSince(i, k, t)) \in Nat /\ Cardinality(AdmittedSince(i, k, t)') \in Nat
      /\ Cardinality(AdmittedSince(i, k, t)) <= Cardinality(AdmittedSince(i, k, t)')
  BY <1>1, AdmittedKept
<1>5. \/ Cardinality(AdmittedSince(i, k, t)') >= b.count
      \/ Cardinality(AdmittedSince(i, k, t)') >= MaxRequests
  <2> HIDE DEF b, t
  <2> QED BY <1>1, <1>2, <1>4, LimiterAssumption
<1>6. AdmittedSince(i, k, t)' = {q \in Requests : /\ decision'[q] # None /\ decision'[q].allowed /\ decision'[q].by = i
                                                  /\ key'[q] = k /\ t <= decision'[q].at}
  BY DEF AdmittedSince
<1>7. AdmittedSince(i, k, b.reset_at - Window)' = AdmittedSince(i, k, t)'
  BY <1>3
<1>8. t <= clock'
  <2>1. clock \in Int /\ clock' \in Int /\ clock <= clock'
    BY ClockKept
  <2> HIDE DEF t
  <2> QED BY <1>1, <1>2, <2>1
<1> QED BY <1>3, <1>5, <1>7, <1>8 DEF Full, AdmittedSince

\* A step counts in one bucket in process, and decides on its request; or in
\* none, and decides by Redis, if it does.
LEMMA OneBucket ==
  ASSUME MountInv, [MountNext]_allVars
  PROVE  \/ /\ UNCHANGED mem_state
            /\ \A q \in Requests : decision'[q] = decision[q] \/ decision'[q].by = Redis
         \/ \E r \in Requests, i \in Instances, k \in Keys :
              /\ CheckMem(r, i, k) /\ decision[r] = None /\ key'[r] = k /\ clock' = clock
              /\ \A q \in Requests \ {r} : decision'[q] = decision[q]
<1>1. TypeOK /\ \A r \in Requests : RequestInv(r)
  BY DEF MountInv, BookInv, LimiterInv
<1> DEFINE NoBucket == /\ UNCHANGED mem_state
                       /\ \A q \in Requests : decision'[q] = decision[q] \/ decision'[q].by = Redis
           Bucketed(r, i, k) == /\ CheckMem(r, i, k) /\ decision[r] = None /\ key'[r] = k /\ clock' = clock
                                /\ \A q \in Requests \ {r} : decision'[q] = decision[q]
<1>2. ASSUME NEW r \in Requests, NEW n, NEW at, Decide(r, n, at, Redis), UNCHANGED mem_state
      PROVE  NoBucket
  BY <1>1, <1>2 DEF Decide, TypeOK
<1>3. ASSUME NEW r \in Requests, NEW i \in Instances, NEW k \in Keys, CheckInProcess(r, i, k)
      PROVE  Bucketed(r, i, k)
  <2>1. pc[r] = "idle" /\ CheckMem(r, i, k) /\ clock' = clock /\ key'[r] = k
    BY <1>1, <1>3 DEF CheckInProcess, Begin, TypeOK
  <2>2. decision[r] = None
    BY <1>1, <2>1 DEF RequestInv
  <2>3. \A q \in Requests \ {r} : decision'[q] = decision[q]
    BY <1>1, <1>3, OneRequest
  <2> QED BY <2>1, <2>2, <2>3
<1>4. ASSUME NEW r \in Requests, Fallback(r)
      PROVE  inst[r] \in Instances /\ key[r] \in Keys /\ Bucketed(r, inst[r], key[r])
  <2>1. pc[r] = "fallback" /\ CheckMem(r, inst[r], key[r]) /\ clock' = clock /\ key'[r] = key[r]
    BY <1>4 DEF Fallback
  <2>2. decision[r] = None /\ inst[r] \in Instances /\ key[r] \in Keys
    BY <1>1, <2>1 DEF RequestInv
  <2>3. \A q \in Requests \ {r} : decision'[q] = decision[q]
    BY <1>1, <1>4, OneRequest
  <2> QED BY <2>1, <2>2, <2>3
<1>5. ASSUME NEW r \in Requests, NEW i \in Instances, NEW k \in Keys, Incr(r, i, k) PROVE NoBucket
  <2>1. UNCHANGED mem_state /\ (UNCHANGED decision \/ Decide(r, NextCount(k), clock, Redis))
    BY <1>5 DEF Incr
  <2> QED BY <1>2, <2>1
<1>6. ASSUME NEW r \in Requests, Expire(r) PROVE NoBucket
  <2>1. UNCHANGED mem_state /\ Decide(r, count[r].n, count[r].at, Redis)
    BY <1>6 DEF Expire
  <2> QED BY <1>2, <2>1
<1>7. ASSUME \/ \E r \in Requests, i \in Instances, k \in Keys : IncrRaises(r, i, k)
             \/ \E r \in Requests : ExpireRaises(r) \/ Cancel(r) \/ PassBy(r)
             \/ Tick \/ UNCHANGED vars
      PROVE  NoBucket
  BY <1>7 DEF IncrRaises, ExpireRaises, Cancel, PassBy, Tick, vars
<1>8. CASE NoBucket
  BY <1>8
<1>9. CASE \E r \in Requests, i \in Instances, k \in Keys : Bucketed(r, i, k)
  BY <1>9
<1>10. NoBucket \/ \E r \in Requests, i \in Instances, k \in Keys : Bucketed(r, i, k)
  <2> HIDE DEF NoBucket, Bucketed
  <2>1. CASE Next
    BY <1>3, <1>4, <1>5, <1>6, <1>7, <2>1 DEF Next, Check
  <2> QED BY <1>7, <2>1, MountStep
<1> QED BY <1>8, <1>9, <1>10

\* A bucket that counts a request admits it, while it is below the limit.
LEMMA FullCounts ==
  ASSUME MountInv, [MountNext]_allVars, NEW r \in Requests, NEW i \in Instances, NEW k \in Keys,
         CheckMem(r, i, k), decision[r] = None, key'[r] = k, clock' = clock
  PROVE  Full(i, k)'
<1> DEFINE e == mem_state[i][k]
           fresh == e = None \/ e.reset_at < clock
<1>1. /\ TypeOK /\ clock \in Nat /\ e \in Bucket \cup {None}
      /\ e # None => e.count \in Nat /\ e.reset_at \in Int
      /\ Window \in Nat /\ MaxRequests \in Nat \ {0} /\ IsFiniteSet(Requests)
  <2>1. TypeOK
    BY DEF MountInv, BookInv, LimiterInv
  <2> QED BY <2>1, LimiterAssumption DEF TypeOK, Bucket, Never
<1>2. PICK n \in Nat, reset \in Int : /\ n = IF fresh THEN 1 ELSE e.count + 1
                                      /\ reset = IF fresh THEN clock + Window ELSE e.reset_at
  <2>1. CASE fresh
    BY <1>1, <2>1
  <2>2. CASE ~fresh
    <3>1. e # None /\ e.count + 1 \in Nat /\ e.reset_at \in Int
      BY <1>1, <2>2
    <3> QED BY <2>2, <3>1
  <2> QED BY <2>1, <2>2
<1>3. /\ mem_state'[i][k] = [count |-> n, reset_at |-> reset]
      /\ decision'[r] = [allowed |-> n <= MaxRequests, at |-> clock, by |-> i,
                         remaining |-> IF n < MaxRequests THEN MaxRequests - n ELSE 0]
  BY <1>1, <1>2 DEF CheckMem, Decide, TypeOK
<1> DEFINE A == AdmittedSince(i, k, reset - Window)
           B == AdmittedSince(i, k, reset - Window)'
<1>4. /\ A \subseteq B /\ IsFiniteSet(A) /\ IsFiniteSet(B) /\ r \notin A
      /\ Cardinality(A) \in Nat /\ Cardinality(B) \in Nat /\ Cardinality(A) <= Cardinality(B)
  <2>1. reset - Window \in Int
    BY <1>1
  <2>2. r \notin A
    BY DEF AdmittedSince
  <2> QED BY <2>1, <2>2, AdmittedKept
<1>5. reset - Window <= clock
  <2>1. CASE fresh
    BY <1>1, <1>2, <2>1
  <2>2. CASE ~fresh
    BY <1>2, <2>2 DEF MountInv, Full
  <2> QED BY <2>1, <2>2
<1>6. decision'[r] # None
  <2>1. decision'[r] \in Decision
    BY <1>1, <1>3 DEF Decision
  <2> QED BY <2>1, BucketAssumption
<1>7. ASSUME n <= MaxRequests PROVE r \in B
  <2>1. decision'[r].allowed = (n <= MaxRequests) /\ decision'[r].at = clock /\ decision'[r].by = i
    BY <1>3
  <2>2. reset - Window <= decision'[r].at
    BY <1>5, <2>1
  <2>3. decision'[r].allowed
    BY <1>7, <2>1
  <2> QED BY <1>6, <2>1, <2>2, <2>3 DEF AdmittedSince
<1>8. ASSUME r \in B PROVE Cardinality(B) >= Cardinality(A) + 1
  <2> HIDE DEF A, B
  <2>1. IsFiniteSet(A \cup {r}) /\ Cardinality(A \cup {r}) = Cardinality(A) + 1
    BY <1>4, FS_AddElement
  <2>2. A \cup {r} \subseteq B
    BY <1>4, <1>8
  <2> QED BY <1>4, <2>1, <2>2, FS_Subset
<1>9. Cardinality(B) >= n \/ Cardinality(B) >= MaxRequests
  <2>1. CASE fresh
    <3>1. n = 1
      BY <1>2, <2>1
    <3> HIDE DEF A, B
    <3> QED BY <1>1, <1>4, <1>7, <1>8, <3>1
  <2>2. CASE ~fresh
    <3>1. n = e.count + 1 /\ reset = e.reset_at /\ e # None /\ e.count \in Nat
      BY <1>1, <1>2, <2>2
    <3>2. Cardinality(A) >= e.count \/ Cardinality(A) >= MaxRequests
      BY <3>1 DEF MountInv, Full
    <3> HIDE DEF e, A, B
    <3> QED BY <1>1, <1>4, <1>7, <1>8, <3>1, <3>2
  <2> QED BY <2>1, <2>2
<1>10. mem_state'[i][k].count = n /\ mem_state'[i][k].reset_at = reset
  BY <1>3
<1>11. AdmittedSince(i, k, mem_state[i][k].reset_at - Window)' = B
  BY <1>10 DEF AdmittedSince
<1> HIDE DEF B
<1> QED BY <1>5, <1>9, <1>10, <1>11 DEF Full

\* Every step keeps every bucket full.
LEMMA FullKept ==
  ASSUME MountInv, [MountNext]_allVars
  PROVE  \A i \in Instances, k \in Keys : Full(i, k)'
<1>1. TypeOK
  BY DEF MountInv, BookInv, LimiterInv
<1>2. CASE UNCHANGED mem_state
  BY <1>2, FullUntouched
<1>3. ASSUME NEW r \in Requests, NEW i \in Instances, NEW k \in Keys,
             CheckMem(r, i, k), decision[r] = None, key'[r] = k, clock' = clock
      PROVE  \A j \in Instances, m \in Keys : Full(j, m)'
  <2>1. Full(i, k)'
    BY <1>3, FullCounts
  <2>2. \A j \in Instances, m \in Keys : <<j, m>> # <<i, k>> => mem_state'[j][m] = mem_state[j][m]
    BY <1>1, <1>3 DEF CheckMem, TypeOK
  <2> QED BY <2>1, <2>2, FullUntouched
<1> QED BY <1>2, <1>3, OneBucket

-----------------------------------------------------------------------------
(* Refusals. *)

\* Who earned a refusal has earned it for good.
LEMMA EarnedKept ==
  ASSUME MountInv, [MountNext]_allVars, NEW r \in Requests, decision[r] # None
  PROVE  /\ Own(r) \subseteq Own(r)' /\ AnswersTo(r)' = AnswersTo(r)
         /\ Cardinality(Own(r)) \in Nat /\ Cardinality(Own(r)') \in Nat
         /\ Cardinality(Own(r)) <= Cardinality(Own(r)')
<1>1. /\ UNCHANGED mount
      /\ \A q \in Requests : decision[q] # None => decision'[q] = decision[q] /\ client'[q] = client[q]
  BY MountStep, MountBooks
<1>2. Own(r) \subseteq Own(r)'
  BY <1>1 DEF Own, Seen
<1>3. AnswersTo(r)' = AnswersTo(r)
  BY <1>1 DEF AnswersTo
<1>4. Own(r) \in SUBSET Requests /\ Own(r)' \in SUBSET Requests
  BY DEF Own
<1> DEFINE A == Own(r)
           B == Own(r)'
<1>5. A \subseteq B /\ A \in SUBSET Requests /\ B \in SUBSET Requests
  BY <1>2, <1>4
<1> HIDE DEF A, B
<1>6. IsFiniteSet(A) /\ IsFiniteSet(B)
  BY <1>5, LimiterAssumption, FS_Subset
<1>7. Cardinality(A) \in Nat /\ Cardinality(B) \in Nat /\ Cardinality(A) <= Cardinality(B)
  BY <1>5, <1>6, FS_Subset, FS_CardinalityType
<1> QED BY <1>2, <1>3, <1>7 DEF A, B

\* A bucket refuses when it is full, of requests of those who share it.
LEMMA EarnsRefusal ==
  ASSUME MountInv, [MountNext]_allVars, NEW r \in Requests, NEW i \in Instances, NEW k \in Keys,
         CheckMem(r, i, k), decision[r] = None, key'[r] = k, clock' = clock, ~decision'[r].allowed
  PROVE  Cardinality(Own(r)') >= MaxRequests
<1> DEFINE e == mem_state[i][k]
           t == e.reset_at - Window
           A == AdmittedSince(i, k, t)
           O == Own(r)'
<1>1. /\ TypeOK /\ LimiterInv /\ clock \in Nat /\ e \in Bucket \cup {None}
      /\ e # None => e.count \in Nat /\ e.reset_at \in Int
      /\ Window \in Nat /\ MaxRequests \in Nat \ {0} /\ IsFiniteSet(Requests)
  <2>1. TypeOK /\ LimiterInv
    BY DEF MountInv, BookInv, LimiterInv
  <2> QED BY <2>1, LimiterAssumption DEF TypeOK, Bucket, Never
<1>2. e # None /\ clock <= e.reset_at /\ e.count + 1 > MaxRequests
      /\ decision'[r].at = clock /\ decision'[r].by = i
  <2> DEFINE fresh == e = None \/ e.reset_at < clock
             n == IF fresh THEN 1 ELSE e.count + 1
  <2>1. decision'[r].allowed = (n <= MaxRequests) /\ decision'[r].at = clock /\ decision'[r].by = i
    BY <1>1 DEF CheckMem, Decide, TypeOK
  <2>2. ~(n <= MaxRequests)
    BY <2>1
  <2>3. ~fresh
    BY <1>1, <2>2
  <2> QED BY <1>1, <2>1, <2>2, <2>3
<1>3. decision'[r] # None
  <2>1. decision'[r] = [allowed |-> e.count + 1 <= MaxRequests, at |-> clock, by |-> i,
                        remaining |-> IF e.count + 1 < MaxRequests THEN MaxRequests - (e.count + 1) ELSE 0]
    BY <1>1, <1>2 DEF CheckMem, Decide, TypeOK
  <2>2. decision'[r] \in Decision
    BY <1>1, <1>2, <2>1 DEF Decision
  <2> QED BY <2>2, BucketAssumption
<1>4. Cardinality(A) >= MaxRequests
  <2>1. Cardinality(A) >= e.count \/ Cardinality(A) >= MaxRequests
    BY <1>2 DEF MountInv, Full
  <2>2. Cardinality(A) \in Nat
    BY <1>1, <1>2, AdmittedKept
  <2> HIDE DEF A, e
  <2> QED BY <1>1, <1>2, <2>1, <2>2
<1>5. client'[r] \in Clients /\ KeyOf(client'[r]) = k /\ UNCHANGED mount
  <2>1. ClientInv(r)' /\ UNCHANGED mount
    BY ClientsKept, MountStep
  <2> QED BY <1>3, <2>1 DEF ClientInv, KeyOf
<1>6. ASSUME NEW q \in A PROVE q \in O
  <2>1. /\ q \in Requests /\ decision[q] # None /\ decision[q].allowed /\ decision[q].by = i
        /\ key[q] = k /\ t <= decision[q].at
    BY DEF AdmittedSince
  <2>2. pc[q] = "done" /\ decision'[q] = decision[q] /\ client'[q] = client[q]
    BY <2>1, MountBooks, MountStep
  <2>3. client[q] \in Clients /\ KeyOf(client[q]) = k
    BY <2>1 DEF MountInv, ClientInv
  <2>4. Seen(client'[q]) = Seen(client'[r])
    BY <1>5, <2>2, <2>3, SharedBucket
  <2>5. decision[q].at \in Nat /\ decision[q].at <= clock
    <3>1. decision[q] \in Decision
      BY <1>1, <2>1 DEF TypeOK
    <3>2. q \in Taken(i, k) /\ Book(i, k) /\ Counter(i, k) = e
      BY <2>1, LimiterAssumption DEF Taken, Counter, MountInv, BookInv
    <3>3. When[q] = decision[q].at
      BY <2>1, <2>2 DEF When
    <3> QED BY <1>2, <3>1, <3>2, <3>3 DEF Book, Decision
  <2>6. decision'[r].at - Window <= decision'[q].at /\ decision'[q].at <= decision'[r].at
    BY <1>1, <1>2, <2>1, <2>2, <2>5
  <2> QED BY <1>2, <1>5, <2>1, <2>2, <2>4, <2>6 DEF Own, Seen
<1>7. O \in SUBSET Requests
  BY DEF Own
<1> HIDE DEF A, O, e
<1>8. IsFiniteSet(O)
  BY <1>1, <1>7, FS_Subset
<1>9. A \subseteq O
  BY <1>6
<1>10. Cardinality(A) \in Nat /\ Cardinality(O) \in Nat /\ Cardinality(A) <= Cardinality(O)
  BY <1>8, <1>9, FS_Subset, FS_CardinalityType
<1>11. Cardinality(O) >= MaxRequests
  BY <1>1, <1>4, <1>10
<1> QED BY <1>11 DEF O

\* Every step keeps refusals earned.
LEMMA RefusalsKept ==
  ASSUME MountInv, [MountNext]_allVars
  PROVE  RefusalIsOwn'
<1> SUFFICES ASSUME NEW r \in Requests, decision'[r] # None, decision'[r].by # Redis,
                    (\E a \in AnswersTo(r) : a.status = "429")'
             PROVE  Cardinality(Own(r)') >= MaxRequests
  BY DEF RefusalIsOwn
<1>1. MaxRequests \in Nat
  BY LimiterAssumption
<1>2. CASE decision[r] # None
  <2>1. decision'[r] = decision[r]
    BY <1>2, MountBooks
  <2>2. Cardinality(Own(r)) >= MaxRequests
    BY <1>2, <2>1, EarnedKept DEF MountInv, RefusalIsOwn
  <2> QED BY <1>1, <1>2, <2>2, EarnedKept
<1>3. CASE decision[r] = None
  <2>1. PICK q \in Requests, i \in Instances, k \in Keys :
          /\ CheckMem(q, i, k) /\ decision[q] = None /\ key'[q] = k /\ clock' = clock
          /\ \A s \in Requests \ {q} : decision'[s] = decision[s]
    BY <1>3, OneBucket
  <2>2. q = r
    BY <1>3, <2>1
  <2>3. ~decision'[r].allowed
    BY DEF AnswersTo, AnswerAsgi, AnswerFastapi, AnswerFlask, AnswerSanic, AnswerDjango, AnswerAiohttp,
           Served, Refused
  <2> QED BY <2>1, <2>2, <2>3, EarnsRefusal
<1> QED BY <1>2, <1>3

-----------------------------------------------------------------------------
\* The inductive invariant: it holds at the start, and every step keeps it.
LEMMA MountInitInv == MountInit => MountInv
<1> SUFFICES ASSUME MountInit PROVE MountInv
  OBVIOUS
<1>1. BookInv
  BY InitBooks DEF MountInit
<1> QED BY <1>1 DEF MountInit, Init, MountInv, ClientInv, Full, RefusalIsOwn

LEMMA MountNextInv == MountInv /\ [MountNext]_allVars => MountInv'
<1> SUFFICES ASSUME MountInv, [MountNext]_allVars PROVE MountInv'
  OBVIOUS
<1>1. BookInv' /\ UNCHANGED mount
  BY MountBooks, MountStep
<1>2. \A i \in Instances, k \in Keys : Full(i, k)'
  BY FullKept
<1>3. RefusalIsOwn'
  BY RefusalsKept
<1> QED BY <1>1, <1>2, <1>3, ClientsKept DEF MountInv

\* Whatever the adapter, a counter admits at most two buckets' worth of requests
\* for a key over any span as long as the window: cut-off requests, the
\* fallback and routes that go past the limiter included (_core.py:88-112).
THEOREM MountedAdmissionIsBounded == MountSpec => []AdmissionBounded
<1>1. MountInv => AdmissionBounded
  BY BooksBoundAdmission DEF MountInv
<1> QED BY <1>1, MountInitInv, MountNextInv, PTL DEF MountSpec

\* Nobody gets a 429 for the requests of others whom the mount can tell from
\* him (_core.py:46-51 and 88-112, asgi.py:90-97).
THEOREM RefusalsAreOwn == MountSpec => []RefusalIsOwn
<1>1. MountInv => RefusalIsOwn
  BY DEF MountInv
<1> QED BY <1>1, MountInitInv, MountNextInv, PTL DEF MountSpec

\* While no Redis command raises and no request is cut off, every bucket in
\* Redis ends, also where requests go past the limiter (_core.py:106-108).
THEOREM MountedBucketsEnd == MountSpec => []BucketEnds
<1>1. MountInit => BucketEnds
  BY DEF MountInit, Init, BucketEnds, Ending
<1>2. ASSUME MountInv, BucketEnds, [MountNext]_allVars PROVE BucketEnds'
  <2>1. LimiterInv
    BY <1>2 DEF MountInv, BookInv
  <2>2. ASSUME NEW r \in Requests, PassBy(r) PROVE BucketEnds'
    BY <1>2, <2>1, <2>2 DEF PassBy, BucketEnds, Ending, LimiterInv, TypeOK
  <2> QED BY <1>2, <2>1, <2>2, MountStep, BucketStep
<1> QED BY <1>1, <1>2, MountInitInv, MountNextInv, PTL DEF MountSpec
=============================================================================

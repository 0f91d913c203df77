------------------------- MODULE UcpProfile_proofs -------------------------
(***************************************************************************)
(* Proofs about what a process builds once (LazyOnce) and about the signed  *)
(* profile that it serves (UcpProfile): any number of calls, getters and    *)
(* lives, any framework, any environments.                                  *)
(***************************************************************************)
EXTENDS UcpProfile, FiniteSetTheorems, TLAPS

-----------------------------------------------------------------------------
(* The getters. *)

\* A lock that is taken has one holder; nobody is woken while it is taken, and
\* somebody is as soon as it is not and somebody waits.
LockInv ==
  /\ \A c \in Calls :
       /\ pc[c] # "idle" => getter[c] \in Getters
       /\ pc[c] \in {"acquiring", "waiting", "holding"} => getter[c] \notin RedisGetters
       /\ pc[c] = "waiting" => getter[c] \in AsyncGetters
       /\ pc[c] = "holding" => getter[c] \in locked
       /\ woken[c] # "no" => pc[c] = "waiting" /\ getter[c] \notin locked
  /\ \A c, d \in Calls : getter[c] = getter[d] =>
       /\ pc[c] = "holding" /\ pc[d] = "holding" => c = d
       /\ woken[c] # "no" /\ woken[d] # "no" => c = d
  /\ \A g \in locked : \E c \in Calls : pc[c] = "holding" /\ getter[c] = g
  /\ \A c \in Calls : pc[c] = "waiting" /\ getter[c] \notin locked =>
       \E d \in Waiting(getter[c]) : woken[d] # "no"

\* A Redis client is sought once, by one call, before anybody has an answer that
\* could differ from it on the same loop.
FlagInv ==
  /\ \A g \in RedisGetters \ attempted : cache[g] = None
  /\ \A c \in Calls :
       /\ pc[c] = "connecting" =>
            getter[c] \in RedisGetters /\ getter[c] \in attempted /\ cache[getter[c]] = None
       /\ pc[c] = "done" /\ getter[c] \in RedisGetters => getter[c] \in attempted
  /\ \A c, d \in Calls : pc[c] = "connecting" /\ getter[d] = getter[c] =>
       /\ pc[d] = "connecting" => c = d
       /\ pc[d] = "done" => ~OneLoop

LazyInv == LazyTypeOK /\ LockInv /\ FlagInv /\ OneInstance

LEMMA LazyInitInv == LazyInit => LazyInv
  BY LazyAssumption DEF LazyInit, LazyInv, LazyTypeOK, LockInv, FlagInv, OneInstance, Waiting

LEMMA LazyStutterInv ==
  ASSUME LazyInv, UNCHANGED lazyVars
  PROVE  LazyInv'
  BY DEF lazyVars, LazyInv, LazyTypeOK, LockInv, FlagInv, OneInstance, Waiting, OneLoop

\* A holder that gives its lock back wakes one that waits, if any does.
LEMMA ReleaseInv ==
  ASSUME LazyInv, NEW c \in Calls, pc[c] = "holding", pc' = [pc EXCEPT ![c] = "done"],
         UNCHANGED getter, Release(c)
  PROVE  /\ LockInv'
         /\ locked' \subseteq Getters /\ woken' \in [Calls -> {"no", "heard", "unheard"}]
<1> DEFINE g == getter[c]
           ws == Waiting(g)
<1>1. /\ g \in Getters \ RedisGetters /\ g \in locked /\ locked' = locked \ {g}
      /\ pc'[c] = "done" /\ \A d \in Calls \ {c} : pc'[d] = pc[d]
      /\ \A d \in Calls : getter[d] = g => woken[d] = "no"
      /\ \A d \in Calls \ {c} : getter[d] = g => pc[d] # "holding"
  BY DEF LazyInv, LazyTypeOK, LockInv, Release
<1>2. ws = {d \in Calls : pc'[d] = "waiting" /\ getter'[d] = g}
  BY <1>1 DEF Waiting, LazyInv, LazyTypeOK
<1>3. \/ ws = {} /\ UNCHANGED woken
      \/ \E w \in ws, h \in {"heard", "unheard"} : woken' = [woken EXCEPT ![w] = h]
  <2>1. CASE g \in AsyncGetters
    BY <1>1, <2>1 DEF Release, WakeUpFirst, Waiting
  <2>2. CASE g \notin AsyncGetters
    BY <1>1, <2>2 DEF Release, Waiting, LazyInv, LockInv
  <2> QED BY <2>1, <2>2
<1>4. woken' \in [Calls -> {"no", "heard", "unheard"}]
  BY <1>3 DEF LazyInv, LazyTypeOK, Waiting
<1>5. \A d \in Calls : woken'[d] # "no" => pc'[d] = "waiting" /\ getter'[d] \notin locked'
  BY <1>1, <1>2, <1>3 DEF LazyInv, LazyTypeOK, LockInv
<1>6. \A d, e \in Calls : getter'[d] = getter'[e] /\ woken'[d] # "no" /\ woken'[e] # "no" => d = e
  BY <1>1, <1>2, <1>3 DEF LazyInv, LazyTypeOK, LockInv
<1>7. \A d \in Calls : pc'[d] = "waiting" /\ getter'[d] \notin locked' =>
         \E e \in Calls : pc'[e] = "waiting" /\ getter'[e] = getter'[d] /\ woken'[e] # "no"
  <2> TAKE d \in Calls
  <2> HAVE pc'[d] = "waiting" /\ getter'[d] \notin locked'
  <2>1. CASE getter[d] = g
    BY <1>2, <1>3, <2>1 DEF LazyInv, LazyTypeOK, Waiting
  <2>2. CASE getter[d] # g
    <3>1. PICK e \in Waiting(getter[d]) : woken[e] # "no"
      BY <1>1, <2>2 DEF LazyInv, LockInv
    <3>2. e # c /\ woken'[e] = woken[e]
      BY <1>3, <2>2, <3>1 DEF Waiting, LazyInv, LazyTypeOK
    <3> QED BY <1>1, <3>1, <3>2 DEF Waiting
  <2> QED BY <2>1, <2>2
<1>8. LockInv'
  <2>1. \A h \in locked' : \E d \in Calls : pc'[d] = "holding" /\ getter'[d] = h
    BY <1>1 DEF LazyInv, LockInv
  <2> QED BY <1>1, <1>5, <1>6, <1>7, <2>1 DEF LockInv, LazyInv, Waiting
<1> QED BY <1>1, <1>4, <1>8 DEF LazyInv, LazyTypeOK

LEMMA LookInv ==
  ASSUME LazyInv, NEW c \in Calls, NEW g \in Getters, Look(c, g)
  PROVE  LazyInv'
<1> USE DEF LazyInv, Look, Done
<1>1. LazyTypeOK'
  BY DEF LazyTypeOK
<1>2. LockInv'
  BY DEF LazyTypeOK, LockInv, Waiting
<1>3. FlagInv'
  BY DEF LazyTypeOK, FlagInv, OneLoop
<1>4. OneInstance'
  BY DEF LazyTypeOK, OneInstance, OneLoop
<1> QED BY <1>1, <1>2, <1>3, <1>4

LEMMA AcquireInv ==
  ASSUME LazyInv, NEW c \in Calls, Acquire(c)
  PROVE  LazyInv'
<1> USE DEF LazyInv, Acquire, Take
<1>1. LazyTypeOK'
  BY DEF LazyTypeOK, LockInv
<1>2. LockInv'
  <2> DEFINE g == getter[c]
  <2>1. g \in Getters \ RedisGetters /\ g \notin locked /\ locked' = locked \cup {g}
        /\ pc'[c] = "holding" /\ \A d \in Calls \ {c} : pc'[d] = pc[d]
    BY DEF LazyTypeOK, LockInv
  <2>2. \A d \in Calls : getter[d] = g => woken[d] = "no" /\ pc[d] # "waiting" /\ pc[d] # "holding"
    BY <2>1 DEF LazyTypeOK, LockInv, Waiting
  <2>3. \A d \in Calls : pc'[d] = "waiting" /\ getter'[d] \notin locked' =>
          \E e \in Waiting(getter[d])' : woken'[e] # "no"
    BY <2>1 DEF LockInv, Waiting
  <2>4. \A h \in locked' : \E d \in Calls : pc'[d] = "holding" /\ getter'[d] = h
    BY <2>1 DEF LockInv
  <2> QED BY <2>1, <2>2, <2>3, <2>4 DEF LazyTypeOK, LockInv
<1>3. FlagInv'
  BY DEF LazyTypeOK, FlagInv, OneLoop
<1>4. OneInstance'
  BY DEF LazyTypeOK, OneInstance, OneLoop
<1> QED BY <1>1, <1>2, <1>3, <1>4

LEMMA QueueInv ==
  ASSUME LazyInv, NEW c \in Calls, Queue(c)
  PROVE  LazyInv'
<1> USE DEF LazyInv, Queue, Done
<1>1. LazyTypeOK'
  BY DEF LazyTypeOK, LockInv, Failed
<1>2. LockInv'
  <2> DEFINE g == getter[c]
  <2>1. /\ g \in AsyncGetters /\ g \in Getters \ RedisGetters /\ pc[c] = "acquiring" /\ woken[c] = "no"
        /\ pc'[c] \in {"waiting", "done"} /\ \A d \in Calls \ {c} : pc'[d] = pc[d]
    BY DEF LazyTypeOK, LockInv
  <2>2. g \notin locked => \E e \in Waiting(g) : woken[e] # "no"
    BY <2>1 DEF LockInv, Waiting
  <2>3. \A h \in Getters : \A e \in Waiting(h) : e \in Waiting(h)'
    BY <2>1 DEF Waiting
  <2>4. \A d \in Calls : pc'[d] = "waiting" /\ getter'[d] \notin locked' =>
          \E e \in Waiting(getter[d])' : woken'[e] # "no"
    BY <2>1, <2>2, <2>3 DEF LockInv
  <2>5. \A h \in locked' : \E d \in Calls : pc'[d] = "holding" /\ getter'[d] = h
    BY <2>1 DEF LockInv
  <2> QED BY <2>1, <2>4, <2>5 DEF LazyTypeOK, LockInv
<1>3. FlagInv'
  BY DEF LazyTypeOK, FlagInv, OneLoop, LockInv
<1>4. OneInstance'
  BY LazyAssumption DEF LazyTypeOK, OneInstance, OneLoop, LockInv
<1> QED BY <1>1, <1>2, <1>3, <1>4

LEMMA ResumeInv ==
  ASSUME LazyInv, NEW c \in Calls, Resume(c)
  PROVE  LazyInv'
<1> USE DEF LazyInv, Resume, Take
<1>1. LazyTypeOK'
  BY DEF LazyTypeOK, LockInv
<1>2. LockInv'
  <2> DEFINE g == getter[c]
  <2>1. /\ g \in Getters \ RedisGetters /\ g \notin locked /\ locked' = locked \cup {g}
        /\ pc'[c] = "holding" /\ \A d \in Calls \ {c} : pc'[d] = pc[d]
        /\ woken'[c] = "no" /\ \A d \in Calls \ {c} : woken'[d] = woken[d]
    BY DEF LazyTypeOK, LockInv
  <2>2. \A d \in Calls \ {c} : getter[d] = g => woken[d] = "no" /\ pc[d] # "holding"
    BY <2>1 DEF LazyTypeOK, LockInv
  <2>3. \A d \in Calls : pc'[d] = "waiting" /\ getter'[d] \notin locked' =>
          \E e \in Waiting(getter[d])' : woken'[e] # "no"
    BY <2>1 DEF LockInv, Waiting
  <2>4. \A h \in locked' : \E d \in Calls : pc'[d] = "holding" /\ getter'[d] = h
    BY <2>1 DEF LockInv
  <2> QED BY <2>1, <2>2, <2>3, <2>4 DEF LazyTypeOK, LockInv
<1>3. FlagInv'
  BY DEF LazyTypeOK, FlagInv, OneLoop
<1>4. OneInstance'
  BY DEF LazyTypeOK, OneInstance, OneLoop
<1> QED BY <1>1, <1>2, <1>3, <1>4

LEMMA RecheckInv ==
  ASSUME LazyInv, NEW c \in Calls, Recheck(c)
  PROVE  LazyInv'
<1> USE DEF LazyInv, Recheck, Done
<1>1. /\ LockInv'
      /\ locked' \subseteq Getters /\ woken' \in [Calls -> {"no", "heard", "unheard"}]
  BY ReleaseInv
<1>2. getter[c] \in Getters \ RedisGetters
  BY DEF LockInv
<1>3. LazyTypeOK'
  BY <1>1, <1>2 DEF LazyTypeOK
<1>4. FlagInv'
  BY <1>2 DEF LazyTypeOK, FlagInv, OneLoop
<1>5. OneInstance'
  BY <1>2 DEF LazyTypeOK, OneInstance, OneLoop
<1> QED BY <1>1, <1>3, <1>4, <1>5

LEMMA ConstructInv ==
  ASSUME LazyInv, NEW c \in Calls, Construct(c)
  PROVE  LazyInv'
<1> USE DEF LazyInv, Construct, Done
<1>1. /\ LockInv'
      /\ locked' \subseteq Getters /\ woken' \in [Calls -> {"no", "heard", "unheard"}]
  BY ReleaseInv
<1>2. getter[c] \in Getters \ RedisGetters
  BY DEF LockInv
<1>3. LazyTypeOK'
  BY <1>1, <1>2 DEF LazyTypeOK
<1>4. FlagInv'
  BY <1>2 DEF LazyTypeOK, FlagInv, OneLoop
<1>5. OneInstance'
  BY <1>2, LazyAssumption DEF LazyTypeOK, OneInstance, OneLoop
<1> QED BY <1>1, <1>3, <1>4, <1>5

LEMMA ConstructRaisesInv ==
  ASSUME LazyInv, NEW c \in Calls, ConstructRaises(c) \/ CancelBuild(c)
  PROVE  LazyInv'
<1> USE DEF LazyInv, ConstructRaises, CancelBuild, Done
<1>1. /\ LockInv'
      /\ locked' \subseteq Getters /\ woken' \in [Calls -> {"no", "heard", "unheard"}]
  BY ReleaseInv
<1>2. getter[c] \in Getters \ RedisGetters
  BY DEF LockInv
<1>3. LazyTypeOK'
  BY <1>1, <1>2 DEF LazyTypeOK, Failed
<1>4. FlagInv'
  BY <1>2 DEF LazyTypeOK, FlagInv, OneLoop
<1>5. OneInstance'
  BY <1>2, LazyAssumption DEF LazyTypeOK, OneInstance, OneLoop
<1> QED BY <1>1, <1>3, <1>4, <1>5

LEMMA CancelWaitInv ==
  ASSUME LazyInv, NEW c \in Calls, CancelWait(c)
  PROVE  LazyInv'
<1> USE DEF LazyInv, CancelWait, Done
<1> DEFINE g == getter[c]
           others == Waiting(g) \ {c}
<1>1. /\ g \in Getters \ RedisGetters /\ pc[c] = "waiting" /\ pc'[c] = "done"
      /\ \A d \in Calls \ {c} : pc'[d] = pc[d]
      /\ UNCHANGED <<getter, locked>>
  BY DEF LazyTypeOK, LockInv
<1>2. others = Waiting(g)'
  BY <1>1 DEF Waiting
<1>3. \/ (g \in locked \/ others = {} \/ woken[c] = "no") /\ woken' = [woken EXCEPT ![c] = "no"]
      \/ /\ g \notin locked /\ woken[c] # "no"
         /\ \E w \in others : woken' = [woken EXCEPT ![c] = "no", ![w] = "heard"]
  OBVIOUS
<1>4. LazyTypeOK'
  BY <1>3 DEF LazyTypeOK, Failed, Waiting
<1>5. LockInv'
  <2>1. \A d \in Calls : woken'[d] # "no" => pc'[d] = "waiting" /\ getter'[d] \notin locked'
    BY <1>1, <1>3 DEF LazyTypeOK, LockInv, Waiting
  <2>2. \A d, e \in Calls : getter'[d] = getter'[e] /\ woken'[d] # "no" /\ woken'[e] # "no" => d = e
    BY <1>1, <1>3 DEF LazyTypeOK, LockInv, Waiting
  <2>3. \A d \in Calls : pc'[d] = "waiting" /\ getter'[d] \notin locked' =>
          \E e \in Waiting(getter[d])' : woken'[e] # "no"
    <3> TAKE d \in Calls
    <3> HAVE pc'[d] = "waiting" /\ getter'[d] \notin locked'
    <3>1. d # c /\ pc[d] = "waiting" /\ getter[d] \notin locked
      BY <1>1
    <3>2. PICK e \in Waiting(getter[d]) : woken[e] # "no"
      BY <3>1 DEF LockInv
    <3>3. CASE getter[d] # g
      BY <1>1, <1>3, <3>2, <3>3 DEF Waiting, LazyTypeOK
    <3>4. CASE getter[d] = g
      <4>1. d \in others
        BY <3>1, <3>4 DEF Waiting
      <4>2. CASE woken[c] = "no"
        BY <1>1, <1>3, <3>1, <3>2, <3>4, <4>2 DEF Waiting, LazyTypeOK
      <4>3. CASE woken[c] # "no"
        BY <1>2, <1>3, <3>1, <3>4, <4>1, <4>3 DEF LazyTypeOK, Waiting
      <4> QED BY <4>2, <4>3
    <3> QED BY <3>3, <3>4
  <2>4. \A h \in locked' : \E d \in Calls : pc'[d] = "holding" /\ getter'[d] = h
    BY <1>1 DEF LockInv
  <2> QED BY <1>1, <2>1, <2>2, <2>3, <2>4 DEF LockInv
<1>6. FlagInv'
  BY <1>1 DEF LazyTypeOK, FlagInv, OneLoop
<1>7. OneInstance'
  BY <1>1, LazyAssumption DEF LazyTypeOK, OneInstance, OneLoop
<1> QED BY <1>4, <1>5, <1>6, <1>7

LEMMA AttemptInv ==
  ASSUME LazyInv, NEW c \in Calls, NEW g \in Getters, Attempt(c, g)
  PROVE  LazyInv'
<1> USE DEF LazyInv, Attempt, Done
<1>1. LazyTypeOK'
  BY DEF LazyTypeOK
<1>2. LockInv'
  BY DEF LazyTypeOK, LockInv, Waiting
<1>3. FlagInv'
  BY DEF LazyTypeOK, FlagInv, OneLoop
<1>4. OneInstance'
  BY DEF LazyTypeOK, OneInstance, OneLoop
<1> QED BY <1>1, <1>2, <1>3, <1>4

LEMMA ConnectInv ==
  ASSUME LazyInv, NEW c \in Calls, Connect(c)
  PROVE  LazyInv'
<1> USE DEF LazyInv, Done
<1> PICK client \in {c, None} : cache' = [cache EXCEPT ![getter[c]] = client] /\ Done(c, client)
  BY DEF Connect
<1>0. /\ pc[c] = "connecting" /\ UNCHANGED <<frame, getter, locked, bound, woken, attempted>>
      /\ getter[c] \in Getters /\ getter[c] \in RedisGetters
  BY DEF Connect, LockInv, FlagInv
<1>1. LazyTypeOK'
  BY <1>0 DEF LazyTypeOK
<1>2. LockInv'
  BY <1>0 DEF LazyTypeOK, LockInv, Waiting
<1>3. FlagInv'
  BY <1>0 DEF LazyTypeOK, FlagInv, OneLoop
<1>4. OneInstance'
  BY <1>0, LazyAssumption DEF LazyTypeOK, FlagInv, OneInstance, OneLoop
<1> QED BY <1>1, <1>2, <1>3, <1>4

\* What a call may do.
LEMMA LazyStepInv ==
  ASSUME LazyInv, NEW c \in Calls, Advance(c) \/ Cancel(c) \/ \E g \in Getters : Look(c, g) \/ Attempt(c, g)
  PROVE  LazyInv'
<1>1. CASE Advance(c)
  BY <1>1, AcquireInv, QueueInv, ResumeInv, RecheckInv, ConstructInv, ConstructRaisesInv, ConnectInv DEF Advance
<1>2. CASE Cancel(c)
  BY <1>2, ConstructRaisesInv, CancelWaitInv DEF Cancel
<1>3. CASE \E g \in Getters : Look(c, g) \/ Attempt(c, g)
  BY <1>3, LookInv, AttemptInv
<1> QED BY <1>1, <1>2, <1>3

\* The invariant of the getters, in a process of nothing else.
THEOREM LazyInvariance == LazySpec => []LazyInv
<1>1. LazyInv /\ [LazyNext]_lazyVars => LazyInv'
  BY LazyStepInv, LazyStutterInv DEF LazyNext
<1> QED BY <1>1, LazyInitInv, PTL DEF LazySpec

\* Whoever is given a server, a key or a client is given the one that is kept.
THEOREM OneOfEach == LazySpec => []OneInstance
<1>1. LazyInv => OneInstance
  BY DEF LazyInv
<1> QED BY <1>1, LazyInvariance, PTL

-----------------------------------------------------------------------------
(* What a verification means, for any profile and any key set. *)

LEMMA NamedIsOne ==
  ASSUME NEW s, NEW keys, IsFiniteSet(DOMAIN keys)
  PROVE  /\ Cardinality(Named(s, keys)) \in Nat
         /\ \A i \in Named(s, keys) :
              ~(Cardinality(Named(s, keys)) > 1) <=> Named(s, keys) = {i}
<1> DEFINE N == Named(s, keys)
<1>1. IsFiniteSet(N)
  BY FS_Subset DEF Named
<1>2. Cardinality(N) \in Nat
  BY <1>1, FS_CardinalityType
<1>3. ASSUME NEW i \in N PROVE ~(Cardinality(N) > 1) <=> N = {i}
  <2>1. Cardinality(N) # 0
    BY <1>1, <1>3, FS_EmptySet
  <2>2. Cardinality(N) = 1 => N = {i}
    BY <1>1, <1>3, FS_Singleton
  <2>3. N = {i} => Cardinality(N) = 1
    BY FS_Singleton
  <2> QED BY <1>2, <2>1, <2>2, <2>3
<1> QED BY <1>2, <1>3

\* The checks, in their order, amount to what a verified profile is to be.
LEMMA VerifyMeans ==
  ASSUME NEW p, NEW keys, IsFiniteSet(DOMAIN keys),
         p.sig.form \in {"none", "junk", "jws"}, p.sig.crit \in {"absent", "malformed", "names"}
  PROVE  Verify(p, keys) = "ok" <=> VouchedFor(p, keys)
<1> DEFINE s == p.sig
           N == Named(s, keys)
           k == keys[CHOOSE i \in N : TRUE]
<1>1. HeaderFault(s) = "ok" <=>
        /\ s.form = "jws" /\ s.typ = "profile" /\ s.alg \in Algs /\ s.kid # NoKid /\ s.crit = "absent"
  BY DEF HeaderFault
<1>2. KeyFault(s, keys) = "ok" <=> N # {} /\ ~(Cardinality(N) > 1) /\ \A i \in N : Usable(keys[i], s)
  BY DEF KeyFault
<1>3. Verify(p, keys) = "ok" <=>
        /\ HeaderFault(s) = "ok" /\ KeyFault(s, keys) = "ok"
        /\ Canonicalises(p.body) /\ k.kind = s.alg /\ k.mat = s.by /\ s.over = p.body
  BY DEF Verify
<1>4. ASSUME NEW i \in DOMAIN keys
      PROVE  N = {i} <=> keys[i].kid = s.kid /\ \A j \in DOMAIN keys \ {i} : keys[j].kid # s.kid
  BY DEF Named
<1>5. ASSUME NEW i \in N, N = {i} PROVE k = keys[i]
  BY <1>5
<1>6. N \subseteq DOMAIN keys
  BY DEF Named
<1>7. ASSUME Verify(p, keys) = "ok" PROVE VouchedFor(p, keys)
  <2>1. PICK i \in N : TRUE
    BY <1>2, <1>3, <1>7
  <2>2. N = {i} /\ k = keys[i]
    BY <1>2, <1>3, <1>5, <1>7, NamedIsOne
  <2>3. i \in DOMAIN keys /\ keys[i].kid = s.kid /\ \A j \in DOMAIN keys \ {i} : keys[j].kid # s.kid
    BY <1>4, <1>6, <2>2
  <2> QED BY <1>1, <1>2, <1>3, <1>7, <2>2, <2>3 DEF VouchedFor, Canonicalises
<1>8. ASSUME VouchedFor(p, keys) PROVE Verify(p, keys) = "ok"
  <2>1. PICK i \in DOMAIN keys :
           /\ keys[i].kid = s.kid /\ s.kid # NoKid
           /\ keys[i].mat = s.by /\ keys[i].kind = s.alg /\ Usable(keys[i], s)
           /\ \A j \in DOMAIN keys \ {i} : keys[j].kid # s.kid
    BY <1>8 DEF VouchedFor
  <2>2. N = {i} /\ i \in N
    BY <1>4, <2>1
  <2>3. k = keys[i] /\ ~(Cardinality(N) > 1)
    BY <1>5, <2>2, NamedIsOne
  <2> QED BY <1>1, <1>2, <1>3, <1>8, <2>1, <2>2, <2>3 DEF VouchedFor, Canonicalises
<1> QED BY <1>7, <1>8

\* What others hand to a verifier is told apart.
LEMMA OthersToldApart == TellsOthersApart
  BY VerifyMeans, UcpAssumption DEF TellsOthersApart

-----------------------------------------------------------------------------
(* The process and the verifier. *)

KeySet == [mat : Materials \cup (Nat \X Calls), kid : Kids, alg : Algs]
Entry(k) == [mat |-> k.mat, kind |-> k.alg, kid |-> k.kid, alg |-> k.alg, use |-> "sig"]

UcpTypeOK ==
  /\ env \in Envs /\ site \in Sites /\ life \in Nat /\ since \in 0..JwksAge
  /\ wants \in [Calls -> {"nothing", "boot", "profile", "jwks", "server"}]
  /\ keyAt \in [Calls -> KeySet \cup {None}]

\* The key of the process: what the environment holds, or what was made up.
InForce(k) ==
  IF env.jwk = "key"
  THEN k = [mat |-> env.mat, kid |-> IF env.kid = NoKid THEN DefaultKid ELSE env.kid, alg |-> env.alg]
  ELSE cache[KeyGetter] # None /\ k = KeyOf(cache[KeyGetter])

\* Who wants a document asks for the key, and the key that is kept is in force.
KeyInv ==
  /\ \A c \in Calls : wants[c] \in {"boot", "profile", "jwks"} => getter[c] = KeyGetter
  /\ cache[KeyGetter] # None => keyAt[cache[KeyGetter]] = KeyOf(cache[KeyGetter])

\* A copy has its age, and was made with the key in force unless it is at least
\* as old as that.
CopyInv(copy, k, max) ==
  copy.age \in 0..(max - 1) /\ (InForce(k) \/ copy.age >= since)

ProfileInv ==
  profile # None => \E k \in KeySet :
    /\ profile = [doc |-> SignUcpProfile(k, BuildUcpProfile(site)), age |-> profile.age]
    /\ Canonicalises(BuildUcpProfile(site))
    /\ CopyInv(profile, k, ProfileAge)

JwksInv ==
  jwks # None => \E k \in KeySet :
    /\ jwks = [doc |-> <<Entry(k)>>, age |-> jwks.age]
    /\ CopyInv(jwks, k, JwksAge)

UcpInv == LazyInv /\ UcpTypeOK /\ KeyInv /\ ProfileInv /\ JwksInv

LEMMA KeyOfType ==
  ASSUME UcpTypeOK, NEW c \in Calls
  PROVE  KeyOf(c) \in KeySet
<1>1. env \in EnvSet /\ DefaultKid \in Kids
  BY UcpAssumption DEF UcpTypeOK
<1> QED BY <1>1 DEF UcpTypeOK, KeyOf, KeySet, EnvSet

\* A key stays in force while the process lives.
LEMMA StaysInForce ==
  ASSUME NEW k, UNCHANGED <<env, life>>,
         cache[KeyGetter] # None => cache'[KeyGetter] = cache[KeyGetter], InForce(k)
  PROVE  InForce(k)'
  BY DEF InForce, KeyOf

\* The copies, while nothing is fetched and no time goes by.
LEMMA CopiesKeep ==
  ASSUME ProfileInv, JwksInv, UNCHANGED <<env, site, life, profile, jwks, since>>,
         cache[KeyGetter] # None => cache'[KeyGetter] = cache[KeyGetter]
  PROVE  ProfileInv' /\ JwksInv'
<1>1. ASSUME NEW k, InForce(k) PROVE InForce(k)'
  BY <1>1, StaysInForce
<1>2. ProfileInv'
  BY <1>1 DEF ProfileInv, CopyInv
<1>3. JwksInv'
  BY <1>1 DEF JwksInv, CopyInv
<1> QED BY <1>2, <1>3

LEMMA UcpInitInv == UcpInit => UcpInv
<1> SUFFICES ASSUME UcpInit PROVE UcpInv
  OBVIOUS
<1> USE DEF UcpInit
<1>1. LazyInv
  BY LazyInitInv
<1>2. UcpTypeOK
  BY UcpAssumption DEF UcpTypeOK, NoCalls
<1>3. KeyInv
  BY UcpAssumption DEF KeyInv, LazyInit
<1> QED BY <1>1, <1>2, <1>3 DEF UcpInv, ProfileInv, JwksInv

\* A call of a getter that leaves the key alone.
LEMMA GetterStep ==
  ASSUME UcpInv, LazyInv', UNCHANGED ucpVars, UNCHANGED getter, cache'[KeyGetter] = cache[KeyGetter]
  PROVE  UcpInv'
<1> USE DEF UcpInv, ucpVars
<1>1. UcpTypeOK' /\ KeyInv'
  BY DEF UcpTypeOK, KeyInv, KeyOf
<1> QED BY <1>1, CopiesKeep

LEMMA BuildEnvSigningKeyInv ==
  ASSUME UcpInv, NEW c \in Calls, BuildEnvSigningKey(c)
  PROVE  UcpInv'
<1> USE DEF UcpInv, BuildEnvSigningKey
<1>1. LazyInv'
  BY ConstructInv, ConstructRaisesInv
<1>2. CASE Construct(c) /\ keyAt' = [keyAt EXCEPT ![c] = KeyOf(c)]
  <2>1. /\ cache[KeyGetter] = None /\ cache'[KeyGetter] = c /\ UNCHANGED getter
        /\ keyAt'[c] = KeyOf(c) /\ KeyOf(c)' = KeyOf(c)
    BY <1>2, UcpAssumption DEF Construct, LazyInv, LazyTypeOK, UcpTypeOK, KeyOf
  <2>2. UcpTypeOK'
    BY <1>2, KeyOfType DEF UcpTypeOK
  <2>3. KeyInv'
    BY <2>1 DEF KeyInv
  <2> QED BY <1>1, <2>1, <2>2, <2>3, CopiesKeep
<1>3. CASE ConstructRaises(c) /\ UNCHANGED keyAt
  <2>1. UNCHANGED <<cache, getter>>
    BY <1>3 DEF ConstructRaises
  <2> QED BY <1>1, <1>3, <2>1, GetterStep DEF ucpVars
<1> QED BY <1>2, <1>3

\* A request that is over leaves the getters as they are.
LEMMA EndLazyInv ==
  ASSUME LazyInv, NEW c \in Calls, pc[c] = "done", End(c)
  PROVE  LazyInv'
<1> USE DEF LazyInv, End
<1>1. LazyTypeOK'
  BY DEF LazyTypeOK
<1>2. LockInv'
  BY LazyAssumption DEF LazyTypeOK, LockInv, Waiting
<1>3. FlagInv'
  BY LazyAssumption DEF LazyTypeOK, LockInv, FlagInv, OneLoop
<1>4. OneInstance'
  BY DEF LazyTypeOK, OneInstance, OneLoop
<1> QED BY <1>1, <1>2, <1>3, <1>4

LEMMA EndInv ==
  ASSUME UcpInv, NEW c \in Calls, pc[c] = "done", End(c), ProfileInv', JwksInv'
  PROVE  UcpInv'
<1> USE DEF UcpInv
<1>1. LazyInv'
  BY EndLazyInv
<1>2. UcpTypeOK'
  BY DEF End, UcpTypeOK
<1>3. KeyInv'
  BY DEF End, KeyInv, KeyOf, UcpTypeOK, LazyInv, LazyTypeOK
<1> QED BY <1>1, <1>2, <1>3

\* What a request that wanted a document was given is the key in force.
LEMMA GivenInForce ==
  ASSUME UcpInv, NEW c \in Calls, pc[c] = "done", wants[c] \in {"profile", "jwks"}, got[c] \in Calls
  PROVE  keyAt[got[c]] \in KeySet /\ InForce(keyAt[got[c]])
<1>1. got[c] = cache[KeyGetter]
  BY DEF UcpInv, KeyInv, LazyInv, OneInstance
<1>2. got[c] # None
  BY LazyAssumption
<1>3. keyAt[got[c]] = KeyOf(got[c])
  BY <1>1, <1>2 DEF UcpInv, KeyInv
<1> QED BY <1>1, <1>2, <1>3, KeyOfType DEF UcpInv, InForce, KeyOf

LEMMA ServeInv ==
  ASSUME UcpInv, NEW c \in Calls, ServeProfile(c) \/ ServeJwks(c) \/ Booted(c) \/ KeyFails(c)
  PROVE  UcpInv'
<1> DEFINE b == BuildUcpProfile(site)
<1>1. pc[c] = "done" /\ End(c) /\ UNCHANGED <<cache, env, site, life, since>>
  BY DEF ServeProfile, ServeJwks, Booted, KeyFails, End
<1>2. ASSUME NEW q, InForce(q) PROVE InForce(q)'
  BY <1>1, <1>2, StaysInForce
<1>3. UNCHANGED profile => ProfileInv'
  BY <1>1, <1>2 DEF UcpInv, ProfileInv, CopyInv
<1>4. UNCHANGED jwks => JwksInv'
  BY <1>1, <1>2 DEF UcpInv, JwksInv, CopyInv
<1>5. CASE ServeProfile(c)
  <2>0. PICK k \in KeySet : k = keyAt[got[c]] /\ InForce(k)
    BY <1>5, GivenInForce DEF ServeProfile
  <2>1. InForce(k)'
    BY <1>2, <2>0
  <2>2. CASE profile' = Fresh(SignUcpProfile(k, b)) /\ Canonicalises(b)
    <3>1. 0 \in 0..(ProfileAge - 1)
      BY UcpAssumption
    <3>2. profile' = [doc |-> SignUcpProfile(k, b), age |-> profile'.age] /\ profile'.age = 0
      BY <2>2 DEF Fresh
    <3>3. CopyInv(profile, k, ProfileAge)'
      BY <2>1, <3>1, <3>2 DEF CopyInv
    <3>4. ProfileInv'
      BY <1>1, <2>1, <2>2, <3>2, <3>3 DEF ProfileInv
    <3> QED BY <1>1, <1>4, <1>5, <3>4, EndInv DEF ServeProfile
  <2>3. CASE UNCHANGED profile
    BY <1>1, <1>3, <1>4, <1>5, <2>3, EndInv DEF ServeProfile
  <2> QED BY <1>5, <2>0, <2>2, <2>3 DEF ServeProfile
<1>6. CASE ServeJwks(c)
  <2>0. PICK k \in KeySet : k = keyAt[got[c]] /\ InForce(k)
    BY <1>6, GivenInForce DEF ServeJwks
  <2>1. InForce(k)'
    BY <1>2, <2>0
  <2>2. 0 \in 0..(JwksAge - 1)
    BY UcpAssumption
  <2>3. jwks' = [doc |-> <<Entry(k)>>, age |-> jwks'.age] /\ jwks'.age = 0
    BY <1>6, <2>0 DEF ServeJwks, Fresh, BuildJwksResponse, Entry
  <2>4. CopyInv(jwks, k, JwksAge)'
    BY <2>1, <2>2, <2>3 DEF CopyInv
  <2>5. JwksInv'
    BY <2>1, <2>3, <2>4 DEF JwksInv
  <2> QED BY <1>1, <1>3, <1>6, <2>5, EndInv DEF ServeJwks
<1>7. CASE Booted(c) \/ KeyFails(c)
  BY <1>1, <1>3, <1>4, <1>7, EndInv DEF Booted, KeyFails
<1> QED BY <1>5, <1>6, <1>7

\* A request that comes, and asks for a getter.
LEMMA AskInv ==
  ASSUME UcpInv, NEW c \in Calls, NEW w \in {"boot", "profile", "jwks", "server"}, Ask(c, w)
  PROVE  UcpInv'
<1> USE DEF UcpInv
<1>1. \/ Look(c, KeyGetter)
      \/ w = "server" /\ \E g \in Getters \ {KeyGetter} : Look(c, g) \/ Attempt(c, g)
  BY DEF Ask
<1>2. LazyInv'
  BY <1>1, LookInv, AttemptInv, UcpAssumption
<1>3. /\ UNCHANGED <<cache, env, site, life, over, keyAt, profile, jwks, since>>
      /\ wants' = [wants EXCEPT ![c] = w]
      /\ w # "server" => getter'[c] = KeyGetter
      /\ \A d \in Calls \ {c} : getter'[d] = getter[d]
  BY <1>1, UcpAssumption DEF Ask, Look, Attempt, LazyInv, LazyTypeOK
<1>4. UcpTypeOK'
  BY <1>3 DEF UcpTypeOK
<1>5. KeyInv'
  BY <1>3 DEF KeyInv, KeyOf, UcpTypeOK
<1> QED BY <1>2, <1>3, <1>4, <1>5, CopiesKeep

\* A request that is answered without the key.
LEMMA AnsweredAtOnceInv ==
  ASSUME UcpInv, NEW c \in Calls, AnsweredAtOnce(c)
  PROVE  UcpInv'
<1> USE DEF UcpInv, AnsweredAtOnce
<1>1. LazyInv'
  BY LazyStutterInv
<1>2. UNCHANGED <<cache, getter>>
  BY DEF lazyVars
<1>3. UcpTypeOK' /\ KeyInv'
  BY <1>2 DEF UcpTypeOK, KeyInv, KeyOf
<1> QED BY <1>1, <1>2, <1>3, CopiesKeep

LEMMA ProceedInv ==
  ASSUME UcpInv, NEW c \in Calls, Proceed(c)
  PROVE  UcpInv'
<1>1. CASE BuildEnvSigningKey(c)
  BY <1>1, BuildEnvSigningKeyInv
<1>2. CASE /\ Acquire(c) \/ Queue(c) \/ Resume(c) \/ Recheck(c)
           /\ UNCHANGED ucpVars
  <2>1. LazyInv' /\ UNCHANGED <<getter, cache>>
    BY <1>2, AcquireInv, QueueInv, ResumeInv, RecheckInv DEF UcpInv, Acquire, Queue, Resume, Recheck
  <2> QED BY <1>2, <2>1, GetterStep
<1>3. CASE Connect(c) /\ UNCHANGED ucpVars
  <2>1. getter[c] # KeyGetter /\ LazyInv'
    BY <1>3, ConnectInv, UcpAssumption DEF UcpInv, LazyInv, FlagInv, Connect
  <2>2. cache'[KeyGetter] = cache[KeyGetter] /\ UNCHANGED getter
    BY <1>3, <2>1, UcpAssumption DEF Connect, UcpInv, LazyInv, LazyTypeOK
  <2> QED BY <1>3, <2>1, <2>2, GetterStep
<1>4. CASE getter[c] # KeyGetter /\ (Construct(c) \/ ConstructRaises(c)) /\ UNCHANGED ucpVars
  <2>1. LazyInv'
    BY <1>4, ConstructInv, ConstructRaisesInv DEF UcpInv
  <2>2. cache'[KeyGetter] = cache[KeyGetter] /\ UNCHANGED getter
    BY <1>4, UcpAssumption DEF Construct, ConstructRaises, UcpInv, LazyInv, LazyTypeOK
  <2> QED BY <1>4, <2>1, <2>2, GetterStep
<1>5. CASE ServeProfile(c) \/ ServeJwks(c) \/ Booted(c) \/ KeyFails(c)
  BY <1>5, ServeInv
<1> QED BY <1>1, <1>2, <1>3, <1>4, <1>5 DEF Proceed

LEMMA CancelInv ==
  ASSUME UcpInv, NEW c \in Calls, Cancel(c), UNCHANGED ucpVars
  PROVE  UcpInv'
<1>1. LazyInv'
  BY LazyStepInv DEF UcpInv
<1>2. UNCHANGED <<getter, cache>>
  BY DEF Cancel, CancelBuild, CancelWait
<1> QED BY <1>1, <1>2, GetterStep

\* A copy that has aged by a tick is in its time still, and no younger than
\* the key.
LEMMA AgedCopy ==
  ASSUME NEW max \in Nat \ {0}, max <= JwksAge, NEW n \in 0..(max - 1), UcpTypeOK,
         n + 1 < max, Tick
  PROVE  n + 1 \in 0..(max - 1) /\ (n >= since => n + 1 >= since')
  BY UcpAssumption DEF UcpTypeOK, Tick

LEMMA TickInv ==
  ASSUME UcpInv, Tick
  PROVE  UcpInv'
<1> USE DEF UcpInv
<1>1. LazyInv'
  BY LazyStutterInv DEF Tick
<1>2. UNCHANGED <<cache, getter, env, site, life, wants, keyAt>>
  BY DEF Tick, lazyVars
<1>3. UcpTypeOK'
  BY <1>2, UcpAssumption DEF UcpTypeOK, Tick
<1>4. KeyInv'
  BY <1>2 DEF KeyInv, KeyOf
<1>5. ASSUME NEW q, InForce(q) PROVE InForce(q)'
  BY <1>2, <1>5, StaysInForce
<1>6. ProfileInv'
  <2> SUFFICES ASSUME profile' # None PROVE ProfileInv'
    BY DEF ProfileInv
  <2>1. profile # None /\ profile' = [profile EXCEPT !.age = @ + 1] /\ ~(profile.age + 1 >= ProfileAge)
    BY DEF Tick, Aged
  <2>2. PICK k \in KeySet :
           /\ profile = [doc |-> SignUcpProfile(k, BuildUcpProfile(site)), age |-> profile.age]
           /\ Canonicalises(BuildUcpProfile(site))
           /\ CopyInv(profile, k, ProfileAge)
    BY <2>1 DEF ProfileInv
  <2>3. profile' = [doc |-> SignUcpProfile(k, BuildUcpProfile(site)), age |-> profile.age + 1]
    BY <2>1, <2>2
  <2>4. profile'.age = profile.age + 1
    BY <2>3
  <2>5. CopyInv(profile, k, ProfileAge)'
    BY <1>5, <2>1, <2>2, <2>4, AgedCopy, UcpAssumption DEF CopyInv
  <2> QED BY <1>2, <2>2, <2>3, <2>4, <2>5 DEF ProfileInv
<1>7. JwksInv'
  <2> SUFFICES ASSUME jwks' # None PROVE JwksInv'
    BY DEF JwksInv
  <2>1. jwks # None /\ jwks' = [jwks EXCEPT !.age = @ + 1] /\ ~(jwks.age + 1 >= JwksAge)
    BY DEF Tick, Aged
  <2>2. PICK k \in KeySet : jwks = [doc |-> <<Entry(k)>>, age |-> jwks.age] /\ CopyInv(jwks, k, JwksAge)
    BY <2>1 DEF JwksInv
  <2>3. jwks' = [doc |-> <<Entry(k)>>, age |-> jwks.age + 1]
    BY <2>1, <2>2
  <2>4. jwks'.age = jwks.age + 1
    BY <2>3
  <2>5. CopyInv(jwks, k, JwksAge)'
    BY <1>5, <2>1, <2>2, <2>4, AgedCopy, UcpAssumption DEF CopyInv
  <2> QED BY <2>2, <2>3, <2>4, <2>5 DEF JwksInv
<1> QED BY <1>1, <1>3, <1>4, <1>6, <1>7

\* A restart keeps the key, or every copy is as old as the new one.
LEMMA RestartInv ==
  ASSUME UcpInv, Restart
  PROVE  UcpInv'
<1> USE DEF UcpInv, Restart
<1>1. LazyInv'
  BY LazyAssumption DEF LazyInv, LazyTypeOK, LockInv, FlagInv, OneInstance, Waiting, NoCalls, NoGetter
<1>2. UcpTypeOK' /\ KeyInv'
  BY UcpAssumption DEF UcpTypeOK, KeyInv, NoCalls, NoGetter
<1>3. ASSUME NEW copy, NEW k, NEW max \in Nat, copy.age \in 0..(max - 1), InForce(k) \/ copy.age >= since
      PROVE  InForce(k)' \/ copy.age >= since'
  <2>1. CASE env' = env /\ env.jwk = "key"
    BY <1>3, <2>1 DEF InForce
  <2>2. CASE ~(env' = env /\ env.jwk = "key")
    BY <1>3, <2>2
  <2> QED BY <2>1, <2>2
<1>4. ProfileInv'
  BY <1>3, UcpAssumption DEF ProfileInv, CopyInv
<1>5. JwksInv'
  BY <1>3, UcpAssumption DEF JwksInv, CopyInv
<1> QED BY <1>1, <1>2, <1>4, <1>5

LEMMA UcpNextInv == UcpInv /\ [Next]_vars => UcpInv'
<1> SUFFICES ASSUME UcpInv, [Next]_vars PROVE UcpInv'
  OBVIOUS
<1>1. ASSUME NEW c \in Calls, Proceed(c) PROVE UcpInv'
  BY <1>1, ProceedInv
<1>2. ASSUME NEW c \in Calls, Misconfigured(c) \/ Preflight(c) PROVE UcpInv'
  BY <1>2, AnsweredAtOnceInv DEF Misconfigured, Preflight
<1>3. ASSUME NEW c \in Calls, NEW w \in {"boot", "profile", "jwks", "server"}, Ask(c, w) PROVE UcpInv'
  BY <1>3, AskInv
<1>4. ASSUME NEW c \in Calls, Cancel(c), UNCHANGED ucpVars PROVE UcpInv'
  BY <1>4, CancelInv
<1>5. CASE Tick
  BY <1>5, TickInv
<1>6. CASE Restart
  BY <1>6, RestartInv
<1>7. CASE UNCHANGED vars
  <2>1. LazyInv' /\ UNCHANGED ucpVars /\ UNCHANGED <<getter, cache>>
    BY <1>7, LazyStutterInv DEF UcpInv, vars, lazyVars
  <2> QED BY <2>1, GetterStep
<1> QED BY <1>1, <1>2, <1>3, <1>4, <1>5, <1>6, <1>7 DEF Next

\* The invariant of the process and of the verifier's copies.
THEOREM UcpInvariance == Spec => []UcpInv
  BY UcpInitInv, UcpNextInv, PTL DEF Spec

\* Across lives, too, whoever is given a server, a key or a client is given the
\* one that its process keeps.
THEOREM OneOfEachPerLife == Spec => []OneInstance
<1>1. UcpInv => OneInstance
  BY DEF UcpInv, LazyInv
<1> QED BY <1>1, UcpInvariance, PTL

\* No lock is left taken without a holder, and nobody waits for one that is free
\* without a wakeup under way: the safety that EveryCallerAnswered rests on.
THEOREM LocksAreHeld == Spec => []LockInv
<1>1. UcpInv => LockInv
  BY DEF UcpInv, LazyInv
<1> QED BY <1>1, UcpInvariance, PTL

\* What was signed with a key has the shape of a signature of a profile.
LEMMA OwnParts ==
  ASSUME UcpInv, profile # None
  PROVE  /\ profile.doc.sig.form = "jws" /\ profile.doc.sig.crit = "absent"
         /\ profile.doc.sig.typ = "profile" /\ profile.doc.sig.alg \in Algs /\ profile.doc.sig.kid # NoKid
  BY UcpAssumption DEF UcpInv, ProfileInv, SignUcpProfile, KeySet

\* A verified profile is as one is supposed to be, whoever hands it over, and
\* one that is so is verified.
THEOREM VerifiedAsSigned == Spec => []OkOnlyAsSigned
<1>1. UcpInv => OkOnlyAsSigned
  <2> SUFFICES ASSUME UcpInv, profile # None,
                      NEW keys \in ForeignKeySets \cup IF jwks = None THEN {} ELSE {jwks.doc}
               PROVE  Verify(profile.doc, keys) = "ok" <=> VouchedFor(profile.doc, keys)
    BY OthersToldApart DEF OkOnlyAsSigned
  <2>1. jwks # None => DOMAIN jwks.doc = {1}
    BY DEF UcpInv, JwksInv
  <2>2. IsFiniteSet({1})
    BY FS_Singleton
  <2>3. IsFiniteSet(DOMAIN keys)
    BY <2>1, <2>2, UcpAssumption
  <2> QED BY <2>3, OwnParts, VerifyMeans
<1> QED BY <1>1, UcpInvariance, PTL

\* A key that has been in place for the life of a key set heals every failure
\* that a rotation brought, and a rotation brings no other.
THEOREM RotationsHeal == Spec => []RotationHeals
<1>1. UcpInv => RotationHeals
  <2> SUFFICES ASSUME UcpInv, profile # None, jwks # None
               PROVE  LET code == Verify(profile.doc, jwks.doc) IN
                      \/ code = "ok"
                      \/ code \in {"kid_not_found", "unusable_key", "signature_invalid"} /\ since < JwksAge
                      \/ code = "body_mismatch" /\ profile.doc.body.services = "string_keys"
    BY DEF RotationHeals
  <2> DEFINE b == BuildUcpProfile(site)
             p == profile.doc
             s == p.sig
             keys == jwks.doc
  <2>1. PICK k \in KeySet :
           /\ profile = [doc |-> SignUcpProfile(k, b), age |-> profile.age]
           /\ Canonicalises(b) /\ CopyInv(profile, k, ProfileAge)
    BY DEF UcpInv, ProfileInv
  <2>2. PICK j \in KeySet : jwks = [doc |-> <<Entry(j)>>, age |-> jwks.age] /\ CopyInv(jwks, j, JwksAge)
    BY DEF UcpInv, JwksInv
  <2>3. /\ p.body = Received(b) /\ s.kid = k.kid /\ s.alg = k.alg /\ s.by = k.mat /\ s.over = b
        /\ keys = <<Entry(j)>> /\ keys[1] = Entry(j) /\ DOMAIN keys = {1}
    BY <2>1, <2>2 DEF SignUcpProfile
  <2>4. HeaderFault(s) = "ok"
    BY OwnParts DEF HeaderFault
  <2>5. Named(s, keys) = IF j.kid = k.kid THEN {1} ELSE {}
    BY <2>3 DEF Named, Entry
  <2>6. ~(Cardinality({1}) > 1)
    BY FS_Singleton
  <2>7. KeyFault(s, keys) = IF j.kid # k.kid THEN "kid_not_found"
                            ELSE IF j.alg # k.alg THEN "unusable_key" ELSE "ok"
    <3>1. Usable(keys[1], s) <=> j.alg = k.alg \/ j.alg = None
      BY <2>3 DEF Usable, Entry
    <3>2. j.alg # None
      BY UcpAssumption DEF KeySet
    <3> QED BY <2>5, <2>6, <3>1, <3>2 DEF KeyFault
  <2>8. Canonicalises(p.body) /\ (b # p.body => p.body.services = "string_keys")
    BY <2>1, <2>3 DEF Canonicalises, Received, BuildUcpProfile
  <2>9. Verify(p, keys) = IF j.kid # k.kid THEN "kid_not_found"
                          ELSE IF j.alg # k.alg THEN "unusable_key"
                          ELSE IF j.mat # k.mat THEN "signature_invalid"
                          ELSE IF b # p.body THEN "body_mismatch" ELSE "ok"
    <3>1. j.kid = k.kid => /\ keys[CHOOSE i \in Named(s, keys) : TRUE].mat = j.mat
                           /\ keys[CHOOSE i \in Named(s, keys) : TRUE].kind = j.alg
      BY <2>3, <2>5 DEF Entry
    <3> QED BY <2>3, <2>4, <2>7, <2>8, <3>1 DEF Verify
  <2>10. j # k => since < JwksAge
    <3>1. InForce(j) /\ InForce(k) => j = k
      BY DEF InForce
    <3> QED BY <2>1, <2>2, <3>1, UcpAssumption DEF CopyInv, UcpInv, UcpTypeOK
  <2> QED BY <2>8, <2>9, <2>10
<1> QED BY <1>1, UcpInvariance, PTL
=============================================================================

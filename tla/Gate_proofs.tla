---------------------------- MODULE Gate_proofs ----------------------------
(***************************************************************************)
(* Proofs about the identity gate: any adapter, any number of requests, any *)
(* order of questions and answers, any size and lifetime of the cache.      *)
(***************************************************************************)
EXTENDS Gate, TLAPS

\* What the request went by was ruled for the key of its own identity, and
\* not too long ago.
Informed(r) ==
  known[r] # None =>
    /\ known[r] \in Known /\ known[r].age <= Ttl + Timeout
    /\ Key(known[r].answer.about) = Key(carried[r])

\* Where the handling of a request is tells what it holds.
Stage(r) ==
  /\ pc[r] = "idle" => carried[r] = None
  /\ pc[r] # "idle" => carried[r] \in Arrivals
  /\ pc[r] # "done" => outcome[r] = None /\ degraded[r] = None /\ verdict[r] = None /\ raised[r] = None
  /\ pc[r] \in {"idle", "asking"} => known[r] = None
  /\ r \in asked \/ reply[r] # None => pc[r] = "asking"
  /\ reply[r] # None => reply[r].about = carried[r] /\ r \notin asked
  /\ pc[r] = "asking" => Fires(carried[r]) /\ ~NoIdentity(carried[r])
  /\ pc[r] = "minting" =>
       /\ Fires(carried[r])
       /\ NoIdentity(carried[r]) => ~setup.fail_open /\ known[r] = None
       /\ ~NoIdentity(carried[r]) => known[r] # None /\ ~Permits(known[r].answer.ruling)

\* What let a request through, and the verdict it was given.
Ended(r) ==
  /\ outcome[r] = "pass" /\ Gated(r) =>
       /\ Permitted(r) \/ (setup.fail_open /\ (Unanswered(r) \/ DenialLost(r)))
       /\ Marked(r)
  /\ verdict[r] # None => known[r] # None /\ verdict[r] = known[r].answer /\ SignerOf(carried[r]) # None
  /\ r \in captured => outcome[r] = "pass" /\ Gated(r) /\ carried[r].token # None

\* An entry answers the question it is kept under.
CacheInv == \A k \in Keys : store[k] # None => Key(store[k].answer.about) = k

GateInv == TypeOK /\ CacheInv /\ \A r \in Requests : Informed(r) /\ Stage(r) /\ Ended(r)

-----------------------------------------------------------------------------
(* Keys. *)

\* What an arrival is made of, and that its key is one.
LEMMA ArrivalParts ==
  ASSUME NEW a \in Arrivals
  PROVE  /\ a.token \in Tokens \cup {None} /\ a.wallet \in Wallets \cup {None}
         /\ SignerOf(a) \in Signers \cup {None}
         /\ ~NoIdentity(a) => Key(a) \in Keys
  BY AssessAssumption DEF SignerOf, Key, Keys, NoIdentity

\* Requests of one key have one token or one wallet, and one signer if any.
LEMMA SameKey ==
  ASSUME NEW a \in Arrivals, NEW b \in Arrivals, Key(a) = Key(b)
  PROVE  /\ SignerOf(a) = SignerOf(b)
         /\ b.token # None => a.token = b.token
         /\ b.token = None /\ b.wallet # None => a.token = None /\ a.wallet = b.wallet
<1>1. /\ a.token \in Tokens \cup {None} /\ a.wallet \in Wallets \cup {None}
      /\ b.token \in Tokens \cup {None} /\ b.wallet \in Wallets \cup {None}
      /\ None \notin Tokens \cup Wallets /\ Tokens \cap Wallets = {}
  BY AssessAssumption, ArrivalParts
<1>2. (IF a.token # None THEN a.token ELSE a.wallet) = (IF b.token # None THEN b.token ELSE b.wallet)
      /\ SignerOf(a) = SignerOf(b)
  BY DEF Key
<1> QED BY <1>1, <1>2

-----------------------------------------------------------------------------
(* Parts of steps. *)

\* The requests a step is not about.
LEMMA Bystander ==
  ASSUME GateInv, NEW s \in Requests, UNCHANGED setup,
         carried'[s] = carried[s], (s \in asked') = (s \in asked), known'[s] = known[s], raised'[s] = raised[s],
         reply'[s] # None => reply[s] # None /\ reply'[s].about = reply[s].about,
         pc'[s] = pc[s], outcome'[s] = outcome[s], degraded'[s] = degraded[s], verdict'[s] = verdict[s],
         (s \in captured') = (s \in captured)
  PROVE  Informed(s)' /\ Stage(s)' /\ Ended(s)'
<1>1. Informed(s) /\ Stage(s) /\ Ended(s)
  BY DEF GateInv
<1>2. Informed(s)'
  BY <1>1 DEF Informed
<1>3. Stage(s)'
  BY <1>1 DEF Stage, Fires
<1>4. Ended(s)'
  BY <1>1 DEF Ended, Gated, Fires, Permitted, Answered, Unanswered, DenialLost, Marked
<1> QED BY <1>2, <1>3, <1>4

\* The ways a denial inside the try block can end.
LEMMA DenyInTryEnds ==
  ASSUME TypeOK, NEW r \in Requests, NEW code \in Codes, DenyInTry(r, code)
  PROVE  /\ UNCHANGED verdict
         /\ \/ (\E o \in Codes \cup {"crash"} : End(r, o)) /\ UNCHANGED degraded
            \/ /\ End(r, "pass") /\ degraded' = [degraded EXCEPT ![r] = "api_error"]
               /\ setup.fail_open /\ setup.on_denied = "custom" /\ setup.frame \in {"flask", "sanic"}
<1>1. setup.frame \in Frames
  BY GateAssumption DEF TypeOK
<1>2. setup.frame \notin {"flask", "sanic"} => Catches = {}
  BY <1>1 DEF Catches, Frames, FastapiCatches, AiohttpCatches, DjangoCatches, AsgiCatches
<1>3. "api_error" \in Codes
  BY DEF Codes, Failures
<1> QED BY <1>2, <1>3 DEF DenyInTry, Deny, PassDegraded

\* A denial outside it.
LEMMA DenyEnds ==
  ASSUME NEW r \in Requests, NEW code \in Codes, Deny(r, code)
  PROVE  UNCHANGED <<degraded, verdict>> /\ \E o \in Codes \cup {"crash"} : End(r, o)
  BY DEF Deny

\* Ends keep the types.
LEMMA EndType ==
  ASSUME TypeOK, NEW r \in Requests, NEW o \in Codes \cup {"pass", "crash"}, End(r, o)
  PROVE  /\ pc' \in [Requests -> {"idle", "asking", "minting", "done"}]
         /\ outcome' \in [Requests -> Codes \cup {"pass", "crash", None}]
         /\ pc'[r] = "done" /\ outcome'[r] = o
         /\ \A s \in Requests \ {r} : pc'[s] = pc[s] /\ outcome'[s] = outcome[s]
  BY DEF TypeOK, End

\* A gate that has an answer concludes within what the properties allow.
LEMMA ConcludeInv ==
  ASSUME GateInv, NEW r \in Requests, NEW a \in Arrivals, Conclude(r, a), UNCHANGED <<setup, captured>>,
         pc[r] \in {"idle", "asking"}, Fires(a), ~NoIdentity(a), carried'[r] = a,
         r \notin asked', reply'[r] = None, raised'[r] = None,
         known'[r] # None, Informed(r)'
  PROVE  /\ pc' \in [Requests -> {"idle", "asking", "minting", "done"}]
         /\ outcome' \in [Requests -> Codes \cup {"pass", "crash", None}]
         /\ degraded' \in [Requests -> Failures \cup {None}]
         /\ verdict' \in [Requests -> AnswerSet \cup {None}]
         /\ \A s \in Requests \ {r} : /\ pc'[s] = pc[s] /\ outcome'[s] = outcome[s]
                                      /\ degraded'[s] = degraded[s] /\ verdict'[s] = verdict[s]
         /\ Stage(r)' /\ Ended(r)'
<1>0. /\ TypeOK /\ Stage(r) /\ Ended(r) /\ Gated(r)' /\ a # None
      /\ outcome[r] = None /\ degraded[r] = None /\ verdict[r] = None /\ r \notin captured
      /\ known'[r] \in Known /\ known'[r].answer \in AnswerSet
  <2>1. TypeOK /\ Stage(r) /\ Ended(r)
    BY DEF GateInv
  <2>2. a # None
    BY AssessAssumption
  <2>3. known'[r] \in Known /\ known'[r].answer \in AnswerSet
    BY DEF Informed, Known
  <2>4. outcome[r] = None /\ degraded[r] = None /\ verdict[r] = None
    BY <2>1 DEF Stage
  <2>5. r \notin captured
    BY <2>1, <2>4, NullAssumption DEF Ended
  <2>6. Gated(r)'
    BY <2>2 DEF Gated, Fires
  <2> QED BY <2>1, <2>2, <2>3, <2>4, <2>5, <2>6
<1> DEFINE ruling == known'[r].answer.ruling
<1>1. CASE /\ Permits(ruling) /\ End(r, "pass")
           /\ verdict' = [verdict EXCEPT ![r] = SignerVerdict(r, a)] /\ UNCHANGED degraded
  <2>1. /\ pc' \in [Requests -> {"idle", "asking", "minting", "done"}]
        /\ outcome' \in [Requests -> Codes \cup {"pass", "crash", None}]
        /\ pc'[r] = "done" /\ outcome'[r] = "pass"
        /\ \A s \in Requests \ {r} : pc'[s] = pc[s] /\ outcome'[s] = outcome[s]
    BY <1>0, <1>1, EndType
  <2>2. /\ verdict' \in [Requests -> AnswerSet \cup {None}] /\ verdict'[r] = SignerVerdict(r, a)
        /\ \A s \in Requests \ {r} : verdict'[s] = verdict[s]
    BY <1>0, <1>1 DEF TypeOK, SignerVerdict
  <2>3. Stage(r)'
    BY <1>0, <2>1 DEF Stage
  <2>4. Ended(r)'
    <3>1. Permitted(r)'
      BY <1>1 DEF Permitted, Answered
    <3>2. verdict'[r] # None => verdict'[r] = known'[r].answer /\ SignerOf(a) # None
      BY <2>2 DEF SignerVerdict
    <3> QED BY <1>0, <1>1, <2>1, <3>1, <3>2 DEF Ended, Marked
  <2> QED BY <1>0, <1>1, <2>1, <2>2, <2>3, <2>4 DEF TypeOK
<1>2. CASE ~Permits(ruling) /\ pc' = [pc EXCEPT ![r] = "minting"] /\ UNCHANGED <<outcome, degraded, verdict>>
  <2>1. Stage(r)'
    BY <1>0, <1>2 DEF Stage, TypeOK, Fires
  <2>2. Ended(r)'
    BY <1>0, <1>2, NullAssumption DEF Ended
  <2> QED BY <1>0, <1>2, <2>1, <2>2 DEF TypeOK
<1>3. CASE ~Permits(ruling) /\ DenyInTry(r, "wallet_not_trusted")
  <2>1. /\ UNCHANGED verdict
        /\ \/ (\E o \in Codes \cup {"crash"} : End(r, o)) /\ UNCHANGED degraded
           \/ /\ End(r, "pass") /\ degraded' = [degraded EXCEPT ![r] = "api_error"]
              /\ setup.fail_open /\ setup.on_denied = "custom" /\ setup.frame \in {"flask", "sanic"}
    BY <1>0, <1>3, DenyInTryEnds DEF Codes
  <2>2. ASSUME NEW o \in Codes \cup {"pass", "crash"}, End(r, o)
        PROVE  /\ pc' \in [Requests -> {"idle", "asking", "minting", "done"}]
               /\ outcome' \in [Requests -> Codes \cup {"pass", "crash", None}]
               /\ pc'[r] = "done" /\ outcome'[r] = o
               /\ \A s \in Requests \ {r} : pc'[s] = pc[s] /\ outcome'[s] = outcome[s]
               /\ Stage(r)'
    <3>1. /\ pc' \in [Requests -> {"idle", "asking", "minting", "done"}]
          /\ outcome' \in [Requests -> Codes \cup {"pass", "crash", None}]
          /\ pc'[r] = "done" /\ outcome'[r] = o
          /\ \A s \in Requests \ {r} : pc'[s] = pc[s] /\ outcome'[s] = outcome[s]
      BY <1>0, <2>2, EndType
    <3> QED BY <1>0, <3>1 DEF Stage
  <2>3. "pass" \notin Codes \cup {"crash"}
    BY DEF Codes, Failures
  <2>4. CASE (\E o \in Codes \cup {"crash"} : End(r, o)) /\ UNCHANGED degraded
    <3>1. PICK o \in Codes \cup {"crash"} : End(r, o)
      BY <2>4
    <3>2. outcome'[r] # "pass"
      BY <2>2, <2>3, <3>1
    <3>3. Ended(r)'
      BY <1>0, <2>1, <3>2 DEF Ended
    <3> QED BY <1>0, <2>1, <2>2, <2>4, <3>1, <3>3 DEF TypeOK
  <2>5. CASE /\ End(r, "pass") /\ degraded' = [degraded EXCEPT ![r] = "api_error"]
             /\ setup.fail_open /\ setup.on_denied = "custom" /\ setup.frame \in {"flask", "sanic"}
    <3>1. /\ degraded' \in [Requests -> Failures \cup {None}] /\ degraded'[r] = "api_error" /\ "api_error" # None
          /\ \A s \in Requests \ {r} : degraded'[s] = degraded[s]
      BY <1>0, <2>5, NullAssumption DEF TypeOK, Failures, Codes
    <3>2. Answered(r)' /\ ~Permitted(r)'
      BY <1>3 DEF Permitted, Answered
    <3>3. Ended(r)'
      BY <1>0, <2>1, <2>5, <3>1, <3>2 DEF Ended, Marked, DenialLost
    <3> QED BY <1>0, <2>1, <2>2, <2>5, <3>1, <3>3 DEF TypeOK
  <2> QED BY <2>1, <2>4, <2>5
<1> QED BY <1>1, <1>2, <1>3 DEF Conclude

\* A step is about one request; the cache and the slot are anyone's.
LEMMA StepOf ==
  ASSUME GateInv, NEW r \in Requests, TypeOK', CacheInv', UNCHANGED setup,
         Informed(r)', Stage(r)', Ended(r)',
         \A s \in Requests \ {r} :
           /\ carried'[s] = carried[s] /\ (s \in asked') = (s \in asked) /\ reply'[s] = reply[s]
           /\ known'[s] = known[s] /\ raised'[s] = raised[s]
           /\ pc'[s] = pc[s] /\ outcome'[s] = outcome[s] /\ degraded'[s] = degraded[s] /\ verdict'[s] = verdict[s]
           /\ (s \in captured') = (s \in captured)
  PROVE  GateInv'
<1>1. ASSUME NEW s \in Requests PROVE Informed(s)' /\ Stage(s)' /\ Ended(s)'
  <2>1. CASE s = r
    BY <2>1
  <2>2. CASE s # r
    BY <2>2, Bystander
  <2> QED BY <2>1, <2>2
<1> QED BY <1>1 DEF GateInv

\* What a request that arrives finds.
LEMMA Arriving ==
  ASSUME GateInv, NEW r \in Requests, pc[r] = "idle"
  PROVE  /\ TypeOK /\ AssessTypeOK /\ CacheInv
         /\ known[r] = None /\ raised[r] = None /\ reply[r] = None /\ r \notin asked /\ r \notin captured
         /\ outcome[r] = None /\ degraded[r] = None /\ verdict[r] = None
<1>1. TypeOK /\ AssessTypeOK /\ CacheInv /\ Stage(r) /\ Ended(r)
  BY DEF GateInv, TypeOK
<1>2. known[r] = None /\ raised[r] = None /\ reply[r] = None /\ r \notin asked
      /\ outcome[r] = None /\ degraded[r] = None /\ verdict[r] = None
  BY <1>1 DEF Stage
<1>3. r \notin captured
  BY <1>1, <1>2, NullAssumption DEF Ended
<1> QED BY <1>1, <1>2, <1>3

\* A request the gate does not look at.
LEMMA UngatedInv ==
  ASSUME GateInv, NEW r \in Requests, NEW a \in Arrivals, pc[r] = "idle", Ungated(r, a)
  PROVE  GateInv'
<1>1. /\ TypeOK /\ AssessTypeOK /\ CacheInv
      /\ known[r] = None /\ raised[r] = None /\ reply[r] = None /\ r \notin asked /\ r \notin captured
      /\ outcome[r] = None /\ degraded[r] = None /\ verdict[r] = None
  BY Arriving
<1>2. /\ ~Fires(a) /\ carried' = [carried EXCEPT ![r] = a] /\ End(r, "pass")
      /\ UNCHANGED <<asked, reply, store, last_signer, known, raised, setup, degraded, verdict, captured>>
  BY DEF Ungated, Pass, cacheVars
<1>3. /\ pc' \in [Requests -> {"idle", "asking", "minting", "done"}]
      /\ outcome' \in [Requests -> Codes \cup {"pass", "crash", None}]
      /\ pc'[r] = "done" /\ outcome'[r] = "pass"
      /\ \A s \in Requests \ {r} : pc'[s] = pc[s] /\ outcome'[s] = outcome[s]
  BY <1>1, <1>2, EndType
<1>4. carried'[r] = a /\ carried' \in [Requests -> Arrivals \cup {None}]
      /\ \A s \in Requests \ {r} : carried'[s] = carried[s]
  BY <1>1, <1>2 DEF AssessTypeOK
<1>5. TypeOK' /\ CacheInv'
  BY <1>1, <1>2, <1>3, <1>4 DEF TypeOK, AssessTypeOK, CacheInv
<1>6. Informed(r)'
  BY <1>1, <1>2 DEF Informed
<1>7. Stage(r)'
  BY <1>1, <1>2, <1>3, <1>4 DEF Stage
<1>8. Ended(r)'
  BY <1>1, <1>2, <1>4 DEF Ended, Gated, Fires
<1> QED BY <1>2, <1>3, <1>4, <1>5, <1>6, <1>7, <1>8, StepOf

\* A request without an identity.
LEMMA MissingIdentityInv ==
  ASSUME GateInv, NEW r \in Requests, NEW a \in Arrivals, pc[r] = "idle", MissingIdentity(r, a)
  PROVE  GateInv'
<1>1. /\ TypeOK /\ AssessTypeOK /\ CacheInv
      /\ known[r] = None /\ raised[r] = None /\ reply[r] = None /\ r \notin asked /\ r \notin captured
      /\ outcome[r] = None /\ degraded[r] = None /\ verdict[r] = None
  BY Arriving
<1>2. /\ Fires(a) /\ NoIdentity(a) /\ carried' = [carried EXCEPT ![r] = a]
      /\ UNCHANGED <<asked, reply, store, last_signer, known, raised, setup, degraded, verdict, captured>>
  BY DEF MissingIdentity, Pass, Deny, cacheVars
<1>3. carried'[r] = a /\ carried' \in [Requests -> Arrivals \cup {None}]
      /\ \A s \in Requests \ {r} : carried'[s] = carried[s]
  BY <1>1, <1>2 DEF AssessTypeOK
<1>4. Informed(r)'
  BY <1>1, <1>2 DEF Informed
<1>5. ASSUME NEW o \in Codes \cup {"pass", "crash"}, End(r, o), o = "pass" => setup.fail_open
      PROVE  GateInv'
  <2>1. /\ pc' \in [Requests -> {"idle", "asking", "minting", "done"}]
        /\ outcome' \in [Requests -> Codes \cup {"pass", "crash", None}]
        /\ pc'[r] = "done" /\ outcome'[r] = o
        /\ \A s \in Requests \ {r} : pc'[s] = pc[s] /\ outcome'[s] = outcome[s]
    BY <1>1, <1>5, EndType
  <2>2. TypeOK' /\ CacheInv'
    BY <1>1, <1>2, <1>3, <2>1 DEF TypeOK, AssessTypeOK, CacheInv
  <2>3. Stage(r)'
    BY <1>1, <1>2, <1>3, <2>1 DEF Stage
  <2>4. Ended(r)'
    BY <1>1, <1>2, <1>3, <1>5, <2>1 DEF Ended, Unanswered, Marked
  <2> QED BY <1>2, <1>3, <1>4, <2>1, <2>2, <2>3, <2>4, StepOf
<1>6. CASE ~setup.fail_open /\ pc' = [pc EXCEPT ![r] = "minting"] /\ UNCHANGED <<outcome, degraded, verdict>>
  <2>1. TypeOK' /\ CacheInv'
    BY <1>1, <1>2, <1>3, <1>6 DEF TypeOK, AssessTypeOK, CacheInv
  <2>2. pc'[r] = "minting" /\ \A s \in Requests \ {r} : pc'[s] = pc[s]
    BY <1>1, <1>6 DEF TypeOK
  <2>3. Stage(r)'
    BY <1>1, <1>2, <1>3, <1>6, <2>2 DEF Stage, Fires
  <2>4. Ended(r)'
    BY <1>1, <1>2, <1>6, NullAssumption DEF Ended
  <2> QED BY <1>2, <1>3, <1>4, <1>6, <2>1, <2>2, <2>3, <2>4, StepOf
<1>7. CASE ~setup.fail_open /\ Deny(r, "missing_identity")
  <2>1. "pass" \notin Codes \cup {"crash"} /\ "missing_identity" \in Codes
    BY DEF Codes, Failures
  <2> QED BY <1>5, <1>7, <2>1, DenyEnds
<1> QED BY <1>5, <1>6, <1>7 DEF MissingIdentity, Pass

\* A request answered from the cache: the entry under its key is for its identity.
LEMMA FromCacheInv ==
  ASSUME GateInv, NEW r \in Requests, NEW a \in Arrivals, pc[r] = "idle", FromCache(r, a)
  PROVE  GateInv'
<1>1. /\ TypeOK /\ AssessTypeOK /\ CacheInv
      /\ known[r] = None /\ raised[r] = None /\ reply[r] = None /\ r \notin asked /\ r \notin captured
      /\ outcome[r] = None /\ degraded[r] = None /\ verdict[r] = None
  BY Arriving
<1> DEFINE e == store[Key(a)]
           k == [answer |-> e.answer, age |-> e.answer.late + (Ttl - e.left)]
<1>2. /\ Fires(a) /\ ~NoIdentity(a) /\ carried' = [carried EXCEPT ![r] = a] /\ Conclude(r, a)
      /\ Live(Key(a)) /\ known' = [known EXCEPT ![r] = k]
      /\ UNCHANGED <<asked, reply, store, last_signer, raised, setup, captured>>
  BY DEF FromCache, Hit
<1>3. carried'[r] = a /\ carried' \in [Requests -> Arrivals \cup {None}]
      /\ \A s \in Requests \ {r} : carried'[s] = carried[s]
  BY <1>1, <1>2 DEF AssessTypeOK
<1>4. Key(a) \in Keys /\ e \in EntrySet /\ e # None /\ e.left >= 0
  BY <1>1, <1>2, ArrivalParts DEF AssessTypeOK, Live
<1>5. /\ e.answer \in AnswerSet /\ e.left \in 0..Ttl /\ e.answer.late \in 0..Timeout
      /\ Ttl \in Nat /\ Timeout \in Nat /\ Key(e.answer.about) = Key(a)
  BY <1>1, <1>4, AssessAssumption DEF EntrySet, AnswerSet, CacheInv
<1>6. k \in Known /\ k.age <= Ttl + Timeout /\ k.answer = e.answer
  BY <1>5 DEF Known
<1> HIDE DEF k, e
<1>7. known'[r] = k /\ known' \in [Requests -> Known \cup {None}] /\ k # None
      /\ \A s \in Requests \ {r} : known'[s] = known[s]
  BY <1>1, <1>2, <1>6, NullAssumption DEF AssessTypeOK
<1>8. Informed(r)'
  BY <1>3, <1>5, <1>6, <1>7 DEF Informed
<1>9. /\ pc' \in [Requests -> {"idle", "asking", "minting", "done"}]
      /\ outcome' \in [Requests -> Codes \cup {"pass", "crash", None}]
      /\ degraded' \in [Requests -> Failures \cup {None}]
      /\ verdict' \in [Requests -> AnswerSet \cup {None}]
      /\ \A s \in Requests \ {r} : /\ pc'[s] = pc[s] /\ outcome'[s] = outcome[s]
                                   /\ degraded'[s] = degraded[s] /\ verdict'[s] = verdict[s]
      /\ Stage(r)' /\ Ended(r)'
  BY <1>1, <1>2, <1>3, <1>7, <1>8, ConcludeInv
<1>10. TypeOK' /\ CacheInv'
  BY <1>1, <1>2, <1>3, <1>7, <1>9 DEF TypeOK, AssessTypeOK, CacheInv
<1> QED BY <1>2, <1>3, <1>7, <1>8, <1>9, <1>10, StepOf

\* A request the API is asked about.
LEMMA AskInv ==
  ASSUME GateInv, NEW r \in Requests, NEW a \in Arrivals, pc[r] = "idle", Ask(r, a)
  PROVE  GateInv'
<1>1. /\ TypeOK /\ AssessTypeOK /\ CacheInv
      /\ known[r] = None /\ raised[r] = None /\ reply[r] = None /\ r \notin asked /\ r \notin captured
      /\ outcome[r] = None /\ degraded[r] = None /\ verdict[r] = None
  BY Arriving
<1>2. /\ Fires(a) /\ ~NoIdentity(a) /\ carried' = [carried EXCEPT ![r] = a]
      /\ store' = [store EXCEPT ![Key(a)] = None] /\ asked' = asked \cup {r}
      /\ pc' = [pc EXCEPT ![r] = "asking"]
      /\ UNCHANGED <<reply, last_signer, known, raised, setup, outcome, degraded, verdict, captured>>
  BY DEF Ask, Miss, stateVars
<1>3. /\ carried'[r] = a /\ carried' \in [Requests -> Arrivals \cup {None}]
      /\ \A s \in Requests \ {r} : carried'[s] = carried[s]
      /\ pc'[r] = "asking" /\ \A s \in Requests \ {r} : pc'[s] = pc[s]
  BY <1>1, <1>2 DEF AssessTypeOK, TypeOK
<1>4. TypeOK' /\ CacheInv'
  BY <1>1, <1>2, <1>3 DEF TypeOK, AssessTypeOK, CacheInv
<1>5. Informed(r)' /\ Stage(r)'
  BY <1>1, <1>2, <1>3 DEF Informed, Stage, Fires
<1>6. Ended(r)'
  BY <1>1, <1>2, NullAssumption DEF Ended
<1> QED BY <1>2, <1>3, <1>4, <1>5, <1>6, StepOf

-----------------------------------------------------------------------------
\* An answer that comes back is put where its question belongs.
LEMMA PutType ==
  ASSUME AssessTypeOK, CacheInv, NEW k \in Keys, NEW answer \in AnswerSet, Key(answer.about) = k, Put(k, answer)
  PROVE  store' \in [Keys -> EntrySet \cup {None}] /\ CacheInv'
<1>1. PICK kept \in Kept(k) :
        store' = [x \in Keys |-> IF x = k THEN [answer |-> answer, left |-> Ttl]
                                 ELSE IF x \in kept THEN store[x] ELSE None]
  BY DEF Put
<1>2. [answer |-> answer, left |-> Ttl] \in EntrySet
  BY AssessAssumption DEF EntrySet
<1>3. \A x \in Keys : x # k => store'[x] \in {store[x], None}
  BY <1>1
<1>4. store'[k] = [answer |-> answer, left |-> Ttl]
  BY <1>1
<1>5. store' \in [Keys -> EntrySet \cup {None}]
  BY <1>1, <1>2 DEF AssessTypeOK
<1>6. ASSUME NEW x \in Keys, store'[x] # None PROVE Key(store'[x].answer.about) = x
  <2>1. CASE x = k
    BY <1>4, <2>1
  <2>2. CASE x # k
    BY <1>3, <1>6, <2>2 DEF CacheInv
  <2> QED BY <2>1, <2>2
<1> QED BY <1>5, <1>6 DEF CacheInv

\* The API's answer comes back.
LEMMA FromApiInv ==
  ASSUME GateInv, NEW r \in Requests, FromApi(r)
  PROVE  GateInv'
<1> DEFINE a == carried[r]
           w == reply[r]
           k == [answer |-> w, age |-> w.late]
<1>1. /\ TypeOK /\ AssessTypeOK /\ CacheInv /\ Stage(r) /\ Ended(r)
      /\ pc[r] = "asking" /\ w # None /\ Put(Key(a), w) /\ StashSignerRaw(a) /\ Conclude(r, a)
      /\ known' = [known EXCEPT ![r] = k] /\ reply' = [reply EXCEPT ![r] = None]
      /\ UNCHANGED <<carried, asked, raised, setup, captured>>
  BY DEF GateInv, TypeOK, FromApi, Receive
<1>2. /\ a \in Arrivals /\ Fires(a) /\ ~NoIdentity(a) /\ w \in AnswerSet /\ w.about = a
      /\ known[r] = None /\ raised[r] = None /\ r \notin asked
  BY <1>1 DEF Stage, AssessTypeOK
<1>3. k \in Known /\ k.age <= Ttl + Timeout /\ k.answer = w
  BY <1>2, AssessAssumption DEF Known, AnswerSet
<1>4. Key(a) \in Keys
  BY <1>2, ArrivalParts
<1>5. store' \in [Keys -> EntrySet \cup {None}] /\ CacheInv'
  BY <1>1, <1>2, <1>4, PutType
<1>6. last_signer' \in [Wallets -> Signers \cup {None}]
  <2>1. SignerOf(a) # None => a.pays \in Signers
    BY DEF SignerOf
  <2> QED BY <1>1, <2>1 DEF StashSignerRaw, AssessTypeOK
<1> HIDE DEF k
<1>7. /\ known'[r] = k /\ known' \in [Requests -> Known \cup {None}] /\ k # None
      /\ \A s \in Requests \ {r} : known'[s] = known[s]
      /\ reply'[r] = None /\ reply' \in [Requests -> AnswerSet \cup {None}]
      /\ \A s \in Requests \ {r} : reply'[s] = reply[s]
  BY <1>1, <1>3, NullAssumption DEF AssessTypeOK
<1>8. Informed(r)'
  BY <1>1, <1>2, <1>3, <1>7 DEF Informed
<1>9. /\ pc' \in [Requests -> {"idle", "asking", "minting", "done"}]
      /\ outcome' \in [Requests -> Codes \cup {"pass", "crash", None}]
      /\ degraded' \in [Requests -> Failures \cup {None}]
      /\ verdict' \in [Requests -> AnswerSet \cup {None}]
      /\ \A s \in Requests \ {r} : /\ pc'[s] = pc[s] /\ outcome'[s] = outcome[s]
                                   /\ degraded'[s] = degraded[s] /\ verdict'[s] = verdict[s]
      /\ Stage(r)' /\ Ended(r)'
  BY <1>1, <1>2, <1>7, <1>8, ConcludeInv
<1>10. TypeOK'
  BY <1>1, <1>5, <1>6, <1>7, <1>9 DEF TypeOK, AssessTypeOK
<1> QED BY <1>1, <1>5, <1>7, <1>8, <1>9, <1>10, StepOf

\* A session's answer ends what its request was denied for.
LEMMA DenySessionInv ==
  ASSUME GateInv, NEW r \in Requests, NEW code \in Codes, pc[r] = "minting", DenySession(r, code),
         UNCHANGED <<carried, cacheVars, setup, captured>>
  PROVE  GateInv'
<1>1. /\ TypeOK /\ AssessTypeOK /\ CacheInv /\ Informed(r) /\ Stage(r) /\ Ended(r)
      /\ UNCHANGED <<carried, asked, reply, store, last_signer, known, raised, setup, captured>>
  BY DEF GateInv, TypeOK, cacheVars
<1>2. /\ outcome[r] = None /\ degraded[r] = None /\ verdict[r] = None /\ raised[r] = None
      /\ r \notin asked /\ reply[r] = None /\ r \notin captured /\ carried[r] \in Arrivals
      /\ ~NoIdentity(carried[r]) => known[r] # None /\ ~Permits(known[r].answer.ruling)
  BY <1>1, NullAssumption DEF Stage, Ended
<1>3. Informed(r)' /\ CacheInv'
  BY <1>1 DEF Informed, CacheInv
<1>4. /\ UNCHANGED verdict
      /\ \/ (\E o \in Codes \cup {"crash"} : End(r, o)) /\ UNCHANGED degraded
         \/ /\ End(r, "pass") /\ degraded' = [degraded EXCEPT ![r] = "api_error"]
            /\ setup.fail_open /\ setup.on_denied = "custom" /\ setup.frame \in {"flask", "sanic"}
            /\ ~NoIdentity(carried[r])
  BY <1>1, DenyEnds, DenyInTryEnds DEF DenySession
<1>5. ASSUME NEW o \in Codes \cup {"pass", "crash"}, End(r, o)
      PROVE  /\ pc' \in [Requests -> {"idle", "asking", "minting", "done"}]
             /\ outcome' \in [Requests -> Codes \cup {"pass", "crash", None}]
             /\ pc'[r] = "done" /\ outcome'[r] = o
             /\ \A s \in Requests \ {r} : pc'[s] = pc[s] /\ outcome'[s] = outcome[s]
             /\ Stage(r)'
  <2>1. /\ pc' \in [Requests -> {"idle", "asking", "minting", "done"}]
        /\ outcome' \in [Requests -> Codes \cup {"pass", "crash", None}]
        /\ pc'[r] = "done" /\ outcome'[r] = o
        /\ \A s \in Requests \ {r} : pc'[s] = pc[s] /\ outcome'[s] = outcome[s]
    BY <1>1, <1>5, EndType
  <2> QED BY <1>1, <1>2, <2>1 DEF Stage
<1>6. "pass" \notin Codes \cup {"crash"}
  BY DEF Codes, Failures
<1>7. CASE (\E o \in Codes \cup {"crash"} : End(r, o)) /\ UNCHANGED degraded
  <2>1. PICK o \in Codes \cup {"crash"} : End(r, o)
    BY <1>7
  <2>2. outcome'[r] # "pass"
    BY <1>5, <1>6, <2>1
  <2>3. Ended(r)'
    BY <1>1, <1>2, <1>4, <2>2 DEF Ended
  <2>4. TypeOK'
    BY <1>1, <1>4, <1>5, <1>7, <2>1 DEF TypeOK, AssessTypeOK
  <2> QED BY <1>1, <1>3, <1>4, <1>5, <1>7, <2>1, <2>3, <2>4, StepOf
<1>8. CASE /\ End(r, "pass") /\ degraded' = [degraded EXCEPT ![r] = "api_error"]
           /\ setup.fail_open /\ setup.on_denied = "custom" /\ setup.frame \in {"flask", "sanic"}
           /\ ~NoIdentity(carried[r])
  <2>1. /\ degraded' \in [Requests -> Failures \cup {None}] /\ degraded'[r] = "api_error" /\ "api_error" # None
        /\ \A s \in Requests \ {r} : degraded'[s] = degraded[s]
    BY <1>1, <1>8, NullAssumption DEF TypeOK, Failures, Codes
  <2>2. Answered(r)' /\ ~Permitted(r)'
    BY <1>1, <1>2, <1>8 DEF Permitted, Answered
  <2>3. Ended(r)'
    BY <1>1, <1>2, <1>4, <1>8, <2>1, <2>2 DEF Ended, Marked, DenialLost
  <2>4. TypeOK'
    BY <1>1, <1>4, <1>5, <1>8, <2>1 DEF TypeOK, AssessTypeOK
  <2> QED BY <1>1, <1>3, <1>4, <1>5, <1>8, <2>1, <2>3, <2>4, StepOf
<1> QED BY <1>4, <1>7, <1>8

\* Both ends of the call for a session.
LEMMA SessionInv ==
  ASSUME GateInv, NEW r \in Requests, SessionCreated(r) \/ SessionFails(r)
  PROVE  GateInv'
<1>1. "identity_verification_required" \in Codes /\ Fallback(r) \in Codes
  BY DEF Codes, Fallback
<1> QED BY <1>1, DenySessionInv DEF SessionCreated, SessionFails

\* The handler reports a wallet.
LEMMA HandleInv ==
  ASSUME GateInv, NEW r \in Requests, Handle(r)
  PROVE  GateInv'
<1>1. /\ TypeOK /\ CacheInv /\ Informed(r) /\ Stage(r) /\ Ended(r)
      /\ outcome[r] = "pass" /\ Fires(carried[r]) /\ carried[r].token # None
      /\ captured' = captured \cup {r}
      /\ UNCHANGED <<carried, asked, reply, store, last_signer, known, raised, setup, pc, outcome, degraded, verdict>>
  BY DEF GateInv, Handle, CaptureWallet, cacheVars
<1>2. TypeOK' /\ CacheInv' /\ Informed(r)'
  BY <1>1 DEF TypeOK, AssessTypeOK, CacheInv, Informed
<1>3. Stage(r)'
  BY <1>1 DEF Stage, Fires
<1>4. Gated(r)
  BY <1>1, NullAssumption, AssessAssumption DEF Gated, Stage
<1>5. Ended(r)'
  BY <1>1, <1>4 DEF Ended, Gated, Fires, Permitted, Answered, Unanswered, DenialLost, Marked
<1> QED BY <1>1, <1>2, <1>3, <1>5, StepOf

\* The API decides.
LEMMA RuleInv ==
  ASSUME GateInv, NEW r \in Requests, NEW d \in Rulings, Rule(r, d)
  PROVE  GateInv'
<1> DEFINE w == [about |-> carried[r], ruling |-> d, late |-> 0]
<1>1. /\ TypeOK /\ AssessTypeOK /\ CacheInv /\ Informed(r) /\ Stage(r) /\ Ended(r)
      /\ r \in asked /\ asked' = asked \ {r} /\ reply' = [reply EXCEPT ![r] = w]
      /\ UNCHANGED <<carried, store, last_signer, known, raised, setup, pc, outcome, degraded, verdict, captured>>
  BY DEF GateInv, TypeOK, Rule, Decide, stateVars
<1>2. pc[r] = "asking" /\ carried[r] \in Arrivals
  BY <1>1 DEF Stage
<1>3. w \in AnswerSet /\ w.about = carried[r]
  BY <1>2, AssessAssumption DEF AnswerSet
<1> HIDE DEF w
<1>4. reply'[r] = w /\ reply' \in [Requests -> AnswerSet \cup {None}]
      /\ \A s \in Requests \ {r} : reply'[s] = reply[s]
  BY <1>1, <1>3 DEF AssessTypeOK
<1>5. TypeOK' /\ CacheInv' /\ Informed(r)'
  BY <1>1, <1>4 DEF TypeOK, AssessTypeOK, CacheInv, Informed
<1>6. Stage(r)'
  BY <1>1, <1>2, <1>3, <1>4 DEF Stage, Fires
<1>7. Ended(r)'
  BY <1>1 DEF Ended, Gated, Fires, Permitted, Answered, Unanswered, DenialLost, Marked
<1> QED BY <1>1, <1>4, <1>5, <1>6, <1>7, StepOf

\* The check raises: each failure is denied, or let through and marked as it should be.
LEMMA FailInv ==
  ASSUME GateInv, NEW r \in Requests, NEW failure \in Failures, Fail(r, failure)
  PROVE  GateInv'
<1>1. /\ TypeOK /\ AssessTypeOK /\ CacheInv /\ Stage(r) /\ Ended(r) /\ pc[r] = "asking"
      /\ asked' = asked \ {r} /\ reply' = [reply EXCEPT ![r] = None]
      /\ raised' = [raised EXCEPT ![r] = failure] /\ CheckFails(r, failure)
      /\ UNCHANGED <<carried, store, last_signer, known, setup, captured>>
  BY DEF GateInv, TypeOK, Fail, Raise
<1>2. /\ carried[r] \in Arrivals /\ known[r] = None /\ outcome[r] = None /\ degraded[r] = None
      /\ verdict[r] = None /\ r \notin captured
  BY <1>1, NullAssumption DEF Stage, Ended
<1>3. /\ reply'[r] = None /\ reply' \in [Requests -> AnswerSet \cup {None}]
      /\ raised'[r] = failure /\ raised' \in [Requests -> Failures \cup {None}]
      /\ \A s \in Requests \ {r} : reply'[s] = reply[s] /\ raised'[s] = raised[s]
  BY <1>1 DEF AssessTypeOK
<1>4. CacheInv' /\ Informed(r)'
  BY <1>1, <1>2 DEF CacheInv, Informed
<1>5. \E o \in Codes \cup {"pass", "crash"} :
        /\ End(r, o) /\ UNCHANGED verdict
        /\ \/ o # "pass" /\ UNCHANGED degraded
           \/ o = "pass" /\ setup.fail_open /\ failure = "payment_required" /\ UNCHANGED degraded
           \/ /\ o = "pass" /\ setup.fail_open /\ failure \in {"quota_exceeded", "network_timeout", "api_error"}
              /\ degraded' = [degraded EXCEPT ![r] = failure]
  <2>1. Failures \subseteq Codes /\ "pass" \notin Codes \cup {"crash"} /\ "api_error" \in Failures
    BY DEF Codes, Failures
  <2>2. ASSUME NEW code \in Codes, Deny(r, code)
        PROVE  \E o \in Codes \cup {"crash"} : End(r, o) /\ UNCHANGED <<degraded, verdict>>
    BY <2>2, DenyEnds
  <2>3. \/ failure = "payment_required" /\ setup.fail_open /\ End(r, "pass") /\ UNCHANGED <<degraded, verdict>>
        \/ /\ failure \in {"quota_exceeded", "network_timeout", "api_error"} /\ setup.fail_open
           /\ End(r, "pass") /\ degraded' = [degraded EXCEPT ![r] = failure] /\ UNCHANGED verdict
        \/ Deny(r, "api_error") \/ Deny(r, failure)
    BY <1>1 DEF CheckFails, Pass, PassDegraded
  <2> QED BY <2>1, <2>2, <2>3
<1>6. PICK o \in Codes \cup {"pass", "crash"} :
        /\ End(r, o) /\ UNCHANGED verdict
        /\ \/ o # "pass" /\ UNCHANGED degraded
           \/ o = "pass" /\ setup.fail_open /\ failure = "payment_required" /\ UNCHANGED degraded
           \/ /\ o = "pass" /\ setup.fail_open /\ failure \in {"quota_exceeded", "network_timeout", "api_error"}
              /\ degraded' = [degraded EXCEPT ![r] = failure]
  BY <1>5
<1>7. /\ pc' \in [Requests -> {"idle", "asking", "minting", "done"}]
      /\ outcome' \in [Requests -> Codes \cup {"pass", "crash", None}]
      /\ pc'[r] = "done" /\ outcome'[r] = o
      /\ \A s \in Requests \ {r} : pc'[s] = pc[s] /\ outcome'[s] = outcome[s]
  BY <1>1, <1>6, EndType
<1>8. /\ degraded' \in [Requests -> Failures \cup {None}] /\ degraded'[r] \in {None, failure}
      /\ failure \in {"quota_exceeded", "network_timeout", "api_error"} /\ o = "pass" => degraded'[r] = failure
      /\ \A s \in Requests \ {r} : degraded'[s] = degraded[s]
  BY <1>1, <1>2, <1>6 DEF TypeOK
<1>9. TypeOK'
  BY <1>1, <1>3, <1>6, <1>7, <1>8 DEF TypeOK, AssessTypeOK
<1>10. Stage(r)'
  BY <1>1, <1>2, <1>3, <1>7 DEF Stage
<1>11. Ended(r)'
  <2>1. CASE o # "pass"
    BY <1>1, <1>2, <1>6, <1>7, <2>1 DEF Ended
  <2>2. CASE o = "pass"
    <3>1. setup'.fail_open /\ Unanswered(r)'
      BY <1>1, <1>3, <1>6, <2>2 DEF Unanswered
    <3>2. ~Permitted(r)'
      BY <1>1, <1>2 DEF Permitted, Answered
    <3>3. Marked(r)'
      BY <1>3, <1>6, <1>8, <2>2, <3>2, NullAssumption DEF Marked, Codes, Failures
    <3> QED BY <1>1, <1>2, <1>6, <3>1, <3>3 DEF Ended
  <2> QED BY <2>1, <2>2
<1> QED BY <1>1, <1>3, <1>4, <1>6, <1>7, <1>8, <1>9, <1>10, <1>11, StepOf

\* A tick of the clock.
LEMMA ElapseInv ==
  ASSUME GateInv, Elapse
  PROVE  GateInv'
<1>1. /\ TypeOK /\ AssessTypeOK /\ CacheInv
      /\ \A r \in Requests : reply[r] # None => reply[r].late < Timeout
      /\ reply' = [r \in Requests |-> IF reply[r] = None THEN None ELSE [reply[r] EXCEPT !.late = @ + 1]]
      /\ store' = [k \in Keys |-> IF store[k] # None /\ store[k].left >= 0
                                  THEN [store[k] EXCEPT !.left = @ - 1] ELSE store[k]]
      /\ UNCHANGED <<carried, asked, last_signer, known, raised, setup, pc, outcome, degraded, verdict, captured>>
  BY DEF GateInv, TypeOK, Elapse, Tick, stateVars
<1>2. ASSUME NEW r \in Requests
      PROVE  reply'[r] \in AnswerSet \cup {None}
             /\ (reply'[r] # None => reply[r] # None /\ reply'[r].about = reply[r].about)
  <2>1. CASE reply[r] = None
    BY <1>1, <2>1
  <2>2. CASE reply[r] # None
    <3>1. reply[r] \in AnswerSet /\ reply[r].late < Timeout /\ reply'[r] = [reply[r] EXCEPT !.late = @ + 1]
      BY <1>1, <2>2 DEF AssessTypeOK
    <3> QED BY <2>2, <3>1, AssessAssumption DEF AnswerSet
  <2> QED BY <2>1, <2>2
<1>3. ASSUME NEW k \in Keys
      PROVE  store'[k] \in EntrySet \cup {None}
             /\ (store'[k] # None => store[k] # None /\ store'[k].answer = store[k].answer)
  <2>1. CASE store[k] # None /\ store[k].left >= 0
    <3>1. store[k] \in EntrySet /\ store'[k] = [store[k] EXCEPT !.left = @ - 1]
      BY <1>1, <2>1 DEF AssessTypeOK
    <3> QED BY <2>1, <3>1, AssessAssumption DEF EntrySet
  <2>2. CASE ~(store[k] # None /\ store[k].left >= 0)
    BY <1>1, <2>2 DEF AssessTypeOK
  <2> QED BY <2>1, <2>2
<1>4. TypeOK'
  <2>1. reply' \in [Requests -> AnswerSet \cup {None}]
    BY <1>1, <1>2
  <2>2. store' \in [Keys -> EntrySet \cup {None}]
    BY <1>1, <1>3
  <2> QED BY <1>1, <2>1, <2>2 DEF TypeOK, AssessTypeOK
<1>5. CacheInv'
  BY <1>1, <1>3 DEF CacheInv
<1>6. ASSUME NEW s \in Requests PROVE Informed(s)' /\ Stage(s)' /\ Ended(s)'
  BY <1>1, <1>2, Bystander
<1> QED BY <1>4, <1>5, <1>6 DEF GateInv

\* A step of anything else.
LEMMA StutterInv ==
  ASSUME GateInv, UNCHANGED vars
  PROVE  GateInv'
BY DEF GateInv, vars, cacheVars, TypeOK, AssessTypeOK, CacheInv, Informed, Stage, Ended, Gated, Fires, Permitted,
       Answered, Unanswered, DenialLost, Marked

-----------------------------------------------------------------------------
(* Every state of every behaviour. *)

\* A process that has just mounted its gate.
LEMMA InitInv ==
  ASSUME Init
  PROVE  GateInv
<1>1. TypeOK
  BY GateAssumption DEF Init, AssessInit, TypeOK, AssessTypeOK
<1>2. CacheInv
  BY DEF Init, AssessInit, CacheInv
<1>3. ASSUME NEW r \in Requests PROVE Informed(r) /\ Stage(r) /\ Ended(r)
  <2>1. /\ carried[r] = None /\ asked = {} /\ reply[r] = None /\ known[r] = None /\ raised[r] = None
        /\ pc[r] = "idle" /\ outcome[r] = None /\ degraded[r] = None /\ verdict[r] = None /\ captured = {}
    BY DEF Init, AssessInit
  <2>2. "pass" # None
    BY NullAssumption
  <2> QED BY <2>1, <2>2 DEF Informed, Stage, Ended
<1> QED BY <1>1, <1>2, <1>3 DEF GateInv

\* Every step.
LEMMA NextInv ==
  ASSUME GateInv, Next
  PROVE  GateInv'
<1>1. setup.arrivals \subseteq Arrivals /\ setup.rulings \subseteq Rulings /\ setup.failures \subseteq Failures
  BY GateAssumption DEF GateInv, TypeOK
<1>2. ASSUME NEW r \in Requests, NEW a \in setup.arrivals, Enter(r, a) PROVE GateInv'
  <2>1. a \in Arrivals /\ pc[r] = "idle"
    BY <1>1, <1>2 DEF Enter
  <2> QED BY <1>2, <2>1, UngatedInv, MissingIdentityInv, FromCacheInv, AskInv DEF Enter
<1>3. ASSUME NEW r \in Requests, FromApi(r) PROVE GateInv'
  BY <1>3, FromApiInv
<1>4. ASSUME NEW r \in Requests, SessionCreated(r) \/ SessionFails(r) PROVE GateInv'
  BY <1>4, SessionInv
<1>5. ASSUME NEW r \in Requests, Handle(r) PROVE GateInv'
  BY <1>5, HandleInv
<1>6. ASSUME NEW r \in Requests, NEW d \in setup.rulings, Rule(r, d) PROVE GateInv'
  BY <1>1, <1>6, RuleInv
<1>7. ASSUME NEW r \in Requests, NEW f \in setup.failures, Fail(r, f) PROVE GateInv'
  BY <1>1, <1>7, FailInv
<1>8. CASE Elapse
  BY <1>8, ElapseInv
<1> QED BY <1>2, <1>3, <1>4, <1>5, <1>6, <1>7, <1>8 DEF Next

\* The invariant holds from the start and is kept by every step.
THEOREM Invariance == Spec => []GateInv
<1>1. Init => GateInv
  BY InitInv
<1>2. GateInv /\ [Next]_vars => GateInv'
  BY NextInv, StutterInv
<1> QED BY <1>1, <1>2, PTL DEF Spec

\* Every variable of the gate and of its cache keeps its type.
THEOREM TypeCorrect == Spec => []TypeOK
<1>1. GateInv => TypeOK
  BY DEF GateInv
<1> QED BY <1>1, Invariance, PTL

\* Whatever the adapter, a request reaches the handler on a ruling that allows
\* it, or marked through a gate that fails open.
THEOREM PassesAreRuled == Spec => []PassesOnARuling
<1>1. GateInv => PassesOnARuling
  BY DEF GateInv, Ended, PassesOnARuling
<1> QED BY <1>1, Invariance, PTL

\* The verdict of a request is for its own signer, and for its own wallet
\* where the wallet is its identity: the key that the answer is kept under
\* tells the signer and the identity of its question.
THEOREM VerdictsAreOwn == Spec => []VerdictIsOwn
<1>1. ASSUME GateInv, NEW r \in Requests, verdict[r] # None
      PROVE  /\ verdict[r].about.pays = carried[r].pays
             /\ carried[r].token = None => verdict[r].about.wallet = carried[r].wallet
  <2>1. Informed(r) /\ Stage(r) /\ Ended(r)
    BY <1>1 DEF GateInv
  <2>2. /\ known[r] \in Known /\ verdict[r] = known[r].answer /\ SignerOf(carried[r]) # None
        /\ Key(verdict[r].about) = Key(carried[r])
    BY <1>1, <2>1 DEF Ended, Informed
  <2>3. verdict[r].about \in Arrivals /\ carried[r] \in Arrivals
    BY <1>1, <2>1, <2>2 DEF Stage, Known, AnswerSet
  <2>4. /\ SignerOf(verdict[r].about) = SignerOf(carried[r])
        /\ carried[r].token = None /\ carried[r].wallet # None => verdict[r].about.wallet = carried[r].wallet
    BY <2>2, <2>3, SameKey
  <2> QED BY <2>2, <2>4 DEF SignerOf
<1>2. GateInv => VerdictIsOwn
  BY <1>1 DEF VerdictIsOwn
<1> QED BY <1>2, Invariance, PTL

\* A wallet is associated with a token that was ruled on, or through a gate
\* that fails open.
THEOREM AssociationsAreRuled == Spec => []AssociatedTokenWasRuled
<1>1. ASSUME GateInv, NEW r \in captured
      PROVE  \/ Answered(r) /\ known[r].answer.about.token = carried[r].token /\ carried[r].token # None
             \/ carried[r].token # None /\ setup.fail_open
  <2>1. r \in Requests /\ Informed(r) /\ Stage(r) /\ Ended(r)
    BY <1>1 DEF GateInv, TypeOK
  <2>2. outcome[r] = "pass" /\ Gated(r) /\ carried[r].token # None
    BY <1>1, <2>1 DEF Ended
  <2>3. Answered(r) \/ setup.fail_open
    BY <2>1, <2>2 DEF Ended, Permitted
  <2>4. CASE Answered(r)
    <3>1. known[r] \in Known /\ Key(known[r].answer.about) = Key(carried[r])
      BY <2>1, <2>4 DEF Informed, Answered
    <3>2. known[r].answer.about \in Arrivals /\ carried[r] \in Arrivals
      BY <2>1, <2>2, <3>1, NullAssumption DEF Stage, Known, AnswerSet
    <3> QED BY <2>2, <2>4, <3>1, <3>2, SameKey
  <2> QED BY <2>2, <2>3, <2>4
<1>2. GateInv => AssociatedTokenWasRuled
  BY <1>1 DEF AssociatedTokenWasRuled
<1> QED BY <1>2, Invariance, PTL

\* No gate goes by a ruling older than the cache's lifetime and an answer's.
THEOREM RulingsAreRecent == Spec => []RulingIsRecent
<1>1. GateInv => RulingIsRecent
  BY DEF GateInv, Informed, RulingIsRecent, Answered
<1> QED BY <1>1, Invariance, PTL
=============================================================================

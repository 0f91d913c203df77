------------------------ MODULE ComputeFirst_proofs ------------------------
(***************************************************************************)
(* Proofs about ComputeFirst, for any requests, bodies and credentials: the *)
(* chain is charged on quoted terms and once; the price of a minted address, *)
(* the screening of payers, when a quote is called stale; and the refinement *)
(* of PaidDelivery.                                                         *)
(***************************************************************************)
EXTENDS ComputeFirst, TLAPS

\* A request that the chain has paid for: its answer is on the way, or out.
Paid(r) == pc[r] = "settled" \/ Completed(r)

OnSettleLeg(r) == pc[r] \in {"screen", "verify", "settle", "compose", "settled"}

\* Where a coroutine is tells what it holds.
RequestInv(r) ==
  /\ Completed(r) => pc[r] = "done"
  /\ pc[r] # "idle" => body[r] \in Bodies
  /\ pc[r] = "mint" => local[r] \in DraftQuote
  /\ pc[r] = "emit" \/ OnSettleLeg(r) \/ Completed(r) =>
       local[r] \in CachedQuote /\ Quote(local[r]) \in quoted
  /\ pc[r] = "write" => local[r] \in CachedQuote
  /\ pc[r] = "idle" => cred[r] = None
  /\ OnSettleLeg(r) \/ Completed(r) => cred[r] \in Creds
  /\ pc[r] = "settle" => signed[cred[r]] = Terms(local[r])
  /\ Paid(r) => captured[cred[r]] = Terms(local[r])

\* The cache holds quotes only; the chain moved money on quoted terms only; and
\* at most one of the requests that carry a credential is paid for by it.
CFInv ==
  /\ TypeOK
  /\ \A r \in Requests : RequestInv(r)
  /\ \A b \in Bodies : mem_state[b] # None => Quote(mem_state[b]) \in quoted
  /\ CapturedOnQuotedTerms
  /\ \A r, s \in Requests : Paid(r) /\ Paid(s) /\ cred[r] = cred[s] => r = s

-----------------------------------------------------------------------------
\* The invariant holds before the first request arrives.
LEMMA InitInv == Init => CFInv
  BY NullAssumption
  DEF Answers, Init, CFInv, TypeOK, RequestInv, Paid, Completed, OnSettleLeg, CapturedOnQuotedTerms, PayTos

\* The terms of a quote are a value of their own, never the null one.
LEMMA TermsAreTerms ==
  ASSUME NEW q \in CachedQuote
  PROVE  Terms(q) \in [price : Prices, payTo : PayTos] /\ Terms(q) # None /\ Quote(q) \in Quotes
  BY NullAssumption DEF Terms, CachedQuote, Quote, Quotes

\* The chain moves money on the terms that were signed; if those are the terms
\* of a quote, they are quoted terms, and the credential had paid for nothing.
LEMMA TransferOnTerms ==
  ASSUME CFInv, NEW c \in Creds, NEW q \in CachedQuote, Quote(q) \in quoted,
         signed[c] = Terms(q), Transfer(c)
  PROVE  /\ captured' \in [Creds -> [price : Prices, payTo : PayTos] \cup {None}]
         /\ captured'[c] = Terms(q)
         /\ captured'[c] \in {Terms(e) : e \in quoted}
         /\ \A d \in Creds \ {c} : captured'[d] = captured[d]
         /\ \A s \in Requests : Paid(s) => cred[s] # c
<1>1. Terms(Quote(q)) = Terms(q)
  BY DEF Terms, Quote
<1>2. ASSUME NEW s \in Requests, Paid(s) PROVE cred[s] # c
  <2>1. local[s] \in CachedQuote /\ captured[cred[s]] = Terms(local[s])
    BY <1>2 DEF CFInv, RequestInv, Paid, OnSettleLeg
  <2> QED
    BY <2>1, TermsAreTerms DEF Transfer
<1> QED
  BY <1>1, <1>2, TermsAreTerms DEF Transfer, CFInv, TypeOK

\* What one coroutine does leaves the others' part of the invariant alone, as
\* long as quotes, signatures and captures are only ever added, and it does not
\* become paid for by a credential that already paid for another.
LEMMA Frame ==
  ASSUME CFInv, TypeOK', NEW r \in Requests,
         \A s \in Requests \ {r} :
           pc'[s] = pc[s] /\ body'[s] = body[s] /\ cred'[s] = cred[s]
           /\ local'[s] = local[s] /\ answer'[s] = answer[s],
         quoted \subseteq quoted',
         \A c \in Creds : signed[c] # None => signed'[c] = signed[c],
         \A c \in Creds : captured[c] # None => captured'[c] = captured[c],
         \A c \in Creds : captured'[c] # None => captured'[c] \in {Terms(q) : q \in quoted'},
         \A b \in Bodies : mem_state'[b] # None => Quote(mem_state'[b]) \in quoted',
         RequestInv(r)',
         Paid(r)' => \A s \in Requests \ {r} : Paid(s) => cred[s] # cred'[r]
  PROVE  CFInv'
<1>1. ASSUME NEW s \in Requests PROVE RequestInv(s)'
  <2>1. CASE s = r
    BY <2>1
  <2>2. CASE s # r
    <3>1. OnSettleLeg(s) \/ Completed(s) => local[s] \in CachedQuote /\ Terms(local[s]) # None
      BY TermsAreTerms DEF CFInv, RequestInv
    <3> QED
      BY <2>2, <3>1 DEF CFInv, RequestInv, OnSettleLeg, Paid, Completed
  <2> QED BY <2>1, <2>2
<1>2. \A s, t \in Requests : Paid(s)' /\ Paid(t)' /\ cred'[s] = cred'[t] => s = t
  BY DEF CFInv, Paid, Completed
<1> QED
  BY <1>1, <1>2 DEF CFInv, CapturedOnQuotedTerms

\* A read of the cache leaves some of its entries, and finds one of them.
LEMMA ReadTypes ==
  ASSUME TypeOK, EvictExpired
  PROVE  /\ mem_state' \in [Bodies -> CachedQuote \cup {None}]
         /\ \A b \in Bodies : Live(b) => mem_state[b] \in DraftQuote
<1>1. mem_state' \in [Bodies -> CachedQuote \cup {None}]
  BY DEF TypeOK, EvictExpired
<1>2. ASSUME NEW b \in Bodies, Live(b) PROVE mem_state[b] \in DraftQuote
  BY <1>2 DEF TypeOK, Live, CachedQuote, DraftQuote
<1> QED
  BY <1>1, <1>2

\* An arrival: a settle leg copies a quote that the cache holds.
LEMMA ArriveInv ==
  ASSUME CFInv, NEW r \in Requests, Arrive(r)
  PROVE  CFInv'
<1> USE DEF CFInv, RequestInv, Paid, Completed, OnSettleLeg, Answer, Go, moneyVars, historyVars
<1>1. ASSUME NEW b \in Bodies, InvalidInput(r, b) PROVE CFInv'
  <2> USE <1>1 DEF InvalidInput
  <2>1. TypeOK'
    BY DEF TypeOK, Suspended, Answers, DraftQuote
  <2>2. RequestInv(r)'
    BY DEF TypeOK
  <2> QED
    BY <2>1, <2>2, Frame DEF TypeOK, CapturedOnQuotedTerms
<1>2. ASSUME NEW b \in Bodies, ProbeRead(r, b) PROVE CFInv'
  <2> USE <1>2 DEF ProbeRead
  <2>1. TypeOK'
    BY ReadTypes DEF TypeOK, Suspended, Answers
  <2>2. RequestInv(r)'
    BY DEF TypeOK, EvictExpired, Live
  <2> QED
    BY <2>1, <2>2, Frame DEF TypeOK, CapturedOnQuotedTerms, EvictExpired, Live
<1>3. ASSUME NEW b \in Bodies, NEW c \in Creds, SettleRead(r, b, c) PROVE CFInv'
  <2> USE <1>3 DEF SettleRead
  <2>1. TypeOK'
    BY ReadTypes DEF TypeOK, Suspended, Answers
  <2>2. RequestInv(r)'
    BY DEF TypeOK, EvictExpired, Live
  <2> QED
    BY <2>1, <2>2, Frame DEF TypeOK, CapturedOnQuotedTerms, EvictExpired, Live
<1> QED BY <1>1, <1>2, <1>3 DEF Arrive

\* The probe leg: only WriteQuote adds a quote, and it is in the cache from then on.
LEMMA ProbeInv ==
  ASSUME CFInv, NEW r \in Requests, ProbeStep(r)
  PROVE  CFInv'
<1> USE DEF CFInv, RequestInv, Paid, Completed, OnSettleLeg, Answer, Go, moneyVars, historyVars
<1>1. ASSUME WorkYieldsNothing(r) PROVE CFInv'
  <2> USE <1>1 DEF WorkYieldsNothing
  <2>1. TypeOK'
    BY DEF TypeOK, Suspended, Answers, DraftQuote
  <2>2. RequestInv(r)'
    BY DEF TypeOK
  <2> QED
    BY <2>1, <2>2, Frame DEF TypeOK, CapturedOnQuotedTerms
<1>2. ASSUME NEW n \in Counts, WorkYields(r, n) PROVE CFInv'
  <2> USE <1>2 DEF WorkYields
  <2>1. TypeOK'
    BY DEF TypeOK, Suspended, Answers, DraftQuote, Prices
  <2>2. RequestInv(r)'
    BY DEF TypeOK, DraftQuote, Prices
  <2> QED
    BY <2>1, <2>2, Frame DEF TypeOK, CapturedOnQuotedTerms
<1>3. ASSUME Mint(r) PROVE CFInv'
  <2>1. TypeOK'
    BY <1>3 DEF Mint, TypeOK, Suspended, Answers, DraftQuote, PayTos
  <2>2. RequestInv(r)'
    BY <1>3 DEF Mint, TypeOK, CachedQuote, DraftQuote, PayTos
  <2>3. /\ pc' = [pc EXCEPT ![r] = "write"] /\ pc[r] = "mint"
        /\ \A s \in Requests \ {r} : local'[s] = local[s]
        /\ UNCHANGED <<mem_state, body, cred, answer, signed, captured, quoted>>
    BY <1>3 DEF Mint, TypeOK
  <2> QED
    BY <2>1, <2>2, <2>3, Frame DEF TypeOK, CapturedOnQuotedTerms
<1>4. ASSUME MintFails(r) PROVE CFInv'
  <2> USE <1>4 DEF MintFails
  <2>1. TypeOK'
    BY DEF TypeOK, Suspended, Answers, DraftQuote
  <2>2. RequestInv(r)'
    BY DEF TypeOK
  <2> QED
    BY <2>1, <2>2, Frame DEF TypeOK, CapturedOnQuotedTerms
<1>5. ASSUME WriteQuote(r) PROVE CFInv'
  <2> DEFINE q == [local[r] EXCEPT !.expires = clock + TTL]
  <2> USE <1>5 DEF WriteQuote
  <2>1. q \in CachedQuote /\ q \in DraftQuote
    BY CFAssumption DEF TypeOK, CachedQuote, DraftQuote
  <2>2. Quote(q) \in Quotes
    BY <2>1, TermsAreTerms
  <2> HIDE DEF q
  <2>3. /\ pc[r] = "write" /\ pc' = [pc EXCEPT ![r] = "emit"]
        /\ mem_state' = [mem_state EXCEPT ![body[r]] = q]
        /\ local' = [local EXCEPT ![r] = q]
        /\ quoted' = quoted \cup {Quote(q)}
        /\ UNCHANGED <<clock, crashes, body, cred, answer, moneyVars, offers, mints>>
    BY DEF q
  <2>4. TypeOK'
    BY <2>1, <2>2, <2>3 DEF TypeOK, Suspended
  <2>5. RequestInv(r)'
    BY <2>1, <2>3 DEF TypeOK
  <2>6. \A b \in Bodies : mem_state'[b] # None => Quote(mem_state'[b]) \in quoted'
    BY <2>3 DEF TypeOK
  <2>7. \A c \in Creds : captured'[c] # None => captured'[c] \in {Terms(e) : e \in quoted'}
    BY <2>3 DEF CapturedOnQuotedTerms
  <2>8. \A s \in Requests \ {r} :
          pc'[s] = pc[s] /\ body'[s] = body[s] /\ cred'[s] = cred[s]
          /\ local'[s] = local[s] /\ answer'[s] = answer[s]
    BY <2>3 DEF TypeOK
  <2>9. ~Paid(r)'
    BY <2>3 DEF TypeOK
  <2> QED
    BY <2>3, <2>4, <2>5, <2>6, <2>7, <2>8, <2>9, Frame
<1>6. ASSUME Emit402(r) PROVE CFInv'
  <2> USE <1>6 DEF Emit402
  <2>1. TypeOK'
    BY DEF TypeOK, Suspended, Answers, DraftQuote
  <2>2. RequestInv(r)'
    BY DEF TypeOK
  <2> QED
    BY <2>1, <2>2, Frame DEF TypeOK, CapturedOnQuotedTerms
<1> QED BY <1>1, <1>2, <1>3, <1>4, <1>5, <1>6 DEF ProbeStep

\* The settle leg, when the facilitator reports a refusal by raising only.
LEMMA SettleInv ==
  ASSUME CFInv, NEW r \in Requests, SettleStep(r), ~ReturnsRefusal
  PROVE  CFInv'
<1> USE DEF CFInv, RequestInv, Paid, Completed, OnSettleLeg, Answer, Go, moneyVars, historyVars
<1>1. ASSUME ScreenClears(r) PROVE CFInv'
  <2> USE <1>1 DEF ScreenClears
  <2>1. TypeOK'
    BY DEF TypeOK, Suspended, Answers, DraftQuote
  <2>2. RequestInv(r)'
    BY DEF TypeOK
  <2> QED
    BY <2>1, <2>2, Frame DEF TypeOK, CapturedOnQuotedTerms
<1>2. ASSUME ScreenDenies(r) PROVE CFInv'
  <2> USE <1>2 DEF ScreenDenies
  <2>1. TypeOK'
    BY DEF TypeOK, Suspended, Answers, DraftQuote
  <2>2. RequestInv(r)'
    BY DEF TypeOK
  <2> QED
    BY <2>1, <2>2, Frame DEF TypeOK, CapturedOnQuotedTerms
<1>3. ASSUME VerifyRejects(r) PROVE CFInv'
  <2> USE <1>3 DEF VerifyRejects
  <2>1. TypeOK'
    BY DEF TypeOK, Suspended, Answers, DraftQuote
  <2>2. RequestInv(r)'
    BY DEF TypeOK
  <2> QED
    BY <2>1, <2>2, Frame DEF TypeOK, CapturedOnQuotedTerms
<1>4. ASSUME VerifyPasses(r) PROVE CFInv'
  <2> USE <1>4 DEF VerifyPasses
  <2>1. TypeOK'
    BY DEF TypeOK, Suspended, Answers, DraftQuote
  <2>2. RequestInv(r)'
    BY DEF TypeOK, BindPayTo, FacilitatorAccepts, Terms
  <2> QED
    BY <2>1, <2>2, Frame DEF TypeOK, CapturedOnQuotedTerms
<1>5. ASSUME VerifyFails(r) PROVE CFInv'
  <2> USE <1>5 DEF VerifyFails
  <2>1. TypeOK'
    BY DEF TypeOK, Suspended, Answers, DraftQuote
  <2>2. RequestInv(r)'
    BY DEF TypeOK
  <2> QED
    BY <2>1, <2>2, Frame DEF TypeOK, CapturedOnQuotedTerms
<1>6. ASSUME SettleReturns(r) PROVE CFInv'
  <2> USE <1>6 DEF SettleReturns
  <2>1. local[r] \in CachedQuote /\ Quote(local[r]) \in quoted /\ cred[r] \in Creds
    OBVIOUS
  <2>2. CASE Transfer(cred[r])
    <3>1. /\ captured' \in [Creds -> [price : Prices, payTo : PayTos] \cup {None}]
          /\ captured'[cred[r]] = Terms(local[r])
          /\ captured'[cred[r]] \in {Terms(e) : e \in quoted}
          /\ \A d \in Creds \ {cred[r]} : captured'[d] = captured[d]
          /\ \A s \in Requests : Paid(s) => cred[s] # cred[r]
      <4>1. signed[cred[r]] = Terms(local[r])
        BY <2>2 DEF TypeOK
      <4> HIDE DEF CFInv, Paid
      <4> QED
        BY <2>1, <2>2, <4>1, TransferOnTerms
    <3>2. TypeOK'
      BY <3>1 DEF TypeOK, Suspended, Answers
    <3>3. RequestInv(r)'
      BY <3>1 DEF TypeOK
    <3>4. \A c \in Creds : captured[c] # None => captured'[c] = captured[c]
      BY <2>2, <3>1 DEF Transfer
    <3> QED
      BY <3>1, <3>2, <3>3, <3>4, Frame DEF TypeOK, CapturedOnQuotedTerms
  <2> QED BY <2>2
<1>7. ASSUME SettleRaises(r) PROVE CFInv'
  <2> USE <1>7 DEF SettleRaises
  <2>1. local[r] \in CachedQuote /\ Quote(local[r]) \in quoted /\ cred[r] \in Creds
    OBVIOUS
  <2>2. CASE Transfer(cred[r])
    <3>1. /\ captured' \in [Creds -> [price : Prices, payTo : PayTos] \cup {None}]
          /\ captured'[cred[r]] = Terms(local[r])
          /\ captured'[cred[r]] \in {Terms(e) : e \in quoted}
          /\ \A d \in Creds \ {cred[r]} : captured'[d] = captured[d]
          /\ \A s \in Requests : Paid(s) => cred[s] # cred[r]
      <4>1. signed[cred[r]] = Terms(local[r])
        BY <2>2 DEF TypeOK
      <4> HIDE DEF CFInv, Paid
      <4> QED
        BY <2>1, <2>2, <4>1, TransferOnTerms
    <3>2. TypeOK'
      BY <3>1 DEF TypeOK, Suspended, Answers
    <3>3. RequestInv(r)'
      BY <3>1 DEF TypeOK
    <3>4. \A c \in Creds : captured[c] # None => captured'[c] = captured[c]
      BY <2>2, <3>1 DEF Transfer
    <3> QED
      BY <3>1, <3>2, <3>3, <3>4, Frame DEF TypeOK, CapturedOnQuotedTerms
  <2>3. CASE UNCHANGED captured
    <3>1. TypeOK'
      BY <2>3 DEF TypeOK, Suspended, Answers
    <3>2. RequestInv(r)'
      BY <2>3 DEF TypeOK
    <3> QED
      BY <2>3, <3>1, <3>2, Frame DEF TypeOK, CapturedOnQuotedTerms
  <2> QED BY <2>2, <2>3
<1>8. ASSUME NoMppHook(r) PROVE CFInv'
  <2> USE <1>8 DEF NoMppHook
  <2>1. TypeOK'
    BY DEF TypeOK, Suspended, Answers, DraftQuote
  <2>2. RequestInv(r)'
    BY DEF TypeOK
  <2> QED
    BY <2>1, <2>2, Frame DEF TypeOK, CapturedOnQuotedTerms
<1>9. ASSUME ComposeCharges(r) PROVE CFInv'
  <2> USE <1>9 DEF ComposeCharges
  <2>1. local[r] \in CachedQuote /\ Quote(local[r]) \in quoted /\ cred[r] \in Creds
    OBVIOUS
  <2>2. CASE FacilitatorAccepts(r, local[r].payTo) /\ Transfer(cred[r])
    <3>1. /\ captured' \in [Creds -> [price : Prices, payTo : PayTos] \cup {None}]
          /\ captured'[cred[r]] = Terms(local[r])
          /\ captured'[cred[r]] \in {Terms(e) : e \in quoted}
          /\ \A d \in Creds \ {cred[r]} : captured'[d] = captured[d]
          /\ \A s \in Requests : Paid(s) => cred[s] # cred[r]
      <4>1. signed[cred[r]] = Terms(local[r])
        BY <2>2 DEF FacilitatorAccepts, Terms
      <4> HIDE DEF CFInv, Paid
      <4> QED
        BY <2>1, <2>2, <4>1, TransferOnTerms
    <3>2. TypeOK'
      BY <3>1 DEF TypeOK, Suspended, Answers
    <3>3. RequestInv(r)'
      BY <3>1 DEF TypeOK
    <3>4. \A c \in Creds : captured[c] # None => captured'[c] = captured[c]
      BY <2>2, <3>1 DEF Transfer
    <3> QED
      BY <3>1, <3>2, <3>3, <3>4, Frame DEF TypeOK, CapturedOnQuotedTerms
  <2> QED BY <2>2
<1>10. ASSUME ComposeRejects(r) PROVE CFInv'
  <2> USE <1>10 DEF ComposeRejects
  <2>1. TypeOK'
    BY DEF TypeOK, Suspended, Answers, DraftQuote
  <2>2. RequestInv(r)'
    BY DEF TypeOK
  <2> QED
    BY <2>1, <2>2, Frame DEF TypeOK, CapturedOnQuotedTerms
<1>11. ASSUME ComposeRaises(r) PROVE CFInv'
  <2> USE <1>11 DEF ComposeRaises
  <2>1. local[r] \in CachedQuote /\ Quote(local[r]) \in quoted /\ cred[r] \in Creds
    OBVIOUS
  <2>2. CASE FacilitatorAccepts(r, local[r].payTo) /\ Transfer(cred[r])
    <3>1. /\ captured' \in [Creds -> [price : Prices, payTo : PayTos] \cup {None}]
          /\ captured'[cred[r]] = Terms(local[r])
          /\ captured'[cred[r]] \in {Terms(e) : e \in quoted}
          /\ \A d \in Creds \ {cred[r]} : captured'[d] = captured[d]
          /\ \A s \in Requests : Paid(s) => cred[s] # cred[r]
      <4>1. signed[cred[r]] = Terms(local[r])
        BY <2>2 DEF FacilitatorAccepts, Terms
      <4> HIDE DEF CFInv, Paid
      <4> QED
        BY <2>1, <2>2, <4>1, TransferOnTerms
    <3>2. TypeOK'
      BY <3>1 DEF TypeOK, Suspended, Answers
    <3>3. RequestInv(r)'
      BY <3>1 DEF TypeOK
    <3>4. \A c \in Creds : captured[c] # None => captured'[c] = captured[c]
      BY <2>2, <3>1 DEF Transfer
    <3> QED
      BY <3>1, <3>2, <3>3, <3>4, Frame DEF TypeOK, CapturedOnQuotedTerms
  <2>3. CASE UNCHANGED captured
    <3>1. TypeOK'
      BY <2>3 DEF TypeOK, Suspended, Answers
    <3>2. RequestInv(r)'
      BY <2>3 DEF TypeOK
    <3> QED
      BY <2>3, <3>1, <3>2, Frame DEF TypeOK, CapturedOnQuotedTerms
  <2> QED BY <2>2, <2>3
<1>12. ASSUME Respond(r) PROVE CFInv'
  <2> USE <1>12 DEF Respond
  <2>1. TypeOK'
    BY DEF TypeOK, Suspended, Answers, DraftQuote
  <2>2. RequestInv(r)'
    BY DEF TypeOK
  <2> QED
    BY <2>1, <2>2, Frame DEF TypeOK, CapturedOnQuotedTerms
<1> QED BY <1>1, <1>2, <1>3, <1>4, <1>5, <1>6, <1>7, <1>8, <1>9, <1>10, <1>11, <1>12 DEF SettleStep

\* Buyers, the clock and restarts take no part in what is paid for: a restart
\* closes the open requests and forgets the cache, it completes nothing.
LEMMA EnvironmentInv ==
  ASSUME CFInv, (\E c \in Creds : Sign(c)) \/ Tick \/ Crash
  PROVE  CFInv'
<1> USE DEF CFInv, RequestInv, Paid, Completed, OnSettleLeg, CapturedOnQuotedTerms
<1>1. ASSUME NEW c \in Creds, Sign(c) PROVE CFInv'
  <2> USE <1>1 DEF Sign, requestVars, historyVars
  <2>1. TypeOK'
    BY DEF TypeOK, CachedQuote, PayTos
  <2>2. ASSUME NEW r \in Requests PROVE RequestInv(r)'
    BY DEF TypeOK
  <2> QED
    BY <2>1, <2>2
<1>2. CASE Tick
  BY <1>2, CFAssumption DEF Tick, TypeOK, requestVars, moneyVars, historyVars
<1>3. CASE Crash
  <2> USE <1>3 DEF Crash, moneyVars, historyVars
  <2>1. TypeOK'
    BY DEF TypeOK, Suspended, Answers
  <2>2. ASSUME NEW r \in Requests PROVE RequestInv(r)'
    BY DEF TypeOK, Suspended
  <2>3. \A r \in Requests : Paid(r)' => Paid(r)
    BY DEF TypeOK, Suspended
  <2> QED
    BY <2>1, <2>2, <2>3
<1> QED BY <1>1, <1>2, <1>3

\* A stuttering step keeps the invariant, as it keeps every variable.
LEMMA StutterInv == CFInv /\ UNCHANGED vars => CFInv'
  BY DEF vars, CFInv, TypeOK, RequestInv, Paid, Completed, OnSettleLeg, CapturedOnQuotedTerms

\* Every step keeps the invariant, if the facilitator raises when it refuses.
LEMMA NextInv == ASSUME ~ReturnsRefusal PROVE CFInv /\ [Next]_vars => CFInv'
  BY ArriveInv, ProbeInv, SettleInv, EnvironmentInv, StutterInv DEF Next

\* In every behaviour of an endpoint whose facilitator raises when it refuses.
THEOREM Invariance == ASSUME ~ReturnsRefusal PROVE Spec => []CFInv
<1>1. Init => CFInv
  BY InitInv
<1>2. CFInv /\ [Next]_vars => CFInv'
  BY NextInv
<1> QED BY <1>1, <1>2, PTL DEF Spec

-----------------------------------------------------------------------------
\* Every variable keeps its type.
THEOREM TypeCorrect == ASSUME ~ReturnsRefusal PROVE Spec => []TypeOK
<1>1. CFInv => TypeOK
  BY DEF CFInv
<1>2. Spec => []CFInv
  BY Invariance
<1> QED BY <1>1, <1>2, PTL

\* A 200 is answered only for a payment the chain has moved, on the exact terms
\* of the quote whose body it carries.
THEOREM PaidBeforeDelivery == ASSUME ~ReturnsRefusal PROVE Spec => []DeliveredWasPaid
<1>1. CFInv => DeliveredWasPaid
  BY DEF CFInv, RequestInv, Paid, DeliveredWasPaid
<1>2. Spec => []CFInv
  BY Invariance
<1> QED BY <1>1, <1>2, PTL

\* A credential buys one delivery at most, however often it is sent.
THEOREM NoDoubleDelivery == ASSUME ~ReturnsRefusal PROVE Spec => []OneDeliveryPerCredential
<1>1. CFInv => OneDeliveryPerCredential
  BY DEF CFInv, Paid, OneDeliveryPerCredential
<1>2. Spec => []CFInv
  BY Invariance
<1> QED BY <1>1, <1>2, PTL

\* No money moves on terms the merchant has not quoted.
THEOREM OnlyQuotedTerms == ASSUME ~ReturnsRefusal PROVE Spec => []CapturedOnQuotedTerms
<1>1. CFInv => CapturedOnQuotedTerms
  BY DEF CFInv
<1>2. Spec => []CFInv
  BY Invariance
<1> QED BY <1>1, <1>2, PTL

-----------------------------------------------------------------------------

\* A step of one request, or of none.
RequestStep(r) == Arrive(r) \/ ProbeStep(r) \/ SettleStep(r)

\* No step touches what another request holds.
LEMMA OthersKept ==
  ASSUME TypeOK, NEW r \in Requests, RequestStep(r)
  PROVE  \A s \in Requests \ {r} : /\ pc'[s] = pc[s] /\ body'[s] = body[s] /\ cred'[s] = cred[s]
                                   /\ local'[s] = local[s] /\ answer'[s] = answer[s]
<1> USE DEF Answer, Go, TypeOK
<1>1. CASE Arrive(r)
  BY <1>1 DEF Arrive, InvalidInput, ProbeRead, SettleRead
<1>2. CASE ProbeStep(r)
  BY <1>2 DEF ProbeStep, WorkYieldsNothing, WorkYields, Mint, MintFails, WriteQuote, Emit402
<1>3. CASE SettleStep(r)
  BY <1>3 DEF SettleStep, ScreenClears, ScreenDenies, VerifyRejects, VerifyPasses, VerifyFails,
              SettleReturns, SettleRaises, NoMppHook, ComposeCharges, ComposeRejects, ComposeRaises, Respond
<1> QED BY <1>1, <1>2, <1>3 DEF RequestStep

-----------------------------------------------------------------------------
(* The screening of payers. *)

PastScreen(r) == pc[r] \in {"verify", "settle", "compose"}

Wanted(c) == ScreenOn /\ c \in Sanctioned \ Signerless

\* Behind the screen no header names a wanted wallet, and no wanted wallet has
\* paid.
ScreenInv ==
  /\ \A r \in Requests : PastScreen(r) /\ signed[cred[r]] # None => ~Wanted(cred[r])
  /\ \A c \in Creds : Wanted(c) => captured[c] = None

\* Money moves for a header behind the screen only.
LEMMA OnlyPastScreen ==
  ASSUME CFInv, NEW r \in Requests, RequestStep(r)
  PROVE  /\ UNCHANGED signed
         /\ ScreenClears(r) \/ ((PastScreen(r))' => PastScreen(r) /\ cred'[r] = cred[r])
         /\ UNCHANGED captured \/ (PastScreen(r) /\ Transfer(cred[r]))
<1> USE DEF Answer, Go, PastScreen, moneyVars
<1>0. TypeOK
  BY DEF CFInv
<1>1. CASE Arrive(r)
  BY <1>0, <1>1 DEF Arrive, InvalidInput, ProbeRead, SettleRead, TypeOK
<1>2. CASE ProbeStep(r)
  BY <1>0, <1>2 DEF ProbeStep, WorkYieldsNothing, WorkYields, Mint, MintFails, WriteQuote, Emit402, TypeOK
<1>3. CASE \/ ScreenDenies(r) \/ VerifyRejects(r) \/ VerifyPasses(r) \/ VerifyFails(r)
           \/ NoMppHook(r) \/ ComposeRejects(r) \/ Respond(r)
  BY <1>0, <1>3 DEF ScreenDenies, VerifyRejects, VerifyPasses, VerifyFails, NoMppHook, ComposeRejects,
                    Respond, TypeOK
<1>4. CASE SettleReturns(r) \/ SettleRaises(r) \/ ComposeCharges(r) \/ ComposeRaises(r)
  BY <1>0, <1>4 DEF SettleReturns, SettleRaises, ComposeCharges, ComposeRaises, TypeOK
<1>5. CASE ScreenClears(r)
  BY <1>5 DEF ScreenClears
<1> QED BY <1>1, <1>2, <1>3, <1>4, <1>5 DEF RequestStep, SettleStep

LEMMA ScreenStep ==
  ASSUME CFInv, ScreenInv, [Next]_vars
  PROVE  ScreenInv'
<1>0. /\ TypeOK /\ Signerless \subseteq Creds
      /\ \A r \in Requests : pc[r] = "screen" \/ PastScreen(r) => cred[r] \in Creds
  BY CFAssumption DEF CFInv, RequestInv, OnSettleLeg, PastScreen
<1>1. ASSUME NEW r \in Requests, RequestStep(r) PROVE ScreenInv'
  <2>1. ASSUME NEW s \in Requests, PastScreen(s)', signed'[cred'[s]] # None PROVE ~Wanted(cred'[s])
    <3>1. signed' = signed
      BY <1>1, OnlyPastScreen
    <3>2. CASE s = r /\ ScreenClears(r)
      BY <1>0, <2>1, <3>1, <3>2 DEF ScreenClears, Screened, Wanted
    <3>3. CASE s # r \/ ~ScreenClears(r)
      <4>1. PastScreen(s) /\ cred'[s] = cred[s]
        BY <1>0, <1>1, <2>1, <3>3, OnlyPastScreen, OthersKept DEF PastScreen
      <4> QED BY <2>1, <3>1, <4>1 DEF ScreenInv
    <3> QED BY <3>2, <3>3
  <2>2. ASSUME NEW c \in Creds, Wanted(c) PROVE captured'[c] = None
    <3>1. CASE UNCHANGED captured
      BY <2>2, <3>1 DEF ScreenInv
    <3>2. CASE PastScreen(r) /\ Transfer(cred[r])
      BY <1>0, <2>2, <3>2 DEF ScreenInv, Transfer, TypeOK
    <3> QED BY <1>1, <3>1, <3>2, OnlyPastScreen
  <2> QED BY <2>1, <2>2 DEF ScreenInv, Wanted
<1>2. ASSUME NEW c \in Creds, Sign(c) PROVE ScreenInv'
  <2>1. /\ \A r \in Requests : cred[r] # c
        /\ \A d \in Creds \ {c} : signed'[d] = signed[d]
        /\ UNCHANGED <<pc, cred, captured>>
    BY <1>0, <1>2 DEF Sign, requestVars, TypeOK
  <2> QED BY <1>0, <2>1 DEF ScreenInv, PastScreen, Wanted
<1>3. CASE Tick \/ UNCHANGED vars
  BY <1>3 DEF ScreenInv, PastScreen, Wanted, Tick, requestVars, moneyVars, vars
<1>4. CASE Crash
  <2>1. \A r \in Requests : PastScreen(r)' => PastScreen(r)
    BY <1>0, <1>4 DEF Crash, PastScreen, Suspended
  <2> QED BY <1>4, <2>1 DEF Crash, ScreenInv, Wanted, moneyVars
<1> QED BY <1>1, <1>2, <1>3, <1>4 DEF Next, RequestStep

-----------------------------------------------------------------------------
(* The price of a minted address. *)

Minted(r) == pc[r] \notin {"idle", "work", "mint"}

\* A quote that names a minted address has the price it was minted for.
KeepsPrice(q) == q.payTo \in Requests => q.price = mints[q.payTo] /\ Minted(q.payTo)

PriceInv ==
  /\ \A q \in quoted : KeepsPrice(q)
  /\ \A r \in Requests : pc[r] = "write" => KeepsPrice(local[r])
  /\ \A o \in offers : Quote(o.quote) \in quoted

\* Nothing is minted twice, nor quoted at another price than it was minted for.
LEMMA PriceStep ==
  ASSUME CFInv, PriceInv, [Next]_vars
  PROVE  PriceInv'
<1>0. TypeOK /\ \A r \in Requests : RequestInv(r)
  BY DEF CFInv
<1> DEFINE Calm == /\ UNCHANGED <<quoted, offers, mints>>
                   /\ \A r \in Requests : Minted(r) => Minted(r)'
                   /\ \A r \in Requests : pc'[r] = "write" => pc[r] = "write" /\ local'[r] = local[r]
<1>1. CASE Calm
  BY <1>1 DEF PriceInv, KeepsPrice
<1>2. ASSUME NEW r \in Requests, Mint(r) PROVE PriceInv'
  <2>1. /\ ~Minted(r) /\ \A s \in Requests \ {r} : pc'[s] = pc[s] /\ local'[s] = local[s] /\ mints'[s] = mints[s]
        /\ UNCHANGED <<quoted, offers>>
        /\ \A s \in Requests : Minted(s) => Minted(s)'
        /\ Minted(r)'
    BY <1>0, <1>2 DEF Mint, Go, Minted, TypeOK
  <2>2. \A q : KeepsPrice(q) => KeepsPrice(q)'
    BY <2>1 DEF KeepsPrice
  <2>3. KeepsPrice(local[r])'
    BY <1>0, <1>2, <2>1, CFAssumption DEF Mint, Go, KeepsPrice, RequestInv, DraftQuote, TypeOK
  <2>4. ASSUME NEW s \in Requests, pc'[s] = "write" PROVE KeepsPrice(local[s])'
    <3>1. CASE s = r
      BY <2>3, <3>1
    <3>2. CASE s # r
      <4>1. pc[s] = "write" /\ local'[s] = local[s]
        BY <2>1, <2>4, <3>2
      <4>2. KeepsPrice(local[s])
        BY <4>1 DEF PriceInv
      <4> QED BY <2>1, <4>1, <4>2 DEF KeepsPrice
    <3> QED BY <3>1, <3>2
  <2>5. \A q \in quoted' : KeepsPrice(q)'
    BY <2>1, <2>2 DEF PriceInv
  <2> QED BY <2>1, <2>4, <2>5 DEF PriceInv
<1>3. ASSUME NEW r \in Requests, WriteQuote(r) PROVE PriceInv'
  <2>1. /\ pc[r] = "write" /\ pc' = [pc EXCEPT ![r] = "emit"]
        /\ local' = [local EXCEPT ![r] = [local[r] EXCEPT !.expires = clock + TTL]]
        /\ quoted' = quoted \cup {Quote([local[r] EXCEPT !.expires = clock + TTL])}
        /\ UNCHANGED <<offers, mints>> /\ local[r] \in CachedQuote
    BY <1>0, <1>3 DEF WriteQuote, Go, RequestInv
  <2>2. Quote([local[r] EXCEPT !.expires = clock + TTL]) = Quote(local[r])
    BY <2>1 DEF CachedQuote, Quote
  <2>3. KeepsPrice(Quote(local[r]))
    BY <2>1 DEF PriceInv, KeepsPrice, Quote
  <2>4. \A s \in Requests : Minted(s) => Minted(s)'
    BY <1>0, <2>1 DEF Minted, TypeOK
  <2>5. \A q : KeepsPrice(q) => KeepsPrice(q)'
    BY <2>1, <2>4 DEF KeepsPrice
  <2>6. \A s \in Requests : pc'[s] = "write" => pc[s] = "write" /\ local'[s] = local[s]
    BY <1>0, <2>1 DEF TypeOK
  <2>7. ASSUME NEW s \in Requests, pc'[s] = "write" PROVE KeepsPrice(local[s])'
    <3>1. KeepsPrice(local[s]) /\ local'[s] = local[s]
      BY <2>6, <2>7 DEF PriceInv
    <3> QED BY <2>1, <2>4, <3>1 DEF KeepsPrice
  <2>8. \A q \in quoted' : KeepsPrice(q)'
    BY <2>1, <2>2, <2>3, <2>5 DEF PriceInv
  <2> QED BY <2>1, <2>7, <2>8 DEF PriceInv
<1>4. ASSUME NEW r \in Requests, Emit402(r) PROVE PriceInv'
  <2>1. /\ pc[r] = "emit" /\ UNCHANGED <<quoted, mints, local>>
        /\ offers' = offers \cup {[body |-> body[r], quote |-> local[r]]}
        /\ pc' = [pc EXCEPT ![r] = "done"]
    BY <1>4 DEF Emit402, Answer
  <2>2. Quote(local[r]) \in quoted
    BY <1>0, <2>1 DEF RequestInv
  <2>3. \A s \in Requests : /\ Minted(s) => Minted(s)'
                            /\ pc'[s] = "write" => pc[s] = "write"
    BY <1>0, <2>1 DEF Minted, TypeOK
  <2>4. \A o \in offers' : Quote(o.quote) \in quoted
    BY <2>1, <2>2 DEF PriceInv
  <2> QED BY <2>1, <2>3, <2>4 DEF PriceInv, KeepsPrice
<1> USE DEF Answer, Go, Minted, moneyVars, historyVars
<1>5. ASSUME NEW r \in Requests, Arrive(r) PROVE Calm
  BY <1>0, <1>5 DEF Arrive, InvalidInput, ProbeRead, SettleRead, TypeOK
<1>6. ASSUME NEW r \in Requests, NEW n \in Counts, WorkYields(r, n) PROVE Calm
  BY <1>0, <1>6 DEF WorkYields, TypeOK
<1>7. ASSUME NEW r \in Requests, SettleStep(r) PROVE Calm
  BY <1>0, <1>7 DEF SettleStep, ScreenClears, ScreenDenies, VerifyRejects, VerifyPasses, VerifyFails,
                    SettleReturns, SettleRaises, NoMppHook, ComposeCharges, ComposeRejects, ComposeRaises,
                    Respond, TypeOK
<1>8. ASSUME (\E c \in Creds : Sign(c)) \/ Tick \/ UNCHANGED vars PROVE Calm
  <2>1. UNCHANGED <<quoted, offers, mints, pc, local>>
    BY <1>8 DEF Sign, Tick, requestVars, vars
  <2> QED BY <2>1
<1>9. ASSUME Crash PROVE Calm
  <2>1. /\ UNCHANGED <<quoted, offers, mints, local>>
        /\ \A r \in Requests : pc'[r] \in {"done", pc[r]}
    BY <1>9 DEF Crash
  <2> QED BY <2>1
<1>10. ASSUME NEW r \in Requests, WorkYieldsNothing(r) \/ MintFails(r) PROVE Calm
  BY <1>0, <1>10 DEF WorkYieldsNothing, MintFails, TypeOK
<1> HIDE DEF Calm
<1>11. CASE \E r \in Requests : ProbeStep(r)
  BY <1>1, <1>2, <1>3, <1>4, <1>6, <1>10, <1>11 DEF ProbeStep
<1> QED BY <1>1, <1>5, <1>7, <1>8, <1>9, <1>11 DEF Next

-----------------------------------------------------------------------------
(* When a quote is called stale. *)

\* A quote for a body, good until a time, was lost in a restart, has lapsed, or
\* the cache holds one for that body that is good for as long.
Stands(b, until) ==
  \/ crashes > 0
  \/ until <= clock
  \/ mem_state[b] # None /\ until <= mem_state[b].expires

LapseInv ==
  /\ \A o \in offers : Stands(o.body, o.quote.expires)
  /\ \A r \in Requests : pc[r] = "emit" => Stands(body[r], local[r].expires)
  /\ \A b \in Bodies : mem_state[b] # None => mem_state[b].expires <= clock + TTL

\* The numbers are numbers.
LEMMA ExpiryTypes ==
  ASSUME CFInv
  PROVE  /\ clock \in Nat /\ crashes \in Nat /\ TTL \in Nat
         /\ \A b \in Bodies : mem_state[b] # None => mem_state[b].expires \in Nat
         /\ \A o \in offers : o.body \in Bodies /\ o.quote.expires \in Nat
         /\ \A r \in Requests : pc[r] = "emit" => body[r] \in Bodies /\ local[r].expires \in Nat
<1>1. TypeOK /\ \A r \in Requests : RequestInv(r)
  BY DEF CFInv
<1>2. \A b \in Bodies : mem_state[b] # None => mem_state[b].expires \in Nat
  BY <1>1 DEF TypeOK, CachedQuote
<1>3. \A o \in offers : o.body \in Bodies /\ o.quote.expires \in Nat
  BY <1>1 DEF TypeOK, CachedQuote
<1>4. \A r \in Requests : pc[r] = "emit" => body[r] \in Bodies /\ local[r].expires \in Nat
  BY <1>1 DEF RequestInv, CachedQuote
<1> QED BY <1>1, <1>2, <1>3, <1>4, CFAssumption DEF TypeOK

\* What a step has to do to the cache and to quotes for them to stand.
LEMMA LapseKept ==
  ASSUME CFInv, CFInv', LapseInv, clock <= clock', crashes <= crashes',
         \A b \in Bodies : mem_state[b] # None =>
           \/ mem_state'[b] # None /\ mem_state[b].expires <= mem_state'[b].expires
           \/ mem_state[b].expires <= clock
           \/ crashes' > 0,
         \A b \in Bodies : mem_state'[b] # None =>
           \/ mem_state[b] # None /\ mem_state'[b].expires = mem_state[b].expires
           \/ mem_state'[b].expires = clock' + TTL,
         \A o \in offers' : \/ o \in offers
                            \/ \E r \in Requests : pc[r] = "emit" /\ o = [body |-> body[r], quote |-> local[r]],
         \A r \in Requests : pc'[r] = "emit" =>
           \/ pc[r] = "emit" /\ body'[r] = body[r] /\ local'[r] = local[r]
           \/ mem_state'[body'[r]] # None /\ mem_state'[body'[r]] = local'[r]
  PROVE  LapseInv'
<1>1. /\ clock \in Nat /\ crashes \in Nat /\ TTL \in Nat /\ clock' \in Nat /\ crashes' \in Nat
      /\ \A b \in Bodies : mem_state[b] # None => mem_state[b].expires \in Nat
      /\ \A o \in offers : o.body \in Bodies /\ o.quote.expires \in Nat
      /\ \A r \in Requests : pc[r] = "emit" => body[r] \in Bodies /\ local[r].expires \in Nat
  BY ExpiryTypes DEF CFInv, TypeOK
<1>2. /\ \A b \in Bodies : mem_state'[b] # None => mem_state'[b].expires \in Nat
      /\ \A r \in Requests : pc'[r] = "emit" => body'[r] \in Bodies /\ local'[r].expires \in Nat
  BY DEF CFInv, TypeOK, CachedQuote, RequestInv
<1>3. ASSUME NEW b \in Bodies, NEW until \in Nat, Stands(b, until)
      PROVE  Stands(b, until)'
  BY <1>1, <1>2, <1>3 DEF Stands
<1>4. ASSUME NEW r \in Requests, pc[r] = "emit", NEW b, b = body[r], NEW until, until = local[r].expires
      PROVE  Stands(b, until)'
  <2>1. b \in Bodies /\ until \in Nat
    BY <1>1, <1>4
  <2>2. Stands(b, until)
    BY <1>4 DEF LapseInv
  <2> QED BY <1>3, <2>1, <2>2
<1>5. ASSUME NEW o \in offers' PROVE Stands(o.body, o.quote.expires)'
  <2>1. CASE o \in offers
    <3>1. Stands(o.body, o.quote.expires) /\ o.body \in Bodies /\ o.quote.expires \in Nat
      BY <1>1, <2>1 DEF LapseInv
    <3> QED BY <1>3, <3>1
  <2>2. CASE \E r \in Requests : pc[r] = "emit" /\ o = [body |-> body[r], quote |-> local[r]]
    <3>1. PICK r \in Requests : pc[r] = "emit" /\ o = [body |-> body[r], quote |-> local[r]]
      BY <2>2
    <3>2. o.body = body[r] /\ o.quote.expires = local[r].expires
      BY <3>1
    <3> QED BY <1>4, <3>1, <3>2
  <2> QED BY <2>1, <2>2
<1>6. ASSUME NEW r \in Requests, pc'[r] = "emit" PROVE Stands(body[r], local[r].expires)'
  <2>1. CASE pc[r] = "emit" /\ body'[r] = body[r] /\ local'[r] = local[r]
    <3>1. PICK b, until : b = body[r] /\ until = local[r].expires
      OBVIOUS
    <3>2. Stands(b, until)'
      BY <1>4, <2>1, <3>1
    <3> QED BY <2>1, <3>1, <3>2 DEF Stands
  <2>2. CASE mem_state'[body'[r]] # None /\ mem_state'[body'[r]] = local'[r]
    BY <1>2, <1>6, <2>2 DEF Stands
  <2> QED BY <1>6, <2>1, <2>2
<1>7. ASSUME NEW b \in Bodies, mem_state'[b] # None PROVE mem_state'[b].expires <= clock' + TTL
  BY <1>1, <1>2, <1>7 DEF LapseInv
<1> QED BY <1>5, <1>6, <1>7 DEF LapseInv

\* The cache replaces a quote for a body by a later one, and drops the lapsed.
LEMMA LapseStep ==
  ASSUME CFInv, CFInv', LapseInv, [Next]_vars
  PROVE  LapseInv'
<1>0. /\ TypeOK /\ \A r \in Requests : RequestInv(r)
      /\ clock \in Nat /\ crashes \in Nat /\ TTL \in Nat
      /\ \A b \in Bodies : mem_state[b] # None => mem_state[b].expires \in Nat
  BY ExpiryTypes DEF CFInv
<1> USE DEF Answer, Go, moneyVars, historyVars
<1>1. ASSUME NEW r \in Requests, Arrive(r) PROVE LapseInv'
  <2>1. /\ UNCHANGED <<clock, crashes, offers>>
        /\ UNCHANGED mem_state \/ EvictExpired
        /\ \A s \in Requests : pc'[s] = "emit" =>
             \/ pc[s] = "emit" /\ body'[s] = body[s] /\ local'[s] = local[s]
             \/ EvictExpired /\ body'[s] \in Bodies /\ Live(body'[s]) /\ local'[s] = mem_state[body'[s]]
    BY <1>0, <1>1 DEF Arrive, InvalidInput, ProbeRead, SettleRead, TypeOK
  <2>2. \A b \in Bodies : \/ mem_state'[b] = mem_state[b]
                          \/ mem_state'[b] = None /\ mem_state[b] # None /\ mem_state[b].expires <= clock
    BY <1>0, <2>1 DEF EvictExpired, Live
  <2>3. \A s \in Requests : pc'[s] = "emit" =>
          \/ pc[s] = "emit" /\ body'[s] = body[s] /\ local'[s] = local[s]
          \/ mem_state'[body'[s]] # None /\ mem_state'[body'[s]] = local'[s]
    BY <2>1 DEF EvictExpired, Live
  <2>4. \A b \in Bodies : mem_state[b] # None =>
          \/ mem_state'[b] # None /\ mem_state[b].expires <= mem_state'[b].expires
          \/ mem_state[b].expires <= clock
    BY <1>0, <2>2
  <2> QED BY <1>0, <2>1, <2>2, <2>3, <2>4, LapseKept
<1>2. ASSUME NEW r \in Requests, WriteQuote(r) PROVE LapseInv'
  <2> DEFINE q == [local[r] EXCEPT !.expires = clock + TTL]
  <2>1. /\ pc[r] = "write" /\ pc' = [pc EXCEPT ![r] = "emit"]
        /\ mem_state' = [mem_state EXCEPT ![body[r]] = q]
        /\ local' = [local EXCEPT ![r] = q]
        /\ UNCHANGED <<clock, crashes, body, offers>> /\ local[r] \in CachedQuote /\ body[r] \in Bodies
    BY <1>0, <1>2 DEF WriteQuote, RequestInv
  <2>2. q \in CachedQuote /\ q # None /\ q.expires = clock + TTL
    BY <1>0, <2>1, QuoteAssumption DEF CachedQuote
  <2> HIDE DEF q
  <2>3. mem_state'[body[r]] = q /\ \A b \in Bodies \ {body[r]} : mem_state'[b] = mem_state[b]
    BY <1>0, <2>1 DEF TypeOK
  <2>4. \A s \in Requests : pc'[s] = "emit" =>
          \/ pc[s] = "emit" /\ body'[s] = body[s] /\ local'[s] = local[s]
          \/ mem_state'[body'[s]] # None /\ mem_state'[body'[s]] = local'[s]
    BY <1>0, <2>1, <2>2, <2>3 DEF TypeOK
  <2>5. \A b \in Bodies : mem_state[b] # None =>
          mem_state'[b] # None /\ mem_state[b].expires <= mem_state'[b].expires
    <3>1. \A b \in Bodies : mem_state[b] # None => mem_state[b].expires <= clock + TTL
      BY DEF LapseInv
    <3> QED BY <1>0, <2>2, <2>3, <3>1
  <2>6. \A b \in Bodies : mem_state'[b] # None =>
          \/ mem_state[b] # None /\ mem_state'[b].expires = mem_state[b].expires
          \/ mem_state'[b].expires = clock' + TTL
    BY <2>1, <2>2, <2>3
  <2> QED BY <1>0, <2>1, <2>4, <2>5, <2>6, LapseKept
<1>3. ASSUME NEW r \in Requests, Emit402(r) PROVE LapseInv'
  <2>1. /\ pc[r] = "emit" /\ UNCHANGED <<clock, crashes, mem_state, body, local>>
        /\ offers' = offers \cup {[body |-> body[r], quote |-> local[r]]}
        /\ \A s \in Requests : pc'[s] = "emit" => pc[s] = "emit"
    BY <1>0, <1>3 DEF Emit402, TypeOK
  <2> QED BY <1>0, <2>1, LapseKept
<1>4. ASSUME UNCHANGED <<mem_state, offers>>, clock <= clock', crashes <= crashes',
             \A s \in Requests : pc'[s] = "emit" => pc[s] = "emit" /\ body'[s] = body[s] /\ local'[s] = local[s]
      PROVE  LapseInv'
  BY <1>0, <1>4, LapseKept
<1>5. ASSUME NEW r \in Requests, NEW n \in Counts, WorkYields(r, n) PROVE LapseInv'
  BY <1>0, <1>4, <1>5 DEF WorkYields, TypeOK
<1>6. ASSUME NEW r \in Requests, WorkYieldsNothing(r) \/ Mint(r) \/ MintFails(r)
      PROVE  LapseInv'
  BY <1>0, <1>4, <1>6 DEF WorkYieldsNothing, Mint, MintFails, TypeOK
<1>7. ASSUME NEW r \in Requests, SettleStep(r) PROVE LapseInv'
  <2>1. /\ UNCHANGED <<mem_state, offers, clock, crashes, body, local>>
        /\ \A s \in Requests : pc'[s] = "emit" => pc[s] = "emit"
    BY <1>0, <1>7 DEF SettleStep, ScreenClears, ScreenDenies, VerifyRejects, VerifyPasses, VerifyFails,
                      SettleReturns, SettleRaises, NoMppHook, ComposeCharges, ComposeRejects, ComposeRaises,
                      Respond, TypeOK
  <2> QED BY <1>0, <1>4, <2>1
<1>8. CASE (\E c \in Creds : Sign(c)) \/ Tick \/ UNCHANGED vars
  BY <1>0, <1>4, <1>8 DEF Sign, Tick, requestVars, vars
<1>9. CASE Crash
  <2>1. /\ crashes' = crashes + 1 /\ UNCHANGED <<clock, offers>>
        /\ \A b \in Bodies : mem_state'[b] = None
        /\ \A s \in Requests : pc'[s] # "emit"
    BY <1>0, <1>9 DEF Crash, Suspended, TypeOK
  <2> QED BY <1>0, <2>1, LapseKept
<1>10. CASE \E r \in Requests : ProbeStep(r)
  BY <1>2, <1>3, <1>5, <1>6, <1>10 DEF ProbeStep
<1> QED BY <1>1, <1>7, <1>8, <1>9, <1>10 DEF Next

\* stale_quote is answered to a settle leg whose body is not in the cache.
LEMMA StaleStep ==
  ASSUME CFInv, LapseInv, [Next]_vars,
         NEW r \in Requests, answer[r] = None, answer'[r] = "stale_quote", NEW o \in offers, o.body = body'[r]
  PROVE  crashes > 0 \/ o.quote.expires <= clock
<1>0. TypeOK
  BY DEF CFInv
<1>1. answer'[r] # answer[r]
  BY NullAssumption DEF Answers
<1>2. PICK s \in Requests : RequestStep(s)
  <2>1. ~Crash
    <3>1. Crash => answer'[r] \in {"dropped", answer[r]}
      BY DEF Crash
    <3> QED BY <1>1, <3>1
  <2>2. ~UNCHANGED vars /\ ~Tick /\ \A c \in Creds : ~Sign(c)
    BY <1>1 DEF vars, Tick, Sign, requestVars
  <2> QED BY <2>1, <2>2 DEF Next, RequestStep
<1>3. s = r
  BY <1>0, <1>1, <1>2, OthersKept
<1>4. PICK b \in Bodies, c \in Creds : SettleRead(r, b, c)
  <2> USE DEF Answer, TypeOK
  <2>1. ~ProbeStep(r)
    BY <1>0, <1>1 DEF ProbeStep, WorkYieldsNothing, WorkYields, Mint, MintFails, WriteQuote, Emit402
  <2>2. ~SettleStep(r)
    BY <1>0, <1>1 DEF SettleStep, ScreenClears, ScreenDenies, VerifyRejects, VerifyPasses, VerifyFails,
                      SettleReturns, SettleRaises, NoMppHook, ComposeCharges, ComposeRejects, ComposeRaises,
                      Respond
  <2>3. \A b \in Bodies : ~InvalidInput(r, b) /\ ~ProbeRead(r, b)
    BY <1>0, <1>1 DEF InvalidInput, ProbeRead
  <2> QED BY <1>2, <1>3, <2>1, <2>2, <2>3 DEF RequestStep, Arrive
<1>5. ~Live(b) /\ body'[r] = b
  BY <1>0, <1>1, <1>4 DEF SettleRead, TypeOK
<1>6. Stands(b, o.quote.expires)
  BY <1>5 DEF LapseInv
<1> QED BY <1>5, <1>6, ExpiryTypes DEF Stands, Live

-----------------------------------------------------------------------------
\* What holds at the start and is kept by every step.
QuoteInv == CFInv /\ ScreenInv /\ PriceInv /\ LapseInv

LEMMA InitQuoteInv == Init => QuoteInv
<1> SUFFICES ASSUME Init PROVE QuoteInv
  OBVIOUS
<1>1. CFInv
  BY InitInv
<1> QED BY <1>1 DEF Init, QuoteInv, ScreenInv, PastScreen, PriceInv, LapseInv

LEMMA NextQuoteInv == ASSUME ~ReturnsRefusal PROVE QuoteInv /\ [Next]_vars => QuoteInv'
<1> SUFFICES ASSUME QuoteInv, [Next]_vars PROVE QuoteInv'
  OBVIOUS
<1>1. CFInv /\ CFInv'
  BY NextInv DEF QuoteInv
<1> QED BY <1>1, ScreenStep, PriceStep, LapseStep DEF QuoteInv

THEOREM QuoteInvariance == ASSUME ~ReturnsRefusal PROVE Spec => []QuoteInv
<1>1. Init => QuoteInv
  BY InitQuoteInv
<1>2. QuoteInv /\ [Next]_vars => QuoteInv'
  BY NextQuoteInv
<1> QED BY <1>1, <1>2, PTL DEF Spec

\* An address minted for one price is neither offered nor paid at another
\* (_mint_and_resolve_recipients, 289-314, and the cache of 862-866).
THEOREM AddressKeepsPrice == ASSUME ~ReturnsRefusal PROVE Spec => []MintedAddressKeepsPrice
<1>1. QuoteInv => MintedAddressKeepsPrice
  <2> SUFFICES ASSUME QuoteInv,
                      NEW q \in {Quote(o.quote) : o \in offers} \cup ({captured[c] : c \in Creds} \ {None}),
                      q.payTo \in Requests
               PROVE  q.price = mints[q.payTo]
    BY DEF MintedAddressKeepsPrice
  <2>1. \A e \in quoted : KeepsPrice(e)
    BY DEF QuoteInv, PriceInv
  <2>2. CASE q \in {Quote(o.quote) : o \in offers}
    BY <2>1, <2>2 DEF QuoteInv, PriceInv, KeepsPrice
  <2>3. CASE q \in {captured[c] : c \in Creds} \ {None}
    <3>1. PICK e \in quoted : q = Terms(e)
      BY <2>3 DEF QuoteInv, CFInv, CapturedOnQuotedTerms
    <3>2. q.payTo = e.payTo /\ q.price = e.price
      BY <3>1 DEF Terms
    <3> QED BY <2>1, <3>2 DEF KeepsPrice
  <2> QED BY <2>2, <2>3
<1>2. Spec => []QuoteInv
  BY QuoteInvariance
<1> QED BY <1>1, <1>2, PTL

\* No money moves for a wallet on the SDN list that its header names, on either
\* rail (_enforce_wallet_sanctions, 439-531, before 814).
THEOREM SanctionedDoNotPay == ASSUME ~ReturnsRefusal PROVE Spec => []SanctionedNeverCaptured
<1>1. QuoteInv => SanctionedNeverCaptured
  BY CFAssumption DEF QuoteInv, ScreenInv, Wanted, SanctionedNeverCaptured
<1>2. Spec => []QuoteInv
  BY QuoteInvariance
<1> QED BY <1>1, <1>2, PTL

\* A quote is called stale only when all that were sent for its body have
\* lapsed, or after a restart (read, write and _evict_expired of quote_cache.py).
THEOREM StaleHasLapsed == ASSUME ~ReturnsRefusal PROVE Spec => StaleMeansLapsed
<1> DEFINE Step == \A r \in Requests : answer[r] = None /\ answer'[r] = "stale_quote" =>
                     \/ crashes > 0
                     \/ \A o \in offers : o.body = body'[r] => o.quote.expires <= clock
<1>1. QuoteInv /\ [Next]_vars => [Step]_vars
  BY StaleStep DEF QuoteInv
<1>2. Spec => []QuoteInv
  BY QuoteInvariance
<1> QED BY <1>1, <1>2, PTL DEF Spec, StaleMeansLapsed

-----------------------------------------------------------------------------
(* The refinement. *)

\* A coroutine that may write its quote has priced it by its count.
Priced(r) == pc[r] \in {"mint", "write"} => local[r].price = PriceCents(local[r].count)

RefinementInv == CFInv /\ \A r \in Requests : Priced(r)

\* The coroutine keeps the price from the work to the cache.
LEMMA PricedStep ==
  ASSUME RefinementInv, [Next]_vars
  PROVE  \A r \in Requests : Priced(r)'
<1>0. TypeOK /\ \A r \in Requests : RequestInv(r) /\ Priced(r)
  BY DEF RefinementInv, CFInv
<1> SUFFICES ASSUME NEW s \in Requests PROVE Priced(s)'
  OBVIOUS
<1>1. CASE pc'[s] \in {pc[s], "done"} /\ local'[s] = local[s]
  BY <1>0, <1>1 DEF Priced
<1>2. CASE pc'[s] \notin {"mint", "write"}
  BY <1>2 DEF Priced
<1>3. ASSUME NEW r \in Requests, RequestStep(r) PROVE Priced(s)'
  <2>1. CASE s # r
    BY <1>0, <1>1, <1>3, <2>1, OthersKept
  <2> USE DEF Go, Answer
  <2>2. CASE s = r /\ Arrive(r)
    BY <1>0, <1>2, <2>2 DEF Arrive, InvalidInput, ProbeRead, SettleRead, TypeOK
  <2>3. CASE s = r /\ SettleStep(r)
    BY <1>0, <1>2, <2>3 DEF SettleStep, ScreenClears, ScreenDenies, VerifyRejects, VerifyPasses, VerifyFails,
                            SettleReturns, SettleRaises, NoMppHook, ComposeCharges, ComposeRejects,
                            ComposeRaises, Respond, TypeOK
  <2>4. CASE s = r /\ (WorkYieldsNothing(r) \/ MintFails(r) \/ WriteQuote(r) \/ Emit402(r))
    BY <1>0, <1>2, <2>4 DEF WorkYieldsNothing, MintFails, WriteQuote, Emit402, TypeOK
  <2>5. ASSUME s = r, NEW n \in Counts, WorkYields(r, n) PROVE Priced(s)'
    BY <1>0, <2>5 DEF WorkYields, Priced, TypeOK
  <2>6. CASE s = r /\ Mint(r)
    BY <1>0, <2>6 DEF Mint, Priced, RequestInv, DraftQuote, TypeOK
  <2> QED BY <1>3, <2>1, <2>2, <2>3, <2>4, <2>5, <2>6 DEF RequestStep, ProbeStep
<1>4. CASE (\E c \in Creds : Sign(c)) \/ Tick \/ UNCHANGED vars
  BY <1>1, <1>4 DEF Sign, Tick, requestVars, vars
<1>5. CASE Crash
  BY <1>0, <1>1, <1>5 DEF Crash, TypeOK
<1> QED BY <1>3, <1>4, <1>5 DEF Next, RequestStep

-----------------------------------------------------------------------------
\* What is delivered changes with the completed requests only.
LEMMA DeliveriesKept ==
  ASSUME \A s \in Requests : /\ Completed(s)' <=> Completed(s)
                             /\ Completed(s) => cred'[s] = cred[s] /\ local'[s] = local[s]
  PROVE  DeliveredUnits' = DeliveredUnits
<1>1. ASSUME NEW c \in Creds PROVE DeliveredUnits'[c] = DeliveredUnits[c]
  <2>1. \A s \in Requests : (Completed(s) /\ cred[s] = c)' <=> (Completed(s) /\ cred[s] = c)
    OBVIOUS
  <2>2. (CHOOSE s \in Requests : Completed(s) /\ cred[s] = c)' = CHOOSE s \in Requests : Completed(s) /\ cred[s] = c
    BY <2>1
  <2> QED BY <2>1, <2>2 DEF DeliveredUnits
<1> QED BY <1>1 DEF DeliveredUnits

\* A step that charges nobody and completes nothing is no step of the promise.
LEMMA Stutters ==
  ASSUME UNCHANGED <<quoted, captured>>,
         \A s \in Requests : /\ Completed(s)' <=> Completed(s)
                             /\ Completed(s) => cred'[s] = cred[s] /\ local'[s] = local[s]
  PROVE  UNCHANGED <<quoted, captured, DeliveredUnits>>
  BY DeliveriesKept

\* A transfer captures the terms of a quote.
LEMMA TransferCaptures ==
  ASSUME CFInv, NEW r \in Requests, pc[r] \in {"settle", "compose"}, Transfer(cred[r]),
         signed[cred[r]] = Terms(local[r]), UNCHANGED <<quoted, DeliveredUnits>>
  PROVE  Promise!PDNext
<1>1. cred[r] \in Creds /\ Quote(local[r]) \in quoted /\ Terms(local[r]) = Promise!Terms(Quote(local[r]))
  BY DEF CFInv, RequestInv, OnSettleLeg, Quote, Terms, Promise!Terms
<1>2. Promise!Capture(cred[r], Quote(local[r]))
  BY <1>1 DEF Promise!Capture, Transfer
<1> QED BY <1>1, <1>2 DEF Promise!PDNext

\* An answer with the result delivers what its credential was charged for.
LEMMA RespondDelivers ==
  ASSUME CFInv, NEW r \in Requests, Respond(r)
  PROVE  Promise!PDNext
<1> DEFINE c == cred[r]
<1>0. TypeOK /\ RequestInv(r) /\ pc[r] = "settled"
  BY DEF CFInv, Respond
<1>1. /\ c \in Creds /\ Quote(local[r]) \in quoted /\ captured[c] = Promise!Terms(Quote(local[r]))
      /\ Quote(local[r]).count = local[r].count
  BY <1>0 DEF RequestInv, OnSettleLeg, Paid, Quote, Terms, Promise!Terms
<1>2. /\ UNCHANGED <<quoted, captured, cred, local>>
      /\ \A s \in Requests : Completed(s)' <=> Completed(s) \/ s = r
  BY <1>0 DEF Respond, Answer, Completed, moneyVars, historyVars, TypeOK
<1>3. \A s \in Requests : Completed(s) => cred[s] # c
  <2>1. ~Completed(r)
    BY <1>0 DEF RequestInv
  <2> QED BY <1>0, <2>1 DEF CFInv, Paid
<1>4. DeliveredUnits[c] = None
  BY <1>1, <1>3 DEF DeliveredUnits
<1>5. DeliveredUnits'[c] = local[r].count
  <2>1. \A s \in Requests : (Completed(s) /\ cred[s] = c)' <=> s = r
    BY <1>2, <1>3
  <2>2. (CHOOSE s \in Requests : Completed(s) /\ cred[s] = c)' = r
    BY <2>1
  <2> QED BY <1>1, <1>2, <2>1, <2>2 DEF DeliveredUnits
<1>6. ASSUME NEW d \in Creds \ {c} PROVE DeliveredUnits'[d] = DeliveredUnits[d]
  <2>1. \A s \in Requests : (Completed(s)' /\ cred'[s] = d) <=> (Completed(s) /\ cred[s] = d)
    BY <1>2
  <2> QED BY <1>2, <2>1 DEF DeliveredUnits
<1>7. DeliveredUnits' = [DeliveredUnits EXCEPT ![c] = local[r].count]
  <2>1. DeliveredUnits = [d \in Creds |-> DeliveredUnits[d]] /\ DeliveredUnits' = [d \in Creds |-> DeliveredUnits'[d]]
    BY DEF DeliveredUnits
  <2> QED BY <1>1, <1>5, <1>6, <2>1
<1>8. Promise!Deliver(c, Quote(local[r]))
  BY <1>1, <1>2, <1>4, <1>7 DEF Promise!Deliver
<1> QED BY <1>1, <1>8 DEF Promise!PDNext

\* A quote that is written is an offer.
LEMMA WriteOffers ==
  ASSUME RefinementInv, NEW r \in Requests, WriteQuote(r), UNCHANGED DeliveredUnits
  PROVE  Promise!PDNext
<1>1. /\ quoted' = quoted \cup {Quote([local[r] EXCEPT !.expires = clock + TTL])}
      /\ UNCHANGED captured /\ pc[r] = "write" /\ local[r] \in CachedQuote
      /\ local[r].price = PriceCents(local[r].count)
  BY DEF WriteQuote, Go, moneyVars, RefinementInv, Priced, CFInv, RequestInv
<1>2. Quote([local[r] EXCEPT !.expires = clock + TTL]) = Quote(local[r]) /\ Quote(local[r]) \in PricedOffers
  BY <1>1 DEF CachedQuote, Quote, Quotes, PricedOffers
<1>3. Promise!MakeOffer(Quote(local[r]))
  BY <1>1, <1>2 DEF Promise!MakeOffer
<1> QED BY <1>2, <1>3 DEF Promise!PDNext

\* Every step of the endpoint is one of the promise, or none.
LEMMA Simulation ==
  ASSUME RefinementInv, [Next]_vars
  PROVE  [Promise!PDNext]_<<quoted, captured, DeliveredUnits>>
<1>0. CFInv /\ TypeOK /\ \A s \in Requests : RequestInv(s)
  BY DEF RefinementInv, CFInv
<1> DEFINE Same == \A s \in Requests : /\ Completed(s)' <=> Completed(s)
                                       /\ Completed(s) => cred'[s] = cred[s] /\ local'[s] = local[s]
<1> USE DEF Go, Answer, moneyVars, historyVars
<1>1. ASSUME NEW r \in Requests, RequestStep(r), ~Completed(r)'
      PROVE  Same
  <2>1. \A s \in Requests \ {r} : /\ Completed(s)' <=> Completed(s)
                                  /\ cred'[s] = cred[s] /\ local'[s] = local[s]
    BY <1>0, <1>1, OthersKept DEF Completed
  <2>2. ~Completed(r)
    <3>1. pc[r] # "done"
      BY <1>1 DEF RequestStep, Arrive, InvalidInput, ProbeRead, SettleRead, ProbeStep, WorkYieldsNothing,
                  WorkYields, Mint, MintFails, WriteQuote, Emit402, SettleStep, ScreenClears, ScreenDenies,
                  VerifyRejects, VerifyPasses, VerifyFails, SettleReturns, SettleRaises, NoMppHook,
                  ComposeCharges, ComposeRejects, ComposeRaises, Respond
    <3> QED BY <1>0, <3>1 DEF RequestInv
  <2> QED BY <1>1, <2>1, <2>2
<1>2. ASSUME NEW r \in Requests, RequestStep(r), ~Respond(r) PROVE ~Completed(r)'
  <2>0. ~Completed(r) \/ pc[r] = "done"
    BY <1>0 DEF RequestInv
  <2>1. CASE Arrive(r)
    BY <1>0, <2>0, <2>1 DEF Arrive, InvalidInput, ProbeRead, SettleRead, Completed, TypeOK
  <2>2. CASE ProbeStep(r)
    BY <1>0, <2>0, <2>2 DEF ProbeStep, WorkYieldsNothing, WorkYields, Mint, MintFails, WriteQuote, Emit402,
                            Completed, TypeOK
  <2>3. CASE SettleStep(r)
    BY <1>0, <1>2, <2>0, <2>3 DEF SettleStep, ScreenClears, ScreenDenies, VerifyRejects, VerifyPasses,
                      VerifyFails, SettleReturns, SettleRaises, NoMppHook, ComposeCharges, ComposeRejects,
                      ComposeRaises, Completed, TypeOK
  <2> QED BY <1>2, <2>1, <2>2, <2>3 DEF RequestStep
<1>3. ASSUME NEW r \in Requests, RequestStep(r), ~Respond(r) PROVE Same /\ UNCHANGED DeliveredUnits
  BY <1>1, <1>2, <1>3, DeliveriesKept
<1> HIDE DEF Same
<1>4. ASSUME NEW r \in Requests, Respond(r) PROVE Promise!PDNext
  BY <1>0, <1>4, RespondDelivers
<1>5. ASSUME NEW r \in Requests, WriteQuote(r) PROVE Promise!PDNext
  <2>1. RequestStep(r) /\ ~Respond(r)
    BY <1>5 DEF RequestStep, ProbeStep, WriteQuote, Respond
  <2> QED BY <1>3, <1>5, <2>1, WriteOffers
<1>6. ASSUME NEW r \in Requests, SettleReturns(r) \/ SettleRaises(r) \/ ComposeCharges(r) \/ ComposeRaises(r)
      PROVE  UNCHANGED <<quoted, captured, DeliveredUnits>> \/ Promise!PDNext
  <2>1. RequestStep(r) /\ ~Respond(r) /\ UNCHANGED quoted
    BY <1>6 DEF RequestStep, SettleStep, SettleReturns, SettleRaises, ComposeCharges, ComposeRaises, Respond
  <2>2. UNCHANGED DeliveredUnits
    BY <1>3, <2>1
  <2>3. CASE UNCHANGED captured
    BY <2>1, <2>2, <2>3
  <2>4. CASE ~UNCHANGED captured
    <3>1. pc[r] \in {"settle", "compose"} /\ Transfer(cred[r])
      BY <1>6, <2>4 DEF SettleReturns, SettleRaises, ComposeCharges, ComposeRaises
    <3>2. signed[cred[r]] = Terms(local[r])
      <4>1. CASE SettleReturns(r) \/ SettleRaises(r)
        BY <1>0, <4>1 DEF SettleReturns, SettleRaises, RequestInv
      <4>2. CASE ComposeCharges(r) \/ ComposeRaises(r)
        BY <2>4, <4>2 DEF ComposeCharges, ComposeRaises, FacilitatorAccepts, Terms
      <4> QED BY <1>6, <4>1, <4>2
    <3> QED BY <1>0, <2>1, <2>2, <3>1, <3>2, TransferCaptures
  <2> QED BY <2>3, <2>4
<1>7. ASSUME NEW r \in Requests, RequestStep(r),
             ~(WriteQuote(r) \/ SettleReturns(r) \/ SettleRaises(r) \/ ComposeCharges(r) \/ ComposeRaises(r) \/ Respond(r))
      PROVE  UNCHANGED <<quoted, captured, DeliveredUnits>>
  <2>1. UNCHANGED <<quoted, captured>>
    BY <1>7 DEF RequestStep, Arrive, InvalidInput, ProbeRead, SettleRead, ProbeStep, WorkYieldsNothing,
                WorkYields, Mint, MintFails, Emit402, SettleStep, ScreenClears, ScreenDenies,
                VerifyRejects, VerifyPasses, VerifyFails, NoMppHook, ComposeRejects
  <2> QED BY <1>3, <1>7, <2>1
<1>8. CASE (\E c \in Creds : Sign(c)) \/ Tick \/ UNCHANGED vars
  BY <1>8, Stutters DEF Sign, Tick, requestVars, vars, Completed
<1>9. CASE Crash
  <2>1. \A s \in Requests : Completed(s)' <=> Completed(s)
    BY <1>0, <1>9 DEF Crash, Completed, RequestInv, Suspended
  <2> QED BY <1>9, <2>1, Stutters DEF Crash
<1> QED BY <1>4, <1>5, <1>6, <1>7, <1>8, <1>9 DEF Next, RequestStep

-----------------------------------------------------------------------------
\* The endpoint keeps the promise of PaidDelivery: an offer is made before it
\* is paid, a credential is captured once, on the terms of an offer, and buys
\* one delivery, of what it paid for (handle, 761-866).
THEOREM Implementation == ASSUME ~ReturnsRefusal PROVE Spec => ImplementsPaidDelivery
<1>1. Init => RefinementInv /\ Promise!PDInit
  <2> SUFFICES ASSUME Init PROVE RefinementInv /\ Promise!PDInit
    OBVIOUS
  <2>1. CFInv
    BY InitInv
  <2>2. \A r \in Requests : ~Completed(r)
    BY NullAssumption DEF Init, Completed, Answers
  <2>3. DeliveredUnits = [c \in Creds |-> None]
    BY <2>2 DEF DeliveredUnits
  <2> QED BY <2>1, <2>3 DEF Init, RefinementInv, Priced, Promise!PDInit
<1>2. RefinementInv /\ [Next]_vars => RefinementInv'
  BY NextInv, PricedStep DEF RefinementInv
<1>3. RefinementInv /\ [Next]_vars => [Promise!PDNext]_(Promise!pdvars)
  BY Simulation DEF Promise!pdvars
<1> QED BY <1>1, <1>2, <1>3, PTL DEF Spec, ImplementsPaidDelivery, Promise!PDSpec
=============================================================================

-------------------------- MODULE Exchange_proofs --------------------------
(***************************************************************************)
(* Proofs about the exchange of an agent with a checkout: any setup of the  *)
(* checkout, any headers in any spelling, any number of legs.               *)
(***************************************************************************)
EXTENDS Exchange, TLAPS

Stages == {"idle", "probe", "shape", "screen", "price", "dispatch", "answered"}
Services == {"assess", "facilitator", "pympp"}

TypeOK ==
  /\ setup \in Setups /\ pc \in Stages
  /\ sent \in Messages \cup {Silence} /\ seen \in {sent, StripPaymentHeaders(sent)}
  /\ price \in Prices \cup {None} /\ answer \in Answers \cup {None}
  /\ signer \in Payers \cup {None} /\ screened \in Payers \cup {None}
  /\ charged \subseteq (Payers \cup {None}) \X Rails
  /\ reached \subseteq Services /\ failed \in BOOLEAN /\ follows \in Rails \cup {None}
  /\ offered \in [methods : SUBSET Rails, challenge : SUBSET Rails, body : Bodies, command : Bodies]

\* Nothing has come of a leg that is not answered.
Underway == pc # "answered" => answer = None /\ signer = None /\ charged = {} /\ failed = FALSE

\* Behind the screen, the wallet that was screened is the one that can be read.
Screening ==
  /\ pc \in {"idle", "probe", "shape", "screen"} => screened = None /\ reached = {}
  /\ pc \in {"price", "dispatch"} =>
       IF HasPaymentHeader(seen) /\ setup.key
       THEN screened = ExtractPaymentSigner(seen.x402, seen.auth)
       ELSE screened = None

\* Behind the shape check, no junk is left on a channel that is settled.
Shaped ==
  pc \in {"screen", "price", "dispatch"} =>
    LET junk == MalformedPaymentCredential(seen)
    IN  ~(setup.pre_check /\ junk # None /\ Enforced(junk))

\* What is offered can be paid to somebody, and a request that follows an offer
\* has one credential, for the offered rail, which nothing strips.
Following ==
  /\ offered.methods \subseteq Payable
  /\ pc = "idle" => follows = None
  /\ follows # None =>
       /\ follows \in Payable /\ seen = sent
       /\ follows = "x402_base" =>
            sent.x402.shape = "whole" /\ sent.x402.net = "base" /\ ~HasMppxHeader(sent)
       /\ follows \in MppRails =>
            /\ ~HasX402Header(sent) /\ HasMppxHeader(sent)
            /\ sent.auth.shape \in {"bare", "whole"} /\ sent.auth.rail = follows

Kept == Underway /\ Screening /\ Shaped /\ Following
Promised == PaidIffServed /\ ChargedWasScreened /\ AttributedIsPayer /\ HonouredUnlessLeftOut

ExchangeInv == TypeOK /\ Kept /\ JunkReachesNobody /\ Promised

-----------------------------------------------------------------------------
(* What requests and setups are made of. *)

LEMMA MessageParts ==
  ASSUME NEW m \in Messages \cup {Silence}
  PROVE  /\ m = [body |-> m.body, title |-> m.title, x402 |-> m.x402, auth |-> m.auth]
         /\ m.body \in Bodies /\ m.title \in BOOLEAN
         /\ m.x402.shape \in {"none", "junk", "bare", "whole"} /\ m.x402.net \in {"base", "solana"}
         /\ m.x402.payer \in Payers \cup {None}
         /\ m.x402.shape \in {"none", "junk"} => m.x402.payer = None
         /\ m.auth.scheme \in {"Payment", "payment"} /\ m.auth.rail \in MppRails
         /\ m.auth.payer \in Payers \cup {None}
         /\ m.auth.shape \in {"none", "bearer", "junk", "token", "bare", "whole"}
         /\ m.auth.shape \notin {"bare", "whole"} => m.auth.payer = None
<1>1. NoX402 \in X402Values /\ NoAuth \in AuthValues
  BY DEF NoX402, NoAuth, X402Values, AuthValues, MppRails
<1>2. m \in [body : Bodies, title : BOOLEAN, x402 : X402Values, auth : AuthValues]
  <2>1. CASE m \in Messages
    BY <2>1, ExchangeAssumption
  <2>2. CASE m = Silence
    BY <2>2, <1>1 DEF Silence, Bodies
  <2> QED BY <2>1, <2>2
<1>3. m.x402 \in X402Values /\ m.auth \in AuthValues
  BY <1>2
<1> QED BY <1>2, <1>3 DEF X402Values, AuthValues

LEMMA SetupParts ==
  ASSUME TypeOK
  PROVE  /\ setup.frame \in Frames /\ setup.rails \subseteq Rails /\ setup.unminted \subseteq Rails
         /\ setup.hook \in {"none", "built", "custom"}
         /\ setup.key \in BOOLEAN /\ setup.pre_check \in BOOLEAN /\ setup.probe \in BOOLEAN
         /\ setup.zero \in BOOLEAN /\ setup.prices \subseteq Prices
         /\ setup.first \in MppRails /\ (setup.hook = "built" => setup.first \in setup.rails)
  BY ExchangeAssumption DEF TypeOK

\* What handle sees of a request, stripped or not.
LEMMA SeenParts ==
  ASSUME TypeOK
  PROVE  /\ seen.body = sent.body /\ seen.title = sent.title
         /\ \/ seen = sent
            \/ /\ seen = StripPaymentHeaders(sent) /\ seen.x402 = NoX402
               /\ seen.auth = StripPaymentHeadersFromRaw(sent.auth)
         /\ ~HasPaymentHeader(StripPaymentHeaders(sent))
<1> DEFINE s == StripPaymentHeaders(sent)
<1>1. sent = [body |-> sent.body, title |-> sent.title, x402 |-> sent.x402, auth |-> sent.auth]
  BY MessageParts DEF TypeOK
<1>2. s.body = sent.body /\ s.title = sent.title /\ s.x402 = NoX402
      /\ s.auth = StripPaymentHeadersFromRaw(sent.auth)
  BY <1>1 DEF StripPaymentHeaders
<1>3. ~HasPaymentHeader(s)
  BY <1>2 DEF HasPaymentHeader, HasX402Header, HasMppxHeader, NoX402, NoAuth, StripPaymentHeadersFromRaw
<1> QED BY <1>2, <1>3 DEF TypeOK

\* The header that a hook or the carve-out goes by.
LEMMA ForwardedParts ==
  ASSUME TypeOK
  PROVE  /\ ForwardedAuthorization(seen) \in {seen.auth, NoAuth}
         /\ PlainAuthorization(seen) = IF InTitleCase(seen) THEN NoAuth ELSE seen.auth
         /\ seen.auth \in {sent.auth, NoAuth}
         /\ InTitleCase(seen) = InTitleCase(sent)
<1>1. seen.title = sent.title /\ seen.auth \in {sent.auth, NoAuth}
  BY SeenParts DEF StripPaymentHeadersFromRaw
<1>2. InTitleCase(seen) = InTitleCase(sent)
  BY <1>1 DEF InTitleCase, HandleFastapi, HandleSanic, HandleAiohttp, HandleFlask, HandleDjango
<1> QED BY <1>1, <1>2 DEF ForwardedAuthorization, PlainAuthorization

-----------------------------------------------------------------------------
(* Parts of steps. *)

JunkSent ==
  /\ setup.pre_check
  /\ \/ sent.x402.shape = "junk" /\ sent.auth = NoAuth /\ X402ServerAvailable
     \/ /\ sent.x402 = NoX402 /\ sent.auth.shape = "junk" /\ sent.auth.scheme = "Payment"
        /\ setup.hook # "none"

\* Junk that has passed the shape check has been stripped.
LEMMA JunkIsStripped ==
  ASSUME TypeOK, Shaped, pc \in {"screen", "price", "dispatch"}, JunkSent
  PROVE  seen.x402 = NoX402 /\ seen.auth = NoAuth /\ ~HasPaymentHeader(seen)
<1>1. seen # sent
  <2> SUFFICES ASSUME seen = sent PROVE FALSE
    OBVIOUS
  <2>1. "x402" # None /\ "mpp" # None
    BY ExchangeAssumption DEF Channels
  <2>2. CASE sent.x402.shape = "junk" /\ X402ServerAvailable
    BY <2>1, <2>2 DEF JunkSent, Shaped, MalformedPaymentCredential, HasX402Header, Enforced
  <2>3. CASE /\ sent.x402 = NoX402 /\ sent.auth.shape = "junk" /\ sent.auth.scheme = "Payment"
             /\ setup.hook # "none"
    BY <2>1, <2>3 DEF JunkSent, Shaped, MalformedPaymentCredential, HasX402Header, HasMppxHeader, NoX402, Enforced
  <2> QED BY <2>2, <2>3 DEF JunkSent
<1> QED BY <1>1, SeenParts DEF JunkSent, StripPaymentHeadersFromRaw, NoAuth

\* A leg that is not answered keeps every promise.
LEMMA NoAnswerYet ==
  ASSUME Underway', pc' # "answered"
  PROVE  Promised'
<1>1. answer' = None /\ charged' = {} /\ None # "served" /\ None # "402"
  BY ExchangeAssumption DEF Underway, Answers
<1> QED BY <1>1 DEF Promised, PaidIffServed, ChargedWasScreened, AttributedIsPayer, HonouredUnlessLeftOut,
          OfferIsHonoured

-----------------------------------------------------------------------------
(* One lemma for each step. *)

LEMMA InitInv == Init => ExchangeInv
<1> SUFFICES ASSUME Init PROVE ExchangeInv
  OBVIOUS
<1> USE DEF Init, Fresh
<1>1. TypeOK
  BY DEF TypeOK, Stages, Services, Bodies
<1>2. Kept
  BY <1>1 DEF Kept, Underway, Screening, Shaped, Following, Payable
<1>3. JunkReachesNobody
  BY DEF JunkReachesNobody
<1>4. Promised
  BY ExchangeAssumption DEF Answers, Promised, PaidIffServed, ChargedWasScreened, AttributedIsPayer,
       HonouredUnlessLeftOut, OfferIsHonoured
<1> QED BY <1>1, <1>2, <1>3, <1>4 DEF ExchangeInv

LEMMA SendInv ==
  ASSUME ExchangeInv, NEW m \in Messages, Send(m)
  PROVE  ExchangeInv'
<1> USE DEF ExchangeInv, Kept, Send, legVars
<1>1. TypeOK'
  BY DEF TypeOK, Stages
<1>2. Underway' /\ Screening' /\ Shaped'
  BY DEF Underway, Screening, Shaped
<1>3. Following'
  <2>1. None \notin Rails
    BY ExchangeAssumption
  <2>2. CASE follows' = None
    BY <2>2 DEF Following, Payable
  <2>3. CASE \E w \in Rails : PaysBy(m, w) /\ follows' = w
    <3> PICK w \in Rails : PaysBy(m, w) /\ follows' = w
      BY <2>3
    <3>1. w \in Payable'
      BY DEF PaysBy, Following, Payable
    <3>2. w = "x402_base" => w \notin MppRails
      BY DEF MppRails
    <3> QED BY <2>1, <3>1, <3>2 DEF PaysBy, Following, Payable
  <2> QED BY <2>2, <2>3
<1>4. JunkReachesNobody'
  BY DEF JunkReachesNobody, Underway, Screening
<1> QED BY <1>1, <1>2, <1>3, <1>4, NoAnswerYet

LEMMA ReadInv ==
  ASSUME ExchangeInv, Read
  PROVE  ExchangeInv'
<1> USE DEF ExchangeInv, Kept, Read, Proceed, Fresh
<1>1. TypeOK'
  BY DEF TypeOK, Stages, Services
<1>2. Underway' /\ Screening' /\ Shaped' /\ Following'
  BY DEF Underway, Screening, Shaped, Following, Payable
<1>3. JunkReachesNobody'
  BY DEF JunkReachesNobody
<1> QED BY <1>1, <1>2, <1>3, NoAnswerYet

LEMMA ProbeInv ==
  ASSUME ExchangeInv, Probe
  PROVE  ExchangeInv'
<1> USE DEF ExchangeInv, Kept, Probe
<1>1. pc = "probe" /\ UNCHANGED <<setup, sent, seen, offered, follows, price, signer, screened, charged, reached, failed>>
      /\ answer = None /\ signer = None /\ charged = {} /\ failed = FALSE /\ reached = {} /\ screened = None
  BY DEF Underway, Screening
<1>2. CASE pc' = "shape" /\ UNCHANGED answer
  <2>1. TypeOK' /\ Kept'
    BY <1>1, <1>2 DEF TypeOK, Stages, Underway, Screening, Shaped, Following, Payable
  <2>2. JunkReachesNobody'
    BY <1>1, <1>2 DEF JunkReachesNobody
  <2> QED BY <2>1, <2>2, <1>2, NoAnswerYet
<1>3. CASE setup.probe /\ IsDiscoveryProbeRequest(seen) /\ pc' = "answered" /\ answer' = "sample"
  <2>1. TypeOK' /\ Kept'
    BY <1>1, <1>3 DEF TypeOK, Stages, Answers, Underway, Screening, Shaped, Following, Payable
  <2>2. JunkReachesNobody'
    BY <1>1, <1>3 DEF JunkReachesNobody
  <2>3. follows # None => sent.body = "empty_post" /\ follows = "x402_base"
    BY <1>3 DEF Following, IsDiscoveryProbeRequest, TypeOK, Rails, Payable
  <2>4. Promised'
    BY <1>1, <1>3, <2>3 DEF Promised, PaidIffServed, ChargedWasScreened, AttributedIsPayer,
         HonouredUnlessLeftOut, OfferIsHonoured
  <2> QED BY <2>1, <2>2, <2>4
<1> QED BY <1>2, <1>3 DEF BuildDiscoveryProbeResponse, Answer

LEMMA CredentialPreCheckInv ==
  ASSUME ExchangeInv, CredentialPreCheck
  PROVE  ExchangeInv'
<1> USE DEF ExchangeInv, Kept, CredentialPreCheck, legVars
<1> DEFINE junk == MalformedPaymentCredential(seen)
           enforced == setup.pre_check /\ junk # None /\ Enforced(junk)
<1>1. pc = "shape" /\ UNCHANGED <<setup, sent, offered, follows, price, answer, signer, screened, charged, reached, failed>>
      /\ answer = None /\ signer = None /\ charged = {} /\ failed = FALSE /\ reached = {} /\ screened = None
  BY DEF Underway, Screening
<1>2. JunkReachesNobody'
  BY <1>1 DEF JunkReachesNobody
<1>3. CASE ~enforced /\ pc' = "screen" /\ UNCHANGED seen
  <2>1. TypeOK' /\ Underway' /\ Screening' /\ Following'
    BY <1>1, <1>3 DEF TypeOK, Stages, Underway, Screening, Following, Payable
  <2>2. Shaped'
    BY <1>1, <1>3 DEF Shaped, Enforced, X402ServerAvailable
  <2> QED BY <2>1, <2>2, <1>2, <1>3, NoAnswerYet
<1>4. CASE enforced /\ pc' = "probe" /\ seen' = StripPaymentHeaders(seen)
  <2>1. seen = sent
    <3>1. seen # sent => seen.x402 = NoX402 /\ ~HasMppxHeader(seen)
      BY SeenParts DEF TypeOK, HasPaymentHeader
    <3>2. seen # sent => junk = None
      BY <3>1 DEF MalformedPaymentCredential, HasX402Header, NoX402
    <3> QED BY <3>2, <1>4
  <2>2. follows = None
    <3>1. CASE follows = "x402_base"
      BY <2>1, <3>1, <1>4 DEF Following, MalformedPaymentCredential, HasX402Header, TypeOK
    <3>2. CASE follows \in MppRails
      BY <2>1, <3>2, <1>4, ExchangeAssumption DEF Following, MalformedPaymentCredential, HasX402Header, TypeOK, Rails
    <3> QED BY <3>1, <3>2 DEF TypeOK, Rails
  <2>3. TypeOK'
    BY <1>1, <1>4, <2>1 DEF TypeOK, Stages
  <2>4. Underway' /\ Screening' /\ Shaped' /\ Following'
    BY <1>1, <1>4, <2>2 DEF Underway, Screening, Shaped, Following, Payable
  <2> QED BY <2>3, <2>4, <1>2, <1>4, NoAnswerYet
<1> QED BY <1>3, <1>4

LEMMA NothingToScreenInv ==
  ASSUME ExchangeInv, NothingToScreen
  PROVE  ExchangeInv'
<1> USE DEF ExchangeInv, Kept, NothingToScreen, Proceed, legVars
<1>1. /\ pc = "screen" /\ pc' = "price"
      /\ UNCHANGED <<setup, sent, seen, offered, follows, price, answer, signer, screened, charged, reached, failed>>
      /\ answer = None /\ signer = None /\ charged = {} /\ failed = FALSE /\ reached = {} /\ screened = None
  BY DEF Underway, Screening
<1>2. TypeOK' /\ Underway' /\ Shaped' /\ Following'
  BY <1>1 DEF TypeOK, Stages, Underway, Shaped, Enforced, X402ServerAvailable, Following, Payable
<1>3. Screening'
  BY <1>1 DEF Screening
<1>4. JunkReachesNobody'
  BY <1>1 DEF JunkReachesNobody
<1> QED BY <1>1, <1>2, <1>3, <1>4, NoAnswerYet

LEMMA RunWalletSanctionsOnlyInv ==
  ASSUME ExchangeInv, RunWalletSanctionsOnly
  PROVE  ExchangeInv'
<1> USE DEF ExchangeInv, Kept, RunWalletSanctionsOnly
<1> DEFINE wallet == ExtractPaymentSigner(seen.x402, seen.auth)
<1>1. /\ pc = "screen" /\ HasPaymentHeader(seen) /\ setup.key /\ wallet # None
      /\ UNCHANGED <<setup, sent, seen, offered, follows, price, signer, charged>>
      /\ reached' = reached \cup {"assess"}
      /\ answer = None /\ signer = None /\ charged = {} /\ failed = FALSE /\ reached = {} /\ screened = None
  BY DEF Underway, Screening
<1>2. wallet \in Payers
  <2>1. seen.x402.payer \in Payers \cup {None} /\ seen.auth.payer \in Payers \cup {None}
    BY SeenParts, MessageParts DEF TypeOK, NoX402, NoAuth, StripPaymentHeadersFromRaw
  <2> QED BY <1>1, <2>1 DEF ExtractPaymentSigner, ExtractFromX402, ExtractFromMppAuth
<1>3. ~JunkSent
  BY <1>1, JunkIsStripped
<1>4. JunkReachesNobody'
  BY <1>1, <1>3 DEF JunkReachesNobody, JunkSent, X402ServerAvailable
<1>5. CASE pc' = "price" /\ screened' = wallet /\ UNCHANGED <<answer, failed>>
  <2>1. TypeOK' /\ Underway' /\ Shaped' /\ Following'
    BY <1>1, <1>2, <1>5
       DEF TypeOK, Stages, Services, Underway, Shaped, Enforced, X402ServerAvailable, Following, Payable
  <2>2. Screening'
    BY <1>1, <1>5 DEF Screening
  <2> QED BY <1>4, <1>5, <2>1, <2>2, NoAnswerYet
<1>6. CASE pc' = "answered" /\ answer' = "denied" /\ failed' = TRUE /\ UNCHANGED screened
  <2>1. TypeOK'
    BY <1>1, <1>6 DEF TypeOK, Stages, Services, Answers
  <2>2. Kept'
    BY <1>1, <1>6 DEF Underway, Screening, Shaped, Following, Payable
  <2>3. Promised'
    BY <1>1, <1>6 DEF Promised, PaidIffServed, ChargedWasScreened, AttributedIsPayer, HonouredUnlessLeftOut,
         OfferIsHonoured
  <2> QED BY <1>4, <2>1, <2>2, <2>3
<1> QED BY <1>5, <1>6 DEF Answer

LEMMA ComputePricingInv ==
  ASSUME ExchangeInv, ComputePricing
  PROVE  ExchangeInv'
<1> USE DEF ExchangeInv, Kept, ComputePricing, Proceed
<1>1. /\ pc = "price" /\ pc' = "dispatch" /\ price' \in setup.prices
      /\ UNCHANGED <<setup, sent, seen, offered, follows, answer, signer, screened, charged, reached, failed>>
  OBVIOUS
<1>2. TypeOK'
  BY <1>1, SetupParts DEF TypeOK, Stages
<1>3. Kept'
  BY <1>1 DEF Underway, Screening, Shaped, Enforced, X402ServerAvailable, Following, Payable
<1>4. JunkReachesNobody'
  BY <1>1 DEF JunkReachesNobody, X402ServerAvailable
<1> QED BY <1>1, <1>2, <1>3, <1>4, NoAnswerYet

-----------------------------------------------------------------------------
(* The dispatch. *)

\* What holds of a leg that is dispatched.
LEMMA Dispatched ==
  ASSUME ExchangeInv, pc = "dispatch"
  PROVE  /\ answer = None /\ signer = None /\ charged = {} /\ failed = FALSE
         /\ HasPaymentHeader(seen) =>
              seen.x402 = sent.x402 /\ seen.auth = sent.auth /\ ~JunkSent
         /\ HasPaymentHeader(seen) /\ setup.key => screened = ExtractPaymentSigner(seen.x402, seen.auth)
         /\ JunkSent => seen.x402 = NoX402 /\ seen.auth = NoAuth /\ reached = {}
<1>1. answer = None /\ signer = None /\ charged = {} /\ failed = FALSE
  BY DEF ExchangeInv, Kept, Underway
<1>2. HasPaymentHeader(seen) => seen.x402 = sent.x402 /\ seen.auth = sent.auth
  BY SeenParts DEF ExchangeInv
<1>3. JunkSent => ~HasPaymentHeader(seen) /\ seen.x402 = NoX402 /\ seen.auth = NoAuth
  BY JunkIsStripped DEF ExchangeInv, Kept
<1>4. JunkSent => reached = {}
  BY DEF ExchangeInv, JunkReachesNobody, JunkSent
<1> QED BY <1>1, <1>2, <1>3, <1>4 DEF ExchangeInv, Kept, Screening

\* A dispatched leg that is answered keeps what it knew.
LEMMA AnsweredKept ==
  ASSUME ExchangeInv, pc = "dispatch", pc' = "answered",
         UNCHANGED <<setup, sent, seen, follows, price, screened>>, offered'.methods \subseteq Payable
  PROVE  Kept'
  BY DEF ExchangeInv, Kept, Underway, Screening, Shaped, Following, Payable

\* An offer that is followed comes with one credential of its channel.
LEMMA FollowedParts ==
  ASSUME ExchangeInv, follows # None
  PROVE  /\ seen = sent /\ HasPaymentHeader(seen) /\ follows \in Payable /\ follows \in setup.rails
         /\ \/ /\ follows = "x402_base" /\ HasX402Header(seen) /\ VerifyX402Request(seen)
            \/ /\ follows \in MppRails /\ ~HasX402Header(seen) /\ HasMppxHeader(seen)
               /\ seen.auth.shape \in {"bare", "whole"} /\ seen.auth.rail = follows
  BY DEF ExchangeInv, Kept, TypeOK, Following, Payable, Rails, MppRails, HasPaymentHeader, HasX402Header,
         VerifyX402Request, X402ServerAvailable

LEMMA HandleZeroSettleInv ==
  ASSUME ExchangeInv, HandleZeroSettle
  PROVE  ExchangeInv'
<1> USE DEF HandleZeroSettle, BuildSuccess, Answer
<1>1. /\ pc = "dispatch" /\ ZeroSettles /\ pc' = "answered"
      /\ UNCHANGED <<setup, sent, seen, offered, follows, price, screened, charged, reached>>
  OBVIOUS
<1>2. /\ price = "zero" /\ setup.zero /\ HasPaymentHeader(seen) /\ TypeOK
      /\ seen.x402 = sent.x402 /\ seen.auth = sent.auth /\ ~JunkSent
      /\ charged = {} /\ signer = None
  BY <1>1, Dispatched DEF ZeroSettles, ExchangeInv
<1>3. sent.x402.payer \in Payers \cup {None} /\ sent.auth.payer \in Payers \cup {None}
      /\ (sent.auth.shape \notin {"bare", "whole"} => sent.auth.payer = None)
  BY <1>2, MessageParts DEF TypeOK
<1>4. \/ answer' \in {"served", "rejected"} /\ UNCHANGED failed
      \/ answer' = "broken" /\ failed' = TRUE
  BY <1>1
<1>signer. answer' \in {"served", "broken"} =>
        \/ HasX402Header(seen) /\ VerifyX402Request(seen) /\ signer' = X402SignerFromPayload(seen)
        \/ ~HasX402Header(seen) /\ signer' = MppSignerFromAuth(seen)
  BY <1>1
<1>5. answer' \in {"served", "broken"} =>
        IF HasX402Header(seen)
        THEN signer' = sent.x402.payer
        ELSE \/ signer' = sent.auth.payer
             \/ signer' = None /\ (InTitleCase(sent) \/ sent.auth.shape = "bare")
  <2>1. PlainAuthorization(seen) = IF InTitleCase(sent) THEN NoAuth ELSE seen.auth
    BY <1>2, ForwardedParts
  <2>2. answer' \in {"served", "broken"} /\ HasX402Header(seen) =>
          VerifyX402Request(seen) /\ signer' = X402SignerFromPayload(seen)
    BY <1>signer
  <2>3. answer' \in {"served", "broken"} /\ ~HasX402Header(seen) => signer' = MppSignerFromAuth(seen)
    BY <1>signer
  <2>4. NoAuth.shape = "none"
    BY DEF NoAuth
  <2>5. HasX402Header(seen) /\ VerifyX402Request(seen) => X402SignerFromPayload(seen) = sent.x402.payer
    BY <1>2 DEF VerifyX402Request, X402SignerFromPayload, ExtractFromX402
  <2>6. CASE InTitleCase(sent)
    BY <2>1, <2>2, <2>3, <2>4, <2>5, <2>6 DEF MppSignerFromAuth, ExtractFromMppAuth
  <2>7. CASE ~InTitleCase(sent)
    BY <1>2, <1>3, <2>1, <2>2, <2>3, <2>5, <2>7 DEF MppSignerFromAuth, ExtractFromMppAuth
  <2> QED BY <2>6, <2>7
<1>6. TypeOK'
  <2>1. signer' \in Payers \cup {None}
    <3>1. answer' = "rejected" => signer' = signer
      BY <1>1
    <3> QED BY <1>2, <1>3, <1>4, <1>5, <3>1
  <2>2. answer' \in Answers /\ failed' \in BOOLEAN
    BY <1>2, <1>4 DEF Answers, TypeOK
  <2> QED BY <1>1, <1>2, <2>1, <2>2 DEF TypeOK, Stages
<1>7. Kept'
  BY <1>1, AnsweredKept DEF ExchangeInv, Kept, Following
<1>8. JunkReachesNobody'
  BY <1>1, <1>2 DEF JunkReachesNobody, JunkSent, X402ServerAvailable
<1>9. PaidIffServed' /\ ChargedWasScreened'
  BY <1>1, <1>2 DEF PaidIffServed, ChargedWasScreened
<1>10. AttributedIsPayer'
  <2>1. ByX402' = HasX402Header(seen) /\ ZeroSettles' /\ InTitleCase(sent)' = InTitleCase(sent)
    BY <1>1 DEF ByX402, ToX402, ZeroSettles, HasX402Header, HasPaymentHeader, HasMppxHeader, InTitleCase,
         HandleFastapi, HandleSanic, HandleAiohttp, HandleFlask, HandleDjango
  <2> QED BY <1>1, <1>2, <1>5, <2>1 DEF AttributedIsPayer
<1>11. HonouredUnlessLeftOut'
  <2>1. follows # None => answer' = "served" \/ failed'
    BY <1>1, FollowedParts
  <2> QED BY <1>1, <1>4, <2>1 DEF HonouredUnlessLeftOut, OfferIsHonoured
<1> QED BY <1>6, <1>7, <1>8, <1>9, <1>10, <1>11 DEF ExchangeInv, Promised

LEMMA HandleX402Inv ==
  ASSUME ExchangeInv, HandleX402
  PROVE  ExchangeInv'
<1> USE DEF HandleX402, BuildSuccess, ChargesX402, Answer
<1> DEFINE payer == sent.x402.payer
<1>1. /\ pc = "dispatch" /\ ToX402 /\ pc' = "answered"
      /\ UNCHANGED <<setup, sent, seen, offered, follows, price, screened>>
  OBVIOUS
<1>2. /\ HasX402Header(seen) /\ HasPaymentHeader(seen) /\ TypeOK
      /\ seen.x402 = sent.x402 /\ seen.auth = sent.auth /\ ~JunkSent
      /\ setup.key => screened = ExtractPaymentSigner(seen.x402, seen.auth)
      /\ charged = {} /\ signer = None
  BY <1>1, Dispatched DEF ToX402, HasPaymentHeader, ExchangeInv
<1>3. payer \in Payers \cup {None}
  BY <1>2, MessageParts DEF TypeOK
<1>4. \/ ~VerifyX402Request(seen) /\ answer' = "rejected" /\ UNCHANGED <<signer, charged, reached, failed>>
      \/ /\ VerifyX402Request(seen) /\ reached' = reached \cup {"facilitator"}
         /\ \/ /\ price # "zero" /\ charged' = {<<payer, "x402_base">>} /\ signer' = payer
               /\ \/ answer' = "served" /\ UNCHANGED failed
                  \/ answer' = "broken" /\ failed' = TRUE
            \/ /\ failed' = TRUE /\ UNCHANGED <<signer, charged>>
               /\ answer' \in {"rejected", "broken", "settle_failed"}
            \/ /\ price # "zero" /\ charged' = {<<payer, "x402_base">>} /\ UNCHANGED signer
               /\ failed' = TRUE /\ answer' = "settle_failed"
  <2>1. VerifyX402Request(seen) => ExtractFromX402(seen.x402) = payer
    BY <1>2 DEF VerifyX402Request, ExtractFromX402
  <2> QED BY <1>2, <2>1
<1>5. TypeOK'
  <2>1. charged' \subseteq (Payers \cup {None}) \X Rails
    BY <1>2, <1>3, <1>4 DEF Rails
  <2>2. signer' \in Payers \cup {None} /\ answer' \in Answers /\ failed' \in BOOLEAN /\ reached' \subseteq Services
    BY <1>2, <1>3, <1>4 DEF TypeOK, Answers, Services
  <2> QED BY <1>1, <1>2, <2>1, <2>2 DEF TypeOK, Stages
<1>6. Kept'
  BY <1>1, AnsweredKept DEF ExchangeInv, Kept, Following
<1>7. JunkReachesNobody'
  BY <1>1, <1>2 DEF JunkReachesNobody, JunkSent, X402ServerAvailable
<1>8. PaidIffServed'
  BY <1>2, <1>4 DEF PaidIffServed
<1>9. ChargedWasScreened'
  <2>1. VerifyX402Request(seen) => screened = payer \/ payer = None \/ ~setup.key
    BY <1>2 DEF VerifyX402Request, ExtractPaymentSigner, ExtractFromX402
  <2> QED BY <1>1, <1>2, <1>4, <2>1 DEF ChargedWasScreened
<1>10. AttributedIsPayer'
  <2>1. ByX402'
    BY <1>1 DEF ByX402, ToX402, ZeroSettles, HasX402Header, HasPaymentHeader, HasMppxHeader, X402ServerAvailable
  <2> QED BY <1>1, <1>4, <2>1 DEF AttributedIsPayer
<1>11. HonouredUnlessLeftOut'
  <2>1. follows # None => VerifyX402Request(seen)
    BY <1>2, FollowedParts
  <2> QED BY <1>1, <1>4, <2>1 DEF HonouredUnlessLeftOut, OfferIsHonoured
<1> QED BY <1>5, <1>6, <1>7, <1>8, <1>9, <1>10, <1>11 DEF ExchangeInv, Promised

\* Whoever is charged over MPP bears a readable credential for a composed rail.
LEMMA ChargeableParts ==
  ASSUME TypeOK, Chargeable(ForwardedAuthorization(seen))
  PROVE  /\ ForwardedAuthorization(seen) = seen.auth /\ seen.auth = sent.auth
         /\ sent.auth.shape \in {"bare", "whole"} /\ sent.auth.rail \in MppRails
         /\ sent.auth.payer \in Payers \cup {None} /\ setup.hook # "none"
<1>1. NoAuth.shape = "none"
  BY DEF NoAuth
<1>2. ForwardedAuthorization(seen) = seen.auth /\ seen.auth = sent.auth
  BY <1>1, ForwardedParts DEF Chargeable
<1>3. setup.hook # "none"
  BY DEF Chargeable, ComposedRails
<1> QED BY <1>2, <1>3, MessageParts DEF TypeOK, Chargeable

\* The list of who may be charged unscreened, over MPP.
LEMMA MppScreened ==
  ASSUME ExchangeInv, pc = "dispatch", Chargeable(ForwardedAuthorization(seen)), setup.key,
         HasMppxHeader(seen) \/ sent.auth.scheme = "payment"
  PROVE  \/ sent.auth.payer = screened
         \/ sent.auth.shape = "bare"
         \/ seen.auth.scheme = "payment" /\ ~HasX402Header(seen)
         \/ screened # None /\ screened = sent.x402.payer
<1>1. TypeOK
  BY DEF ExchangeInv
<1>2. seen.auth = sent.auth /\ sent.auth.shape \in {"bare", "whole"}
  BY <1>1, ChargeableParts
<1>3. CASE HasPaymentHeader(seen)
  <2>1. screened = ExtractPaymentSigner(seen.x402, seen.auth) /\ seen.x402 = sent.x402
    BY <1>3, Dispatched
  <2> QED BY <1>2, <2>1 DEF ExtractPaymentSigner, ExtractFromX402, ExtractFromMppAuth
<1>4. CASE ~HasPaymentHeader(seen)
  BY <1>2, <1>4 DEF HasPaymentHeader
<1> QED BY <1>3, <1>4

\* What is followed over MPP is charged, or is one of the exceptions.
LEMMA MppHonoured ==
  ASSUME ExchangeInv, follows \in MppRails, ~ZeroSettles, ~Chargeable(ForwardedAuthorization(seen))
  PROVE  \/ price = "zero" /\ ~setup.zero
         \/ Unchallenged(follows) \/ ReadsLate
         \/ follows = "stripe" /\ price # "normal"
<1>1. follows # None /\ TypeOK
  BY ExchangeAssumption DEF ExchangeInv, Rails
<1>2. /\ seen = sent /\ HasPaymentHeader(seen) /\ follows \in Payable /\ follows \in MppRails
      /\ seen.auth.shape \in {"bare", "whole"} /\ seen.auth.rail = follows
  BY <1>1, FollowedParts DEF MppRails
<1>3. ReadsLate \/ ForwardedAuthorization(seen) = seen.auth
  BY <1>1, <1>2, ForwardedParts DEF ReadsLate, ForwardedAuthorization
<1>4. price = "zero" => ~setup.zero
  BY <1>2 DEF ZeroSettles
<1>5. \/ Unchallenged(follows) \/ follows \in ComposedRails
      \/ follows = "stripe" /\ price # "normal"
  BY <1>1, <1>2, SetupParts DEF Unchallenged, ComposedRails, BuildMppxComposeRails
<1> QED BY <1>2, <1>3, <1>4, <1>5 DEF Chargeable

LEMMA HandleMppxInv ==
  ASSUME ExchangeInv, HandleMppx
  PROVE  ExchangeInv'
<1> USE DEF HandleMppx, BuildSuccess, Answer
<1> DEFINE a == ForwardedAuthorization(seen)
           payer == sent.auth.payer
<1>1. /\ pc = "dispatch" /\ ToMppx /\ pc' = "answered" /\ reached' = reached \cup {"pympp"}
      /\ UNCHANGED <<setup, sent, seen, offered, follows, price, screened>>
  OBVIOUS
<1>2. /\ HasMppxHeader(seen) /\ HasPaymentHeader(seen) /\ ~ToX402 /\ ~ZeroSettles /\ TypeOK
      /\ seen.x402 = sent.x402 /\ seen.auth = sent.auth /\ ~JunkSent
      /\ charged = {} /\ signer = None
  BY <1>1, Dispatched DEF ToMppx, HasPaymentHeader, ExchangeInv
<1>3. Chargeable(a) => /\ a = sent.auth /\ payer \in Payers \cup {None} /\ sent.auth.rail \in MppRails
  BY <1>2, ChargeableParts
<1>4. \/ /\ Chargeable(a) /\ charged' = {<<payer, sent.auth.rail>>}
         /\ \/ signer' = payer /\ answer' = "served" /\ UNCHANGED failed
            \/ signer' = payer /\ answer' = "broken" /\ failed' = TRUE
            \/ UNCHANGED signer /\ answer' \in {"pending", "broken"} /\ failed' = TRUE
      \/ /\ UNCHANGED <<signer, charged>> /\ answer' \in {"rejected", "broken", "pending"}
         /\ \/ ~Chargeable(a) /\ UNCHANGED failed
            \/ failed' = TRUE
  <2>1. CASE /\ Chargeable(a) /\ charged' = charged \cup {<<a.payer, a.rail>>}
             /\ BuildSuccess(SignerOfReceipt(a))
    BY <1>2, <1>3, <2>1 DEF SignerOfReceipt
  <2>2. CASE /\ ~Chargeable(a) /\ UNCHANGED <<signer, charged, failed>>
             /\ answer' = IF NoServer THEN "broken" ELSE "rejected"
    BY <2>2
  <2>3. CASE failed' = TRUE /\ UNCHANGED <<signer, charged>> /\ answer' \in {"rejected", "broken", "pending"}
    BY <2>3
  <2>4. CASE /\ Chargeable(a) /\ charged' = charged \cup {<<a.payer, a.rail>>}
             /\ UNCHANGED signer /\ failed' = TRUE /\ answer' \in {"pending", "broken"}
    BY <1>2, <1>3, <2>4
  <2> QED BY <2>1, <2>2, <2>3, <2>4
<1>5. TypeOK'
  <2>1. charged' \subseteq (Payers \cup {None}) \X Rails
    BY <1>2, <1>3, <1>4 DEF Rails
  <2>2. signer' \in Payers \cup {None} /\ answer' \in Answers /\ failed' \in BOOLEAN /\ reached' \subseteq Services
    BY <1>1, <1>2, <1>3, <1>4 DEF TypeOK, Answers, Services
  <2> QED BY <1>1, <1>2, <2>1, <2>2 DEF TypeOK, Stages
<1>6. Kept'
  BY <1>1, AnsweredKept DEF ExchangeInv, Kept, Following
<1>7. JunkReachesNobody'
  BY <1>1, <1>2 DEF JunkReachesNobody, JunkSent, X402ServerAvailable
<1>8. PaidIffServed'
  BY <1>2, <1>4 DEF PaidIffServed
<1>9. ChargedWasScreened'
  <2>1. ASSUME Chargeable(a), setup.key
        PROVE  \/ payer = screened
               \/ sent.auth.shape = "bare"
               \/ seen.auth.scheme = "payment" /\ ~HasX402Header(seen)
               \/ screened # None /\ screened = sent.x402.payer
    BY <1>1, <1>2, <2>1, MppScreened
  <2> QED BY <1>1, <1>2, <1>3, <1>4, <2>1 DEF ChargedWasScreened, HasX402Header
<1>10. AttributedIsPayer'
  <2>1. ~ByX402'
    BY <1>1, <1>2 DEF ByX402, ToX402, ZeroSettles, HasX402Header, HasPaymentHeader, HasMppxHeader,
         X402ServerAvailable
  <2> QED BY <1>1, <1>4, <2>1 DEF AttributedIsPayer
<1>11. HonouredUnlessLeftOut'
  <2>1. follows # None => follows \in MppRails
    <3>1. follows = "x402_base" => ToX402
      BY <1>2, FollowedParts, ExchangeAssumption DEF ToX402, X402ServerAvailable, Rails, MppRails
    <3> QED BY <1>2, <3>1 DEF TypeOK, Rails
  <2>2. follows # None /\ ~Chargeable(a) =>
          \/ price = "zero" /\ ~setup.zero
          \/ follows \in MppRails /\ (Unchallenged(follows) \/ ReadsLate)
          \/ follows = "stripe" /\ price # "normal"
    BY <1>2, <2>1, MppHonoured
  <2>3. follows # None => (Unchallenged(follows) \/ ReadsLate)' = (Unchallenged(follows) \/ ReadsLate)
    BY <1>1 DEF Unchallenged, ReadsLate, CreateMppxServer, InTitleCase, HandleFastapi, HandleSanic,
         HandleAiohttp, HandleFlask, HandleDjango
  <2> QED BY <1>1, <1>4, <2>2, <2>3 DEF HonouredUnlessLeftOut, OfferIsHonoured
<1> QED BY <1>5, <1>6, <1>7, <1>8, <1>9, <1>10, <1>11 DEF ExchangeInv, Promised

LEMMA EmitFreshChallengeInv ==
  ASSUME ExchangeInv, EmitFreshChallenge
  PROVE  ExchangeInv'
<1> USE DEF EmitFreshChallenge, Answer
<1> DEFINE a == ForwardedAuthorization(seen)
           payer == sent.auth.payer
<1>1. /\ pc = "dispatch" /\ ~ZeroSettles /\ ~ToX402 /\ ~ToMppx /\ pc' = "answered" /\ answer' = "402"
      /\ UNCHANGED <<setup, sent, seen, follows, price, signer, screened, reached>>
  OBVIOUS
<1>2. PICK rails \in SUBSET MppRails, accepts \in BuildX402Accepts :
         /\ ComposeChallenge(rails)
         /\ offered' = [methods |-> AcceptedMethods, challenge |-> rails \cup accepts,
                        body |-> sent.body, command |-> BuildHowToPay(RetryBodyJson(sent.body))]
  OBVIOUS
<1>3. /\ TypeOK /\ charged = {} /\ signer = None /\ failed = FALSE
      /\ JunkSent => seen.auth = NoAuth /\ reached = {}
  BY <1>1, Dispatched DEF ExchangeInv
<1>4. Chargeable(a) => /\ a = sent.auth /\ seen.auth = sent.auth /\ payer \in Payers \cup {None}
                       /\ sent.auth.rail \in MppRails /\ setup.hook # "none"
  BY <1>3, ChargeableParts
<1>5. \/ rails = ComposedRails /\ UNCHANGED <<charged, failed>>
      \/ /\ sent.auth.scheme = "payment" /\ Chargeable(a) /\ setup.hook # "none"
         /\ charged' = {<<payer, sent.auth.rail>>} /\ failed' \in BOOLEAN
      \/ setup.hook # "none" /\ failed' = TRUE /\ UNCHANGED charged
  BY <1>2, <1>3, <1>4 DEF ComposeChallenge
<1>6. /\ offered'.methods = AcceptedMethods /\ AcceptedMethods \subseteq Payable
      /\ offered'.challenge = rails \cup accepts /\ accepts \subseteq Rails
      /\ offered' \in [methods : SUBSET Rails, challenge : SUBSET Rails, body : Bodies, command : Bodies]
  <2>1. sent.body \in Bodies /\ BuildHowToPay(RetryBodyJson(sent.body)) \in Bodies
    BY <1>3, MessageParts DEF TypeOK, BuildHowToPay, RetryBodyJson, Bodies
  <2>2. AcceptedMethods \subseteq Payable /\ Payable \subseteq Rails /\ rails \subseteq Rails
    BY <1>3, SetupParts DEF AcceptedMethods, Payable, Rails
  <2>3. accepts \subseteq Rails
    BY <1>2 DEF BuildX402Accepts, Rails
  <2> QED BY <1>2, <2>1, <2>2, <2>3
<1>7. TypeOK'
  <2>1. failed' \in BOOLEAN
    BY <1>3, <1>5
  <2>2. charged' \in {{}, {<<payer, sent.auth.rail>>}}
    BY <1>3, <1>5
  <2>3. charged' # {} => payer \in Payers \cup {None} /\ sent.auth.rail \in Rails
    BY <1>3, <1>4, <1>5 DEF Rails
  <2>4. charged' \subseteq (Payers \cup {None}) \X Rails
    BY <2>2, <2>3
  <2> QED BY <1>1, <1>3, <1>6, <2>1, <2>4 DEF TypeOK, Stages, Answers
<1>8. Kept'
  BY <1>1, <1>6, AnsweredKept
<1>9. JunkReachesNobody'
  <2>1. JunkSent => ~Chargeable(a)
    <3>1. JunkSent => sent.auth.shape \in {"none", "junk"}
      BY DEF JunkSent, NoAuth
    <3> QED BY <1>3, <3>1, ChargeableParts
  <2>2. JunkSent' = JunkSent
    BY <1>1 DEF JunkSent, X402ServerAvailable
  <2>3. JunkSent' => reached' = {} /\ charged' = {}
    BY <1>1, <1>3, <1>5, <2>1, <2>2
  <2> QED BY <1>1, <2>3 DEF JunkReachesNobody, JunkSent
<1>10. PaidIffServed'
  BY <1>1, <1>3, <1>5 DEF PaidIffServed
<1>11. ChargedWasScreened'
  <2>1. ASSUME Chargeable(a), setup.key, sent.auth.scheme = "payment"
        PROVE  \/ payer = screened
               \/ sent.auth.shape = "bare"
               \/ seen.auth.scheme = "payment" /\ ~HasX402Header(seen)
               \/ screened # None /\ screened = sent.x402.payer
    BY <1>1, <2>1, MppScreened
  <2> QED BY <1>1, <1>3, <1>4, <1>5, <2>1 DEF ChargedWasScreened, HasX402Header
<1>12. AttributedIsPayer'
  BY <1>1 DEF AttributedIsPayer
<1>13. HonouredUnlessLeftOut'
  <2>1. ASSUME charged' = {}, ~failed', NEW w \in (AcceptedMethods \cap MppRails) \ (rails \cup accepts)
        PROVE  Unchallenged(w)'
    <3>1. rails = ComposedRails
      BY <1>5, <2>1
    <3>2. Unchallenged(w)
      BY <1>3, <2>1, <3>1, SetupParts DEF Unchallenged, ComposedRails, AcceptedMethods, BuildMppxComposeRails
    <3> QED BY <1>1, <3>2 DEF Unchallenged, CreateMppxServer
  <2>2. follows # None => follows \in MppRails /\ Unchallenged(follows)'
    <3>1. ASSUME follows # None PROVE setup.hook = "none" /\ follows \in MppRails
      BY <1>1, <3>1, FollowedParts DEF ToX402, ToMppx, X402ServerAvailable
    <3> QED BY <1>1, <3>1 DEF Unchallenged
  <2>3. \A w \in (offered'.methods \cap MppRails) \ offered'.challenge :
          answer' = "402" /\ ~failed' /\ charged' = {} => Unchallenged(w)'
    BY <1>6, <2>1
  <2> QED BY <1>1, <2>2, <2>3 DEF HonouredUnlessLeftOut, OfferIsHonoured
<1> QED BY <1>7, <1>8, <1>9, <1>10, <1>11, <1>12, <1>13 DEF ExchangeInv, Promised

-----------------------------------------------------------------------------
LEMMA StutterInv ==
  ASSUME ExchangeInv, UNCHANGED vars
  PROVE  ExchangeInv'
<1> USE DEF ExchangeInv, vars, legVars
<1>1. TypeOK' /\ Kept'
  BY DEF TypeOK, Kept, Underway, Screening, Shaped, Enforced, X402ServerAvailable, Following, Payable
<1>2. JunkReachesNobody'
  BY DEF JunkReachesNobody, X402ServerAvailable
<1>3. (InTitleCase(sent) <=> InTitleCase(sent)') /\ CreateMppxServer' = CreateMppxServer
  BY DEF InTitleCase, HandleFastapi, HandleSanic, HandleAiohttp, HandleFlask, HandleDjango, CreateMppxServer
<1>4. PaidIffServed' /\ ChargedWasScreened'
  BY DEF Promised, PaidIffServed, ChargedWasScreened
<1>5. AttributedIsPayer'
  BY <1>3 DEF Promised, AttributedIsPayer, ByX402, ToX402, ZeroSettles, X402ServerAvailable
<1>6. HonouredUnlessLeftOut'
  BY <1>3 DEF Promised, HonouredUnlessLeftOut, OfferIsHonoured, Unchallenged, ReadsLate
<1> QED BY <1>1, <1>2, <1>4, <1>5, <1>6 DEF Promised

LEMMA NextInv == ExchangeInv /\ [Next]_vars => ExchangeInv'
<1> SUFFICES ASSUME ExchangeInv, [Next]_vars PROVE ExchangeInv'
  OBVIOUS
<1>1. CASE Handle
  BY <1>1, ProbeInv, CredentialPreCheckInv, NothingToScreenInv, RunWalletSanctionsOnlyInv, ComputePricingInv,
     HandleZeroSettleInv, HandleX402Inv, HandleMppxInv, EmitFreshChallengeInv DEF Handle
<1>2. CASE Read
  BY <1>2, ReadInv
<1>3. CASE \E m \in Messages : Send(m)
  BY <1>3, SendInv
<1>4. CASE UNCHANGED vars
  BY <1>4, StutterInv
<1> QED BY <1>1, <1>2, <1>3, <1>4 DEF Next

\* The invariant holds from the start and is kept by every stage of a leg.
THEOREM Invariance == Spec => []ExchangeInv
  BY InitInv, NextInv, PTL DEF Spec

\* Every variable of the exchange keeps its type; what handle sees is what was
\* sent, or that without its payment headers.
THEOREM TypeCorrect == Spec => []TypeOK
<1>1. ExchangeInv => TypeOK
  BY DEF ExchangeInv
<1> QED BY <1>1, Invariance, PTL

\* In every framework, for any headers and rails, a leg is served only if it was
\* charged or nothing was due; and who is charged and not served gets a 500 of the
\* merchant's hooks, the 503 of a failed settle, the answer of a payment that is
\* pending, or a fresh 402: never a denial, and never a refusal.
THEOREM PaidAndServed == Spec => []PaidIffServed
<1>1. ExchangeInv => PaidIffServed
  BY DEF ExchangeInv, Promised
<1> QED BY <1>1, Invariance, PTL

\* The list of the ways to be charged without a screen is complete, the wallet that
\* is screened in another's place among them.
THEOREM ChargedAreScreened == Spec => []ChargedWasScreened
<1>1. ExchangeInv => ChargedWasScreened
  BY DEF ExchangeInv, Promised
<1> QED BY <1>1, Invariance, PTL

\* Junk on a channel that the merchant settles is shown to no service.
THEOREM JunkStopsHere == Spec => []JunkReachesNobody
<1>1. ExchangeInv => JunkReachesNobody
  BY DEF ExchangeInv
<1> QED BY <1>1, Invariance, PTL

\* The payer a merchant records is the wallet that was charged.
THEOREM PayersAreAttributed == Spec => []AttributedIsPayer
<1>1. ExchangeInv => AttributedIsPayer
  BY DEF ExchangeInv, Promised
<1> QED BY <1>1, Invariance, PTL

\* The list of the ways in which an offer of a 402 cannot be paid is complete, in
\* whatever order the merchant wrote his rails.
THEOREM OffersAreHonoured == Spec => []HonouredUnlessLeftOut
<1>1. ExchangeInv => HonouredUnlessLeftOut
  BY DEF ExchangeInv, Promised
<1> QED BY <1>1, Invariance, PTL
-----------------------------------------------------------------------------
(* handle ends: what liveness rests on, without the fairness. *)

StagesLeft(stage) ==
  CASE stage = "answered" -> 0
    [] stage = "dispatch" -> 1
    [] stage = "price" -> 2
    [] stage = "screen" -> 3
    [] stage = "shape" -> 4
    [] stage = "probe" -> 5
    [] stage = "idle" -> 6

\* A header that can be stripped may cost a second entry of handle.
WorkLeft == StagesLeft(pc) + IF HasPaymentHeader(seen) THEN 2 ELSE 0

LEMMA WorkIsFinite == TypeOK => WorkLeft \in Nat
  BY DEF TypeOK, Stages, StagesLeft, WorkLeft

\* Stripping takes more off a leg than entering handle again puts on.
LEMMA PreCheckWorks ==
  ASSUME TypeOK, CredentialPreCheck
  PROVE  WorkLeft' < WorkLeft
<1> DEFINE junk == MalformedPaymentCredential(seen)
<1>1. CASE pc' = "screen" /\ UNCHANGED seen
  BY <1>1 DEF CredentialPreCheck, WorkLeft, StagesLeft, HasPaymentHeader, HasX402Header, HasMppxHeader
<1>2. CASE junk # None /\ pc' = "probe" /\ seen' = StripPaymentHeaders(seen)
  <2>1. HasPaymentHeader(seen)
    BY <1>2 DEF MalformedPaymentCredential, HasPaymentHeader
  <2>2. seen = sent
    BY <2>1, SeenParts DEF TypeOK
  <2>3. ~HasPaymentHeader(seen)'
    BY <1>2, <2>2, SeenParts
  <2> QED BY <1>2, <2>1, <2>3 DEF CredentialPreCheck, WorkLeft, StagesLeft
<1> QED BY <1>1, <1>2 DEF CredentialPreCheck

\* Every other stage leaves the request alone and goes on to a later one.
LEMMA StageWorks ==
  ASSUME TypeOK, Handle
  PROVE  WorkLeft' < WorkLeft
<1>1. CASE CredentialPreCheck
  BY <1>1, PreCheckWorks
<1>2. CASE ~CredentialPreCheck
  <2>1. UNCHANGED seen
    BY <1>2 DEF Handle, Probe, NothingToScreen, RunWalletSanctionsOnly, ComputePricing, HandleZeroSettle,
         HandleX402, HandleMppx, EmitFreshChallenge
  <2>2. HasPaymentHeader(seen)' = HasPaymentHeader(seen)
    BY <2>1 DEF HasPaymentHeader, HasX402Header, HasMppxHeader
  <2>3. \/ pc = "probe" /\ pc' \in {"shape", "answered"}
        \/ pc = "screen" /\ pc' \in {"price", "answered"}
        \/ pc = "price" /\ pc' = "dispatch"
        \/ pc = "dispatch" /\ pc' = "answered"
    BY <1>2 DEF Handle, Probe, BuildDiscoveryProbeResponse, NothingToScreen, RunWalletSanctionsOnly,
         ComputePricing, HandleZeroSettle, HandleX402, HandleMppx, EmitFreshChallenge, Proceed, Answer
  <2> QED BY <2>2, <2>3 DEF WorkLeft, StagesLeft
<1> QED BY <1>1, <1>2

\* Each stage of handle brings its leg nearer to the answer: what it strips it
\* does not detect again, so that it enters itself at most once, whatever is sent.
THEOREM StagesAdvance == Spec => [][Handle => WorkLeft' < WorkLeft]_vars
<1>1. TypeOK /\ [Next]_vars => [Handle => WorkLeft' < WorkLeft]_vars
  BY StageWorks
<1> QED BY <1>1, TypeCorrect, PTL DEF Spec

\* A leg that is sent is at most seven stages away from its answer.
THEOREM WorkIsBounded == Spec => [](WorkLeft \in Nat /\ (pc # "idle" => WorkLeft <= 7))
<1>1. TypeOK => WorkLeft \in Nat /\ (pc # "idle" => WorkLeft <= 7)
  BY WorkIsFinite DEF TypeOK, Stages, StagesLeft, WorkLeft
<1> QED BY <1>1, TypeCorrect, PTL
=============================================================================

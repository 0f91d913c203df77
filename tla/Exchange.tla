------------------------------ MODULE Exchange ------------------------------
(***************************************************************************)
(* The exchange of one agent with a checkout: a request, the 402 that says  *)
(* how to pay, the request again with a credential.  The Checkout module    *)
(* starts where a request has been read; this one is about the reading.     *)
(* Half a dozen places of the code look at the same few headers, each in    *)
(* its own way: the framework adapters, the discovery probe, the shape      *)
(* check, the wallet screen, the dispatch, the compose hook and the zero    *)
(* carve-out; and three builders say in the 402 what can be sent.           *)
(*                                                                          *)
(* A leg is one call of handle, an action one of its stages; nothing but    *)
(* what the agent keeps of the last 402 outlives a leg.  The assess API,    *)
(* the facilitator, pympp and the merchant's hooks answer as they may.       *)
(***************************************************************************)
EXTENDS Naturals

CONSTANTS
  Setups,       \* how the merchant built the checkout, and where it is mounted
  Messages,     \* the requests an agent may send
  Payers,       \* wallets that sign credentials
  None

VARIABLES
  setup,
  pc,           \* the stage of handle the leg is at, or "idle", or "answered"
  sent,         \* the request as the agent sent it
  seen,         \* the CheckoutRequest as handle sees it
  price,        \* ctx.pricing.amount_usd: "zero", "small" (below 0.50) or "normal"
  answer,       \* what the leg was answered
  signer,       \* SettleOutcome.signer_address
  offered,      \* what the agent keeps of the last 402
  screened,     \* history: the wallet assess has allowed on this leg
  charged,      \* history: the wallet and rail charged on this leg
  reached,      \* history: the services this leg's credential was shown to
  failed,       \* history: a service refused or could not be had, or a hook raised
  follows       \* history: the offered rail that the request pays by

legVars == <<price, answer, signer, screened, charged, reached, failed>>
vars == <<setup, pc, sent, seen, offered, follows, legVars>>

-----------------------------------------------------------------------------
MppRails == {"tempo", "solana_mpp", "stripe"}
Rails == MppRails \cup {"x402_base"}
Frames == {"fastapi", "aiohttp", "sanic", "flask", "django"}
Prices == {"zero", "small", "normal"}

\* A POST with a body, a POST without one, and nothing asked yet.
Bodies == {"empty_post", "post", "none"}

\* The x402 header: "junk" is no base64 JSON, "bare" is JSON in base64 without
\* its padding or in the URL alphabet, "whole" in the standard alphabet.  Its payer
\* is the authorization.from of an EIP-3009 payload, if that is what it holds.
X402Values ==
  {x \in [shape : {"none", "junk", "bare", "whole"}, net : {"base", "solana"},
          payer : Payers \cup {None}] : x.shape \in {"none", "junk"} => x.payer = None}

\* The Authorization header: of another scheme, or of Payment, which an agent
\* may write in lower case; a "token" is shaped like a JWT.
AuthValues ==
  {a \in [scheme : {"Payment", "payment"}, rail : MppRails, payer : Payers \cup {None},
          shape : {"none", "bearer", "junk", "token", "bare", "whole"}] :
     a.shape \notin {"bare", "whole"} => a.payer = None}

\* The channels of a malformed credential, and what a leg may be answered.
Channels == {"x402", "mpp"}
Answers == {"sample", "denied", "served", "rejected", "settle_failed", "pending", "broken", "402"}

ASSUME ExchangeAssumption ==
  /\ Messages \subseteq [body : Bodies, title : BOOLEAN, x402 : X402Values, auth : AuthValues]
  /\ Setups \subseteq [frame : Frames, rails : SUBSET Rails, first : MppRails, unminted : SUBSET Rails,
                       hook : {"none", "built", "custom"}, key : BOOLEAN, pre_check : BOOLEAN,
                       probe : BOOLEAN, zero : BOOLEAN, prices : SUBSET Prices]
  /\ \A s \in Setups : s.hook = "built" => s.first \in s.rails
  /\ None \notin Payers \cup Rails \cup Prices \cup Channels \cup Answers

NoX402 == [shape |-> "none", net |-> "base", payer |-> None]
NoAuth == [scheme |-> "Payment", rail |-> "tempo", payer |-> None, shape |-> "none"]
Silence == [body |-> "none", title |-> FALSE, x402 |-> NoX402, auth |-> NoAuth]

\* What handle starts from: a ctx without a price, and nothing done yet.
Fresh(cost, reply, lifted, allowed, taken, shown, refused) ==
  /\ cost = None /\ reply = None /\ lifted = None /\ allowed = None
  /\ taken = {} /\ shown = {} /\ refused = FALSE

Init ==
  /\ setup \in Setups
  /\ pc = "idle"
  /\ sent = Silence /\ seen = Silence /\ follows = None
  /\ offered = [methods |-> {}, challenge |-> {}, body |-> "none", command |-> "none"]
  /\ Fresh(price, answer, signer, screened, charged, reached, failed)

Answer(a) == pc' = "answered" /\ answer' = a
Proceed(from, to) == pc = from /\ pc' = to

-----------------------------------------------------------------------------
(* The framework adapters.  Each hands dict(request.headers) on as it is: in *)
(* lower case, in title case, or as the agent wrote the names.               *)

HandleFastapi(m) == FALSE
HandleSanic(m) == FALSE
HandleAiohttp(m) == m.title
HandleFlask(m) == TRUE
HandleDjango(m) == TRUE

InTitleCase(m) ==
  CASE setup.frame = "fastapi" -> HandleFastapi(m)
    [] setup.frame = "sanic" -> HandleSanic(m)
    [] setup.frame = "aiohttp" -> HandleAiohttp(m)
    [] setup.frame = "flask" -> HandleFlask(m)
    [] setup.frame = "django" -> HandleDjango(m)

\* headers.get("authorization") on that dict: it has no other spelling of it.
PlainAuthorization(m) == IF InTitleCase(m) THEN NoAuth ELSE m.auth

-----------------------------------------------------------------------------
(* payment/payment_header.py: names in any case, the scheme as written. *)

HasX402Header(m) == m.x402.shape # "none"
HasMppxHeader(m) == m.auth.shape \notin {"none", "bearer"} /\ m.auth.scheme = "Payment"
HasPaymentHeader(m) == HasX402Header(m) \/ HasMppxHeader(m)

\* The channel with a value no credential can have; beside an x402 header the
\* other channel is not looked at.
MalformedPaymentCredential(m) ==
  IF HasX402Header(m) THEN IF m.x402.shape = "junk" THEN "x402" ELSE None
  ELSE IF HasMppxHeader(m) /\ m.auth.shape = "junk" THEN "mpp" ELSE None

\* A server is derived from the rail; so is a hook, from the secret key.
X402ServerAvailable == "x402_base" \in setup.rails

\* Slip: the two channels are told apart the wrong way round.
EnforcedCrossed(channel) ==
  \/ channel = "mpp" /\ X402ServerAvailable
  \/ channel = "x402" /\ setup.hook # "none"

Enforced(channel) ==
  \/ channel = "x402" /\ X402ServerAvailable
  \/ channel = "mpp" /\ setup.hook # "none"

\* Slip: only the header that was malformed goes, and x402 is taken for it.
StripX402Only(m) == [m EXCEPT !.x402 = NoX402]

\* The same view of the native request hides them from the hooks that read it.
StripPaymentHeadersFromRaw(a) ==
  IF a.scheme = "Payment" /\ a.shape \notin {"none", "bearer"} THEN NoAuth ELSE a

StripPaymentHeaders(m) ==
  [m EXCEPT !.x402 = NoX402, !.auth = StripPaymentHeadersFromRaw(@)]

-----------------------------------------------------------------------------
(* payment/signer.py decodes strictly, whatever the shape check lets pass. *)

\* The authorization.from of an x402 payload, whatever network that is for.
ExtractFromX402(x) == IF x.shape = "whole" THEN x.payer ELSE None

\* The scheme in any case; a credential without a did:pkh source has no payer.
ExtractFromMppAuth(a) == IF a.shape = "whole" THEN a.payer ELSE None

\* Slip: a request pays by one channel, so the first one present will do.
ExtractFirstChannel(x, a) ==
  IF x.shape # "none" THEN ExtractFromX402(x) ELSE ExtractFromMppAuth(a)

ExtractPaymentSigner(x, a) ==
  IF ExtractFromX402(x) # None THEN ExtractFromX402(x) ELSE ExtractFromMppAuth(a)

-----------------------------------------------------------------------------
(* The agent. *)

\* m pays by rail w as the last 402 has it: for the request that was asked, or by
\* the command of its how_to_pay.
PaysBy(m, w) ==
  /\ m.body \in {offered.body, offered.command} /\ w \in offered.methods
  /\ \/ /\ w = "x402_base"
        /\ m.x402.shape = "whole" /\ m.x402.net = "base" /\ ~HasMppxHeader(m)
     \/ /\ w \in MppRails
        /\ ~HasX402Header(m) /\ HasMppxHeader(m)
        /\ m.auth.shape \in {"bare", "whole"} /\ m.auth.rail = w

Send(m) ==
  /\ pc = "idle"
  /\ pc' = "probe" /\ sent' = m /\ seen' = m
  /\ \/ \E w \in Rails : PaysBy(m, w) /\ follows' = w
     \/ (\A w \in Rails : ~PaysBy(m, w)) /\ follows' = None
  /\ UNCHANGED <<setup, offered, legVars>>

\* The answer is read, and what handle knew of the leg is gone with its ctx.
Read ==
  /\ Proceed("answered", "idle")
  /\ sent' = Silence /\ seen' = Silence /\ follows' = None
  /\ Fresh(price', answer', signer', screened', charged', reached', failed')
  /\ UNCHANGED <<setup, offered>>

-----------------------------------------------------------------------------
(* handle, stage by stage. *)

IsDiscoveryProbeRequest(m) == m.body = "empty_post" /\ ~HasMppxHeader(m)

\* A 402 of placeholders, for a crawler to index and nobody to pay.
BuildDiscoveryProbeResponse == Answer("sample")

\* Ahead of everything: a crawler's empty POST gets the sample 402.
Probe ==
  /\ pc = "probe"
  /\ \/ setup.probe /\ IsDiscoveryProbeRequest(seen) /\ BuildDiscoveryProbeResponse
     \/ ~(setup.probe /\ IsDiscoveryProbeRequest(seen)) /\ pc' = "shape" /\ UNCHANGED answer
  /\ UNCHANGED <<setup, sent, seen, offered, follows, price, signer, screened, charged, reached, failed>>

\* A junk credential is stripped, and handle calls itself on what is left.
CredentialPreCheck ==
  LET junk == MalformedPaymentCredential(seen)
      enforced == setup.pre_check /\ junk # None /\ Enforced(junk)
  IN  /\ pc = "shape"
      /\ \/ enforced /\ pc' = "probe" /\ seen' = StripPaymentHeaders(seen)
         \/ ~enforced /\ pc' = "screen" /\ UNCHANGED seen
      /\ UNCHANGED <<setup, sent, offered, follows, legVars>>

\* No credential, no API key, or no wallet to be read from the credential.
NothingToScreen ==
  /\ Proceed("screen", "price")
  /\ \/ ~HasPaymentHeader(seen) \/ ~setup.key
     \/ ExtractPaymentSigner(seen.x402, seen.auth) = None
  /\ UNCHANGED <<setup, sent, seen, offered, follows, legVars>>

\* The wallet is put to assess, and anything but an allow is a denial.
RunWalletSanctionsOnly ==
  LET wallet == ExtractPaymentSigner(seen.x402, seen.auth)
  IN  /\ pc = "screen"
      /\ HasPaymentHeader(seen) /\ setup.key /\ wallet # None
      /\ reached' = reached \cup {"assess"}
      /\ \/ pc' = "price" /\ screened' = wallet /\ UNCHANGED <<answer, failed>>
         \/ Answer("denied") /\ failed' = TRUE /\ UNCHANGED screened
      /\ UNCHANGED <<setup, sent, seen, offered, follows, price, signer, charged>>

ComputePricing ==
  /\ Proceed("price", "dispatch")
  /\ price' \in setup.prices
  /\ UNCHANGED <<setup, sent, seen, offered, follows, answer, signer, screened, charged, reached, failed>>

\* Slip: the carve-out does not look at the price.
ZeroSettlesAnyPrice == setup.zero /\ HasPaymentHeader(seen)

ZeroSettles == setup.zero /\ price = "zero" /\ HasPaymentHeader(seen)
ToX402 == ~ZeroSettles /\ HasX402Header(seen) /\ X402ServerAvailable
ToMppx == ~ZeroSettles /\ ~ToX402 /\ HasMppxHeader(seen) /\ setup.hook # "none"

\* verify_x402_request: strict base64, this server's network; the payTo, which
\* it also binds, is the Checkout module's.
VerifyX402Request(m) == m.x402.shape = "whole" /\ m.x402.net = "base" /\ X402ServerAvailable

\* zero_amount_carve_out: the wallet of the credential, and no transaction.
X402SignerFromPayload(m) == ExtractFromX402(m.x402)
MppSignerFromAuth(m) == ExtractFromMppAuth(PlainAuthorization(m))

\* _build_success: the payer is recorded by on_settled, which may raise.
BuildSuccess(payer) ==
  /\ signer' = payer
  /\ \/ Answer("served") /\ UNCHANGED failed
     \/ Answer("broken") /\ failed' = TRUE

\* Nothing is charged for nothing: the credential is parsed for its wallet.
HandleZeroSettle ==
  /\ pc = "dispatch" /\ ZeroSettles
  /\ \/ HasX402Header(seen) /\ VerifyX402Request(seen) /\ BuildSuccess(X402SignerFromPayload(seen))
     \/ HasX402Header(seen) /\ ~VerifyX402Request(seen) /\ Answer("rejected") /\ UNCHANGED <<signer, failed>>
     \/ ~HasX402Header(seen) /\ BuildSuccess(MppSignerFromAuth(seen))
  /\ UNCHANGED <<setup, sent, seen, offered, follows, price, screened, charged, reached>>

ChargesX402 == price # "zero" /\ charged' = charged \cup {<<seen.x402.payer, "x402_base">>}

\* The facilitator settles a credential it can verify, unless it is down or the
\* amount is nothing, and may raise once it has; a server that cannot be built
\* is nobody's to catch.
HandleX402 ==
  /\ pc = "dispatch" /\ ToX402
  /\ \/ ~VerifyX402Request(seen) /\ Answer("rejected") /\ UNCHANGED <<signer, charged, reached, failed>>
     \/ /\ VerifyX402Request(seen) /\ reached' = reached \cup {"facilitator"}
        /\ \/ ChargesX402 /\ BuildSuccess(ExtractFromX402(seen.x402))
           \/ /\ failed' = TRUE /\ UNCHANGED signer
              /\ \/ UNCHANGED charged /\ \E a \in {"rejected", "broken", "settle_failed"} : Answer(a)
                 \/ ChargesX402 /\ Answer("settle_failed")
  /\ UNCHANGED <<setup, sent, seen, offered, follows, price, screened>>

-----------------------------------------------------------------------------
(* The MPP rails. *)

\* _apply_recipient_overrides: what nobody minted an address for is dropped.
Payable == setup.rails \ setup.unminted

\* build_mppx_compose_rails, which a merchant's own hook composes from.
BuildMppxComposeRails ==
  {w \in Payable \cap MppRails : w = "stripe" => price = "normal"}

\* create_mppx_server makes a method of the first of its rails, in the order the
\* merchant wrote them, and raises where that is Solana's.
CreateMppxServer == {setup.first} \cap {"tempo", "stripe"}

ComposedRails ==
  CASE setup.hook = "none" -> {}
    [] setup.hook = "built" -> CreateMppxServer
    [] setup.hook = "custom" -> BuildMppxComposeRails

\* What the hook hands to pympp: the built one reads the dict of the adapter,
\* a merchant's own the native request.
ForwardedAuthorization(m) == IF setup.hook = "built" THEN PlainAuthorization(m) ELSE m.auth

\* pympp decodes with or without padding, charges only what it composed, and
\* Stripe nothing below its own minimum.
Chargeable(a) ==
  /\ a.shape \in {"bare", "whole"}
  /\ a.rail \in ComposedRails
  /\ price # "zero" /\ (a.rail = "stripe" => price = "normal")

\* A built hook whose server cannot be made raises, and nobody catches it.
NoServer == setup.hook = "built" /\ CreateMppxServer = {}

\* Slip: the wallet is read off the request, not off the receipt of the charge.
SignerOfRequest(a) == ExtractPaymentSigner(seen.x402, seen.auth)

\* The hook lifts it from the did:pkh of the credential that was charged.
SignerOfReceipt(a) == a.payer

\* pympp charges, or refuses a credential, or breaks off once it has broadcast
\* one, which is told from other failures; a merchant's own hook may also raise.
HandleMppx ==
  LET a == ForwardedAuthorization(seen)
      charges == Chargeable(a) /\ charged' = charged \cup {<<a.payer, a.rail>>}
  IN  /\ pc = "dispatch" /\ ToMppx
      /\ reached' = reached \cup {"pympp"}
      /\ \/ charges /\ BuildSuccess(SignerOfReceipt(a))
         \/ /\ ~Chargeable(a) /\ UNCHANGED <<signer, charged, failed>>
            /\ Answer(IF NoServer THEN "broken" ELSE "rejected")
         \/ /\ failed' = TRUE /\ UNCHANGED signer
            /\ \/ UNCHANGED charged /\ \E e \in {"rejected", "broken"} : Answer(e)
               \/ Chargeable(a) /\ UNCHANGED charged /\ Answer("pending")
               \/ charges /\ Answer("pending")
               \/ charges /\ setup.hook = "custom" /\ Answer("broken")
      /\ UNCHANGED <<setup, sent, seen, offered, follows, price, screened>>

-----------------------------------------------------------------------------
(* The 402. *)

\* Slip: the rails of the constructor are offered, minted or not.
AcceptedMethodsUnminted == {w \in setup.rails : w = "stripe" => price = "normal"}

\* accepted_methods and how_to_pay; Stripe is left out where compose drops it.
AcceptedMethods == {w \in Payable : w = "stripe" => price = "normal"}

\* retry_body_json is str() of the dict, quoted as Python does: no JSON, unless it
\* is empty, and a body that is none is an empty one to every adapter.
RetryBodyJson(b) == IF b = "post" THEN "empty_post" ELSE b

\* Each rail's command repeats the request with the body it is given.
BuildHowToPay(body) == body

\* The entries of the x402 server, or none when it cannot be had.
BuildX402Accepts == {{}, {"x402_base"} \cap Payable}

\* The hook is called for its challenge, with whatever the request carries: a
\* scheme in lower case is no credential to handle, and may be one to pympp.
ComposeChallenge(rails) ==
  LET a == ForwardedAuthorization(seen)
  IN  \/ rails = ComposedRails /\ UNCHANGED <<charged, failed>>
      \/ /\ a.scheme = "payment" /\ Chargeable(a)
         /\ charged' = charged \cup {<<a.payer, a.rail>>}
         /\ rails = {} /\ failed' \in {failed, TRUE}
      \/ setup.hook # "none" /\ rails = {} /\ failed' = TRUE /\ UNCHANGED charged

\* respond_402: the challenge of pympp and the accepts of x402 go out as headers.
EmitFreshChallenge ==
  /\ pc = "dispatch" /\ ~ZeroSettles /\ ~ToX402 /\ ~ToMppx
  /\ \E rails \in SUBSET MppRails, accepts \in BuildX402Accepts :
       /\ ComposeChallenge(rails)
       /\ offered' = [methods |-> AcceptedMethods, challenge |-> rails \cup accepts,
                      body |-> sent.body, command |-> BuildHowToPay(RetryBodyJson(sent.body))]
  /\ Answer("402")
  /\ UNCHANGED <<setup, sent, seen, follows, price, signer, screened, reached>>

Handle ==
  \/ Probe \/ CredentialPreCheck \/ NothingToScreen \/ RunWalletSanctionsOnly \/ ComputePricing
  \/ HandleZeroSettle \/ HandleX402 \/ HandleMppx \/ EmitFreshChallenge

Next == Handle \/ Read \/ \E m \in Messages : Send(m)

Spec == Init /\ [][Next]_vars /\ WF_vars(Handle)

-----------------------------------------------------------------------------
(* Properties. *)

\* The header with its name in lower case, which the request really bears.
ReadsLate == setup.hook = "built" /\ InTitleCase(sent)
ByX402 == ToX402 \/ (ZeroSettles /\ HasX402Header(seen))

\* A leg is served only if it was charged, or nothing was due and the carve-out
\* was asked for.  Who is charged and not served is one of these, and is told
\* neither that he is denied nor that his credential is refused: a hook of the
\* merchant's raised; settling x402 did, and he is asked to retry; pympp's
\* confirmation did not come in time; or the charge is hidden behind a fresh 402,
\* because a scheme in lower case is no credential to the dispatch but one to
\* pympp, when the hook is called for its challenge (checkout.py:2584;
\* x402_settle.py:154; mppx_failures.py:93; checkout.py:2378).
PaidIffServed ==
  /\ answer = "served" => charged # {} \/ (price = "zero" /\ setup.zero)
  /\ \A c \in charged : answer # "served" =>
       \/ answer = "broken" /\ failed
       \/ answer = "settle_failed" /\ c[2] = "x402_base"
       \/ answer = "pending" /\ c[2] \in MppRails
       \/ answer = "402" /\ sent.auth.scheme = "payment" /\ setup.hook # "none"

\* A wallet charged by a checkout with an API key has been screened (a Stripe token
\* has none, and nobody was screened in its place), with this list of exceptions:
\* the strict decoder of the screen cannot read a credential that pympp can; a
\* scheme in lower case is no payment header; an x402 credential without an
\* EIP-3009 payer leaves the screen to whom the other header names; and beside an
\* x402 header that names one, for whichever network, it is he who is screened.
ChargedWasScreened ==
  \A c \in charged : setup.key =>
    \/ c[1] = screened
    \/ c = <<None, "x402_base">>
    \/ sent.auth.shape = "bare"
    \/ seen.auth.scheme = "payment" /\ ~HasX402Header(seen)
    \/ c[2] \in MppRails /\ screened # None /\ screened = sent.x402.payer

\* A request whose one credential cannot be one, on a channel the merchant
\* settles, is answered with a 402 and is shown to no service on the way.
JunkReachesNobody ==
  LET junkX402 == sent.x402.shape = "junk" /\ sent.auth = NoAuth /\ X402ServerAvailable
      junkMpp == sent.x402 = NoX402 /\ sent.auth.shape = "junk" /\ sent.auth.scheme = "Payment"
                   /\ setup.hook # "none"
  IN  setup.pre_check /\ (junkX402 \/ junkMpp) =>
        reached = {} /\ charged = {} /\ answer \in {None, "402", "sample"}

\* The wallet a merchant records as the payer is the one that was charged, or for
\* nothing that of the channel the leg went by; and it is missing only where the
\* credential names none, where the strict decoder cannot read it, or where the
\* carve-out reads the header by its lower-case name.
AttributedIsPayer ==
  answer = "served" =>
    LET payer == IF ByX402 THEN sent.x402.payer ELSE sent.auth.payer
    IN  /\ \A c \in charged : c[1] = payer
        /\ signer \in {payer, None}
        /\ signer = None => \/ payer = None
                            \/ ZeroSettles /\ ~ByX402 /\ (InTitleCase(sent) \/ sent.auth.shape = "bare")

\* What a 402 offers can be paid, in every framework (checkout.py:169-171): a request
\* that pays by an offered rail is served unless a service refused or a hook raised.
OfferIsHonoured == follows # None /\ pc = "answered" => answer = "served" \/ failed

\* An MPP rail offered without a challenge to sign: no hook, or a built one, whose
\* server has at most one rail, the merchant's first, however many the 402 lists.
Unchallenged(w) == setup.hook = "none" \/ (setup.hook = "built" /\ w \notin CreateMppxServer)

\* Where offers are not honoured, and nowhere else.  A 402 that no service spoiled
\* has a challenge for every MPP rail it lists, the minted and the Stripe minimum
\* included (checkout.py:2439-2447), and a request by an offered rail fails when
\* the price has moved, the command's empty body is a probe's, or a header name
\* is in title case.
HonouredUnlessLeftOut ==
  /\ answer = "402" /\ ~failed /\ charged = {} =>
        \A w \in (offered.methods \cap MppRails) \ offered.challenge : Unchallenged(w)
  /\ \/ OfferIsHonoured
     \/ price = "zero" /\ ~setup.zero
     \/ setup.probe /\ sent.body = "empty_post" /\ follows = "x402_base"
     \/ follows \in MppRails /\ (Unchallenged(follows) \/ ReadsLate)
     \/ follows = "stripe" /\ price # "normal"

\* Every request is answered: handle enters itself again at most once.
EveryLegAnswered == pc = "probe" ~> pc = "answered"

=============================================================================

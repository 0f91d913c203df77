------------------------------ MODULE Checkout ------------------------------
(***************************************************************************)
(* The checkout of a merchant that knows the price before the work          *)
(* (checkout.py).  A request without a payment credential is the DISCOVERY  *)
(* leg: it is priced, the recipients of the money are minted, and a 402     *)
(* offers them.  A request with one is the SETTLE leg: it passes the        *)
(* identity gate or the wallet screen, is priced anew, its credential is    *)
(* bound to an address of the merchant's, verified and settled on the x402  *)
(* or the MPP rail, and on_settled records the order.                       *)
(*                                                                          *)
(* Nothing but the chain and the merchant's own address cache outlives a    *)
(* request, so what can go wrong goes wrong between requests that overlap:  *)
(* prices and recipients are computed again on every leg.  An action is the *)
(* code between two awaits; the gate's API, the facilitator, the chain and  *)
(* the merchant's hooks answer in any way the code tells apart.             *)
(***************************************************************************)
EXTENDS Naturals, CheckoutGate

CONSTANTS
  Requests,       \* the HTTP requests the process will see
  Creds,          \* payment credentials the buyers can sign
  MppCreds,       \* those sent as Authorization: Payment; the rest are x402
  Signerless,     \* MPP credentials that name no wallet (Stripe SPT)
  Prices,         \* amounts in cents
  Setups,         \* how a merchant may have configured it, and who pays there
  Static,         \* the recipient written in the rails
  PerOrder,       \* the recipient an idempotent mint_recipients returns
  Foreign,        \* an address that is not the merchant's
  None

\* CheckoutGateConfig: none of it, the run_gate escape hatch, or a policy, in
\* static fields and in what per_request_policy answers, if there is one.
GateConfig == [kind : {"none", "custom", "policy"}, api_key : BOOLEAN, env_key : BOOLEAN,
               names : BOOLEAN, own : SUBSET (Policy \cup {Waived})]

\* Where the address of an order comes from: none is minted; the hook mints one,
\* the same on every leg, or a fresh one.  Beside it is_cached_address may be
\* given, and a recipient written in the x402 rail or left blank.
Mints == {"none", "per_order", "fresh"}
Recipients == [mint : Mints, cache : BOOLEAN, written : BOOLEAN]

ASSUME CheckoutAssumption ==
  /\ MppCreds \subseteq Creds /\ Signerless \subseteq MppCreds /\ None \notin Creds
  /\ Prices \subseteq Nat /\ None \notin Prices
  /\ Setups \subseteq [gate : GateConfig, to : Recipients, zero : BOOLEAN, mpp : BOOLEAN,
                          prices : SUBSET Prices, sanctioned : SUBSET Creds, strangers : SUBSET Creds]
  /\ \A s \in Setups : s.to.cache => s.to.mint # "none"
  /\ Static # PerOrder
  /\ Requests \cap {Static, PerOrder, Foreign, None} = {}
  /\ Foreign \notin {Static, PerOrder, None} /\ None \notin {Static, PerOrder}

VARIABLES
  setup,          \* how this checkout was constructed, and what its hook can price
  pc,             \* request -> where its coroutine is suspended
  cred,           \* request -> the credential in its payment header, or None
  ident,          \* request -> the identity header it carries
  gated,          \* request -> what the gate made of it, or None
  price,          \* request -> ctx.pricing.amount_usd, or None
  payee,          \* request -> ctx.recipients["x402_base"], or None
  answer,         \* request -> the outcome it was answered with, or None
  known,          \* the addresses minted that the merchant's cache holds
  lapsed,         \* history: those it has ever dropped, after their TTL or in a restart
  offers,         \* the [price, payTo] of the 402s sent
  signed,         \* credential -> the [price, payTo] it was signed for, or None
  captured,       \* credential -> the [price, payTo] moved on chain, or None
  charged_by      \* history: credential -> the request whose settle moved it, or None

requestVars == <<pc, cred, ident, gated, price, payee, answer>>
moneyVars == <<signed, captured, charged_by>>
cacheVars == <<known, lapsed>>
vars == <<setup, pc, cred, ident, gated, price, payee, answer,
          known, lapsed, offers, signed, captured, charged_by>>

-----------------------------------------------------------------------------
\* A freshly minted address is named by the request that minted it.
PayTos == Requests \cup {Static, PerOrder, Foreign}
Terms == [price : Prices, payTo : PayTos]
Minted == known \cup lapsed
Idents == {"none", "wallet", "token", "both"}

\* GateResult.status; the wallet screen alone leaves "screened", "no_wallet" and
\* "unkeyed", run_gate "allowed".  Beside it, what the code does not keep: the
\* policy, and whether the status rests on a decision of assess's.
Statuses == {"verified", "unverified", "anonymous", "screened", "no_wallet", "unkeyed", "allowed"}
Verdicts == [status : Statuses, policy : Policy, decided : BOOLEAN]

Suspended == {"gate", "price", "mint", "verify", "settle", "compose", "challenge", "settled"}

\* Answers that ask the buyer to pay, pay again or pay otherwise, or leave him free
\* to; and those that tell him not to, or tell him nothing.
Refusals == {"402", "sample", "invalid", "denied", "mint_failed", "misdirected",
             "verify_failed", "unavailable", "rejected", "error", "settle_failed"}
Answers == Refusals \cup {"completed", "unrecorded", "pending", "broken"}

ASSUME NoneAssumption == None \notin Verdicts \cup Answers

TypeOK ==
  /\ setup \in Setups
  /\ pc \in [Requests -> Suspended \cup {"idle", "done"}]
  /\ cred \in [Requests -> Creds \cup {None}]
  /\ ident \in [Requests -> Idents]
  /\ gated \in [Requests -> Verdicts \cup {None}]
  /\ price \in [Requests -> Prices \cup {None}]
  /\ payee \in [Requests -> PayTos \cup {None}]
  /\ answer \in [Requests -> Answers \cup {None}]
  /\ known \subseteq Requests \cup {PerOrder} /\ lapsed \subseteq Requests \cup {PerOrder}
  /\ offers \subseteq [price : Prices, payTo : PayTos \cup {None}]
  /\ signed \in [Creds -> Terms \cup {None}]
  /\ captured \in [Creds -> Terms \cup {None}]
  /\ charged_by \in [Creds -> Requests \cup {None}]

Init ==
  /\ setup \in Setups
  /\ pc = [r \in Requests |-> "idle"]
  /\ cred = [r \in Requests |-> None]
  /\ ident = [r \in Requests |-> "none"]
  /\ gated = [r \in Requests |-> None]
  /\ price = [r \in Requests |-> None]
  /\ payee = [r \in Requests |-> None]
  /\ answer = [r \in Requests |-> None]
  /\ known = {} /\ lapsed = {}
  /\ offers = {}
  /\ signed = [c \in Creds |-> None]
  /\ captured = [c \in Creds |-> None]
  /\ charged_by = [c \in Creds |-> None]

\* r stops awaiting at one point and is next suspended at another.
Go(r, from, to) == pc[r] = from /\ pc' = [pc EXCEPT ![r] = to]

Answer(r, a) ==
  /\ pc' = [pc EXCEPT ![r] = "done"]
  /\ answer' = [answer EXCEPT ![r] = a]

Mpp(r) == cred[r] \in MppCreds

\* The credentials of wallets on the SDN list, and of wallets that belong to
\* another operator than a wallet claimed beside them.
Sanctioned == setup.sanctioned
Strangers == setup.strangers

-----------------------------------------------------------------------------
(* Arrival, up to the gate. *)

\* A crawler's empty request gets the sample 402; pre_validate raises for one
\* whose body will not do.
Dismiss(r) ==
  /\ pc[r] = "idle"
  /\ \E a \in {"sample", "invalid"} : Answer(r, a)
  /\ UNCHANGED <<setup, cred, ident, gated, price, payee, cacheVars, offers, moneyVars>>

\* No credential, or junk in its place: handle strips that and calls itself.
Discover(r) ==
  /\ Go(r, "idle", "price")
  /\ UNCHANGED <<setup, cred, ident, gated, price, payee, answer, cacheVars, offers, moneyVars>>

Keyed == setup.gate.api_key \/ setup.gate.env_key
HasPolicyGate == setup.gate.kind = "policy" /\ setup.gate.api_key

\* No credential, but X-Verification-Session: create, at an identity gate.
AskForSession(r) ==
  /\ setup.gate.kind = "policy" /\ setup.gate.names
  /\ Go(r, "idle", "gate")
  /\ UNCHANGED <<setup, cred, ident, gated, price, payee, answer, cacheVars, offers, moneyVars>>

\* A credential; the identity headers beside it matter to a policy gate only.
Pay(r, c, i) ==
  /\ signed[c] # None
  /\ HasPolicyGate \/ i = "none"
  /\ Go(r, "idle", "gate")
  /\ cred' = [cred EXCEPT ![r] = c]
  /\ ident' = [ident EXCEPT ![r] = i]
  /\ UNCHANGED <<setup, gated, price, payee, answer, cacheVars, offers, moneyVars>>

-----------------------------------------------------------------------------
(* The gate. *)

PassGate(r, status, policy, decided) ==
  /\ Go(r, "gate", "price")
  /\ gated' = [gated EXCEPT ![r] = [status |-> status, policy |-> policy, decided |-> decided]]
  /\ UNCHANGED <<setup, cred, ident, price, payee, answer, cacheVars, offers, moneyVars>>

\* The denial, in the body the gate made or the one on_denied made of it.
Deny(r) ==
  /\ pc[r] = "gate"
  /\ Answer(r, "denied")
  /\ UNCHANGED <<setup, cred, ident, gated, price, payee, cacheVars, offers, moneyVars>>

\* Slip: only an explicit denial denies.
WalletScreenUnread(r) ==
  IF ~Keyed \/ cred[r] = None \/ cred[r] \in Signerless
  THEN PassGate(r, IF Keyed THEN "no_wallet" ELSE "unkeyed", NoPolicy, FALSE)
  ELSE PassGate(r, "screened", NoPolicy, TRUE) \/ Deny(r)

\* _run_wallet_sanctions_only asks about the wallet that signed, if one did:
\* whatever is not an explicit allow denies.
WalletScreen(r) ==
  IF ~Keyed \/ cred[r] = None \/ cred[r] \in Signerless
  THEN PassGate(r, IF Keyed THEN "no_wallet" ELSE "unkeyed", NoPolicy, FALSE)
  ELSE (cred[r] \notin Sanctioned /\ PassGate(r, "screened", NoPolicy, TRUE)) \/ Deny(r)

\* The gate sends a signer to /v1/assess only for a claimed wallet, and looks
\* for it only in the x402 header.
SignerPassed(r) == ident[r] \in {"wallet", "both"} /\ cred[r] # None /\ ~Mpp(r)

\* What /v1/assess may reply.  It flags a signer it is sent, or denies because
\* it could not look, unless it fails or its answer holds no decision.
Replies(r) ==
  LET flagged == SignerPassed(r) /\ cred[r] \in Sanctioned
      match == IF ~SignerPassed(r) THEN "none"
               ELSE IF cred[r] \in Strangers THEN "wallet_signer_mismatch" ELSE "pass"
  IN  {Failed(f) : f \in IF ident[r] = "wallet" THEN {"network_timeout"} ELSE {"network_timeout", "token_expired"}}
      \cup {Ruling("none", {}, "none")}
      \cup {Ruling("deny", s, match) :
              s \in {t \in {{"kyc_required"}, {"age_insufficient"}, {"kyc_required", "sanctions_flagged"},
                            {"sanctions_check_unavailable"}} : flagged => t \cap SanctionsReasons # {}}}
      \cup (IF flagged THEN {} ELSE {Ruling("allow", {}, match)})

\* Whether a status came of a decision: an answer without one is an allow to the
\* gate, and soft enforcement swallows a failure as it does a denial.
Decided(status, reply) == status # "anonymous" /\ reply.decision # "none"

\* The gate built from a policy, and the signer match behind it.
PolicyGate(r, policy) ==
  \E session \in BOOLEAN, reply \in IF ident[r] = "none" THEN {Failed("none")} ELSE Replies(r) :
    LET status == GateStatus(policy, GateDenial(ident[r] # "none", reply, session))
        refused == SignerRefused(status, ident[r] = "wallet", reply.signer_match)
    IN  \/ (status = "denied" \/ refused) /\ Deny(r)
        \/ status # "denied" /\ ~refused /\ PassGate(r, status, policy, Decided(status, reply))

\* The gate a merchant configured.  A product that waives its policy still has
\* its payer screened, and so has a checkout without a gate or a key for it.
RunGate(r) ==
  \/ setup.gate.kind = "custom" /\ (PassGate(r, "allowed", NoPolicy, FALSE) \/ Deny(r))
  \/ setup.gate.kind # "custom" /\ (~HasPolicyGate \/ Waived \in setup.gate.own) /\ WalletScreen(r)
  \/ /\ HasPolicyGate
     /\ \E own \in IF setup.gate.own = {} THEN {NoPolicy} ELSE setup.gate.own \ {Waived} :
          PolicyGate(r, Merged(setup.gate.names, own))

-----------------------------------------------------------------------------
(* Pricing and recipients. *)

\* $0 and the carve-out for it: no money is to move.
Free(r, p) == setup.zero /\ p = 0 /\ cred[r] # None
CarvedOut(r) == Free(r, price[r])

\* compute_pricing, on every leg.  An MPP credential that nothing here can
\* settle is taken for a discovery; a carved out one is not charged at all.
Price(r, p) ==
  /\ price' = [price EXCEPT ![r] = p]
  /\ \/ cred[r] = None /\ Go(r, "price", "challenge")
     \/ cred[r] \in Creds \ MppCreds /\ Go(r, "price", "mint")
     \/ Mpp(r) /\ Free(r, p) /\ Go(r, "price", "settled")
     \/ Mpp(r) /\ ~Free(r, p) /\ Go(r, "price", IF setup.mpp THEN "mint" ELSE "challenge")
  /\ UNCHANGED <<setup, cred, ident, gated, payee, answer, cacheVars, offers, moneyVars>>

\* mint_recipients as mint_multichain_recipients does it: an MPP credential is
\* answered with the address it was signed for, if the cache has it, and any
\* other request with a fresh one.
Recipient(r) ==
  CASE setup.to.mint = "none" -> None
    [] setup.to.mint = "per_order" -> PerOrder
    [] setup.to.mint = "fresh" -> IF Mpp(r) THEN signed[cred[r]].payTo ELSE r

RecipientKnown(r) == setup.to.mint = "fresh" /\ Mpp(r) => signed[cred[r]].payTo \in known

ResolveRecipients(r) ==
  /\ RecipientKnown(r)
  /\ payee' = [payee EXCEPT ![r] = Recipient(r)]
  /\ known' = known \cup ({Recipient(r)} \ {None})
  /\ UNCHANGED lapsed

\* _resolve_recipients on the settle leg, before the credential is looked at.
Mint(r) ==
  /\ ResolveRecipients(r)
  /\ Go(r, "mint", IF Mpp(r) THEN "compose" ELSE "verify")
  /\ UNCHANGED <<setup, cred, ident, gated, price, answer, offers, moneyVars>>

\* compute_pricing raises, or mint_recipients does, if only because it does
\* not know the address of an MPP credential, or one of the gate's hooks
\* (run_gate, per_request_policy, on_denied): handle catches none of it.
HookRaises(r) ==
  /\ pc[r] \in {"price", "mint"} \/ (pc[r] = "gate" /\ setup.gate.kind # "none")
  /\ Answer(r, "error")
  /\ UNCHANGED <<setup, cred, ident, gated, price, payee, cacheVars, offers, moneyVars>>

-----------------------------------------------------------------------------
(* The x402 rail. *)

\* No cache, no minted recipient and none in the rail.
Unbound == ~setup.to.cache /\ setup.to.mint = "none" /\ ~setup.to.written

\* Slip: the address is bound to nothing but the merchant's cache.
BindsCachedOnly(r) == setup.to.cache => signed[cred[r]].payTo \in known

\* Slip: the recipient in the rails comes before the minted one.
BindsStaticFirst(r) ==
  LET a == signed[cred[r]].payTo
  IN  IF setup.to.cache THEN a \in known ELSE setup.to.written => a = Static

\* _async_is_cached_address: the merchant's own cache, else the recipient this
\* request resolved, else the one written in the rail, else any address at all.
Binds(r) ==
  LET a == signed[cred[r]].payTo
  IN  CASE setup.to.cache -> a \in known
        [] ~setup.to.cache /\ payee[r] # None -> a = payee[r]
        [] OTHER -> setup.to.written => a = Static

Misdirected(r) ==
  /\ pc[r] = "verify"
  /\ ~Binds(r)
  /\ Answer(r, "misdirected")
  /\ UNCHANGED <<setup, cred, ident, gated, price, payee, cacheVars, offers, moneyVars>>

\* _handle_zero_settle: the address is bound, and nothing else is verified.
SkipSettle(r) ==
  /\ Go(r, "verify", "settled")
  /\ Binds(r) /\ CarvedOut(r)
  /\ UNCHANGED <<setup, cred, ident, gated, price, payee, answer, cacheVars, offers, moneyVars>>

\* The facilitator takes an unspent credential for exactly this leg's price.
PaysPrice(r) ==
  captured[cred[r]] = None /\ signed[cred[r]].price = price[r] /\ price[r] > 0

VerifyPasses(r) ==
  /\ Go(r, "verify", "settle")
  /\ Binds(r) /\ ~CarvedOut(r) /\ PaysPrice(r)
  /\ UNCHANGED <<setup, cred, ident, gated, price, payee, answer, cacheVars, offers, moneyVars>>

\* Not valid: 400, regenerate.  No requirements, or no facilitator: 500 or 503.
VerifyFails(r) ==
  /\ pc[r] = "verify"
  /\ Binds(r) /\ ~CarvedOut(r)
  /\ \E a \in {"verify_failed", "unavailable"} : Answer(r, a)
  /\ UNCHANGED <<setup, cred, ident, gated, price, payee, cacheVars, offers, moneyVars>>

\* The chain moves the money of a credential once, on the terms signed.
Transfer(r) ==
  /\ captured[cred[r]] = None
  /\ captured' = [captured EXCEPT ![cred[r]] = signed[cred[r]]]
  /\ charged_by' = [charged_by EXCEPT ![cred[r]] = r]

NoTransfer == UNCHANGED <<captured, charged_by>>

SettleReturns(r) ==
  /\ Go(r, "settle", "settled")
  /\ Transfer(r)
  /\ UNCHANGED <<setup, cred, ident, gated, price, payee, answer, cacheVars, offers, signed>>

\* Slip: the failure is not told from a success.
SettleRaisesUnseen(r) ==
  /\ Go(r, "settle", "settled")
  /\ Transfer(r) \/ NoTransfer
  /\ UNCHANGED <<setup, cred, ident, gated, price, payee, answer, cacheVars, offers, signed>>

\* Refused by the chain, or moved and the facilitator's reply lost: a 503 that
\* asks the buyer to retry, or to swap the rail, in either case.
SettleRaises(r) ==
  /\ pc[r] = "settle"
  /\ Answer(r, "settle_failed")
  /\ Transfer(r) \/ NoTransfer
  /\ UNCHANGED <<setup, cred, ident, gated, price, payee, cacheVars, offers, signed>>

-----------------------------------------------------------------------------
(* The MPP rail: one call of compose_mppx verifies and settles. *)

\* A challenge of this server's, for this price, unspent.
ChallengeMet(r) == PaysPrice(r) /\ (IF payee[r] = None THEN signed[cred[r]].payTo = Static
                                                       ELSE signed[cred[r]].payTo = payee[r])

ComposeCharges(r) ==
  /\ Go(r, "compose", "settled")
  /\ ChallengeMet(r) /\ Transfer(r)
  /\ UNCHANGED <<setup, cred, ident, gated, price, payee, answer, cacheVars, offers, signed>>

\* The hook's 402: the credential was refused before it was broadcast.
ComposeRejects(r) ==
  /\ pc[r] = "compose"
  /\ Answer(r, "rejected")
  /\ UNCHANGED <<setup, cred, ident, gated, price, payee, cacheVars, offers, moneyVars>>

\* Slip: the reason is not classified, and the buyer is sent a new challenge.
ComposeTimesOutUnclassified(r) ==
  /\ pc[r] = "compose"
  /\ ChallengeMet(r)
  /\ Answer(r, "rejected")
  /\ Transfer(r) \/ NoTransfer
  /\ UNCHANGED <<setup, cred, ident, gated, price, payee, cacheVars, offers, signed>>

\* Broadcast, and not confirmed in time: classify_mppx_failure makes it a 504.
ComposeTimesOut(r) ==
  /\ pc[r] = "compose"
  /\ ChallengeMet(r)
  /\ Answer(r, "pending")
  /\ Transfer(r) \/ NoTransfer
  /\ UNCHANGED <<setup, cred, ident, gated, price, payee, cacheVars, offers, signed>>

\* A merchant's own hook raises, whatever it did before: nothing catches it.
ComposeRaises(r) ==
  /\ pc[r] = "compose"
  /\ Answer(r, "broken")
  /\ (ChallengeMet(r) /\ Transfer(r)) \/ NoTransfer
  /\ UNCHANGED <<setup, cred, ident, gated, price, payee, cacheVars, offers, signed>>

-----------------------------------------------------------------------------
(* The answers. *)

\* _build_success: on_settled runs, and the 200 goes out; or it raises after
\* the money has moved, and the order is not recorded.
Respond(r) ==
  /\ pc[r] = "settled"
  /\ \E a \in {"completed", "unrecorded"} : Answer(r, a)
  /\ UNCHANGED <<setup, cred, ident, gated, price, payee, cacheVars, offers, moneyVars>>

\* What a 402 has to offer: the minted address, or the one written in the rails,
\* where a blank x402 rail is left out.
Offered(minted) ==
  IF minted # None THEN minted ELSE IF setup.to.written \/ setup.mpp THEN Static ELSE None

\* _emit_fresh_challenge: recipients are resolved and offered, at this price.
Challenge(r) ==
  /\ pc[r] = "challenge"
  /\ ResolveRecipients(r)
  /\ Answer(r, "402")
  /\ offers' = offers \cup {[price |-> price[r], payTo |-> Offered(Recipient(r))]}
  /\ UNCHANGED <<setup, cred, ident, gated, price, moneyVars>>

\* mint_recipients raises: here the code does catch its own error class.
ChallengeFails(r) ==
  /\ pc[r] = "challenge"
  /\ \E a \in {"mint_failed", "error"} : Answer(r, a)
  /\ UNCHANGED <<setup, cred, ident, gated, price, payee, cacheVars, offers, moneyVars>>

-----------------------------------------------------------------------------
\* A buyer signs for an address some 402 offered, or for another, at a price
\* some 402 named.
Sign(c) ==
  /\ signed[c] = None
  /\ \E p \in {o.price : o \in offers}, a \in ({o.payTo : o \in offers} \ {None}) \cup {Foreign} :
        signed' = [signed EXCEPT ![c] = [price |-> p, payTo |-> a]]
  /\ UNCHANGED <<setup, requestVars, cacheVars, offers, captured, charged_by>>

\* The merchant's cache drops an address, which its mint or its check asks for.
Lapse(a) ==
  /\ a \in known /\ (setup.to.cache \/ setup.to.mint = "fresh")
  /\ known' = known \ {a} /\ lapsed' = lapsed \cup {a}
  /\ UNCHANGED <<setup, requestVars, offers, moneyVars>>

Arrive(r) ==
  \/ Dismiss(r) \/ Discover(r) \/ AskForSession(r)
  \/ \E c \in Creds, i \in Idents : Pay(r, c, i)

Step(r) ==
  \/ pc[r] = "gate" /\ RunGate(r)
  \/ \E p \in setup.prices : Price(r, p)
  \/ Mint(r) \/ HookRaises(r)
  \/ Misdirected(r) \/ SkipSettle(r) \/ VerifyPasses(r) \/ VerifyFails(r)
  \/ SettleReturns(r) \/ SettleRaises(r)
  \/ ComposeCharges(r) \/ ComposeRejects(r) \/ ComposeTimesOut(r) \/ ComposeRaises(r)
  \/ Respond(r) \/ Challenge(r) \/ ChallengeFails(r)

Next ==
  \/ \E r \in Requests : Arrive(r) \/ Step(r)
  \/ \E c \in Creds : Sign(c)
  \/ \E a \in known : Lapse(a)

Spec == Init /\ [][Next]_vars

-----------------------------------------------------------------------------
(* Safety. *)

\* on_settled ran for this request, and may have shipped something.
Fulfilled(r) == answer[r] \in {"completed", "unrecorded"}

\* An order is recorded for a payment that this very request had settled, at
\* the price this leg computed, although legs overlap, carry the same
\* credential and may price the order differently; only an order carved out at
\* $0 needs none (_handle_x402, 2199-2295; _handle_mppx, 2297-2338).
FulfilmentIsPaidFor ==
  \A r \in Requests :
    Fulfilled(r) => \/ CarvedOut(r)
                    \/ charged_by[cred[r]] = r /\ captured[cred[r]].price = price[r]

\* Every address the merchant may be paid at in this configuration.
Own(a) == IF setup.to.mint = "none" THEN a = Static ELSE a \in Minted

\* Money goes to an address of the merchant's, on either rail and whichever of
\* the three sources the address is bound to: the address cache, the recipient
\* minted for this leg, the one in the rails (_async_is_cached_address, 2131).
\* Where there is none of them, on x402, it goes where the buyer says (2155).
MoneyToMerchant ==
  \A c \in Creds : captured[c] # None => Own(captured[c].payTo) \/ (Unbound /\ c \notin MppCreds)

\* Of the answers after which a buyer may pay again one alone can come from a leg
\* that has charged him: settle_payment raised after the transfer, and the 503
\* asks him to retry (x402_settle.py:154-167).  On the other rail he is told not
\* to pay again wherever the money may have moved (mppx_failures.py:57-97).
RefusedWithoutCharge ==
  \A r \in Requests :
    answer[r] \in Refusals /\ (\E c \in Creds : charged_by[c] = r) => answer[r] = "settle_failed"

\* The address of a 402 is refused when it comes back signed in two cases, and
\* in no other, although the settle leg resolves its recipients anew: a hook that
\* mints a fresh address on every leg, without is_cached_address to remember the
\* last; and a cache that has dropped the address (2131-2159, 2206).
OfferedAddressAccepted ==
  \A r \in Requests, o \in offers :
    answer[r] = "misdirected" /\ o.payTo = signed[cred[r]].payTo =>
      \/ setup.to.mint = "fresh" /\ ~setup.to.cache
      \/ setup.to.cache /\ o.payTo \in lapsed

\* Where a wallet on the SDN list can pay at all: where there is no key to ask
\* with, or run_gate asks nobody; where the policy has neither an enforcement
\* nor the key of a field, so that no gate is built ({}, or an enforcement of
\* None alone; a product for which the hook returns None is screened); where
\* the payer is not in the gate's question; and where the answer holds no
\* decision, or soft enforcement does without one.  A sanctions denial is never
\* swallowed (_run_gate, 1646-1752; policy.py:98-115, 178-202).
ScreenedUnlessLeftOut ==
  \A c \in Sanctioned \ Signerless :
    captured[c] # None =>
      LET r == charged_by[c]
      IN  \/ gated[r].status \in {"unkeyed", "allowed", "anonymous"}
          \/ gated[r].status \in {"verified", "unverified"} /\ (~gated[r].decided \/ ~SignerPassed(r))

\* Where a policy asks for compliance and nobody said that it may be done
\* without, an order is recorded, free ones included, only for an identity that
\* was assessed, whether the policy is static, the product's or both
\* (the default enforcement of 1715-1727; policy.py:118-202).
HardGateIdentifies ==
  \A r \in Requests :
    Fulfilled(r) /\ (gated[r].policy.enforcement = "hard"
                     \/ (gated[r].policy.names /\ gated[r].policy.enforcement = "unset")) =>
      gated[r].status = "verified" /\ ident[r] # "none"

\* Where another operator's wallet pays in a request whose claimed wallet the code
\* calls verified: on the MPP rail, where nobody looks for a signer; with a token
\* beside the wallet, which speaks for the buyer; and on an answer without a
\* decision, which has no verdict on the signer either.  Nowhere else, although
\* the claim is judged and the money moved by different awaits of overlapping
\* legs (_run_gate, 1774-1797; _enforce_signer_match, 1814-1872).
PayerIsClaimant ==
  \A c \in Strangers :
    captured[c] # None =>
      LET r == charged_by[c]
      IN  gated[r].status = "verified" /\ ident[r] \in {"wallet", "both"} =>
            c \in MppCreds \/ ident[r] = "both" \/ ~gated[r].decided

-----------------------------------------------------------------------------
(* Refinement: a request is an order; who charged a credential, and on which *)
(* terms, is what it paid for.                                              *)

Became(a) ==
  CASE a = None -> "open"
    [] a \in {"completed", "unrecorded"} -> "fulfilled"
    [] a = "settle_failed" -> "asked_again"
    [] a \in Refusals \ {"settle_failed"} -> "refused"
    [] OTHER -> "uncertain"

OrderState == [r \in Requests |-> Became(answer[r])]
Named == {o.price : o \in offers}
Shown == {o.payTo : o \in offers} \ {None}
Charges ==
  {[cred |-> c, order |-> charged_by[c], price |-> captured[c].price, payTo |-> captured[c].payTo] :
     c \in {d \in Creds : captured[d] # None}}

Promise == INSTANCE PaidOrders
             WITH Orders <- Requests, Addresses <- PayTos \ {Foreign}, Elsewhere <- {Foreign},
                  waives <- setup.zero, bound <- ~Unbound, bill <- price, named <- Named, shown <- Shown, paid <- Charges, state <- OrderState

\* Every behaviour of the checkout is one of PaidOrders: however legs overlap and
\* whatever fails, each request is billed once and charged at most once, at a price
\* that a 402 has named and, where the merchant has a recipient at all, to an
\* address that one has shown; what was charged a step ago is still fulfilled; and
\* who may or may not have been charged is asked to pay again, or told not to, but
\* not that he was refused (Checkout.handle, 994-1171, and what it calls).
ImplementsPaidOrders == Promise!POSpec
=============================================================================

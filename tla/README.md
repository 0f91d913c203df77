# agentscore-commerce in TLA+

This directory models `agentscore_commerce` (the Python SDK with which a merchant
sells to paying agents): TLA+ modules, the TLC configurations that check them on
small instances, and TLAPS proofs about them. Everything is translated from the
source; `PROJECT.json` maps each definition to the lines it stands for, and lists
the hazards that the properties are about.

## 1. The system

| part (source) | state it keeps | operations | what is hard | modules |
|---|---|---|---|---|
| Compute-first checkout (`checkout_compute_first.py`) | one quote cache; per request a coroutine with its own copy of a quote | probe leg (read, work, mint, write, 402), settle leg (read, screen, verify, settle or compose, 200) | requests interleave at every await; facilitator and hooks fail; quotes lapse; the process restarts | `ComputeFirst`, `PaidDelivery` |
| x402 verify and settle (`payment/x402_settle.py`, `x402_validation.py`) | none | verify, settle, classify | a settle that raises after the transfer, or refuses in what it returns | steps of `ComputeFirst`, `Checkout`, `Exchange` |
| Result and quote cache (`quote_cache.py`, `_redis.py`) | a dict, or Redis with the dict behind it; a memoised client | read, write, evict | lapse, sweep, restart; first use by many threads | `ComputeFirst` (dict), `LazyOnce` (client) |
| Checkout orchestrator (`checkout.py`, `checkout_hooks.py`) | nothing but the merchant's address cache outlives a request | `handle`: probe, pre-check, gate, screen, pricing, recipients, zero carve-out, x402, mppx, 402 | prices and recipients are computed anew on each leg; a dozen ways out; five places read one header | `Checkout`, `PaidOrders`, `CheckoutGate`, `Exchange` |
| Payment rails (`payment/*`) | lazily built servers | detect, dispatch, compose, classify failures | concurrent first use; what one parser lets pass another cannot read | `Exchange`, `LazyOnce`, `Checkout` |
| Stripe multichain deposits (`stripe_multichain/*`) | addresses, payment intents, network maps, each with a time to live; flights of requests to Stripe | mint, cache, look up, sweep | several processes, Redis outages, awaits between two writes, threads | `PiCache`, `PayToAddress`, `PaymentIntentFlights` |
| Rate limiter (`middleware/*`) | counters per key and window, in Redis or a dict | `check`, in six mounts | increment and expiry are two commands; fallback; cancellation; who shares a bucket | `RateLimiter`, `RateLimitMount` |
| Identity core (`identity/core.py`, `cache.py`) | assess answers with a time to live; one slot for the last signer verdict | `check`, `acheck`, verdicts, `capture_wallet` | overlapping misses; what the cache key leaves out; a shared slot | `AssessCache`, `Gate` |
| Identity gate (`identity/policy.py`, `sessions.py`, six adapters) | none | gate, sessions, enforcement modes | fail-open paths, hooks inside a try block, soft enforcement | `Gate`, `CheckoutGate` |
| Denial bodies (`identity/_denial.py`, `_response.py`) | none | code, reasons, session | what soft enforcement reads of them | `CheckoutGate`, `Gate` |
| Challenge bodies (`challenge/*`) | none | which rails, challenges and commands a 402 lists | offers that cannot be paid | `Exchange` |
| UCP profiles (`identity/ucp*.py`, `discovery/well_known.py`) | the signing key, per process | load, sign, serve, verify | rotation under a verifier's cached copies; two keys of one name | `UcpProfile`, `LazyOnce` |
| Other discovery documents, A2A card, API client | none | builders, re-exports | nothing that changes state | not modelled |

Calls go from an adapter (FastAPI, Flask, Django, aiohttp, Sanic) to `Checkout.handle`
or `ComputeFirstCheckout.handle`, from there to the gate, the caches, the facilitator
(`x402_server`), the mppx hooks and the merchant's hooks. The caches are shared by the
coroutines (under Flask and Django, the threads) of a process, Redis by the processes
of a deployment; the chain is shared by all.

## 2. Modules

An action is the code between two awaits (or, for threads, between two uses of a
lock). `pc` says where a request is suspended; the other per-request variables are
the locals it keeps across the await, so a value read before and used after is
stale in the model exactly when it is in the code. The facilitator, the chain, the
assess API, Redis, Stripe and the merchant's hooks answer in any way the code
distinguishes; each such answer is a disjunct. Definitions called `...Unseen`,
`...Loose` and the like, under a comment "Slip", are not part of any
specification: each is the form a definition would have with one plausible
mistake, and `PROJECT.json` says which property notices.

How modules build on each other: `ComputeFirst` instantiates `PaidDelivery`, and `Checkout` `PaidOrders`; `RateLimitMount`
extends `RateLimiter`, `PayToAddress` extends `PiCache`, `Gate` extends `AssessCache`, `Checkout`
extends `CheckoutGate`, `UcpProfile` extends `LazyOnce`. `MC...` modules hold the values of
constants for TLC, `..._proofs` modules the theorems about the module of that name:
`RateLimiter_proofs` has those about `RateLimitMount` too, and `UcpProfile_proofs` those about
`LazyOnce`.

**PaidDelivery** (no code of its own): offers are made, a credential is captured at most
once and on the terms of an offer, and buys at most one delivery, of what it paid for.

**ComputeFirst** (`checkout_compute_first.py`, with `quote_cache.py` in process and
`x402_settle.py`).
`mem_state`, `clock` are the quote cache; `pc`, `body`, `cred`, `local`, `answer` are a
request's; `signed`, `captured` are wallets and chain; `offers`, `quoted`, `mints`
record what was said, for the properties.
`ProbeRead`, `WorkYields`, `Mint`, `WriteQuote`, `Emit402` are the probe leg;
`SettleRead`, `ScreenClears`, `VerifyPasses`, `SettleReturns`, `ComposeCharges`, `Respond`
and their failing twins the settle leg; `Crash` is a restart. Abstractions: a body is
its own hash; the x402 rail is configured and has a recipient, so that `BindPayTo` leaves out the branch
that accepts any address where none is resolved (`checkout_compute_first.py:551-553`; `Checkout` has
its like); `accepted.payTo` and the signed
authorization's recipient are one value; the chain and the facilitator take a spent
credential for an error; prices are counted in tenths of a cent and truncated as
`int(...)` does.

**PaidOrders** (no code of its own): what a checkout that prices before the work promises. An order
is billed once; an offer names its bill and an address, and ends it; a credential is charged at most once,
for one order, on a bill whose price and to an address that offers have named (anywhere, where the
merchant binds payments to no address); an order is fulfilled only if charged (or waived at $0), and
refused only if not. A charge without a reply ends the order in that very step: the buyer is left in
doubt and told not to pay again (`uncertain`), or asked to pay again although he may have
(`asked_again`). It does not say that the offer which named the price is the one that named the address: the
code computes both anew on the settle leg, and does not tie them together either.

**Checkout** (`checkout.py`, `x402_settle.py`, `mppx_failures.py`). `setup` is how the merchant
built the checkout: gate, where recipients come from (`to`: the hook that mints them, one for the
order or a fresh one per leg; `is_cached_address`; the address written in the rail), carve-out, MPP
hook, and the prices its hook can return. `known` is the merchant's address cache, and `Lapse` its TTL. `Dismiss`, `Discover`, `AskForSession`, `Pay` are the ways a request may
arrive; `RunGate` is one run of the gate; `Price`, `Mint` are the hooks, on every leg;
`Misdirected` to `SettleRaises` are `_handle_x402`, `Compose...` `_handle_mppx`, `SkipSettle`
`_handle_zero_settle`; `Respond` and `Challenge` answer. Abstractions: a request carries at
most one payment credential, and a well-formed one (`Exchange` is about the rest); the gate
is one step, since it is built for the request and nothing it awaits is shared; pympp accepts
only challenges of its own server; of the failures of pympp after a broadcast the timeout of the
confirmation is the one that exists, in the wording that `classify_mppx_failure` knows (another wording
would be a plain refusal, after a charge); a settle refused by value, which `SettleReturns` leaves
out, is a matter of `ComputeFirst`, which shares that code.

**CheckoutGate** (`_run_gate`, `identity/policy.py`, `identity/fastapi.py`, `_response.py`), operators
over one request: the merging of policies and the default enforcement, whether a gate is
built, what it denies for which reply of the API, in which body, what soft enforcement
swallows, and the match of the signer. `Checkout` draws the reply and applies them.

**Exchange** (adapters of `checkout.py`, `payment/payment_header.py`, `signer.py`, `zero_settle.py`,
`mppx_server.py`, `checkout_hooks.py`, `challenge/*`): one agent with any pair of headers, in any
spelling, against one of many checkouts; each place that reads a header is an operator with
the reading of that place, an action is a stage of `handle`. A charge may be followed by a failure of
the settle call, of pympp's confirmation or of `on_settled` (`BuildSuccess`). The order of the merchant's
dict of rails is `setup.first`, the one of them that a derived server is made of; a Tempo session is
no rail of its own here, since it raises where Solana's does. `offered` is what the agent keeps
of the last 402, and `follows` the rail of it that he pays by.

**AssessCache** (`identity/core.py`, `cache.py`): the cache in front of `/v1/assess`, its key, lifetime
and eviction, answers that come back in any order, the shared slot of the last signer.
**Gate** (six adapters, `sessions.py`): which requests a gate looks at, what it makes of a ruling or
a failure, sessions, `on_denied` within and without the try block, `capture_wallet`. The adapters
are copies of one another but for `...Catches`, `setup.conditional` and the order of their hooks.

**RateLimiter** (`middleware/_core.py`): `redis` and `mem_state` hold the buckets; `Incr`,
`Expire` are the two commands, each of which may raise, applied or not; `Fallback`
counts in the dict; `Cancel` is a client that hangs up in between. **RateLimitMount** (the six
mounts): the choice of the bucket, what goes past the limiter, who can be cut off, the answer.

**PiCache, PayToAddress** (`stripe_multichain/pi_cache.py`, `pay_to_address.py`): three dicts per
instance and Redis; `MintBegin`, `MintSet`, `MintStore` are `_mint_and_cache` around the
await of `cache_address` (`MintInProcess` where nothing suspends), `SettleBegin`, `SettleGet`,
`SettleResolve` the reuse of a credential's address, `Sweep` the eviction task, `Restart` a new process.
The variable `deployment` is how the instances are set up, chosen once.

**PaymentIntentFlights** (`stripe_multichain/payment_intent.py`): `in_flight` is the dict
under its lock, each call is a thread, `Lookup` the critical section, `Create`, `Pop`,
`Wake` the leader, `Woken` and `Return` the followers.

**LazyOnce** (`payment/lazy.py`, `_redis.py`, `load_ucp_signing_key_from_env`): three kinds of
getter: an `asyncio.Lock`, a `threading.Lock`, a flag. The first is modelled from CPython
3.11: it binds itself to the loop of the first call that has to wait, and to wake a waiter on
another loop leaves a callback there that nothing makes that loop look at.

**UcpProfile** (`identity/ucp.py`, `ucp_jwks.py`, `discovery/well_known.py`, the mounts of `checkout.py`):
lives of a process, each with an environment and so a key; the two signed documents; a
verifier that keeps them for `max-age` and calls `verify_ucp_profile`, whose checks are
`HeaderFault`, `KeyFault` and `Verify`, in the code's order. `raises` is what joserfc throws at a key it cannot
import or of another kind than the header's alg (`ucp_jwks.py:475`, `501`): no `UCPVerificationError`,
although the docstring (356) promises one on every failure mode. A body is the parts of a profile
that signing tells apart; a signature is who signed what under which header.

## 3. Runs

Each run takes between a second and some three minutes on two workers.

| run | question | bounds, and why they are enough |
|---|---|---|
| `cf_safety` | capture, delivery and quotes under every overlap | three requests: two that overlap and one whose quote they share or overwrite; three credentials, one per kind; one body, since bodies share only the sweep; a quote lives one tick and the clock makes two, so each quote can lapse once and be replaced; one restart |
| `cf_promise` | `PaidDelivery` is implemented, and every request ends | no symmetry (liveness); three requests on both rails; prices 1 and 3 cents from half-cent units, so truncation shows |
| `cf_falsy_settle` | a statement of a test that the code does not keep | the smallest instance with the counterexample |
| `flights` | threads on one idempotency key | a leader, a follower, and a late call that begins when the flight is over; a second key |
| `limiter` | admission, refusal and the end of buckets | budget 1 and window 1 with three requests: one counted, one refused, one in the next window or on the other counter; one instance with Redis and one without; six mounts; clients with a hop, without one, and with a blank one |
| `payto` | which credentials are honoured and refused | one mint, two settles; a minted and a static network; two instances; one restart; time to lapse |
| `checkout` | charges, addresses, identities and answers of overlapping legs | three requests: the discovery and two legs with its credential or another's; one credential per rail; eight setups that meet every gate, rail, and way in which an address is minted, remembered, written or left blank; policies static, soft, waived, empty and absent; every reply of the API; two prices in six of them, zero where it is carved out. Some 920,000 states. Every step of it is one of `PaidOrders` |
| `gate` | who reaches the handler, on which ruling | one instance loaded with three requests of one wallet, two signers and a token, which meet in the cache at its limit; and one request (two on Sanic) through every adapter, mode, ruling and failure, since requests meet in the cache only |
| `exchange` | what one exchange charges, screens, offers and answers | one agent, since nothing of an exchange is shared; all pairs of 6 x402 and 17 Authorization values, two bodies, two spellings; sixteen checkouts that are one choice away from the usual one (each MPP rail beside another, and each that a server can be made of first among them), and the pairs of choices that meet in the code. Some 540,000 states |
| `exchange_frames` | can what a 402 offers be paid in each framework? No | the usual checkout on five frameworks |
| `ucp` | one key, served and verified across a rotation; one instance of everything | three first callers in order of arrival; two lives with four environments; five deployments; ages 1 and 2, so a profile can be replaced under a key set |
| `lazy_threads` | is a getter safe from any handler? Not under Flask | three callers of one getter: the builder, the waiter that binds the lock, and the one refused |

Deadlock is not checked where requests are finite: all of them end, and so does the system;
`exchange` repeats for ever, and is checked. Symmetry is used for interchangeable requests
in safety runs only.

What the violating runs show, each with the line it contradicts in `PROJECT.json`:

- `FalsySettleIsRefused`: a settle refused by value is taken for a success.
- `OfferIsHonoured`: where a framework gives header names in title case, the derived compose hook
  (and the zero carve-out) look up `authorization` in vain, and the rail a 402 offers cannot be paid.
- `SafeFromAnyHandler`: a getter's `asyncio.Lock` is bound to the loop of one request, so that of
  overlapping first requests under Flask or Django one waits for ever and others are refused.

Properties with exceptions state them: `ScreenedUnlessLeftOut` is the complete list of ways in
which a wallet on the SDN list can come to pay, `HonouredUnlessLeftOut` of those in which an offer cannot
be paid, `PassesOnARuling` of those in which a request passes a gate without an allow.

### Fairness

- `cf_promise`: weak fairness of each suspended request. The event loop resumes what is
  ready, every await in the handlers has an outcome (HTTP clients have timeouts), and no
  request waits for another.
- `flights`: weak fairness of each thread, which is the scheduler's. That a follower returns
  then depends on the leader's `finally`, and that is what the property is about.
- `exchange`: weak fairness of the stages of `handle`; the agent need not send anything.
- `ucp`: weak fairness of "some call that can go on does": one loop, or the scheduler.
  Restarts and arrivals are not fair. A construction that is cancelled must not block others,
  and that is what `EveryCallerAnswered` is about.
- `lazy_threads`: weak fairness of each call, each on a thread of its own. The stronger assumption, since the
  property is refuted.

No arrival, clock tick, restart, buyer, cancellation or failure is assumed fair.

## 4. Proofs

TLC checks each property on the instance of its run; the theorems state it for every value
of the constants that satisfies the `ASSUME`s of the module (bounds such as `MaxClock`
included, so for bounds of any size). None of the properties below is inductive: each proof
is of a stronger invariant, of which `Init => Inv`, `Inv /\ [Next]_vars => Inv'` (one lemma per
action or group of actions) and `Inv => Property` are proved.

| module | theorems | the invariant, and why it is needed |
|---|---|---|
| `ComputeFirst_proofs` | `TypeCorrect`, `PaidBeforeDelivery`, `NoDoubleDelivery`, `OnlyQuotedTerms` | `CFInv`: types; where a request stands tells what it holds (`RequestInv`); what the cache holds was quoted; what was captured was on quoted terms; no two requests have paid with one credential |
| | `AddressKeepsPrice`, `SanctionedDoNotPay`, `StaleHasLapsed` | `QuoteInv`: `CFInv` and three parts. `PriceInv`: a quote that names a minted address, said or about to be written, has the price it was minted for; `ScreenInv`: behind the screen no header names a listed wallet, and none has paid; `LapseInv`: what was offered has lapsed, was lost in a restart, or the cache holds a quote for its body that is good for as long |
| | `Implementation` | `RefinementInv` (a coroutine that may yet write its quote has priced it by its count), under which each step of `ComputeFirst` is a step of `PaidDelivery` or leaves its variables alone (`Simulation`) |
| `Checkout_proofs` | `PaidFor`, `PaysMerchant`, `RefusalsAreFree`, `OffersAreAccepted`, `SanctionedAreScreened`, `HardGatesIdentify`, `PayersAreClaimants` | `CheckoutInv`: `LegStage` (what a leg holds at each stage), `LegGated` (the verdict it keeps is one its gate may give, for its own identity), `LegBound` (the recipient it was bound to comes from a source of the merchant's), `LegPaid` (whoever is past the money has paid, and with what), `Money` (who charged a credential, where it went, and with which answers he may be left), `Offering` (what was offered was the merchant's, and is still in his cache or has lapsed) |
| | `OrdersImplemented` | `OrdersInv`: `CheckoutInv` and `Billed` (nothing is priced before its pricing, and what is signed names a price that some 402 has named), under which each step of `Checkout` is a step of `PaidOrders` or leaves its variables alone (`OrdersSimulation`). That a charge goes to an address that was shown is the hard part: it needs `LegBound`, since the recipient of the leg is resolved anew |
| `Exchange_proofs` | `TypeCorrect`, `PaidAndServed`, `ChargedAreScreened`, `JunkStopsHere`, `PayersAreAttributed`, `OffersAreHonoured` | `ExchangeInv`: the type says that `handle` sees what was sent, or that without its payment headers; `Underway` (nothing has come of a leg that is not answered), `Screening` (behind the screen, the wallet that was screened is the one that can be read), `Shaped` (behind the shape check, no junk is left on a channel that is settled), `Following` (a request that follows an offer has one credential, for the offered rail, which nothing strips) |
| | `StagesAdvance`, `WorkIsBounded` | The same type. `WorkLeft` counts the stages up to the answer, and two more while there is a payment header: stripping takes more off than entering `handle` again puts on |
| `Gate_proofs` | `PassesAreRuled`, `VerdictsAreOwn`, `AssociationsAreRuled`, `RulingsAreRecent` | `GateInv`: `CacheInv` (an entry answers a question of the key it is kept under), `Informed` (so does what a request went by, and it is recent), `Stage`, `Ended`. `VerdictsAreOwn` needs that the key tells identity and signer (`SameKey`), for which tokens and wallets must be told apart |
| `PaymentIntentFlights_proofs` | `NoCollision`, `SharedOutcome`, `FreshOutcome`, `NoLostWakeup` | `FlightInv`: a flight in the table has one leader, who is about to create or to pop it; who waits on a flight waits on one that has a leader or an outcome |
| `PayToAddress_proofs` | `TypeCorrect`, `SignedIsReused`, `HonoursOwnFresh`, `RefusesOnlyLapsed`, `IntentsAreKnownHere` | `PayToInv`: `KeptInv` (what was kept is found where it was put, until it has lapsed), `HeldInv` (what is found was put there), `SiblingInv` (an address has its own intent, and in process that intent's map for as long), `LegInv` with `Heard` (what Redis said is read at one time and used at another) |
| `RateLimiter_proofs` | `TypeCorrect`, `BucketsEnd`, `AdmissionIsBounded` | `BookInv`, an account of every counter: there is a tick at which its bucket was opened, since which it admitted no more than the bucket counts, and no more than the limit; of what it admitted before, a span that reaches up to that tick holds no more than the limit either (`Ledger`). Hence two limits in any span as long as the window |
| | `MountedAdmissionIsBounded`, `RefusalsAreOwn`, `MountedBucketsEnd` | `MountInv`: the books again, under the six mounts, with the client behind each key (`ClientInv`) and `Full`: what a bucket in process counted, up to its limit, it admitted since it was opened |
| `UcpProfile_proofs` | `OneOfEach`, `OneOfEachPerLife`, `LocksAreHeld` | `LazyInv`, of the getters alone and under the lives of a process: `LockInv` (a taken lock has one holder; nobody is woken while it is taken, and somebody is as soon as it is free and waited for), `FlagInv` (one call seeks the Redis client, before anybody on its loop has an answer) |
| | `VerifiedAsSigned`, `RotationsHeal` | `VerifyMeans`, a lemma on the operators: `Verify` says ok exactly of a body vouched for by the one key of that name. `UcpInv`: `KeyInv` (the key that is kept is in force), and for each copy of a verifier's that it was made with the key in force or is at least as old as that key (`CopyInv`), whence the life of a key set is enough |

Assumptions the proofs rest on, besides the shape of the constants: `None` is none of the values it
stands in for (a price, a rail, a wallet, an answer); the requests of the limiter are finitely many, and
`Redis` and `Shared` are not names of instances; a header value that is no credential names no payer,
and a derived compose hook has an MPP rail to be derived from, which is the first (`checkout.py:804-822`); an
`is_cached_address` comes with a hook that mints; a
key set is a finite list; calls are not called as the failures of a getter are; the theorems about
`ComputeFirst` hold where the facilitator raises what it refuses (`~ReturnsRefusal`). That a refusal may also
be returned, and is then taken for a success, is what `cf_falsy_settle` shows.

Only model-checked: the four liveness properties, since fairness is out of the prover's reach. For three
of them the safety that they rest on is proved, for every value of the constants: `NoLostWakeup` for
`EveryCallReturns`, `LocksAreHeld` for `EveryCallerAnswered`, `StagesAdvance` and `WorkIsBounded` for
`EveryLegAnswered`. `EveryRequestAnswered` has none: no request of `ComputeFirst` waits for another. Every
other property that a passing run checks is stated by a theorem.

## 5. Not modelled

- Builders of documents that keep no state and about which no property is stated: OpenAPI,
  skill, llms.txt, robots, the A2A card, the layout of a 402 and the wording of a denial.
- The API client and the simulated deposits of Stripe's test mode: a call and its result.
- Arithmetic on token amounts, the text of idempotency keys, the fields of x402 requirements:
  conversions a unit test settles. (The truncation of a quote's price is modelled.)
- The quote cache on Redis in compute-first: `ComputeFirst` has the dict. A quote that goes to one
  store and is looked for in the other is answered as lapsed, which the buyer sees for a restart too.
- The adapters of compute-first, which wrap `handle` and share `Exchange`'s reading of headers.
- Several workers with an ephemeral UCP key each: every one signs with a key of its own, and
  which one serves the key set is the balancer's choice. Hence no property: it is not meant to work.
- A key id in a UCP profile that is not a string.

## 6. Facts met while modelling

Observations on the source beside the findings of the violating runs: some are cases the properties
above name as exceptions, some lie in what the models abstract. (Paths are under
`src/agentscore_commerce/`.)

- `create_mppx_server` takes the rail that comes first in the merchant's dict (`payment/mppx_server.py:127-138`), so a
  checkout with several MPP rails composes challenges for one, and for none where Solana's is first.
- Where no recipient is minted for x402, no `is_cached_address` is given and the rail is blank, the check of
  `payTo` accepts any address (`checkout.py:2155-2159`), as the comment there means it to, though the one at the
  head of the function says that an address of the agent's choice must not be accepted (2132-2135).
  `MoneyToMerchant` and `ImplementsPaidOrders` name the case (`Unbound`).
- A hook that mints a fresh address on every leg, without `is_cached_address`, refuses the address that its
  own 402 offered (`checkout.py:2152-2154`), although the comment on the settle leg (2203-2206) takes one that
  "mints a fresh recipient per order" to be served: an exception of `OfferedAddressAccepted`.
- A `settle_payment` that raises may have moved the money; the buyer is then asked to retry in a few
  seconds or to pay by another rail (`payment/x402_settle.py:154-167`), which charges him again. On the MPP rail
  he is told not to (`payment/mppx_failures.py:57-97`). `RefusedWithoutCharge` and `PaidIffServed`
  show that this is the only such answer, besides the charge behind a fresh 402 in `Exchange`.
- An answer of assess without a decision is an allow (`identity/core.py:267`), and so `verified`: a wallet on the
  SDN list and the payer of another operator's wallet get through on it (`ScreenedUnlessLeftOut`, `PayerIsClaimant`).
- The payer of an x402 header is screened whatever network that header is for (`payment/signer.py:75-93`), in the
  place of the MPP wallet beside it that is charged: an exception of `ChargedWasScreened`.
- The discovery probe looks for a payment in `Authorization` alone (`checkout.py:1019`), though its
  documentation says any payment header (`checkout.py:196`).
- The command in a 402 shows the body as Python prints a dict in the orchestrator
  (`checkout.py:2463`), and as JSON in compute-first (`checkout_compute_first.py:369`).
- Soft enforcement swallows every denial that does not speak of sanctions, that for an outage
  included (`identity/policy.py:194`).
- A product policy that names neither enforcement nor any of the checks builds no gate, and the wallet
  screen is then skipped too (`checkout.py:1662-1669`, `1713`; `identity/policy.py:137-138`): one of the exceptions
  of `ScreenedUnlessLeftOut`.
- `fail_open`, `cache_seconds` and `chain` of `CheckoutGateConfig` are not handed to the gate that is built.
- `create_default_on_denied` returns a function of a reason; `Checkout` calls `on_denied(ctx, body)`.
- Flask and Sanic call `on_denied` inside the try block whose handler forgives outages
  (`identity/flask.py:235-313`): `DenialLost` in `Gate`.
- The slot of the last signer is not written on a hit of the cache (`identity/core.py:323`); the
  adapters do not read it, and `VerdictIsOwn` holds of what they read.
- `ctx.capture_wallet` is set whenever a token came along, verified or swallowed (`checkout.py:1800-1801`).
- A UCP signing key made up at the start differs per process, and the mounted key set serves only
  the current one, so a rotation that keeps the old key for a while needs a route of the merchant's.
- Mounts of the limiter other than ASGI put every client without `X-Forwarded-For` into one
  bucket: `RefusalIsOwn` states whom such a client may be refused for.
- An x402 credential without an EIP-3009 `authorization.from` has no payer for the screen, which then takes
  the wallet the other header names, or nobody (`payment/signer.py:52-93`): an exception of `ChargedWasScreened`.
- An `asyncio.Lock` is modelled from CPython 3.11; earlier versions bind it when it is made.

---------------------------- MODULE ComputeFirst ----------------------------
(***************************************************************************)
(* The compute-first checkout (checkout_compute_first.py): a request that   *)
(* carries no payment header is a PROBE, which runs the work, mints the     *)
(* recipients of the money, caches the quote under the hash of the request  *)
(* body and answers 402; a request that carries a payment header is a       *)
(* SETTLE leg, which looks the quote up again, screens the payer, has the   *)
(* payment verified and settled and answers with the cached body.           *)
(*                                                                          *)
(* Every request is a coroutine (or a thread) of one process: it gives up   *)
(* control wherever the code awaits, and one action below is the code       *)
(* between two awaits.  The cache is the default one, a dict of the process *)
(* (quote_cache.py without redis_url).                                      *)
(* The chain, the facilitator, the assess API and the merchant's hooks are  *)
(* the environment: they answer in any way the code distinguishes.          *)
(***************************************************************************)
EXTENDS Integers, FiniteSets

CONSTANTS
  Requests,        \* the HTTP requests the process will see
  Bodies,          \* request bodies; a body is its own cache key
  Creds,           \* payment credentials the buyers can sign
  Sanctioned,      \* credentials whose signing wallet is on the SDN list
  MppCreds,        \* credentials sent as Authorization: Payment; the rest are x402
  Signerless,      \* MPP credentials that name no wallet (Stripe SPT)
  Counts,          \* result counts that run_work can return
  UnitMills,       \* unit_price_cents, in tenths of a cent
  TTL,             \* lifetime of a quote, in ticks of the clock
  MaxClock,        \* bound of the model: the clock stops here
  MaxCrashes,      \* bound of the model: restarts of the process
  ScreenOn,        \* AGENTSCORE_API_KEY is set
  MppHook,         \* the compose_mppx hook is set
  MintFresh,       \* the mint_recipients hook is set: an address per probe
  ReturnsRefusal,  \* the facilitator may report a refused settle by value
  Static,          \* the configured recipient of the x402 rail
  Foreign,         \* an address that is not the merchant's
  None

ASSUME CFAssumption ==
  /\ Sanctioned \subseteq Creds
  /\ MppCreds \subseteq Creds /\ Signerless \subseteq MppCreds
  /\ Counts \subseteq Nat
  /\ UnitMills \in Nat /\ TTL \in Nat /\ MaxClock \in Nat /\ MaxCrashes \in Nat
  /\ {ScreenOn, MppHook, MintFresh, ReturnsRefusal} \subseteq BOOLEAN
  /\ Static \notin Requests /\ Foreign \notin Requests \cup {Static}
  /\ None \notin Requests \cup {Static, Foreign}

VARIABLES
  clock,           \* time.monotonic()
  crashes,         \* restarts so far
  mem_state,       \* the quote cache: body -> entry or None
  pc,              \* request -> where its coroutine is suspended
  body,            \* request -> its body
  cred,            \* request -> the credential in its payment header, or None
  local,           \* request -> the coroutine's own copy of a quote, or None
  answer,          \* request -> the outcome it was answered with, or None
  signed,          \* credential -> the [price, payTo] it was signed for, or None
  captured,        \* credential -> the [price, payTo] moved on chain, or None
  offers,          \* the 402s sent: [body, quote]
  quoted,          \* history: every quote ever written to the cache
  mints            \* history: request -> the price its addresses were minted for

requestVars == <<pc, body, cred, local, answer>>
moneyVars == <<signed, captured>>
historyVars == <<offers, quoted, mints>>
vars == <<clock, crashes, mem_state, pc, body, cred, local, answer,
          signed, captured, offers, quoted, mints>>

-----------------------------------------------------------------------------
\* A freshly minted address is named by the request that minted it.
PayTos == Requests \cup {Static, Foreign}

\* int(self.unit_price_cents * outcome.result_count)
PriceCents(n) == (UnitMills * n) \div 10
Prices == {PriceCents(n) : n \in Counts}

\* What a quote says, and a quote with the time at which it lapses.
Quotes == [count : Counts, price : Prices, payTo : PayTos]
CachedQuote == [count : Counts, price : Prices, payTo : PayTos, expires : Nat]
DraftQuote == [count : Counts, price : Prices, payTo : PayTos \cup {None}, expires : Nat]
Quote(e) == [count |-> e.count, price |-> e.price, payTo |-> e.payTo]
Terms(q) == [price |-> q.price, payTo |-> q.payTo]

Suspended == {"work", "mint", "write", "emit",
              "screen", "verify", "settle", "compose", "settled"}
Answers == {"402", "no_charge", "invalid", "stale_quote", "denied", "rejected",
            "settle_failed", "unavailable", "error", "dropped", "completed"}

\* A null is told from whatever it stands in for.
ASSUME NullAssumption == None \notin Answers \cup Creds \cup [price : Prices, payTo : PayTos]
ASSUME QuoteAssumption == None \notin CachedQuote

TypeOK ==
  /\ clock \in Nat
  /\ crashes \in Nat
  /\ mem_state \in [Bodies -> CachedQuote \cup {None}]
  /\ pc \in [Requests -> Suspended \cup {"idle", "done"}]
  /\ body \in [Requests -> Bodies \cup {None}]
  /\ cred \in [Requests -> Creds \cup {None}]
  /\ local \in [Requests -> DraftQuote \cup {None}]
  /\ answer \in [Requests -> Answers \cup {None}]
  /\ signed \in [Creds -> [price : Prices, payTo : PayTos] \cup {None}]
  /\ captured \in [Creds -> [price : Prices, payTo : PayTos] \cup {None}]
  /\ offers \subseteq [body : Bodies, quote : CachedQuote]
  /\ quoted \subseteq Quotes
  /\ mints \in [Requests -> Prices \cup {None}]

Init ==
  /\ clock = 0
  /\ crashes = 0
  /\ mem_state = [b \in Bodies |-> None]
  /\ pc = [r \in Requests |-> "idle"]
  /\ body = [r \in Requests |-> None]
  /\ cred = [r \in Requests |-> None]
  /\ local = [r \in Requests |-> None]
  /\ answer = [r \in Requests |-> None]
  /\ signed = [c \in Creds |-> None]
  /\ captured = [c \in Creds |-> None]
  /\ offers = {}
  /\ quoted = {}
  /\ mints = [r \in Requests |-> None]

-----------------------------------------------------------------------------
(* The cache and the coroutine. *)

Live(b) == mem_state[b] # None /\ mem_state[b].expires > clock

\* Slip: a read takes the quote out of the cache.
EvictAll == mem_state' = [b \in Bodies |-> None]

\* _evict_expired: every read of the cache first drops all the lapsed entries.
EvictExpired == mem_state' = [b \in Bodies |-> IF Live(b) THEN mem_state[b] ELSE None]

\* r stops awaiting at one point and is next suspended at another.
Go(r, from, to) == pc[r] = from /\ pc' = [pc EXCEPT ![r] = to]

Answer(r, a) ==
  /\ pc' = [pc EXCEPT ![r] = "done"]
  /\ answer' = [answer EXCEPT ![r] = a]

-----------------------------------------------------------------------------
(* The probe leg. *)

\* validate_input raises: the 4xx envelope, nothing else happens.
InvalidInput(r, b) ==
  /\ pc[r] = "idle"
  /\ body' = [body EXCEPT ![r] = b]
  /\ Answer(r, "invalid")
  /\ UNCHANGED <<clock, crashes, mem_state, cred, local, moneyVars, historyVars>>

\* Arrival without a payment header: look the body's quote up, and either
\* answer from it or go and do the work.
ProbeRead(r, b) ==
  /\ body' = [body EXCEPT ![r] = b]
  /\ EvictExpired
  /\ \/ Live(b) /\ Go(r, "idle", "emit") /\ local' = [local EXCEPT ![r] = mem_state[b]]
     \/ ~Live(b) /\ Go(r, "idle", "work") /\ UNCHANGED local
  /\ UNCHANGED <<clock, crashes, cred, answer, moneyVars, historyVars>>

\* run_work raises or finds nothing: answered without a charge.
WorkYieldsNothing(r) ==
  /\ pc[r] = "work"
  /\ Answer(r, "no_charge")
  /\ UNCHANGED <<clock, crashes, mem_state, body, cred, local, moneyVars, historyVars>>

\* It finds n results: the coroutine has a price, and nowhere to pay it yet.
WorkYields(r, n) ==
  /\ n > 0
  /\ Go(r, "work", "mint")
  /\ local' = [local EXCEPT ![r] = [count |-> n, price |-> PriceCents(n),
                                    payTo |-> None, expires |-> 0]]
  /\ UNCHANGED <<clock, crashes, mem_state, body, cred, answer, moneyVars, historyVars>>

\* _mint_and_resolve_recipients: the hook's address, or else the rail's own.
Mint(r) ==
  /\ Go(r, "mint", "write")
  /\ local' = [local EXCEPT ![r].payTo = IF MintFresh THEN r ELSE Static]
  /\ mints' = [mints EXCEPT ![r] = IF MintFresh THEN local[r].price ELSE None]
  /\ UNCHANGED <<clock, crashes, mem_state, body, cred, answer, moneyVars, offers, quoted>>

\* The hook raises and nothing catches it: the framework's 500.
MintFails(r) ==
  /\ MintFresh
  /\ pc[r] = "mint"
  /\ Answer(r, "error")
  /\ UNCHANGED <<clock, crashes, mem_state, body, cred, local, moneyVars, historyVars>>

\* Slip: a body that has a quote keeps its address when it is priced anew.
WriteQuoteKeepsPayTo(r) ==
  LET old == mem_state[body[r]]
      q == [local[r] EXCEPT !.expires = clock + TTL,
                            !.payTo = IF old = None THEN @ ELSE old.payTo]
  IN  /\ Go(r, "write", "emit")
      /\ mem_state' = [mem_state EXCEPT ![body[r]] = q]
      /\ local' = [local EXCEPT ![r] = q]
      /\ quoted' = quoted \cup {Quote(q)}
      /\ UNCHANGED <<clock, crashes, body, cred, answer, moneyVars, offers, mints>>

\* cache.write: whatever the cache holds for the body by now is replaced.
WriteQuote(r) ==
  LET q == [local[r] EXCEPT !.expires = clock + TTL]
  IN  /\ Go(r, "write", "emit")
      /\ mem_state' = [mem_state EXCEPT ![body[r]] = q]
      /\ local' = [local EXCEPT ![r] = q]
      /\ quoted' = quoted \cup {Quote(q)}
      /\ UNCHANGED <<clock, crashes, body, cred, answer, moneyVars, offers, mints>>

\* _emit_402: the buyer learns the price and where to pay it.
Emit402(r) ==
  /\ pc[r] = "emit"
  /\ Answer(r, "402")
  /\ offers' = offers \cup {[body |-> body[r], quote |-> local[r]]}
  /\ UNCHANGED <<clock, crashes, mem_state, body, cred, local, moneyVars, quoted, mints>>

-----------------------------------------------------------------------------
(* The settle leg. *)

\* Arrival with a payment header.  From here on the coroutine works with its
\* own copy of the quote, whatever becomes of the cache.
SettleRead(r, b, c) ==
  /\ pc[r] = "idle"
  /\ body' = [body EXCEPT ![r] = b]
  /\ cred' = [cred EXCEPT ![r] = c]
  /\ EvictExpired
  /\ \/ /\ Live(b)
        /\ Go(r, "idle", "screen")
        /\ local' = [local EXCEPT ![r] = mem_state[b]]
        /\ UNCHANGED answer
     \/ ~Live(b) /\ Answer(r, "stale_quote") /\ UNCHANGED local
  /\ UNCHANGED <<clock, crashes, moneyVars, historyVars>>

\* _enforce_wallet_sanctions screens nobody without an API key, and nothing
\* without a wallet; a header that does not decode names no wallet.
Screened(c) == ScreenOn /\ signed[c] # None /\ c \notin Signerless

\* Slip: the screen lets through what it could not decide, or did deny.
ScreenClearsAll(r) ==
  /\ Go(r, "screen", IF cred[r] \in MppCreds THEN "compose" ELSE "verify")
  /\ UNCHANGED <<clock, crashes, mem_state, body, cred, local, answer, moneyVars, historyVars>>

\* An explicit allow, or nobody to screen.
ScreenClears(r) ==
  /\ Go(r, "screen", IF cred[r] \in MppCreds THEN "compose" ELSE "verify")
  /\ Screened(cred[r]) => cred[r] \notin Sanctioned
  /\ UNCHANGED <<clock, crashes, mem_state, body, cred, local, answer, moneyVars, historyVars>>

\* A denial, an answer that cannot be read, or no answer: fail closed.
ScreenDenies(r) ==
  /\ pc[r] = "screen"
  /\ Screened(cred[r])
  /\ Answer(r, "denied")
  /\ UNCHANGED <<clock, crashes, mem_state, body, cred, local, moneyVars, historyVars>>

\* Slip: any address that was signed for will do.
BindAnyPayTo(r) == signed[cred[r]] # None

\* _bind_pay_to: the address signed for is the one this quote was given.
BindPayTo(r) == signed[cred[r]] # None /\ signed[cred[r]].payTo = local[r].payTo

\* Slip: a header that does not decode is not answered.
VerifyRejectsDecoded(r) ==
  /\ pc[r] = "verify"
  /\ signed[cred[r]] # None /\ ~BindPayTo(r)
  /\ Answer(r, "rejected")
  /\ UNCHANGED <<clock, crashes, mem_state, body, cred, local, moneyVars, historyVars>>

VerifyRejects(r) ==
  /\ pc[r] = "verify"
  /\ ~BindPayTo(r)
  /\ Answer(r, "rejected")
  /\ UNCHANGED <<clock, crashes, mem_state, body, cred, local, moneyVars, historyVars>>

\* The facilitator accepts an unspent credential signed for the terms required.
FacilitatorAccepts(r, payTo) ==
  captured[cred[r]] = None /\ signed[cred[r]] = [price |-> local[r].price, payTo |-> payTo]

\* The price required is the quote's, the address the one that was signed for:
\* only _bind_pay_to holds it to the quote's.
VerifyPasses(r) ==
  /\ Go(r, "verify", "settle")
  /\ BindPayTo(r) /\ FacilitatorAccepts(r, signed[cred[r]].payTo)
  /\ UNCHANGED <<clock, crashes, mem_state, body, cred, local, answer, moneyVars, historyVars>>

\* Not valid, no requirement to match, or the facilitator is out of reach:
\* all of them leave process_x402_settle as a failure, and answer 502.
VerifyFails(r) ==
  /\ pc[r] = "verify"
  /\ BindPayTo(r)
  /\ Answer(r, "settle_failed")
  /\ UNCHANGED <<clock, crashes, mem_state, body, cred, local, moneyVars, historyVars>>

\* The chain moves the money of a credential once, on the terms signed.
Transfer(c) ==
  /\ captured[c] = None
  /\ captured' = [captured EXCEPT ![c] = signed[c]]

\* settle_payment returns: a success, whatever the returned value says.
SettleReturns(r) ==
  /\ Go(r, "settle", "settled")
  /\ Transfer(cred[r]) \/ (ReturnsRefusal /\ UNCHANGED captured)
  /\ UNCHANGED <<clock, crashes, mem_state, body, cred, local, answer, signed, historyVars>>

\* Slip: the exception of a refused settle is swallowed.
SettleRaisesUnseen(r) ==
  /\ Go(r, "settle", "settled")
  /\ Transfer(cred[r]) \/ UNCHANGED captured
  /\ UNCHANGED <<clock, crashes, mem_state, body, cred, local, answer, signed, historyVars>>

\* settle_payment raises: the chain refused, or moved the money and the
\* facilitator's reply was lost.
SettleRaises(r) ==
  /\ pc[r] = "settle"
  /\ Answer(r, "settle_failed")
  /\ Transfer(cred[r]) \/ UNCHANGED captured
  /\ UNCHANGED <<clock, crashes, mem_state, body, cred, local, signed, historyVars>>

\* An MPP credential, and no hook to settle it with.
NoMppHook(r) ==
  /\ ~MppHook
  /\ pc[r] = "compose"
  /\ Answer(r, "unavailable")
  /\ UNCHANGED <<clock, crashes, mem_state, body, cred, local, moneyVars, historyVars>>

\* compose_mppx charges the credential on the terms of the quote it is given.
ComposeCharges(r) ==
  /\ MppHook
  /\ Go(r, "compose", "settled")
  /\ FacilitatorAccepts(r, local[r].payTo)
  /\ Transfer(cred[r])
  /\ UNCHANGED <<clock, crashes, mem_state, body, cred, local, answer, signed, historyVars>>

\* Slip: the status the hook returned is not looked at.
ComposeRejectsUnseen(r) ==
  /\ MppHook
  /\ Go(r, "compose", "settled")
  /\ UNCHANGED <<clock, crashes, mem_state, body, cred, local, answer, moneyVars, historyVars>>

\* The hook returns another status than 200.
ComposeRejects(r) ==
  /\ MppHook
  /\ pc[r] = "compose"
  /\ Answer(r, "rejected")
  /\ UNCHANGED <<clock, crashes, mem_state, body, cred, local, moneyVars, historyVars>>

\* The hook raises, before or after the charge; nothing catches it.
ComposeRaises(r) ==
  /\ MppHook
  /\ pc[r] = "compose"
  /\ Answer(r, "error")
  /\ (FacilitatorAccepts(r, local[r].payTo) /\ Transfer(cred[r])) \/ UNCHANGED captured
  /\ UNCHANGED <<clock, crashes, mem_state, body, cred, local, signed, historyVars>>

\* Slip: the body is looked up again after the settle.
RespondFromCache(r) ==
  /\ pc[r] = "settled"
  /\ Answer(r, "completed")
  /\ local' = [local EXCEPT ![r] = IF Live(body[r]) THEN mem_state[body[r]] ELSE @]
  /\ UNCHANGED <<clock, crashes, mem_state, body, cred, moneyVars, historyVars>>

\* on_settled runs, its exceptions are logged and dropped, and the cached
\* body goes out.
Respond(r) ==
  /\ pc[r] = "settled"
  /\ Answer(r, "completed")
  /\ UNCHANGED <<clock, crashes, mem_state, body, cred, local, moneyVars, historyVars>>

-----------------------------------------------------------------------------
(* The environment. *)

\* A buyer signs a credential for terms some 402 offered, or for others; a
\* header sent with an unsigned one was junk, and stays that.
Sign(c) ==
  /\ signed[c] = None
  /\ \A r \in Requests : cred[r] # c
  /\ \E o \in offers, p \in {f.quote.price : f \in offers} : \E a \in {o.quote.payTo, Foreign} :
        signed' = [signed EXCEPT ![c] = [price |-> p, payTo |-> a]]
  /\ UNCHANGED <<clock, crashes, mem_state, requestVars, captured, historyVars>>

Tick ==
  /\ clock < MaxClock
  /\ clock' = clock + 1
  /\ UNCHANGED <<crashes, mem_state, requestVars, moneyVars, historyVars>>

\* The process restarts: its memory is gone, and so are the open requests.
Crash ==
  /\ crashes < MaxCrashes
  /\ crashes' = crashes + 1
  /\ mem_state' = [b \in Bodies |-> None]
  /\ pc' = [r \in Requests |-> IF pc[r] \in Suspended THEN "done" ELSE pc[r]]
  /\ answer' = [r \in Requests |-> IF pc[r] \in Suspended THEN "dropped" ELSE answer[r]]
  /\ UNCHANGED <<clock, body, cred, local, moneyVars, historyVars>>

ProbeStep(r) ==
  \/ WorkYieldsNothing(r)
  \/ \E n \in Counts : WorkYields(r, n)
  \/ Mint(r) \/ MintFails(r) \/ WriteQuote(r) \/ Emit402(r)

SettleStep(r) ==
  \/ ScreenClears(r) \/ ScreenDenies(r)
  \/ VerifyRejects(r) \/ VerifyPasses(r) \/ VerifyFails(r)
  \/ SettleReturns(r) \/ SettleRaises(r)
  \/ NoMppHook(r) \/ ComposeCharges(r) \/ ComposeRejects(r) \/ ComposeRaises(r)
  \/ Respond(r)

Arrive(r) ==
  \E b \in Bodies : InvalidInput(r, b) \/ ProbeRead(r, b) \/ \E c \in Creds : SettleRead(r, b, c)

Next ==
  \/ \E r \in Requests : Arrive(r) \/ ProbeStep(r) \/ SettleStep(r)
  \/ \E c \in Creds : Sign(c)
  \/ Tick
  \/ Crash

\* The event loop resumes every coroutine whose await is over, and the calls
\* it awaits return or raise; nothing makes a request arrive or a clock tick.
Spec == Init /\ [][Next]_vars
Fairness == \A r \in Requests : WF_vars(ProbeStep(r) \/ SettleStep(r))
FairSpec == Spec /\ Fairness
-----------------------------------------------------------------------------
(* Safety. *)

Completed(r) == answer[r] = "completed"

\* A 200 carries the body of a quote whose exact price the chain has moved, to
\* the address that quote was given, although the cache may have been
\* overwritten, have lapsed or been lost since the settle leg read it
\* (handle, 778-818; the 200 of _handle_x402_settle and _handle_mpp_settle).
DeliveredWasPaid ==
  \A r \in Requests : Completed(r) => captured[cred[r]] = Terms(local[r])

\* Two settle legs that carry the same credential, concurrently or one after
\* the other, do not both get the result: the loser is refused by the verify or
\* by the settle call (_handle_x402_settle, 556-599).
OneDeliveryPerCredential ==
  \A r, s \in Requests : Completed(r) /\ Completed(s) /\ cred[r] = cred[s] => r = s

\* Whatever the chain moved, it moved on terms the merchant had quoted: never
\* to an address that is not the merchant's, never for another price
\* (_bind_pay_to, 550-554, and the price of the resource_config, 564-574).
CapturedOnQuotedTerms ==
  \A c \in Creds : captured[c] # None => captured[c] \in {Terms(q) : q \in quoted}

\* An address minted for one price is never asked, nor paid, another: the
\* deposit address belongs to a payment intent of that amount
\* (_mint_and_resolve_recipients, 289-314, and the cache of 862-866).
MintedAddressKeepsPrice ==
  \A q \in {Quote(o.quote) : o \in offers} \cup ({captured[c] : c \in Creds} \ {None}) :
    q.payTo \in Requests => q.price = mints[q.payTo]

\* No money moves for a wallet on the SDN list, on either rail, whichever of
\* the legs of a credential gets through, and whatever the screen answered
\* (_enforce_wallet_sanctions, 439-531, before 814).
SanctionedNeverCaptured ==
  ScreenOn => \A c \in Sanctioned \ Signerless : captured[c] = None

\* stale_quote is answered only when every 402 sent for that body has lapsed,
\* or the process has restarted since: a later probe of the body may replace
\* its quote but not lose it (read, write and _evict_expired of quote_cache.py).
StaleMeansLapsed ==
  [][\A r \in Requests : answer[r] = None /\ answer'[r] = "stale_quote" =>
       \/ crashes > 0
       \/ \A o \in offers : o.body = body'[r] => o.quote.expires <= clock]_vars

-----------------------------------------------------------------------------
(* Liveness. *)

\* Every request that arrived is answered, or dropped by a restart: no refusal,
\* exception or lapsed quote leaves a coroutine suspended (handle, 761-866).
EveryRequestAnswered == \A r \in Requests : pc[r] # "idle" ~> pc[r] = "done"

-----------------------------------------------------------------------------
(* What the endpoint promises: PaidDelivery, under this mapping. *)

DeliveredUnits ==
  [c \in Creds |->
     IF \E r \in Requests : Completed(r) /\ cred[r] = c
     THEN local[CHOOSE r \in Requests : Completed(r) /\ cred[r] = c].count
     ELSE None]

PricedOffers == {q \in Quotes : q.price = PriceCents(q.count)}

Promise == INSTANCE PaidDelivery
             WITH Offers <- PricedOffers, offered <- quoted, delivered <- DeliveredUnits

\* Every behaviour of the endpoint is one of PaidDelivery.
ImplementsPaidDelivery == Promise!PDSpec

-----------------------------------------------------------------------------
(* What the sources say and the code does not do; each is refuted by a run. *)

\* tests/test_checkout.py:333: "ProcessX402Settle treats a falsy success as a
\* settle_failed phase": no request is completed by a settle that moved nothing.
FalsySettleIsRefused ==
  \A r \in Requests : Completed(r) => captured[cred[r]] # None
=============================================================================

-------------------------------- MODULE Gate --------------------------------
(***************************************************************************)
(* The identity gate as the six framework adapters mount it                 *)
(* (identity/fastapi.py, flask.py, django.py, aiohttp.py, sanic.py and the  *)
(* ASGI middleware.py): a request is let through to the handler or denied,  *)
(* on the ruling of /v1/assess for the identity it carries.  All of them    *)
(* share one AgentScoreCore per process (AssessCache).                      *)
(*                                                                          *)
(* The adapters are copies of one another but for what they hold inside    *)
(* their try block, what they take from a merchant's on_denied, and which   *)
(* hooks they can await.  An action is the code between two awaits; the     *)
(* merchant's on_denied and the sessions API do as they may.                *)
(***************************************************************************)
EXTENDS AssessCache

CONSTANT Setups     \* how a process may have mounted its gate

VARIABLES
  setup,        \* the gate's configuration, and what reaches it
  pc,           \* request -> where its handling is
  outcome,      \* request -> "pass", the code it was denied with, "crash", or None
  degraded,     \* request -> infra_reason of the gate state, or None
  verdict,      \* request -> the request-scoped signer verdict's answer, or None
  captured      \* history: requests whose wallet the handler reported

vars == <<carried, cacheVars, setup, pc, outcome, degraded, verdict, captured>>
stateVars == <<degraded, verdict, captured>>

Frames == {"fastapi", "flask", "django", "aiohttp", "sanic", "asgi"}

ASSUME GateAssumption ==
  Setups \subseteq [frame : Frames, fail_open : BOOLEAN, conditional : BOOLEAN,
                    sessions : {"none", "kyc"}, on_denied : {"default", "custom"},
                    reqs : SUBSET Requests, arrivals : SUBSET Arrivals,
                    rulings : SUBSET Rulings, failures : SUBSET Failures]

Codes == Failures \cup {"missing_identity", "identity_verification_required", "wallet_not_trusted"}

\* A null is told from whatever it stands in for.
ASSUME NullAssumption == None \notin Codes \cup {"pass", "crash"} \cup Known

TypeOK ==
  /\ AssessTypeOK
  /\ setup \in Setups
  /\ pc \in [Requests -> {"idle", "asking", "minting", "done"}]
  /\ outcome \in [Requests -> Codes \cup {"pass", "crash", None}]
  /\ degraded \in [Requests -> Failures \cup {None}]
  /\ verdict \in [Requests -> AnswerSet \cup {None}]
  /\ captured \subseteq Requests

Init ==
  /\ AssessInit
  /\ setup \in Setups
  /\ pc = [r \in Requests |-> "idle"]
  /\ outcome = [r \in Requests |-> None]
  /\ degraded = [r \in Requests |-> None]
  /\ verdict = [r \in Requests |-> None]
  /\ captured = {}

-----------------------------------------------------------------------------
(* Which requests the gate looks at. *)

NoIdentity(a) == a.token = None /\ a.wallet = None

HasPaymentHeader(a) == a.pays # "none"

\* X-Verification-Session: create, with neither an identity nor a payment.
RequestsVerificationSession(a) == a.asks /\ NoIdentity(a) /\ ~HasPaymentHeader(a)

ShouldRunConditionalGate(a) == HasPaymentHeader(a) \/ RequestsVerificationSession(a)

\* A conditional gate; without it the adapters look at every request.
Fires(a) == setup.conditional => ShouldRunConditionalGate(a)

-----------------------------------------------------------------------------
(* Ends of a request's handling. *)

End(r, o) ==
  /\ pc' = [pc EXCEPT ![r] = "done"]
  /\ outcome' = [outcome EXCEPT ![r] = o]

Pass(r) == End(r, "pass") /\ UNCHANGED <<degraded, verdict>>

\* apply_degraded, and the request goes through.
PassDegraded(r, reason) ==
  /\ End(r, "pass")
  /\ degraded' = [degraded EXCEPT ![r] = reason]
  /\ UNCHANGED verdict

\* What a merchant's on_denied can do besides returning a response.
Slips == {"raises", "misshapen"}

\* The try block of an adapter: the slips of on_denied that its last handler
\* takes for a failure of the API.  FastAPI, aiohttp, Django and ASGI hold only
\* the check in it; Flask and Sanic hold the denial too, and Flask lets the
\* TypeError of a misshapen answer pass.
FastapiCatches == {}
AiohttpCatches == {}
DjangoCatches == {}
AsgiCatches == {}
FlaskCatches == {"raises"}
SanicCatches == {"raises", "misshapen"}

Catches ==
  CASE setup.frame = "fastapi" -> FastapiCatches
    [] setup.frame = "aiohttp" -> AiohttpCatches
    [] setup.frame = "django" -> DjangoCatches
    [] setup.frame = "asgi" -> AsgiCatches
    [] setup.frame = "flask" -> FlaskCatches
    [] setup.frame = "sanic" -> SanicCatches

\* on_denied outside the try block: a slip is the framework's 500.
Deny(r, code) ==
  /\ \/ End(r, code)
     \/ setup.on_denied = "custom" /\ End(r, "crash")
  /\ UNCHANGED <<degraded, verdict>>

\* on_denied inside it: the slip may come back as an api_error, which a gate
\* that fails open lets through, and another is denied for, by on_denied again.
DenyInTry(r, code) ==
  \/ End(r, code) /\ UNCHANGED <<degraded, verdict>>
  \/ /\ setup.on_denied = "custom"
     /\ \E slip \in Slips :
          \/ slip \notin Catches /\ End(r, "crash") /\ UNCHANGED <<degraded, verdict>>
          \/ slip \in Catches /\ setup.fail_open /\ PassDegraded(r, "api_error")
          \/ slip \in Catches /\ ~setup.fail_open /\ Deny(r, "api_error")

-----------------------------------------------------------------------------
(* The answer of the check. *)

Permits(ruling) == ruling.decision \in {"allow", "none"}

\* is_fixable_denial: there are reasons, and each is one a new KYC can mend.
IsFixableDenial(reasons) == reasons # {} /\ reasons \subseteq {"kyc_required", "kyc_pending", "kyc_failed"}

\* project_signer_verdict of this request's own raw answer, where a signer was sent.
SignerVerdict(r, a) == IF SignerOf(a) = None THEN None ELSE known'[r].answer

\* Slip: a denial is marked, and let through.
ConcludeOpen(r, a) ==
  IF Permits(known'[r].answer.ruling) \/ setup.fail_open
  THEN /\ End(r, "pass")
       /\ verdict' = [verdict EXCEPT ![r] = SignerVerdict(r, a)]
       /\ UNCHANGED degraded
  ELSE DenyInTry(r, "wallet_not_trusted")

\* Allowed: the handler runs, and finds the verdict in the request's own state.
\* Denied, for reasons that a verification mends: a session is asked for first.
Conclude(r, a) ==
  LET ruling == known'[r].answer.ruling IN
  \/ /\ Permits(ruling)
     /\ End(r, "pass")
     /\ verdict' = [verdict EXCEPT ![r] = SignerVerdict(r, a)]
     /\ UNCHANGED degraded
  \/ /\ ~Permits(ruling)
     /\ IsFixableDenial(ruling.reasons) /\ setup.sessions # "none"
     /\ pc' = [pc EXCEPT ![r] = "minting"]
     /\ UNCHANGED <<outcome, degraded, verdict>>
  \/ /\ ~Permits(ruling)
     /\ ~(IsFixableDenial(ruling.reasons) /\ setup.sessions # "none")
     /\ DenyInTry(r, "wallet_not_trusted")

-----------------------------------------------------------------------------
(* Steps. *)

\* The gate does not fire: the handler runs, and no gate state is kept.
Ungated(r, a) ==
  /\ ~Fires(a)
  /\ carried' = [carried EXCEPT ![r] = a]
  /\ Pass(r)
  /\ UNCHANGED <<cacheVars, setup, captured>>

\* No identity: through where the gate fails open, else a session is asked
\* for, if the merchant has it so, else denied.
MissingIdentity(r, a) ==
  /\ Fires(a) /\ NoIdentity(a)
  /\ carried' = [carried EXCEPT ![r] = a]
  /\ \/ setup.fail_open /\ Pass(r)
     \/ /\ ~setup.fail_open /\ setup.sessions # "none"
        /\ pc' = [pc EXCEPT ![r] = "minting"]
        /\ UNCHANGED <<outcome, degraded, verdict>>
     \/ ~setup.fail_open /\ setup.sessions = "none" /\ Deny(r, "missing_identity")
  /\ UNCHANGED <<cacheVars, setup, captured>>

\* An identity whose ruling the cache has: the gate concludes at once.
FromCache(r, a) ==
  /\ Fires(a) /\ ~NoIdentity(a)
  /\ carried' = [carried EXCEPT ![r] = a]
  /\ Hit(r, a) /\ Conclude(r, a)
  /\ UNCHANGED <<setup, captured>>

\* One whose ruling it has not: the API is asked, and awaited.
Ask(r, a) ==
  /\ Fires(a) /\ ~NoIdentity(a)
  /\ carried' = [carried EXCEPT ![r] = a]
  /\ Miss(r, a)
  /\ pc' = [pc EXCEPT ![r] = "asking"]
  /\ UNCHANGED <<setup, outcome, stateVars>>

Enter(r, a) ==
  /\ pc[r] = "idle" /\ r \in setup.reqs
  /\ Ungated(r, a) \/ MissingIdentity(r, a) \/ FromCache(r, a) \/ Ask(r, a)

FromApi(r) ==
  /\ pc[r] = "asking"
  /\ Receive(r) /\ Conclude(r, carried[r])
  /\ UNCHANGED <<carried, setup, captured>>

\* The handlers of what the check raises.  A refused token is denied however
\* the gate fails; 402 lets through without a mark, infrastructure with one.
CheckFails(r, failure) ==
  \/ failure = "payment_required" /\ setup.fail_open /\ Pass(r)
  \/ failure \in {"quota_exceeded", "network_timeout", "api_error"} /\ setup.fail_open
       /\ PassDegraded(r, failure)
  \/ failure \in {"quota_exceeded", "network_timeout", "api_error"} /\ ~setup.fail_open
       /\ Deny(r, "api_error")
  \/ failure = "payment_required" /\ ~setup.fail_open /\ Deny(r, failure)
  \/ failure \in {"token_expired", "invalid_credential"} /\ Deny(r, failure)

Fail(r, failure) ==
  /\ pc[r] = "asking"
  /\ failure \in {"token_expired", "invalid_credential"} => carried[r].token # None
  /\ Raise(r, failure)
  /\ CheckFails(r, failure)
  /\ UNCHANGED <<carried, setup, captured>>

-----------------------------------------------------------------------------
(* identity/sessions.py, awaited by the gate. *)

\* Whether this request's denial is inside the try block.
Fallback(r) == IF NoIdentity(carried[r]) THEN "missing_identity" ELSE "wallet_not_trusted"
DenySession(r, code) == IF NoIdentity(carried[r]) THEN Deny(r, code) ELSE DenyInTry(r, code)

\* A session with all its fields is offered, after on_before_session, whatever
\* that hook does.
SessionCreated(r) ==
  /\ pc[r] = "minting"
  /\ DenySession(r, "identity_verification_required")
  /\ UNCHANGED <<carried, cacheVars, setup, captured>>

\* The API's 200 lacks a field, or it fails: the bare denial.
SessionFails(r) ==
  /\ pc[r] = "minting"
  /\ DenySession(r, Fallback(r))
  /\ UNCHANGED <<carried, cacheVars, setup, captured>>

\* Slip: a wallet without a token is reported under the state's other identity.
CaptureWalletAny(r) ==
  /\ outcome[r] = "pass" /\ Fires(carried[r]) /\ r \notin captured
  /\ ~NoIdentity(carried[r])
  /\ captured' = captured \cup {r}

\* capture_wallet, called by the handler: only under the token of the request.
CaptureWallet(r) ==
  /\ outcome[r] = "pass" /\ Fires(carried[r]) /\ r \notin captured
  /\ carried[r].token # None
  /\ captured' = captured \cup {r}

Handle(r) ==
  /\ CaptureWallet(r)
  /\ UNCHANGED <<carried, cacheVars, setup, pc, outcome, degraded, verdict>>

\* The API's own step, and time.
Rule(r, d) == Decide(r, d) /\ UNCHANGED <<carried, setup, pc, outcome, stateVars>>
Elapse == Tick /\ UNCHANGED <<setup, pc, outcome, stateVars>>

Next ==
  \/ \E r \in Requests :
       \/ \E a \in setup.arrivals : Enter(r, a)
       \/ FromApi(r) \/ SessionCreated(r) \/ SessionFails(r) \/ Handle(r)
       \/ \E d \in setup.rulings : Rule(r, d)
       \/ \E f \in setup.failures : Fail(r, f)
  \/ Elapse

Spec == Init /\ [][Next]_vars

-----------------------------------------------------------------------------
(* Safety. *)

Gated(r) == carried[r] # None /\ Fires(carried[r])
Permitted(r) == Answered(r) /\ Permits(known[r].answer.ruling)

\* The gate is bypassed for want of an answer it could have.
Unanswered(r) ==
  NoIdentity(carried[r]) \/ raised[r] \in {"payment_required", "quota_exceeded", "network_timeout", "api_error"}

\* The denial a Flask or Sanic gate may lose: on_denied raised inside its try.
DenialLost(r) ==
  /\ Answered(r) /\ ~Permitted(r)
  /\ setup.frame \in {"flask", "sanic"} /\ setup.on_denied = "custom"

\* The mark by which a handler tells a bypass from an allow: never on an allow,
\* and missing only on a bypass for no identity or for 402.
Marked(r) ==
  /\ degraded[r] # None => ~Permitted(r)
  /\ degraded[r] = None => Permitted(r) \/ NoIdentity(carried[r]) \/ raised[r] = "payment_required"

\* A request reaches the handler on a ruling that allows it.  Only a gate that
\* fails open lets through without one, and so marked that the handler can
\* tell: what has no identity, what the API did not answer, never a refused
\* token, and a denial only where on_denied failed inside the try block (the
\* six adapters; fastapi.py:281-382; get_gate_degraded_state, 125-138).
PassesOnARuling ==
  \A r \in Requests :
    outcome[r] = "pass" /\ Gated(r) =>
      /\ Permitted(r) \/ (setup.fail_open /\ (Unanswered(r) \/ DenialLost(r)))
      /\ Marked(r)

\* The verdict a handler enforces was made for the wallet that signed this very
\* request, and for the wallet it claims, however many requests claim the same
\* wallet, overlap or hit the cache; beside a token the claim is not part of
\* the cache's key (project_signer_verdict, 500-510; _cache_key, 163-187).
VerdictIsOwn ==
  \A r \in Requests : verdict[r] # None =>
    /\ verdict[r].about.pays = carried[r].pays
    /\ carried[r].token = None => verdict[r].about.wallet = carried[r].wallet

\* A wallet is associated only with a token that the API ruled on for this
\* request, or with one of a request that a gate failing open let through
\* (capture_wallet, fastapi.py:419-446).
AssociatedTokenWasRuled ==
  \A r \in captured :
    \/ Answered(r) /\ known[r].answer.about.token = carried[r].token /\ carried[r].token # None
    \/ carried[r].token # None /\ setup.fail_open
=============================================================================

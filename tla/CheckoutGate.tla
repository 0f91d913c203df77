---------------------------- MODULE CheckoutGate ----------------------------
(***************************************************************************)
(* What Checkout._run_gate makes of one request, as operators over the      *)
(* gate's configuration, what the request carries and what /v1/assess       *)
(* replied: the policy of the product is merged over the static one and     *)
(* given an enforcement (checkout.py), a FastAPI gate is built from it and  *)
(* rules (identity/policy.py, identity/fastapi.py), the body of its denial  *)
(* (identity/_response.py) decides whether soft enforcement may swallow it, *)
(* and an allowed wallet still has to match the signer (identity/core.py).  *)
(***************************************************************************)

\* Why /v1/assess denies: what a new KYC mends, what none mends, and sanctions.
Reasons == {"kyc_required", "kyc_pending", "kyc_failed", "age_insufficient",
            "sanctions_flagged", "sanctions_check_unavailable"}
SanctionsReasons == {"sanctions_flagged", "sanctions_check_unavailable"}

Failures == {"payment_required", "quota_exceeded", "token_expired", "invalid_credential",
             "network_timeout", "api_error"}

MatchKinds == {"none", "pass", "wallet_signer_mismatch", "wallet_auth_requires_wallet_signing"}

\* A reply of /v1/assess: an error, or a decision with its reasons and, if a
\* signer was sent, whether that is the claimed wallet's.
Reply == [failure : Failures \cup {"none"}, decision : {"allow", "deny", "none"},
          reasons : SUBSET Reasons, signer_match : MatchKinds]

Failed(f) == [failure |-> f, decision |-> "none", reasons |-> {}, signer_match |-> "none"]
Ruling(d, reasons, m) == [failure |-> "none", decision |-> d, reasons |-> reasons, signer_match |-> m]

-----------------------------------------------------------------------------
(* The policy. *)

\* One "names" stands for the five compliance fields, static or the product's:
\* what counts is whether a field's key is there, even with None under it.
Policy == [enforcement : {"hard", "soft", "unset"}, names : BOOLEAN]

NoPolicy == [enforcement |-> "unset", names |-> FALSE]

\* per_request_policy returned None: no policy for this product.
Waived == [enforcement |-> "waived", names |-> FALSE]

\* merged_policy.update(policy), over the static fields.
Merged(static_names, own) == [own EXCEPT !.names = @ \/ static_names]

\* Slip: the static fields are taken to carry an enforcement.
EnforcementAsGiven(policy) == policy.enforcement

\* What names a compliance field and no enforcement is enforced hard.
Enforcement(policy) ==
  IF policy.enforcement = "unset" /\ policy.names THEN "hard" ELSE policy.enforcement

\* build_gate_from_policy builds none for a policy without an enforcement.
BuildsGate(policy) == Enforcement(policy) # "unset"

-----------------------------------------------------------------------------
(* The gate's denials. *)

\* A DenialReason as its body carries it: empty fields are left out.
NoDenial == [code |-> "none", reasons |-> {}, session |-> FALSE]
DenialReasonToBody(code, reasons, session) ==
  [code |-> code, reasons |-> reasons, session |-> session]

FixableDenialReasons == {"kyc_required", "kyc_pending", "kyc_failed"}
FixableDenial(reasons) == reasons # {} /\ reasons \subseteq FixableDenialReasons

\* The codes under which the failures of the API are denied.
CodeOf(failure) ==
  IF failure \in {"quota_exceeded", "network_timeout", "api_error"} THEN "api_error" ELSE failure

\* The denial of the per-request gate, or none.  It never fails open, whatever
\* the checkout's configuration says: build_gate_from_policy passes no
\* fail_open on.  A session is always asked for, and may not be had.
GateDenial(identified, reply, session) ==
  CASE ~identified ->
         DenialReasonToBody(IF session THEN "identity_verification_required" ELSE "missing_identity",
                            {}, session)
    [] identified /\ reply.failure # "none" ->
         DenialReasonToBody(CodeOf(reply.failure), {}, reply.failure = "token_expired")
    [] identified /\ reply.failure = "none" /\ reply.decision \in {"allow", "none"} -> NoDenial
    [] OTHER ->
         IF FixableDenial(reply.reasons) /\ session
         THEN DenialReasonToBody("identity_verification_required", {}, TRUE)
         ELSE DenialReasonToBody("wallet_not_trusted", reply.reasons, FALSE)

-----------------------------------------------------------------------------
(* The enforcement. *)

\* Slip: only a hit counts, not a screen that could not be made.
IsSanctionsHit(body) == "sanctions_flagged" \in body.reasons

IsSanctionsDenial(body) ==
  body.reasons \cap SanctionsReasons # {} \/ body.code \in SanctionsReasons

\* run_gate_with_enforcement: GateResult.status.
GateStatus(policy, body) ==
  CASE ~BuildsGate(policy) -> "anonymous"
    [] BuildsGate(policy) /\ body = NoDenial -> "verified"
    [] OTHER -> IF Enforcement(policy) = "hard" \/ IsSanctionsDenial(body) THEN "denied" ELSE "unverified"

\* Slip: the verdict is not looked at.
SignerRefusedNever(status, wallet_only, match) == FALSE

\* _enforce_signer_match: a verified wallet, with no token beside it, whose
\* payment another operator's wallet signed.  No verdict, no refusal.
SignerRefused(status, wallet_only, match) ==
  status = "verified" /\ wallet_only /\ match \notin {"none", "pass"}
=============================================================================

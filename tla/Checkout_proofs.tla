-------------------------- MODULE Checkout_proofs --------------------------
(***************************************************************************)
(* Proofs about Checkout, for any requests, credentials, prices and any     *)
(* ways in which a merchant may have configured it.                         *)
(***************************************************************************)
EXTENDS Checkout, TLAPS

\* A policy that asks for compliance and does not say it may be done without.
Demanding(policy) == policy.enforcement = "hard" \/ (policy.names /\ policy.enforcement = "unset")

LeftOut == {"unkeyed", "allowed", "anonymous"}

\* What a verdict of the gate is good for, given who asks.
VerdictGood(r, v) ==
  /\ Demanding(v.policy) => v.status = "verified" /\ ident[r] # "none"
  /\ cred[r] \in Sanctioned \ Signerless =>
       \/ v.status \in LeftOut
       \/ v.status \in {"verified", "unverified"} /\ (~v.decided \/ ~SignerPassed(r))
  /\ cred[r] \in Strangers /\ ident[r] = "wallet" /\ SignerPassed(r) =>
       v.status # "verified" \/ ~v.decided

-----------------------------------------------------------------------------
(* The gate. *)

\* What names nothing and demands nothing.
LEMMA NoPolicyDemandsNothing == NoPolicy \in Policy /\ ~Demanding(NoPolicy)
  BY DEF NoPolicy, Policy, Demanding

\* A policy stays one when the static fields are merged with it.
LEMMA MergedType ==
  ASSUME NEW own \in Policy, NEW names \in BOOLEAN
  PROVE  Merged(names, own) \in Policy
  BY DEF Merged, Policy

\* Under a demanding policy only an assessed identity is not denied.
LEMMA VerifiedIsIdentified ==
  ASSUME NEW policy \in Policy, NEW identified \in BOOLEAN, NEW reply, NEW session \in BOOLEAN,
         Demanding(policy), GateStatus(policy, GateDenial(identified, reply, session)) # "denied"
  PROVE  /\ GateStatus(policy, GateDenial(identified, reply, session)) = "verified"
         /\ identified
<1> DEFINE body == GateDenial(identified, reply, session)
<1>1. Enforcement(policy) = "hard" /\ BuildsGate(policy)
  BY DEF Demanding, Enforcement, BuildsGate
<1>2. GateStatus(policy, body) # "denied"
  OBVIOUS
<1>3. ~identified => body.code \in {"identity_verification_required", "missing_identity"}
  BY DEF GateDenial, DenialReasonToBody
<1> HIDE DEF body
<1>4. body = NoDenial /\ GateStatus(policy, body) = "verified"
  BY <1>1, <1>2 DEF GateStatus
<1>5. identified
  BY <1>3, <1>4 DEF NoDenial
<1> QED BY <1>4, <1>5 DEF body

\* A flagged signer gets past a gate only without a decision: none of the
\* enforcements lets a sanctions denial through.
LEMMA FlaggedIsLeftOut ==
  ASSUME NEW r \in Requests, NEW policy \in Policy, NEW reply \in Replies(r), NEW session \in BOOLEAN,
         SignerPassed(r), cred[r] \in Sanctioned,
         GateStatus(policy, GateDenial(TRUE, reply, session)) # "denied"
  PROVE  \/ GateStatus(policy, GateDenial(TRUE, reply, session)) = "anonymous"
         \/ ~Decided(GateStatus(policy, GateDenial(TRUE, reply, session)), reply)
<1> DEFINE body == GateDenial(TRUE, reply, session)
           status == GateStatus(policy, body)
<1> SUFFICES ASSUME reply.decision # "none" PROVE status = "anonymous"
  BY DEF Decided
<1>1. /\ reply.failure = "none" /\ reply.decision = "deny"
      /\ reply.reasons \cap SanctionsReasons # {}
  BY DEF Replies, Failed, Ruling, SanctionsReasons
<1>2. ~FixableDenial(reply.reasons)
  BY <1>1 DEF FixableDenial, FixableDenialReasons, SanctionsReasons
<1>3. body = DenialReasonToBody("wallet_not_trusted", reply.reasons, FALSE)
  BY <1>1, <1>2 DEF GateDenial
<1>4. body # NoDenial /\ IsSanctionsDenial(body)
  <2> HIDE DEF body
  <2>1. body = [code |-> "wallet_not_trusted", reasons |-> reply.reasons, session |-> FALSE]
    BY <1>3 DEF DenialReasonToBody
  <2> QED BY <1>1, <2>1 DEF NoDenial, IsSanctionsDenial
<1> HIDE DEF body
<1>5. BuildsGate(policy) => status = "denied"
  BY <1>4 DEF GateStatus
<1> QED BY <1>5 DEF GateStatus, body

\* Nor does another operator's signer, under a wallet that is verified.
LEMMA StrangerIsNotVerified ==
  ASSUME NEW r \in Requests, NEW reply \in Replies(r), NEW status,
         SignerPassed(r), cred[r] \in Strangers, ~SignerRefused(status, TRUE, reply.signer_match)
  PROVE  status # "verified" \/ ~Decided(status, reply)
<1> SUFFICES ASSUME reply.decision # "none" PROVE status # "verified"
  BY DEF Decided
<1>1. reply.signer_match = "wallet_signer_mismatch"
  BY DEF Replies, Failed, Ruling
<1> QED BY <1>1 DEF SignerRefused

\* Every way past the gate leaves a verdict that is good for its asker.
LEMMA GatePassesGoodVerdicts ==
  ASSUME NEW r \in Requests, TypeOK, RunGate(r)
  PROVE  \/ Deny(r)
         \/ \E v \in Verdicts : /\ VerdictGood(r, v)
                                /\ Go(r, "gate", "price")
                                /\ gated' = [gated EXCEPT ![r] = v]
                                /\ UNCHANGED <<setup, cred, ident, price, payee, answer, cacheVars, offers, moneyVars>>
<1> DEFINE Good == \E v \in Verdicts : /\ VerdictGood(r, v)
                                       /\ Go(r, "gate", "price")
                                       /\ gated' = [gated EXCEPT ![r] = v]
                                       /\ UNCHANGED <<setup, cred, ident, price, payee, answer, cacheVars, offers, moneyVars>>
<1>1. ASSUME NEW status \in Statuses, NEW policy \in Policy, NEW decided \in BOOLEAN,
             PassGate(r, status, policy, decided),
             VerdictGood(r, [status |-> status, policy |-> policy, decided |-> decided])
      PROVE  Good
  <2> DEFINE v == [status |-> status, policy |-> policy, decided |-> decided]
  <2>1. v \in Verdicts
    BY DEF Verdicts
  <2>2. gated' = [gated EXCEPT ![r] = v]
    BY <1>1 DEF PassGate
  <2> HIDE DEF v
  <2>3. VerdictGood(r, v)
    BY <1>1 DEF v
  <2> QED BY <1>1, <2>1, <2>2, <2>3 DEF PassGate
<1>2. ASSUME NEW status \in Statuses, NEW decided \in BOOLEAN, PassGate(r, status, NoPolicy, decided),
             status \in LeftOut \/ cred[r] \notin Sanctioned \ Signerless, status # "verified"
      PROVE  Good
  <2>1. VerdictGood(r, [status |-> status, policy |-> NoPolicy, decided |-> decided])
    BY <1>2, NoPolicyDemandsNothing DEF VerdictGood
  <2> QED BY <1>1, <1>2, <2>1, NoPolicyDemandsNothing
<1>3. Sanctioned \subseteq Creds
  BY CheckoutAssumption DEF TypeOK, Sanctioned
<1>4. CASE setup.gate.kind = "custom" /\ (PassGate(r, "allowed", NoPolicy, FALSE) \/ Deny(r))
  BY <1>4, <1>2 DEF Statuses, LeftOut
<1>5. CASE WalletScreen(r)
  <2>1. CASE ~Keyed \/ cred[r] = None \/ cred[r] \in Signerless
    <3>1. PassGate(r, IF Keyed THEN "no_wallet" ELSE "unkeyed", NoPolicy, FALSE)
      BY <1>5, <2>1 DEF WalletScreen
    <3>2. CASE Keyed
      <4>1. cred[r] \notin Sanctioned \ Signerless
        BY <1>3, <2>1, <3>2, CheckoutAssumption
      <4> QED BY <1>2, <3>1, <3>2, <4>1 DEF Statuses
    <3>3. CASE ~Keyed
      BY <1>2, <3>1, <3>3 DEF Statuses, LeftOut
    <3> QED BY <3>2, <3>3
  <2>2. CASE ~(~Keyed \/ cred[r] = None \/ cred[r] \in Signerless)
    <3>1. (cred[r] \notin Sanctioned /\ PassGate(r, "screened", NoPolicy, TRUE)) \/ Deny(r)
      BY <1>5, <2>2 DEF WalletScreen
    <3> QED BY <1>2, <3>1 DEF Statuses
  <2> QED BY <2>1, <2>2
<1>6. ASSUME NEW own \in Policy, PolicyGate(r, Merged(setup.gate.names, own))
      PROVE  Deny(r) \/ Good
  <2>1. setup.gate.names \in BOOLEAN
    BY CheckoutAssumption DEF TypeOK, GateConfig
  <2> DEFINE policy == Merged(setup.gate.names, own)
             identified == ident[r] # "none"
  <2>2. policy \in Policy
    BY <2>1, MergedType
  <2> HIDE DEF policy
  <2>3. PICK session \in BOOLEAN, reply \in (IF ident[r] = "none" THEN {Failed("none")} ELSE Replies(r)) :
          LET status == GateStatus(policy, GateDenial(identified, reply, session))
              refused == SignerRefused(status, ident[r] = "wallet", reply.signer_match)
          IN  \/ (status = "denied" \/ refused) /\ Deny(r)
              \/ status # "denied" /\ ~refused /\ PassGate(r, status, policy, Decided(status, reply))
    BY <1>6 DEF PolicyGate, policy
  <2> DEFINE status == GateStatus(policy, GateDenial(identified, reply, session))
             decided == Decided(status, reply)
  <2>4. SUFFICES ASSUME status # "denied",
                        ~SignerRefused(status, ident[r] = "wallet", reply.signer_match),
                        PassGate(r, status, policy, decided)
                 PROVE  Good
    BY <2>3
  <2>5. status \in {"anonymous", "verified", "unverified"}
    BY <2>4 DEF GateStatus
  <2>6. status \in Statuses /\ decided \in BOOLEAN
    BY <2>5 DEF Statuses, Decided
  <2>7. SignerPassed(r) => identified /\ reply \in Replies(r)
    BY DEF SignerPassed
  <2>8. Demanding(policy) => status = "verified" /\ ident[r] # "none"
    BY <2>2, <2>4, VerifiedIsIdentified
  <2>9. cred[r] \in Sanctioned /\ SignerPassed(r) => status = "anonymous" \/ ~decided
    <3> SUFFICES ASSUME cred[r] \in Sanctioned, SignerPassed(r) PROVE status = "anonymous" \/ ~decided
      OBVIOUS
    <3>1. identified = TRUE /\ reply \in Replies(r)
      BY <2>7
    <3> QED BY <2>2, <2>4, <3>1, FlaggedIsLeftOut
  <2>10. cred[r] \in Strangers /\ ident[r] = "wallet" /\ SignerPassed(r) => status # "verified" \/ ~decided
    <3> SUFFICES ASSUME cred[r] \in Strangers, ident[r] = "wallet", SignerPassed(r)
                 PROVE  status # "verified" \/ ~decided
      OBVIOUS
    <3>1. (ident[r] = "wallet") = TRUE /\ reply \in Replies(r)
      BY <2>7
    <3> HIDE DEF status
    <3> QED BY <2>4, <3>1, StrangerIsNotVerified
  <2> HIDE DEF status, decided
  <2>11. VerdictGood(r, [status |-> status, policy |-> policy, decided |-> decided])
    BY <2>5, <2>8, <2>9, <2>10 DEF VerdictGood, LeftOut
  <2> QED BY <1>1, <2>2, <2>4, <2>6, <2>11
<1>7. CASE /\ HasPolicyGate
           /\ \E own \in IF setup.gate.own = {} THEN {NoPolicy} ELSE setup.gate.own \ {Waived} :
                PolicyGate(r, Merged(setup.gate.names, own))
  <2>1. PICK own \in (IF setup.gate.own = {} THEN {NoPolicy} ELSE setup.gate.own \ {Waived}) :
               PolicyGate(r, Merged(setup.gate.names, own))
    BY <1>7
  <2>2. setup.gate.own \subseteq Policy \cup {Waived}
    BY CheckoutAssumption DEF TypeOK, GateConfig
  <2>3. own \in Policy
    BY <2>1, <2>2, NoPolicyDemandsNothing
  <2> QED BY <1>6, <2>1, <2>3
<1> QED BY <1>4, <1>5, <1>7 DEF RunGate

-----------------------------------------------------------------------------
(* The inductive invariant. *)

\* How far a request has come, and what it holds by then.
LegStage(r) ==
  /\ answer[r] # None => pc[r] = "done"
  /\ pc[r] = "idle" => cred[r] = None
  /\ pc[r] \in {"idle", "gate"} => gated[r] = None
  /\ cred[r] # None => cred[r] \in Creds /\ signed[cred[r]] # None
  /\ pc[r] \in {"mint", "verify", "settle", "compose", "settled"} => cred[r] # None
  /\ pc[r] \in {"verify", "settle"} => ~Mpp(r)
  /\ cred[r] # None /\ pc[r] \notin {"idle", "gate", "done"} => gated[r] # None
  /\ pc[r] \in {"mint", "verify", "settle", "compose", "settled", "challenge"} => price[r] \in Prices

\* The gate let it pass on a good verdict.
LegGated(r) == gated[r] # None => VerdictGood(r, gated[r])

\* Where a credential may pay, and which address may be refused.
Payable(c, a) == Own(a) \/ (Unbound /\ c \notin MppCreds)
Refusable(a) ==
  \/ a = Foreign
  \/ setup.to.mint = "fresh" /\ ~setup.to.cache
  \/ setup.to.cache /\ a \in lapsed

\* Whom the money it carries is bound to.
LegBound(r) ==
  /\ payee[r] # None => setup.to.mint # "none" /\ payee[r] \in Minted
  /\ pc[r] \in {"verify", "compose"} /\ setup.to.mint # "none" => payee[r] # None
  /\ pc[r] = "settle" => signed[cred[r]].price = price[r] /\ Payable(cred[r], signed[cred[r]].payTo)
  /\ answer[r] = "misdirected" => cred[r] # None /\ Refusable(signed[cred[r]].payTo)

\* What it may record an order on.
LegPaid(r) ==
  pc[r] = "settled" \/ Fulfilled(r) =>
    /\ cred[r] # None /\ gated[r] # None
    /\ CarvedOut(r) \/ (charged_by[cred[r]] = r /\ captured[cred[r]].price = price[r])

\* What has moved, moved on a leg that will not say it did not, unless it raised.
MayBeCharged == {"completed", "unrecorded", "pending", "broken", "settle_failed"}
Money(c) ==
  /\ captured[c] # None <=> charged_by[c] # None
  /\ captured[c] # None => Payable(c, captured[c].payTo)
  /\ charged_by[c] # None =>
       LET r == charged_by[c]
       IN  /\ cred[r] = c /\ gated[r] # None
           /\ pc[r] = "settled" \/ (pc[r] = "done" /\ answer[r] \in MayBeCharged)

\* What is offered is the merchant's, if anything is, and what is signed was
\* offered or is not.
Offering ==
  /\ setup.to.mint = "per_order" => Minted \subseteq {PerOrder}
  /\ \A o \in offers : (Own(o.payTo) \/ (Unbound /\ o.payTo = None)) /\ o.payTo # Foreign
  /\ \A c \in Creds : signed[c] # None =>
       signed[c].payTo = Foreign \/ \E o \in offers : o.payTo = signed[c].payTo

CheckoutInv ==
  /\ TypeOK
  /\ \A r \in Requests : LegStage(r) /\ LegGated(r) /\ LegBound(r) /\ LegPaid(r)
  /\ \A c \in Creds : Money(c)
  /\ Offering

\* What a step has to keep, one request and one credential at a time.
LEMMA InvOfParts ==
  ASSUME TypeOK',
         \A r \in Requests : LegStage(r)' /\ LegGated(r)' /\ LegBound(r)' /\ LegPaid(r)',
         \A c \in Creds : Money(c)',
         Offering'
  PROVE  CheckoutInv'
  BY DEF CheckoutInv

\* A verdict is good for as long as who asks, and with what, stays the same.
LEMMA VerdictStaysGood ==
  ASSUME NEW q \in Requests, LegGated(q), setup' = setup, cred'[q] = cred[q],
         ident'[q] = ident[q], gated'[q] = gated[q]
  PROVE  LegGated(q)'
  BY DEF LegGated, VerdictGood, SignerPassed, Mpp, Sanctioned, Strangers

\* A request ends without an order, and without having been charged.
LEMMA EndKeepsInv ==
  ASSUME CheckoutInv, NEW r \in Requests, NEW a \in Answers \ {"completed", "unrecorded", "misdirected"},
         pc[r] \notin {"settled", "done"}, Answer(r, a),
         UNCHANGED <<setup, cred, ident, gated, price, payee, cacheVars, offers, moneyVars>>
  PROVE  CheckoutInv'
<1> USE DEF Answer, moneyVars, cacheVars
<1>1. TypeOK'
  BY DEF CheckoutInv, TypeOK
<1>2. ASSUME NEW q \in Requests PROVE LegStage(q)' /\ LegGated(q)' /\ LegBound(q)' /\ LegPaid(q)'
  <2>1. LegStage(q)'
    BY DEF CheckoutInv, TypeOK, LegStage, Mpp
  <2>2. LegGated(q)'
    BY VerdictStaysGood DEF CheckoutInv
  <2>3. LegBound(q)'
    BY DEF CheckoutInv, TypeOK, LegBound, Own, Minted, Payable, Unbound, Refusable
  <2>4. LegPaid(q)'
    BY DEF CheckoutInv, TypeOK, LegPaid, Fulfilled, CarvedOut, Free
  <2> QED BY <2>1, <2>2, <2>3, <2>4
<1>3. ASSUME NEW c \in Creds PROVE Money(c)'
  BY CheckoutAssumption DEF CheckoutInv, TypeOK, Money, Own, Minted, Payable, Unbound
<1>4. Offering'
  BY DEF CheckoutInv, Offering, Own, Minted, Payable, Unbound
<1> QED BY <1>1, <1>2, <1>3, <1>4, InvOfParts

\* The money of a credential moves on the terms of the leg that carries it.
LEMMA TransferKeepsInv ==
  ASSUME CheckoutInv, NEW r \in Requests,
         pc[r] \in {"settle", "compose"}, Transfer(r),
         signed[cred[r]].price = price[r], Payable(cred[r], signed[cred[r]].payTo),
         \/ Go(r, pc[r], "settled") /\ UNCHANGED answer
         \/ \E a \in {"settle_failed", "pending", "broken"} : Answer(r, a),
         UNCHANGED <<setup, cred, ident, gated, price, payee, cacheVars, offers, signed>>
  PROVE  CheckoutInv'
<1> USE DEF Transfer, cacheVars
<1>1a. /\ \/ pc'[r] = "settled" /\ answer'[r] = answer[r]
          \/ pc'[r] = "done" /\ answer'[r] \in {"settle_failed", "pending", "broken"}
       /\ \A q \in Requests \ {r} : pc'[q] = pc[q] /\ answer'[q] = answer[q]
       /\ pc' \in [Requests -> Suspended \cup {"idle", "done"}]
       /\ answer' \in [Requests -> Answers \cup {None}]
  <2>1. CASE Go(r, pc[r], "settled") /\ UNCHANGED answer
    BY <2>1 DEF Go, CheckoutInv, TypeOK, Suspended
  <2>2. CASE \E a \in {"settle_failed", "pending", "broken"} : Answer(r, a)
    BY <2>2 DEF Answer, CheckoutInv, TypeOK, Answers, Refusals
  <2> QED BY <2>1, <2>2
<1> USE <1>1a
<1>1. cred[r] \in Creds /\ signed[cred[r]] # None /\ gated[r] # None /\ answer[r] = None
  BY DEF CheckoutInv, TypeOK, LegStage, Mpp
<1>2. captured[cred[r]] = None /\ charged_by[cred[r]] = None
  BY <1>1 DEF CheckoutInv, Money
<1>3. TypeOK'
  BY <1>1 DEF CheckoutInv, TypeOK, Answers, Suspended
<1>4. ASSUME NEW q \in Requests PROVE LegStage(q)' /\ LegGated(q)' /\ LegBound(q)' /\ LegPaid(q)'
  <2>1. LegStage(q)'
    BY <1>1 DEF CheckoutInv, TypeOK, LegStage, Mpp
  <2>2. LegGated(q)'
    BY VerdictStaysGood DEF CheckoutInv
  <2>3. LegBound(q)'
    BY <1>1 DEF CheckoutInv, TypeOK, LegBound, Own, Minted, Payable, Unbound, Refusable
  <2>4. LegPaid(q)'
    <3>1. CASE q = r
      <4>1. captured'[cred[r]] = signed[cred[r]] /\ charged_by'[cred[r]] = r
        BY <1>1 DEF CheckoutInv, TypeOK
      <4> QED BY <1>1, <3>1, <4>1, CheckoutAssumption DEF LegPaid
    <3>2. CASE q # r
      <4>1. pc'[q] = pc[q] /\ answer'[q] = answer[q]
        BY <3>2 DEF CheckoutInv, TypeOK
      <4>2. charged_by[cred[q]] = q => cred[q] # cred[r]
        BY <1>2, CheckoutAssumption
      <4> QED BY <1>1, <4>1, <4>2 DEF CheckoutInv, TypeOK, LegPaid, LegStage, Fulfilled, CarvedOut, Free, Mpp
    <3> QED BY <3>1, <3>2
  <2> QED BY <2>1, <2>2, <2>3, <2>4
<1>5. ASSUME NEW c \in Creds PROVE Money(c)'
  <2>1. CASE c = cred[r]
    <3>1. captured'[c] = signed[c] /\ charged_by'[c] = r
      BY <2>1 DEF CheckoutInv, TypeOK
    <3>2. r # None
      BY CheckoutAssumption
    <3> QED BY <1>1, <2>1, <3>1, <3>2 DEF Money, Own, MayBeCharged, Minted, Payable, Unbound
  <2>2. CASE c # cred[r]
    <3>1. captured'[c] = captured[c] /\ charged_by'[c] = charged_by[c]
      BY <2>2 DEF CheckoutInv, TypeOK
    <3>2. Money(c)
      BY DEF CheckoutInv
    <3>3. charged_by[c] # None => charged_by[c] # r
      BY <2>2, <3>2 DEF Money
    <3>4. charged_by[c] # None => pc'[charged_by[c]] = pc[charged_by[c]] /\ answer'[charged_by[c]] = answer[charged_by[c]]
      BY <3>3 DEF CheckoutInv, TypeOK
    <3> QED BY <3>1, <3>2, <3>4 DEF Money, Own, Minted, Payable, Unbound
  <2> QED BY <2>1, <2>2
<1>6. Offering'
  BY DEF CheckoutInv, Offering, Own, Minted, Payable, Unbound
<1> QED BY <1>3, <1>4, <1>5, <1>6, InvOfParts

\* A request goes on, and nothing but where it is has changed.
LEMMA MoveKeepsInv ==
  ASSUME CheckoutInv, NEW r \in Requests, NEW x \in Suspended, Go(r, pc[r], x), pc[r] # "done",
         UNCHANGED <<setup, cred, ident, gated, price, payee, answer, cacheVars, offers, moneyVars>>,
         LegStage(r)', LegBound(r)', LegPaid(r)', pc[r] # "settled"
  PROVE  CheckoutInv'
<1> USE DEF Go, moneyVars, cacheVars
<1>1. TypeOK'
  BY DEF CheckoutInv, TypeOK
<1>2. ASSUME NEW q \in Requests PROVE LegStage(q)' /\ LegGated(q)' /\ LegBound(q)' /\ LegPaid(q)'
  <2>1. LegGated(q)'
    BY VerdictStaysGood DEF CheckoutInv
  <2>2. q # r => pc'[q] = pc[q]
    BY DEF CheckoutInv, TypeOK
  <2>3. q # r => LegStage(q)' /\ LegBound(q)' /\ LegPaid(q)'
    BY <2>2 DEF CheckoutInv, LegStage, LegBound, LegPaid, Own, Fulfilled, CarvedOut, Free, Minted, Payable, Unbound, Refusable, Mpp
  <2> QED BY <2>1, <2>3
<1>3. ASSUME NEW c \in Creds PROVE Money(c)'
  <2>1. charged_by[c] # None => charged_by[c] # r
    BY DEF CheckoutInv, Money
  <2>2. charged_by[c] # None => pc'[charged_by[c]] = pc[charged_by[c]]
    BY <2>1 DEF CheckoutInv, TypeOK
  <2> QED BY <2>2 DEF CheckoutInv, Money, Own, Minted, Payable, Unbound
<1>4. Offering'
  BY DEF CheckoutInv, Offering, Own, Minted, Payable, Unbound
<1> QED BY <1>1, <1>2, <1>3, <1>4, InvOfParts

-----------------------------------------------------------------------------
(* The steps that do more than that, one by one. *)

LEMMA PayKeepsInv ==
  ASSUME CheckoutInv, NEW r \in Requests, NEW k \in Creds, NEW i \in Idents, Pay(r, k, i)
  PROVE  CheckoutInv'
<1> USE DEF Pay, Go, moneyVars, cacheVars
<1>1. cred[r] = None /\ gated[r] = None /\ answer[r] = None
  BY DEF CheckoutInv, LegStage, Mpp
<1>2. TypeOK'
  BY DEF CheckoutInv, TypeOK, Suspended
<1>3. ASSUME NEW q \in Requests PROVE LegStage(q)' /\ LegGated(q)' /\ LegBound(q)' /\ LegPaid(q)'
  <2>1. CASE q = r
    <3>1. pc'[r] = "gate" /\ cred'[r] = k
      BY DEF CheckoutInv, TypeOK
    <3> QED BY <1>1, <2>1, <3>1, CheckoutAssumption, NoneAssumption
            DEF CheckoutInv, LegStage, LegGated, LegBound, LegPaid, Own, Fulfilled, Answers, Minted, Payable, Unbound, Refusable, Mpp
  <2>2. CASE q # r
    <3>1. pc'[q] = pc[q] /\ cred'[q] = cred[q] /\ ident'[q] = ident[q]
      BY <2>2 DEF CheckoutInv, TypeOK
    <3>2. LegGated(q)'
      BY <3>1, VerdictStaysGood DEF CheckoutInv
    <3> QED BY <3>1, <3>2 DEF CheckoutInv, LegStage, LegBound, LegPaid, Own, Fulfilled, CarvedOut, Free, Minted, Payable, Unbound, Refusable, Mpp
  <2> QED BY <2>1, <2>2
<1>4. ASSUME NEW c \in Creds PROVE Money(c)'
  <2>1. charged_by[c] # None => charged_by[c] # r
    BY DEF CheckoutInv, Money
  <2>2. charged_by[c] # None =>
          pc'[charged_by[c]] = pc[charged_by[c]] /\ cred'[charged_by[c]] = cred[charged_by[c]]
    BY <2>1 DEF CheckoutInv, TypeOK
  <2> QED BY <2>2 DEF CheckoutInv, Money, Own, Minted, Payable, Unbound
<1>5. Offering'
  BY DEF CheckoutInv, Offering, Own, Minted, Payable, Unbound
<1> QED BY <1>2, <1>3, <1>4, <1>5, InvOfParts

LEMMA RunGateKeepsInv ==
  ASSUME CheckoutInv, NEW r \in Requests, pc[r] = "gate", RunGate(r)
  PROVE  CheckoutInv'
<1>1. CASE Deny(r)
  BY <1>1, EndKeepsInv DEF Deny, Answers, Refusals
<1>2. ASSUME NEW v \in Verdicts, VerdictGood(r, v), Go(r, "gate", "price"), gated' = [gated EXCEPT ![r] = v],
             UNCHANGED <<setup, cred, ident, price, payee, answer, cacheVars, offers, moneyVars>>
      PROVE  CheckoutInv'
  <2> USE <1>2 DEF Go, moneyVars, cacheVars
  <2>1. answer[r] = None /\ pc'[r] = "price" /\ gated'[r] = v
    BY DEF CheckoutInv, TypeOK, LegStage, Mpp
  <2>2. TypeOK'
    BY DEF CheckoutInv, TypeOK, Suspended
  <2>3. ASSUME NEW q \in Requests PROVE LegStage(q)' /\ LegGated(q)' /\ LegBound(q)' /\ LegPaid(q)'
    <3>1. CASE q = r
      <4>1. LegGated(r)'
        BY <2>1 DEF LegGated, VerdictGood, SignerPassed, Mpp, Sanctioned, Strangers
      <4> QED BY <2>1, <3>1, <4>1, NoneAssumption
              DEF CheckoutInv, LegStage, LegBound, LegPaid, Own, Fulfilled, Answers, Minted, Payable, Unbound, Refusable, Mpp
    <3>2. CASE q # r
      <4>1. pc'[q] = pc[q] /\ gated'[q] = gated[q]
        BY <3>2 DEF CheckoutInv, TypeOK
      <4>2. LegGated(q)'
        BY <4>1, VerdictStaysGood DEF CheckoutInv
      <4> QED BY <4>1, <4>2 DEF CheckoutInv, LegStage, LegBound, LegPaid, Own, Fulfilled, CarvedOut, Free, Minted, Payable, Unbound, Refusable, Mpp
    <3> QED BY <3>1, <3>2
  <2>4. ASSUME NEW c \in Creds PROVE Money(c)'
    <3>1. charged_by[c] # None => charged_by[c] # r
      BY DEF CheckoutInv, Money
    <3>2. charged_by[c] # None =>
            pc'[charged_by[c]] = pc[charged_by[c]] /\ gated'[charged_by[c]] = gated[charged_by[c]]
      BY <3>1 DEF CheckoutInv, TypeOK
    <3> QED BY <3>2 DEF CheckoutInv, Money, Own, Minted, Payable, Unbound
  <2>5. Offering'
    BY DEF CheckoutInv, Offering, Own, Minted, Payable, Unbound
  <2> QED BY <2>2, <2>3, <2>4, <2>5, InvOfParts
<1>3. TypeOK
  BY DEF CheckoutInv
<1> QED BY <1>1, <1>2, <1>3, GatePassesGoodVerdicts

LEMMA PriceKeepsInv ==
  ASSUME CheckoutInv, NEW r \in Requests, NEW p \in setup.prices, Price(r, p)
  PROVE  CheckoutInv'
<1> USE DEF Price, Go, moneyVars, cacheVars
<1>1. answer[r] = None /\ pc[r] = "price" /\ p \in Prices
  BY CheckoutAssumption DEF CheckoutInv, TypeOK, LegStage, Mpp
<1>2. PICK x \in {"challenge", "mint", "settled"} :
        /\ pc' = [pc EXCEPT ![r] = x]
        /\ x = "settled" => Free(r, p)
        /\ x \in {"mint", "settled"} => cred[r] # None
  BY CheckoutAssumption DEF Mpp, Free
<1>3. pc'[r] = x /\ price'[r] = p
  BY <1>1, <1>2 DEF CheckoutInv, TypeOK
<1>4. TypeOK'
  BY <1>1, <1>2 DEF CheckoutInv, TypeOK, Suspended
<1>5. ASSUME NEW q \in Requests PROVE LegStage(q)' /\ LegGated(q)' /\ LegBound(q)' /\ LegPaid(q)'
  <2>1. LegGated(q)'
    BY VerdictStaysGood DEF CheckoutInv
  <2>2. CASE q = r
    <3>1. LegStage(r)' /\ LegBound(r)'
      BY <1>1, <1>2, <1>3, NoneAssumption DEF CheckoutInv, LegStage, LegBound, Own, Answers, Refusals, Minted, Payable, Unbound, Refusable, Mpp
    <3>2. x = "settled" => CarvedOut(r)'
      BY <1>2, <1>3 DEF CarvedOut, Free
    <3>3. LegPaid(r)'
      BY <1>1, <1>2, <1>3, <3>2, NoneAssumption DEF CheckoutInv, LegStage, LegPaid, Fulfilled, Answers, Mpp
    <3> QED BY <2>1, <2>2, <3>1, <3>3
  <2>3. CASE q # r
    <3>1. pc'[q] = pc[q] /\ price'[q] = price[q]
      BY <1>2, <2>3 DEF CheckoutInv, TypeOK
    <3> QED BY <2>1, <3>1 DEF CheckoutInv, LegStage, LegBound, LegPaid, Own, Fulfilled, CarvedOut, Free, Minted, Payable, Unbound, Refusable, Mpp
  <2> QED BY <2>2, <2>3
<1>6. ASSUME NEW c \in Creds PROVE Money(c)'
  <2>1. charged_by[c] # None => charged_by[c] # r
    BY <1>1 DEF CheckoutInv, Money
  <2>2. charged_by[c] # None => pc'[charged_by[c]] = pc[charged_by[c]]
    BY <1>2, <2>1 DEF CheckoutInv, TypeOK
  <2> QED BY <2>2 DEF CheckoutInv, Money, Own, Minted, Payable, Unbound
<1>7. Offering'
  BY DEF CheckoutInv, Offering, Own, Minted, Payable, Unbound
<1> QED BY <1>4, <1>5, <1>6, <1>7, InvOfParts

\* The recipient of a request: its own credential's, the order's, or a new one.
LEMMA RecipientIsOwn ==
  ASSUME CheckoutInv, NEW r \in Requests, RecipientKnown(r), ResolveRecipients(r), setup' = setup
  PROVE  /\ Recipient(r) \in Requests \cup {PerOrder, None}
         /\ payee'[r] = Recipient(r) /\ Minted \subseteq Minted' /\ UNCHANGED lapsed
         /\ Minted' \subseteq Requests \cup {PerOrder}
         /\ setup.to.mint = "none" => Recipient(r) = None
         /\ setup.to.mint # "none" => Recipient(r) # None /\ Recipient(r) \in Minted'
         /\ setup.to.mint = "per_order" => Minted' \subseteq {PerOrder}
<1> USE DEF ResolveRecipients
<1>1. setup.to.mint \in Mints
  BY CheckoutAssumption DEF CheckoutInv, TypeOK, Recipients
<1>2. Minted \subseteq Requests \cup {PerOrder} /\ (setup.to.mint = "per_order" => Minted \subseteq {PerOrder})
  BY DEF CheckoutInv, TypeOK, Offering, Minted
<1>3. payee'[r] = Recipient(r) /\ Minted' = Minted \cup ({Recipient(r)} \ {None})
  BY DEF CheckoutInv, TypeOK, Minted
<1>4. CASE setup.to.mint = "none"
  BY <1>2, <1>3, <1>4 DEF Recipient
<1>5. CASE setup.to.mint = "per_order"
  BY <1>2, <1>3, <1>5, CheckoutAssumption DEF Recipient
<1>6. CASE setup.to.mint = "fresh" /\ Mpp(r)
  <2>1. Recipient(r) \in Minted
    BY <1>6 DEF Recipient, RecipientKnown, Minted
  <2>2. None \notin Minted
    BY <1>2, CheckoutAssumption
  <2> QED BY <1>2, <1>3, <1>6, <2>1, <2>2
<1>7. CASE setup.to.mint = "fresh" /\ ~Mpp(r)
  <2>1. Recipient(r) = r /\ r # None
    BY <1>7, CheckoutAssumption DEF Recipient
  <2> QED BY <1>2, <1>3, <1>7, <2>1
<1> QED BY <1>1, <1>4, <1>5, <1>6, <1>7 DEF Mints

LEMMA MintKeepsInv ==
  ASSUME CheckoutInv, NEW r \in Requests, Mint(r)
  PROVE  CheckoutInv'
<1> USE DEF Mint, Go, moneyVars, cacheVars
<1>1. answer[r] = None /\ pc[r] = "mint"
  BY DEF CheckoutInv, LegStage, Mpp
<1>2. RecipientKnown(r) /\ ResolveRecipients(r)
  BY DEF ResolveRecipients
<1>3. PICK x \in {"verify", "compose"} : pc' = [pc EXCEPT ![r] = x]
  OBVIOUS
<1>4. pc'[r] = x
  BY <1>3 DEF CheckoutInv, TypeOK
<1>5. /\ payee'[r] \in Requests \cup {PerOrder, None} /\ Minted \subseteq Minted' /\ UNCHANGED lapsed
      /\ Minted' \subseteq Requests \cup {PerOrder}
      /\ setup.to.mint = "none" => payee'[r] = None
      /\ setup.to.mint # "none" => payee'[r] # None /\ payee'[r] \in Minted'
      /\ setup.to.mint = "per_order" => Minted' \subseteq {PerOrder}
  BY <1>2, RecipientIsOwn
<1>6. payee' = [payee EXCEPT ![r] = payee'[r]]
  BY <1>2 DEF ResolveRecipients, CheckoutInv, TypeOK
<1>7. TypeOK'
  BY <1>3, <1>5, <1>6 DEF CheckoutInv, TypeOK, Suspended, PayTos, Minted
<1>8. ASSUME NEW q \in Requests PROVE LegStage(q)' /\ LegGated(q)' /\ LegBound(q)' /\ LegPaid(q)'
  <2>1. LegGated(q)'
    BY VerdictStaysGood DEF CheckoutInv
  <2>2. CASE q = r
    <3>1. LegStage(r)' /\ LegBound(r)'
      BY <1>1, <1>4, <1>5, NoneAssumption DEF CheckoutInv, LegStage, LegBound, Own, Answers, Refusals, Minted, Payable, Unbound, Refusable, Mpp
    <3>2. LegPaid(r)'
      BY <1>1, <1>4, NoneAssumption DEF LegPaid, Fulfilled, Answers
    <3> QED BY <2>1, <2>2, <3>1, <3>2
  <2>3. CASE q # r
    <3>1. pc'[q] = pc[q] /\ payee'[q] = payee[q]
      BY <1>3, <1>6, <2>3 DEF CheckoutInv, TypeOK
    <3> QED BY <1>5, <2>1, <3>1 DEF CheckoutInv, LegStage, LegBound, LegPaid, Own, Fulfilled, CarvedOut, Free, Minted, Payable, Unbound, Refusable, Mpp
  <2> QED BY <2>2, <2>3
<1>9. ASSUME NEW c \in Creds PROVE Money(c)'
  <2>1. charged_by[c] # None => charged_by[c] # r
    BY <1>1 DEF CheckoutInv, Money
  <2>2. charged_by[c] # None => pc'[charged_by[c]] = pc[charged_by[c]]
    BY <1>3, <2>1 DEF CheckoutInv, TypeOK
  <2> QED BY <1>5, <2>2 DEF CheckoutInv, Money, Own, Minted, Payable, Unbound
<1>10. Offering'
  BY <1>5 DEF CheckoutInv, Offering, Own, Minted, Payable, Unbound
<1> QED BY <1>7, <1>8, <1>9, <1>10, InvOfParts

LEMMA ChallengeKeepsInv ==
  ASSUME CheckoutInv, NEW r \in Requests, Challenge(r)
  PROVE  CheckoutInv'
<1> USE DEF Challenge, Answer, moneyVars, cacheVars
<1>1. answer[r] = None /\ pc[r] = "challenge" /\ price[r] \in Prices
  BY DEF CheckoutInv, LegStage, Mpp
<1>2. RecipientKnown(r) /\ ResolveRecipients(r)
  BY DEF ResolveRecipients
<1>3. pc'[r] = "done" /\ answer'[r] = "402"
  BY DEF CheckoutInv, TypeOK
<1>4. /\ payee'[r] \in Requests \cup {PerOrder, None} /\ Minted \subseteq Minted' /\ UNCHANGED lapsed
      /\ Minted' \subseteq Requests \cup {PerOrder}
      /\ setup.to.mint = "none" => payee'[r] = None
      /\ setup.to.mint # "none" => payee'[r] # None /\ payee'[r] \in Minted'
      /\ setup.to.mint = "per_order" => Minted' \subseteq {PerOrder}
  BY <1>2, RecipientIsOwn
<1>5. payee' = [payee EXCEPT ![r] = payee'[r]]
  BY <1>2 DEF ResolveRecipients, CheckoutInv, TypeOK
<1>6. PICK to : to = Offered(Recipient(r))
  OBVIOUS
<1>7. payee'[r] = Recipient(r)
  BY <1>2, RecipientIsOwn
<1>8. /\ to \in PayTos \cup {None} /\ to # Foreign
      /\ IF setup.to.mint # "none" THEN to \in Minted' ELSE to = Static \/ (to = None /\ Unbound)
  <2>1. setup.to \in Recipients /\ (setup.to.cache => setup.to.mint # "none")
    BY CheckoutAssumption DEF CheckoutInv, TypeOK
  <2> QED BY <1>4, <1>6, <1>7, <2>1, CheckoutAssumption DEF Offered, PayTos, Unbound, Recipients
<1>12. offers' = offers \cup {[price |-> price[r], payTo |-> to]}
  BY <1>6
<1>13. TypeOK'
  BY <1>1, <1>4, <1>5, <1>8, <1>12 DEF CheckoutInv, TypeOK, Suspended, PayTos, Answers, Refusals, Minted
<1>9. ASSUME NEW q \in Requests PROVE LegStage(q)' /\ LegGated(q)' /\ LegBound(q)' /\ LegPaid(q)'
  <2>1. LegGated(q)'
    BY VerdictStaysGood DEF CheckoutInv
  <2>2. CASE q = r
    BY <1>1, <1>3, <1>4, <2>1, <2>2 DEF CheckoutInv, LegStage, LegBound, LegPaid, Own, Fulfilled, Minted, Payable, Unbound, Refusable, Mpp
  <2>3. CASE q # r
    <3>1. pc'[q] = pc[q] /\ payee'[q] = payee[q] /\ answer'[q] = answer[q]
      BY <1>5, <2>3 DEF CheckoutInv, TypeOK
    <3> QED BY <1>4, <2>1, <3>1 DEF CheckoutInv, LegStage, LegBound, LegPaid, Own, Fulfilled, CarvedOut, Free, Minted, Payable, Unbound, Refusable, Mpp
  <2> QED BY <2>2, <2>3
<1>10. ASSUME NEW c \in Creds PROVE Money(c)'
  <2>1. charged_by[c] # None => charged_by[c] # r
    BY <1>1 DEF CheckoutInv, Money
  <2>2. charged_by[c] # None =>
          pc'[charged_by[c]] = pc[charged_by[c]] /\ answer'[charged_by[c]] = answer[charged_by[c]]
    BY <2>1 DEF CheckoutInv, TypeOK
  <2> QED BY <1>4, <2>2 DEF CheckoutInv, Money, Own, Minted, Payable, Unbound
<1>11. Offering'
  <2>1. ASSUME NEW o \in offers'
        PROVE  (Own(o.payTo)' \/ (Unbound' /\ o.payTo = None)) /\ o.payTo # Foreign
    <3>1. CASE o \in offers
      <4>1. (Own(o.payTo) \/ (Unbound /\ o.payTo = None)) /\ o.payTo # Foreign
        BY <3>1 DEF CheckoutInv, Offering
      <4> QED BY <1>4, <4>1 DEF Own, Unbound
    <3>2. CASE o = [price |-> price[r], payTo |-> to]
      <4>1. o.payTo = to
        BY <3>2
      <4> HIDE <3>2
      <4> QED BY <1>4, <1>8, <4>1 DEF Own, Unbound
    <3> QED BY <1>12, <2>1, <3>1, <3>2
  <2>2. ASSUME NEW c \in Creds, signed'[c] # None
        PROVE  signed'[c].payTo = Foreign \/ \E o \in offers' : o.payTo = signed'[c].payTo
    BY <1>12, <2>2 DEF CheckoutInv, Offering
  <2> QED BY <1>4, <2>1, <2>2 DEF Offering
<1> QED BY <1>9, <1>10, <1>11, <1>13, InvOfParts

\* What may pay, if it binds, and may be refused, if it does not.
LEMMA BindsPayable ==
  ASSUME CheckoutInv, NEW r \in Requests, pc[r] = "verify"
  PROVE  IF Binds(r) THEN Payable(cred[r], signed[cred[r]].payTo) ELSE Refusable(signed[cred[r]].payTo)
<1> DEFINE a == signed[cred[r]].payTo
<1>1. setup.to \in Recipients /\ (setup.to.cache => setup.to.mint # "none")
  BY CheckoutAssumption DEF CheckoutInv, TypeOK
<1>2. payee[r] # None <=> setup.to.mint # "none"
  BY DEF CheckoutInv, LegBound
<1>3. payee[r] # None => payee[r] \in Minted
  BY DEF CheckoutInv, LegBound
<1>4. setup.to.mint = "per_order" => Minted \subseteq {PerOrder}
  BY DEF CheckoutInv, Offering
<1>5. cred[r] \in Creds \ MppCreds /\ signed[cred[r]] \in Terms
  BY DEF CheckoutInv, TypeOK, LegStage, Mpp
<1>6. a = Foreign \/ Own(a)
  <2>1. a # None
    BY <1>5, CheckoutAssumption DEF Terms, PayTos
  <2>2. signed[cred[r]] # None
    BY DEF CheckoutInv, LegStage
  <2> QED BY <1>5, <2>1, <2>2 DEF CheckoutInv, Offering
<1> HIDE DEF a
<1>7. Binds(r) <=> CASE setup.to.cache -> a \in known
                     [] ~setup.to.cache /\ payee[r] # None -> a = payee[r]
                     [] OTHER -> setup.to.written => a = Static
  BY DEF Binds, a
<1>8. Binds(r) => Payable(cred[r], a)
  BY <1>1, <1>2, <1>3, <1>5, <1>7 DEF Payable, Own, Minted, Unbound, Recipients
<1>9. ~Binds(r) => Refusable(a)
  BY <1>1, <1>2, <1>3, <1>4, <1>6, <1>7 DEF Refusable, Own, Minted, Recipients, Mints
<1> QED BY <1>8, <1>9 DEF a

LEMMA MisdirectedKeepsInv ==
  ASSUME CheckoutInv, NEW r \in Requests, Misdirected(r)
  PROVE  CheckoutInv'
<1> USE DEF Misdirected, Answer, moneyVars, cacheVars
<1>1. answer[r] = None /\ cred[r] \in Creds /\ cred[r] # None /\ signed[cred[r]] # None
  BY DEF CheckoutInv, LegStage, Mpp
<1>2. Refusable(signed[cred[r]].payTo)
  BY BindsPayable
<1>3. pc'[r] = "done" /\ answer'[r] = "misdirected"
  BY DEF CheckoutInv, TypeOK
<1>4. TypeOK'
  BY DEF CheckoutInv, TypeOK, Answers, Refusals
<1>5. ASSUME NEW q \in Requests PROVE LegStage(q)' /\ LegGated(q)' /\ LegBound(q)' /\ LegPaid(q)'
  <2>1. LegGated(q)'
    BY VerdictStaysGood DEF CheckoutInv
  <2>2. CASE q = r
    BY <1>1, <1>2, <1>3, <2>1, <2>2 DEF CheckoutInv, LegStage, LegBound, LegPaid, Own, Fulfilled, Minted, Payable, Unbound, Refusable, Mpp
  <2>3. CASE q # r
    <3>1. pc'[q] = pc[q] /\ answer'[q] = answer[q]
      BY <2>3 DEF CheckoutInv, TypeOK
    <3> QED BY <2>1, <3>1 DEF CheckoutInv, LegStage, LegBound, LegPaid, Own, Fulfilled, CarvedOut, Free, Minted, Payable, Unbound, Refusable, Mpp
  <2> QED BY <2>2, <2>3
<1>6. ASSUME NEW c \in Creds PROVE Money(c)'
  <2>1. charged_by[c] # None => charged_by[c] # r
    BY DEF CheckoutInv, Money
  <2>2. charged_by[c] # None =>
          pc'[charged_by[c]] = pc[charged_by[c]] /\ answer'[charged_by[c]] = answer[charged_by[c]]
    BY <2>1 DEF CheckoutInv, TypeOK
  <2> QED BY <2>2 DEF CheckoutInv, Money, Own, Minted, Payable, Unbound
<1>7. Offering'
  BY DEF CheckoutInv, Offering, Own, Minted, Payable, Unbound
<1> QED BY <1>4, <1>5, <1>6, <1>7, InvOfParts

LEMMA RespondKeepsInv ==
  ASSUME CheckoutInv, NEW r \in Requests, Respond(r)
  PROVE  CheckoutInv'
<1> USE DEF Respond, Answer, moneyVars, cacheVars
<1>1. PICK a \in {"completed", "unrecorded"} : answer' = [answer EXCEPT ![r] = a]
  OBVIOUS
<1>2. pc[r] = "settled" /\ pc'[r] = "done" /\ answer'[r] = a
  BY <1>1 DEF CheckoutInv, TypeOK
<1>3. TypeOK'
  BY <1>1 DEF CheckoutInv, TypeOK, Answers
<1>4. ASSUME NEW q \in Requests PROVE LegStage(q)' /\ LegGated(q)' /\ LegBound(q)' /\ LegPaid(q)'
  <2>1. LegGated(q)'
    BY VerdictStaysGood DEF CheckoutInv
  <2>2. CASE q = r
    <3>1. LegStage(r)' /\ LegBound(r)'
      BY <1>2 DEF CheckoutInv, LegStage, LegBound, Own, Minted, Payable, Unbound, Refusable, Mpp
    <3>2. LegPaid(r)'
      BY <1>2 DEF CheckoutInv, LegPaid, CarvedOut, Free
    <3> QED BY <2>1, <2>2, <3>1, <3>2
  <2>3. CASE q # r
    <3>1. pc'[q] = pc[q] /\ answer'[q] = answer[q]
      BY <1>1, <2>3 DEF CheckoutInv, TypeOK
    <3> QED BY <2>1, <3>1 DEF CheckoutInv, LegStage, LegBound, LegPaid, Own, Fulfilled, CarvedOut, Free, Minted, Payable, Unbound, Refusable, Mpp
  <2> QED BY <2>2, <2>3
<1>5. ASSUME NEW c \in Creds PROVE Money(c)'
  <2>1. Money(c)
    BY DEF CheckoutInv
  <2>2. CASE charged_by[c] = r
    BY <1>2, <2>1, <2>2 DEF Money, Own, MayBeCharged, Minted, Payable, Unbound
  <2>3. CASE charged_by[c] # r
    <3>1. charged_by[c] # None =>
            pc'[charged_by[c]] = pc[charged_by[c]] /\ answer'[charged_by[c]] = answer[charged_by[c]]
      BY <1>1, <2>3 DEF CheckoutInv, TypeOK
    <3> QED BY <2>1, <3>1 DEF Money, Own, Minted, Payable, Unbound
  <2> QED BY <2>2, <2>3
<1>6. Offering'
  BY DEF CheckoutInv, Offering, Own, Minted, Payable, Unbound
<1> QED BY <1>3, <1>4, <1>5, <1>6, InvOfParts

LEMMA SignKeepsInv ==
  ASSUME CheckoutInv, NEW k \in Creds, Sign(k)
  PROVE  CheckoutInv'
<1> USE DEF Sign, requestVars, cacheVars
<1>1. PICK p \in {o.price : o \in offers}, a \in ({o.payTo : o \in offers} \ {None}) \cup {Foreign} :
        signed' = [signed EXCEPT ![k] = [price |-> p, payTo |-> a]]
  OBVIOUS
<1>2. [price |-> p, payTo |-> a] \in Terms
  BY <1>1 DEF CheckoutInv, TypeOK, Terms, PayTos
<1>3. TypeOK'
  BY <1>1, <1>2 DEF CheckoutInv, TypeOK
<1>4. ASSUME NEW c \in Creds, signed[c] # None PROVE signed'[c] = signed[c]
  BY <1>4, <1>1 DEF CheckoutInv, TypeOK
<1>5. ASSUME NEW q \in Requests PROVE LegStage(q)' /\ LegGated(q)' /\ LegBound(q)' /\ LegPaid(q)'
  <2>1. LegGated(q)'
    BY VerdictStaysGood DEF CheckoutInv
  <2>2. cred[q] # None => cred[q] \in Creds /\ signed'[cred[q]] = signed[cred[q]] /\ signed[cred[q]] # None
    BY <1>4 DEF CheckoutInv, LegStage, Mpp
  <2>3. LegStage(q)'
    BY <2>2 DEF CheckoutInv, LegStage, Mpp
  <2>4. LegBound(q)'
    BY <2>2 DEF CheckoutInv, LegStage, LegBound, Own, Minted, Payable, Unbound, Refusable, Mpp
  <2>5. LegPaid(q)'
    BY DEF CheckoutInv, LegPaid, Fulfilled, CarvedOut, Free
  <2> QED BY <2>1, <2>3, <2>4, <2>5
<1>6. ASSUME NEW c \in Creds PROVE Money(c)'
  BY DEF CheckoutInv, Money, Own, Minted, Payable, Unbound
<1>7. Offering'
  <2>1. ASSUME NEW c \in Creds, signed'[c] # None
        PROVE  signed'[c].payTo = Foreign \/ \E o \in offers' : o.payTo = signed'[c].payTo
    <3>1. CASE c = k
      <4>1. signed'[k].payTo = a
        BY <1>1 DEF CheckoutInv, TypeOK
      <4> QED BY <3>1, <4>1
    <3>2. CASE c # k
      <4>1. signed'[c] = signed[c]
        BY <1>1, <3>2 DEF CheckoutInv, TypeOK
      <4> QED BY <2>1, <4>1 DEF CheckoutInv, Offering
    <3> QED BY <3>1, <3>2
  <2> QED BY <2>1 DEF CheckoutInv, Offering, Own, Minted, Payable, Unbound
<1> QED BY <1>3, <1>5, <1>6, <1>7, InvOfParts

\* What the cache drops was minted, and stays so.
LEMMA LapseKeepsInv ==
  ASSUME CheckoutInv, NEW a \in known, Lapse(a)
  PROVE  CheckoutInv'
<1>1. /\ Minted' = Minted /\ lapsed \subseteq lapsed'
      /\ UNCHANGED <<setup, pc, cred, ident, gated, price, payee, answer, offers, signed, captured, charged_by>>
  BY DEF Lapse, Minted, requestVars, moneyVars
<1>2. TypeOK'
  BY <1>1 DEF CheckoutInv, TypeOK, Lapse
<1>3. ASSUME NEW q \in Requests PROVE LegStage(q)' /\ LegGated(q)' /\ LegBound(q)' /\ LegPaid(q)'
  BY <1>1, VerdictStaysGood
     DEF CheckoutInv, LegStage, LegBound, LegPaid, Payable, Own, Unbound, Refusable, Fulfilled, CarvedOut, Free, Mpp
<1>4. ASSUME NEW c \in Creds PROVE Money(c)'
  BY <1>1 DEF CheckoutInv, Money, Payable, Own, Unbound
<1>5. Offering'
  BY <1>1 DEF CheckoutInv, Offering, Own, Unbound
<1> QED BY <1>2, <1>3, <1>4, <1>5, InvOfParts

LEMMA ArrivalKeepsInv ==
  ASSUME CheckoutInv, NEW r \in Requests, Discover(r) \/ AskForSession(r)
  PROVE  CheckoutInv'
<1>1. PICK x \in {"price", "gate"} :
        /\ Go(r, "idle", x)
        /\ UNCHANGED <<setup, cred, ident, gated, price, payee, answer, cacheVars, offers, moneyVars>>
  BY DEF Discover, AskForSession
<1> USE <1>1 DEF Go, moneyVars, cacheVars
<1>2. pc[r] = "idle" /\ pc'[r] = x
  BY DEF CheckoutInv, TypeOK
<1>3. answer[r] = None /\ cred[r] = None /\ gated[r] = None
  BY <1>2 DEF CheckoutInv, LegStage, Mpp
<1>4. LegStage(r)' /\ LegBound(r)' /\ LegPaid(r)'
  BY <1>2, <1>3, NoneAssumption DEF CheckoutInv, LegStage, LegBound, LegPaid, Own, Fulfilled, Answers, Minted, Payable, Unbound, Refusable, Mpp
<1> QED BY <1>2, <1>4, MoveKeepsInv DEF Suspended

LEMMA VerifyKeepsInv ==
  ASSUME CheckoutInv, NEW r \in Requests, SkipSettle(r) \/ VerifyPasses(r)
  PROVE  CheckoutInv'
<1>1. PICK x \in {"settle", "settled"} :
        /\ Go(r, "verify", x)
        /\ x = "settled" => CarvedOut(r)
        /\ x = "settle" => signed[cred[r]].price = price[r]
        /\ Binds(r)
        /\ UNCHANGED <<setup, cred, ident, gated, price, payee, answer, cacheVars, offers, moneyVars>>
  BY DEF SkipSettle, VerifyPasses, PaysPrice
<1> USE <1>1 DEF Go, moneyVars, cacheVars
<1>2. pc[r] = "verify" /\ pc'[r] = x
  BY DEF CheckoutInv, TypeOK
<1>3. answer[r] = None /\ cred[r] # None /\ gated[r] # None /\ price[r] \in Prices
  BY <1>2 DEF CheckoutInv, LegStage, Mpp
<1>4. Payable(cred[r], signed[cred[r]].payTo)
  BY <1>1, <1>2, BindsPayable
<1>5. LegStage(r)' /\ LegBound(r)'
  BY <1>2, <1>3, <1>4, NoneAssumption DEF CheckoutInv, LegStage, LegBound, Own, Answers, Refusals, Minted, Payable, Unbound, Refusable, Mpp
<1>6. LegPaid(r)'
  BY <1>2, <1>3, NoneAssumption DEF LegPaid, CarvedOut, Free, Fulfilled, Answers
<1> QED BY <1>2, <1>5, <1>6, MoveKeepsInv DEF Suspended

\* A challenge that is met was for this leg's price and the merchant's address.
LEMMA ChallengeIsOwn ==
  ASSUME CheckoutInv, NEW r \in Requests, pc[r] = "compose", ChallengeMet(r)
  PROVE  signed[cred[r]].price = price[r] /\ Own(signed[cred[r]].payTo)
<1>1. setup.to.mint # "none" => payee[r] # None
  BY DEF CheckoutInv, LegBound, Refusable
<1>2. payee[r] # None => setup.to.mint # "none" /\ payee[r] \in Minted
  BY DEF CheckoutInv, LegBound, Refusable
<1> QED BY <1>1, <1>2 DEF ChallengeMet, PaysPrice, Own, Minted, Payable, Unbound

LEMMA SettleKeepsInv ==
  ASSUME CheckoutInv, NEW r \in Requests,
         SettleReturns(r) \/ SettleRaises(r) \/ ComposeCharges(r) \/ ComposeTimesOut(r) \/ ComposeRaises(r)
  PROVE  CheckoutInv'
<1>1. pc[r] = "settle" => signed[cred[r]].price = price[r] /\ Payable(cred[r], signed[cred[r]].payTo)
  BY DEF CheckoutInv, LegBound, Refusable
<1>2. CASE SettleReturns(r) \/ ComposeCharges(r)
  <2>1. pc[r] \in {"settle", "compose"} /\ Go(r, pc[r], "settled") /\ Transfer(r)
    BY <1>2 DEF SettleReturns, ComposeCharges, Go
  <2>2. signed[cred[r]].price = price[r] /\ Payable(cred[r], signed[cred[r]].payTo)
    BY <1>1, <1>2, ChallengeIsOwn DEF SettleReturns, ComposeCharges, Go, Payable
  <2>3. UNCHANGED <<setup, cred, ident, gated, price, payee, answer, cacheVars, offers, signed>>
    BY <1>2 DEF SettleReturns, ComposeCharges
  <2> QED BY <2>1, <2>2, <2>3, TransferKeepsInv
<1>3. CASE SettleRaises(r) \/ ComposeTimesOut(r) \/ ComposeRaises(r)
  <2>1. PICK a \in {"settle_failed", "pending", "broken"} :
          /\ pc[r] \in {"settle", "compose"} /\ Answer(r, a)
          /\ Transfer(r) \/ NoTransfer
          /\ Transfer(r) /\ pc[r] = "compose" => ChallengeMet(r)
          /\ UNCHANGED <<setup, cred, ident, gated, price, payee, cacheVars, offers, signed>>
    <3>1. CASE SettleRaises(r)
      BY <3>1 DEF SettleRaises
    <3>2. CASE ComposeTimesOut(r)
      BY <3>2 DEF ComposeTimesOut
    <3>3. CASE ComposeRaises(r)
      <4>1. Transfer(r) /\ NoTransfer => ChallengeMet(r)
        <5>1. Transfer(r) => charged_by'[cred[r]] = r /\ captured[cred[r]] = None
          BY <3>3 DEF Transfer, CheckoutInv, TypeOK, LegStage, ComposeRaises, Mpp
        <5>2. charged_by[cred[r]] # r
          BY <3>3, <5>1, CheckoutAssumption DEF Transfer, CheckoutInv, Money, LegStage, ComposeRaises, Mpp
        <5> QED BY <5>1, <5>2 DEF NoTransfer
      <4> QED BY <3>3, <4>1 DEF ComposeRaises
    <3> QED BY <1>3, <3>1, <3>2, <3>3
  <2>2. CASE Transfer(r)
    <3>1. signed[cred[r]].price = price[r] /\ Payable(cred[r], signed[cred[r]].payTo)
      BY <1>1, <2>1, <2>2, ChallengeIsOwn DEF Payable
    <3> QED BY <2>1, <2>2, <3>1, TransferKeepsInv
  <2>3. CASE NoTransfer
    BY <2>1, <2>3, EndKeepsInv DEF NoTransfer, Answers, Refusals, moneyVars, cacheVars
  <2> QED BY <2>1, <2>2, <2>3
<1> QED BY <1>2, <1>3

LEMMA RefusalKeepsInv ==
  ASSUME CheckoutInv, NEW r \in Requests,
         \/ Dismiss(r) \/ VerifyFails(r) \/ HookRaises(r) \/ ComposeRejects(r) \/ ChallengeFails(r)
  PROVE  CheckoutInv'
<1>1. PICK a \in Refusals \ {"misdirected"} :
        /\ pc[r] \in {"idle", "gate", "price", "mint", "verify", "compose", "challenge"} /\ Answer(r, a)
        /\ UNCHANGED <<setup, cred, ident, gated, price, payee, cacheVars, offers, moneyVars>>
  BY DEF Dismiss, VerifyFails, HookRaises, ComposeRejects, ChallengeFails, Refusals
<1> QED BY <1>1, EndKeepsInv DEF Answers, Refusals

-----------------------------------------------------------------------------
(* The theorems. *)

LEMMA InitEstablishesInv ==
  ASSUME Init
  PROVE  CheckoutInv
<1> USE DEF Init
<1>1. TypeOK
  BY DEF TypeOK, Idents
<1>2. ASSUME NEW r \in Requests PROVE LegStage(r) /\ LegGated(r) /\ LegBound(r) /\ LegPaid(r)
  BY NoneAssumption DEF LegStage, LegGated, LegBound, LegPaid, Fulfilled, Answers, Refusals, Refusable, Mpp
<1>3. ASSUME NEW c \in Creds PROVE Money(c)
  BY DEF Money
<1>4. Offering
  BY DEF Offering, Minted
<1> QED BY <1>1, <1>2, <1>3, <1>4 DEF CheckoutInv

LEMMA NextKeepsInv ==
  ASSUME CheckoutInv, [Next]_vars
  PROVE  CheckoutInv'
<1>1. ASSUME NEW r \in Requests, Arrive(r) PROVE CheckoutInv'
  BY <1>1, RefusalKeepsInv, ArrivalKeepsInv, PayKeepsInv DEF Arrive
<1>2. ASSUME NEW r \in Requests, Step(r) PROVE CheckoutInv'
  <2>1. CASE pc[r] = "gate" /\ RunGate(r)
    BY <2>1, RunGateKeepsInv
  <2>2. CASE \E p \in setup.prices : Price(r, p)
    BY <2>2, PriceKeepsInv
  <2>3. CASE Mint(r) \/ Challenge(r)
    BY <2>3, MintKeepsInv, ChallengeKeepsInv
  <2>4. CASE Misdirected(r) \/ SkipSettle(r) \/ VerifyPasses(r)
    BY <2>4, MisdirectedKeepsInv, VerifyKeepsInv
  <2>5. CASE SettleReturns(r) \/ SettleRaises(r) \/ ComposeCharges(r) \/ ComposeTimesOut(r) \/ ComposeRaises(r)
    BY <2>5, SettleKeepsInv
  <2>6. CASE VerifyFails(r) \/ HookRaises(r) \/ ComposeRejects(r) \/ ChallengeFails(r)
    BY <2>6, RefusalKeepsInv
  <2>7. CASE Respond(r)
    BY <2>7, RespondKeepsInv
  <2> QED BY <1>2, <2>1, <2>2, <2>3, <2>4, <2>5, <2>6, <2>7 DEF Step
<1>3. ASSUME NEW c \in Creds, Sign(c) PROVE CheckoutInv'
  BY <1>3, SignKeepsInv
<1>5. ASSUME NEW a \in known, Lapse(a) PROVE CheckoutInv'
  BY <1>5, LapseKeepsInv
<1>4. CASE UNCHANGED vars
  <2> USE <1>4 DEF vars
  <2>1. TypeOK'
    BY DEF CheckoutInv, TypeOK
  <2>2. ASSUME NEW r \in Requests PROVE LegStage(r)' /\ LegGated(r)' /\ LegBound(r)' /\ LegPaid(r)'
    BY VerdictStaysGood DEF CheckoutInv, LegStage, LegBound, LegPaid, Own, Fulfilled, CarvedOut, Free, Minted, Payable, Unbound, Refusable, Mpp
  <2>3. ASSUME NEW c \in Creds PROVE Money(c)'
    BY DEF CheckoutInv, Money, Own, Minted, Payable, Unbound
  <2>4. Offering'
    BY DEF CheckoutInv, Offering, Own, Minted, Payable, Unbound
  <2> QED BY <2>1, <2>2, <2>3, <2>4, InvOfParts
<1> QED BY <1>1, <1>2, <1>3, <1>4, <1>5 DEF Next

\* The checkout keeps its invariant, whatever the requests, the merchants and
\* the answers of the outside world (Checkout.handle, 994-1171).
THEOREM InvHolds == Spec => []CheckoutInv
<1>1. Init => CheckoutInv
  BY InitEstablishesInv
<1>2. CheckoutInv /\ [Next]_vars => CheckoutInv'
  BY NextKeepsInv
<1> QED BY <1>1, <1>2, PTL DEF Spec

\* Every variable keeps its type; that takes the whole invariant, since a 402
\* is priced, and a recipient known, only by what came before (994-1171).
THEOREM TypeCorrect == Spec => []TypeOK
<1>1. CheckoutInv => TypeOK
  BY DEF CheckoutInv
<1> QED BY <1>1, InvHolds, PTL

\* An order is recorded only on a payment that this very request had settled,
\* at this leg's price, or on a carved out $0 (_handle_x402, _handle_mppx).
THEOREM PaidFor == Spec => []FulfilmentIsPaidFor
<1>1. CheckoutInv => FulfilmentIsPaidFor
  BY DEF CheckoutInv, LegPaid, FulfilmentIsPaidFor
<1> QED BY <1>1, InvHolds, PTL

\* Money reaches only an address of the merchant's, but on x402 where he has
\* neither a recipient nor a cache to bind it to (_async_is_cached_address).
THEOREM PaysMerchant == Spec => []MoneyToMerchant
<1>1. CheckoutInv => MoneyToMerchant
  BY DEF CheckoutInv, Money, Payable, MoneyToMerchant
<1> QED BY <1>1, InvHolds, PTL

\* Of the answers that invite the buyer to pay again only settle_failed can come
\* from a leg that charged him (x402_settle.py:154-167, mppx_failures.py:57-97).
THEOREM RefusalsAreFree == Spec => []RefusedWithoutCharge
<1>1. ASSUME CheckoutInv, NEW r \in Requests, answer[r] \in Refusals, NEW c \in Creds, charged_by[c] = r
      PROVE  answer[r] = "settle_failed"
  <2>1. r # None /\ answer[r] # None
    BY <1>1, CheckoutAssumption, NoneAssumption DEF Answers
  <2>2. answer[r] \in MayBeCharged
    BY <1>1, <2>1 DEF CheckoutInv, Money, LegStage
  <2> QED BY <1>1, <2>2 DEF MayBeCharged, Refusals
<1>2. CheckoutInv => RefusedWithoutCharge
  BY <1>1 DEF RefusedWithoutCharge
<1> QED BY <1>2, InvHolds, PTL

\* An address that a 402 offered is refused, signed, only where each leg mints a
\* fresh one and none is cached, or the cache has dropped it (_handle_x402,
\* 2199-2295).
THEOREM OffersAreAccepted == Spec => []OfferedAddressAccepted
<1>1. CheckoutInv => OfferedAddressAccepted
  BY DEF CheckoutInv, LegBound, Refusable, Offering, OfferedAddressAccepted
<1> QED BY <1>1, InvHolds, PTL

\* The request on which a credential was captured, and what it still holds.
LEMMA ChargedLeg ==
  ASSUME CheckoutInv, NEW c \in Creds, captured[c] # None
  PROVE  /\ charged_by[c] \in Requests /\ cred[charged_by[c]] = c
         /\ VerdictGood(charged_by[c], gated[charged_by[c]])
<1>1. charged_by[c] \in Requests
  BY DEF CheckoutInv, TypeOK, Money
<1> QED BY <1>1 DEF CheckoutInv, Money, LegGated

\* A wallet on the SDN list pays only where the screen is left out by the
\* configuration, the question or the answer (_run_gate, 1646-1752).
THEOREM SanctionedAreScreened == Spec => []ScreenedUnlessLeftOut
<1>1. ASSUME CheckoutInv, NEW c \in Sanctioned \ Signerless, captured[c] # None
      PROVE  LET r == charged_by[c]
             IN  \/ gated[r].status \in {"unkeyed", "allowed", "anonymous"}
                 \/ gated[r].status \in {"verified", "unverified"} /\ (~gated[r].decided \/ ~SignerPassed(r))
  <2>1. c \in Creds
    BY <1>1, CheckoutAssumption DEF CheckoutInv, TypeOK, Sanctioned
  <2> QED BY <1>1, <2>1, ChargedLeg DEF VerdictGood, LeftOut
<1>2. CheckoutInv => ScreenedUnlessLeftOut
  BY <1>1 DEF ScreenedUnlessLeftOut
<1> QED BY <1>2, InvHolds, PTL

\* Under a policy that asks for compliance, an order is recorded only for an
\* assessed identity (the default enforcement of 1715-1727; policy.py:118-202).
THEOREM HardGatesIdentify == Spec => []HardGateIdentifies
<1>1. CheckoutInv => HardGateIdentifies
  BY DEF CheckoutInv, LegPaid, LegGated, VerdictGood, Demanding, HardGateIdentifies
<1> QED BY <1>1, InvHolds, PTL

\* Under a wallet the code calls verified another operator's pays only on the MPP
\* rail, beside a token, or on an answer without a decision (_enforce_signer_match,
\* 1814-1872).
THEOREM PayersAreClaimants == Spec => []PayerIsClaimant
<1>1. ASSUME CheckoutInv, NEW c \in Strangers, captured[c] # None, c \notin MppCreds,
             gated[charged_by[c]].status = "verified", ident[charged_by[c]] = "wallet"
      PROVE  ~gated[charged_by[c]].decided
  <2> DEFINE r == charged_by[c]
  <2>1. c \in Creds
    BY <1>1, CheckoutAssumption DEF CheckoutInv, TypeOK, Strangers
  <2>2. cred[r] = c /\ VerdictGood(r, gated[r])
    BY <1>1, <2>1, ChargedLeg
  <2>3. SignerPassed(r)
    BY <1>1, <2>1, <2>2, CheckoutAssumption DEF SignerPassed, Mpp
  <2> QED BY <1>1, <2>2, <2>3 DEF VerdictGood
<1>2. CheckoutInv => PayerIsClaimant
  BY <1>1 DEF PayerIsClaimant
<1> QED BY <1>2, InvHolds, PTL

-----------------------------------------------------------------------------
(* The refinement of PaidOrders. *)

\* A request is billed once it is priced, and what is signed names a price that
\* some 402 has named.
Billed ==
  /\ \A r \in Requests : pc[r] \in {"idle", "gate", "price"} => price[r] = None
  /\ \A c \in Creds : signed[c] # None => signed[c].price \in {o.price : o \in offers}

OrdersInv == CheckoutInv /\ Billed

\* What keeps bills and prices: a step that prices nothing, signs nothing, takes
\* back no offer and takes no request back to before its pricing.
LEMMA BillsKept ==
  ASSUME Billed, UNCHANGED <<price, signed>>, offers \subseteq offers',
         \A q \in Requests : pc'[q] \in {"idle", "gate", "price"} => pc[q] \in {"idle", "gate", "price"}
  PROVE  Billed'
  BY DEF Billed

LEMMA BilledStep ==
  ASSUME OrdersInv, [Next]_vars
  PROVE  Billed'
<1>1. TypeOK /\ Billed
  BY DEF OrdersInv, CheckoutInv
<1> USE DEF Go, Answer, moneyVars, requestVars, cacheVars
<1>2. ASSUME NEW r \in Requests, Arrive(r) PROVE Billed'
  BY <1>1, <1>2, BillsKept DEF Arrive, Dismiss, Discover, AskForSession, Pay, TypeOK
<1>3. ASSUME NEW r \in Requests, pc[r] = "gate", RunGate(r) PROVE Billed'
  <2>1. \/ Deny(r)
        \/ \E v \in Verdicts : /\ VerdictGood(r, v)
                               /\ Go(r, "gate", "price")
                               /\ gated' = [gated EXCEPT ![r] = v]
                               /\ UNCHANGED <<setup, cred, ident, price, payee, answer, cacheVars, offers, moneyVars>>
    BY <1>1, <1>3, GatePassesGoodVerdicts
  <2> QED BY <1>1, <2>1, BillsKept DEF Deny, TypeOK
<1>4. ASSUME NEW r \in Requests, NEW p \in setup.prices, Price(r, p) PROVE Billed'
  <2>1. PICK x \in {"challenge", "mint", "settled"} : pc' = [pc EXCEPT ![r] = x]
    BY <1>4 DEF Price
  <2>2. pc'[r] = x /\ \A q \in Requests \ {r} : pc'[q] = pc[q] /\ price'[q] = price[q]
    BY <1>1, <1>4, <2>1 DEF Price, TypeOK
  <2> QED BY <1>1, <1>4, <2>2 DEF Billed, Price
<1>5. ASSUME NEW r \in Requests, Mint(r) \/ HookRaises(r) PROVE Billed'
  BY <1>1, <1>5, BillsKept DEF Mint, HookRaises, TypeOK
<1>6. ASSUME NEW r \in Requests, Misdirected(r) \/ SkipSettle(r) \/ VerifyPasses(r) \/ VerifyFails(r)
      PROVE  Billed'
  BY <1>1, <1>6, BillsKept DEF Misdirected, SkipSettle, VerifyPasses, VerifyFails, TypeOK
<1>7. ASSUME NEW r \in Requests, SettleReturns(r) \/ SettleRaises(r) PROVE Billed'
  BY <1>1, <1>7, BillsKept DEF SettleReturns, SettleRaises, TypeOK
<1>8. ASSUME NEW r \in Requests,
             ComposeCharges(r) \/ ComposeRejects(r) \/ ComposeTimesOut(r) \/ ComposeRaises(r)
      PROVE  Billed'
  BY <1>1, <1>8, BillsKept DEF ComposeCharges, ComposeRejects, ComposeTimesOut, ComposeRaises, TypeOK
<1>9. ASSUME NEW r \in Requests, Respond(r) \/ Challenge(r) \/ ChallengeFails(r) PROVE Billed'
  BY <1>1, <1>9, BillsKept DEF Respond, Challenge, ChallengeFails, TypeOK
<1>10. ASSUME NEW c \in Creds, Sign(c) PROVE Billed'
  <2>1. PICK p \in {o.price : o \in offers}, a \in ({o.payTo : o \in offers} \ {None}) \cup {Foreign} :
          signed' = [signed EXCEPT ![c] = [price |-> p, payTo |-> a]]
    BY <1>10 DEF Sign
  <2>2. signed'[c].price = p /\ \A d \in Creds \ {c} : signed'[d] = signed[d]
    BY <1>1, <2>1 DEF TypeOK
  <2> QED BY <1>1, <1>10, <2>1, <2>2 DEF Billed, Sign
<1>11. CASE (\E a \in known : Lapse(a)) \/ UNCHANGED vars
  BY <1>1, <1>11 DEF Billed, Lapse, vars
<1> QED BY <1>2, <1>3, <1>4, <1>5, <1>6, <1>7, <1>8, <1>9, <1>10, <1>11 DEF Next, Step

-----------------------------------------------------------------------------
\* What each answer makes of an order.
LEMMA Becomings ==
  /\ Became(None) = "open"
  /\ \A a \in {"completed", "unrecorded"} : Became(a) = "fulfilled"
  /\ \A a \in Refusals \ {"settle_failed"} : Became(a) = "refused"
  /\ \A a \in {"settle_failed", "pending", "broken"} : Became(a) \in Promise!Unanswered
  BY NoneAssumption DEF Became, Answers, Refusals, Promise!Unanswered

\* What a request was answered with ends its order; until then it is open.
LEMMA AnswerEnds ==
  ASSUME TypeOK, NEW r \in Requests, answer[r] = None, NEW a \in Answers, Answer(r, a)
  PROVE  OrderState[r] = "open" /\ OrderState' = [OrderState EXCEPT ![r] = Became(a)]
<1>1. OrderState[r] = "open"
  BY Becomings DEF OrderState
<1>2. OrderState' = [OrderState EXCEPT ![r] = Became(a)]
  BY DEF OrderState, Answer, TypeOK
<1> QED BY <1>1, <1>2

\* A leg that is not past the money has not been charged.
LEMMA Uncharged ==
  ASSUME CheckoutInv, NEW r \in Requests, pc[r] \notin {"settled", "done"}
  PROVE  ~Promise!PaidFor(r)
<1> SUFFICES ASSUME NEW c \in Creds, captured[c] # None, charged_by[c] = r PROVE FALSE
  BY DEF Promise!PaidFor, Charges
<1>1. r # None
  BY CheckoutAssumption
<1> QED BY <1>1 DEF CheckoutInv, Money

\* The order of a leg that ends uncharged, before the money, is refused.
LEMMA EndRefuses ==
  ASSUME CheckoutInv, NEW r \in Requests, NEW a \in Refusals \ {"settle_failed"},
         pc[r] \notin {"settled", "done"}, Answer(r, a),
         UNCHANGED <<setup, price, offers, moneyVars>>
  PROVE  Promise!PONext
<1>1. TypeOK /\ answer[r] = None /\ a \in Answers
  BY DEF CheckoutInv, LegStage, Answers, Mpp
<1>2. Became(a) = "refused"
  BY <1>1, Becomings DEF Refusals
<1>3. Promise!End(r, "refused")
  BY <1>1, <1>2, AnswerEnds DEF Promise!End
<1>4. ~Promise!PaidFor(r)
  BY Uncharged
<1>5. UNCHANGED Charges
  BY DEF Charges, moneyVars, cacheVars
<1>6. Promise!Refuse(r)
  BY <1>3, <1>4, <1>5 DEF Promise!Refuse, Named, Shown, Unbound
<1> QED BY <1>6 DEF Promise!PONext

\* A transfer is a charge of the order that its leg is, at what it was billed.
LEMMA TransferCharges ==
  ASSUME OrdersInv, NEW r \in Requests, pc[r] \in {"settle", "compose"}, Transfer(r),
         signed[cred[r]].price = price[r], signed[cred[r]].payTo = Foreign => Unbound,
         NEW a \in {"settle_failed", "pending", "broken"}, answer' = answer \/ Answer(r, a),
         UNCHANGED <<setup, price, offers>>
  PROVE  Promise!PONext
<1> DEFINE c == cred[r]
           to == signed[c].payTo
<1>1. /\ TypeOK /\ answer[r] = None /\ c \in Creds /\ signed[c] # None /\ signed[c] \in Terms
      /\ signed[c].price \in {o.price : o \in offers}
  BY DEF OrdersInv, Billed, CheckoutInv, LegStage, TypeOK, Mpp
<1>2. to \in Shown \/ (Unbound /\ to = Foreign)
  <2>1. to # None
    BY <1>1, CheckoutAssumption DEF Terms, PayTos
  <2> QED BY <1>1, <2>1 DEF OrdersInv, CheckoutInv, Offering, Shown
<1>3. /\ captured[c] = None
      /\ captured' = [captured EXCEPT ![c] = signed[c]] /\ charged_by' = [charged_by EXCEPT ![c] = r]
  BY DEF Transfer
<1>4. Charges' = Charges \cup {[cred |-> c, order |-> r, price |-> price[r], payTo |-> to]}
  <2>1. captured'[c] = signed[c] /\ charged_by'[c] = r
    BY <1>1, <1>3 DEF TypeOK
  <2>2. \A d \in Creds \ {c} : captured'[d] = captured[d] /\ charged_by'[d] = charged_by[d]
    BY <1>1, <1>3 DEF TypeOK
  <2> DEFINE x(d) == [cred |-> d, order |-> charged_by[d], price |-> captured[d].price, payTo |-> captured[d].payTo]
             y(d) == [cred |-> d, order |-> charged_by'[d], price |-> captured'[d].price, payTo |-> captured'[d].payTo]
             A == {d \in Creds : captured[d] # None}
             B == {d \in Creds : captured'[d] # None}
  <2>3. B = A \cup {c} /\ \A d \in A : y(d) = x(d)
    BY <1>1, <1>3, <2>1, <2>2
  <2>4. y(c) = [cred |-> c, order |-> r, price |-> price[r], payTo |-> to]
    BY <2>1
  <2>5. Charges = {x(d) : d \in A} /\ Charges' = {y(d) : d \in B}
    BY DEF Charges
  <2> HIDE DEF x, y, A, B
  <2> QED BY <2>3, <2>4, <2>5
<1>5. ~Promise!Spent(c) /\ ~Promise!PaidFor(r)
  <2>1. ~Promise!Spent(c)
    BY <1>3 DEF Promise!Spent, Charges
  <2> QED BY <2>1, Uncharged DEF OrdersInv
<1>6. OrderState[r] = "open"
  BY <1>1, Becomings DEF OrderState
<1>7. \/ OrderState' = OrderState
      \/ \E s \in Promise!Unanswered : OrderState' = [OrderState EXCEPT ![r] = s]
  <2>1. CASE answer' = answer
    BY <2>1 DEF OrderState
  <2>2. CASE Answer(r, a)
    <3>1. a \in Answers /\ Became(a) \in Promise!Unanswered
      BY Becomings DEF Answers, Refusals, Promise!Unanswered
    <3>2. OrderState' = [OrderState EXCEPT ![r] = Became(a)]
      BY <1>1, <2>2, <3>1, AnswerEnds
    <3> QED BY <3>1, <3>2
  <2> QED BY <2>1, <2>2
<1> HIDE DEF c, to
<1>8. price[r] \in Named /\ UNCHANGED <<setup.zero, ~Unbound, price, Named, Shown>>
  BY <1>1 DEF Named, Shown, Unbound, c
<1>9. Promise!Charge(c, r)
  BY <1>2, <1>4, <1>5, <1>6, <1>7, <1>8 DEF Promise!Charge, Promise!End
<1> QED BY <1>1, <1>9 DEF Promise!PONext

\* A leg that ends past the money, or may be, without a charge leaves doubt.
LEMMA EndDoubts ==
  ASSUME CheckoutInv, NEW r \in Requests, NEW a \in {"settle_failed", "pending", "broken"},
         pc[r] \in {"settle", "compose"}, Answer(r, a), NoTransfer,
         UNCHANGED <<setup, price, offers>>
  PROVE  Promise!PONext
<1>1. TypeOK /\ answer[r] = None /\ a \in Answers
  BY DEF CheckoutInv, LegStage, Answers, Refusals
<1>2. Became(a) \in Promise!Unanswered
  BY <1>1, Becomings DEF Refusals, Promise!Unanswered
<1>3. \E s \in Promise!Unanswered : Promise!End(r, s)
  BY <1>1, <1>2, AnswerEnds DEF Promise!End
<1>4. UNCHANGED <<Charges, Named, Shown, ~Unbound>>
  BY DEF Charges, NoTransfer, Named, Shown, Unbound
<1>5. Promise!Doubt(r)
  BY <1>3, <1>4, Uncharged DEF Promise!Doubt
<1> QED BY <1>5 DEF Promise!PONext

\* A 402 offers what its request was billed at, at an address of the merchant's.
LEMMA ChallengeOffers ==
  ASSUME CheckoutInv, NEW r \in Requests, Challenge(r)
  PROVE  Promise!PONext
<1>1. TypeOK /\ answer[r] = None /\ pc[r] = "challenge" /\ price[r] \in Prices /\ "402" \in Answers
  BY DEF Challenge, CheckoutInv, LegStage, Answers, Refusals
<1>2. RecipientKnown(r) /\ ResolveRecipients(r) /\ UNCHANGED <<setup, price, moneyVars>>
  BY DEF Challenge, ResolveRecipients
<1>3. PICK to : to = Offered(Recipient(r))
  OBVIOUS
<1>4. to \in PayTos \ {Foreign} \/ (to = None /\ Unbound)
  <2>1. setup.to \in Recipients /\ (setup.to.cache => setup.to.mint # "none")
    BY <1>1, CheckoutAssumption DEF TypeOK
  <2>2. /\ Recipient(r) \in Requests \cup {PerOrder, None}
        /\ setup.to.mint # "none" => Recipient(r) # None
    BY <1>2, RecipientIsOwn
  <2> QED BY <1>3, <2>1, <2>2, CheckoutAssumption DEF Offered, PayTos, Unbound, Recipients
<1>5. Became("402") = "refused"
  BY <1>1, Becomings DEF Refusals
<1>6. Promise!End(r, "refused")
  BY <1>1, <1>5, AnswerEnds DEF Challenge, Promise!End
<1>7. price[r] # None /\ ~Promise!PaidFor(r)
  BY <1>1, Uncharged, CheckoutAssumption
<1>8. offers' = offers \cup {[price |-> price[r], payTo |-> to]}
  BY <1>3 DEF Challenge
<1>9. Named' = Named \cup {price[r]} /\ Shown' = Shown \cup ({to} \ {None})
  <2> DEFINE o == [price |-> price[r], payTo |-> to]
  <2>1. offers' = offers \cup {o} /\ o.price = price[r] /\ o.payTo = to
    BY <1>8
  <2> HIDE DEF o
  <2> QED BY <2>1 DEF Named, Shown
<1>10. UNCHANGED <<setup.zero, ~Unbound, price, Charges>>
  BY <1>2 DEF Charges, Unbound, moneyVars
<1>11. \/ \E a \in PayTos \ {Foreign} : Shown' = Shown \cup {a}
       \/ Unbound /\ UNCHANGED Shown
  BY <1>4, <1>9, CheckoutAssumption DEF PayTos
<1>12. Promise!Offer(r)
  BY <1>6, <1>7, <1>9, <1>10, <1>11 DEF Promise!Offer
<1> QED BY <1>12 DEF Promise!PONext

\* An order that is recorded was charged to its leg, or is given away.
LEMMA RespondFulfils ==
  ASSUME CheckoutInv, NEW r \in Requests, Respond(r)
  PROVE  Promise!PONext
<1>1. /\ TypeOK /\ answer[r] = None /\ pc[r] = "settled"
      /\ UNCHANGED <<setup, price, offers, captured, charged_by>>
  BY DEF Respond, moneyVars, CheckoutInv, LegStage, Mpp, cacheVars
<1>2. PICK a \in {"completed", "unrecorded"} : Answer(r, a)
  BY DEF Respond
<1>3. a \in Answers /\ Became(a) = "fulfilled"
  BY Becomings DEF Answers
<1>4. Promise!End(r, "fulfilled")
  BY <1>1, <1>2, <1>3, AnswerEnds DEF Promise!End
<1>5. Promise!PaidFor(r) \/ (setup.zero /\ price[r] = 0)
  <2>1. CASE CarvedOut(r)
    BY <2>1 DEF CarvedOut, Free
  <2>2. CASE ~CarvedOut(r)
    <3>1. /\ cred[r] \in Creds /\ charged_by[cred[r]] = r /\ r # None
          /\ captured[cred[r]] # None
      BY <1>1, <2>2, CheckoutAssumption DEF CheckoutInv, LegPaid, LegStage, Money, Mpp
    <3> DEFINE x == [cred |-> cred[r], order |-> charged_by[cred[r]],
                     price |-> captured[cred[r]].price, payTo |-> captured[cred[r]].payTo]
    <3>2. x \in Charges /\ x.order = r
      BY <3>1 DEF Charges
    <3> HIDE DEF x
    <3> QED BY <3>2 DEF Promise!PaidFor
  <2> QED BY <2>1, <2>2
<1>6. UNCHANGED <<setup.zero, ~Unbound, price, Named, Shown, Charges>>
  BY <1>1 DEF Named, Shown, Charges, Unbound
<1>7. Promise!Fulfil(r)
  BY <1>4, <1>5, <1>6 DEF Promise!Fulfil
<1> QED BY <1>7 DEF Promise!PONext

\* A priced request is a billed order.
LEMMA PriceBills ==
  ASSUME OrdersInv, NEW r \in Requests, NEW p \in setup.prices, Price(r, p)
  PROVE  Promise!PONext
<1>1. pc[r] = "price" /\ answer[r] = None /\ price[r] = None /\ p \in Prices
  BY CheckoutAssumption DEF Price, Go, OrdersInv, Billed, CheckoutInv, LegStage, TypeOK, Mpp
<1>2. OrderState[r] = "open"
  BY <1>1, Becomings DEF OrderState
<1>3. UNCHANGED <<setup.zero, ~Unbound, Named, Shown, Charges, OrderState>> /\ price' = [price EXCEPT ![r] = p]
  BY DEF Price, moneyVars, Named, Shown, Charges, OrderState, Unbound
<1>4. Promise!Bill(r)
  BY <1>1, <1>2, <1>3 DEF Promise!Bill
<1> QED BY <1>4 DEF Promise!PONext

\* Every step of the checkout is one of the promise, or none.
LEMMA OrdersSimulation ==
  ASSUME OrdersInv, [Next]_vars
  PROVE  Promise!PONext \/ UNCHANGED Promise!povars
<1>0. CheckoutInv /\ TypeOK
  BY DEF OrdersInv, CheckoutInv
<1>1. ASSUME UNCHANGED <<setup, price, offers, captured, charged_by, answer>>
      PROVE  UNCHANGED Promise!povars
  BY <1>1 DEF Promise!povars, Named, Shown, Charges, OrderState, Unbound
<1>2. ASSUME NEW r \in Requests, Arrive(r) PROVE Promise!PONext \/ UNCHANGED Promise!povars
  <2>1. CASE Dismiss(r)
    <3>1. PICK a \in {"sample", "invalid"} : Answer(r, a)
      BY <2>1 DEF Dismiss
    <3> QED BY <1>0, <2>1, <3>1, EndRefuses DEF Dismiss, Refusals
  <2>2. CASE Discover(r) \/ AskForSession(r) \/ \E c \in Creds, i \in Idents : Pay(r, c, i)
    BY <1>1, <2>2 DEF Discover, AskForSession, Pay, moneyVars, cacheVars
  <2> QED BY <1>2, <2>1, <2>2 DEF Arrive
<1>3. ASSUME NEW r \in Requests, pc[r] = "gate", RunGate(r)
      PROVE  Promise!PONext \/ UNCHANGED Promise!povars
  <2>1. CASE Deny(r)
    BY <1>0, <2>1, EndRefuses DEF Deny, Refusals
  <2>2. CASE \E v \in Verdicts : /\ VerdictGood(r, v)
                                 /\ Go(r, "gate", "price")
                                 /\ gated' = [gated EXCEPT ![r] = v]
                                 /\ UNCHANGED <<setup, cred, ident, price, payee, answer, cacheVars, offers, moneyVars>>
    BY <1>1, <2>2 DEF moneyVars, cacheVars
  <2> QED BY <1>0, <1>3, <2>1, <2>2, GatePassesGoodVerdicts
<1>4. ASSUME NEW r \in Requests, Mint(r) \/ SkipSettle(r) \/ VerifyPasses(r) PROVE UNCHANGED Promise!povars
  BY <1>1, <1>4 DEF Mint, SkipSettle, VerifyPasses, moneyVars, cacheVars
<1>5. ASSUME NEW r \in Requests,
             HookRaises(r) \/ Misdirected(r) \/ VerifyFails(r) \/ ComposeRejects(r) \/ ChallengeFails(r)
      PROVE  Promise!PONext
  <2>1. PICK a \in Refusals \ {"settle_failed"} :
          /\ pc[r] \notin {"settled", "done"} /\ Answer(r, a)
          /\ UNCHANGED <<setup, price, offers, moneyVars>>
    BY <1>5 DEF HookRaises, Misdirected, VerifyFails, ComposeRejects, ChallengeFails, Refusals
  <2> QED BY <1>0, <2>1, EndRefuses
<1>6. ASSUME NEW r \in Requests, Transfer(r),
             SettleReturns(r) \/ SettleRaises(r) \/ ComposeCharges(r) \/ ComposeTimesOut(r) \/ ComposeRaises(r)
      PROVE  Promise!PONext
  <2>1. pc[r] \in {"settle", "compose"} /\ UNCHANGED <<setup, price, offers>>
    BY <1>6 DEF SettleReturns, SettleRaises, ComposeCharges, ComposeTimesOut, ComposeRaises, Go
  <2>2. signed[cred[r]].price = price[r] /\ Payable(cred[r], signed[cred[r]].payTo)
    <3>1. CASE pc[r] = "settle"
      BY <1>0, <3>1 DEF CheckoutInv, LegBound, Refusable
    <3>2. CASE pc[r] = "compose"
      <4>1. ChallengeMet(r) \/ NoTransfer
        BY <1>6, <3>2 DEF SettleReturns, SettleRaises, ComposeCharges, ComposeTimesOut, ComposeRaises, Go
      <4>2. ~NoTransfer
        <5>1. cred[r] \in Creds /\ r # None
          BY <1>0, <3>2, CheckoutAssumption DEF CheckoutInv, LegStage, Mpp
        <5>2. charged_by'[cred[r]] = r /\ captured[cred[r]] = None
          BY <1>0, <1>6, <5>1 DEF Transfer, TypeOK
        <5> QED BY <1>0, <5>1, <5>2 DEF NoTransfer, CheckoutInv, Money
      <4> QED BY <1>0, <3>2, <4>1, <4>2, ChallengeIsOwn DEF Payable
    <3> QED BY <2>1, <3>1, <3>2
  <2>3. signed[cred[r]].payTo = Foreign => Unbound
    <3>1. Foreign \notin Requests \cup {PerOrder, Static} /\ Minted \subseteq Requests \cup {PerOrder}
      BY <1>0, CheckoutAssumption DEF TypeOK, Minted
    <3> QED BY <2>2, <3>1 DEF Payable, Own
  <2>4. PICK a \in {"settle_failed", "pending", "broken"} : answer' = answer \/ Answer(r, a)
    BY <1>6 DEF SettleReturns, SettleRaises, ComposeCharges, ComposeTimesOut, ComposeRaises
  <2> QED BY <1>6, <2>1, <2>2, <2>3, <2>4, TransferCharges
<1>7. ASSUME NEW r \in Requests, NoTransfer, SettleRaises(r) \/ ComposeTimesOut(r) \/ ComposeRaises(r)
      PROVE  Promise!PONext
  <2>1. PICK a \in {"settle_failed", "pending", "broken"} :
          pc[r] \in {"settle", "compose"} /\ Answer(r, a) /\ UNCHANGED <<setup, price, offers>>
    BY <1>7 DEF SettleRaises, ComposeTimesOut, ComposeRaises
  <2> QED BY <1>0, <1>7, <2>1, EndDoubts
<1>8. ASSUME NEW r \in Requests,
             SettleReturns(r) \/ SettleRaises(r) \/ ComposeCharges(r) \/ ComposeTimesOut(r) \/ ComposeRaises(r)
      PROVE  Promise!PONext
  <2>1. \/ Transfer(r)
        \/ NoTransfer /\ (SettleRaises(r) \/ ComposeTimesOut(r) \/ ComposeRaises(r))
    BY <1>8 DEF SettleReturns, SettleRaises, ComposeCharges, ComposeTimesOut, ComposeRaises
  <2> QED BY <1>6, <1>7, <1>8, <2>1
<1>9. ASSUME NEW r \in Requests, Step(r) PROVE Promise!PONext \/ UNCHANGED Promise!povars
  BY <1>0, <1>3, <1>4, <1>5, <1>8, <1>9, PriceBills, RespondFulfils, ChallengeOffers DEF Step
<1>10. CASE (\E c \in Creds : Sign(c)) \/ (\E a \in known : Lapse(a)) \/ UNCHANGED vars
  BY <1>1, <1>10 DEF Sign, Lapse, moneyVars, requestVars, vars
<1> QED BY <1>2, <1>9, <1>10 DEF Next

\* The checkout keeps the promise of PaidOrders: a request is billed once,
\* charged at most once, on a price that a 402 has named and to an address that
\* one has shown, if there is any to bind it to, and what a charge left open is
\* never called a refusal (Checkout.handle, 994-1171).
THEOREM OrdersImplemented == Spec => ImplementsPaidOrders
<1>1. Init => OrdersInv /\ Promise!POInit
  <2> SUFFICES ASSUME Init PROVE OrdersInv /\ Promise!POInit
    OBVIOUS
  <2>1. CheckoutInv /\ Billed
    BY InitEstablishesInv DEF Init, Billed
  <2>2. setup.zero \in BOOLEAN
    BY CheckoutAssumption DEF Init
  <2>3. Named = {} /\ Shown = {} /\ Charges = {} /\ OrderState = [r \in Requests |-> "open"]
    BY Becomings DEF Init, Named, Shown, Charges, OrderState
  <2>4. (~Unbound) \in BOOLEAN
    BY DEF Unbound
  <2> QED BY <2>1, <2>2, <2>3, <2>4 DEF Init, OrdersInv, Promise!POInit
<1>2. OrdersInv /\ [Next]_vars => OrdersInv'
  BY NextKeepsInv, BilledStep DEF OrdersInv
<1>3. OrdersInv /\ [Next]_vars => [Promise!PONext]_(Promise!povars)
  BY OrdersSimulation
<1> QED BY <1>1, <1>2, <1>3, PTL DEF Spec, ImplementsPaidOrders, Promise!POSpec
=============================================================================

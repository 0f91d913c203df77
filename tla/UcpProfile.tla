----------------------------- MODULE UcpProfile -----------------------------
(***************************************************************************)
(* The signed UCP profile of a merchant: the process that serves it and its *)
(* JWKS under /.well-known (checkout.py, discovery/well_known.py), the key  *)
(* they share (identity/ucp_jwks.py), and a verifier that keeps what it has *)
(* fetched for as long as Cache-Control lets it, and calls                  *)
(* verify_ucp_profile.                                                      *)
(*                                                                          *)
(* A process lives until it is restarted, perhaps with another environment. *)
(* Within a life the signing key, the x402 and MPP servers and the Redis    *)
(* client are the getters of LazyOnce.  Without a key in the environment    *)
(* each life makes one up.                                                  *)
(***************************************************************************)
EXTENDS LazyOnce, Naturals, Sequences

CONSTANTS
  KeyGetter,       \* the getter of the signing key
  Envs, Sites,     \* the environments of the lives, and what the merchant configured
  Deployments,     \* framework, first environment and configuration of a process
  Materials, Kids, \* what the key of an environment is made of
  DefaultKid,      \* UCP_SIGNING_KEY_KID, or the signing_kid of the mount
  NoKid,           \* no kid, or an empty one
  ForeignProfiles, \* what a verifier is handed by others
  ForeignKeySets,
  ProfileAge,      \* max-age of the two documents, in ticks
  JwksAge,
  MaxLives,
  Earlier          \* call -> the calls before it: requests come in some order

Algs == {"EdDSA", "ES256"}
EnvSet == [jwk : {"unset", "malformed", "key"}, mat : Materials, kid : Kids \cup {NoKid}, alg : Algs]

RailKinds == {"tempo", "tempo_session", "solana", "x402", "stripe"}
SiteSet == [rails : SUBSET RailKinds, gate : BOOLEAN,
            services : {"plain", "no_endpoint", "reserved", "float", "int_keys"}]

ASSUME UcpAssumption ==
  /\ KeyGetter \in Getters \ (AsyncGetters \cup RedisGetters)
  /\ Envs \subseteq EnvSet /\ Sites \subseteq SiteSet /\ Deployments \subseteq Frames \X Envs \X Sites
  /\ DefaultKid \in Kids /\ NoKid \notin Kids /\ None \notin Algs
  /\ ProfileAge \in Nat \ {0} /\ JwksAge \in Nat \ {0} /\ ProfileAge <= JwksAge
  /\ MaxLives \in Nat \ {0}
  /\ Earlier \in [Calls -> SUBSET Calls]
  /\ \A p \in ForeignProfiles : /\ p.sig.form \in {"none", "junk", "jws"}
                               /\ p.sig.crit \in {"absent", "malformed", "names"}
  /\ \A keys \in ForeignKeySets : IsFiniteSet(DOMAIN keys)

VARIABLES
  env, site,       \* of this life, and of all of them
  life,            \* how often the process was started
  wants,           \* call -> what its request is for
  over,            \* the calls whose request has been answered, or cut off
  keyAt,           \* call -> the key it made or loaded, or None
  profile, jwks,   \* the verifier's copies of this merchant's documents, or None
  since            \* ticks since the key of the process last changed, up to JwksAge

ucpVars == <<env, site, life, wants, over, keyAt, profile, jwks, since>>
vars == <<lazyVars, ucpVars>>

-----------------------------------------------------------------------------
(* The key. *)

\* What a call makes of the environment: the key it holds, under the default
\* kid where it has none of its own; or, without one, a new key.
KeyOf(c) ==
  IF env.jwk = "key"
  THEN [mat |-> env.mat, kid |-> IF env.kid = NoKid THEN DefaultKid ELSE env.kid, alg |-> env.alg]
  ELSE [mat |-> <<life, c>>, kid |-> DefaultKid, alg |-> env.alg]

\* _build_env_signing_key raises for what is no key, whoever asks.
BuildEnvSigningKey(c) ==
  /\ getter[c] = KeyGetter
  /\ \/ env.jwk # "malformed" /\ Construct(c) /\ keyAt' = [keyAt EXCEPT ![c] = KeyOf(c)]
     \/ env.jwk = "malformed" /\ ConstructRaises(c) /\ UNCHANGED keyAt
  /\ UNCHANGED <<env, site, life, wants, over, profile, jwks, since>>

-----------------------------------------------------------------------------
(* Building and signing. *)

ComposeHandlers(rails) ==
  {h \in {"mpp", "x402", "stripe_spt"} :
     \/ h = "mpp" /\ rails \cap {"tempo", "tempo_session", "solana"} # {}
     \/ h = "x402" /\ "x402" \in rails
     \/ h = "stripe_spt" /\ "stripe" \in rails}

\* A service without an endpoint, or with a reserved name among its extras,
\* is refused when the profile becomes a dict; the gate is one more capability.
ToDictRaises(s) == s.services \in {"no_endpoint", "reserved"}

BuildUcpProfile(s) ==
  [handlers |-> ComposeHandlers(s.rails), capability |-> s.gate, services |-> s.services]

\* What a body looks like to who has received it: json.dumps has made strings
\* of integer keys.
Received(b) == IF b.services = "int_keys" THEN [b EXCEPT !.services = "string_keys"] ELSE b

\* _canonicalize_profile sorts keys as they are: integers in another order
\* than the strings they become.  It refuses floats.
Canonicalises(b) == b.services # "float"

SignUcpProfile(k, b) ==
  [body |-> Received(b),
   sig |-> [form |-> "jws", typ |-> "profile", alg |-> k.alg, kid |-> k.kid, crit |-> "absent",
            by |-> k.mat, over |-> b]]

\* Slip: the key set is made from the environment, not from the loaded key.
BuildJwksOfEnv(c) ==
  LET k == KeyOf(c) IN <<[mat |-> k.mat, kind |-> k.alg, kid |-> k.kid, alg |-> k.alg, use |-> "sig"]>>

\* The kind of a key is the algorithm it can be used with; its own alg says so,
\* which another merchant's may leave out.
BuildJwksResponse(c) ==
  LET k == keyAt[got[c]] IN <<[mat |-> k.mat, kind |-> k.alg, kid |-> k.kid, alg |-> k.alg, use |-> "sig"]>>

-----------------------------------------------------------------------------
(* Serving. *)

\* What the mounted routes make of a method: the document behind the path, the
\* CORS preflight, or nothing.  (Methods the frameworks add to GET by themselves
\* are theirs.)  Django's two views have a path and no methods.
Methods == {"GET", "OPTIONS", "POST"}
MountUcpRoutesFastapi == [GET |-> "document", OPTIONS |-> "preflight", POST |-> "refused"]
MountUcpRoutesFlask   == [GET |-> "document", OPTIONS |-> "preflight", POST |-> "refused"]
MountUcpRoutesDjango  == [GET |-> "document", OPTIONS |-> "preflight", POST |-> "document"]
MountUcpRoutesAiohttp == [GET |-> "document", OPTIONS |-> "preflight", POST |-> "refused"]
MountUcpRoutesSanic   == [GET |-> "document", OPTIONS |-> "preflight", POST |-> "refused"]

Routes ==
  CASE frame = "fastapi" -> MountUcpRoutesFastapi [] frame = "flask" -> MountUcpRoutesFlask
    [] frame = "django" -> MountUcpRoutesDjango [] frame = "aiohttp" -> MountUcpRoutesAiohttp
    [] OTHER -> MountUcpRoutesSanic

Fresh(doc) == [doc |-> doc, age |-> 0]

\* A request is over: what it held is gone with it.
End(c) ==
  /\ over' = over \cup {c}
  /\ pc' = [pc EXCEPT ![c] = "idle"]
  /\ getter' = [getter EXCEPT ![c] = None]
  /\ got' = [got EXCEPT ![c] = None]
  /\ wants' = [wants EXCEPT ![c] = "nothing"]
  /\ UNCHANGED <<frame, cache, locked, bound, woken, attempted, env, site, life, keyAt, since>>

\* A deployment that loads the key in its startup does so before any request.
Arrives(c) ==
  /\ pc[c] = "idle" /\ c \notin over
  /\ \A d \in Calls : wants[d] # "boot"
  /\ \A d \in Earlier[c] : wants[d] # "nothing" \/ d \in over

\* A request asks for the getter it needs.  The verifier fetches a document
\* when it holds none that is fresh, and once at a time.
Ask(c, w) ==
  /\ Arrives(c)
  /\ w \in {"profile", "jwks"} => \E m \in Methods : Routes[m] = "document"
  /\ CASE w = "boot"    -> Look(c, KeyGetter) /\ \A d \in Calls : wants[d] = "nothing"
       [] w = "profile" -> Look(c, KeyGetter) /\ ComposeHandlers(site.rails) # {}
                           /\ profile = None /\ \A d \in Calls : wants[d] # w
       [] w = "jwks"    -> Look(c, KeyGetter) /\ jwks = None /\ \A d \in Calls : wants[d] # w
       [] OTHER         -> \E g \in Getters \ {KeyGetter} : Look(c, g) \/ Attempt(c, g)
  /\ wants' = [wants EXCEPT ![c] = w]
  /\ UNCHANGED <<env, site, life, over, keyAt, profile, jwks, since>>

\* Answered without the key, and so at once.
AnsweredAtOnce(c) ==
  /\ Arrives(c)
  /\ over' = over \cup {c}
  /\ UNCHANGED <<lazyVars, env, site, life, wants, keyAt, profile, jwks, since>>

\* /.well-known/ucp without a payment handler never comes to the key: a 503.
Misconfigured(c) == ComposeHandlers(site.rails) = {} /\ AnsweredAtOnce(c)

\* A preflight is a 204, whatever is wrong with key, rails and services; what
\* is not routed is the framework's 405.
Preflight(c) == (\E m \in Methods : Routes[m] # "document") /\ AnsweredAtOnce(c)

\* A signed profile for the verifier, or a 500.
ServeProfile(c) ==
  LET b == BuildUcpProfile(site) IN
  /\ pc[c] = "done" /\ wants[c] = "profile" /\ got[c] \in Calls
  /\ IF ~ToDictRaises(site) /\ Canonicalises(b)
     THEN profile' = Fresh(SignUcpProfile(keyAt[got[c]], b))
     ELSE UNCHANGED profile
  /\ End(c) /\ UNCHANGED jwks

ServeJwks(c) ==
  /\ pc[c] = "done" /\ wants[c] = "jwks" /\ got[c] \in Calls
  /\ jwks' = Fresh(BuildJwksResponse(c))
  /\ End(c) /\ UNCHANGED profile

\* The key is there at startup; or it cannot be loaded, which is a 500, and at
\* startup a process that never serves.
Booted(c) ==
  /\ pc[c] = "done" /\ wants[c] = "boot" /\ got[c] \in Calls
  /\ End(c) /\ UNCHANGED <<profile, jwks>>

KeyFails(c) ==
  /\ pc[c] = "done" /\ wants[c] \in {"profile", "jwks"} /\ got[c] \in Failed
  /\ End(c) /\ UNCHANGED <<profile, jwks>>

-----------------------------------------------------------------------------
(* verify_ucp_profile: its checks, in their order. *)

HeaderFault(s) ==
  IF s.form = "none" THEN "no_signature"
  ELSE IF s.form = "junk" THEN "malformed_jws"
  ELSE IF s.typ # "profile" THEN "wrong_typ"
  ELSE IF s.alg \notin Algs THEN "unsupported_alg"
  ELSE IF s.kid = NoKid THEN "missing_kid"
  ELSE IF s.crit = "malformed" THEN "malformed_jws"
  ELSE IF s.crit = "names" THEN "unrecognized_critical_header"
  ELSE "ok"

Named(s, keys) == {i \in DOMAIN keys : keys[i].kid = s.kid}
Usable(k, s) == k.use \in {None, "sig"} /\ k.alg \in {None, s.alg}

\* Slip: the first key of the name will do.
FirstKeyFault(s, keys) ==
  IF Named(s, keys) = {} THEN "kid_not_found"
  ELSE IF \E i \in Named(s, keys) : ~Usable(keys[i], s) THEN "unusable_key"
  ELSE "ok"

KeyFault(s, keys) ==
  IF Named(s, keys) = {} THEN "kid_not_found"
  ELSE IF Cardinality(Named(s, keys)) > 1 THEN "duplicate_kid"
  ELSE IF \E i \in Named(s, keys) : ~Usable(keys[i], s) THEN "unusable_key"
  ELSE "ok"

\* Only now is the body looked at, and then the signature.  Key material that
\* joserfc cannot import, or of another kind than the header's alg, raises what
\* is no UCPVerificationError.
Verify(p, keys) ==
  LET s == p.sig
      k == keys[CHOOSE i \in Named(s, keys) : TRUE]
  IN IF HeaderFault(s) # "ok" THEN HeaderFault(s)
     ELSE IF KeyFault(s, keys) # "ok" THEN KeyFault(s, keys)
     ELSE IF ~Canonicalises(p.body) THEN "body_mismatch"
     ELSE IF k.kind # s.alg THEN "raises"
     ELSE IF k.mat # s.by THEN "signature_invalid"
     ELSE IF s.over # p.body THEN "body_mismatch"
     ELSE "ok"

-----------------------------------------------------------------------------
Aged(copy, max) == IF copy = None \/ copy.age + 1 >= max THEN None ELSE [copy EXCEPT !.age = @ + 1]

Tick ==
  /\ profile # None \/ jwks # None \/ since < JwksAge
  /\ profile' = Aged(profile, ProfileAge)
  /\ jwks' = Aged(jwks, JwksAge)
  /\ since' = IF since = JwksAge THEN since ELSE since + 1
  /\ UNCHANGED <<lazyVars, env, site, life, wants, over, keyAt>>

NoCalls  == [c \in Calls |-> None]
NoGetter == [g \in Getters |-> None]

UcpInit ==
  /\ LazyInit
  /\ \E d \in Deployments : frame = d[1] /\ env = d[2] /\ site = d[3]
  /\ life = 1 /\ since = 0
  /\ wants = [c \in Calls |-> "nothing"]
  /\ over = {} /\ keyAt = NoCalls
  /\ profile = None /\ jwks = None

\* The process ends with all it holds, and starts again.  Its key is the old
\* one only if both environments hold it.
Restart ==
  /\ life < MaxLives
  /\ life' = life + 1
  /\ env' \in Envs
  /\ since' = IF env' = env /\ env.jwk = "key" THEN since ELSE 0
  /\ pc' = [c \in Calls |-> "idle"] /\ woken' = [c \in Calls |-> "no"]
  /\ getter' = NoCalls /\ got' = NoCalls
  /\ cache' = NoGetter /\ bound' = NoGetter /\ locked' = {} /\ attempted' = {}
  /\ wants' = [c \in Calls |-> "nothing"] /\ keyAt' = NoCalls
  /\ over' = over \cup {c \in Calls : wants[c] # "nothing"}
  /\ UNCHANGED <<frame, site, profile, jwks>>

Proceed(c) ==
  \/ BuildEnvSigningKey(c)
  \/ /\ \/ Acquire(c) \/ Queue(c) \/ Resume(c) \/ Recheck(c) \/ Connect(c)
        \/ getter[c] # KeyGetter /\ (Construct(c) \/ ConstructRaises(c))
     /\ UNCHANGED ucpVars
  \/ ServeProfile(c) \/ ServeJwks(c) \/ Booted(c) \/ KeyFails(c)

Next ==
  \/ \E c \in Calls :
       \/ Proceed(c) \/ Misconfigured(c) \/ Preflight(c)
       \/ \E w \in {"boot", "profile", "jwks", "server"} : Ask(c, w)
       \/ Cancel(c) /\ UNCHANGED ucpVars
  \/ Tick \/ Restart

Spec == UcpInit /\ [][Next]_vars
FairSpec == Spec /\ WF_vars(\E c \in Calls : Proceed(c))

-----------------------------------------------------------------------------
\* What a verified profile is supposed to be.
VouchedFor(p, keys) ==
  /\ p.sig.form = "jws" /\ p.sig.typ = "profile" /\ p.sig.crit = "absent" /\ p.sig.over = p.body
  /\ \E i \in DOMAIN keys :
       /\ keys[i].kid = p.sig.kid /\ p.sig.kid # NoKid
       /\ keys[i].mat = p.sig.by /\ keys[i].kind = p.sig.alg /\ Usable(keys[i], p.sig)
       /\ \A j \in DOMAIN keys \ {i} : keys[j].kid # p.sig.kid
  /\ p.sig.alg \in Algs /\ p.body.services # "float"

TellsOthersApart ==
  \A p \in ForeignProfiles, keys \in ForeignKeySets : Verify(p, keys) = "ok" <=> VouchedFor(p, keys)

\* A profile verifies exactly if the one key of that name in the key set, meant
\* for signatures of that kind, has signed the very body received: no header, no
\* other key of the set and no exchange of body or signature can make up for it.
\* Checked over what others hand to a verifier, and over this merchant's own
\* profile against any key set (ucp_jwks.py:348-535).
OkOnlyAsSigned ==
  /\ TellsOthersApart
  /\ profile # None =>
       \A keys \in ForeignKeySets \cup IF jwks = None THEN {} ELSE {jwks.doc} :
         Verify(profile.doc, keys) = "ok" <=> VouchedFor(profile.doc, keys)

\* However the two documents were fetched, by whichever of many first callers
\* the key was loaded, and whatever restarts lie between: once a key has been in
\* place for the life of a JWKS copy, what the verifier holds verifies; before,
\* it fails for the reason that the key changed, and no other.  Integer keys in
\* a profile never verify (well_known.py:57-58, ucp_jwks.py:666-668).
RotationHeals ==
  profile # None /\ jwks # None =>
    LET code == Verify(profile.doc, jwks.doc) IN
    \/ code = "ok"
    \/ code \in {"kid_not_found", "unusable_key", "signature_invalid"} /\ since < JwksAge
    \/ code = "body_mismatch" /\ profile.doc.body.services = "string_keys"
=============================================================================

------------------------------- MODULE MCUcp --------------------------------
EXTENDS UcpProfile, TLC

CONSTANTS m1, m2, c1, c2, c3

InOrder == c1 :> {} @@ c2 :> {c1} @@ c3 :> {c1, c2}

NoEnvKey  == [jwk |-> "unset", mat |-> m1, kid |-> NoKid, alg |-> "EdDSA"]
BadEnvKey == [NoEnvKey EXCEPT !.jwk = "malformed"]
EnvKey1   == [jwk |-> "key", mat |-> m1, kid |-> "k1", alg |-> "EdDSA"]
EnvKey2   == [jwk |-> "key", mat |-> m2, kid |-> NoKid, alg |-> "ES256"]
SomeEnvs  == {NoEnvKey, BadEnvKey, EnvKey1, EnvKey2}

Plain     == [rails |-> {"tempo", "x402", "stripe"}, gate |-> TRUE, services |-> "plain"]
IntKeys   == [rails |-> {"solana"}, gate |-> FALSE, services |-> "int_keys"]
Floats    == [rails |-> {"stripe"}, gate |-> FALSE, services |-> "float"]
NoRails   == [rails |-> {}, gate |-> FALSE, services |-> "plain"]
SomeSites == {Plain, IntKeys, Floats, NoRails}

SomeDeployments ==
  {<<"fastapi", NoEnvKey, Plain>>, <<"flask", EnvKey1, IntKeys>>,
   <<"django", EnvKey2, Floats>>, <<"sanic", BadEnvKey, NoRails>>, <<"aiohttp", EnvKey2, Floats>>}

PlainBody == [handlers |-> {"x402"}, capability |-> FALSE, services |-> "plain"]
OtherBody == [PlainBody EXCEPT !.capability = TRUE]

Good == [form |-> "jws", typ |-> "profile", alg |-> "EdDSA", kid |-> "k1", crit |-> "absent",
         by |-> m1, over |-> PlainBody]

\* One profile that is in order, and each way to spoil its signature or body.
SomeProfiles ==
  {[body |-> PlainBody, sig |-> s] : s \in
     {Good, [Good EXCEPT !.form = "none"], [Good EXCEPT !.form = "junk"], [Good EXCEPT !.typ = "other"],
      [Good EXCEPT !.alg = "none"], [Good EXCEPT !.alg = "ES256"], [Good EXCEPT !.kid = NoKid],
      [Good EXCEPT !.kid = "k2"], [Good EXCEPT !.crit = "malformed"], [Good EXCEPT !.crit = "names"],
      [Good EXCEPT !.by = m2], [Good EXCEPT !.over = OtherBody]}}
  \cup {[body |-> OtherBody, sig |-> Good], [body |-> [PlainBody EXCEPT !.services = "float"], sig |-> Good]}

K1 == [mat |-> m1, kind |-> "EdDSA", kid |-> "k1", alg |-> "EdDSA", use |-> "sig"]
SomeKeySets ==
  {<<>>, <<K1>>, <<K1, K1>>, <<[K1 EXCEPT !.mat = m2], K1>>, <<K1, [K1 EXCEPT !.kid = "k2"]>>,
   <<[K1 EXCEPT !.use = "enc"]>>, <<[K1 EXCEPT !.use = None, !.alg = None]>>, <<[K1 EXCEPT !.alg = "ES256"]>>,
   <<[K1 EXCEPT !.mat = m2]>>, <<[K1 EXCEPT !.alg = None, !.kind = "ES256"]>>,
   <<[K1 EXCEPT !.alg = None, !.kind = None]>>}
=============================================================================

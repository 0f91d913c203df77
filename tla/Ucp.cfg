SPECIFICATION FairSpec
CONSTANTS
  c1 = c1
  c2 = c2
  c3 = c3
  Earlier <- InOrder
  m1 = m1
  m2 = m2
  Calls = {c1, c2, c3}
  Getters = {key, x402, redis}
  AsyncGetters = {x402}
  RedisGetters = {redis}
  Frames = {"fastapi", "flask", "django", "sanic", "aiohttp"}
  None = None
  KeyGetter = key
  Envs <- SomeEnvs
  Sites <- SomeSites
  Deployments <- SomeDeployments
  Materials = {m1, m2}
  Kids = {"k0", "k1", "k2"}
  DefaultKid = "k0"
  NoKid = "no_kid"
  ForeignProfiles <- SomeProfiles
  ForeignKeySets <- SomeKeySets
  ProfileAge = 1
  JwksAge = 2
  MaxLives = 2
INVARIANTS
  OneInstance
  OkOnlyAsSigned
  RotationHeals
PROPERTIES
  EveryCallerAnswered
CHECK_DEADLOCK FALSE

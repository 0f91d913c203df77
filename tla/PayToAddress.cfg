SPECIFICATION Spec
CONSTANTS
  Instances = {i1, i2}
  Requests = {r1, r2, r3}
  Intents = {p1}
  Networks = {tempo, solana}
  StaticNets = {solana}
  TTL = 2
  Deployments = {"in_process", "redis", "failing_redis"}
  MaxClock = 2
  MaxRestarts = 1
  Foreign = foreign
  None = none
SYMMETRY AddressSymmetry
CHECK_DEADLOCK FALSE
INVARIANTS
  SignedPayToReused
PROPERTIES
  OnlyOwnFresh
  PromptCredentialHonoured
  IntentKnownHere

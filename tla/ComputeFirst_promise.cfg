SPECIFICATION FairSpec
CONSTANTS
  Requests = {r1, r2, r3}
  Bodies = {b1}
  Creds = {c1, c2}
  Sanctioned = {}
  MppCreds = {c2}
  Signerless = {c2}
  Counts = {1, 2}
  UnitMills = 15
  TTL = 1
  MaxClock = 1
  MaxCrashes = 0
  ScreenOn = FALSE
  MppHook = TRUE
  MintFresh = TRUE
  ReturnsRefusal = FALSE
  Static = static
  Foreign = foreign
  None = none
CHECK_DEADLOCK FALSE
PROPERTIES
  ImplementsPaidDelivery
  EveryRequestAnswered

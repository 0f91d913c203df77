SPECIFICATION Spec
CONSTANTS
  Requests = {r1, r2, r3}
  Bodies = {b1}
  Creds = {c1}
  Sanctioned = {}
  MppCreds = {}
  Signerless = {}
  Counts = {1, 2}
  UnitMills = 15
  TTL = 1
  MaxClock = 1
  MaxCrashes = 0
  ScreenOn = FALSE
  MppHook = FALSE
  MintFresh = TRUE
  ReturnsRefusal = TRUE
  Static = static
  Foreign = foreign
  None = none
SYMMETRY RequestSymmetry
CHECK_DEADLOCK FALSE
INVARIANTS
  FalsySettleIsRefused

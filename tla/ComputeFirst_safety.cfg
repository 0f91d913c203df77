SPECIFICATION Spec
CONSTANTS
  Requests = {r1, r2, r3}
  Bodies = {b1}
  Creds = {c1, c2, c3}
  Sanctioned = {c2}
  MppCreds = {c3}
  Signerless = {c3}
  Counts = {0, 1, 2}
  UnitMills = 10
  TTL = 1
  MaxClock = 2
  MaxCrashes = 1
  ScreenOn = TRUE
  MppHook = FALSE
  MintFresh = TRUE
  ReturnsRefusal = FALSE
  Static = static
  Foreign = foreign
  None = none
SYMMETRY RequestSymmetry
CHECK_DEADLOCK FALSE
INVARIANTS
  DeliveredWasPaid
  OneDeliveryPerCredential
  CapturedOnQuotedTerms
  MintedAddressKeepsPrice
  SanctionedNeverCaptured
PROPERTIES
  StaleMeansLapsed

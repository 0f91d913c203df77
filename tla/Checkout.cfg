SPECIFICATION Spec
CONSTANTS
  Requests = {r1, r2, r3}
  Creds = {c1, c2}
  MppCreds = {c2}
  Signerless = {}
  Payer = c1
  Prices = {0, 1, 2}
  Setups <- MCSetups
  Static = static
  PerOrder = per_order
  Foreign = foreign
  None = none
SYMMETRY RequestSymmetry
CHECK_DEADLOCK FALSE
INVARIANTS
  FulfilmentIsPaidFor
  RefusedWithoutCharge
  OfferedAddressAccepted
  ScreenedUnlessLeftOut
  HardGateIdentifies
  PayerIsClaimant
PROPERTIES
  ImplementsPaidOrders

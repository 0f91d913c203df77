CONSTANTS
  None = None
  Payers <- MCPayers
  Messages <- MCMessages
  Setups <- MCSetups
SPECIFICATION Spec
INVARIANTS
  PaidIffServed
  ChargedWasScreened
  JunkReachesNobody
  AttributedIsPayer
  HonouredUnlessLeftOut
PROPERTY
  EveryLegAnswered

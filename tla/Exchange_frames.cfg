CONSTANTS
  None = None
  Payers <- MCPayers
  Messages <- MCMessages
  Setups <- FrameSetups
SPECIFICATION Spec
INVARIANT
  OfferIsHonoured

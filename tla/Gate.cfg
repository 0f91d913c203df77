SPECIFICATION Spec
CONSTANTS
  None = None
  r1 = r1
  r2 = r2
  r3 = r3
  tok = tok
  w1 = w1
  w2 = w2
  s1 = s1
  s2 = s2
  Requests = {r1, r2, r3}
  Tokens = {tok}
  Wallets = {w1, w2}
  Signers = {s1, s2}
  Arrivals <- MCArrivals
  Rulings <- MCRulings
  Setups <- MCSetups
  Ttl = 1
  Timeout = 1
  MaxSize = 2
INVARIANTS
  PassesOnARuling
  VerdictIsOwn
  AssociatedTokenWasRuled
  RulingIsRecent
CHECK_DEADLOCK FALSE

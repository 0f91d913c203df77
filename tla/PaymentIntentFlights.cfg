SPECIFICATION FairSpec
CONSTANTS
  Calls = {c1, c2, c3}
  Keys = {k1, k2}
  Outcomes = {pi, error}
  NoKey = nokey
  None = none
CHECK_DEADLOCK FALSE
INVARIANTS
  OneRequestPerKey
  EveryoneSharesTheOutcome
  NoStaleFlight
PROPERTIES
  EveryCallReturns

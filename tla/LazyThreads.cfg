\* Three requests of a threaded Flask process reach the lazy x402 server first.
SPECIFICATION LazyFairSpec
CONSTANTS
  Calls = {c1, c2, c3}
  Getters = {x402}
  AsyncGetters = {x402}
  RedisGetters = {}
  Frames = {"flask"}
  None = None
CHECK_DEADLOCK FALSE
PROPERTY
  SafeFromAnyHandler

SPECIFICATION MountSpec
CONSTANTS
  Instances = {i1, i2}
  RedisInstances = {i1}
  Requests = {r1, r2, r3}
  k1 = k1
  k2 = k2
  Keys = {k1, k2, unknown}
  Window = 1
  MaxRequests = 1
  MaxClock = 2
  Mounts = {"asgi", "fastapi", "flask", "sanic", "django", "aiohttp"}
  Clients <- MCClients
  Blank = blank
  Unknown = unknown
  None = none
SYMMETRY LimiterSymmetry
CHECK_DEADLOCK FALSE
INVARIANTS
  AdmissionBounded
  RefusalIsOwn
  BucketEnds

\* One client of every kind; the bridge's may fall behind, the upscale server's gives up.
CONSTANTS
  a1 = a1
  a2 = a2
  x1 = x1
  x2 = x2
  u1 = u1
  Clients = {a1, x1, u1}
  Agents = {a1}
  ComfyClients = {x1}
  UpscaleClients = {u1}
  Nobody = Nobody
  MaxQueue = 2
  Suspendable = {x1}
  Torn = {}
  Crashable = {}
  Impatient = {u1}
  ProbeMayFail = FALSE
SPECIFICATION SharedSpec
CHECK_DEADLOCK FALSE
INVARIANTS
  NoOvertaking
  HolderOwnsLease
  ComfyExclusive

\* A request that dies anywhere, gives up or has its heartbeat overtaken, and an agent that waits.
CONSTANTS
  a1 = a1
  a2 = a2
  x1 = x1
  x2 = x2
  u1 = u1
  Clients = {a1, x1}
  Agents = {a1}
  ComfyClients = {x1}
  UpscaleClients = {}
  Nobody = Nobody
  MaxQueue = 2
  Suspendable = {}
  Torn = {x1}
  Crashable = {x1}
  Impatient = {x1}
  ProbeMayFail = FALSE
SPECIFICATION FairSharedSpec
CHECK_DEADLOCK FALSE
PROPERTIES
  WaitEnds
  WaiterServed

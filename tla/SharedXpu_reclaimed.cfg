\* A dead agent and two requests to the ComfyUI bridge that keep their heartbeats.
CONSTANTS
  a1 = a1
  a2 = a2
  x1 = x1
  x2 = x2
  u1 = u1
  Clients = {a1, x1, x2}
  Agents = {a1}
  ComfyClients = {x1, x2}
  UpscaleClients = {}
  Nobody = Nobody
  MaxQueue = 3
  Suspendable = {}
  Torn = {}
  Crashable = {a1}
  Impatient = {}
  ProbeMayFail = FALSE
SPECIFICATION SharedSpec
CHECK_DEADLOCK FALSE
PROPERTIES
  ReclaimedOnlyWhenStaleAndIdle

\* Every agent may die, fall behind or be cancelled, with room for one waiter.
CONSTANTS
  a1 = a1
  a2 = a2
  Clients = {a1, a2}
  Agents = {a1, a2}
  Nobody = Nobody
  MaxQueue = 1
  Suspendable = {a1, a2}
  Torn = {}
  Crashable = {a1, a2}
  Impatient = {a1, a2}
  ProbeMayFail = FALSE
SPECIFICATION Spec
SYMMETRY AgentSymmetry
CHECK_DEADLOCK FALSE
INVARIANTS
  TypeOK
  NoOvertaking
  EngineExclusive
  HolderOwnsLease
  NothingLeftBehind

\* Two plans, two decisions, two executions of which one may die, a rollback proposal.
CONSTANTS
  p1 = p1
  p2 = p2
  d1 = d1
  d2 = d2
  e1 = e1
  e2 = e2
  r1 = r1
  Plans = {p1, p2}
  Deciders = {d1, d2}
  Executors = {e1, e2}
  Proposers = {r1}
  Nobody = Nobody
  Mortal = {e1}
SPECIFICATION FairSpec
CHECK_DEADLOCK FALSE
INVARIANTS
  TypeOK
  ApprovalBacksPlan
  OutcomeAgrees
  OneCommandAtATime
PROPERTIES
  PromiseKept
  ExecutionSettles

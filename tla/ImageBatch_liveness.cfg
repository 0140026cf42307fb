\* No process dies; what is awaited comes.
CONSTANTS
  c1 = c1
  c2 = c2
  r1 = r1
  r2 = r2
  k1 = k1
  k2 = k2
  Nobody = Nobody
  N = 2
  Creators = {c1}
  Resumers = {r1, r2}
  Cancellers = {k1}
  Impatient = {c1, r1, r2}
  MaxCrashes = 0
  Binds = FALSE
SPECIFICATION FairSpec
CHECK_DEADLOCK FALSE
INVARIANTS
  RunningIsRun
PROPERTIES
  PromiseKept
  RunsEnd
  RunningEnds

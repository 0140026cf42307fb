SPECIFICATION FairSpec
CONSTANTS
  j1 = j1
  j2 = j2
  w1 = w1
  w2 = w2
  Nobody = Nobody
  Stranger = Stranger
  MaxEvents <- MCMaxEvents
  Jobs <- MCJobs
  Unprofiled <- MCUnprofiled
  Callers <- MCCallers
  Casts <- MCCasts
INVARIANTS
  TypeOK
  OutcomeIsTrue
  OneOperation
  NoGhostOperation
  ReleaseFreesSeen
PROPERTIES
  Settles
CHECK_DEADLOCK FALSE

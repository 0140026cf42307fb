\* Every kind of job, with one image or two; a duplicate call, a cancellation, a restart.
CONSTANTS
  t1 = t1
  t2 = t2
  k1 = k1
  MaxCount = 2
  Turns = {t1, t2}
  Cancellers = {k1}
  Reconciler = Reconciler
  Nobody = Nobody
  Impatient = {t1}
  MaxCrashes = 1
SPECIFICATION FairSpec
CHECK_DEADLOCK FALSE
INVARIANTS
  TypeOK
  CompletedIsWhole
  NothingOverwritten
  EndedIsTerminal
PROPERTIES
  CancelledStays
  VerifiedKept
  CardKept
  TurnsAnswered
  Presented

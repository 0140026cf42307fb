\* A restart, and another job that gets the lease before the recovery does.
CONSTANTS
  t1 = t1
  t2 = t2
  k1 = k1
  MaxCount = 1
  Turns = {t1}
  Cancellers = {k1}
  Reconciler = Reconciler
  Nobody = Nobody
  Impatient = {}
  MaxCrashes = 1
SPECIFICATION Spec
CHECK_DEADLOCK FALSE
PROPERTIES
  TerminalIsFinal

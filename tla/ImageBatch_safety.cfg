\* A turn asked twice for its batch, two resumes, a cancellation, a crash and the
\* reconciler, at any point.
CONSTANTS
  c1 = c1
  c2 = c2
  r1 = r1
  r2 = r2
  k1 = k1
  k2 = k2
  Nobody = Nobody
  N = 2
  Creators = {c1, c2}
  Resumers = {r1, r2}
  Cancellers = {k1}
  Impatient = {c1, c2, r1, r2}
  MaxCrashes = 1
  Binds = TRUE
SPECIFICATION Spec
SYMMETRY InvocationSymmetry
CHECK_DEADLOCK FALSE
INVARIANTS
  TypeOK
  CompletedIsWhole
  ChildrenSerialized
PROPERTIES
  VerifiedKept
  CancelHonoured

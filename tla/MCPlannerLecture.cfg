CONSTANTS
  Calls = {c1, c2, c3, c4}
  Workers = {w1, w2}
  Transforms = {t1}
  NoJob = NoJob
  MaxRetries = 1
  MaxCrashes = 1
SPECIFICATION Spec
SYMMETRY MCSymmetry
INVARIANTS TypeOK VersionsNumbered CurrentVersionExists OneVersionPerRequest GeneratingHasJob
PROPERTY ImplementsHistory
CHECK_DEADLOCK FALSE

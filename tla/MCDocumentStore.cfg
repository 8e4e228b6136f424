CONSTANTS
  Requests = {r1, r2, r3, r4}
  Subjects = {s1, s2}
  Files = {f1}
  NoFile = NoFile
  NoDoc = NoDoc
  MaxStops = 1
SPECIFICATION DocSpec
SYMMETRY MCSymmetry
INVARIANTS DocTypeOK UniqueContent ProcessingHasIngest NoStrandedObject
CHECK_DEADLOCK FALSE

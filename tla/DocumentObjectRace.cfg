CONSTANTS
  Requests = {r1, r2, r3}
  Subjects = {s1, s2}
  Files = {f1}
  NoFile = NoFile
  NoDoc = NoDoc
  MaxStops = 0
SPECIFICATION DocSpec
SYMMETRY MCSymmetry
INVARIANT DocumentHasObject
CHECK_DEADLOCK FALSE

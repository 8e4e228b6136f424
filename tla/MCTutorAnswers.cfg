CONSTANTS
  Requests = {r1, r2}
  Subjects = {s1}
  s1 = s1
  Files = {f1}
  NoFile = NoFile
  NoDoc = NoDoc
  MaxStops = 0
  Asks = {a1, a2}
  Sessions = {c1, c2}
  SubjectOf <- MCSubjectOf
  NoAsk = NoAsk
  NoIndex = NoIndex
SPECIFICATION TutorSpec
SYMMETRY MCSymmetry
INVARIANTS TutorTypeOK StaleOnlyWhenOvertaken IndexIsCurrent CachedAlone
CHECK_DEADLOCK FALSE

CONSTANTS
  Docs = {d1, d2}
  Passages = {p1, p2}
  d1 = d1
  d2 = d2
  p1 = p1
  p2 = p2
  Content <- MCContent
  NoVector = NoVector
  NoContext = NoContext
SPECIFICATION Spec
INVARIANTS TextIsBest RefusedOnlyIfUnreadable VectorsAligned
CHECK_DEADLOCK FALSE

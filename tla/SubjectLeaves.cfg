CONSTANTS
  ann = ann  ben = ben  eva = eva
  s1 = s1  s2 = s2  s3 = s3  p1 = p1  p2 = p2  l1 = l1  l2 = l2  c1 = c1  c2 = c2
  None = None
  Users = {ann, ben, eva}
  Subjects = {s1, s2, s3}
  Plans = {p1, p2}
  Lectures = {l1, l2}
  Sessions = {c1, c2}
  Role <- MCRole
  Parent <- MCParent
  Keeper <- MCKeeper
  Calls <- MCCalls
  Start <- MCStart
  Enrolled <- MCEnrolled
  Requests = {q1}
  Workers = {w1}
SPECIFICATION Spec
CHECK_DEADLOCK FALSE
INVARIANT SubjectIdsResolve

CONSTANTS
  t1 = t1
  Users = {u1}
  MaxLogins = 2
  Tabs = {t1}
  Requests = {q1, q2}
  TabOf <- MCTabOf
  NoUser = NoUser
SPECIFICATION Spec
SYMMETRY MCSymmetry
INVARIANTS AuthTypeOK EndedStaysEnded WaitsEnd
PROPERTY DropsJustified

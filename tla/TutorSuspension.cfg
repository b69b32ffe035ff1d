SPECIFICATION Spec
CONSTANTS
  t1 = t1
  t2 = t2
  u1 = u1
  u2 = u2
  r1 = r1
  r2 = r2
  None = None
  Tutors <- TwoTutors
  Users <- TwoUsers
  Requests <- TwoRequests
SYMMETRY Alike
PROPERTY
  SuspensionUnassigns
CHECK_DEADLOCK FALSE

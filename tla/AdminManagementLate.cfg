SPECIFICATION DelayedSpec
CONSTANTS
  a1 = a1
  a2 = a2
  a3 = a3
  r1 = r1
  r2 = r2
  c1 = c1
  None = None
  Admins <- MCAdmins
  Requests <- TwoRequests
  Commands <- NoCommand
SYMMETRY Alike
PROPERTY
  KeepsManager
CHECK_DEADLOCK FALSE

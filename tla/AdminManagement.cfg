SPECIFICATION Spec
CONSTANTS
  a1 = a1
  a2 = a2
  a3 = a3
  r1 = r1
  r2 = r2
  c1 = c1
  None = None
  Admins <- MCAdmins
  Requests <- TwoRequests
  Commands <- OneCommand
SYMMETRY Alike
INVARIANTS
  ActorIsManager
PROPERTIES
  KeepsLast ChangesRevoke
CHECK_DEADLOCK FALSE

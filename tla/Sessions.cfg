CONSTANTS
  a1 = a1
  o1 = o1
  r1 = r1
  r2 = r2
  s1 = s1
  s2 = s2
  s3 = s3
  None = None
  Unused = Unused
  MaxAuth = 1
  Admins <- OneAdmin
  Others <- OneOther
  Requests <- TwoRequests
  Sids <- ThreeSids

SPECIFICATION Spec
CHECK_DEADLOCK FALSE
SYMMETRY Interchangeable
INVARIANTS AdminSessionsProved UnprovedWasCrossed IdsKeepOwner

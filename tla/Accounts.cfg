SPECIFICATION MCSpec
CONSTANTS
  u1 = u1
  u2 = u2
  t1 = t1
  e1 = e1
  e2 = e2
  e3 = e3
  j1 = j1
  j2 = j2
  j3 = j3
  tutor1 = tutor1
  tutor2 = tutor2
  user1 = user1
  user2 = user2
  r1 = r1
  r2 = r2
  None = None
  Stranger = Stranger
  Accounts <- ThreeAccounts
  RoleOf <- MCRoleOf
  Emails <- MCEmails
  Jobs <- MCJobs
  MaxCrashes = 2
  TutorIds <- TwoTutors
  UserIds <- TwoUsers
  AssignmentRequests <- TwoRequests
SYMMETRY Alike
INVARIANTS
  AccountsTypeOK OneOwner NothingLeftBehind AssignedIsFit
PROPERTIES
  StartIsExact TutorsAct
CHECK_DEADLOCK FALSE

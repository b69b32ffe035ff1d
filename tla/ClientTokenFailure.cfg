SPECIFICATION MCSpec
CONSTANTS
  a = a
  b = b
  nobody = nobody
  w1 = w1
  w2 = w2
  all = all
  q = q
  t1 = t1
  t2 = t2
  n1 = n1
  n2 = n2
  nil = nil
  Accounts <- MCAccounts
  Nobody = nobody
  None = nil
  PageWrites <- MCWrites
  OtherTabs = 1
  ClientLosses = 1
  Queries <- MCQueries
  All = all
  Tutors <- MCTutors
  ViewLoads = 3
  ViewSessions = 1
  ProfileNames <- MCNames
  Addresses <- MCAddresses
  Spellings <- MCSpellings
  Normal <- MCNormal
  Overtaking = 1
  AdminActions = 2
  AdminEdits = 2
  AdminElsewhere = 1
  AdminLosses = 1
  ListIds <- MCIds
  ListNames <- MCListNames
  PageSize = 2
  ListChanges = 2
INVARIANT FailureDisplayed
CHECK_DEADLOCK FALSE

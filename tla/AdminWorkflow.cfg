SPECIFICATION FairWorkflowSpec
CONSTANTS
  r1 = r1
  r2 = r2
  r3 = r3
  op1 = op1
  NoOwner = NoOwner
  Requests <- MCRequests
  Readers <- MCReaders
  Operators <- MCOperators
  MaxWaiting = 1
INVARIANTS
  LeaseBacksWork OverlapNeedsLapse ApiWorkflowsSerial
PROPERTIES
  CallsAnswered
CHECK_DEADLOCK FALSE

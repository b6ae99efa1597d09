CONSTANTS
  i1 = i1
  i2 = i2
  p1 = p1
  p2 = p2
  p3 = p3
  Installers = {i1, i2}
  Paths = {p1, p2, p3}
  Jobs <- MCJobs
  User = User
SPECIFICATION Spec
CHECK_DEADLOCK FALSE
INVARIANTS
  ReceiptMeansComplete
  FailureLeavesNothing
PROPERTY OthersUntouched

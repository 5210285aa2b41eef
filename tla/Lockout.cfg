SPECIFICATION Spec
CONSTANTS
  User = {u1}
  IP = {i1}
  Request = {r1, r2}
  None = None
  AccountMaxFailures = 2
  IPMaxFailures = 1
  FailureWindow = 1
  LockoutDuration = 1
  MaxTime = 2
  MaxFailures = 3
  Faults = TRUE
INVARIANTS TypeOK ActiveBelowLimit IPFailuresBounded NoticeOfLock
PROPERTY LockNotExtended
SYMMETRY Symmetry
VIEW View
CHECK_DEADLOCK FALSE

CONSTANTS
  None = None
  Accounts <- MCAccounts
  Structures = {"simple"}
  FailureClasses = {"rate_limited", "authentication", "account_mismatch"}
  MaxTime = 2
  MaxOrders = 3
  OrderQty = {1}
  MaxEvents = 5
  Overlap = 2
  PageSize = 2
  MaxPages = 3
  MaxItems = 4
  MaxAttempts = 2
  MaxPolls = 2
SPECIFICATION CaptureSpec
INVARIANTS
  CaptureTypeOK
  CaptureIsWhole
  CaptureIsJudgedRight
PROPERTIES
  AttemptsStayApart
  CycleEnds
CHECK_DEADLOCK FALSE

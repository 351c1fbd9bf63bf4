SPECIFICATION MCLive
CONSTANTS
  None = None
  Amounts = {1, 2}
  WorkIds = {1, 2}
  MaxSigned = 3
  MaxPaid = 2
  MaxAllowance = 1
  MaxOrphans = 0
  Journeys = {"payment", "allowance"}
INVARIANTS
  
  ToldIsPaid
  
PROPERTIES
  LockIsReleased
CHECK_DEADLOCK FALSE

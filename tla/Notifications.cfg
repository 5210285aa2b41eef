SPECIFICATION FairSpec
CONSTANTS
  Event = {e1, e2}
  None = None
  Prefetch = 2
  DeliveryLimit = 2
  MaxCrashes = 2
  MaxMoves = 2
INVARIANTS TypeOK NothingLost SecondMailExcused
PROPERTY EveryEventSettled
CHECK_DEADLOCK FALSE

SPECIFICATION FairSpec
CONSTANTS
  User = {u1, u2}
  Insider = {u1}
  Role = {reader}
  Code = {c1, c2}
  Request = {r1, r2}
  None = None
  Faults = TRUE
INVARIANTS TypeOK ExchangedOnce
PROPERTIES SecondUseIsAudited EveryRequestAnswered
CHECK_DEADLOCK FALSE

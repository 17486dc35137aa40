SPECIFICATION FairSpec
CONSTANTS
  r1 = r1
  r2 = r2
  r3 = r3
  Req <- MCReq
  Limited <- MCLimited
  Limit = 1
  MaxConns = 1
  Env <- MCEnv
\* the process ends
CHECK_DEADLOCK FALSE
INVARIANTS
  SlotsAreHeld
  NoIdleSlot
  CleanExit
  PoolOutlivesHandlers
PROPERTIES
  EveryRequestEnds
  SignalEnds

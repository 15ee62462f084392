CONSTANTS
  Values = {op1, op2, op3}
  Closers = {c1}
  Nobody = Nobody
SPECIFICATION Spec
INVARIANTS
  FreeListExact
  EvictedAtMostOnce
  TenantHasItsHandle
  HandleReachesOnlyOwn
  PoolHoldsRunning
  CancelledLeavesNoneLive
PROPERTIES
  ImplementsDrainSet
  CancelledOnlyOnRequest
  CancelDrains
CHECK_DEADLOCK FALSE

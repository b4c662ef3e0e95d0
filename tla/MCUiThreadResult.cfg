\* A thread that waits, and a function that fails.
SPECIFICATION Spec
CONSTANTS
  t1 = t1
  t2 = t2
  s1 = s1
  a2 = a2
  l1 = l1
  l2 = l2
  e1 = e1
  Callers <- MCCallers
  Calls <- MCCalls
  CallsOf <- MCCallsOf
  SyncCalls <- MCSync
  DestroyCalls <- MCDestroy
  EnsureCalls <- MCEnsure
  Events <- MCEvents
  Local <- MCLocal
  Capacity = 2
  MaxRetries = 1
  MaxDepth = 2
  NULL = NULL
CHECK_DEADLOCK FALSE
INVARIANT ReturnsResult

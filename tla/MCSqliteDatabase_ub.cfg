\* close() followed by the destructor closes the connection twice.
CONSTANTS
  MaxHandles = 3
  Failures = {"open"}
  Keys <- MCKeys
  Cached <- MCCached
  Null = Null
INIT Init
NEXT Next
INVARIANT NoUndefinedBehaviour
CHECK_DEADLOCK FALSE

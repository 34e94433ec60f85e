\* Two threads' update_value<int> calls interleave on the shared static.
\* Each thread makes one call, so the system stops when both have returned.
CONSTANTS
  t1 = t1
  t2 = t2
  o1 = o1
  o2 = o2
  v1 = v1
  v2 = v2
  Zero = Zero
  Null = Null
  Threads <- MCThreads
  Objects <- MCObjects
  Owner <- MCOwner
  FieldOrder <- MCFieldOrder
  Names <- MCNames
  Vals <- MCVals
SPECIFICATION Spec
INVARIANT UpdatesIsolated
CHECK_DEADLOCK FALSE

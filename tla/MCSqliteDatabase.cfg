\* open / close / destructor / factory with a failing sqlite3_open, checked
\* against the abstract session contract.  Undefined behaviour stops the
\* process, so the model may stop there.
CONSTANTS
  MaxHandles = 3
  Failures = {"open"}
  Keys <- MCKeys
  Cached <- MCCached
  Null = Null
INIT Init
NEXT Next
PROPERTY SessionRefinement
CHECK_DEADLOCK FALSE

\* add_test / execute() / execute(name) over every run a test and its
\* fixture may make.  Undefined behaviour stops the process, so the model
\* may stop there.
CONSTANTS
  TestOrder <- MCTestOrder
  Names <- MCNames
  MaxAsserts = 1
  MaxCount = 3
  Null = Null
SPECIFICATION Spec
INVARIANT ExecuteReportsAll
PROPERTY ExecuteReturns
CHECK_DEADLOCK FALSE

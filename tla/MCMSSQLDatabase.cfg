\* on_open / on_close / transactions / destructor and factory with every
\* ODBC call able to fail, checked against the abstract session contract.
\* std::terminate ends the process, so the model may stop there.
CONSTANTS
  Dsns <- MCDsns
  MaxHandles = 6
  Failures = {"alloc_env", "set_version", "alloc_dbc", "connect", "disconnect"}
  SizeMod = 256
  DefaultDriver <- MCDefaultDriver
  Blank = {" "}
  HardDatabase <- MCHardDatabase
  HardPwd <- MCHardPwd
  Null = Null
INIT Init
NEXT Next
PROPERTY SessionRefinement
CHECK_DEADLOCK FALSE

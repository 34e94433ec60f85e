\* A failed open followed by another open loses the handles of the first (spec.md 5).
CONSTANTS
  Dsns <- MCDsns
  MaxHandles = 6
  Failures = {"alloc_env", "set_version", "alloc_dbc", "connect", "disconnect"}
  SizeMod = 256
  DefaultDriver <- MCDefaultDriver
  Blank = {" "}
  HardDatabase <- MCHardDatabase
  HardPwd <- MCHardPwd
  Null = Null
INIT Init
NEXT Next
INVARIANT NoHandleLost

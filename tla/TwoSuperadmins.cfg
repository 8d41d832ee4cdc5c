SPECIFICATION SetupSpec
CONSTANTS
  Accounts = {"a1", "a2"}
  Setups = {s1, s2}
CHECK_DEADLOCK FALSE
INVARIANT OneSuperadmin

SPECIFICATION FixturesSpec
CONSTANTS
  MaxSessions = 1
  MaxTests = 1
INVARIANT NoLitter
CHECK_DEADLOCK FALSE

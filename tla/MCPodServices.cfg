SPECIFICATION PServicesSpec
CONSTANTS
  MaxArrived = 3
  Wanted = {2, 3}
  RingSize = 2
  PullMax = 2
  MaxRules = 1
  Procs = {"p", "q"}
  Pods = {"a", "b"}
  MaxCert <- MaxCertOf
  MaxOps = 2
  MaxCommands = 2
  LineLen = 3
  MaxLines = 4
  RawBytes = 2
  UsbPods = {1, 2}
  PortCount = 3
  MaxMoves = 1
  Tests = {"t1", "t2"}
  Settings = {"o1", "o2"}
  Ids = {1, 2}
  MaxConns = 3
  MaxArtifacts = 2
  MaxSessions = 2
  MaxTests = 1
  Callers = {"c1", "c2", "c3"}
  LockOf <- Lock
  ProcessOf <- Process
  MaxIssued = 3
  MaxAsked = 4
  Volts = {"3v3", "5v"}
  MaxWaves = 1
  Renewers = {"r1", "r2"}
  MaxLease = 3
  MaxCalls = 2
  ChipSize = 8
  Sector = 2
  SpiChunk = 3
  EraseStep = 3
  Profiles = {"p", "q"}
  MaxEdits = 2
  FifoWords = 4
  ReadWords = 3
  MaxSets = 2
  DataBits = 2
  Chars <- SomeChars
  PerSample = 4
  BitTimes = {12, 14}
  Rests = {0, 5}
  MaxChars = 2
  ByteBits = 2
  MaxBusBits = 9
  MaxStarts = 3
  WordBits = 2
  MaxClocks = 5
  MaxSelects = 2
  AdcCounts = {0, 3, 4, 7}
  Span = 8
  MaxAdc = 3
  MaxLa = 3
  Factors = {1, 2, 3}
INVARIANTS CanInv PinInv LinkHolds OpenHolds HarnessHolds LoginInv BenchHolds VisionInv AgentHolds JobsHold DecodersHold
VIEW RunningState
CHECK_DEADLOCK FALSE

SPECIFICATION PodSessionSpec
CONSTANTS
  \* DeviceLease: one client beside the web UI, on a server where a renew
  \* revives a lapsed lease.
  Clients = {a}
  Others = {web}
  NoOne = NoOne
  TTL = 5
  Interval = 2
  PostTime = 1
  Poll = 1
  WaitTimeout = 2
  RenewRevives = TRUE
  Deployments = {TRUE, FALSE}
  MaxLate = 2
  \* McpSession: two tool threads, two timer threads and two UART links.
  Workers = {w1, w2}
  Timers = {t1, t2}
  Links = {l1, l2}
  None = None
  IdleTimeout = 2
  Retry = 1
  \* GatewareImage: two outputs, the second in place of the first.
  MaxHandles = 2
INVARIANTS LockedToolKeepsPod LeaseIsWatched ReopensWhatWasWanted NoStrayLink CapsFollowImage ArmedSuitsImage StoppedIsOff
PROPERTIES DeviceComesFree AcquireReturns IdleLeaseComesFree CallsReturn

SPECIFICATION SessionSpec
CONSTANTS
  Workers = {w1, w2}
  Timers = {t1, t2, t3}
  Links = {l1, l2}
  None = None
  IdleTimeout = 2
  Retry = 1
PROPERTIES ReleasedOnlyWithoutCalls

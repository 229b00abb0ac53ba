SPECIFICATION HistorySpec
CONSTANTS
  MAX_PROC = 6
  Q_SIZE = 6
  NSYS = 6
  Calls <- CallsTime
  T_SLICE = 2
  TICKS = 1
  TIME_MAX = 20
  SleepArgs = {1, 2}
  LAST_TICK = 9
  NSEM = 0
  DEVICE_SEMS = {}
  MAX_PASS = 0
  MBOX_SIZE = 1
  Data = {}
  PAGES = 1
  NPAGES = 6
INVARIANTS LatenessBounded TimerSubIsLoop
CHECK_DEADLOCK FALSE

SPECIFICATION HistorySpec
CONSTANTS
  MAX_PROC = 5
  Q_SIZE = 5
  NSYS = 3
  Calls <- CallsFork
  T_SLICE = 1
  TICKS = 1
  TIME_MAX = 0
  SleepArgs = {}
  LAST_TICK = 7
  NSEM = 0
  DEVICE_SEMS = {}
  MAX_PASS = 0
  MBOX_SIZE = 1
  Data = {}
  PAGES = 2
  NPAGES = 10
INVARIANT PagesRecycled

SPECIFICATION ProgSpec
CONSTANTS
  MAX_PROC = 4
  NSYS = 3
  TERMINAL_IN = 2
  TERMINAL_OUT = 2
  FILE_SYSTEM = 2
  Q_SIZE = 6
  Calls <- CallsOfPrograms
  T_SLICE = 1
  TICKS = 1
  TIME_MAX = 0
  SleepArgs = {1}
  LAST_TICK = 7
  NSEM = 1
  DEVICE_SEMS = {0}
  MAX_PASS = 1
  MBOX_SIZE = 2
  Data = {m}
  PAGES = 2
  NPAGES = 8
INVARIANT ShowsTheExitNumber

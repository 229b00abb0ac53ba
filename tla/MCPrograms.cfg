SPECIFICATION ProgFairSpec
CONSTANTS
  MAX_PROC = 6
  NSYS = 4
  TERMINAL_IN = 2
  TERMINAL_OUT = 3
  FILE_SYSTEM = 3
  Q_SIZE = 6
  Calls <- CallsOfPrograms
  T_SLICE = 1
  TICKS = 1
  TIME_MAX = 0
  SleepArgs = {1}
  LAST_TICK = 7
  NSEM = 1
  DEVICE_SEMS = {0}
  MAX_PASS = 0
  MBOX_SIZE = 2
  Data = {m}
  PAGES = 2
  NPAGES = 6
INVARIANTS AnswerIsTheServers WaitReportsTheFork ExitEndsTheProgram StuckOnlyAfterRefusal
PROPERTIES ShellComesBack KeyboardWatched

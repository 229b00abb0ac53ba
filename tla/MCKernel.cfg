SPECIFICATION HistorySpec
CONSTANTS
  MAX_PROC = 4
  Q_SIZE = 4
  NSYS = 2
  Calls <- CallsAll
  T_SLICE = 1
  TICKS = 1
  TIME_MAX = 0
  SleepArgs = {1}
  LAST_TICK = 7
  NSEM = 1
  DEVICE_SEMS = {0}
  MAX_PASS = 1
  MBOX_SIZE = 2
  Data = {a}
  PAGES = 2
  NPAGES = 8
INVARIANTS TypeOK EveryPidInOnePlace NeverPanics DeliveredInOrder NobodyWaitsOnMail NoLostExit MemoryIsolation
PROPERTIES PassesConserved NobodyOvertakes

SPECIFICATION Spec
CONSTANTS
  SYSTEM <- MCSystem
  FORKED <- MCForked
  Calls <- MCCalls
  DATA = {0}
INVARIANTS KernelSeesTheCaller Resumes ResultArrives ReachesTheReceiver

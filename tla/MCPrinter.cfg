SPECIFICATION FairSpec
CONSTANTS
  CHARS = 10
  MBOX_SIZE = 6
INVARIANTS InStep NothingLost
PROPERTIES MessagesPrinted

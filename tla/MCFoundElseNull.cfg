SPECIFICATION Spec
CONSTANTS
  Dir <- MCDir
  NoEnd = {"bin"}
  ROOT = "root"
  Keys = {"/", ".", "b", "n", "o", "d", "c", " "}
  MAX_LINE = 5
  WORD = 1
  OutWords <- MCOut
  DirWords <- MCDirWords
  CatWords <- MCCat
INVARIANT FoundElseNull
CHECK_DEADLOCK FALSE

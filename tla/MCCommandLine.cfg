SPECIFICATION Spec
CONSTANTS
  Dir <- MCDir
  NoEnd = {"bin"}
  ROOT = "root"
  Keys = {"/", ".", "b", "n", "o", "d", "c", " "}
  MAX_LINE = 6
  WORD = 1
  OutWords <- MCOut
  DirWords <- MCDirWords
  CatWords <- MCCat
INVARIANTS FindsByComponents FullNamesFound NamesAreNotCommands
CHECK_DEADLOCK FALSE

SPECIFICATION FairSpec
CONSTANTS
  Shells = {s1, s2}
  MAX_FD = 1
  Files <- MCFiles
  Dirs <- MCDirs
  Missing = {"nothing"}
  CHUNK = 2
  Layouts <- MCLayouts
INVARIANTS FileTypeOK ShowsTheObject NoDescriptorLeft
PROPERTY CommandEnds

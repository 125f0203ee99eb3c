\* One session and two files, of which an upload may bring one or both.
SPECIFICATION FairSpec
CONSTANTS
  s1 = s1
  s2 = s2
  f1 = f1
  f2 = f2
  c1 = c1
  Sessions <- MCOneSession
  Files <- MCTwoFiles
  Clicks = {c1}
  None = None
  MaxTurns = 1
  MaxChunks = 1
INVARIANTS
  FilesTracked
PROPERTIES
  SendEnds

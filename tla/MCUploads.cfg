\* Room for one file: a second must be refused unless it overlaps the first.
SPECIFICATION Spec
\* Uploads end, and nothing is left to clean.
CHECK_DEADLOCK FALSE
CONSTANTS
  f1 = f1
  f2 = f2
  f3 = f3
  s1 = s1
  Files <- MCFiles
  Sessions <- MCSessions
  SessionOf <- MCSessionOf
  Size <- MCSize
  MaxBytes = 2
  Limit = 2
  NoFile = NoFile
  ForeignKeys = {TRUE, FALSE}
  MaxActive = 2
  MaxCandidate = 1
CONSTRAINT MCInTurn
INVARIANTS
  TypeOK
  QuotaBound
  RecordsKept
  FilesAccounted
PROPERTIES
  CleanedUp

\* Three messages and, between them, a resume, one thing at a time.
SPECIFICATION Spec
\* Requests end, and upsets are bounded.
CHECK_DEADLOCK FALSE
CONSTANTS
  s0 = s0
  s1 = s1
  m1 = m1
  m2 = m2
  m3 = m3
  Creator = s0
  Resumes <- MCResumes
  Sends <- MCThreeSends
  NoTitle = NoTitle
  Absent = Absent
  MaxActive = 1
  MaxUpsets = 2
CONSTRAINT MCInTurn
INVARIANTS
  TypeOK
  CachesAgree
  AnsweredInContext
PROPERTIES
  TitleKept

\* The creation and a message overlap with each other and what clears the copies.
SPECIFICATION Spec
\* Requests end, and upsets are bounded.
CHECK_DEADLOCK FALSE
CONSTANTS
  s0 = s0
  s1 = s1
  m1 = m1
  m2 = m2
  m3 = m3
  Creator = s0
  Resumes <- MCNoResumes
  Sends <- MCOneSend
  NoTitle = NoTitle
  Absent = Absent
  MaxActive = 3
  MaxUpsets = 2
INVARIANTS
  ReadyMeansLoaded
  HistoryFollowsSession

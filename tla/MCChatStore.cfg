\* Two sessions, one of them perhaps from an earlier visit; two questions.
SPECIFICATION Spec
CONSTANTS
  s1 = s1
  s2 = s2
  f1 = f1
  f2 = f2
  c1 = c1
  Sessions <- MCTwoSessions
  Files = {}
  Clicks = {c1}
  None = None
  MaxTurns = 2
  MaxChunks = 1
SYMMETRY Symmetry
INVARIANTS
  TypeOK
  ShownOnce
  ShownIsStored

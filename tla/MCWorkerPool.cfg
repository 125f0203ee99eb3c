\* Base one, maximum four, the least in which the janitor stops workers.
SPECIFICATION FairSpec
CONSTANTS
  w1 = w1
  w2 = w2
  w3 = w3
  w4 = w4
  Workers <- MCWorkers
  MinWorkers = 1
  MaxWorkers = 4
  NoWorker = NoWorker
INVARIANTS
  TypeOK
  CountsAgree
  OneOwner
  FlagsAgree
  NoLostWakeup
  BaseKept
  ClockRuns
PROPERTIES
  GrownForGood
  AcquireCompletes
  StopsRetire

\* Four jobs of two users, a queue of two, two workers.
SPECIFICATION FairSpec
CONSTANTS
  u1 = u1
  u2 = u2
  a1 = a1
  a2 = a2
  a3 = a3
  b1 = b1
  NoJob = NoJob
  Users <- MCUsers
  Jobs <- MCJobs
  JobUser <- MCJobUser
  QueueSize = 2
  MaxWorkers = 2
INVARIANTS
  TypeOK
  QueuesConsistent
  NoJobLost
PROPERTIES
  CallsReturn
  ImplementsFairFifo

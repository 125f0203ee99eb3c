\* Answers of one user out of order, and three of its jobs before the first of another.
SPECIFICATION OrderSpec
CONSTANTS
  u1 = u1
  u2 = u2
  a1 = a1
  a2 = a2
  a3 = a3
  b1 = b1
  NoJob = NoJob
  Users <- MCUsers
  Jobs <- MCJobs
  JobUser <- MCJobUser
  QueueSize = 3
  MaxWorkers = 2
INVARIANT
  OrderOrIsolation

\* A caller whose queued job CancelUser drops is never answered.
SPECIFICATION FairSpec
CONSTANTS
  u1 = u1
  u2 = u2
  a1 = a1
  a2 = a2
  a3 = a3
  b1 = b1
  NoJob = NoJob
  Users <- MCUsers
  Jobs <- MCJobs
  JobUser <- MCJobUser
  QueueSize = 1
  MaxWorkers = 1
PROPERTY
  EveryAcceptedJobAnswered

SPECIFICATION FairSpec
CONSTANTS
  e1 = e1
  e2 = e2
  e3 = e3
  Events <- MCEvents
  Malformed <- None
  Poison <- MCPoison
  BatchSize = 1
  BackoffMax = 1
  MaxAge = 1
  IdlePoll = 2
  BusyPoll = 1
  Sharing = TRUE
  MaxAttempts = 1
  MaxOverdue = 0
  MaxCopies = 2
  MaxDbFaults = 0
  MaxStops = 1
  FailureThreshold = 1
  SuccessThreshold = 1
  RecoveryTimeout = 2
  MaxFailures = 2
PROPERTIES
  StoredIsSettled
  OutageAgesOut
  PoisonIsContained

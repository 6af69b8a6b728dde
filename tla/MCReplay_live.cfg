SPECIFICATION FairSpec
CONSTANTS
  j1 = j1
  j2 = j2
  Jobs <- MCJobs
  N = 2
  ToPark <- MCToPark
  ParkTopic = FALSE
  Persistent = TRUE
  Threshold = 1
  MaxRecords = 1
  MaxRequests = 0
  MaxFaults = 1
  MaxStops = 1
  MaxCopies = 3
PROPERTIES
  JobsEnd
  ShutdownEnds
  DeadLettersAreRead

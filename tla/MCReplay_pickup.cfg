SPECIFICATION FairSpec

CONSTANTS
  j1 = j1
  j2 = j2
  Jobs <- MCJobs
  N = 2
  ToPark <- MCToPark
  ParkTopic = TRUE
  Persistent = TRUE
  Threshold = 1
  MaxRecords = 2
  MaxRequests = 0
  MaxFaults = 0
  MaxStops = 0
  MaxCopies = 3
PROPERTIES
  PausedIsPickedUp

SPECIFICATION FairSpec
CONSTANTS
  Worker = {0, 1}
  Capacity = 1
  MaxRetries = 1
  MaxEvents = 2
  MaxFaults = 2
  Units = 2
  LineEnds = {1}
  JobTimeout = TRUE
PROPERTIES CanceledIsStopped EventsSettle
INVARIANTS FinishedMeansAllSaved StdoutKeepsLines KilledIsNotSuccessful
CHECK_DEADLOCK FALSE

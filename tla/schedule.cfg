SPECIFICATION FairSpec
CONSTANTS
  Policy = {p1}
  Runner = {s1, s2}
  MaxTime = 3
  Crontab = {{1, 2}, {2}}
  MaxEdits = 1
  MaxFaults = 1
INVARIANT LaunchedOnce
PROPERTY DueIsLaunched
CHECK_DEADLOCK FALSE

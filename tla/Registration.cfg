\* Two controllers that start at the same time.
SPECIFICATION FairSpec
CONSTANTS
  Controllers <- MCControllers
  RetryOnFail = 3
  MaxFaults = 7
INVARIANTS
  TypeOK
  RunsRegistered
  RaceLeavesOne
PROPERTY
  EventuallyRuns
\* The registration is over when everybody runs.
CHECK_DEADLOCK FALSE

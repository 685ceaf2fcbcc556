SPECIFICATION FairSpec
CONSTANTS
  Steps <- OneStep
  Deps <- OneDeps
  JobSteps <- OneStep
  UserLabelled = FALSE
  UserSelector = FALSE
  SelectorMatches = FALSE
  SpecValid = TRUE
  Events = {"deleteWorkflow"}
  MaxEvents = 1
  MaxJobs = 1
  MaxDeltas = 1
  retryOnStatusConflict = 1
  None = None
PROPERTIES
  DeletionReachesStore

SPECIFICATION FairSpec
CONSTANTS
  Steps <- OneStep
  Deps <- OneDeps
  JobSteps <- OneStep
  UserLabelled = FALSE
  UserSelector = FALSE
  SelectorMatches = FALSE
  SpecValid = TRUE
  Events = {"pause"}
  MaxEvents = 1
  MaxJobs = 2
  MaxDeltas = 1
  retryOnStatusConflict = 1
  None = None
PROPERTIES
  PauseStands

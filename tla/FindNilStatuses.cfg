SPECIFICATION Spec
CONSTANTS
  Steps <- OneStep
  Deps <- OneDeps
  JobSteps <- OneStep
  UserLabelled = TRUE
  UserSelector = TRUE
  SelectorMatches = TRUE
  SpecValid = TRUE
  Events = {"netError"}
  MaxEvents = 1
  MaxJobs = 2
  MaxDeltas = 1
  retryOnStatusConflict = 1
  None = None
INVARIANTS
  StatusesInitialised

SPECIFICATION Spec
CONSTANTS
  Steps <- OneStep
  Deps <- OneDeps
  JobSteps <- OneStep
  UserLabelled = FALSE
  UserSelector = FALSE
  SelectorMatches = FALSE
  SpecValid = TRUE
  Events = {}
  MaxEvents = 0
  MaxJobs = 2
  MaxDeltas = 1
  retryOnStatusConflict = 1
  None = None
INVARIANTS
  OneJobPerStep

\* Two dependent jobs that complete, and any one disturbance on the way.
SPECIFICATION Spec
CONSTANTS
  Steps <- ChainSteps
  Deps <- ChainDeps
  JobSteps <- ChainSteps
  UserLabelled = TRUE
  UserSelector = TRUE
  SelectorMatches = TRUE
  SpecValid = TRUE
  Events = {"pause", "deleteWorkflow", "deleteJob", "expire", "netError", "lostReply", "listError", "listStatus", "crash"}
  MaxEvents = 1
  MaxJobs = 2
  MaxDeltas = 1
  retryOnStatusConflict = 1
  None = None
INVARIANTS
  TypeOK
  CompletionSound
  DependencyOrder
  ExpectationsReclaimed

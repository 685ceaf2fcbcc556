SPECIFICATION FairSpec
CONSTANTS
  Steps <- OneStep
  Deps <- OneDeps
  JobSteps <- OneStep
  UserLabelled = FALSE
  UserSelector = FALSE
  SelectorMatches = FALSE
  SpecValid = FALSE
  Events = {"fixSpec", "netError", "listError", "expire", "lostReply", "listStatus", "crash"}
  MaxEvents = 2
  MaxJobs = 2
  MaxDeltas = 1
  retryOnStatusConflict = 1
  None = None
INVARIANTS
  CompletionSound
PROPERTIES
  EventuallyComplete
  VerdictSettles

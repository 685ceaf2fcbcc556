\* Two dependent steps without a restart: order, expectations and the queue.
SPECIFICATION Spec
CONSTANTS
  Steps <- ChainSteps
  Deps <- ChainDeps
  JobSteps <- ChainSteps
  UserLabelled = FALSE
  UserSelector = FALSE
  SelectorMatches = FALSE
  SpecValid = TRUE
  Events = {"relabel", "deleteWorkflow", "deleteJob", "netError"}
  MaxEvents = 1
  MaxJobs = 2
  MaxDeltas = 1
  retryOnStatusConflict = 1
  None = None
INVARIANTS
  CompletionSound
  DependencyOrder
  OneOutstandingCreate
PROPERTIES
  ImplementsKeyQueue

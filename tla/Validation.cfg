SPECIFICATION FairSpec
CONSTANTS
  Names <- MCNames
  Created <- MCCreated
  Documents <- MCDocuments
  Edits <- MCEdits
  EditNames <- MCEditNames
  None = None
INVARIANTS
  TypeOK
  VerdictRight
  OrderRespected
  CycleReal
  StoredValid
  DaxFaithful
PROPERTIES
  ActiveStepsKept
  WalkAdvances
  Decided

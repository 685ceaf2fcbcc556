SPECIFICATION FairSpec
CONSTANTS
  Keys <- MCKeys
  Rank <- MCRank
  Names <- MCNames
  Namings <- MCNamings
  MaxWrites = 2
  MaxDeltas = 1
  None = None
INVARIANTS
  TypeOK
  LoneAgrees
PROPERTIES
  LastListedSyncs

SPECIFICATION FairSpec
CONSTANTS
  Keys = {k1, k2, k3}
  Workers = {w1, w2}
  None = None
INVARIANTS
  TypeOK
  QueueCoherent
  NeverConcurrent
PROPERTIES
  EveryRequestServed
  ImplementsKeyQueue

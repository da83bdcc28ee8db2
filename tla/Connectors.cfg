\* Two connectors that share a file.
SPECIFICATION FairSpec
CONSTANTS
  c1 = c1 c2 = c2 x = x y = y
  Connectors = {c1,c2}
  Contents = {x}
  BatchSize = 1
  MaxSyncs <- Twice
  MaxChanges <- Once
  MaxDeletes <- Once
  MaxMishaps = 1
  None = None
INVARIANTS TypeOK SyncIsExclusive OwnedDocumentsExist GoneOwnsNothing
PROPERTIES DeletionIsFinal ConnectorSettles
CHECK_DEADLOCK FALSE

SPECIFICATION Spec
CONSTANTS
  MaxId = 4
  Seeds <- MCSeeds
  Keys = {k1}
  Watched = {2}
  Links <- MCLinks
  Batches <- MCBatches
  MaxEdits = 1
  None = None
INVARIANTS TypeOK NoParentLeftBehind PrerequisitesAcyclic BatchOnce
PROPERTIES ClosesOnlyReady ImplementsForest NoLostUpdate

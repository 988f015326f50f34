SPECIFICATION MCSpec
CONSTANTS
  Refs = {r1, r2}
  WeakRefs = {w1, w2}
  MaxCount = 15
  Objs = {o1}
  Threads = {t1, t2}
  Names = {n1}
  MaxVersion = 2
  MaxDeltas = 2
  None = None
  MaxThreads = 2
  InitialThreads = 1
  MaxBatches = 3
  MaxSaves = 3
  Watcher = Watcher
INVARIANTS TypesOK RefsAlive DestroyedOnce   SavedBeforeCollected
  NothingLost
PROPERTIES DeletedStaysDeleted Collected SaveFinishes
CHECK_DEADLOCK FALSE

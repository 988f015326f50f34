SPECIFICATION FairSpec
CONSTANTS
  w1 = w1
  w2 = w2
  w3 = w3
  s1 = s1
  s2 = s2
  Workers = {w1, w2}
  Schedulers = {}
  Vectors <- SharedVectors
  NonBlocking = {}
  QueueOf <- SharedQueue
  Tasks = {save}
  SaveTasks = {save}
  Main = Main
  NoTask = NoTask
  Free = Free
  MaxPushes = 2
  MaxSaves = 1
CHECK_DEADLOCK FALSE
INVARIANT RefsBalanced
PROPERTIES QueuesDrain SaveCompletes ShutdownCompletes

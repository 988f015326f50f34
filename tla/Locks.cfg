SPECIFICATION MCSpec
CONSTANTS
  Threads = {t1, t2, t3}
  LockObjects = {a, b, c}
  Inner = {c}
  None = None
  Workers = {w1}
  Updaters = {u1, u2}
  Master = Master
  Objects = {a, b}
  LastID = LastID
  Destroyed = {b}
  MaxRetries = 3
  MaxWrites = 2
  MaxCopies = 1
  MaxSaves = 1
  Receiver = Receiver
  Programs = {p1}
  Timers = {s1, s2}
  MaxClients = 2
INVARIANTS  GuardsHold  ClientsAccounted
PROPERTIES  CommitsEnd SilentLeaves

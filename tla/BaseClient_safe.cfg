SPECIFICATION Spec
CONSTANTS
  SeqMod = 4
  Window = 2
  MaxOutstanding = 0
  Batch = 2
  ResendMax = 2
  Fragments = 2
  Senders = {t1, t2}
  Checkers = {c1}
  Free = Free
  Duplicates = TRUE
  MaxPackets = 3
INVARIANTS KeptUntilDelivered WindowBound
PROPERTIES StreamSpec
SYMMETRY Symmetry
CHECK_DEADLOCK FALSE

SPECIFICATION FairSpec
CONSTANTS
  SeqMod = 4
  Window = 2
  MaxOutstanding = 3
  Batch = 1
  ResendMax = 2
  Fragments = 2
  Senders = {t1}
  Checkers = {c1}
  Free = Free
  Duplicates = FALSE
  MaxPackets = 3
PROPERTIES Delivered ClosedStaysQuiet
CHECK_DEADLOCK FALSE

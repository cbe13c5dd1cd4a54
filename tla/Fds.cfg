SPECIFICATION FairSpec
CONSTANTS
  f1 = f1
  f2 = f2
  f3 = f3
  Files = {f1, f2, f3}
  MaxBytes = 3
  MaxChunk = 2
  MAX_FDS = 2
  MallocMayFail = TRUE
INVARIANTS Conservation InOrder FdBeforeByte NoSenderLeak NoReceiverLeak OwnedStaysOpen
PROPERTIES ImplementsChan Delivered
CHECK_DEADLOCK FALSE

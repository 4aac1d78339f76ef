SPECIFICATION FairSpec
CONSTANTS
  None = None
  MaxQueue = 2
  MaxRows = 3
  MaxDeletes = 3
INVARIANTS TypeOK ClearedStaysCleared ReadNotTorn
PROPERTIES WriterImplementsStore ClearHandled LoopFreed

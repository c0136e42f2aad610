SPECIFICATION NodeSpec
CONSTANTS
  Sources = {1}
  Self = 0
  FirstSequence = 16775
  Sequences = 2
  MaxRound = 1
  MaxMessages = 2
  PoolTxs <- SomeTxs
  Heads <- SomeHeads
  Wealth = 3
  AccountSlots = 1
  GlobalSlots = 2
  AccountQueue = 1
  GlobalQueue = 2
  PriceBump = 10
  NoReset = NoReset
  Hashes = {"g", "h"}
  BlockNumber <- Number
  EmptyBlock <- IsEmpty
  FetchPeers = {p, q}
  NoAnnounce = NoAnnounce
  HashLimit = 1
  BlockLimit = 1
  MaxUncleDist = 0
  MaxQueueDist = 1
  MaxAnnounces = 2
  Tables <- TableOrder
  BlobSize <- SizeOf
  MaxFileSize = 3
  ImmutabilityThreshold = 1
  FreezerBatchLimit = 2
  CloseFlushes = TRUE
  ShortWrites = {0}
  Overlap = FALSE
  MaxNumber = 4
  MaxRewinds = 1
  MaxFaults = 2
VIEW NodeView
INVARIANTS
  NoReadyMessageHeld NoReadyRequestHeld
  NoneLost PricesTracked PendingExecutable
  QueueAccounted TimersArmed
   
PROPERTIES BacklogLosesNothing
CHECK_DEADLOCK FALSE

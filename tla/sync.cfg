SPECIFICATION SyncSpec
CONSTANTS
  N = 2
  Cores = {0, 1}
  Payloads = {a, b}
  InvalidPayloads = {}
  NoBlock = NoBlock
  Builders = {0, 1}
  MaxRound = 1
  MaxSequence = 2
  MaxHeight = 2
  Downloads = FALSE
  SyncModes = {"full", "fast"}
  SyncPeers = {p, q}
  SecondPeer = q
  MaxHeader = 3
  EmptyPart <- NothingOf
  CacheItems = 2
  MemoryItems = {1, 2}
  MaxResults = 2
  MaxCount = 2
  FewFails = 1
  MaxAsked = 2
  MaxSyncs = 2
  NoRequest = NoRequest
  NoSlot = NoSlot
INVARIANTS
  LockCertified SealAgreement ChainAgreement
  PartsAccounted 
 
VIEW SyncView
SYMMETRY PayloadSymmetry
CHECK_DEADLOCK FALSE

SPECIFICATION FairSpec
CONSTANTS
  N = 2
  Cores = {0, 1}
  Payloads = {ok}
  InvalidPayloads = {}
  NoBlock = NoBlock
  Builders = {0, 1}
  MaxRound = 1
  MaxSequence = 1
  MaxHeight = 1
  Downloads = FALSE
  MaxWorks = 2
  MaxHeads = 1
  MaxStarts = 2
  None = None
INVARIANTS SealedIsDecided
PROPERTIES HeightEnds  StopReturns
CHECK_DEADLOCK FALSE

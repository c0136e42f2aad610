SPECIFICATION Spec
CONSTANTS
  N = 3
  Cores = {0, 1, 2}
  Payloads = {ok}
  InvalidPayloads = {}
  NoBlock = NoBlock
  Builders = {1}
  MaxRound = 1
  MaxSequence = 1
  MaxHeight = 1
  Downloads = FALSE
INVARIANT RoundChangeQuorumStarts
VIEW LiveView
CHECK_DEADLOCK FALSE

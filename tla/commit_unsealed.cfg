SPECIFICATION Spec
CONSTANTS
  N = 3
  Cores = {0, 1, 2}
  Payloads = {ok}
  InvalidPayloads = {}
  NoBlock = NoBlock
  Builders = {0, 1}
  MaxRound = 0
  MaxSequence = 1
  MaxHeight = 1
  Downloads = FALSE
INVARIANTS DeliveredSealed
VIEW LiveView
CHECK_DEADLOCK FALSE

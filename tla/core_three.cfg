SPECIFICATION Spec
CONSTANTS
  N = 3
  Cores = {0, 1, 2}
  Payloads = {a, b}
  InvalidPayloads = {}
  NoBlock = NoBlock
  Builders = {0}
  MaxRound = 0
  MaxSequence = 1
  MaxHeight = 1
  Downloads = TRUE
INVARIANTS DeliveredInv
VIEW LiveView
SYMMETRY PayloadSymmetry
CHECK_DEADLOCK FALSE

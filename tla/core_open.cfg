SPECIFICATION Spec
CONSTANTS
  N = 4
  Cores = {1}
  Payloads = {ok, bad}
  InvalidPayloads = {bad}
  NoBlock = NoBlock
  Builders = {1, 3}
  MaxRound = 2
  MaxSequence = 1
  MaxHeight = 1
  Downloads = FALSE
INVARIANTS OnePreparePerView OneSealPerHeight RoundChangeQuorumStarts 
PROPERTIES ViewNeverDecreases
VIEW LiveView
CONSTRAINT Explored
CHECK_DEADLOCK FALSE

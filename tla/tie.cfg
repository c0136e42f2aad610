SPECIFICATION Spec
CONSTANTS
  Sources = {1}
  Self = 0
  FirstSequence = 40000
  Sequences = 1
  MaxRound = 1
  MaxMessages = 2
INVARIANT NoReadyMessageHeld
CHECK_DEADLOCK FALSE

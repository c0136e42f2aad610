SPECIFICATION VSpec
CONSTANTS
  Addresses = {1, 2, 3}
  Genesis = {1, 2, 3}
  Epoch = 4
  MaxNumber = 3
  Proposals <- Leave
  Payers = {}
VIEW UndatedView
PROPERTY LeavesByProposal
CHECK_DEADLOCK FALSE

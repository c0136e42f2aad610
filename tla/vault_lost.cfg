SPECIFICATION StateSpec
CONSTANTS
  Addresses = {1, 2, 3, 4}
  Genesis = {1, 2, 3}
  Epoch = 4
  MaxNumber = 7
  OperatorBlocks = 5
  Proposals <- JoinAndLeave
  Payers = {4}
  Nodes = {1, 2, 3}
  Builder = 1
  Vault <- VaultOf
  GasLimit = 4
  TxGas = 1
  MaxGas = 2
  MaxTxs = 3
  Funds = 3
  Addrs = {a}
  NoAccount = NoAccount
  MaxSmiloPay <- PayLimit
  SmiloSpeed <- PaySpeed
  MaxBalance = 1
  MaxBlock = 2
  MaxJournal = 4
  MaxRevisions = 1
  TrieNodes <- NodeOrder
  Embedded <- InNode
  External <- OutOfNode
  StateRoots = {"r1", "r2"}
  MetaRoot = "0"
  MaxPushes = 2
  Blocks = {"g", "a1", "a2", "a3", "b2"}
  GenesisBlock = "g"
  ParentOf <- Parent
  Num <- Height
  Difficulty <- EqualDifficulty
  Root <- PublicRoot
  VaultRoot <- PrivateRoot
  NoVault = NoVault
  TriesInMemory = 2
  MaxCrashes = 1
  None = None
VIEW StateView
INVARIANT VaultReadable
CHECK_DEADLOCK FALSE

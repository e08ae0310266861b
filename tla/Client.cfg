\* The workflow of one user among others.
SPECIFICATION ClientSpec
CONSTANTS
  None = None
  User = {"u1"}
  TxId = {"D1", "D2", "W", "W2"}
  Tx <- WithdrawTx
  Vout = {0, 1}
  UsizeMod = 4
  LockHeights = 9
  U64Max = 7
  Contract = {"lc", "bip", "k1"}
  Key = {"k1"}
  AccountId = {"alice"}
  InitOwner = "alice"
  SyncId = {s1}
  InitConfig <- BaseConfig
  Settable <- Fixed
  CallId = {mine, other}
  Amount = {}
  Payment = {}
  StorageDeposit = 1
  RefundThreshold = 1
  PsbtCost <- WithdrawPsbtCost
  Partial = {TRUE}
  Witnesses <- ClientWitnesses
  MaxNonce = 1
  MaxTime = 2
  Me = "u1"
  MyCall = mine
  Deposits = {"D1", "D2"}
  Psbt0 = "W"
  Embed = 1
  MyAmount = 2
PROPERTIES WorkflowCompletes
CHECK_DEADLOCK FALSE

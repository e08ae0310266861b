\* Deposits and withdrawals on a chain that reorganises.
SPECIFICATION ConfSpec
CONSTANTS
  None = None
  User = {"u1"}
  TxId = {"D", "R", "W", "S"}
  Tx <- ReorgTxs
  Vout = {0, 1}
  UsizeMod = 4
  LockHeights = 9
  U64Max = 7
  Contract = {"lc", "bip", "k1"}
  Key = {"k1"}
  AccountId = {"alice"}
  InitOwner = "alice"
  SyncId = {s1}
  InitConfig <- ReorgConfig
  Settable <- ReorgSettable
  CallId = {c1}
  Amount = {1}
  Payment = {1}
  StorageDeposit = 1
  RefundThreshold = 1
  PsbtCost <- ReorgPsbtCost
  Partial = {TRUE}
  Witnesses <- ReorgWitnesses
  MaxNonce = 1
  MaxTime = 2
  MaxReorg = 1
  MaxHeight = 4
PROPERTY ImplementsFinal
CHECK_DEADLOCK FALSE

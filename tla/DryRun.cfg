\* The dry run of a deposit that was submitted already.
SPECIFICATION Spec
CONSTANTS
  None = None
  User = {"u1", "u2"}
  TxId = {"D1", "D2", "S"}
  Tx <- DepositTxs
  Vout = {0, 1, 2}
  UsizeMod = 4
  LockHeights = 9
  U64Max = 7
  Contract = {"lc", "bip", "k1"}
  Key = {"k1"}
  AccountId = {"alice"}
  InitOwner = "alice"
  SyncId = {s1}
  InitConfig <- BaseConfig
  Settable <- DepositSettable
  CallId = {c1}
  Amount = {}
  Payment = {0, 1}
  StorageDeposit = 1
  RefundThreshold = 1
  PsbtCost <- DepositPsbtCost
  Partial = {TRUE}
  Witnesses <- DepositWitnesses
  MaxNonce = 0
  MaxTime = 1
INVARIANT DryRunPredictsSubmit
CHECK_DEADLOCK FALSE

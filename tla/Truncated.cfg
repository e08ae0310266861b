\* An output index above the range of usize.
SPECIFICATION Spec
CONSTANTS
  None = None
  User = {"u1"}
  TxId = {"T"}
  Tx <- TruncatedTxs
  Vout = {0, 1, 2, 4}
  UsizeMod = 4
  LockHeights = 9
  U64Max = 7
  Contract = {"lc", "bip", "k1"}
  Key = {"k1"}
  AccountId = {"alice"}
  InitOwner = "alice"
  SyncId = {s1}
  InitConfig <- BaseConfig
  Settable <- Fixed
  CallId = {c1}
  Amount = {}
  Payment = {1}
  StorageDeposit = 1
  RefundThreshold = 1
  PsbtCost <- TruncatedPsbtCost
  Partial = {TRUE}
  Witnesses <- TruncatedWitnesses
  MaxNonce = 2
  MaxTime = 3
INVARIANT UtxoRecordedOnce
CHECK_DEADLOCK FALSE

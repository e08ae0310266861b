\* One signed message against two verifier calls.
SPECIFICATION HistorySpec
CONSTANTS
  None = None
  User = {"u1"}
  TxId = {"D1"}
  Tx <- QueueTxs
  Vout = {0, 1}
  UsizeMod = 4
  LockHeights = 9
  U64Max = 7
  Contract = {"lc", "bip", "k1"}
  Key = {"k1"}
  AccountId = {"alice"}
  InitOwner = "alice"
  SyncId = {s1}
  InitConfig <- BaseConfig
  Settable <- Fixed
  CallId = {c1, c2}
  Amount = {1}
  Payment = {1}
  StorageDeposit = 1
  RefundThreshold = 1
  PsbtCost <- QueuePsbtCost
  Partial = {TRUE}
  Witnesses <- QueueWitnesses
  MaxNonce = 2
  MaxTime = 3
INVARIANT MessageAppliedOnce
CHECK_DEADLOCK FALSE

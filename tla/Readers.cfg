\* An indexer and a reader beside three deposits of one user.
SPECIFICATION ReadersSpec
CONSTANTS
  None = None
  User = {"u1"}
  TxId = {"D", "S", "M"}
  Tx <- ReadersTxs
  Vout = {0, 1, 2, 3, 4, 5}
  UsizeMod = 8
  LockHeights = 9
  U64Max = 7
  Contract = {"lc", "bip", "k1"}
  Key = {"k1"}
  AccountId = {"alice"}
  InitOwner = "alice"
  SyncId = {s1}
  InitConfig <- ReadersConfig
  Settable <- ReadersSettable
  CallId = {c1}
  Amount = {1}
  Payment = {1}
  StorageDeposit = 1
  RefundThreshold = 1
  PsbtCost <- ReadersPsbtCost
  Partial = {TRUE}
  Witnesses <- ReadersWitnesses
  MaxNonce = 1
  MaxTime = 2
  Limit = 1
INVARIANTS EventsTellBooks NothingListedTwice SkippedOnlyForRemoved WithdrawnAllListed
CHECK_DEADLOCK FALSE

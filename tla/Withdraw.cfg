\* Two deposits of one user, multisig withdrawal with replacement, reinvestment, solo withdrawal.
SPECIFICATION Spec
CONSTANTS
  None = None
  User = {"u1"}
  TxId = {"D1", "D2", "W", "W2", "S"}
  Tx <- WithdrawTx
  Vout = {0, 1}
  UsizeMod = 4
  LockHeights = 9
  U64Max = 7
  Contract = {"lc", "bip", "k1"}
  Key = {"k1"}
  AccountId = {"alice"}
  InitOwner = "alice"
  SyncId = {s1}
  InitConfig <- BaseConfig
  Settable <- Fixed
  CallId = {c1}
  Amount = {2}
  Payment = {1}
  StorageDeposit = 1
  RefundThreshold = 1
  PsbtCost <- WithdrawPsbtCost
  Partial = {TRUE, FALSE}
  Witnesses <- WithdrawWitnesses
  MaxNonce = 2
  MaxTime = 3
INVARIANTS TypeOK RecordedOnce TotalIsActiveValue WithdrawalsCompletable BooksMatchChain QueueUsedUpByPending StorageFunded DryRunPredictsSign
PROPERTY ImplementsLedger
CHECK_DEADLOCK FALSE

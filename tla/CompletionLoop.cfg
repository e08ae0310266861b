\* The completion loop against its closed form.
SPECIFICATION LoopSpec
CONSTANTS
  None = None
  Contract = {"k1"}
  Key = {"k1"}
  User = {"u1"}
  TxId = {"D", "V", "W"}
  Tx <- LoopTx
  Vout = {0, 1, 2}
  UsizeMod = 4
  LockHeights = 9
  U64Max = 7
  Before <- LoopAccounts
INVARIANT LoopComputesCompletion
CHECK_DEADLOCK FALSE

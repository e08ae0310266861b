\* Ownership, parameters and root key on their own.
SPECIFICATION AdminSpec
CONSTANTS
  None = None
  Contract = {"lc", "lc2", "bip", "k1", "k2"}
  Key = {"k1", "k2"}
  AccountId = {"alice", "bob"}
  InitOwner = "alice"
  SyncId = {"s1", "s2"}
  InitConfig <- MCInitConfig
  Settable <- MCSettable
INVARIANT AdminTypeOK
PROPERTIES RootKeyStable TransferUsesUpProposal

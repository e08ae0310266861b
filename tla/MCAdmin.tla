------------------------------ MODULE MCAdmin ------------------------------
(* An instance of Admin for TLC: two owners, two chain-signatures          *)
(* contracts, two fetches of the root key.                                 *)
EXTENDS Admin

MCInitConfig ==
  [paused |-> FALSE, lightClient |-> "lc", verifier |-> None, chainSigs |-> "k1",
   nConf |-> 0, waiting |-> 1, minDeposit |-> 1, earliest |-> 0, seqHeights |-> {5}]

MCSettable ==
  [lightClient |-> {"lc2"}, verifier |-> {"bip", None}, chainSigs |-> {"k1", "k2"},
   nConf |-> {0, 2}, waiting |-> {0, 2}, minDeposit |-> {3}, earliest |-> {7},
   seqHeights |-> {{}, {5, 6}}, paused |-> BOOLEAN]

=============================================================================

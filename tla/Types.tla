------------------------------- MODULE Types -------------------------------
(***************************************************************************)
(* What the modules share: the ids of external contracts and the           *)
(* parameters of the contract (lib.rs, struct Contract).                   *)
(***************************************************************************)
EXTENDS Integers

CONSTANTS
  Contract,  \* ids of external contracts
  Key,       \* those of them that are chain-signatures contracts; each is
             \* identified with its root key
  None       \* Option::None

ASSUME TypesAssumption == None \notin Contract \cup Key

Config ==
  [paused      : BOOLEAN,
   lightClient : Contract,
   verifier    : Contract \cup {None},
   chainSigs   : Key,
   nConf       : Nat,
   waiting     : Nat,
   minDeposit  : Nat,
   earliest    : Nat,
   seqHeights  : SUBSET Nat]

=============================================================================

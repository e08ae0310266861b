------------------------------- MODULE Admin -------------------------------
(***************************************************************************)
(* The part of the contract that its owner and its set-up act on: the      *)
(* parameters and the hand-over of the ownership (admin.rs), and the root  *)
(* public key of the chain-signatures contract, which anyone may ask the   *)
(* contract to fetch once (lib.rs).                                        *)
(*                                                                         *)
(* A fetch is an asynchronous call: the request leaves the contract in one *)
(* step and its callback runs in a later one. syncs[s] is the contract     *)
(* that fetch s went to, or None.                                          *)
(***************************************************************************)
EXTENDS Types

CONSTANTS
  AccountId,   \* NEAR accounts that may own the contract
  SyncId,      \* slots for fetches of the root key in flight
  InitConfig,  \* the InitArgs of init
  InitOwner,
  Settable     \* the values the owner may try, one set per parameter

ASSUME AdminAssumption ==
  /\ None \notin AccountId
  /\ InitConfig \in Config
  /\ ~InitConfig.paused
  /\ InitOwner \in AccountId
  /\ Settable \in [lightClient : SUBSET Contract,
                   verifier    : SUBSET (Contract \cup {None}),
                   chainSigs   : SUBSET Key,
                   nConf       : SUBSET Nat,
                   waiting     : SUBSET Nat,
                   minDeposit  : SUBSET Nat,
                   earliest    : SUBSET Nat,
                   seqHeights  : SUBSET SUBSET Nat,
                   paused      : SUBSET BOOLEAN]

VARIABLES
  owner,         \* owner_id
  pendingOwner,  \* pending_owner_id
  config,        \* the parameters and the paused flag
  rootKey,       \* chain_signatures_root_pubkey
  syncs          \* root key fetches in flight

adminVars == <<owner, pendingOwner, config, rootKey, syncs>>
ownership == <<owner, pendingOwner>>
rootVars == <<rootKey, syncs>>

AdminTypeOK ==
  /\ owner \in AccountId
  /\ pendingOwner \in AccountId \cup {None}
  /\ config \in Config
  /\ rootKey \in Key \cup {None}
  /\ syncs \in [SyncId -> Key \cup {None}]

AdminInit ==
  /\ owner = InitOwner
  /\ pendingOwner = None
  /\ config = InitConfig
  /\ rootKey = None
  /\ syncs = [s \in SyncId |-> None]

-----------------------------------------------------------------------------
(* admin.rs; caller is the predecessor of the call *)

ProposeChangeOwner(caller, newOwner) ==
  /\ caller = owner
  /\ pendingOwner' = newOwner
  /\ UNCHANGED <<owner, config, rootVars>>

(* mistake: the proposal is cleared before it is read *)
AcceptCleared(caller) ==
  /\ pendingOwner # None
  /\ caller = pendingOwner
  /\ pendingOwner' = None
  /\ owner' = pendingOwner'
  /\ UNCHANGED <<config, rootVars>>

(* mistake: the proposal stays *)
AcceptKeepingProposal(caller) ==
  /\ pendingOwner # None
  /\ caller = pendingOwner
  /\ owner' = pendingOwner
  /\ UNCHANGED <<pendingOwner, config, rootVars>>

AcceptChangeOwner(caller) ==
  /\ pendingOwner # None
  /\ caller = pendingOwner
  /\ owner' = pendingOwner
  /\ pendingOwner' = None
  /\ UNCHANGED <<config, rootVars>>

SetLightClient(caller) ==
  /\ caller = owner
  /\ \E id \in Settable.lightClient : config' = [config EXCEPT !.lightClient = id]
  /\ UNCHANGED <<ownership, rootVars>>

SetVerifier(caller) ==
  /\ caller = owner
  /\ \E id \in Settable.verifier : config' = [config EXCEPT !.verifier = id]
  /\ UNCHANGED <<ownership, rootVars>>

SetChainSignatures(caller) ==
  /\ caller = owner
  /\ \E id \in Settable.chainSigs : config' = [config EXCEPT !.chainSigs = id]
  /\ UNCHANGED <<ownership, rootVars>>

SetNConfirmation(caller) ==
  /\ caller = owner
  /\ \E n \in Settable.nConf :
       n > 0 /\ config' = [config EXCEPT !.nConf = n]
  /\ UNCHANGED <<ownership, rootVars>>

SetWithdrawalWaitingTime(caller) ==
  /\ caller = owner
  /\ \E ms \in Settable.waiting :
       ms > 0 /\ config' = [config EXCEPT !.waiting = ms]
  /\ UNCHANGED <<ownership, rootVars>>

SetMinDeposit(caller) ==
  /\ caller = owner
  /\ \E sat \in Settable.minDeposit :
       config' = [config EXCEPT !.minDeposit = sat]
  /\ UNCHANGED <<ownership, rootVars>>

SetEarliestHeight(caller) ==
  /\ caller = owner
  /\ \E h \in Settable.earliest : config' = [config EXCEPT !.earliest = h]
  /\ UNCHANGED <<ownership, rootVars>>

SetSequenceHeights(caller) ==
  /\ caller = owner
  /\ \E hs \in Settable.seqHeights :
       hs # {} /\ config' = [config EXCEPT !.seqHeights = hs]
  /\ UNCHANGED <<ownership, rootVars>>

SetPaused(caller) ==
  /\ caller = owner
  /\ \E p \in Settable.paused :
       p # config.paused /\ config' = [config EXCEPT !.paused = p]
  /\ UNCHANGED <<ownership, rootVars>>

-----------------------------------------------------------------------------
(* lib.rs *)

SyncRootPubkey(s) ==
  /\ syncs[s] = None
  /\ rootKey = None
  /\ syncs' = [syncs EXCEPT ![s] = config.chainSigs]
  /\ UNCHANGED <<ownership, config, rootKey>>

(* mistake: the callback does not check again that no key is set *)
RootPubkeyOverwritten(s) ==
  /\ syncs[s] # None
  /\ rootKey' = syncs[s]
  /\ syncs' = [syncs EXCEPT ![s] = None]
  /\ UNCHANGED <<ownership, config>>

(* The key arrived and none was set in the meantime. *)
RootPubkeySet(s) ==
  /\ syncs[s] # None
  /\ rootKey = None
  /\ rootKey' = syncs[s]
  /\ syncs' = [syncs EXCEPT ![s] = None]
  /\ UNCHANGED <<ownership, config>>

(* The call failed, or another fetch was first: the callback panics. *)
RootPubkeyDropped(s) ==
  /\ syncs[s] # None
  /\ syncs' = [syncs EXCEPT ![s] = None]
  /\ UNCHANGED <<ownership, config, rootKey>>

OnSyncRootPubkey(s) == RootPubkeySet(s) \/ RootPubkeyDropped(s)

-----------------------------------------------------------------------------

OwnerStep(caller) ==
  \/ \E new \in AccountId : ProposeChangeOwner(caller, new)
  \/ AcceptChangeOwner(caller)
  \/ SetLightClient(caller)
  \/ SetVerifier(caller)
  \/ SetChainSignatures(caller)
  \/ SetNConfirmation(caller)
  \/ SetWithdrawalWaitingTime(caller)
  \/ SetMinDeposit(caller)
  \/ SetEarliestHeight(caller)
  \/ SetSequenceHeights(caller)
  \/ SetPaused(caller)

AdminNext ==
  \/ \E caller \in AccountId : OwnerStep(caller)
  \/ \E s \in SyncId : SyncRootPubkey(s) \/ OnSyncRootPubkey(s)

AdminSpec == AdminInit /\ [][AdminNext]_adminVars

-----------------------------------------------------------------------------
(* Once the root key is set nothing changes it, also not the answer of a   *)
(* second fetch that was in flight (lib.rs: "once set in contract          *)
(* initialization, this should not be changed").                           *)
RootKeyStable == [][rootKey # None => rootKey' = rootKey]_adminVars

(* The ownership goes to the account that was proposed, and the proposal   *)
(* is used up with it: the old owner's proposal cannot take the contract   *)
(* away from the new one (accept_change_owner).                            *)
TransferUsesUpProposal ==
  [][owner' # owner => pendingOwner = owner' /\ pendingOwner' = None]_adminVars

=============================================================================

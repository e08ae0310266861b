--------------------------- MODULE BitHiveProofs ---------------------------
(***************************************************************************)
(* Proofs that the properties of BitHiveProperties hold for every value of *)
(* the constants: the administration, on its own and in the whole system,  *)
(* type correctness, and what a step looks like from one account, from one *)
(* call and from outside the accounts.                                     *)
(***************************************************************************)
EXTENDS BitHiveProperties, AccountProofs

USE DEF contractVars, chainVars, adminVars, ownership, rootVars

-----------------------------------------------------------------------------
(* The administration                                                      *)

(* Every step of the administration keeps the types of its variables.      *)
LEMMA AdminNextType ==
  ASSUME AdminTypeOK, [AdminNext]_adminVars
  PROVE  AdminTypeOK'
<1> USE AdminAssumption DEF AdminTypeOK
<1>1. ASSUME NEW caller \in AccountId, OwnerStep(caller)
      PROVE  AdminTypeOK'
  <2> USE DEF Config
  <2>1. ASSUME NEW new \in AccountId, ProposeChangeOwner(caller, new)
        PROVE  AdminTypeOK'
    BY <2>1 DEF ProposeChangeOwner
  <2>2. CASE AcceptChangeOwner(caller)
    BY <2>2 DEF AcceptChangeOwner
  <2>3. CASE SetLightClient(caller)
    BY <2>3 DEF SetLightClient
  <2>4. CASE SetVerifier(caller)
    BY <2>4 DEF SetVerifier
  <2>5. CASE SetChainSignatures(caller)
    BY <2>5 DEF SetChainSignatures
  <2>6. CASE SetNConfirmation(caller)
    BY <2>6 DEF SetNConfirmation
  <2>7. CASE SetWithdrawalWaitingTime(caller)
    BY <2>7 DEF SetWithdrawalWaitingTime
  <2>8. CASE SetMinDeposit(caller)
    BY <2>8 DEF SetMinDeposit
  <2>9. CASE SetEarliestHeight(caller)
    BY <2>9 DEF SetEarliestHeight
  <2>10. CASE SetSequenceHeights(caller)
    BY <2>10 DEF SetSequenceHeights
  <2>11. CASE SetPaused(caller)
    BY <2>11 DEF SetPaused
  <2> QED BY <1>1, <2>1, <2>2, <2>3, <2>4, <2>5, <2>6, <2>7, <2>8, <2>9, <2>10,
             <2>11 DEF OwnerStep
<1>2. ASSUME NEW s \in SyncId, SyncRootPubkey(s)
      PROVE  AdminTypeOK'
  BY <1>2 DEF SyncRootPubkey, Config
<1>3. ASSUME NEW s \in SyncId, OnSyncRootPubkey(s)
      PROVE  AdminTypeOK'
  BY <1>3 DEF OnSyncRootPubkey, RootPubkeySet, RootPubkeyDropped
<1>4. CASE UNCHANGED adminVars
  BY <1>4
<1> QED BY <1>1, <1>2, <1>3, <1>4 DEF AdminNext

(* What no step of the administration does: change a root key that is set, *)
(* or hand over the ownership without using up the proposal.               *)
LEMMA AdminSteps ==
  ASSUME AdminTypeOK, [AdminNext]_adminVars
  PROVE  /\ rootKey # None => rootKey' = rootKey
         /\ owner' # owner => pendingOwner = owner' /\ pendingOwner' = None
<1>1. ASSUME NEW caller \in AccountId, OwnerStep(caller)
      PROVE  /\ rootKey' = rootKey
             /\ owner' # owner => pendingOwner = owner' /\ pendingOwner' = None
  BY <1>1 DEF OwnerStep, ProposeChangeOwner, AcceptChangeOwner, SetLightClient,
              SetVerifier, SetChainSignatures, SetNConfirmation,
              SetWithdrawalWaitingTime, SetMinDeposit, SetEarliestHeight,
              SetSequenceHeights, SetPaused
<1>2. ASSUME NEW s \in SyncId, SyncRootPubkey(s) \/ OnSyncRootPubkey(s)
      PROVE  /\ rootKey # None => rootKey' = rootKey
             /\ owner' = owner
  BY <1>2 DEF SyncRootPubkey, OnSyncRootPubkey, RootPubkeySet, RootPubkeyDropped
<1> QED BY <1>1, <1>2 DEF AdminNext

(* The administration on its own keeps the root key and uses up proposals, *)
(* however many fetches of the key are answered and whatever the owners    *)
(* set in between.                                                         *)
THEOREM AdminCorrect == AdminSpec => RootKeyStable /\ TransferUsesUpProposal
<1>1. AdminInit => AdminTypeOK
  BY TypesAssumption, AdminAssumption DEF AdminInit, AdminTypeOK
<1>2. AdminTypeOK /\ [AdminNext]_adminVars => AdminTypeOK'
  BY AdminNextType
<1>3. AdminTypeOK /\ [AdminNext]_adminVars =>
        /\ [rootKey # None => rootKey' = rootKey]_adminVars
        /\ [owner' # owner => pendingOwner = owner' /\ pendingOwner' = None]_adminVars
  BY AdminSteps
<1> QED BY <1>1, <1>2, <1>3, PTL DEF AdminSpec, RootKeyStable, TransferUsesUpProposal

(* The parameters keep their types, and owner and root key too, whatever   *)
(* the owners set and whichever fetches of the key come back.              *)
THEOREM AdminTypeCorrect == AdminSpec => []AdminTypeOK
<1>1. AdminInit => AdminTypeOK
  BY TypesAssumption, AdminAssumption DEF AdminInit, AdminTypeOK
<1>2. AdminTypeOK /\ [AdminNext]_adminVars => AdminTypeOK'
  BY AdminNextType
<1> QED BY <1>1, <1>2, PTL DEF AdminSpec

-----------------------------------------------------------------------------
(* Type correctness                                                        *)

(* Storing or dropping a call keeps calls well typed.                      *)
LEMMA CallsType ==
  ASSUME TypeOK, NEW c \in CallId
  PROVE  /\ \A call \in Call : Send(c, call) => calls' \in [CallId -> Call \cup {NoCall}]
         /\ \A kind : Answer(c, kind) => calls' \in [CallId -> Call \cup {NoCall}]
BY DEF TypeOK, Send, Answer

(* What is known of a call when its callback runs.                         *)
LEMMA CallKinds ==
  ASSUME TypeOK, NEW c \in CallId
  PROVE  /\ calls[c].kind = "deposit" => calls[c] \in DepositCall
         /\ calls[c].kind = "bip322" => calls[c] \in Bip322Call
         /\ calls[c].kind = "sign" => calls[c] \in SignCall
         /\ calls[c].kind = "withdraw" => calls[c] \in WithdrawCall
<1>1. calls[c] \in DepositCall \cup Bip322Call \cup SignCall \cup WithdrawCall \cup {NoCall}
  BY DEF TypeOK, Call
<1>2. CASE calls[c] \in DepositCall
  BY <1>2 DEF DepositCall
<1>3. CASE calls[c] \in Bip322Call
  BY <1>3 DEF Bip322Call
<1>4. CASE calls[c] \in SignCall
  BY <1>4 DEF SignCall
<1>5. CASE calls[c] \in WithdrawCall
  BY <1>5 DEF WithdrawCall
<1>6. CASE calls[c] = NoCall
  BY <1>6 DEF NoCall
<1> QED BY <1>1, <1>2, <1>3, <1>4, <1>5, <1>6

(* Handlers keep the types.                                                *)
LEMMA HandlerType ==
  ASSUME TypeOK, NEW c \in CallId, Handler(c)
  PROVE  TypeOK'
<1> USE BitHiveAssumption
<1>1. ASSUME NEW t \in TxId, NEW embed \in Vout, NEW attached \in Payment,
             SubmitDepositTx(c, t, embed, attached)
      PROVE  TypeOK'
  <2>1. DepositVout(t, embed) \in Vout /\ DepositId(t, embed) \in OutputId
    BY <1>1, DepositIdType DEF SubmitDepositTx
  <2>2. [kind |-> "deposit", tx |-> t, embed |-> embed,
         vout |-> DepositVout(t, embed), attached |-> attached] \in Call
    BY <2>1 DEF Call, DepositCall
  <2>3. calls' \in [CallId -> Call \cup {NoCall}]
    BY <1>1, <2>2, CallsType DEF SubmitDepositTx
  <2> QED BY <1>1, <2>1, <2>3 DEF SubmitDepositTx, TypeOK, AdminTypeOK
<1>2. ASSUME NEW u \in User, NEW amount \in Amount, QueueWithdrawalBip322(c, u, amount)
      PROVE  TypeOK'
  <2>1. accounts[u].nonce \in Nat
    BY DEF TypeOK, AccountType, U64
  <2>2. [kind |-> "bip322", user |-> u, amount |-> amount,
         nonce |-> accounts[u].nonce] \in Call
    BY <2>1 DEF Call, Bip322Call
  <2>3. calls' \in [CallId -> Call \cup {NoCall}]
    BY <1>2, <2>2, CallsType DEF QueueWithdrawalBip322
  <2> QED BY <1>2, <2>3 DEF QueueWithdrawalBip322, TypeOK, AdminTypeOK
<1>3. ASSUME NEW u \in User, NEW t \in TxId, NEW vin \in DOMAIN Tx[t].ins,
             NEW partial \in Partial, NEW left \in Nat,
             RequestSignature(c, u, t, vin, partial, left)
      PROVE  calls' \in [CallId -> Call \cup {NoCall}]
  <2>1. config.chainSigs \in Key /\ vin \in Nat /\ partial \in BOOLEAN
    BY DepositTxAssumption DEF TypeOK, AdminTypeOK, Config
  <2>2. [kind |-> "sign", user |-> u, tx |-> t, vin |-> vin, partial |-> partial,
         attached |-> left, signer |-> config.chainSigs] \in Call
    BY <2>1 DEF Call, SignCall
  <2> QED BY <1>3, <2>2, CallsType DEF RequestSignature
<1>4. ASSUME NEW u \in User, NEW t \in TxId, NEW vin \in DOMAIN Tx[t].ins,
             NEW partial \in Partial, NEW embed \in Vout \cup {None},
             NEW attached \in Payment, NEW storage \in Payment,
             SignFirst(c, u, t, vin, partial, embed, attached, storage)
      PROVE  TypeOK'
  <2> DEFINE charged == IF Len(Tx[t].ins) > 1 THEN storage ELSE 0
             left == attached - charged
  <2>1. charged \in Nat /\ left \in Nat
    <3>1. attached >= charged
      BY <1>4 DEF SignFirst
    <3>2. attached \in Nat /\ charged \in Nat
      OBVIOUS
    <3> QED BY <3>1, <3>2
  <2>2. RequestSignature(c, u, t, vin, partial, left)
    BY <1>4 DEF SignFirst
  <2>3. calls' \in [CallId -> Call \cup {NoCall}]
    <3> HIDE DEF left
    <3> QED BY <1>3, <2>1, <2>2
  <2>4. embed # None => VerifyEmbedOutput(t, embed)
    BY <1>4 DEF SignFirst, VerifyPendingSignRequestAmount, VerifyDepositTxn
  <2>5. accounts' = [accounts EXCEPT ![u] = SavePending(accounts[u], t, embed, charged)]
    BY <1>4 DEF SignFirst
  <2>6. SavePending(accounts[u], t, embed, charged) \in AccountType
    BY <2>1, <2>4, SavePendingType DEF TypeOK
  <2>7. accounts' \in [User -> AccountType]
    BY <2>5, <2>6 DEF TypeOK
  <2>8. near' \in Int
    BY <1>4, <2>1 DEF SignFirst, TypeOK
  <2> QED BY <1>4, <2>3, <2>7, <2>8 DEF SignFirst, TypeOK, AdminTypeOK
<1>5. ASSUME NEW u \in User, NEW t \in TxId, NEW vin \in DOMAIN Tx[t].ins,
             NEW partial \in Partial, NEW attached \in Payment,
             SignAgain(c, u, t, vin, partial, attached)
      PROVE  TypeOK'
  <2>1. calls' \in [CallId -> Call \cup {NoCall}]
    BY <1>3, <1>5 DEF SignAgain
  <2> QED BY <1>5, <2>1 DEF SignAgain, TypeOK, AdminTypeOK
<1>6. ASSUME NEW u \in User, NEW t \in TxId, NEW multisig \in Witnesses[t],
             SubmitWithdrawalTx(c, u, t, multisig)
      PROVE  TypeOK'
  <2>1. [kind |-> "withdraw", user |-> u, tx |-> t, multisig |-> multisig] \in Call
    BY DEF Call, WithdrawCall
  <2>2. calls' \in [CallId -> Call \cup {NoCall}]
    BY <1>6, <2>1, CallsType DEF SubmitWithdrawalTx
  <2> QED BY <1>6, <2>2 DEF SubmitWithdrawalTx, TypeOK, AdminTypeOK
<1> QED BY <1>1, <1>2, <1>4, <1>5, <1>6 DEF Handler

(* Callbacks keep the types.                                               *)
LEMMA CallbackType ==
  ASSUME TypeOK, NEW c \in CallId, Callback(c)
  PROVE  TypeOK'
<1>1. ASSUME NEW kind, Answer(c, kind)
      PROVE  calls' \in [CallId -> Call \cup {NoCall}]
  BY <1>1, CallsType
<1>2. CASE OnVerifyDepositTx(c)
  <2> DEFINE t == calls[c].tx
             embed == calls[c].embed
  <2>1. calls[c] \in DepositCall /\ calls' \in [CallId -> Call \cup {NoCall}]
    BY <1>1, <1>2, CallKinds
    DEF OnVerifyDepositTx, DepositRejected, DepositSaved, DepositNotSaved, Answer
  <2>2. CASE DepositRejected(c)
    <3>1. near' \in Int
      BY <2>1, <2>2 DEF DepositRejected, DepositCall, TypeOK
    <3> QED BY <2>1, <2>2, <3>1 DEF DepositRejected, TypeOK, AdminTypeOK
  <2>3. CASE DepositSaved(c)
    <3> DEFINE u == DepositUser(t, embed)
               o == DepositId(t, embed)
    <3>1. CanSaveDeposit(t, embed)
      BY <2>3 DEF DepositSaved
    <3>2. u \in User /\ o \in OutputId /\ CanCreateDeposit(accounts[u], o)
      BY <2>1, <3>1, DepositIdType DEF CanSaveDeposit, VerifyDepositTxn, DepositCall
    <3>3. CreateDeposit(accounts[u], o) \in AccountType
      BY <3>2, CreateDepositType DEF TypeOK
    <3>4. accounts' = [accounts EXCEPT ![u] = CreateDeposit(accounts[u], o)]
      BY <2>3 DEF DepositSaved
    <3> HIDE DEF u, o
    <3>5. accounts' \in [User -> AccountType]
      BY <3>3, <3>4 DEF TypeOK
    <3> QED BY <2>1, <2>3, <3>5 DEF DepositSaved, TypeOK, AdminTypeOK
  <2>4. CASE DepositNotSaved(c)
    BY <2>1, <2>4 DEF DepositNotSaved, TypeOK, AdminTypeOK
  <2> QED BY <1>2, <2>2, <2>3, <2>4 DEF OnVerifyDepositTx
<1>3. CASE OnBip322Verify(c)
  <2>1. calls[c] \in Bip322Call /\ calls' \in [CallId -> Call \cup {NoCall}]
    BY <1>1, <1>3, CallKinds DEF OnBip322Verify, Bip322Accepted, Bip322Dropped, Answer
  <2>2. CASE Bip322Accepted(c)
    <3>1. calls[c].user \in User /\ calls[c].amount \in U64
      BY <2>1 DEF Bip322Call
    <3>2. accounts' \in [User -> AccountType]
      BY <2>2, <3>1, QueueWithdrawalType DEF Bip322Accepted, ApplyQueueWithdrawal, TypeOK
    <3> QED BY <2>1, <2>2, <3>2 DEF Bip322Accepted, TypeOK, AdminTypeOK
  <2>3. CASE Bip322Dropped(c)
    BY <2>1, <2>3 DEF Bip322Dropped, TypeOK, AdminTypeOK
  <2> QED BY <1>3, <2>2, <2>3 DEF OnBip322Verify
<1>4. CASE OnSignWithdrawal(c)
  <2>1. calls[c] \in SignCall /\ calls' \in [CallId -> Call \cup {NoCall}]
    BY <1>1, <1>4, CallKinds DEF OnSignWithdrawal, SignatureGiven, SignatureFailed, Answer
  <2>2. <<calls[c].tx, calls[c].vin, calls[c].signer>> \in TxId \X Nat \X Key
        /\ calls[c].attached \in Nat
    BY <2>1 DEF SignCall
  <2>3. CASE SignatureGiven(c)
    BY <2>1, <2>2, <2>3 DEF SignatureGiven, TypeOK, AdminTypeOK
  <2>4. CASE SignatureFailed(c)
    <3>1. near' \in Int
      BY <2>2, <2>4 DEF SignatureFailed, TypeOK
    <3> QED BY <2>1, <2>4, <3>1 DEF SignatureFailed, TypeOK, AdminTypeOK
  <2> QED BY <1>4, <2>3, <2>4 DEF OnSignWithdrawal
<1>5. CASE OnVerifyWithdrawalTx(c)
  <2>1. calls[c] \in WithdrawCall /\ calls' \in [CallId -> Call \cup {NoCall}]
    BY <1>1, <1>5, CallKinds
    DEF OnVerifyWithdrawalTx, WithdrawalCompleted, WithdrawalDropped, Answer
  <2>2. CASE WithdrawalCompleted(c)
    <3>1. calls[c].user \in User /\ calls[c].tx \in TxId
      BY <2>1 DEF WithdrawCall
    <3>2. accounts' \in [User -> AccountType]
      BY <2>2, <3>1, CompleteWithdrawalsType DEF WithdrawalCompleted, TypeOK
    <3> QED BY <2>1, <2>2, <3>2 DEF WithdrawalCompleted, TypeOK, AdminTypeOK
  <2>3. CASE WithdrawalDropped(c)
    BY <2>1, <2>3 DEF WithdrawalDropped, TypeOK, AdminTypeOK
  <2> QED BY <1>5, <2>2, <2>3 DEF OnVerifyWithdrawalTx
<1> QED BY <1>2, <1>3, <1>4, <1>5 DEF Callback

(* Every step keeps the types.                                             *)
LEMMA TypeStep ==
  ASSUME TypeOK, [Next]_vars
  PROVE  TypeOK'
<1>1. ASSUME NEW c \in CallId, Handler(c) \/ Callback(c) PROVE TypeOK'
  BY <1>1, HandlerType, CallbackType
<1>2. ASSUME NEW u \in User, NEW amount \in Amount, QueueWithdrawalEcdsa(u, amount)
      PROVE  TypeOK'
  <2>1. accounts' \in [User -> AccountType]
    BY <1>2, BitHiveAssumption, QueueWithdrawalType
    DEF QueueWithdrawalEcdsa, ApplyQueueWithdrawal, TypeOK
  <2> QED BY <1>2, <2>1 DEF QueueWithdrawalEcdsa, TypeOK, AdminTypeOK
<1>3. CASE AdminNext /\ UNCHANGED <<contractVars, chainVars>>
  BY <1>3, AdminNextType DEF TypeOK
<1>4. CASE Tick
  BY <1>4, BitHiveAssumption, AccountAssumption DEF Tick, TypeOK, AdminTypeOK, U64
<1>5. ASSUME NEW t \in TxId, Mine(t) PROVE TypeOK'
  BY <1>5 DEF Mine, TypeOK, AdminTypeOK
<1>6. CASE UNCHANGED vars
  BY <1>6 DEF vars, TypeOK, AdminTypeOK
<1> QED BY <1>1, <1>2, <1>3, <1>4, <1>5, <1>6 DEF Next

(* Every variable of the contract, and of what surrounds it, has its type  *)
(* in every reachable state: in particular no u64 of an account leaves its *)
(* range.                                                                  *)
THEOREM TypeCorrect == Spec => []TypeOK
<1>1. Init => TypeOK
  BY NewAccountType, TypesAssumption, AdminAssumption, BitHiveAssumption, AccountAssumption
  DEF Init, AdminInit, TypeOK, AdminTypeOK, U64
<1>2. TypeOK /\ [Next]_vars => TypeOK'
  BY TypeStep
<1> QED BY <1>1, <1>2, PTL DEF Spec

-----------------------------------------------------------------------------
(* What the handlers and the callbacks have in common                      *)

(* A handler sends one call, and leaves the administration and the         *)
(* surroundings alone.                                                     *)
LEMMA HandlerLeaves ==
  ASSUME NEW c, Handler(c)
  PROVE  UNCHANGED <<adminVars, chainVars>> /\ \E call : Send(c, call)
<1> DEFINE Goal == UNCHANGED <<adminVars, chainVars>> /\ \E call : Send(c, call)
<1> SUFFICES Goal
  OBVIOUS
<1>1. ASSUME NEW t, NEW embed, NEW attached, SubmitDepositTx(c, t, embed, attached)
      PROVE  Goal
  BY <1>1 DEF SubmitDepositTx
<1>2. ASSUME NEW u, NEW amount, QueueWithdrawalBip322(c, u, amount)
      PROVE  Goal
  BY <1>2 DEF QueueWithdrawalBip322
<1>3. ASSUME NEW u, NEW t, NEW vin, NEW partial, NEW embed, NEW attached, NEW storage,
             \/ SignFirst(c, u, t, vin, partial, embed, attached, storage)
             \/ SignAgain(c, u, t, vin, partial, attached)
      PROVE  Goal
  BY <1>3 DEF SignFirst, SignAgain, RequestSignature
<1>4. ASSUME NEW u, NEW t, NEW multisig, SubmitWithdrawalTx(c, u, t, multisig)
      PROVE  Goal
  BY <1>4 DEF SubmitWithdrawalTx
<1> HIDE DEF Goal
<1> QED BY <1>1, <1>2, <1>3, <1>4 DEF Handler

(* A callback uses up its call, and gives out a signature at most.         *)
LEMMA CallbackLeaves ==
  ASSUME NEW c, Callback(c)
  PROVE  /\ UNCHANGED <<adminVars, now, mined>> /\ \E kind : Answer(c, kind)
         /\ sigs' = sigs \/ SignatureGiven(c)
BY DEF Callback, OnVerifyDepositTx, DepositRejected, DepositSaved, DepositNotSaved,
       OnBip322Verify, Bip322Accepted, Bip322Dropped,
       OnSignWithdrawal, SignatureGiven, SignatureFailed,
       OnVerifyWithdrawalTx, WithdrawalCompleted, WithdrawalDropped

-----------------------------------------------------------------------------
(* Steps as seen by one account                                            *)

DepositStep(u) ==
  \E c \in DepositCalls :
    /\ DepositSaved(c)
    /\ DepositUser(calls[c].tx, calls[c].embed) = u
    /\ CanSaveDeposit(calls[c].tx, calls[c].embed)
    /\ accounts'[u] = CreateDeposit(accounts[u], DepositId(calls[c].tx, calls[c].embed))

AmountAllowed(amount) ==
  \/ amount > 0
  \/ \E c \in CallId : calls[c].kind = "bip322" /\ calls[c].amount = amount

QueueStep(u) ==
  \E amount \in U64 :
    /\ AmountAllowed(amount)
    /\ CanQueueWithdrawal(accounts[u], amount)
    /\ accounts'[u] = QueueWithdrawal(accounts[u], amount, now)

SignStep(u) ==
  \E t \in TxId, embed \in Vout \cup {None}, storage \in Nat :
    /\ accounts[u].pending = None
    /\ VerifyPendingSignRequestAmount(accounts[u], u, t, embed, config, rootKey, now)
    /\ accounts'[u] = SavePending(accounts[u], t, embed, storage)

WithdrawStep(u) ==
  \E t \in mined : \E multisig :
    /\ CanCompleteWithdrawals(accounts[u], t)
    /\ accounts'[u] = CompleteWithdrawals(accounts[u], t, multisig)

(* Whatever step is taken, the account of u stays as it is or one of the   *)
(* operations of Account was applied to it, with its conditions met.       *)
LEMMA AccountStep ==
  ASSUME TypeOK, [Next]_vars, NEW u \in User
  PROVE  accounts'[u] = accounts[u] \/ DepositStep(u) \/ QueueStep(u)
           \/ SignStep(u) \/ WithdrawStep(u)
<1> DEFINE Goal == accounts'[u] = accounts[u] \/ DepositStep(u) \/ QueueStep(u)
                     \/ SignStep(u) \/ WithdrawStep(u)
<1> SUFFICES Goal
  OBVIOUS
<1>1. accounts \in [User -> AccountType]
  BY DEF TypeOK
<1>2. CASE UNCHANGED accounts
  BY <1>2
<1>3. ASSUME NEW c \in CallId, DepositSaved(c) PROVE Goal
  <2>1. c \in DepositCalls
    BY <1>3 DEF DepositSaved, Answer, DepositCalls
  <2>2. CanSaveDeposit(calls[c].tx, calls[c].embed)
    BY <1>3 DEF DepositSaved
  <2>3. CASE u = DepositUser(calls[c].tx, calls[c].embed)
    <3>1. accounts'[u] = CreateDeposit(accounts[u], DepositId(calls[c].tx, calls[c].embed))
      BY <1>1, <1>3, <2>3 DEF DepositSaved
    <3> QED BY <1>3, <2>1, <2>2, <2>3, <3>1 DEF DepositStep
  <2>4. CASE u # DepositUser(calls[c].tx, calls[c].embed)
    BY <1>1, <1>3, <2>4 DEF DepositSaved
  <2> QED BY <2>3, <2>4
<1>4. ASSUME NEW v \in User, NEW amount \in U64, AmountAllowed(amount),
             ApplyQueueWithdrawal(v, amount)
      PROVE  Goal
  <2>1. accounts' = [accounts EXCEPT ![v] = QueueWithdrawal(accounts[v], amount, now)]
    BY <1>4 DEF ApplyQueueWithdrawal
  <2>2. CASE u = v
    BY <1>1, <1>4, <2>1, <2>2 DEF ApplyQueueWithdrawal, QueueStep
  <2>3. CASE u # v
    BY <1>1, <2>1, <2>3
  <2> QED BY <2>2, <2>3
<1>5. ASSUME NEW c \in CallId, Bip322Accepted(c) PROVE Goal
  <2>1. calls[c].kind = "bip322" /\ calls[c].user \in User /\ calls[c].amount \in U64
    BY <1>5, CallKinds DEF Bip322Accepted, Answer, Bip322Call
  <2>2. ApplyQueueWithdrawal(calls[c].user, calls[c].amount)
    BY <1>5 DEF Bip322Accepted
  <2>3. AmountAllowed(calls[c].amount)
    BY <2>1 DEF AmountAllowed
  <2> QED BY <1>4, <2>1, <2>2, <2>3
<1>6. ASSUME NEW v \in User, NEW amount \in Amount, QueueWithdrawalEcdsa(v, amount)
      PROVE  Goal
  <2>1. amount \in U64 /\ amount > 0 /\ ApplyQueueWithdrawal(v, amount)
    BY <1>6, BitHiveAssumption DEF QueueWithdrawalEcdsa
  <2>2. AmountAllowed(amount)
    BY <2>1 DEF AmountAllowed
  <2> QED BY <1>4, <2>1, <2>2
<1>7. ASSUME NEW c \in CallId, NEW v \in User, NEW t \in TxId, NEW vin, NEW partial,
             NEW embed \in Vout \cup {None}, NEW attached, NEW storage \in Payment,
             SignFirst(c, v, t, vin, partial, embed, attached, storage)
      PROVE  Goal
  <2> DEFINE charged == IF Len(Tx[t].ins) > 1 THEN storage ELSE 0
  <2>1. charged \in Nat
    BY BitHiveAssumption
  <2>2. /\ accounts' = [accounts EXCEPT ![v] = SavePending(accounts[v], t, embed, charged)]
        /\ accounts[v].pending = None
        /\ VerifyPendingSignRequestAmount(accounts[v], v, t, embed, config, rootKey, now)
    BY <1>7 DEF SignFirst
  <2> HIDE DEF charged
  <2>3. CASE u = v
    BY <1>1, <2>1, <2>2, <2>3 DEF SignStep
  <2>4. CASE u # v
    BY <1>1, <2>2, <2>4
  <2> QED BY <2>3, <2>4
<1>8. ASSUME NEW c \in CallId, WithdrawalCompleted(c) PROVE Goal
  <2>1. calls[c].user \in User /\ calls[c].tx \in TxId
    BY <1>8, CallKinds DEF WithdrawalCompleted, Answer, WithdrawCall
  <2>2. CASE u = calls[c].user
    BY <1>1, <1>8, <2>1, <2>2 DEF WithdrawalCompleted, WithdrawStep
  <2>3. CASE u # calls[c].user
    BY <1>1, <1>8, <2>3 DEF WithdrawalCompleted
  <2> QED BY <2>2, <2>3
<1> HIDE DEF Goal
<1>9. ASSUME NEW c \in CallId, Handler(c) PROVE Goal
  <2>1. ASSUME NEW t, NEW embed, NEW attached, SubmitDepositTx(c, t, embed, attached)
        PROVE  UNCHANGED accounts
    BY <2>1 DEF SubmitDepositTx
  <2>2. ASSUME NEW v, NEW amount, QueueWithdrawalBip322(c, v, amount)
        PROVE  UNCHANGED accounts
    BY <2>2 DEF QueueWithdrawalBip322
  <2>3. ASSUME NEW v, NEW t, NEW vin, NEW partial, NEW attached,
               SignAgain(c, v, t, vin, partial, attached)
        PROVE  UNCHANGED accounts
    BY <2>3 DEF SignAgain
  <2>4. ASSUME NEW v, NEW t, NEW multisig, SubmitWithdrawalTx(c, v, t, multisig)
        PROVE  UNCHANGED accounts
    BY <2>4 DEF SubmitWithdrawalTx
  <2> QED BY <1>2, <1>7, <1>9, <2>1, <2>2, <2>3, <2>4 DEF Handler
<1>10. ASSUME NEW c \in CallId, Callback(c) PROVE Goal
  <2>1. CASE DepositRejected(c) \/ DepositNotSaved(c)
    BY <1>2, <2>1 DEF DepositRejected, DepositNotSaved
  <2>2. CASE Bip322Dropped(c) \/ OnSignWithdrawal(c) \/ WithdrawalDropped(c)
    BY <1>2, <2>2
    DEF Bip322Dropped, OnSignWithdrawal, SignatureGiven, SignatureFailed, WithdrawalDropped
  <2> QED BY <1>3, <1>5, <1>8, <1>10, <2>1, <2>2
          DEF Callback, OnVerifyDepositTx, OnBip322Verify, OnVerifyWithdrawalTx
<1>11. CASE AdminNext /\ UNCHANGED <<contractVars, chainVars>>
  BY <1>2, <1>11
<1>12. CASE UNCHANGED vars
  BY <1>2, <1>12 DEF vars
<1>13. CASE Tick \/ \E t \in TxId : Mine(t)
  BY <1>2, <1>13 DEF Tick, Mine
<1>14. Goal
  BY <1>6, <1>9, <1>10, <1>11, <1>12, <1>13 DEF Next
<1> QED BY <1>14

-----------------------------------------------------------------------------
(* Steps as seen by one call slot                                          *)

(* A send or an answer changes one slot.                                   *)
LEMMA SendOrAnswer ==
  ASSUME TypeOK, NEW c \in CallId, NEW d \in CallId
  PROVE  /\ \A call : Send(d, call) => calls'[c] = IF c = d THEN call ELSE calls[c]
         /\ \A kind : Answer(d, kind) => calls'[c] = IF c = d THEN NoCall ELSE calls[c]
BY DEF TypeOK, Send, Answer

(* sign_withdrawal sends the call of slot c. *)
SignRequested(c) ==
  \E u \in User, t \in TxId, partial \in Partial, attached \in Payment :
    \E vin \in DOMAIN Tx[t].ins :
      \/ \E embed \in Vout \cup {None}, storage \in Payment :
            SignFirst(c, u, t, vin, partial, embed, attached, storage)
      \/ SignAgain(c, u, t, vin, partial, attached)

(* A call stays, is answered, or is one that a handler has just sent.      *)
LEMMA CallStep ==
  ASSUME TypeOK, [Next]_vars, NEW c \in CallId
  PROVE  \/ calls'[c] = calls[c]
         \/ calls'[c] = NoCall
         \/ \E t \in TxId, embed \in Vout, attached \in Payment :
              SubmitDepositTx(c, t, embed, attached)
         \/ \E u \in User, amount \in Amount : QueueWithdrawalBip322(c, u, amount)
         \/ calls'[c].kind = "sign" /\ SignRequested(c)
         \/ calls'[c].kind = "withdraw"
<1> DEFINE Goal ==
  \/ calls'[c] = calls[c]
  \/ calls'[c] = NoCall
  \/ \E t \in TxId, embed \in Vout, attached \in Payment :
       SubmitDepositTx(c, t, embed, attached)
  \/ \E u \in User, amount \in Amount : QueueWithdrawalBip322(c, u, amount)
  \/ calls'[c].kind = "sign" /\ SignRequested(c)
  \/ calls'[c].kind = "withdraw"
<1> SUFFICES Goal
  OBVIOUS
<1>1. CASE UNCHANGED calls
  BY <1>1
<1>2. ASSUME NEW d \in CallId, Handler(d) PROVE Goal
  <2>1. ASSUME NEW t \in TxId, NEW embed \in Vout, NEW attached \in Payment,
               SubmitDepositTx(d, t, embed, attached)
        PROVE  Goal
    BY <2>1, SendOrAnswer DEF SubmitDepositTx
  <2>2. ASSUME NEW u \in User, NEW amount \in Amount, QueueWithdrawalBip322(d, u, amount)
        PROVE  Goal
    BY <2>2, SendOrAnswer DEF QueueWithdrawalBip322
  <2>3. ASSUME NEW u, NEW t, NEW vin, NEW partial, NEW left,
               RequestSignature(d, u, t, vin, partial, left)
        PROVE  (c # d => calls'[c] = calls[c]) /\ calls'[d].kind = "sign"
    BY <2>3, SendOrAnswer DEF RequestSignature
  <2>4. ASSUME NEW u \in User, NEW t \in TxId, NEW vin \in DOMAIN Tx[t].ins,
               NEW partial \in Partial, NEW attached \in Payment,
               \/ \E embed \in Vout \cup {None}, storage \in Payment :
                    SignFirst(d, u, t, vin, partial, embed, attached, storage)
               \/ SignAgain(d, u, t, vin, partial, attached)
        PROVE  Goal
    <3>1. SignRequested(d)
      BY <2>4 DEF SignRequested
    <3>2. \E left : RequestSignature(d, u, t, vin, partial, left)
      BY <2>4 DEF SignFirst, SignAgain
    <3> QED BY <2>3, <3>1, <3>2
  <2>6. ASSUME NEW u, NEW t, NEW multisig, SubmitWithdrawalTx(d, u, t, multisig)
        PROVE  Goal
    BY <2>6, SendOrAnswer DEF SubmitWithdrawalTx
  <2> HIDE DEF Goal
  <2> QED BY <1>2, <2>1, <2>2, <2>4, <2>6 DEF Handler
<1>3. ASSUME NEW d \in CallId, Callback(d) PROVE Goal
  <2>1. \E kind : Answer(d, kind)
    BY <1>3, CallbackLeaves
  <2> QED BY <2>1, SendOrAnswer
<1> HIDE DEF Goal
<1>4. CASE AdminNext /\ UNCHANGED <<contractVars, chainVars>>
  BY <1>1, <1>4
<1>5. CASE UNCHANGED vars
  BY <1>1, <1>5 DEF vars
<1>6. ASSUME NEW u, NEW amount, QueueWithdrawalEcdsa(u, amount) PROVE Goal
  BY <1>1, <1>6 DEF QueueWithdrawalEcdsa
<1>7. CASE Tick \/ \E t \in TxId : Mine(t)
  BY <1>1, <1>7 DEF Tick, Mine
<1> QED BY <1>2, <1>3, <1>4, <1>5, <1>6, <1>7 DEF Next

-----------------------------------------------------------------------------
(* Steps as seen from outside the accounts                                 *)

(* Time and the chain do not go back, and a root key stays. The chain      *)
(* grows by what may be mined.                                             *)
LEMMA SurroundingsStep ==
  ASSUME TypeOK, [Next]_vars
  PROVE  /\ now' \in Nat /\ now' >= now
         /\ mined \subseteq mined'
         /\ \A t \in mined' \ mined : Mine(t)
         /\ rootKey # None => rootKey' = rootKey
<1>0. now \in Nat
  BY DEF TypeOK, U64
<1> DEFINE Still == UNCHANGED <<now, mined, rootKey>>
<1>1. ASSUME NEW c \in CallId, Handler(c) PROVE Still
  BY <1>1, HandlerLeaves
<1>2. ASSUME NEW c \in CallId, Callback(c) PROVE Still
  BY <1>2, CallbackLeaves
<1>3. ASSUME NEW u, NEW amount, QueueWithdrawalEcdsa(u, amount) PROVE Still
  BY <1>3 DEF QueueWithdrawalEcdsa
<1>4. CASE AdminNext /\ UNCHANGED <<contractVars, chainVars>>
  <2>1. AdminTypeOK
    BY DEF TypeOK
  <2>2. rootKey # None => rootKey' = rootKey
    BY <1>4, <2>1, AdminSteps
  <2> QED BY <1>0, <1>4, <2>2
<1>5. CASE Tick
  BY <1>0, <1>5 DEF Tick
<1>6. ASSUME NEW t, Mine(t)
      PROVE  /\ UNCHANGED <<now, rootKey>>
             /\ mined \subseteq mined' /\ \A x \in mined' \ mined : Mine(x)
  <2>1. mined' = mined \cup {t} /\ UNCHANGED <<now, rootKey>>
    BY <1>6 DEF Mine
  <2> QED BY <1>6, <2>1
<1>7. CASE UNCHANGED vars
  BY <1>0, <1>7 DEF vars
<1>8. CASE Still
  BY <1>0, <1>8
<1>9. ASSUME NEW t, Mine(t)
      PROVE  /\ now' \in Nat /\ now' >= now /\ rootKey' = rootKey
             /\ mined \subseteq mined' /\ \A x \in mined' \ mined : Mine(x)
  BY <1>0, <1>6, <1>9
<1> HIDE DEF Still
<1> QED BY <1>1, <1>2, <1>3, <1>4, <1>5, <1>7, <1>8, <1>9 DEF Next

(* The root key stays also while deposits and withdrawals go on.           *)
THEOREM RootKeyCorrect == Spec => RootKeyStable
<1>1. TypeOK /\ [Next]_vars => [rootKey # None => rootKey' = rootKey]_adminVars
  BY SurroundingsStep
<1> QED BY <1>1, TypeCorrect, PTL DEF Spec, RootKeyStable

(* What changes the parameters, the ownership and the root key in the      *)
(* whole system are the steps of the administration.                       *)
LEMMA AdminPart ==
  ASSUME [Next]_vars
  PROVE  [AdminNext]_adminVars
<1>1. ASSUME NEW c \in CallId, Handler(c) \/ Callback(c) PROVE UNCHANGED adminVars
  BY <1>1, HandlerLeaves, CallbackLeaves
<1>2. ASSUME NEW u, NEW amount, QueueWithdrawalEcdsa(u, amount) PROVE UNCHANGED adminVars
  BY <1>2 DEF QueueWithdrawalEcdsa
<1>3. CASE Tick \/ \E t \in TxId : Mine(t)
  BY <1>3 DEF Tick, Mine
<1>4. CASE UNCHANGED vars
  BY <1>4 DEF vars
<1> QED BY <1>1, <1>2, <1>3, <1>4 DEF Next

(* The ownership goes to the account that was proposed, once, also while   *)
(* deposits and withdrawals go on.                                         *)
THEOREM OwnershipCorrect == Spec => TransferUsesUpProposal
<1>1. TypeOK /\ [Next]_vars =>
        [owner' # owner => pendingOwner = owner' /\ pendingOwner' = None]_adminVars
  BY AdminPart, AdminSteps DEF TypeOK
<1> QED BY <1>1, TypeCorrect, PTL DEF Spec, TransferUsesUpProposal

=============================================================================

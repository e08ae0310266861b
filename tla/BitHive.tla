------------------------------ MODULE BitHive ------------------------------
(***************************************************************************)
(* The BitHive staking contract, together with what it talks to.           *)
(*                                                                         *)
(* Every operation that needs an answer from another contract is split as  *)
(* the code is: the handler checks, writes and sends a call; the callback  *)
(* runs in a later step, and any other handler or callback may run in      *)
(* between. calls[c] holds the arguments a callback will be run with. A    *)
(* callback has one action per outcome: the answer was good and the state  *)
(* changes; or the answer was bad, the call failed, or the callback        *)
(* panicked, which undoes everything the callback wrote, but nothing the   *)
(* handler wrote.                                                          *)
(*                                                                         *)
(* The answer of an external contract is taken in the step of the          *)
(* callback: what makes it good (a transaction is in a block) never        *)
(* becomes false, and a bad answer is possible at any time.                *)
(***************************************************************************)
EXTENDS Account, Admin

CONSTANTS
  CallId,          \* slots for calls in flight: bounds their number
  Amount,          \* withdrawal amounts users ask for
  Payment,         \* NEAR amounts users attach
  StorageDeposit,  \* STORAGE_DEPOSIT_ACCOUNT
  RefundThreshold, \* REFUND_THRESHOLD
  PsbtCost,        \* storage cost of the PSBT of each transaction
  Partial,         \* whether PSBTs carry the user's signature: {TRUE} or BOOLEAN
  Witnesses,       \* for each transaction, the sets of inputs that the
                   \* submitted witnesses may show as multisig
  MaxNonce,        \* bound on the nonce of an account
  MaxTime          \* bound on the clock

ASSUME BitHiveAssumption ==
  /\ None \notin TxId
  /\ IsFiniteSet(User)     \* public keys of 33 bytes
  /\ IsFiniteSet(CallId)
  /\ Amount \subseteq U64
  /\ Payment \subseteq Nat
  /\ StorageDeposit \in Nat
  /\ RefundThreshold \in Nat
  /\ Partial \subseteq BOOLEAN
  /\ \A t \in TxId : Witnesses[t] \subseteq SUBSET Nat
  /\ \A t \in TxId : PsbtCost[t] \in Nat
  /\ MaxNonce \in Nat
  /\ MaxTime \in U64 \ {0}

VARIABLES
  confirmed,  \* confirmed_deposit_txns
  accounts,   \* accounts, with a new account for a user that has none yet
  calls,      \* calls in flight
  near,       \* NEAR the contract holds for its users
  now,        \* block timestamp
  mined,      \* transactions with enough confirmations
  sigs        \* signatures that chain-signatures contracts gave out

contractVars == <<confirmed, accounts, calls, near>>
chainVars == <<now, mined, sigs>>
vars == <<adminVars, contractVars, chainVars>>

NoCall == [kind |-> "none"]

DepositCall == [kind : {"deposit"}, tx : TxId, embed : Vout, vout : Vout,
                attached : Nat]
Bip322Call == [kind : {"bip322"}, user : User, amount : U64, nonce : Nat]
SignCall == [kind : {"sign"}, user : User, tx : TxId, vin : Nat,
             partial : BOOLEAN, attached : Nat, signer : Key]
WithdrawCall == [kind : {"withdraw"}, user : User, tx : TxId,
                 multisig : SUBSET Nat]
Call == DepositCall \cup Bip322Call \cup SignCall \cup WithdrawCall

TypeOK ==
  /\ AdminTypeOK
  /\ confirmed \in SUBSET OutputId
  /\ accounts \in [User -> AccountType]
  /\ calls \in [CallId -> Call \cup {NoCall}]
  /\ near \in Int
  /\ now \in U64
  /\ mined \in SUBSET TxId
  /\ sigs \in SUBSET (TxId \X Nat \X Key)

Init ==
  /\ AdminInit
  /\ confirmed = {}
  /\ accounts = [u \in User |-> NewAccount]
  /\ calls = [c \in CallId |-> NoCall]
  /\ near = 0
  /\ now = 1
  /\ mined = {}
  /\ sigs = {}

Send(c, call) == calls[c] = NoCall /\ calls' = [calls EXCEPT ![c] = call]
Answer(c, kind) == calls[c].kind = kind /\ calls' = [calls EXCEPT ![c] = NoCall]

-----------------------------------------------------------------------------
(* deposit.rs *)

(* mistake: the output is reserved, and not looked up before *)
SubmitUnchecked(c, t, embed, attached) ==
  /\ ~config.paused
  /\ attached >= StorageDeposit
  /\ VerifyEmbedOutput(t, embed)
  /\ confirmed' = confirmed \cup {DepositId(t, embed)}
  /\ Send(c, [kind |-> "deposit", tx |-> t, embed |-> embed,
              vout |-> DepositVout(t, embed), attached |-> attached])
  /\ near' = near + attached
  /\ UNCHANGED <<adminVars, accounts, chainVars>>

(* mistake: the embed output is reserved instead of the deposit output *)
SubmitReservingEmbed(c, t, embed, attached) ==
  /\ ~config.paused
  /\ attached >= StorageDeposit
  /\ VerifyEmbedOutput(t, embed)
  /\ <<t, embed>> \notin confirmed
  /\ confirmed' = confirmed \cup {<<t, embed>>}
  /\ Send(c, [kind |-> "deposit", tx |-> t, embed |-> embed,
              vout |-> DepositVout(t, embed), attached |-> attached])
  /\ near' = near + attached
  /\ UNCHANGED <<adminVars, accounts, chainVars>>

(* The deposit output is reserved before the light client is asked.        *)
SubmitDepositTx(c, t, embed, attached) ==
  /\ ~config.paused
  /\ attached >= StorageDeposit
  /\ VerifyEmbedOutput(t, embed)
  /\ DepositId(t, embed) \notin confirmed
  /\ confirmed' = confirmed \cup {DepositId(t, embed)}
  /\ Send(c, [kind |-> "deposit", tx |-> t, embed |-> embed,
              vout |-> DepositVout(t, embed), attached |-> attached])
  /\ near' = near + attached
  /\ UNCHANGED <<adminVars, accounts, chainVars>>

(* mistake: the deposit is refunded and its entry kept *)
RejectedKeepingEntry(c) ==
  /\ Answer(c, "deposit")
  /\ near' = near - calls[c].attached
  /\ UNCHANGED <<adminVars, confirmed, accounts, chainVars>>

(* The light client says no or fails: release the output and refund.       *)
DepositRejected(c) ==
  /\ Answer(c, "deposit")
  /\ confirmed' = confirmed \ {<<calls[c].tx, calls[c].vout>>}
  /\ near' = near - calls[c].attached
  /\ UNCHANGED <<adminVars, accounts, chainVars>>

(* save_deposit_txn returns: the checks hold under today's parameters.     *)
CanSaveDeposit(t, embed) ==
  /\ VerifyDepositTxn(config, rootKey, t, embed)
  /\ CanCreateDeposit(accounts[DepositUser(t, embed)], DepositId(t, embed))

(* mistake: the answer of the light client is not looked at *)
SavedUnverified(c) ==
  LET t == calls[c].tx
      embed == calls[c].embed
  IN  /\ Answer(c, "deposit")
      /\ CanSaveDeposit(t, embed)
      /\ accounts' = [accounts EXCEPT
                        ![DepositUser(t, embed)] = CreateDeposit(@, DepositId(t, embed))]
      /\ UNCHANGED <<adminVars, confirmed, near, chainVars>>

(* mistake: the reservation ends with the verification in any case *)
SavedReleasing(c) ==
  LET t == calls[c].tx
      embed == calls[c].embed
  IN  /\ Answer(c, "deposit")
      /\ t \in mined
      /\ CanSaveDeposit(t, embed)
      /\ accounts' = [accounts EXCEPT
                        ![DepositUser(t, embed)] = CreateDeposit(@, DepositId(t, embed))]
      /\ confirmed' = confirmed \ {DepositId(t, embed)}
      /\ UNCHANGED <<adminVars, near, chainVars>>

DepositSaved(c) ==
  LET t == calls[c].tx
      embed == calls[c].embed
  IN  /\ Answer(c, "deposit")
      /\ t \in mined
      /\ CanSaveDeposit(t, embed)
      /\ accounts' = [accounts EXCEPT
                        ![DepositUser(t, embed)] = CreateDeposit(@, DepositId(t, embed))]
      /\ UNCHANGED <<adminVars, confirmed, near, chainVars>>

(* The answer is yes but save_deposit_txn panics: the output stays         *)
(* confirmed and the attached NEAR is kept.                                *)
DepositNotSaved(c) ==
  /\ Answer(c, "deposit")
  /\ calls[c].tx \in mined
  /\ ~CanSaveDeposit(calls[c].tx, calls[c].embed)
  /\ UNCHANGED <<adminVars, confirmed, accounts, near, chainVars>>

OnVerifyDepositTx(c) ==
  DepositRejected(c) \/ DepositSaved(c) \/ DepositNotSaved(c)

-----------------------------------------------------------------------------
(* withdraw.rs, queue_withdrawal *)

(* QueueWithdrawal for user u, with the nonce kept to MaxNonce.            *)
ApplyQueueWithdrawal(u, amount) ==
  /\ accounts[u].nonce < MaxNonce
  /\ CanQueueWithdrawal(accounts[u], amount)
  /\ accounts' = [accounts EXCEPT ![u] = QueueWithdrawal(@, amount, now)]

(* SigType::ECDSA: the signature over today's nonce is checked at once.    *)
QueueWithdrawalEcdsa(u, amount) ==
  /\ ~config.paused
  /\ amount > 0
  /\ ApplyQueueWithdrawal(u, amount)
  /\ UNCHANGED <<adminVars, confirmed, calls, near, chainVars>>

(* SigType::Bip322Full: the verifier is asked about a message that holds   *)
(* today's nonce.                                                          *)
QueueWithdrawalBip322(c, u, amount) ==
  /\ ~config.paused
  /\ amount > 0
  /\ config.verifier # None
  /\ Send(c, [kind |-> "bip322", user |-> u, amount |-> amount,
              nonce |-> accounts[u].nonce])
  /\ UNCHANGED <<adminVars, confirmed, accounts, near, chainVars>>

Bip322Accepted(c) ==
  /\ Answer(c, "bip322")
  /\ ApplyQueueWithdrawal(calls[c].user, calls[c].amount)
  /\ UNCHANGED <<adminVars, confirmed, near, chainVars>>

(* The verifier says no or fails, or the callback panics.                  *)
Bip322Dropped(c) ==
  /\ Answer(c, "bip322")
  /\ UNCHANGED <<adminVars, confirmed, accounts, near, chainVars>>

OnBip322Verify(c) == Bip322Accepted(c) \/ Bip322Dropped(c)

-----------------------------------------------------------------------------
(* withdraw.rs, sign_withdrawal *)

(* mistake: the input need not be a deposit of the user *)
RequestAnyInput(c, u, t, vin, partial, attached) ==
  /\ vin \in DOMAIN Tx[t].ins
  /\ Send(c, [kind |-> "sign", user |-> u, tx |-> t, vin |-> vin,
              partial |-> partial, attached |-> attached, signer |-> config.chainSigs])

(* The call to the chain-signatures contract for input vin of t, with what *)
(* is left of the attached NEAR.                                           *)
RequestSignature(c, u, t, vin, partial, attached) ==
  /\ vin \in DOMAIN Tx[t].ins
  /\ Tx[t].ins[vin].prev \in accounts[u].active
  /\ Send(c, [kind |-> "sign", user |-> u, tx |-> t, vin |-> vin,
              partial |-> partial, attached |-> attached, signer |-> config.chainSigs])

(* mistake: all of the attached NEAR is passed on, the storage deposit     *)
(* with it                                                                 *)
SignPassingAll(c, u, t, vin, partial, embed, attached, storage) ==
  LET charged == IF Len(Tx[t].ins) > 1 THEN storage ELSE 0
  IN  /\ ~config.paused
      /\ accounts[u].pending = None
      /\ partial
      /\ VerifyPendingSignRequestAmount(accounts[u], u, t, embed, config, rootKey, now)
      /\ attached >= charged
      /\ Len(Tx[t].ins) > 1 => accounts[u].storage + charged >= PsbtCost[t]
      /\ accounts' = [accounts EXCEPT ![u] = SavePending(@, t, embed, charged)]
      /\ RequestSignature(c, u, t, vin, partial, attached)
      /\ UNCHANGED <<adminVars, confirmed, near, chainVars>>

(* No PSBT is pending: check this one and save it. partial says whether    *)
(* the PSBT has the user's signature for vin. Only a PSBT with several     *)
(* inputs is charged for its storage.                                      *)
SignFirst(c, u, t, vin, partial, embed, attached, storage) ==
  LET charged == IF Len(Tx[t].ins) > 1 THEN storage ELSE 0
  IN  /\ ~config.paused
      /\ accounts[u].pending = None
      /\ partial
      /\ VerifyPendingSignRequestAmount(accounts[u], u, t, embed, config, rootKey, now)
      /\ attached >= charged
      /\ Len(Tx[t].ins) > 1 => accounts[u].storage + charged >= PsbtCost[t]
      /\ accounts' = [accounts EXCEPT ![u] = SavePending(@, t, embed, charged)]
      /\ near' = near + charged
      /\ RequestSignature(c, u, t, vin, partial, attached - charged)
      /\ UNCHANGED <<adminVars, confirmed, chainVars>>

(* A PSBT is pending: sign it for another input, or a replacement of it.   *)
SignAgain(c, u, t, vin, partial, attached) ==
  /\ ~config.paused
  /\ accounts[u].pending # None
  /\ ReplacesPending(accounts[u].pending, t)
  /\ RequestSignature(c, u, t, vin, partial, attached)
  /\ UNCHANGED <<adminVars, confirmed, accounts, near, chainVars>>

SignatureGiven(c) ==
  /\ Answer(c, "sign")
  /\ sigs' = sigs \cup {<<calls[c].tx, calls[c].vin, calls[c].signer>>}
  /\ UNCHANGED <<adminVars, confirmed, accounts, near, now, mined>>

(* The attached NEAR comes back to the contract, which passes it on to the *)
(* caller unless it is too little.                                         *)
SignatureFailed(c) ==
  /\ Answer(c, "sign")
  /\ near' = IF calls[c].attached >= RefundThreshold
             THEN near ELSE near + calls[c].attached
  /\ UNCHANGED <<adminVars, confirmed, accounts, chainVars>>

OnSignWithdrawal(c) == SignatureGiven(c) \/ SignatureFailed(c)

-----------------------------------------------------------------------------
(* withdraw.rs, submit_withdrawal_tx *)

(* multisig: the inputs whose submitted witness is_multisig_withdrawal     *)
(* says yes to. The id of a transaction does not cover its witnesses.      *)
SubmitWithdrawalTx(c, u, t, multisig) ==
  /\ ~config.paused
  /\ Send(c, [kind |-> "withdraw", user |-> u, tx |-> t, multisig |-> multisig])
  /\ UNCHANGED <<adminVars, confirmed, accounts, near, chainVars>>

(* mistake: the answer of the light client is not looked at *)
CompletedUnverified(c) ==
  LET u == calls[c].user
      t == calls[c].tx
  IN  /\ Answer(c, "withdraw")
      /\ CanCompleteWithdrawals(accounts[u], t)
      /\ accounts' = [accounts EXCEPT
                        ![u] = CompleteWithdrawals(@, t, calls[c].multisig)]
      /\ UNCHANGED <<adminVars, confirmed, near, chainVars>>

WithdrawalCompleted(c) ==
  LET u == calls[c].user
      t == calls[c].tx
  IN  /\ Answer(c, "withdraw")
      /\ t \in mined
      /\ CanCompleteWithdrawals(accounts[u], t)
      /\ accounts' = [accounts EXCEPT
                        ![u] = CompleteWithdrawals(@, t, calls[c].multisig)]
      /\ UNCHANGED <<adminVars, confirmed, near, chainVars>>

(* The light client says no or fails, or the callback panics.              *)
WithdrawalDropped(c) ==
  /\ Answer(c, "withdraw")
  /\ UNCHANGED <<adminVars, confirmed, accounts, near, chainVars>>

OnVerifyWithdrawalTx(c) == WithdrawalCompleted(c) \/ WithdrawalDropped(c)

-----------------------------------------------------------------------------
(* What is not the contract: time, and the Bitcoin chain. *)

Tick ==
  /\ now < MaxTime
  /\ now' = now + 1
  /\ UNCHANGED <<adminVars, contractVars, mined, sigs>>

SpendsDeposit(t, i) ==
  LET prev == Tx[t].ins[i].prev
  IN  prev[1] \in TxId /\ HasOut(prev[1], prev[2]) /\ Out(prev[1], prev[2]).type = "deposit"

(* deposit_script_v1: the user alone after a relative lock, or the user    *)
(* together with the key the script was made for. (The user signs the      *)
(* spends of his own outputs as he likes.)                                 *)
MayUnlock(t, i) ==
  LET prev == Tx[t].ins[i].prev
  IN  SpendsDeposit(t, i) =>
        \/ Tx[t].ins[i].seq = "csv"
        \/ <<t, i, Out(prev[1], prev[2]).key>> \in sigs

Spends(t, outpoint) == \E i \in DOMAIN Tx[t].ins : Tx[t].ins[i].prev = outpoint

Mine(t) ==
  /\ t \notin mined
  /\ DistinctInputs(t)
  /\ \A i \in DOMAIN Tx[t].ins :
       /\ Tx[t].ins[i].prev[1] \in TxId => Tx[t].ins[i].prev[1] \in mined
       /\ \A other \in mined : ~Spends(other, Tx[t].ins[i].prev)
       /\ MayUnlock(t, i)
  /\ mined' = mined \cup {t}
  /\ UNCHANGED <<adminVars, contractVars, now, sigs>>

-----------------------------------------------------------------------------

Handler(c) ==
  \/ \E t \in TxId, embed \in Vout, attached \in Payment :
        SubmitDepositTx(c, t, embed, attached)
  \/ \E u \in User, amount \in Amount : QueueWithdrawalBip322(c, u, amount)
  \/ \E u \in User, t \in TxId, partial \in Partial, attached \in Payment :
        \E vin \in DOMAIN Tx[t].ins :
          \/ \E embed \in Vout \cup {None}, storage \in Payment :
                SignFirst(c, u, t, vin, partial, embed, attached, storage)
          \/ SignAgain(c, u, t, vin, partial, attached)
  \/ \E u \in User, t \in TxId : \E multisig \in Witnesses[t] :
        SubmitWithdrawalTx(c, u, t, multisig)

Callback(c) ==
  \/ OnVerifyDepositTx(c)
  \/ OnBip322Verify(c)
  \/ OnSignWithdrawal(c)
  \/ OnVerifyWithdrawalTx(c)

Next ==
  \/ \E c \in CallId : Handler(c) \/ Callback(c)
  \/ \E u \in User, amount \in Amount : QueueWithdrawalEcdsa(u, amount)
  \/ AdminNext /\ UNCHANGED <<contractVars, chainVars>>
  \/ Tick
  \/ \E t \in TxId : Mine(t)

Spec == Init /\ [][Next]_vars

(* For those who ask for progress (Client): NEAR runs every callback;      *)
(* nothing else is sure to happen.                                         *)
Fairness == \A c \in CallId : WF_vars(Callback(c))

=============================================================================

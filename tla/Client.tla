------------------------------- MODULE Client -------------------------------
(***************************************************************************)
(* A user of BitHive who takes the way of tests/__tests__/integration/     *)
(* e2e_workflow.ava.ts: deposit, submit, queue, wait, have every input of  *)
(* one PSBT signed, broadcast, submit; and who tries again what failed. He *)
(* keeps no state: each step is taken when the chain and the views of the  *)
(* contract call for it.                                                   *)
(*                                                                         *)
(* Next to him anyone may call what needs none of his signatures: submit   *)
(* deposits and withdrawals (with wrong proofs and witnesses) and ask for  *)
(* signatures of the pending PSBT and its replacements.                    *)
(***************************************************************************)
EXTENDS BitHiveProperties

CONSTANTS
  Me,        \* the user
  MyCall,    \* his slot for a call in flight
  Deposits,  \* his deposit transactions
  Psbt0,     \* the transaction that withdraws all of them
  Embed,     \* the embed vout of the deposits, also of the reinvest deposit
  MyAmount   \* what he queues

ASSUME ClientAssumption ==
  /\ Me \in User /\ MyCall \in CallId
  /\ Deposits \subseteq TxId /\ Psbt0 \in TxId \ Deposits
  /\ Embed \in Vout /\ MyAmount \in U64

account == accounts[Me]
DepositIds == {DepositId(t, Embed) : t \in Deposits}
Inputs == DOMAIN Tx[Psbt0].ins

-----------------------------------------------------------------------------
(* the steps of the user *)

(* makeDeposit; the constants of a deposit need the root key *)
Deposit(t) ==
  /\ rootKey # None
  /\ Mine(t)

Submit(t) ==
  /\ t \in mined
  /\ SubmitDepositTx(MyCall, t, Embed, StorageDeposit)

(* makeQueueWithdrawal *)
Queue ==
  /\ DepositIds \subseteq account.active
  /\ account.queue = 0 /\ account.pending = None
  /\ QueueWithdrawalEcdsa(Me, MyAmount)

(* makeSignWithdrawal, for an input that has no signature yet *)
Sign(vin) ==
  /\ <<Psbt0, vin, config.chainSigs>> \notin sigs
  /\ \/ SignFirst(MyCall, Me, Psbt0, vin, TRUE, Embed, PsbtCost[Psbt0], PsbtCost[Psbt0])
     \/ SignAgain(MyCall, Me, Psbt0, vin, TRUE, 0)

Broadcast == Mine(Psbt0)

(* submitWithdrawalTx *)
SubmitWithdrawal ==
  /\ Psbt0 \in mined
  /\ DepositIds \cap account.active # {}
  /\ SubmitWithdrawalTx(MyCall, Me, Psbt0, Inputs)

UserStep ==
  \/ \E t \in Deposits : Deposit(t)
  \/ \E t \in Deposits \cup {Psbt0} : Submit(t)
  \/ Queue
  \/ \E vin \in Inputs : Sign(vin)
  \/ Broadcast
  \/ SubmitWithdrawal

-----------------------------------------------------------------------------
(* everybody else *)

OtherCall(c) ==
  \/ \E t \in TxId, embed \in Vout : SubmitDepositTx(c, t, embed, StorageDeposit)
  \/ \E t \in TxId : \E vin \in DOMAIN Tx[t].ins : SignAgain(c, Me, t, vin, FALSE, 0)
  \/ \E t \in TxId : \E multisig \in Witnesses[t] : SubmitWithdrawalTx(c, Me, t, multisig)

Setup == /\ \E s \in SyncId : SyncRootPubkey(s) \/ OnSyncRootPubkey(s)
         /\ UNCHANGED <<contractVars, chainVars>>

(* Bound: the clock stands still while no withdrawal is queued. It is read *)
(* only to compare it with the start of a waiting time.                    *)
Wait == account.queue > 0 /\ Tick

ClientNext ==
  \/ UserStep
  \/ \E c \in CallId \ {MyCall} : OtherCall(c)
  \/ \E c \in CallId : Callback(c)
  \/ Setup
  \/ Wait

-----------------------------------------------------------------------------
(* NEAR runs every callback. The user does not give up. Of the answers to  *)
(* his own calls infinitely many are good: he has the right proofs, and    *)
(* the signer works. Blocks are found and time goes on. Of the others      *)
(* nothing is assumed but that their calls end.                            *)

SetupFairness ==
  \A s \in SyncId :
    /\ WF_vars(SyncRootPubkey(s) /\ UNCHANGED <<contractVars, chainVars>>)
    /\ SF_vars(RootPubkeySet(s) /\ UNCHANGED <<contractVars, chainVars>>)

UserFairness ==
  /\ \A t \in Deposits : WF_vars(Deposit(t))
  /\ \A t \in Deposits \cup {Psbt0} : SF_vars(Submit(t))
  /\ WF_vars(Queue)
  /\ \A vin \in Inputs : SF_vars(Sign(vin))
  /\ WF_vars(Broadcast)
  /\ SF_vars(SubmitWithdrawal)

AnswerFairness ==
  /\ Fairness
  /\ SF_vars(DepositSaved(MyCall))
  /\ SF_vars(SignatureGiven(MyCall))
  /\ SF_vars(WithdrawalCompleted(MyCall))

ClientSpec ==
  /\ Init /\ [][ClientNext]_vars
  /\ SetupFairness /\ UserFairness /\ AnswerFairness /\ WF_vars(Wait)

-----------------------------------------------------------------------------
(* The workflow gets through, whatever the others call and however often   *)
(* proofs or signatures fail on the way: all his deposits end up withdrawn *)
(* by the one transaction, and what he reinvests is an active deposit      *)
(* again. No wrong proof, early submission or foreign replacement of his   *)
(* PSBT locks him out for good. (With parameters and signer left alone.)   *)
WorkflowCompletes ==
  <>[](/\ \A o \in DepositIds : [id |-> o, by |-> Psbt0] \in account.withdrawn
       /\ account.active = {DepositId(Psbt0, Embed)})

=============================================================================

--------------------------- MODULE CompletionLoop ---------------------------
(***************************************************************************)
(* The loop of on_verify_withdrawal_tx over the deposit inputs of one      *)
(* transaction, one step per input, with Account::complete_withdrawal as   *)
(* the code has it. Account takes the whole loop as one operator: here it  *)
(* is shown to be what the loop computes.                                  *)
(***************************************************************************)
EXTENDS Account

CONSTANT Before   \* accounts the loop may start from

ASSUME CompletionLoopAssumption ==
  \A a \in Before : a \in AccountType /\ \A o \in a.active : HasOut(o[1], o[2])

VARIABLES
  start,     \* the account before the loop
  tx,        \* the withdrawal transaction
  multisig,  \* its inputs with a multisig witness
  account,   \* the account in the loop
  todo,      \* the deposit_inputs still to go
  panicked

loopVars == <<start, tx, multisig, account, todo, panicked>>

(* The light client has confirmed tx. Without deposit inputs the callback  *)
(* panics.                                                                 *)
LoopInit ==
  /\ start \in Before
  /\ tx \in TxId /\ DistinctInputs(tx)
  /\ multisig \in SUBSET DOMAIN Tx[tx].ins
  /\ account = start
  /\ todo = DepositInputs(start, tx)
  /\ panicked = (todo = {})

(* mistake: the queue is compared with the total before the withdrawal *)
CompleteComparingFirst(a, o, isMultisig) ==
  LET queue == IF isMultisig \/ a.queue <= a.total THEN a.queue ELSE a.total
  IN  [a EXCEPT !.total = @ - Value(o),
                !.queue = queue,
                !.startTs = IF ~isMultisig /\ queue = 0 THEN 0 ELSE @,
                !.active = @ \ {o},
                !.withdrawn = @ \cup {[id |-> o, by |-> tx]}]

(* complete_withdrawal for one deposit *)
CompleteWithdrawal(a, o, isMultisig) ==
  LET total == a.total - Value(o)
      queue == IF isMultisig \/ a.queue <= total THEN a.queue ELSE total
  IN  [a EXCEPT !.total = total,
                !.queue = queue,
                !.startTs = IF ~isMultisig /\ queue = 0 THEN 0 ELSE @,
                !.active = @ \ {o},
                !.withdrawn = @ \cup {[id |-> o, by |-> tx]}]

(* filter_deposit_inputs keeps the order of the inputs.                    *)
Step ==
  LET i == Min(todo)
      o == Tx[tx].ins[i].prev
      ok == /\ o \in account.active
            /\ account.total - Value(o) \in U64
            /\ o \notin WithdrawnIds(account)
  IN  /\ ~panicked
      /\ todo # {}
      /\ IF ok THEN /\ account' = CompleteWithdrawal(account, o, i \in multisig)
                    /\ panicked' = FALSE
               ELSE panicked' = TRUE /\ UNCHANGED account
      /\ todo' = todo \ {i}
      /\ UNCHANGED <<start, tx, multisig>>

LoopSpec == LoopInit /\ [][Step]_loopVars

(* At its end the loop has computed CompleteWithdrawals, and it panics     *)
(* exactly when CanCompleteWithdrawals says that it does: the order of     *)
(* solo and multisig inputs, and the minimum taken at each, come out right.*)
LoopComputesCompletion ==
  todo = {} \/ panicked =>
    /\ panicked <=> ~CanCompleteWithdrawals(start, tx)
    /\ ~panicked => account = CompleteWithdrawals(start, tx, multisig)

=============================================================================

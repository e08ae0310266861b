------------------------------ MODULE Account ------------------------------
(***************************************************************************)
(* The account record of account.rs and its operations, as operators on    *)
(* one account. For an operation Op(a, ...) that may panic, CanOp(a, ...)  *)
(* says that it does not: a panic undoes the whole call. u64 arithmetic is *)
(* checked (overflow-checks = true in the release profile): a result       *)
(* outside U64 panics.                                                     *)
(*                                                                         *)
(* A deposit is its output id: its value, height and user are functions of *)
(* the transaction. A withdrawn deposit keeps the id of the withdrawal     *)
(* transaction; the time of completion, which nothing reads, is left out.  *)
(***************************************************************************)
EXTENDS DepositTx, FiniteSetsExt

CONSTANT U64Max   \* 2^64 - 1

(* PendingSignPsbt: the saved transaction and the vout of its reinvest     *)
(* deposit (the embed vout saved next to it is never read)                 *)
Psbt == [tx : TxId, reinvest : Vout \cup {None}]

ASSUME AccountAssumption == U64Max \in Nat /\ None \notin Psbt

U64 == 0 .. U64Max

Withdrawn == [id : OutputId, by : TxId]

AccountType ==
  [total     : U64,
   active    : SUBSET OutputId,
   withdrawn : SUBSET Withdrawn,
   queue     : U64,
   startTs   : U64,
   nonce     : U64,
   pending   : Psbt \cup {None},
   storage   : Nat]

NewAccount ==
  [total |-> 0, active |-> {}, withdrawn |-> {}, queue |-> 0, startTs |-> 0,
   nonce |-> 0, pending |-> None, storage |-> 0]

WithdrawnIds(a) == {w.id : w \in a.withdrawn}
Recorded(a) == a.active \cup WithdrawnIds(a)

-----------------------------------------------------------------------------
(* create_deposit *)

CanCreateDeposit(a, o) ==
  /\ o \notin WithdrawnIds(a)
  /\ o \notin a.active
  /\ a.total + Value(o) \in U64

CreateDeposit(a, o) ==
  [a EXCEPT !.total = a.total + Value(o), !.active = a.active \cup {o}]

-----------------------------------------------------------------------------
(* queue_withdrawal *)

CanQueueWithdrawal(a, amount) ==
  /\ a.queue + amount \in U64
  /\ a.queue + amount <= a.total
  /\ a.nonce + 1 \in U64

(* mistake: the PSBT that was pending is not cleared *)
QueueKeepingPending(a, amount, now) ==
  [a EXCEPT !.queue = a.queue + amount, !.startTs = now, !.nonce = a.nonce + 1]

(* mistake: the wait is counted from the first request *)
QueueKeepingStart(a, amount, now) ==
  [a EXCEPT !.queue = a.queue + amount, !.nonce = a.nonce + 1, !.pending = None,
            !.startTs = IF a.startTs = 0 THEN now ELSE a.startTs]

QueueWithdrawal(a, amount, now) ==
  [a EXCEPT !.queue = a.queue + amount, !.startTs = now, !.nonce = a.nonce + 1,
            !.pending = None]

-----------------------------------------------------------------------------
(* on_verify_withdrawal_tx: complete_withdrawal for each input of t that   *)
(* spends an active deposit of the account, in the order of the inputs.    *)
(* The loop is given in closed form: the total after input i is what is    *)
(* left of it, and only the last input that is not multisig decides the    *)
(* queue, because the total only falls.                                    *)

(* filter_deposit_inputs *)
DepositInputs(a, t) ==
  {i \in DOMAIN Tx[t].ins : Tx[t].ins[i].prev \in a.active}

Spent(a, t) == {Tx[t].ins[i].prev : i \in DepositInputs(a, t)}

(* mistake: the last input is left out *)
InputSumBelow(a, t, last) ==
  LET value(i) == Value(Tx[t].ins[i].prev)
  IN  MapThenSumSet(value, {i \in DepositInputs(a, t) : i < last})

InputSum(a, t, last) ==
  LET value(i) == Value(Tx[t].ins[i].prev)
  IN  MapThenSumSet(value, {i \in DepositInputs(a, t) : i <= last})

(* sum::<u64>() over all deposit inputs *)
DepositInputSum(a, t) == InputSum(a, t, Len(Tx[t].ins))

CanCompleteWithdrawals(a, t) ==
  /\ DepositInputs(a, t) # {}
  /\ \A i \in DOMAIN Tx[t].ins : a.total - InputSum(a, t, i) \in U64
  /\ Spent(a, t) \cap WithdrawnIds(a) = {}

(* mistake: every input that is not multisig lowers the queue by its value *)
QueueLowered(a, t, multisig) ==
  LET solo == DepositInputs(a, t) \ multisig
      value(i) == Value(Tx[t].ins[i].prev)
      left == a.queue - MapThenSumSet(value, solo)
  IN  IF left >= 0 THEN left ELSE 0

(* queue_withdrawal_amount after the loop; multisig is the set of inputs   *)
(* that is_multisig_withdrawal says yes to                                 *)
QueueAfter(a, t, multisig) ==
  LET solo == DepositInputs(a, t) \ multisig
      left == a.total - InputSum(a, t, Max(solo))
  IN  IF solo = {} \/ a.queue <= left THEN a.queue ELSE left

(* mistake: the deposits stay active *)
CompleteKeepingActive(a, t, multisig) ==
  [a EXCEPT
     !.total = a.total - DepositInputSum(a, t),
     !.queue = QueueAfter(a, t, multisig),
     !.withdrawn = a.withdrawn \cup {[id |-> o, by |-> t] : o \in Spent(a, t)}]

(* mistake: the deposits are dropped and not kept as withdrawn *)
CompleteWithoutTrace(a, t, multisig) ==
  [a EXCEPT
     !.total = a.total - DepositInputSum(a, t),
     !.queue = QueueAfter(a, t, multisig),
     !.active = a.active \ Spent(a, t)]

(* mistake: the value is taken off twice, here and where a deposit is      *)
(* removed from the active ones                                            *)
CompleteTakingTwice(a, t, multisig) ==
  [a EXCEPT
     !.total = a.total - 2 * DepositInputSum(a, t),
     !.queue = QueueAfter(a, t, multisig),
     !.active = a.active \ Spent(a, t),
     !.withdrawn = a.withdrawn \cup {[id |-> o, by |-> t] : o \in Spent(a, t)}]

CompleteWithdrawals(a, t, multisig) ==
  LET queue == QueueAfter(a, t, multisig)
  IN  [a EXCEPT
         !.total = a.total - DepositInputSum(a, t),
         !.queue = queue,
         !.startTs = IF queue = 0 /\ ~ DepositInputs(a, t) \subseteq multisig
                     THEN 0 ELSE a.startTs,
         !.active = a.active \ Spent(a, t),
         !.withdrawn = a.withdrawn \cup {[id |-> o, by |-> t] : o \in Spent(a, t)}]

-----------------------------------------------------------------------------
(* sign_withdrawal *)

(* mistake: the inputs of the two are not compared *)
ReplacesAnyInputs(pending, t) ==
  pending.reinvest # None =>
    /\ HasOut(t, pending.reinvest)
    /\ Out(t, pending.reinvest) = Out(pending.tx, pending.reinvest)

(* mistake: the reinvest output is not compared *)
ReplacesAnyReinvest(pending, t) == Tx[t].ins = Tx[pending.tx].ins

(* verify_sign_withdrawal_psbt: t is the saved transaction or a            *)
(* replacement of it                                                       *)
ReplacesPending(pending, t) ==
  /\ Tx[t].ins = Tx[pending.tx].ins
  /\ pending.reinvest # None =>
       /\ HasOut(t, pending.reinvest)
       /\ Out(t, pending.reinvest) = Out(pending.tx, pending.reinvest)

(* verify_pending_sign_request_amount for the account of user; embed is    *)
(* reinvest_embed_vout                                                     *)
VerifyPendingSignRequestAmount(a, user, t, embed, config, rootKey, now) ==
  LET reinvested == IF embed = None THEN 0 ELSE Value(DepositId(t, embed))
      actual == DepositInputSum(a, t) - reinvested
  IN  /\ a.queue > 0
      /\ a.startTs > 0
      /\ a.startTs + config.waiting \in U64
      /\ now >= a.startTs + config.waiting
      /\ DepositInputSum(a, t) \in U64
      /\ embed # None => /\ VerifyDepositTxn(config, rootKey, t, embed)
                         /\ DepositUser(t, embed) = user
      /\ actual \in U64
      /\ actual <= a.queue

(* save the PSBT, take the storage deposit, reset the queue *)
SavePending(a, t, embed, storage) ==
  [a EXCEPT
     !.pending = [tx |-> t,
                  reinvest |-> IF embed = None THEN None ELSE DepositVout(t, embed)],
     !.storage = a.storage + storage,
     !.queue = 0,
     !.startTs = 0]

=============================================================================

------------------------- MODULE WithdrawalProofs -------------------------
(***************************************************************************)
(* Proofs about withdrawals: the queue and the pending PSBT exclude each   *)
(* other, the total of an account is what its deposits are worth, a mined  *)
(* withdrawal can always be completed, and the contract holds the NEAR for *)
(* what it stores.                                                         *)
(***************************************************************************)
EXTENDS DepositProofs

USE DEF contractVars, chainVars, adminVars, ownership, rootVars

QueueOf(a) ==
  /\ a.pending # None => a.queue = 0
  /\ a.queue > 0 <=> a.startTs > 0

(* The clock has started, and no verifier is asked about a request for     *)
(* nothing: a request that is applied starts the waiting time and leaves   *)
(* something in the queue.                                                 *)
QueueInv ==
  /\ \A u \in User : QueueOf(accounts[u])
  /\ now > 0
  /\ \A c \in CallId : calls[c].kind = "bip322" => calls[c].amount > 0

-----------------------------------------------------------------------------
(* The operations on an account *)

(* Queueing starts the wait and drops the PSBT.                            *)
LEMMA QueueWithdrawalQueue ==
  ASSUME NEW a \in AccountType, NEW amount \in U64, amount > 0,
         NEW time \in Nat, time > 0
  PROVE  QueueOf(QueueWithdrawal(a, amount, time))
<1> DEFINE queue == a.queue + amount
           b == QueueWithdrawal(a, amount, time)
<1>1. queue > 0
  BY AccountAssumption DEF AccountType, U64
<1>2. b.queue = queue /\ b.startTs = time /\ b.pending = None
  BY DEF QueueWithdrawal, AccountType
<1> QED BY <1>1, <1>2 DEF QueueOf

(* Saving a PSBT uses up the queue.                                        *)
LEMMA SavePendingQueue ==
  ASSUME NEW a \in AccountType, NEW t, NEW embed, NEW storage
  PROVE  QueueOf(SavePending(a, t, embed, storage))
<1> DEFINE b == SavePending(a, t, embed, storage)
<1>1. b.queue = 0 /\ b.startTs = 0
  BY DEF SavePending, AccountType
<1> QED BY <1>1 DEF QueueOf

(* A completed withdrawal leaves no start time without a queue.            *)
LEMMA CompleteWithdrawalsQueue ==
  ASSUME NEW a \in AccountType, QueueOf(a), NEW t \in TxId, NEW multisig,
         CanCompleteWithdrawals(a, t)
  PROVE  QueueOf(CompleteWithdrawals(a, t, multisig))
<1> DEFINE b == CompleteWithdrawals(a, t, multisig)
           queue == QueueAfter(a, t, multisig)
           allMultisig == DepositInputs(a, t) \subseteq multisig
<1> SUFFICES QueueOf(b)
  OBVIOUS
<1>1. /\ a.queue \in Nat /\ a.startTs \in Nat /\ queue \in Nat
      /\ queue <= a.queue
      /\ allMultisig => queue = a.queue
  BY QueueAfterType, AccountAssumption DEF AccountType, U64
<1>2. /\ b.queue = queue
      /\ b.startTs = IF queue = 0 /\ ~allMultisig THEN 0 ELSE a.startTs
      /\ b.pending = a.pending
  BY DEF CompleteWithdrawals, AccountType
<1> HIDE DEF b, queue, allMultisig
<1> QED BY <1>1, <1>2 DEF QueueOf

-----------------------------------------------------------------------------
(* The steps *)

(* Every step keeps the invariant.                                         *)
LEMMA QueueInvStep ==
  ASSUME TypeOK, QueueInv, [Next]_vars
  PROVE  QueueInv'
<1>1. now \in Nat /\ \A u \in User : accounts[u] \in AccountType
  BY DEF TypeOK, U64
<1>2. ASSUME NEW u \in User PROVE QueueOf(accounts'[u])
  <2>1. CASE accounts'[u] = accounts[u]
    BY <2>1 DEF QueueInv
  <2>2. CASE DepositStep(u)
    <3>1. PICK o : accounts'[u] = CreateDeposit(accounts[u], o)
      BY <2>2 DEF DepositStep
    <3>2. /\ accounts'[u].pending = accounts[u].pending
          /\ accounts'[u].queue = accounts[u].queue
          /\ accounts'[u].startTs = accounts[u].startTs
      BY <1>1, <3>1 DEF CreateDeposit, AccountType
    <3> QED BY <3>2 DEF QueueInv, QueueOf
  <2>3. CASE QueueStep(u)
    <3>1. PICK amount \in U64 :
            /\ AmountAllowed(amount)
            /\ accounts'[u] = QueueWithdrawal(accounts[u], amount, now)
      BY <2>3 DEF QueueStep
    <3>2. amount > 0
      BY <3>1 DEF AmountAllowed, QueueInv
    <3> QED BY <1>1, <3>1, <3>2, QueueWithdrawalQueue DEF QueueInv
  <2>4. CASE SignStep(u)
    BY <1>1, <2>4, SavePendingQueue DEF SignStep
  <2>5. CASE WithdrawStep(u)
    <3>1. PICK t \in mined : \E multisig :
            /\ CanCompleteWithdrawals(accounts[u], t)
            /\ accounts'[u] = CompleteWithdrawals(accounts[u], t, multisig)
      BY <2>5 DEF WithdrawStep
    <3>2. t \in TxId
      BY DEF TypeOK
    <3> QED BY <1>1, <3>1, <3>2, CompleteWithdrawalsQueue DEF QueueInv
  <2> QED BY <2>1, <2>2, <2>3, <2>4, <2>5, AccountStep
<1>3. now' > 0
  BY <1>1, SurroundingsStep DEF QueueInv
<1>4. ASSUME NEW c \in CallId, calls'[c].kind = "bip322" PROVE calls'[c].amount > 0
  <2>1. ASSUME NEW t \in TxId, NEW embed \in Vout, NEW attached \in Payment,
               SubmitDepositTx(c, t, embed, attached)
        PROVE  calls'[c].kind = "deposit"
    BY <2>1, SendOrAnswer DEF SubmitDepositTx
  <2>2. ASSUME NEW u \in User, NEW amount \in Amount, QueueWithdrawalBip322(c, u, amount)
        PROVE  calls'[c].amount > 0
    BY <2>2, SendOrAnswer DEF QueueWithdrawalBip322
  <2>3. calls'[c] # NoCall
    BY <1>4 DEF NoCall
  <2> QED BY <1>4, <2>1, <2>2, <2>3, CallStep DEF QueueInv
<1> QED BY <1>2, <1>3, <1>4 DEF QueueInv

(* The queue and the pending PSBT exclude each other, for any number of    *)
(* users and of verifier answers that come late.                           *)
THEOREM QueueCorrect == Spec => []QueueUsedUpByPending
<1>1. Init => QueueInv
  BY DEF Init, QueueInv, QueueOf, NewAccount, NoCall
<1>2. TypeOK /\ QueueInv /\ [Next]_vars => QueueInv'
  BY QueueInvStep
<1>3. QueueInv => QueueUsedUpByPending
  BY DEF QueueInv, QueueOf, QueueUsedUpByPending
<1> QED BY <1>1, <1>2, <1>3, TypeCorrect, PTL DEF Spec

-----------------------------------------------------------------------------
(* What an account is worth                                                *)

(* No total drifts from the deposits it counts, because a withdrawal takes *)
(* off each deposit that it removes once: the chain has no transaction     *)
(* that spends an output twice.                                            *)
BalanceInv ==
  /\ \A u \in User : Balanced(accounts[u])
  /\ \A t \in mined : DistinctInputs(t)

(* Every step keeps the invariant.                                         *)
LEMMA BalanceInvStep ==
  ASSUME TypeOK, BalanceInv, [Next]_vars
  PROVE  BalanceInv'
<1>1. ASSUME NEW u \in User PROVE Balanced(accounts'[u])
  <2> DEFINE a == accounts[u]
             b == accounts'[u]
  <2>1. a \in AccountType /\ Balanced(a)
    BY DEF TypeOK, BalanceInv
  <2>2. CASE b = a
    BY <2>1, <2>2
  <2>3. CASE b.active = a.active /\ b.total = a.total
    BY <2>1, <2>3 DEF Balanced
  <2> HIDE DEF a, b
  <2>4. CASE DepositStep(u)
    <3>1. PICK c \in DepositCalls :
            /\ DepositUser(calls[c].tx, calls[c].embed) = u
            /\ CanSaveDeposit(calls[c].tx, calls[c].embed)
            /\ b = CreateDeposit(a, DepositId(calls[c].tx, calls[c].embed))
      BY <2>4 DEF DepositStep, a, b
    <3> DEFINE t == calls[c].tx
               embed == calls[c].embed
               o == DepositId(t, embed)
    <3>2. /\ CanCreateDeposit(a, o) /\ VerifyEmbedOutput(t, embed)
          /\ HasOut(t, DepositVout(t, embed))
      BY <3>1 DEF CanSaveDeposit, VerifyDepositTxn, a
    <3>3. t \in TxId
      BY CallKinds DEF DepositCalls, DepositCall
    <3>4. o \in OutputId
      BY <3>2, <3>3, DepositIdType
    <3>5. Value(o) \in Nat
      BY <3>2, <3>3, DepositTxAssumption DEF Value, Out, HasOut, DepositId
    <3> HIDE DEF o
    <3> QED BY <2>1, <3>1, <3>2, <3>4, <3>5, CreateDepositBalanced DEF b, o
  <2>5. CASE QueueStep(u)
    <3>1. PICK amount \in U64 : b = QueueWithdrawal(a, amount, now)
      BY <2>5 DEF QueueStep, a, b
    <3> QED BY <2>1, <2>3, <3>1 DEF QueueWithdrawal, AccountType
  <2>6. CASE SignStep(u)
    <3>1. PICK t \in TxId, embed \in Vout \cup {None}, storage \in Nat :
            b = SavePending(a, t, embed, storage)
      BY <2>6 DEF SignStep, a, b
    <3> QED BY <2>1, <2>3, <3>1 DEF SavePending, AccountType
  <2>7. CASE WithdrawStep(u)
    <3>1. PICK t \in mined : \E multisig : b = CompleteWithdrawals(a, t, multisig)
      BY <2>7 DEF WithdrawStep, a, b
    <3>2. t \in TxId /\ DistinctInputs(t)
      BY DEF TypeOK, BalanceInv
    <3> QED BY <2>1, <3>1, <3>2, CompleteWithdrawalsBalanced DEF b
  <2>8. b = a \/ DepositStep(u) \/ QueueStep(u) \/ SignStep(u) \/ WithdrawStep(u)
    BY AccountStep DEF a, b
  <2> QED BY <2>2, <2>4, <2>5, <2>6, <2>7, <2>8 DEF b
<1>2. \A t \in mined' : DistinctInputs(t)
  BY SurroundingsStep DEF BalanceInv, Mine
<1> QED BY <1>1, <1>2 DEF BalanceInv

(* The invariant holds in every behaviour.                                 *)
LEMMA BalanceInvariant == Spec => []BalanceInv
<1>1. Init => BalanceInv
  BY NewAccountBalanced DEF Init, BalanceInv
<1>2. TypeOK /\ BalanceInv /\ [Next]_vars => BalanceInv'
  BY BalanceInvStep
<1> QED BY <1>1, <1>2, TypeCorrect, PTL DEF Spec

(* total_deposit is the value of the active deposits, for any number of    *)
(* them and any withdrawals of several at once.                            *)
THEOREM TotalCorrect == Spec => []TotalIsActiveValue
<1>1. BalanceInv => TotalIsActiveValue
  BY DEF BalanceInv, Balanced, TotalIsActiveValue
<1> QED BY <1>1, BalanceInvariant, PTL

(* No reachable state locks a withdrawal out: a mined transaction that     *)
(* spends active deposits of a user passes every check of                  *)
(* complete_withdrawal, for all of its inputs, however many.               *)
THEOREM CompletableCorrect == Spec => []WithdrawalsCompletable
<1>1. TypeOK /\ DepositInv /\ BalanceInv => WithdrawalsCompletable
  <2> SUFFICES ASSUME TypeOK, DepositInv, BalanceInv, NEW u \in User, NEW t \in mined,
                      DepositInputs(accounts[u], t) # {}
               PROVE  CanCompleteWithdrawals(accounts[u], t)
    BY DEF WithdrawalsCompletable
  <2>1. accounts[u] \in AccountType /\ t \in TxId
    BY DEF TypeOK
  <2>2. Balanced(accounts[u]) /\ DistinctInputs(t)
    BY DEF BalanceInv
  <2>3. accounts[u].active \cap WithdrawnIds(accounts[u]) = {}
    BY DEF DepositInv, RecordedOnce
  <2> QED BY <2>1, <2>2, <2>3, CompletableIfBalanced
<1> QED BY <1>1, TypeCorrect, DepositInvariant, BalanceInvariant, PTL DEF Spec

-----------------------------------------------------------------------------
(* NEAR                                                                    *)

Storages == [u \in User |-> accounts[u].storage]

(* what a deposit in flight has attached beyond its storage deposit *)
Spare(c) == IF calls[c].kind = "deposit" THEN calls[c].attached - StorageDeposit ELSE 0
Spares == [c \in CallId |-> Spare(c)]

(* The funding is not inductive alone: a rejected deposit is refunded all  *)
(* it attached, so what it attached has to be there as long as it is in    *)
(* flight, and its entry with it (InFlightReserved).                       *)
FundInv ==
  /\ IsFiniteSet(confirmed)
  /\ \A c \in DepositCalls : calls[c].attached >= StorageDeposit
  /\ near >= StorageDeposit * Cardinality(confirmed)
               + Sum(Storages, User) + Sum(Spares, CallId)

(* The sum of the storage deposits is Sum.                                 *)
LEMMA StorageFold ==
  LET storage(u) == accounts[u].storage
  IN  MapThenSumSet(storage, User) = Sum(Storages, User)
<1> DEFINE storage(u) == accounts[u].storage
           Sums(g) == g = [s \in SUBSET User |->
                        IF s = {} THEN 0 ELSE storage(Pick(s)) + g[s \ {Pick(s)}]]
           chosen == CHOOSE g : Sums(g)
<1>0. IsFiniteSet(User)
  BY BitHiveAssumption
<1>1. MapThenSumSet(storage, User) = chosen[User]
  BY DEF MapThenSumSet, MapThenFoldSet, Pick
<1>2. ASSUME NEW s \in SUBSET User, s # {} PROVE Storages[Pick(s)] = storage(Pick(s))
  BY <1>2 DEF Storages, Pick
<1> HIDE DEF storage
<1>3. PICK g : IsSum(g, Storages, User)
  BY <1>0, SumExists
<1>4. Sums(g)
  BY <1>2, <1>3 DEF IsSum
<1>5. Sums(chosen)
  <2> HIDE DEF Sums
  <2> QED BY <1>4
<1>6. IsSum(chosen, Storages, User)
  <2> HIDE DEF chosen
  <2> QED BY <1>2, <1>5 DEF IsSum
<1> HIDE DEF chosen
<1>7. chosen[User] = Sum(Storages, User)
  BY <1>0, <1>6, SumOfAny
<1> QED BY <1>1, <1>7 DEF storage

(* What is summed up are numbers.                                          *)
LEMMA FundTypes ==
  ASSUME TypeOK, FundInv
  PROVE  /\ \A u \in User : Storages[u] \in Nat
         /\ \A c \in CallId : Spares[c] \in Nat
<1>1. \A u \in User : Storages[u] \in Nat
  BY DEF TypeOK, AccountType, Storages
<1>2. ASSUME NEW c \in CallId PROVE Spare(c) \in Nat
  <2>1. CASE c \in DepositCalls
    <3>1. calls[c].attached \in Nat /\ calls[c].attached >= StorageDeposit
      BY <2>1, CallKinds DEF DepositCalls, DepositCall, FundInv
    <3> QED BY <3>1, BitHiveAssumption DEF Spare
  <2>2. CASE c \notin DepositCalls
    BY <2>2 DEF DepositCalls, Spare
  <2> QED BY <2>1, <2>2
<1> QED BY <1>1, <1>2 DEF Spares

(* A step that costs nobody anything.                                      *)
SameFunds ==
  /\ near' >= near
  /\ confirmed' = confirmed
  /\ \A u \in User : accounts'[u].storage = accounts[u].storage
  /\ DepositCalls' = DepositCalls
  /\ \A c \in DepositCalls : calls'[c] = calls[c]

(* A call of another kind leaves the deposit calls alone.                  *)
LEMMA OtherCall ==
  ASSUME TypeOK, NEW c \in CallId
  PROVE  /\ \A call : Send(c, call) /\ call.kind # "deposit" =>
              DepositCalls' = DepositCalls /\ \A d \in DepositCalls : calls'[d] = calls[d]
         /\ \A kind : Answer(c, kind) /\ kind # "deposit" =>
              DepositCalls' = DepositCalls /\ \A d \in DepositCalls : calls'[d] = calls[d]
<1>1. NoCall.kind # "deposit"
  BY DEF NoCall
<1>2. ASSUME NEW call, Send(c, call), call.kind # "deposit"
      PROVE  DepositCalls' = DepositCalls /\ \A d \in DepositCalls : calls'[d] = calls[d]
  <2>1. calls[c] = NoCall /\ \A d \in CallId : calls'[d] = IF d = c THEN call ELSE calls[d]
    BY <1>2, SendOrAnswer DEF Send
  <2> QED BY <1>1, <1>2, <2>1 DEF DepositCalls
<1>3. ASSUME NEW kind, Answer(c, kind), kind # "deposit"
      PROVE  DepositCalls' = DepositCalls /\ \A d \in DepositCalls : calls'[d] = calls[d]
  <2>1. calls[c].kind = kind /\ \A d \in CallId : calls'[d] = IF d = c THEN NoCall ELSE calls[d]
    BY <1>3, SendOrAnswer DEF Answer
  <2> QED BY <1>1, <1>3, <2>1 DEF DepositCalls
<1> QED BY <1>2, <1>3

(* NEAR is moved, or owed, by the deposit handler and its callback, and by *)
(* the first request for a signature.                                      *)
LEMMA FundStep ==
  ASSUME TypeOK, [Next]_vars
  PROVE  \/ SameFunds
         \/ \E c \in CallId :
              \/ \E t \in TxId, embed \in Vout, attached \in Payment :
                   SubmitDepositTx(c, t, embed, attached)
              \/ OnVerifyDepositTx(c)
              \/ \E u \in User, t \in TxId, partial \in Partial, attached \in Payment :
                   \E vin \in DOMAIN Tx[t].ins, embed \in Vout \cup {None}, storage \in Payment :
                     SignFirst(c, u, t, vin, partial, embed, attached, storage)
<1> DEFINE Goal ==
  \/ SameFunds
  \/ \E c \in CallId :
       \/ \E t \in TxId, embed \in Vout, attached \in Payment :
            SubmitDepositTx(c, t, embed, attached)
       \/ OnVerifyDepositTx(c)
       \/ \E u \in User, t \in TxId, partial \in Partial, attached \in Payment :
            \E vin \in DOMAIN Tx[t].ins, embed \in Vout \cup {None}, storage \in Payment :
              SignFirst(c, u, t, vin, partial, embed, attached, storage)
<1> SUFFICES Goal
  OBVIOUS
<1>0. accounts \in [User -> AccountType] /\ near \in Int
  BY DEF TypeOK
<1>1. CASE UNCHANGED <<confirmed, accounts, calls, near>>
  BY <1>0, <1>1 DEF SameFunds, DepositCalls
<1>2. ASSUME NEW u \in User, NEW amount, ApplyQueueWithdrawal(u, amount)
      PROVE  \A v \in User : accounts'[v].storage = accounts[v].storage
  <2>1. accounts' = [accounts EXCEPT ![u] = QueueWithdrawal(accounts[u], amount, now)]
    BY <1>2 DEF ApplyQueueWithdrawal
  <2>2. QueueWithdrawal(accounts[u], amount, now).storage = accounts[u].storage
    BY <1>0 DEF QueueWithdrawal, AccountType
  <2> QED BY <1>0, <2>1, <2>2
<1>3. ASSUME NEW c \in CallId, NEW u, NEW amount, QueueWithdrawalBip322(c, u, amount)
      PROVE  SameFunds
  <2> DEFINE call == [kind |-> "bip322", user |-> u, amount |-> amount,
                      nonce |-> accounts[u].nonce]
  <2>1. Send(c, call) /\ call.kind # "deposit" /\ UNCHANGED <<confirmed, accounts, near>>
    BY <1>3 DEF QueueWithdrawalBip322
  <2> HIDE DEF call
  <2> QED BY <1>0, <2>1, OtherCall DEF SameFunds
<1>4. ASSUME NEW c \in CallId, NEW u, NEW t, NEW vin, NEW partial, NEW attached,
             SignAgain(c, u, t, vin, partial, attached)
      PROVE  SameFunds
  <2> DEFINE call == [kind |-> "sign", user |-> u, tx |-> t, vin |-> vin,
                      partial |-> partial, attached |-> attached,
                      signer |-> config.chainSigs]
  <2>1. Send(c, call) /\ call.kind # "deposit" /\ UNCHANGED <<confirmed, accounts, near>>
    BY <1>4 DEF SignAgain, RequestSignature
  <2> HIDE DEF call
  <2> QED BY <1>0, <2>1, OtherCall DEF SameFunds
<1>5. ASSUME NEW c \in CallId, NEW u, NEW t, NEW multisig, SubmitWithdrawalTx(c, u, t, multisig)
      PROVE  SameFunds
  <2> DEFINE call == [kind |-> "withdraw", user |-> u, tx |-> t, multisig |-> multisig]
  <2>1. Send(c, call) /\ call.kind # "deposit" /\ UNCHANGED <<confirmed, accounts, near>>
    BY <1>5 DEF SubmitWithdrawalTx
  <2> HIDE DEF call
  <2> QED BY <1>0, <2>1, OtherCall DEF SameFunds
<1>6. ASSUME NEW c \in CallId, Bip322Accepted(c) PROVE SameFunds
  <2>1. Answer(c, "bip322") /\ UNCHANGED <<confirmed, near>>
    BY <1>6 DEF Bip322Accepted
  <2>2. calls[c].user \in User
    BY <2>1, CallKinds DEF Answer, Bip322Call
  <2>3. \A v \in User : accounts'[v].storage = accounts[v].storage
    BY <1>2, <1>6, <2>2 DEF Bip322Accepted
  <2> QED BY <1>0, <2>1, <2>3, OtherCall DEF SameFunds
<1>7. ASSUME NEW c \in CallId, Bip322Dropped(c) \/ SignatureGiven(c) \/ WithdrawalDropped(c)
      PROVE  SameFunds
  <2>1. \E kind : Answer(c, kind) /\ kind # "deposit"
    BY <1>7 DEF Bip322Dropped, SignatureGiven, WithdrawalDropped
  <2>2. UNCHANGED <<confirmed, accounts, near>>
    BY <1>7 DEF Bip322Dropped, SignatureGiven, WithdrawalDropped
  <2> QED BY <1>0, <2>1, <2>2, OtherCall DEF SameFunds
<1>8. ASSUME NEW c \in CallId, SignatureFailed(c) PROVE SameFunds
  <2>1. Answer(c, "sign") /\ UNCHANGED <<confirmed, accounts>>
    BY <1>8 DEF SignatureFailed
  <2>2. calls[c].attached \in Nat
    BY <2>1, CallKinds DEF Answer, SignCall
  <2>3. near' >= near
    BY <1>0, <1>8, <2>2 DEF SignatureFailed
  <2> QED BY <2>1, <2>3, OtherCall DEF SameFunds
<1>9. ASSUME NEW c \in CallId, WithdrawalCompleted(c) PROVE SameFunds
  <2> DEFINE v == calls[c].user
             b == CompleteWithdrawals(accounts[v], calls[c].tx, calls[c].multisig)
  <2>1. /\ Answer(c, "withdraw") /\ UNCHANGED <<confirmed, near>>
        /\ accounts' = [accounts EXCEPT ![v] = b]
    BY <1>9 DEF WithdrawalCompleted
  <2>2. v \in User
    BY <2>1, CallKinds DEF Answer, WithdrawCall
  <2>3. b.storage = accounts[v].storage
    BY <1>0, <2>2 DEF CompleteWithdrawals, AccountType
  <2> HIDE DEF b, v
  <2>4. \A u \in User : accounts'[u].storage = accounts[u].storage
    BY <1>0, <2>1, <2>2, <2>3
  <2> QED BY <1>0, <2>1, <2>4, OtherCall DEF SameFunds
<1>10. ASSUME NEW u \in User, NEW amount, QueueWithdrawalEcdsa(u, amount) PROVE SameFunds
  <2>1. \A v \in User : accounts'[v].storage = accounts[v].storage
    BY <1>2, <1>10 DEF QueueWithdrawalEcdsa
  <2> QED BY <1>0, <1>10, <2>1 DEF QueueWithdrawalEcdsa, SameFunds, DepositCalls
<1>11. ASSUME NEW c \in CallId, Handler(c) PROVE Goal
  <2> HIDE DEF Goal
  <2>1. ASSUME NEW t \in TxId, NEW embed \in Vout, NEW attached \in Payment,
               SubmitDepositTx(c, t, embed, attached)
        PROVE  Goal
    BY <2>1 DEF Goal
  <2>2. ASSUME NEW u \in User, NEW t \in TxId, NEW partial \in Partial,
               NEW attached \in Payment, NEW vin \in DOMAIN Tx[t].ins,
               NEW embed \in Vout \cup {None}, NEW storage \in Payment,
               SignFirst(c, u, t, vin, partial, embed, attached, storage)
        PROVE  Goal
    BY <2>2 DEF Goal
  <2>3. SameFunds => Goal
    BY DEF Goal
  <2> QED BY <1>3, <1>4, <1>5, <1>11, <2>1, <2>2, <2>3 DEF Handler
<1>12. ASSUME NEW c \in CallId, Callback(c) PROVE Goal
  BY <1>6, <1>7, <1>8, <1>9, <1>12
  DEF Callback, OnBip322Verify, OnSignWithdrawal, OnVerifyWithdrawalTx
<1> HIDE DEF Goal
<1>13. CASE \/ AdminNext /\ UNCHANGED <<contractVars, chainVars>>
            \/ Tick \/ (\E t \in TxId : Mine(t)) \/ UNCHANGED vars
  BY <1>1, <1>13 DEF Tick, Mine, vars
<1>14. SameFunds => Goal
  BY DEF Goal
<1> QED BY <1>10, <1>11, <1>12, <1>13, <1>14 DEF Next

(* Every step keeps the invariant.                                         *)
LEMMA FundInvStep ==
  ASSUME TypeOK, DepositInv, FundInv, [Next]_vars
  PROVE  FundInv'
<1> DEFINE n == Cardinality(confirmed)
           owed == Sum(Storages, User)
           spare == Sum(Spares, CallId)
<1>0. IsFiniteSet(User) /\ IsFiniteSet(CallId) /\ StorageDeposit \in Nat
  BY BitHiveAssumption
<1>1. /\ n \in Nat /\ near \in Int /\ IsFiniteSet(confirmed)
      /\ near >= StorageDeposit * n + owed + spare
  BY FS_CardinalityType DEF TypeOK, FundInv
<1>2. /\ \A u \in User : Storages[u] \in Nat
      /\ \A c \in CallId : Spares[c] \in Nat
  BY FundTypes
<1>3. owed \in Nat /\ spare \in Nat
  BY <1>0, <1>2, SumType
<1>4. \A m \in Nat : StorageDeposit * m \in Nat /\ StorageDeposit * (m + 1) = StorageDeposit * m + StorageDeposit
  BY <1>0
<1> HIDE DEF n, owed, spare
<1>5. CASE SameFunds
  <2>1. \A u \in User : Storages'[u] = Storages[u]
    BY <1>5 DEF SameFunds, Storages
  <2>2. \A c \in CallId : Spares'[c] = Spares[c]
    <3>1. \A c \in CallId : Spare(c)' = Spare(c)
      BY <1>5 DEF SameFunds, Spare, DepositCalls
    <3> QED BY <3>1 DEF Spares
  <2>3. owed' = owed /\ spare' = spare
    <3>1. Sum(Storages', User) = Sum(Storages, User)
      BY <1>0, <2>1, SumSame
    <3>2. Sum(Spares', CallId) = Sum(Spares, CallId)
      BY <1>0, <2>2, SumSame
    <3> QED BY <3>1, <3>2 DEF owed, spare
  <2>4. near' \in Int /\ near' >= near /\ confirmed' = confirmed
    BY <1>5, TypeStep DEF SameFunds, TypeOK
  <2>5. \A c \in DepositCalls' : calls'[c].attached >= StorageDeposit
    BY <1>5 DEF SameFunds, FundInv
  <2>6. near' >= StorageDeposit * n + owed + spare
    BY <1>0, <1>1, <1>3, <1>4, <2>4
  <2> QED BY <1>1, <2>3, <2>4, <2>5, <2>6 DEF FundInv, n, owed, spare
<1>6. ASSUME NEW c \in CallId, NEW t \in TxId, NEW embed \in Vout,
             NEW attached \in Payment, SubmitDepositTx(c, t, embed, attached)
      PROVE  FundInv'
  <2> DEFINE o == DepositId(t, embed)
             call == [kind |-> "deposit", tx |-> t, embed |-> embed,
                      vout |-> DepositVout(t, embed), attached |-> attached]
  <2>1. /\ o \notin confirmed /\ confirmed' = confirmed \cup {o} /\ accounts' = accounts
        /\ attached >= StorageDeposit /\ near' = near + attached /\ Send(c, call)
    BY <1>6 DEF SubmitDepositTx
  <2>2. attached \in Nat /\ call.kind = "deposit" /\ call.attached = attached
    BY BitHiveAssumption
  <2>3. calls[c] = NoCall /\ \A d \in CallId : calls'[d] = IF d = c THEN call ELSE calls[d]
    <3> HIDE DEF call
    <3> QED BY <2>1, SendOrAnswer DEF Send
  <2> HIDE DEF o, call
  <2>4. IsFiniteSet(confirmed') /\ Cardinality(confirmed') = n + 1
    BY <1>1, <2>1, FS_AddElement DEF n
  <2>5. Spares[c] = 0 /\ Spares'[c] = attached - StorageDeposit
        /\ \A d \in CallId \ {c} : Spares'[d] = Spares[d]
    BY <2>2, <2>3 DEF Spares, Spare, NoCall
  <2>6. spare' = spare + (attached - StorageDeposit)
    <3>1. attached - StorageDeposit \in Nat
      BY <1>0, <2>1, <2>2
    <3>2. Sum(Spares', CallId) + Spares[c] = Sum(Spares, CallId) + Spares'[c]
          /\ Sum(Spares', CallId) \in Nat
      BY <1>0, <1>2, <2>5, <3>1, SumUpdate
    <3> QED BY <1>3, <2>5, <3>1, <3>2 DEF spare
  <2>7. owed' = owed
    BY <2>1 DEF owed, Storages
  <2>8. \A d \in DepositCalls' : calls'[d].attached >= StorageDeposit
    BY <2>1, <2>2, <2>3 DEF DepositCalls, FundInv
  <2>9. near' >= StorageDeposit * (n + 1) + owed' + spare'
    <3>1. StorageDeposit * (n + 1) = StorageDeposit * n + StorageDeposit /\ StorageDeposit * n \in Nat
      BY <1>1, <1>4
    <3> QED BY <1>0, <1>1, <1>3, <2>1, <2>2, <2>6, <2>7, <3>1
  <2> QED BY <2>4, <2>8, <2>9 DEF FundInv, owed, spare
<1>7. ASSUME NEW c \in CallId, OnVerifyDepositTx(c) PROVE FundInv'
  <2>1. Answer(c, "deposit")
    BY <1>7 DEF OnVerifyDepositTx, DepositRejected, DepositSaved, DepositNotSaved
  <2>2. /\ calls[c].kind = "deposit" /\ calls[c].attached \in Nat
        /\ calls[c].attached >= StorageDeposit
        /\ \A d \in CallId : calls'[d] = IF d = c THEN NoCall ELSE calls[d]
    BY <2>1, CallKinds, SendOrAnswer DEF Answer, DepositCall, FundInv, DepositCalls
  <2>3. Spares[c] = calls[c].attached - StorageDeposit /\ Spares'[c] = 0
        /\ \A d \in CallId \ {c} : Spares'[d] = Spares[d]
    BY <2>2 DEF Spares, Spare, NoCall
  <2>4. spare' + (calls[c].attached - StorageDeposit) = spare /\ spare' \in Nat
    <3>1. Sum(Spares', CallId) + Spares[c] = Sum(Spares, CallId) + Spares'[c]
          /\ Sum(Spares', CallId) \in Nat
      BY <1>0, <1>2, <2>3, SumUpdate
    <3> QED BY <1>3, <2>3, <3>1 DEF spare
  <2>5. owed' = owed
    <3>1. \A u \in User : Storages'[u] = Storages[u]
      <4>1. CASE accounts' = accounts
        BY <4>1 DEF Storages
      <4>2. CASE DepositSaved(c)
        <5> DEFINE v == DepositUser(calls[c].tx, calls[c].embed)
                   b == CreateDeposit(accounts[v], DepositId(calls[c].tx, calls[c].embed))
        <5>1. accounts' = [accounts EXCEPT ![v] = b] /\ v \in User
          BY <4>2 DEF DepositSaved, CanSaveDeposit, VerifyDepositTxn
        <5>2. accounts \in [User -> AccountType]
          BY DEF TypeOK
        <5>3. b.storage = accounts[v].storage
          BY <5>1, <5>2 DEF CreateDeposit, AccountType
        <5> HIDE DEF v, b
        <5> QED BY <5>1, <5>2, <5>3 DEF Storages
      <4> QED BY <1>7, <4>1, <4>2 DEF OnVerifyDepositTx, DepositRejected, DepositNotSaved
    <3>2. Sum(Storages', User) = Sum(Storages, User)
      BY <1>0, <3>1, SumSame
    <3> QED BY <3>2 DEF owed
  <2>6. \A d \in DepositCalls' : calls'[d].attached >= StorageDeposit
    <3>1. NoCall.kind # "deposit"
      BY DEF NoCall
    <3> QED BY <2>2, <3>1 DEF DepositCalls, FundInv
  <2>7. StorageDeposit * n \in Nat
    BY <1>1, <1>4
  <2>8. CASE DepositRejected(c)
    <3>1. /\ confirmed' = confirmed \ {InFlightId(c)} /\ near' = near - calls[c].attached
          /\ InFlightId(c) \in confirmed
      BY <1>7, <2>8, VerifyFacts DEF DepositRejected, InFlightId
    <3>2. IsFiniteSet(confirmed') /\ Cardinality(confirmed') = n - 1
      BY <1>1, <3>1, FS_RemoveElement DEF n
    <3>3. n - 1 \in Nat
      <4>1. Cardinality(confirmed') \in Nat
        BY <3>2, FS_CardinalityType
      <4> QED BY <3>2, <4>1
    <3>4. StorageDeposit * n = StorageDeposit * (n - 1) + StorageDeposit
          /\ StorageDeposit * (n - 1) \in Nat
      <4>1. StorageDeposit * ((n - 1) + 1) = StorageDeposit * (n - 1) + StorageDeposit
            /\ StorageDeposit * (n - 1) \in Nat
        BY <1>4, <3>3
      <4>2. (n - 1) + 1 = n
        BY <1>1
      <4> QED BY <4>1, <4>2
    <3>5. near' >= StorageDeposit * (n - 1) + owed' + spare'
      BY <1>0, <1>1, <1>3, <2>2, <2>4, <2>5, <3>1, <3>4
    <3> QED BY <2>6, <3>2, <3>5 DEF FundInv, owed, spare
  <2>9. CASE DepositSaved(c) \/ DepositNotSaved(c)
    <3>1. confirmed' = confirmed /\ near' = near
      BY <2>9 DEF DepositSaved, DepositNotSaved
    <3>2. near' >= StorageDeposit * n + owed' + spare'
      BY <1>0, <1>1, <1>3, <2>2, <2>4, <2>5, <2>7, <3>1
    <3> QED BY <1>1, <2>6, <3>1, <3>2 DEF FundInv, n, owed, spare
  <2> QED BY <1>7, <2>8, <2>9 DEF OnVerifyDepositTx
<1>8. ASSUME NEW c \in CallId, NEW u \in User, NEW t \in TxId, NEW partial \in Partial,
             NEW attached \in Payment, NEW vin \in DOMAIN Tx[t].ins,
             NEW embed \in Vout \cup {None}, NEW storage \in Payment,
             SignFirst(c, u, t, vin, partial, embed, attached, storage)
      PROVE  FundInv'
  <2> DEFINE charged == IF Len(Tx[t].ins) > 1 THEN storage ELSE 0
             b == SavePending(accounts[u], t, embed, charged)
             call == [kind |-> "sign", user |-> u, tx |-> t, vin |-> vin,
                      partial |-> partial, attached |-> attached - charged,
                      signer |-> config.chainSigs]
  <2>1. /\ accounts' = [accounts EXCEPT ![u] = b]
        /\ near' = near + charged /\ confirmed' = confirmed
        /\ Send(c, call) /\ call.kind # "deposit"
    BY <1>8 DEF SignFirst, RequestSignature
  <2>2. charged \in Nat
    BY BitHiveAssumption
  <2>3. accounts \in [User -> AccountType]
    BY DEF TypeOK
  <2>4. b.storage = accounts[u].storage + charged
    BY <2>3 DEF SavePending, AccountType
  <2> HIDE DEF charged, b, call
  <2>5. DepositCalls' = DepositCalls /\ \A d \in DepositCalls : calls'[d] = calls[d]
    BY <2>1, OtherCall
  <2>6. spare' = spare
    <3>1. \A d \in CallId : Spare(d)' = Spare(d)
      BY <2>5 DEF Spare, DepositCalls
    <3>2. \A d \in CallId : Spares'[d] = Spares[d]
      BY <3>1 DEF Spares
    <3>3. Sum(Spares', CallId) = Sum(Spares, CallId)
      BY <1>0, <3>2, SumSame
    <3> QED BY <3>3 DEF spare
  <2>7. Storages'[u] = Storages[u] + charged /\ \A v \in User \ {u} : Storages'[v] = Storages[v]
    BY <2>1, <2>3, <2>4 DEF Storages
  <2>8. owed' = owed + charged
    <3>1. Storages'[u] \in Nat
      BY <1>2, <2>2, <2>7
    <3>2. Sum(Storages', User) + Storages[u] = Sum(Storages, User) + Storages'[u]
          /\ Sum(Storages', User) \in Nat
      BY <1>0, <1>2, <2>7, <3>1, SumUpdate
    <3> QED BY <1>2, <1>3, <2>2, <2>7, <3>2 DEF owed
  <2>9. near' >= StorageDeposit * n + owed' + spare'
    <3>1. StorageDeposit * n \in Nat
      BY <1>1, <1>4
    <3> QED BY <1>1, <1>3, <2>1, <2>2, <2>6, <2>8, <3>1
  <2>10. \A d \in DepositCalls' : calls'[d].attached >= StorageDeposit
    BY <2>5 DEF FundInv
  <2> QED BY <1>1, <2>1, <2>9, <2>10 DEF FundInv, n, owed, spare
<1> QED BY <1>5, <1>6, <1>7, <1>8, FundStep

(* The invariant holds in every behaviour.                                 *)
LEMMA FundInvariant == Spec => []FundInv
<1>1. Init => FundInv
  <2> SUFFICES ASSUME Init PROVE FundInv
    OBVIOUS
  <2>1. /\ confirmed = {} /\ near = 0 /\ accounts = [u \in User |-> NewAccount]
        /\ calls = [c \in CallId |-> NoCall]
    BY DEF Init
  <2>2. IsFiniteSet(confirmed) /\ Cardinality(confirmed) = 0
    BY <2>1, FS_EmptySet
  <2>3. DepositCalls = {}
    BY <2>1 DEF DepositCalls, NoCall
  <2>4. \A u \in User : Storages[u] = 0
    BY <2>1 DEF Storages, NewAccount
  <2>5. \A c \in CallId : Spares[c] = 0
    BY <2>1 DEF Spares, Spare, NoCall
  <2>6. Sum(Storages, User) = 0 /\ Sum(Spares, CallId) = 0
    BY <2>4, <2>5, SumOfZeros, BitHiveAssumption
  <2> QED BY <2>1, <2>2, <2>3, <2>6, BitHiveAssumption DEF FundInv
<1>2. TypeOK /\ DepositInv /\ FundInv /\ [Next]_vars => FundInv'
  BY FundInvStep
<1> QED BY <1>1, <1>2, TypeCorrect, DepositInvariant, PTL DEF Spec

(* The storage of every entry and of every pending PSBT stays paid for,    *)
(* for any number of users, of calls in flight and of refunds.             *)
THEOREM FundingCorrect == Spec => []StorageFunded
<1>1. TypeOK /\ FundInv => StorageFunded
  <2> SUFFICES ASSUME TypeOK, FundInv PROVE StorageFunded
    OBVIOUS
  <2> DEFINE storage(u) == accounts[u].storage
  <2>1. /\ \A u \in User : Storages[u] \in Nat
        /\ \A c \in CallId : Spares[c] \in Nat
    BY FundTypes
  <2>2. IsFiniteSet(User) /\ IsFiniteSet(CallId) /\ StorageDeposit \in Nat
    BY BitHiveAssumption
  <2>3. Sum(Storages, User) \in Nat /\ Sum(Spares, CallId) \in Nat
    BY <2>1, <2>2, SumType
  <2>4. Cardinality(confirmed) \in Nat
    BY FS_CardinalityType DEF FundInv
  <2>5. StorageDeposit * Cardinality(confirmed) \in Nat
    BY <2>2, <2>4
  <2>6. near >= StorageDeposit * Cardinality(confirmed) + Sum(Storages, User)
    BY <2>3, <2>5 DEF FundInv, TypeOK
  <2>7. MapThenSumSet(storage, User) = Sum(Storages, User)
    BY StorageFold
  <2> HIDE DEF storage
  <2>8. near >= StorageDeposit * Cardinality(confirmed) + MapThenSumSet(storage, User)
    BY <2>6, <2>7
  <2> QED BY <2>8 DEF StorageFunded, storage
<1> QED BY <1>1, TypeCorrect, FundInvariant, PTL

=============================================================================

------------------------- MODULE BitHiveProperties -------------------------
(***************************************************************************)
(* What makes the contract correct.                                        *)
(***************************************************************************)
EXTENDS BitHive

DepositCalls == {c \in CallId : calls[c].kind = "deposit"}
InFlightId(c) == <<calls[c].tx, calls[c].vout>>
InFlightIds == {InFlightId(c) : c \in DepositCalls}

-----------------------------------------------------------------------------
(* Deposits *)

(* The early reservation in submit_deposit_tx does its job: whatever else  *)
(* runs between the request and its callback, an output being verified is  *)
(* reserved, is verified by one call only, and is not recorded anywhere.   *)
InFlightReserved ==
  /\ \A c \in DepositCalls :
       /\ InFlightId(c) \in confirmed
       /\ \A u \in User : InFlightId(c) \notin Recorded(accounts[u])
  /\ \A c, d \in DepositCalls : InFlightId(c) = InFlightId(d) => c = d

(* An output that is not being verified and yet cannot be submitted is one *)
(* of a mined transaction: it was recorded, or verified when its checks    *)
(* failed. An early submission or a wrong proof, of its user or of anybody *)
(* else, leaves the way free for the next one (on_verify_deposit_tx),      *)
(* whatever is answered in between.                                        *)
BlockedOnlyIfMined ==
  \A o \in confirmed : o \in InFlightIds \/ o[1] \in mined

(* A recorded deposit stays in confirmed_deposit_txns, belongs to one      *)
(* account, and is either active or withdrawn by a single transaction.     *)
RecordedOnce ==
  /\ \A u \in User :
       /\ Recorded(accounts[u]) \subseteq confirmed
       /\ accounts[u].active \cap WithdrawnIds(accounts[u]) = {}
       /\ \A v, w \in accounts[u].withdrawn : v.id = w.id => v = w
  /\ \A u, v \in User :
       u # v => Recorded(accounts[u]) \cap Recorded(accounts[v]) = {}

(* total_deposit is the value of the active deposits, so that no           *)
(* subtraction in complete_withdrawal can underflow and lock them in.      *)
TotalIsActiveValue ==
  \A u \in User :
    accounts[u].total = MapThenSumSet(Value, accounts[u].active)

(* No state locks a withdrawal out: a mined transaction that spends active *)
(* deposits of a user can be completed for him, all of its inputs at once, *)
(* whatever was queued, replaced or completed before (the underflow and    *)
(* duplicate checks of complete_withdrawal never fire for it).             *)
WithdrawalsCompletable ==
  \A u \in User, t \in mined :
    DepositInputs(accounts[u], t) # {} => CanCompleteWithdrawals(accounts[u], t)

(* The books agree with the chain: a recorded deposit is a mined output    *)
(* that pays the script of its account under the root key, and a           *)
(* withdrawn one was spent by the mined transaction named for it.          *)
BooksMatchChain ==
  \A u \in User :
    /\ \A o \in Recorded(accounts[u]) :
         /\ o[1] \in mined
         /\ VerifyDepositOutputV1(Out(o[1], o[2]), u, Out(o[1], o[2]).height, rootKey)
    /\ \A w \in accounts[u].withdrawn :
         w.by \in mined /\ Spends(w.by, Outpoint(w.id))

(* deposit.rs:68, "to prevent duplicate verification": one output of the    *)
(* chain is recorded under one id.                                         *)
UtxoRecordedOnce ==
  \A u, v \in User : \A o \in Recorded(accounts[u]), p \in Recorded(accounts[v]) :
    Outpoint(o) = Outpoint(p) => o = p

(* The contract implements the ledger of outputs: each output is credited  *)
(* at most once, to one user, and withdrawn at most once, for good.        *)
OutputStatus(o) ==
  IF \E u \in User : o \in WithdrawnIds(accounts[u]) THEN "withdrawn"
  ELSE IF \E u \in User : o \in accounts[u].active THEN "active"
  ELSE IF o \in InFlightIds THEN "reserved"
  ELSE IF o \in confirmed THEN "failed"
  ELSE "free"

OutputHolder(o) ==
  IF \E u \in User : o \in Recorded(accounts[u])
  THEN CHOOSE u \in User : o \in Recorded(accounts[u])
  ELSE None

Ledger == INSTANCE OutputLedger WITH
  Output <- OutputId, Holder <- User, Nobody <- None,
  status <- [o \in OutputId |-> OutputStatus(o)],
  holder <- [o \in OutputId |-> OutputHolder(o)]

ImplementsLedger == Ledger!LedgerSpec

-----------------------------------------------------------------------------
(* Withdrawals *)

(* The queue and the pending PSBT exclude each other, whatever order       *)
(* requests, verifier answers and withdrawals come in: a queued amount     *)
(* authorises one PSBT and is used up by it, and it has a start time as    *)
(* long as it lasts.                                                       *)
QueueUsedUpByPending ==
  \A u \in User :
    /\ accounts[u].pending # None => accounts[u].queue = 0
    /\ accounts[u].queue > 0 <=> accounts[u].startTs > 0

-----------------------------------------------------------------------------
(* NEAR *)

(* The contract still holds the storage deposit of every output it keeps   *)
(* an entry for, and of every user's pending PSBT: no path refunds NEAR    *)
(* that it has used, or refunds it twice.                                  *)
StorageFunded ==
  LET storage(u) == accounts[u].storage
  IN  near >= StorageDeposit * Cardinality(confirmed) + MapThenSumSet(storage, User)

=============================================================================

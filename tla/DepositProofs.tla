--------------------------- MODULE DepositProofs ---------------------------
(***************************************************************************)
(* Proofs about the outputs: an output being verified is reserved for one  *)
(* call and released unless it was mined, a recorded one is recorded once, *)
(* the books agree with the chain, a deposit built from the constants that *)
(* the contract tells is accepted, and the contract implements the ledger  *)
(* of outputs.                                                             *)
(***************************************************************************)
EXTENDS BitHiveProofs, View

USE DEF contractVars, chainVars, adminVars, ownership, rootVars

(* The reservation that submit_deposit_tx made is the one that             *)
(* save_deposit_txn uses up: the message is decoded again, and the same.   *)
SameOutput(c) == InFlightId(c) = DepositId(calls[c].tx, calls[c].embed)

(* Neither property is inductive alone: a new record is not in another     *)
(* account because it was reserved, and a new reservation is not of a      *)
(* recorded output because records stay confirmed.                         *)
DepositInv ==
  /\ InFlightReserved
  /\ RecordedOnce
  /\ \A c \in DepositCalls : SameOutput(c)

-----------------------------------------------------------------------------
(* The operations on an account *)

(* What create_deposit does to the records.                                *)
LEMMA CreateDepositRecords ==
  ASSUME NEW a \in AccountType, NEW o
  PROVE  /\ CreateDeposit(a, o).active = a.active \cup {o}
         /\ CreateDeposit(a, o).withdrawn = a.withdrawn
         /\ WithdrawnIds(CreateDeposit(a, o)) = WithdrawnIds(a)
         /\ Recorded(CreateDeposit(a, o)) = Recorded(a) \cup {o}
<1> DEFINE b == CreateDeposit(a, o)
<1>1. b.active = a.active \cup {o} /\ b.withdrawn = a.withdrawn
  BY DEF CreateDeposit, AccountType
<1>2. WithdrawnIds(b) = WithdrawnIds(a)
  BY <1>1 DEF WithdrawnIds
<1> QED BY <1>1, <1>2 DEF Recorded

(* What completed withdrawals do to the records: deposits go from active   *)
(* to withdrawn.                                                           *)
LEMMA CompleteWithdrawalsRecords ==
  ASSUME NEW a \in AccountType, NEW t, NEW multisig
  PROVE  LET b == CompleteWithdrawals(a, t, multisig)
         IN  /\ Spent(a, t) \subseteq a.active
             /\ b.active = a.active \ Spent(a, t)
             /\ b.withdrawn = a.withdrawn \cup {[id |-> o, by |-> t] : o \in Spent(a, t)}
             /\ WithdrawnIds(b) = WithdrawnIds(a) \cup Spent(a, t)
             /\ Recorded(b) = Recorded(a)
<1> DEFINE b == CompleteWithdrawals(a, t, multisig)
           done == {[id |-> o, by |-> t] : o \in Spent(a, t)}
<1>1. Spent(a, t) \subseteq a.active
  BY DEF Spent, DepositInputs
<1>2. b.active = a.active \ Spent(a, t) /\ b.withdrawn = a.withdrawn \cup done
  BY DEF CompleteWithdrawals, AccountType
<1>3. {w.id : w \in done} = Spent(a, t)
  <2>1. \A w \in done : w.id \in Spent(a, t)
    OBVIOUS
  <2>2. ASSUME NEW o \in Spent(a, t) PROVE \E w \in done : w.id = o
    <3>1. [id |-> o, by |-> t] \in done /\ [id |-> o, by |-> t].id = o
      OBVIOUS
    <3> QED BY <3>1
  <2> HIDE DEF done
  <2> QED BY <2>1, <2>2
<1>4. WithdrawnIds(b) = WithdrawnIds(a) \cup Spent(a, t)
  BY <1>2, <1>3 DEF WithdrawnIds
<1>5. Recorded(b) = Recorded(a)
  BY <1>1, <1>2, <1>4 DEF Recorded
<1> QED BY <1>1, <1>2, <1>4, <1>5

-----------------------------------------------------------------------------
(* The steps *)

(* A step that leaves reservations, records and verifications alone.       *)
SameRecords ==
  /\ confirmed' = confirmed
  /\ \A u \in User : /\ accounts'[u].active = accounts[u].active
                     /\ accounts'[u].withdrawn = accounts[u].withdrawn
  /\ \A c \in CallId : calls'[c] # calls[c] =>
       calls[c].kind # "deposit" /\ calls'[c].kind # "deposit"

(* The steps that touch an output are those of the deposit handler and its *)
(* callback, and a completed withdrawal.                                   *)
LEMMA RecordStep ==
  ASSUME TypeOK, [Next]_vars
  PROVE  \/ SameRecords
         \/ \E c \in CallId :
              \/ \E t \in TxId, embed \in Vout, attached \in Payment :
                   SubmitDepositTx(c, t, embed, attached)
              \/ OnVerifyDepositTx(c)
              \/ WithdrawalCompleted(c)
<1> DEFINE Goal ==
  \/ SameRecords
  \/ \E c \in CallId :
       \/ \E t \in TxId, embed \in Vout, attached \in Payment :
            SubmitDepositTx(c, t, embed, attached)
       \/ OnVerifyDepositTx(c)
       \/ WithdrawalCompleted(c)
<1> SUFFICES Goal
  OBVIOUS
<1>1. /\ accounts \in [User -> AccountType]
      /\ NoCall.kind # "deposit"
  BY DEF TypeOK, NoCall
<1>2. CASE UNCHANGED <<confirmed, accounts, calls>>
  BY <1>2 DEF SameRecords
<1>3. ASSUME NEW c \in CallId, NEW call, Send(c, call), call.kind # "deposit",
             UNCHANGED <<confirmed, accounts>>
      PROVE  SameRecords
  <2>1. calls[c] = NoCall
    BY <1>3 DEF Send
  <2>2. \A d \in CallId : calls'[d] = IF d = c THEN call ELSE calls[d]
    BY <1>3, SendOrAnswer
  <2> QED BY <1>1, <1>3, <2>1, <2>2 DEF SameRecords
<1>4. ASSUME NEW c \in CallId, NEW kind, Answer(c, kind), kind # "deposit",
             confirmed' = confirmed, UNCHANGED accounts
      PROVE  SameRecords
  <2>1. calls[c].kind # "deposit"
    BY <1>4 DEF Answer
  <2>2. \A d \in CallId : calls'[d] = IF d = c THEN NoCall ELSE calls[d]
    BY <1>4, SendOrAnswer
  <2> QED BY <1>1, <1>4, <2>1, <2>2 DEF SameRecords
<1>5. ASSUME NEW v \in User, NEW amount, ApplyQueueWithdrawal(v, amount), NEW u \in User
      PROVE  /\ accounts'[u].active = accounts[u].active
             /\ accounts'[u].withdrawn = accounts[u].withdrawn
  BY <1>1, <1>5 DEF ApplyQueueWithdrawal, QueueWithdrawal, AccountType
<1>6. ASSUME NEW c \in CallId, Handler(c) PROVE Goal
  <2>1. ASSUME NEW u \in User, NEW amount, QueueWithdrawalBip322(c, u, amount)
        PROVE  Goal
    BY <1>3, <2>1 DEF QueueWithdrawalBip322
  <2>2. ASSUME NEW u \in User, NEW t, NEW vin, NEW partial, NEW attached,
               SignAgain(c, u, t, vin, partial, attached)
        PROVE  Goal
    BY <1>3, <2>2 DEF SignAgain, RequestSignature
  <2>3. ASSUME NEW v \in User, NEW t, NEW vin, NEW partial, NEW embed, NEW attached,
               NEW storage, SignFirst(c, v, t, vin, partial, embed, attached, storage)
        PROVE  Goal
    <3> DEFINE charged == IF Len(Tx[t].ins) > 1 THEN storage ELSE 0
    <3>1. accounts' = [accounts EXCEPT ![v] = SavePending(accounts[v], t, embed, charged)]
      BY <2>3 DEF SignFirst
    <3>2. \A u \in User : /\ accounts'[u].active = accounts[u].active
                          /\ accounts'[u].withdrawn = accounts[u].withdrawn
      <4> HIDE DEF charged
      <4> QED BY <1>1, <3>1 DEF SavePending, AccountType
    <3>3. PICK call : Send(c, call) /\ call.kind = "sign"
      BY <2>3 DEF SignFirst, RequestSignature
    <3>4. \A d \in CallId : calls'[d] = IF d = c THEN call ELSE calls[d]
      BY <3>3, SendOrAnswer
    <3>5. calls[c] = NoCall /\ confirmed' = confirmed
      BY <2>3, <3>3 DEF SignFirst, Send
    <3> QED BY <1>1, <3>2, <3>3, <3>4, <3>5 DEF SameRecords
  <2>4. ASSUME NEW u \in User, NEW t, NEW multisig, SubmitWithdrawalTx(c, u, t, multisig)
        PROVE  Goal
    BY <1>3, <2>4 DEF SubmitWithdrawalTx
  <2> HIDE DEF Goal
  <2>5. ASSUME NEW t \in TxId, NEW embed \in Vout, NEW attached \in Payment,
               SubmitDepositTx(c, t, embed, attached)
        PROVE  Goal
    BY <2>5 DEF Goal
  <2> QED BY <1>6, <2>1, <2>2, <2>3, <2>4, <2>5 DEF Handler
<1>7. ASSUME NEW c \in CallId, Callback(c) PROVE Goal
  <2>1. CASE Bip322Accepted(c)
    <3>1. Answer(c, "bip322") /\ confirmed' = confirmed
      BY <2>1 DEF Bip322Accepted
    <3>2. calls[c].kind = "bip322" /\ calls[c].user \in User
      BY <3>1, CallKinds DEF Answer, Bip322Call
    <3>3. \A d \in CallId : calls'[d] = IF d = c THEN NoCall ELSE calls[d]
      BY <3>1, SendOrAnswer
    <3>4. \A u \in User : /\ accounts'[u].active = accounts[u].active
                          /\ accounts'[u].withdrawn = accounts[u].withdrawn
      BY <1>5, <2>1, <3>2 DEF Bip322Accepted
    <3> QED BY <1>1, <3>1, <3>2, <3>3, <3>4 DEF SameRecords
  <2>2. CASE Bip322Dropped(c)
    BY <1>4, <2>2 DEF Bip322Dropped
  <2>3. CASE OnSignWithdrawal(c)
    BY <1>4, <2>3 DEF OnSignWithdrawal, SignatureGiven, SignatureFailed
  <2>4. CASE WithdrawalDropped(c)
    BY <1>4, <2>4 DEF WithdrawalDropped
  <2>5. CASE OnVerifyDepositTx(c) \/ WithdrawalCompleted(c)
    BY <2>5
  <2> QED BY <1>7, <2>1, <2>2, <2>3, <2>4, <2>5
          DEF Callback, OnBip322Verify, OnVerifyWithdrawalTx
<1>8. ASSUME NEW u \in User, NEW amount, QueueWithdrawalEcdsa(u, amount) PROVE Goal
  BY <1>5, <1>8 DEF QueueWithdrawalEcdsa, SameRecords
<1>9. CASE (AdminNext /\ UNCHANGED <<contractVars, chainVars>>) \/ UNCHANGED vars
  BY <1>2, <1>9 DEF vars
<1>10. CASE Tick \/ \E t \in TxId : Mine(t)
  BY <1>2, <1>10 DEF Tick, Mine
<1> HIDE DEF Goal
<1> QED BY <1>6, <1>7, <1>8, <1>9, <1>10 DEF Next

(* A step that touches no output keeps the invariant.                      *)
LEMMA SameRecordsKeeps ==
  ASSUME DepositInv, SameRecords
  PROVE  DepositInv'
<1>1. \A u \in User : /\ accounts'[u].active = accounts[u].active
                      /\ accounts'[u].withdrawn = accounts[u].withdrawn
                      /\ WithdrawnIds(accounts'[u]) = WithdrawnIds(accounts[u])
                      /\ Recorded(accounts'[u]) = Recorded(accounts[u])
  BY DEF SameRecords, WithdrawnIds, Recorded
<1>2. \A c \in CallId : (c \in DepositCalls)' <=> c \in DepositCalls
  BY DEF SameRecords, DepositCalls
<1>3. \A c \in DepositCalls : calls'[c] = calls[c]
  BY DEF SameRecords, DepositCalls
<1>4. DepositCalls' = DepositCalls
  BY <1>2 DEF DepositCalls
<1>5. \A c \in DepositCalls : InFlightId(c)' = InFlightId(c) /\ (SameOutput(c)' <=> SameOutput(c))
  BY <1>3 DEF InFlightId, SameOutput
<1>6. confirmed' = confirmed
  BY DEF SameRecords
<1>7. InFlightReserved'
  BY <1>1, <1>4, <1>5, <1>6 DEF DepositInv, InFlightReserved
<1>8. RecordedOnce'
  BY <1>1, <1>6 DEF DepositInv, RecordedOnce
<1> QED BY <1>4, <1>5, <1>7, <1>8 DEF DepositInv

(* When the callback of c runs, its call goes and all others stay.         *)
LEMMA OnlyAnswered ==
  ASSUME TypeOK, NEW c \in CallId, NEW kind, Answer(c, kind)
  PROVE  /\ DepositCalls' = DepositCalls \ {c}
         /\ \A d \in DepositCalls \ {c} :
              InFlightId(d)' = InFlightId(d) /\ (SameOutput(d)' <=> SameOutput(d))
<1>1. \A d \in CallId : calls'[d] = IF d = c THEN NoCall ELSE calls[d]
  BY SendOrAnswer
<1>2. NoCall.kind # "deposit"
  BY DEF NoCall
<1>3. \A d \in CallId : calls'[d].kind = "deposit" <=> calls[d].kind = "deposit" /\ d # c
  BY <1>1, <1>2
<1>4. DepositCalls' = DepositCalls \ {c}
  BY <1>3 DEF DepositCalls
<1>5. \A d \in DepositCalls \ {c} : calls'[d] = calls[d]
  BY <1>1 DEF DepositCalls
<1> QED BY <1>4, <1>5 DEF InFlightId, SameOutput

(* What submit_deposit_tx does to the outputs.                             *)
LEMMA SubmitFacts ==
  ASSUME TypeOK, DepositInv, NEW c \in CallId, NEW t \in TxId, NEW embed \in Vout,
         NEW attached, SubmitDepositTx(c, t, embed, attached)
  PROVE  LET o == DepositId(t, embed)
         IN  /\ o \in OutputId /\ o \notin confirmed
             /\ confirmed' = confirmed \cup {o} /\ accounts' = accounts
             /\ \A u \in User : o \notin Recorded(accounts[u])
             /\ c \notin DepositCalls /\ DepositCalls' = DepositCalls \cup {c}
             /\ InFlightId(c)' = o /\ SameOutput(c)'
             /\ \A d \in DepositCalls : /\ InFlightId(d) # o
                                       /\ InFlightId(d)' = InFlightId(d)
                                       /\ SameOutput(d)'
<1> USE DEF DepositInv
<1> DEFINE o == DepositId(t, embed)
           call == [kind |-> "deposit", tx |-> t, embed |-> embed,
                    vout |-> DepositVout(t, embed), attached |-> attached]
<1>1. /\ o \notin confirmed /\ confirmed' = confirmed \cup {o}
      /\ accounts' = accounts /\ Send(c, call) /\ VerifyEmbedOutput(t, embed)
  BY DEF SubmitDepositTx
<1>2. calls[c].kind # "deposit" /\ \A d \in CallId : calls'[d] = IF d = c THEN call ELSE calls[d]
  <2> HIDE DEF call
  <2>1. calls[c] = NoCall
    BY <1>1 DEF Send
  <2> QED BY <1>1, <2>1, SendOrAnswer DEF NoCall
<1>3. DepositCalls' = DepositCalls \cup {c} /\ c \notin DepositCalls
  BY <1>2 DEF DepositCalls
<1>4. InFlightId(c)' = o /\ SameOutput(c)'
  BY <1>2 DEF InFlightId, SameOutput, DepositId
<1>5. \A d \in DepositCalls : InFlightId(d)' = InFlightId(d) /\ SameOutput(d)'
  BY <1>2, <1>3 DEF InFlightId, SameOutput, DepositCalls
<1>6. \A d \in DepositCalls : InFlightId(d) # o
  BY <1>1 DEF InFlightReserved
<1>7. \A u \in User : o \notin Recorded(accounts[u])
  BY <1>1 DEF RecordedOnce
<1>8. o \in OutputId
  BY <1>1, DepositIdType
<1> QED BY <1>1, <1>3, <1>4, <1>5, <1>6, <1>7, <1>8

(* What on_verify_deposit_tx finds: the output of its call is reserved and *)
(* not recorded, and no other call is about it.                            *)
LEMMA VerifyFacts ==
  ASSUME TypeOK, DepositInv, NEW c \in CallId, OnVerifyDepositTx(c)
  PROVE  /\ c \in DepositCalls /\ DepositCalls' = DepositCalls \ {c}
         /\ InFlightId(c) \in OutputId /\ InFlightId(c) \in confirmed
         /\ \A u \in User : InFlightId(c) \notin Recorded(accounts[u])
         /\ \A d \in DepositCalls' : /\ InFlightId(d) # InFlightId(c)
                                    /\ InFlightId(d)' = InFlightId(d)
                                    /\ SameOutput(d)'
<1> USE DEF DepositInv
<1>1. Answer(c, "deposit") /\ c \in DepositCalls
  BY DEF OnVerifyDepositTx, DepositRejected, DepositSaved, DepositNotSaved,
         Answer, DepositCalls
<1>2. /\ DepositCalls' = DepositCalls \ {c}
      /\ \A d \in DepositCalls' :
           InFlightId(d)' = InFlightId(d) /\ (SameOutput(d)' <=> SameOutput(d))
  BY <1>1, OnlyAnswered
<1>3. \A d \in DepositCalls' : InFlightId(d) # InFlightId(c)
  BY <1>1, <1>2 DEF InFlightReserved
<1>4. InFlightId(c) \in confirmed /\ \A u \in User : InFlightId(c) \notin Recorded(accounts[u])
  BY <1>1 DEF InFlightReserved
<1>5. InFlightId(c) \in OutputId
  BY <1>4 DEF TypeOK
<1> QED BY <1>1, <1>2, <1>3, <1>4, <1>5

(* What saving a deposit does to the records: v gets it.                   *)
LEMMA SavedFacts ==
  ASSUME TypeOK, DepositInv, NEW c \in CallId, DepositSaved(c)
  PROVE  /\ confirmed' = confirmed
         /\ \A u \in User : /\ accounts'[u].withdrawn = accounts[u].withdrawn
                           /\ WithdrawnIds(accounts'[u]) = WithdrawnIds(accounts[u])
         /\ \E v \in User : \A u \in User :
              /\ accounts'[u].active = IF u = v THEN accounts[v].active \cup {InFlightId(c)}
                                       ELSE accounts[u].active
              /\ Recorded(accounts'[u]) = IF u = v THEN Recorded(accounts[v]) \cup {InFlightId(c)}
                                          ELSE Recorded(accounts[u])
<1> DEFINE o == InFlightId(c)
           v == DepositUser(calls[c].tx, calls[c].embed)
<1>1. c \in DepositCalls /\ CanSaveDeposit(calls[c].tx, calls[c].embed)
  BY DEF DepositSaved, Answer, DepositCalls
<1>2. DepositId(calls[c].tx, calls[c].embed) = o
  BY <1>1 DEF SameOutput, DepositInv
<1>3. v \in User
  BY <1>1 DEF CanSaveDeposit, VerifyDepositTxn
<1>4. /\ accounts' = [accounts EXCEPT ![v] = CreateDeposit(accounts[v], o)]
      /\ confirmed' = confirmed
  BY <1>2 DEF DepositSaved
<1>5. accounts \in [User -> AccountType]
  BY DEF TypeOK
<1> HIDE DEF v, o
<1>6. /\ \A u \in User : Recorded(accounts'[u]) =
            IF u = v THEN Recorded(accounts[v]) \cup {o} ELSE Recorded(accounts[u])
      /\ \A u \in User : accounts'[u].withdrawn = accounts[u].withdrawn
      /\ \A u \in User : WithdrawnIds(accounts'[u]) = WithdrawnIds(accounts[u])
      /\ \A u \in User : accounts'[u].active =
            IF u = v THEN accounts[v].active \cup {o} ELSE accounts[u].active
  BY <1>3, <1>4, <1>5, CreateDepositRecords
<1> QED BY <1>3, <1>4, <1>6 DEF o

(* What a completed withdrawal does to the records of its user: what it    *)
(* spent moves from the active ones to the withdrawn ones.                 *)
LEMMA CompletedFacts ==
  ASSUME TypeOK, NEW c \in CallId, WithdrawalCompleted(c)
  PROVE  LET v == calls[c].user
             t == calls[c].tx
             S == Spent(accounts[v], t)
         IN  /\ confirmed' = confirmed
             /\ DepositCalls' = DepositCalls
             /\ \A d \in DepositCalls :
                  InFlightId(d)' = InFlightId(d) /\ (SameOutput(d)' <=> SameOutput(d))
             /\ v \in User
             /\ S # {} /\ S \subseteq accounts[v].active /\ S \cap WithdrawnIds(accounts[v]) = {}
             /\ accounts'[v].active = accounts[v].active \ S
             /\ accounts'[v].withdrawn =
                  accounts[v].withdrawn \cup {[id |-> o, by |-> t] : o \in S}
             /\ WithdrawnIds(accounts'[v]) = WithdrawnIds(accounts[v]) \cup S
             /\ Recorded(accounts'[v]) = Recorded(accounts[v])
             /\ \A u \in User \ {v} : accounts'[u] = accounts[u]
<1> DEFINE v == calls[c].user
           t == calls[c].tx
           multisig == calls[c].multisig
           S == Spent(accounts[v], t)
<1>1. Answer(c, "withdraw") /\ c \notin DepositCalls
  BY DEF WithdrawalCompleted, Answer, DepositCalls
<1>2. /\ DepositCalls' = DepositCalls
      /\ \A d \in DepositCalls :
           InFlightId(d)' = InFlightId(d) /\ (SameOutput(d)' <=> SameOutput(d))
  BY <1>1, OnlyAnswered
<1>3. v \in User
  BY <1>1, CallKinds DEF Answer, WithdrawCall
<1>4. /\ accounts' = [accounts EXCEPT ![v] = CompleteWithdrawals(accounts[v], t, multisig)]
      /\ confirmed' = confirmed
      /\ CanCompleteWithdrawals(accounts[v], t)
  BY DEF WithdrawalCompleted
<1>5. accounts \in [User -> AccountType]
  BY DEF TypeOK
<1> HIDE DEF v, t, multisig
<1>6. S # {} /\ S \cap WithdrawnIds(accounts[v]) = {}
  BY <1>4 DEF CanCompleteWithdrawals, Spent
<1>7. /\ S \subseteq accounts[v].active
      /\ accounts'[v].active = accounts[v].active \ S
      /\ accounts'[v].withdrawn =
           accounts[v].withdrawn \cup {[id |-> o, by |-> t] : o \in S}
      /\ WithdrawnIds(accounts'[v]) = WithdrawnIds(accounts[v]) \cup S
      /\ Recorded(accounts'[v]) = Recorded(accounts[v])
  BY <1>3, <1>4, <1>5, CompleteWithdrawalsRecords
<1>8. \A u \in User \ {v} : accounts'[u] = accounts[u]
  BY <1>4, <1>5
<1> QED BY <1>2, <1>3, <1>4, <1>6, <1>7, <1>8 DEF v, t

(* Every step keeps the invariant.                                         *)
LEMMA DepositInvStep ==
  ASSUME TypeOK, DepositInv, [Next]_vars
  PROVE  DepositInv'
<1> USE DEF DepositInv
<1>1. ASSUME NEW c \in CallId, NEW t \in TxId, NEW embed \in Vout,
             NEW attached \in Payment, SubmitDepositTx(c, t, embed, attached)
      PROVE  DepositInv'
  <2> DEFINE o == DepositId(t, embed)
  <2>1. /\ o \notin confirmed /\ confirmed' = confirmed \cup {o} /\ accounts' = accounts
        /\ \A u \in User : o \notin Recorded(accounts[u])
        /\ DepositCalls' = DepositCalls \cup {c}
        /\ InFlightId(c)' = o /\ SameOutput(c)'
        /\ \A d \in DepositCalls : /\ InFlightId(d) # o
                                  /\ InFlightId(d)' = InFlightId(d)
                                  /\ SameOutput(d)'
    BY <1>1, SubmitFacts
  <2> HIDE DEF o
  <2>2. InFlightReserved'
    BY <2>1 DEF InFlightReserved
  <2>3. RecordedOnce'
    BY <2>1 DEF RecordedOnce
  <2> QED BY <2>1, <2>2, <2>3
<1>2. ASSUME NEW c \in CallId, OnVerifyDepositTx(c) PROVE DepositInv'
  <2> DEFINE o == InFlightId(c)
  <2>1. /\ c \in DepositCalls /\ DepositCalls' = DepositCalls \ {c}
        /\ o \in confirmed /\ \A u \in User : o \notin Recorded(accounts[u])
        /\ \A d \in DepositCalls' : /\ InFlightId(d) # o
                                   /\ InFlightId(d)' = InFlightId(d)
                                   /\ SameOutput(d)'
    BY <1>2, VerifyFacts
  <2>2. CASE DepositRejected(c)
    <3>1. confirmed' = confirmed \ {o} /\ accounts' = accounts
      BY <2>2 DEF DepositRejected, InFlightId
    <3> HIDE DEF o
    <3>2. InFlightReserved'
      BY <2>1, <3>1 DEF InFlightReserved
    <3>3. RecordedOnce'
      BY <2>1, <3>1 DEF RecordedOnce
    <3> QED BY <2>1, <3>2, <3>3
  <2>3. CASE DepositSaved(c)
    <3>1. PICK v \in User : \A u \in User :
            /\ accounts'[u].active =
                 IF u = v THEN accounts[v].active \cup {o} ELSE accounts[u].active
            /\ Recorded(accounts'[u]) =
                 IF u = v THEN Recorded(accounts[v]) \cup {o} ELSE Recorded(accounts[u])
      BY <2>3, SavedFacts
    <3>2. /\ confirmed' = confirmed
          /\ \A u \in User : /\ accounts'[u].withdrawn = accounts[u].withdrawn
                            /\ WithdrawnIds(accounts'[u]) = WithdrawnIds(accounts[u])
      BY <2>3, SavedFacts
    <3> HIDE DEF o
    <3>3. InFlightReserved'
      BY <2>1, <3>1, <3>2 DEF InFlightReserved
    <3>4. \A u \in User : accounts'[u].active \cap WithdrawnIds(accounts'[u]) = {}
      BY <2>1, <3>1, <3>2 DEF RecordedOnce, Recorded
    <3>5. RecordedOnce'
      BY <2>1, <3>1, <3>2, <3>4 DEF RecordedOnce
    <3> QED BY <2>1, <3>3, <3>5
  <2>4. CASE DepositNotSaved(c)
    <3>1. confirmed' = confirmed /\ accounts' = accounts
      BY <2>4 DEF DepositNotSaved
    <3> HIDE DEF o
    <3>2. InFlightReserved'
      BY <2>1, <3>1 DEF InFlightReserved
    <3>3. RecordedOnce'
      BY <3>1 DEF RecordedOnce
    <3> QED BY <2>1, <3>2, <3>3
  <2> QED BY <1>2, <2>2, <2>3, <2>4 DEF OnVerifyDepositTx
<1>3. ASSUME NEW c \in CallId, WithdrawalCompleted(c) PROVE DepositInv'
  <2> DEFINE v == calls[c].user
             t == calls[c].tx
             S == Spent(accounts[v], t)
  <2>1. /\ confirmed' = confirmed
        /\ DepositCalls' = DepositCalls
        /\ \A d \in DepositCalls :
             InFlightId(d)' = InFlightId(d) /\ (SameOutput(d)' <=> SameOutput(d))
        /\ v \in User
        /\ S \subseteq accounts[v].active /\ S \cap WithdrawnIds(accounts[v]) = {}
        /\ accounts'[v].active = accounts[v].active \ S
        /\ accounts'[v].withdrawn =
             accounts[v].withdrawn \cup {[id |-> o, by |-> t] : o \in S}
        /\ WithdrawnIds(accounts'[v]) = WithdrawnIds(accounts[v]) \cup S
        /\ Recorded(accounts'[v]) = Recorded(accounts[v])
        /\ \A u \in User \ {v} : accounts'[u] = accounts[u]
    BY <1>3, CompletedFacts
  <2> HIDE DEF v, t, S
  <2>2. \A u \in User : Recorded(accounts'[u]) = Recorded(accounts[u])
    BY <2>1
  <2>3. InFlightReserved'
    BY <2>1, <2>2 DEF InFlightReserved
  <2>4. \A u \in User : accounts'[u].active \cap WithdrawnIds(accounts'[u]) = {}
    BY <2>1 DEF RecordedOnce
  <2>5. \A u \in User : \A w, x \in accounts'[u].withdrawn : w.id = x.id => w = x
    <3>1. \A w \in accounts[v].withdrawn : w.id \in WithdrawnIds(accounts[v])
      BY DEF WithdrawnIds
    <3>2. \A w, x \in accounts'[v].withdrawn : w.id = x.id => w = x
      BY <2>1, <3>1 DEF RecordedOnce
    <3> QED BY <2>1, <3>2 DEF RecordedOnce
  <2>6. RecordedOnce'
    BY <2>1, <2>2, <2>4, <2>5 DEF RecordedOnce
  <2> QED BY <2>1, <2>3, <2>6
<1> QED BY <1>1, <1>2, <1>3, RecordStep, SameRecordsKeeps

(* The invariant holds in every reachable state.                           *)
LEMMA DepositInvariant == Spec => []DepositInv
<1>1. Init => DepositInv
  BY DEF Init, DepositInv, InFlightReserved, RecordedOnce, DepositCalls, NoCall,
         NewAccount, Recorded, WithdrawnIds
<1>2. TypeOK /\ DepositInv /\ [Next]_vars => DepositInv'
  BY DepositInvStep
<1> QED BY <1>1, <1>2, TypeCorrect, PTL DEF Spec

(* An output being verified is reserved for one call and recorded nowhere, *)
(* for any number of calls in flight and whatever answers come back.       *)
THEOREM ReservedCorrect == Spec => []InFlightReserved
<1>1. DepositInv => InFlightReserved
  BY DEF DepositInv
<1> QED BY <1>1, DepositInvariant, PTL DEF Spec

(* A recorded output belongs to one account and is withdrawn at most once, *)
(* for any number of users and transactions.                               *)
THEOREM RecordedCorrect == Spec => []RecordedOnce
<1>1. DepositInv => RecordedOnce
  BY DEF DepositInv
<1> QED BY <1>1, DepositInvariant, PTL DEF Spec

-----------------------------------------------------------------------------
(* The books and the chain                                                 *)

(* The two halves of BooksMatchChain, for one output and one withdrawal.   *)
Backed(o, u) ==
  /\ o[1] \in mined
  /\ VerifyDepositOutputV1(Out(o[1], o[2]), u, Out(o[1], o[2]).height, rootKey)

SpentBy(w) == w.by \in mined /\ Spends(w.by, Outpoint(w.id))

(* An output id that an input names is an outpoint of the chain: nothing   *)
(* of it is cut off.                                                       *)
LEMMA InputOutpoint ==
  ASSUME NEW t \in TxId, NEW i \in DOMAIN Tx[t].ins, Tx[t].ins[i].prev \in OutputId
  PROVE  Outpoint(Tx[t].ins[i].prev) = Tx[t].ins[i].prev
<1> DEFINE o == Tx[t].ins[i].prev
<1>1. o[2] \in Nat /\ o[2] < UsizeMod
  BY DepositTxAssumption DEF OutputId
<1>2. o = <<o[1], o[2]>>
  BY DEF OutputId
<1> HIDE DEF o
<1>3. \A n \in Nat, m \in Nat \ {0} : n < m => n % m = n
  OBVIOUS
<1>4. o[2] % UsizeMod = o[2]
  BY <1>1, <1>3, DepositTxAssumption
<1>5. Outpoint(o) = o
  BY <1>2, <1>4 DEF Outpoint, Usize
<1> QED BY <1>5 DEF o

(* What is on the chain stays there, and so does the root key.             *)
LEMMA ChainKeeps ==
  ASSUME TypeOK, [Next]_vars
  PROVE  /\ \A o, u : Backed(o, u) => Backed(o, u)'
         /\ \A w : SpentBy(w) => SpentBy(w)'
BY SurroundingsStep DEF Backed, SpentBy, VerifyDepositOutputV1

(* A deposit is saved for the user whose script its mined output pays.     *)
LEMMA SavedIsBacked ==
  ASSUME TypeOK, DepositInv, NEW c \in CallId, DepositSaved(c)
  PROVE  LET v == DepositUser(calls[c].tx, calls[c].embed)
             o == InFlightId(c)
         IN  /\ v \in User /\ Backed(o, v)
             /\ \A u \in User :
                  /\ accounts'[u].withdrawn = accounts[u].withdrawn
                  /\ Recorded(accounts'[u]) = IF u = v THEN Recorded(accounts[v]) \cup {o}
                                              ELSE Recorded(accounts[u])
<1> DEFINE t == calls[c].tx
           v == DepositUser(t, calls[c].embed)
           o == InFlightId(c)
<1>1. c \in DepositCalls /\ CanSaveDeposit(t, calls[c].embed) /\ t \in mined
  BY DEF DepositSaved, Answer, DepositCalls
<1>2. DepositId(t, calls[c].embed) = o
  BY <1>1 DEF SameOutput, DepositInv
<1>3. /\ v \in User
      /\ VerifyDepositOutputV1(Out(t, DepositVout(t, calls[c].embed)), v,
                               Out(t, calls[c].embed).height, rootKey)
  BY <1>1 DEF CanSaveDeposit, VerifyDepositTxn
<1>4. o[1] = t /\ o[2] = DepositVout(t, calls[c].embed)
  BY <1>2 DEF DepositId
<1>5. Backed(o, v)
  <2> HIDE DEF o, v
  <2> QED BY <1>1, <1>3, <1>4 DEF Backed, VerifyDepositOutputV1
<1>6. accounts' = [accounts EXCEPT ![v] = CreateDeposit(accounts[v], o)]
  BY <1>2 DEF DepositSaved
<1>7. accounts \in [User -> AccountType]
  BY DEF TypeOK
<1> HIDE DEF v, o
<1>8. \A u \in User :
        /\ accounts'[u].withdrawn = accounts[u].withdrawn
        /\ Recorded(accounts'[u]) = IF u = v THEN Recorded(accounts[v]) \cup {o}
                                    ELSE Recorded(accounts[u])
  BY <1>3, <1>6, <1>7, CreateDepositRecords
<1> QED BY <1>3, <1>5, <1>8 DEF v, o

(* A withdrawal is completed with the mined transaction that spends it.    *)
LEMMA CompletedIsSpent ==
  ASSUME TypeOK, NEW c \in CallId, WithdrawalCompleted(c),
         NEW o \in Spent(accounts[calls[c].user], calls[c].tx)
  PROVE  SpentBy([id |-> o, by |-> calls[c].tx])
<1> DEFINE t == calls[c].tx
           a == accounts[calls[c].user]
<1>1. t \in mined /\ t \in TxId
  BY DEF WithdrawalCompleted, TypeOK
<1>2. a.active \subseteq OutputId
  <2>1. calls[c].user \in User
    BY CallKinds DEF WithdrawalCompleted, Answer, WithdrawCall
  <2> QED BY <2>1 DEF TypeOK, AccountType
<1>3. PICK i \in DOMAIN Tx[t].ins : o = Tx[t].ins[i].prev /\ o \in a.active
  BY DEF Spent, DepositInputs
<1>4. Outpoint(o) = o
  BY <1>1, <1>2, <1>3, InputOutpoint
<1>5. Spends(t, Outpoint(o))
  BY <1>3, <1>4 DEF Spends
<1> HIDE DEF t
<1>6. SpentBy([id |-> o, by |-> t])
  BY <1>1, <1>5 DEF SpentBy
<1> QED BY <1>6 DEF t

(* Every step keeps the books in agreement with the chain.                 *)
LEMMA BooksStep ==
  ASSUME TypeOK, DepositInv, BooksMatchChain, [Next]_vars
  PROVE  BooksMatchChain'
<1> DEFINE Books(a, u) == /\ \A o \in Recorded(a) : Backed(o, u)'
                          /\ \A w \in a.withdrawn : SpentBy(w)'
<1>1. \A u \in User : Books(accounts[u], u)
  BY ChainKeeps DEF BooksMatchChain, Backed, SpentBy
<1> SUFFICES ASSUME NEW u \in User PROVE Books(accounts'[u], u)
  BY DEF BooksMatchChain, Backed, SpentBy
<1>2. CASE accounts' = accounts
  BY <1>1, <1>2
<1>3. CASE SameRecords
  <2>1. /\ Recorded(accounts'[u]) = Recorded(accounts[u])
        /\ accounts'[u].withdrawn = accounts[u].withdrawn
    BY <1>3 DEF SameRecords, Recorded, WithdrawnIds
  <2> QED BY <1>1, <2>1
<1>4. ASSUME NEW c \in CallId, DepositSaved(c) PROVE Books(accounts'[u], u)
  <2> DEFINE v == DepositUser(calls[c].tx, calls[c].embed)
             o == InFlightId(c)
  <2>1. /\ Backed(o, v)
        /\ accounts'[u].withdrawn = accounts[u].withdrawn
        /\ Recorded(accounts'[u]) = IF u = v THEN Recorded(accounts[v]) \cup {o}
                                    ELSE Recorded(accounts[u])
    BY <1>4, SavedIsBacked
  <2> HIDE DEF o, v
  <2> QED BY <1>1, <2>1, ChainKeeps
<1>5. ASSUME NEW c \in CallId, WithdrawalCompleted(c) PROVE Books(accounts'[u], u)
  <2> DEFINE v == calls[c].user
             t == calls[c].tx
             S == Spent(accounts[v], t)
  <2>1. /\ accounts'[v].withdrawn =
             accounts[v].withdrawn \cup {[id |-> o, by |-> t] : o \in S}
        /\ Recorded(accounts'[v]) = Recorded(accounts[v])
        /\ \A x \in User \ {v} : accounts'[x] = accounts[x]
    BY <1>5, CompletedFacts
  <2>2. \A o \in S : SpentBy([id |-> o, by |-> t])
    BY <1>5, CompletedIsSpent
  <2> HIDE DEF v, t, S
  <2>3. CASE u # v
    BY <1>1, <2>1, <2>3
  <2>4. CASE u = v
    <3>1. \A w \in accounts'[v].withdrawn : SpentBy(w)'
      BY <1>1, <2>1, <2>2, <2>4, ChainKeeps
    <3> QED BY <1>1, <2>1, <2>4, <3>1
  <2> QED BY <2>3, <2>4
<1>6. ASSUME NEW c \in CallId,
             \/ DepositRejected(c) \/ DepositNotSaved(c)
             \/ \E t, embed, attached : SubmitDepositTx(c, t, embed, attached)
      PROVE  accounts' = accounts
  BY <1>6 DEF DepositRejected, DepositNotSaved, SubmitDepositTx
<1> HIDE DEF Books
<1> QED BY <1>2, <1>3, <1>4, <1>5, <1>6, RecordStep DEF OnVerifyDepositTx

(* Whatever is recorded was mined and pays its user's script, and whatever *)
(* is withdrawn was spent by the transaction named for it, for any number  *)
(* of users, transactions and calls in flight.                             *)
THEOREM ChainCorrect == Spec => []BooksMatchChain
<1>1. Init => BooksMatchChain
  BY DEF Init, BooksMatchChain, NewAccount, Recorded, WithdrawnIds
<1>2. TypeOK /\ DepositInv /\ BooksMatchChain /\ [Next]_vars => BooksMatchChain'
  BY BooksStep
<1> QED BY <1>1, <1>2, TypeCorrect, DepositInvariant, PTL DEF Spec

-----------------------------------------------------------------------------
(* Reservations that are left over *)

(* A reservation outlives its call only when the light client has          *)
(* confirmed its transaction.                                              *)
LEMMA BlockedStep ==
  ASSUME TypeOK, DepositInv, BlockedOnlyIfMined, [Next]_vars
  PROVE  BlockedOnlyIfMined'
<1>1. mined \subseteq mined'
  BY SurroundingsStep
<1>2. CASE SameRecords
  <2>1. \A c \in DepositCalls : c \in DepositCalls' /\ InFlightId(c)' = InFlightId(c)
    BY <1>2 DEF SameRecords, DepositCalls, InFlightId
  <2> QED BY <1>1, <1>2, <2>1 DEF SameRecords, BlockedOnlyIfMined, InFlightIds
<1>3. ASSUME NEW c \in CallId, NEW t \in TxId, NEW embed \in Vout,
             NEW attached \in Payment, SubmitDepositTx(c, t, embed, attached)
      PROVE  BlockedOnlyIfMined'
  <2> DEFINE o == DepositId(t, embed)
  <2>1. /\ confirmed' = confirmed \cup {o}
        /\ DepositCalls' = DepositCalls \cup {c} /\ InFlightId(c)' = o
        /\ \A d \in DepositCalls : InFlightId(d)' = InFlightId(d)
    BY <1>3, SubmitFacts
  <2> HIDE DEF o
  <2> QED BY <1>1, <2>1 DEF BlockedOnlyIfMined, InFlightIds
<1>4. ASSUME NEW c \in CallId, OnVerifyDepositTx(c) PROVE BlockedOnlyIfMined'
  <2> DEFINE o == InFlightId(c)
  <2>1. /\ DepositCalls' = DepositCalls \ {c}
        /\ \A d \in DepositCalls' : InFlightId(d)' = InFlightId(d)
    BY <1>4, VerifyFacts
  <2>2. confirmed' \subseteq confirmed /\ (o \notin confirmed' \/ o[1] \in mined)
    <3>1. o = <<calls[c].tx, calls[c].vout>>
      BY DEF InFlightId
    <3>2. CASE DepositRejected(c)
      BY <3>1, <3>2 DEF DepositRejected
    <3>3. CASE DepositSaved(c) \/ DepositNotSaved(c)
      BY <3>1, <3>3 DEF DepositSaved, DepositNotSaved
    <3> QED BY <1>4, <3>2, <3>3 DEF OnVerifyDepositTx
  <2> HIDE DEF o
  <2>3. \A d \in DepositCalls : d # c => d \in DepositCalls' /\ InFlightId(d)' = InFlightId(d)
    BY <2>1
  <2>4. ASSUME NEW p \in confirmed', p # o, p \in InFlightIds
        PROVE  p \in InFlightIds'
    BY <2>3, <2>4 DEF InFlightIds, o
  <2> QED BY <1>1, <2>2, <2>4 DEF BlockedOnlyIfMined
<1>5. ASSUME NEW c \in CallId, WithdrawalCompleted(c) PROVE BlockedOnlyIfMined'
  <2>1. /\ confirmed' = confirmed /\ DepositCalls' = DepositCalls
        /\ \A d \in DepositCalls : InFlightId(d)' = InFlightId(d)
    BY <1>5, CompletedFacts
  <2> QED BY <1>1, <2>1 DEF BlockedOnlyIfMined, InFlightIds
<1> QED BY <1>2, <1>3, <1>4, <1>5, RecordStep

(* No early submission and no wrong proof keeps an output from being       *)
(* submitted again, for any number of calls in flight and any answers.     *)
THEOREM BlockedCorrect == Spec => []BlockedOnlyIfMined
<1>1. Init => BlockedOnlyIfMined
  BY DEF Init, BlockedOnlyIfMined
<1>2. TypeOK /\ DepositInv /\ BlockedOnlyIfMined /\ [Next]_vars => BlockedOnlyIfMined'
  BY BlockedStep
<1> QED BY <1>1, <1>2, TypeCorrect, DepositInvariant, PTL DEF Spec

-----------------------------------------------------------------------------
(* The views *)

(* The parameters of an offer are numbers and a root key.                  *)
LEMMA OfferType ==
  ASSUME NEW offer \in Offers
  PROVE  /\ offer.bithivePubkey \in Key
         /\ offer.minDeposit \in Nat /\ offer.earliest \in Nat
BY AdminAssumption DEF Offers, Config

(* What has no trace in confirmed, or is being verified, is in no account. *)
LEMMA FreeCanBeSaved ==
  ASSUME DepositInv, NEW t \in TxId, NEW embed \in Vout,
         VerifyDepositTxn(config, rootKey, t, embed),
         DepositId(t, embed) \in confirmed => DepositId(t, embed) \in InFlightIds,
         Room(t, embed)
  PROVE  CanSaveDeposit(t, embed)
<1> DEFINE u == DepositUser(t, embed)
           o == DepositId(t, embed)
<1>1. u \in User
  BY DEF VerifyDepositTxn
<1>2. o \notin Recorded(accounts[u])
  BY <1>1 DEF DepositInv, RecordedOnce, InFlightReserved, InFlightIds
<1> QED BY <1>2 DEF CanSaveDeposit, CanCreateDeposit, Recorded, Room

(* A deposit built from an offer passes the checks of the callback if no   *)
(* parameter is stricter and the root key is the one of the offer.         *)
LEMMA BuiltIsVerified ==
  ASSUME TypeOK, NEW offer \in Offers, rootKey = offer.bithivePubkey, NoStricter(offer),
         NEW t \in TxId, NEW embed \in Vout, BuiltFrom(offer, t, embed)
  PROVE  VerifyDepositTxn(config, rootKey, t, embed)
<1> DEFINE out == Out(t, DepositVout(t, embed))
<1>1. config.earliest \in Nat /\ config.minDeposit \in Nat
  BY DEF TypeOK, AdminTypeOK, Config
<1>2. rootKey # None
  BY OfferType, TypesAssumption
<1>3. config.earliest > 0 => VerifyTimelock(config.earliest, t)
  BY <1>1, OfferType, DepositTxAssumption DEF BuiltFrom, NoStricter, VerifyTimelock
<1>4. HasOut(t, DepositVout(t, embed)) /\ out.value >= offer.minDeposit
  BY DEF BuiltFrom
<1>5. out.value \in Nat
  BY <1>4, DepositTxAssumption DEF HasOut, Out
<1>6. out.value >= config.minDeposit
  BY <1>1, <1>4, <1>5, OfferType DEF NoStricter
<1> QED BY <1>2, <1>3, <1>4, <1>6
        DEF BuiltFrom, NoStricter, VerifyDepositTxn, VerifyDepositOutputV1

(* The offers are all that the view can tell, whatever the owners set.     *)
LEMMA OffersComplete == Spec => [](rootKey # None => DepositConstants \in Offers)
<1> DEFINE Offered ==
      /\ config.minDeposit \in Settable.minDeposit \cup {InitConfig.minDeposit}
      /\ config.earliest \in Settable.earliest \cup {InitConfig.earliest}
      /\ config.seqHeights \in Settable.seqHeights \cup {InitConfig.seqHeights}
<1>1. Init => Offered
  BY DEF Init, AdminInit
<1>2. TypeOK /\ Offered /\ [Next]_vars => Offered'
  <2> SUFFICES ASSUME TypeOK, Offered, [AdminNext]_adminVars PROVE Offered'
    BY AdminPart
  <2>1. config \in Config
    BY DEF TypeOK, AdminTypeOK
  <2>2. ASSUME NEW caller \in AccountId, OwnerStep(caller) PROVE Offered'
    BY <2>1, <2>2
    DEF OwnerStep, ProposeChangeOwner, AcceptChangeOwner, SetLightClient, SetVerifier,
        SetChainSignatures, SetNConfirmation, SetWithdrawalWaitingTime, SetMinDeposit,
        SetEarliestHeight, SetSequenceHeights, SetPaused, Config
  <2>3. ASSUME NEW s \in SyncId, SyncRootPubkey(s) \/ OnSyncRootPubkey(s) PROVE Offered'
    BY <2>3 DEF SyncRootPubkey, OnSyncRootPubkey, RootPubkeySet, RootPubkeyDropped
  <2> QED BY <2>2, <2>3 DEF AdminNext
<1>3. TypeOK /\ Offered => (rootKey # None => DepositConstants \in Offers)
  BY DEF TypeOK, AdminTypeOK, DepositConstants, Offers
<1> QED BY <1>1, <1>2, <1>3, TypeCorrect, PTL DEF Spec

(* What the view told a client at any time is honoured at every later one, *)
(* unless the owner has made a parameter stricter or a u64 overflows: for  *)
(* any parameters, any number of fetches of the root key and any changes   *)
(* of the chain-signatures contract.                                       *)
THEOREM ConstantsCorrect == Spec => ConstantsHonoured
<1>1. ASSUME NEW offer \in Offers
      PROVE  Spec => [](rootKey # None /\ DepositConstants = offer => []Honoured(offer))
  <2> DEFINE Told == rootKey # None /\ DepositConstants = offer
             Kept == rootKey # None /\ rootKey = offer.bithivePubkey
  <2>1. Told => Kept
    BY DEF DepositConstants
  <2>2. TypeOK /\ Kept /\ [Next]_vars => Kept'
    BY SurroundingsStep
  <2>3. TypeOK /\ DepositInv /\ Kept => Honoured(offer)
    BY BuiltIsVerified, FreeCanBeSaved DEF Honoured
  <2> QED BY <2>1, <2>2, <2>3, TypeCorrect, DepositInvariant, PTL DEF Spec
<1> QED BY <1>1 DEF ConstantsHonoured

-----------------------------------------------------------------------------
(* The ledger: every step of BitHive is a step of OutputLedger under the   *)
(* mapping of BitHiveProperties, or leaves the ledger alone.               *)

WithdrawnSomewhere(o) == \E u \in User : o \in WithdrawnIds(accounts[u])
ActiveSomewhere(o) == \E u \in User : o \in accounts[u].active
RecordedBy(o, u) == o \in Recorded(accounts[u])

(* Who holds an output is determined, before and after a step.             *)
LEMMA HolderBefore ==
  ASSUME RecordedOnce, NEW o
  PROVE  /\ \A u \in User : RecordedBy(o, u) => OutputHolder(o) = u
         /\ (\A u \in User : ~RecordedBy(o, u)) => OutputHolder(o) = None
<1>1. ASSUME NEW u \in User, RecordedBy(o, u) PROVE OutputHolder(o) = u
  <2>1. \A v \in User : o \in Recorded(accounts[v]) => v = u
    BY <1>1 DEF RecordedOnce, RecordedBy
  <2> QED BY <1>1, <2>1 DEF OutputHolder, RecordedBy
<1> QED BY <1>1 DEF OutputHolder, RecordedBy

(* The same in the next state.                                             *)
LEMMA HolderAfter ==
  ASSUME RecordedOnce', NEW o
  PROVE  /\ \A u \in User : RecordedBy(o, u)' => OutputHolder(o)' = u
         /\ (\A u \in User : ~RecordedBy(o, u)') => OutputHolder(o)' = None
<1>1. ASSUME NEW u \in User, RecordedBy(o, u)' PROVE OutputHolder(o)' = u
  <2>1. \A v \in User : o \in Recorded(accounts'[v]) => v = u
    BY <1>1 DEF RecordedOnce, RecordedBy
  <2> QED BY <1>1, <2>1 DEF OutputHolder, RecordedBy
<1> QED BY <1>1 DEF OutputHolder, RecordedBy

(* A step that leaves the records of an output alone leaves its holder.    *)
LEMMA HolderKept ==
  ASSUME RecordedOnce, RecordedOnce', NEW o,
         \A u \in User : RecordedBy(o, u)' <=> RecordedBy(o, u)
  PROVE  OutputHolder(o)' = OutputHolder(o)
<1>1. CASE \E u \in User : RecordedBy(o, u)
  BY <1>1, HolderBefore, HolderAfter
<1>2. CASE \A u \in User : ~RecordedBy(o, u)
  BY <1>2, HolderBefore, HolderAfter
<1> QED BY <1>1, <1>2

(* The same for its place in the ledger.                                   *)
LEMMA StatusKept ==
  ASSUME NEW o,
         WithdrawnSomewhere(o)' <=> WithdrawnSomewhere(o),
         ActiveSomewhere(o)' <=> ActiveSomewhere(o),
         (o \in InFlightIds)' <=> o \in InFlightIds,
         (o \in confirmed)' <=> o \in confirmed
  PROVE  OutputStatus(o)' = OutputStatus(o)
BY DEF OutputStatus, WithdrawnSomewhere, ActiveSomewhere

(* Steps of the ledger, from what happens to each output.                  *)
Status == [o \in OutputId |-> OutputStatus(o)]
Holder == [o \in OutputId |-> OutputHolder(o)]

(* A change of one output is one of the mapped status.                     *)
LEMMA MappedChange ==
  ASSUME NEW o \in OutputId, NEW new,
         OutputStatus(o)' = new,
         \A p \in OutputId \ {o} : OutputStatus(p)' = OutputStatus(p)
  PROVE  Status' = [Status EXCEPT ![o] = new]
BY DEF Status

(* Every step is one of the ledger or leaves it alone.                     *)
LEMMA LedgerStep ==
  ASSUME TypeOK, DepositInv, DepositInv', [Next]_vars
  PROVE  [Ledger!LedgerNext]_(Ledger!ledgerVars)
<1> DEFINE Goal == [Ledger!LedgerNext]_(Ledger!ledgerVars)
<1> SUFFICES Goal
  OBVIOUS
<1>0. RecordedOnce /\ RecordedOnce' /\ InFlightReserved
  BY DEF DepositInv
<1>1. accounts \in [User -> AccountType]
  BY DEF TypeOK
<1>2. CASE SameRecords
  <2>1. ASSUME NEW o \in OutputId
        PROVE  OutputStatus(o)' = OutputStatus(o) /\ OutputHolder(o)' = OutputHolder(o)
    <3>1. \A u \in User : /\ accounts'[u].active = accounts[u].active
                          /\ WithdrawnIds(accounts'[u]) = WithdrawnIds(accounts[u])
                          /\ Recorded(accounts'[u]) = Recorded(accounts[u])
      BY <1>2 DEF SameRecords, WithdrawnIds, Recorded
    <3>2. DepositCalls' = DepositCalls /\ \A c \in DepositCalls : calls'[c] = calls[c]
      BY <1>2 DEF SameRecords, DepositCalls
    <3>3. InFlightIds' = InFlightIds
      BY <3>2 DEF InFlightIds, InFlightId
    <3>4. OutputStatus(o)' = OutputStatus(o)
      BY <1>2, <3>1, <3>3, StatusKept DEF SameRecords, WithdrawnSomewhere, ActiveSomewhere
    <3> QED BY <1>0, <3>1, <3>4, HolderKept DEF RecordedBy
  <2>2. Status' = Status /\ Holder' = Holder
    BY <2>1 DEF Status, Holder
  <2> QED BY <2>2 DEF Ledger!ledgerVars, Status, Holder
<1>3. ASSUME NEW c \in CallId, NEW t \in TxId, NEW embed \in Vout, NEW attached,
             SubmitDepositTx(c, t, embed, attached)
      PROVE  Goal
  <2> DEFINE o == DepositId(t, embed)
  <2>1. /\ o \in OutputId /\ o \notin confirmed
        /\ confirmed' = confirmed \cup {o} /\ accounts' = accounts
        /\ \A u \in User : o \notin Recorded(accounts[u])
        /\ DepositCalls' = DepositCalls \cup {c}
        /\ InFlightId(c)' = o
        /\ \A d \in DepositCalls : InFlightId(d) # o /\ InFlightId(d)' = InFlightId(d)
    BY <1>3, SubmitFacts
  <2> HIDE DEF o
  <2>2. InFlightIds' = InFlightIds \cup {o} /\ o \notin InFlightIds
    BY <2>1 DEF InFlightIds
  <2>3. OutputStatus(o) = "free" /\ OutputStatus(o)' = "reserved"
    BY <2>1, <2>2 DEF OutputStatus, Recorded
  <2>4. \A p \in OutputId \ {o} : OutputStatus(p)' = OutputStatus(p)
    BY <2>1, <2>2, StatusKept DEF WithdrawnSomewhere, ActiveSomewhere
  <2>5. Status' = [Status EXCEPT ![o] = "reserved"] /\ Status[o] = "free"
    BY <2>1, <2>3, <2>4, MappedChange DEF Status
  <2>6. Holder' = Holder
    BY <1>0, <2>1, HolderKept DEF Holder, RecordedBy
  <2>7. Ledger!Reserve(o)
    BY <2>5, <2>6 DEF Ledger!Reserve, Status, Holder
  <2> QED BY <2>1, <2>7 DEF Ledger!LedgerNext
<1>4. ASSUME NEW c \in CallId, OnVerifyDepositTx(c) PROVE Goal
  <2>1. PICK o \in OutputId :
          /\ o = InFlightId(c)
          /\ c \in DepositCalls /\ DepositCalls' = DepositCalls \ {c}
          /\ o \in confirmed
          /\ \A u \in User : o \notin Recorded(accounts[u])
          /\ \A d \in DepositCalls' : InFlightId(d) # o /\ InFlightId(d)' = InFlightId(d)
    BY <1>4, VerifyFacts
  <2>2. InFlightIds' = InFlightIds \ {o} /\ o \in InFlightIds
    BY <2>1 DEF InFlightIds
  <2>3. OutputStatus(o) = "reserved" /\ Status[o] = "reserved"
    BY <2>1, <2>2 DEF OutputStatus, Recorded, Status
  <2>4. CASE DepositRejected(c)
    <3>1. confirmed' = confirmed \ {o} /\ accounts' = accounts
      BY <2>1, <2>4 DEF DepositRejected, InFlightId
    <3>2. OutputStatus(o)' = "free"
      BY <2>1, <2>2, <3>1 DEF OutputStatus, Recorded
    <3>3. \A p \in OutputId \ {o} : OutputStatus(p)' = OutputStatus(p)
      BY <2>2, <3>1, StatusKept DEF WithdrawnSomewhere, ActiveSomewhere
    <3>4. Status' = [Status EXCEPT ![o] = "free"]
      BY <2>1, <3>2, <3>3, MappedChange
    <3>5. Holder' = Holder
      BY <1>0, <3>1, HolderKept DEF Holder, RecordedBy
    <3>6. Ledger!Release(o)
      BY <2>3, <3>4, <3>5 DEF Ledger!Release, Status, Holder
    <3> QED BY <2>1, <3>6 DEF Ledger!LedgerNext
  <2>5. CASE DepositSaved(c)
    <3>1. PICK v \in User : \A u \in User :
            /\ accounts'[u].active =
                 IF u = v THEN accounts[v].active \cup {o} ELSE accounts[u].active
            /\ Recorded(accounts'[u]) =
                 IF u = v THEN Recorded(accounts[v]) \cup {o} ELSE Recorded(accounts[u])
      BY <2>1, <2>5, SavedFacts
    <3>2. /\ confirmed' = confirmed
          /\ \A u \in User : WithdrawnIds(accounts'[u]) = WithdrawnIds(accounts[u])
      BY <2>1, <2>5, SavedFacts
    <3>3. OutputStatus(o)' = "active"
      BY <2>1, <3>1, <3>2 DEF OutputStatus, Recorded
    <3>4. \A p \in OutputId \ {o} : OutputStatus(p)' = OutputStatus(p)
      BY <2>2, <3>1, <3>2, StatusKept DEF WithdrawnSomewhere, ActiveSomewhere
    <3>5. Status' = [Status EXCEPT ![o] = "active"]
      BY <2>1, <3>3, <3>4, MappedChange
    <3>6. OutputHolder(o)' = v
      BY <1>0, <3>1, HolderAfter DEF RecordedBy
    <3>7. \A p \in OutputId \ {o} : OutputHolder(p)' = OutputHolder(p)
      BY <1>0, <3>1, HolderKept DEF RecordedBy
    <3>8. Holder' = [Holder EXCEPT ![o] = v]
      BY <2>1, <3>6, <3>7 DEF Holder
    <3>9. Ledger!Credit(o, v)
      BY <2>3, <3>5, <3>8 DEF Ledger!Credit, Status, Holder
    <3> QED BY <2>1, <3>9 DEF Ledger!LedgerNext
  <2>6. CASE DepositNotSaved(c)
    <3>1. confirmed' = confirmed /\ accounts' = accounts
      BY <2>6 DEF DepositNotSaved
    <3>2. OutputStatus(o)' = "failed"
      BY <2>1, <2>2, <3>1 DEF OutputStatus, Recorded
    <3>3. \A p \in OutputId \ {o} : OutputStatus(p)' = OutputStatus(p)
      BY <2>2, <3>1, StatusKept DEF WithdrawnSomewhere, ActiveSomewhere
    <3>4. Status' = [Status EXCEPT ![o] = "failed"]
      BY <2>1, <3>2, <3>3, MappedChange
    <3>5. Holder' = Holder
      BY <1>0, <3>1, HolderKept DEF Holder, RecordedBy
    <3>6. Ledger!Fail(o)
      BY <2>3, <3>4, <3>5 DEF Ledger!Fail, Status, Holder
    <3> QED BY <2>1, <3>6 DEF Ledger!LedgerNext
  <2> HIDE DEF Goal
  <2> QED BY <1>4, <2>4, <2>5, <2>6 DEF OnVerifyDepositTx
<1>5. ASSUME NEW c \in CallId, WithdrawalCompleted(c) PROVE Goal
  <2> DEFINE v == calls[c].user
             S == Spent(accounts[v], calls[c].tx)
  <2>1. /\ confirmed' = confirmed
        /\ DepositCalls' = DepositCalls
        /\ \A d \in DepositCalls : InFlightId(d)' = InFlightId(d)
        /\ v \in User
        /\ S # {} /\ S \subseteq accounts[v].active
        /\ accounts'[v].active = accounts[v].active \ S
        /\ WithdrawnIds(accounts'[v]) = WithdrawnIds(accounts[v]) \cup S
        /\ Recorded(accounts'[v]) = Recorded(accounts[v])
        /\ \A u \in User \ {v} : accounts'[u] = accounts[u]
    BY <1>5, CompletedFacts
  <2>2. accounts[v].active \subseteq OutputId
    BY <1>1, <2>1 DEF AccountType
  <2> HIDE DEF v, S
  <2>3. InFlightIds' = InFlightIds
    BY <2>1 DEF InFlightIds
  <2>4. \A u \in User : Recorded(accounts'[u]) = Recorded(accounts[u])
    BY <2>1
  <2>5. \A o \in S : OutputStatus(o) = "active" /\ OutputHolder(o) = v
    <3> SUFFICES ASSUME NEW o \in S PROVE OutputStatus(o) = "active" /\ OutputHolder(o) = v
      OBVIOUS
    <3>1. o \in accounts[v].active /\ RecordedBy(o, v)
      BY <2>1 DEF RecordedBy, Recorded
    <3>2. \A u \in User : o \notin WithdrawnIds(accounts[u])
      BY <1>0, <2>1, <3>1 DEF RecordedOnce, RecordedBy, Recorded
    <3> QED BY <1>0, <2>1, <3>1, <3>2, HolderBefore DEF OutputStatus
  <2>6. \A o \in S : OutputStatus(o)' = "withdrawn"
    BY <2>1 DEF OutputStatus
  <2>7. \A o \in OutputId \ S : OutputStatus(o)' = OutputStatus(o)
    BY <2>1, <2>3, StatusKept DEF WithdrawnSomewhere, ActiveSomewhere
  <2>8. Status' = [o \in OutputId |-> IF o \in S THEN "withdrawn" ELSE Status[o]]
    BY <2>6, <2>7 DEF Status
  <2>9. Holder' = Holder
    BY <1>0, <2>4, HolderKept DEF Holder, RecordedBy
  <2>10. S \subseteq {o \in OutputId : Status[o] = "active" /\ Holder[o] = v}
    BY <2>1, <2>2, <2>5 DEF Status, Holder
  <2>11. S \subseteq Ledger!ActiveOf(v)
    BY <2>10 DEF Ledger!ActiveOf, Status, Holder
  <2>12. Ledger!Withdraw(v, S)
    BY <2>1, <2>8, <2>9, <2>11 DEF Ledger!Withdraw, Status, Holder
  <2> QED BY <2>1, <2>11, <2>12 DEF Ledger!LedgerNext
<1> HIDE DEF Goal
<1> QED BY <1>2, <1>3, <1>4, <1>5, RecordStep

(* The contract implements the ledger of outputs for every number of       *)
(* users, transactions and calls in flight: each output is credited at     *)
(* most once, to one user, and withdrawn at most once, for good.           *)
THEOREM LedgerCorrect == Spec => ImplementsLedger
<1>1. Init => Ledger!LedgerInit
  <2> SUFFICES ASSUME Init PROVE Ledger!LedgerInit
    OBVIOUS
  <2>1. /\ confirmed = {} /\ InFlightIds = {}
        /\ \A u \in User : Recorded(accounts[u]) = {} /\ accounts[u].active = {}
                          /\ WithdrawnIds(accounts[u]) = {}
    BY DEF Init, InFlightIds, DepositCalls, NoCall, NewAccount, Recorded, WithdrawnIds
  <2>2. \A o \in OutputId : OutputStatus(o) = "free" /\ OutputHolder(o) = None
    BY <2>1 DEF OutputStatus, OutputHolder
  <2> QED BY <2>2 DEF Ledger!LedgerInit
<1>2. TypeOK /\ DepositInv /\ DepositInv' /\ [Next]_vars =>
        [Ledger!LedgerNext]_(Ledger!ledgerVars)
  BY LedgerStep
<1> QED BY <1>1, <1>2, TypeCorrect, DepositInvariant, PTL
        DEF Spec, ImplementsLedger, Ledger!LedgerSpec

=============================================================================

---------------------------- MODULE HistoryProofs ----------------------------
(***************************************************************************)
(* Proofs about what the contract had signed, against what was queued: the *)
(* properties of BitHiveHistory, which relate a request for a signature to *)
(* states the contract has forgotten.                                      *)
(***************************************************************************)
EXTENDS BitHiveHistory, DepositProofs

USE DEF contractVars, chainVars, adminVars, ownership, rootVars, historyVars

hvars == <<vars, historyVars>>

(* A step with a memory is a step.                                         *)
LEMMA HistoryStep ==
  ASSUME [HistoryNext]_hvars
  PROVE  /\ [Next]_vars
         /\ queued \subseteq queued' /\ requests \subseteq requests'
         /\ queued' \subseteq queued \cup QueuedInStep
         /\ requests' \subseteq requests \cup RequestedInStep
<1>1. CASE HistoryNext
  BY <1>1 DEF HistoryNext
<1>2. CASE UNCHANGED hvars
  BY <1>2 DEF hvars
<1> QED BY <1>1, <1>2

(* The history restricts no step of the contract.                          *)
LEMMA HistoryBehaviour == HistorySpec => Spec
<1>1. HistoryInit => Init
  BY DEF HistoryInit
<1>2. [HistoryNext]_hvars => [Next]_vars
  BY HistoryStep
<1> QED BY <1>1, <1>2, PTL DEF HistorySpec, Spec, hvars

-----------------------------------------------------------------------------
(* One step of one account                                                 *)

(* What the memory is about, left alone except for the waiting time        *)
Kept(a, b) ==
  /\ b.nonce = a.nonce /\ b.pending = a.pending
  /\ b.startTs \in {0, a.startTs}

(* the amount is queued, and a PSBT forgotten *)
Queued(a, b) ==
  /\ b.nonce = a.nonce + 1 /\ b.pending = None
  /\ b.startTs = now

(* a PSBT is saved for the amount that is queued *)
SavedFor(u, a, b, t, embed) ==
  /\ a.pending = None /\ b.nonce = a.nonce /\ b.startTs = 0
  /\ VerifyPendingSignRequestAmount(a, u, t, embed, config, rootKey, now)
  /\ b.pending =
       [tx |-> t, reinvest |-> IF embed = None THEN None ELSE DepositVout(t, embed)]

(* What saving a PSBT changes.                                             *)
LEMMA SavePendingFields ==
  ASSUME NEW a \in AccountType, NEW t, NEW embed, NEW storage
  PROVE  LET b == SavePending(a, t, embed, storage)
         IN  /\ b.nonce = a.nonce /\ b.startTs = 0
             /\ b.pending =
                  [tx |-> t,
                   reinvest |-> IF embed = None THEN None ELSE DepositVout(t, embed)]
             /\ b.active = a.active /\ b.withdrawn = a.withdrawn
BY DEF SavePending, AccountType

(* A step leaves the nonce and the pending PSBT of an account alone, or    *)
(* queues, which raises the nonce and drops the PSBT, or saves a PSBT      *)
(* where there is none.                                                    *)
LEMMA AccountMemory ==
  ASSUME TypeOK, [Next]_vars, NEW u \in User
  PROVE  LET a == accounts[u]
             b == accounts'[u]
         IN  /\ Recorded(a) \subseteq Recorded(b)
             /\ \/ Kept(a, b)
                \/ Queued(a, b)
                \/ \E t \in TxId, embed \in Vout \cup {None} : SavedFor(u, a, b, t, embed)
<1> DEFINE a == accounts[u]
           b == accounts'[u]
           Same == b.active = a.active /\ b.withdrawn = a.withdrawn
<1>1. a \in AccountType
  BY DEF TypeOK
<1>2. CASE b = a
  BY <1>2 DEF Kept
<1>3. Same => Recorded(a) \subseteq Recorded(b)
  BY DEF Recorded, WithdrawnIds
<1> HIDE DEF a, b
<1>4. CASE DepositStep(u)
  <2>1. PICK o : b = CreateDeposit(a, o)
    BY <1>4 DEF DepositStep, a, b
  <2>2. Recorded(a) \subseteq Recorded(b)
    BY <1>1, <2>1, CreateDepositRecords
  <2>3. Kept(a, b)
    BY <1>1, <2>1 DEF CreateDeposit, AccountType, Kept
  <2> QED BY <2>2, <2>3 DEF a, b
<1>5. CASE QueueStep(u)
  <2>1. PICK amount \in U64 : b = QueueWithdrawal(a, amount, now)
    BY <1>5 DEF QueueStep, a, b
  <2>2. Same /\ Queued(a, b)
    BY <1>1, <2>1 DEF QueueWithdrawal, AccountType, Queued
  <2> QED BY <1>3, <2>2 DEF a, b
<1>6. CASE SignStep(u)
  <2>1. PICK t \in TxId, embed \in Vout \cup {None}, storage \in Nat :
          /\ a.pending = None
          /\ VerifyPendingSignRequestAmount(a, u, t, embed, config, rootKey, now)
          /\ b = SavePending(a, t, embed, storage)
    BY <1>6 DEF SignStep, a, b
  <2>2. Same /\ SavedFor(u, a, b, t, embed)
    BY <1>1, <2>1, SavePendingFields DEF SavedFor
  <2> QED BY <1>3, <2>2 DEF a, b
<1>7. CASE WithdrawStep(u)
  <2>1. PICK t, multisig : b = CompleteWithdrawals(a, t, multisig)
    BY <1>7 DEF WithdrawStep, a, b
  <2>2. Recorded(a) \subseteq Recorded(b)
    BY <1>1, <2>1, CompleteWithdrawalsRecords
  <2>3. Kept(a, b)
    BY <1>1, <2>1 DEF CompleteWithdrawals, AccountType, Kept
  <2> QED BY <2>2, <2>3 DEF a, b
<1> QED BY <1>2, <1>4, <1>5, <1>6, <1>7, AccountStep DEF a, b

-----------------------------------------------------------------------------
(* A request for a signature                                               *)

(* What sign_withdrawal had checked of request r when it sent it, in the   *)
(* state before: either the PSBT is saved with it, or one was pending.     *)
Sent(r) ==
  LET a == accounts[r.user]
      b == accounts'[r.user]
  IN  /\ r.user \in User /\ r.tx \in TxId /\ r.vin \in DOMAIN Tx[r.tx].ins
      /\ r.nonce = a.nonce /\ r.at = now
      /\ Tx[r.tx].ins[r.vin].prev \in a.active
      /\ \/ \E embed \in Vout \cup {None} : SavedFor(r.user, a, b, r.tx, embed)
         \/ a.pending # None /\ ReplacesPending(a.pending, r.tx) /\ b = a

(* A request of this step was sent by sign_withdrawal, with its checks.    *)
LEMMA RequestSent ==
  ASSUME TypeOK, [Next]_vars, NEW r \in RequestedInStep
  PROVE  Sent(r)
<1>1. PICK c \in CallId :
        /\ calls[c] = NoCall /\ calls'[c].kind = "sign"
        /\ r = [user |-> calls'[c].user, nonce |-> accounts[calls'[c].user].nonce,
                tx |-> calls'[c].tx, vin |-> calls'[c].vin, at |-> now]
  BY DEF RequestedInStep
<1>2. SignRequested(c)
  <2>1. ASSUME NEW t, NEW embed, NEW attached, SubmitDepositTx(c, t, embed, attached)
        PROVE  calls'[c].kind = "deposit"
    BY <2>1, SendOrAnswer DEF SubmitDepositTx
  <2>2. ASSUME NEW u, NEW amount, QueueWithdrawalBip322(c, u, amount)
        PROVE  calls'[c].kind = "bip322"
    BY <2>2, SendOrAnswer DEF QueueWithdrawalBip322
  <2>3. NoCall.kind # "sign"
    BY DEF NoCall
  <2> QED BY <1>1, <2>1, <2>2, <2>3, CallStep
<1>3. PICK u \in User, t \in TxId, partial \in Partial, attached \in Payment :
        \E vin \in DOMAIN Tx[t].ins :
          \/ \E embed \in Vout \cup {None}, storage \in Payment :
               SignFirst(c, u, t, vin, partial, embed, attached, storage)
          \/ SignAgain(c, u, t, vin, partial, attached)
  BY <1>2 DEF SignRequested
<1>4. PICK vin \in DOMAIN Tx[t].ins :
        \/ \E embed \in Vout \cup {None}, storage \in Payment :
             SignFirst(c, u, t, vin, partial, embed, attached, storage)
        \/ SignAgain(c, u, t, vin, partial, attached)
  BY <1>3
<1>5. accounts \in [User -> AccountType]
  BY DEF TypeOK
<1>6. ASSUME NEW left, RequestSignature(c, u, t, vin, partial, left)
      PROVE  /\ r.user = u /\ r.tx = t /\ r.vin = vin
             /\ r.nonce = accounts[u].nonce /\ r.at = now
             /\ Tx[t].ins[vin].prev \in accounts[u].active
  <2>1. calls'[c].user = u /\ calls'[c].tx = t /\ calls'[c].vin = vin
    BY <1>6, SendOrAnswer DEF RequestSignature
  <2> QED BY <1>1, <1>6, <2>1 DEF RequestSignature
<1>7. ASSUME NEW embed \in Vout \cup {None}, NEW storage \in Payment,
             SignFirst(c, u, t, vin, partial, embed, attached, storage)
      PROVE  Sent(r)
  <2> DEFINE charged == IF Len(Tx[t].ins) > 1 THEN storage ELSE 0
             left == attached - charged
  <2>1. /\ RequestSignature(c, u, t, vin, partial, left)
        /\ accounts' = [accounts EXCEPT ![u] = SavePending(accounts[u], t, embed, charged)]
        /\ accounts[u].pending = None
        /\ VerifyPendingSignRequestAmount(accounts[u], u, t, embed, config, rootKey, now)
    BY <1>7 DEF SignFirst
  <2> HIDE DEF charged, left
  <2>2. accounts'[u] = SavePending(accounts[u], t, embed, charged)
    BY <1>5, <2>1
  <2>3. SavedFor(u, accounts[u], accounts'[u], t, embed)
    BY <1>5, <2>1, <2>2, SavePendingFields DEF SavedFor
  <2> QED BY <1>6, <2>1, <2>3 DEF Sent
<1>8. ASSUME SignAgain(c, u, t, vin, partial, attached)
      PROVE  Sent(r)
  <2>1. /\ RequestSignature(c, u, t, vin, partial, attached)
        /\ accounts[u].pending # None /\ ReplacesPending(accounts[u].pending, t)
        /\ accounts' = accounts
    BY <1>8 DEF SignAgain
  <2> QED BY <1>6, <2>1 DEF Sent
<1> QED BY <1>4, <1>7, <1>8

(* A saved PSBT is checked for its reinvest deposit: it is a replacement   *)
(* of itself.                                                              *)
LEMMA SavedReplaces ==
  ASSUME NEW u, NEW a, NEW b, NEW t, NEW embed, SavedFor(u, a, b, t, embed)
  PROVE  b.pending # None => ReplacesPending(b.pending, t)
<1>1. b.pending.tx = t
      /\ b.pending.reinvest = IF embed = None THEN None ELSE DepositVout(t, embed)
  BY DEF SavedFor
<1>2. embed # None => HasOut(t, DepositVout(t, embed))
  BY DEF SavedFor, VerifyPendingSignRequestAmount, VerifyDepositTxn
<1> QED BY <1>1, <1>2 DEF ReplacesPending

(* A PSBT that is saved is pending.                                        *)
LEMMA SavedIsPending ==
  ASSUME TypeOK, NEW u, NEW a, NEW b, NEW t \in TxId, NEW embed \in Vout \cup {None},
         SavedFor(u, a, b, t, embed)
  PROVE  b.pending # None
<1>1. embed # None => DepositVout(t, embed) \in Vout
  BY DepositIdType DEF SavedFor, VerifyPendingSignRequestAmount, VerifyDepositTxn
<1>2. b.pending \in Psbt
  BY <1>1 DEF SavedFor, Psbt
<1> QED BY <1>2, AccountAssumption

-----------------------------------------------------------------------------
(* The invariant                                                           *)

(* A request is for an input of its own user, under a nonce of his, and    *)
(* under today's nonce it is for his pending PSBT or a replacement of it.  *)
RequestOK(r) ==
  LET a == accounts[r.user]
  IN  /\ r.user \in User /\ r.tx \in TxId /\ r.vin \in DOMAIN Tx[r.tx].ins
      /\ r.nonce \in Nat /\ r.nonce <= a.nonce
      /\ Tx[r.tx].ins[r.vin].prev \in Recorded(a)
      /\ r.nonce = a.nonce => a.pending # None /\ ReplacesPending(a.pending, r.tx)

(* A signature, and a call for one, is for an input that was requested     *)
RequestedInput(t, vin) == \E r \in requests : r.tx = t /\ r.vin = vin

MemoryInv ==
  /\ \A r \in requests : RequestOK(r)
  /\ OneInputSetPerRequest
  /\ \A c \in CallId : calls[c].kind = "sign" => RequestedInput(calls[c].tx, calls[c].vin)
  /\ \A s \in sigs : RequestedInput(s[1], s[2])

(* Old requests stay as they should be and new ones are.                   *)
LEMMA RequestStep ==
  ASSUME TypeOK, MemoryInv, [HistoryNext]_hvars, NEW r \in requests'
  PROVE  RequestOK(r)'
<1> DEFINE a == accounts[r.user]
           b == accounts'[r.user]
<1>1. [Next]_vars /\ (r \in requests \/ r \in RequestedInStep)
  BY HistoryStep
<1>2. CASE r \in RequestedInStep
  <2>1. Sent(r)
    BY <1>1, <1>2, RequestSent
  <2>2. /\ r.user \in User /\ r.tx \in TxId /\ r.vin \in DOMAIN Tx[r.tx].ins
        /\ r.nonce = a.nonce /\ Tx[r.tx].ins[r.vin].prev \in Recorded(a)
    BY <2>1 DEF Sent, Recorded
  <2>3. a.nonce \in Nat /\ Recorded(a) \subseteq Recorded(b)
    BY <1>1, <2>2, AccountMemory DEF TypeOK, AccountType, U64
  <2>4. b.nonce = a.nonce /\ b.pending # None /\ ReplacesPending(b.pending, r.tx)
    <3>1. CASE b = a /\ a.pending # None /\ ReplacesPending(a.pending, r.tx)
      BY <3>1
    <3>2. ASSUME NEW embed \in Vout \cup {None}, SavedFor(r.user, a, b, r.tx, embed)
          PROVE  b.nonce = a.nonce /\ b.pending # None /\ ReplacesPending(b.pending, r.tx)
      <4>1. b.pending # None
        BY <2>2, <3>2, SavedIsPending
      <4>2. b.nonce = a.nonce
        BY <3>2 DEF SavedFor
      <4> HIDE DEF a, b
      <4> QED BY <3>2, <4>1, <4>2, SavedReplaces
    <3> QED BY <2>1, <3>1, <3>2 DEF Sent
  <2> HIDE DEF a, b
  <2>5. r.nonce <= b.nonce /\ Tx[r.tx].ins[r.vin].prev \in Recorded(b) /\ r.nonce \in Nat
    BY <2>2, <2>3, <2>4
  <2> QED BY <2>2, <2>4, <2>5 DEF RequestOK, b
<1>3. CASE r \in requests
  <2>1. /\ r.user \in User /\ r.tx \in TxId /\ r.vin \in DOMAIN Tx[r.tx].ins
        /\ r.nonce \in Nat /\ r.nonce <= a.nonce
        /\ Tx[r.tx].ins[r.vin].prev \in Recorded(a)
        /\ r.nonce = a.nonce => a.pending # None /\ ReplacesPending(a.pending, r.tx)
    BY <1>3 DEF MemoryInv, RequestOK
  <2>2. a.nonce \in Nat
    BY <2>1 DEF TypeOK, AccountType, U64
  <2>3. /\ Recorded(a) \subseteq Recorded(b)
        /\ \/ Kept(a, b)
           \/ Queued(a, b)
           \/ \E t \in TxId, embed \in Vout \cup {None} : SavedFor(r.user, a, b, t, embed)
    BY <1>1, <2>1, AccountMemory
  <2> HIDE DEF a, b
  <2>4. /\ r.nonce <= b.nonce
        /\ r.nonce = b.nonce => b.pending # None /\ ReplacesPending(b.pending, r.tx)
    <3>1. CASE Kept(a, b)
      BY <2>1, <3>1 DEF Kept
    <3>2. CASE Queued(a, b)
      BY <2>1, <2>2, <3>2 DEF Queued
    <3>3. CASE a.pending = None /\ b.nonce = a.nonce
      BY <2>1, <3>3
    <3> QED BY <2>3, <3>1, <3>2, <3>3 DEF SavedFor
  <2> QED BY <2>1, <2>3, <2>4 DEF RequestOK, b
<1> QED BY <1>1, <1>2, <1>3

(* What is sent under the nonce of an earlier request is sent for the PSBT *)
(* that was saved with it.                                                 *)
LEMMA OneInputSetStep ==
  ASSUME TypeOK, MemoryInv, [HistoryNext]_hvars
  PROVE  OneInputSetPerRequest'
<1>1. ASSUME NEW r \in requests', NEW s \in requests', r.user = s.user, r.nonce = s.nonce
      PROVE  Tx[r.tx].ins = Tx[s.tx].ins
  <2>1. RequestOK(r)' /\ RequestOK(s)'
    BY RequestStep
  <2> DEFINE b == accounts'[r.user]
  <2>2. CASE r \in requests /\ s \in requests
    BY <1>1, <2>2 DEF MemoryInv, OneInputSetPerRequest
  <2>3. ASSUME NEW x \in {r, s}, x \in RequestedInStep PROVE x.nonce = b.nonce
    <3>1. Sent(x) /\ x.user = r.user
      BY <1>1, <2>3, HistoryStep, RequestSent
    <3>2. accounts'[x.user].nonce = accounts[x.user].nonce
      BY <3>1 DEF Sent, SavedFor
    <3> QED BY <3>1, <3>2 DEF Sent
  <2>4. CASE r \in RequestedInStep \/ s \in RequestedInStep
    <3>1. r.nonce = b.nonce /\ s.nonce = b.nonce
      BY <1>1, <2>3, <2>4
    <3>2. ReplacesPending(b.pending, r.tx) /\ ReplacesPending(b.pending, s.tx)
      BY <1>1, <2>1, <3>1 DEF RequestOK
    <3> QED BY <3>2 DEF ReplacesPending
  <2> QED BY <2>2, <2>4, HistoryStep
<1> QED BY <1>1 DEF OneInputSetPerRequest

(* Signatures come from calls, and a call from a request.                  *)
LEMMA SignaturesStep ==
  ASSUME TypeOK, [Next]_vars
  PROVE  \A s \in sigs' \ sigs : \E c \in CallId :
           calls[c].kind = "sign" /\ s[1] = calls[c].tx /\ s[2] = calls[c].vin
<1> DEFINE Goal == \A s \in sigs' \ sigs : \E c \in CallId :
                     calls[c].kind = "sign" /\ s[1] = calls[c].tx /\ s[2] = calls[c].vin
<1> SUFFICES Goal
  OBVIOUS
<1>1. CASE UNCHANGED sigs
  BY <1>1
<1>2. ASSUME NEW c \in CallId, SignatureGiven(c) PROVE Goal
  BY <1>2 DEF SignatureGiven, Answer
<1> HIDE DEF Goal
<1>3. ASSUME NEW c \in CallId, Handler(c) PROVE UNCHANGED sigs
  BY <1>3, HandlerLeaves
<1>4. ASSUME NEW c \in CallId, Callback(c), ~SignatureGiven(c) PROVE UNCHANGED sigs
  BY <1>4, CallbackLeaves
<1>5. ASSUME NEW u, NEW amount, QueueWithdrawalEcdsa(u, amount) PROVE UNCHANGED sigs
  BY <1>5 DEF QueueWithdrawalEcdsa
<1>6. CASE \/ AdminNext /\ UNCHANGED <<contractVars, chainVars>>
           \/ Tick \/ (\E t \in TxId : Mine(t)) \/ UNCHANGED vars
  BY <1>1, <1>6 DEF Tick, Mine, vars
<1> QED BY <1>1, <1>2, <1>3, <1>4, <1>5, <1>6 DEF Next

(* Every step keeps the invariant.                                         *)
LEMMA MemoryInvStep ==
  ASSUME TypeOK, MemoryInv, [HistoryNext]_hvars
  PROVE  MemoryInv'
<1>1. [Next]_vars /\ requests \subseteq requests'
  BY HistoryStep
<1>2. \A t, vin : RequestedInput(t, vin) => RequestedInput(t, vin)'
  BY <1>1 DEF RequestedInput
<1>3. ASSUME NEW c \in CallId, calls'[c].kind = "sign"
      PROVE  RequestedInput(calls[c].tx, calls[c].vin)'
  <2>1. CASE calls'[c] = calls[c]
    BY <1>2, <1>3, <2>1 DEF MemoryInv
  <2>2. CASE calls'[c] # calls[c]
    <3>1. NoCall.kind # "sign"
      BY DEF NoCall
    <3>2. ASSUME NEW t, NEW embed, NEW attached, SubmitDepositTx(c, t, embed, attached)
          PROVE  calls'[c].kind = "deposit"
      BY <3>2, <1>1, SendOrAnswer DEF SubmitDepositTx
    <3>3. ASSUME NEW u, NEW amount, QueueWithdrawalBip322(c, u, amount)
          PROVE  calls'[c].kind = "bip322"
      BY <3>3, SendOrAnswer DEF QueueWithdrawalBip322
    <3>4. SignRequested(c)
      BY <1>1, <1>3, <2>2, <3>1, <3>2, <3>3, CallStep
    <3>5. calls[c] = NoCall
      BY <3>4 DEF SignRequested, SignFirst, SignAgain, RequestSignature, Send
    <3>6. HistoryNext
      BY <2>2 DEF hvars, vars
    <3> DEFINE r == [user |-> calls'[c].user, nonce |-> accounts[calls'[c].user].nonce,
                     tx |-> calls'[c].tx, vin |-> calls'[c].vin, at |-> now]
    <3>7. r \in RequestedInStep
      BY <1>3, <3>5 DEF RequestedInStep
    <3>8. r \in requests' /\ r.tx = calls'[c].tx /\ r.vin = calls'[c].vin
      BY <3>6, <3>7 DEF HistoryNext
    <3> HIDE DEF r
    <3> QED BY <3>8 DEF RequestedInput
  <2> QED BY <2>1, <2>2
<1>4. ASSUME NEW s \in sigs' PROVE RequestedInput(s[1], s[2])'
  <2>1. CASE s \in sigs
    BY <1>2, <2>1 DEF MemoryInv
  <2>2. CASE s \notin sigs
    <3>1. PICK c \in CallId : calls[c].kind = "sign" /\ s[1] = calls[c].tx /\ s[2] = calls[c].vin
      BY <1>1, <2>2, SignaturesStep
    <3> QED BY <1>2, <3>1 DEF MemoryInv
  <2> QED BY <2>1, <2>2
<1> QED BY <1>3, <1>4, RequestStep, OneInputSetStep DEF MemoryInv

(* The invariant holds in every behaviour with its history.                *)
LEMMA MemoryInvariant == HistorySpec => []MemoryInv
<1>1. HistoryInit => MemoryInv
  BY DEF HistoryInit, Init, MemoryInv, OneInputSetPerRequest, NoCall
<1>2. TypeOK /\ MemoryInv /\ [HistoryNext]_hvars => MemoryInv'
  BY MemoryInvStep
<1> QED BY <1>1, <1>2, HistoryBehaviour, TypeCorrect, PTL DEF HistorySpec, hvars

(* All that is ever sent for signing under one queued withdrawal spends    *)
(* the same inputs, for any number of replacements and re-queued amounts.  *)
THEOREM OneInputSetCorrect == HistorySpec => []OneInputSetPerRequest
<1>1. MemoryInv => OneInputSetPerRequest
  BY DEF MemoryInv
<1> QED BY <1>1, MemoryInvariant, PTL

-----------------------------------------------------------------------------
(* The amount                                                              *)

(* What is paid back is a number.                                          *)
LEMMA PaidBackType ==
  ASSUME TypeOK, NEW u \in User, NEW t \in TxId
  PROVE  PaidBack(u, t) \in Nat
BY DepositTxAssumption DEF PaidBack, HasOut, Out

(* The saved PSBT takes out no more than the queued amount, and all of it  *)
(* stays as it was when it was compared.                                   *)
WithinInv ==
  \A u \in User : accounts[u].pending # None =>
    /\ covered[u] \in Nat /\ granted[u] \in Nat
    /\ covered[u] - PaidBack(u, accounts[u].pending.tx) <= granted[u]

(* Every step keeps the invariant.                                         *)
LEMMA WithinStep ==
  ASSUME TypeOK, WithinInv, [HistoryNext]_hvars
  PROVE  WithinInv'
<1> SUFFICES ASSUME NEW u \in User, accounts'[u].pending # None
             PROVE  /\ covered'[u] \in Nat /\ granted'[u] \in Nat
                    /\ covered'[u] - PaidBack(u, accounts[u].pending.tx)' <= granted'[u]
  BY DEF WithinInv
<1> DEFINE a == accounts[u]
           b == accounts'[u]
<1>1. [Next]_vars
  BY HistoryStep
<1>2. CASE b.pending = a.pending
  <2>1. covered'[u] = covered[u] /\ granted'[u] = granted[u]
    <3>1. ~Saved(u)
      BY <1>2 DEF Saved
    <3>2. CASE HistoryNext
      BY <3>1, <3>2 DEF HistoryNext
    <3>3. CASE UNCHANGED hvars
      BY <3>3 DEF hvars
    <3> QED BY <3>2, <3>3
  <2>2. PaidBack(u, accounts[u].pending.tx)' = PaidBack(u, accounts[u].pending.tx)
    BY <1>2 DEF PaidBack
  <2> QED BY <1>2, <2>1, <2>2 DEF WithinInv
<1>3. ASSUME NEW t \in TxId, NEW embed \in Vout \cup {None}, SavedFor(u, a, b, t, embed)
      PROVE  /\ covered'[u] \in Nat /\ granted'[u] \in Nat
             /\ covered'[u] - PaidBack(u, accounts[u].pending.tx)' <= granted'[u]
  <2> DEFINE sum == DepositInputSum(a, t)
             reinvested == IF embed = None THEN 0 ELSE Value(DepositId(t, embed))
  <2>1. /\ a.pending = None /\ b.pending.tx = t
        /\ b.pending.reinvest = IF embed = None THEN None ELSE DepositVout(t, embed)
    BY <1>3 DEF SavedFor
  <2>2. Saved(u) /\ HistoryNext
    BY <2>1 DEF Saved, hvars, vars
  <2>3. covered'[u] = sum /\ granted'[u] = a.queue
    BY <2>1, <2>2 DEF HistoryNext
  <2>4. /\ sum \in U64 /\ sum - reinvested \in U64 /\ sum - reinvested <= a.queue
        /\ embed # None => /\ VerifyDepositTxn(config, rootKey, t, embed)
                           /\ DepositUser(t, embed) = u
    BY <1>3 DEF SavedFor, VerifyPendingSignRequestAmount
  <2>5. a.queue \in U64
    BY DEF TypeOK, AccountType
  <2>6. PaidBack(u, accounts[u].pending.tx)' = reinvested
    <3>1. CASE embed = None
      BY <2>1, <3>1 DEF PaidBack
    <3>2. CASE embed # None
      <4> DEFINE vout == DepositVout(t, embed)
      <4>1. HasOut(t, vout) /\ Out(t, vout).type = "deposit" /\ Out(t, vout).user = u
        BY <2>4, <3>2 DEF VerifyDepositTxn, VerifyDepositOutputV1
      <4>2. vout # None
        BY <2>4, <3>2, DepositIdType, DepositTxAssumption DEF VerifyDepositTxn
      <4>3. reinvested = Out(t, vout).value
        BY <3>2 DEF Value, DepositId
      <4>4. b.pending.reinvest = vout /\ b.pending.tx = t
        BY <2>1, <3>2
      <4> HIDE DEF vout, reinvested
      <4> QED BY <4>1, <4>2, <4>3, <4>4 DEF PaidBack
    <3> QED BY <3>1, <3>2
  <2> HIDE DEF sum, reinvested
  <2> QED BY <2>3, <2>4, <2>5, <2>6, AccountAssumption DEF U64
<1>4. CASE Queued(a, b)
  BY <1>4 DEF Queued
<1>5. Kept(a, b) \/ Queued(a, b)
        \/ \E t \in TxId, embed \in Vout \cup {None} : SavedFor(u, a, b, t, embed)
  BY <1>1, AccountMemory
<1> QED BY <1>2, <1>3, <1>4, <1>5 DEF Kept

(* The invariant holds in every behaviour with its history.                *)
LEMMA WithinInvariant == HistorySpec => []WithinInv
<1>1. HistoryInit => WithinInv
  BY DEF HistoryInit, Init, WithinInv, NewAccount
<1>2. TypeOK /\ WithinInv /\ [HistoryNext]_hvars => WithinInv'
  BY WithinStep
<1> QED BY <1>1, <1>2, HistoryBehaviour, TypeCorrect, PTL DEF HistorySpec, hvars

(* No replacement takes out more than was queued, for any number of        *)
(* inputs, replacements and users.                                         *)
THEOREM SignedWithinCorrect == HistorySpec => []SignedWithinGranted
<1>1. TypeOK /\ MemoryInv /\ WithinInv => SignedWithinGranted
  <2> SUFFICES ASSUME TypeOK, MemoryInv, WithinInv, NEW r \in requests,
                      r.nonce = accounts[r.user].nonce, accounts[r.user].pending # None
               PROVE  covered[r.user] - PaidBack(r.user, r.tx) <= granted[r.user]
    BY DEF SignedWithinGranted
  <2> DEFINE u == r.user
             pending == accounts[u].pending
  <2>1. u \in User /\ r.tx \in TxId /\ ReplacesPending(pending, r.tx)
    BY DEF MemoryInv, RequestOK
  <2>2. pending.tx \in TxId
    BY <2>1 DEF TypeOK, AccountType, Psbt
  <2>3. PaidBack(u, pending.tx) \in Nat /\ PaidBack(u, r.tx) \in Nat
    BY <2>1, <2>2, PaidBackType
  <2>4. PaidBack(u, pending.tx) = 0 \/ PaidBack(u, r.tx) = PaidBack(u, pending.tx)
    BY <2>1 DEF PaidBack, ReplacesPending
  <2>5. /\ covered[u] \in Nat /\ granted[u] \in Nat
        /\ covered[u] - PaidBack(u, pending.tx) <= granted[u]
    BY <2>1 DEF WithinInv
  <2> HIDE DEF u, pending
  <2> QED BY <2>3, <2>4, <2>5 DEF u
<1> QED BY <1>1, MemoryInvariant, WithinInvariant, HistoryBehaviour, TypeCorrect, PTL

-----------------------------------------------------------------------------
(* The waiting time                                                        *)

(* the last request of u was queued before the waiting time                *)
LastQueued(u, at) ==
  \E q \in queued : q.user = u /\ q.nonce = accounts[u].nonce /\ q.at = at

(* A clock that runs was started by the last request of its user, and a    *)
(* PSBT was saved after the waiting time: it may be replaced at any time   *)
(* later.                                                                  *)
WaitInv ==
  /\ config.waiting = InitConfig.waiting
  /\ \A u \in User :
       /\ accounts[u].startTs > 0 => LastQueued(u, accounts[u].startTs)
       /\ accounts[u].pending # None =>
            \E at \in Nat : LastQueued(u, at) /\ at + config.waiting <= now
  /\ EverySignatureWaited

(* Without a value to set it to, the waiting time stays.                   *)
LEMMA WaitingKept ==
  ASSUME TypeOK, [Next]_vars, Settable.waiting = {}
  PROVE  config'.waiting = config.waiting
<1>1. CASE UNCHANGED config
  BY <1>1
<1>2. CASE AdminNext
  <2>1. ASSUME NEW caller, OwnerStep(caller) PROVE config'.waiting = config.waiting
    BY <2>1 DEF OwnerStep, ProposeChangeOwner, AcceptChangeOwner, SetLightClient,
                SetVerifier, SetChainSignatures, SetNConfirmation,
                SetWithdrawalWaitingTime, SetMinDeposit, SetEarliestHeight,
                SetSequenceHeights, SetPaused, TypeOK, AdminTypeOK, Config
  <2>2. ASSUME NEW s, SyncRootPubkey(s) \/ OnSyncRootPubkey(s) PROVE UNCHANGED config
    BY <2>2 DEF SyncRootPubkey, OnSyncRootPubkey, RootPubkeySet, RootPubkeyDropped
  <2> QED BY <1>2, <2>1, <2>2 DEF AdminNext
<1>3. ASSUME NEW c \in CallId, Handler(c) PROVE UNCHANGED config
  BY <1>3, HandlerLeaves
<1>4. ASSUME NEW c \in CallId, Callback(c) PROVE UNCHANGED config
  BY <1>4, CallbackLeaves
<1>5. ASSUME NEW u, NEW amount, QueueWithdrawalEcdsa(u, amount) PROVE UNCHANGED config
  BY <1>5 DEF QueueWithdrawalEcdsa
<1>6. CASE Tick \/ (\E t \in TxId : Mine(t)) \/ UNCHANGED vars
  BY <1>1, <1>6 DEF Tick, Mine, vars
<1> QED BY <1>1, <1>2, <1>3, <1>4, <1>5, <1>6 DEF Next

(* Every step keeps the invariant.                                         *)
LEMMA WaitInvStep ==
  ASSUME TypeOK, WaitInv, [HistoryNext]_hvars, Settable.waiting = {}
  PROVE  WaitInv'
<1>1. [Next]_vars /\ queued \subseteq queued'
  BY HistoryStep
<1>2. /\ config'.waiting = config.waiting /\ config.waiting = InitConfig.waiting
      /\ config.waiting \in Nat
  BY <1>1, WaitingKept DEF WaitInv, TypeOK, AdminTypeOK, Config
<1>3. now \in Nat /\ now' \in Nat /\ now' >= now
  BY <1>1, SurroundingsStep DEF TypeOK, U64
<1>4. ASSUME NEW u \in User
      PROVE  /\ accounts'[u].startTs > 0 => LastQueued(u, accounts[u].startTs)'
             /\ accounts'[u].pending # None =>
                  \E at \in Nat : LastQueued(u, at)' /\ at + config.waiting <= now
  <2> DEFINE a == accounts[u]
             b == accounts'[u]
  <2>0. a.startTs \in Nat /\ a.nonce \in Nat
    BY DEF TypeOK, AccountType, U64
  <2>1. ASSUME NEW at, b.nonce = a.nonce, LastQueued(u, at) PROVE LastQueued(u, at)'
    BY <1>1, <2>1 DEF LastQueued
  <2>2. CASE Kept(a, b)
    <3>1. b.nonce = a.nonce /\ b.pending = a.pending /\ b.startTs \in {0, a.startTs}
      BY <2>2 DEF Kept
    <3>2. b.startTs > 0 => LastQueued(u, accounts[u].startTs)'
      <4>1. b.startTs > 0 => b.startTs = a.startTs
        BY <2>0, <3>1
      <4>2. b.startTs > 0 => LastQueued(u, b.startTs)
        BY <4>1 DEF WaitInv
      <4>3. b.startTs > 0 => \E q \in queued' : q.user = u /\ q.nonce = b.nonce /\ q.at = b.startTs
        BY <1>1, <3>1, <4>2 DEF LastQueued
      <4> QED BY <4>3 DEF LastQueued
    <3>3. b.pending # None => \E at \in Nat : LastQueued(u, at)' /\ at + config.waiting <= now
      BY <2>1, <3>1 DEF WaitInv
    <3> QED BY <3>2, <3>3
  <2>3. CASE Queued(a, b)
    <3>1. b.nonce = a.nonce + 1 /\ b.pending = None /\ b.startTs = now
      BY <2>3 DEF Queued
    <3>2. a.nonce # b.nonce
      BY <2>0, <3>1
    <3>3. HistoryNext
      BY <3>2 DEF hvars, vars
    <3> DEFINE q == [user |-> u, nonce |-> accounts'[u].nonce, message |-> Message(u), at |-> now]
    <3>4. q \in queued'
      BY <3>2, <3>3 DEF HistoryNext, QueuedInStep
    <3>5. q.user = u /\ q.nonce = b.nonce /\ q.at = b.startTs
      BY <3>1
    <3> HIDE DEF q
    <3> QED BY <3>1, <3>4, <3>5 DEF LastQueued
  <2>4. ASSUME NEW t, NEW embed, SavedFor(u, a, b, t, embed)
        PROVE  /\ b.startTs = 0 /\ b.nonce = a.nonce
               /\ \E at \in Nat : LastQueued(u, at) /\ at + config.waiting <= now
    <3>1. b.startTs = 0 /\ b.nonce = a.nonce /\ a.startTs > 0 /\ now >= a.startTs + config.waiting
      BY <2>4 DEF SavedFor, VerifyPendingSignRequestAmount
    <3>2. LastQueued(u, a.startTs)
      BY <3>1 DEF WaitInv
    <3>3. a.startTs + config.waiting <= now
      BY <1>2, <1>3, <2>0, <3>1
    <3> QED BY <2>0, <3>1, <3>2, <3>3
  <2>5. CASE \E t \in TxId, embed \in Vout \cup {None} : SavedFor(u, a, b, t, embed)
    BY <2>1, <2>4, <2>5
  <2>6. Kept(a, b) \/ Queued(a, b)
          \/ \E t \in TxId, embed \in Vout \cup {None} : SavedFor(u, a, b, t, embed)
    BY <1>1, AccountMemory
  <2> QED BY <2>2, <2>3, <2>5, <2>6
<1>5. ASSUME NEW u \in User, accounts'[u].pending # None
      PROVE  \E at \in Nat : LastQueued(u, at)' /\ at + config'.waiting <= now'
  <2>1. PICK at \in Nat : LastQueued(u, at)' /\ at + config.waiting <= now
    BY <1>4, <1>5
  <2>2. at + config'.waiting <= now'
    BY <1>2, <1>3, <2>1
  <2> QED BY <2>1, <2>2
<1>6. ASSUME NEW r \in requests' PROVE Waited(r)'
  <2>1. CASE r \in requests
    BY <1>1, <1>2, <2>1 DEF WaitInv, EverySignatureWaited, Waited
  <2>2. CASE r \in RequestedInStep
    <3> DEFINE a == accounts[r.user]
               b == accounts'[r.user]
    <3>1. Sent(r)
      BY <1>1, <2>2, RequestSent
    <3>2. r.user \in User /\ r.nonce = a.nonce /\ r.at = now /\ b.nonce = a.nonce
          /\ b.pending # None
      <4>1. CASE b = a /\ a.pending # None
        BY <3>1, <4>1 DEF Sent
      <4>2. ASSUME NEW embed \in Vout \cup {None}, SavedFor(r.user, a, b, r.tx, embed)
            PROVE  b.nonce = a.nonce /\ b.pending # None
        <5>1. r.tx \in TxId
          BY <3>1 DEF Sent
        <5>2. b.nonce = a.nonce
          BY <4>2 DEF SavedFor
        <5> HIDE DEF a, b
        <5> QED BY <4>2, <5>1, <5>2, SavedIsPending
      <4> QED BY <3>1, <4>1, <4>2 DEF Sent
    <3>3. PICK at \in Nat : LastQueued(r.user, at)' /\ at + config.waiting <= now
      BY <1>4, <3>2
    <3>4. PICK q \in queued' : q.user = r.user /\ q.nonce = b.nonce /\ q.at = at
      BY <3>3 DEF LastQueued
    <3> QED BY <1>2, <3>2, <3>3, <3>4 DEF Waited
  <2> QED BY <2>1, <2>2, HistoryStep
<1> QED BY <1>2, <1>4, <1>5, <1>6 DEF WaitInv, EverySignatureWaited

(* The invariant holds in every behaviour with its history.                *)
LEMMA WaitInvariant ==
  ASSUME Settable.waiting = {}
  PROVE  HistorySpec => []WaitInv
<1>1. HistoryInit => WaitInv
  BY DEF HistoryInit, Init, AdminInit, WaitInv, EverySignatureWaited, NewAccount
<1>2. TypeOK /\ WaitInv /\ [HistoryNext]_hvars => WaitInv'
  BY WaitInvStep
<1> QED BY <1>1, <1>2, HistoryBehaviour, TypeCorrect, PTL DEF HistorySpec, hvars

(* Nothing is sent for signing before its withdrawal has been queued for   *)
(* the waiting time, whatever replacements and late verifier answers come, *)
(* as long as the owner leaves the waiting time alone.                     *)
THEOREM WaitedCorrect ==
  ASSUME Settable.waiting = {}
  PROVE  HistorySpec => []EverySignatureWaited
<1>1. WaitInv => EverySignatureWaited
  BY DEF WaitInv
<1> QED BY <1>1, WaitInvariant, PTL

(* Custody: a deposit leaves its script early only by what its own user    *)
(* had sent for signing, for that input, after the wait.                   *)
LEMMA ReleasedStep ==
  ASSUME TypeOK, BooksMatchChain, MemoryInv, WaitInv, ReleasedByOwnRequest,
         [HistoryNext]_hvars, Settable.waiting = {}
  PROVE  ReleasedByOwnRequest'
<1>1. /\ [Next]_vars /\ requests \subseteq requests' /\ queued \subseteq queued'
      /\ config'.waiting = config.waiting
  BY HistoryStep, WaitingKept
<1>2. \A r : Waited(r) => Waited(r)'
  BY <1>1 DEF Waited
<1> SUFFICES ASSUME NEW t \in mined', NEW i \in DOMAIN Tx[t].ins,
                    SpendsDeposit(t, i), Tx[t].ins[i].seq # "csv"
             PROVE  \E r \in requests' :
                      /\ r.tx = t /\ r.vin = i /\ Waited(r)'
                      /\ r.user = Out(Tx[t].ins[i].prev[1], Tx[t].ins[i].prev[2]).user
  BY DEF ReleasedByOwnRequest
<1>3. CASE t \in mined
  BY <1>1, <1>2, <1>3 DEF ReleasedByOwnRequest
<1>4. CASE t \notin mined
  <2> DEFINE prev == Tx[t].ins[i].prev
  <2>1. MayUnlock(t, i)
    BY <1>1, <1>4, SurroundingsStep DEF Mine
  <2>2. <<t, i, Out(prev[1], prev[2]).key>> \in sigs
    BY <2>1 DEF MayUnlock
  <2>3. RequestedInput(t, i)
    BY <2>2 DEF MemoryInv
  <2>4. PICK r \in requests : r.tx = t /\ r.vin = i
    BY <2>3 DEF RequestedInput
  <2>5. Waited(r)
    BY DEF WaitInv, EverySignatureWaited
  <2>6. r.user \in User /\ prev \in Recorded(accounts[r.user])
    BY <2>4 DEF MemoryInv, RequestOK
  <2>7. Out(prev[1], prev[2]).user = r.user
    BY <2>6 DEF BooksMatchChain, VerifyDepositOutputV1
  <2> QED BY <1>1, <1>2, <2>4, <2>5, <2>7
<1> QED BY <1>3, <1>4

(* Nobody else's request, no request for another input, and no request     *)
(* that did not wait releases a deposit before its relative lock, for any  *)
(* number of users, deposits and transactions.                             *)
THEOREM CustodyCorrect ==
  ASSUME Settable.waiting = {}
  PROVE  HistorySpec => []ReleasedByOwnRequest
<1>1. HistoryInit => ReleasedByOwnRequest
  BY DEF HistoryInit, Init, ReleasedByOwnRequest
<1>2. TypeOK /\ BooksMatchChain /\ MemoryInv /\ WaitInv /\ ReleasedByOwnRequest
        /\ [HistoryNext]_hvars => ReleasedByOwnRequest'
  BY ReleasedStep
<1> QED BY <1>1, <1>2, MemoryInvariant, WaitInvariant, HistoryBehaviour,
           TypeCorrect, ChainCorrect, PTL DEF HistorySpec, hvars

=============================================================================

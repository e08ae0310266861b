------------------------ MODULE ConfirmationsProofs -------------------------
(***************************************************************************)
(* Proof that the contract on a chain that reorganises is the contract of  *)
(* BitHive on the final part of that chain, if the contract always asks    *)
(* for more confirmations than blocks are ever replaced.                   *)
(***************************************************************************)
EXTENDS Confirmations, BitHiveProofs

USE DEF contractVars, chainVars, adminVars, ownership, rootVars, confVars

-----------------------------------------------------------------------------
(* What does not look at the chain is the same on the final part of it.    *)

(* sending and answering                                                   *)
LEMMA SameCalls ==
  /\ \A c, call : OnFinal!Send(c, call) <=> Send(c, call)
  /\ \A c, kind : OnFinal!Answer(c, kind) <=> Answer(c, kind)
BY DEF OnFinal!Send, Send, OnFinal!Answer, Answer, OnFinal!NoCall, NoCall

(* embed messages                                                          *)
LEMMA SameMessages ==
  \A t, embed : /\ OnFinal!VerifyEmbedOutput(t, embed) <=> VerifyEmbedOutput(t, embed)
                /\ OnFinal!DepositVout(t, embed) = DepositVout(t, embed)
                /\ OnFinal!DepositUser(t, embed) = DepositUser(t, embed)
                /\ OnFinal!DepositId(t, embed) = DepositId(t, embed)
BY DEF OnFinal!VerifyEmbedOutput, VerifyEmbedOutput, OnFinal!HasOut, HasOut,
       OnFinal!Out, Out, OnFinal!Usize, Usize, OnFinal!DepositVout, DepositVout,
       OnFinal!DepositUser, DepositUser, OnFinal!DepositId, DepositId

(* the checks of a deposit                                                 *)
LEMMA SameVerify ==
  \A c, k, t, embed : OnFinal!VerifyDepositTxn(c, k, t, embed) <=> VerifyDepositTxn(c, k, t, embed)
BY DEF OnFinal!VerifyDepositTxn, VerifyDepositTxn,
       OnFinal!VerifyEmbedOutput, VerifyEmbedOutput, OnFinal!HasOut, HasOut,
       OnFinal!Out, Out, OnFinal!Usize, Usize, OnFinal!DepositVout, DepositVout,
       OnFinal!DepositUser, DepositUser, OnFinal!VerifyTimelock, VerifyTimelock,
       OnFinal!VerifyDepositOutputV1, VerifyDepositOutputV1

(* creating a deposit                                                      *)
LEMMA SameDeposits ==
  /\ \A a, o : OnFinal!CanCreateDeposit(a, o) <=> CanCreateDeposit(a, o)
  /\ \A a, o : OnFinal!CreateDeposit(a, o) = CreateDeposit(a, o)
BY DEF OnFinal!CanCreateDeposit, CanCreateDeposit, OnFinal!CreateDeposit, CreateDeposit,
       OnFinal!WithdrawnIds, WithdrawnIds, OnFinal!Value, Value, OnFinal!Out, Out,
       OnFinal!Usize, Usize, OnFinal!U64, U64

(* queueing a withdrawal                                                   *)
LEMMA SameQueue ==
  /\ \A u, amount : OnFinal!ApplyQueueWithdrawal(u, amount) <=> ApplyQueueWithdrawal(u, amount)
BY DEF OnFinal!ApplyQueueWithdrawal, ApplyQueueWithdrawal,
       OnFinal!CanQueueWithdrawal, CanQueueWithdrawal,
       OnFinal!QueueWithdrawal, QueueWithdrawal, OnFinal!U64, U64

(* sums over inputs                                                        *)
LEMMA SameSums ==
  /\ \A a, t, last : OnFinal!InputSum(a, t, last) = InputSum(a, t, last)
  /\ \A a, t : OnFinal!DepositInputs(a, t) = DepositInputs(a, t)
  /\ \A a, t : OnFinal!Spent(a, t) = Spent(a, t)
BY DEF OnFinal!InputSum, InputSum, OnFinal!MapThenSumSet, MapThenSumSet,
       OnFinal!MapThenFoldSet, MapThenFoldSet, OnFinal!DepositInputs, DepositInputs,
       OnFinal!Value, Value, OnFinal!Out, Out, OnFinal!Usize, Usize, OnFinal!Spent, Spent

(* the checks of a PSBT                                                    *)
LEMMA SameSign ==
  /\ \A a, u, t, embed, c, k, time :
       OnFinal!VerifyPendingSignRequestAmount(a, u, t, embed, c, k, time)
         <=> VerifyPendingSignRequestAmount(a, u, t, embed, c, k, time)
  /\ \A a, t, embed, storage :
       OnFinal!SavePending(a, t, embed, storage) = SavePending(a, t, embed, storage)
  /\ \A p, t : OnFinal!ReplacesPending(p, t) <=> ReplacesPending(p, t)
<1>1. \A a, t : OnFinal!DepositInputSum(a, t) = DepositInputSum(a, t)
  BY SameSums DEF OnFinal!DepositInputSum, DepositInputSum
<1>2. \A o : OnFinal!Value(o) = Value(o)
  BY DEF OnFinal!Value, Value, OnFinal!Out, Out, OnFinal!Usize, Usize
<1>3. OnFinal!U64 = U64
  BY DEF OnFinal!U64, U64
<1>4. \A a, u, t, embed, c, k, time :
        OnFinal!VerifyPendingSignRequestAmount(a, u, t, embed, c, k, time)
          <=> VerifyPendingSignRequestAmount(a, u, t, embed, c, k, time)
  BY <1>1, <1>2, <1>3, SameMessages, SameVerify
  DEF OnFinal!VerifyPendingSignRequestAmount, VerifyPendingSignRequestAmount
<1>5. \A a, t, embed, storage :
        OnFinal!SavePending(a, t, embed, storage) = SavePending(a, t, embed, storage)
  BY DEF OnFinal!SavePending, SavePending, OnFinal!DepositVout, DepositVout,
         OnFinal!Out, Out, OnFinal!Usize, Usize
<1>6. \A p, t : OnFinal!ReplacesPending(p, t) <=> ReplacesPending(p, t)
  BY DEF OnFinal!ReplacesPending, ReplacesPending, OnFinal!HasOut, HasOut,
         OnFinal!Out, Out, OnFinal!Usize, Usize
<1> QED BY <1>4, <1>5, <1>6

(* completing withdrawals                                                  *)
LEMMA SameComplete ==
  /\ \A a, t : OnFinal!CanCompleteWithdrawals(a, t) <=> CanCompleteWithdrawals(a, t)
  /\ \A a, t, m : OnFinal!CompleteWithdrawals(a, t, m) = CompleteWithdrawals(a, t, m)
BY DEF OnFinal!CanCompleteWithdrawals, CanCompleteWithdrawals,
       OnFinal!CompleteWithdrawals, CompleteWithdrawals,
       OnFinal!QueueAfter, QueueAfter, OnFinal!Max, Max,
       OnFinal!DepositInputSum, DepositInputSum, OnFinal!InputSum, InputSum,
       OnFinal!MapThenSumSet, MapThenSumSet, OnFinal!MapThenFoldSet, MapThenFoldSet,
       OnFinal!DepositInputs, DepositInputs, OnFinal!Spent, Spent,
       OnFinal!Value, Value, OnFinal!Out, Out, OnFinal!Usize, Usize,
       OnFinal!WithdrawnIds, WithdrawnIds, OnFinal!U64, U64

(* the steps of the owner                                                  *)
LEMMA SameOwnerStep ==
  \A caller : OnFinal!OwnerStep(caller) <=> OwnerStep(caller)
<1> USE DEF OnFinal!ownership, OnFinal!rootVars
<1>1. \A caller, new : OnFinal!ProposeChangeOwner(caller, new) <=> ProposeChangeOwner(caller, new)
  BY DEF OnFinal!ProposeChangeOwner, ProposeChangeOwner
<1>2. \A caller : OnFinal!AcceptChangeOwner(caller) <=> AcceptChangeOwner(caller)
  BY DEF OnFinal!AcceptChangeOwner, AcceptChangeOwner
<1>3. \A caller : OnFinal!SetLightClient(caller) <=> SetLightClient(caller)
  BY DEF OnFinal!SetLightClient, SetLightClient
<1>4. \A caller : OnFinal!SetVerifier(caller) <=> SetVerifier(caller)
  BY DEF OnFinal!SetVerifier, SetVerifier
<1>5. \A caller : OnFinal!SetChainSignatures(caller) <=> SetChainSignatures(caller)
  BY DEF OnFinal!SetChainSignatures, SetChainSignatures
<1>6. \A caller : OnFinal!SetNConfirmation(caller) <=> SetNConfirmation(caller)
  BY DEF OnFinal!SetNConfirmation, SetNConfirmation
<1>7. \A caller : OnFinal!SetWithdrawalWaitingTime(caller) <=> SetWithdrawalWaitingTime(caller)
  BY DEF OnFinal!SetWithdrawalWaitingTime, SetWithdrawalWaitingTime
<1>8. \A caller : OnFinal!SetMinDeposit(caller) <=> SetMinDeposit(caller)
  BY DEF OnFinal!SetMinDeposit, SetMinDeposit
<1>9. \A caller : OnFinal!SetEarliestHeight(caller) <=> SetEarliestHeight(caller)
  BY DEF OnFinal!SetEarliestHeight, SetEarliestHeight
<1>10. \A caller : OnFinal!SetSequenceHeights(caller) <=> SetSequenceHeights(caller)
  BY DEF OnFinal!SetSequenceHeights, SetSequenceHeights
<1>11. \A caller : OnFinal!SetPaused(caller) <=> SetPaused(caller)
  BY DEF OnFinal!SetPaused, SetPaused
<1> QED BY <1>1, <1>2, <1>3, <1>4, <1>5, <1>6, <1>7, <1>8, <1>9, <1>10, <1>11
          DEF OnFinal!OwnerStep, OwnerStep

(* the administration                                                      *)
LEMMA SameAdmin == OnFinal!AdminNext <=> AdminNext
<1> USE DEF OnFinal!ownership, OnFinal!rootVars
<1>1. \A s : OnFinal!SyncRootPubkey(s) <=> SyncRootPubkey(s)
  BY DEF OnFinal!SyncRootPubkey, SyncRootPubkey
<1>2. \A s : OnFinal!RootPubkeySet(s) <=> RootPubkeySet(s)
  BY DEF OnFinal!RootPubkeySet, RootPubkeySet
<1>3. \A s : OnFinal!RootPubkeyDropped(s) <=> RootPubkeyDropped(s)
  BY DEF OnFinal!RootPubkeyDropped, RootPubkeyDropped
<1> QED BY <1>1, <1>2, <1>3, SameOwnerStep
        DEF OnFinal!AdminNext, AdminNext, OnFinal!OnSyncRootPubkey, OnSyncRootPubkey

(* the rules for spending outputs                                          *)
LEMMA SameChain ==
  /\ \A t : OnFinal!DistinctInputs(t) <=> DistinctInputs(t)
  /\ \A t, i : OnFinal!MayUnlock(t, i) <=> MayUnlock(t, i)
  /\ \A t, o : OnFinal!Spends(t, o) <=> Spends(t, o)
BY DEF OnFinal!DistinctInputs, DistinctInputs, OnFinal!MayUnlock, MayUnlock,
       OnFinal!SpendsDeposit, SpendsDeposit, OnFinal!Spends, Spends,
       OnFinal!HasOut, HasOut, OnFinal!Out, Out, OnFinal!Usize, Usize

-----------------------------------------------------------------------------
(* A step of the contract that leaves the final part of the chain alone is *)
(* the same step there.                                                    *)

(* A handler does on the final part of the chain what it does here.        *)
LEMMA HandlerOnFinal ==
  ASSUME NEW c \in CallId, Handler(c), Final' = Final
  PROVE  OnFinal!Handler(c)
<1> USE DEF OnFinal!adminVars, OnFinal!chainVars
<1>1. ASSUME NEW t \in TxId, NEW embed \in Vout, NEW attached \in Payment,
             SubmitDepositTx(c, t, embed, attached)
      PROVE  OnFinal!SubmitDepositTx(c, t, embed, attached)
  BY <1>1, SameCalls, SameMessages DEF SubmitDepositTx, OnFinal!SubmitDepositTx
<1>2. ASSUME NEW u \in User, NEW amount \in Amount, QueueWithdrawalBip322(c, u, amount)
      PROVE  OnFinal!QueueWithdrawalBip322(c, u, amount)
  BY <1>2, SameCalls DEF QueueWithdrawalBip322, OnFinal!QueueWithdrawalBip322
<1>3. \A u, t, vin, partial, attached :
        OnFinal!RequestSignature(c, u, t, vin, partial, attached)
          <=> RequestSignature(c, u, t, vin, partial, attached)
  BY SameCalls DEF RequestSignature, OnFinal!RequestSignature
<1>4. ASSUME NEW u \in User, NEW t \in TxId, NEW vin \in DOMAIN Tx[t].ins,
             NEW partial \in Partial, NEW embed \in Vout \cup {None},
             NEW attached \in Payment, NEW storage \in Payment,
             SignFirst(c, u, t, vin, partial, embed, attached, storage)
      PROVE  OnFinal!SignFirst(c, u, t, vin, partial, embed, attached, storage)
  BY <1>3, <1>4, SameSign DEF SignFirst, OnFinal!SignFirst
<1>5. ASSUME NEW u \in User, NEW t \in TxId, NEW vin \in DOMAIN Tx[t].ins,
             NEW partial \in Partial, NEW attached \in Payment,
             SignAgain(c, u, t, vin, partial, attached)
      PROVE  OnFinal!SignAgain(c, u, t, vin, partial, attached)
  BY <1>3, <1>5, SameSign DEF SignAgain, OnFinal!SignAgain
<1>6. ASSUME NEW u \in User, NEW t \in TxId, NEW multisig \in Witnesses[t],
             SubmitWithdrawalTx(c, u, t, multisig)
      PROVE  OnFinal!SubmitWithdrawalTx(c, u, t, multisig)
  BY <1>6, SameCalls DEF SubmitWithdrawalTx, OnFinal!SubmitWithdrawalTx
<1> HIDE DEF OnFinal!adminVars, OnFinal!chainVars
<1>7. CASE \E t \in TxId, embed \in Vout, attached \in Payment :
             SubmitDepositTx(c, t, embed, attached)
  BY <1>1, <1>7 DEF OnFinal!Handler
<1>8. CASE \E u \in User, amount \in Amount : QueueWithdrawalBip322(c, u, amount)
  BY <1>2, <1>8 DEF OnFinal!Handler
<1>9. CASE \E u \in User, t \in TxId, partial \in Partial, attached \in Payment :
             \E vin \in DOMAIN Tx[t].ins :
               \/ \E embed \in Vout \cup {None}, storage \in Payment :
                     SignFirst(c, u, t, vin, partial, embed, attached, storage)
               \/ SignAgain(c, u, t, vin, partial, attached)
  <2>1. PICK u \in User, t \in TxId, partial \in Partial, attached \in Payment :
             \E vin \in DOMAIN Tx[t].ins :
               \/ \E embed \in Vout \cup {None}, storage \in Payment :
                     SignFirst(c, u, t, vin, partial, embed, attached, storage)
               \/ SignAgain(c, u, t, vin, partial, attached)
    BY <1>9
  <2>2. PICK vin \in DOMAIN Tx[t].ins :
               \/ \E embed \in Vout \cup {None}, storage \in Payment :
                     SignFirst(c, u, t, vin, partial, embed, attached, storage)
               \/ SignAgain(c, u, t, vin, partial, attached)
    BY <2>1
  <2>3. \/ \E embed \in Vout \cup {None}, storage \in Payment :
             OnFinal!SignFirst(c, u, t, vin, partial, embed, attached, storage)
        \/ OnFinal!SignAgain(c, u, t, vin, partial, attached)
    BY <1>4, <1>5, <2>2
  <2> QED BY <2>3 DEF OnFinal!Handler
<1>10. CASE \E u \in User, t \in TxId : \E multisig \in Witnesses[t] :
              SubmitWithdrawalTx(c, u, t, multisig)
  BY <1>6, <1>10 DEF OnFinal!Handler
<1> QED BY <1>7, <1>8, <1>9, <1>10 DEF Handler

(* What the light client said yes to must be final.                        *)
LEMMA CallbackOnFinal ==
  ASSUME NEW c \in CallId, Final' = Final,
         \/ ~AsksLightClient(calls[c]) /\ Callback(c)
         \/ /\ DepositSaved(c) \/ DepositNotSaved(c) \/ WithdrawalCompleted(c)
            /\ calls[c].tx \in Final
         \/ DepositRejected(c) \/ WithdrawalDropped(c)
  PROVE  OnFinal!Callback(c)
<1> USE SameCalls DEF OnFinal!adminVars, OnFinal!chainVars
<1>1. DepositRejected(c) => OnFinal!DepositRejected(c)
  BY DEF DepositRejected, OnFinal!DepositRejected
<1>2. \A t, embed : OnFinal!CanSaveDeposit(t, embed) <=> CanSaveDeposit(t, embed)
  BY SameVerify, SameMessages, SameDeposits DEF CanSaveDeposit, OnFinal!CanSaveDeposit
<1>3. DepositSaved(c) /\ calls[c].tx \in Final => OnFinal!DepositSaved(c)
  BY <1>2, SameMessages, SameDeposits DEF DepositSaved, OnFinal!DepositSaved
<1>4. DepositNotSaved(c) /\ calls[c].tx \in Final => OnFinal!DepositNotSaved(c)
  BY <1>2 DEF DepositNotSaved, OnFinal!DepositNotSaved
<1>5. WithdrawalCompleted(c) /\ calls[c].tx \in Final => OnFinal!WithdrawalCompleted(c)
  BY SameComplete DEF WithdrawalCompleted, OnFinal!WithdrawalCompleted
<1>6. WithdrawalDropped(c) => OnFinal!WithdrawalDropped(c)
  BY DEF WithdrawalDropped, OnFinal!WithdrawalDropped
<1>7. OnBip322Verify(c) => OnFinal!OnBip322Verify(c)
  BY SameQueue DEF OnBip322Verify, OnFinal!OnBip322Verify, Bip322Accepted,
     OnFinal!Bip322Accepted, Bip322Dropped, OnFinal!Bip322Dropped
<1>8. OnSignWithdrawal(c) => OnFinal!OnSignWithdrawal(c)
  BY DEF OnSignWithdrawal, OnFinal!OnSignWithdrawal, SignatureGiven,
     OnFinal!SignatureGiven, SignatureFailed, OnFinal!SignatureFailed
<1>9. OnVerifyDepositTx(c) \/ OnVerifyWithdrawalTx(c) => AsksLightClient(calls[c])
  BY DEF OnVerifyDepositTx, DepositRejected, DepositSaved, DepositNotSaved,
         OnVerifyWithdrawalTx, WithdrawalCompleted, WithdrawalDropped, Answer,
         AsksLightClient
<1> QED BY <1>1, <1>3, <1>4, <1>5, <1>6, <1>7, <1>8, <1>9
        DEF Callback, OnFinal!Callback, OnFinal!OnVerifyDepositTx,
            OnFinal!OnVerifyWithdrawalTx

(* So does what needs no call: queueing by ECDSA, the administration,      *)
(* time.                                                                   *)
LEMMA AloneOnFinal ==
  ASSUME Alone, Final' = Final
  PROVE  OnFinal!Next
<1> USE DEF OnFinal!adminVars, OnFinal!contractVars, OnFinal!chainVars
<1>1. ASSUME NEW u \in User, NEW amount \in Amount, QueueWithdrawalEcdsa(u, amount)
      PROVE  OnFinal!QueueWithdrawalEcdsa(u, amount)
  BY <1>1, SameQueue DEF QueueWithdrawalEcdsa, OnFinal!QueueWithdrawalEcdsa
<1>2. CASE AdminNext /\ UNCHANGED <<contractVars, chainVars>>
  BY <1>2, SameAdmin DEF OnFinal!Next
<1>3. CASE Tick
  BY <1>3 DEF Tick, OnFinal!Tick, OnFinal!Next
<1> QED BY <1>1, <1>2, <1>3 DEF Alone, OnFinal!Next

-----------------------------------------------------------------------------
(* The chain                                                               *)

Blocks(n) == {chain[h] : h \in 1 .. n} \ {None}

(* The transaction of block h follows from those below it, as Mine says.   *)
Follows(h) ==
  LET t == chain[h]
  IN  t # None =>
        /\ t \in TxId /\ t \notin Blocks(h - 1)
        /\ DistinctInputs(t)
        /\ \A i \in DOMAIN Tx[t].ins :
             /\ Tx[t].ins[i].prev[1] \in TxId => Tx[t].ins[i].prev[1] \in Blocks(h - 1)
             /\ \A other \in Blocks(h - 1) : ~Spends(other, Tx[t].ins[i].prev)
             /\ MayUnlock(t, i)

ChainInv ==
  /\ chain \in Seq(TxId \cup {None})
  /\ best \in Nat
  /\ best - MaxReorg <= Len(chain) /\ Len(chain) <= best
  /\ \A h \in 1 .. Len(chain) : Follows(h)

(* The final part is made of the blocks up to a height.                    *)
LEMMA FinalIsBlocks == Final = Blocks(best - MaxReorg)
BY DEF Final, Blocks

(* A chain that agrees up to block n has the same blocks up to there.      *)
LEMMA SameBlocks ==
  ASSUME NEW n \in Int, \A h \in 1 .. n : chain'[h] = chain[h]
  PROVE  /\ Blocks(n)' = Blocks(n)
         /\ \A k \in Int : k <= n => Blocks(k)' = Blocks(k)
BY DEF Blocks

(* A block follows from those below it as long as these stay.              *)
LEMMA StillFollows ==
  ASSUME NEW n \in Int, \A h \in 1 .. n : chain'[h] = chain[h], sigs \subseteq sigs',
         NEW h \in 1 .. n, Follows(h)
  PROVE  Follows(h)'
<1>1. Blocks(h - 1)' = Blocks(h - 1) /\ chain'[h] = chain[h]
  BY SameBlocks
<1>2. \A t, i : MayUnlock(t, i) => MayUnlock(t, i)'
  BY DEF MayUnlock
<1> QED BY <1>1, <1>2 DEF Follows

(* Steps that do not extend the chain leave its final part alone: blocks   *)
(* that a reorganisation drops are not that deep.                          *)
LEMMA ChainKept ==
  ASSUME ChainInv, UNCHANGED <<chain, best>>, sigs \subseteq sigs'
  PROVE  ChainInv' /\ Final' = Final
<1>1. \A h \in 1 .. Len(chain) : Follows(h)'
  BY StillFollows DEF ChainInv
<1> QED BY <1>1 DEF ChainInv, Final

(* A reorganisation leaves the final part of the chain alone: the blocks   *)
(* it drops are not that deep.                                             *)
LEMMA ReorgKeepsFinal ==
  ASSUME ChainInv, NEW height \in 0 .. Len(chain) - 1, Reorg(height)
  PROVE  ChainInv' /\ Final' = Final
<1> USE ConfirmationsAssumption
<1>1. /\ chain' = SubSeq(chain, 1, height) /\ best' = best /\ sigs' = sigs
      /\ best - MaxReorg <= height /\ height \in Nat /\ height <= Len(chain)
  BY DEF Reorg, ChainInv
<1>2. /\ chain' \in Seq(TxId \cup {None}) /\ Len(chain') = height
      /\ \A h \in 1 .. height : chain'[h] = chain[h]
  BY <1>1 DEF ChainInv
<1>3. \A h \in 1 .. height : Follows(h)'
  BY <1>1, <1>2, StillFollows DEF ChainInv
<1>4. Final' = Final
  BY <1>1, <1>2 DEF Final, ChainInv
<1> QED BY <1>1, <1>2, <1>3, <1>4 DEF ChainInv

(* A new block makes one block final at most, and what it holds then is    *)
(* what Mine may take next.                                                *)
LEMMA NewBlockMines ==
  ASSUME ChainInv, NEW t \in TxId \cup {None}, NewBlock(t)
  PROVE  /\ ChainInv'
         /\ Final' = Final \/ \E x \in TxId : OnFinal!Mine(x)
<1> USE ConfirmationsAssumption
<1>0. PICK n \in Nat : n = Len(chain)
  BY DEF ChainInv
<1>1. /\ chain' \in Seq(TxId \cup {None}) /\ Len(chain') = n + 1 /\ chain'[n + 1] = t
      /\ \A h \in 1 .. n : chain'[h] = chain[h]
      /\ best \in Nat /\ sigs' = sigs
      /\ best' = IF n = best THEN best + 1 ELSE best
  BY <1>0 DEF NewBlock, ChainInv
<1>2. best' \in Nat /\ best' - MaxReorg <= n + 1 /\ n + 1 <= best'
  BY <1>0, <1>1 DEF ChainInv
<1>3. \A k \in Int : k <= n => Blocks(k)' = Blocks(k)
  BY <1>1, SameBlocks
<1>4. \A h \in 1 .. n : Follows(h)'
  BY <1>0, <1>1, StillFollows DEF ChainInv
<1>5. \A y, i : MayUnlock(y, i)' <=> MayUnlock(y, i)
  BY <1>1 DEF MayUnlock
<1>6. Follows(n + 1)'
  <2>1. CASE t = None
    BY <1>1, <2>1 DEF Follows
  <2>2. CASE t # None
    <3>1. Mineable(t)
      BY <2>2 DEF NewBlock
    <3>2. OnChain = Blocks(n)'
      <4>1. OnChain = Blocks(n)
        BY <1>0 DEF OnChain, Blocks, ChainInv
      <4> QED BY <1>3, <4>1
    <3>3. (n + 1) - 1 = n
      OBVIOUS
    <3> QED BY <1>1, <1>5, <2>2, <3>1, <3>2, <3>3 DEF Follows, Mineable
  <2> QED BY <2>1, <2>2
<1>7. ChainInv'
  <2>1. \A h \in 1 .. n + 1 : Follows(h)'
    BY <1>4, <1>6
  <2> QED BY <1>1, <1>2, <2>1 DEF ChainInv
<1>8. CASE n # best
  <2>1. Final' = Final
    BY <1>0, <1>1, <1>8 DEF Final, ChainInv
  <2> QED BY <1>7, <2>1
<1>9. CASE n = best
  <2>1. PICK k \in Int : k = best - MaxReorg
    BY <1>1
  <2>2. best' - MaxReorg = k + 1 /\ k <= n
    BY <1>1, <1>9, <2>1
  <2>3. Final = Blocks(k) /\ Final' = Blocks(k + 1)'
    BY <2>1, <2>2 DEF Final, Blocks
  <2>4. Final = Blocks(k)'
    BY <1>3, <2>2, <2>3
  <2>5. CASE k < 0
    <3>1. 1 .. k = {} /\ 1 .. k + 1 = {}
      BY <2>5
    <3> QED BY <1>7, <2>3, <3>1 DEF Blocks
  <2>6. CASE k >= 0
    <3>1. PICK x : x = chain'[k + 1]
      OBVIOUS
    <3>2. Final' = Final \cup ({x} \ {None})
      <4>1. 1 .. k + 1 = (1 .. k) \cup {k + 1}
        BY <2>6
      <4> QED BY <2>3, <2>4, <3>1, <4>1 DEF Blocks
    <3>3. CASE x = None
      BY <1>7, <3>2, <3>3
    <3>4. CASE x # None
      <4>1. Follows(k + 1)'
        BY <1>4, <1>6, <2>2, <2>6
      <4>2. (k + 1) - 1 = k
        OBVIOUS
      <4>3. /\ x \in TxId /\ x \notin Final
            /\ DistinctInputs(x)
            /\ \A i \in DOMAIN Tx[x].ins :
                 /\ Tx[x].ins[i].prev[1] \in TxId => Tx[x].ins[i].prev[1] \in Final
                 /\ \A other \in Final : ~Spends(other, Tx[x].ins[i].prev)
                 /\ MayUnlock(x, i)
        BY <1>5, <2>4, <3>1, <3>4, <4>1, <4>2 DEF Follows
      <4>4. Final' = Final \cup {x}
        BY <3>2, <3>4
      <4>5. UNCHANGED <<adminVars, contractVars, now, sigs>>
        BY DEF NewBlock
      <4>6. OnFinal!Mine(x)
        BY <4>3, <4>4, <4>5, SameChain
        DEF OnFinal!Mine, OnFinal!adminVars, OnFinal!contractVars
      <4> QED BY <1>7, <4>3, <4>6
    <3> QED BY <3>3, <3>4
  <2> QED BY <2>5, <2>6
<1> QED BY <1>8, <1>9

-----------------------------------------------------------------------------
(* What the light client was asked, and what it answered                   *)

(* Whatever number of confirmations a call asks for, a yes is about a      *)
(* transaction that stays.                                                 *)
AskedInv(c) ==
  /\ asked[c].confirmations # None =>
       /\ asked[c].confirmations \in Nat /\ asked[c].confirmations > MaxReorg
       /\ AsksLightClient(calls[c])
  /\ asked[c].answer = TRUE => AsksLightClient(calls[c]) /\ calls[c].tx \in Final

ConfInv ==
  /\ TypeOK
  /\ ChainInv
  /\ config.nConf > MaxReorg
  /\ DOMAIN asked = CallId
  /\ \A c \in CallId : DOMAIN asked[c] = {"confirmations", "answer"}
  /\ \A c \in CallId : AskedInv(c)

(* No answer is not a yes.                                                 *)
LEMMA NoneIsNoYes == None # TRUE
BY ConfirmationsAssumption

DeepEnough == MaxReorg < InitConfig.nConf /\ \A n \in Settable.nConf \ {0} : MaxReorg < n

(* The owner never sets fewer confirmations than are deep enough.          *)
LEMMA AdminKeepsDeepEnough ==
  ASSUME DeepEnough, TypeOK, config.nConf > MaxReorg, AdminNext
  PROVE  config'.nConf > MaxReorg
<1>1. config \in Config
  BY DEF TypeOK, AdminTypeOK
<1>2. ASSUME NEW caller, SetNConfirmation(caller) PROVE config'.nConf > MaxReorg
  BY <1>1, <1>2, AdminAssumption, ConfirmationsAssumption
  DEF SetNConfirmation, DeepEnough, Config
<1>3. ASSUME NEW caller, OwnerStep(caller), ~SetNConfirmation(caller)
      PROVE  config'.nConf = config.nConf
  BY <1>1, <1>3
  DEF OwnerStep, ProposeChangeOwner, AcceptChangeOwner, SetLightClient, SetVerifier,
      SetChainSignatures, SetWithdrawalWaitingTime, SetMinDeposit, SetEarliestHeight,
      SetSequenceHeights, SetPaused, Config
<1>4. ASSUME NEW s, SyncRootPubkey(s) \/ OnSyncRootPubkey(s)
      PROVE  config' = config
  BY <1>4 DEF SyncRootPubkey, OnSyncRootPubkey, RootPubkeySet, RootPubkeyDropped
<1> QED BY <1>2, <1>3, <1>4 DEF AdminNext

(* The invariant holds at first, where nothing is final.                   *)
LEMMA ConfInitHolds ==
  ASSUME DeepEnough, ConfInit
  PROVE  ConfInv /\ OnFinal!Init
<1> USE ConfirmationsAssumption
<1>1. TypeOK
  BY NewAccountType, TypesAssumption, AdminAssumption, BitHiveAssumption, AccountAssumption
  DEF ConfInit, Init, AdminInit, TypeOK, AdminTypeOK, U64
<1>2. chain = <<>> /\ best = 0
  BY DEF ConfInit
<1>3. ChainInv
  BY <1>2 DEF ChainInv
<1>4. Final = {}
  BY <1>2 DEF Final
<1>5. OnFinal!Init
  BY <1>4 DEF ConfInit, Init, AdminInit, OnFinal!Init, OnFinal!AdminInit,
              OnFinal!NewAccount, NewAccount, OnFinal!NoCall, NoCall
<1>6. \A c \in CallId : asked[c] = NotAsked
  BY DEF ConfInit
<1> QED BY <1>1, <1>3, <1>5, <1>6
        DEF ConfInv, AskedInv, NotAsked, ConfInit, Init, AdminInit, DeepEnough

(* A handler asks for the confirmations of today, which are deep enough.   *)
LEMMA HandleStep ==
  ASSUME ConfInv, NEW c \in CallId, Handle(c)
  PROVE  ConfInv' /\ OnFinal!Next
<1> USE ConfirmationsAssumption
<1>1. Handler(c) /\ UNCHANGED <<adminVars, chainVars, chain, best>>
  BY HandlerLeaves DEF Handle
<1>2. TypeOK'
  BY <1>1, HandlerType DEF ConfInv
<1>3. ChainInv' /\ Final' = Final
  BY <1>1, ChainKept DEF ConfInv
<1>4. OnFinal!Next
  BY <1>1, <1>3, HandlerOnFinal DEF OnFinal!Next
<1>5. PICK call : calls' = [calls EXCEPT ![c] = call]
  BY <1>1, HandlerLeaves DEF Send
<1>6. \A d \in CallId : d # c => asked'[d] = asked[d] /\ calls'[d] = calls[d]
  BY <1>5 DEF Handle, ConfInv, TypeOK
<1>7. DOMAIN asked' = CallId /\ asked'[c] = Ask(calls'[c])
  BY DEF Handle, ConfInv
<1>8. config.nConf \in Nat
  BY DEF ConfInv, TypeOK, AdminTypeOK, Config
<1>9. AskedInv(c)' /\ DOMAIN asked'[c] = {"confirmations", "answer"}
  <2>1. \/ /\ AsksLightClient(calls'[c])
           /\ asked'[c] = [confirmations |-> config.nConf, answer |-> None]
        \/ asked'[c] = [confirmations |-> None, answer |-> None]
    BY <1>7 DEF Ask, NotAsked
  <2>2. asked'[c].answer = None /\ DOMAIN asked'[c] = {"confirmations", "answer"}
    BY <2>1
  <2>3. asked'[c].answer # TRUE
    BY <2>2, NoneIsNoYes
  <2>4. config.nConf > MaxReorg
    BY DEF ConfInv
  <2>5. asked'[c].confirmations # None =>
          /\ asked'[c].confirmations \in Nat /\ asked'[c].confirmations > MaxReorg
          /\ AsksLightClient(calls'[c])
    BY <1>8, <2>1, <2>4
  <2> QED BY <2>2, <2>3, <2>5 DEF AskedInv, AsksLightClient
<1>10. \A d \in CallId : AskedInv(d)' /\ DOMAIN asked'[d] = {"confirmations", "answer"}
  BY <1>3, <1>6, <1>9 DEF AskedInv, ConfInv, AsksLightClient
<1> QED BY <1>1, <1>2, <1>3, <1>4, <1>7, <1>10 DEF ConfInv

(* A callback acts on a yes only about what is final.                      *)
LEMMA ReturnStep ==
  ASSUME ConfInv, NEW c \in CallId, Return(c)
  PROVE  ConfInv' /\ OnFinal!Next
<1> USE ConfirmationsAssumption
<1>1. Callback(c) /\ UNCHANGED <<chain, best>>
  BY DEF Return, Callback, OnVerifyDepositTx, OnVerifyWithdrawalTx
<1>2. UNCHANGED <<adminVars, now, mined>> /\ sigs \subseteq sigs'
  BY <1>1, CallbackLeaves DEF SignatureGiven
<1>3. TypeOK'
  BY <1>1, CallbackType DEF ConfInv
<1>4. ChainInv' /\ Final' = Final
  BY <1>1, <1>2, ChainKept DEF ConfInv
<1>5. OnFinal!Callback(c)
  <2>1. asked[c].answer = TRUE => calls[c].tx \in Final
    BY DEF ConfInv, AskedInv
  <2> QED BY <1>4, <2>1, CallbackOnFinal DEF Return, OnVerifyWithdrawalTx
<1>6. calls' = [calls EXCEPT ![c] = NoCall]
  BY <1>1, CallbackLeaves DEF Answer
<1>7. \A d \in CallId : d # c => asked'[d] = asked[d] /\ calls'[d] = calls[d]
  BY <1>6 DEF Return, ConfInv, TypeOK
<1>8. DOMAIN asked' = CallId /\ asked'[c] = NotAsked
  BY DEF Return, ConfInv
<1>9. \A d \in CallId : AskedInv(d)' /\ DOMAIN asked'[d] = {"confirmations", "answer"}
  <2>9. asked'[c].answer = None /\ asked'[c].confirmations = None
    BY <1>8 DEF NotAsked
  <2>1. asked'[c].answer # TRUE /\ asked'[c].confirmations = None
    BY <2>9, NoneIsNoYes
  <2>2. AskedInv(c)' /\ DOMAIN asked'[c] = {"confirmations", "answer"}
    BY <1>8, <2>1 DEF AskedInv, NotAsked
  <2> QED BY <1>4, <1>7, <2>2 DEF AskedInv, ConfInv, AsksLightClient
<1>10. OnFinal!Next
  BY <1>5 DEF OnFinal!Next
<1> QED BY <1>2, <1>3, <1>4, <1>8, <1>9, <1>10 DEF ConfInv

(* The light client says yes to what has more blocks above it than are     *)
(* ever replaced.                                                          *)
LEMMA ConfirmedIsFinal ==
  ASSUME ChainInv, NEW t \in TxId, NEW n \in Nat, n > MaxReorg, Confirmed(t, n)
  PROVE  t \in Final
<1>1. PICK h \in DOMAIN chain : chain[h] = t /\ Len(chain) - h + 1 >= n
  BY DEF Confirmed
<1>2. h \in Nat /\ h >= 1 /\ Len(chain) \in Nat /\ best \in Nat /\ Len(chain) <= best
  BY <1>1 DEF ChainInv
<1>3. h \in 1 .. best - MaxReorg
  BY <1>1, <1>2, ConfirmationsAssumption
<1> QED BY <1>1, <1>3, BitHiveAssumption DEF Final

(* The light client changes nothing on the final part; its yes is true     *)
(* there.                                                                  *)
LEMMA LightClientStep ==
  ASSUME ConfInv, NEW c \in CallId, LightClientConfirms(c) \/ LightClientRefuses(c)
  PROVE  ConfInv' /\ UNCHANGED OnFinal!vars
<1> USE ConfirmationsAssumption
<1>1. UNCHANGED <<adminVars, contractVars, now, sigs, chain, best>>
  BY DEF LightClientConfirms, LightClientRefuses
<1>2. ChainInv' /\ Final' = Final
  BY <1>1, ChainKept DEF ConfInv
<1>3. /\ asked[c].confirmations \in Nat /\ asked[c].confirmations > MaxReorg
      /\ AsksLightClient(calls[c]) /\ calls[c].tx \in TxId
  BY CallKinds
  DEF LightClientConfirms, LightClientRefuses, ConfInv, AskedInv, AsksLightClient,
      DepositCall, WithdrawCall
<1>4. PICK yes \in BOOLEAN : /\ asked' = [asked EXCEPT ![c].answer = yes]
                             /\ yes => LightClientConfirms(c)
  BY DEF LightClientConfirms, LightClientRefuses
<1>5. yes => calls[c].tx \in Final
  BY <1>3, <1>4, ConfirmedIsFinal DEF LightClientConfirms, ConfInv
<1>6. /\ DOMAIN asked' = CallId
      /\ \A d \in CallId : d # c => asked'[d] = asked[d]
      /\ asked'[c].confirmations = asked[c].confirmations
      /\ asked'[c].answer = yes /\ DOMAIN asked'[c] = {"confirmations", "answer"}
  BY <1>4 DEF ConfInv
<1>7. \A d \in CallId : AskedInv(d)' /\ DOMAIN asked'[d] = {"confirmations", "answer"}
  BY <1>1, <1>2, <1>3, <1>5, <1>6 DEF AskedInv, ConfInv, AsksLightClient
<1>8. TypeOK'
  BY <1>1, <1>3 DEF ConfInv, TypeOK, AdminTypeOK, LightClientConfirms, LightClientRefuses
<1>9. UNCHANGED OnFinal!vars
  BY <1>1, <1>2 DEF OnFinal!vars, OnFinal!adminVars, OnFinal!contractVars, OnFinal!chainVars
<1> QED BY <1>1, <1>2, <1>6, <1>7, <1>8, <1>9 DEF ConfInv

(* A new block or a reorganisation is Mine on the final part, or nothing.  *)
LEMMA ChainStep ==
  ASSUME ConfInv,
         \/ \E t \in TxId \cup {None} : NewBlock(t)
         \/ \E height \in 0 .. Len(chain) - 1 : Reorg(height)
  PROVE  ConfInv' /\ (OnFinal!Next \/ UNCHANGED OnFinal!vars)
<1>1. UNCHANGED <<adminVars, contractVars, chainVars, asked>>
  BY DEF NewBlock, Reorg
<1>2. ChainInv' /\ (Final' = Final \/ \E x \in TxId : OnFinal!Mine(x))
  BY NewBlockMines, ReorgKeepsFinal DEF ConfInv
<1>3. OnFinal!Next \/ UNCHANGED OnFinal!vars
  BY <1>1, <1>2
  DEF OnFinal!Next, OnFinal!vars, OnFinal!adminVars, OnFinal!contractVars, OnFinal!chainVars
<1>4. Final \subseteq Final'
  BY <1>2 DEF OnFinal!Mine
<1>5. \A c \in CallId : AskedInv(c)'
  BY <1>1, <1>4 DEF AskedInv, ConfInv, AsksLightClient
<1>6. TypeOK'
  BY <1>1 DEF ConfInv, TypeOK, AdminTypeOK
<1> QED BY <1>1, <1>2, <1>3, <1>5, <1>6 DEF ConfInv

(* The other steps keep the invariant.                                     *)
LEMMA AloneStep ==
  ASSUME DeepEnough, ConfInv, Alone
  PROVE  ConfInv' /\ OnFinal!Next
<1>1. /\ UNCHANGED <<calls, mined, sigs, chain, best, asked>>
      /\ AdminNext \/ config' = config
  BY DEF Alone, QueueWithdrawalEcdsa, Tick
<1>2. ChainInv' /\ Final' = Final
  BY <1>1, ChainKept DEF ConfInv
<1>3. TypeOK'
  BY TypeStep DEF Alone, Next, ConfInv
<1>4. config'.nConf > MaxReorg
  BY <1>1, AdminKeepsDeepEnough DEF ConfInv
<1>5. \A c \in CallId : AskedInv(c)'
  BY <1>1, <1>2 DEF AskedInv, ConfInv, AsksLightClient
<1> QED BY <1>1, <1>2, <1>3, <1>4, <1>5, AloneOnFinal DEF ConfInv

-----------------------------------------------------------------------------
(* If every number of confirmations the contract is ever given is above    *)
(* the number of blocks that may be replaced, the contract on a chain that *)
(* reorganises does what BitHive does on the final part of that chain,     *)
(* however late an answer of the light client comes and whatever was set   *)
(* or replaced in between: no deposit is recorded and no withdrawal        *)
(* completed for a transaction that can still go.                          *)
THEOREM ConfirmationsCorrect ==
  ASSUME DeepEnough
  PROVE  ConfSpec => ImplementsFinal
<1>1. ConfInit => ConfInv /\ OnFinal!Init
  BY ConfInitHolds
<1>2. ConfInv /\ [ConfNext]_<<vars, confVars>> =>
        ConfInv' /\ [OnFinal!Next]_(OnFinal!vars)
  <2> SUFFICES ASSUME ConfInv, [ConfNext]_<<vars, confVars>>
               PROVE  ConfInv' /\ [OnFinal!Next]_(OnFinal!vars)
    OBVIOUS
  <2>1. CASE UNCHANGED <<vars, confVars>>
    <3>1. Final' = Final /\ ChainInv'
      BY <2>1, ChainKept DEF ConfInv, vars
    <3>2. TypeOK' /\ UNCHANGED <<config, asked, calls>>
      BY <2>1, TypeStep DEF ConfInv, vars
    <3>3. \A c \in CallId : AskedInv(c)'
      BY <3>1, <3>2 DEF AskedInv, ConfInv, AsksLightClient
    <3>4. UNCHANGED OnFinal!vars
      BY <2>1, <3>1
      DEF vars, OnFinal!vars, OnFinal!adminVars, OnFinal!contractVars, OnFinal!chainVars
    <3> QED BY <3>1, <3>2, <3>3, <3>4 DEF ConfInv
  <2>2. CASE ConfNext
    BY <2>2, HandleStep, ReturnStep, LightClientStep, ChainStep, AloneStep DEF ConfNext
  <2> QED BY <2>1, <2>2
<1> QED BY <1>1, <1>2, PTL DEF ConfSpec, ImplementsFinal

=============================================================================

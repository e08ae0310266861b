--------------------------- MODULE Confirmations ---------------------------
(***************************************************************************)
(* BitHive over a chain that reorganises. BitHive takes a transaction to   *)
(* be mined for good. Here blocks may be replaced, the light client is     *)
(* asked by one receipt and answers in another, and the callback runs in a *)
(* third: when it acts, the number of confirmations it was asked for may   *)
(* be an old parameter, and the block it was shown may be gone.            *)
(*                                                                         *)
(* In this module the variable mined is what the light client has vouched  *)
(* for. What is really on the chain is in chain; that the two agree where  *)
(* it matters is ImplementsFinal.                                          *)
(***************************************************************************)
EXTENDS BitHive

CONSTANTS
  MaxReorg,   \* the most blocks that are ever replaced
  MaxHeight   \* bound on the length of the chain

ASSUME ConfirmationsAssumption ==
  MaxReorg \in Nat /\ MaxHeight \in Nat /\ None \notin BOOLEAN

VARIABLES
  chain,   \* the best chain: the transaction of each block, or None
  best,    \* the greatest height the chain has had
  asked    \* for each call in flight, what the light client was asked for

confVars == <<chain, best, asked>>

NotAsked == [confirmations |-> None, answer |-> None]

ConfInit ==
  /\ Init
  /\ chain = <<>>
  /\ best = 0
  /\ asked = [c \in CallId |-> NotAsked]

-----------------------------------------------------------------------------
(* the Bitcoin chain *)

OnChain == {chain[h] : h \in DOMAIN chain} \ {None}

Mineable(t) ==
  /\ t \notin OnChain
  /\ DistinctInputs(t)
  /\ \A i \in DOMAIN Tx[t].ins :
       /\ Tx[t].ins[i].prev[1] \in TxId => Tx[t].ins[i].prev[1] \in OnChain
       /\ \A other \in OnChain : ~Spends(other, Tx[t].ins[i].prev)
       /\ MayUnlock(t, i)

NewBlock(t) ==
  /\ Len(chain) < MaxHeight
  /\ t # None => Mineable(t)
  /\ chain' = Append(chain, t)
  /\ best' = IF Len(chain) = best THEN best + 1 ELSE best
  /\ UNCHANGED <<adminVars, contractVars, chainVars, asked>>

(* Another branch takes over: the blocks above height are dropped, and     *)
(* those that replace them follow as new blocks.                           *)
Reorg(height) ==
  /\ best - MaxReorg <= height
  /\ chain' = SubSeq(chain, 1, height)
  /\ UNCHANGED <<adminVars, contractVars, chainVars, best, asked>>

(* Blocks with MaxReorg others above them stay. *)
Final == {chain[h] : h \in 1 .. best - MaxReorg} \ {None}

-----------------------------------------------------------------------------
(* the light client *)

AsksLightClient(call) == call.kind \in {"deposit", "withdraw"}

(* mistake: one confirmation less *)
AskShallow(call) ==
  IF AsksLightClient(call)
  THEN [confirmations |-> config.nConf - 1, answer |-> None]
  ELSE NotAsked

(* ProofArgs: the number of confirmations is the parameter of today.       *)
Ask(call) ==
  IF AsksLightClient(call)
  THEN [confirmations |-> config.nConf, answer |-> None]
  ELSE NotAsked

Confirmed(t, confirmations) ==
  \E h \in DOMAIN chain : chain[h] = t /\ Len(chain) - h + 1 >= confirmations

(* verify_transaction_inclusion: true for a transaction of the best chain  *)
(* that is deep enough now.                                                *)
LightClientConfirms(c) ==
  /\ asked[c].confirmations # None /\ asked[c].answer = None
  /\ Confirmed(calls[c].tx, asked[c].confirmations)
  /\ asked' = [asked EXCEPT ![c].answer = TRUE]
  /\ mined' = mined \cup {calls[c].tx}
  /\ UNCHANGED <<adminVars, contractVars, now, sigs, chain, best>>

(* The proof is wrong or names a block that is gone, or the call fails.    *)
LightClientRefuses(c) ==
  /\ asked[c].confirmations # None /\ asked[c].answer = None
  /\ asked' = [asked EXCEPT ![c].answer = FALSE]
  /\ UNCHANGED <<adminVars, contractVars, chainVars, chain, best>>

-----------------------------------------------------------------------------
(* the contract *)

Handle(c) ==
  /\ Handler(c)
  /\ asked' = [asked EXCEPT ![c] = Ask(calls'[c])]
  /\ UNCHANGED <<chain, best>>

(* result.unwrap_or(false) decides which outcomes a callback has.          *)
Return(c) ==
  /\ \/ ~AsksLightClient(calls[c]) /\ Callback(c)
     \/ /\ asked[c].answer = TRUE
        /\ DepositSaved(c) \/ DepositNotSaved(c) \/ OnVerifyWithdrawalTx(c)
     \/ /\ asked[c].answer = FALSE
        /\ DepositRejected(c) \/ WithdrawalDropped(c)
  /\ asked' = [asked EXCEPT ![c] = NotAsked]
  /\ UNCHANGED <<chain, best>>

Alone ==
  /\ \/ \E u \in User, amount \in Amount : QueueWithdrawalEcdsa(u, amount)
     \/ AdminNext /\ UNCHANGED <<contractVars, chainVars>>
     \/ Tick
  /\ UNCHANGED confVars

ConfNext ==
  \/ \E c \in CallId :
       Handle(c) \/ Return(c) \/ LightClientConfirms(c) \/ LightClientRefuses(c)
  \/ \E t \in TxId \cup {None} : NewBlock(t)
  \/ \E height \in 0 .. Len(chain) - 1 : Reorg(height)
  \/ Alone

ConfSpec == ConfInit /\ [][ConfNext]_<<vars, confVars>>

-----------------------------------------------------------------------------
(* With more confirmations asked for than blocks are ever replaced, the    *)
(* contract on a chain that reorganises is the contract of BitHive on the  *)
(* final part of that chain: whatever is answered late, under whichever    *)
(* parameter it was asked, nothing is recorded or completed for a          *)
(* transaction that is gone or may still go. What BitHive is shown to do   *)
(* carries over.                                                           *)
OnFinal == INSTANCE BitHive WITH mined <- Final

ImplementsFinal == OnFinal!Init /\ [][OnFinal!Next]_(OnFinal!vars)

=============================================================================

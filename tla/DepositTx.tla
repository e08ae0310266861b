----------------------------- MODULE DepositTx -----------------------------
(***************************************************************************)
(* Bitcoin transactions as the contract reads them, and the checks of      *)
(* deposit.rs that decide whether an output of one is a deposit.           *)
(*                                                                         *)
(* A transaction never changes once it has an id, so Tx is a constant      *)
(* function: Tx[t] has the inputs ins, a sequence of                       *)
(*    [prev |-> <<txid, vout>>, seq |-> "final" | "locktime" | "csv"]      *)
(* (seq tells apart the sequence numbers the code and the chain tell       *)
(* apart: 0xffffffff, one that merely enables the absolute lock time, and  *)
(* one that also satisfies a relative lock), the lock time lock, and the   *)
(* outputs outs, a sequence of records with a value and a type:            *)
(*    "embed"    an OP_RETURN that decodes to (vout, user, height)         *)
(*    "deposit"  the P2WSH of deposit_script_v1(user, key, height)         *)
(*    "other"    anything else                                             *)
(* A signature does not change the id: the unsigned transaction of a PSBT  *)
(* and the mined one are the same t.                                       *)
(***************************************************************************)
EXTENDS Types, Sequences

CONSTANTS
  User,        \* public keys of users
  TxId,        \* transaction ids
  Vout,        \* output indices a message may carry: values of a u64
  Tx,          \* the transaction with each id
  UsizeMod,    \* 2^32: usize has 32 bits on wasm32
  LockHeights  \* 500,000,000: lock times below it are block heights

ASSUME DepositTxAssumption ==
  /\ Vout \subseteq Nat
  /\ UsizeMod \in Nat \ {0}
  /\ LockHeights \in Nat
  /\ None \notin Vout
  /\ \A t \in TxId :
       Len(Tx[t].ins) \in Nat /\ DOMAIN Tx[t].ins = 1 .. Len(Tx[t].ins)
  /\ \A t \in TxId : \A i \in DOMAIN Tx[t].ins :  \* an outpoint's vout is a u32
        Tx[t].ins[i].prev \in TxId \X Vout => Tx[t].ins[i].prev[2] < UsizeMod
  /\ \A t \in TxId : \A i \in DOMAIN Tx[t].outs :
        /\ Tx[t].outs[i].type = "embed" => Tx[t].outs[i].vout \in Vout
        /\ Tx[t].outs[i].value \in Nat

(* output_id(txid, vout): the vout is the u64 of the message *)
OutputId == TxId \X Vout

(* `vout as usize` keeps the low 32 bits *)
Usize(vout) == vout % UsizeMod

HasOut(t, vout) == Usize(vout) + 1 \in DOMAIN Tx[t].outs
Out(t, vout) == Tx[t].outs[Usize(vout) + 1]

(* the outpoint of the chain that an output id stands for *)
Outpoint(o) == <<o[1], Usize(o[2])>>

(* Bitcoin's rule that a transaction does not spend an output twice *)
DistinctInputs(t) ==
  \A i, j \in DOMAIN Tx[t].ins : Tx[t].ins[i].prev = Tx[t].ins[j].prev => i = j

(* value of a deposit, in satoshi *)
Value(o) == Out(o[1], o[2]).value

-----------------------------------------------------------------------------

(* verify_embed_output: the output exists, is an OP_RETURN, holds nothing  *)
(* and decodes.                                                            *)
VerifyEmbedOutput(t, embed) ==
  /\ HasOut(t, embed)
  /\ Out(t, embed).type = "embed"
  /\ Out(t, embed).value = 0

DepositVout(t, embed) == Out(t, embed).vout
DepositUser(t, embed) == Out(t, embed).user
DepositId(t, embed) == <<t, DepositVout(t, embed)>>

(* mistake: the lock time must be the earliest height of today *)
TimelockEqual(earliest, t) ==
  /\ \A i \in DOMAIN Tx[t].ins : Tx[t].ins[i].seq # "final"
  /\ earliest < LockHeights
  /\ earliest = Tx[t].lock

(* verify_timelock; from_height(earliest).unwrap() panics at 500,000,000   *)
VerifyTimelock(earliest, t) ==
  /\ \A i \in DOMAIN Tx[t].ins : Tx[t].ins[i].seq # "final"
  /\ earliest < LockHeights
  /\ Tx[t].lock < LockHeights
  /\ earliest <= Tx[t].lock

(* verify_deposit_output_v1: the script hash is the one of (user, height)  *)
(* under the synced root key; generate_btc_pubkey panics without a key.    *)
VerifyDepositOutputV1(out, user, height, rootKey) ==
  /\ rootKey # None
  /\ out.type = "deposit"
  /\ out.user = user
  /\ out.height = height
  /\ out.key = rootKey

(* verify_deposit_txn: TRUE iff it returns a Deposit instead of panicking. *)
VerifyDepositTxn(config, rootKey, t, embed) ==
  /\ VerifyEmbedOutput(t, embed)
  /\ Out(t, embed).height \in config.seqHeights
  /\ config.earliest > 0 => VerifyTimelock(config.earliest, t)
  /\ HasOut(t, DepositVout(t, embed))
  /\ DepositUser(t, embed) \in User
  /\ VerifyDepositOutputV1(Out(t, DepositVout(t, embed)),
                           DepositUser(t, embed), Out(t, embed).height, rootKey)
  /\ Out(t, DepositVout(t, embed)).value >= config.minDeposit

=============================================================================

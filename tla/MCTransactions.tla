--------------------------- MODULE MCTransactions ---------------------------
(***************************************************************************)
(* The Bitcoin transactions, parameters and witnesses of the instances     *)
(* that TLC checks: values for the constants of BitHive.                   *)
(***************************************************************************)
EXTENDS Integers

(* transactions *)

Coin(n) == [prev |-> <<"coinbase", n>>, seq |-> "locktime"]
FinalCoin(n) == [prev |-> <<"coinbase", n>>, seq |-> "final"]
Input(t, vout, seq) == [prev |-> <<t, vout>>, seq |-> seq]

DepositOut(user, value) ==
  [type |-> "deposit", user |-> user, key |-> "k1", height |-> 5, value |-> value]
EmbedOut(user, vout) ==
  [type |-> "embed", user |-> user, vout |-> vout, height |-> 5, value |-> 0]
OtherOut(value) == [type |-> "other", value |-> value]

Transaction(ins, outs) == [ins |-> ins, outs |-> outs, lock |-> 7]

BaseConfig ==
  [paused |-> FALSE, lightClient |-> "lc", verifier |-> "bip", chainSigs |-> "k1",
   nConf |-> 1, waiting |-> 1, minDeposit |-> 1, earliest |-> 7, seqHeights |-> {5}]

Fixed ==
  [lightClient |-> {}, verifier |-> {}, chainSigs |-> {}, nConf |-> {},
   waiting |-> {}, minDeposit |-> {}, earliest |-> {}, seqHeights |-> {},
   paused |-> {}]

(* each submitted witness is the one that was used *)
TrueWitnesses(txs) ==
  [t \in DOMAIN txs |->
     {{i \in DOMAIN txs[t].ins : txs[t].ins[i].seq # "csv"}}]

(* the id of a transaction does not cover its witnesses: any may be shown *)
AnyWitnesses(txs) == [t \in DOMAIN txs |-> SUBSET DOMAIN txs[t].ins]

-----------------------------------------------------------------------------
(* withdraw: two deposits of u1; W spends both by multisig and deposits 1  *)
(* again; W2 replaces it; S spends the second one alone.                   *)

WithdrawTx ==
  [D1 |-> Transaction(<<Coin(1)>>, <<DepositOut("u1", 2), EmbedOut("u1", 0)>>),
   D2 |-> Transaction(<<Coin(2)>>, <<DepositOut("u1", 1), EmbedOut("u1", 0)>>),
   W  |-> Transaction(<<Input("D1", 0, "locktime"), Input("D2", 0, "locktime")>>,
                      <<DepositOut("u1", 1), EmbedOut("u1", 0), OtherOut(2)>>),
   W2 |-> Transaction(<<Input("D1", 0, "locktime"), Input("D2", 0, "locktime")>>,
                      <<DepositOut("u1", 1), EmbedOut("u1", 0), OtherOut(1)>>),
   S  |-> Transaction(<<Input("D2", 0, "csv")>>, <<OtherOut(1)>>)]

WithdrawWitnesses == TrueWitnesses(WithdrawTx)
WithdrawPsbtCost == [t \in DOMAIN WithdrawTx |-> 1]

-----------------------------------------------------------------------------
(* deposit: two messages of D1 name its output 0, one of them with the     *)
(* wrong user; D2 has no lock time; S spends D1's output.                  *)

DepositTxs ==
  [D1 |-> Transaction(<<Coin(1)>>, <<DepositOut("u1", 2), EmbedOut("u1", 0), EmbedOut("u2", 0)>>),
   D2 |-> Transaction(<<FinalCoin(2)>>, <<DepositOut("u2", 1), EmbedOut("u2", 0)>>),
   S  |-> Transaction(<<Input("D1", 0, "csv")>>, <<OtherOut(2)>>)]

DepositWitnesses == TrueWitnesses(DepositTxs)
DepositPsbtCost == [t \in DOMAIN DepositTxs |-> 1]

DepositSettable ==
  [Fixed EXCEPT !.minDeposit = {3}, !.earliest = {0, 6}, !.paused = {TRUE}]

-----------------------------------------------------------------------------
(* queue: one deposit of u1; W withdraws half of it by multisig and        *)
(* deposits the rest again, Y takes all of it; X wants to  *)
(* spend it together with an output of u2 that was never submitted.        *)

QueueTxs ==
  [D1 |-> Transaction(<<Coin(1)>>,
                      <<DepositOut("u1", 2), EmbedOut("u1", 0), DepositOut("u2", 1)>>),
   W  |-> Transaction(<<Input("D1", 0, "locktime")>>,
                      <<DepositOut("u1", 1), EmbedOut("u1", 0), OtherOut(1)>>),
   X  |-> Transaction(<<Input("D1", 0, "locktime"), Input("D1", 2, "locktime")>>,
                      <<OtherOut(2)>>),
   Y  |-> Transaction(<<Input("D1", 0, "locktime")>>, <<OtherOut(2)>>)]

QueueWitnesses == TrueWitnesses(QueueTxs)
QueuePsbtCost == [t \in DOMAIN QueueTxs |-> 1]

-----------------------------------------------------------------------------
(* truncated: two messages name output 0 of T, one of them by an index     *)
(* above the range of usize.                                               *)

TruncatedTxs ==
  [T |-> Transaction(<<Coin(1)>>, <<DepositOut("u1", 1), EmbedOut("u1", 0), EmbedOut("u1", 4)>>)]

TruncatedWitnesses == TrueWitnesses(TruncatedTxs)
TruncatedPsbtCost == [t \in DOMAIN TruncatedTxs |-> 1]

=============================================================================

-------------------------- MODULE MCConfirmations ---------------------------
(* An instance of Confirmations for TLC. *)
EXTENDS Confirmations, MCTransactions

(* D is a deposit of u1, R takes its coin elsewhere, W withdraws it by     *)
(* multisig, S alone.                                                      *)
ReorgTxs ==
  [D |-> Transaction(<<Coin(1)>>, <<DepositOut("u1", 1), EmbedOut("u1", 0)>>),
   R |-> Transaction(<<Coin(1)>>, <<OtherOut(1)>>),
   W |-> Transaction(<<Input("D", 0, "locktime")>>, <<OtherOut(1)>>),
   S |-> Transaction(<<Input("D", 0, "csv")>>, <<OtherOut(1)>>)]

ReorgWitnesses == TrueWitnesses(ReorgTxs)
ReorgPsbtCost == [t \in DOMAIN ReorgTxs |-> 1]

ReorgConfig == [BaseConfig EXCEPT !.nConf = 2]
ReorgSettable == [Fixed EXCEPT !.nConf = {0, 3}]

=============================================================================

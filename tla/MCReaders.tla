----------------------------- MODULE MCReaders ------------------------------
(* An instance of Readers for TLC. *)
EXTENDS Readers, MCTransactions

(* D has three deposits of u1; S withdraws the first of them, M the others *)
(* together.                                                               *)
ReadersTxs ==
  [D |-> Transaction(<<Coin(1)>>,
                     <<DepositOut("u1", 1), DepositOut("u1", 2), DepositOut("u1", 1),
                       EmbedOut("u1", 0), EmbedOut("u1", 1), EmbedOut("u1", 2)>>),
   S |-> Transaction(<<Input("D", 0, "csv")>>, <<OtherOut(1)>>),
   M |-> Transaction(<<Input("D", 1, "csv"), Input("D", 2, "csv")>>, <<OtherOut(3)>>)]

ReadersWitnesses == TrueWitnesses(ReadersTxs)
ReadersPsbtCost == [t \in DOMAIN ReadersTxs |-> 1]
ReadersSettable == [Fixed EXCEPT !.paused = {TRUE}]
ReadersConfig == [BaseConfig EXCEPT !.waiting = 2]

=============================================================================

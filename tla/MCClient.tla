------------------------------ MODULE MCClient ------------------------------
(* An instance of Client for TLC: the two deposits, the withdrawal with a  *)
(* reinvest deposit and its replacement of the run Withdraw.               *)
EXTENDS Client, MCTransactions

ClientWitnesses == AnyWitnesses(WithdrawTx)

=============================================================================

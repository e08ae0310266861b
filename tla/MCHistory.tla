------------------------------ MODULE MCHistory -----------------------------
(* Instances for TLC of BitHive with its memory. *)
EXTENDS BitHiveHistory, MCTransactions
LOCAL INSTANCE TLC

(* calls differ by their arguments only *)
CallSymmetry == Permutations(CallId)

=============================================================================

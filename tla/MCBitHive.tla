------------------------------ MODULE MCBitHive -----------------------------
(* Instances for TLC of BitHive with its properties. *)
EXTENDS View, MCTransactions
LOCAL INSTANCE TLC

(* calls differ by their arguments only *)
CallSymmetry == Permutations(CallId)

=============================================================================

------------------------- MODULE MCTransactionCount -------------------------
(* Small instances of TransactionCount for TLC: two pool threads. *)
EXTENDS TransactionCount, TLC

CONSTANTS th1, th2
ThreadSymmetry == Permutations({th1, th2})
=============================================================================

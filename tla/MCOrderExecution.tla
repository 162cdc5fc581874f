-------------------------- MODULE MCOrderExecution --------------------------
(* Small instances of OrderExecution for TLC. *)
EXTENDS OrderRefinement

CONSTANTS o1, o2, o3, t1, t2, p1, p2
=============================================================================

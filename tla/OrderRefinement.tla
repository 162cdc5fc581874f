--------------------------- MODULE OrderRefinement ---------------------------
(* OrderExecution implements OrderLedger while nothing is replaced. *)
EXTENDS OrderExecution

\* What the status of an order comes to for the strategy
PhaseOf(o) ==
  CASE status[o] = "None" -> "unborn"
    [] status[o] = "New" -> "new"
    [] status[o] = "EXECUTION_COMPLETE" -> "closed"
    [] status[o] = "VIOLATION" -> "void"
    [] OTHER -> "open"
\* The bet of an order is the one with its customerOrderRef.
BetsOf(o) == {b \in Bets : exch[b].ref = o}
LeftOf(o) == IF BetsOf(o) = {} THEN 0 ELSE exch[Fresh(BetsOf(o))].left

Ledger == INSTANCE OrderLedger WITH
  phase <- [o \in Order |-> PhaseOf(o)],
  made  <- {o \in Order : BetsOf(o) # {}},
  left  <- [o \in Order |-> LeftOf(o)],
  view  <- remaining

\* The threads, requests, reports and snapshots implement the ledger: no bet is
\* made for an order that is not open, no order closes over a live bet, no view
\* falls below the bet or rises, and every order whose bet is over closes.
ImplementsLedger == Ledger!FairSpec
\* The same without the promise that orders close in the end.
ImplementsLedgerSafely == Ledger!Spec
=============================================================================

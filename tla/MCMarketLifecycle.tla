------------------------- MODULE MCMarketLifecycle --------------------------
(* A small instance of MarketLifecycle for TLC: bets, reopening and removal are *)
(* m1's; m2 is polled with it, and its closing is what removes m1.             *)
EXTENDS MarketLifecycle

CONSTANTS m1, m2

OnlyFirst(n) == [m \in Market |-> IF m = m1 THEN n ELSE 0]
One == OnlyFirst(1)
Two == OnlyFirst(2)
Objects == [m \in Market |-> IF m = m1 THEN 2 ELSE 1]
=============================================================================

----------------------------- MODULE MCBacktest -----------------------------
(* Small instances of Backtest for TLC: two prices, one unit offered or not. *)
EXTENDS Backtest

CONSTANTS o1, o2

Amounts(two, three) == [x \in Price |-> IF x = 2 THEN two ELSE three]
Ladder(back, lay) == [back |-> back, lay |-> lay]
\* 2 to back and 3 to lay; only 3 to back; nothing to back, 2 to lay
AllLadders ==
  { Ladder(Amounts(1, 0), Amounts(0, 1)), Ladder(Amounts(0, 1), Amounts(0, 0)),
    Ladder(Amounts(0, 0), Amounts(1, 0)) }
OneLadder == { Ladder(Amounts(1, 0), Amounts(0, 1)) }

Limit(side, price, persistence) ==
  [kind |-> "LIMIT", side |-> side, price |-> price, persistence |-> persistence]
OnClose(kind, side) ==
  [kind |-> kind, side |-> side, price |-> 2, persistence |-> "LAPSE"]
AllTerms ==
  { Limit("BACK", 2, "LAPSE"), Limit("BACK", 3, "MARKET_ON_CLOSE"),
    Limit("LAY", 2, "MARKET_ON_CLOSE"), OnClose("LIMIT_ON_CLOSE", "LAY"),
    OnClose("MARKET_ON_CLOSE", "BACK") }
LapseTerms == { Limit("BACK", 3, "LAPSE") }

Latency(place, cancel, update, replace) ==
  [PLACE |-> place, CANCEL |-> cancel, UPDATE |-> update, REPLACE |-> replace]
Delays == Latency(0, 1, 0, 1)
=============================================================================

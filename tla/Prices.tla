------------------------------- MODULE Prices -------------------------------
(***************************************************************************)
(* The price ladder of utils.py, in pennies, with the two functions        *)
(* strategies choose prices with.                                          *)
(***************************************************************************)
EXTENDS Integers, FiniteSets, Sequences

\* CUTOFFS: up to a price the ladder goes in equal steps.
CUTOFFS == << [upto |-> 200,   step |-> 1],   [upto |-> 300,    step |-> 2],
              [upto |-> 400,   step |-> 5],   [upto |-> 600,    step |-> 10],
              [upto |-> 1000,  step |-> 20],  [upto |-> 2000,   step |-> 50],
              [upto |-> 3000,  step |-> 100], [upto |-> 5000,   step |-> 200],
              [upto |-> 10000, step |-> 500], [upto |-> 100000, step |-> 1000] >>
Band == 1..10
MIN_PRICE == 101
MAX_PRICE == 100000

\* Where a band of the ladder starts
From(b) == IF b = 1 THEN MIN_PRICE ELSE CUTOFFS[b - 1].upto

\* arange: the prices of a band, without its end, which the next one starts with
BandPrices(b) ==
  {From(b) + k * CUTOFFS[b].step :
     k \in 0..((CUTOFFS[b].upto - From(b) - 1) \div CUTOFFS[b].step)}

\* make_prices: the bands, and the last price
PRICES == (UNION {BandPrices(b) : b \in Band}) \cup {MAX_PRICE}

OddsOnLadder(odds) == 100 * (odds + 1) \in PRICES

\* The band whose step get_nearest_price rounds to, for a price in tenths of
\* a penny: the first that ends above it, or the last
BandOf(m) ==
  IF \E b \in Band : m < 10 * CUTOFFS[b].upto
  THEN CHOOSE b \in Band : /\ m < 10 * CUTOFFS[b].upto
                           /\ \A c \in 1..(b - 1) : m >= 10 * CUTOFFS[c].upto
  ELSE 10

\* m rounded to a multiple of step pennies, halves up
RoundHalfUp(m, step) == ((2 * m + 10 * step) \div (20 * step)) * step

\* get_nearest_price, of a price in tenths of a penny
get_nearest_price(m) ==
  IF m <= 10 * MIN_PRICE THEN MIN_PRICE
  ELSE IF m > 10 * MAX_PRICE THEN MAX_PRICE
  ELSE RoundHalfUp(m, CUTOFFS[BandOf(m)].step)

\* PRICES.index
Index(p) == Cardinality({q \in PRICES : q < p})

\* price_ticks_away: n ticks up or down from a price of the ladder, not
\* leaving it
price_ticks_away(p, n) ==
  IF Index(p) + n < 0 THEN MIN_PRICE
  ELSE IF Index(p) + n >= Cardinality(PRICES) THEN MAX_PRICE
  ELSE CHOOSE q \in PRICES : Index(q) = Index(p) + n

=============================================================================

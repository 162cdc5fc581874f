----------------------------- MODULE MCExposure -----------------------------
(* Small instances of Exposure, the sum it counts with against that of         *)
(* FiniteSetsExt, and the ladder functions on prices around the ends of the     *)
(* bands.                                                                      *)
EXTENDS Exposure

\* Counting the units of a function adds its values.
ASSUME SumIsSum ==
  \A f \in [Order -> 0..4] : Sum(f) = MapThenSumSet(LAMBDA o : f[o], Order)

Ends == {From(b) : b \in Band} \cup {MAX_PRICE}

\* The price get_nearest_price returns is on the ladder and no price of the ladder
\* is nearer (tenths of a penny, around the ends of the bands).
ASSUME NearestIsClosest ==
  \A p \in Ends : \A m \in (10 * p - 60)..(10 * p + 60) :
    LET n == get_nearest_price(m)
        Away(q) == IF 10 * q > m THEN 10 * q - m ELSE m - 10 * q IN
    n \in PRICES /\ \A q \in PRICES : Away(n) <= Away(q)

\* n ticks away and n ticks back is where one was, but for the ends of the ladder.
ASSUME TicksAreInverse ==
  \A p \in Ends : \A n \in {-2, -1, 1, 2} :
    LET there == price_ticks_away(p, n) IN
    there \notin {MIN_PRICE, MAX_PRICE} => price_ticks_away(there, 0 - n) = p
=============================================================================

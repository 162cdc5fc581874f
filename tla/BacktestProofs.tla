--------------------------- MODULE BacktestProofs ---------------------------
(***************************************************************************)
(* Proofs about the backtest, for any number of orders, prices and ladders *)
(* and any latency: an order waits for one package, and, in a market whose *)
(* runners stay, sizes are conserved, no liability is exceeded and no      *)
(* order jumps the queue.                                                  *)
(***************************************************************************)
EXTENDS Backtest, FiniteSetTheorems, SequenceTheorems, WellFoundedInduction, TLAPS

-----------------------------------------------------------------------------
(* Removal from a list *)

\* Taking out the element at k moves those after it up.
LEMMA RemoveAtIs ==
  ASSUME NEW T, NEW s \in Seq(T), NEW k \in 1..Len(s)
  PROVE  /\ RemoveAt(s, k) \in Seq(T)
         /\ Len(RemoveAt(s, k)) = Len(s) - 1
         /\ \A n \in 1..Len(s) - 1 : RemoveAt(s, k)[n] = IF n < k THEN s[n] ELSE s[n + 1]
<1> DEFINE a == SubSeq(s, 1, k - 1)
           b == SubSeq(s, k + 1, Len(s))
<1>0. Len(s) \in Nat /\ k \in Nat /\ k >= 1 /\ k <= Len(s)
  OBVIOUS
<1>1. /\ a \in Seq(T) /\ Len(a) = k - 1
      /\ \A n \in 1..k - 1 : a[n] = s[n]
  BY <1>0
<1>2. /\ b \in Seq(T) /\ Len(b) = Len(s) - k
      /\ \A n \in 1..Len(s) - k : b[n] = s[k + n]
  BY <1>0
<1>3. RemoveAt(s, k) = a \o b
  BY DEF RemoveAt
<1> HIDE DEF a, b
<1>4. a \o b \in Seq(T) /\ Len(a \o b) = Len(s) - 1
  <2>1. a \o b \in Seq(T) /\ Len(a \o b) = Len(a) + Len(b)
    BY <1>1, <1>2, ConcatProperties
  <2> QED
    BY <1>0, <1>1, <1>2, <2>1
<1>5. ASSUME NEW n \in 1..Len(s) - 1
      PROVE  (a \o b)[n] = IF n < k THEN s[n] ELSE s[n + 1]
  <2>1. CASE n < k
    BY <1>0, <1>1, <1>2, <2>1
  <2>2. CASE ~(n < k)
    <3>1. n - (k - 1) \in 1..Len(s) - k /\ k + (n - (k - 1)) = n + 1
      BY <1>0, <2>2
    <3>2. (a \o b)[n] = b[n - Len(a)]
      BY <1>0, <1>1, <1>2, <2>2
    <3> QED
      BY <1>1, <1>2, <2>2, <3>1, <3>2
  <2> QED
    BY <2>1, <2>2
<1> QED
  BY <1>3, <1>4, <1>5

\* What list.remove leaves: the rest, each at a place of its own.
LEMMA WithoutType ==
  ASSUME NEW T, NEW s \in Seq(T), NEW e
  PROVE  /\ Without(s, e) \in Seq(T)
         /\ \A n \in 1..Len(Without(s, e)) : \E i \in 1..Len(s) : Without(s, e)[n] = s[i]
<1>1. CASE e \in Range(s)
  <2> DEFINE k == CHOOSE i \in DOMAIN s : s[i] = e
  <2>1. k \in 1..Len(s) /\ Without(s, e) = RemoveAt(s, k)
    BY <1>1 DEF Without, Range
  <2> HIDE DEF k
  <2>2. \A n \in 1..Len(s) - 1 : n \in 1..Len(s) /\ n + 1 \in 1..Len(s)
    OBVIOUS
  <2>3. /\ RemoveAt(s, k) \in Seq(T) /\ Len(RemoveAt(s, k)) = Len(s) - 1
        /\ \A n \in 1..Len(s) - 1 : RemoveAt(s, k)[n] = IF n < k THEN s[n] ELSE s[n + 1]
    BY <2>1, RemoveAtIs
  <2>4. ASSUME NEW n \in 1..Len(s) - 1
        PROVE  \E i \in 1..Len(s) : RemoveAt(s, k)[n] = s[i]
    <3>1. CASE n < k
      BY <2>2, <2>3, <3>1
    <3>2. CASE ~(n < k)
      BY <2>2, <2>3, <3>2
    <3> QED
      BY <3>1, <3>2
  <2> QED
    BY <2>1, <2>3, <2>4
<1>2. CASE e \notin Range(s)
  BY <1>2 DEF Without
<1> QED
  BY <1>1, <1>2

LEMMA WithoutApart ==
  ASSUME NEW T, NEW s \in Seq(T), NEW e,
         NEW m \in 1..Len(Without(s, e)), NEW n \in 1..Len(Without(s, e)), m # n
  PROVE  \E i, j \in 1..Len(s) : i # j /\ Without(s, e)[m] = s[i] /\ Without(s, e)[n] = s[j]
<1>1. CASE e \in Range(s)
  <2> DEFINE k == CHOOSE i \in DOMAIN s : s[i] = e
             At(x) == IF x < k THEN x ELSE x + 1
  <2>1. k \in 1..Len(s) /\ Without(s, e) = RemoveAt(s, k)
    BY <1>1 DEF Without, Range
  <2> HIDE DEF k
  <2>2. Len(RemoveAt(s, k)) = Len(s) - 1 /\ m \in 1..Len(s) - 1 /\ n \in 1..Len(s) - 1
    BY <2>1, RemoveAtIs
  <2>3. At(m) \in 1..Len(s) /\ At(n) \in 1..Len(s) /\ At(m) # At(n)
    BY <2>1, <2>2
  <2>4. RemoveAt(s, k)[m] = s[At(m)] /\ RemoveAt(s, k)[n] = s[At(n)]
    BY <2>1, <2>2, RemoveAtIs
  <2> QED
    BY <2>1, <2>3, <2>4
<1>2. CASE e \notin Range(s)
  BY <1>2 DEF Without
<1> QED
  BY <1>1, <1>2

LEMMA WithoutKeeps ==
  ASSUME NEW T, NEW s \in Seq(T), NEW e, NEW i \in 1..Len(s), s[i] # e
  PROVE  \E n \in 1..Len(Without(s, e)) : Without(s, e)[n] = s[i]
<1>1. CASE e \in Range(s)
  <2> DEFINE k == CHOOSE j \in DOMAIN s : s[j] = e
             n == IF i < k THEN i ELSE i - 1
  <2>1. k \in 1..Len(s) /\ s[k] = e /\ Without(s, e) = RemoveAt(s, k)
    BY <1>1 DEF Without, Range
  <2> HIDE DEF k
  <2>2. Len(RemoveAt(s, k)) = Len(s) - 1
    BY <2>1, RemoveAtIs
  <2>5. k # i /\ Len(s) \in Nat
    BY <2>1
  <2>3. n \in 1..Len(s) - 1 /\ (IF n < k THEN n ELSE n + 1) = i
    BY <2>1, <2>5
  <2>4. RemoveAt(s, k)[n] = s[i]
    BY <2>1, <2>3, RemoveAtIs
  <2> QED
    BY <2>1, <2>2, <2>3, <2>4
<1>2. CASE e \notin Range(s)
  BY <1>2 DEF Without
<1> QED
  BY <1>1, <1>2

\* What is removed is gone, if it was there once.
LEMMA WithoutGone ==
  ASSUME NEW T, NEW s \in Seq(T), NEW e, \A i, j \in 1..Len(s) : s[i] = s[j] => i = j
  PROVE  \A n \in 1..Len(Without(s, e)) : Without(s, e)[n] # e
<1>1. CASE e \in Range(s)
  <2> DEFINE k == CHOOSE i \in DOMAIN s : s[i] = e
  <2>1. k \in 1..Len(s) /\ s[k] = e /\ Without(s, e) = RemoveAt(s, k)
    BY <1>1 DEF Without, Range
  <2> HIDE DEF k
  <2>2. ASSUME NEW n \in 1..Len(RemoveAt(s, k))
        PROVE  RemoveAt(s, k)[n] # e
    <3>1. n \in 1..Len(s) - 1 /\ RemoveAt(s, k)[n] = IF n < k THEN s[n] ELSE s[n + 1]
      BY <2>1, RemoveAtIs
    <3>2. (IF n < k THEN n ELSE n + 1) \in 1..Len(s) \ {k}
      BY <2>1, <3>1
    <3> QED
      BY <2>1, <3>1, <3>2
  <2> QED
    BY <2>1, <2>2
<1>2. CASE e \notin Range(s)
  BY <1>2 DEF Without, Range
<1> QED
  BY <1>1, <1>2

\* Every nonempty set of natural numbers has a least element.
LEMMA SmallestIn ==
  ASSUME NEW T \in SUBSET Nat, T # {}
  PROVE  \E x \in T : \A y \in T : x <= y
<1> DEFINE U == {0..x : x \in T}
<1>1. U \subseteq FiniteSubsetsOf(Nat)
  <2> SUFFICES ASSUME NEW x \in T
               PROVE  0..x \in FiniteSubsetsOf(Nat)
    OBVIOUS
  <2>1. IsFiniteSet(0..x)
    BY FS_Interval
  <2> QED
    BY <2>1 DEF FiniteSubsetsOf
<1>2. U # {}
  OBVIOUS
<1>3. PICK M \in U : \A N \in U : ~ (<<N, M>> \in StrictSubsetOrdering(Nat))
  <2>1. IsWellFoundedOn(StrictSubsetOrdering(Nat), FiniteSubsetsOf(Nat))
    BY FS_StrictSubsetOrderingWellFounded
  <2> HIDE DEF U
  <2> QED
    BY <1>1, <1>2, <2>1, WFMin
<1>4. PICK x \in T : M = 0..x
  OBVIOUS
<1>5. ASSUME NEW y \in T, y < x
      PROVE  FALSE
  <2>1. 0..y \in SUBSET (0..x) /\ x \in 0..x /\ x \notin 0..y
    BY <1>5
  <2>2. <<0..y, 0..x>> \in StrictSubsetOrdering(Nat)
    BY <2>1 DEF StrictSubsetOrdering
  <2> QED
    BY <1>3, <1>4, <2>2
<1> QED
  BY <1>5

-----------------------------------------------------------------------------
(* Sums *)

\* A sum over a finite set has finitely many units.
LEMMA UnitsFinite ==
  ASSUME NEW S, IsFiniteSet(S), NEW f, \A x \in S : f[x] \in Nat
  PROVE  IsFiniteSet(Units(f, S))
<1> DEFINE Col(x) == {x} \X (1..f[x])
           T == {Col(x) : x \in S}
           g == [x \in S |-> Col(x)]
<1>1. g \in Surjection(S, T)
  BY DEF Surjection
<1>2. IsFiniteSet(T)
  BY <1>1, FS_Surjection
<1>3. ASSUME NEW c \in T
      PROVE  IsFiniteSet(c)
  <2>1. PICK x \in S : c = Col(x)
    OBVIOUS
  <2>2. 1 \in Int /\ f[x] \in Int
    OBVIOUS
  <2>3. IsFiniteSet(1..f[x])
    BY <2>2, FS_Interval
  <2>4. IsFiniteSet({x})
    BY FS_Singleton
  <2> QED
    BY <2>1, <2>3, <2>4, FS_Product
<1>4. IsFiniteSet(UNION T)
  BY <1>2, <1>3, FS_UNION
<1> QED
  BY <1>4 DEF Units

LEMMA SumType ==
  ASSUME NEW S, IsFiniteSet(S), NEW f, \A x \in S : f[x] \in Nat
  PROVE  Sum(f, S) \in Nat
BY UnitsFinite, FS_CardinalityType DEF Sum

\* The sum of terms that are at most k is at most k times their number.
LEMMA SumBounded ==
  ASSUME NEW S, IsFiniteSet(S), NEW k \in Nat, NEW f, \A x \in S : f[x] \in 0..k
  PROVE  Sum(f, S) <= k * Cardinality(S)
<1>1. Units(f, S) \in SUBSET (S \X (1..k))
  <2> SUFFICES ASSUME NEW x \in S, NEW i \in 1..f[x]
               PROVE  i \in 1..k
    BY DEF Units
  <2> QED
    OBVIOUS
<1>2. IsFiniteSet(1..k) /\ Cardinality(1..k) = IF 1 > k THEN 0 ELSE k - 1 + 1
  <2>1. 1 \in Int /\ k \in Int
    OBVIOUS
  <2> QED
    BY <2>1, FS_Interval
<1>3. Cardinality(1..k) = k
  BY <1>2
<1>4. /\ IsFiniteSet(S \X (1..k))
      /\ Cardinality(S \X (1..k)) = Cardinality(S) * k
  BY <1>2, <1>3, FS_Product
<1>5. Cardinality(Units(f, S)) <= Cardinality(S) * k
  BY <1>1, <1>4, FS_Subset
<1>6. Cardinality(S) \in Nat
  BY FS_CardinalityType
<1> QED
  BY <1>5, <1>6 DEF Sum

\* A sum depends on the terms of its set only.
LEMMA SumSame ==
  ASSUME NEW S, NEW f, NEW g, \A x \in S : f[x] = g[x]
  PROVE  Sum(f, S) = Sum(g, S)
<1>1. Units(f, S) = Units(g, S)
  BY DEF Units
<1> QED
  BY <1>1 DEF Sum

\* A sum of zeros is zero.
LEMMA SumZero ==
  ASSUME NEW S, NEW f, \A x \in S : f[x] = 0
  PROVE  Sum(f, S) = 0
<1>1. Units(f, S) = {}
  BY DEF Units
<1> QED
  BY <1>1, FS_EmptySet DEF Sum

LEMMA SumMono ==
  ASSUME NEW S, IsFiniteSet(S), NEW f, NEW g,
         \A x \in S : f[x] \in Nat /\ g[x] \in Nat /\ f[x] <= g[x]
  PROVE  Sum(f, S) <= Sum(g, S)
<1>1. Units(f, S) \in SUBSET Units(g, S)
  <2> SUFFICES ASSUME NEW x \in S, NEW i \in 1..f[x]
               PROVE  <<x, i>> \in Units(g, S)
    BY DEF Units
  <2>1. i \in 1..g[x]
    OBVIOUS
  <2> QED
    BY <2>1 DEF Units
<1>2. IsFiniteSet(Units(g, S))
  BY UnitsFinite
<1> QED
  BY <1>1, <1>2, FS_Subset DEF Sum

\* The sum of sums: the units of g come after those of f.
LEMMA SumAdd ==
  ASSUME NEW S, IsFiniteSet(S), NEW f, NEW g, NEW h,
         \A x \in S : f[x] \in Nat /\ g[x] \in Nat /\ h[x] = f[x] + g[x]
  PROVE  Sum(h, S) = Sum(f, S) + Sum(g, S)
<1> DEFINE Rest == Units(h, S) \ Units(f, S)
           m == [u \in Rest |-> <<u[1], u[2] - f[u[1]]>>]
<1>0. \A x \in S : h[x] \in Nat
  OBVIOUS
<1>1. IsFiniteSet(Units(f, S)) /\ IsFiniteSet(Units(g, S)) /\ IsFiniteSet(Units(h, S))
  BY <1>0, UnitsFinite
<1>2. Units(f, S) \in SUBSET Units(h, S)
  <2> SUFFICES ASSUME NEW x \in S, NEW i \in 1..f[x]
               PROVE  <<x, i>> \in Units(h, S)
    BY DEF Units
  <2>1. i \in 1..h[x]
    OBVIOUS
  <2> QED
    BY <2>1 DEF Units
<1>3. \A u \in Rest : \E x \in S : \E i \in 1..g[x] : u = <<x, f[x] + i>>
  <2> SUFFICES ASSUME NEW x \in S, NEW i \in 1..h[x], <<x, i>> \notin Units(f, S)
               PROVE  \E j \in 1..g[x] : <<x, i>> = <<x, f[x] + j>>
    BY DEF Units
  <2>1. i \notin 1..f[x]
    BY DEF Units
  <2>2. i - f[x] \in 1..g[x] /\ i = f[x] + (i - f[x])
    BY <2>1
  <2> QED
    BY <2>2
<1>4. \A x \in S : \A i \in 1..g[x] : <<x, f[x] + i>> \in Rest
  <2> SUFFICES ASSUME NEW x \in S, NEW i \in 1..g[x]
               PROVE  <<x, f[x] + i>> \in Units(h, S) /\ <<x, f[x] + i>> \notin Units(f, S)
    OBVIOUS
  <2>1. f[x] + i \in 1..h[x] /\ f[x] + i \notin 1..f[x]
    OBVIOUS
  <2> QED
    BY <2>1 DEF Units
<1>5. m \in Bijection(Rest, Units(g, S))
  <2>1. \A u \in Rest : m[u] \in Units(g, S)
    <3> SUFFICES ASSUME NEW u \in Rest
                 PROVE  m[u] \in Units(g, S)
      OBVIOUS
    <3>0. PICK x \in S : \E i \in 1..g[x] : u = <<x, f[x] + i>>
      BY <1>3
    <3>1. PICK i \in 1..g[x] : u = <<x, f[x] + i>>
      BY <3>0
    <3>2. m[u] = <<x, i>>
      BY <3>1
    <3> HIDE DEF m
    <3> QED
      BY <3>2 DEF Units
  <2>2. \A u, v \in Rest : m[u] = m[v] => u = v
    <3> SUFFICES ASSUME NEW u \in Rest, NEW v \in Rest, m[u] = m[v]
                 PROVE  u = v
      OBVIOUS
    <3>0. PICK x \in S : \E i \in 1..g[x] : u = <<x, f[x] + i>>
      BY <1>3
    <3>1. PICK i \in 1..g[x] : u = <<x, f[x] + i>>
      BY <3>0
    <3>4. PICK y \in S : \E j \in 1..g[y] : v = <<y, f[y] + j>>
      BY <1>3
    <3>2. PICK j \in 1..g[y] : v = <<y, f[y] + j>>
      BY <3>4
    <3>3. m[u] = <<x, i>> /\ m[v] = <<y, j>>
      BY <3>1, <3>2
    <3> HIDE DEF m
    <3> QED
      BY <3>1, <3>2, <3>3
  <2>3. \A w \in Units(g, S) : \E u \in Rest : m[u] = w
    <3> HIDE DEF m, Rest
    <3> SUFFICES ASSUME NEW x \in S, NEW i \in 1..g[x]
                 PROVE  \E u \in Rest : m[u] = <<x, i>>
      BY DEF Units
    <3>1. <<x, f[x] + i>> \in Rest
      BY <1>4
    <3>2. f[x] + i - f[x] = i
      OBVIOUS
    <3>3. m[<<x, f[x] + i>>] = <<x, i>>
      BY <3>1, <3>2 DEF m
    <3> QED
      BY <3>1, <3>3
  <2>4. m \in [Rest -> Units(g, S)]
    BY <2>1
  <2> HIDE DEF m, Rest
  <2>5. m \in Injection(Rest, Units(g, S)) /\ m \in Surjection(Rest, Units(g, S))
    BY <2>2, <2>3, <2>4 DEF Injection, Surjection, IsInjective
  <2> QED
    BY <2>5 DEF Bijection
<1>6. IsFiniteSet(Rest) /\ Cardinality(Rest) = Cardinality(Units(g, S))
  <2>1. IsFiniteSet(Rest)
    BY <1>1, FS_Difference
  <2> HIDE DEF m, Rest
  <2> QED
    BY <1>5, <2>1, FS_Bijection DEF ExistsBijection
<1>7. Cardinality(Rest) = Cardinality(Units(h, S)) - Cardinality(Units(f, S))
  <2>1. Units(h, S) \cap Units(f, S) = Units(f, S)
    BY <1>2
  <2>2. Cardinality(Rest) = Cardinality(Units(h, S)) - Cardinality(Units(h, S) \cap Units(f, S))
    BY <1>1, FS_Difference
  <2> QED
    BY <2>1, <2>2
<1> QED
  BY <1>1, <1>6, <1>7, FS_CardinalityType DEF Sum

-----------------------------------------------------------------------------
(* Types *)

OrderStatus == {"None", "New", "EXECUTABLE"} \cup Awaiting \cup Complete
OrderTerms ==
  [ kind        : {"LIMIT", "LIMIT_ON_CLOSE", "MARKET_ON_CLOSE"},
    side        : {"BACK", "LAY"},
    price       : Price \cup {0},
    persistence : {"LAPSE", "PERSIST", "MARKET_ON_CLOSE"},
    size        : Int ]
Simulated ==
  [ matched : Int, cost : Int, cancelled : Int, lapsed : Int, voided : Int,
    piq : Nat, version : Nat, reconciled : BOOLEAN ]
Book ==
  [ status : {"OPEN", "SUSPENDED", "CLOSED"}, version : Nat, removed : BOOLEAN,
    reconciled : BOOLEAN, sp : Price \cup {0}, volume : [Price -> Nat],
    back : [Price -> Nat], lay : [Price -> Nat] ]

\* Types, with the sizes integers of either sign: without removals they are not
\* negative (SizeInv).
OrdersOK ==
  /\ status \in [Order -> OrderStatus]
  /\ terms \in [Order -> OrderTerms]
  /\ sim \in [Order -> Simulated]
  /\ history \in [Order -> [ahead : Nat, taken : Int, base : [Price -> Nat]]]
  /\ reduction \in [Order -> 0..Size]
  /\ newPrice \in [Order -> Price \cup {0}]
  /\ trade \in [Order -> Order]
  /\ tstatus \in [Order -> {"LIVE", "PENDING", "COMPLETE"}]
  /\ \A o \in Known : terms[o].price \in Price
EngineOK ==
  /\ live \in Seq(Order) /\ todo \in Seq(Order) /\ queue \in Seq(Package)
  /\ phase \in {"packages", "match", "orders"}
  /\ raised \in BOOLEAN /\ requests \in Nat
MarketOK ==
  /\ book \in Book /\ incoming \in Book
  /\ volume \in [Price -> Nat] /\ traded \in [Price -> Nat]
  /\ removed \in BOOLEAN /\ closed \in BOOLEAN

\* An order has at most one package, of the type it waits for; only an order that
\* was completed meanwhile, voided with its runner, has one without waiting.
PackageInv ==
  /\ \A i, j \in 1..Len(queue) : queue[i].order = queue[j].order => i = j
  /\ ~raised => \A i \in 1..Len(queue) :
       status[queue[i].order] \in {Asking[queue[i].type], "EXECUTION_COMPLETE"}
  /\ \A o \in Order : status[o] \in Awaiting =>
       \E i \in 1..Len(queue) : queue[i].order = o /\ status[o] = Asking[queue[i].type]
  /\ raised => phase = "packages"

TypeInv == OrdersOK /\ EngineOK /\ MarketOK /\ PackageInv

-----------------------------------------------------------------------------
(* Simulated.place *)

LEMMA PricesFinite ==
  ASSUME NEW t
  PROVE  /\ IsFiniteSet(Price) /\ IsFiniteSet(Matching(t))
         /\ IsFiniteSet({x \in Price : AsGood(t, x)})
         /\ Matching(t) \subseteq Price
<1>1. Matching(t) \in SUBSET Price /\ {x \in Price : AsGood(t, x)} \in SUBSET Price
  BY DEF Matching
<1> QED
  BY <1>1, PriceAssumption, FS_Subset

LEMMA PriceNat == \A x \in Price \cup {0} : x \in Nat
<1>1. Price \subseteq Nat
  BY PriceAssumption
<1> QED
  BY <1>1

\* What matches is finite; no more than the size is taken of it, each unit at a
\* price as good as the order's.
LEMMA TakenSize ==
  ASSUME MarketOK, NEW t \in OrderTerms
  PROVE  /\ IsFiniteSet(Taken(t)) /\ Cardinality(Taken(t)) \in Nat
         /\ t.size \in Nat => Cardinality(Taken(t)) <= t.size
         /\ \A u \in Taken(t) : u[1] \in Price /\ AsGood(t, u[1])
<1> DEFINE Offered == Units(Offers(t), Matching(t))
           rank(u) == Cardinality({v \in Offered : Before(t, v, u)})
<1>1. Offers(t) \in [Price -> Nat]
  BY DEF Offers, MarketOK, Book
<1>2. IsFiniteSet(Offered)
  <2>1. \A x \in Matching(t) : Offers(t)[x] \in Nat
    BY <1>1, PricesFinite
  <2> QED
    BY <2>1, PricesFinite, UnitsFinite
<1>3. \A u \in Offered : /\ u[1] \in Price /\ u[1] \in Nat /\ AsGood(t, u[1])
                         /\ u[2] \in Nat /\ u = <<u[1], u[2]>>
  <2> SUFFICES ASSUME NEW x \in Matching(t), NEW i \in 1..Offers(t)[x]
               PROVE  x \in Price /\ x \in Nat /\ AsGood(t, x) /\ i \in Nat
    BY DEF Units
  <2>1. x \in Price /\ AsGood(t, x)
    BY DEF Matching
  <2>2. Offers(t)[x] \in Nat
    BY <1>1, <2>1
  <2> QED
    BY <2>1, <2>2, PriceAssumption
<1>4. Taken(t) = {u \in Offered : rank(u) <= t.size}
  BY DEF Taken
<1> HIDE DEF Offered
<1>5. IsFiniteSet(Taken(t)) /\ Cardinality(Taken(t)) \in Nat
  <2> HIDE DEF rank
  <2>1. Taken(t) \in SUBSET Offered
    BY <1>4
  <2> QED
    BY <1>2, <2>1, FS_Subset, FS_CardinalityType
<1>6. \A u, v \in Offered : u # v =>
        /\ Before(t, u, v) \/ Before(t, v, u)
        /\ ~(Before(t, u, v) /\ Before(t, v, u))
  BY <1>3 DEF Before, AsGood, OrderTerms
<1>7. \A u, v, w \in Offered : Before(t, u, v) /\ Before(t, v, w) => Before(t, u, w)
  BY <1>3 DEF Before, AsGood, OrderTerms
<1>8. \A u \in Offered : rank(u) \in Nat /\ rank(u) >= 1
  <2> SUFFICES ASSUME NEW u \in Offered
               PROVE  rank(u) \in Nat /\ rank(u) >= 1
    OBVIOUS
  <2>1. {v \in Offered : Before(t, v, u)} \in SUBSET Offered
    OBVIOUS
  <2>2. u \in {v \in Offered : Before(t, v, u)}
    BY <1>3 DEF Before
  <2>3. /\ IsFiniteSet({v \in Offered : Before(t, v, u)})
        /\ {v \in Offered : Before(t, v, u)} # {}
    BY <1>2, <2>1, <2>2, FS_Subset
  <2>4. rank(u) \in Nat /\ rank(u) # 0
    BY <2>3, FS_CardinalityType, FS_EmptySet
  <2> HIDE DEF rank
  <2> QED
    BY <2>4
<1>9. \A u, w \in Offered : u # w => rank(u) # rank(w)
  <2>1. ASSUME NEW u \in Offered, NEW w \in Offered, u # w, Before(t, u, w)
        PROVE  rank(u) # rank(w)
    <3> DEFINE A == {v \in Offered : Before(t, v, u)}
               B == {v \in Offered : Before(t, v, w)}
    <3>1. A \in SUBSET B
      BY <1>7, <2>1
    <3>2. w \in B
      BY <1>3 DEF Before
    <3>3. w \notin A
      BY <1>6, <2>1
    <3>4. B \in SUBSET Offered
      OBVIOUS
    <3>5. rank(u) = Cardinality(A) /\ rank(w) = Cardinality(B)
      OBVIOUS
    <3> HIDE DEF A, B, rank
    <3>6. IsFiniteSet(B)
      BY <1>2, <3>4, FS_Subset
    <3> QED
      BY <3>1, <3>2, <3>3, <3>5, <3>6, FS_Subset
  <2> HIDE DEF rank
  <2> QED
    BY <1>6, <2>1
<1>10. ASSUME t.size \in Nat
       PROVE  Cardinality(Taken(t)) <= t.size
  <2> DEFINE r == [u \in Taken(t) |-> rank(u)]
  <2> HIDE DEF rank
  <2>1. \A u \in Taken(t) : r[u] \in 1..t.size
    BY <1>4, <1>8, <1>10
  <2>2. \A u, v \in Taken(t) : r[u] = r[v] => u = v
    BY <1>4, <1>9
  <2>3. r \in Injection(Taken(t), 1..t.size)
    <3>1. r \in [Taken(t) -> 1..t.size]
      BY <2>1
    <3> HIDE DEF r
    <3> QED
      BY <2>2, <3>1 DEF Injection, IsInjective
  <2>4. IsFiniteSet(1..t.size) /\ Cardinality(1..t.size) = t.size
    <3>1. 1 \in Int /\ t.size \in Int
      BY <1>10
    <3>2. /\ IsFiniteSet(1..t.size)
          /\ Cardinality(1..t.size) = IF 1 > t.size THEN 0 ELSE t.size - 1 + 1
      BY <3>1, FS_Interval
    <3> QED
      BY <1>10, <3>2
  <2> QED
    BY <2>3, <2>4, FS_Injection
<1>11. \A u \in Taken(t) : u[1] \in Price /\ AsGood(t, u[1])
  <2> HIDE DEF rank
  <2> QED
    BY <1>3, <1>4
<1> QED
  BY <1>5, <1>10, <1>11

\* What is paid for a lay bet is at most its price for every unit.
LEMMA TakenCost ==
  ASSUME MarketOK, NEW t \in OrderTerms
  PROVE  LET cost == Sum([u \in Taken(t) |-> u[1]], Taken(t)) IN
         cost \in Nat /\ (t.side = "LAY" => cost <= t.price * Cardinality(Taken(t)))
<1> DEFINE f == [u \in Taken(t) |-> u[1]]
<1>1. \A u \in Taken(t) : f[u] \in Nat
  BY TakenSize, PriceAssumption
<1>2. Sum(f, Taken(t)) \in Nat
  <2> HIDE DEF f
  <2> QED
    BY <1>1, TakenSize, SumType
<1>3. ASSUME t.side = "LAY"
      PROVE  Sum(f, Taken(t)) <= t.price * Cardinality(Taken(t))
  <2>0. t.price \in Price \cup {0}
    BY DEF OrderTerms
  <2>1. t.price \in Nat
    BY <2>0, PriceNat
  <2>2. \A u \in Taken(t) : f[u] \in 0..t.price
    <3> SUFFICES ASSUME NEW u \in Taken(t)
                 PROVE  f[u] \in 0..t.price
      OBVIOUS
    <3>1. u[1] \in Nat /\ AsGood(t, u[1])
      BY TakenSize, PriceAssumption
    <3>2. u[1] <= t.price
      BY <1>3, <3>1 DEF AsGood
    <3> QED
      BY <2>1, <3>1, <3>2
  <2> HIDE DEF f
  <2> QED
    BY <2>1, <2>2, TakenSize, SumBounded
<1> QED
  BY <1>2, <1>3

\* A record of Simulated is known by its fields, and is changed field by field.
LEMMA SimFields ==
  ASSUME NEW s \in Simulated
  PROVE  /\ s.matched \in Int /\ s.cost \in Int /\ s.cancelled \in Int
         /\ s.lapsed \in Int /\ s.voided \in Int /\ s.piq \in Nat /\ s.version \in Nat
         /\ s.reconciled \in BOOLEAN
BY DEF Simulated

LEMMA LeftType ==
  ASSUME NEW t \in OrderTerms, NEW s \in Simulated
  PROVE  Left(t, s) \in Int
<1>1. t.size \in Int
  BY DEF OrderTerms
<1> QED
  BY <1>1, SimFields DEF Left

LEMMA NewFields ==
  /\ NewSimulated \in Simulated
  /\ NewSimulated.matched = 0 /\ NewSimulated.cost = 0 /\ NewSimulated.cancelled = 0
  /\ NewSimulated.lapsed = 0 /\ NewSimulated.voided = 0 /\ NewSimulated.piq = 0
  /\ NewSimulated.reconciled = FALSE
BY DEF NewSimulated, Simulated

\* What Simulated.place makes of an order: nothing is left of it when it fails, and
\* it never takes more than the size.
LEMMA PlacedFields ==
  ASSUME MarketOK, NEW t \in OrderTerms, t.price \in Price, NEW v, NEW s,
         s = Placed(t, v)
  PROVE  /\ s \in Simulated
         /\ s.cancelled = 0 /\ s.reconciled = FALSE
         /\ s.matched \in Nat /\ s.cost \in Nat
         /\ t.kind # "LIMIT" => s.matched = 0 /\ s.cost = 0
         /\ t.side = "LAY" => s.cost <= t.price * s.matched
         /\ t.size \in Nat => /\ s.lapsed \in Nat /\ s.voided \in Nat
                              /\ s.matched <= t.size
                              /\ Left(t, s) \in 0..t.size
         /\ ~PlaceSucceeds(t, v) => Left(t, s) = 0
<1> DEFINE ver == IF book.status = "OPEN" THEN book.version ELSE 0
           new == [NewSimulated EXCEPT !.version = ver]
           cost == Sum([u \in Taken(t) |-> u[1]], Taken(t))
<1>0. book.version \in Nat /\ t.size \in Int
  BY DEF MarketOK, Book, OrderTerms
<1>1. /\ new \in Simulated
      /\ new.matched = 0 /\ new.cost = 0 /\ new.cancelled = 0 /\ new.lapsed = 0
      /\ new.voided = 0 /\ new.reconciled = FALSE
  <2>1. ver \in Nat
    BY <1>0
  <2> HIDE DEF ver
  <2> QED
    BY <2>1, NewFields DEF Simulated
<1>2. Left(t, new) = IF t.kind = "LIMIT" THEN t.size ELSE 0
  <2> HIDE DEF new
  <2> QED
    BY <1>0, <1>1 DEF Left
<1>3. t.price \in Nat /\ t.price * 0 = 0
  <2>1. t.price \in Nat
    BY PriceNat
  <2> QED
    BY <2>1
<1>4. CASE Refused(t, v)
  <2>1. s = [new EXCEPT !.voided = Left(t, new)]
    BY <1>4 DEF Placed
  <2> HIDE DEF new
  <2>2. /\ s \in Simulated
        /\ s.matched = 0 /\ s.cost = 0 /\ s.cancelled = 0 /\ s.lapsed = 0
        /\ s.voided = (IF t.kind = "LIMIT" THEN t.size ELSE 0) /\ s.reconciled = FALSE
    BY <1>0, <1>1, <1>2, <2>1 DEF Simulated
  <2>3. Left(t, s) = 0
    BY <1>0, <2>2 DEF Left
  <2> QED
    BY <1>0, <1>3, <2>2, <2>3
<1>5. CASE ~Refused(t, v) /\ TooGood(t)
  <2>1. s = [new EXCEPT !.lapsed = Left(t, new)]
    BY <1>5 DEF Placed
  <2> HIDE DEF new
  <2>2. /\ s \in Simulated
        /\ s.matched = 0 /\ s.cost = 0 /\ s.cancelled = 0 /\ s.voided = 0
        /\ s.lapsed = (IF t.kind = "LIMIT" THEN t.size ELSE 0) /\ s.reconciled = FALSE
    BY <1>0, <1>1, <1>2, <2>1 DEF Simulated
  <2>3. Left(t, s) = 0
    BY <1>0, <2>2 DEF Left
  <2> QED
    BY <1>0, <1>3, <2>2, <2>3
<1>6. CASE ~Refused(t, v) /\ ~TooGood(t)
  <2> DEFINE m == IF t.kind = "LIMIT" THEN Cardinality(Taken(t)) ELSE 0
             c == IF t.kind = "LIMIT" THEN cost ELSE 0
             q == IF t.kind = "LIMIT" /\ Matching(t) = {} THEN Rivals(t)[t.price] ELSE 0
  <2>1. s = [new EXCEPT !.matched = m, !.cost = c, !.piq = q]
    BY <1>6 DEF Placed
  <2>2. /\ Cardinality(Taken(t)) \in Nat
        /\ t.size \in Nat => Cardinality(Taken(t)) <= t.size
    BY TakenSize
  <2>3. cost \in Nat /\ (t.side = "LAY" => cost <= t.price * Cardinality(Taken(t)))
    BY TakenCost
  <2>4. Rivals(t)[t.price] \in Nat
    BY DEF Rivals, MarketOK, Book
  <2> HIDE DEF new, cost
  <2>5. /\ s \in Simulated
        /\ s.matched = m /\ s.cost = c
        /\ s.cancelled = 0 /\ s.voided = 0 /\ s.lapsed = 0 /\ s.reconciled = FALSE
    <3>1. m \in Nat /\ c \in Nat /\ q \in Nat
      BY <2>2, <2>3, <2>4
    <3> HIDE DEF m, c, q
    <3> QED
      <4>1. s \in Simulated
        <5>1. m \in Int /\ c \in Int
          BY <3>1
        <5> QED
          BY <1>1, <2>1, <3>1, <5>1 DEF Simulated
      <4>2. s.matched = m /\ s.cost = c
        BY <1>1, <2>1 DEF Simulated
      <4>3. /\ s.cancelled = new.cancelled /\ s.voided = new.voided
            /\ s.lapsed = new.lapsed /\ s.reconciled = new.reconciled
        BY <1>1, <2>1 DEF Simulated
      <4> QED
        BY <1>1, <4>1, <4>2, <4>3
  <2>6. /\ t.kind = "LIMIT" => Left(t, s) = t.size - s.matched
        /\ t.kind # "LIMIT" => Left(t, s) = 0
    BY <1>0, <2>2, <2>5 DEF Left
  <2>7. PlaceSucceeds(t, v)
    BY <1>6 DEF PlaceSucceeds
  <2>8. t.side = "LAY" => s.cost <= t.price * s.matched
    BY <1>3, <2>3, <2>5
  <2>9. s.matched \in Nat /\ s.cost \in Nat
    BY <2>2, <2>3, <2>5
  <2>10. t.size \in Nat => s.matched <= t.size /\ Left(t, s) \in 0..t.size
    BY <2>2, <2>5, <2>6
  <2> QED
    BY <2>5, <2>7, <2>8, <2>9, <2>10
<1> QED
  BY <1>4, <1>5, <1>6

-----------------------------------------------------------------------------
(* The package that is due *)

LEMMA NextDueIs ==
  ASSUME EngineOK, DueNow # {}
  PROVE  \E i \in 1..Len(queue) : NextDue = queue[i] /\ Due(queue[i])
<1>1. DueNow \in SUBSET Nat
  BY DEF DueNow, EngineOK
<1>2. \E i \in DueNow : \A j \in DueNow : i <= j
  BY <1>1, SmallestIn
<1>3. DOMAIN queue = 1..Len(queue)
  BY DEF EngineOK
<1> QED
  BY <1>2, <1>3 DEF NextDue, DueNow

\* The others are left, and are still of distinct orders.
LEMMA OthersLeft ==
  ASSUME EngineOK, DueNow # {},
         \A i, j \in 1..Len(queue) : queue[i].order = queue[j].order => i = j
  PROVE  /\ QueueLeft \in Seq(Package)
         /\ \A m \in 1..Len(QueueLeft) :
              /\ QueueLeft[m].order # NextDue.order
              /\ \E i \in 1..Len(queue) : QueueLeft[m] = queue[i]
         /\ \A m, n \in 1..Len(QueueLeft) :
              QueueLeft[m].order = QueueLeft[n].order => m = n
         /\ \A i \in 1..Len(queue) : queue[i].order # NextDue.order =>
              \E m \in 1..Len(QueueLeft) : QueueLeft[m] = queue[i]
<1>0. queue \in Seq(Package)
  BY DEF EngineOK
<1>1. QueueLeft = Without(queue, NextDue)
  BY DEF QueueLeft
<1>2. /\ Without(queue, NextDue) \in Seq(Package)
      /\ \A m \in 1..Len(Without(queue, NextDue)) :
           \E i \in 1..Len(queue) : Without(queue, NextDue)[m] = queue[i]
  BY <1>0, WithoutType
<1>3. PICK d \in 1..Len(queue) : NextDue = queue[d]
  BY NextDueIs
<1>4. \A m \in 1..Len(Without(queue, NextDue)) : Without(queue, NextDue)[m] # NextDue
  BY <1>0, WithoutGone
<1>5. ASSUME NEW m \in 1..Len(QueueLeft)
      PROVE  QueueLeft[m].order # NextDue.order
  <2>1. QueueLeft[m] # NextDue
    BY <1>1, <1>4
  <2>2. PICK i \in 1..Len(queue) : QueueLeft[m] = queue[i]
    BY <1>1, <1>2
  <2> QED
    BY <1>3, <2>1, <2>2
<1>6. ASSUME NEW m \in 1..Len(QueueLeft), NEW n \in 1..Len(QueueLeft), m # n
      PROVE  QueueLeft[m].order # QueueLeft[n].order
  <2>0. m \in 1..Len(Without(queue, NextDue)) /\ n \in 1..Len(Without(queue, NextDue))
    BY <1>1
  <2>1. PICK i, j \in 1..Len(queue) :
          /\ i # j
          /\ Without(queue, NextDue)[m] = queue[i] /\ Without(queue, NextDue)[n] = queue[j]
    BY <1>0, <1>6, <2>0, WithoutApart
  <2> QED
    BY <1>1, <2>1
<1>7. ASSUME NEW i \in 1..Len(queue), queue[i].order # NextDue.order
      PROVE  \E m \in 1..Len(QueueLeft) : QueueLeft[m] = queue[i]
  BY <1>0, <1>1, <1>7, WithoutKeeps
<1> QED
  BY <1>1, <1>2, <1>5, <1>6, <1>7

\* It is of an order the exchange knows.
LEMMA DueOrder ==
  ASSUME TypeInv, DueNow # {}, ~raised
  PROVE  /\ NextDue \in Package /\ NextDue.order \in Order
         /\ NextDue.type \in PackageType /\ NextDue.version \in Nat
         /\ status[NextDue.order] \in {Asking[NextDue.type], "EXECUTION_COMPLETE"}
         /\ NextDue.order \in Known
         /\ terms[NextDue.order] \in OrderTerms /\ terms[NextDue.order].price \in Price
<1>1. PICK i \in 1..Len(queue) : NextDue = queue[i]
  BY NextDueIs DEF TypeInv
<1>2. queue[i] \in Package
  BY DEF TypeInv, EngineOK
<1>3. /\ NextDue \in Package /\ NextDue.order \in Order
      /\ NextDue.type \in PackageType /\ NextDue.version \in Nat
  BY <1>1, <1>2 DEF Package
<1>4. status[NextDue.order] \in {Asking[NextDue.type], "EXECUTION_COMPLETE"}
  BY <1>1 DEF TypeInv, PackageInv
<1>5. Asking[NextDue.type] \notin {"None", "New"}
  BY <1>3 DEF Asking, PackageType
<1>6. NextDue.order \in Known
  BY <1>3, <1>4, <1>5 DEF Known
<1> QED
  BY <1>3, <1>4, <1>6 DEF TypeInv, OrdersOK

-----------------------------------------------------------------------------
(* Which packages orders have *)

LEMMA QueueType ==
  ASSUME TypeInv, NEW i \in 1..Len(queue)
  PROVE  queue[i] \in Package /\ queue[i].order \in Order /\ queue[i].type \in PackageType
<1>1. queue[i] \in Package
  BY DEF TypeInv, EngineOK
<1> QED
  BY <1>1 DEF Package

\* The queue keeps its packages, and orders their requests, unless they are completed.
LEMMA PackageKept ==
  ASSUME TypeInv, Len(queue') = Len(queue),
         \A i \in 1..Len(queue) :
           queue'[i].order = queue[i].order /\ queue'[i].type = queue[i].type,
         \A o \in Order : status'[o] \in {status[o], "EXECUTION_COMPLETE"},
         ~raised => ~raised', raised => raised' /\ phase' = phase
  PROVE  PackageInv'
<1>1. \A i \in 1..Len(queue) : queue[i].order \in Order
  BY QueueType
<1>2. "EXECUTION_COMPLETE" \notin Awaiting
  BY DEF Awaiting
<1>3. \A i, j \in 1..Len(queue') : queue'[i].order = queue'[j].order => i = j
  BY DEF TypeInv, PackageInv
<1>4. ASSUME ~raised', NEW i \in 1..Len(queue')
      PROVE  status'[queue'[i].order] \in {Asking[queue'[i].type], "EXECUTION_COMPLETE"}
  <2>1. ~raised
    BY <1>4
  <2>2. status[queue[i].order] \in {Asking[queue[i].type], "EXECUTION_COMPLETE"}
    BY <2>1 DEF TypeInv, PackageInv
  <2> QED
    BY <1>1, <2>2
<1>5. ASSUME NEW o \in Order, status'[o] \in Awaiting
      PROVE  \E i \in 1..Len(queue') :
               queue'[i].order = o /\ status'[o] = Asking[queue'[i].type]
  <2>1. status'[o] = status[o]
    BY <1>2, <1>5
  <2>2. PICK i \in 1..Len(queue) : queue[i].order = o /\ status[o] = Asking[queue[i].type]
    BY <1>5, <2>1 DEF TypeInv, PackageInv
  <2> QED
    BY <2>1, <2>2
<1>6. raised' => phase' = "packages"
  BY DEF TypeInv, PackageInv
<1> QED
  BY <1>3, <1>4, <1>5, <1>6 DEF PackageInv

\* A package is executed: its order waits no more; an unused order may be created.
LEMMA PackageDone ==
  ASSUME TypeInv, DueNow # {}, ~raised, ~raised', queue' = QueueLeft,
         status'[NextDue.order] \notin Awaiting,
         \A o \in Order \ {NextDue.order} :
           status'[o] = status[o] \/ (status[o] = "None" /\ status'[o] \notin Awaiting)
  PROVE  PackageInv'
<1>1. /\ \A m \in 1..Len(QueueLeft) :
           /\ QueueLeft[m].order # NextDue.order
           /\ \E i \in 1..Len(queue) : QueueLeft[m] = queue[i]
      /\ \A m, n \in 1..Len(QueueLeft) : QueueLeft[m].order = QueueLeft[n].order => m = n
      /\ \A i \in 1..Len(queue) : queue[i].order # NextDue.order =>
           \E m \in 1..Len(QueueLeft) : QueueLeft[m] = queue[i]
  BY OthersLeft DEF TypeInv, PackageInv
<1>2. ASSUME NEW m \in 1..Len(queue')
      PROVE  status'[queue'[m].order] \in {Asking[queue'[m].type], "EXECUTION_COMPLETE"}
  <2>1. queue'[m].order # NextDue.order
    BY <1>1
  <2>2. PICK i \in 1..Len(queue) : queue'[m] = queue[i]
    BY <1>1
  <2>3. queue[i] \in Package
    BY DEF TypeInv, EngineOK
  <2>4. queue[i].order \in Order /\ Asking[queue[i].type] # "None"
    BY <2>3 DEF Package, PackageType, Asking
  <2>5. status[queue[i].order] \in {Asking[queue[i].type], "EXECUTION_COMPLETE"}
    BY DEF TypeInv, PackageInv
  <2> QED
    BY <2>1, <2>2, <2>4, <2>5
<1>3. ASSUME NEW o \in Order, status'[o] \in Awaiting
      PROVE  \E m \in 1..Len(queue') :
               queue'[m].order = o /\ status'[o] = Asking[queue'[m].type]
  <2>1. o # NextDue.order /\ status'[o] = status[o]
    BY <1>3
  <2>2. PICK i \in 1..Len(queue) : queue[i].order = o /\ status[o] = Asking[queue[i].type]
    BY <1>3, <2>1 DEF TypeInv, PackageInv
  <2>3. PICK m \in 1..Len(QueueLeft) : QueueLeft[m] = queue[i]
    BY <1>1, <2>1, <2>2
  <2> QED
    BY <2>1, <2>2, <2>3
<1> QED
  BY <1>1, <1>2, <1>3 DEF PackageInv

\* A package is sent for an order that waits for it from now on.
LEMMA PackageSent ==
  ASSUME TypeInv, ~raised, ~raised', NEW p \in Package,
         queue' = Append(queue, p),
         status[p.order] \in {"None", "EXECUTABLE"}, status'[p.order] = Asking[p.type],
         \A o \in Order \ {p.order} : status'[o] = status[o]
  PROVE  PackageInv'
<1>1. /\ Len(queue) \in Nat /\ Len(queue') = Len(queue) + 1
      /\ \A i \in 1..Len(queue) : queue'[i] = queue[i]
      /\ queue'[Len(queue) + 1] = p
  BY DEF TypeInv, EngineOK
<1>2. ASSUME NEW i \in 1..Len(queue)
      PROVE  /\ status[queue[i].order] \in {Asking[queue[i].type], "EXECUTION_COMPLETE"}
             /\ queue[i].order \in Order /\ queue[i].order # p.order
  <2>1. queue[i] \in Package
    BY DEF TypeInv, EngineOK
  <2>2. queue[i].order \in Order /\ Asking[queue[i].type] \notin {"None", "EXECUTABLE"}
    BY <2>1 DEF Package, PackageType, Asking
  <2>3. status[queue[i].order] \in {Asking[queue[i].type], "EXECUTION_COMPLETE"}
    BY DEF TypeInv, PackageInv
  <2> QED
    BY <2>2, <2>3
<1>3. \A i \in 1..Len(queue') : i \in 1..Len(queue) \/ i = Len(queue) + 1
  BY <1>1
<1>4. \A i, j \in 1..Len(queue') : queue'[i].order = queue'[j].order => i = j
  BY <1>1, <1>2, <1>3 DEF TypeInv, PackageInv
<1>5. \A i \in 1..Len(queue') :
        status'[queue'[i].order] \in {Asking[queue'[i].type], "EXECUTION_COMPLETE"}
  BY <1>1, <1>2, <1>3
<1>6. ASSUME NEW o \in Order, status'[o] \in Awaiting
      PROVE  \E i \in 1..Len(queue') :
               queue'[i].order = o /\ status'[o] = Asking[queue'[i].type]
  <2>1. CASE o = p.order
    <3>1. Len(queue) + 1 \in 1..Len(queue')
      BY <1>1
    <3> QED
      BY <1>1, <2>1, <3>1
  <2>2. CASE o # p.order
    <3>1. PICK i \in 1..Len(queue) : queue[i].order = o /\ status[o] = Asking[queue[i].type]
      BY <1>6, <2>2 DEF TypeInv, PackageInv
    <3>2. i \in 1..Len(queue')
      BY <1>1
    <3> QED
      BY <1>1, <2>2, <3>1, <3>2
  <2> QED
    BY <2>1, <2>2
<1> QED
  BY <1>4, <1>5, <1>6 DEF PackageInv

\* The backtest ends in an exception: the order that had the package may have been
\* given a status again.
LEMMA PackageRaised ==
  ASSUME TypeInv, raised', phase' = "packages", queue' = queue,
         \A o \in Order : \/ status'[o] = status[o]
                          \/ status'[o] \notin Awaiting
  PROVE  PackageInv'
<1>1. ASSUME NEW o \in Order, status'[o] \in Awaiting
      PROVE  \E i \in 1..Len(queue') :
               queue'[i].order = o /\ status'[o] = Asking[queue'[i].type]
  BY <1>1 DEF TypeInv, PackageInv
<1> QED
  BY <1>1 DEF TypeInv, PackageInv

-----------------------------------------------------------------------------
(* What a step does to an order *)

SameBet(o) ==
  /\ terms'[o].kind = terms[o].kind /\ terms'[o].side = terms[o].side
  /\ terms'[o].price = terms[o].price /\ terms'[o].size = terms[o].size
  /\ terms'[o].persistence = terms[o].persistence \/ "UPDATE" \in Kinds
Stays(o) == SameBet(o) /\ history'[o] = history[o]

Untouched(o) == Stays(o) /\ sim'[o] = sim[o]
\* The strategy places it,
Created(o) ==
  /\ status[o] = "None" /\ terms'[o].size = Size
  /\ sim'[o] = sim[o] /\ history'[o] = history[o]
\* the exchange has it, as itself or as the replacement of another,
Put(o) ==
  /\ phase = "packages" /\ ~raised /\ terms'[o].price \in Price
  /\ \E v : sim'[o] = Placed(terms'[o], v)
  /\ history'[o] = Noted(terms'[o], sim'[o])
  /\ \/ /\ SameBet(o)
        /\ DueNow # {} /\ NextDue.type = "PLACE" /\ NextDue.order = o
        /\ queue' = QueueLeft
     \/ status[o] = "None" /\ \E u \in Order : terms'[o].size = CancelledSize(u)
\* cancels some of it,
Cut(o) ==
  /\ phase = "packages" /\ Stays(o)
  /\ DueNow # {} /\ ~raised /\ NextDue.order = o /\ queue' = QueueLeft
  /\ sim'[o] = [sim[o] EXCEPT !.cancelled = @ + CancelledSize(o)]
\* or matches it at the starting price, or lets it lapse, or fills it,
AtStart(o) ==
  /\ Visit(o) /\ Visited /\ Matchable(o)
  /\ SameBet(o) /\ AtSP(o) /\ book.sp # 0 /\ status'[o] = "EXECUTION_COMPLETE"
  /\ history'[o] =
       [history[o] EXCEPT !.taken = @ + (IF Unacceptable(o) THEN 0 ELSE SPSize(o))]
  /\ sim'[o] = Reconciled(o)
Lapses(o) ==
  /\ Visit(o) /\ Visited /\ Matchable(o)
  /\ Stays(o) /\ Remaining(o) # 0
  /\ sim'[o] = [sim[o] EXCEPT !.version = book.version, !.lapsed = @ + Remaining(o)]
Fills(o) ==
  /\ Visit(o) /\ Visited /\ Matchable(o)
  /\ Stays(o) /\ Remaining(o) # 0 /\ ~MaterialChange(o) /\ sim'[o] = Filled(o)
\* or voids it with its runner.
Voids(o) ==
  /\ Stays(o) /\ o \in Known /\ ~removed /\ removed' /\ incoming.removed
  /\ sim'[o] = Voided(o)

Effect(o) ==
  \/ Untouched(o) \/ Created(o) \/ Put(o) \/ Cut(o)
  \/ AtStart(o) \/ Lapses(o) \/ Fills(o) \/ Voids(o)

HistoryType == [ahead : Nat, taken : Int, base : [Price -> Nat]]

LEMMA OrderTypes ==
  ASSUME OrdersOK, NEW o \in Order
  PROVE  /\ sim[o] \in Simulated /\ terms[o] \in OrderTerms /\ history[o] \in HistoryType
         /\ terms[o].size \in Int /\ terms[o].price \in Nat /\ Remaining(o) \in Int
         /\ reduction[o] \in 0..Size /\ CancelledSize(o) \in Int
<1>1. sim[o] \in Simulated /\ terms[o] \in OrderTerms /\ history[o] \in HistoryType
  BY DEF OrdersOK, HistoryType
<1>2. terms[o].size \in Int /\ terms[o].price \in Nat
  BY <1>1, PriceNat DEF OrderTerms
<1>3. Remaining(o) \in Int
  BY <1>1, LeftType DEF Remaining
<1>4. reduction[o] \in 0..Size
  BY DEF OrdersOK
<1>5. reduction[o] \in Int
  BY <1>4, BoundAssumption
<1>6. CancelledSize(o) \in Int
  BY <1>3, <1>5 DEF CancelledSize, Least
<1> QED
  BY <1>1, <1>2, <1>3, <1>4, <1>6

LEMMA FlowType ==
  ASSUME MarketOK, NEW o
  PROVE  AcceptedFlow(o) \in Nat
<1>1. \A x \in {x \in Price : AsGood(terms[o], x)} : traded[x] \in Nat
  BY DEF MarketOK
<1> QED
  BY <1>1, PricesFinite, SumType DEF AcceptedFlow

LEMMA FillType ==
  ASSUME OrdersOK, NEW o \in Order, NEW flow \in Nat
  PROVE  FillSize(o, flow) \in Int
<1>1. sim[o].piq \in Nat /\ Remaining(o) \in Int
  BY OrderTypes, SimFields
<1> QED
  BY <1>1 DEF FillSize, Least

\* Rounding is by half a unit of the result at most.
LEMMA RoundedType ==
  ASSUME NEW a \in Int, NEW b \in Nat \ {0}
  PROVE  /\ Rounded(a, b) \in Int
         /\ 2 * (b * Rounded(a, b)) <= 2 * a + b
         /\ a >= 0 => Rounded(a, b) >= 0
<1> DEFINE m == 2 * a + b
           n == 2 * b
<1>1. m \in Int /\ n \in Nat \ {0}
  OBVIOUS
<1> HIDE DEF m, n
<1>2. m \div n \in Int /\ n * (m \div n) <= m
  BY <1>1
<1>3. m >= 0 => m \div n >= 0
  BY <1>1
<1>4. Rounded(a, b) = m \div n
  BY DEF Rounded, m, n
<1>5. n * (m \div n) = 2 * (b * (m \div n))
  BY <1>2 DEF n
<1> QED
  BY <1>2, <1>3, <1>4, <1>5 DEF m

LEMMA SPSizeType ==
  ASSUME OrdersOK, MarketOK, NEW o \in Order, book.sp # 0
  PROVE  SPSize(o) \in Int /\ book.sp \in Nat /\ book.sp - 1 \in Nat \ {0}
<1>1. terms[o].size \in Int /\ terms[o].price \in Nat /\ Remaining(o) \in Int
  BY OrderTypes
<1>2. book.sp \in Price
  BY DEF MarketOK, Book
<1>3. book.sp \in Nat /\ book.sp - 1 \in Nat \ {0}
  <2>1. book.sp \in Nat \ {0, 1}
    BY <1>2, PriceAssumption
  <2> QED
    BY <2>1
<1> DEFINE asked == IF terms[o].kind = "LIMIT" THEN Remaining(o) ELSE terms[o].size
           risk == IF terms[o].kind = "LIMIT" THEN (terms[o].price - 1) * asked ELSE asked
<1>4. asked \in Int /\ risk \in Int
  BY <1>1
<1>5. SPSize(o) = IF terms[o].side = "BACK" THEN asked ELSE Rounded(risk, book.sp - 1)
  BY DEF SPSize
<1> HIDE DEF asked, risk
<1>6. Rounded(risk, book.sp - 1) \in Int
  BY <1>3, <1>4, RoundedType
<1> QED
  BY <1>3, <1>4, <1>5, <1>6

\* Whatever happens to an order, it keeps its types.
LEMMA EffectType ==
  ASSUME OrdersOK, MarketOK, NEW o \in Order, Effect(o), terms'[o] \in OrderTerms
  PROVE  sim'[o] \in Simulated /\ history'[o] \in HistoryType
<1>0. /\ sim[o] \in Simulated /\ history[o] \in HistoryType
      /\ terms[o].size \in Int /\ terms[o].price \in Nat /\ Remaining(o) \in Int
      /\ CancelledSize(o) \in Int
  BY OrderTypes
<1>1. CASE Untouched(o) \/ Created(o)
  BY <1>0, <1>1 DEF Untouched, Created, Stays
<1>2. CASE Put(o)
  <2>1. PICK v : sim'[o] = Placed(terms'[o], v)
    BY <1>2 DEF Put
  <2>2. sim'[o] \in Simulated /\ sim'[o].matched \in Nat /\ sim'[o].piq \in Nat
    BY <1>2, <2>1, PlacedFields, SimFields DEF Put
  <2>3. book.volume \in [Price -> Nat]
    BY DEF MarketOK, Book
  <2>4. history'[o] = [ahead |-> sim'[o].piq, taken |-> sim'[o].matched,
                       base |-> book.volume]
    BY <1>2 DEF Put, Noted
  <2> QED
    BY <2>2, <2>3, <2>4 DEF HistoryType
<1>3. CASE Cut(o)
  <2>1. sim[o].cancelled + CancelledSize(o) \in Int
    BY <1>0, SimFields
  <2> QED
    BY <1>0, <1>3, <2>1 DEF Cut, Stays, Simulated
<1>4. CASE AtStart(o)
  <2> DEFINE n == SPSize(o)
             r == Remaining(o)
             p == book.sp
  <2>1. n \in Int /\ p \in Nat
    BY <1>4, SPSizeType DEF AtStart
  <2>2. r \in Int
    BY <1>0
  <2>3. CASE Unacceptable(o)
    <3>1. /\ sim'[o] = [sim[o] EXCEPT !.reconciled = TRUE, !.lapsed = @ + r]
          /\ history'[o] = [history[o] EXCEPT !.taken = @ + 0]
      BY <1>4, <2>3 DEF AtStart, Reconciled
    <3> HIDE DEF r
    <3>2. sim[o].lapsed + r \in Int /\ history[o].taken + 0 \in Int
      BY <1>0, <2>2, SimFields DEF HistoryType
    <3>3. sim'[o] \in Simulated
      BY <1>0, <3>1, <3>2 DEF Simulated
    <3>4. history'[o] \in HistoryType
      BY <1>0, <3>1, <3>2 DEF HistoryType
    <3> QED
      BY <3>3, <3>4
  <2>4. CASE ~Unacceptable(o)
    <3>1. /\ sim'[o] = [Matched(sim[o], n, p) EXCEPT
                          !.reconciled = TRUE,
                          !.cancelled = IF terms[o].kind = "LIMIT" THEN @ + r - n ELSE @]
          /\ history'[o] = [history[o] EXCEPT !.taken = @ + n]
      BY <1>4, <2>4 DEF AtStart, Reconciled
    <3> HIDE DEF n, r, p
    <3>2. Matched(sim[o], n, p) \in Simulated
      <4>1. sim[o].matched + n \in Int /\ sim[o].cost + p * n \in Int
        BY <1>0, <2>1, SimFields
      <4> QED
        BY <1>0, <4>1 DEF Matched, Simulated
    <3> DEFINE s == Matched(sim[o], n, p)
               c == IF terms[o].kind = "LIMIT" THEN s.cancelled + r - n ELSE s.cancelled
    <3>3. c \in Int
      BY <2>1, <2>2, <3>2, SimFields
    <3>4. sim'[o] = [s EXCEPT !.reconciled = TRUE, !.cancelled = c]
      BY <3>1
    <3> HIDE DEF s, c
    <3>5. sim'[o] \in Simulated
      BY <3>2, <3>3, <3>4 DEF Simulated, s
    <3>6. history'[o] \in HistoryType
      BY <1>0, <2>1, <3>1 DEF HistoryType
    <3> QED
      BY <3>5, <3>6
  <2> QED
    BY <2>3, <2>4
<1>5. CASE Lapses(o)
  <2>1. sim[o].lapsed + Remaining(o) \in Int /\ book.version \in Nat
    BY <1>0, SimFields DEF MarketOK, Book
  <2> QED
    BY <1>0, <1>5, <2>1 DEF Lapses, Stays, Simulated
<1>6. CASE Fills(o)
  <2> DEFINE flow == AcceptedFlow(o)
             n == FillSize(o, flow)
             p == terms[o].price
             q == Most(0, sim[o].piq - flow)
             s == Matched(sim[o], n, p)
  <2>1. flow \in Nat
    BY FlowType
  <2>2. n \in Int
    BY <2>1, FillType
  <2>3. q \in Nat
    BY <1>0, <2>1, SimFields DEF Most
  <2>4. p \in Nat /\ book.version \in Nat
    BY <1>0 DEF MarketOK, Book
  <2>5. history'[o] = history[o]
    BY <1>6 DEF Fills, Stays
  <2>6. sim'[o] = [s EXCEPT !.version = book.version, !.piq = q] /\ s.piq = sim[o].piq
    <3>1. s.piq = sim[o].piq
      BY <1>0 DEF Matched, Simulated
    <3> QED
      BY <1>6, <3>1 DEF Fills, Filled
  <2> HIDE DEF flow, n, p, q
  <2>7. s \in Simulated
    <3>1. sim[o].matched + n \in Int /\ sim[o].cost + p * n \in Int
      BY <1>0, <2>2, <2>4, SimFields
    <3> QED
      BY <1>0, <3>1 DEF Matched, Simulated
  <2> HIDE DEF s
  <2>8. sim'[o] \in Simulated
    BY <2>3, <2>4, <2>6, <2>7 DEF Simulated
  <2> QED
    BY <1>0, <2>5, <2>8
<1>7. CASE Voids(o)
  <2> DEFINE n == terms[o].size
  <2>1. sim'[o] = [sim[o] EXCEPT !.matched = 0, !.cost = 0, !.voided = n]
    BY <1>7 DEF Voids, Voided
  <2>2. history'[o] = history[o]
    BY <1>7 DEF Voids, Stays
  <2>3. n \in Int
    BY <1>0
  <2> HIDE DEF n
  <2>4. sim'[o] \in Simulated
    <3>1. sim[o] \in Simulated
      BY <1>0
    <3>2. 0 \in Int
      OBVIOUS
    <3> QED
      BY ONLY <3>1, <3>2, <2>1, <2>3 DEF Simulated
  <2> QED
    BY <1>0, <2>2, <2>4
<1> QED
  BY <1>1, <1>2, <1>3, <1>4, <1>5, <1>6, <1>7 DEF Effect

-----------------------------------------------------------------------------
(* Types: what the actions have in common *)

LEMMA OrdersKept ==
  ASSUME TypeInv, \A o \in Order : Effect(o),
         terms' \in [Order -> OrderTerms],
         DOMAIN sim' = Order, sim' = [o \in Order |-> sim'[o]],
         DOMAIN history' = Order, history' = [o \in Order |-> history'[o]],
         status' \in [Order -> OrderStatus],
         reduction' \in [Order -> 0..Size], newPrice' \in [Order -> Price \cup {0}],
         trade' \in [Order -> Order],
         tstatus' \in [Order -> {"LIVE", "PENDING", "COMPLETE"}],
         \A o \in Order : status'[o] \notin {"None", "New"} => terms'[o].price \in Price
  PROVE  OrdersOK'
<1>1. \A o \in Order : sim'[o] \in Simulated /\ history'[o] \in HistoryType
  <2> SUFFICES ASSUME NEW o \in Order
               PROVE  sim'[o] \in Simulated /\ history'[o] \in HistoryType
    OBVIOUS
  <2>1. terms'[o] \in OrderTerms /\ Effect(o)
    OBVIOUS
  <2> QED
    BY <2>1, EffectType DEF TypeInv
<1>2. sim' \in [Order -> Simulated] /\ history' \in [Order -> HistoryType]
  BY <1>1
<1> QED
  BY <1>2 DEF OrdersOK, Known, HistoryType

\* Nothing happens to any order.
LEMMA NoEffect ==
  ASSUME UNCHANGED <<sim, terms, history>>
  PROVE  \A o : Effect(o)
BY DEF Effect, Untouched, Stays, SameBet

LEMMA OrdersSame ==
  ASSUME TypeInv, UNCHANGED <<orderVars, tstatus>>
  PROVE  OrdersOK' /\ \A o \in Order : Effect(o)
<1>1. OrdersOK'
  BY DEF TypeInv, OrdersOK, orderVars, Known
<1>2. UNCHANGED <<sim, terms, history>>
  BY DEF orderVars
<1> QED
  BY <1>1, <1>2, NoEffect

LEMMA MarketSame ==
  ASSUME TypeInv, UNCHANGED marketVars, UNCHANGED incoming
  PROVE  MarketOK'
BY DEF TypeInv, MarketOK, marketVars

\* Queue and engine, when a package has been executed
LEMMA EngineLeft ==
  ASSUME TypeInv, DueNow # {}, ~raised, queue' \in {QueueLeft, queue},
         live' \in Seq(Order), UNCHANGED <<phase, todo, requests>>, raised' \in BOOLEAN
  PROVE  EngineOK'
<1>1. QueueLeft \in Seq(Package)
  BY OthersLeft DEF TypeInv, PackageInv
<1> QED
  BY <1>1 DEF TypeInv, EngineOK

\* Statuses and the status of a trade
LEMMA StatusTypes ==
  ASSUME TypeInv, NEW o \in Order, NEW s \in OrderStatus,
         status' = [status EXCEPT ![o] = s]
  PROVE  /\ status' \in [Order -> OrderStatus]
         /\ UpdateStatus(o, s) => tstatus' \in [Order -> {"LIVE", "PENDING", "COMPLETE"}]
<1>1. status' \in [Order -> OrderStatus]
  BY DEF TypeInv, OrdersOK
<1>2. UpdateStatus(o, s) => tstatus' \in [Order -> {"LIVE", "PENDING", "COMPLETE"}]
  BY DEF TypeInv, OrdersOK, UpdateStatus
<1> QED
  BY <1>1, <1>2

LEMMA ExitTypes ==
  ASSUME TypeInv, NEW t \in Order, ExitTrade(t)
  PROVE  tstatus' \in [Order -> {"LIVE", "PENDING", "COMPLETE"}]
BY DEF TypeInv, OrdersOK, ExitTrade

LEMMA ClearTypes ==
  ASSUME TypeInv, NEW o \in Order, ClearData(o)
  PROVE  reduction' \in [Order -> 0..Size] /\ newPrice' \in [Order -> Price \cup {0}]
<1>1. 0 \in 0..Size
  BY BoundAssumption
<1> QED
  BY <1>1 DEF TypeInv, OrdersOK, ClearData

LEMMA OrderStates ==
  ASSUME TypeInv, NEW o \in Order
  PROVE  status[o] \in OrderStatus /\ trade[o] \in Order
BY DEF TypeInv, OrdersOK

-----------------------------------------------------------------------------
(* Types: the books *)

LEMMA NextBookType ==
  ASSUME TypeInv, NextBook
  PROVE  /\ TypeInv' /\ \A o \in Order : Effect(o)
         /\ Len(queue') = Len(queue)
         /\ \A i \in 1..Len(queue) :
              queue'[i].order = queue[i].order /\ queue'[i].type = queue[i].type
<1>0. UNCHANGED <<orderVars, tstatus, live, todo, requests, marketVars, raised>>
      /\ phase' = "packages" /\ ~raised
  BY DEF NextBook
<1>1. OrdersOK' /\ \A o \in Order : Effect(o)
  BY <1>0, OrdersSame
<1>2. PICK s \in Statuses, l \in Ladders, r \in BOOLEAN, g \in BOOLEAN, sp \in Prices,
          x \in Price, more \in 0..MaxVolume, d \in 1..MaxElapsed :
       /\ r => Removals
       /\ g => BspMarket
       /\ incoming.removed => r
       /\ incoming.reconciled => g /\ sp = incoming.sp
       /\ ~g => sp = Fresh(Prices)
       /\ incoming.volume[x] + more <= MaxVolume
       /\ more = 0 => x = Fresh(Price)
       /\ s # incoming.status => incoming.version < MaxVersion
       /\ incoming' =
            [ status |-> s, removed |-> r, reconciled |-> g, sp |-> sp,
              version |-> incoming.version + (IF s # incoming.status THEN 1 ELSE 0),
              volume |-> [incoming.volume EXCEPT ![x] = @ + more],
              back |-> l.back, lay |-> l.lay ]
       /\ queue' = [i \in DOMAIN queue |->
                      [queue[i] EXCEPT !.age = Least(@ + d, 1 + Delay[queue[i].type])]]
  BY DEF NextBook
<1>3. incoming' \in Book
  <2>1. incoming.version \in Nat /\ incoming.volume \in [Price -> Nat]
    BY DEF TypeInv, MarketOK, Book
  <2>2. incoming.version + (IF s # incoming.status THEN 1 ELSE 0) \in Nat
    BY <2>1
  <2>3. more \in Nat
    BY BoundAssumption
  <2>4. [incoming.volume EXCEPT ![x] = @ + more] \in [Price -> Nat]
    BY <2>1, <2>3
  <2>5. l.back \in [Price -> Nat] /\ l.lay \in [Price -> Nat]
    BY MarketAssumption
  <2>6. s \in {"OPEN", "SUSPENDED", "CLOSED"} /\ sp \in Price \cup {0}
    BY MarketAssumption
  <2> QED
    BY <1>2, <2>2, <2>4, <2>5, <2>6 DEF Book
<1>4. MarketOK'
  BY <1>0, <1>3 DEF TypeInv, MarketOK, marketVars
<1>5. /\ Len(queue') = Len(queue) /\ queue' \in Seq(Package)
      /\ \A i \in 1..Len(queue) :
           queue'[i].order = queue[i].order /\ queue'[i].type = queue[i].type
  <2>1. d \in Nat
    BY BoundAssumption
  <2>2. \A i \in 1..Len(queue) :
          /\ [queue[i] EXCEPT !.age = Least(@ + d, 1 + Delay[queue[i].type])] \in Package
          /\ queue'[i].order = queue[i].order /\ queue'[i].type = queue[i].type
    <3> SUFFICES ASSUME NEW i \in 1..Len(queue)
                 PROVE  /\ [queue[i] EXCEPT !.age =
                              Least(@ + d, 1 + Delay[queue[i].type])] \in Package
                        /\ queue'[i].order = queue[i].order
                        /\ queue'[i].type = queue[i].type
      OBVIOUS
    <3> DEFINE a == Least(queue[i].age + d, 1 + Delay[queue[i].type])
    <3>1. queue[i] \in Package
      BY QueueType
    <3>2. a \in Nat
      <4>1. queue[i].age \in Nat /\ queue[i].type \in PackageType
        BY <3>1 DEF Package
      <4>2. Delay[queue[i].type] \in Nat
        BY <4>1, BoundAssumption
      <4>3. queue[i].age + d \in Nat /\ 1 + Delay[queue[i].type] \in Nat
        BY <2>1, <4>1, <4>2
      <4> QED
        BY <4>3 DEF Least
    <3>3. queue'[i] = [queue[i] EXCEPT !.age = a]
      <4>1. i \in DOMAIN queue
        BY DEF TypeInv, EngineOK
      <4>2. queue'[i] = [queue[i] EXCEPT !.age = Least(@ + d, 1 + Delay[queue[i].type])]
        BY <1>2, <4>1
      <4> QED
        BY <4>2
    <3> HIDE DEF a
    <3>4. [queue[i] EXCEPT !.age = a] \in Package
      BY <3>1, <3>2 DEF Package
    <3>5. queue'[i].order = queue[i].order /\ queue'[i].type = queue[i].type
      BY <3>1, <3>3 DEF Package
    <3> QED
      BY <3>4, <3>5 DEF a
  <2>3. DOMAIN queue = 1..Len(queue) /\ Len(queue) \in Nat
    BY DEF TypeInv, EngineOK
  <2> DEFINE later(i) == [queue[i] EXCEPT !.age = Least(@ + d, 1 + Delay[queue[i].type])]
             m == Len(queue)
  <2>4. queue' = [i \in 1..m |-> later(i)] /\ m \in Nat
    BY <1>2, <2>3
  <2>5. \A i \in 1..m : later(i) \in Package
    BY <2>2
  <2> HIDE DEF later, m
  <2>6. queue' \in Seq(Package) /\ Len(queue') = m
    BY <2>4, <2>5
  <2> QED
    BY <2>2, <2>6 DEF m
<1>6. EngineOK'
  BY <1>0, <1>5 DEF TypeInv, EngineOK
<1>7. \A o \in Order : status'[o] = status[o]
  BY <1>0 DEF orderVars
<1>8. PackageInv'
  BY <1>0, <1>5, <1>7, PackageKept
<1> QED
  BY <1>1, <1>4, <1>5, <1>6, <1>8 DEF TypeInv

LEMMA CloseMarketType ==
  ASSUME TypeInv, CloseMarket
  PROVE  TypeInv' /\ \A o \in Order : Effect(o)
<1>0. /\ UNCHANGED <<orderVars, tstatus, live, queue, todo, incoming, requests, book,
                     volume, traded, removed, raised>>
      /\ phase' = "orders" /\ ~raised /\ closed' = TRUE
  BY DEF CloseMarket
<1>1. OrdersOK' /\ \A o \in Order : Effect(o)
  BY <1>0, OrdersSame
<1>2. EngineOK' /\ MarketOK'
  BY <1>0 DEF TypeInv, EngineOK, MarketOK
<1>3. \A o \in Order : status'[o] = status[o]
  BY <1>0 DEF orderVars
<1>4. PackageInv'
  BY <1>0, <1>3, PackageKept
<1> QED
  BY <1>1, <1>2, <1>4 DEF TypeInv

LEMMA UpdateMarketType ==
  ASSUME TypeInv, UpdateMarket
  PROVE  TypeInv' /\ \A o \in Order : Effect(o)
<1>0. /\ UNCHANGED <<status, terms, reduction, newPrice, trade, history, tstatus, live,
                     queue, incoming, requests, raised>>
      /\ phase' = "match" /\ todo' = live /\ ~raised /\ closed' = FALSE
      /\ book' = incoming /\ removed' = (removed \/ incoming.removed)
  BY DEF UpdateMarket
<1>1. /\ sim' = [o \in Order |-> sim'[o]] /\ DOMAIN sim' = Order
      /\ \A o \in Order : Effect(o)
  <2>1. sim = [o \in Order |-> sim[o]]
    BY DEF TypeInv, OrdersOK
  <2>2. \A o \in Order : Stays(o)
    BY <1>0 DEF Stays, SameBet
  <2>3. CASE incoming.removed /\ ~removed
    <3>1. sim' = [o \in Order |-> IF o \in Known THEN Voided(o) ELSE sim[o]]
      BY <2>3 DEF UpdateMarket
    <3> QED
      BY <1>0, <2>2, <2>3, <3>1 DEF Effect, Untouched, Voids
  <2>4. CASE ~(incoming.removed /\ ~removed)
    <3>1. sim' = sim
      BY <2>4 DEF UpdateMarket
    <3> QED
      BY <2>1, <2>2, <3>1 DEF Effect, Untouched
  <2> QED
    BY <2>3, <2>4
<1>2. OrdersOK'
  <2>1. history' = [o \in Order |-> history'[o]] /\ DOMAIN history' = Order
    BY <1>0 DEF TypeInv, OrdersOK
  <2>2. /\ status' \in [Order -> OrderStatus] /\ terms' \in [Order -> OrderTerms]
        /\ reduction' \in [Order -> 0..Size] /\ newPrice' \in [Order -> Price \cup {0}]
        /\ trade' \in [Order -> Order]
        /\ tstatus' \in [Order -> {"LIVE", "PENDING", "COMPLETE"}]
        /\ \A o \in Order : status'[o] \notin {"None", "New"} => terms'[o].price \in Price
    BY <1>0 DEF TypeInv, OrdersOK, Known
  <2> QED
    BY <1>1, <2>1, <2>2, OrdersKept
<1>3. EngineOK'
  BY <1>0 DEF TypeInv, EngineOK
<1>4. MarketOK'
  <2>1. volume' \in [Price -> Nat] /\ traded' \in [Price -> Nat]
    <3>1. CASE incoming.removed
      BY <3>1 DEF UpdateMarket, TypeInv, MarketOK
    <3>2. CASE ~incoming.removed
      <4>1. traded' = TradedSince(incoming) /\ volume' = incoming.volume
        BY <3>2 DEF UpdateMarket
      <4>2. incoming.volume \in [Price -> Nat] /\ volume \in [Price -> Nat]
        BY DEF TypeInv, MarketOK, Book
      <4>3. \A x \in Price : Most(0, incoming.volume[x] - volume[x]) \in Nat
        BY <4>2 DEF Most
      <4> QED
        BY <4>1, <4>2, <4>3 DEF TradedSince
    <3> QED
      BY <3>1, <3>2
  <2>2. incoming.removed \in BOOLEAN
    BY DEF TypeInv, MarketOK, Book
  <2> QED
    BY <1>0, <2>1, <2>2 DEF TypeInv, MarketOK
<1>5. PackageInv'
  BY <1>0, PackageKept
<1> QED
  BY <1>1, <1>2, <1>3, <1>4, <1>5 DEF TypeInv

LEMMA EndMatchingType ==
  ASSUME TypeInv, EndMatching
  PROVE  TypeInv' /\ \A o \in Order : Effect(o)
<1>0. /\ UNCHANGED <<orderVars, tstatus, live, queue, incoming, requests, marketVars, raised>>
      /\ phase = "match" /\ phase' = "orders" /\ todo' = live
  BY DEF EndMatching
<1>1. OrdersOK' /\ \A o \in Order : Effect(o)
  BY <1>0, OrdersSame
<1>2. ~raised
  BY <1>0 DEF TypeInv, PackageInv
<1>3. EngineOK' /\ MarketOK'
  BY <1>0, MarketSame DEF TypeInv, EngineOK
<1>4. \A o \in Order : status'[o] = status[o]
  BY <1>0 DEF orderVars
<1>5. PackageInv'
  BY <1>0, <1>2, <1>4, PackageKept
<1> QED
  BY <1>1, <1>3, <1>5 DEF TypeInv

-----------------------------------------------------------------------------
(* Types: the packages *)

\* An action that executes a package, and gives the order a status.
LEMMA Executed ==
  ASSUME TypeInv, NEW type, Executing(type, QueueLeft), UNCHANGED raised,
         live' \in Seq(Order)
  PROVE  /\ DueNow # {} /\ ~raised /\ ~raised' /\ phase = "packages" /\ NextDue.type = type
         /\ queue' = QueueLeft
         /\ EngineOK' /\ MarketOK'
<1>1. /\ DueNow # {} /\ ~raised /\ phase = "packages" /\ NextDue.type = type
      /\ queue' = QueueLeft /\ UNCHANGED <<phase, todo, incoming, requests, marketVars>>
  BY DEF Executing
<1>2. raised' \in BOOLEAN
  BY DEF TypeInv, EngineOK
<1> QED
  BY <1>1, <1>2, EngineLeft, MarketSame

LEMMA ExecutePlaceType ==
  ASSUME TypeInv, ExecutePlace
  PROVE  TypeInv' /\ \A o \in Order : Effect(o)
<1>1. PICK o, s, new :
        /\ o = NextDue.order /\ s = Placed(terms[o], NextDue.version)
        /\ new = IF PlaceSucceeds(terms[o], NextDue.version)
                 THEN "EXECUTABLE" ELSE "EXECUTION_COMPLETE"
  OBVIOUS
<1>2. /\ Executing("PLACE", QueueLeft)
      /\ sim' = [sim EXCEPT ![o] = s]
      /\ history' = [history EXCEPT ![o] = Noted(terms[o], s)]
      /\ UNCHANGED <<terms, trade, live, raised>>
      /\ status' = [status EXCEPT ![o] = new]
      /\ ExitTrade(trade[o])
      /\ ClearData(o)
  BY <1>1 DEF ExecutePlace
<1>3. live' \in Seq(Order)
  BY <1>2 DEF TypeInv, EngineOK
<1>4. /\ DueNow # {} /\ ~raised /\ ~raised' /\ phase = "packages" /\ queue' = QueueLeft
      /\ EngineOK' /\ MarketOK'
  BY <1>2, <1>3, Executed
<1>5. o \in Order /\ terms[o].price \in Price /\ o \in Known /\ new \in OrderStatus \ Awaiting
  <2>1. new \in OrderStatus \ Awaiting
    BY <1>1 DEF OrderStatus, Complete, Awaiting
  <2> QED
    BY <1>1, <1>4, <2>1, DueOrder
<1>6. ASSUME NEW u \in Order
      PROVE  Effect(u)
  <2>1. CASE u = o
    <3>1. sim'[o] = s /\ history'[o] = Noted(terms[o], s) /\ terms'[o] = terms[o]
      BY <1>2, <1>5 DEF TypeInv, OrdersOK
    <3>2. NextDue.type = "PLACE" /\ NextDue.order = o
      BY <1>1, <1>2 DEF Executing
    <3>3. Put(o)
      BY <1>1, <1>4, <1>5, <3>1, <3>2 DEF Put, SameBet
    <3> QED
      BY <2>1, <3>3 DEF Effect
  <2>2. CASE u # o
    BY <1>2, <2>2 DEF TypeInv, OrdersOK, Effect, Untouched, Stays, SameBet
  <2> QED
    BY <2>1, <2>2
<1>7. OrdersOK'
  <2>1. /\ DOMAIN sim' = Order /\ sim' = [u \in Order |-> sim'[u]]
        /\ DOMAIN history' = Order /\ history' = [u \in Order |-> history'[u]]
    BY <1>2 DEF TypeInv, OrdersOK
  <2>2. /\ terms' \in [Order -> OrderTerms] /\ trade' \in [Order -> Order]
        /\ status' \in [Order -> OrderStatus]
    BY <1>2, <1>5, StatusTypes DEF TypeInv, OrdersOK
  <2>3. tstatus' \in [Order -> {"LIVE", "PENDING", "COMPLETE"}]
    BY <1>2, <1>5, OrderStates, ExitTypes
  <2>4. reduction' \in [Order -> 0..Size] /\ newPrice' \in [Order -> Price \cup {0}]
    BY <1>2, <1>5, ClearTypes
  <2>5. \A u \in Order : status'[u] \notin {"None", "New"} => terms'[u].price \in Price
    BY <1>2, <1>5 DEF TypeInv, OrdersOK, Known
  <2> QED
    BY <1>6, <2>1, <2>2, <2>3, <2>4, <2>5, OrdersKept
<1>8. PackageInv'
  <2>1. status'[o] \notin Awaiting /\ \A u \in Order \ {o} : status'[u] = status[u]
    BY <1>2, <1>5 DEF TypeInv, OrdersOK
  <2> QED
    BY <1>1, <1>4, <2>1, PackageDone
<1> QED
  BY <1>4, <1>6, <1>7, <1>8 DEF TypeInv

LEMMA ExecuteCancelType ==
  ASSUME TypeInv, ExecuteCancel
  PROVE  TypeInv' /\ \A o \in Order : Effect(o)
<1>1. PICK o, new : o = NextDue.order /\ new = AfterCancel(o, Left(terms[o], sim'[o]))
  OBVIOUS
<1>2. /\ Executing("CANCEL", QueueLeft)
      /\ sim' = IF CancelSucceeds(o)
                THEN [sim EXCEPT ![o].cancelled = @ + CancelledSize(o)] ELSE sim
      /\ UNCHANGED <<terms, trade, live, history, raised>>
      /\ status' = [status EXCEPT ![o] = new]
      /\ ExitTrade(trade[o])
      /\ ClearData(o)
  BY <1>1 DEF ExecuteCancel
<1>3. live' \in Seq(Order)
  BY <1>2 DEF TypeInv, EngineOK
<1>4. /\ DueNow # {} /\ ~raised /\ ~raised' /\ phase = "packages" /\ queue' = QueueLeft
      /\ EngineOK' /\ MarketOK'
  BY <1>2, <1>3, Executed
<1>5. o \in Order /\ terms[o].price \in Price /\ o \in Known /\ new \in OrderStatus \ Awaiting
  <2>1. new \in OrderStatus \ Awaiting
    BY <1>1 DEF AfterCancel, OrderStatus, Complete, Awaiting
  <2> QED
    BY <1>1, <1>4, <2>1, DueOrder
<1>6. ASSUME NEW u \in Order
      PROVE  Effect(u)
  <2>1. CASE u = o /\ CancelSucceeds(o)
    <3>1. sim' = [sim EXCEPT ![o].cancelled = @ + CancelledSize(o)]
      BY <1>2, <2>1
    <3>2. sim'[o] = [sim[o] EXCEPT !.cancelled = @ + CancelledSize(o)]
      BY <1>5, <3>1 DEF TypeInv, OrdersOK
    <3>3. Cut(o)
      BY <1>1, <1>2, <1>4, <3>2 DEF Cut, Stays, SameBet
    <3> QED
      BY <2>1, <3>3 DEF Effect
  <2>2. CASE ~(u = o /\ CancelSucceeds(o))
    <3>1. sim'[u] = sim[u]
      BY <1>2, <2>2 DEF TypeInv, OrdersOK
    <3> QED
      BY <1>2, <3>1 DEF Effect, Untouched, Stays, SameBet
  <2> QED
    BY <2>1, <2>2
<1>7. OrdersOK'
  <2>1. /\ DOMAIN sim' = Order /\ sim' = [u \in Order |-> sim'[u]]
        /\ DOMAIN history' = Order /\ history' = [u \in Order |-> history'[u]]
    <3>1. /\ DOMAIN sim = Order /\ sim = [u \in Order |-> sim[u]]
          /\ DOMAIN history = Order /\ history = [u \in Order |-> history[u]]
      BY DEF TypeInv, OrdersOK
    <3>2. CASE CancelSucceeds(o)
      <4>1. sim' = [sim EXCEPT ![o].cancelled = @ + CancelledSize(o)]
        BY <1>2, <3>2
      <4> QED
        BY <1>2, <3>1, <4>1
    <3>3. CASE ~CancelSucceeds(o)
      BY <1>2, <3>1, <3>3
    <3> QED
      BY <3>2, <3>3
  <2>2. /\ terms' \in [Order -> OrderTerms] /\ trade' \in [Order -> Order]
        /\ status' \in [Order -> OrderStatus]
    BY <1>2, <1>5, StatusTypes DEF TypeInv, OrdersOK
  <2>3. tstatus' \in [Order -> {"LIVE", "PENDING", "COMPLETE"}]
    BY <1>2, <1>5, OrderStates, ExitTypes
  <2>4. reduction' \in [Order -> 0..Size] /\ newPrice' \in [Order -> Price \cup {0}]
    BY <1>2, <1>5, ClearTypes
  <2>5. \A u \in Order : status'[u] \notin {"None", "New"} => terms'[u].price \in Price
    BY <1>2, <1>5 DEF TypeInv, OrdersOK, Known
  <2> QED
    BY <1>6, <2>1, <2>2, <2>3, <2>4, <2>5, OrdersKept
<1>8. PackageInv'
  <2>1. status'[o] \notin Awaiting /\ \A u \in Order \ {o} : status'[u] = status[u]
    BY <1>2, <1>5 DEF TypeInv, OrdersOK
  <2> QED
    BY <1>1, <1>4, <2>1, PackageDone
<1> QED
  BY <1>4, <1>6, <1>7, <1>8 DEF TypeInv

LEMMA ExecuteUpdateType ==
  ASSUME TypeInv, ExecuteUpdate
  PROVE  TypeInv' /\ \A o \in Order : Effect(o)
<1>1. PICK o : o = NextDue.order
  OBVIOUS
<1>2. /\ Executing("UPDATE", QueueLeft)
      /\ UNCHANGED <<sim, terms, trade, live, history, raised>>
      /\ status' = [status EXCEPT ![o] = "EXECUTABLE"]
      /\ ExitTrade(trade[o])
      /\ ClearData(o)
  BY <1>1 DEF ExecuteUpdate
<1>3. live' \in Seq(Order)
  BY <1>2 DEF TypeInv, EngineOK
<1>4. /\ DueNow # {} /\ ~raised /\ ~raised' /\ phase = "packages" /\ queue' = QueueLeft
      /\ EngineOK' /\ MarketOK'
  BY <1>2, <1>3, Executed
<1>5. o \in Order /\ o \in Known /\ "EXECUTABLE" \in OrderStatus \ Awaiting
  <2>1. "EXECUTABLE" \in OrderStatus \ Awaiting
    BY DEF OrderStatus, Awaiting
  <2> QED
    BY <1>1, <1>4, <2>1, DueOrder
<1>6. \A u \in Order : Effect(u)
  BY <1>2, NoEffect
<1>7. OrdersOK'
  <2>2. status' \in [Order -> OrderStatus]
    BY <1>2, <1>5, StatusTypes
  <2>3. tstatus' \in [Order -> {"LIVE", "PENDING", "COMPLETE"}]
    BY <1>2, <1>5, OrderStates, ExitTypes
  <2>4. reduction' \in [Order -> 0..Size] /\ newPrice' \in [Order -> Price \cup {0}]
    BY <1>2, <1>5, ClearTypes
  <2>5. \A u \in Order : status'[u] \notin {"None", "New"} => terms'[u].price \in Price
    BY <1>2, <1>5 DEF TypeInv, OrdersOK, Known
  <2> QED
    BY <1>2, <2>2, <2>3, <2>4, <2>5 DEF TypeInv, OrdersOK, Known
<1>8. PackageInv'
  <2>1. status'[o] \notin Awaiting /\ \A u \in Order \ {o} : status'[u] = status[u]
    BY <1>2, <1>5 DEF TypeInv, OrdersOK
  <2> QED
    BY <1>1, <1>4, <2>1, PackageDone
<1> QED
  BY <1>4, <1>6, <1>7, <1>8 DEF TypeInv

\* An unused order is not one of the orders of the packages.
LEMMA FreshOrder ==
  ASSUME TypeInv, Unused # {}
  PROVE  /\ Fresh(Unused) \in Order /\ status[Fresh(Unused)] = "None"
         /\ Fresh(Unused) \notin Known
BY DEF Unused, Fresh, Known

\* The terms of a replacement
LEMMA ReplacementType ==
  ASSUME TypeInv, NEW o \in Order, newPrice[o] # 0, NEW t,
         t = [terms[o] EXCEPT !.price = newPrice[o], !.size = CancelledSize(o)]
  PROVE  /\ t \in OrderTerms /\ t.price \in Price /\ t.size = CancelledSize(o)
         /\ t.kind = terms[o].kind /\ t.side = terms[o].side
         /\ t.persistence = terms[o].persistence
<1>1. PICK p, c : p = newPrice[o] /\ c = CancelledSize(o)
  OBVIOUS
<1>2. terms[o] \in OrderTerms /\ c \in Int
  BY <1>1, OrderTypes DEF TypeInv
<1>3. p \in Price
  BY <1>1 DEF TypeInv, OrdersOK
<1>4. t = [terms[o] EXCEPT !.price = p, !.size = c]
  BY <1>1
<1>5. t \in OrderTerms
  <2>1. p \in Price \cup {0}
    BY <1>3
  <2> QED
    BY ONLY <1>2, <1>4, <2>1 DEF OrderTerms
<1>6. /\ t.price = p /\ t.size = c /\ t.kind = terms[o].kind /\ t.side = terms[o].side
      /\ t.persistence = terms[o].persistence
  BY ONLY <1>2, <1>4 DEF OrderTerms
<1> QED
  BY <1>1, <1>3, <1>5, <1>6

LEMMA ExecuteReplaceType ==
  ASSUME TypeInv, ExecuteReplace
  PROVE  TypeInv' /\ \A o \in Order : Effect(o)
<1>1. PICK o, n, t, s, ok :
        /\ o = NextDue.order /\ n = Fresh(Unused)
        /\ t = [terms[o] EXCEPT !.price = newPrice[o], !.size = CancelledSize(o)]
        /\ s = Placed(t, NextDue.version) /\ ok = PlaceSucceeds(t, NextDue.version)
  OBVIOUS
<1>2. /\ Executing("REPLACE", QueueLeft)
      /\ newPrice[o] # 0 /\ CancelSucceeds(o) /\ Unused # {}
      /\ terms' = [terms EXCEPT ![n] = t]
      /\ sim' = [sim EXCEPT ![o].cancelled = @ + CancelledSize(o), ![n] = s]
      /\ history' = [history EXCEPT ![n] = Noted(t, s)]
      /\ trade' = [trade EXCEPT ![n] = trade[o]]
      /\ live' = IF ok THEN Append(live, n) ELSE live
      /\ UNCHANGED raised
      /\ status' = IF ok THEN [status EXCEPT ![o] = "EXECUTION_COMPLETE", ![n] = "EXECUTABLE"]
                         ELSE [status EXCEPT ![o] = "EXECUTABLE", ![n] = "New"]
      /\ ExitTrade(trade[o])
      /\ ClearData(o)
  BY <1>1 DEF ExecuteReplace
<1>3. n \in Order /\ status[n] = "None" /\ n \notin Known
  BY <1>1, <1>2, FreshOrder
<1>4. live' \in Seq(Order)
  BY <1>2, <1>3 DEF TypeInv, EngineOK
<1>5. /\ DueNow # {} /\ ~raised /\ ~raised' /\ phase = "packages" /\ queue' = QueueLeft
      /\ EngineOK' /\ MarketOK'
  BY <1>2, <1>4, Executed
<1>6. o \in Order /\ terms[o].price \in Price /\ o \in Known /\ o # n
  BY <1>1, <1>3, <1>5, DueOrder
<1>7. t \in OrderTerms /\ t.price \in Price /\ t.size = CancelledSize(o)
  BY <1>1, <1>2, <1>6, ReplacementType
<1>8. ASSUME NEW u \in Order
      PROVE  Effect(u)
  <2>0. DOMAIN sim = Order /\ DOMAIN terms = Order /\ DOMAIN history = Order
    BY DEF TypeInv, OrdersOK
  <2>1. CASE u = n
    <3>1. sim'[n] = s /\ history'[n] = Noted(t, s) /\ terms'[n] = t
      BY <1>2, <1>3, <2>0
    <3>2. Put(n)
      BY <1>1, <1>3, <1>5, <1>6, <1>7, <3>1 DEF Put
    <3> QED
      BY <2>1, <3>2 DEF Effect
  <2>2. CASE u = o
    <3>1. /\ sim'[o] = [sim[o] EXCEPT !.cancelled = @ + CancelledSize(o)]
          /\ history'[o] = history[o] /\ terms'[o] = terms[o]
      BY <1>2, <1>6, <2>0
    <3>2. Cut(o)
      BY <1>1, <1>5, <3>1 DEF Cut, Stays, SameBet
    <3> QED
      BY <2>2, <3>2 DEF Effect
  <2>3. CASE u # n /\ u # o
    <3>1. sim'[u] = sim[u] /\ history'[u] = history[u] /\ terms'[u] = terms[u]
      BY <1>2, <2>0, <2>3
    <3> QED
      BY <3>1 DEF Effect, Untouched, Stays, SameBet
  <2> QED
    BY <2>1, <2>2, <2>3
<1>9. OrdersOK'
  <2>1. /\ DOMAIN sim' = Order /\ sim' = [u \in Order |-> sim'[u]]
        /\ DOMAIN history' = Order /\ history' = [u \in Order |-> history'[u]]
    BY <1>2 DEF TypeInv, OrdersOK
  <2>2. terms' \in [Order -> OrderTerms] /\ trade' \in [Order -> Order]
    BY <1>2, <1>7, <1>6, OrderStates DEF TypeInv, OrdersOK
  <2>3. status' \in [Order -> OrderStatus]
    BY <1>2 DEF TypeInv, OrdersOK, OrderStatus, Complete
  <2>4. tstatus' \in [Order -> {"LIVE", "PENDING", "COMPLETE"}]
    BY <1>2, <1>6, OrderStates, ExitTypes
  <2>5. reduction' \in [Order -> 0..Size] /\ newPrice' \in [Order -> Price \cup {0}]
    BY <1>2, <1>6, ClearTypes
  <2>6. ASSUME NEW u \in Order, status'[u] \notin {"None", "New"}
        PROVE  terms'[u].price \in Price
    <3>1. CASE u = n
      BY <1>2, <1>3, <1>7, <3>1 DEF TypeInv, OrdersOK
    <3>2. CASE u # n
      <4>1. terms'[u] = terms[u]
        BY <1>2, <3>2 DEF TypeInv, OrdersOK
      <4>2. u \in Known
        BY <1>2, <1>6, <2>6, <3>2 DEF TypeInv, OrdersOK, Known
      <4> QED
        BY <4>1, <4>2 DEF TypeInv, OrdersOK
    <3> QED
      BY <3>1, <3>2
  <2> QED
    BY <1>8, <2>1, <2>2, <2>3, <2>4, <2>5, <2>6, OrdersKept
<1>10. PackageInv'
  <2>1. /\ status'[o] \in {"EXECUTION_COMPLETE", "EXECUTABLE"}
        /\ status'[n] \in {"EXECUTABLE", "New"}
        /\ \A u \in Order \ {o, n} : status'[u] = status[u]
    BY <1>2, <1>3, <1>6 DEF TypeInv, OrdersOK
  <2>2. \A x \in {"EXECUTION_COMPLETE", "EXECUTABLE", "New"} : x \notin Awaiting
    BY DEF Awaiting
  <2> QED
    BY <1>1, <1>3, <1>5, <2>1, <2>2, PackageDone
<1> QED
  BY <1>5, <1>8, <1>9, <1>10 DEF TypeInv

LEMMA FailReplaceType ==
  ASSUME TypeInv, FailReplace
  PROVE  TypeInv' /\ \A o \in Order : Effect(o)
<1>1. PICK o, n : o = NextDue.order /\ n = Fresh(Unused)
  OBVIOUS
<1>2. /\ Executing("REPLACE", queue) /\ Unused # {}
      /\ trade' = [trade EXCEPT ![n] = trade[o]]
      /\ status' = [status EXCEPT ![o] = "EXECUTABLE", ![n] = "New"]
      /\ tstatus' = [tstatus EXCEPT ![trade[o]] = "PENDING"]
      /\ ClearData(o)
      /\ raised' = TRUE
      /\ UNCHANGED <<terms, sim, live, history>>
  BY <1>1 DEF FailReplace
<1>3. /\ DueNow # {} /\ ~raised /\ phase = "packages" /\ queue' = queue
      /\ UNCHANGED <<phase, todo, incoming, requests, marketVars>>
  BY <1>2 DEF Executing
<1>4. n \in Order /\ status[n] = "None" /\ n \notin Known
  BY <1>1, <1>2, FreshOrder
<1>5. o \in Order /\ terms[o].price \in Price /\ o \in Known /\ o # n
  BY <1>1, <1>3, <1>4, DueOrder
<1>6. EngineOK' /\ MarketOK'
  BY <1>2, <1>3, MarketSame DEF TypeInv, EngineOK
<1>7. \A u \in Order : Effect(u)
  BY <1>2, NoEffect
<1>8. OrdersOK'
  <2>1. trade' \in [Order -> Order] /\ status' \in [Order -> OrderStatus]
    BY <1>2, <1>5, OrderStates DEF TypeInv, OrdersOK, OrderStatus
  <2>2. tstatus' \in [Order -> {"LIVE", "PENDING", "COMPLETE"}]
    BY <1>2 DEF TypeInv, OrdersOK
  <2>3. reduction' \in [Order -> 0..Size] /\ newPrice' \in [Order -> Price \cup {0}]
    BY <1>2, <1>5, ClearTypes
  <2>4. \A u \in Order : status'[u] \notin {"None", "New"} => terms'[u].price \in Price
    BY <1>2, <1>4, <1>5 DEF TypeInv, OrdersOK, Known
  <2> QED
    BY <1>2, <2>1, <2>2, <2>3, <2>4 DEF TypeInv, OrdersOK, Known
<1>9. PackageInv'
  <2>1. "EXECUTABLE" \notin Awaiting /\ "New" \notin Awaiting
    BY DEF Awaiting
  <2>2. \A u \in Order : status'[u] = status[u] \/ status'[u] \notin Awaiting
    BY <1>2, <2>1 DEF TypeInv, OrdersOK
  <2> QED
    BY <1>2, <1>3, <2>2, PackageRaised
<1> QED
  BY <1>6, <1>7, <1>8, <1>9 DEF TypeInv

LEMMA FailInstructionType ==
  ASSUME TypeInv, FailInstruction
  PROVE  TypeInv' /\ \A o \in Order : Effect(o)
<1>1. /\ UNCHANGED <<orderVars, tstatus, live>> /\ raised' = TRUE
      /\ ~raised /\ phase = "packages" /\ queue' = queue
      /\ UNCHANGED <<phase, todo, incoming, requests, marketVars>>
  BY DEF FailInstruction, Executing
<1>2. OrdersOK' /\ \A o \in Order : Effect(o)
  BY <1>1, OrdersSame
<1>3. EngineOK' /\ MarketOK'
  BY <1>1, MarketSame DEF TypeInv, EngineOK
<1>4. \A o \in Order : status'[o] = status[o]
  BY <1>1 DEF orderVars
<1>5. PackageInv'
  BY <1>1, <1>4, PackageRaised
<1> QED
  BY <1>2, <1>3, <1>5 DEF TypeInv

-----------------------------------------------------------------------------
(* Types: matching, and the blotter *)

\* An order is visited: the engine, the market and the other orders are left alone.
LEMMA VisitedType ==
  ASSUME TypeInv, NEW o \in Order, Visit(o), Visited
  PROVE  EngineOK' /\ MarketOK' /\ ~raised /\ ~raised' /\ queue' = queue
<1>1. UNCHANGED <<live, phase, queue, incoming, requests, marketVars, raised>>
      /\ todo' = Tail(todo) /\ todo # <<>> /\ phase = "match"
  BY DEF Visit, Visited
<1>2. ~raised
  BY <1>1 DEF TypeInv, PackageInv
<1>3. EngineOK'
  BY <1>1 DEF TypeInv, EngineOK
<1>4. MarketOK'
  BY <1>1, MarketSame
<1> QED
  BY <1>1, <1>2, <1>3, <1>4

\* Nothing of the order changes but what is simulated of it.
LEMMA MatchedType ==
  ASSUME TypeInv, NEW o \in Order, Visit(o), Visited, NEW s, NEW h,
         sim' = [sim EXCEPT ![o] = s], history' = [history EXCEPT ![o] = h],
         UNCHANGED <<status, tstatus, reduction, newPrice>>, Effect(o)
  PROVE  TypeInv' /\ \A u \in Order : Effect(u)
<1>0. UNCHANGED <<terms, trade>>
  BY DEF Visited
<1>1. ASSUME NEW u \in Order
      PROVE  Effect(u)
  <2>1. CASE u # o
    <3>1. sim'[u] = sim[u] /\ history'[u] = history[u]
      BY <2>1 DEF TypeInv, OrdersOK
    <3> QED
      BY <1>0, <3>1 DEF Effect, Untouched, Stays, SameBet
  <2> QED
    BY <2>1
<1>2. OrdersOK'
  <2>1. /\ DOMAIN sim' = Order /\ sim' = [u \in Order |-> sim'[u]]
        /\ DOMAIN history' = Order /\ history' = [u \in Order |-> history'[u]]
    BY DEF TypeInv, OrdersOK
  <2>2. /\ terms' \in [Order -> OrderTerms] /\ trade' \in [Order -> Order]
        /\ status' \in [Order -> OrderStatus]
        /\ tstatus' \in [Order -> {"LIVE", "PENDING", "COMPLETE"}]
        /\ reduction' \in [Order -> 0..Size] /\ newPrice' \in [Order -> Price \cup {0}]
        /\ \A u \in Order : status'[u] \notin {"None", "New"} => terms'[u].price \in Price
    BY <1>0 DEF TypeInv, OrdersOK, Known
  <2> QED
    BY <1>1, <2>1, <2>2, OrdersKept
<1>3. EngineOK' /\ MarketOK' /\ ~raised /\ ~raised' /\ queue' = queue
  BY VisitedType
<1>4. PackageInv'
  BY <1>3, PackageKept
<1> QED
  BY <1>1, <1>2, <1>3, <1>4 DEF TypeInv

LEMMA PassOrderType ==
  ASSUME TypeInv, NEW o \in Order, PassOrder(o) \/ NoSP(o)
  PROVE  TypeInv' /\ \A u \in Order : Effect(u)
<1>1. /\ Visit(o) /\ Visited /\ UNCHANGED <<status, tstatus, sim, history, reduction, newPrice>>
  BY DEF PassOrder, NoSP
<1>2. UNCHANGED <<terms, trade>>
  BY <1>1 DEF Visited
<1>3. UNCHANGED <<orderVars, tstatus>>
  BY <1>1, <1>2 DEF orderVars
<1>4. OrdersOK' /\ \A u \in Order : Effect(u)
  BY <1>3, OrdersSame
<1>5. EngineOK' /\ MarketOK' /\ ~raised /\ ~raised' /\ queue' = queue
  BY <1>1, VisitedType
<1>6. PackageInv'
  BY <1>1, <1>5, PackageKept
<1> QED
  BY <1>4, <1>5, <1>6 DEF TypeInv

LEMMA LapseType ==
  ASSUME TypeInv, NEW o \in Order, Lapse(o)
  PROVE  TypeInv' /\ (\A u \in Order : Effect(u)) /\ Lapses(o)
<1>1. PICK s : s = [sim[o] EXCEPT !.version = book.version, !.lapsed = @ + Remaining(o)]
  OBVIOUS
<1>2. DOMAIN sim = Order /\ DOMAIN history = Order /\ history = [u \in Order |-> history[u]]
  BY DEF TypeInv, OrdersOK
<1>3. /\ Visit(o) /\ Visited /\ Matchable(o) /\ Remaining(o) # 0
      /\ sim' = [sim EXCEPT ![o].version = book.version, ![o].lapsed = @ + Remaining(o)]
      /\ UNCHANGED <<status, tstatus, history, reduction, newPrice>>
  BY DEF Lapse
<1>4. sim' = [sim EXCEPT ![o] = s] /\ sim'[o] = s
  BY <1>1, <1>2, <1>3 DEF TypeInv, OrdersOK, Simulated
<1>5. history' = [history EXCEPT ![o] = history[o]]
  BY <1>2, <1>3
<1>6. Lapses(o)
  <2>1. UNCHANGED terms
    BY <1>3 DEF Visited
  <2> QED
    BY <1>1, <1>3, <1>4, <2>1 DEF Lapses, Stays, SameBet
<1> QED
  BY <1>3, <1>4, <1>5, <1>6, MatchedType DEF Effect

LEMMA MatchTradedType ==
  ASSUME TypeInv, NEW o \in Order, MatchTraded(o)
  PROVE  TypeInv' /\ (\A u \in Order : Effect(u)) /\ Fills(o)
<1>2. DOMAIN sim = Order /\ DOMAIN history = Order /\ history = [u \in Order |-> history[u]]
  BY DEF TypeInv, OrdersOK
<1>3. /\ Visit(o) /\ Visited /\ Matchable(o) /\ Remaining(o) # 0 /\ ~MaterialChange(o)
      /\ sim' = [sim EXCEPT ![o] = Filled(o)]
      /\ UNCHANGED <<status, tstatus, history, reduction, newPrice>>
  BY DEF MatchTraded
<1>4. sim'[o] = Filled(o)
  BY <1>2, <1>3
<1>5. history' = [history EXCEPT ![o] = history[o]]
  BY <1>2, <1>3
<1>6. Fills(o)
  <2>1. UNCHANGED terms
    BY <1>3 DEF Visited
  <2> QED
    BY <1>3, <1>4, <2>1 DEF Fills, Stays, SameBet
<1> QED
  BY <1>3, <1>4, <1>5, <1>6, MatchedType DEF Effect

LEMMA MatchAtSPType ==
  ASSUME TypeInv, NEW o \in Order, MatchAtSP(o)
  PROVE  TypeInv' /\ (\A u \in Order : Effect(u)) /\ AtStart(o)
<1> DEFINE h == [history[o] EXCEPT !.taken =
                   @ + (IF Unacceptable(o) THEN 0 ELSE SPSize(o))]
<1>1. AtStart(o) <=> /\ Visit(o) /\ Visited /\ Matchable(o)
                     /\ SameBet(o) /\ AtSP(o) /\ book.sp # 0
                     /\ status'[o] = "EXECUTION_COMPLETE"
                     /\ history'[o] = h /\ sim'[o] = Reconciled(o)
  BY DEF AtStart
<1>2. DOMAIN sim = Order /\ DOMAIN history = Order
  BY DEF TypeInv, OrdersOK
<1>3. /\ Visit(o) /\ Visited /\ Matchable(o) /\ AtSP(o) /\ book.sp # 0
      /\ UpdateStatus(o, "EXECUTION_COMPLETE") /\ ClearData(o)
  BY DEF MatchAtSP
<1>4. sim' = [sim EXCEPT ![o] = Reconciled(o)] /\ sim'[o] = Reconciled(o)
  BY <1>2 DEF MatchAtSP
<1>5. history' = [history EXCEPT ![o] = h] /\ history'[o] = h
  <2>1. history' = [history EXCEPT ![o].taken =
                      @ + (IF Unacceptable(o) THEN 0 ELSE SPSize(o))]
    BY DEF MatchAtSP
  <2> QED
    BY <1>2, <2>1
<1> HIDE DEF h
<1>6. UNCHANGED <<terms, trade>>
  BY <1>3 DEF Visited
<1>7. AtStart(o)
  <2>1. status'[o] = "EXECUTION_COMPLETE"
    BY <1>3 DEF UpdateStatus, TypeInv, OrdersOK
  <2> QED
    BY <1>1, <1>3, <1>4, <1>5, <1>6, <2>1 DEF SameBet
<1>8. ASSUME NEW u \in Order
      PROVE  Effect(u)
  <2>1. CASE u # o
    <3>1. sim'[u] = sim[u] /\ history'[u] = history[u]
      BY <1>4, <1>5, <2>1
    <3> QED
      BY <1>6, <3>1 DEF Effect, Untouched, Stays, SameBet
  <2> QED
    BY <1>7, <2>1 DEF Effect
<1>9. "EXECUTION_COMPLETE" \in OrderStatus
      /\ status' = [status EXCEPT ![o] = "EXECUTION_COMPLETE"]
  BY <1>3 DEF OrderStatus, Complete, UpdateStatus
<1>10. OrdersOK'
  <2>0. /\ DOMAIN sim = Order /\ sim = [u \in Order |-> sim[u]]
        /\ DOMAIN history = Order /\ history = [u \in Order |-> history[u]]
    BY DEF TypeInv, OrdersOK
  <2>1. /\ DOMAIN sim' = Order /\ sim' = [u \in Order |-> sim'[u]]
        /\ DOMAIN history' = Order /\ history' = [u \in Order |-> history'[u]]
    BY <1>4, <1>5, <2>0
  <2>2. /\ terms' \in [Order -> OrderTerms] /\ trade' \in [Order -> Order]
        /\ status' \in [Order -> OrderStatus]
        /\ tstatus' \in [Order -> {"LIVE", "PENDING", "COMPLETE"}]
    BY <1>3, <1>6, <1>9, StatusTypes DEF TypeInv, OrdersOK
  <2>3. reduction' \in [Order -> 0..Size] /\ newPrice' \in [Order -> Price \cup {0}]
    BY <1>3, ClearTypes
  <2>4. \A u \in Order : status'[u] \notin {"None", "New"} => terms'[u].price \in Price
    <3>1. o \in Known
      <4>1. status[o] = "EXECUTABLE"
        BY DEF MatchAtSP, Matchable
      <4> QED
        BY <4>1 DEF Known
    <3> QED
      BY <1>6, <1>9, <3>1 DEF TypeInv, OrdersOK, Known
  <2> QED
    BY <1>8, <2>1, <2>2, <2>3, <2>4, OrdersKept
<1>11. EngineOK' /\ MarketOK' /\ ~raised /\ ~raised' /\ queue' = queue
  BY <1>3, VisitedType
<1>12. PackageInv'
  <2>1. \A u \in Order : status'[u] \in {status[u], "EXECUTION_COMPLETE"}
    BY <1>9 DEF TypeInv, OrdersOK
  <2> QED
    BY <1>11, <2>1, PackageKept
<1> QED
  BY <1>7, <1>8, <1>10, <1>11, <1>12 DEF TypeInv

LEMMA ProcessOrderType ==
  ASSUME TypeInv, NEW o \in Order, ProcessOrder(o), status[o] \notin {"None", "New"}
  PROVE  TypeInv' /\ \A u \in Order : Effect(u)
<1>1. /\ phase = "orders" /\ todo # <<>> /\ todo' = Tail(todo)
      /\ live' = IF Leaves(o) THEN Without(live, o) ELSE live
      /\ UNCHANGED <<terms, sim, history, phase, queue, incoming, requests, marketVars, raised>>
      /\ UNCHANGED trade
  BY DEF ProcessOrder
<1>2. \A u \in Order : Effect(u)
  BY <1>1, NoEffect
<1>3. ~raised
  BY <1>1 DEF TypeInv, PackageInv
<1>4. EngineOK' /\ MarketOK'
  <2>1. live \in Seq(Order)
    BY DEF TypeInv, EngineOK
  <2>2. live' \in Seq(Order)
    BY <1>1, <2>1, WithoutType
  <2> QED
    BY <1>1, <2>2, MarketSame DEF TypeInv, EngineOK
<1>5. CASE Done(o)
  <2>1. UpdateStatus(o, "EXECUTION_COMPLETE") /\ ClearData(o)
    BY <1>5 DEF ProcessOrder
  <2>2. /\ "EXECUTION_COMPLETE" \in OrderStatus
        /\ status' = [status EXCEPT ![o] = "EXECUTION_COMPLETE"]
    BY <2>1 DEF OrderStatus, Complete, UpdateStatus
  <2>3. OrdersOK'
    <3>1. status' \in [Order -> OrderStatus]
          /\ tstatus' \in [Order -> {"LIVE", "PENDING", "COMPLETE"}]
      BY <2>1, <2>2, StatusTypes
    <3>2. reduction' \in [Order -> 0..Size] /\ newPrice' \in [Order -> Price \cup {0}]
      BY <2>1, ClearTypes
    <3>3. \A u \in Order : status'[u] \notin {"None", "New"} => terms'[u].price \in Price
      BY <1>1, <2>2 DEF TypeInv, OrdersOK, Known
    <3> QED
      BY <1>1, <3>1, <3>2, <3>3 DEF TypeInv, OrdersOK, Known
  <2>4. PackageInv'
    <3>1. \A u \in Order : status'[u] \in {status[u], "EXECUTION_COMPLETE"}
      BY <2>2 DEF TypeInv, OrdersOK
    <3> QED
      BY <1>1, <1>3, <3>1, PackageKept
  <2> QED
    BY <1>2, <1>4, <2>3, <2>4 DEF TypeInv
<1>6. CASE ~Done(o)
  <2>1. UNCHANGED <<orderVars, tstatus>>
    BY <1>1, <1>6 DEF ProcessOrder, orderVars
  <2>2. OrdersOK'
    BY <2>1, OrdersSame
  <2>3. \A u \in Order : status'[u] = status[u]
    BY <2>1 DEF orderVars
  <2>4. PackageInv'
    BY <1>1, <1>3, <2>3, PackageKept
  <2> QED
    BY <1>2, <1>4, <2>2, <2>4 DEF TypeInv
<1> QED
  BY <1>5, <1>6

-----------------------------------------------------------------------------
(* Types: the strategy *)

LEMMA SendType ==
  ASSUME TypeInv, NEW o \in Order, NEW type \in PackageType, NEW v \in Nat,
         Callback, UNCHANGED raised, Send(o, type, v),
         status[o] \in {"None", "EXECUTABLE"},
         status' = [status EXCEPT ![o] = Asking[type]]
  PROVE  /\ queue' \in Seq(Package) /\ PackageInv'
         /\ status' \in [Order -> OrderStatus] /\ status'[o] \notin {"None", "New"}
<1> DEFINE p == [type |-> type, order |-> o, age |-> 0, version |-> v]
<1>1. p \in Package /\ p.order = o /\ p.type = type
  BY DEF Package
<1>2. queue' = Append(queue, p)
  BY DEF Send
<1> HIDE DEF p
<1>3. Asking[type] \in OrderStatus /\ Asking[type] \notin {"None", "New"}
  BY DEF PackageType, Asking, OrderStatus, Awaiting
<1>4. status'[o] = Asking[type] /\ \A u \in Order \ {o} : status'[u] = status[u]
  BY DEF TypeInv, OrdersOK
<1>5. ~raised /\ ~raised'
  BY DEF Callback
<1>6. PackageInv'
  BY <1>1, <1>2, <1>4, <1>5, PackageSent
<1>7. queue' \in Seq(Package)
  BY <1>1, <1>2 DEF TypeInv, EngineOK
<1> QED
  BY <1>3, <1>4, <1>6, <1>7, StatusTypes

LEMMA VersionNat ==
  ASSUME TypeInv, NEW v \in {0, book.version}
  PROVE  v \in Nat
BY DEF TypeInv, MarketOK, Book

LEMMA PlaceOrderType ==
  ASSUME TypeInv, NEW t \in Terms, NEW v \in {0, book.version}, Unused # {},
         PlaceOrder(t, v)
  PROVE  TypeInv' /\ \A o \in Order : Effect(o)
<1>1. PICK o, x : /\ o = Fresh(Unused)
                  /\ x = [kind |-> t.kind, side |-> t.side, price |-> t.price,
                          persistence |-> t.persistence, size |-> Size]
  OBVIOUS
<1>2. /\ Callback /\ status' = [status EXCEPT ![o] = "PENDING"]
      /\ terms' = [terms EXCEPT ![o] = x]
      /\ live' = Append(live, o) /\ Send(o, "PLACE", v)
      /\ UNCHANGED <<sim, reduction, newPrice, trade, history, tstatus, phase, todo, incoming,
                     requests, marketVars, raised>>
  BY <1>1 DEF PlaceOrder
<1>3. o \in Order /\ status[o] = "None" /\ o \notin Known
  BY <1>1, FreshOrder
<1>4. x \in OrderTerms /\ x.price \in Price /\ x.size = Size
  <2>1. t \in TermsType /\ Size \in Int
    BY StrategyAssumption, BoundAssumption
  <2> QED
    BY <1>1, <2>1 DEF TermsType, OrderTerms
<1>5. /\ queue' \in Seq(Package) /\ PackageInv' /\ status' \in [Order -> OrderStatus]
  <2>1. "PLACE" \in PackageType /\ Asking["PLACE"] = "PENDING"
    BY DEF PackageType, Asking
  <2> QED
    BY <1>2, <1>3, <2>1, SendType, VersionNat
<1>6. ASSUME NEW u \in Order
      PROVE  Effect(u)
  <2>1. CASE u = o
    <3>1. terms'[o] = x
      BY <1>2, <1>3 DEF TypeInv, OrdersOK
    <3> QED
      BY <1>2, <1>3, <1>4, <2>1, <3>1 DEF Effect, Created
  <2>2. CASE u # o
    <3>1. terms'[u] = terms[u]
      BY <1>2, <2>2 DEF TypeInv, OrdersOK
    <3> QED
      BY <1>2, <3>1 DEF Effect, Untouched, Stays, SameBet
  <2> QED
    BY <2>1, <2>2
<1>7. OrdersOK'
  <2>1. terms' \in [Order -> OrderTerms]
    BY <1>2, <1>4 DEF TypeInv, OrdersOK
  <2>2. \A u \in Order : status'[u] \notin {"None", "New"} => terms'[u].price \in Price
    BY <1>2, <1>3, <1>4 DEF TypeInv, OrdersOK, Known
  <2> QED
    BY <1>2, <1>5, <2>1, <2>2 DEF TypeInv, OrdersOK, Known
<1>8. EngineOK' /\ MarketOK'
  BY <1>2, <1>3, <1>5, MarketSame DEF TypeInv, EngineOK
<1> QED
  BY <1>5, <1>6, <1>7, <1>8 DEF TypeInv

\* What cancels, updates and replaces have in common
LEMMA RequestType ==
  ASSUME TypeInv, NEW o \in Order, NEW type \in {"CANCEL", "UPDATE", "REPLACE"},
         NEW v \in Nat, Request(o, type, v)
  PROVE  /\ EngineOK' /\ MarketOK' /\ PackageInv' /\ o \in Known
         /\ status' = [status EXCEPT ![o] = Asking[type]]
         /\ status' \in [Order -> OrderStatus]
         /\ UNCHANGED <<sim, trade, history, tstatus, live, phase, todo, incoming, marketVars,
                        raised>>
<1>1. /\ Callback /\ requests' = requests + 1
      /\ status[o] = "EXECUTABLE" /\ status' = [status EXCEPT ![o] = Requested[type]]
      /\ Send(o, type, v)
      /\ UNCHANGED <<sim, trade, history, tstatus, live, phase, todo, incoming, marketVars,
                     raised>>
  BY DEF Request
<1>2. type \in PackageType /\ Asking[type] = Requested[type]
  BY DEF PackageType, Asking, Requested
<1>3. queue' \in Seq(Package) /\ PackageInv' /\ status' \in [Order -> OrderStatus]
  BY <1>1, <1>2, SendType
<1>4. EngineOK' /\ MarketOK'
  BY <1>1, <1>3, MarketSame DEF TypeInv, EngineOK
<1>5. o \in Known
  BY <1>1 DEF Known
<1> QED
  BY <1>1, <1>2, <1>3, <1>4, <1>5

LEMMA CancelOrderType ==
  ASSUME TypeInv, NEW o \in Order, NEW r \in Reductions, CancelOrder(o, r)
  PROVE  TypeInv' /\ \A u \in Order : Effect(u)
<1>1. /\ Request(o, "CANCEL", 0) /\ reduction' = [reduction EXCEPT ![o] = r]
      /\ UNCHANGED <<terms, newPrice>>
  BY DEF CancelOrder
<1>2. /\ EngineOK' /\ MarketOK' /\ PackageInv' /\ o \in Known
      /\ status' = [status EXCEPT ![o] = Asking["CANCEL"]]
      /\ status' \in [Order -> OrderStatus]
      /\ UNCHANGED <<sim, trade, history, tstatus>>
  <2>1. 0 \in Nat
    OBVIOUS
  <2> QED
    BY <1>1, <2>1, RequestType
<1>3. r \in 0..Size
  BY StrategyAssumption
<1>4. OrdersOK'
  BY <1>1, <1>2, <1>3 DEF TypeInv, OrdersOK, Known
<1>5. \A u \in Order : Effect(u)
  BY <1>1, <1>2, NoEffect
<1> QED
  BY <1>2, <1>4, <1>5 DEF TypeInv

LEMMA UpdateOrderType ==
  ASSUME TypeInv, NEW o \in Order, NEW p \in {"LAPSE", "PERSIST", "MARKET_ON_CLOSE"},
         UpdateOrder(o, p)
  PROVE  TypeInv' /\ \A u \in Order : Effect(u)
<1>1. /\ Request(o, "UPDATE", 0) /\ terms' = [terms EXCEPT ![o].persistence = p]
      /\ UNCHANGED <<reduction, newPrice>>
  BY DEF UpdateOrder
<1>2. /\ EngineOK' /\ MarketOK' /\ PackageInv' /\ o \in Known
      /\ status' = [status EXCEPT ![o] = Asking["UPDATE"]]
      /\ status' \in [Order -> OrderStatus]
      /\ UNCHANGED <<sim, trade, history, tstatus>>
  <2>1. 0 \in Nat
    OBVIOUS
  <2> QED
    BY <1>1, <2>1, RequestType
<1>3. terms' = [terms EXCEPT ![o] = [terms[o] EXCEPT !.persistence = p]]
  BY <1>1
<1>4. [terms[o] EXCEPT !.persistence = p] \in OrderTerms /\ terms[o] \in OrderTerms
  <2>1. terms[o] \in OrderTerms
    BY DEF TypeInv, OrdersOK
  <2> QED
    BY ONLY <2>1, p \in {"LAPSE", "PERSIST", "MARKET_ON_CLOSE"} DEF OrderTerms
<1>5. terms' \in [Order -> OrderTerms] /\ \A u \in Order : SameBet(u)
  <2>1. terms' \in [Order -> OrderTerms]
    BY <1>3, <1>4 DEF TypeInv, OrdersOK
  <2>2. ASSUME NEW u \in Order
        PROVE  SameBet(u)
    <3>1. CASE u = o
      <4>1. terms'[o] = [terms[o] EXCEPT !.persistence = p]
        BY <1>3 DEF TypeInv, OrdersOK
      <4> QED
        BY <1>1, <1>4, <3>1, <4>1 DEF SameBet, OrderTerms, Request
    <3>2. CASE u # o
      BY <1>3, <3>2 DEF SameBet, TypeInv, OrdersOK
    <3> QED
      BY <3>1, <3>2
  <2> QED
    BY <2>1, <2>2
<1>6. OrdersOK'
  BY <1>1, <1>2, <1>5 DEF TypeInv, OrdersOK, Known, SameBet
<1>7. \A u \in Order : Effect(u)
  BY <1>2, <1>5 DEF Effect, Untouched, Stays
<1> QED
  BY <1>2, <1>6, <1>7 DEF TypeInv

LEMMA ReplaceOrderType ==
  ASSUME TypeInv, NEW o \in Order, NEW x \in Price, NEW v \in {0, book.version},
         ReplaceOrder(o, x, v)
  PROVE  TypeInv' /\ \A u \in Order : Effect(u)
<1>1. /\ Request(o, "REPLACE", v) /\ newPrice' = [newPrice EXCEPT ![o] = x]
      /\ UNCHANGED <<terms, reduction>>
  BY DEF ReplaceOrder
<1>2. /\ EngineOK' /\ MarketOK' /\ PackageInv' /\ o \in Known
      /\ status' = [status EXCEPT ![o] = Asking["REPLACE"]]
      /\ status' \in [Order -> OrderStatus]
      /\ UNCHANGED <<sim, trade, history, tstatus>>
  BY <1>1, RequestType, VersionNat
<1>3. OrdersOK'
  BY <1>1, <1>2 DEF TypeInv, OrdersOK, Known
<1>4. \A u \in Order : Effect(u)
  BY <1>1, <1>2, NoEffect
<1> QED
  BY <1>2, <1>3, <1>4 DEF TypeInv

LEMMA InitType == Init => TypeInv
<1> SUFFICES ASSUME Init
             PROVE  TypeInv
  OBVIOUS
<1>1. NoVolume \in [Price -> Nat]
  BY DEF NoVolume
<1>2. FirstBook \in Book
  BY <1>1 DEF FirstBook, Book
<1>3. NewHistory \in HistoryType /\ NoTerms \in OrderTerms /\ NewSimulated \in Simulated
  BY <1>1, NewFields DEF NewHistory, HistoryType, NoTerms, OrderTerms
<1>4. 0 \in 0..Size /\ 0 \in Price \cup {0}
  BY BoundAssumption
<1>5. OrdersOK
  <2>1. "None" \in OrderStatus /\ Known = {}
    BY DEF Init, OrderStatus, Known
  <2>2. /\ status \in [Order -> OrderStatus] /\ terms \in [Order -> OrderTerms]
        /\ sim \in [Order -> Simulated] /\ history \in [Order -> HistoryType]
    BY <1>3, <2>1 DEF Init
  <2>3. /\ reduction \in [Order -> 0..Size] /\ newPrice \in [Order -> Price \cup {0}]
        /\ trade \in [Order -> Order]
        /\ tstatus \in [Order -> {"LIVE", "PENDING", "COMPLETE"}]
    BY <1>4 DEF Init
  <2> QED
    BY <2>1, <2>2, <2>3 DEF OrdersOK, HistoryType
<1>6. EngineOK
  <2>1. <<>> \in Seq(Order) /\ <<>> \in Seq(Package)
    OBVIOUS
  <2>2. /\ live = <<>> /\ todo = <<>> /\ queue = <<>> /\ phase = "orders"
        /\ raised = FALSE /\ requests = 0
    BY DEF Init
  <2> QED
    BY <2>1, <2>2 DEF EngineOK
<1>7. MarketOK
  <2>1. book = FirstBook /\ incoming = FirstBook /\ volume = NoVolume /\ traded = NoVolume
        /\ removed = FALSE /\ closed = FALSE
    BY DEF Init
  <2> QED
    BY <1>1, <1>2, <2>1 DEF MarketOK
<1>8. PackageInv
  <2>1. \A o \in Order : status[o] \notin Awaiting
    BY DEF Init, Awaiting
  <2>2. queue = <<>> /\ raised = FALSE
    BY DEF Init
  <2>3. \A i \in 1..Len(queue) : FALSE
    BY <2>2
  <2> QED
    BY <2>1, <2>2, <2>3 DEF PackageInv
<1> QED
  BY <1>5, <1>6, <1>7, <1>8 DEF TypeInv

-----------------------------------------------------------------------------
(* The live orders, and those that are visited *)

\* The live orders have been placed, and each is there once; so are those the loops
\* of the engine have still to visit.
LiveInv ==
  /\ \A i \in 1..Len(live) : live[i] \in Known
  /\ \A i, j \in 1..Len(live) : live[i] = live[j] => i = j
  /\ \A i \in 1..Len(todo) : todo[i] \in Known
  /\ \A i, j \in 1..Len(todo) : todo[i] = todo[j] => i = j

LEMMA TailOf ==
  ASSUME EngineOK, LiveInv, todo # <<>>
  PROVE  /\ Head(todo) \in Known
         /\ \A i \in 1..Len(Tail(todo)) : Tail(todo)[i] = todo[i + 1] /\ i + 1 \in 1..Len(todo)
         /\ \A i \in 1..Len(Tail(todo)) : Tail(todo)[i] # Head(todo)
         /\ Tail(todo) \in Seq(Order)
         /\ \A i \in 1..Len(todo) :
              todo[i] # Head(todo) => \E j \in 1..Len(Tail(todo)) : Tail(todo)[j] = todo[i]
<1>1. todo \in Seq(Order) /\ Len(todo) \in Nat /\ Len(todo) > 0
  BY DEF EngineOK
<1>2. Tail(todo) \in Seq(Order) /\ Len(Tail(todo)) = Len(todo) - 1
  BY <1>1
<1>3. \A i \in 1..Len(Tail(todo)) : Tail(todo)[i] = todo[i + 1] /\ i + 1 \in 1..Len(todo)
  BY <1>1, <1>2
<1>4. Head(todo) = todo[1] /\ 1 \in 1..Len(todo)
  BY <1>1
<1>5. \A i \in 1..Len(Tail(todo)) : Tail(todo)[i] # Head(todo)
  <2> SUFFICES ASSUME NEW i \in 1..Len(Tail(todo))
               PROVE  Tail(todo)[i] # Head(todo)
    OBVIOUS
  <2>1. i + 1 # 1 /\ i + 1 \in 1..Len(todo)
    BY <1>3
  <2> QED
    BY <1>3, <1>4, <2>1 DEF LiveInv
<1>6. ASSUME NEW i \in 1..Len(todo), todo[i] # Head(todo)
      PROVE  \E j \in 1..Len(Tail(todo)) : Tail(todo)[j] = todo[i]
  <2>1. i # 1
    BY <1>4, <1>6
  <2>2. i - 1 \in 1..Len(Tail(todo)) /\ i - 1 + 1 = i
    BY <1>1, <1>2, <2>1
  <2> QED
    BY <1>3, <2>2
<1> QED
  BY <1>2, <1>3, <1>4, <1>5, <1>6 DEF LiveInv

LEMMA LiveKept ==
  ASSUME TypeInv, LiveInv, \A u \in Known : u \in Known',
         \/ live' = live
         \/ \E n \in Order : n \notin Known /\ n \in Known' /\ live' = Append(live, n)
         \/ \E x \in Order : live' = Without(live, x),
         todo' = todo \/ todo' = live \/ (todo # <<>> /\ todo' = Tail(todo))
  PROVE  LiveInv'
<1>1. live \in Seq(Order) /\ Len(live) \in Nat
  BY DEF TypeInv, EngineOK
<1>2. /\ \A i \in 1..Len(live') : live'[i] \in Known'
      /\ \A i, j \in 1..Len(live') : live'[i] = live'[j] => i = j
  <2>1. CASE live' = live
    BY <2>1 DEF LiveInv
  <2>2. ASSUME NEW n \in Order, n \notin Known, n \in Known', live' = Append(live, n)
        PROVE  /\ \A i \in 1..Len(live') : live'[i] \in Known'
               /\ \A i, j \in 1..Len(live') : live'[i] = live'[j] => i = j
    <3>1. /\ Len(live') = Len(live) + 1 /\ live'[Len(live) + 1] = n
          /\ \A i \in 1..Len(live) : live'[i] = live[i]
      BY <1>1, <2>2
    <3>2. \A i \in 1..Len(live') : i \in 1..Len(live) \/ i = Len(live) + 1
      BY <1>1, <3>1
    <3>3. \A i \in 1..Len(live) : live'[i] \in Known
      BY <3>1 DEF LiveInv
    <3> QED
      BY <2>2, <3>1, <3>2, <3>3 DEF LiveInv
  <2>3. ASSUME NEW x \in Order, live' = Without(live, x)
        PROVE  /\ \A i \in 1..Len(live') : live'[i] \in Known'
               /\ \A i, j \in 1..Len(live') : live'[i] = live'[j] => i = j
    <3>1. \A i \in 1..Len(live') : \E m \in 1..Len(live) : live'[i] = live[m]
      BY <1>1, <2>3, WithoutType
    <3>2. ASSUME NEW i \in 1..Len(live'), NEW j \in 1..Len(live'), i # j
          PROVE  live'[i] # live'[j]
      <4>1. i \in 1..Len(Without(live, x)) /\ j \in 1..Len(Without(live, x))
        BY <2>3
      <4>2. PICK k, m \in 1..Len(live) :
              k # m /\ Without(live, x)[i] = live[k] /\ Without(live, x)[j] = live[m]
        BY <1>1, <3>2, <4>1, WithoutApart
      <4> QED
        BY <2>3, <4>2 DEF LiveInv
    <3> QED
      BY <3>1, <3>2 DEF LiveInv
  <2> QED
    BY <2>1, <2>2, <2>3
<1>3. /\ \A i \in 1..Len(todo') : todo'[i] \in Known'
      /\ \A i, j \in 1..Len(todo') : todo'[i] = todo'[j] => i = j
  <2>1. CASE todo' = todo \/ todo' = live
    BY <2>1 DEF LiveInv
  <2>2. CASE todo # <<>> /\ todo' = Tail(todo)
    <3>1. \A i \in 1..Len(todo') : todo'[i] = todo[i + 1] /\ i + 1 \in 1..Len(todo)
      BY <2>2, TailOf DEF TypeInv
    <3>2. \A i, j \in 1..Len(todo') : i + 1 = j + 1 => i = j
      OBVIOUS
    <3> QED
      BY <3>1, <3>2 DEF LiveInv
  <2> QED
    BY <2>1, <2>2
<1> QED
  BY <1>2, <1>3 DEF LiveInv

\* Orders that are known stay known.
LEMMA KnownKept ==
  ASSUME TypeInv, \A o \in Order : status[o] \notin {"None", "New"} =>
                                     status'[o] \notin {"None", "New"}
  PROVE  \A o \in Known : o \in Known'
BY DEF Known

LEMMA QuietLive ==
  ASSUME TypeInv, LiveInv, status' = status, live' = live,
         todo' = todo \/ todo' = live \/ (todo # <<>> /\ todo' = Tail(todo))
  PROVE  LiveInv'
BY KnownKept, LiveKept

LEMMA BooksLive ==
  ASSUME TypeInv, LiveInv,
         NextBook \/ CloseMarket \/ UpdateMarket \/ EndMatching \/ FailInstruction
  PROVE  LiveInv'
<1>1. CASE NextBook
  BY <1>1, QuietLive DEF NextBook, orderVars
<1>2. CASE CloseMarket
  BY <1>2, QuietLive DEF CloseMarket, orderVars
<1>3. CASE UpdateMarket
  BY <1>3, QuietLive DEF UpdateMarket
<1>4. CASE EndMatching
  BY <1>4, QuietLive DEF EndMatching, orderVars
<1>5. CASE FailInstruction
  BY <1>5, QuietLive DEF FailInstruction, Executing, orderVars
<1> QED
  BY <1>1, <1>2, <1>3, <1>4, <1>5

LEMMA VisitsLive ==
  ASSUME TypeInv, LiveInv, NEW o \in Order,
         PassOrder(o) \/ NoSP(o) \/ Lapse(o) \/ MatchTraded(o) \/ MatchAtSP(o)
  PROVE  LiveInv'
<1>1. /\ todo # <<>> /\ todo' = Tail(todo) /\ live' = live
      /\ status' = status \/ status' = [status EXCEPT ![o] = "EXECUTION_COMPLETE"]
  BY DEF PassOrder, NoSP, Lapse, MatchTraded, MatchAtSP, Visit, Visited, UpdateStatus
<1>2. \A u \in Known : u \in Known'
  BY <1>1 DEF Known, TypeInv, OrdersOK
<1> QED
  BY <1>1, <1>2, LiveKept

LEMMA ProcessLive ==
  ASSUME TypeInv, LiveInv, NEW o \in Order, ProcessOrder(o)
  PROVE  LiveInv' /\ o \in Known
<1>1. /\ todo # <<>> /\ todo' = Tail(todo) /\ o = Head(todo)
      /\ live' = IF Leaves(o) THEN Without(live, o) ELSE live
      /\ status' = status \/ status' = [status EXCEPT ![o] = "EXECUTION_COMPLETE"]
  BY DEF ProcessOrder, UpdateStatus
<1>2. \A u \in Known : u \in Known'
  BY <1>1 DEF Known, TypeInv, OrdersOK
<1>3. live' = live \/ \E x \in Order : live' = Without(live, x)
  BY <1>1
<1>4. LiveInv'
  BY <1>1, <1>2, <1>3, LiveKept
<1> QED
  BY <1>1, <1>4, TailOf DEF TypeInv

LEMMA ExecutedLive ==
  ASSUME TypeInv, LiveInv,
         ExecutePlace \/ ExecuteCancel \/ ExecuteUpdate \/ ExecuteReplace \/ FailReplace
  PROVE  LiveInv'
<1>1. CASE ExecutePlace \/ ExecuteCancel \/ ExecuteUpdate
  <2>1. live' = live /\ todo' = todo
        /\ \E s \in {"EXECUTABLE", "EXECUTION_COMPLETE"} :
             status' = [status EXCEPT ![NextDue.order] = s]
    BY <1>1 DEF ExecutePlace, ExecuteCancel, ExecuteUpdate, Executing, AfterCancel
  <2>2. \A u \in Known : u \in Known'
    BY <2>1 DEF Known, TypeInv, OrdersOK
  <2> QED
    BY <2>1, <2>2, LiveKept
<1>2. CASE ExecuteReplace \/ FailReplace
  <2>1. PICK o, n : o = NextDue.order /\ n = Fresh(Unused)
    OBVIOUS
  <2>2. n \in Order /\ n \notin Known
    BY <1>2, <2>1, FreshOrder DEF ExecuteReplace, FailReplace
  <2>3. /\ todo' = todo
        /\ \/ /\ status' = [status EXCEPT ![o] = "EXECUTION_COMPLETE", ![n] = "EXECUTABLE"]
              /\ live' = Append(live, n)
           \/ /\ status' = [status EXCEPT ![o] = "EXECUTABLE", ![n] = "New"]
              /\ live' = live
    BY <1>2, <2>1 DEF ExecuteReplace, FailReplace, Executing
  <2>4. \A u \in Known : u \in Known'
    BY <2>2, <2>3 DEF Known, TypeInv, OrdersOK
  <2>5. live' = live \/ (n \in Known' /\ live' = Append(live, n))
    BY <2>2, <2>3 DEF Known, TypeInv, OrdersOK
  <2> QED
    BY <2>2, <2>3, <2>4, <2>5, LiveKept
<1> QED
  BY <1>1, <1>2

LEMMA StrategyLive ==
  ASSUME TypeInv, LiveInv, Strategy
  PROVE  LiveInv'
<1>1. ASSUME NEW t \in Terms, NEW v \in {0, book.version}, Unused # {}, PlaceOrder(t, v)
      PROVE  LiveInv'
  <2>1. PICK o : o = Fresh(Unused)
    OBVIOUS
  <2>2. o \in Order /\ o \notin Known
    BY <1>1, <2>1, FreshOrder
  <2>3. status' = [status EXCEPT ![o] = "PENDING"] /\ live' = Append(live, o) /\ todo' = todo
    BY <1>1, <2>1 DEF PlaceOrder
  <2>4. (\A u \in Known : u \in Known') /\ o \in Known'
    BY <2>2, <2>3 DEF Known, TypeInv, OrdersOK
  <2> QED
    BY <2>2, <2>3, <2>4, LiveKept
<1>2. ASSUME NEW o \in Order, NEW type \in {"CANCEL", "UPDATE", "REPLACE"}, NEW v \in Nat,
             Request(o, type, v)
      PROVE  LiveInv'
  <2>1. status' = [status EXCEPT ![o] = Asking[type]] /\ live' = live /\ todo' = todo
    BY <1>2, RequestType
  <2>2. Asking[type] \notin {"None", "New"}
    BY DEF Asking
  <2>3. \A u \in Known : u \in Known'
    BY <2>1, <2>2 DEF Known, TypeInv, OrdersOK
  <2> QED
    BY <2>1, <2>3, LiveKept
<1>3. ASSUME NEW o \in Order, NEW r \in Reductions, CancelOrder(o, r)
      PROVE  LiveInv'
  <2>1. Request(o, "CANCEL", 0) /\ 0 \in Nat
    BY <1>3 DEF CancelOrder
  <2> QED
    BY <1>2, <2>1
<1>4. ASSUME NEW o \in Order, NEW p \in {"LAPSE", "PERSIST", "MARKET_ON_CLOSE"},
             UpdateOrder(o, p)
      PROVE  LiveInv'
  <2>1. Request(o, "UPDATE", 0) /\ 0 \in Nat
    BY <1>4 DEF UpdateOrder
  <2> QED
    BY <1>2, <2>1
<1>5. ASSUME NEW o \in Order, NEW x \in Price, NEW v \in {0, book.version},
             ReplaceOrder(o, x, v)
      PROVE  LiveInv'
  <2>1. Request(o, "REPLACE", v) /\ v \in Nat
    BY <1>5, VersionNat DEF ReplaceOrder
  <2> QED
    BY <1>2, <2>1
<1> QED
  BY <1>1, <1>3, <1>4, <1>5 DEF Strategy

-----------------------------------------------------------------------------
(* Types, and the packages, always *)

Structure == TypeInv /\ LiveInv

LEMMA InitStructure == Init => Structure
<1> SUFFICES ASSUME Init
             PROVE  LiveInv
  BY InitType DEF Structure
<1>1. live = <<>> /\ todo = <<>>
  BY DEF Init
<1>2. /\ \A i \in 1..Len(live) : FALSE
      /\ \A i \in 1..Len(todo) : FALSE
  BY <1>1
<1> QED
  BY <1>2 DEF LiveInv

LEMMA StructureStutter ==
  ASSUME Structure, UNCHANGED vars
  PROVE  Structure' /\ \A o \in Order : Effect(o)
<1>1. /\ UNCHANGED <<orderVars, tstatus, live, queue, phase, todo, incoming, requests,
                     marketVars, raised>>
  BY DEF vars, engineVars
<1>2. OrdersOK' /\ \A o \in Order : Effect(o)
  BY <1>1, OrdersSame DEF Structure
<1>3. EngineOK' /\ MarketOK'
  BY <1>1, MarketSame DEF Structure, TypeInv, EngineOK
<1>4. status' = status
  BY <1>1 DEF orderVars
<1>5. PackageInv'
  BY <1>1, <1>4 DEF Structure, TypeInv, PackageInv
<1>6. LiveInv'
  BY <1>1, <1>4, QuietLive DEF Structure
<1> QED
  BY <1>2, <1>3, <1>5, <1>6 DEF Structure, TypeInv

LEMMA StructureStep ==
  ASSUME Structure, [Next]_vars
  PROVE  Structure' /\ \A o \in Order : Effect(o)
<1>0. TypeInv /\ LiveInv
  BY DEF Structure
<1>1. CASE Strategy
  <2>1. LiveInv'
    BY <1>0, <1>1, StrategyLive
  <2>2. TypeInv' /\ \A o \in Order : Effect(o)
    BY <1>0, <1>1, PlaceOrderType, CancelOrderType, UpdateOrderType, ReplaceOrderType
    DEF Strategy
  <2> QED
    BY <2>1, <2>2 DEF Structure
<1>2. CASE NextBook \/ CloseMarket \/ UpdateMarket \/ EndMatching \/ FailInstruction
  BY <1>0, <1>2, BooksLive, NextBookType, CloseMarketType, UpdateMarketType,
     EndMatchingType, FailInstructionType DEF Structure
<1>3. CASE ExecutePlace \/ ExecuteCancel \/ ExecuteUpdate \/ ExecuteReplace \/ FailReplace
  BY <1>0, <1>3, ExecutedLive, ExecutePlaceType, ExecuteCancelType, ExecuteUpdateType,
     ExecuteReplaceType, FailReplaceType DEF Structure
<1>4. ASSUME NEW o \in Order,
             PassOrder(o) \/ MatchAtSP(o) \/ NoSP(o) \/ Lapse(o) \/ MatchTraded(o)
      PROVE  Structure' /\ \A u \in Order : Effect(u)
  BY <1>0, <1>4, VisitsLive, PassOrderType, MatchAtSPType, LapseType, MatchTradedType
  DEF Structure
<1>5. ASSUME NEW o \in Order, ProcessOrder(o)
      PROVE  Structure' /\ \A u \in Order : Effect(u)
  <2>1. LiveInv' /\ o \in Known
    BY <1>0, <1>5, ProcessLive
  <2>2. status[o] \notin {"None", "New"}
    BY <2>1 DEF Known
  <2> QED
    BY <1>0, <1>5, <2>1, <2>2, ProcessOrderType DEF Structure
<1>6. CASE UNCHANGED vars
  BY <1>6, StructureStutter
<1> QED
  BY <1>1, <1>2, <1>3, <1>4, <1>5, <1>6 DEF Next, Engine

\* Whatever the latency of the packages, an order that waits for a request has one
\* package pending, of that request, and no order has two (_check_pending_packages).
THEOREM OnePackageSafe == Spec => []OnePackage
<1>1. Structure => OnePackage
  <2> SUFFICES ASSUME Structure, NEW o \in Order
               PROVE  /\ Cardinality(Pending(o)) <= 1
                      /\ status[o] \in Awaiting =>
                           \E i \in Pending(o) : status[o] = Asking[queue[i].type]
    BY DEF OnePackage
  <2>1. DOMAIN queue = 1..Len(queue)
    BY DEF Structure, TypeInv, EngineOK
  <2>2. \A i, j \in Pending(o) : i = j
    BY <2>1 DEF Structure, TypeInv, PackageInv, Pending
  <2>3. Cardinality(Pending(o)) <= 1
    <3>1. CASE Pending(o) = {}
      BY <3>1, FS_EmptySet
    <3>2. ASSUME NEW i \in Pending(o)
          PROVE  Cardinality(Pending(o)) <= 1
      <4>1. Pending(o) = {i}
        BY <2>2
      <4> QED
        BY <4>1, FS_Singleton
    <3> QED
      BY <3>1, <3>2
  <2> QED
    BY <2>1, <2>3 DEF Structure, TypeInv, PackageInv, Pending
<1>2. Structure /\ [Next]_vars => Structure'
  BY StructureStep
<1> QED
  BY <1>1, <1>2, InitStructure, PTL DEF Spec


-----------------------------------------------------------------------------
(* What happens to the sizes of an order, field by field *)

LEMMA SameLeft ==
  ASSUME NEW o, SameBet(o)
  PROVE  /\ Remaining(o)' = Left(terms[o], sim'[o])
         /\ Asked(o)' = Asked(o)
         /\ \A x : AsGood(terms[o], x)' <=> AsGood(terms[o], x)
BY DEF SameBet, Remaining, Left, Asked, AsGood

LEMMA CutFields ==
  ASSUME OrdersOK, NEW o \in Order, Cut(o)
  PROVE  /\ sim'[o].matched = sim[o].matched /\ sim'[o].cost = sim[o].cost
         /\ sim'[o].lapsed = sim[o].lapsed /\ sim'[o].voided = sim[o].voided
         /\ sim'[o].piq = sim[o].piq /\ sim'[o].reconciled = sim[o].reconciled
         /\ sim'[o].cancelled = sim[o].cancelled + CancelledSize(o)
<1>1. sim[o] \in Simulated /\ sim'[o] = [sim[o] EXCEPT !.cancelled = @ + CancelledSize(o)]
  BY OrderTypes DEF Cut
<1> QED
  BY <1>1 DEF Simulated

LEMMA LapsesFields ==
  ASSUME OrdersOK, NEW o \in Order, Lapses(o)
  PROVE  /\ sim'[o].matched = sim[o].matched /\ sim'[o].cost = sim[o].cost
         /\ sim'[o].cancelled = sim[o].cancelled /\ sim'[o].voided = sim[o].voided
         /\ sim'[o].piq = sim[o].piq /\ sim'[o].reconciled = sim[o].reconciled
         /\ sim'[o].lapsed = sim[o].lapsed + Remaining(o)
         /\ sim'[o].version = book.version
<1>1. /\ sim[o] \in Simulated
      /\ sim'[o] = [sim[o] EXCEPT !.version = book.version, !.lapsed = @ + Remaining(o)]
  BY OrderTypes DEF Lapses
<1> QED
  BY <1>1 DEF Simulated

LEMMA FillsFields ==
  ASSUME OrdersOK, NEW o \in Order, Fills(o), NEW n, n = FillSize(o, AcceptedFlow(o))
  PROVE  /\ sim'[o].matched = sim[o].matched + n
         /\ sim'[o].cost = sim[o].cost + terms[o].price * n
         /\ sim'[o].cancelled = sim[o].cancelled /\ sim'[o].voided = sim[o].voided
         /\ sim'[o].lapsed = sim[o].lapsed /\ sim'[o].reconciled = sim[o].reconciled
         /\ sim'[o].piq = Most(0, sim[o].piq - AcceptedFlow(o))
         /\ sim'[o].version = book.version
<1>1. /\ sim[o] \in Simulated
      /\ sim'[o] = [Matched(sim[o], n, terms[o].price) EXCEPT
                      !.version = book.version, !.piq = Most(0, @ - AcceptedFlow(o))]
  BY OrderTypes DEF Fills, Filled
<1> DEFINE s == Matched(sim[o], n, terms[o].price)
<1>2. /\ s.matched = sim[o].matched + n /\ s.cost = sim[o].cost + terms[o].price * n
      /\ s.cancelled = sim[o].cancelled /\ s.voided = sim[o].voided
      /\ s.lapsed = sim[o].lapsed /\ s.reconciled = sim[o].reconciled
      /\ s.piq = sim[o].piq
      /\ DOMAIN s = DOMAIN sim[o]
  BY <1>1 DEF Matched, Simulated
<1>3. DOMAIN sim[o] = {"matched", "cost", "cancelled", "lapsed", "voided", "piq", "version",
                       "reconciled"}
  BY <1>1 DEF Simulated
<1>4. sim'[o] = [s EXCEPT !.version = book.version, !.piq = Most(0, @ - AcceptedFlow(o))]
  BY <1>1
<1> HIDE DEF s
<1> QED
  BY <1>2, <1>3, <1>4

\* What the starting price matches of an order
AtPrice(o) == IF Unacceptable(o) THEN 0 ELSE SPSize(o)

LEMMA AtStartFields ==
  ASSUME TypeInv, NEW o \in Order, AtStart(o)
  PROVE  /\ AtPrice(o) \in Int
         /\ sim'[o].matched = sim[o].matched + AtPrice(o)
         /\ sim'[o].cost = sim[o].cost + book.sp * AtPrice(o)
         /\ sim'[o].voided = sim[o].voided /\ sim'[o].piq = sim[o].piq
         /\ sim'[o].lapsed = sim[o].lapsed + (IF Unacceptable(o) THEN Remaining(o) ELSE 0)
         /\ sim'[o].cancelled = sim[o].cancelled +
              (IF ~Unacceptable(o) /\ terms[o].kind = "LIMIT" THEN Remaining(o) - AtPrice(o)
                                                              ELSE 0)
         /\ sim'[o].reconciled = TRUE
         /\ history'[o].taken = history[o].taken + AtPrice(o)
         /\ history'[o].ahead = history[o].ahead /\ history'[o].base = history[o].base
<1> DEFINE n == SPSize(o)
           r == Remaining(o)
           p == book.sp
<1>0. /\ sim[o] \in Simulated /\ history[o] \in HistoryType
      /\ history'[o] = [history[o] EXCEPT !.taken = @ + AtPrice(o)]
      /\ r \in Int /\ n \in Int /\ p \in Nat
  <2>1. SPSize(o) \in Int /\ book.sp \in Nat
    BY SPSizeType DEF TypeInv, AtStart
  <2>2. sim[o] \in Simulated /\ history[o] \in HistoryType /\ r \in Int
    BY OrderTypes DEF TypeInv
  <2> QED
    BY <2>1, <2>2 DEF AtStart, AtPrice
<1>1. /\ history'[o].taken = history[o].taken + AtPrice(o)
      /\ history'[o].ahead = history[o].ahead /\ history'[o].base = history[o].base
  BY <1>0 DEF HistoryType
<1>2. CASE Unacceptable(o)
  <2>1. AtPrice(o) = 0 /\ sim'[o] = [sim[o] EXCEPT !.reconciled = TRUE, !.lapsed = @ + r]
    BY <1>2 DEF AtStart, Reconciled, AtPrice
  <2> HIDE DEF n, r, p
  <2>2. /\ sim'[o].matched = sim[o].matched /\ sim'[o].cost = sim[o].cost
        /\ sim'[o].voided = sim[o].voided /\ sim'[o].piq = sim[o].piq
        /\ sim'[o].lapsed = sim[o].lapsed + r /\ sim'[o].cancelled = sim[o].cancelled
        /\ sim'[o].reconciled = TRUE
    BY <1>0, <2>1 DEF Simulated
  <2>3. /\ sim[o].matched = sim[o].matched + 0 /\ sim[o].cost = sim[o].cost + p * 0
        /\ sim[o].cancelled = sim[o].cancelled + 0
    BY <1>0, SimFields
  <2> QED
    BY <1>1, <1>2, <2>1, <2>2, <2>3 DEF p, r
<1>3. CASE ~Unacceptable(o)
  <2> DEFINE s == Matched(sim[o], n, p)
             c == IF terms[o].kind = "LIMIT" THEN s.cancelled + r - n ELSE s.cancelled
  <2>1. AtPrice(o) = n /\ sim'[o] = [s EXCEPT !.reconciled = TRUE, !.cancelled = c]
    BY <1>3 DEF AtStart, Reconciled, AtPrice
  <2> HIDE DEF n, r, p
  <2>2. /\ s.matched = sim[o].matched + n /\ s.cost = sim[o].cost + p * n
        /\ s.cancelled = sim[o].cancelled /\ s.voided = sim[o].voided
        /\ s.lapsed = sim[o].lapsed /\ s.piq = sim[o].piq
        /\ DOMAIN s = {"matched", "cost", "cancelled", "lapsed", "voided", "piq", "version",
                       "reconciled"}
    BY <1>0 DEF Matched, Simulated
  <2>3. c = sim[o].cancelled + (IF terms[o].kind = "LIMIT" THEN r - n ELSE 0)
    BY <1>0, <2>2, SimFields
  <2> HIDE DEF s, c
  <2>4. /\ sim'[o].matched = s.matched /\ sim'[o].cost = s.cost
        /\ sim'[o].voided = s.voided /\ sim'[o].piq = s.piq /\ sim'[o].lapsed = s.lapsed
        /\ sim'[o].cancelled = c /\ sim'[o].reconciled = TRUE
    BY <2>1, <2>2
  <2>5. sim[o].lapsed = sim[o].lapsed + 0
    BY <1>0, SimFields
  <2> QED
    BY <1>0, <1>1, <1>3, <2>1, <2>2, <2>3, <2>4, <2>5 DEF p, r, n
<1> QED
  BY <1>2, <1>3

-----------------------------------------------------------------------------
(* Sizes and liabilities, for an order of a market that keeps its runner *)

\* Nothing of the order is counted twice; only the starting price can cancel a
\* negative size.
Sized(o) ==
  /\ terms[o].size \in 0..Size
  /\ sim[o].matched \in Nat /\ sim[o].cost \in Nat
  /\ sim[o].lapsed \in Nat /\ sim[o].voided \in Nat
  /\ Remaining(o) \in 0..Size
  /\ ~sim[o].reconciled => sim[o].cancelled \in Nat

\* Until the starting price, a lay bet is matched at its price or better and an
\* order on close not at all; after it, the order is over.
Liable(o) ==
  IF sim[o].reconciled
  THEN /\ Remaining(o) = 0 /\ book.reconciled /\ book.sp \in Price
       /\ 2 * (Risk(o) - Asked(o)) <= book.sp - 1
  ELSE /\ terms[o].kind # "LIMIT" => sim[o].matched = 0 /\ sim[o].cost = 0
       /\ terms[o].side = "LAY" => sim[o].cost <= terms[o].price * sim[o].matched

LEMMA SizeNat == Size \in Nat /\ \A n \in 0..Size : n \in Nat
BY BoundAssumption

LEMMA SizedFields ==
  ASSUME OrdersOK, NEW o \in Order, Sized(o)
  PROVE  /\ terms[o].size \in Nat /\ Remaining(o) \in Nat
         /\ sim[o].matched \in Nat /\ sim[o].lapsed \in Nat /\ sim[o].voided \in Nat
         /\ sim[o].cancelled \in Int
         /\ Remaining(o) = IF terms[o].kind = "LIMIT"
                           THEN terms[o].size - sim[o].matched - sim[o].cancelled
                                - sim[o].lapsed - sim[o].voided
                           ELSE 0
         /\ ~sim[o].reconciled /\ terms[o].kind = "LIMIT" =>
              sim[o].matched + Remaining(o) <= terms[o].size
<1>1. terms[o].size \in Nat /\ Remaining(o) \in Nat
  BY SizeNat DEF Sized
<1>2. sim[o].cancelled \in Int
  BY OrderTypes, SimFields
<1> QED
  BY <1>1, <1>2 DEF Sized, Remaining, Left

\* What a cancel or a replace takes from an order
LEMMA CancelledBound ==
  ASSUME OrdersOK, NEW o \in Order, Sized(o)
  PROVE  CancelledSize(o) \in 0..Remaining(o) /\ CancelledSize(o) \in 0..Size
<1>1. Remaining(o) \in 0..Size /\ reduction[o] \in 0..Size
  BY OrderTypes DEF Sized
<1>2. Remaining(o) \in Nat /\ reduction[o] \in Nat /\ Size \in Nat
  BY <1>1, SizeNat
<1>3. CancelledSize(o) \in 0..Remaining(o)
  BY <1>2 DEF CancelledSize, Least
<1> QED
  BY <1>1, <1>2, <1>3

\* What the volume traded fills of an order
LEMMA FillBound ==
  ASSUME OrdersOK, MarketOK, NEW o \in Order, Sized(o)
  PROVE  FillSize(o, AcceptedFlow(o)) \in 0..Remaining(o)
<1>1. AcceptedFlow(o) \in Nat /\ sim[o].piq \in Nat /\ Remaining(o) \in Nat
  BY FlowType, OrderTypes, SimFields, SizedFields
<1> QED
  BY <1>1 DEF FillSize, Least

\* What the starting price matches of an order: a back bet as much as it asks for,
\* a lay bet what its liability pays.
LEMMA AtPriceBound ==
  ASSUME TypeInv, NEW o \in Order, Sized(o), book.sp # 0, terms[o].price \in Price
  PROVE  /\ AtPrice(o) \in Nat
         /\ book.sp \in Price
         /\ terms[o].side = "BACK" =>
              AtPrice(o) <= IF terms[o].kind = "LIMIT" THEN Remaining(o) ELSE terms[o].size
         /\ terms[o].side = "LAY" =>
              2 * ((book.sp - 1) * AtPrice(o)) <=
                book.sp - 1 + 2 * (IF terms[o].kind = "LIMIT"
                                   THEN (terms[o].price - 1) * Remaining(o)
                                   ELSE terms[o].size)
<1> DEFINE asked == IF terms[o].kind = "LIMIT" THEN Remaining(o) ELSE terms[o].size
           risk == IF terms[o].kind = "LIMIT" THEN (terms[o].price - 1) * asked ELSE asked
           b == book.sp - 1
<1>1. b \in Nat \ {0} /\ book.sp \in Price
  BY SPSizeType DEF TypeInv, MarketOK, Book
<1>2. asked \in Nat
  BY SizedFields DEF TypeInv
<1>3. risk \in Nat
  <2>1. terms[o].price \in Nat \ {0, 1}
    BY PriceAssumption
  <2>2. terms[o].price - 1 \in Nat
    BY <2>1
  <2> HIDE DEF asked
  <2>3. (terms[o].price - 1) * asked \in Nat
    BY <1>2, <2>2
  <2> QED
    BY <1>2, <2>3
<1>4. SPSize(o) = IF terms[o].side = "BACK" THEN asked ELSE Rounded(risk, b)
  BY DEF SPSize
<1>5. risk = IF terms[o].kind = "LIMIT" THEN (terms[o].price - 1) * Remaining(o)
                                        ELSE terms[o].size
  OBVIOUS
<1>6. asked = IF terms[o].kind = "LIMIT" THEN Remaining(o) ELSE terms[o].size
  OBVIOUS
<1>7. b = book.sp - 1
  OBVIOUS
<1> HIDE DEF asked, risk, b
<1>8. /\ Rounded(risk, b) \in Int /\ Rounded(risk, b) >= 0
      /\ 2 * (b * Rounded(risk, b)) <= 2 * risk + b
  BY <1>1, <1>3, RoundedType
<1>9. b * 0 = 0
  BY <1>1
<1>10. terms[o].side \in {"BACK", "LAY"}
  BY OrderTypes DEF TypeInv, OrderTerms
<1>11. /\ AtPrice(o) \in Nat
       /\ terms[o].side = "BACK" => AtPrice(o) <= asked
       /\ terms[o].side = "LAY" => 2 * (b * AtPrice(o)) <= b + 2 * risk
  <2>1. CASE Unacceptable(o)
    <3>1. AtPrice(o) = 0
      BY <2>1 DEF AtPrice
    <3> QED
      BY <1>1, <1>2, <1>3, <1>9, <3>1
  <2>2. CASE ~Unacceptable(o) /\ terms[o].side = "BACK"
    <3>1. AtPrice(o) = asked
      BY <1>4, <2>2 DEF AtPrice
    <3> QED
      BY <1>2, <2>2, <3>1
  <2>3. CASE ~Unacceptable(o) /\ terms[o].side = "LAY"
    <3>1. AtPrice(o) = Rounded(risk, b)
      BY <1>4, <2>3 DEF AtPrice
    <3>2. AtPrice(o) \in Nat
      BY <1>8, <3>1
    <3>3. 2 * (b * AtPrice(o)) <= 2 * risk + b
      BY <1>8, <3>1
    <3>4. 2 * risk + b = b + 2 * risk
      BY <1>1, <1>3
    <3> QED
      BY <2>3, <3>2, <3>3, <3>4
  <2> QED
    BY <1>10, <2>1, <2>2, <2>3
<1> QED
  BY <1>1, <1>5, <1>6, <1>7, <1>11

-----------------------------------------------------------------------------
(* An order that is not created yet has nothing done to it. *)

FreshInv ==
  \A o \in Order : status[o] = "None" => sim[o] = NewSimulated /\ history[o] = NewHistory

LEMMA NotCreated ==
  ASSUME Structure, [Next]_vars, NEW o \in Order, status'[o] = "None"
  PROVE  status[o] = "None" /\ sim'[o] = sim[o] /\ history'[o] = history[o]
<1> DEFINE Goal == status[o] = "None" /\ sim'[o] = sim[o] /\ history'[o] = history[o]
<1>0. /\ status \in [Order -> OrderStatus] /\ TypeInv /\ LiveInv
      /\ DOMAIN sim = Order /\ DOMAIN history = Order
  BY DEF Structure, TypeInv, OrdersOK
<1>1. CASE Strategy
  <2>1. ASSUME NEW t \in Terms, NEW v, Unused # {}, PlaceOrder(t, v)
        PROVE  Goal
    BY <1>0, <2>1 DEF PlaceOrder
  <2>2. ASSUME NEW u \in Order, NEW type \in {"CANCEL", "UPDATE", "REPLACE"}, NEW v,
               Request(u, type, v)
        PROVE  Goal
    <3>1. /\ UNCHANGED <<sim, history>>
          /\ status' = [status EXCEPT ![u] = Requested[type]]
      BY <2>2 DEF Request
    <3>2. Requested[type] # "None"
      BY DEF Requested
    <3> QED
      BY <1>0, <3>1, <3>2
  <2> QED
    BY <1>1, <2>1, <2>2 DEF Strategy, CancelOrder, UpdateOrder, ReplaceOrder
<1>2. CASE NextBook \/ CloseMarket \/ EndMatching \/ FailInstruction \/ UNCHANGED vars
  BY <1>2 DEF NextBook, CloseMarket, EndMatching, FailInstruction, vars, orderVars
<1>3. CASE UpdateMarket
  <2>1. UNCHANGED <<status, history>>
    BY <1>3 DEF UpdateMarket
  <2>2. o \notin Known
    BY <2>1 DEF Known
  <2>3. sim'[o] = sim[o]
    BY <1>3, <2>2 DEF UpdateMarket
  <2> QED
    BY <2>1, <2>3
<1>4. CASE ExecutePlace \/ ExecuteCancel \/ ExecuteUpdate
  <2> DEFINE d == NextDue.order
  <2>1. d \in Order
    <3>1. DueNow # {} /\ ~raised
      BY <1>4 DEF ExecutePlace, ExecuteCancel, ExecuteUpdate, Executing
    <3> QED
      BY <1>0, <3>1, DueOrder
  <2>2. /\ status'[d] # "None"
        /\ \A w \in Order : w # d =>
             status'[w] = status[w] /\ sim'[w] = sim[w] /\ history'[w] = history[w]
    <3>1. CASE ExecutePlace
      <4>1. PICK s, h : /\ sim' = [sim EXCEPT ![d] = s]
                        /\ history' = [history EXCEPT ![d] = h]
        BY <3>1 DEF ExecutePlace
      <4>2. status' = [status EXCEPT ![d] = IF PlaceSucceeds(terms[d], NextDue.version)
                                            THEN "EXECUTABLE" ELSE "EXECUTION_COMPLETE"]
        BY <3>1 DEF ExecutePlace
      <4> QED
        BY <1>0, <2>1, <4>1, <4>2
    <3>2. CASE ExecuteCancel
      <4>1. status' = [status EXCEPT ![d] = AfterCancel(d, Left(terms[d], sim'[d]))]
        BY <3>2 DEF ExecuteCancel
      <4>2. AfterCancel(d, Left(terms[d], sim'[d])) # "None"
        BY DEF AfterCancel
      <4>3. history' = history /\ \A w \in Order : w # d => sim'[w] = sim[w]
        BY <1>0, <3>2 DEF ExecuteCancel
      <4> QED
        BY <1>0, <2>1, <4>1, <4>2, <4>3
    <3>3. CASE ExecuteUpdate
      <4>1. /\ status' = [status EXCEPT ![d] = "EXECUTABLE"]
            /\ UNCHANGED <<sim, history>>
        BY <3>3 DEF ExecuteUpdate
      <4> QED
        BY <1>0, <2>1, <4>1
    <3> QED
      BY <1>4, <3>1, <3>2, <3>3
  <2> HIDE DEF d
  <2>3. o # d
    BY <1>0, <2>1, <2>2
  <2> QED
    BY <1>0, <2>1, <2>2, <2>3
<1>5. CASE ExecuteReplace \/ FailReplace
  <2> DEFINE d == NextDue.order
             n == Fresh(Unused)
  <2>1. d \in Order /\ n \in Order /\ status[n] = "None" /\ status[d] # "None"
    <3>1. DueNow # {} /\ ~raised /\ Unused # {}
      BY <1>5 DEF ExecuteReplace, FailReplace, Executing
    <3> QED
      BY <1>0, <3>1, DueOrder, FreshOrder DEF Known
  <2>2. /\ \E s, t : status' = [status EXCEPT ![d] = s, ![n] = t] /\ s # "None" /\ t # "None"
        /\ \/ \E c, s : sim' = [sim EXCEPT ![d].cancelled = c, ![n] = s]
           \/ sim' = sim
        /\ \E h : history' = [history EXCEPT ![n] = h] \/ history' = history
    <3>1. CASE ExecuteReplace
      <4>1. \E ok \in BOOLEAN :
              status' = IF ok THEN [status EXCEPT ![d] = "EXECUTION_COMPLETE",
                                                  ![n] = "EXECUTABLE"]
                              ELSE [status EXCEPT ![d] = "EXECUTABLE", ![n] = "New"]
        BY <3>1 DEF ExecuteReplace, PlaceSucceeds
      <4>2. \E s : sim' = [sim EXCEPT ![d].cancelled = @ + CancelledSize(d), ![n] = s]
        BY <3>1 DEF ExecuteReplace
      <4>3. \E h : history' = [history EXCEPT ![n] = h]
        BY <3>1 DEF ExecuteReplace
      <4>4. \E s, t : status' = [status EXCEPT ![d] = s, ![n] = t] /\ s # "None" /\ t # "None"
        BY <4>1
      <4>5. \E c, s : sim' = [sim EXCEPT ![d].cancelled = c, ![n] = s]
        BY <4>2
      <4> QED
        BY <4>3, <4>4, <4>5
    <3>2. CASE FailReplace
      BY <3>2 DEF FailReplace
    <3> QED
      BY <1>5, <3>1, <3>2
  <2> HIDE DEF d, n
  <2>3. o # d /\ o # n
    BY <1>0, <2>1, <2>2
  <2> QED
    BY <1>0, <2>1, <2>2, <2>3
<1>6. ASSUME NEW u \in Order,
             PassOrder(u) \/ MatchAtSP(u) \/ NoSP(u) \/ Lapse(u) \/ MatchTraded(u)
      PROVE  Goal
  <2>1. /\ Visit(u)
        /\ status' = status \/ status' = [status EXCEPT ![u] = "EXECUTION_COMPLETE"]
        /\ \A w \in Order : w # u => sim'[w] = sim[w] /\ history'[w] = history[w]
    BY <1>0, <1>6 DEF PassOrder, MatchAtSP, NoSP, Lapse, MatchTraded, UpdateStatus
  <2>2. u \in Known
    BY <1>0, <2>1, TailOf DEF Visit, TypeInv
  <2>3. u # o
    BY <1>0, <2>1, <2>2 DEF Known
  <2> QED
    BY <1>0, <2>1, <2>3
<1>7. ASSUME NEW u \in Order, ProcessOrder(u)
      PROVE  Goal
  <2>1. /\ status' = status \/ status' = [status EXCEPT ![u] = "EXECUTION_COMPLETE"]
        /\ UNCHANGED <<sim, history>>
    BY <1>7 DEF ProcessOrder, UpdateStatus
  <2> QED
    BY <1>0, <2>1
<1> QED
  BY <1>1, <1>2, <1>3, <1>4, <1>5, <1>6, <1>7 DEF Next, Engine

LEMMA FreshStep ==
  ASSUME Structure, FreshInv, [Next]_vars
  PROVE  FreshInv'
BY NotCreated DEF FreshInv

-----------------------------------------------------------------------------
(* Sizes are conserved by everything that happens to an order. *)

SizeInv == \A o \in Order : Sized(o)

\* The arithmetic of size_remaining
LEMMA SizedBy ==
  ASSUME NEW o \in Order, NEW z \in 0..Size,
         terms'[o].size = z,
         sim'[o].matched \in Nat, sim'[o].cost \in Nat,
         sim'[o].lapsed \in Nat, sim'[o].voided \in Nat,
         ~sim'[o].reconciled => sim'[o].cancelled \in Nat,
         Left(terms'[o], sim'[o]) \in 0..Size
  PROVE  Sized(o)'
BY DEF Sized, Remaining

LEMMA SizedUntouched ==
  ASSUME NEW o \in Order, Sized(o), Untouched(o)
  PROVE  Sized(o)'
<1>1. SameBet(o) /\ sim'[o] = sim[o]
  BY DEF Untouched, Stays
<1> QED
  BY <1>1, SameLeft DEF Sized, SameBet, Remaining

LEMMA SizedCreated ==
  ASSUME FreshInv, NEW o \in Order, Created(o)
  PROVE  Sized(o)'
<1>1. sim'[o] = NewSimulated /\ terms'[o].size = Size
  BY DEF Created, FreshInv
<1>2. Size \in Nat /\ 0 \in 0..Size /\ Size \in 0..Size
  BY SizeNat
<1>3. Left(terms'[o], sim'[o]) \in 0..Size
  BY <1>1, <1>2, NewFields DEF Left
<1> QED
  BY <1>1, <1>2, <1>3, NewFields, SizedBy

LEMMA SizedPut ==
  ASSUME TypeInv, SizeInv, NEW o \in Order, Put(o), terms'[o] \in OrderTerms
  PROVE  Sized(o)'
<1>1. PICK v : sim'[o] = Placed(terms'[o], v)
  BY DEF Put
<1>2. terms'[o].size \in 0..Size
  <2>1. CASE SameBet(o)
    BY <2>1 DEF SameBet, SizeInv, Sized
  <2>2. ASSUME NEW u \in Order, terms'[o].size = CancelledSize(u)
        PROVE  terms'[o].size \in 0..Size
    BY <2>2, CancelledBound DEF SizeInv, TypeInv
  <2> QED
    BY <2>1, <2>2 DEF Put
<1>3. /\ sim'[o].matched \in Nat /\ sim'[o].cost \in Nat
      /\ sim'[o].lapsed \in Nat /\ sim'[o].voided \in Nat /\ sim'[o].cancelled = 0
      /\ Left(terms'[o], sim'[o]) \in 0..terms'[o].size
  <2>1. MarketOK /\ terms'[o].price \in Price /\ terms'[o].size \in Nat
    BY <1>2, SizeNat DEF Put, TypeInv
  <2>2. PICK t, s : t = terms'[o] /\ s = sim'[o]
    OBVIOUS
  <2>3. /\ MarketOK /\ t \in OrderTerms /\ t.price \in Price /\ t.size \in Nat
        /\ s = Placed(t, v)
    BY <1>1, <2>1, <2>2
  <2>4. /\ s.matched \in Nat /\ s.cost \in Nat /\ s.cancelled = 0
        /\ s.lapsed \in Nat /\ s.voided \in Nat /\ Left(t, s) \in 0..t.size
    BY ONLY <2>3, PlacedFields
  <2> QED
    BY <2>2, <2>4
<1>4. Left(terms'[o], sim'[o]) \in 0..Size
  BY <1>2, <1>3, SizeNat
<1> QED
  BY <1>2, <1>3, <1>4, SizedBy

LEMMA SizedCut ==
  ASSUME TypeInv, NEW o \in Order, Sized(o), Cut(o)
  PROVE  Sized(o)' /\ Remaining(o)' \in 0..Remaining(o)
<1>0. OrdersOK /\ SameBet(o)
  BY DEF TypeInv, Cut, Stays
<1>1. CancelledSize(o) \in 0..Remaining(o)
  BY <1>0, CancelledBound
<1>2. Remaining(o) \in 0..Size /\ Size \in Nat /\ Remaining(o) \in Nat
  BY SizeNat DEF Sized
<1>3. /\ sim'[o].matched = sim[o].matched /\ sim'[o].cost = sim[o].cost
      /\ sim'[o].lapsed = sim[o].lapsed /\ sim'[o].voided = sim[o].voided
      /\ sim'[o].reconciled = sim[o].reconciled
      /\ sim'[o].cancelled = sim[o].cancelled + CancelledSize(o)
  BY <1>0, CutFields
<1>4. Left(terms'[o], sim'[o]) = IF terms[o].kind = "LIMIT"
                                 THEN Remaining(o) - CancelledSize(o) ELSE 0
  <2>1. Left(terms'[o], sim'[o]) = Left(terms[o], sim'[o])
    BY <1>0, SameLeft DEF Remaining
  <2> QED
    BY <1>0, <1>1, <1>2, <1>3, <2>1, SizedFields DEF Left
<1>5. Left(terms'[o], sim'[o]) \in 0..Remaining(o) /\ Left(terms'[o], sim'[o]) \in 0..Size
  BY <1>1, <1>2, <1>4
<1>6. Remaining(o)' = Left(terms'[o], sim'[o])
  BY DEF Remaining
<1>7. ~sim'[o].reconciled => sim'[o].cancelled \in Nat
  BY <1>1, <1>2, <1>3 DEF Sized
<1>8. terms'[o].size = terms[o].size
  BY <1>0 DEF SameBet
<1> QED
  BY <1>3, <1>5, <1>6, <1>7, <1>8, SizedBy DEF Sized

LEMMA SizedLapses ==
  ASSUME TypeInv, NEW o \in Order, Sized(o), Lapses(o)
  PROVE  Sized(o)' /\ Remaining(o)' = 0
<1>0. OrdersOK /\ SameBet(o)
  BY DEF TypeInv, Lapses, Stays
<1>1. Remaining(o) \in Nat /\ 0 \in 0..Size
  BY <1>0, SizedFields, SizeNat
<1>2. /\ sim'[o].matched = sim[o].matched /\ sim'[o].cost = sim[o].cost
      /\ sim'[o].lapsed = sim[o].lapsed + Remaining(o) /\ sim'[o].voided = sim[o].voided
      /\ sim'[o].reconciled = sim[o].reconciled
      /\ sim'[o].cancelled = sim[o].cancelled
  BY <1>0, LapsesFields
<1>3. Left(terms'[o], sim'[o]) = 0
  <2>1. Left(terms'[o], sim'[o]) = Left(terms[o], sim'[o])
    BY <1>0, SameLeft DEF Remaining
  <2> QED
    BY <1>0, <1>1, <1>2, <2>1, SizedFields DEF Left
<1>4. Remaining(o)' = 0 /\ terms'[o].size = terms[o].size
  BY <1>0, <1>3 DEF Remaining, SameBet
<1>5. sim'[o].lapsed \in Nat
  BY <1>1, <1>2 DEF Sized
<1> QED
  BY <1>1, <1>2, <1>3, <1>4, <1>5, SizedBy DEF Sized

LEMMA SizedFills ==
  ASSUME TypeInv, NEW o \in Order, Sized(o), Fills(o)
  PROVE  Sized(o)' /\ terms[o].kind = "LIMIT"
<1>0. OrdersOK /\ MarketOK /\ SameBet(o) /\ Remaining(o) # 0
  BY DEF TypeInv, Fills, Stays
<1> DEFINE n == FillSize(o, AcceptedFlow(o))
<1>1. n \in 0..Remaining(o) /\ Remaining(o) \in Nat
  BY <1>0, FillBound, SizedFields
<1>2. /\ sim'[o].matched = sim[o].matched + n
      /\ sim'[o].cost = sim[o].cost + terms[o].price * n
      /\ sim'[o].lapsed = sim[o].lapsed /\ sim'[o].voided = sim[o].voided
      /\ sim'[o].reconciled = sim[o].reconciled
      /\ sim'[o].cancelled = sim[o].cancelled
  BY <1>0, FillsFields
<1> HIDE DEF n
<1>3. terms[o].kind = "LIMIT"
  BY <1>0, SizedFields
<1>4. Left(terms'[o], sim'[o]) = Remaining(o) - n
  <2>1. Left(terms'[o], sim'[o]) = Left(terms[o], sim'[o])
    BY <1>0, SameLeft DEF Remaining
  <2> QED
    BY <1>0, <1>1, <1>2, <1>3, <2>1, SizedFields DEF Left
<1>5. sim'[o].matched \in Nat /\ sim'[o].cost \in Nat
  <2>1. terms[o].price \in Nat /\ n \in Nat /\ sim[o].matched \in Nat /\ sim[o].cost \in Nat
    BY <1>0, <1>1, OrderTypes DEF Sized
  <2>2. terms[o].price * n \in Nat
    BY <2>1
  <2> QED
    BY <1>2, <2>1, <2>2
<1>6. Left(terms'[o], sim'[o]) \in 0..Size
  BY <1>1, <1>4, SizeNat DEF Sized
<1>7. terms'[o].size = terms[o].size
  BY <1>0 DEF SameBet
<1> QED
  BY <1>2, <1>3, <1>5, <1>6, <1>7, SizedBy DEF Sized

LEMMA SizedAtStart ==
  ASSUME TypeInv, NEW o \in Order, Sized(o), AtStart(o), terms[o].price \in Price
  PROVE  Sized(o)' /\ Remaining(o)' = 0
<1>0. /\ OrdersOK /\ MarketOK /\ SameBet(o) /\ book.sp # 0 /\ ~sim[o].reconciled
      /\ sim'[o].reconciled = TRUE
  BY AtStartFields DEF TypeInv, AtStart, AtSP
<1> DEFINE n == AtPrice(o)
           r == Remaining(o)
<1>1. n \in Nat /\ r \in Nat /\ book.sp \in Nat /\ 0 \in 0..Size
  BY <1>0, AtPriceBound, SizedFields, SizeNat, PriceNat
<1>2. /\ sim'[o].matched = sim[o].matched + n
      /\ sim'[o].cost = sim[o].cost + book.sp * n
      /\ sim'[o].voided = sim[o].voided
      /\ sim'[o].lapsed = sim[o].lapsed + (IF Unacceptable(o) THEN r ELSE 0)
      /\ sim'[o].cancelled = sim[o].cancelled +
           (IF ~Unacceptable(o) /\ terms[o].kind = "LIMIT" THEN r - n ELSE 0)
  BY AtStartFields
<1>3. Unacceptable(o) => n = 0
  BY DEF AtPrice
<1>4. /\ sim[o].matched \in Nat /\ sim[o].cost \in Nat /\ sim[o].lapsed \in Nat
      /\ sim[o].cancelled \in Nat /\ sim[o].voided \in Nat /\ terms[o].size \in Nat
      /\ r = IF terms[o].kind = "LIMIT"
             THEN terms[o].size - sim[o].matched - sim[o].cancelled - sim[o].lapsed
                  - sim[o].voided
             ELSE 0
  BY <1>0, SizedFields DEF Sized
<1> HIDE DEF n, r
<1>5. Left(terms'[o], sim'[o]) = 0
  <2>1. Left(terms'[o], sim'[o]) = Left(terms[o], sim'[o])
    BY <1>0, SameLeft DEF Remaining
  <2> QED
    BY <1>1, <1>2, <1>3, <1>4, <2>1 DEF Left
<1>6. sim'[o].matched \in Nat /\ sim'[o].cost \in Nat /\ sim'[o].lapsed \in Nat
  <2>1. book.sp * n \in Nat
    BY <1>1
  <2> QED
    BY <1>1, <1>2, <1>4, <2>1
<1>7. terms'[o].size = terms[o].size /\ Remaining(o)' = 0
  BY <1>0, <1>5 DEF SameBet, Remaining
<1> QED
  BY <1>0, <1>1, <1>2, <1>4, <1>5, <1>6, <1>7, SizedBy DEF Sized

LEMMA SizedEffect ==
  ASSUME Structure, FreshInv, SizeInv, ~removed', NEW o \in Order, Effect(o),
         terms'[o] \in OrderTerms
  PROVE  Sized(o)'
<1>1. TypeInv /\ LiveInv /\ Sized(o)
  BY DEF Structure, SizeInv
<1>2. ASSUME AtStart(o)
      PROVE  terms[o].price \in Price
  <2>1. o \in Known
    BY <1>1, <1>2, TailOf DEF AtStart, Visit, TypeInv
  <2> QED
    BY <1>1, <2>1 DEF TypeInv, OrdersOK
<1> QED
  BY <1>1, <1>2, SizedUntouched, SizedCreated, SizedPut, SizedCut, SizedLapses, SizedFills,
     SizedAtStart DEF Effect, Voids

-----------------------------------------------------------------------------
(* Liabilities are bounded by everything that happens to an order. *)

\* A starting price, once known, stays.
SPKept == book.reconciled => book'.reconciled /\ book'.sp = book.sp

\* Nothing is matched of the order, and its starting price stays.
LEMMA LiableSame ==
  ASSUME NEW o \in Order, Liable(o), SPKept, SameBet(o),
         sim'[o].matched = sim[o].matched, sim'[o].cost = sim[o].cost,
         sim'[o].reconciled = sim[o].reconciled,
         Remaining(o) = 0 => Remaining(o)' = 0
  PROVE  Liable(o)'
<1>1. Risk(o)' = Risk(o) /\ Asked(o)' = Asked(o)
  BY SameLeft DEF Risk, SameBet
<1>2. /\ terms'[o].kind = terms[o].kind /\ terms'[o].side = terms[o].side
      /\ terms'[o].price = terms[o].price
  BY DEF SameBet
<1> QED
  BY <1>1, <1>2 DEF Liable, SPKept

\* The order is not matched yet.
LEMMA LiableNew ==
  ASSUME NEW o \in Order, sim'[o].reconciled = FALSE,
         terms'[o].kind # "LIMIT" => sim'[o].matched = 0 /\ sim'[o].cost = 0,
         terms'[o].side = "LAY" => sim'[o].cost <= terms'[o].price * sim'[o].matched
  PROVE  Liable(o)'
BY DEF Liable

LEMMA LiablePut ==
  ASSUME TypeInv, NEW o \in Order, Put(o), terms'[o] \in OrderTerms
  PROVE  Liable(o)'
<1>1. PICK v : sim'[o] = Placed(terms'[o], v)
  BY DEF Put
<1>2. MarketOK /\ terms'[o].price \in Price
  BY DEF Put, TypeInv
<1>3. /\ sim'[o].reconciled = FALSE
      /\ terms'[o].kind # "LIMIT" => sim'[o].matched = 0 /\ sim'[o].cost = 0
      /\ terms'[o].side = "LAY" => sim'[o].cost <= terms'[o].price * sim'[o].matched
  BY <1>1, <1>2, PlacedFields
<1> QED
  BY <1>3, LiableNew

LEMMA LiableFills ==
  ASSUME TypeInv, NEW o \in Order, Sized(o), Liable(o), Fills(o)
  PROVE  Liable(o)'
<1>0. OrdersOK /\ MarketOK /\ SameBet(o) /\ Remaining(o) # 0 /\ terms[o].kind = "LIMIT"
  BY SizedFills DEF TypeInv, Fills, Stays
<1> DEFINE n == FillSize(o, AcceptedFlow(o))
           p == terms[o].price
           m == sim[o].matched
           c == sim[o].cost
<1>1. n \in Nat /\ m \in Nat /\ p \in Nat /\ c \in Nat
  <2>1. n \in 0..Remaining(o) /\ Remaining(o) \in Nat
    BY <1>0, FillBound, SizedFields
  <2>2. terms[o].price \in Nat
    BY <1>0, OrderTypes
  <2> QED
    BY <2>1, <2>2 DEF Sized
<1>2. /\ sim'[o].matched = m + n /\ sim'[o].cost = c + p * n
      /\ sim'[o].reconciled = sim[o].reconciled
  BY <1>0, FillsFields
<1>3. ~sim[o].reconciled
  BY <1>0 DEF Liable
<1>4. terms[o].side = "LAY" => c <= p * m
  BY <1>3 DEF Liable
<1>5. /\ terms'[o].kind = "LIMIT" /\ terms'[o].side = terms[o].side /\ terms'[o].price = p
  BY <1>0 DEF SameBet
<1>6. sim'[o].reconciled = FALSE
  BY <1>0, <1>2, <1>3, OrderTypes, SimFields
<1> HIDE DEF n, p, m, c
<1>7. p * (m + n) = p * m + p * n /\ p * m \in Nat /\ p * n \in Nat
  BY <1>1
<1>8. terms'[o].side = "LAY" => sim'[o].cost <= terms'[o].price * sim'[o].matched
  BY <1>1, <1>2, <1>4, <1>5, <1>7
<1> QED
  BY <1>5, <1>6, <1>8, LiableNew

LEMMA LiableAtStart ==
  ASSUME TypeInv, NEW o \in Order, Sized(o), Liable(o), AtStart(o), book' = book,
         terms[o].price \in Price
  PROVE  Liable(o)'
<1>0. /\ OrdersOK /\ MarketOK /\ SameBet(o) /\ book.sp # 0 /\ book.reconciled
      /\ ~sim[o].reconciled /\ sim'[o].reconciled = TRUE
  BY AtStartFields DEF TypeInv, AtStart, AtSP
<1> DEFINE n == AtPrice(o)
           r == Remaining(o)
           p == terms[o].price
           m == sim[o].matched
           c == sim[o].cost
           z == terms[o].size
           q == book.sp - 1
<1>1. /\ n \in Nat /\ r \in Nat /\ p - 1 \in Nat /\ m \in Nat /\ c \in Nat /\ z \in Nat
      /\ q \in Nat /\ book.sp \in Nat /\ book.sp = q + 1 /\ p \in Nat
  <2>1. r \in Nat /\ z \in Nat /\ m \in Nat
    BY <1>0, SizedFields
  <2>2. n \in Nat
    BY <1>0, AtPriceBound
  <2>3. p \in Nat \ {0, 1} /\ q \in Nat /\ book.sp \in Nat
    BY <1>0, SPSizeType, PriceAssumption
  <2> QED
    BY <2>1, <2>2, <2>3 DEF Sized
<1>2. sim'[o].matched = m + n /\ sim'[o].cost = c + book.sp * n
  BY AtStartFields
<1>3. Asked(o)' = IF terms[o].side = "BACK" \/ terms[o].kind # "LIMIT" THEN z ELSE (p - 1) * z
  BY <1>0, SameLeft DEF Asked
<1>4. Risk(o)' = IF terms[o].side = "BACK" THEN m + n ELSE c + book.sp * n - (m + n)
  <2>1. Risk(o)' = IF terms'[o].side = "BACK" THEN sim'[o].matched
                                              ELSE sim'[o].cost - sim'[o].matched
    BY DEF Risk
  <2>2. terms'[o].side = terms[o].side
    BY <1>0 DEF SameBet
  <2>3. CASE terms[o].side = "BACK"
    BY <1>2, <2>1, <2>2, <2>3
  <2>4. CASE terms[o].side # "BACK"
    <3> DEFINE k == book.sp * n
    <3>1. sim'[o].matched = m + n /\ sim'[o].cost = c + k
      BY <1>2
    <3>2. Risk(o)' = sim'[o].cost - sim'[o].matched
      BY <2>1, <2>2, <2>4
    <3>3. n \in Int /\ m \in Int /\ c \in Int /\ k \in Int
      BY <1>1
    <3> HIDE DEF n, m, c, k
    <3>4. Risk(o)' = c + k - (m + n)
      BY <3>1, <3>2, <3>3
    <3> QED
      BY <2>4, <3>4 DEF k
  <2> QED
    BY <2>3, <2>4
<1>5. /\ terms[o].side = "BACK" => n <= IF terms[o].kind = "LIMIT" THEN r ELSE z
      /\ terms[o].side = "LAY" =>
           2 * (q * n) <= q + 2 * (IF terms[o].kind = "LIMIT" THEN (p - 1) * r ELSE z)
  BY <1>0, AtPriceBound
<1>6. /\ terms[o].kind # "LIMIT" => m = 0 /\ c = 0
      /\ terms[o].side = "LAY" => c <= p * m
      /\ terms[o].kind = "LIMIT" => m + r <= z
  BY <1>0, SizedFields DEF Liable
<1>7. terms[o].side \in {"BACK", "LAY"}
  BY <1>0, OrderTypes DEF OrderTerms
<1>8. book'.reconciled /\ book'.sp = q + 1 /\ book'.sp \in Price /\ book'.sp - 1 = q
  <2>1. book.sp \in Price
    BY <1>0, AtPriceBound
  <2> QED
    BY <1>0, <1>1, <2>1
<1>9. Remaining(o)' = 0
  BY SizedAtStart
<1> HIDE DEF n, r, p, m, c, z, q
<1>10. 2 * (Risk(o)' - Asked(o)') <= q
  <2>1. CASE terms[o].side = "BACK"
    <3>1. m + n <= z
      BY <1>1, <1>5, <1>6, <2>1
    <3> QED
      BY <1>1, <1>3, <1>4, <2>1, <3>1
  <2>2. CASE terms[o].side = "LAY" /\ terms[o].kind # "LIMIT"
    <3>1. book.sp * n = q * n + n /\ q * n \in Nat /\ p * 0 = 0
      BY <1>1
    <3>2. Risk(o)' = q * n /\ Asked(o)' = z
      BY <1>1, <1>3, <1>4, <1>6, <2>2, <3>1
    <3> QED
      BY <1>1, <1>5, <2>2, <3>1, <3>2
  <2>3. CASE terms[o].side = "LAY" /\ terms[o].kind = "LIMIT"
    <3>1. /\ book.sp * n = q * n + n /\ q * n \in Nat
          /\ p * m = (p - 1) * m + m /\ (p - 1) * m \in Nat
          /\ (p - 1) * r \in Nat /\ (p - 1) * z \in Nat
      BY <1>1
    <3>2. (p - 1) * m + (p - 1) * r <= (p - 1) * z
      <4>1. PICK k \in Nat : z = m + r + k
        <5>1. z - m - r \in Nat /\ z = m + r + (z - m - r)
          BY <1>1, <1>6, <2>3
        <5> QED
          BY <5>1
      <4>2. (p - 1) * z = (p - 1) * m + (p - 1) * r + (p - 1) * k /\ (p - 1) * k \in Nat
        BY <1>1, <4>1
      <4> QED
        BY <3>1, <4>2
    <3>3. Risk(o)' <= (p - 1) * m + q * n
      BY <1>1, <1>4, <1>6, <2>3, <3>1
    <3>4. Risk(o)' \in Int /\ Asked(o)' = (p - 1) * z
      BY <1>1, <1>3, <1>4, <2>3, <3>1
    <3>5. 2 * (q * n) <= q + 2 * ((p - 1) * r)
      BY <1>5, <2>3
    <3> DEFINE A == (p - 1) * m
               B == (p - 1) * r
               C == (p - 1) * z
               D == q * n
    <3>6. /\ A \in Nat /\ B \in Nat /\ C \in Nat /\ D \in Nat
          /\ A + B <= C /\ 2 * D <= q + 2 * B
          /\ Risk(o)' \in Int /\ Risk(o)' <= A + D /\ Asked(o)' = C
      BY <3>1, <3>2, <3>3, <3>4, <3>5
    <3> HIDE DEF A, B, C, D
    <3> QED
      BY <1>1, <3>6
  <2> QED
    BY <1>7, <2>1, <2>2, <2>3
<1> QED
  BY <1>0, <1>8, <1>9, <1>10 DEF Liable

LEMMA LiableEffect ==
  ASSUME Structure, FreshInv, SizeInv, NEW o \in Order, Liable(o), SPKept,
         ~removed', Effect(o), terms'[o] \in OrderTerms
  PROVE  Liable(o)'
<1>1. TypeInv /\ LiveInv /\ OrdersOK /\ Sized(o)
  BY DEF Structure, SizeInv, TypeInv
<1>2. CASE Untouched(o)
  <2>1. SameBet(o) /\ sim'[o] = sim[o] /\ Remaining(o)' = Remaining(o)
    BY <1>2, SameLeft DEF Untouched, Stays, Remaining
  <2> QED
    BY <2>1, LiableSame
<1>3. CASE Created(o)
  <2>1. sim'[o] = NewSimulated
    BY <1>3 DEF Created, FreshInv
  <2>2. terms'[o].price \in Nat
    BY PriceNat DEF OrderTerms
  <2>3. terms'[o].price * 0 = 0
    BY <2>2
  <2>4. /\ sim'[o].reconciled = FALSE /\ sim'[o].matched = 0 /\ sim'[o].cost = 0
        /\ sim'[o].cost <= terms'[o].price * sim'[o].matched
    <3>1. sim'[o].reconciled = FALSE /\ sim'[o].matched = 0 /\ sim'[o].cost = 0
      BY <2>1, NewFields
    <3> QED
      BY <2>3, <3>1
  <2> QED
    BY <2>4, LiableNew
<1>4. CASE Put(o)
  BY <1>1, <1>4, LiablePut
<1>5. CASE Cut(o)
  <2>1. SameBet(o) /\ Remaining(o)' \in 0..Remaining(o)
    BY <1>1, <1>5, SizedCut DEF Cut, Stays
  <2>2. Remaining(o) = 0 => Remaining(o)' = 0
    BY <2>1
  <2>3. /\ sim'[o].matched = sim[o].matched /\ sim'[o].cost = sim[o].cost
        /\ sim'[o].reconciled = sim[o].reconciled
    BY <1>1, <1>5, CutFields
  <2> QED
    BY <2>1, <2>2, <2>3, LiableSame
<1>6. CASE Lapses(o)
  <2>1. SameBet(o) /\ Remaining(o)' = 0
    BY <1>1, <1>6, SizedLapses DEF Lapses, Stays
  <2>2. /\ sim'[o].matched = sim[o].matched /\ sim'[o].cost = sim[o].cost
        /\ sim'[o].reconciled = sim[o].reconciled
    BY <1>1, <1>6, LapsesFields
  <2> QED
    BY <2>1, <2>2, LiableSame
<1>7. CASE Fills(o)
  BY <1>1, <1>7, LiableFills
<1>8. CASE AtStart(o)
  <2>1. o \in Known /\ book' = book
    BY <1>1, <1>8, TailOf DEF AtStart, Visit, Visited, marketVars, TypeInv
  <2>2. terms[o].price \in Price
    BY <1>1, <2>1 DEF OrdersOK
  <2> QED
    BY <1>1, <1>8, <2>1, <2>2, LiableAtStart
<1> QED
  BY <1>2, <1>3, <1>4, <1>5, <1>6, <1>7, <1>8 DEF Effect, Voids

-----------------------------------------------------------------------------
(* What the steps do to the books *)

\* A book is taken over, another arrives, or both stay.
LEMMA BookStep ==
  ASSUME [Next]_vars
  PROVE  \/ UpdateMarket
         \/ NextBook
         \/ UNCHANGED <<incoming, book, volume, traded, removed>>
<1>1. CASE Strategy
  BY <1>1 DEF Strategy, PlaceOrder, CancelOrder, UpdateOrder, ReplaceOrder, Request, marketVars
<1>2. CASE Engine
  <2>1. ASSUME NEW u \in Order,
               \/ PassOrder(u) \/ MatchAtSP(u) \/ NoSP(u) \/ Lapse(u) \/ MatchTraded(u)
               \/ ProcessOrder(u)
        PROVE  UNCHANGED <<incoming, marketVars>>
    BY <2>1 DEF PassOrder, MatchAtSP, NoSP, Lapse, MatchTraded, ProcessOrder, Visited
  <2>2. ASSUME \/ ExecutePlace \/ ExecuteCancel \/ ExecuteUpdate \/ ExecuteReplace
               \/ FailReplace \/ FailInstruction
        PROVE  UNCHANGED <<incoming, marketVars>>
    BY <2>2 DEF ExecutePlace, ExecuteCancel, ExecuteUpdate, ExecuteReplace, FailReplace,
                FailInstruction, Executing
  <2>3. CASE CloseMarket \/ EndMatching
    BY <2>3 DEF CloseMarket, EndMatching, marketVars
  <2> QED
    BY <1>2, <2>1, <2>2, <2>3 DEF Engine, marketVars
<1>3. CASE UNCHANGED vars
  BY <1>3 DEF vars, engineVars, marketVars
<1> QED
  BY <1>1, <1>2, <1>3 DEF Next

\* The books of a stream go on from one another.
LEMMA NextBookFields ==
  ASSUME TypeInv, NextBook
  PROVE  /\ book' = book /\ volume' = volume /\ traded' = traded /\ removed' = removed
         /\ phase = "orders" /\ phase' = "packages" /\ todo' = todo /\ todo = <<>>
         /\ incoming'.removed => Removals
         /\ incoming'.reconciled => BspMarket
         /\ incoming.removed => incoming'.removed
         /\ incoming.reconciled => incoming'.reconciled /\ incoming'.sp = incoming.sp
         /\ \A x \in Price : incoming.volume[x] <= incoming'.volume[x]
         /\ IF incoming'.status = incoming.status THEN incoming'.version = incoming.version
                                                 ELSE incoming'.version = incoming.version + 1
<1>1. PICK s \in Statuses, l \in Ladders, r \in BOOLEAN, g \in BOOLEAN, sp \in Prices,
          x \in Price, more \in 0..MaxVolume, d \in 1..MaxElapsed :
       /\ r => Removals
       /\ g => BspMarket
       /\ incoming.removed => r
       /\ incoming.reconciled => g /\ sp = incoming.sp
       /\ ~g => sp = Fresh(Prices)
       /\ incoming.volume[x] + more <= MaxVolume
       /\ more = 0 => x = Fresh(Price)
       /\ s # incoming.status => incoming.version < MaxVersion
       /\ incoming' =
            [ status |-> s, removed |-> r, reconciled |-> g, sp |-> sp,
              version |-> incoming.version + (IF s # incoming.status THEN 1 ELSE 0),
              volume |-> [incoming.volume EXCEPT ![x] = @ + more],
              back |-> l.back, lay |-> l.lay ]
       /\ queue' = [i \in DOMAIN queue |->
                      [queue[i] EXCEPT !.age = Least(@ + d, 1 + Delay[queue[i].type])]]
  BY DEF NextBook
<1>2. /\ incoming'.removed = r /\ incoming'.reconciled = g /\ incoming'.sp = sp
      /\ incoming'.status = s
      /\ incoming'.version = incoming.version + (IF s # incoming.status THEN 1 ELSE 0)
      /\ incoming'.volume = [incoming.volume EXCEPT ![x] = @ + more]
  BY <1>1
<1>3. incoming.version \in Nat /\ incoming.volume \in [Price -> Nat]
  BY DEF TypeInv, MarketOK, Book
<1>4. more \in Nat
  BY BoundAssumption
<1>5. \A y \in Price : incoming.volume[y] <= incoming'.volume[y]
  BY <1>2, <1>3, <1>4
<1>6. IF incoming'.status = incoming.status THEN incoming'.version = incoming.version
                                           ELSE incoming'.version = incoming.version + 1
  BY <1>2, <1>3
<1>7. /\ book' = book /\ volume' = volume /\ traded' = traded /\ removed' = removed
      /\ phase = "orders" /\ phase' = "packages" /\ todo' = todo /\ todo = <<>>
  BY DEF NextBook, marketVars
<1> QED
  BY <1>1, <1>2, <1>5, <1>6, <1>7

-----------------------------------------------------------------------------
(* Sizes and liabilities, always, until a runner is removed *)

\* Only a market that removes runners has one removed, and once it is, it stays so;
\* only a BSP market has a starting price, and it stays what it is.
StreamInv ==
  /\ incoming.removed => Removals
  /\ removed => incoming.removed /\ book.removed
  /\ book.removed => incoming.removed
  /\ incoming.reconciled => BspMarket
  /\ book.reconciled => incoming.reconciled /\ incoming.sp = book.sp
LiabInv == \A o \in Order : Liable(o)
Sizes == Structure /\ FreshInv /\ StreamInv /\ (~removed => SizeInv /\ LiabInv)

LEMMA RemovedStays ==
  ASSUME TypeInv, [Next]_vars
  PROVE  removed => removed'
<1>1. UpdateMarket => removed' = (removed \/ incoming.removed)
  BY DEF UpdateMarket
<1>2. NextBook => removed' = removed
  BY NextBookFields
<1> QED
  BY <1>1, <1>2, BookStep

LEMMA Whole ==
  ASSUME ~Removals, Sizes
  PROVE  ~removed
BY DEF Sizes, StreamInv

LEMMA FirstBookFields ==
  /\ FirstBook.removed = FALSE /\ FirstBook.reconciled = FALSE
  /\ FirstBook.volume = NoVolume /\ FirstBook.version = 1 /\ FirstBook.status = "OPEN"
BY DEF FirstBook

LEMMA InitSizes == Init => Sizes
<1> SUFFICES ASSUME Init
             PROVE  Sizes
  OBVIOUS
<1>1. Structure
  BY InitStructure
<1>2. /\ status = [o \in Order |-> "None"] /\ terms = [o \in Order |-> NoTerms]
      /\ sim = [o \in Order |-> NewSimulated] /\ history = [o \in Order |-> NewHistory]
      /\ book = FirstBook /\ incoming = FirstBook
  BY DEF Init
<1>3. FreshInv
  BY <1>2 DEF FreshInv
<1>4. StreamInv
  <2>1. removed = FALSE
    BY DEF Init
  <2> QED
    BY <1>2, <2>1, FirstBookFields DEF StreamInv
<1>5. ASSUME NEW o \in Order
      PROVE  Sized(o) /\ Liable(o)
  <2>1. sim[o] = NewSimulated /\ terms[o] = NoTerms
    BY <1>2
  <2>2. /\ sim[o].matched = 0 /\ sim[o].cost = 0 /\ sim[o].cancelled = 0 /\ sim[o].lapsed = 0
        /\ sim[o].voided = 0 /\ sim[o].reconciled = FALSE
    BY <2>1, NewFields
  <2>3. terms[o].size = 0 /\ terms[o].side = "BACK"
    BY <2>1 DEF NoTerms
  <2>4. 0 \in 0..Size
    BY SizeNat
  <2>5. Remaining(o) = 0
    BY <2>2, <2>3 DEF Remaining, Left
  <2> QED
    BY <2>2, <2>3, <2>4, <2>5 DEF Sized, Liable
<1> QED
  BY <1>1, <1>3, <1>4, <1>5 DEF Sizes, SizeInv, LiabInv

LEMMA SizesStep ==
  ASSUME Sizes, [Next]_vars
  PROVE  Sizes'
<1>1. Structure /\ TypeInv /\ FreshInv /\ StreamInv /\ (~removed => SizeInv /\ LiabInv)
  BY DEF Sizes, Structure
<1>2. Structure' /\ \A o \in Order : Effect(o) /\ terms'[o] \in OrderTerms
  BY <1>1, StructureStep DEF Structure, TypeInv, OrdersOK
<1>3. FreshInv'
  BY <1>1, FreshStep
<1>4. StreamInv' /\ SPKept /\ (removed => removed')
  <2>1. CASE UpdateMarket
    <3>1. book' = incoming /\ incoming' = incoming /\ removed' = (removed \/ incoming.removed)
      BY <2>1 DEF UpdateMarket
    <3> QED
      BY <1>1, <3>1 DEF StreamInv, SPKept
  <2>2. CASE NextBook
    <3>1. /\ book' = book /\ removed' = removed /\ (incoming'.removed => Removals)
          /\ incoming.removed => incoming'.removed
          /\ incoming'.reconciled => BspMarket
          /\ incoming.reconciled => incoming'.reconciled /\ incoming'.sp = incoming.sp
      BY <1>1, <2>2, NextBookFields
    <3> QED
      BY <1>1, <3>1 DEF StreamInv, SPKept
  <2>3. CASE UNCHANGED <<incoming, book, volume, traded, removed>>
    BY <1>1, <2>3 DEF StreamInv, SPKept
  <2> QED
    BY <2>1, <2>2, <2>3, BookStep
<1>5. ~removed' => SizeInv' /\ LiabInv'
  BY <1>1, <1>2, <1>4, SizedEffect, LiableEffect DEF SizeInv, LiabInv
<1> QED
  BY <1>2, <1>3, <1>4, <1>5 DEF Sizes

LEMMA SizesAlways == Spec => []Sizes
<1>1. Sizes /\ [Next]_vars => Sizes'
  BY SizesStep
<1> QED
  BY <1>1, InitSizes, PTL DEF Spec

\* The backtest's records are well formed: whatever the order in which an order is
\* matched, cancelled in part, lapsed and reconciled, no size of it goes below zero,
\* but what a lay bet that grows at the starting price has cancelled.
THEOREM TypeOKSafe == Spec => [](removed \/ TypeOK)
<1>1. Sizes => removed \/ TypeOK
  <2> SUFFICES ASSUME Sizes, ~removed
               PROVE  TypeOK
    OBVIOUS
  <2>1. /\ OrdersOK /\ EngineOK /\ SizeInv
    BY DEF Sizes, Structure, TypeInv
  <2>2. status \in [Order -> {"None", "New"} \cup Awaiting \cup Complete \cup {"EXECUTABLE"}]
    BY <2>1 DEF OrdersOK, OrderStatus
  <2>3. ASSUME NEW o \in Order
        PROVE  /\ sim[o].matched \in Nat /\ sim[o].cost \in Nat /\ sim[o].piq \in Nat
               /\ sim[o].lapsed \in Nat /\ sim[o].voided \in Nat /\ sim[o].cancelled \in Int
               /\ terms[o].size \in 0..Size /\ reduction[o] \in 0..Size
               /\ newPrice[o] \in Price \cup {0} /\ trade[o] \in Order
    <3>1. sim[o].piq \in Nat /\ sim[o].cancelled \in Int
      BY <2>1, OrderTypes, SimFields
    <3>2. reduction[o] \in 0..Size /\ newPrice[o] \in Price \cup {0} /\ trade[o] \in Order
      BY <2>1 DEF OrdersOK
    <3> QED
      BY <2>1, <3>1, <3>2 DEF SizeInv, Sized
  <2> QED
    BY <2>1, <2>2, <2>3 DEF TypeOK, OrdersOK, EngineOK
<1> QED
  BY <1>1, SizesAlways, PTL

\* What is matched, cancelled, lapsed and voided of an order never exceeds its size
\* (Simulated.size_remaining).
THEOREM SizeConservedSafe == Spec => [](removed \/ SizeConserved)
<1>1. Sizes => removed \/ SizeConserved
  <2> SUFFICES ASSUME Sizes, ~removed, NEW o \in Known
               PROVE  Remaining(o) >= 0
    BY DEF SizeConserved
  <2>1. o \in Order
    BY DEF Known
  <2>2. Remaining(o) \in 0..Size /\ Size \in Nat
    BY <2>1, SizeNat DEF Sizes, SizeInv, Sized
  <2> QED
    BY <2>2
<1> QED
  BY <1>1, SizesAlways, PTL

\* No bet risks more than was asked for, up to the rounding of what is matched at the
\* starting price (Simulated._process_sp, _process_traded, _process_price_matched).
THEOREM LiabilityBoundedSafe == Spec => [](removed \/ LiabilityBounded)
<1>1. Sizes => removed \/ LiabilityBounded
  <2> SUFFICES ASSUME Sizes, ~removed, NEW o \in Known
               PROVE  2 * (Risk(o) - Asked(o)) <=
                        (IF sim[o].reconciled THEN book.sp - 1 ELSE 0)
    BY DEF LiabilityBounded
  <2>1. o \in Order /\ OrdersOK /\ Sized(o) /\ Liable(o)
    BY DEF Known, Sizes, Structure, TypeInv, SizeInv, LiabInv
  <2>2. terms[o].price \in Nat \ {0, 1}
    BY PriceAssumption, <2>1 DEF OrdersOK
  <2> DEFINE p == terms[o].price
             m == sim[o].matched
             c == sim[o].cost
             z == terms[o].size
  <2>3. /\ m \in Nat /\ c \in Nat /\ z \in Nat /\ p - 1 \in Nat /\ p \in Nat
    BY <2>1, <2>2, SizedFields DEF Sized
  <2>4. CASE sim[o].reconciled
    BY <2>1, <2>4 DEF Liable
  <2>5. CASE ~sim[o].reconciled
    <3>1. /\ terms[o].kind # "LIMIT" => m = 0 /\ c = 0
          /\ terms[o].side = "LAY" => c <= p * m
          /\ terms[o].kind = "LIMIT" => m <= z
      <4>1. terms[o].kind = "LIMIT" => m + Remaining(o) <= z
        BY <2>1, <2>5, SizedFields
      <4>2. Remaining(o) \in Nat
        BY <2>1, SizedFields
      <4> QED
        BY <2>1, <2>3, <2>5, <4>1, <4>2 DEF Liable
    <3>2. /\ Risk(o) = IF terms[o].side = "BACK" THEN m ELSE c - m
          /\ Asked(o) = IF terms[o].side = "BACK" \/ terms[o].kind # "LIMIT" THEN z
                                                                       ELSE (p - 1) * z
      BY DEF Risk, Asked
    <3>3. terms[o].side \in {"BACK", "LAY"}
      BY <2>1, OrderTypes DEF OrderTerms
    <3> HIDE DEF p, m, c, z
    <3>4. terms[o].kind = "LIMIT" => (p - 1) * m <= (p - 1) * z
      <4> SUFFICES ASSUME terms[o].kind = "LIMIT"
                   PROVE  (p - 1) * m <= (p - 1) * z
        OBVIOUS
      <4>1. PICK k \in Nat : z = m + k
        <5>1. z - m \in Nat /\ z = m + (z - m)
          BY <2>3, <3>1
        <5> QED
          BY <5>1
      <4>2. (p - 1) * z = (p - 1) * m + (p - 1) * k /\ (p - 1) * k \in Nat
            /\ (p - 1) * m \in Nat
        BY <2>3, <4>1
      <4> QED
        BY <4>2
    <3>5. (p - 1) * m = p * m - m /\ (p - 1) * m \in Nat /\ (p - 1) * z \in Nat /\ p * m \in Nat
      BY <2>3
    <3>6. 2 * (Risk(o) - Asked(o)) <= 0
      <4>1. CASE terms[o].side = "BACK"
        <5>1. m <= z
          BY <2>3, <3>1
        <5> QED
          BY <2>3, <3>2, <4>1, <5>1
      <4>2. CASE terms[o].side = "LAY" /\ terms[o].kind # "LIMIT"
        BY <2>3, <3>1, <3>2, <4>2
      <4>3. CASE terms[o].side = "LAY" /\ terms[o].kind = "LIMIT"
        <5> DEFINE A == (p - 1) * m
                   B == (p - 1) * z
        <5>1. A \in Nat /\ B \in Nat /\ A <= B /\ c <= A + m
          BY <2>3, <3>1, <3>4, <3>5, <4>3
        <5>2. Risk(o) = c - m /\ Asked(o) = B
          BY <3>2, <4>3
        <5> HIDE DEF A, B
        <5> QED
          BY <2>3, <5>1, <5>2
      <4> QED
        BY <3>3, <4>1, <4>2, <4>3
    <3> QED
      BY <2>5, <3>6
  <2> QED
    BY <2>4, <2>5
<1> QED
  BY <1>1, SizesAlways, PTL

-----------------------------------------------------------------------------
(* The queue: what is matched of an order was traded after what was ahead of it. *)

\* Of the volume traded since the order was placed, at prices it accepts, what was
\* ahead of it came first; flow is that volume.
Ahead(o, flow) ==
  /\ sim[o].matched - history[o].taken <= Most(0, flow - history[o].ahead)
  /\ history[o].ahead - flow <= sim[o].piq

\* The order has still to be visited with the new book: what was traded since the
\* book before does not count yet.
Waits(o) == phase = "match" /\ \E i \in 1..Len(todo) : todo[i] = o
Earlier(o) ==
  Sum([x \in Price |-> book.volume[x] - history[o].base[x] - traded[x]],
      {x \in Price : AsGood(terms[o], x)})

VolumeInv ==
  /\ volume = book.volume
  /\ \A x \in Price : book.volume[x] <= incoming.volume[x]
  /\ \A o \in Order, x \in Price : history[o].base[x] <= book.volume[x]
  /\ phase = "match" =>
       \A o \in Order, x \in Price : history[o].base[x] + traded[x] <= book.volume[x]
QueueInv == \A o \in Order : Ahead(o, IF Waits(o) THEN Earlier(o) ELSE Flow(o))
JumpInv == VolumeInv /\ QueueInv

LEMMA VolumeTypes ==
  ASSUME OrdersOK, MarketOK, NEW x \in Price
  PROVE  /\ book.volume[x] \in Nat /\ incoming.volume[x] \in Nat /\ volume[x] \in Nat
         /\ traded[x] \in Nat
         /\ \A o \in Order : history[o].base[x] \in Nat
<1>1. \A o \in Order : history[o] \in HistoryType
  BY OrderTypes
<1> QED
  BY <1>1 DEF MarketOK, Book, HistoryType

LEMMA AheadTypes ==
  ASSUME OrdersOK, NEW o \in Order
  PROVE  /\ sim[o].matched \in Int /\ sim[o].piq \in Nat
         /\ history[o].taken \in Int /\ history[o].ahead \in Nat
BY OrderTypes, SimFields DEF HistoryType

\* Of the volume v, what was traded since the volume b at prices t accepts; and of
\* that, what was traded before r, the volume since the last book
FlowOf(t, v, b) == Sum([x \in Price |-> v[x] - b[x]], {x \in Price : AsGood(t, x)})
EarlierOf(t, v, b, r) ==
  Sum([x \in Price |-> v[x] - b[x] - r[x]], {x \in Price : AsGood(t, x)})

LEMMA FlowIs ==
  ASSUME NEW o
  PROVE  /\ Flow(o) = FlowOf(terms[o], book.volume, history[o].base)
         /\ Earlier(o) = EarlierOf(terms[o], book.volume, history[o].base, traded)
         /\ Flow(o)' = FlowOf(terms'[o], book'.volume, history'[o].base)
         /\ Earlier(o)' = EarlierOf(terms'[o], book'.volume, history'[o].base, traded')
BY DEF Flow, Earlier, FlowOf, EarlierOf

LEMMA FlowSums ==
  ASSUME NEW t, NEW v, NEW b, NEW r,
         \A x \in Price : v[x] \in Nat /\ b[x] \in Nat /\ r[x] \in Nat /\ b[x] <= v[x]
  PROVE  /\ FlowOf(t, v, b) \in Nat
         /\ (\A x \in Price : b[x] + r[x] <= v[x]) =>
              /\ EarlierOf(t, v, b, r) \in Nat
              /\ FlowOf(t, v, b) =
                   EarlierOf(t, v, b, r) + Sum(r, {x \in Price : AsGood(t, x)})
<1> DEFINE S == {x \in Price : AsGood(t, x)}
           h == [x \in Price |-> v[x] - b[x]]
           f == [x \in Price |-> v[x] - b[x] - r[x]]
<1>0. IsFiniteSet(S)
  BY PricesFinite
<1>1. \A x \in S : h[x] \in Nat
  OBVIOUS
<1>2. (\A x \in Price : b[x] + r[x] <= v[x]) =>
        \A x \in S : f[x] \in Nat /\ r[x] \in Nat /\ h[x] = f[x] + r[x]
  OBVIOUS
<1>3. FlowOf(t, v, b) = Sum(h, S) /\ EarlierOf(t, v, b, r) = Sum(f, S)
  BY DEF FlowOf, EarlierOf
<1>4. Sum(r, S) = Sum(r, {x \in Price : AsGood(t, x)})
  OBVIOUS
<1> HIDE DEF S, h, f
<1>5. Sum(h, S) \in Nat
  BY <1>0, <1>1, SumType
<1>6. (\A x \in Price : b[x] + r[x] <= v[x]) =>
        Sum(f, S) \in Nat /\ Sum(h, S) = Sum(f, S) + Sum(r, S)
  BY <1>0, <1>2, SumType, SumAdd
<1> QED
  BY <1>3, <1>4, <1>5, <1>6

LEMMA FlowNat ==
  ASSUME OrdersOK, MarketOK, VolumeInv, NEW o \in Order
  PROVE  /\ Flow(o) \in Nat
         /\ phase = "match" =>
              Earlier(o) \in Nat /\ Flow(o) = Earlier(o) + AcceptedFlow(o)
<1>1. \A x \in Price : /\ book.volume[x] \in Nat /\ history[o].base[x] \in Nat
                       /\ traded[x] \in Nat /\ history[o].base[x] <= book.volume[x]
  BY VolumeTypes DEF VolumeInv
<1>2. phase = "match" => \A x \in Price : history[o].base[x] + traded[x] <= book.volume[x]
  BY DEF VolumeInv
<1> DEFINE b == history[o].base
<1>3. /\ FlowOf(terms[o], book.volume, b) \in Nat
      /\ (\A x \in Price : b[x] + traded[x] <= book.volume[x]) =>
           /\ EarlierOf(terms[o], book.volume, b, traded) \in Nat
           /\ FlowOf(terms[o], book.volume, b) =
                EarlierOf(terms[o], book.volume, b, traded) +
                Sum(traded, {x \in Price : AsGood(terms[o], x)})
  <2>1. \A x \in Price : /\ book.volume[x] \in Nat /\ b[x] \in Nat
                         /\ traded[x] \in Nat /\ b[x] <= book.volume[x]
    BY <1>1
  <2> HIDE DEF b
  <2> QED
    BY <2>1, FlowSums
<1>4. AcceptedFlow(o) = Sum(traded, {x \in Price : AsGood(terms[o], x)})
  BY DEF AcceptedFlow
<1> QED
  BY <1>2, <1>3, <1>4, FlowIs

LEMMA AheadMono ==
  ASSUME OrdersOK, NEW o \in Order, NEW f \in Nat, NEW g \in Nat, f <= g, Ahead(o, f)
  PROVE  Ahead(o, g)
<1>1. /\ sim[o].matched \in Int /\ sim[o].piq \in Nat
      /\ history[o].taken \in Int /\ history[o].ahead \in Nat
  BY AheadTypes
<1> QED
  BY <1>1 DEF Ahead, Most

LEMMA AheadFills ==
  ASSUME TypeInv, NEW o \in Order, Fills(o), NEW f \in Nat, Ahead(o, f),
         NEW g, g = f + AcceptedFlow(o)
  PROVE  Ahead(o, g)'
<1>0. OrdersOK /\ MarketOK /\ history'[o] = history[o]
  BY DEF TypeInv, Fills, Stays
<1>1. PICK a, n : a = AcceptedFlow(o) /\ n = FillSize(o, AcceptedFlow(o))
  OBVIOUS
<1>2. /\ sim[o].matched \in Int /\ sim[o].piq \in Nat
      /\ history[o].taken \in Int /\ history[o].ahead \in Nat
      /\ a \in Nat /\ n \in Int /\ Remaining(o) \in Int
  BY <1>0, <1>1, AheadTypes, FlowType, FillType, OrderTypes
<1>3. sim'[o].matched = sim[o].matched + n /\ sim'[o].piq = Most(0, sim[o].piq - a)
  BY <1>0, <1>1, FillsFields
<1>4. n <= Most(0, a - sim[o].piq)
  BY <1>1, <1>2 DEF FillSize, Least, Most
<1>5. /\ sim[o].matched - history[o].taken <= Most(0, f - history[o].ahead)
      /\ history[o].ahead - f <= sim[o].piq
  BY DEF Ahead
<1>6. g = f + a /\ g \in Nat
  BY <1>1, <1>2
<1>7. sim'[o].matched - history[o].taken <= Most(0, g - history[o].ahead)
  BY <1>2, <1>3, <1>4, <1>5, <1>6 DEF Most
<1>8. history[o].ahead - g <= sim'[o].piq
  BY <1>2, <1>3, <1>5, <1>6 DEF Most
<1> QED
  BY <1>0, <1>7, <1>8 DEF Ahead

\* Anything else that happens to a placed order leaves its place in the queue.
LEMMA AheadKept ==
  ASSUME TypeInv, NEW o \in Order, Untouched(o) \/ Cut(o) \/ Lapses(o) \/ AtStart(o),
         NEW f \in Nat, Ahead(o, f)
  PROVE  Ahead(o, f)' /\ history'[o].base = history[o].base /\ SameBet(o)
<1>0. OrdersOK
  BY DEF TypeInv
<1>1. CASE Untouched(o)
  BY <1>1 DEF Ahead, Untouched, Stays
<1>2. CASE Cut(o)
  BY <1>0, <1>2, CutFields DEF Ahead, Cut, Stays
<1>3. CASE Lapses(o)
  BY <1>0, <1>3, LapsesFields DEF Ahead, Lapses, Stays
<1>4. CASE AtStart(o)
  <2>1. /\ AtPrice(o) \in Int
        /\ sim'[o].matched = sim[o].matched + AtPrice(o)
        /\ sim'[o].piq = sim[o].piq
        /\ history'[o].taken = history[o].taken + AtPrice(o)
        /\ history'[o].ahead = history[o].ahead /\ history'[o].base = history[o].base
    BY <1>4, AtStartFields
  <2>2. /\ sim[o].matched \in Int /\ history[o].taken \in Int
    BY <1>0, AheadTypes
  <2>3. sim'[o].matched - history'[o].taken = sim[o].matched - history[o].taken
    BY <2>1, <2>2
  <2> QED
    BY <1>4, <2>1, <2>3 DEF Ahead, AtStart
<1> QED
  BY <1>1, <1>2, <1>3, <1>4

\* An order that is placed, or created, has its whole queue ahead of it.
LEMMA AheadNew ==
  ASSUME TypeInv, FreshInv, NEW o \in Order, Put(o) \/ Created(o), terms'[o] \in OrderTerms,
         NEW f \in Nat
  PROVE  Ahead(o, f)'
<1>1. CASE Put(o)
  <2>1. PICK v : sim'[o] = Placed(terms'[o], v)
    BY <1>1 DEF Put
  <2>2. MarketOK /\ terms'[o].price \in Price
    BY <1>1 DEF Put, TypeInv
  <2>3. sim'[o].matched \in Nat /\ sim'[o].piq \in Nat
    BY <2>1, <2>2, PlacedFields, SimFields
  <2>4. history'[o].ahead = sim'[o].piq /\ history'[o].taken = sim'[o].matched
    BY <1>1 DEF Put, Noted
  <2>5. /\ sim'[o].matched - sim'[o].matched <= Most(0, f - sim'[o].piq)
        /\ sim'[o].piq - f <= sim'[o].piq
    BY <2>3 DEF Most
  <2> QED
    BY <2>4, <2>5 DEF Ahead
<1>2. CASE Created(o)
  <2>1. sim'[o] = NewSimulated /\ history'[o] = NewHistory
    BY <1>2 DEF Created, FreshInv
  <2>2. /\ sim'[o].matched = 0 /\ sim'[o].piq = 0
        /\ history'[o].taken = 0 /\ history'[o].ahead = 0
    BY <2>1, NewFields DEF NewHistory
  <2>3. 0 - 0 <= Most(0, f - 0) /\ 0 - f <= 0
    BY DEF Most
  <2> QED
    BY <2>2, <2>3 DEF Ahead
<1> QED
  BY <1>1, <1>2

\* How the loop over the live orders goes on, between two books
LEMMA TurnStep ==
  ASSUME [Next]_vars, ~UpdateMarket
  PROVE  \/ phase # "match" /\ phase' # "match"
         \/ /\ phase = "match" /\ phase' = "match"
            /\ todo' = todo \/ (todo # <<>> /\ todo' = Tail(todo))
         \/ phase = "match" /\ phase' = "orders" /\ todo = <<>>
<1>1. CASE Strategy
  <2>1. phase = "orders" /\ phase' = phase
    BY <1>1 DEF Strategy, PlaceOrder, CancelOrder, UpdateOrder, ReplaceOrder, Request, Callback
  <2> QED
    BY <2>1
<1>2. CASE Engine
  <2>1. ASSUME NEW u \in Order,
               PassOrder(u) \/ MatchAtSP(u) \/ NoSP(u) \/ Lapse(u) \/ MatchTraded(u)
        PROVE  /\ phase = "match" /\ phase' = "match" /\ todo # <<>> /\ todo' = Tail(todo)
    BY <2>1 DEF PassOrder, MatchAtSP, NoSP, Lapse, MatchTraded, Visit, Visited
  <2>2. ASSUME \/ ExecutePlace \/ ExecuteCancel \/ ExecuteUpdate \/ ExecuteReplace
               \/ FailReplace \/ FailInstruction
        PROVE  phase = "packages" /\ phase' = phase
    BY <2>2 DEF ExecutePlace, ExecuteCancel, ExecuteUpdate, ExecuteReplace, FailReplace,
                FailInstruction, Executing
  <2>3. ASSUME NextBook \/ CloseMarket \/ \E u \in Order : ProcessOrder(u)
        PROVE  phase # "match" /\ phase' # "match"
    BY <2>3 DEF CloseMarket, NextBook, ProcessOrder
  <2>4. CASE EndMatching
    BY <2>4 DEF EndMatching
  <2> QED
    BY <1>2, <2>1, <2>2, <2>3, <2>4 DEF Engine
<1>3. CASE UNCHANGED vars
  BY <1>3 DEF vars, engineVars
<1> QED
  BY <1>1, <1>2, <1>3 DEF Next

\* The volumes, when no book is taken over
LEMMA VolumeKept ==
  ASSUME Sizes, VolumeInv, [Next]_vars, ~UpdateMarket
  PROVE  VolumeInv' /\ book' = book /\ volume' = volume /\ traded' = traded
<1>0. /\ TypeInv /\ OrdersOK /\ MarketOK
  BY DEF Sizes, Structure, TypeInv
<1>1. /\ MarketOK' /\ \A o \in Order : Effect(o)
  BY StructureStep DEF Sizes, Structure, TypeInv
<1>2. /\ book' = book /\ volume' = volume /\ traded' = traded
      /\ \A x \in Price : incoming.volume[x] <= incoming'.volume[x]
  <2>1. CASE NextBook
    BY <1>0, <2>1, NextBookFields
  <2>2. CASE UNCHANGED <<incoming, book, volume, traded, removed>>
    BY <1>0, <2>2, VolumeTypes
  <2> QED
    BY <2>1, <2>2, BookStep
<1>3. volume' = book'.volume /\ \A x \in Price : book'.volume[x] <= incoming'.volume[x]
  <2>1. ASSUME NEW x \in Price
        PROVE  book'.volume[x] <= incoming'.volume[x]
    <3>1. /\ book.volume[x] \in Nat /\ incoming.volume[x] \in Nat
          /\ incoming'.volume[x] \in Nat
      BY <1>0, <1>1, VolumeTypes DEF MarketOK, Book
    <3>2. book.volume[x] <= incoming.volume[x]
      BY DEF VolumeInv
    <3>3. incoming.volume[x] <= incoming'.volume[x]
      BY <1>2
    <3> QED
      BY <1>2, <3>1, <3>2, <3>3
  <2> QED
    BY <1>2, <2>1 DEF VolumeInv
<1>4. ASSUME NEW o \in Order
      PROVE  \/ history'[o].base = history[o].base
             \/ phase = "packages" /\ history'[o].base = book.volume
  <2>1. CASE Put(o)
    BY <2>1 DEF Put, Noted
  <2>2. CASE Created(o)
    BY <2>2 DEF Created
  <2>3. CASE AtStart(o)
    BY <1>0, <2>3, AtStartFields
  <2>4. CASE Untouched(o) \/ Cut(o) \/ Lapses(o) \/ Fills(o) \/ Voids(o)
    BY <2>4 DEF Untouched, Cut, Lapses, Fills, Voids, Stays
  <2> QED
    BY <1>1, <2>1, <2>2, <2>3, <2>4 DEF Effect
<1>5. ASSUME NEW o \in Order, NEW x \in Price
      PROVE  /\ history'[o].base[x] <= book'.volume[x]
             /\ phase' = "match" => history'[o].base[x] + traded'[x] <= book'.volume[x]
  <2>1. book.volume[x] \in Nat
    BY <1>0, VolumeTypes
  <2>2. phase' = "match" => phase = "match"
    BY TurnStep
  <2>3. /\ history[o].base[x] <= book.volume[x]
        /\ phase = "match" => history[o].base[x] + traded[x] <= book.volume[x]
    BY DEF VolumeInv
  <2>4. CASE history'[o].base = history[o].base
    BY <1>2, <2>2, <2>3, <2>4
  <2>5. CASE phase = "packages" /\ history'[o].base = book.volume
    BY <1>2, <2>1, <2>2, <2>5
  <2> QED
    BY <1>4, <2>4, <2>5
<1> QED
  BY <1>2, <1>3, <1>5 DEF VolumeInv

\* Whether an order still waits for its turn, when no book is taken over
LEMMA WaitsKept ==
  ASSUME TypeInv, LiveInv, [Next]_vars, ~UpdateMarket, NEW o \in Order
  PROVE  /\ Waits(o)' => Waits(o)
         /\ Visit(o) /\ Visited => Waits(o) /\ ~Waits(o)'
<1>0. EngineOK
  BY DEF TypeInv
<1>1. ASSUME Waits(o)'
      PROVE  Waits(o)
  <2>1. phase = "match" /\ (todo' = todo \/ (todo # <<>> /\ todo' = Tail(todo)))
    BY <1>1, TurnStep DEF Waits
  <2>2. PICK i \in 1..Len(todo') : todo'[i] = o
    BY <1>1 DEF Waits
  <2>3. CASE todo' = todo
    BY <2>1, <2>2, <2>3 DEF Waits
  <2>4. CASE todo # <<>> /\ todo' = Tail(todo)
    BY <1>0, <2>1, <2>2, <2>4, TailOf DEF Waits
  <2> QED
    BY <2>1, <2>3, <2>4
<1>2. ASSUME Visit(o), Visited
      PROVE  Waits(o) /\ ~Waits(o)'
  <2>1. phase = "match" /\ todo # <<>> /\ o = Head(todo) /\ todo' = Tail(todo)
    BY <1>2 DEF Visit, Visited
  <2>2. \A i \in 1..Len(todo') : todo'[i] # o
    BY <1>0, <2>1, TailOf
  <2>3. 1 \in 1..Len(todo) /\ todo[1] = o
    BY <1>0, <2>1 DEF EngineOK
  <2> QED
    BY <2>1, <2>2, <2>3 DEF Waits
<1> QED
  BY <1>1, <1>2

\* The queue, when no book is taken over
LEMMA QueueKept ==
  ASSUME Sizes, JumpInv, ~removed', [Next]_vars, ~UpdateMarket
  PROVE  QueueInv'
<1>0. TypeInv /\ LiveInv /\ OrdersOK /\ MarketOK /\ FreshInv /\ VolumeInv
  BY DEF Sizes, Structure, TypeInv, JumpInv
<1>1. /\ OrdersOK' /\ MarketOK'
      /\ \A o \in Order : Effect(o) /\ terms'[o] \in OrderTerms
  BY StructureStep DEF Sizes, Structure, TypeInv, OrdersOK
<1>2. VolumeInv' /\ book' = book /\ volume' = volume /\ traded' = traded
  BY <1>0, VolumeKept
<1> SUFFICES ASSUME NEW o \in Order
             PROVE  Ahead(o, IF Waits(o) THEN Earlier(o) ELSE Flow(o))'
  BY DEF QueueInv
<1>3. /\ Effect(o) /\ ~Voids(o) /\ Flow(o) \in Nat
      /\ phase = "match" =>
           Earlier(o) \in Nat /\ Flow(o) = Earlier(o) + AcceptedFlow(o)
      /\ AcceptedFlow(o) \in Nat
      /\ Ahead(o, IF Waits(o) THEN Earlier(o) ELSE Flow(o))
      /\ terms'[o] \in OrderTerms
  BY <1>0, <1>1, FlowNat, FlowType DEF Voids, JumpInv, QueueInv
<1>4. /\ Waits(o)' => Waits(o)
      /\ Visit(o) /\ Visited => Waits(o) /\ ~Waits(o)'
  BY <1>0, WaitsKept
<1>5. Flow(o)' \in Nat /\ (phase' = "match" => Earlier(o)' \in Nat)
  <2>1. \A x \in Price : /\ book'.volume[x] \in Nat /\ history'[o].base[x] \in Nat
                         /\ traded'[x] \in Nat /\ history'[o].base[x] <= book'.volume[x]
    <3>1. history'[o] \in HistoryType
      BY <1>1 DEF OrdersOK, HistoryType
    <3> QED
      BY <1>1, <1>2, <3>1 DEF MarketOK, Book, HistoryType, VolumeInv
  <2>2. phase' = "match" =>
          \A x \in Price : history'[o].base[x] + traded'[x] <= book'.volume[x]
    BY <1>2 DEF VolumeInv
  <2> DEFINE b == history'[o].base
             v == book'.volume
  <2>3. /\ FlowOf(terms'[o], v, b) \in Nat
        /\ (\A x \in Price : b[x] + traded'[x] <= v[x]) =>
             EarlierOf(terms'[o], v, b, traded') \in Nat
    <3>1. \A x \in Price : v[x] \in Nat /\ b[x] \in Nat /\ traded'[x] \in Nat /\ b[x] <= v[x]
      BY <2>1
    <3> HIDE DEF b, v
    <3> QED
      BY <3>1, FlowSums
  <2> QED
    BY <2>2, <2>3, FlowIs
<1>6. CASE Put(o) \/ Created(o)
  <2>1. PICK f : f = IF Waits(o)' THEN Earlier(o)' ELSE Flow(o)'
    OBVIOUS
  <2>2. f \in Nat
    BY <1>5, <2>1 DEF Waits
  <2>3. Ahead(o, f)'
    BY <1>0, <1>3, <1>6, <2>2, AheadNew
  <2> QED
    BY <2>1, <2>3 DEF Ahead
<1>7. ASSUME Stays(o) \/ AtStart(o)
      PROVE  Flow(o)' = Flow(o) /\ Earlier(o)' = Earlier(o)
  <2>1. history'[o].base = history[o].base /\ SameBet(o)
    BY <1>0, <1>7, AtStartFields DEF Stays, AtStart
  <2>2. {x \in Price : AsGood(terms'[o], x)} = {x \in Price : AsGood(terms[o], x)}
    BY <2>1, SameLeft
  <2> QED
    BY <1>2, <2>1, <2>2 DEF Flow, Earlier
<1>8. CASE Untouched(o) \/ Cut(o) \/ Lapses(o) \/ AtStart(o)
  <2>0. Flow(o)' = Flow(o) /\ Earlier(o)' = Earlier(o)
    BY <1>7, <1>8 DEF Untouched, Cut, Lapses
  <2>1. PICK f : f = IF Waits(o) THEN Earlier(o) ELSE Flow(o)
    OBVIOUS
  <2>2. PICK g : g = IF Waits(o)' THEN Earlier(o) ELSE Flow(o)
    OBVIOUS
  <2>3. f \in Nat /\ g \in Nat /\ f <= g
    BY <1>3, <1>4, <2>1, <2>2 DEF Waits
  <2>4. Ahead(o, f)
    BY <1>3, <2>1
  <2>5. Ahead(o, g)
    BY <1>0, <2>3, <2>4, AheadMono
  <2>6. Ahead(o, g)'
    BY <1>0, <1>8, <2>3, <2>5, AheadKept
  <2> QED
    BY <2>0, <2>2, <2>6 DEF Ahead
<1>9. CASE Fills(o)
  <2>0. /\ Flow(o)' = Flow(o) /\ Waits(o) /\ ~Waits(o)'
        /\ phase = "match"
    BY <1>4, <1>7, <1>9 DEF Fills, Visit
  <2>1. PICK e : e = Earlier(o)
    OBVIOUS
  <2>2. e \in Nat /\ Flow(o) = e + AcceptedFlow(o) /\ Ahead(o, e)
    BY <1>3, <2>0, <2>1
  <2>4. PICK f : f = e + AcceptedFlow(o)
    OBVIOUS
  <2>5. Ahead(o, f)'
    BY <1>0, <1>9, <2>2, <2>4, AheadFills
  <2>6. f = Flow(o)'
    BY <2>0, <2>2, <2>4
  <2>7. Ahead(o, Flow(o))'
    BY <2>5, <2>6 DEF Ahead
  <2>8. Waits(o)' = FALSE
    BY <2>0
  <2> QED
    BY <2>7, <2>8 DEF Ahead
<1> QED
  BY <1>3, <1>6, <1>8, <1>9 DEF Effect

\* A book is taken over: every live order has still to be visited with it.
LEMMA JumpUpdate ==
  ASSUME Sizes, JumpInv, ~removed', UpdateMarket
  PROVE  JumpInv'
<1>0. /\ TypeInv /\ OrdersOK /\ MarketOK /\ EngineOK /\ ~incoming.removed /\ VolumeInv
  BY DEF Sizes, Structure, TypeInv, JumpInv, UpdateMarket
<1>1. /\ book' = incoming /\ incoming' = incoming /\ volume' = incoming.volume
      /\ traded' = TradedSince(incoming) /\ phase = "packages" /\ phase' = "match"
      /\ todo' = live
      /\ UNCHANGED <<sim, history, terms>>
  BY <1>0 DEF UpdateMarket
<1>2. ASSUME NEW x \in Price
      PROVE  /\ book.volume[x] \in Nat /\ incoming.volume[x] \in Nat
             /\ book.volume[x] <= incoming.volume[x]
             /\ traded'[x] = incoming.volume[x] - book.volume[x] /\ traded'[x] \in Nat
             /\ \A o \in Order : /\ history[o].base[x] \in Nat
                                 /\ history[o].base[x] <= book.volume[x]
  <2>1. /\ book.volume[x] \in Nat /\ incoming.volume[x] \in Nat
        /\ book.volume[x] <= incoming.volume[x] /\ volume[x] = book.volume[x]
        /\ \A o \in Order : /\ history[o].base[x] \in Nat
                            /\ history[o].base[x] <= book.volume[x]
    BY <1>0, VolumeTypes DEF VolumeInv
  <2>2. traded'[x] = Most(0, incoming.volume[x] - volume[x])
    BY <1>1 DEF TradedSince
  <2>3. traded'[x] = incoming.volume[x] - book.volume[x] /\ traded'[x] \in Nat
    BY <2>1, <2>2 DEF Most
  <2> QED
    BY <2>1, <2>3
<1>3. ASSUME NEW o \in Order, NEW x \in Price
      PROVE  /\ history[o].base[x] <= incoming.volume[x]
             /\ history[o].base[x] + traded'[x] <= incoming.volume[x]
  <2>1. /\ book.volume[x] \in Nat /\ incoming.volume[x] \in Nat
        /\ book.volume[x] <= incoming.volume[x]
        /\ traded'[x] = incoming.volume[x] - book.volume[x]
        /\ history[o].base[x] \in Nat /\ history[o].base[x] <= book.volume[x]
    BY <1>2
  <2> QED
    BY <2>1
<1>4. VolumeInv'
  <2>1. \A x \in Price : incoming.volume[x] <= incoming.volume[x]
    BY <1>2
  <2> QED
    BY <1>1, <1>3, <2>1 DEF VolumeInv
<1>5. ASSUME NEW o \in Order
      PROVE  Ahead(o, IF Waits(o) THEN Earlier(o) ELSE Flow(o))'
  <2> DEFINE S == {x \in Price : AsGood(terms[o], x)}
             b == history[o].base
             f == [x \in Price |-> book.volume[x] - b[x]]
             e == [x \in Price |-> incoming.volume[x] - b[x] - traded'[x]]
             g == [x \in Price |-> incoming.volume[x] - b[x]]
  <2>1. IsFiniteSet(S) /\ \A x \in S : x \in Price
    BY PricesFinite
  <2>2. ASSUME NEW x \in Price
        PROVE  f[x] \in Nat /\ g[x] \in Nat /\ f[x] <= g[x] /\ e[x] = f[x]
    <3>1. /\ book.volume[x] \in Nat /\ incoming.volume[x] \in Nat
          /\ book.volume[x] <= incoming.volume[x]
          /\ traded'[x] = incoming.volume[x] - book.volume[x]
          /\ b[x] \in Nat /\ b[x] <= book.volume[x]
      BY <1>2
    <3> HIDE DEF b
    <3> QED
      BY <3>1
  <2>3. /\ Flow(o) = Sum(f, S) /\ Earlier(o)' = Sum(e, S) /\ Flow(o)' = Sum(g, S)
    BY <1>1 DEF Flow, Earlier
  <2> HIDE DEF S, f, e, g
  <2>4. Sum(f, S) \in Nat /\ Sum(g, S) \in Nat /\ Sum(f, S) <= Sum(g, S) /\ Sum(e, S) = Sum(f, S)
    BY <2>1, <2>2, SumType, SumMono, SumSame
  <2>5. PICK m, n : m = Sum(f, S) /\ n = Sum(g, S)
    OBVIOUS
  <2>6. Ahead(o, m)
    <3>1. Ahead(o, IF Waits(o) THEN Earlier(o) ELSE Flow(o)) /\ ~Waits(o)
      BY <1>1 DEF JumpInv, QueueInv, Waits
    <3> QED
      BY <2>3, <2>5, <3>1
  <2>7. Ahead(o, n)
    BY <1>0, <2>4, <2>5, <2>6, AheadMono
  <2>8. Ahead(o, m)' /\ Ahead(o, n)'
    BY <1>1, <2>6, <2>7 DEF Ahead
  <2>9. Earlier(o)' = m /\ Flow(o)' = n
    BY <2>3, <2>4, <2>5
  <2> QED
    BY <2>8, <2>9 DEF Ahead
<1> QED
  BY <1>4, <1>5 DEF JumpInv, QueueInv

LEMMA InitJump == Init => JumpInv
<1> SUFFICES ASSUME Init
             PROVE  JumpInv
  OBVIOUS
<1>1. /\ sim = [o \in Order |-> NewSimulated] /\ history = [o \in Order |-> NewHistory]
      /\ book = FirstBook /\ incoming = FirstBook /\ volume = NoVolume /\ phase = "orders"
  BY DEF Init
<1>2. VolumeInv
  <2>1. \A x \in Price : NoVolume[x] = 0
    BY DEF NoVolume
  <2>2. \A o \in Order : history[o].base = NoVolume
    BY <1>1 DEF NewHistory
  <2>3. volume = book.volume /\ book.volume = NoVolume /\ incoming.volume = NoVolume
    BY <1>1, FirstBookFields
  <2> QED
    BY <1>1, <2>1, <2>2, <2>3 DEF VolumeInv
<1>3. ASSUME NEW o \in Order
      PROVE  Ahead(o, IF Waits(o) THEN Earlier(o) ELSE Flow(o))
  <2>1. OrdersOK /\ MarketOK
    BY InitStructure DEF Structure, TypeInv
  <2>2. Flow(o) \in Nat /\ ~Waits(o)
    BY <1>1, <1>2, <2>1, FlowNat DEF Waits
  <2>3. sim[o].matched = 0 /\ sim[o].piq = 0 /\ history[o].taken = 0 /\ history[o].ahead = 0
    BY <1>1, NewFields DEF NewHistory
  <2>4. \A f \in Nat : 0 - 0 <= Most(0, f - 0) /\ 0 - f <= 0
    BY DEF Most
  <2>5. Ahead(o, Flow(o))
    BY <2>2, <2>3, <2>4 DEF Ahead
  <2> QED
    BY <2>2, <2>5
<1> QED
  BY <1>2, <1>3 DEF JumpInv, QueueInv

\* No order jumps its queue: what it is matched, beyond what it took when it was
\* placed and at the starting price, was traded after it was placed, at prices it
\* accepts, and after the volume that was ahead of it (Simulated._piq).
THEOREM NeverJumpsQueueSafe == Spec => [](removed \/ NeverJumpsQueue)
<1>1. Sizes /\ JumpInv => NeverJumpsQueue
  <2> SUFFICES ASSUME Sizes, JumpInv, NEW o \in Known
               PROVE  sim[o].matched - history[o].taken <= Most(0, Flow(o) - history[o].ahead)
    BY DEF NeverJumpsQueue
  <2>1. o \in Order /\ OrdersOK /\ MarketOK /\ VolumeInv
    BY DEF Known, Sizes, Structure, TypeInv, JumpInv
  <2>2. /\ Flow(o) \in Nat
        /\ phase = "match" => Earlier(o) \in Nat /\ Flow(o) = Earlier(o) + AcceptedFlow(o)
        /\ AcceptedFlow(o) \in Nat
    BY <2>1, FlowNat, FlowType
  <2>3. Ahead(o, IF Waits(o) THEN Earlier(o) ELSE Flow(o))
    BY <2>1 DEF JumpInv, QueueInv
  <2>4. Ahead(o, Flow(o))
    <3>1. CASE Waits(o)
      <4>1. /\ Earlier(o) \in Nat /\ Earlier(o) <= Flow(o) /\ Ahead(o, Earlier(o))
        BY <2>2, <2>3, <3>1 DEF Waits
      <4> QED
        BY <2>1, <2>2, <4>1, AheadMono
    <3>2. CASE ~Waits(o)
      BY <2>3, <3>2
    <3> QED
      BY <3>1, <3>2
  <2> QED
    BY <2>4 DEF Ahead
<1>2. Sizes /\ (removed \/ JumpInv) /\ [Next]_vars => (removed \/ JumpInv)'
  <2> SUFFICES ASSUME Sizes, removed \/ JumpInv, [Next]_vars, ~removed'
               PROVE  JumpInv'
    OBVIOUS
  <2>1. JumpInv
    BY RemovedStays DEF Sizes, Structure
  <2>2. CASE UpdateMarket
    BY <2>1, <2>2, JumpUpdate
  <2>3. CASE ~UpdateMarket
    BY <2>1, <2>3, VolumeKept, QueueKept DEF JumpInv
  <2> QED
    BY <2>2, <2>3
<1> QED
  BY <1>1, <1>2, InitJump, SizesAlways, PTL DEF Spec

\* So in a market that removes no runner all of it always holds.
THEOREM WholeSafe ==
  ~Removals =>
    (Spec => [](TypeOK /\ SizeConserved /\ LiabilityBounded /\ NeverJumpsQueue))
<1> SUFFICES ASSUME ~Removals
             PROVE  Spec => [](TypeOK /\ SizeConserved /\ LiabilityBounded /\ NeverJumpsQueue)
  OBVIOUS
<1>1. Sizes => ~removed
  BY Whole
<1> QED
  BY <1>1, SizesAlways, TypeOKSafe, SizeConservedSafe, LiabilityBoundedSafe,
     NeverJumpsQueueSafe, PTL

-----------------------------------------------------------------------------
(* Orders with something left *)

\* Neither reconciled at the starting price nor used up
Open(o) == o \in Known /\ ~sim[o].reconciled /\ Remaining(o) > 0

\* An order with something left is among the live orders, is not complete, and
\* neither is its trade.
OpenInv ==
  \A o \in Order : Open(o) =>
    /\ \E i \in 1..Len(live) : live[i] = o
    /\ status[o] \notin Complete
    /\ tstatus[trade[o]] # "COMPLETE"
\* Only a cancel has a size reduction.
ReductionInv == \A o \in Order : reduction[o] # 0 => status[o] = "CANCELLING"
\* The trade of an order that is not created yet is its own.
TradeInv ==
  \A o \in Order : status[o] = "None" =>
    /\ trade[o] = o /\ tstatus[o] = "LIVE"
    /\ \A u \in Order : trade[u] = o => u = o
\* An order that got the starting price is over, and nothing is pending for it.
StartInv ==
  \A o \in Order : sim[o].reconciled =>
    /\ status[o] = "EXECUTION_COMPLETE"
    /\ \A i \in 1..Len(queue) : queue[i].order # o
\* Nothing has happened to an order that is still to be placed, unless its runner
\* was removed.
PlaceInv ==
  ~removed => \A i \in 1..Len(queue) : queue[i].type = "PLACE" =>
    /\ sim[queue[i].order] = NewSimulated
    /\ terms[queue[i].order].size = Size
WatchInv == OpenInv /\ ReductionInv /\ TradeInv /\ StartInv /\ PlaceInv

\* The order of the package that is executed has no other.
LEMMA DueOnce ==
  ASSUME TypeInv, DueNow # {}, queue' = QueueLeft
  PROVE  /\ \A m \in 1..Len(queue') :
              /\ queue'[m].order # NextDue.order
              /\ \E i \in 1..Len(queue) : queue'[m] = queue[i]
         /\ \E i \in 1..Len(queue) : NextDue = queue[i]
BY OthersLeft, NextDueIs DEF TypeInv, PackageInv

LEMMA VoidedFields ==
  ASSUME OrdersOK, NEW o \in Order
  PROVE  /\ Voided(o).matched = 0 /\ Voided(o).voided = terms[o].size
         /\ Voided(o).cancelled = sim[o].cancelled /\ Voided(o).lapsed = sim[o].lapsed
         /\ Voided(o).reconciled = sim[o].reconciled
<1>1. sim[o] \in Simulated
  BY OrderTypes
<1> QED
  BY <1>1 DEF Voided, Simulated

\* What is used up stays used up: nothing gives an order size again.
LEMMA UsedUp ==
  ASSUME Sizes, StartInv, PlaceInv, [Next]_vars, NEW o \in Known, ~Open(o)
  PROVE  ~Open(o)'
<1>0. /\ TypeInv /\ OrdersOK /\ MarketOK /\ FreshInv /\ StreamInv
      /\ o \in Order /\ status[o] # "None"
      /\ sim[o] \in Simulated /\ Remaining(o) \in Int /\ reduction[o] \in Nat
  <2>1. /\ TypeInv /\ OrdersOK /\ MarketOK /\ FreshInv /\ StreamInv /\ o \in Order
        /\ status[o] # "None"
    BY DEF Sizes, Structure, TypeInv, Known
  <2> QED
    BY <2>1, OrderTypes, SizeNat
<1>1. Effect(o) /\ terms'[o] \in OrderTerms
  BY <1>0, StructureStep DEF Sizes, Structure, TypeInv, OrdersOK
<1>2. sim[o].reconciled \/ Remaining(o) <= 0
  BY <1>0 DEF Open
<1>3. (Remaining(o)' <= 0 \/ sim'[o].reconciled) => ~Open(o)'
  <2> SUFFICES ASSUME Open(o)'
               PROVE  ~(Remaining(o)' <= 0 \/ sim'[o].reconciled)
    OBVIOUS
  <2>1. Remaining(o)' > 0 /\ ~sim'[o].reconciled
    BY DEF Open
  <2>2. Remaining(o)' \in Int
    <3>1. Structure'
      BY StructureStep DEF Sizes
    <3>2. OrdersOK' => Remaining(o)' \in Int
      <4>1. OrdersOK' => sim'[o] \in Simulated
        BY <1>0 DEF OrdersOK
      <4> QED
        BY <1>1, <4>1, LeftType DEF Remaining
    <3> QED
      BY <3>1, <3>2 DEF Structure, TypeInv
  <2> QED
    BY <2>1, <2>2
<1>4. CASE Untouched(o)
  <2>1. SameBet(o) /\ sim'[o] = sim[o]
    BY <1>4 DEF Untouched, Stays
  <2>2. Remaining(o)' = Remaining(o)
    BY <2>1, SameLeft DEF Remaining
  <2> QED
    BY <1>2, <1>3, <2>1, <2>2
<1>5. CASE Created(o)
  BY <1>0, <1>5 DEF Created
<1>6. CASE Put(o)
  <2>1. /\ SameBet(o) /\ DueNow # {} /\ ~raised /\ NextDue.type = "PLACE" /\ NextDue.order = o
        /\ terms'[o].price \in Price
    BY <1>0, <1>6 DEF Put
  <2>2. PICK i \in 1..Len(queue) : NextDue = queue[i]
    BY <1>0, <2>1, NextDueIs DEF TypeInv
  <2>3. PICK v : sim'[o] = Placed(terms'[o], v)
    BY <1>6 DEF Put
  <2>4. Remaining(o)' = Left(terms'[o], sim'[o])
    BY DEF Remaining
  <2>5. ~sim[o].reconciled
    BY <1>0, <2>1, <2>2 DEF StartInv
  <2>6. CASE terms[o].kind # "LIMIT"
    <3>1. Remaining(o)' = 0
      BY <2>1, <2>4, <2>6 DEF Left, SameBet
    <3> QED
      BY <1>3, <3>1
  <2>7. CASE removed
    <3>1. ~PlaceSucceeds(terms'[o], v)
      BY <1>0, <2>7 DEF StreamInv, PlaceSucceeds, Refused
    <3>2. Left(terms'[o], sim'[o]) = 0
      BY <1>0, <1>1, <2>1, <2>3, <3>1, PlacedFields
    <3> QED
      BY <1>3, <2>4, <3>2
  <2>8. CASE terms[o].kind = "LIMIT" /\ ~removed
    <3>1. sim[o] = NewSimulated /\ terms[o].size = Size
      BY <2>1, <2>2, <2>8 DEF PlaceInv
    <3>2. Remaining(o) = Size - 0 - 0 - 0 - 0
      BY <2>8, <3>1, NewFields DEF Remaining, Left
    <3>3. Size \in Nat \ {0}
      BY BoundAssumption
    <3> QED
      BY <1>2, <2>5, <3>2, <3>3
  <2> QED
    BY <2>6, <2>7, <2>8
<1>7. CASE Cut(o)
  <2>1. SameBet(o) /\ DueNow # {} /\ ~raised /\ NextDue.order = o
    BY <1>7 DEF Cut, Stays
  <2>2. PICK i \in 1..Len(queue) : NextDue = queue[i]
    BY <1>0, <2>1, NextDueIs DEF TypeInv
  <2>3. ~sim[o].reconciled
    BY <1>0, <2>1, <2>2 DEF StartInv
  <2>4. Remaining(o) <= 0
    BY <1>2, <2>3
  <2>5. CancelledSize(o) = Remaining(o)
    BY <1>0, <2>4 DEF CancelledSize, Least
  <2>6. Remaining(o)' <= 0
    <3>1. /\ sim'[o].matched = sim[o].matched /\ sim'[o].lapsed = sim[o].lapsed
          /\ sim'[o].voided = sim[o].voided
          /\ sim'[o].cancelled = sim[o].cancelled + Remaining(o)
      BY <1>0, <1>7, <2>5, CutFields
    <3>2. Remaining(o)' = Left(terms[o], sim'[o])
      BY <2>1, SameLeft
    <3>3. /\ terms[o].size \in Int /\ sim[o].matched \in Int /\ sim[o].cancelled \in Int
          /\ sim[o].lapsed \in Int /\ sim[o].voided \in Int
      BY <1>0, OrderTypes, SimFields
    <3>4. CASE terms[o].kind = "LIMIT"
      <4>1. Remaining(o) = terms[o].size - sim[o].matched - sim[o].cancelled
                           - sim[o].lapsed - sim[o].voided
        BY <3>4 DEF Remaining, Left
      <4>2. Left(terms[o], sim'[o]) =
              terms[o].size - sim[o].matched - (sim[o].cancelled + Remaining(o))
              - sim[o].lapsed - sim[o].voided
        BY <3>1, <3>4 DEF Left
      <4>3. Left(terms[o], sim'[o]) = 0
        <5> HIDE DEF Remaining, Left
        <5> QED
          BY <3>3, <4>1, <4>2
      <4> QED
        BY <3>2, <4>3
    <3>5. CASE terms[o].kind # "LIMIT"
      BY <3>2, <3>5 DEF Left
    <3> QED
      BY <3>4, <3>5
  <2> QED
    BY <1>3, <2>6
<1>8. CASE AtStart(o)
  BY <1>0, <1>3, <1>8, AtStartFields
<1>9. CASE Lapses(o) \/ Fills(o)
  <2>1. Matchable(o) /\ SameBet(o) /\ Remaining(o) # 0
    BY <1>9 DEF Lapses, Fills, Stays
  <2>2. ~sim[o].reconciled
    BY <1>0, <2>1 DEF StartInv, Matchable
  <2>3. Remaining(o) <= 0 /\ Remaining(o)' = Left(terms[o], sim'[o])
    BY <1>2, <2>1, <2>2, SameLeft
  <2>4. /\ terms[o].size \in Int /\ sim[o].matched \in Int /\ sim[o].cancelled \in Int
        /\ sim[o].lapsed \in Int /\ sim[o].voided \in Int
    BY <1>0, OrderTypes, SimFields
  <2>5. CASE Lapses(o)
    <3>1. /\ sim'[o].matched = sim[o].matched /\ sim'[o].cancelled = sim[o].cancelled
          /\ sim'[o].voided = sim[o].voided
          /\ sim'[o].lapsed = sim[o].lapsed + Remaining(o)
      BY <1>0, <2>5, LapsesFields
    <3>2. Remaining(o)' <= 0
      BY <1>0, <2>3, <2>4, <3>1 DEF Remaining, Left
    <3> QED
      BY <1>3, <3>2
  <2>6. CASE Fills(o)
    <3> DEFINE n == FillSize(o, AcceptedFlow(o))
    <3>1. /\ sim'[o].matched = sim[o].matched + n /\ sim'[o].cancelled = sim[o].cancelled
          /\ sim'[o].voided = sim[o].voided /\ sim'[o].lapsed = sim[o].lapsed
      BY <1>0, <2>6, FillsFields
    <3>2. n = 0 \/ n = Remaining(o)
      <4>1. AcceptedFlow(o) \in Nat /\ sim[o].piq \in Nat
        BY <1>0, FlowType, SimFields
      <4> QED
        BY <1>0, <2>3, <4>1 DEF FillSize, Least
    <3> HIDE DEF n
    <3>3. Remaining(o)' <= 0
      BY <1>0, <2>3, <2>4, <3>1, <3>2 DEF Remaining, Left
    <3> QED
      BY <1>3, <3>3
  <2> QED
    BY <1>9, <2>5, <2>6
<1>10. CASE Voids(o)
  <2>1. SameBet(o) /\ ~removed /\ sim'[o] = Voided(o)
    BY <1>10 DEF Voids, Stays
  <2>2. Sized(o)
    BY <1>0, <2>1 DEF Sizes, SizeInv
  <2>3. /\ sim'[o].matched = 0 /\ sim'[o].voided = terms[o].size
        /\ sim'[o].cancelled = sim[o].cancelled /\ sim'[o].lapsed = sim[o].lapsed
        /\ sim'[o].reconciled = sim[o].reconciled
    BY <1>0, <2>1, VoidedFields
  <2>4. CASE sim[o].reconciled
    BY <1>3, <2>3, <2>4
  <2>5. CASE ~sim[o].reconciled
    <3>1. /\ sim[o].cancelled \in Nat /\ sim[o].lapsed \in Nat /\ terms[o].size \in Int
      BY <1>0, <2>2, <2>5, OrderTypes DEF Sized
    <3>2. Remaining(o)' = Left(terms[o], sim'[o])
      BY <2>1, SameLeft
    <3>3. Remaining(o)' <= 0
      BY <2>3, <3>1, <3>2 DEF Left
    <3> QED
      BY <1>3, <3>3
  <2> QED
    BY <2>4, <2>5
<1> QED
  BY <1>1, <1>4, <1>5, <1>6, <1>7, <1>8, <1>9, <1>10 DEF Effect

-----------------------------------------------------------------------------
(* What a step does to statuses, trades and live orders *)

\* An order leaves the live orders only with its trade complete,
Watches(o) ==
  o \in Known' =>
    \/ \E i \in 1..Len(live') : live'[i] = o
    \/ o \in Known /\ \A i \in 1..Len(live) : live[i] # o
    \/ tstatus'[trade'[o]] = "COMPLETE"
\* which takes all the orders of the trade,
Completes(o) ==
  o \in Known' /\ tstatus'[trade'[o]] = "COMPLETE" =>
    \/ status'[o] \in Complete
    \/ o \in Known /\ tstatus[trade[o]] = "COMPLETE"
\* and they are complete only when nothing is left of them.
Finishes(o) ==
  status'[o] \in Complete => (o \in Known /\ status[o] \in Complete) \/ ~Open(o)'
Reduces(o) ==
  \/ reduction'[o] = 0 \/ status'[o] = "CANCELLING"
  \/ reduction'[o] = reduction[o] /\ (status'[o] = status[o] \/ status[o] # "CANCELLING")
\* Only trades of known orders change, and replacements join them.
Trades(o) ==
  status'[o] = "None" =>
    /\ trade'[o] = trade[o]
    /\ \A u \in Order : trade'[u] = trade[u] \/ \E w \in Known : trade'[u] = trade[w]
    /\ tstatus'[o] = tstatus[o] \/ \E w \in Known : trade[w] = o
\* A status changes because of a package, if the order is not executable.
Answers(o) ==
  \/ status'[o] \in {status[o], "EXECUTION_COMPLETE"}
  \/ status[o] \in {"None", "EXECUTABLE"}
  \/ \E i \in 1..Len(queue) : queue[i].order = o
Turn(o) ==
  Watches(o) /\ Completes(o) /\ Finishes(o) /\ Reduces(o) /\ Trades(o) /\ Answers(o)

\* Packages stay what they are, and new ones are for executable or new orders.
Queued ==
  \A m \in 1..Len(queue') :
    \/ \E i \in 1..Len(queue) :
         queue'[m].order = queue[i].order /\ queue'[m].type = queue[i].type
    \/ status[queue'[m].order] = "EXECUTABLE" /\ queue'[m].type # "PLACE"
    \/ status[queue'[m].order] = "None" /\ Created(queue'[m].order)

LEMMA TurnQuiet ==
  ASSUME TypeInv, UNCHANGED <<status, tstatus, trade, live, reduction>>
  PROVE  \A o \in Order : Turn(o)
<1> SUFFICES ASSUME NEW o \in Order
             PROVE  Turn(o)
  OBVIOUS
<1>1. Watches(o) /\ Completes(o)
  BY DEF Watches, Completes, Known
<1>2. Finishes(o)
  BY DEF Finishes, Complete, Known
<1>3. Reduces(o) /\ Trades(o) /\ Answers(o)
  BY DEF Reduces, Trades, Answers
<1> QED
  BY <1>1, <1>2, <1>3 DEF Turn

\* One order moves, and its trade with it.
LEMMA TurnOne ==
  ASSUME TypeInv, NEW d \in Known,
         trade' = trade,
         live' = live \/ (live' = Without(live, d) /\ tstatus'[trade[d]] = "COMPLETE"),
         \A o \in Order \ {d} : status'[o] = status[o] /\ reduction'[o] = reduction[o],
         status'[d] \notin {"None", "New"}, Reduces(d), Finishes(d), Answers(d),
         \A t \in Order : \/ tstatus'[t] = tstatus[t]
                          \/ /\ t = trade[d]
                             /\ tstatus'[t] = "COMPLETE" => AllComplete(t, status')
  PROVE  \A o \in Order : Turn(o)
<1> SUFFICES ASSUME NEW o \in Order
             PROVE  Turn(o)
  OBVIOUS
<1>0. d \in Order /\ trade[o] \in Order /\ live \in Seq(Order)
  BY OrderStates DEF Known, TypeInv, EngineOK
<1>1. o \in Known' <=> o \in Known
  BY <1>0 DEF Known
<1>2. Watches(o)
  <2>1. CASE live' = live
    BY <1>1, <2>1 DEF Watches
  <2>2. CASE live' = Without(live, d) /\ tstatus'[trade[d]] = "COMPLETE"
    <3>1. CASE o = d
      BY <2>2, <3>1 DEF Watches
    <3>2. CASE o # d
      <4>1. ASSUME NEW i \in 1..Len(live), live[i] = o
            PROVE  \E n \in 1..Len(live') : live'[n] = o
        <5>1. live[i] # d
          BY <3>2, <4>1
        <5>2. \E n \in 1..Len(Without(live, d)) : Without(live, d)[n] = live[i]
          BY ONLY <1>0, <4>1, <5>1, WithoutKeeps
        <5> QED
          BY <2>2, <4>1, <5>2
      <4> QED
        BY <1>1, <4>1 DEF Watches
    <3> QED
      BY <3>1, <3>2
  <2> QED
    BY <2>1, <2>2
<1>3. Completes(o)
  <2>1. CASE tstatus'[trade[o]] = tstatus[trade[o]]
    BY <1>1, <2>1 DEF Completes
  <2>2. CASE tstatus'[trade[o]] = "COMPLETE" /\ AllComplete(trade[o], status')
    <3>1. o \in Known' => status'[o] # "None"
      BY DEF Known
    <3> QED
      BY <2>2, <3>1 DEF Completes, AllComplete
  <2>3. CASE tstatus'[trade[o]] # "COMPLETE"
    BY <2>3 DEF Completes
  <2> QED
    BY <1>0, <2>1, <2>2, <2>3
<1>4. Finishes(o) /\ Reduces(o) /\ Answers(o)
  <2>1. CASE o = d
    BY <2>1
  <2>2. CASE o # d
    <3>1. status'[o] = status[o] /\ reduction'[o] = reduction[o]
      BY <2>2
    <3> QED
      BY <3>1 DEF Finishes, Reduces, Answers, Complete, Known
  <2> QED
    BY <2>1, <2>2
<1>5. Trades(o)
  BY DEF Trades
<1> QED
  BY <1>2, <1>3, <1>4, <1>5 DEF Turn

\* One order moves, and a replacement joins its trade.
LEMMA TurnTwo ==
  ASSUME TypeInv, NEW d \in Known, NEW n \in Order, status[n] = "None",
         trade' = [trade EXCEPT ![n] = trade[d]],
         \A i \in 1..Len(live) : \E m \in 1..Len(live') : live'[m] = live[i],
         \/ status'[n] = "New"
         \/ status'[n] = "EXECUTABLE" /\ \E m \in 1..Len(live') : live'[m] = n,
         \A o \in Order \ {d, n} : status'[o] = status[o],
         \A o \in Order \ {d} : reduction'[o] = reduction[o],
         status'[d] \notin {"None", "New"}, Reduces(d), Finishes(d), Answers(d),
         \A t \in Order \ {trade[d]} : tstatus'[t] = tstatus[t],
         tstatus'[trade[d]] = "COMPLETE" => AllComplete(trade[d], status')
  PROVE  \A o \in Order : Turn(o)
<1> SUFFICES ASSUME NEW o \in Order
             PROVE  Turn(o)
  OBVIOUS
<1>0. /\ d \in Order /\ d # n /\ trade[o] \in Order /\ live \in Seq(Order)
      /\ trade \in [Order -> Order]
  BY OrderStates DEF Known, TypeInv, EngineOK, OrdersOK
<1>1. o # n => (o \in Known' <=> o \in Known)
  BY <1>0 DEF Known
<1>2. Watches(o)
  <2>1. CASE o = n
    BY <2>1 DEF Watches, Known
  <2>2. CASE o # n
    BY <1>1, <2>2 DEF Watches
  <2> QED
    BY <2>1, <2>2
<1>3. Completes(o)
  <2>1. o \in Known' => status'[o] # "None"
    BY DEF Known
  <2>2. CASE trade'[o] = trade[d]
    BY <2>1, <2>2 DEF Completes, AllComplete
  <2>3. CASE trade'[o] # trade[d]
    <3>1. o # n /\ trade'[o] = trade[o] /\ tstatus'[trade[o]] = tstatus[trade[o]]
      BY <1>0, <2>3
    <3> QED
      BY <1>1, <3>1 DEF Completes
  <2> QED
    BY <2>2, <2>3
<1>4. Finishes(o) /\ Reduces(o) /\ Answers(o)
  <2>1. CASE o = d
    BY <2>1
  <2>2. CASE o = n
    BY <1>0, <2>2 DEF Finishes, Reduces, Answers, Complete
  <2>3. CASE o # d /\ o # n
    <3>1. status'[o] = status[o] /\ reduction'[o] = reduction[o]
      BY <2>3
    <3> QED
      BY <3>1 DEF Finishes, Reduces, Answers, Complete, Known
  <2> QED
    BY <2>1, <2>2, <2>3
<1>5. Trades(o)
  <2> SUFFICES ASSUME status'[o] = "None"
               PROVE  /\ trade'[o] = trade[o]
                      /\ \A u \in Order : trade'[u] = trade[u] \/ \E w \in Known : trade'[u] = trade[w]
                      /\ tstatus'[o] = tstatus[o] \/ \E w \in Known : trade[w] = o
    BY DEF Trades
  <2>1. trade'[o] = trade[o]
    BY <1>0
  <2>2. \A u \in Order : trade'[u] = trade[u] \/ trade'[u] = trade[d]
    BY <1>0
  <2> QED
    BY <2>1, <2>2
<1> QED
  BY <1>2, <1>3, <1>4, <1>5 DEF Turn

\* The packages of an unchanged queue, of one that ages, of one that loses a package
LEMMA QueuedKept ==
  ASSUME TypeInv,
         \/ queue' = queue
         \/ DueNow # {} /\ queue' = QueueLeft
         \/ NextBook
  PROVE  Queued
<1>1. CASE queue' = queue
  BY <1>1 DEF Queued
<1>2. CASE DueNow # {} /\ queue' = QueueLeft
  BY <1>2, DueOnce DEF Queued
<1>3. CASE NextBook
  BY <1>3, NextBookType DEF Queued
<1> QED
  BY <1>1, <1>2, <1>3

LEMMA QueuedSent ==
  ASSUME TypeInv, NEW o \in Order, NEW type, NEW v, Send(o, type, v),
         (status[o] = "EXECUTABLE" /\ type # "PLACE") \/ (status[o] = "None" /\ Created(o))
  PROVE  Queued
<1>1. PICK p : /\ p = [type |-> type, order |-> o, age |-> 0, version |-> v]
               /\ queue' = Append(queue, p)
  BY DEF Send
<1>2. /\ Len(queue) \in Nat /\ Len(queue') = Len(queue) + 1
      /\ \A i \in 1..Len(queue) : queue'[i] = queue[i]
      /\ queue'[Len(queue) + 1] = p
  BY <1>1 DEF TypeInv, EngineOK
<1>3. p.order = o /\ p.type = type
  BY <1>1
<1>4. \A i \in 1..Len(queue') : i \in 1..Len(queue) \/ i = Len(queue) + 1
  BY <1>2
<1> QED
  BY <1>2, <1>3, <1>4 DEF Queued

LEMMA BooksTurn ==
  ASSUME Structure, NextBook \/ CloseMarket \/ UpdateMarket \/ EndMatching \/ FailInstruction
                    \/ UNCHANGED vars
  PROVE  Queued /\ \A o \in Order : Turn(o)
<1>1. TypeInv
  BY DEF Structure
<1>2. UNCHANGED <<status, tstatus, trade, live, reduction>>
  BY DEF NextBook, CloseMarket, UpdateMarket, EndMatching, FailInstruction, vars, orderVars
<1>3. queue' = queue \/ NextBook
  BY DEF CloseMarket, UpdateMarket, EndMatching, FailInstruction, Executing, vars, engineVars
<1> QED
  BY <1>1, <1>2, <1>3, TurnQuiet, QueuedKept

\* Simulated.__call__
LEMMA VisitsTurn ==
  ASSUME Structure, NEW o \in Order,
         PassOrder(o) \/ NoSP(o) \/ Lapse(o) \/ MatchTraded(o) \/ MatchAtSP(o)
  PROVE  Queued /\ \A u \in Order : Turn(u)
<1>0. TypeInv /\ EngineOK /\ LiveInv /\ DOMAIN status = Order
  BY DEF Structure, TypeInv, OrdersOK
<1>1. Visit(o) /\ Visited /\ queue' = queue /\ trade' = trade /\ live' = live
  BY DEF PassOrder, NoSP, Lapse, MatchTraded, MatchAtSP, Visited
<1>2. o \in Known
  BY <1>0, <1>1, TailOf DEF Visit
<1>3. Queued
  BY <1>0, <1>1, QueuedKept
<1>4. CASE PassOrder(o) \/ NoSP(o) \/ Lapse(o) \/ MatchTraded(o)
  <2>1. UNCHANGED <<status, tstatus, reduction>>
    BY <1>4 DEF PassOrder, NoSP, Lapse, MatchTraded
  <2> QED
    BY <1>0, <1>1, <1>3, <2>1, TurnQuiet
<1>5. CASE MatchAtSP(o)
  <2>1. /\ UpdateStatus(o, "EXECUTION_COMPLETE") /\ ClearData(o) /\ Matchable(o)
    BY <1>5 DEF MatchAtSP
  <2>2. /\ status'[o] = "EXECUTION_COMPLETE"
        /\ \A u \in Order \ {o} : status'[u] = status[u]
    BY <1>0, <2>1 DEF UpdateStatus
  <2>3. reduction'[o] = 0 /\ \A u \in Order \ {o} : reduction'[u] = reduction[u]
    BY <1>0, <2>1 DEF ClearData, TypeInv, OrdersOK
  <2>4. \A t \in Order : \/ tstatus'[t] = tstatus[t]
                         \/ /\ t = trade[o]
                            /\ tstatus'[t] = "COMPLETE" => AllComplete(t, status')
    BY <1>0, <2>1 DEF UpdateStatus, TypeInv, OrdersOK
  <2>5. ~Open(o)'
    <3>1. sim'[o] = Reconciled(o)
      BY <1>0, <1>5 DEF MatchAtSP, TypeInv, OrdersOK
    <3>2. AtStart(o)
      BY <1>0, <1>5, MatchAtSPType
    <3>3. sim'[o].reconciled = TRUE
      BY <1>0, <3>2, AtStartFields
    <3> QED
      BY <3>3 DEF Open
  <2>6. Finishes(o) /\ Reduces(o) /\ Answers(o)
    BY <2>1, <2>2, <2>3, <2>5 DEF Finishes, Reduces, Answers
  <2>7. \A u \in Order : Turn(u)
    BY <1>0, <1>1, <1>2, <2>2, <2>3, <2>4, <2>6, TurnOne
  <2> QED
    BY <1>3, <2>7
<1> QED
  BY <1>4, <1>5

\* FlumineBacktest._process_backtest_orders
LEMMA ProcessTurn ==
  ASSUME Structure, NEW o \in Order, ProcessOrder(o)
  PROVE  Queued /\ \A u \in Order : Turn(u)
<1>0. TypeInv /\ EngineOK /\ LiveInv /\ DOMAIN status = Order
  BY DEF Structure, TypeInv, OrdersOK
<1>1. /\ queue' = queue /\ trade' = trade /\ todo # <<>> /\ o = Head(todo)
      /\ UNCHANGED <<terms, sim>>
      /\ live' = IF Leaves(o) THEN Without(live, o) ELSE live
  BY DEF ProcessOrder
<1>2. o \in Known
  BY <1>0, <1>1, TailOf
<1>3. live' = live \/ (live' = Without(live, o) /\ tstatus'[trade[o]] = "COMPLETE")
  BY <1>1 DEF Leaves
<1>4. CASE Done(o)
  <2>1. UpdateStatus(o, "EXECUTION_COMPLETE") /\ ClearData(o)
    BY <1>4 DEF ProcessOrder
  <2>2. /\ status'[o] = "EXECUTION_COMPLETE"
        /\ \A u \in Order \ {o} : status'[u] = status[u]
    BY <1>0, <2>1 DEF UpdateStatus
  <2>3. reduction'[o] = 0 /\ \A u \in Order \ {o} : reduction'[u] = reduction[u]
    BY <1>0, <2>1 DEF ClearData, TypeInv, OrdersOK
  <2>4. \A t \in Order : \/ tstatus'[t] = tstatus[t]
                         \/ /\ t = trade[o]
                            /\ tstatus'[t] = "COMPLETE" => AllComplete(t, status')
    BY <1>0, <2>1 DEF UpdateStatus, TypeInv, OrdersOK
  <2>5. ~Open(o)'
    <3>1. Remaining(o)' = Remaining(o)
      BY <1>1 DEF Remaining
    <3>2. Remaining(o) = 0 \/ sim[o].reconciled
      BY <1>4 DEF Done
    <3> QED
      BY <1>1, <3>1, <3>2 DEF Open
  <2>6. Finishes(o) /\ Reduces(o) /\ Answers(o)
    BY <2>2, <2>3, <2>5 DEF Finishes, Reduces, Answers
  <2>7. \A u \in Order : Turn(u)
    BY <1>0, <1>1, <1>2, <1>3, <2>2, <2>3, <2>4, <2>6, TurnOne
  <2> QED
    BY <1>0, <1>1, <2>7, QueuedKept
<1>5. CASE ~Done(o)
  <2>1. UNCHANGED <<status, tstatus, reduction>>
    BY <1>5 DEF ProcessOrder
  <2>2. Finishes(o) /\ Reduces(o) /\ Answers(o)
    BY <1>2, <2>1 DEF Finishes, Reduces, Answers
  <2>3. status'[o] \notin {"None", "New"}
    BY <1>2, <2>1 DEF Known
  <2>4. \A u \in Order : Turn(u)
    BY <1>0, <1>1, <1>2, <1>3, <2>1, <2>2, <2>3, TurnOne
  <2> QED
    BY <1>0, <1>1, <2>4, QueuedKept
<1> QED
  BY <1>4, <1>5

\* SimulatedExecution.execute_place, execute_cancel and execute_update
LEMMA ExecutesTurn ==
  ASSUME Structure, ExecutePlace \/ ExecuteCancel \/ ExecuteUpdate
  PROVE  Queued /\ \A u \in Order : Turn(u)
<1>10. PICK d : d = NextDue.order
  OBVIOUS
<1>0. TypeInv /\ OrdersOK /\ MarketOK /\ EngineOK /\ DOMAIN status = Order
  BY DEF Structure, TypeInv, OrdersOK
<1>1. /\ DueNow # {} /\ queue' = QueueLeft /\ trade' = trade /\ live' = live /\ ~raised
      /\ ExitTrade(trade[d]) /\ ClearData(d) /\ terms' = terms
  BY <1>10 DEF ExecutePlace, ExecuteCancel, ExecuteUpdate, Executing
<1>2. /\ d \in Known /\ d \in Order /\ terms[d] \in OrderTerms /\ terms[d].price \in Price
      /\ trade[d] \in Order
  BY <1>0, <1>1, <1>10, DueOrder, OrderStates
<1>3. Queued
  BY <1>0, <1>1, QueuedKept
<1>4. Answers(d)
  BY <1>0, <1>1, <1>10, DueOnce DEF Answers
<1>5. /\ reduction'[d] = 0 /\ \A u \in Order \ {d} : reduction'[u] = reduction[u]
  BY <1>0, <1>1, <1>2 DEF ClearData, OrdersOK
<1>6. \A t \in Order : \/ tstatus'[t] = tstatus[t]
                       \/ /\ t = trade[d]
                          /\ tstatus'[t] = "COMPLETE" => AllComplete(t, status')
  BY <1>0, <1>1 DEF ExitTrade, OrdersOK
<1>7. /\ \A u \in Order \ {d} : status'[u] = status[u]
      /\ \/ status'[d] = "EXECUTABLE"
         \/ status'[d] = "EXECUTION_COMPLETE" /\ Remaining(d)' = 0
  <2>1. CASE ExecutePlace
    <3>1. PICK v, s : /\ s = Placed(terms[d], v) /\ sim' = [sim EXCEPT ![d] = s]
                      /\ status' = [status EXCEPT ![d] =
                           IF PlaceSucceeds(terms[d], v) THEN "EXECUTABLE"
                                                         ELSE "EXECUTION_COMPLETE"]
      BY <1>10, <2>1 DEF ExecutePlace
    <3>2. sim'[d] = s /\ Remaining(d)' = Left(terms[d], sim'[d])
      BY <1>0, <1>1, <1>2, <3>1 DEF OrdersOK, Remaining
    <3>3. ~PlaceSucceeds(terms[d], v) => Left(terms[d], s) = 0
      BY <1>0, <1>2, <3>1, PlacedFields
    <3> QED
      BY <1>0, <1>2, <3>1, <3>2, <3>3
  <2>2. CASE ExecuteCancel
    <3>1. PICK left : /\ left = Left(terms[d], sim'[d])
                      /\ status' = [status EXCEPT ![d] = AfterCancel(d, left)]
      BY <1>10, <2>2 DEF ExecuteCancel
    <3>2. Remaining(d)' = left
      BY <1>1, <3>1 DEF Remaining
    <3> QED
      BY <1>0, <1>2, <3>1, <3>2 DEF AfterCancel
  <2>3. CASE ExecuteUpdate
    <3>1. status' = [status EXCEPT ![d] = "EXECUTABLE"]
      BY <1>10, <2>3 DEF ExecuteUpdate
    <3> QED
      BY <1>0, <1>2, <3>1
  <2> QED
    BY <2>1, <2>2, <2>3
<1>8. Finishes(d) /\ Reduces(d) /\ status'[d] \notin {"None", "New"}
  <2>1. Remaining(d)' = 0 => ~Open(d)'
    BY DEF Open
  <2> QED
    BY <1>5, <1>7, <2>1 DEF Finishes, Reduces, Complete
<1>9. \A u \in Order : Turn(u)
  BY <1>0, <1>1, <1>2, <1>4, <1>5, <1>6, <1>7, <1>8, TurnOne
<1> QED
  BY <1>3, <1>9

\* SimulatedExecution.execute_replace
LEMMA ReplacesTurn ==
  ASSUME Structure, ReductionInv, ExecuteReplace \/ FailReplace
  PROVE  Queued /\ \A u \in Order : Turn(u)
<1>10. PICK d, n : d = NextDue.order /\ n = Fresh(Unused)
  OBVIOUS
<1>0. TypeInv /\ OrdersOK /\ MarketOK /\ EngineOK /\ DOMAIN status = Order /\ DOMAIN sim = Order
  BY DEF Structure, TypeInv, OrdersOK
<1>1. /\ DueNow # {} /\ ~raised /\ NextDue.type = "REPLACE" /\ Unused # {}
      /\ queue' \in {QueueLeft, queue} /\ trade' = [trade EXCEPT ![n] = trade[d]]
      /\ ClearData(d)
  BY <1>10 DEF ExecuteReplace, FailReplace, Executing
<1>2. /\ d \in Known /\ d \in Order /\ n \in Order /\ status[n] = "None" /\ n # d
      /\ trade[d] \in Order
  BY <1>0, <1>1, <1>10, DueOrder, FreshOrder, OrderStates DEF Known
<1>3. Queued
  BY <1>0, <1>1, QueuedKept
<1>4. Answers(d)
  BY <1>0, <1>1, <1>10, NextDueIs DEF Answers
<1>5. status[d] \in {"REPLACING", "EXECUTION_COMPLETE"}
  <2>1. status[d] \in {Asking[NextDue.type], "EXECUTION_COMPLETE"}
    BY <1>0, <1>1, <1>10, DueOrder
  <2> QED
    BY <1>1, <2>1 DEF Asking
<1>6. reduction[d] = 0
  BY <1>2, <1>5 DEF ReductionInv
<1>7. /\ reduction'[d] = 0 /\ \A u \in Order \ {d} : reduction'[u] = reduction[u]
  BY <1>0, <1>1, <1>2 DEF ClearData, OrdersOK
<1>8. CASE ExecuteReplace
  <2>0. PICK new, s, ok :
          /\ new = [terms[d] EXCEPT !.price = newPrice[d], !.size = CancelledSize(d)]
          /\ s = Placed(new, NextDue.version) /\ ok = PlaceSucceeds(new, NextDue.version)
    OBVIOUS
  <2>1. /\ ok \in BOOLEAN
        /\ sim' = [sim EXCEPT ![d].cancelled = @ + CancelledSize(d), ![n] = s]
        /\ live' = IF ok THEN Append(live, n) ELSE live
        /\ status' = IF ok THEN [status EXCEPT ![d] = "EXECUTION_COMPLETE",
                                               ![n] = "EXECUTABLE"]
                           ELSE [status EXCEPT ![d] = "EXECUTABLE", ![n] = "New"]
    <3>1. ok \in BOOLEAN
      BY <2>0 DEF PlaceSucceeds
    <3> QED
      BY <1>8, <1>10, <2>0, <3>1 DEF ExecuteReplace
  <2>2. ExitTrade(trade[d])
    BY <1>8, <1>10 DEF ExecuteReplace
  <2>3. /\ \A u \in Order \ {d, n} : status'[u] = status[u]
        /\ status'[d] \in {"EXECUTION_COMPLETE", "EXECUTABLE"}
        /\ status'[n] = "New" \/ (status'[n] = "EXECUTABLE" /\ live' = Append(live, n))
        /\ live' \in {live, Append(live, n)}
    BY <1>0, <1>2, <2>1
  <2>4. /\ Len(live) \in Nat /\ Len(Append(live, n)) = Len(live) + 1
        /\ \A i \in 1..Len(live) : Append(live, n)[i] = live[i]
        /\ Append(live, n)[Len(live) + 1] = n
    BY <1>0, <1>2 DEF EngineOK
  <2>5. \A i \in 1..Len(live) : \E m \in 1..Len(live') : live'[m] = live[i]
    <3>1. CASE live' = live
      BY <3>1
    <3>2. CASE live' = Append(live, n)
      BY <2>4, <3>2
    <3> QED
      BY <2>3, <3>1, <3>2
  <2>6. status'[n] = "EXECUTABLE" => \E m \in 1..Len(live') : live'[m] = n
    <3> SUFFICES ASSUME status'[n] = "EXECUTABLE"
                 PROVE  \E m \in 1..Len(live') : live'[m] = n
      OBVIOUS
    <3>1. live' = Append(live, n)
      BY <2>3
    <3>2. Len(live) + 1 \in 1..Len(Append(live, n))
      BY <2>4
    <3> QED
      BY <2>4, <3>1, <3>2
  <2>7. ~Open(d)'
    <3>1. Effect(d)
      BY StructureStep, <1>2, <1>8 DEF Next, Engine
    <3>2. sim[d] \in Simulated /\ Remaining(d) \in Int
      BY <1>0, <1>2, OrderTypes
    <3>3. sim'[d] = [sim[d] EXCEPT !.cancelled = @ + Remaining(d)]
      <4>1. CancelledSize(d) = Remaining(d)
        BY <1>6 DEF CancelledSize
      <4>2. sim'[d] = [sim[d] EXCEPT !.cancelled = @ + CancelledSize(d)]
        BY <1>0, <1>2, <2>1
      <4> QED
        BY <4>1, <4>2
    <3>4. /\ sim'[d].matched = sim[d].matched /\ sim'[d].lapsed = sim[d].lapsed
          /\ sim'[d].voided = sim[d].voided
          /\ sim'[d].cancelled = sim[d].cancelled + Remaining(d)
      <4> DEFINE r == Remaining(d)
      <4>1. sim'[d] = [sim[d] EXCEPT !.cancelled = @ + r]
        BY <3>3
      <4> HIDE DEF r
      <4>2. /\ sim'[d].matched = sim[d].matched /\ sim'[d].lapsed = sim[d].lapsed
            /\ sim'[d].voided = sim[d].voided
            /\ sim'[d].cancelled = sim[d].cancelled + r
        BY <3>2, <4>1 DEF Simulated
      <4> QED
        BY <4>2 DEF r
    <3>5. terms'[d] = terms[d]
      <4>1. \E t : terms' = [terms EXCEPT ![n] = t]
        BY <1>8, <1>10 DEF ExecuteReplace
      <4> QED
        BY <1>0, <1>2, <4>1 DEF OrdersOK
    <3>6. /\ terms[d].size \in Int /\ sim[d].matched \in Int /\ sim[d].cancelled \in Int
          /\ sim[d].lapsed \in Int /\ sim[d].voided \in Int
      BY <1>0, <1>2, <3>2, OrderTypes, SimFields
    <3>7. Remaining(d)' = Left(terms[d], sim'[d])
      BY <3>5 DEF Remaining
    <3>8. Remaining(d)' = 0
      BY <3>2, <3>4, <3>6, <3>7 DEF Remaining, Left
    <3> QED
      BY <3>8 DEF Open
  <2>8. Finishes(d) /\ Reduces(d) /\ status'[d] \notin {"None", "New"}
    BY <1>7, <2>3, <2>7 DEF Finishes, Reduces
  <2>9. /\ \A t \in Order \ {trade[d]} : tstatus'[t] = tstatus[t]
        /\ tstatus'[trade[d]] = "COMPLETE" => AllComplete(trade[d], status')
    BY <1>0, <1>2, <2>2 DEF ExitTrade, OrdersOK
  <2> QED
    BY <1>0, <1>1, <1>2, <1>3, <1>4, <1>7, <2>3, <2>5, <2>6, <2>8, <2>9, TurnTwo
<1>9. CASE FailReplace
  <2>1. /\ live' = live
        /\ status' = [status EXCEPT ![d] = "EXECUTABLE", ![n] = "New"]
        /\ tstatus' = [tstatus EXCEPT ![trade[d]] = "PENDING"]
    BY <1>9, <1>10 DEF FailReplace
  <2>2. /\ \A u \in Order \ {d, n} : status'[u] = status[u]
        /\ status'[d] = "EXECUTABLE" /\ status'[n] = "New"
    BY <1>0, <1>2, <2>1
  <2>3. Finishes(d) /\ Reduces(d) /\ status'[d] \notin {"None", "New"}
    BY <1>7, <2>2 DEF Finishes, Reduces, Complete
  <2>4. /\ \A t \in Order \ {trade[d]} : tstatus'[t] = tstatus[t]
        /\ tstatus'[trade[d]] # "COMPLETE"
    BY <1>0, <1>2, <2>1 DEF OrdersOK
  <2> QED
    BY <1>0, <1>1, <1>2, <1>3, <1>4, <1>7, <2>1, <2>2, <2>3, <2>4, TurnTwo
<1> QED
  BY <1>8, <1>9

LEMMA PlaceTurn ==
  ASSUME Structure, TradeInv, NEW t \in Terms, NEW v, Unused # {}, PlaceOrder(t, v)
  PROVE  Queued /\ \A u \in Order : Turn(u)
<1>1. PICK o : o = Fresh(Unused)
  OBVIOUS
<1>2. /\ status' = [status EXCEPT ![o] = "PENDING"] /\ live' = Append(live, o)
      /\ Send(o, "PLACE", v)
      /\ UNCHANGED <<sim, reduction, trade, history, tstatus>>
  BY <1>1 DEF PlaceOrder
<1>3. terms' = [terms EXCEPT ![o] =
                  [ kind |-> t.kind, side |-> t.side, price |-> t.price,
                    persistence |-> t.persistence, size |-> Size ]]
  BY <1>1 DEF PlaceOrder
<1>4. /\ TypeInv /\ DOMAIN status = Order /\ DOMAIN terms = Order /\ live \in Seq(Order)
      /\ o \in Order /\ status[o] = "None"
  BY <1>1, FreshOrder DEF Structure, TypeInv, OrdersOK, EngineOK
<1>5. Created(o)
  BY <1>2, <1>3, <1>4 DEF Created
<1>6. Queued
  BY <1>2, <1>4, <1>5, QueuedSent
<1>7. /\ status'[o] = "PENDING" /\ \A u \in Order \ {o} : status'[u] = status[u]
      /\ \A i \in 1..Len(live) : \E m \in 1..Len(live') : live'[m] = live[i]
      /\ \E m \in 1..Len(live') : live'[m] = o
  <2>1. /\ Len(live) \in Nat /\ Len(live') = Len(live) + 1
        /\ \A i \in 1..Len(live) : live'[i] = live[i]
        /\ live'[Len(live) + 1] = o
    BY <1>2, <1>4
  <2>2. Len(live) + 1 \in 1..Len(live')
    BY <2>1
  <2> QED
    BY <1>2, <1>4, <2>1, <2>2
<1>8. ASSUME NEW u \in Order
      PROVE  Turn(u)
  <2>1. Trades(u)
    BY <1>2 DEF Trades
  <2>2. CASE u = o
    <3>1. trade[o] = o /\ tstatus[o] = "LIVE"
      BY <1>4 DEF TradeInv
    <3> QED
      BY <1>2, <1>4, <1>7, <2>1, <2>2, <3>1
      DEF Turn, Watches, Completes, Finishes, Reduces, Answers, Complete
  <2>3. CASE u # o
    <3>1. u \in Known' <=> u \in Known
      BY <1>7, <2>3 DEF Known
    <3>2. Finishes(u)
      BY <1>7, <2>3 DEF Finishes, Complete, Known
    <3> QED
      BY <1>2, <1>7, <2>1, <2>3, <3>1, <3>2
      DEF Turn, Watches, Completes, Reduces, Answers
  <2> QED
    BY <2>2, <2>3
<1> QED
  BY <1>6, <1>8

LEMMA RequestTurn ==
  ASSUME Structure, NEW o \in Order, NEW type \in {"CANCEL", "UPDATE", "REPLACE"},
         NEW v \in Nat, Request(o, type, v), Reduces(o),
         \A u \in Order \ {o} : reduction'[u] = reduction[u]
  PROVE  Queued /\ \A u \in Order : Turn(u)
<1>0. TypeInv /\ DOMAIN status = Order
  BY DEF Structure, TypeInv, OrdersOK
<1>1. /\ o \in Known /\ status' = [status EXCEPT ![o] = Asking[type]]
      /\ UNCHANGED <<trade, tstatus, live>>
  BY <1>0, RequestType
<1>2. status[o] = "EXECUTABLE" /\ Send(o, type, v)
  BY DEF Request
<1>3. Queued
  BY <1>0, <1>2, QueuedSent
<1>4. /\ status'[o] = Asking[type] /\ \A u \in Order \ {o} : status'[u] = status[u]
  BY <1>0, <1>1
<1>5. Asking[type] \notin {"None", "New"} \cup Complete
  BY DEF Asking, Complete
<1>6. Finishes(o) /\ Answers(o)
  BY <1>2, <1>4, <1>5 DEF Finishes, Answers
<1>7. \A u \in Order : Turn(u)
  BY <1>0, <1>1, <1>4, <1>5, <1>6, TurnOne
<1> QED
  BY <1>3, <1>7

LEMMA StepTurn ==
  ASSUME Structure, ReductionInv, TradeInv, [Next]_vars
  PROVE  Queued /\ \A u \in Order : Turn(u)
<1>0. TypeInv /\ reduction \in [Order -> 0..Size]
  BY DEF Structure, TypeInv, OrdersOK
<1>1. ASSUME NEW t \in Terms, NEW v, Unused # {}, PlaceOrder(t, v)
      PROVE  Queued /\ \A u \in Order : Turn(u)
  BY <1>1, PlaceTurn
<1>2. ASSUME NEW o \in Order, NEW r \in Reductions, CancelOrder(o, r)
      PROVE  Queued /\ \A u \in Order : Turn(u)
  <2>1. Request(o, "CANCEL", 0) /\ reduction' = [reduction EXCEPT ![o] = r]
    BY <1>2 DEF CancelOrder
  <2>2. status'[o] = "CANCELLING"
    BY <1>0, <2>1, RequestType DEF Asking, TypeInv, OrdersOK
  <2>3. Reduces(o) /\ \A u \in Order \ {o} : reduction'[u] = reduction[u]
    BY <1>0, <2>1, <2>2 DEF Reduces
  <2> QED
    BY <2>1, <2>3, RequestTurn
<1>3. ASSUME NEW o \in Order, NEW type \in {"UPDATE", "REPLACE"}, NEW v \in Nat,
             Request(o, type, v), reduction' = reduction
      PROVE  Queued /\ \A u \in Order : Turn(u)
  <2>1. Reduces(o)
    BY <1>3 DEF Reduces, Request
  <2> QED
    BY <1>3, <2>1, RequestTurn
<1>4. ASSUME NEW o \in Order, NEW p, UpdateOrder(o, p)
      PROVE  Queued /\ \A u \in Order : Turn(u)
  BY <1>3, <1>4 DEF UpdateOrder
<1>5. ASSUME NEW o \in Order, NEW x, NEW v \in {0, book.version}, ReplaceOrder(o, x, v)
      PROVE  Queued /\ \A u \in Order : Turn(u)
  <2>1. v \in Nat
    BY <1>0, VersionNat
  <2> QED
    BY <1>3, <1>5, <2>1 DEF ReplaceOrder
<1>6. CASE Strategy
  BY <1>1, <1>2, <1>4, <1>5, <1>6 DEF Strategy
<1>7. ASSUME NEW o \in Order,
             PassOrder(o) \/ NoSP(o) \/ Lapse(o) \/ MatchTraded(o) \/ MatchAtSP(o)
      PROVE  Queued /\ \A u \in Order : Turn(u)
  BY <1>7, VisitsTurn
<1>8. ASSUME NEW o \in Order, ProcessOrder(o)
      PROVE  Queued /\ \A u \in Order : Turn(u)
  BY <1>8, ProcessTurn
<1>9. CASE Engine
  BY <1>7, <1>8, <1>9, BooksTurn, ExecutesTurn, ReplacesTurn DEF Engine
<1>10. CASE UNCHANGED vars
  BY <1>10, BooksTurn
<1> QED
  BY <1>6, <1>9, <1>10 DEF Next

-----------------------------------------------------------------------------
(* Executable orders are watched. *)

LEMMA StartStep ==
  ASSUME Sizes, WatchInv, [Next]_vars
  PROVE  StartInv'
<1> SUFFICES ASSUME NEW o \in Order, sim'[o].reconciled
             PROVE  /\ status'[o] = "EXECUTION_COMPLETE"
                    /\ \A m \in 1..Len(queue') : queue'[m].order # o
  BY DEF StartInv
<1>0. /\ TypeInv /\ OrdersOK /\ MarketOK /\ PackageInv /\ FreshInv /\ StartInv
      /\ sim[o] \in Simulated
  BY OrderTypes DEF Sizes, Structure, TypeInv, WatchInv
<1>1. /\ Effect(o) /\ terms'[o] \in OrderTerms /\ Queued /\ Answers(o)
  <2>1. Structure /\ ReductionInv /\ TradeInv
    BY DEF Sizes, WatchInv
  <2>2. Structure' /\ Effect(o)
    BY <2>1, StructureStep
  <2> QED
    BY <2>1, <2>2, StepTurn DEF Structure, TypeInv, OrdersOK, Turn
<1>2. CASE sim[o].reconciled
  <2>1. status[o] = "EXECUTION_COMPLETE" /\ \A i \in 1..Len(queue) : queue[i].order # o
    BY <1>0, <1>2 DEF StartInv
  <2> QED
    BY <1>1, <2>1 DEF Answers, Queued
<1>3. CASE ~sim[o].reconciled
  <2>1. AtStart(o)
    <3>1. CASE Untouched(o) \/ Created(o)
      BY <1>3, <3>1 DEF Untouched, Created
    <3>2. CASE Put(o)
      <4>1. PICK v : sim'[o] = Placed(terms'[o], v) /\ terms'[o].price \in Price
        BY <3>2 DEF Put
      <4> QED
        BY <1>0, <1>1, <4>1, PlacedFields
    <3>3. CASE Cut(o)
      BY <1>0, <1>3, <3>3, CutFields
    <3>4. CASE Lapses(o)
      BY <1>0, <1>3, <3>4, LapsesFields
    <3>5. CASE Fills(o)
      BY <1>0, <1>3, <3>5, FillsFields
    <3>6. CASE Voids(o)
      BY <1>0, <1>3, <3>6, VoidedFields DEF Voids
    <3> QED
      BY <1>1, <3>1, <3>2, <3>3, <3>4, <3>5, <3>6 DEF Effect
  <2>2. /\ status'[o] = "EXECUTION_COMPLETE" /\ queue' = queue
        /\ status[o] = "EXECUTABLE" /\ phase = "match"
    BY <2>1 DEF AtStart, Visit, Visited, Matchable
  <2>3. ASSUME NEW i \in 1..Len(queue)
        PROVE  queue[i].order # o
    <3>1. status[queue[i].order] \in {Asking[queue[i].type], "EXECUTION_COMPLETE"}
      BY <1>0, <2>2 DEF PackageInv
    <3>2. Asking[queue[i].type] # "EXECUTABLE"
      BY <1>0, QueueType DEF Asking, PackageType
    <3> QED
      BY <2>2, <3>1, <3>2
  <2> QED
    BY <2>2, <2>3
<1> QED
  BY <1>2, <1>3

LEMMA PlaceStep ==
  ASSUME Sizes, WatchInv, [Next]_vars
  PROVE  PlaceInv'
<1> SUFFICES ASSUME ~removed', NEW m \in 1..Len(queue'), queue'[m].type = "PLACE"
             PROVE  /\ sim'[queue'[m].order] = NewSimulated
                    /\ terms'[queue'[m].order].size = Size
  BY DEF PlaceInv
<1>1. PICK o : o = queue'[m].order
  OBVIOUS
<1>2. /\ TypeInv /\ OrdersOK /\ PackageInv /\ FreshInv /\ PlaceInv
      /\ Structure' /\ Queued /\ \A u \in Order : Effect(u)
  <2>1. Structure /\ ReductionInv /\ TradeInv
    BY DEF Sizes, WatchInv
  <2> QED
    BY <2>1, StructureStep, StepTurn DEF Sizes, Structure, TypeInv, WatchInv
<1>3. o \in Order
  <2>1. queue' \in Seq(Package)
    BY <1>2 DEF Structure, TypeInv, EngineOK
  <2>2. queue'[m] \in Package
    BY <2>1
  <2> QED
    BY <1>1, <2>2 DEF Package
<1>4. ~removed
  BY <1>2, RemovedStays
<1>5. CASE Created(o) /\ status[o] = "None"
  BY <1>1, <1>2, <1>3, <1>5 DEF Created, FreshInv
<1>6. ASSUME NEW i \in 1..Len(queue), queue[i].order = o, queue[i].type = "PLACE"
      PROVE  sim'[o] = NewSimulated /\ terms'[o].size = Size
  <2>1. sim[o] = NewSimulated /\ terms[o].size = Size
    BY <1>2, <1>4, <1>6 DEF PlaceInv
  <2>2. ~raised => status[o] \notin {"None", "EXECUTABLE"}
    <3>1. ~raised => status[o] \in {Asking[queue[i].type], "EXECUTION_COMPLETE"}
      BY <1>2, <1>6 DEF PackageInv
    <3> QED
      BY <1>6, <3>1 DEF Asking
  <2>3. CASE Untouched(o) \/ Created(o)
    BY <2>1, <2>3 DEF Untouched, Created, Stays, SameBet
  <2>4. CASE Put(o) \/ Cut(o)
    <3>1. DueNow # {} /\ NextDue.order = o /\ queue' = QueueLeft
      BY <2>2, <2>4 DEF Put, Cut
    <3> QED
      BY <1>1, <1>2, <3>1, DueOnce
  <2>5. CASE AtStart(o) \/ Lapses(o) \/ Fills(o)
    <3>1. phase = "match" /\ status[o] = "EXECUTABLE"
      BY <2>5 DEF AtStart, Lapses, Fills, Visit, Matchable
    <3> QED
      BY <1>2, <2>2, <3>1 DEF PackageInv
  <2>6. CASE Voids(o)
    BY <2>6 DEF Voids
  <2> QED
    BY <1>2, <1>3, <2>3, <2>4, <2>5, <2>6 DEF Effect
<1> QED
  BY <1>1, <1>2, <1>5, <1>6 DEF Queued

LEMMA WatchStep ==
  ASSUME Sizes, WatchInv, [Next]_vars
  PROVE  WatchInv'
<1>0. /\ Structure /\ OpenInv /\ ReductionInv /\ TradeInv /\ StartInv /\ PlaceInv
  BY DEF Sizes, WatchInv
<1>1. Queued /\ \A o \in Order : Turn(o)
  BY <1>0, StepTurn
<1>2. OpenInv'
  <2> SUFFICES ASSUME NEW o \in Order, Open(o)'
               PROVE  /\ \E i \in 1..Len(live') : live'[i] = o
                      /\ status'[o] \notin Complete
                      /\ tstatus'[trade'[o]] # "COMPLETE"
    BY DEF OpenInv
  <2>1. o \in Known' /\ Watches(o) /\ Completes(o) /\ Finishes(o)
    BY <1>1 DEF Turn, Open
  <2>2. ASSUME o \in Known
        PROVE  /\ \E i \in 1..Len(live) : live[i] = o
               /\ status[o] \notin Complete
               /\ tstatus[trade[o]] # "COMPLETE"
    BY <1>0, <2>2, UsedUp DEF OpenInv
  <2>3. status'[o] \notin Complete
    BY <2>1, <2>2 DEF Finishes
  <2>4. tstatus'[trade'[o]] # "COMPLETE"
    BY <2>1, <2>2, <2>3 DEF Completes
  <2> QED
    BY <2>1, <2>2, <2>3, <2>4 DEF Watches
<1>3. ReductionInv'
  BY <1>0, <1>1 DEF ReductionInv, Turn, Reduces
<1>4. TradeInv'
  <2> SUFFICES ASSUME NEW o \in Order, status'[o] = "None"
               PROVE  /\ trade'[o] = o /\ tstatus'[o] = "LIVE"
                      /\ \A u \in Order : trade'[u] = o => u = o
    BY DEF TradeInv
  <2>1. status[o] = "None"
    BY <1>0, NotCreated
  <2>2. /\ trade[o] = o /\ tstatus[o] = "LIVE"
        /\ \A u \in Order : trade[u] = o => u = o
    BY <1>0, <2>1 DEF TradeInv
  <2>3. \A w \in Known : trade[w] # o
    BY <2>1, <2>2 DEF Known
  <2>4. Trades(o)
    BY <1>1 DEF Turn
  <2> QED
    BY <2>2, <2>3, <2>4 DEF Trades
<1> QED
  BY <1>2, <1>3, <1>4, StartStep, PlaceStep DEF WatchInv

LEMMA InitWatch == Init => WatchInv
<1> SUFFICES ASSUME Init
             PROVE  WatchInv
  OBVIOUS
<1>1. /\ status = [o \in Order |-> "None"] /\ sim = [o \in Order |-> NewSimulated]
      /\ reduction = [o \in Order |-> 0] /\ trade = [o \in Order |-> o]
      /\ tstatus = [t \in Order |-> "LIVE"] /\ queue = <<>>
  BY DEF Init
<1>2. OpenInv
  BY <1>1 DEF OpenInv, Open, Known
<1>3. ReductionInv /\ TradeInv
  BY <1>1 DEF ReductionInv, TradeInv
<1>4. StartInv
  BY <1>1, NewFields DEF StartInv
<1>5. PlaceInv
  BY <1>1 DEF PlaceInv
<1> QED
  BY <1>2, <1>3, <1>4, <1>5 DEF WatchInv

\* An executable order with something left is among the live orders, exactly once:
\* whatever was cancelled, replaced, voided or completed meanwhile, every book is
\* matched with it (Blotter._live_orders).
THEOREM LiveWatchedSafe == Spec => []LiveWatched
<1>1. Sizes /\ WatchInv /\ [Next]_vars => Sizes' /\ WatchInv'
  BY SizesStep, WatchStep
<1>2. Sizes /\ WatchInv => LiveWatched
  <2> SUFFICES ASSUME Sizes, WatchInv, NEW o \in Known, status[o] = "EXECUTABLE",
                      Remaining(o) > 0
               PROVE  Cardinality({i \in DOMAIN live : live[i] = o}) = 1
    BY DEF LiveWatched
  <2>1. o \in Order /\ StartInv /\ OpenInv /\ LiveInv /\ EngineOK
    BY DEF Known, WatchInv, Sizes, Structure, TypeInv
  <2>2. Open(o)
    BY <2>1 DEF StartInv, Open
  <2>3. PICK k \in 1..Len(live) : live[k] = o
    BY <2>1, <2>2 DEF OpenInv
  <2>4. DOMAIN live = 1..Len(live)
    BY <2>1 DEF EngineOK
  <2>5. {i \in DOMAIN live : live[i] = o} = {k}
    BY <2>1, <2>3, <2>4 DEF LiveInv
  <2> QED
    BY <2>5, FS_Singleton
<1> QED
  BY <1>1, <1>2, InitSizes, InitWatch, PTL DEF Spec

-----------------------------------------------------------------------------
(* Orders that lapse *)

\* An order has seen no version of the market that is still to come; two books of
\* one version have one status.
VersionInv ==
  /\ book.version \in Nat \ {0} /\ incoming.version \in Nat
  /\ book.version <= incoming.version
  /\ book.version = incoming.version => book.status = incoming.status
  /\ \A o \in Order : sim[o].version <= book.version
\* Whatever is left of an order that lapses has not seen the suspension,
Lapsing(o) == terms[o].persistence = "LAPSE" /\ Remaining(o) > 0
UnseenInv ==
  book.status = "SUSPENDED" => \A o \in Order : Lapsing(o) => sim[o].version # book.version
\* and, if it is executable, has its turn still to come.
TurnInv ==
  phase # "packages" /\ book.status = "SUSPENDED" /\ ~closed =>
    \A o \in Order : status[o] = "EXECUTABLE" /\ Lapsing(o) => Waits(o)
LapseInv == VersionInv /\ UnseenInv /\ TurnInv

LEMMA PlacedVersion ==
  ASSUME NEW t, NEW v
  PROVE  Placed(t, v).version = IF book.status = "OPEN" THEN book.version ELSE 0
<1> DEFINE ver == IF book.status = "OPEN" THEN book.version ELSE 0
<1>1. [NewSimulated EXCEPT !.version = ver].version = ver
  BY DEF NewSimulated
<1> HIDE DEF ver
<1>2. Placed(t, v).version = ver
  BY <1>1 DEF Placed, ver, NewSimulated
<1> QED
  BY <1>2 DEF ver

\* The version an order has seen, after a step
LEMMA VersionEffect ==
  ASSUME TypeInv, FreshInv, NEW o \in Order, Effect(o)
  PROVE  sim'[o].version \in {sim[o].version, book.version, 0}
<1>0. sim[o] \in Simulated /\ OrdersOK
  BY OrderTypes DEF TypeInv
<1>1. CASE Untouched(o) \/ Created(o)
  BY <1>1 DEF Untouched, Created
<1>2. CASE Put(o)
  BY <1>2, PlacedVersion DEF Put
<1>3. CASE Cut(o)
  BY <1>0, <1>3 DEF Cut, Simulated
<1>4. CASE AtStart(o)
  <2>1. sim'[o] = Reconciled(o)
    BY <1>4 DEF AtStart
  <2>2. Reconciled(o).version = sim[o].version
    BY <1>0 DEF Reconciled, Matched, Simulated
  <2> QED
    BY <2>1, <2>2
<1>5. CASE Lapses(o)
  BY <1>0, <1>5, LapsesFields
<1>6. CASE Fills(o)
  BY <1>0, <1>6, FillsFields
<1>7. CASE Voids(o)
  BY <1>0, <1>7 DEF Voids, Voided, Simulated
<1> QED
  BY <1>1, <1>2, <1>3, <1>4, <1>5, <1>6, <1>7 DEF Effect

\* What lapses lapsed before too, but what is new.
LEMMA LapsingEffect ==
  ASSUME "UPDATE" \notin Kinds, Sizes, ~removed', [Next]_vars, NEW o \in Order, Lapsing(o)'
  PROVE  \/ /\ Lapsing(o)
            /\ \/ sim'[o].version = sim[o].version
               \/ Fills(o) /\ sim'[o].version = book.version
         \/ Created(o)
         \/ Put(o) /\ book.status # "SUSPENDED"
<1>0. /\ TypeInv /\ OrdersOK /\ MarketOK /\ FreshInv /\ Sized(o)
      /\ sim[o] \in Simulated /\ Remaining(o) \in 0..Size /\ Size \in Nat
  <2>1. TypeInv /\ OrdersOK /\ MarketOK /\ FreshInv /\ Sized(o)
    BY RemovedStays DEF Sizes, Structure, TypeInv, SizeInv
  <2> QED
    BY <2>1, OrderTypes, SizeNat DEF Sized
<1>1. Effect(o) /\ terms'[o] \in OrderTerms
  BY StructureStep DEF Sizes, Structure, TypeInv, OrdersOK
<1>2. terms'[o].persistence = "LAPSE" /\ Remaining(o)' > 0
  BY DEF Lapsing
<1>3. ASSUME SameBet(o), Remaining(o) > 0
      PROVE  Lapsing(o)
  BY <1>2, <1>3 DEF Lapsing, SameBet
<1>4. CASE Untouched(o)
  <2>1. SameBet(o) /\ sim'[o] = sim[o]
    BY <1>4 DEF Untouched, Stays
  <2>2. Remaining(o)' = Remaining(o)
    BY <2>1, SameLeft DEF Remaining
  <2> QED
    BY <1>2, <1>3, <2>1, <2>2
<1>5. CASE Put(o)
  <2>1. PICK v : sim'[o] = Placed(terms'[o], v) /\ terms'[o].price \in Price
    BY <1>5 DEF Put
  <2>2. book.status = "SUSPENDED" => ~PlaceSucceeds(terms'[o], v)
    BY DEF PlaceSucceeds, Refused
  <2>3. book.status = "SUSPENDED" => Left(terms'[o], sim'[o]) = 0
    BY <1>0, <1>1, <2>1, <2>2, PlacedFields
  <2>4. Remaining(o)' = Left(terms'[o], sim'[o])
    BY DEF Remaining
  <2> QED
    BY <1>2, <1>5, <2>3, <2>4
<1>6. CASE Cut(o)
  <2>1. SameBet(o) /\ sim'[o].version = sim[o].version
    BY <1>0, <1>6 DEF Cut, Stays, Simulated
  <2>2. Remaining(o)' \in 0..Remaining(o)
    BY <1>0, <1>6, SizedCut
  <2>3. Remaining(o) > 0
    BY <1>0, <1>2, <2>2
  <2> QED
    BY <1>3, <2>1, <2>3
<1>7. CASE AtStart(o)
  <2>1. terms[o].price \in Price
    BY <1>0, <1>7 DEF AtStart, Matchable, OrdersOK, Known
  <2> QED
    BY <1>0, <1>2, <1>7, <2>1, SizedAtStart
<1>8. CASE Lapses(o)
  BY <1>0, <1>2, <1>8, SizedLapses
<1>9. CASE Fills(o)
  <2>1. SameBet(o) /\ sim'[o].version = book.version /\ Remaining(o) # 0
    BY <1>0, <1>9, FillsFields DEF Fills, Stays
  <2>2. Remaining(o) > 0
    BY <1>0, <2>1
  <2> QED
    BY <1>3, <1>9, <2>1, <2>2
<1> QED
  BY <1>1, <1>4, <1>5, <1>6, <1>7, <1>8, <1>9 DEF Effect, Voids

LEMMA VersionStep ==
  ASSUME Sizes, VersionInv, [Next]_vars
  PROVE  /\ VersionInv'
         /\ book' = book \/ UpdateMarket
<1>0. TypeInv /\ FreshInv /\ OrdersOK /\ MarketOK
  BY DEF Sizes, Structure, TypeInv
<1>1. \A o \in Order : Effect(o)
  BY StructureStep DEF Sizes
<1>2. /\ book.version \in Nat \ {0} /\ incoming.version \in Nat
      /\ book.version <= incoming.version
      /\ book.version = incoming.version => book.status = incoming.status
  BY DEF VersionInv
<1>3. book' = book \/ UpdateMarket
  BY <1>0, NextBookFields, BookStep
<1>4. /\ book'.version \in Nat \ {0} /\ incoming'.version \in Nat
      /\ book.version <= book'.version /\ book'.version <= incoming'.version
      /\ book'.version = incoming'.version => book'.status = incoming'.status
  <2>1. CASE UpdateMarket
    <3>1. book' = incoming /\ incoming' = incoming
      BY <2>1 DEF UpdateMarket
    <3> QED
      BY <1>2, <3>1
  <2>2. CASE NextBook
    <3>1. /\ book' = book
          /\ IF incoming'.status = incoming.status THEN incoming'.version = incoming.version
                                                  ELSE incoming'.version = incoming.version + 1
      BY <1>0, <2>2, NextBookFields
    <3> QED
      BY <1>2, <3>1
  <2>3. CASE UNCHANGED <<incoming, book, volume, traded, removed>>
    BY <1>2, <2>3
  <2> QED
    BY <2>1, <2>2, <2>3, BookStep
<1>5. ASSUME NEW o \in Order
      PROVE  sim'[o].version <= book'.version
  <2>1. sim'[o].version \in {sim[o].version, book.version, 0}
    BY <1>0, <1>1, VersionEffect
  <2>2. sim[o].version <= book.version /\ sim[o].version \in Nat
    BY <1>0, OrderTypes, SimFields DEF VersionInv, Simulated
  <2> QED
    BY <1>2, <1>4, <2>1, <2>2
<1> QED
  BY <1>3, <1>4, <1>5 DEF VersionInv

LEMMA UnseenStep ==
  ASSUME "UPDATE" \notin Kinds, Sizes, VersionInv, UnseenInv, ~removed', [Next]_vars
  PROVE  UnseenInv'
<1> SUFFICES ASSUME book'.status = "SUSPENDED", NEW o \in Order, Lapsing(o)'
             PROVE  sim'[o].version # book'.version
  BY DEF UnseenInv
<1>0. /\ TypeInv /\ FreshInv /\ OrdersOK /\ book.version \in Nat \ {0}
      /\ sim[o].version \in Nat /\ sim[o].version <= book.version
      /\ incoming.version \in Nat
  <2>1. TypeInv /\ FreshInv /\ OrdersOK
    BY DEF Sizes, Structure, TypeInv
  <2> QED
    BY <2>1, OrderTypes DEF VersionInv, Simulated
<1>1. \/ /\ Lapsing(o)
         /\ \/ sim'[o].version = sim[o].version
            \/ Fills(o) /\ sim'[o].version = book.version
      \/ Created(o)
      \/ Put(o) /\ book.status # "SUSPENDED"
  BY LapsingEffect
<1>2. CASE UpdateMarket
  <2>1. /\ book' = incoming /\ phase = "packages" /\ UNCHANGED terms
        /\ sim' = sim
    BY <1>2 DEF UpdateMarket
  <2>2. Lapsing(o)
    BY <2>1 DEF Lapsing, Remaining
  <2>3. CASE incoming.version = book.version
    BY <2>1, <2>2, <2>3 DEF UnseenInv, VersionInv
  <2>4. CASE incoming.version # book.version
    BY <1>0, <2>1, <2>4 DEF VersionInv
  <2> QED
    BY <2>3, <2>4
<1>3. CASE book' = book
  <2>1. CASE Lapsing(o) /\ sim'[o].version = sim[o].version
    BY <1>3, <2>1 DEF UnseenInv
  <2>2. CASE Lapsing(o) /\ Fills(o)
    <3>1. sim[o].version # book.version
      BY <1>3, <2>2 DEF UnseenInv
    <3>2. MaterialChange(o)
      BY <1>3, <2>2, <3>1 DEF MaterialChange, Lapsing
    <3> QED
      BY <2>2, <3>2 DEF Fills
  <2>3. CASE Created(o)
    <3>1. sim'[o] = NewSimulated
      BY <1>0, <2>3 DEF Created, FreshInv
    <3>2. sim'[o].version = 0
      BY <3>1 DEF NewSimulated
    <3> QED
      BY <1>0, <1>3, <3>2
  <2>4. CASE Put(o) /\ book.status # "SUSPENDED"
    BY <1>3, <2>4
  <2> QED
    BY <1>1, <2>1, <2>2, <2>3, <2>4
<1> QED
  BY <1>2, <1>3, VersionStep

\* What a step of each phase can be
LEMMA PhaseStep ==
  ASSUME [Next]_vars, TypeInv
  PROVE  /\ phase = "packages" => phase' = "packages" \/ UpdateMarket \/ CloseMarket
         /\ phase = "match" =>
              \/ UNCHANGED vars
              \/ todo = <<>> /\ EndMatching
              \/ \E u \in Order : Visit(u) /\ Visited /\
                   (PassOrder(u) \/ MatchAtSP(u) \/ NoSP(u) \/ Lapse(u) \/ MatchTraded(u))
         /\ phase = "orders" =>
              \/ phase' = "packages"
              \/ /\ book' = book /\ closed' = closed
                 /\ \A o \in Order : status'[o] = "EXECUTABLE" => status[o] = "EXECUTABLE"
<1>1. ASSUME phase = "packages"
      PROVE  phase' = "packages" \/ UpdateMarket \/ CloseMarket
  <2>1. CASE UNCHANGED vars
    BY <1>1, <2>1 DEF vars, engineVars
  <2>2. CASE Next
    BY <1>1, <2>2
       DEF Next, Strategy, Engine, NextBook, EndMatching, ExecutePlace, ExecuteCancel,
           ExecuteUpdate, ExecuteReplace, FailReplace, FailInstruction, Executing, PassOrder,
           MatchAtSP, NoSP, Lapse, MatchTraded, Visit, ProcessOrder, PlaceOrder, CancelOrder,
           UpdateOrder, ReplaceOrder, Request, Callback
  <2> QED
    BY <2>1, <2>2
<1>2. ASSUME phase = "match"
      PROVE  \/ UNCHANGED vars
             \/ todo = <<>> /\ EndMatching
             \/ \E u \in Order : Visit(u) /\ Visited /\
                  (PassOrder(u) \/ MatchAtSP(u) \/ NoSP(u) \/ Lapse(u) \/ MatchTraded(u))
  <2>1. CASE Next
    <3>1. EndMatching \/ \E u \in Order :
            PassOrder(u) \/ MatchAtSP(u) \/ NoSP(u) \/ Lapse(u) \/ MatchTraded(u)
      BY <1>2, <2>1
         DEF Next, Strategy, Engine, NextBook, CloseMarket, UpdateMarket, ExecutePlace,
             ExecuteCancel, ExecuteUpdate, ExecuteReplace, FailReplace, FailInstruction,
             Executing, ProcessOrder, PlaceOrder, CancelOrder, UpdateOrder, ReplaceOrder,
             Request, Callback
    <3> QED
      BY <3>1 DEF EndMatching, PassOrder, MatchAtSP, NoSP, Lapse, MatchTraded
  <2> QED
    BY <2>1
<1>3. ASSUME phase = "orders", phase' # "packages"
      PROVE  /\ book' = book /\ closed' = closed
             /\ \A o \in Order : status'[o] = "EXECUTABLE" => status[o] = "EXECUTABLE"
  <2>0. status \in [Order -> OrderStatus] /\ todo \in Seq(Order)
    BY DEF TypeInv, OrdersOK, EngineOK
  <2>1. CASE UNCHANGED vars
    BY <2>1 DEF vars, orderVars, marketVars
  <2>2. CASE Strategy
    <3>1. /\ UNCHANGED marketVars
          /\ \E u \in Order : \E s \in Awaiting : status' = [status EXCEPT ![u] = s]
      <4>1. ASSUME NEW t, NEW v, Unused # {}, PlaceOrder(t, v)
            PROVE  UNCHANGED marketVars /\ status' = [status EXCEPT ![Fresh(Unused)] = "PENDING"]
        BY <4>1 DEF PlaceOrder
      <4>2. ASSUME NEW o \in Order, NEW type \in {"CANCEL", "UPDATE", "REPLACE"}, NEW v,
                   Request(o, type, v)
            PROVE  UNCHANGED marketVars /\ status' = [status EXCEPT ![o] = Requested[type]]
        BY <4>2 DEF Request
      <4>3. \A type \in {"CANCEL", "UPDATE", "REPLACE"} : Requested[type] \in Awaiting
        BY DEF Requested, Awaiting
      <4>4. CASE \E t \in Terms, v \in {0, book.version} : Unused # {} /\ PlaceOrder(t, v)
        <5>1. Fresh(Unused) \in Order /\ "PENDING" \in Awaiting
          BY <4>4, FreshOrder DEF Awaiting
        <5> QED
          BY <4>1, <4>4, <5>1
      <4>5. CASE \E o \in Order :
                   \E type \in {"CANCEL", "UPDATE", "REPLACE"} : \E v : Request(o, type, v)
        BY <4>2, <4>3, <4>5
      <4>6. \/ \E t \in Terms, v \in {0, book.version} : Unused # {} /\ PlaceOrder(t, v)
            \/ \E o \in Order :
                 \E type \in {"CANCEL", "UPDATE", "REPLACE"} : \E v : Request(o, type, v)
        BY <2>2 DEF Strategy, CancelOrder, UpdateOrder, ReplaceOrder
      <4> QED
        BY <4>4, <4>5, <4>6
    <3>2. PICK u \in Order : \E s \in Awaiting : status' = [status EXCEPT ![u] = s]
      BY <3>1
    <3>3. "EXECUTABLE" \notin Awaiting
      BY DEF Awaiting
    <3> QED
      BY <2>0, <3>1, <3>2, <3>3 DEF marketVars
  <2>3. CASE \E u \in Order : ProcessOrder(u)
    <3>1. PICK u \in Order : ProcessOrder(u)
      BY <2>3
    <3>2. UNCHANGED marketVars
          /\ (status' = status \/ status' = [status EXCEPT ![u] = "EXECUTION_COMPLETE"])
      BY <3>1 DEF ProcessOrder, UpdateStatus
    <3> QED
      BY <2>0, <3>2 DEF marketVars
  <2>4. Next /\ ~Strategy => \E u \in Order : ProcessOrder(u)
    BY <1>3
       DEF Next, Engine, NextBook, CloseMarket, UpdateMarket, EndMatching, ExecutePlace,
           ExecuteCancel, ExecuteUpdate, ExecuteReplace, FailReplace, FailInstruction,
           Executing, PassOrder, MatchAtSP, NoSP, Lapse, MatchTraded, Visit
  <2> QED
    BY <2>1, <2>2, <2>3, <2>4
<1> QED
  BY <1>1, <1>2, <1>3

\* The orders still to visit, in a step of the matching
LEMMA MatchingTurn ==
  ASSUME "UPDATE" \notin Kinds, Sizes, UnseenInv, TurnInv, ~removed', [Next]_vars,
         phase = "match", book'.status = "SUSPENDED", ~closed',
         NEW o \in Order, status'[o] = "EXECUTABLE", Lapsing(o)'
  PROVE  Waits(o)'
<1>0. /\ TypeInv /\ OrdersOK /\ EngineOK /\ LiveInv /\ Sized(o)
      /\ status \in [Order -> OrderStatus]
  BY RemovedStays DEF Sizes, Structure, TypeInv, SizeInv, OrdersOK
<1>1. \/ /\ Lapsing(o)
         /\ \/ sim'[o].version = sim[o].version
            \/ Fills(o) /\ sim'[o].version = book.version
      \/ Created(o)
  BY LapsingEffect DEF Put
<1>2. terms'[o].persistence = "LAPSE" /\ Remaining(o)' > 0
  BY DEF Lapsing
<1>3. ASSUME status[o] = "EXECUTABLE", book' = book, closed' = closed
      PROVE  Waits(o) /\ Lapsing(o)
  BY <1>1, <1>3 DEF Created, TurnInv
<1>4. CASE UNCHANGED vars
  <2>1. status'[o] = status[o] /\ book' = book /\ closed' = closed /\ phase' = phase
        /\ todo' = todo
    BY <1>4 DEF vars, orderVars, marketVars, engineVars
  <2> QED
    BY <1>3, <2>1 DEF Waits
<1>5. CASE todo = <<>> /\ EndMatching
  <2>1. status'[o] = status[o] /\ book' = book /\ closed' = closed
    BY <1>5 DEF EndMatching, orderVars, marketVars
  <2>2. \E i \in 1..Len(todo) : todo[i] = o
    BY <1>3, <2>1 DEF Waits
  <2> QED
    BY <1>5, <2>2
<1>6. ASSUME NEW u \in Order, Visit(u), Visited,
             PassOrder(u) \/ MatchAtSP(u) \/ NoSP(u) \/ Lapse(u) \/ MatchTraded(u)
      PROVE  Waits(o)'
  <2>1. /\ book' = book /\ closed' = closed /\ phase' = phase /\ terms' = terms
        /\ todo # <<>> /\ u = Head(todo) /\ todo' = Tail(todo)
    BY <1>6 DEF Visit, Visited, marketVars
  <2>2. status' = status \/ status' = [status EXCEPT ![u] = "EXECUTION_COMPLETE"]
    BY <1>6 DEF PassOrder, MatchAtSP, NoSP, Lapse, MatchTraded, UpdateStatus
  <2>3. status[o] = "EXECUTABLE"
    BY <1>0, <2>2
  <2>4. Waits(o) /\ Lapsing(o)
    BY <1>3, <2>1, <2>3
  <2>5. PICK i \in 1..Len(todo) : todo[i] = o
    BY <2>4 DEF Waits
  <2>6. CASE o # u
    <3>1. \E j \in 1..Len(Tail(todo)) : Tail(todo)[j] = o
      BY <1>0, <2>1, <2>5, <2>6, TailOf
    <3> QED
      BY <2>1, <3>1 DEF Waits
  <2>7. CASE o = u
    <3>1. Remaining(o) > 0 /\ terms[o].persistence = "LAPSE" /\ terms[o].kind = "LIMIT"
      BY <2>4 DEF Lapsing, Remaining, Left
    <3>2. CASE PassOrder(u)
      <4>1. sim' = sim /\ (~Matchable(u) \/ Remaining(u) = 0)
        BY <3>2 DEF PassOrder
      <4> QED
        BY <2>3, <2>7, <3>1, <4>1 DEF Matchable
    <3>3. CASE NoSP(u)
      BY <2>7, <3>1, <3>3 DEF NoSP, AtSP, TakeSP
    <3>4. CASE MatchAtSP(u)
      <4>1. status' = [status EXCEPT ![u] = "EXECUTION_COMPLETE"]
        BY <3>4 DEF MatchAtSP, UpdateStatus
      <4> QED
        BY <1>0, <2>7, <4>1
    <3>5. CASE Lapse(u)
      BY <1>0, <1>2, <2>7, <3>5, LapseType, SizedLapses
    <3>6. CASE MatchTraded(u)
      <4>1. ~MaterialChange(o)
        BY <2>7, <3>6 DEF MatchTraded
      <4>2. sim[o].version # book.version /\ book.status = "SUSPENDED"
        BY <2>1, <2>4 DEF UnseenInv
      <4> QED
        BY <3>1, <4>1, <4>2 DEF MaterialChange
    <3> QED
      BY <1>6, <3>2, <3>3, <3>4, <3>5, <3>6
  <2> QED
    BY <2>6, <2>7
<1> QED
  BY <1>0, <1>4, <1>5, <1>6, PhaseStep

LEMMA LapseTurn ==
  ASSUME "UPDATE" \notin Kinds, Sizes, WatchInv, UnseenInv, TurnInv, ~removed', [Next]_vars
  PROVE  TurnInv'
<1> SUFFICES ASSUME phase' # "packages", book'.status = "SUSPENDED", ~closed',
                    NEW o \in Order, status'[o] = "EXECUTABLE", Lapsing(o)'
             PROVE  Waits(o)'
  BY DEF TurnInv
<1>0. TypeInv /\ EngineOK /\ OrdersOK /\ phase \in {"packages", "match", "orders"}
  BY DEF Sizes, Structure, TypeInv, EngineOK
<1>1. CASE phase = "packages"
  <2>1. UpdateMarket \/ CloseMarket
    BY <1>0, <1>1, PhaseStep
  <2>2. UpdateMarket
    BY <2>1 DEF CloseMarket
  <2>3. /\ phase' = "match" /\ todo' = live /\ status' = status /\ terms' = terms
        /\ removed' = (removed \/ incoming.removed)
        /\ sim' = IF incoming.removed /\ ~removed
                  THEN [u \in Order |-> IF u \in Known THEN Voided(u) ELSE sim[u]] ELSE sim
    BY <2>2 DEF UpdateMarket
  <2>4. sim' = sim
    BY <2>3
  <2>5. status[o] = "EXECUTABLE" /\ Remaining(o) > 0
    BY <2>3, <2>4 DEF Lapsing, Remaining
  <2>6. Open(o)
    BY <2>5 DEF Open, Known, WatchInv, StartInv
  <2>7. \E i \in 1..Len(live) : live[i] = o
    BY <2>6 DEF WatchInv, OpenInv
  <2> QED
    BY <2>3, <2>7 DEF Waits
<1>2. CASE phase = "match"
  BY <1>2, MatchingTurn
<1>3. CASE phase = "orders"
  <2>1. /\ book' = book /\ closed' = closed /\ status[o] = "EXECUTABLE"
    BY <1>0, <1>3, PhaseStep
  <2>2. Lapsing(o)
    BY <1>3, <2>1, LapsingEffect DEF Created, Put
  <2>3. Waits(o)
    BY <1>3, <2>1, <2>2 DEF TurnInv
  <2> QED
    BY <1>3, <2>3 DEF Waits
<1> QED
  BY <1>0, <1>1, <1>2, <1>3

LEMMA InitLapse == Init => LapseInv
<1> SUFFICES ASSUME Init
             PROVE  LapseInv
  OBVIOUS
<1>1. /\ book = FirstBook /\ incoming = FirstBook
      /\ sim = [o \in Order |-> NewSimulated]
  BY DEF Init
<1>2. NewSimulated.version = 0
  BY DEF NewSimulated
<1>3. VersionInv
  BY <1>1, <1>2, FirstBookFields DEF VersionInv
<1> QED
  BY <1>1, <1>3, FirstBookFields DEF LapseInv, UnseenInv, TurnInv

\* No limit order that lapses is left in a suspended market once its book has been
\* processed, whatever was placed, cancelled in part or replaced meanwhile, as long
\* as no order is updated and no runner removed: a new version of the book is seen
\* by an order in the matching only, which lapses it (Simulated.__call__).
THEOREM LapsedWhenSuspendedSafe ==
  "UPDATE" \notin Kinds => (Spec => [](removed \/ LapsedWhenSuspended))
<1> SUFFICES ASSUME "UPDATE" \notin Kinds
             PROVE  Spec => [](removed \/ LapsedWhenSuspended)
  OBVIOUS
<1> DEFINE Inv == /\ Sizes /\ WatchInv /\ VersionInv
                  /\ removed \/ (UnseenInv /\ TurnInv)
<1>1. Init => Inv
  BY InitSizes, InitWatch, InitLapse DEF LapseInv
<1>2. ASSUME Inv, [Next]_vars
      PROVE  Inv'
  <2>1. Sizes' /\ WatchInv' /\ VersionInv'
    BY <1>2, SizesStep, WatchStep, VersionStep
  <2>2. TypeInv
    BY <1>2 DEF Sizes, Structure
  <2>3. removed => removed'
    BY <1>2, <2>2, RemovedStays
  <2>4. ASSUME ~removed'
        PROVE  UnseenInv' /\ TurnInv'
    BY <1>2, <2>3, <2>4, UnseenStep, LapseTurn
  <2> QED
    BY <2>1, <2>4
<1>3. Inv => removed \/ LapsedWhenSuspended
  <2> SUFFICES ASSUME Inv, ~removed, phase = "orders", todo = <<>>,
                      book.status = "SUSPENDED", ~closed, NEW o \in Known,
                      status[o] = "EXECUTABLE", terms[o].persistence = "LAPSE"
               PROVE  Remaining(o) = 0
    BY DEF LapsedWhenSuspended
  <2>1. o \in Order /\ TurnInv /\ Sized(o)
    BY DEF Known, Sizes, SizeInv
  <2>2. ~Lapsing(o)
    BY <2>1 DEF TurnInv, Waits
  <2>3. Remaining(o) \in Nat
    BY <2>1, SizeNat DEF Sized
  <2> QED
    BY <2>2, <2>3 DEF Lapsing
<1> HIDE DEF Inv
<1> QED
  BY <1>1, <1>2, <1>3, PTL DEF Spec
=============================================================================

------------------------- MODULE OrderExecutionProofs -------------------------
(***************************************************************************)
(* Type correctness of OrderExecution, which bet an order has (RightBet),  *)
(* and what the order says is left of it (NeverUnderstated), for any       *)
(* number of orders, trades, packages and bets.                            *)
(* TypeOK is not inductive: that an order's bet id, a report or a record   *)
(* of the stream is a bet needs that it names a bet the exchange has       *)
(* already made, that only an order with a bet is cancelled, updated or    *)
(* replaced, and that a thread applying a report has one.                  *)
(*                                                                         *)
(* The second part is what transactions, packages and the blotter hold,    *)
(* which RightBet, the view of what is left and the proofs of              *)
(* OrderBetsProofs rest on.                                                *)
(***************************************************************************)
EXTENDS OrderExecution, FiniteSetTheorems, SequenceTheorems, WellFoundedInduction, TLAPS

-----------------------------------------------------------------------------
(* What Select of Selection returns: its induction is done with a least natural *)
(* number, found through the well-foundedness of strict inclusion on finite sets *)

\* Every nonempty set of natural numbers has a least element.
LEMMA SmallestIn ==
  ASSUME NEW T \in SUBSET Nat, T # {}
  PROVE  \E x \in T : \A y \in T : x <= y
<1> DEFINE U == {0..x : x \in T}
<1>1. U \subseteq FiniteSubsetsOf(Nat)
  <2> SUFFICES ASSUME NEW x \in T
               PROVE  0..x \in FiniteSubsetsOf(Nat)
    OBVIOUS
  <2>1. IsFiniteSet(0..x)
    BY FS_Interval
  <2> QED
    BY <2>1 DEF FiniteSubsetsOf
<1>2. U # {}
  OBVIOUS
<1>3. PICK M \in U : \A N \in U : ~ (<<N, M>> \in StrictSubsetOrdering(Nat))
  <2>1. IsWellFoundedOn(StrictSubsetOrdering(Nat), FiniteSubsetsOf(Nat))
    BY FS_StrictSubsetOrderingWellFounded
  <2> HIDE DEF U
  <2> QED
    BY <1>1, <1>2, <2>1, WFMin
<1>4. PICK x \in T : M = 0..x
  OBVIOUS
<1>5. ASSUME NEW y \in T, y < x
      PROVE  FALSE
  <2>1. 0..y \in SUBSET (0..x) /\ x \in 0..x /\ x \notin 0..y
    BY <1>5
  <2>2. <<0..y, 0..x>> \in StrictSubsetOrdering(Nat)
    BY <2>1 DEF StrictSubsetOrdering
  <2> QED
    BY <1>3, <1>4, <2>2
<1> QED
  BY <1>5

\* The n-th index of a set of indices is one of them.
LEMMA NthIn ==
  ASSUME NEW m \in Nat, NEW I \in SUBSET (1..m), NEW n \in 1..Cardinality(I)
  PROVE  /\ Nth(I, n) \in I
         /\ Cardinality({j \in I : j <= Nth(I, n)}) = n
<1> DEFINE Upto(k) == {j \in I : j <= k}
           Enough == {k \in Nat : Cardinality(Upto(k)) >= n}
<1>0. \A j \in I : j \in Nat /\ 1 <= j /\ j <= m
  OBVIOUS
<1>1. \A k \in Nat : IsFiniteSet(Upto(k)) /\ Cardinality(Upto(k)) \in Nat
  <2> TAKE k \in Nat
  <2>1. IsFiniteSet(1..m)
    BY FS_Interval
  <2>2. Upto(k) \in SUBSET (1..m)
    OBVIOUS
  <2> QED
    BY <2>1, <2>2, FS_Subset, FS_CardinalityType
<1>2. I \subseteq Nat /\ n \in Nat /\ n > 0
  <2>1. Upto(m) = I
    BY <1>0
  <2> QED
    BY <1>1, <2>1
<1>3. m \in Enough
  <2>1. Upto(m) = I
    BY <1>0
  <2> QED
    BY <1>1, <2>1
<1>4. PICK k \in Enough : \A l \in Enough : k <= l
  <2> Enough \in SUBSET Nat
    OBVIOUS
  <2> HIDE DEF Enough
  <2> QED
    BY <1>3, SmallestIn
<1>5. k \in Nat /\ Cardinality(Upto(k)) >= n
  OBVIOUS
<1>6. Cardinality(Upto(0)) = 0
  <2>0. \A j \in I : ~ (j <= 0)
    BY <1>0
  <2>1. Upto(0) = {}
    BY <2>0
  <2> QED
    BY <2>1, FS_EmptySet
<1>7. k # 0
  BY <1>2, <1>5, <1>6
<1>8. PICK l \in Nat : k = l + 1
  BY <1>5, <1>7
<1>9. Cardinality(Upto(l)) < n
  <2>1. l \notin Enough
    BY <1>4, <1>8
  <2> QED
    BY <1>1, <1>2, <2>1
<1>10. /\ k \in I => Upto(k) = Upto(l) \cup {k}
       /\ k \notin I => Upto(k) = Upto(l)
       /\ k \notin Upto(l)
  <2>1. \A j \in I : j <= k <=> j <= l \/ j = k
    BY <1>0, <1>8
  <2>2. k > l
    BY <1>8
  <2> QED
    <3>1. k \notin Upto(l)
      BY <1>8, <2>2
    <3>2. CASE k \in I
      <4>1. ASSUME NEW j
            PROVE  j \in Upto(k) <=> j \in Upto(l) \cup {k}
        BY <2>1, <3>2
      <4> QED
        BY <3>1, <3>2, <4>1
    <3>3. CASE k \notin I
      <4>1. ASSUME NEW j
            PROVE  j \in Upto(k) <=> j \in Upto(l)
        BY <2>1, <3>3
      <4> QED
        BY <3>1, <3>3, <4>1
    <3> QED
      BY <3>2, <3>3
<1>11. Cardinality(Upto(l) \cup {k}) = Cardinality(Upto(l)) + 1
  BY <1>1, <1>10, FS_AddElement
<1>12. k \in I
  BY <1>5, <1>9, <1>10, <1>1, <1>2
<1>13. Cardinality(Upto(k)) = n
  <2>1. Cardinality(Upto(k)) = Cardinality(Upto(l)) + 1
    BY <1>10, <1>11, <1>12
  <2> HIDE DEF Upto
  <2> QED
    BY <1>1, <1>2, <1>5, <1>9, <2>1
<1> QED
  BY <1>12, <1>13 DEF Nth

\* The elements kept are a sequence of elements of the sequence and of the set.
LEMMA SelectType ==
  ASSUME NEW T, NEW s \in Seq(T), NEW S
  PROVE  /\ Select(s, S) \in Seq(T)
         /\ Len(Select(s, S)) = Cardinality(Kept(s, S))
         /\ \A n \in 1..Len(Select(s, S)) :
              Select(s, S)[n] \in S /\ \E i \in 1..Len(s) : Select(s, S)[n] = s[i]
<1> DEFINE I == Kept(s, S)
<1>1. I \in SUBSET (1..Len(s)) /\ Len(s) \in Nat
  BY DEF Kept
<1>2. Cardinality(I) \in Nat
  <2>1. IsFiniteSet(1..Len(s))
    BY <1>1, FS_Interval
  <2> QED
    BY <1>1, <2>1, FS_Subset, FS_CardinalityType
<1>3. \A n \in 1..Cardinality(I) : Nth(I, n) \in I
  BY <1>1, NthIn
<1>4. \A n \in 1..Cardinality(I) : s[Nth(I, n)] \in T /\ s[Nth(I, n)] \in S
  BY <1>1, <1>3 DEF Kept
<1>5. Select(s, S) = [n \in 1..Cardinality(I) |-> s[Nth(I, n)]]
  BY DEF Select
<1>6. Select(s, S) \in Seq(T) /\ Len(Select(s, S)) = Cardinality(I)
  <2> HIDE DEF I
  <2> QED
    BY <1>2, <1>4, <1>5
<1> QED
  BY <1>1, <1>3, <1>4, <1>5, <1>6

\* Everything is kept of a sequence whose elements all belong to the set.
LEMMA SelectAll ==
  ASSUME NEW T, NEW s \in Seq(T), NEW S, \A i \in 1..Len(s) : s[i] \in S
  PROVE  Select(s, S) = s
<1> DEFINE m == Len(s)
<1>1. m \in Nat /\ Kept(s, S) = 1..m
  <2>1. m \in Nat
    OBVIOUS
  <2>2. ASSUME NEW i
        PROVE  i \in Kept(s, S) <=> i \in 1..m
    BY DEF Kept
  <2> QED
    BY <2>1, <2>2
<1>2. Cardinality(1..m) = m
  <2>1. 1 \in Int /\ m \in Int /\ m \in Nat
    BY <1>1
  <2> HIDE DEF m
  <2>2. Cardinality(1..m) = IF 1 > m THEN 0 ELSE m - 1 + 1
    BY <2>1, FS_Interval
  <2> QED
    BY <2>1, <2>2
<1>3. ASSUME NEW n \in 1..m
      PROVE  Nth(1..m, n) = n
  <2>1. ASSUME NEW i \in 1..m
        PROVE  Cardinality({j \in 1..m : j <= i}) = i
    <3>1. ASSUME NEW j
          PROVE  j \in {x \in 1..m : x <= i} <=> j \in 1..i
      BY <1>1
    <3>3. {j \in 1..m : j <= i} = 1..i
      BY <3>1
    <3>2. Cardinality(1..i) = i
      BY FS_Interval
    <3> QED
      BY <3>2, <3>3
  <2>2. \E i \in 1..m : Cardinality({j \in 1..m : j <= i}) = n
    BY <2>1
  <2>3. Nth(1..m, n) \in 1..m /\ Cardinality({j \in 1..m : j <= Nth(1..m, n)}) = n
    BY <2>2 DEF Nth
  <2> QED
    BY <2>1, <2>3
<1>4. Select(s, S) = [n \in 1..m |-> s[n]]
  BY <1>1, <1>2, <1>3 DEF Select
<1>5. s = [n \in 1..m |-> s[n]]
  OBVIOUS
<1> QED
  BY <1>4, <1>5

\* Nothing is kept of a sequence none of whose elements belongs to the set.
LEMMA SelectNone ==
  ASSUME NEW s, NEW S, \A i \in 1..Len(s) : s[i] \notin S
  PROVE  Select(s, S) = <<>>
<1>1. Kept(s, S) = {}
  BY DEF Kept
<1>2. Cardinality({}) = 0
  BY FS_EmptySet
<1>3. Select(s, S) = [n \in 1..0 |-> s[Nth({}, n)]]
  BY <1>1, <1>2 DEF Select
<1> QED
  BY <1>3
\* An element of the set is kept, and distinct elements of the selection were at
\* distinct places.
LEMMA SelectKeeps ==
  ASSUME NEW T, NEW s \in Seq(T), NEW S, NEW i \in 1..Len(s), s[i] \in S
  PROVE  \E n \in 1..Len(Select(s, S)) : Select(s, S)[n] = s[i]
<1> DEFINE I == Kept(s, S)
           Upto(k) == {j \in I : j <= k}
           n == Cardinality(Upto(i))
<1>1. I \in SUBSET (1..Len(s)) /\ Len(s) \in Nat /\ i \in I
  BY DEF Kept
<1>2. IsFiniteSet(I)
  <2>1. IsFiniteSet(1..Len(s))
    BY <1>1, FS_Interval
  <2> QED
    BY <1>1, <2>1, FS_Subset
<1>3. \A k : IsFiniteSet(Upto(k)) /\ Cardinality(Upto(k)) \in Nat
             /\ Cardinality(Upto(k)) <= Cardinality(I)
  <2> SUFFICES ASSUME NEW k
               PROVE  IsFiniteSet(Upto(k)) /\ Cardinality(Upto(k)) \in Nat
                      /\ Cardinality(Upto(k)) <= Cardinality(I)
    OBVIOUS
  <2>1. Upto(k) \in SUBSET I
    OBVIOUS
  <2> HIDE DEF I, Upto
  <2> QED
    BY <1>2, <2>1, FS_Subset, FS_CardinalityType
<1>4. n \in 1..Cardinality(I)
  <2>1. i \in Upto(i)
    BY <1>1
  <2>2. n # 0
    <3> HIDE DEF Upto
    <3> QED
      BY <1>3, <2>1, FS_EmptySet
  <2>3. Cardinality(I) \in Nat
    BY <1>2, FS_CardinalityType
  <2> HIDE DEF I, Upto
  <2> QED
    BY <1>3, <2>2, <2>3
<1>5. ASSUME NEW j \in I, NEW k \in I, j < k
      PROVE  Cardinality(Upto(j)) # Cardinality(Upto(k))
  <2>1. Upto(j) \in SUBSET Upto(k) /\ k \in Upto(k) /\ k \notin Upto(j)
    BY <1>1, <1>5
  <2> HIDE DEF I, Upto
  <2>2. Upto(j) # Upto(k)
    BY <2>1
  <2> QED
    BY <1>3, <2>1, <2>2, FS_Subset
<1>6. Nth(I, n) = i
  <2>1. Nth(I, n) \in I /\ Cardinality(Upto(Nth(I, n))) = n
    BY <1>1, <1>4, NthIn
  <2>2. i \in Nat /\ Nth(I, n) \in Nat
    BY <1>1, <2>1
  <2> HIDE DEF I, Upto
  <2>3. Cardinality(Upto(Nth(I, n))) = Cardinality(Upto(i))
    BY <2>1 DEF n
  <2> QED
    BY <1>1, <1>5, <2>1, <2>2, <2>3
<1>7. Len(Select(s, S)) = Cardinality(I)
  BY SelectType
<1> HIDE DEF n, I
<1>8. Select(s, S)[n] = s[i]
  BY <1>4, <1>6 DEF Select, I
<1> QED
  BY <1>4, <1>7, <1>8

-----------------------------------------------------------------------------
(* The inductive invariant *)

\* Instructions, reports and snapshots that name the first n bets only
InstructionAt(n) == [order : Order, bet : 0..n, size : 0..Size]
ReportAt(n) == [status : ReportStatus, bet : 0..n, size : 0..Size, new : 0..n]
WorkAt(n) == [order : Order \cup {NoOrder}, report : ReportAt(n)]
SnapshotAt(n) == UNION {[S -> 0..Size] : S \in SUBSET (1..n)}
PackageAt(n) ==
  [ pc        : PC,
    type      : PackageType,
    orders    : Seq(Order),
    retries   : 0..MaxRetries,
    processed : BOOLEAN,
    instr     : Seq(InstructionAt(n)),
    reports   : Seq(ReportAt(n)),
    work      : Seq(WorkAt(n)),
    subject   : Order \cup {NoOrder} ]

\* Orders: a bet id is that of a bet; a new order has its trade.
OrdersOK ==
  /\ status \in [Order -> OrderStatus]
  /\ trade \in [Order -> Trade \cup {NoTrade}]
  /\ betId \in [Order -> 0..Len(exch)]
  /\ remaining \in [Order -> 0..Size]
  /\ seen \subseteq Order
  /\ reduction \in [Order -> 0..Size]
  /\ newPrice \subseteq Order
  /\ blotter \subseteq Order
  /\ \A o \in Order : status[o] = "New" => trade[o] \in Trade

TradesOK ==
  /\ tstatus \in [Trade -> TradeStatus]
  /\ liveTrades \subseteq Trade

\* Only an order with a bet id is in a cancel, an update or a replace.
HasBets(s) == \A i \in 1..Len(s) : betId[s[i]] # 0

MainOK ==
  /\ pending \in [PackageType -> Seq(Order)]
  /\ executing \in BOOLEAN
  /\ queue \in Seq(SnapshotAt(Len(exch)))
  /\ current \in SnapshotAt(Len(exch))
  /\ \A type \in PackageType \ {"PLACE"} : HasBets(pending[type])

\* Where a thread is about to apply, or has applied, its first report
Applying == {"apply", "clear", "create", "settle", "exit", "release"}
HeadOK(k) ==
  /\ k.work # <<>> /\ Head(k.work).order \in Order
  /\ k.pc = "create" => Head(k.work).report.new # 0

PackagesOK ==
  /\ pkg \in [Package -> PackageAt(Len(exch))]
  /\ \A p \in Package :
       /\ pkg[p].type # "PLACE" =>
            /\ HasBets(pkg[p].orders)
            /\ \A i \in 1..Len(pkg[p].instr) : pkg[p].instr[i].bet # 0
       /\ pkg[p].pc \in Applying => HeadOK(pkg[p])

ExchangeOK == exch \in Seq([ref : Order, left : 0..Size]) /\ Len(exch) <= MaxBets
CountsOK == gaveUp \subseteq Order /\ requests \in Nat /\ restarts \in Nat

TypeInv == OrdersOK /\ TradesOK /\ MainOK /\ PackagesOK /\ ExchangeOK /\ CountsOK

-----------------------------------------------------------------------------
(* What grows with the exchange *)

\* A sequence over a set is one over any larger set.
LEMMA SeqGrows ==
  ASSUME NEW S, NEW T, S \subseteq T, NEW s \in Seq(S)
  PROVE  s \in Seq(T)
BY SeqMonotonic

\* What names one of the first n bets names one of the first m.
LEMMA Grows ==
  ASSUME NEW n \in Nat, NEW m \in Nat, n <= m
  PROVE  /\ 0..n \subseteq 0..m
         /\ InstructionAt(n) \subseteq InstructionAt(m)
         /\ ReportAt(n) \subseteq ReportAt(m)
         /\ WorkAt(n) \subseteq WorkAt(m)
         /\ SnapshotAt(n) \subseteq SnapshotAt(m)
         /\ PackageAt(n) \subseteq PackageAt(m)
<1>1. 0..n \subseteq 0..m
  OBVIOUS
<1>2. InstructionAt(n) \subseteq InstructionAt(m)
  BY <1>1 DEF InstructionAt
<1>3. ReportAt(n) \subseteq ReportAt(m)
  BY <1>1 DEF ReportAt
<1>4. WorkAt(n) \subseteq WorkAt(m)
  BY <1>3 DEF WorkAt
<1>5. SnapshotAt(n) \subseteq SnapshotAt(m)
  <2>1. SUBSET (1..n) \subseteq SUBSET (1..m)
    OBVIOUS
  <2> QED
    BY <2>1 DEF SnapshotAt
<1>6. /\ Seq(InstructionAt(n)) \subseteq Seq(InstructionAt(m))
      /\ Seq(ReportAt(n)) \subseteq Seq(ReportAt(m))
      /\ Seq(WorkAt(n)) \subseteq Seq(WorkAt(m))
  BY <1>2, <1>3, <1>4, SeqMonotonic
<1>7. PackageAt(n) \subseteq PackageAt(m)
  <2>1. Seq(InstructionAt(n)) \subseteq Seq(InstructionAt(m))
    BY <1>6
  <2> QED
    BY <1>6, <2>1 DEF PackageAt
<1> QED
  BY <1>1, <1>2, <1>3, <1>4, <1>5, <1>7

\* A free package names no bet.
LEMMA IdleType ==
  ASSUME NEW n
  PROVE  Idle \in PackageAt(n)
BY BoundAssumption DEF Idle, PackageAt, PC, PackageType

\* The invariant implies the type invariant the runs check.
LEMMA TypeInvImplies ==
  ASSUME TypeInv
  PROVE  TypeOK
<1>1. Len(exch) \in Nat /\ MaxBets \in Nat /\ Len(exch) <= MaxBets
  BY BoundAssumption DEF TypeInv, ExchangeOK
<1>2. /\ PackageAt(MaxBets) = PackageRecord
      /\ SnapshotAt(MaxBets) = Snapshot
  BY DEF PackageAt, PackageRecord, InstructionAt, Instruction, ReportAt, Report, WorkAt, Work,
         SnapshotAt, Snapshot
<1>3. /\ 0..Len(exch) \subseteq 0..MaxBets
      /\ PackageAt(Len(exch)) \subseteq PackageRecord
      /\ SnapshotAt(Len(exch)) \subseteq Snapshot
  BY <1>1, <1>2, Grows
<1>4. queue \in Seq(Snapshot)
  BY <1>3, SeqGrows DEF TypeInv, MainOK
<1>5. betId \in [Order -> 0..MaxBets]
  BY <1>3 DEF TypeInv, OrdersOK
<1>6. pkg \in [Package -> PackageRecord]
  BY <1>3 DEF TypeInv, PackagesOK
<1> QED
  BY <1>3, <1>4, <1>5, <1>6
     DEF TypeInv, OrdersOK, TradesOK, MainOK, ExchangeOK, CountsOK, TypeOK

-----------------------------------------------------------------------------
(* The initial states *)

\* No package, no bet, no order
LEMMA TypeInit ==
  ASSUME Init
  PROVE  TypeInv
<1> USE OrderAssumption, BoundAssumption
<1>1. Len(exch) = 0 /\ exch = <<>>
  BY DEF Init
<1>2. OrdersOK
  BY <1>1 DEF Init, OrdersOK, OrderStatus
<1>3. TradesOK
  BY DEF Init, TradesOK, TradeStatus
<1>4. NoRecords \in SnapshotAt(0)
  <2>1. {} \in SUBSET (1..0) /\ NoRecords \in [{} -> 0..Size]
    BY DEF NoRecords
  <2> QED
    BY <2>1 DEF SnapshotAt
<1>5. MainOK
  <2>1. \A type \in PackageType : pending[type] = <<>>
    BY DEF Init, NoPending
  <2>2. pending \in [PackageType -> Seq(Order)]
    BY DEF Init, NoPending
  <2>3. queue \in Seq(SnapshotAt(Len(exch)))
    BY DEF Init
  <2>4. current \in SnapshotAt(Len(exch)) /\ executing \in BOOLEAN
    BY <1>1, <1>4 DEF Init
  <2>5. \A type \in PackageType : HasBets(pending[type])
    BY <2>1 DEF HasBets
  <2> QED
    BY <2>2, <2>3, <2>4, <2>5 DEF MainOK
<1>6. PackagesOK
  <2>1. Idle \in PackageAt(0)
    BY IdleType
  <2>2. \A p \in Package : pkg[p] = Idle
    BY DEF Init
  <2> QED
    BY <1>1, <2>1, <2>2 DEF Init, PackagesOK, Idle, Applying
<1>7. ExchangeOK /\ CountsOK
  BY DEF Init, ExchangeOK, CountsOK
<1> QED
  BY <1>2, <1>3, <1>5, <1>6, <1>7 DEF TypeInv

-----------------------------------------------------------------------------
(* What the steps have in common *)

\* _update_status never makes an order new again, and keeps the trades' types.
LEMMA UpdateTypes ==
  ASSUME TypeInv, NEW o, NEW s \in OrderStatus, s # "New" \/ s = status[o],
         UpdateStatus(o, s)
  PROVE  /\ status' \in [Order -> OrderStatus]
         /\ \A x \in Order : status'[x] = "New" => status[x] = "New"
         /\ TradesOK'
<1>1. status' = [status EXCEPT ![o] = s]
  BY DEF UpdateStatus
<1>2. TradesOK'
  <2>1. CASE CompleteTrade(trade[o])
    BY <2>1 DEF CompleteTrade, TypeInv, TradesOK, TradeStatus
  <2>2. CASE UNCHANGED tradeVars
    BY <2>2 DEF tradeVars, TypeInv, TradesOK
  <2> QED
    BY <2>1, <2>2 DEF UpdateStatus
<1> QED
  BY <1>1, <1>2 DEF TypeInv, OrdersOK

\* update_data.clear()
LEMMA ClearTypes ==
  ASSUME TypeInv, NEW o, ClearData(o)
  PROVE  reduction' \in [Order -> 0..Size] /\ newPrice' \subseteq Order
<1>1. /\ reduction \in [Order -> 0..Size] /\ newPrice \subseteq Order
      /\ reduction' = [reduction EXCEPT ![o] = 0] /\ newPrice' = newPrice \ {o}
  BY DEF TypeInv, OrdersOK, ClearData
<1>2. 0 \in 0..Size
  BY BoundAssumption
<1> QED
  BY <1>1, <1>2

\* No order loses its bet id but in a restart.
BetsKept == \A o \in Order : betId[o] # 0 => betId'[o] # 0

\* A step that leaves the packages, or all but one, as they are
LEMMA PackagesKept ==
  ASSUME TypeInv, BetsKept, Len(exch') \in Nat, Len(exch) <= Len(exch'), UNCHANGED pkg
  PROVE  PackagesOK'
<1>1. Len(exch) \in Nat
  BY DEF TypeInv, ExchangeOK
<1>2. PackageAt(Len(exch)) \subseteq PackageAt(Len(exch'))
  BY <1>1, Grows
<1>3. ASSUME NEW q \in Package, pkg[q].type # "PLACE"
      PROVE  HasBets(pkg[q].orders)'
  <2>1. HasBets(pkg[q].orders) /\ pkg[q].orders \in Seq(Order)
    BY <1>3 DEF TypeInv, PackagesOK, PackageAt
  <2> QED
    BY <2>1 DEF HasBets, BetsKept
<1> QED
  BY <1>2, <1>3 DEF TypeInv, PackagesOK

LEMMA OnePackage ==
  ASSUME TypeInv, BetsKept, Len(exch') \in Nat, Len(exch) <= Len(exch'),
         NEW p \in Package, NEW k \in PackageAt(Len(exch')),
         pkg' = [pkg EXCEPT ![p] = k],
         k.type # "PLACE" => /\ \A i \in 1..Len(k.orders) : betId'[k.orders[i]] # 0
                             /\ \A i \in 1..Len(k.instr) : k.instr[i].bet # 0,
         k.pc \in Applying => HeadOK(k)
  PROVE  PackagesOK'
<1>1. Len(exch) \in Nat
  BY DEF TypeInv, ExchangeOK
<1>2. PackageAt(Len(exch)) \subseteq PackageAt(Len(exch'))
  BY <1>1, Grows
<1>3. pkg' \in [Package -> PackageAt(Len(exch'))]
  BY <1>2 DEF TypeInv, PackagesOK
<1>4. ASSUME NEW q \in Package, q # p
      PROVE  /\ pkg'[q] = pkg[q]
             /\ pkg[q].type # "PLACE" => HasBets(pkg[q].orders)'
  <2>1. pkg'[q] = pkg[q]
    BY <1>4 DEF TypeInv, PackagesOK
  <2>2. pkg[q].orders \in Seq(Order)
    BY DEF TypeInv, PackagesOK, PackageAt
  <2> QED
    BY <2>1, <2>2 DEF HasBets, BetsKept, TypeInv, PackagesOK
<1>5. pkg'[p] = k
  BY DEF TypeInv, PackagesOK
<1>6. ASSUME NEW q \in Package
      PROVE  /\ pkg'[q].type # "PLACE" =>
                  /\ HasBets(pkg[q].orders)'
                  /\ \A i \in 1..Len(pkg'[q].instr) : pkg'[q].instr[i].bet # 0
             /\ pkg'[q].pc \in Applying => HeadOK(pkg'[q])
  <2>1. CASE q = p
    BY <1>5, <2>1 DEF HasBets
  <2>2. CASE q # p
    BY <1>4, <2>2 DEF TypeInv, PackagesOK
  <2> QED
    BY <2>1, <2>2
<1> QED
  BY <1>3, <1>6 DEF PackagesOK, HasBets

\* A step that leaves the main thread's transaction and its events as they are
LEMMA MainKept ==
  ASSUME TypeInv, BetsKept, Len(exch') \in Nat, Len(exch) <= Len(exch'), UNCHANGED mainVars
  PROVE  MainOK'
<1>1. Len(exch) \in Nat
  BY DEF TypeInv, ExchangeOK
<1>2. SnapshotAt(Len(exch)) \subseteq SnapshotAt(Len(exch'))
  BY <1>1, Grows
<1>3. queue \in Seq(SnapshotAt(Len(exch')))
  BY <1>2, SeqGrows DEF TypeInv, MainOK
<1>4. ASSUME NEW type \in PackageType \ {"PLACE"}
      PROVE  HasBets(pending[type])'
  <2>1. HasBets(pending[type]) /\ pending[type] \in Seq(Order)
    BY DEF TypeInv, MainOK
  <2>2. pending' = pending
    BY DEF mainVars
  <2> QED
    BY <2>1, <2>2 DEF HasBets, BetsKept
<1> QED
  BY <1>2, <1>3, <1>4 DEF TypeInv, MainOK, mainVars

\* A step that leaves the orders as they are
LEMMA OrdersKept ==
  ASSUME TypeInv, Len(exch') \in Nat, Len(exch) <= Len(exch'), UNCHANGED orderVars
  PROVE  OrdersOK' /\ BetsKept
<1>1. Len(exch) \in Nat
  BY DEF TypeInv, ExchangeOK
<1>2. 0..Len(exch) \subseteq 0..Len(exch')
  BY <1>1, Grows
<1> QED
  BY <1>2 DEF TypeInv, OrdersOK, orderVars, BetsKept

\* An order joins the transaction.
LEMMA OrderJoins ==
  ASSUME TypeInv, BetsKept, exch' = exch, UNCHANGED <<executing, queue, current>>,
         NEW o \in Order, NEW type \in PackageType, type # "PLACE" => betId'[o] # 0,
         pending' = [pending EXCEPT ![type] = Append(@, o)]
  PROVE  MainOK'
<1>1. \A x \in PackageType : pending[x] \in Seq(Order)
  BY DEF TypeInv, MainOK
<1>2. pending' \in [PackageType -> Seq(Order)]
  BY <1>1 DEF TypeInv, MainOK
<1>3. ASSUME NEW x \in PackageType \ {"PLACE"}
      PROVE  HasBets(pending[x])'
  <2>1. HasBets(pending[x])
    BY DEF TypeInv, MainOK
  <2>2. CASE x # type
    <3>1. pending'[x] = pending[x]
      BY <2>2 DEF TypeInv, MainOK
    <3> QED
      BY <1>1, <2>1, <3>1 DEF HasBets, BetsKept
  <2>3. CASE x = type
    <3>1. pending'[x] = Append(pending[x], o)
      BY <2>3 DEF TypeInv, MainOK
    <3>2. \A i \in 1..Len(pending[x]) : betId'[pending[x][i]] # 0
      BY <1>1, <2>1 DEF HasBets, BetsKept
    <3>3. ASSUME NEW i \in 1..Len(pending'[x])
          PROVE  betId'[pending'[x][i]] # 0
      BY <1>1, <2>3, <3>1, <3>2
    <3> QED
      BY <3>3 DEF HasBets
  <2> QED
    BY <2>2, <2>3
<1> QED
  BY <1>2, <1>3 DEF TypeInv, MainOK

\* A record of the snapshot is that of a bet, and what is left is a snapshot.
LEMMA RecordTypes ==
  ASSUME TypeInv, NEW b \in DOMAIN current
  PROVE  /\ b \in 1..Len(exch) /\ b \in 0..Len(exch)
         /\ current[b] \in 0..Size
         /\ exch[b].ref \in Order
         /\ [c \in DOMAIN current \ {b} |-> current[c]] \in SnapshotAt(Len(exch))
<1>1. PICK S \in SUBSET (1..Len(exch)) : current \in [S -> 0..Size]
  BY DEF TypeInv, MainOK, SnapshotAt
<1>2. b \in 1..Len(exch) /\ current[b] \in 0..Size
  BY <1>1
<1>3. exch[b].ref \in Order
  <2>1. exch[b] \in [ref : Order, left : 0..Size]
    BY <1>2, ElementOfSeq DEF TypeInv, ExchangeOK
  <2> QED
    BY <2>1
<1>4. [c \in DOMAIN current \ {b} |-> current[c]] \in [S \ {b} -> 0..Size]
  BY <1>1
<1>5. S \ {b} \in SUBSET (1..Len(exch))
  OBVIOUS
<1>6. [c \in DOMAIN current \ {b} |-> current[c]] \in SnapshotAt(Len(exch))
  BY <1>4, <1>5 DEF SnapshotAt
<1> QED
  BY <1>2, <1>3, <1>6

-----------------------------------------------------------------------------
(* The steps of the main thread *)

\* The strategy's callbacks and its transaction (Transaction, Trade, BaseStrategy)
LEMMA TransactionStep ==
  ASSUME TypeInv,
         \/ Strategy
         \/ \E o \in Order : PlaceOrder(o) \/ RejectPlace(o)
         \/ \E i \in 1..4 : Execute(i)
  PROVE  TypeInv'
<1> USE OrderAssumption, BoundAssumption, StrategyAssumption
<1>0. Len(exch) \in Nat
  BY DEF TypeInv, ExchangeOK
<1>1. ASSUME NEW o \in Order, NEW t \in Trade, CreateOrder(o, t)
      PROVE  TypeInv'
  <2>1. /\ status' = [status EXCEPT ![o] = "New"] /\ trade' = [trade EXCEPT ![o] = t]
        /\ UNCHANGED <<betId, remaining, seen, reduction, newPrice, blotter, tradeVars,
                       mainVars, pkg, exch, gaveUp, boundVars>>
    BY <1>1 DEF CreateOrder
  <2>2. OrdersOK' /\ BetsKept
    BY <2>1 DEF TypeInv, OrdersOK, BetsKept, OrderStatus
  <2>3. TradesOK' /\ ExchangeOK' /\ CountsOK'
    BY <2>1 DEF TypeInv, TradesOK, ExchangeOK, CountsOK, tradeVars, boundVars
  <2> QED
    BY <1>0, <2>1, <2>2, <2>3, MainKept, PackagesKept DEF TypeInv
<1>2. ASSUME NEW o \in Order, PlaceOrder(o)
      PROVE  TypeInv'
  <2>1. /\ status' = [status EXCEPT ![o] = "PENDING"] /\ blotter' = blotter \cup {o}
        /\ liveTrades' = liveTrades \cup {trade[o]}
        /\ pending' = [pending EXCEPT !["PLACE"] = Append(@, o)]
        /\ UNCHANGED <<trade, betId, remaining, seen, reduction, newPrice, tstatus,
                       executing, queue, current, pkg, exch, gaveUp, boundVars>>
    BY <1>2 DEF PlaceOrder
  <2>2. OrdersOK' /\ BetsKept
    BY <2>1 DEF TypeInv, OrdersOK, BetsKept, OrderStatus
  <2>3. TradesOK'
    <3>1. trade[o] \in Trade
      BY <1>2 DEF PlaceOrder, TypeInv, OrdersOK
    <3> QED
      BY <2>1, <3>1 DEF TypeInv, TradesOK
  <2>4. MainOK'
    BY <2>1, <2>2, OrderJoins DEF PackageType
  <2>5. ExchangeOK' /\ CountsOK'
    BY <2>1 DEF TypeInv, ExchangeOK, CountsOK, boundVars
  <2> QED
    BY <1>0, <2>1, <2>2, <2>3, <2>4, <2>5, PackagesKept DEF TypeInv
<1>3. ASSUME NEW o \in Order, RejectPlace(o)
      PROVE  TypeInv'
  <2>1. /\ UpdateStatus(o, "VIOLATION") /\ ClearData(o)
        /\ UNCHANGED <<trade, betId, remaining, seen, blotter, mainVars, pkg, exch, gaveUp,
                       boundVars>>
    BY <1>3 DEF RejectPlace
  <2>2. /\ status' \in [Order -> OrderStatus]
        /\ \A x \in Order : status'[x] = "New" => status[x] = "New"
        /\ TradesOK'
    BY <2>1, UpdateTypes DEF OrderStatus
  <2>0. reduction' \in [Order -> 0..Size] /\ newPrice' \subseteq Order
    BY <2>1, ClearTypes
  <2>3. OrdersOK' /\ BetsKept
    BY <2>0, <2>1, <2>2 DEF TypeInv, OrdersOK, BetsKept
  <2>4. ExchangeOK' /\ CountsOK'
    BY <2>1 DEF TypeInv, ExchangeOK, CountsOK, boundVars
  <2> QED
    BY <1>0, <2>1, <2>2, <2>3, <2>4, MainKept, PackagesKept DEF TypeInv
<1>4. ASSUME NEW o \in Order, CancelOrder(o) \/ UpdateOrder(o) \/ ReplaceOrder(o)
      PROVE  TypeInv'
  <2>1. PICK type \in {"CANCEL", "UPDATE", "REPLACE"} : Request(o, type) /\ Accept(o, type)
    BY <1>4 DEF CancelOrder, UpdateOrder, ReplaceOrder
  <2>2. /\ betId[o] # 0 /\ requests' = requests + 1
        /\ UNCHANGED <<trade, betId, remaining, seen, blotter, executing, queue, current,
                       pkg, exch, gaveUp, restarts>>
    BY <2>1 DEF Request
  <2>3. Requested[type] \in OrderStatus /\ Requested[type] # "New"
    BY <2>1 DEF Requested, OrderStatus
  <2>4. /\ status' \in [Order -> OrderStatus]
        /\ \A x \in Order : status'[x] = "New" => status[x] = "New"
        /\ TradesOK'
    BY <2>1, <2>3, UpdateTypes DEF Accept
  <2>5. reduction' \in [Order -> 0..Size] /\ newPrice' \subseteq Order
    BY <1>4 DEF CancelOrder, UpdateOrder, ReplaceOrder, TypeInv, OrdersOK
  <2>6. OrdersOK' /\ BetsKept
    BY <2>2, <2>4, <2>5 DEF TypeInv, OrdersOK, BetsKept
  <2>7. MainOK'
    <3>1. type \in PackageType /\ type # "PLACE"
      BY DEF PackageType
    <3>2. pending' = [pending EXCEPT ![type] = Append(@, o)]
      BY <2>1 DEF Accept
    <3> QED
      BY <2>2, <2>6, <3>1, <3>2, OrderJoins
  <2>8. ExchangeOK' /\ CountsOK'
    BY <2>2 DEF TypeInv, ExchangeOK, CountsOK
  <2> QED
    BY <1>0, <2>2, <2>4, <2>6, <2>7, <2>8, PackagesKept DEF TypeInv
<1>5. ASSUME NEW o \in Order, RejectRequest(o)
      PROVE  TypeInv'
  <2>1. /\ requests' = requests + 1
        /\ UNCHANGED <<trade, betId, remaining, seen, blotter, executing, queue, current,
                       pkg, exch, gaveUp, restarts, pending>>
        /\ UpdateStatus(o, "VIOLATION") /\ ClearData(o)
    BY <1>5 DEF RejectRequest, mainVars
  <2>2. /\ status' \in [Order -> OrderStatus]
        /\ \A x \in Order : status'[x] = "New" => status[x] = "New"
        /\ TradesOK'
    BY <2>1, UpdateTypes DEF OrderStatus
  <2>0. reduction' \in [Order -> 0..Size] /\ newPrice' \subseteq Order
    BY <2>1, ClearTypes
  <2>3. OrdersOK' /\ BetsKept
    BY <2>0, <2>1, <2>2 DEF TypeInv, OrdersOK, BetsKept
  <2>4. ExchangeOK' /\ CountsOK'
    BY <2>1 DEF TypeInv, ExchangeOK, CountsOK
  <2>5. UNCHANGED mainVars
    BY <2>1 DEF mainVars
  <2> QED
    BY <1>0, <2>1, <2>2, <2>3, <2>4, <2>5, MainKept, PackagesKept DEF TypeInv
<1>6. ASSUME NEW i \in 1..4, Execute(i)
      PROVE  TypeInv'
  <2> DEFINE type == PackageOrder[i]
             p == Fresh(FreePackages)
             k == [Idle EXCEPT !.pc = "queued", !.type = type, !.orders = pending[type]]
  <2>1. /\ FreePackages # {}
        /\ pkg' = [pkg EXCEPT ![p] = k]
        /\ pending' = [pending EXCEPT ![type] = <<>>]
        /\ executing' \in BOOLEAN
        /\ UNCHANGED <<orderVars, tradeVars, queue, current, exch, gaveUp, boundVars>>
    BY <1>6 DEF Execute
  <2>2. type \in PackageType
    BY DEF PackageOrder, PackageType
  <2>3. p \in Package
    <3>1. p \in FreePackages
      BY <2>1 DEF Fresh
    <3> QED
      BY <3>1 DEF FreePackages
  <2>4. OrdersOK' /\ BetsKept
    BY <1>0, <2>1, OrdersKept
  <2>5. TradesOK' /\ ExchangeOK' /\ CountsOK'
    BY <2>1 DEF TypeInv, TradesOK, ExchangeOK, CountsOK, tradeVars, boundVars
  <2>6. pending[type] \in Seq(Order) /\ (type # "PLACE" => HasBets(pending[type]))
    BY <2>2 DEF TypeInv, MainOK
  <2>7. PackagesOK'
    <3>1. /\ k.type = type /\ k.orders = pending[type] /\ k.instr = <<>> /\ k.pc = "queued"
      BY DEF Idle
    <3>2. k \in PackageAt(Len(exch))
      BY <2>2, <2>6, IdleType DEF PackageAt, PC
    <3>3. Len(exch') = Len(exch) /\ betId' = betId
      BY <2>1 DEF orderVars
    <3>4. \A j \in 1..Len(k.instr) : k.instr[j].bet # 0
      BY <3>1
    <3>5. k.type # "PLACE" => \A j \in 1..Len(k.orders) : betId'[k.orders[j]] # 0
      BY <2>6, <3>1, <3>3 DEF HasBets
    <3>6. k.pc \notin Applying
      BY <3>1 DEF Applying
    <3>7. /\ Len(exch') \in Nat /\ Len(exch) <= Len(exch') /\ BetsKept
          /\ k \in PackageAt(Len(exch')) /\ pkg' = [pkg EXCEPT ![p] = k]
      BY <1>0, <2>1, <2>4, <3>2, <3>3
    <3> HIDE DEF k, p, type
    <3> QED
      BY <2>3, <3>4, <3>5, <3>6, <3>7, OnePackage
  <2>8. MainOK'
    <3>1. pending' \in [PackageType -> Seq(Order)]
      BY <2>1, <2>2 DEF TypeInv, MainOK
    <3>2. ASSUME NEW x \in PackageType \ {"PLACE"}
          PROVE  HasBets(pending[x])'
      <4>1. pending'[x] = pending[x] \/ pending'[x] = <<>>
        BY <2>1 DEF TypeInv, MainOK
      <4>2. betId' = betId
        BY <2>1 DEF orderVars
      <4> QED
        BY <4>1, <4>2 DEF HasBets, TypeInv, MainOK
    <3> QED
      BY <2>1, <3>1, <3>2 DEF TypeInv, MainOK
  <2> QED
    BY <2>4, <2>5, <2>7, <2>8 DEF TypeInv
<1> QED
  BY <1>1, <1>2, <1>3, <1>4, <1>5, <1>6 DEF Strategy

\* The events of the order stream (order/process.py)
LEMMA EventStep ==
  ASSUME TypeInv,
         \/ NextSnapshot
         \/ \E b \in Bets :
              ProcessCurrentOrder(b) \/ SkipCurrentOrder(b) \/ CreateOrderFromCurrent(b)
  PROVE  TypeInv'
<1> USE OrderAssumption, BoundAssumption
<1>0. Len(exch) \in Nat
  BY DEF TypeInv, ExchangeOK
<1>1. CASE NextSnapshot
  <2>1. /\ queue # <<>> /\ current' = Head(queue) /\ queue' = Tail(queue)
        /\ UNCHANGED <<orderVars, tradeVars, pending, executing, pkg, exch, gaveUp, boundVars>>
    BY <1>1 DEF NextSnapshot
  <2>2. OrdersOK' /\ BetsKept
    BY <1>0, <2>1, OrdersKept
  <2>3. queue \in Seq(SnapshotAt(Len(exch)))
    BY DEF TypeInv, MainOK
  <2>4. current' \in SnapshotAt(Len(exch)) /\ queue' \in Seq(SnapshotAt(Len(exch)))
    BY <2>1, <2>3
  <2>5. MainOK'
    BY <2>1, <2>4 DEF TypeInv, MainOK, HasBets, orderVars
  <2>6. TradesOK' /\ ExchangeOK' /\ CountsOK'
    BY <2>1 DEF TypeInv, TradesOK, ExchangeOK, CountsOK, tradeVars, boundVars
  <2> QED
    BY <1>0, <2>1, <2>2, <2>5, <2>6, PackagesKept DEF TypeInv
<1>2. ASSUME NEW b \in Bets, ProcessCurrentOrder(b)
      PROVE  TypeInv'
  <2> DEFINE o == OrderOf(b)
             bet == IF AsyncPlace /\ betId[o] = 0 THEN b ELSE betId[o]
             s == NewStatus(o, bet, current[b])
  <2>1. /\ b \in DOMAIN current /\ o # NoOrder
        /\ remaining' = [remaining EXCEPT ![o] = current[b]]
        /\ seen' = seen \cup {o}
        /\ betId' = [betId EXCEPT ![o] = bet]
        /\ \/ s = status[o] /\ UNCHANGED <<status, reduction, newPrice, tradeVars>>
           \/ s # status[o] /\ UpdateStatus(o, s) /\ ClearData(o)
        /\ current' = [c \in DOMAIN current \ {b} |-> current[c]]
        /\ UNCHANGED <<trade, blotter, pending, executing, queue, pkg, exch, gaveUp, boundVars>>
    BY <1>2 DEF ProcessCurrentOrder
  <2>2. /\ b \in 1..Len(exch) /\ b \in 0..Len(exch) /\ current[b] \in 0..Size
        /\ exch[b].ref \in Order /\ current' \in SnapshotAt(Len(exch))
    BY <2>1, RecordTypes
  <2>3. o \in Order
    <3>1. \A x \in blotter : x \in Order
      BY DEF TypeInv, OrdersOK
    <3> QED
      BY <2>1, <2>2, <3>1 DEF OrderOf
  <2>4. s = status[o] \/ (s \in OrderStatus /\ s # "New")
    BY DEF NewStatus, OrderStatus
  <2> HIDE DEF o, s
  <2>5. /\ status' \in [Order -> OrderStatus]
        /\ \A x \in Order : status'[x] = "New" => status[x] = "New"
        /\ TradesOK'
        /\ reduction' \in [Order -> 0..Size] /\ newPrice' \subseteq Order
    <3>1. CASE UNCHANGED <<status, reduction, newPrice, tradeVars>>
      BY <3>1 DEF TypeInv, OrdersOK, TradesOK, tradeVars
    <3>2. CASE s # status[o] /\ UpdateStatus(o, s) /\ ClearData(o)
      BY <2>3, <2>4, <3>2, UpdateTypes, ClearTypes
    <3> QED
      BY <2>1, <3>1, <3>2
  <2>6. betId' \in [Order -> 0..Len(exch)] /\ BetsKept
    BY <2>1, <2>2, <2>3 DEF TypeInv, OrdersOK, BetsKept
  <2>7. remaining' \in [Order -> 0..Size] /\ seen' \subseteq Order
    BY <2>1, <2>2, <2>3 DEF TypeInv, OrdersOK
  <2>8. OrdersOK'
    BY <2>1, <2>5, <2>6, <2>7 DEF TypeInv, OrdersOK
  <2>9. MainOK'
    <3>1. ASSUME NEW type \in PackageType \ {"PLACE"}
          PROVE  HasBets(pending[type])'
      BY <2>1, <2>6 DEF TypeInv, MainOK, HasBets, BetsKept
    <3> QED
      BY <2>1, <2>2, <3>1 DEF TypeInv, MainOK
  <2>10. ExchangeOK' /\ CountsOK'
    BY <2>1 DEF TypeInv, ExchangeOK, CountsOK, boundVars
  <2> QED
    BY <1>0, <2>1, <2>5, <2>6, <2>8, <2>9, <2>10, PackagesKept DEF TypeInv
<1>3. ASSUME NEW b \in Bets, SkipCurrentOrder(b)
      PROVE  TypeInv'
  <2>1. /\ b \in DOMAIN current
        /\ current' = [c \in DOMAIN current \ {b} |-> current[c]]
        /\ UNCHANGED <<orderVars, tradeVars, pending, executing, queue, pkg, exch, gaveUp,
                       boundVars>>
    BY <1>3 DEF SkipCurrentOrder
  <2>2. current' \in SnapshotAt(Len(exch))
    BY <2>1, RecordTypes
  <2>3. OrdersOK' /\ BetsKept
    BY <1>0, <2>1, OrdersKept
  <2>4. MainOK'
    BY <2>1, <2>2 DEF TypeInv, MainOK, HasBets, orderVars
  <2>5. TradesOK' /\ ExchangeOK' /\ CountsOK'
    BY <2>1 DEF TypeInv, TradesOK, ExchangeOK, CountsOK, tradeVars, boundVars
  <2> QED
    BY <1>0, <2>1, <2>3, <2>4, <2>5, PackagesKept DEF TypeInv
<1>4. ASSUME NEW b \in Bets, CreateOrderFromCurrent(b)
      PROVE  TypeInv'
  <2> DEFINE o == exch[b].ref
             t == Fresh(UnusedTrades)
             s == IF current[b] > 0 THEN "EXECUTABLE" ELSE "EXECUTION_COMPLETE"
  <2>1. /\ b \in DOMAIN current /\ UnusedTrades # {}
        /\ trade' = [trade EXCEPT ![o] = t]
        /\ betId' = [betId EXCEPT ![o] = b]
        /\ blotter' = blotter \cup {o}
        /\ status' = [status EXCEPT ![o] = s]
        /\ IF s = "EXECUTION_COMPLETE" THEN CompleteTrade(t)
           ELSE liveTrades' = liveTrades \cup {t} /\ UNCHANGED tstatus
        /\ remaining' = [remaining EXCEPT ![o] = current[b]]
        /\ seen' = seen \cup {o}
        /\ current' = [c \in DOMAIN current \ {b} |-> current[c]]
        /\ UNCHANGED <<reduction, newPrice, pending, executing, queue, pkg, exch, gaveUp,
                       boundVars>>
    BY <1>4 DEF CreateOrderFromCurrent
  <2>2. /\ b \in 1..Len(exch) /\ b \in 0..Len(exch) /\ current[b] \in 0..Size
        /\ o \in Order /\ current' \in SnapshotAt(Len(exch))
    BY <2>1, RecordTypes
  <2>3. t \in Trade
    <3>1. t \in UnusedTrades
      BY <2>1 DEF Fresh
    <3> QED
      BY <3>1 DEF UnusedTrades
  <2>4. s \in OrderStatus /\ s # "New"
    BY DEF OrderStatus
  <2> HIDE DEF o, t, s
  <2>5. TradesOK'
    BY <2>1, <2>3 DEF TypeInv, TradesOK, CompleteTrade, TradeStatus
  <2>6. betId' \in [Order -> 0..Len(exch)] /\ BetsKept
    BY <2>1, <2>2 DEF TypeInv, OrdersOK, BetsKept
  <2>7. /\ remaining' \in [Order -> 0..Size] /\ seen' \subseteq Order
        /\ blotter' \subseteq Order
        /\ status' \in [Order -> OrderStatus] /\ trade' \in [Order -> Trade \cup {NoTrade}]
        /\ \A x \in Order : status'[x] = "New" => trade'[x] \in Trade
    BY <2>1, <2>2, <2>3, <2>4 DEF TypeInv, OrdersOK
  <2>8. OrdersOK'
    BY <2>1, <2>6, <2>7 DEF TypeInv, OrdersOK
  <2>9. MainOK'
    <3>1. ASSUME NEW type \in PackageType \ {"PLACE"}
          PROVE  HasBets(pending[type])'
      BY <2>1, <2>6 DEF TypeInv, MainOK, HasBets, BetsKept
    <3> QED
      BY <2>1, <2>2, <3>1 DEF TypeInv, MainOK
  <2>10. ExchangeOK' /\ CountsOK'
    BY <2>1 DEF TypeInv, ExchangeOK, CountsOK, boundVars
  <2> QED
    BY <1>0, <2>1, <2>5, <2>6, <2>8, <2>9, <2>10, PackagesKept DEF TypeInv
<1> QED
  BY <1>1, <1>2, <1>3, <1>4

\* The order stream, the market and a restart of the process
LEMMA EnvironmentStep ==
  ASSUME TypeInv, Snap \/ Restart \/ \E b \in Bets : ExchangeMatch(b)
  PROVE  TypeInv'
<1> USE OrderAssumption, BoundAssumption
<1>0. Len(exch) \in Nat /\ exch \in Seq([ref : Order, left : 0..Size])
  BY DEF TypeInv, ExchangeOK
<1>1. CASE Snap
  <2> DEFINE view == [b \in Bets |-> exch[b].left]
  <2>1. /\ queue' = Append(queue, view)
        /\ UNCHANGED <<orderVars, tradeVars, pending, executing, current, pkg, exch, gaveUp,
                       boundVars>>
    BY <1>1 DEF Snap
  <2>2. view \in SnapshotAt(Len(exch))
    <3>1. ASSUME NEW b \in 1..Len(exch)
          PROVE  exch[b].left \in 0..Size
      <4>1. exch[b] \in [ref : Order, left : 0..Size]
        BY <1>0, ElementOfSeq
      <4> QED
        BY <4>1
    <3>2. view \in [1..Len(exch) -> 0..Size]
      BY <3>1 DEF Bets
    <3>3. 1..Len(exch) \in SUBSET (1..Len(exch))
      OBVIOUS
    <3> HIDE DEF view
    <3> QED
      BY <3>2, <3>3 DEF SnapshotAt
  <2>3. queue' \in Seq(SnapshotAt(Len(exch)))
    <3> HIDE DEF view
    <3> QED
      BY <2>1, <2>2 DEF TypeInv, MainOK
  <2>4. OrdersOK' /\ BetsKept
    BY <1>0, <2>1, OrdersKept
  <2>5. MainOK'
    BY <2>1, <2>3 DEF TypeInv, MainOK, HasBets, orderVars
  <2>6. TradesOK' /\ ExchangeOK' /\ CountsOK'
    BY <2>1 DEF TypeInv, TradesOK, ExchangeOK, CountsOK, tradeVars, boundVars
  <2> QED
    BY <1>0, <2>1, <2>4, <2>5, <2>6, PackagesKept DEF TypeInv
<1>2. ASSUME NEW b \in Bets, ExchangeMatch(b)
      PROVE  TypeInv'
  <2>1. PICK left \in 0..(exch[b].left - 1) : exch' = [exch EXCEPT ![b].left = left]
    BY <1>2 DEF ExchangeMatch
  <2>2. UNCHANGED <<orderVars, tradeVars, mainVars, pkg, gaveUp, boundVars>>
    BY <1>2 DEF ExchangeMatch
  <2>3. b \in 1..Len(exch) /\ exch[b] \in [ref : Order, left : 0..Size]
    BY <1>0, ElementOfSeq DEF Bets
  <2>4. left \in 0..Size
    BY <2>3
  <2>5. [exch[b] EXCEPT !.left = left] \in [ref : Order, left : 0..Size]
    BY <2>3, <2>4
  <2>6. exch' = [exch EXCEPT ![b] = [exch[b] EXCEPT !.left = left]]
    BY <2>1
  <2>7. exch' \in Seq([ref : Order, left : 0..Size]) /\ Len(exch') = Len(exch)
    BY <1>0, <2>3, <2>5, <2>6, ExceptSeq
  <2>8. OrdersOK' /\ BetsKept
    BY <1>0, <2>2, <2>7, OrdersKept
  <2>9. TradesOK' /\ ExchangeOK' /\ CountsOK'
    BY <2>2, <2>7 DEF TypeInv, TradesOK, ExchangeOK, CountsOK, tradeVars, boundVars
  <2> QED
    BY <1>0, <2>2, <2>7, <2>8, <2>9, PackagesKept, MainKept DEF TypeInv
<1>3. CASE Restart
  <2>1. OrdersOK'
    BY <1>0, <1>3 DEF Restart, OrdersOK, OrderStatus
  <2>2. TradesOK'
    BY <1>3 DEF Restart, TradesOK, TradeStatus
  <2>3. NoRecords \in SnapshotAt(Len(exch))
    <3>1. {} \in SUBSET (1..Len(exch)) /\ NoRecords \in [{} -> 0..Size]
      BY DEF NoRecords
    <3> QED
      BY <3>1 DEF SnapshotAt
  <2>4. MainOK'
    <3>1. /\ pending' = [type \in PackageType |-> <<>>] /\ executing' = FALSE
          /\ queue' = <<>> /\ current' = NoRecords /\ exch' = exch
      BY <1>3 DEF Restart, NoPending
    <3>2. pending' \in [PackageType -> Seq(Order)]
      BY <3>1
    <3>3. queue' \in Seq(SnapshotAt(Len(exch)))
      BY <3>1
    <3>4. \A type \in PackageType : HasBets(pending[type])'
      BY <3>1 DEF HasBets
    <3> QED
      BY <2>3, <3>1, <3>2, <3>3, <3>4 DEF MainOK
  <2>5. PackagesOK'
    <3>1. \A p \in Package : pkg'[p] = Idle
      BY <1>3 DEF Restart
    <3>2. pkg' \in [Package -> PackageAt(Len(exch'))]
      BY <1>3, IdleType DEF Restart
    <3> QED
      BY <3>1, <3>2 DEF PackagesOK, Idle, Applying
  <2>6. ExchangeOK' /\ CountsOK'
    BY <1>3 DEF Restart, TypeInv, ExchangeOK, CountsOK
  <2> QED
    BY <2>1, <2>2, <2>4, <2>5, <2>6 DEF TypeInv
<1> QED
  BY <1>1, <1>2, <1>3

-----------------------------------------------------------------------------
(* The steps of the pool threads *)

\* The fields of a package, and what its type says of its orders
LEMMA PackageFields ==
  ASSUME TypeInv, NEW p \in Package
  PROVE  /\ pkg[p] \in PackageAt(Len(exch)) /\ Len(exch) \in Nat
         /\ pkg[p].orders \in Seq(Order) /\ pkg[p].type \in PackageType
         /\ pkg[p].instr \in Seq(InstructionAt(Len(exch)))
         /\ pkg[p].reports \in Seq(ReportAt(Len(exch)))
         /\ pkg[p].work \in Seq(WorkAt(Len(exch)))
         /\ pkg[p].type # "PLACE" =>
              /\ \A i \in 1..Len(pkg[p].orders) : betId[pkg[p].orders[i]] # 0
              /\ \A i \in 1..Len(pkg[p].instr) : pkg[p].instr[i].bet # 0
BY DEF TypeInv, PackagesOK, PackageAt, ExchangeOK, HasBets

\* A thread step that changes nothing but its package
LEMMA PackageStep ==
  ASSUME TypeInv, NEW p \in Package, NEW k \in PackageAt(Len(exch)),
         pkg' = [pkg EXCEPT ![p] = k],
         k.type # "PLACE" => /\ \A i \in 1..Len(k.orders) : betId[k.orders[i]] # 0
                             /\ \A i \in 1..Len(k.instr) : k.instr[i].bet # 0,
         k.pc \in Applying => HeadOK(k),
         gaveUp' \subseteq Order,
         UNCHANGED <<orderVars, tradeVars, mainVars, exch, boundVars>>
  PROVE  TypeInv'
<1>1. Len(exch) \in Nat /\ exch' = exch /\ betId' = betId
  BY DEF TypeInv, ExchangeOK, orderVars
<1>2. OrdersOK' /\ BetsKept
  BY <1>1, OrdersKept
<1>3. MainOK'
  BY <1>1, <1>2, MainKept
<1>4. TradesOK' /\ ExchangeOK' /\ CountsOK'
  BY <1>1 DEF TypeInv, TradesOK, ExchangeOK, CountsOK, tradeVars, boundVars
<1>5. PackagesOK'
  <2>1. k.type # "PLACE" => /\ \A i \in 1..Len(k.orders) : betId'[k.orders[i]] # 0
                            /\ \A i \in 1..Len(k.instr) : k.instr[i].bet # 0
    BY <1>1
  <2>2. /\ Len(exch') \in Nat /\ Len(exch) <= Len(exch') /\ k \in PackageAt(Len(exch'))
        /\ BetsKept
    BY <1>1, <1>2
  <2> QED
    BY <2>1, <2>2, OnePackage
<1> QED
  BY <1>2, <1>3, <1>4, <1>5 DEF TypeInv

\* The thread leaves its package.
LEMMA LeaveStep ==
  ASSUME TypeInv, NEW p \in Package, Leave(p), gaveUp' \subseteq Order,
         UNCHANGED <<orderVars, tradeVars, mainVars, exch, boundVars>>
  PROVE  TypeInv'
<1>1. Idle \in PackageAt(Len(exch)) /\ Idle.type = "PLACE" /\ Idle.pc \notin Applying
  BY IdleType DEF Idle, Applying
<1>2. pkg' = [pkg EXCEPT ![p] = Idle]
  BY DEF Leave
<1> HIDE DEF Idle
<1> QED
  BY <1>1, <1>2, PackageStep

\* The orders that are given up are orders.
LEMMA GivenUp ==
  ASSUME TypeInv, NEW p \in Package
  PROVE  gaveUp \cup Range(pkg[p].orders) \subseteq Order
<1>1. pkg[p].orders \in Seq(Order)
  BY PackageFields
<1>2. Range(pkg[p].orders) \subseteq Order
  BY <1>1 DEF Range
<1> QED
  BY <1>2 DEF TypeInv, CountsOK

\* What LiveOrders returns
LEMMA LiveOrdersType ==
  ASSUME TypeInv, NEW p \in Package
  PROVE  /\ LiveOrders(p) \in Seq(Order)
         /\ \A i \in 1..Len(LiveOrders(p)) :
              LiveOrders(p)[i] \in Order
              /\ (pkg[p].type # "PLACE" => betId[LiveOrders(p)[i]] # 0)
<1> DEFINE live == LiveOrders(p)
<1>1. pkg[p].orders \in Seq(Order)
  BY PackageFields
<1>2. live \in Seq(Order) /\ \A i \in 1..Len(live) : \E j \in 1..Len(pkg[p].orders) :
        live[i] = pkg[p].orders[j]
  <2> DEFINE S == {o \in Order : status[o] # "VIOLATION"}
  <2>1. live = Select(pkg[p].orders, S)
    BY DEF LiveOrders
  <2> HIDE DEF S, live
  <2> QED
    BY <1>1, <2>1, SelectType
<1> HIDE DEF live
<1>3. \A i \in 1..Len(live) : live[i] \in Order
  BY <1>2
<1>4. pkg[p].type # "PLACE" => \A i \in 1..Len(live) : betId[live[i]] # 0
  BY <1>2, PackageFields
<1>5. /\ live \in Seq(Order)
      /\ \A i \in 1..Len(live) :
           live[i] \in Order /\ (pkg[p].type # "PLACE" => betId[live[i]] # 0)
  BY <1>2, <1>3, <1>4
<1> QED
  BY <1>5 DEF live

\* Sending the request, and giving it up
LEMMA RequestStep ==
  ASSUME TypeInv, NEW p \in Package,
         SendRequest(p) \/ AbandonRequest(p) \/ RequestError(p) \/ RequestBroken(p) \/ Finish(p)
  PROVE  TypeInv'
<1> USE OrderAssumption, BoundAssumption
<1>0. gaveUp \subseteq Order
  BY DEF TypeInv, CountsOK
<1>1. CASE SendRequest(p)
  <2> DEFINE live == LiveOrders(p)
             instr == [i \in 1..Len(live) |-> MakeInstruction(p, live[i])]
             k == [pkg[p] EXCEPT !.pc = "sent", !.instr = instr, !.reports = <<>>]
  <2>1. /\ live \in Seq(Order)
        /\ \A i \in 1..Len(live) : live[i] \in Order
                                   /\ (pkg[p].type # "PLACE" => betId[live[i]] # 0)
    BY LiveOrdersType
  <2>2. DOMAIN live = 1..Len(live) /\ Len(live) \in Nat
    BY <2>1
  <2>3. \A i \in 1..Len(live) : MakeInstruction(p, live[i]) \in InstructionAt(Len(exch))
    <3> HIDE DEF live
    <3> QED
      BY <2>1 DEF MakeInstruction, InstructionAt, TypeInv, OrdersOK
  <2>4. instr \in Seq(InstructionAt(Len(exch)))
    <3> HIDE DEF live
    <3> QED
      BY <2>2, <2>3
  <2>5. Len(instr) = Len(live) /\ \A i \in 1..Len(instr) : instr[i].bet = betId[live[i]]
    <3> HIDE DEF live
    <3> QED
      BY <2>2 DEF MakeInstruction
  <2>6. pkg' = [pkg EXCEPT ![p] = k]
    <3>1. pkg' = [pkg EXCEPT ![p].pc = "sent",
                             ![p].instr = [i \in DOMAIN live |-> MakeInstruction(p, live[i])],
                             ![p].reports = <<>>]
      BY <1>1 DEF SendRequest
    <3> HIDE DEF live
    <3> QED
      BY <2>2, <3>1
  <2> HIDE DEF instr, live
  <2>0. pkg[p] \in PackageAt(Len(exch))
    BY PackageFields
  <2>7. k \in PackageAt(Len(exch))
    <3>1. "sent" \in PC /\ <<>> \in Seq(ReportAt(Len(exch)))
      BY DEF PC
    <3> QED
      BY <2>0, <2>4, <3>1 DEF PackageAt
  <2>8. k.instr = instr /\ k.orders = pkg[p].orders /\ k.type = pkg[p].type /\ k.pc = "sent"
    BY <2>0 DEF PackageAt
  <2>a. k.pc \notin Applying
    BY <2>8 DEF Applying
  <2> HIDE DEF k
  <2>9. k.type # "PLACE" => /\ \A i \in 1..Len(k.orders) : betId[k.orders[i]] # 0
                            /\ \A i \in 1..Len(k.instr) : k.instr[i].bet # 0
    BY <2>1, <2>5, <2>8, PackageFields
  <2>10. gaveUp' \subseteq Order /\ UNCHANGED <<orderVars, tradeVars, mainVars, exch, boundVars>>
    BY <1>0, <1>1 DEF SendRequest
  <2> QED
    BY <2>6, <2>7, <2>9, <2>10, <2>a, PackageStep
<1>2. CASE AbandonRequest(p) \/ Finish(p)
  <2>1. /\ Leave(p) /\ gaveUp' \subseteq Order
        /\ UNCHANGED <<orderVars, tradeVars, mainVars, exch, boundVars>>
    BY <1>0, <1>2 DEF AbandonRequest, Finish
  <2> QED
    BY <2>1, LeaveStep
<1>3. CASE RequestBroken(p)
  <2>1. /\ Leave(p) /\ gaveUp' = gaveUp \cup Range(pkg[p].orders)
        /\ UNCHANGED <<orderVars, tradeVars, mainVars, exch, boundVars>>
    BY <1>3 DEF RequestBroken
  <2> QED
    BY <2>1, GivenUp, LeaveStep
<1>4. CASE RequestError(p)
  <2>1. RetryOrGiveUp(p) /\ UNCHANGED <<orderVars, tradeVars, mainVars, exch, boundVars>>
    BY <1>4 DEF RequestError
  <2>2. CASE ~RetryLeft(p)
    <3>1. Leave(p) /\ gaveUp' = gaveUp \cup Range(pkg[p].orders)
      BY <2>1, <2>2 DEF RetryOrGiveUp
    <3> QED
      BY <2>1, <3>1, GivenUp, LeaveStep
  <2>3. CASE RetryLeft(p)
    <3> DEFINE r == KnownRef(p)
               k == [pkg[p] EXCEPT !.pc = "queued", !.retries = @ + 1, !.processed = r,
                                   !.instr = <<>>, !.reports = <<>>]
    <3>1. pkg' = [pkg EXCEPT ![p] = k] /\ UNCHANGED gaveUp
      BY <2>1, <2>3 DEF RetryOrGiveUp
    <3>2. r \in BOOLEAN
      BY PackageFields DEF KnownRef, PackageAt
    <3>3. pkg[p].retries \in 0..MaxRetries /\ pkg[p].retries < MaxRetries
      BY <2>3, PackageFields DEF RetryLeft, PackageAt
    <3>4. pkg[p].retries + 1 \in 0..MaxRetries
      BY <3>3
    <3> HIDE DEF r
    <3>0. pkg[p] \in PackageAt(Len(exch))
      BY PackageFields
    <3>5. k \in PackageAt(Len(exch))
      <4>1. /\ "queued" \in PC /\ <<>> \in Seq(InstructionAt(Len(exch)))
            /\ <<>> \in Seq(ReportAt(Len(exch)))
        BY DEF PC
      <4> QED
        BY <3>0, <3>2, <3>4, <4>1 DEF PackageAt
    <3>6. k.instr = <<>> /\ k.orders = pkg[p].orders /\ k.type = pkg[p].type /\ k.pc = "queued"
      BY <3>0 DEF PackageAt
    <3>a. k.pc \notin Applying
      BY <3>6 DEF Applying
    <3> HIDE DEF k
    <3>7. k.type # "PLACE" => /\ \A i \in 1..Len(k.orders) : betId[k.orders[i]] # 0
                              /\ \A i \in 1..Len(k.instr) : k.instr[i].bet # 0
      BY <3>6, PackageFields
    <3> QED
      BY <1>0, <2>1, <3>1, <3>5, <3>7, <3>a, PackageStep
  <2> QED
    BY <2>2, <2>3
<1> QED
  BY <1>1, <1>2, <1>3, <1>4

\* The bets, and the instruction the exchange works on
LEMMA HeadInstruction ==
  ASSUME TypeInv, NEW p \in Package, pkg[p].instr # <<>>
  PROVE  /\ Head(pkg[p].instr).order \in Order
         /\ Head(pkg[p].instr).size \in 0..Size
         /\ pkg[p].type # "PLACE" => Head(pkg[p].instr).bet \in 1..Len(exch)
<1> DEFINE instr == pkg[p].instr
<1>1. instr \in Seq(InstructionAt(Len(exch))) /\ Len(exch) \in Nat
  BY PackageFields
<1>2. pkg[p].type # "PLACE" => \A i \in 1..Len(instr) : instr[i].bet # 0
  BY PackageFields
<1> HIDE DEF instr
<1>3. instr # <<>>
  BY DEF instr
<1>4. Len(instr) \in Nat /\ Len(instr) # 0 /\ Head(instr) = instr[1]
  BY <1>1, <1>3
<1>5. instr[1] \in InstructionAt(Len(exch))
  BY <1>1, <1>4, ElementOfSeq
<1>6. pkg[p].type # "PLACE" => instr[1].bet # 0
  BY <1>2, <1>4
<1> QED
  BY <1>1, <1>4, <1>5, <1>6 DEF InstructionAt, instr

LEMMA BetType ==
  ASSUME TypeInv, NEW b \in 1..Len(exch)
  PROVE  /\ exch[b].ref \in Order
         /\ exch[b].left \in 0..Size
         /\ \A left \in 0..Size :
              /\ [exch EXCEPT ![b].left = left] \in Seq([ref : Order, left : 0..Size])
              /\ Len([exch EXCEPT ![b].left = left]) = Len(exch)
<1>1. exch \in Seq([ref : Order, left : 0..Size])
  BY DEF TypeInv, ExchangeOK
<1>2. exch[b] \in [ref : Order, left : 0..Size]
  BY <1>1, ElementOfSeq
<1>3. ASSUME NEW left \in 0..Size
      PROVE  /\ [exch EXCEPT ![b].left = left] \in Seq([ref : Order, left : 0..Size])
             /\ Len([exch EXCEPT ![b].left = left]) = Len(exch)
  <2> DEFINE e == [exch[b] EXCEPT !.left = left]
  <2>1. e \in [ref : Order, left : 0..Size]
    BY <1>2
  <2>2. [exch EXCEPT ![b].left = left] = [exch EXCEPT ![b] = e]
    OBVIOUS
  <2> HIDE DEF e
  <2>3. [exch EXCEPT ![b] = e] \in Seq([ref : Order, left : 0..Size])
        /\ Len([exch EXCEPT ![b] = e]) = Len(exch)
    BY <1>1, <2>1, ExceptSeq
  <2> QED
    BY <2>2, <2>3
<1> QED
  BY <1>2, <1>3

\* The report of an instruction
LEMMA ReportsType ==
  ASSUME NEW n \in Nat, NEW st \in ReportStatus, NEW bet \in 0..n, NEW size \in 0..Size,
         NEW new \in 0..n
  PROVE  Reports(st, bet, size, new) \in Seq(ReportAt(n))
<1>1. [status |-> st, bet |-> bet, size |-> size, new |-> new] \in ReportAt(n)
  BY DEF ReportAt
<1> QED
  BY <1>1 DEF Reports

\* The exchange does one instruction and adds what it reports of it.
LEMMA AnswerStep ==
  ASSUME TypeInv, NEW p \in Package, NEW rep \in Seq(ReportAt(Len(exch'))),
         pkg[p].instr # <<>>, Answer(p, rep),
         ExchangeOK', Len(exch) <= Len(exch'),
         UNCHANGED <<orderVars, tradeVars, mainVars, gaveUp, boundVars>>
  PROVE  TypeInv'
<1> DEFINE n == Len(exch')
           instr == Tail(pkg[p].instr)
           reports == pkg[p].reports \o rep
           k == [pkg[p] EXCEPT !.pc = "handled", !.instr = instr, !.reports = reports]
<1>1. n \in Nat /\ Len(exch) \in Nat
  BY DEF TypeInv, ExchangeOK
<1>2. pkg' = [pkg EXCEPT ![p] = k]
  BY DEF Answer
<1>3. OrdersOK' /\ BetsKept
  BY <1>1, OrdersKept
<1>4. betId' = betId
  BY DEF orderVars
<1>5. PackageAt(Len(exch)) \subseteq PackageAt(n) /\ pkg[p] \in PackageAt(Len(exch))
  BY <1>1, Grows, PackageFields
<1>6. instr \in Seq(InstructionAt(n))
  <2>1. pkg[p].instr \in Seq(InstructionAt(n))
    BY <1>5 DEF PackageAt
  <2> QED
    BY <2>1, HeadTailProperties
<1>7. reports \in Seq(ReportAt(n))
  <2>1. pkg[p].reports \in Seq(ReportAt(n)) /\ rep \in Seq(ReportAt(n))
    BY <1>5 DEF PackageAt
  <2> HIDE DEF n
  <2> QED
    BY <2>1, ConcatProperties
<1>8. pkg[p].type # "PLACE" => \A i \in 1..Len(instr) : instr[i].bet # 0
  <2>1. pkg[p].instr \in Seq(InstructionAt(Len(exch)))
    BY PackageFields
  <2>2. pkg[p].type # "PLACE" => \A i \in 1..Len(pkg[p].instr) : pkg[p].instr[i].bet # 0
    BY PackageFields
  <2>3. /\ Len(pkg[p].instr) \in Nat /\ Len(instr) = Len(pkg[p].instr) - 1
        /\ \A i \in 1..Len(instr) : instr[i] = pkg[p].instr[i + 1]
    BY <2>1, HeadTailProperties
  <2> HIDE DEF instr
  <2>4. \A i \in 1..Len(instr) : i + 1 \in 1..Len(pkg[p].instr)
    BY <2>3
  <2> QED
    BY <2>2, <2>3, <2>4
<1> HIDE DEF instr, reports
<1>9. k \in PackageAt(n)
  <2>1. "handled" \in PC
    BY DEF PC
  <2> QED
    BY <1>5, <1>6, <1>7, <2>1 DEF PackageAt
<1>10. /\ k.pc = "handled" /\ k.instr = instr
       /\ k.orders = pkg[p].orders /\ k.type = pkg[p].type
  BY <1>5 DEF PackageAt
<1> HIDE DEF k
<1>11. k.pc \notin Applying
  BY <1>10 DEF Applying
<1>12. k.type # "PLACE" => /\ \A i \in 1..Len(k.orders) : betId'[k.orders[i]] # 0
                           /\ \A i \in 1..Len(k.instr) : k.instr[i].bet # 0
  BY <1>4, <1>8, <1>10, PackageFields
<1>13. PackagesOK'
  BY <1>1, <1>2, <1>3, <1>9, <1>11, <1>12, OnePackage
<1>14. MainOK'
  BY <1>1, <1>3, MainKept
<1>15. TradesOK' /\ CountsOK'
  BY DEF TypeInv, TradesOK, CountsOK, tradeVars, boundVars
<1> QED
  BY <1>3, <1>13, <1>14, <1>15 DEF TypeInv

\* The exchange places, cancels, updates or replaces a bet.
LEMMA ExchangeStep ==
  ASSUME TypeInv, NEW p \in Package,
         ExchangePlace(p) \/ ExchangeCancel(p) \/ ExchangeUpdate(p) \/ ExchangeReplace(p)
  PROVE  TypeInv'
<1> USE BoundAssumption
<1> DEFINE n == Len(exch)
           o == Head(pkg[p].instr).order
           b == Head(pkg[p].instr).bet
           Bet0 == [ref : Order, left : 0..Size]
<1>0. /\ n \in Nat /\ exch \in Seq(Bet0) /\ n <= MaxBets
      /\ Size \in 0..Size /\ 0 \in 0..Size
      /\ "SUCCESS" \in ReportStatus /\ "FAILURE" \in ReportStatus /\ "TIMEOUT" \in ReportStatus
  BY DEF TypeInv, ExchangeOK, ReportStatus
<1>1. /\ pkg[p].instr # <<>>
      /\ UNCHANGED <<orderVars, tradeVars, mainVars, gaveUp, boundVars>>
  BY DEF ExchangePlace, ExchangeCancel, ExchangeUpdate, ExchangeReplace, Processing
<1>2. o \in Order
  BY <1>1, HeadInstruction
<1>3. SUFFICES ASSUME TRUE
               PROVE  /\ ExchangeOK' /\ n <= Len(exch')
                      /\ \E rep \in Seq(ReportAt(Len(exch'))) : Answer(p, rep)
  BY <1>1, AnswerStep
<1>4. CASE ExchangePlace(p)
  <2>1. CASE UNCHANGED exch
    <3>1. \E st \in ReportStatus : Answer(p, Reports(st, 0, Size, 0))
      BY <1>0, <1>4, <2>1 DEF ExchangePlace
    <3> QED
      BY <1>0, <2>1, <3>1, ReportsType DEF ExchangeOK
  <2>2. CASE ~UNCHANGED exch
    <3>1. PICK left \in 0..Size :
            /\ exch' = Append(exch, Bet(o, left))
            /\ \/ Answer(p, Reports("SUCCESS", n + 1, left, 0))
               \/ Answer(p, Reports("SUCCESS", 0, Size, 0))
               \/ Answer(p, Reports("TIMEOUT", 0, Size, 0))
      BY <1>4, <2>2 DEF ExchangePlace
    <3>2. Bet(o, left) \in Bet0
      BY <1>2 DEF Bet
    <3>3. exch' \in Seq(Bet0) /\ Len(exch') = n + 1 /\ n + 1 <= MaxBets
      BY <1>0, <1>4, <3>1, <3>2 DEF ExchangePlace
    <3>4. \E st \in ReportStatus, size \in 0..Size, bet \in 0..(n + 1) :
            Answer(p, Reports(st, bet, size, 0))
      BY <1>0, <3>1
    <3>5. ExchangeOK' /\ n <= Len(exch')
      BY <1>0, <3>3 DEF ExchangeOK
    <3> HIDE DEF n
    <3>6. n + 1 \in Nat /\ 0 \in 0..(n + 1)
      BY <1>0
    <3> QED
      BY <3>3, <3>4, <3>5, <3>6, ReportsType
  <2> QED
    BY <2>1, <2>2
<1>5. CASE ExchangeCancel(p)
  <2>1. b \in 1..n
    BY <1>1, <1>5, HeadInstruction DEF ExchangeCancel, Processing
  <2>2. exch[b].left \in 0..Size /\ Head(pkg[p].instr).size \in 0..Size
    BY <1>1, <2>1, BetType, HeadInstruction
  <2> DEFINE c == Cancelled(b, Head(pkg[p].instr).size)
  <2>3. c \in 0..Size /\ exch[b].left - c \in 0..Size
    <3> DEFINE size == Head(pkg[p].instr).size  left == exch[b].left
    <3>1. c = left \/ (c = size /\ ~(size > left))
      BY DEF Cancelled
    <3>2. left \in Nat /\ size \in Nat /\ left <= Size /\ Size \in Nat
      BY <2>2, BoundAssumption
    <3> HIDE DEF c, size, left
    <3>3. c \in Nat /\ c <= left
      BY <3>1, <3>2
    <3> QED
      BY <3>2, <3>3 DEF left
  <2>4. \/ exch' = exch
        \/ exch' = [exch EXCEPT ![b].left = exch[b].left - c]
    BY <1>5 DEF ExchangeCancel
  <2>5. \/ Answer(p, <<>>)
        \/ \E st \in ReportStatus, size \in 0..Size : Answer(p, Reports(st, b, size, 0))
    BY <1>0, <1>5, <2>3 DEF ExchangeCancel
  <2> HIDE DEF c
  <2>6. exch' \in Seq(Bet0) /\ Len(exch') = n
    <3>1. CASE exch' = exch
      BY <1>0, <3>1
    <3>2. CASE exch' = [exch EXCEPT ![b].left = exch[b].left - c]
      <4> DEFINE left == exch[b].left - c
      <4>1. left \in 0..Size /\ exch' = [exch EXCEPT ![b].left = left]
        BY <2>3, <3>2
      <4> HIDE DEF left
      <4> QED
        BY <2>1, <4>1, BetType
    <3> QED
      BY <2>4, <3>1, <3>2
  <2>7. ExchangeOK' /\ n <= Len(exch')
    BY <1>0, <2>6 DEF ExchangeOK
  <2>8. b \in 0..n /\ 0 \in 0..n
    BY <1>0, <2>1
  <2> HIDE DEF n, b
  <2>9. CASE Answer(p, <<>>)
    <3>1. <<>> \in Seq(ReportAt(Len(exch')))
      OBVIOUS
    <3> QED
      BY <2>7, <2>9, <3>1
  <2>10. CASE \E st \in ReportStatus, size \in 0..Size : Answer(p, Reports(st, b, size, 0))
    <3>1. PICK st \in ReportStatus, size \in 0..Size : Answer(p, Reports(st, b, size, 0))
      BY <2>10
    <3>2. Reports(st, b, size, 0) \in Seq(ReportAt(n))
      BY <1>0, <2>8, ReportsType
    <3> QED
      BY <2>6, <2>7, <3>1, <3>2
  <2> QED
    BY <2>5, <2>9, <2>10
<1>6. CASE ExchangeUpdate(p)
  <2>1. b \in 1..n
    BY <1>1, <1>6, HeadInstruction DEF ExchangeUpdate, Processing
  <2>2. exch' = exch /\ \E st \in ReportStatus : Answer(p, Reports(st, b, 0, 0))
    BY <1>6 DEF ExchangeUpdate
  <2>3. ExchangeOK' /\ n <= Len(exch') /\ Len(exch') = n
    BY <1>0, <2>2 DEF ExchangeOK
  <2>4. b \in 0..n /\ 0 \in 0..n
    BY <1>0, <2>1
  <2> HIDE DEF n, b
  <2> QED
    BY <1>0, <2>2, <2>3, <2>4, ReportsType
<1>7. CASE ExchangeReplace(p)
  <2>1. b \in 1..n
    BY <1>1, <1>7, HeadInstruction DEF ExchangeReplace, Processing
  <2>2. exch[b].left \in 0..Size /\ exch[b].ref \in Order
    BY <2>1, BetType
  <2> DEFINE dead == [exch EXCEPT ![b].left = 0]
  <2>3. dead \in Seq(Bet0) /\ Len(dead) = n
    BY <1>0, <2>1, BetType
  <2>4. n + 1 <= MaxBets
    BY <1>7 DEF ExchangeReplace
  <2>5. CASE \E left \in 0..exch[b].left : exch' = Append(dead, Bet(exch[b].ref, left))
    <3>1. PICK left \in 0..exch[b].left : exch' = Append(dead, Bet(exch[b].ref, left))
      BY <2>5
    <3>2. Bet(exch[b].ref, left) \in Bet0 /\ left \in 0..Size
      BY <2>2 DEF Bet
    <3> HIDE DEF dead
    <3>3. exch' \in Seq(Bet0) /\ Len(exch') = n + 1
      <4>1. PICK new \in Bet0 : exch' = Append(dead, new)
        BY <3>1, <3>2
      <4> QED
        BY ONLY <2>3, <4>1
    <3>4. ExchangeOK' /\ n <= Len(exch')
      BY <1>0, <2>4, <3>3 DEF ExchangeOK
    <3> HIDE DEF n, b
    <3>5. n + 1 \in Nat /\ b \in 0..(n + 1) /\ 0 \in 0..(n + 1) /\ n + 1 \in 0..(n + 1)
      BY <1>0, <2>1
    <3>6. \E st \in ReportStatus, size \in 0..Size, new \in 0..(n + 1) :
            Answer(p, Reports(st, b, size, new))
      <4>1. \/ \E size \in 0..exch[b].left : Answer(p, Reports("SUCCESS", b, size, n + 1))
            \/ Answer(p, Reports("SUCCESS", b, 0, 0))
            \/ Answer(p, Reports("FAILURE", b, 0, 0))
            \/ Answer(p, Reports("TIMEOUT", b, 0, 0))
        BY <1>7 DEF ExchangeReplace, n, b
      <4>2. \A size \in 0..exch[b].left : size \in 0..Size
        BY <2>2
      <4> QED
        BY <1>0, <3>5, <4>1, <4>2
    <3> QED
      BY <3>3, <3>4, <3>5, <3>6, ReportsType
  <2>6. CASE exch' = exch \/ exch' = dead
    <3>1. exch' \in Seq(Bet0) /\ Len(exch') = n
      BY <1>0, <2>3, <2>6
    <3>2. ExchangeOK' /\ n <= Len(exch')
      BY <1>0, <3>1 DEF ExchangeOK
    <3> HIDE DEF dead
    <3>3. Len(Append(dead, Bet(exch[b].ref, 0))) = n + 1
      BY <2>3
    <3>4. \A left : exch' # Append(dead, Bet(exch[b].ref, left))
      BY <1>0, <2>3, <3>1
    <3>5. \E st \in ReportStatus : Answer(p, Reports(st, b, 0, 0))
      BY <1>0, <1>7, <3>4 DEF ExchangeReplace, dead
    <3>6. b \in 0..n /\ 0 \in 0..n
      BY <1>0, <2>1
    <3> HIDE DEF n, b
    <3> QED
      BY <1>0, <3>1, <3>2, <3>5, <3>6, ReportsType
  <2> QED
    BY <1>7, <2>5, <2>6 DEF ExchangeReplace
<1> QED
  BY <1>4, <1>5, <1>6, <1>7

\* The reports, matched with the orders of the package
LEMMA ZipType ==
  ASSUME NEW n, NEW orders \in Seq(Order), NEW reports \in Seq(ReportAt(n))
  PROVE  Zip(orders, reports) \in Seq(WorkAt(n))
<1> DEFINE m == IF Len(orders) < Len(reports) THEN Len(orders) ELSE Len(reports)
<1>1. m \in Nat /\ m <= Len(orders) /\ m <= Len(reports)
  OBVIOUS
<1>2. ASSUME NEW i \in 1..m
      PROVE  [order |-> orders[i], report |-> reports[i]] \in WorkAt(n)
  <2>1. i \in 1..Len(orders) /\ i \in 1..Len(reports)
    BY <1>1
  <2>2. orders[i] \in Order /\ reports[i] \in ReportAt(n)
    BY <2>1, ElementOfSeq
  <2> QED
    BY <2>2 DEF WorkAt
<1>3. Zip(orders, reports) = [i \in 1..m |-> [order |-> orders[i], report |-> reports[i]]]
  BY DEF Zip
<1> HIDE DEF m
<1> QED
  BY <1>1, <1>2, <1>3

LEMMA LookupType ==
  ASSUME NEW n, NEW orders \in Seq(Order), NEW reports \in Seq(ReportAt(n))
  PROVE  Lookup(orders, reports) \in Seq(WorkAt(n))
<1>1. Range(orders) \subseteq Order
  BY DEF Range
<1> DEFINE o(i) == IF \E x \in Range(orders) : betId[x] = reports[i].bet
                   THEN CHOOSE x \in Range(orders) : betId[x] = reports[i].bet
                   ELSE NoOrder
<1>2. Lookup(orders, reports) =
        [i \in DOMAIN reports |-> [order |-> o(i), report |-> reports[i]]]
  BY DEF Lookup
<1>3. \A i \in 1..Len(reports) : o(i) \in Order \cup {NoOrder}
  BY <1>1
<1> HIDE DEF o
<1>4. \A i \in 1..Len(reports) : [order |-> o(i), report |-> reports[i]] \in WorkAt(n)
  BY <1>3, ElementOfSeq DEF WorkAt
<1>5. DOMAIN reports = 1..Len(reports) /\ Len(reports) \in Nat
  OBVIOUS
<1> QED
  BY <1>2, <1>4, <1>5

LEMMA UnreportedType ==
  ASSUME NEW n \in Nat, NEW orders \in Seq(Order), NEW reports \in Seq(ReportAt(n))
  PROVE  Unreported(orders, reports) \in Seq(WorkAt(n))
<1> DEFINE S == {o \in Order : betId[o] \notin {r.bet : r \in Range(reports)}}
           left == Select(orders, S)
<1>1. Unreported(orders, reports) = [i \in DOMAIN left |-> [order |-> left[i], report |-> Missing]]
  BY DEF Unreported
<1> HIDE DEF S
<1>2. left \in Seq(Order)
  BY SelectType
<1> HIDE DEF left
<1>3. Missing \in ReportAt(n)
  BY BoundAssumption DEF Missing, ReportAt, ReportStatus
<1>4. \A i \in 1..Len(left) : [order |-> left[i], report |-> Missing] \in WorkAt(n)
  BY <1>2, <1>3 DEF WorkAt
<1>5. DOMAIN left = 1..Len(left) /\ Len(left) \in Nat
  BY <1>2
<1> QED
  BY <1>1, <1>4, <1>5

\* The call returns.
LEMMA ReplyStep ==
  ASSUME TypeInv, NEW p \in Package, Reply(p)
  PROVE  TypeInv'
<1> DEFINE n == Len(exch)
           orders == LiveOrders(p)
           reports == IF pkg[p].processed THEN <<>> ELSE pkg[p].reports
<1>0. n \in Nat /\ pkg[p] \in PackageAt(n)
  BY PackageFields
<1>1. orders \in Seq(Order)
  BY LiveOrdersType
<1>2. reports \in Seq(ReportAt(n))
  BY PackageFields
<1> DEFINE sorted(f) == [i \in DOMAIN reports |-> reports[f[i]]]
           work(f) == IF pkg[p].type = "CANCEL"
                      THEN Lookup(orders, sorted(f)) \o Unreported(orders, sorted(f))
                      ELSE Zip(orders, sorted(f))
           k(f) == [pkg[p] EXCEPT !.pc = "next", !.instr = <<>>, !.reports = <<>>,
                                  !.work = work(f)]
<1>3. /\ \E f \in Orderings(Len(reports)) :
           pkg' = [pkg EXCEPT ![p].pc = "next", ![p].instr = <<>>, ![p].reports = <<>>,
                              ![p].work = work(f)]
      /\ gaveUp' = gaveUp \/ gaveUp' = gaveUp \cup Range(orders)
      /\ UNCHANGED <<orderVars, tradeVars, mainVars, exch, boundVars>>
  BY DEF Reply
<1>4. gaveUp' \subseteq Order
  <2> HIDE DEF orders
  <2>1. Range(orders) \subseteq Order
    BY <1>1 DEF Range
  <2> QED
    BY <1>3, <2>1 DEF TypeInv, CountsOK
<1> HIDE DEF orders, reports, sorted, work
<1>5. PICK f \in Orderings(Len(reports)) : pkg' = [pkg EXCEPT ![p] = k(f)]
  BY <1>3
<1>6. sorted(f) \in Seq(ReportAt(n))
  <2>1. f \in [1..Len(reports) -> 1..Len(reports)]
    BY DEF Orderings
  <2>2. DOMAIN reports = 1..Len(reports) /\ Len(reports) \in Nat
    BY <1>2
  <2>3. \A i \in 1..Len(reports) : reports[f[i]] \in ReportAt(n)
    BY <1>2, <2>1, ElementOfSeq
  <2>4. sorted(f) = [i \in 1..Len(reports) |-> reports[f[i]]]
    BY <2>2 DEF sorted
  <2> QED
    BY <2>2, <2>3, <2>4
<1>7. work(f) \in Seq(WorkAt(n))
  <2>1. /\ Lookup(orders, sorted(f)) \in Seq(WorkAt(n))
        /\ Unreported(orders, sorted(f)) \in Seq(WorkAt(n))
        /\ Zip(orders, sorted(f)) \in Seq(WorkAt(n))
    BY <1>0, <1>1, <1>6, LookupType, UnreportedType, ZipType
  <2> QED
    BY <2>1, ConcatProperties DEF work
<1>8. k(f) \in PackageAt(n)
  <2>1. /\ "next" \in PC /\ <<>> \in Seq(InstructionAt(n)) /\ <<>> \in Seq(ReportAt(n))
    BY DEF PC
  <2> QED
    BY <1>0, <1>7, <2>1 DEF PackageAt
<1>9. /\ k(f).pc = "next" /\ k(f).instr = <<>> /\ k(f).orders = pkg[p].orders
      /\ k(f).type = pkg[p].type
  BY <1>0 DEF PackageAt
<1> HIDE DEF k
<1>10. k(f).pc \notin Applying
  BY <1>9 DEF Applying
<1>11. k(f).type # "PLACE" => /\ \A i \in 1..Len(k(f).orders) : betId[k(f).orders[i]] # 0
                              /\ \A i \in 1..Len(k(f).instr) : k(f).instr[i].bet # 0
  BY <1>9, PackageFields
<1> QED
  BY <1>3, <1>4, <1>5, <1>8, <1>10, <1>11, PackageStep

\* What a thread that has an order to apply a report to knows of them
LEMMA ItemType ==
  ASSUME TypeInv, NEW p \in Package, pkg[p].work # <<>>
  PROVE  /\ Item(p).order \in Order \cup {NoOrder}
         /\ Item(p).report.status \in ReportStatus
         /\ Item(p).report.bet \in 0..Len(exch) /\ Item(p).report.new \in 0..Len(exch)
         /\ Item(p).report.size \in 0..Size
         /\ Tail(pkg[p].work) \in Seq(WorkAt(Len(exch)))
<1> DEFINE work == pkg[p].work
<1>1. work \in Seq(WorkAt(Len(exch)))
  BY PackageFields
<1>2. work # <<>>
  OBVIOUS
<1> HIDE DEF work
<1>3. Head(work) \in WorkAt(Len(exch)) /\ Tail(work) \in Seq(WorkAt(Len(exch)))
  BY <1>1, <1>2, HeadTailProperties
<1> QED
  BY <1>3 DEF work, WorkAt, ReportAt, Item

\* The thread goes on with the report it is applying.
LEMMA SamePackage ==
  ASSUME TypeInv, BetsKept, exch' = exch,
         NEW p \in Package, NEW pc \in PC, NEW subject \in Order \cup {NoOrder},
         pkg' = [pkg EXCEPT ![p].pc = pc, ![p].subject = subject],
         pkg[p].work # <<>>, Item(p).order \in Order,
         pc = "create" => Item(p).report.new # 0
  PROVE  PackagesOK'
<1> DEFINE k == [pkg[p] EXCEPT !.pc = pc, !.subject = subject]
<1>1. Len(exch) \in Nat /\ pkg[p] \in PackageAt(Len(exch))
  BY PackageFields
<1>2. pkg' = [pkg EXCEPT ![p] = k]
  OBVIOUS
<1>3. k \in PackageAt(Len(exch))
  BY <1>1 DEF PackageAt
<1>4. /\ k.pc = pc /\ k.work = pkg[p].work /\ k.type = pkg[p].type
      /\ k.orders = pkg[p].orders /\ k.instr = pkg[p].instr
  BY <1>1 DEF PackageAt
<1> HIDE DEF k
<1>5. HeadOK(k)
  BY <1>4 DEF HeadOK, Item
<1>6. k.type # "PLACE" => /\ \A i \in 1..Len(k.orders) : betId'[k.orders[i]] # 0
                          /\ \A i \in 1..Len(k.instr) : k.instr[i].bet # 0
  <2>1. \A i \in 1..Len(pkg[p].orders) : pkg[p].orders[i] \in Order
    BY PackageFields, ElementOfSeq
  <2> QED
    BY <1>4, <2>1, PackageFields DEF BetsKept
<1>7. Len(exch') \in Nat /\ Len(exch) <= Len(exch') /\ k \in PackageAt(Len(exch'))
  BY <1>1, <1>3
<1> QED
  BY <1>2, <1>5, <1>6, <1>7, OnePackage

LEMMA GotoPackage ==
  ASSUME TypeInv, BetsKept, exch' = exch,
         NEW p \in Package, NEW pc \in PC, Goto(p, pc),
         pkg[p].work # <<>>, Item(p).order \in Order,
         pc = "create" => Item(p).report.new # 0
  PROVE  PackagesOK'
<1>1. pkg[p] \in PackageAt(Len(exch))
  BY PackageFields
<1>2. pkg[p].subject \in Order \cup {NoOrder}
  BY <1>1 DEF PackageAt
<1>3. [pkg[p] EXCEPT !.pc = pc] = [pkg[p] EXCEPT !.pc = pc, !.subject = pkg[p].subject]
  BY <1>1 DEF PackageAt
<1>4. pkg' = [pkg EXCEPT ![p].pc = pc, ![p].subject = pkg[p].subject]
  BY <1>3 DEF Goto
<1> QED
  BY <1>2, <1>4, SamePackage

\* The thread goes on to the next report.
LEMMA NextPackage ==
  ASSUME TypeInv, exch' = exch, UNCHANGED orderVars, NEW p \in Package, NextItem(p),
         pkg[p].work # <<>>
  PROVE  PackagesOK'
<1> DEFINE work == Tail(pkg[p].work)
           k == [pkg[p] EXCEPT !.pc = "next", !.work = work, !.subject = NoOrder]
<1>1. Len(exch) \in Nat /\ pkg[p] \in PackageAt(Len(exch))
  BY PackageFields
<1>2. pkg' = [pkg EXCEPT ![p] = k]
  BY DEF NextItem
<1>3. work \in Seq(WorkAt(Len(exch)))
  BY ItemType
<1> HIDE DEF work
<1>4. k \in PackageAt(Len(exch))
  <2>1. "next" \in PC
    BY DEF PC
  <2> QED
    BY <1>1, <1>3, <2>1 DEF PackageAt
<1>5. /\ k.pc = "next" /\ k.type = pkg[p].type
      /\ k.orders = pkg[p].orders /\ k.instr = pkg[p].instr
  BY <1>1 DEF PackageAt
<1> HIDE DEF k
<1>6. k.pc \notin Applying
  BY <1>5 DEF Applying
<1>7. BetsKept /\ betId' = betId
  BY DEF BetsKept, orderVars
<1>8. k.type # "PLACE" => /\ \A i \in 1..Len(k.orders) : betId'[k.orders[i]] # 0
                          /\ \A i \in 1..Len(k.instr) : k.instr[i].bet # 0
  BY <1>5, <1>7, PackageFields
<1>9. Len(exch') \in Nat /\ Len(exch) <= Len(exch') /\ k \in PackageAt(Len(exch'))
  BY <1>1, <1>4
<1> QED
  BY <1>2, <1>6, <1>7, <1>8, <1>9, OnePackage

\* Applying the reports: with order.trade, executable(), execution_complete()
LEMMA ReportStep ==
  ASSUME TypeInv, NEW p \in Package,
         \/ EnterTrade(p) \/ ApplyReport(p) \/ PassReport(p) \/ ClearUpdateData(p)
         \/ SettleReplacement(p) \/ ExitTrade(p) \/ ReleaseTrade(p)
  PROVE  TypeInv'
<1> USE OrderAssumption, BoundAssumption
<1> DEFINE o == Item(p).order
           r == Item(p).report
<1>0. Len(exch) \in Nat /\ pkg[p].subject \in Order \cup {NoOrder}
  BY PackageFields DEF PackageAt
<1>1. pkg[p].work # <<>> /\ o \in Order
  <2>1. CASE EnterTrade(p)
    BY <2>1, ItemType DEF EnterTrade
  <2>2. CASE ~EnterTrade(p)
    <3>1. pkg[p].pc \in Applying
      BY <2>2 DEF ApplyReport, PassReport, ClearUpdateData, SettleReplacement, ExitTrade,
                  ReleaseTrade, Applying
    <3> QED
      BY <3>1 DEF TypeInv, PackagesOK, HeadOK, Item
  <2> QED
    BY <2>1, <2>2
<1>2. /\ r.status \in ReportStatus /\ r.bet \in 0..Len(exch) /\ r.size \in 0..Size
      /\ r.new \in 0..Len(exch)
  BY <1>1, ItemType
<1>3. {"apply", "clear", "create", "exit", "release"} \subseteq PC
  BY DEF PC
<1>4. CASE EnterTrade(p)
  <2>1. /\ pkg' = [pkg EXCEPT ![p].pc = "apply", ![p].subject = o]
        /\ tstatus' = [tstatus EXCEPT ![trade[o]] = "PENDING"]
        /\ UNCHANGED <<status, trade, seen, reduction, newPrice, blotter, liveTrades,
                       mainVars, exch, gaveUp, boundVars>>
    BY <1>4 DEF EnterTrade
  <2>2. betId' = betId \/ (r.bet # 0 /\ betId' = [betId EXCEPT ![o] = r.bet])
    BY <1>4 DEF EnterTrade
  <2>3. remaining' \in [Order -> 0..Size]
    <3>1. PlacedRemaining(o, r) \in 0..Size
      BY <1>1, <1>2 DEF PlacedRemaining, TypeInv, OrdersOK
    <3>2. remaining' = remaining \/ remaining' = [remaining EXCEPT ![o] = PlacedRemaining(o, r)]
      BY <1>4 DEF EnterTrade
    <3> QED
      BY <3>1, <3>2 DEF TypeInv, OrdersOK
  <2> HIDE DEF r, o
  <2>4. betId' \in [Order -> 0..Len(exch)] /\ BetsKept
    BY <1>2, <2>2 DEF TypeInv, OrdersOK, BetsKept
  <2>5. OrdersOK'
    BY <2>1, <2>3, <2>4 DEF TypeInv, OrdersOK
  <2>6. TradesOK' /\ ExchangeOK' /\ CountsOK'
    BY <2>1 DEF TypeInv, TradesOK, TradeStatus, ExchangeOK, CountsOK, boundVars
  <2>7. MainOK'
    BY <1>0, <2>1, <2>4, MainKept
  <2>8. PackagesOK'
    BY <1>1, <1>3, <2>1, <2>4, SamePackage DEF o
  <2> QED
    BY <2>5, <2>6, <2>7, <2>8 DEF TypeInv
<1>5. CASE ApplyReport(p)
  <2> DEFINE s == Outcome(pkg[p].type, o, r)
             pc == IF s = "EXECUTABLE" THEN "clear" ELSE IF r.new # 0 THEN "create" ELSE "exit"
  <2>1. /\ UpdateStatus(o, s) /\ ~Undecided(p) /\ Goto(p, pc)
        /\ \/ UNCHANGED <<reduction, newPrice>>
           \/ ClearData(o)
        /\ UNCHANGED <<trade, betId, remaining, seen, blotter, mainVars, exch, gaveUp,
                       boundVars>>
    BY <1>5 DEF ApplyReport
  <2>2. s \in OrderStatus /\ (s # "New" \/ s = status[o])
    <3>1. pkg[p].type \in PackageType /\ status[o] \in OrderStatus
      BY <1>1, PackageFields DEF TypeInv, OrdersOK
    <3> HIDE DEF o, r
    <3> QED
      BY <3>1 DEF Outcome, PlaceOutcome, CancelOutcome, ReplaceOutcome, PackageType,
                  OrderStatus
  <2> HIDE DEF s
  <2>3. /\ status' \in [Order -> OrderStatus]
        /\ \A x \in Order : status'[x] = "New" => status[x] = "New"
        /\ TradesOK'
    BY <2>1, <2>2, UpdateTypes
  <2>4. reduction' \in [Order -> 0..Size] /\ newPrice' \subseteq Order
    BY <2>1, ClearTypes DEF TypeInv, OrdersOK
  <2>5. OrdersOK' /\ BetsKept
    BY <2>1, <2>3, <2>4 DEF TypeInv, OrdersOK, BetsKept
  <2>6. ExchangeOK' /\ CountsOK'
    BY <2>1 DEF TypeInv, ExchangeOK, CountsOK, boundVars
  <2>7. MainOK'
    BY <1>0, <2>1, <2>5, MainKept
  <2>8. pc \in PC /\ (pc = "create" => r.new # 0)
    BY <1>3
  <2> HIDE DEF pc
  <2>9. PackagesOK'
    BY <1>1, <2>1, <2>5, <2>8, GotoPackage
  <2> QED
    BY <2>3, <2>5, <2>6, <2>7, <2>9 DEF TypeInv
<1>6. CASE PassReport(p)
  <2>1. /\ Goto(p, "exit") /\ gaveUp' \in {gaveUp, gaveUp \cup {o}}
        /\ UNCHANGED <<orderVars, tradeVars, mainVars, exch, boundVars>>
    BY <1>6 DEF PassReport
  <2>2. OrdersOK' /\ BetsKept
    BY <1>0, <2>1, OrdersKept
  <2>3. TradesOK' /\ ExchangeOK' /\ CountsOK'
    BY <1>1, <2>1 DEF TypeInv, TradesOK, ExchangeOK, CountsOK, tradeVars, boundVars
  <2>4. MainOK'
    BY <1>0, <2>1, <2>2, MainKept
  <2>5. PackagesOK'
    BY <1>1, <1>3, <2>1, <2>2, GotoPackage
  <2> QED
    BY <2>2, <2>3, <2>4, <2>5 DEF TypeInv
<1>7. CASE ClearUpdateData(p)
  <2>1. /\ Goto(p, "exit") /\ ClearData(pkg[p].subject)
        /\ UNCHANGED <<status, trade, betId, remaining, seen, blotter, tradeVars, mainVars,
                       exch, gaveUp, boundVars>>
    BY <1>7 DEF ClearUpdateData
  <2>2. reduction' \in [Order -> 0..Size] /\ newPrice' \subseteq Order
    BY <2>1, ClearTypes
  <2>3. OrdersOK' /\ BetsKept
    BY <2>1, <2>2 DEF TypeInv, OrdersOK, BetsKept
  <2>4. TradesOK' /\ ExchangeOK' /\ CountsOK'
    BY <2>1 DEF TypeInv, TradesOK, ExchangeOK, CountsOK, tradeVars, boundVars
  <2>5. MainOK'
    BY <1>0, <2>1, <2>3, MainKept
  <2>6. PackagesOK'
    BY <1>1, <1>3, <2>1, <2>3, GotoPackage
  <2> QED
    BY <2>3, <2>4, <2>5, <2>6 DEF TypeInv
<1>8. CASE SettleReplacement(p)
  <2>1. /\ Goto(p, "clear") /\ UpdateStatus(pkg[p].subject, "EXECUTABLE")
        /\ UNCHANGED <<trade, betId, remaining, seen, reduction, newPrice, blotter, mainVars,
                       exch, gaveUp, boundVars>>
    BY <1>8 DEF SettleReplacement
  <2>2. /\ status' \in [Order -> OrderStatus]
        /\ \A x \in Order : status'[x] = "New" => status[x] = "New"
        /\ TradesOK'
    BY <2>1, UpdateTypes DEF OrderStatus
  <2>3. OrdersOK' /\ BetsKept
    BY <2>1, <2>2 DEF TypeInv, OrdersOK, BetsKept
  <2>4. ExchangeOK' /\ CountsOK'
    BY <2>1 DEF TypeInv, ExchangeOK, CountsOK, boundVars
  <2>5. MainOK'
    BY <1>0, <2>1, <2>3, MainKept
  <2>6. PackagesOK'
    BY <1>1, <1>3, <2>1, <2>3, GotoPackage
  <2> QED
    BY <2>2, <2>3, <2>4, <2>5, <2>6 DEF TypeInv
<1>9. CASE ExitTrade(p) \/ ReleaseTrade(p)
  <2>1. /\ Goto(p, "release") \/ NextItem(p)
        /\ UNCHANGED <<orderVars, mainVars, exch, gaveUp, boundVars>>
    BY <1>9 DEF ExitTrade, ReleaseTrade
  <2>2. TradesOK'
    <3>1. CASE ExitTrade(p)
      BY <3>1 DEF ExitTrade, TypeInv, TradesOK, TradeStatus
    <3>2. CASE ReleaseTrade(p)
      BY <3>2 DEF ReleaseTrade, CompleteTrade, TypeInv, TradesOK, TradeStatus
    <3> QED
      BY <1>9, <3>1, <3>2
  <2>3. OrdersOK' /\ BetsKept
    BY <1>0, <2>1, OrdersKept
  <2>4. ExchangeOK' /\ CountsOK'
    BY <2>1 DEF TypeInv, ExchangeOK, CountsOK, boundVars
  <2>5. MainOK'
    BY <1>0, <2>1, <2>3, MainKept
  <2>6. PackagesOK'
    BY <1>1, <1>3, <2>1, <2>3, GotoPackage, NextPackage
  <2> QED
    BY <2>2, <2>3, <2>4, <2>5, <2>6 DEF TypeInv
<1> QED
  BY <1>4, <1>5, <1>6, <1>7, <1>8, <1>9

\* The replacement order joins the trade and the blotter with the new bet's id.
LEMMA ReplacementStep ==
  ASSUME TypeInv, NEW p \in Package, CreateReplacement(p)
  PROVE  TypeInv'
<1> USE OrderAssumption, BoundAssumption
<1> DEFINE n == Fresh(UnusedOrders)
           o == Item(p).order
           r == Item(p).report
<1>1. pkg[p].work # <<>> /\ o \in Order /\ r.new # 0
  <2>1. pkg[p].pc = "create" /\ pkg[p].pc \in Applying
    BY DEF CreateReplacement, Applying
  <2> QED
    BY <2>1 DEF TypeInv, PackagesOK, HeadOK, Item
<1>2. r.new \in 0..Len(exch) /\ r.size \in 0..Size /\ Len(exch) \in Nat
  BY <1>1, ItemType, PackageFields
<1>3. n \in Order
  <2>1. n \in UnusedOrders
    BY DEF CreateReplacement, Fresh
  <2> QED
    BY <2>1 DEF UnusedOrders
<1>4. /\ status' = [status EXCEPT ![n] = "PENDING"]
      /\ trade' = [trade EXCEPT ![n] = trade[o]]
      /\ betId' = [betId EXCEPT ![n] = r.new]
      /\ remaining' = [remaining EXCEPT ![n] = r.size]
      /\ blotter' = blotter \cup {n}
      /\ pkg' = [pkg EXCEPT ![p].pc = "settle", ![p].subject = n]
      /\ UNCHANGED <<seen, reduction, newPrice, tradeVars, mainVars, exch, gaveUp, boundVars>>
  BY DEF CreateReplacement, ReplacementBet
<1> HIDE DEF n
<1>5. OrdersOK' /\ BetsKept
  <2>1. trade[o] \in Trade \cup {NoTrade}
    BY <1>1 DEF TypeInv, OrdersOK
  <2> HIDE DEF o, r
  <2>2. betId' \in [Order -> 0..Len(exch)] /\ BetsKept
    BY <1>1, <1>2, <1>3, <1>4 DEF TypeInv, OrdersOK, BetsKept
  <2>3. /\ status' \in [Order -> OrderStatus] /\ trade' \in [Order -> Trade \cup {NoTrade}]
        /\ \A x \in Order : status'[x] = "New" => trade'[x] \in Trade
    BY <1>3, <1>4, <2>1 DEF TypeInv, OrdersOK, OrderStatus
  <2>4. remaining' \in [Order -> 0..Size] /\ blotter' \subseteq Order
    BY <1>2, <1>3, <1>4 DEF TypeInv, OrdersOK
  <2> QED
    BY <1>4, <2>2, <2>3, <2>4 DEF TypeInv, OrdersOK
<1>6. TradesOK' /\ ExchangeOK' /\ CountsOK'
  BY <1>4 DEF TypeInv, TradesOK, ExchangeOK, CountsOK, tradeVars, boundVars
<1>7. MainOK'
  BY <1>2, <1>4, <1>5, MainKept
<1>8. PackagesOK'
  <2>1. "settle" \in PC
    BY DEF PC
  <2> QED
    BY <1>1, <1>3, <1>4, <1>5, <2>1, SamePackage
<1> QED
  BY <1>5, <1>6, <1>7, <1>8 DEF TypeInv

-----------------------------------------------------------------------------
(* The theorem *)

\* Every step keeps the invariant.
LEMMA TypeStep ==
  ASSUME TypeInv, [Next]_vars
  PROVE  TypeInv'
<1>1. CASE UNCHANGED vars
  BY <1>1 DEF vars, orderVars, tradeVars, mainVars, boundVars, TypeInv, OrdersOK, TradesOK,
              MainOK, PackagesOK, ExchangeOK, CountsOK, HasBets, HeadOK
<1>2. CASE Strategy \/ Main
  BY <1>2, TransactionStep, EventStep DEF Main
<1>3. CASE Snap \/ Restart \/ \E b \in Bets : ExchangeMatch(b)
  BY <1>3, EnvironmentStep
<1>4. ASSUME NEW p \in Package, Thread(p) \/ RequestError(p) \/ RequestBroken(p)
      PROVE  TypeInv'
  BY <1>4, RequestStep, ExchangeStep, ReplyStep, ReportStep, ReplacementStep DEF Thread
<1> QED
  BY <1>1, <1>2, <1>3, <1>4 DEF Next

\* In every reachable state, for any number of orders, trades, packages and bets,
\* every variable has its type: in particular the indices the code looks up
\* (bet ids, the order of a report, the head of the reports) exist.
THEOREM OrderTypeCorrect == Spec => []TypeOK
<1>1. Init => TypeInv
  BY TypeInit
<1>2. TypeInv /\ [Next]_vars => TypeInv'
  BY TypeStep
<1>3. TypeInv => TypeOK
  BY TypeInvImplies
<1> QED
  BY <1>1, <1>2, <1>3, PTL DEF Spec

\* zip(order_package, reports) pairs by position, and reads the orders of the
\* package a second time without those a control has marked VIOLATION in the
\* meantime.  It cannot mispair when no control rejects the requests of a live
\* order, or when a package has one order.
Aligned == "control" \notin Faults \/ MaxBatch <= 1

-----------------------------------------------------------------------------
(* The orders that the blotter tracks *)

\* Whatever has been given to the exchange is in the blotter: orders with a bet id
\* or a bet, unless the process was restarted since.
BlotterInv ==
  /\ \A o \in Order : status[o] = "New" => o \notin blotter
  /\ \A o \in blotter : status[o] # "None"
  /\ \A o \in Order : betId[o] # 0 => o \in blotter
  /\ \A b \in 1..Len(exch) : status[exch[b].ref] = "None" \/ exch[b].ref \in blotter
  /\ "control" \notin Faults => \A o \in blotter : status[o] # "VIOLATION"

\* No batch is larger than the bound, with the order being created.
BatchInv ==
  /\ \A o, u \in Order : status[o] = "New" /\ status[u] = "New" => o = u
  /\ (\E o \in Order : status[o] = "New") => BatchLeft
  /\ \A type \in PackageType : Len(pending[type]) <= MaxBatch
  /\ \A p \in Package : Len(pkg[p].orders) <= MaxBatch

\* Transactions and packages hold orders of the blotter.
Tracked(s) == \A i \in 1..Len(s) : s[i] \in blotter
HeldBy(k) ==
  /\ Tracked(k.orders)
  /\ \A i \in 1..Len(k.instr) : k.instr[i].order \in blotter
  /\ \A i \in 1..Len(k.work) : k.work[i].order \in blotter \cup {NoOrder}
  /\ k.subject \in blotter \cup {NoOrder}
HeldInv ==
  /\ \A type \in PackageType : Tracked(pending[type])
  /\ \A p \in Package : HeldBy(pkg[p])

TrackedInv == BlotterInv /\ BatchInv /\ HeldInv

-----------------------------------------------------------------------------
(* What the steps of a thread do to its package *)

Others(p) == \A q \in Package \ {p} : pkg'[q] = pkg[q]

\* The thread goes on with its package.
LEMMA GotoFields ==
  ASSUME TypeInv, NEW p \in Package, NEW pc, Goto(p, pc)
  PROVE  /\ Others(p)
         /\ pkg'[p].pc = pc /\ pkg'[p].type = pkg[p].type /\ pkg'[p].orders = pkg[p].orders
         /\ pkg'[p].processed = pkg[p].processed /\ pkg'[p].instr = pkg[p].instr
         /\ pkg'[p].reports = pkg[p].reports /\ pkg'[p].work = pkg[p].work
         /\ pkg'[p].subject = pkg[p].subject
<1>1. pkg[p] \in PackageAt(Len(exch)) /\ DOMAIN pkg = Package
  BY DEF TypeInv, PackagesOK
<1>2. pkg'[p] = [pkg[p] EXCEPT !.pc = pc] /\ Others(p)
  BY <1>1 DEF Goto, Others
<1> QED
  BY <1>1, <1>2 DEF PackageAt

\* The thread goes on with an order in hand.
TakesUp(p, pc, o) == pkg' = [pkg EXCEPT ![p].pc = pc, ![p].subject = o]
LEMMA SubjectFields ==
  ASSUME TypeInv, NEW p \in Package, NEW pc, NEW o, TakesUp(p, pc, o)
  PROVE  /\ Others(p)
         /\ pkg'[p].pc = pc /\ pkg'[p].type = pkg[p].type /\ pkg'[p].orders = pkg[p].orders
         /\ pkg'[p].processed = pkg[p].processed /\ pkg'[p].instr = pkg[p].instr
         /\ pkg'[p].reports = pkg[p].reports /\ pkg'[p].work = pkg[p].work
         /\ pkg'[p].subject = o
<1>1. pkg[p] \in PackageAt(Len(exch)) /\ DOMAIN pkg = Package
  BY DEF TypeInv, PackagesOK
<1>2. pkg'[p] = [pkg[p] EXCEPT !.pc = pc, !.subject = o] /\ Others(p)
  BY <1>1 DEF Others, TakesUp
<1> QED
  BY <1>1, <1>2 DEF PackageAt

\* The thread leaves its package.
LEMMA LeaveFields ==
  ASSUME TypeInv, NEW p \in Package, Leave(p)
  PROVE  Others(p) /\ pkg'[p] = Idle
BY DEF TypeInv, PackagesOK, Leave, Others

\* The thread turns to the next report.
LEMMA NextFields ==
  ASSUME TypeInv, NEW p \in Package, NextItem(p)
  PROVE  /\ Others(p)
         /\ pkg'[p].pc = "next" /\ pkg'[p].type = pkg[p].type
         /\ pkg'[p].orders = pkg[p].orders
         /\ pkg'[p].processed = pkg[p].processed /\ pkg'[p].instr = pkg[p].instr
         /\ pkg'[p].reports = pkg[p].reports /\ pkg'[p].work = Tail(pkg[p].work)
         /\ pkg'[p].subject = NoOrder
<1>1. pkg[p] \in PackageAt(Len(exch)) /\ DOMAIN pkg = Package
  BY DEF TypeInv, PackagesOK
<1>2. /\ pkg'[p] = [pkg[p] EXCEPT !.pc = "next", !.work = Tail(@), !.subject = NoOrder]
      /\ Others(p)
  BY <1>1 DEF NextItem, Others
<1> QED
  BY <1>1, <1>2 DEF PackageAt

\* The exchange has done an instruction.
LEMMA AnswerFields ==
  ASSUME TypeInv, NEW p \in Package, NEW rep, Answer(p, rep)
  PROVE  /\ Others(p)
         /\ pkg'[p].pc = "handled" /\ pkg'[p].type = pkg[p].type
         /\ pkg'[p].orders = pkg[p].orders
         /\ pkg'[p].processed = pkg[p].processed /\ pkg'[p].instr = Tail(pkg[p].instr)
         /\ pkg'[p].reports = pkg[p].reports \o rep /\ pkg'[p].work = pkg[p].work
         /\ pkg'[p].subject = pkg[p].subject
<1>1. pkg[p] \in PackageAt(Len(exch)) /\ DOMAIN pkg = Package
  BY DEF TypeInv, PackagesOK
<1>2. /\ pkg'[p] = [pkg[p] EXCEPT !.pc = "handled", !.instr = Tail(@), !.reports = @ \o rep]
      /\ Others(p)
  BY <1>1 DEF Answer, Others
<1> QED
  BY <1>1, <1>2 DEF PackageAt

\* The request is sent.
LEMMA SendFields ==
  ASSUME TypeInv, NEW p \in Package, SendRequest(p)
  PROVE  /\ Others(p)
         /\ pkg'[p].pc = "sent" /\ pkg'[p].type = pkg[p].type
         /\ pkg'[p].orders = pkg[p].orders /\ pkg'[p].processed = pkg[p].processed
         /\ Len(pkg'[p].instr) = Len(LiveOrders(p))
         /\ \A i \in 1..Len(LiveOrders(p)) :
              /\ pkg'[p].instr[i].order = LiveOrders(p)[i]
              /\ pkg'[p].instr[i].bet = betId[LiveOrders(p)[i]]
              /\ pkg'[p].instr[i].size = IF pkg[p].type = "CANCEL"
                                         THEN reduction[LiveOrders(p)[i]] ELSE 0
         /\ pkg'[p].reports = <<>> /\ pkg'[p].work = pkg[p].work
         /\ pkg'[p].subject = pkg[p].subject
<1>1. pkg[p] \in PackageAt(Len(exch)) /\ DOMAIN pkg = Package
  BY DEF TypeInv, PackagesOK
<1> DEFINE live == LiveOrders(p)
           instr == [i \in DOMAIN live |-> MakeInstruction(p, live[i])]
<1>2. pkg'[p] = [pkg[p] EXCEPT !.pc = "sent", !.instr = instr, !.reports = <<>>] /\ Others(p)
  BY <1>1 DEF SendRequest, Others
<1>3. live \in Seq(Order)
  BY LiveOrdersType
<1> HIDE DEF live
<1>4. /\ DOMAIN live = 1..Len(live) /\ Len(live) \in Nat
      /\ Len(instr) = Len(live)
      /\ \A i \in 1..Len(live) : instr[i] = MakeInstruction(p, live[i])
  BY <1>3
<1> HIDE DEF instr
<1>5. \A o : /\ MakeInstruction(p, o).order = o /\ MakeInstruction(p, o).bet = betId[o]
             /\ MakeInstruction(p, o).size = IF pkg[p].type = "CANCEL" THEN reduction[o] ELSE 0
  BY DEF MakeInstruction
<1>6. /\ Others(p)
      /\ pkg'[p].pc = "sent" /\ pkg'[p].type = pkg[p].type
      /\ pkg'[p].orders = pkg[p].orders /\ pkg'[p].processed = pkg[p].processed
      /\ pkg'[p].instr = instr
      /\ pkg'[p].reports = <<>> /\ pkg'[p].work = pkg[p].work
      /\ pkg'[p].subject = pkg[p].subject
  BY <1>1, <1>2 DEF PackageAt
<1> QED
  BY <1>4, <1>5, <1>6 DEF live

\* The request is sent again.
LEMMA RetryFields ==
  ASSUME TypeInv, NEW p \in Package, RetryLeft(p), RetryOrGiveUp(p)
  PROVE  /\ Others(p)
         /\ pkg'[p].pc = "queued" /\ pkg'[p].type = pkg[p].type
         /\ pkg'[p].orders = pkg[p].orders /\ pkg'[p].processed = KnownRef(p)
         /\ pkg'[p].instr = <<>> /\ pkg'[p].reports = <<>> /\ pkg'[p].work = pkg[p].work
         /\ pkg'[p].subject = pkg[p].subject
<1>1. pkg[p] \in PackageAt(Len(exch)) /\ DOMAIN pkg = Package
  BY DEF TypeInv, PackagesOK
<1> DEFINE known == KnownRef(p)
<1>2. /\ pkg'[p] = [pkg[p] EXCEPT !.pc = "queued", !.retries = @ + 1, !.processed = known,
                                  !.instr = <<>>, !.reports = <<>>]
      /\ Others(p)
  BY <1>1 DEF RetryOrGiveUp, Others
<1> HIDE DEF known
<1>3. /\ Others(p)
      /\ pkg'[p].pc = "queued" /\ pkg'[p].type = pkg[p].type
      /\ pkg'[p].orders = pkg[p].orders /\ pkg'[p].processed = known
      /\ pkg'[p].instr = <<>> /\ pkg'[p].reports = <<>> /\ pkg'[p].work = pkg[p].work
      /\ pkg'[p].subject = pkg[p].subject
  BY <1>1, <1>2 DEF PackageAt
<1> QED
  BY <1>3 DEF known

-----------------------------------------------------------------------------
(* The blotter: what the steps of a thread have in common *)

\* What becomes of the statuses: an order in the blotter keeps one of those the
\* exchange knows of, and only a control makes it a violation.
Mild ==
  /\ \A o \in Order \ blotter : status'[o] = status[o]
  /\ \A o \in blotter :
       /\ status'[o] \notin {"None", "New"}
       /\ status'[o] = "VIOLATION" => status[o] = "VIOLATION" \/ "control" \in Faults

LEMMA SameMild ==
  ASSUME TypeInv, BlotterInv, status' = status
  PROVE  Mild
BY DEF Mild, BlotterInv, TypeInv, OrdersOK

LEMMA UpdateMild ==
  ASSUME TypeInv, BlotterInv, NEW o, o \in blotter \/ o \notin Order, NEW s,
         UpdateStatus(o, s),
         o \in blotter => s \notin {"None", "New"},
         o \in blotter /\ s = "VIOLATION" => status[o] = "VIOLATION" \/ "control" \in Faults
  PROVE  Mild
<1>1. status' = [status EXCEPT ![o] = s]
  BY DEF UpdateStatus
<1> QED
  BY <1>1 DEF Mild, BlotterInv, TypeInv, OrdersOK

\* The bets of an exchange
LEMMA BetsType ==
  ASSUME NEW e \in Seq([ref : Order, left : 0..Size])
  PROVE  /\ Len(e) \in Nat /\ DOMAIN e = 1..Len(e)
         /\ \A b \in 1..Len(e) : /\ e[b] \in [ref : Order, left : 0..Size]
                                 /\ e[b].ref \in Order /\ e[b].left \in 0..Size
<1>1. ASSUME NEW b \in 1..Len(e)
      PROVE  e[b] \in [ref : Order, left : 0..Size]
  BY ElementOfSeq
<1> QED
  BY <1>1

\* A thread step that keeps the blotter and the transactions
LEMMA TrackedStep ==
  ASSUME TypeInv, TypeInv', TrackedInv, NEW p \in Package, Others(p), Mild,
         UNCHANGED <<blotter, pending>>,
         \A o \in Order : betId'[o] # 0 => o \in blotter,
         \A b \in 1..Len(exch') :
           exch'[b].ref \in blotter \/ \E c \in 1..Len(exch) : exch'[b].ref = exch[c].ref,
         HeldBy(pkg[p])', Len(pkg'[p].orders) <= MaxBatch
  PROVE  TrackedInv'
<1>1. \A b \in 1..Len(exch') : exch'[b].ref \in Order
  BY BetsType DEF TypeInv, ExchangeOK
<1>2. BlotterInv'
  <2>1. \A b \in 1..Len(exch') : status'[exch'[b].ref] = "None" \/ exch'[b].ref \in blotter
    BY <1>1 DEF TrackedInv, BlotterInv, Mild
  <2> QED
    BY <2>1 DEF TrackedInv, BlotterInv, Mild, TypeInv, OrdersOK
<1>3. \A o \in Order : status'[o] = "New" => status[o] = "New"
  BY DEF Mild
<1>4. BatchInv'
  BY <1>3 DEF TrackedInv, BatchInv, BatchLeft, Others
<1>5. HeldInv'
  BY DEF TrackedInv, HeldInv, Others, HeldBy, Tracked
<1> QED
  BY <1>2, <1>4, <1>5 DEF TrackedInv

\* A thread step that changes nothing of the orders and the bets
LEMMA TrackedQuiet ==
  ASSUME TypeInv, TypeInv', TrackedInv, NEW p \in Package, Others(p),
         UNCHANGED <<status, betId, blotter, pending, exch>>,
         HeldBy(pkg[p])', Len(pkg'[p].orders) <= MaxBatch
  PROVE  TrackedInv'
<1>1. Mild
  BY SameMild DEF TrackedInv
<1>2. \A o \in Order : betId'[o] # 0 => o \in blotter
  BY DEF TrackedInv, BlotterInv
<1> QED
  BY <1>1, <1>2, TrackedStep

\* The fields of a package that HeldBy looks at
LEMMA HeldKept ==
  ASSUME TrackedInv, NEW p \in Package, blotter \subseteq blotter',
         pkg'[p].orders = pkg[p].orders, pkg'[p].instr = pkg[p].instr,
         pkg'[p].work = pkg[p].work, pkg'[p].subject \in blotter' \cup {NoOrder}
  PROVE  HeldBy(pkg[p])' /\ Len(pkg'[p].orders) <= MaxBatch
BY DEF TrackedInv, HeldInv, HeldBy, Tracked, BatchInv

\* An idle package holds nothing.
LEMMA HeldIdle ==
  ASSUME NEW p \in Package, pkg'[p] = Idle
  PROVE  HeldBy(pkg[p])' /\ Len(pkg'[p].orders) <= MaxBatch
BY BoundAssumption DEF Idle, HeldBy, Tracked

-----------------------------------------------------------------------------
(* The orders that a package reads *)

\* What is read is some of the orders, all of them or, when they cannot be mispaired
\* with the reports, none.
LEMMA LiveFrom ==
  ASSUME TypeInv, NEW p \in Package
  PROVE  /\ LiveOrders(p) \in Seq(Order)
         /\ \A i \in 1..Len(LiveOrders(p)) :
              \E j \in 1..Len(pkg[p].orders) : LiveOrders(p)[i] = pkg[p].orders[j]
<1> DEFINE S == {o \in Order : status[o] # "VIOLATION"}
<1>1. pkg[p].orders \in Seq(Order)
  BY PackageFields
<1>2. LiveOrders(p) = Select(pkg[p].orders, S)
  BY DEF LiveOrders
<1> HIDE DEF S
<1> QED
  BY <1>1, <1>2, SelectType

LEMMA LiveAligned ==
  ASSUME TypeInv, TrackedInv, Aligned, NEW p \in Package
  PROVE  LiveOrders(p) \in {pkg[p].orders, <<>>}
<1> DEFINE S == {o \in Order : status[o] # "VIOLATION"}
           orders == pkg[p].orders
<1>1. orders \in Seq(Order) /\ Len(orders) \in Nat
  BY PackageFields
<1>2. LiveOrders(p) = Select(orders, S)
  BY DEF LiveOrders
<1>3. \A i \in 1..Len(orders) : orders[i] \in blotter /\ orders[i] \in Order
  BY <1>1, ElementOfSeq DEF TrackedInv, HeldInv, HeldBy, Tracked
<1>4. \/ \A i \in 1..Len(orders) : orders[i] \in S
      \/ \A i \in 1..Len(orders) : orders[i] \notin S
  <2>1. CASE "control" \notin Faults
    BY <1>3, <2>1 DEF TrackedInv, BlotterInv
  <2>2. CASE MaxBatch <= 1
    <3>1. Len(orders) <= 1
      BY <1>1, <2>2, BoundAssumption DEF TrackedInv, BatchInv
    <3>2. \A i \in 1..Len(orders) : i = 1
      BY <1>1, <3>1
    <3> HIDE DEF S, orders
    <3> QED
      BY <3>2
  <2> QED
    BY <2>1, <2>2 DEF Aligned
<1> HIDE DEF S
<1> QED
  BY <1>1, <1>2, <1>4, SelectAll, SelectNone

-----------------------------------------------------------------------------
(* The blotter: the steps of the threads *)

\* The steps that change no order's status and no bet
LEMMA TrackedRequest ==
  ASSUME TypeInv, TypeInv', TrackedInv, NEW p \in Package,
         \/ SendRequest(p) \/ AbandonRequest(p) \/ RequestError(p) \/ RequestBroken(p)
         \/ Finish(p) \/ PassReport(p) \/ ClearUpdateData(p) \/ ExitTrade(p)
         \/ ReleaseTrade(p)
  PROVE  TrackedInv'
<1>1. UNCHANGED <<status, betId, blotter, pending, exch>>
  BY DEF SendRequest, AbandonRequest, RequestError, RequestBroken, Finish, PassReport,
         ClearUpdateData, ExitTrade, ReleaseTrade, orderVars, mainVars
<1>2. HeldBy(pkg[p])
  BY DEF TrackedInv, HeldInv
<1>3. CASE SendRequest(p)
  <2>1. \A i \in 1..Len(LiveOrders(p)) : LiveOrders(p)[i] \in blotter
    BY <1>2, LiveFrom DEF HeldBy, Tracked
  <2>2. /\ Len(pkg'[p].instr) = Len(LiveOrders(p))
        /\ \A i \in 1..Len(LiveOrders(p)) :
             pkg'[p].instr[i].order = LiveOrders(p)[i]
        /\ pkg'[p].orders = pkg[p].orders /\ pkg'[p].work = pkg[p].work
        /\ pkg'[p].subject = pkg[p].subject
    BY <1>3, SendFields
  <2>3. \A i \in 1..Len(pkg'[p].instr) : pkg'[p].instr[i].order \in blotter
    BY <2>1, <2>2
  <2>4. HeldBy(pkg[p])' /\ Len(pkg'[p].orders) <= MaxBatch
    BY <1>1, <1>2, <2>2, <2>3 DEF HeldBy, Tracked, TrackedInv, BatchInv
  <2> QED
    BY <1>1, <1>3, <2>4, SendFields, TrackedQuiet
<1>4. CASE RequestError(p) /\ RetryLeft(p)
  <2>1. RetryOrGiveUp(p)
    BY <1>4 DEF RequestError
  <2>2. HeldBy(pkg[p])' /\ Len(pkg'[p].orders) <= MaxBatch
    BY <1>1, <1>2, <1>4, <2>1, RetryFields DEF HeldBy, Tracked, TrackedInv, BatchInv
  <2> QED
    BY <1>1, <1>4, <2>1, <2>2, RetryFields, TrackedQuiet
<1>5. CASE Leave(p)
  BY <1>1, <1>5, LeaveFields, HeldIdle, TrackedQuiet
<1>6. CASE \E pc : Goto(p, pc)
  <2>1. PICK pc : Goto(p, pc)
    BY <1>6
  <2>2. HeldBy(pkg[p])' /\ Len(pkg'[p].orders) <= MaxBatch
    BY <1>1, <1>2, <2>1, GotoFields, HeldKept DEF HeldBy
  <2> QED
    BY <1>1, <2>1, <2>2, GotoFields, TrackedQuiet
<1>7. CASE NextItem(p) /\ pkg[p].work # <<>>
  <2>1. /\ pkg[p].work \in Seq(WorkAt(Len(exch)))
        /\ \A i \in 1..Len(pkg[p].work) : pkg[p].work[i].order \in blotter \cup {NoOrder}
    BY <1>2, PackageFields DEF HeldBy
  <2>2. \A i \in 1..Len(Tail(pkg[p].work)) :
          Tail(pkg[p].work)[i].order \in blotter \cup {NoOrder}
    <3> DEFINE work == pkg[p].work
    <3>1. work \in Seq(WorkAt(Len(exch))) /\ work # <<>>
      BY <1>7, <2>1
    <3>2. \A i \in 1..Len(work) : work[i].order \in blotter \cup {NoOrder}
      BY <2>1
    <3> HIDE DEF work
    <3>3. /\ Len(Tail(work)) = Len(work) - 1 /\ Len(work) \in Nat
          /\ \A i \in 1..Len(Tail(work)) : Tail(work)[i] = work[i + 1]
      BY <3>1, HeadTailProperties
    <3>4. \A i \in 1..Len(Tail(work)) : i + 1 \in 1..Len(work)
      BY <3>3
    <3>5. \A i \in 1..Len(Tail(work)) : Tail(work)[i].order \in blotter \cup {NoOrder}
      BY <3>2, <3>3, <3>4
    <3> QED
      BY <3>5 DEF work
  <2>3. HeldBy(pkg[p])' /\ Len(pkg'[p].orders) <= MaxBatch
    BY <1>1, <1>2, <1>7, <2>2, NextFields DEF HeldBy, Tracked, TrackedInv, BatchInv
  <2> QED
    BY <1>1, <1>7, <2>3, NextFields, TrackedQuiet
<1>8. ASSUME ExitTrade(p) \/ ReleaseTrade(p)
      PROVE  pkg[p].work # <<>>
  <2>1. pkg[p].pc \in Applying
    BY <1>8 DEF ExitTrade, ReleaseTrade, Applying
  <2> QED
    BY <2>1 DEF TypeInv, PackagesOK, HeadOK
<1>9. \/ SendRequest(p) \/ (RequestError(p) /\ RetryLeft(p)) \/ Leave(p)
      \/ \E pc : Goto(p, pc)
      \/ NextItem(p) /\ pkg[p].work # <<>>
  BY <1>8 DEF AbandonRequest, RequestError, RetryOrGiveUp, RequestBroken, Finish, PassReport,
              ClearUpdateData, ExitTrade, ReleaseTrade
<1> QED
  BY <1>3, <1>4, <1>5, <1>6, <1>7, <1>9

-----------------------------------------------------------------------------
(* What the exchange does *)

\* Bets keep their reference and only lose what is left of them.
Follows ==
  /\ Len(exch) <= Len(exch')
  /\ \A b \in 1..Len(exch) : exch'[b].ref = exch[b].ref /\ exch'[b].left <= exch[b].left

LEMMA SameFollows ==
  ASSUME TypeInv, exch' = exch
  PROVE  Follows
<1>1. exch \in Seq([ref : Order, left : 0..Size])
  BY DEF TypeInv, ExchangeOK
<1>2. Len(exch) \in Nat /\ \A b \in 1..Len(exch) : exch[b].left \in 0..Size
  BY <1>1, BetsType
<1>3. \A b \in 1..Len(exch) : exch[b].left <= exch[b].left
  BY <1>2
<1> QED
  BY <1>2, <1>3 DEF Follows

LEMMA LessFollows ==
  ASSUME TypeInv, NEW b \in 1..Len(exch), NEW left \in 0..Size, left <= exch[b].left
  PROVE  LET e == [exch EXCEPT ![b].left = left] IN
         /\ Len(e) = Len(exch) /\ e \in Seq([ref : Order, left : 0..Size])
         /\ \A c \in 1..Len(exch) : e[c].ref = exch[c].ref /\ e[c].left <= exch[c].left
         /\ e[b].left = left
<1> DEFINE e == [exch EXCEPT ![b].left = left]
<1>0. exch \in Seq([ref : Order, left : 0..Size])
  BY DEF TypeInv, ExchangeOK
<1>1. /\ Len(exch) \in Nat
      /\ \A c \in 1..Len(exch) :
           exch[c].left \in 0..Size /\ exch[c] \in [ref : Order, left : 0..Size]
  BY <1>0, BetsType
<1>2. Len(e) = Len(exch) /\ e \in Seq([ref : Order, left : 0..Size])
  BY BetType
<1>3. DOMAIN exch = 1..Len(exch)
  BY DEF TypeInv, ExchangeOK
<1>4. ASSUME NEW c \in 1..Len(exch), c # b
      PROVE  e[c] = exch[c]
  BY <1>3, <1>4
<1>5. e[b] = [exch[b] EXCEPT !.left = left]
  BY <1>3
<1>6. e[b].ref = exch[b].ref /\ e[b].left = left
  BY <1>1, <1>5
<1> HIDE DEF e
<1>7. ASSUME NEW c \in 1..Len(exch)
      PROVE  e[c].ref = exch[c].ref /\ e[c].left <= exch[c].left
  <2>1. CASE c = b
    BY <1>6, <2>1
  <2>2. CASE c # b
    BY <1>1, <1>4, <2>2
  <2> QED
    BY <2>1, <2>2
<1> QED
  BY <1>2, <1>6, <1>7 DEF e

\* An instruction of a place request
LEMMA PlaceShape ==
  ASSUME TypeInv, NEW p \in Package, ExchangePlace(p)
  PROVE  /\ Processing(p, "PLACE") /\ Follows
         /\ \E r : /\ Answer(p, <<r>>) /\ r.new = 0
                   /\ \/ /\ exch' = exch /\ r.bet = 0 /\ r.size = Size
                         /\ r.status \in {"FAILURE", "TIMEOUT"}
                      \/ /\ Len(exch') = Len(exch) + 1
                         /\ exch'[Len(exch')].ref = Head(pkg[p].instr).order
                         /\ exch'[Len(exch')].left \in 0..Size
                         /\ \/ /\ ~AsyncPlace /\ r.status = "SUCCESS"
                               /\ r.bet = Len(exch') /\ r.size = exch'[Len(exch')].left
                            \/ r.bet = 0 /\ r.size = Size /\ r.status # "FAILURE"
<1> DEFINE o == Head(pkg[p].instr).order
           n == Len(exch)
<1>0. Processing(p, "PLACE") /\ pkg[p].instr # <<>> /\ o \in Order
  BY HeadInstruction DEF ExchangePlace, Processing
<1>1. exch \in Seq([ref : Order, left : 0..Size]) /\ n \in Nat
  BY DEF TypeInv, ExchangeOK
<1>2. CASE exch' = exch
  <2>1. Follows
    BY <1>2, SameFollows
  <2>2. \A left : exch # Append(exch, Bet(o, left))
    <3>1. \A x : Len(Append(exch, x)) = n + 1
      BY <1>1
    <3> QED
      BY <1>1, <3>1
  <2>3. PICK st \in {"FAILURE", "TIMEOUT"} : Answer(p, Reports(st, 0, Size, 0))
    BY <1>2, <2>2 DEF ExchangePlace
  <2> DEFINE r == [status |-> st, bet |-> 0, size |-> Size, new |-> 0]
  <2>4. /\ Answer(p, <<r>>) /\ r.new = 0 /\ r.bet = 0 /\ r.size = Size
        /\ r.status \in {"FAILURE", "TIMEOUT"}
    BY <2>3 DEF Reports
  <2> HIDE DEF r
  <2> QED
    BY <1>0, <1>2, <2>1, <2>4
<1>3. CASE exch' # exch
  <2>1. PICK left \in 0..Size :
          /\ exch' = Append(exch, Bet(o, left))
          /\ \/ ~AsyncPlace /\ Answer(p, Reports("SUCCESS", n + 1, left, 0))
             \/ Answer(p, Reports("SUCCESS", 0, Size, 0))
             \/ Answer(p, Reports("TIMEOUT", 0, Size, 0))
    BY <1>3 DEF ExchangePlace
  <2>2. /\ Len(exch') = n + 1 /\ \A c \in 1..n : exch'[c] = exch[c]
        /\ exch'[n + 1].ref = o /\ exch'[n + 1].left = left
    <3> HIDE DEF o
    <3>1. exch' = Append(exch, [ref |-> o, left |-> left])
      BY <2>1 DEF Bet
    <3>2. Len(exch') = n + 1
      BY <1>1, <3>1
    <3>3. \A c \in 1..n : exch'[c] = exch[c]
      BY <1>1, <3>1
    <3>4. exch'[n + 1] = [ref |-> o, left |-> left]
      BY <1>1, <3>1
    <3> QED
      BY <3>2, <3>3, <3>4
  <2>3. Follows
    <3>1. \A c \in 1..n : exch[c].left \in 0..Size
      BY <1>1, BetsType
    <3> QED
      BY <1>1, <2>2, <3>1 DEF Follows
  <2> DEFINE R(st, bet, size) == [status |-> st, bet |-> bet, size |-> size, new |-> 0]
  <2>4. \/ ~AsyncPlace /\ Answer(p, <<R("SUCCESS", n + 1, left)>>)
        \/ \E st \in {"SUCCESS", "TIMEOUT"} : Answer(p, <<R(st, 0, Size)>>)
    BY <2>1 DEF Reports
  <2>5. \A st, bet, size : /\ R(st, bet, size).status = st /\ R(st, bet, size).bet = bet
                           /\ R(st, bet, size).size = size /\ R(st, bet, size).new = 0
    OBVIOUS
  <2> HIDE DEF R, n, o
  <2>6. \E r : /\ Answer(p, <<r>>) /\ r.new = 0
               /\ \/ /\ ~AsyncPlace /\ r.status = "SUCCESS" /\ r.bet = n + 1 /\ r.size = left
                  \/ r.bet = 0 /\ r.size = Size /\ r.status # "FAILURE"
    BY <2>4, <2>5
  <2> QED
    BY <1>0, <2>2, <2>3, <2>6 DEF n, o
<1> QED
  BY <1>2, <1>3

LEMMA CancelledType ==
  ASSUME NEW b, NEW r \in Nat, exch[b].left \in 0..Size
  PROVE  /\ Cancelled(b, r) \in 0..Size
         /\ exch[b].left - Cancelled(b, r) \in 0..Size
         /\ exch[b].left - Cancelled(b, r) <= exch[b].left
         /\ r = 0 => Cancelled(b, r) = exch[b].left
BY BoundAssumption DEF Cancelled

\* An instruction of a cancel request; SUCCESS is reported of what was cancelled.
LEMMA CancelShape ==
  ASSUME TypeInv, NEW p \in Package, ExchangeCancel(p)
  PROVE  LET b == Head(pkg[p].instr).bet IN
         /\ Processing(p, "CANCEL") /\ Follows /\ Len(exch') = Len(exch)
         /\ \/ Answer(p, <<>>)
            \/ \E r : /\ Answer(p, <<r>>) /\ r.new = 0 /\ r.bet = b
                      /\ r.status = "SUCCESS" /\ Head(pkg[p].instr).size = 0 =>
                           exch'[b].left = 0
<1> DEFINE b == Head(pkg[p].instr).bet
           c == Cancelled(b, Head(pkg[p].instr).size)
<1>0. /\ Processing(p, "CANCEL") /\ b \in 1..Len(exch)
      /\ Head(pkg[p].instr).size \in 0..Size
  BY HeadInstruction DEF ExchangeCancel, Processing
<1>1. exch[b].left \in 0..Size
  BY <1>0, BetType
<1>2. /\ c \in 0..Size /\ exch[b].left - c \in 0..Size /\ exch[b].left - c <= exch[b].left
      /\ Head(pkg[p].instr).size = 0 => c = exch[b].left
  <2>1. Head(pkg[p].instr).size \in Nat
    BY <1>0, BoundAssumption
  <2> QED
    BY <1>1, <2>1, CancelledType
<1>3. \/ /\ exch' = [exch EXCEPT ![b].left = exch[b].left - c]
         /\ \/ Answer(p, Reports("SUCCESS", b, c, 0))
            \/ Answer(p, Reports("TIMEOUT", b, 0, 0))
            \/ Answer(p, <<>>)
      \/ /\ exch' = exch
         /\ \/ exch[b].left = 0 /\ Answer(p, Reports("FAILURE", b, 0, 0))
            \/ Answer(p, Reports("FAILURE", b, 0, 0))
            \/ Answer(p, Reports("TIMEOUT", b, 0, 0))
            \/ Answer(p, <<>>)
  BY DEF ExchangeCancel
<1> HIDE DEF b, c
<1>4. /\ Follows /\ Len(exch') = Len(exch)
      /\ exch' # exch => exch'[b].left = exch[b].left - c
      /\ exch' = exch \/ exch' = [exch EXCEPT ![b].left = exch[b].left - c]
  <2>1. CASE exch' = exch
    BY <2>1, SameFollows
  <2>2. CASE exch' = [exch EXCEPT ![b].left = exch[b].left - c]
    <3> DEFINE left == exch[b].left - c
    <3>1. left \in 0..Size /\ left <= exch[b].left /\ exch' = [exch EXCEPT ![b].left = left]
      BY <1>2, <2>2
    <3> HIDE DEF left
    <3>2. /\ Len(exch') = Len(exch)
          /\ \A d \in 1..Len(exch) : exch'[d].ref = exch[d].ref
                                     /\ exch'[d].left <= exch[d].left
          /\ exch'[b].left = left
      BY <1>0, <3>1, LessFollows
    <3>3. Len(exch) \in Nat
      BY DEF TypeInv, ExchangeOK
    <3> QED
      BY <2>2, <3>2, <3>3 DEF Follows, left
  <2> QED
    BY <1>3, <2>1, <2>2
<1>5. \/ Answer(p, <<>>)
      \/ /\ exch' = [exch EXCEPT ![b].left = exch[b].left - c]
         /\ Answer(p, Reports("SUCCESS", b, c, 0))
      \/ \E st \in {"FAILURE", "TIMEOUT"} : Answer(p, Reports(st, b, 0, 0))
  BY <1>3
<1> DEFINE R(st, size) == [status |-> st, bet |-> b, size |-> size, new |-> 0]
<1>6. \A st, size : /\ Reports(st, b, size, 0) = <<R(st, size)>>
                    /\ R(st, size).status = st /\ R(st, size).bet = b /\ R(st, size).new = 0
  BY DEF Reports
<1> HIDE DEF R
<1>7. /\ exch' = [exch EXCEPT ![b].left = exch[b].left - c] =>
           exch'[b].left = exch[b].left - c
  <2>1. exch \in Seq([ref : Order, left : 0..Size]) /\ b \in DOMAIN exch
    BY <1>0 DEF TypeInv, ExchangeOK
  <2>2. exch[b] \in [ref : Order, left : 0..Size]
    BY <1>0, <2>1, ElementOfSeq
  <2> QED
    BY <2>1, <2>2
<1>8. \/ Answer(p, <<>>)
      \/ \E r : /\ Answer(p, <<r>>) /\ r.new = 0 /\ r.bet = b
                /\ r.status = "SUCCESS" => exch'[b].left = exch[b].left - c
  BY <1>5, <1>6, <1>7
<1>9. Head(pkg[p].instr).size = 0 /\ exch'[b].left = exch[b].left - c => exch'[b].left = 0
  BY <1>1, <1>2
<1> QED
  BY <1>0, <1>4, <1>8, <1>9 DEF b

\* An instruction of an update request
LEMMA UpdateShape ==
  ASSUME TypeInv, NEW p \in Package, ExchangeUpdate(p)
  PROVE  /\ Processing(p, "UPDATE") /\ exch' = exch
         /\ \E r : Answer(p, <<r>>) /\ r.new = 0 /\ r.bet = Head(pkg[p].instr).bet
<1> DEFINE b == Head(pkg[p].instr).bet
           R(st) == [status |-> st, bet |-> b, size |-> 0, new |-> 0]
<1>1. PICK st \in ReportStatus : Answer(p, Reports(st, b, 0, 0))
  BY DEF ExchangeUpdate
<1>2. Answer(p, <<R(st)>>) /\ R(st).new = 0 /\ R(st).bet = b
  BY <1>1 DEF Reports
<1> HIDE DEF R
<1> QED
  BY <1>2 DEF ExchangeUpdate

\* An instruction of a replace request: a new bet has the reference of the old one,
\* of which nothing is left.
LEMMA ReplaceShape ==
  ASSUME TypeInv, NEW p \in Package, ExchangeReplace(p)
  PROVE  LET b == Head(pkg[p].instr).bet
             n == Len(exch')
             Grown == n = Len(exch) + 1 /\ exch'[n].ref = exch[b].ref IN
         /\ Processing(p, "REPLACE") /\ Follows /\ b \in 1..Len(exch)
         /\ \E r : /\ Answer(p, <<r>>) /\ r.bet = b
                   /\ r.status = "SUCCESS" => exch'[b].left = 0
                   /\ \/ r.new = 0 /\ (n = Len(exch) \/ Grown)
                      \/ Grown /\ r.new = n /\ r.size = exch'[n].left
<1> DEFINE b == Head(pkg[p].instr).bet
           n == Len(exch)
           dead == [exch EXCEPT ![b].left = 0]
           ref == exch[b].ref
           R(st, size, new) == [status |-> st, bet |-> b, size |-> size, new |-> new]
<1>0. Processing(p, "REPLACE") /\ b \in 1..n
  BY HeadInstruction DEF ExchangeReplace, Processing
<1>1. exch \in Seq([ref : Order, left : 0..Size]) /\ n \in Nat
  BY DEF TypeInv, ExchangeOK
<1>2. \A c \in 1..n : exch[c].left \in 0..Size
  BY <1>1, BetsType
<1>3. /\ dead \in Seq([ref : Order, left : 0..Size]) /\ Len(dead) = n
      /\ \A c \in 1..n : dead[c].ref = exch[c].ref /\ dead[c].left <= exch[c].left
      /\ dead[b].left = 0
  <2>1. 0 \in 0..Size /\ 0 <= exch[b].left
    BY <1>0, <1>2, BoundAssumption
  <2> HIDE DEF b
  <2> QED
    BY <1>0, <2>1, LessFollows
<1>4. \/ \E left \in 0..exch[b].left :
           /\ exch' = Append(dead, Bet(ref, left))
           /\ \/ Answer(p, Reports("SUCCESS", b, left, n + 1))
              \/ Answer(p, Reports("TIMEOUT", b, 0, 0))
      \/ exch' = dead /\ Answer(p, Reports("SUCCESS", b, 0, 0))
      \/ /\ exch' = exch
         /\ Answer(p, Reports("FAILURE", b, 0, 0)) \/ Answer(p, Reports("TIMEOUT", b, 0, 0))
  BY DEF ExchangeReplace
<1>5. \A st, size, new : /\ Reports(st, b, size, new) = <<R(st, size, new)>>
                         /\ R(st, size, new).status = st /\ R(st, size, new).bet = b
                         /\ R(st, size, new).size = size /\ R(st, size, new).new = new
  BY DEF Reports
<1> HIDE DEF R, dead, b
<1>6. CASE exch' = exch /\ (\/ Answer(p, Reports("FAILURE", b, 0, 0))
                            \/ Answer(p, Reports("TIMEOUT", b, 0, 0)))
  <2>1. Follows
    BY <1>6, SameFollows
  <2>2. \E r : Answer(p, <<r>>) /\ r.bet = b /\ r.status # "SUCCESS" /\ r.new = 0
    BY <1>5, <1>6
  <2> QED
    BY <1>0, <1>6, <2>1, <2>2 DEF b
<1>7. CASE exch' = dead /\ Answer(p, Reports("SUCCESS", b, 0, 0))
  <2>1. Follows
    BY <1>1, <1>3, <1>7 DEF Follows
  <2>2. \E r : Answer(p, <<r>>) /\ r.bet = b /\ r.new = 0
    BY <1>5, <1>7
  <2>3. exch'[b].left = 0 /\ Len(exch') = Len(exch)
    BY <1>3, <1>7
  <2> QED
    BY <1>0, <2>1, <2>2, <2>3 DEF b
<1>8. ASSUME NEW left \in 0..exch[b].left, exch' = Append(dead, Bet(ref, left)),
             \/ Answer(p, Reports("SUCCESS", b, left, n + 1))
             \/ Answer(p, Reports("TIMEOUT", b, 0, 0))
      PROVE  /\ Follows
             /\ Len(exch') = n + 1 /\ exch'[n + 1].ref = ref /\ exch'[b].left = 0
             /\ \E r : /\ Answer(p, <<r>>) /\ r.bet = b
                       /\ r.new = 0 \/ (r.new = n + 1 /\ r.size = exch'[n + 1].left)
  <2> HIDE DEF ref
  <2>1. exch' = Append(dead, [ref |-> ref, left |-> left])
    BY <1>8 DEF Bet
  <2>2. Len(exch') = n + 1
    BY <1>1, <1>3, <2>1
  <2>3. \A c \in 1..n : exch'[c] = dead[c]
    BY <1>1, <1>3, <2>1
  <2>4. exch'[n + 1] = [ref |-> ref, left |-> left]
    BY <1>1, <1>3, <2>1
  <2>5. Follows
    <3>1. \A c \in 1..n : exch'[c].ref = exch[c].ref /\ exch'[c].left <= exch[c].left
      BY <1>3, <2>3
    <3>2. Len(exch) <= Len(exch')
      BY <1>1, <2>2
    <3> QED
      BY <3>1, <3>2 DEF Follows
  <2>6. \E r : /\ Answer(p, <<r>>) /\ r.bet = b
               /\ r.new = 0 \/ (r.new = n + 1 /\ r.size = left)
    <3>1. CASE Answer(p, Reports("SUCCESS", b, left, n + 1))
      <4> DEFINE r == R("SUCCESS", left, n + 1)
      <4>1. Answer(p, <<r>>) /\ r.bet = b /\ r.new = n + 1 /\ r.size = left
        BY <1>5, <3>1
      <4> QED
        BY <4>1
    <3>2. CASE Answer(p, Reports("TIMEOUT", b, 0, 0))
      BY <1>5, <3>2
    <3> QED
      BY <1>8, <3>1, <3>2
  <2> QED
    <3>1. exch'[n + 1].ref = ref /\ exch'[n + 1].left = left
      BY <2>4
    <3>2. exch'[b].left = 0
      BY <1>0, <1>3, <2>3
    <3> QED
      BY <2>2, <2>5, <2>6, <3>1, <3>2
<1>9. CASE \E left \in 0..exch[b].left :
             /\ exch' = Append(dead, Bet(ref, left))
             /\ \/ Answer(p, Reports("SUCCESS", b, left, n + 1))
                \/ Answer(p, Reports("TIMEOUT", b, 0, 0))
  BY <1>0, <1>8, <1>9 DEF b
<1> QED
  BY <1>4, <1>6, <1>7, <1>9

-----------------------------------------------------------------------------
(* What the reply makes of the reports *)

\* zip: as many items as the shorter of the two has, pair by pair
LEMMA ZipFields ==
  ASSUME NEW S, NEW T, NEW orders \in Seq(S), NEW reports \in Seq(T)
  PROVE  /\ Len(Zip(orders, reports)) \in Nat
         /\ Len(Zip(orders, reports)) <= Len(orders)
         /\ Len(Zip(orders, reports)) <= Len(reports)
         /\ Len(Zip(orders, reports)) = Len(orders) \/ Len(Zip(orders, reports)) = Len(reports)
         /\ \A i \in 1..Len(Zip(orders, reports)) :
              /\ Zip(orders, reports)[i].order = orders[i]
              /\ Zip(orders, reports)[i].report = reports[i]
<1> DEFINE m == IF Len(orders) < Len(reports) THEN Len(orders) ELSE Len(reports)
<1>1. /\ m \in Nat /\ m <= Len(orders) /\ m <= Len(reports)
      /\ m = Len(orders) \/ m = Len(reports)
  OBVIOUS
<1>2. Zip(orders, reports) = [i \in 1..m |-> [order |-> orders[i], report |-> reports[i]]]
  BY DEF Zip
<1> HIDE DEF m
<1>3. Len(Zip(orders, reports)) = m
  BY <1>1, <1>2
<1> QED
  BY <1>1, <1>2, <1>3

\* The permutation of a request that is not a cancel leaves the reports as they are.
LEMMA SortedSame ==
  ASSUME NEW T, NEW s \in Seq(T), NEW f, f = [i \in DOMAIN s |-> i]
  PROVE  [i \in DOMAIN s |-> s[f[i]]] = s
<1>1. \A i \in DOMAIN s : f[i] = i
  OBVIOUS
<1>2. [i \in DOMAIN s |-> s[f[i]]] = [i \in DOMAIN s |-> s[i]]
  BY <1>1
<1> QED
  BY <1>2

\* The reports of a place, an update or a replace are applied by position.
LEMMA ReplyFields ==
  ASSUME TypeInv, NEW p \in Package, Reply(p)
  PROVE  /\ pkg[p].pc \in {"sent", "handled"}
         /\ pkg[p].pc = "sent" => pkg[p].processed
         /\ Others(p)
         /\ pkg'[p].pc = "next" /\ pkg'[p].type = pkg[p].type
         /\ pkg'[p].orders = pkg[p].orders /\ pkg'[p].processed = pkg[p].processed
         /\ pkg'[p].instr = <<>> /\ pkg'[p].reports = <<>>
         /\ pkg'[p].subject = pkg[p].subject
         /\ pkg[p].type # "CANCEL" =>
              pkg'[p].work = Zip(LiveOrders(p), IF pkg[p].processed THEN <<>>
                                                ELSE pkg[p].reports)
<1> DEFINE orders == LiveOrders(p)
           reports == IF pkg[p].processed THEN <<>> ELSE pkg[p].reports
           sorted(f) == [i \in DOMAIN reports |-> reports[f[i]]]
           W(f) == IF pkg[p].type = "CANCEL"
                   THEN Lookup(orders, sorted(f)) \o Unreported(orders, sorted(f))
                   ELSE Zip(orders, sorted(f))
<1>1. pkg[p] \in PackageAt(Len(exch)) /\ DOMAIN pkg = Package
      /\ reports \in Seq(ReportAt(Len(exch)))
  BY PackageFields DEF TypeInv, PackagesOK
<1>2. PICK f : /\ pkg[p].type # "CANCEL" => f = [i \in DOMAIN reports |-> i]
               /\ pkg' = [pkg EXCEPT ![p].pc = "next", ![p].instr = <<>>, ![p].reports = <<>>,
                                     ![p].work = W(f)]
  BY DEF Reply
<1>3. pkg[p].type # "CANCEL" => W(f) = Zip(orders, reports)
  <2> HIDE DEF reports, orders
  <2> SUFFICES ASSUME pkg[p].type # "CANCEL" PROVE W(f) = Zip(orders, reports)
    OBVIOUS
  <2>1. sorted(f) = reports
    BY <1>1, <1>2, SortedSame
  <2> QED
    BY <2>1
<1> DEFINE w == W(f)
<1> HIDE DEF W
<1>4. pkg' = [pkg EXCEPT ![p].pc = "next", ![p].instr = <<>>, ![p].reports = <<>>,
                         ![p].work = w]
  BY <1>2
<1> HIDE DEF w
<1>5. /\ pkg'[p] = [pkg[p] EXCEPT !.pc = "next", !.instr = <<>>, !.reports = <<>>,
                                  !.work = w]
      /\ Others(p)
  BY <1>1, <1>4 DEF Others
<1>6. /\ Others(p)
      /\ pkg'[p].pc = "next" /\ pkg'[p].type = pkg[p].type
      /\ pkg'[p].orders = pkg[p].orders /\ pkg'[p].processed = pkg[p].processed
      /\ pkg'[p].instr = <<>> /\ pkg'[p].reports = <<>> /\ pkg'[p].work = w
      /\ pkg'[p].subject = pkg[p].subject
  BY <1>1, <1>5 DEF PackageAt
<1>7. /\ pkg[p].pc \in {"sent", "handled"}
      /\ pkg[p].pc = "sent" => pkg[p].processed
  BY DEF Reply, SeenAll, SeenNothing
<1> QED
  BY <1>3, <1>6, <1>7 DEF w

\* The items of a cancel request: an order of the package with the report that names its
\* bet, or a report that names none of them, or an order without a report
LEMMA CancelItems ==
  ASSUME TypeInv, NEW p \in Package, Reply(p), pkg[p].type = "CANCEL"
  PROVE  \A i \in 1..Len(pkg'[p].work) :
           /\ \/ pkg'[p].work[i].order = NoOrder
              \/ \E j \in 1..Len(LiveOrders(p)) : pkg'[p].work[i].order = LiveOrders(p)[j]
           /\ \/ pkg'[p].work[i].report = Missing
              \/ /\ \E j \in 1..Len(pkg[p].reports) :
                      pkg'[p].work[i].report = pkg[p].reports[j]
                 /\ pkg'[p].work[i].order # NoOrder =>
                      betId[pkg'[p].work[i].order] = pkg'[p].work[i].report.bet
<1> DEFINE orders == LiveOrders(p)
           reports == IF pkg[p].processed THEN <<>> ELSE pkg[p].reports
<1>1. /\ pkg[p] \in PackageAt(Len(exch)) /\ DOMAIN pkg = Package
      /\ reports \in Seq(ReportAt(Len(exch)))
      /\ orders \in Seq(Order)
      /\ \A j \in 1..Len(reports) : j \in 1..Len(pkg[p].reports) /\ reports[j] = pkg[p].reports[j]
  BY PackageFields, LiveOrdersType DEF TypeInv, PackagesOK
<1>2. PICK f \in Orderings(Len(reports)) :
        pkg' = [pkg EXCEPT ![p].pc = "next", ![p].instr = <<>>, ![p].reports = <<>>,
                           ![p].work = Lookup(orders, [i \in DOMAIN reports |-> reports[f[i]]])
                             \o Unreported(orders, [i \in DOMAIN reports |-> reports[f[i]]])]
  BY DEF Reply
<1> HIDE DEF orders, reports
<1> DEFINE sorted == [i \in DOMAIN reports |-> reports[f[i]]]
           left == Select(orders, {o \in Order : betId[o] \notin {r.bet : r \in Range(sorted)}})
           a == Lookup(orders, sorted)
           b == Unreported(orders, sorted)
<1>3. /\ Len(reports) \in Nat /\ DOMAIN reports = 1..Len(reports)
      /\ \A i \in 1..Len(reports) : f[i] \in 1..Len(reports)
  BY <1>1, <1>2 DEF Orderings
<1>4. /\ sorted \in Seq(ReportAt(Len(exch))) /\ Len(sorted) = Len(reports)
      /\ \A i \in 1..Len(sorted) : sorted[i] = reports[f[i]]
  BY <1>1, <1>3, ElementOfSeq
<1>5. pkg'[p].work = a \o b
  <2> DEFINE w == a \o b
  <2>1. pkg' = [pkg EXCEPT ![p].pc = "next", ![p].instr = <<>>, ![p].reports = <<>>,
                           ![p].work = w]
    BY <1>2
  <2> HIDE DEF w
  <2>2. pkg'[p] = [pkg[p] EXCEPT !.pc = "next", !.instr = <<>>, !.reports = <<>>,
                                 !.work = w]
    BY <1>1, <2>1
  <2>3. pkg'[p].work = w
    BY <1>1, <2>2 DEF PackageAt
  <2> QED
    BY <2>3 DEF w
<1> HIDE DEF sorted
<1>6. /\ a \in Seq(WorkAt(Len(exch))) /\ Len(a) = Len(sorted)
      /\ \A i \in 1..Len(a) :
           /\ a[i].report = sorted[i]
           /\ \/ a[i].order = NoOrder
              \/ a[i].order \in Range(orders) /\ betId[a[i].order] = sorted[i].bet
  <2> DEFINE O(i) == IF \E o \in Range(orders) : betId[o] = sorted[i].bet
                     THEN CHOOSE o \in Range(orders) : betId[o] = sorted[i].bet
                     ELSE NoOrder
  <2>1. a = [i \in DOMAIN sorted |-> [order |-> O(i), report |-> sorted[i]]]
    BY DEF Lookup
  <2>2. \A i : \/ O(i) = NoOrder
               \/ O(i) \in Range(orders) /\ betId[O(i)] = sorted[i].bet
    OBVIOUS
  <2>3. a \in Seq(WorkAt(Len(exch)))
    BY <1>1, <1>4, LookupType
  <2> HIDE DEF O
  <2>4. Len(a) = Len(sorted) /\ DOMAIN sorted = 1..Len(sorted) /\ Len(sorted) \in Nat
    BY <1>4, <2>1
  <2> QED
    BY <2>1, <2>2, <2>3, <2>4
<1>7. left \in Seq(Order) /\ \A i \in 1..Len(left) : \E j \in 1..Len(orders) : left[i] = orders[j]
  <2> DEFINE S == {o \in Order : betId[o] \notin {r.bet : r \in Range(sorted)}}
  <2>1. left = Select(orders, S)
    OBVIOUS
  <2> HIDE DEF S, left
  <2> QED
    BY <1>1, <2>1, SelectType
<1>8. /\ b \in Seq(WorkAt(Len(exch))) /\ Len(b) = Len(left)
      /\ \A i \in 1..Len(b) : b[i].report = Missing /\ b[i].order = left[i]
  <2>1. b = [i \in DOMAIN left |-> [order |-> left[i], report |-> Missing]]
    BY DEF Unreported
  <2>2. b \in Seq(WorkAt(Len(exch)))
    BY <1>1, <1>4, UnreportedType DEF TypeInv, ExchangeOK
  <2> HIDE DEF left
  <2>3. Len(b) = Len(left) /\ DOMAIN left = 1..Len(left) /\ Len(left) \in Nat
    BY <1>7, <2>1
  <2> QED
    BY <2>1, <2>2, <2>3
<1> HIDE DEF a, b, left
<1>9. /\ Len(a \o b) = Len(a) + Len(b) /\ Len(a) \in Nat /\ Len(b) \in Nat
      /\ \A i \in 1..Len(a \o b) :
           IF i <= Len(a) THEN (a \o b)[i] = a[i] ELSE (a \o b)[i] = b[i - Len(a)]
  <2>1. a \in Seq(WorkAt(Len(exch))) /\ b \in Seq(WorkAt(Len(exch)))
    BY <1>6, <1>8
  <2>2. Len(a) \in Nat /\ Len(b) \in Nat
    BY <2>1
  <2>3. /\ Len(a \o b) = Len(a) + Len(b)
        /\ \A i \in 1..Len(a) + Len(b) :
             (a \o b)[i] = IF i <= Len(a) THEN a[i] ELSE b[i - Len(a)]
    BY <2>1, ConcatProperties
  <2> QED
    BY <2>2, <2>3
<1>10. \A x \in Range(orders) : \E j \in 1..Len(orders) : x = orders[j]
  BY <1>1 DEF Range
<1>11. ASSUME NEW i \in 1..Len(a)
       PROVE  /\ \/ a[i].order = NoOrder
                 \/ \E j \in 1..Len(orders) : a[i].order = orders[j]
              /\ \E j \in 1..Len(pkg[p].reports) : a[i].report = pkg[p].reports[j]
              /\ a[i].order # NoOrder => betId[a[i].order] = a[i].report.bet
  <2>1. a[i].report = sorted[i] /\ i \in 1..Len(reports) /\ sorted[i] = reports[f[i]]
    BY <1>4, <1>6
  <2>2. f[i] \in 1..Len(pkg[p].reports) /\ reports[f[i]] = pkg[p].reports[f[i]]
    BY <1>1, <1>3, <2>1
  <2>3. \E j \in 1..Len(pkg[p].reports) : a[i].report = pkg[p].reports[j]
    BY <2>1, <2>2
  <2> QED
    BY <1>6, <1>10, <2>3
<1>12. ASSUME NEW i \in 1..Len(b)
       PROVE  /\ b[i].report = Missing
              /\ \E j \in 1..Len(orders) : b[i].order = orders[j]
  BY <1>7, <1>8
<1>13. ASSUME NEW i \in 1..Len(a \o b)
       PROVE  \/ i \in 1..Len(a) /\ (a \o b)[i] = a[i]
              \/ (i - Len(a)) \in 1..Len(b) /\ (a \o b)[i] = b[i - Len(a)]
  BY <1>9
<1> QED
  BY <1>5, <1>11, <1>12, <1>13 DEF orders

\* The item a thread is handling
LEMMA ItemHead ==
  ASSUME TypeInv, NEW p \in Package, pkg[p].work # <<>>
  PROVE  Item(p) = pkg[p].work[1] /\ 1 \in 1..Len(pkg[p].work) /\ Len(pkg[p].work) \in Nat
<1>1. pkg[p].work \in Seq(WorkAt(Len(exch)))
  BY PackageFields
<1> QED
  BY <1>1 DEF Item

\* The first order of the item being applied
LEMMA ItemTracked ==
  ASSUME TypeInv, TrackedInv, NEW p \in Package, pkg[p].work # <<>>, Item(p).order # NoOrder
  PROVE  Item(p).order \in blotter
BY ItemHead DEF TrackedInv, HeldInv, HeldBy

LEMMA ApplyingItem ==
  ASSUME TypeInv, NEW p \in Package, pkg[p].pc \in Applying
  PROVE  pkg[p].work # <<>> /\ Item(p).order \in Order /\ Item(p).order # NoOrder
BY OrderAssumption DEF TypeInv, PackagesOK, HeadOK, Item

-----------------------------------------------------------------------------
(* The blotter: the steps of the exchange and of the reports *)

\* An instruction is done.
LEMMA HeldAnswer ==
  ASSUME TypeInv, TrackedInv, NEW p \in Package, NEW rep, Answer(p, rep),
         pkg[p].instr # <<>>, blotter' = blotter
  PROVE  HeldBy(pkg[p])' /\ Len(pkg'[p].orders) <= MaxBatch
<1> DEFINE instr == pkg[p].instr
<1>1. instr \in Seq(InstructionAt(Len(exch))) /\ instr # <<>>
  BY PackageFields
<1>2. /\ pkg'[p].orders = pkg[p].orders /\ pkg'[p].instr = Tail(instr)
      /\ pkg'[p].work = pkg[p].work /\ pkg'[p].subject = pkg[p].subject
  BY AnswerFields
<1>3. HeldBy(pkg[p]) /\ \A i \in 1..Len(instr) : instr[i].order \in blotter
  BY DEF TrackedInv, HeldInv, HeldBy
<1> HIDE DEF instr
<1>4. /\ Len(Tail(instr)) = Len(instr) - 1 /\ Len(instr) \in Nat
      /\ \A i \in 1..Len(Tail(instr)) : Tail(instr)[i] = instr[i + 1]
  BY <1>1, HeadTailProperties
<1>5. \A i \in 1..Len(Tail(instr)) : i + 1 \in 1..Len(instr)
  BY <1>4
<1>6. \A i \in 1..Len(Tail(instr)) : Tail(instr)[i].order \in blotter
  BY <1>3, <1>4, <1>5
<1> QED
  BY <1>2, <1>3, <1>6 DEF HeldBy, Tracked, TrackedInv, BatchInv

LEMMA TrackedExchange ==
  ASSUME TypeInv, TypeInv', TrackedInv, NEW p \in Package,
         ExchangePlace(p) \/ ExchangeCancel(p) \/ ExchangeUpdate(p) \/ ExchangeReplace(p)
  PROVE  TrackedInv'
<1> DEFINE ref == Head(pkg[p].instr).order
<1>1. /\ UNCHANGED <<status, betId, blotter, pending>> /\ pkg[p].instr # <<>>
  BY DEF ExchangePlace, ExchangeCancel, ExchangeUpdate, ExchangeReplace, Processing,
         orderVars, mainVars
<1>2. PICK rep : Answer(p, rep)
  BY PlaceShape, CancelShape, UpdateShape, ReplaceShape
<1>3. ref \in blotter
  <2>1. pkg[p].instr \in Seq(InstructionAt(Len(exch)))
    BY PackageFields
  <2>2. Head(pkg[p].instr) = pkg[p].instr[1] /\ 1 \in 1..Len(pkg[p].instr)
    BY <1>1, <2>1
  <2> QED
    BY <2>2 DEF TrackedInv, HeldInv, HeldBy
<1>4. ASSUME Len(exch) \in Nat, Follows,
             \/ Len(exch') = Len(exch)
             \/ /\ Len(exch') = Len(exch) + 1
                /\ \/ exch'[Len(exch')].ref = ref
                   \/ \E c \in 1..Len(exch) : exch'[Len(exch')].ref = exch[c].ref
      PROVE  \A b \in 1..Len(exch') :
               exch'[b].ref \in blotter \/ \E c \in 1..Len(exch) : exch'[b].ref = exch[c].ref
  <2> SUFFICES ASSUME NEW b \in 1..Len(exch')
               PROVE  exch'[b].ref \in blotter
                      \/ \E c \in 1..Len(exch) : exch'[b].ref = exch[c].ref
    OBVIOUS
  <2> HIDE DEF ref
  <2>1. CASE b \in 1..Len(exch)
    BY <1>4, <2>1 DEF Follows
  <2>2. CASE b \notin 1..Len(exch)
    <3>1. b = Len(exch') /\ Len(exch') = Len(exch) + 1
      BY <1>4, <2>2
    <3> QED
      BY <1>3, <1>4, <3>1
  <2> QED
    BY <2>1, <2>2
<1>5. /\ Len(exch) \in Nat /\ Follows
      /\ \/ Len(exch') = Len(exch)
         \/ /\ Len(exch') = Len(exch) + 1
            /\ \/ exch'[Len(exch')].ref = ref
               \/ \E c \in 1..Len(exch) : exch'[Len(exch')].ref = exch[c].ref
  <2>1. Len(exch) \in Nat
    BY DEF TypeInv, ExchangeOK
  <2>2. CASE ExchangePlace(p)
    BY <2>1, <2>2, PlaceShape
  <2>3. CASE ExchangeCancel(p)
    BY <2>1, <2>3, CancelShape
  <2>4. CASE ExchangeUpdate(p)
    BY <2>1, <2>4, UpdateShape, SameFollows
  <2>5. CASE ExchangeReplace(p)
    BY <2>1, <2>5, ReplaceShape
  <2> QED
    BY <2>2, <2>3, <2>4, <2>5
<1>6. \A b \in 1..Len(exch') :
        exch'[b].ref \in blotter \/ \E c \in 1..Len(exch) : exch'[b].ref = exch[c].ref
  BY <1>4, <1>5
<1>7. Mild
  BY <1>1, SameMild DEF TrackedInv
<1>8. \A o \in Order : betId'[o] # 0 => o \in blotter
  BY <1>1 DEF TrackedInv, BlotterInv
<1>9. HeldBy(pkg[p])' /\ Len(pkg'[p].orders) <= MaxBatch
  BY <1>1, <1>2, HeldAnswer
<1>10. Others(p)
  BY <1>2, AnswerFields
<1> HIDE DEF ref
<1> QED
  BY <1>1, <1>6, <1>7, <1>8, <1>9, <1>10, TrackedStep

LEMMA TrackedReply ==
  ASSUME TypeInv, TypeInv', TrackedInv, NEW p \in Package, Reply(p)
  PROVE  TrackedInv'
<1>1. UNCHANGED <<status, betId, blotter, pending, exch>>
  BY DEF Reply, orderVars, mainVars
<1>2. HeldBy(pkg[p]) /\ Len(pkg[p].orders) <= MaxBatch
  BY DEF TrackedInv, HeldInv, BatchInv
<1>3. LiveOrders(p) \in Seq(Order) /\ \A i \in 1..Len(LiveOrders(p)) : LiveOrders(p)[i] \in blotter
  BY <1>2, LiveFrom DEF HeldBy, Tracked
<1>4. \A i \in 1..Len(pkg'[p].work) : pkg'[p].work[i].order \in blotter \cup {NoOrder}
  <2>1. CASE pkg[p].type = "CANCEL"
    BY <1>3, <2>1, CancelItems
  <2>2. CASE pkg[p].type # "CANCEL"
    <3> DEFINE orders == LiveOrders(p)
               reports == IF pkg[p].processed THEN <<>> ELSE pkg[p].reports
    <3>1. pkg'[p].work = Zip(orders, reports) /\ reports \in Seq(ReportAt(Len(exch)))
      BY <2>2, ReplyFields, PackageFields
    <3>2. orders \in Seq(Order) /\ \A i \in 1..Len(orders) : orders[i] \in blotter
      BY <1>3
    <3> HIDE DEF orders, reports
    <3>3. /\ Len(Zip(orders, reports)) \in Nat /\ Len(Zip(orders, reports)) <= Len(orders)
          /\ \A i \in 1..Len(Zip(orders, reports)) : Zip(orders, reports)[i].order = orders[i]
      BY <3>1, <3>2, ZipFields
    <3> QED
      BY <3>1, <3>2, <3>3
  <2> QED
    BY <2>1, <2>2
<1>5. HeldBy(pkg[p])' /\ Len(pkg'[p].orders) <= MaxBatch
  BY <1>1, <1>2, <1>4, ReplyFields DEF HeldBy, Tracked
<1> QED
  BY <1>1, <1>5, ReplyFields, TrackedQuiet

\* Statuses that the outcome of a report is not
LEMMA OutcomeMild ==
  ASSUME TypeInv, BlotterInv, NEW o \in blotter, NEW r, NEW type \in PackageType
  PROVE  /\ Outcome(type, o, r) \notin {"None", "New"}
         /\ Outcome(type, o, r) = "VIOLATION" => status[o] = "VIOLATION"
BY DEF Outcome, PlaceOutcome, CancelOutcome, ReplaceOutcome, PackageType, BlotterInv, TypeInv,
       OrdersOK

LEMMA TrackedApply ==
  ASSUME TypeInv, TypeInv', TrackedInv, NEW p \in Package,
         EnterTrade(p) \/ ApplyReport(p) \/ SettleReplacement(p)
  PROVE  TrackedInv'
<1>0. BlotterInv /\ HeldBy(pkg[p]) /\ BatchInv
  BY DEF TrackedInv, HeldInv
<1>1. CASE EnterTrade(p)
  <2> DEFINE o == Item(p).order
  <2>1. o \in blotter
    BY <1>1, ItemTracked DEF EnterTrade
  <2>2. UNCHANGED <<status, blotter, pending, exch>>
    BY <1>1 DEF EnterTrade, mainVars
  <2>3. TakesUp(p, "apply", o)
    BY <1>1 DEF EnterTrade, TakesUp
  <2>4. betId' = betId \/ betId' = [betId EXCEPT ![o] = Item(p).report.bet]
    BY <1>1 DEF EnterTrade
  <2> HIDE DEF o
  <2>5. /\ Others(p) /\ pkg'[p].orders = pkg[p].orders /\ pkg'[p].instr = pkg[p].instr
        /\ pkg'[p].work = pkg[p].work /\ pkg'[p].subject = o
    BY <2>3, SubjectFields
  <2>6. HeldBy(pkg[p])' /\ Len(pkg'[p].orders) <= MaxBatch
    BY <2>1, <2>2, <2>5, HeldKept
  <2>7. \A x \in Order : betId'[x] # 0 => x \in blotter
    BY <1>0, <2>1, <2>4 DEF BlotterInv, TypeInv, OrdersOK
  <2>8. Mild
    BY <1>0, <2>2, SameMild
  <2> QED
    BY <2>2, <2>5, <2>6, <2>7, <2>8, TrackedStep
<1>2. CASE ApplyReport(p)
  <2> DEFINE o == Item(p).order
             s == Outcome(pkg[p].type, o, Item(p).report)
  <2>1. pkg[p].pc = "apply" /\ UpdateStatus(o, s) /\ UNCHANGED <<betId, blotter, pending, exch>>
    BY <1>2 DEF ApplyReport, mainVars
  <2>2. o \in blotter
    <3>1. pkg[p].work # <<>> /\ Item(p).order # NoOrder
      BY <2>1, ApplyingItem DEF Applying
    <3> QED
      BY <3>1, ItemTracked
  <2>3. s \notin {"None", "New"} /\ (s = "VIOLATION" => status[o] = "VIOLATION")
    BY <1>0, <2>2, PackageFields, OutcomeMild
  <2>4. PICK pc : Goto(p, pc)
    BY <1>2 DEF ApplyReport
  <2> HIDE DEF o, s
  <2>5. Mild
    BY <1>0, <2>1, <2>2, <2>3, UpdateMild
  <2>6. Others(p) /\ HeldBy(pkg[p])' /\ Len(pkg'[p].orders) <= MaxBatch
    BY <1>0, <2>1, <2>4, GotoFields, HeldKept DEF HeldBy
  <2>7. \A x \in Order : betId'[x] # 0 => x \in blotter
    BY <1>0, <2>1 DEF BlotterInv
  <2> QED
    BY <2>1, <2>5, <2>6, <2>7, TrackedStep
<1>3. CASE SettleReplacement(p)
  <2> DEFINE o == pkg[p].subject
             s == "EXECUTABLE"
  <2>1. UpdateStatus(o, s) /\ UNCHANGED <<betId, blotter, pending, exch>>
    BY <1>3 DEF SettleReplacement, mainVars
  <2>2. o \in blotter \/ o \notin Order
    BY <1>0, OrderAssumption DEF HeldBy
  <2>3. s \notin {"None", "New", "VIOLATION"}
    OBVIOUS
  <2>4. Goto(p, "clear")
    BY <1>3 DEF SettleReplacement
  <2> HIDE DEF o, s
  <2>5. Mild
    BY <1>0, <2>1, <2>2, <2>3, UpdateMild
  <2>6. Others(p) /\ HeldBy(pkg[p])' /\ Len(pkg'[p].orders) <= MaxBatch
    BY <1>0, <2>1, <2>4, GotoFields, HeldKept DEF HeldBy
  <2>7. \A x \in Order : betId'[x] # 0 => x \in blotter
    BY <1>0, <2>1 DEF BlotterInv
  <2> QED
    BY <2>1, <2>5, <2>6, <2>7, TrackedStep
<1> QED
  BY <1>1, <1>2, <1>3

\* The order of a replacement is one that nothing is known of.
LEMMA FreshOrder ==
  ASSUME UnusedOrders # {}
  PROVE  /\ Fresh(UnusedOrders) \in Order /\ status[Fresh(UnusedOrders)] = "None"
         /\ \A b \in 1..Len(exch) : exch[b].ref # Fresh(UnusedOrders)
<1>1. Fresh(UnusedOrders) \in UnusedOrders
  BY DEF Fresh
<1> QED
  BY <1>1 DEF UnusedOrders, Bets

LEMMA TrackedCreate ==
  ASSUME TypeInv, TypeInv', TrackedInv, NEW p \in Package, CreateReplacement(p)
  PROVE  TrackedInv'
<1> DEFINE n == Fresh(UnusedOrders)
           new == ReplacementBet(Item(p).report)
<1>1. n \in Order /\ status[n] = "None" /\ \A b \in 1..Len(exch) : exch[b].ref # n
  BY FreshOrder DEF CreateReplacement
<1>2. /\ status' = [status EXCEPT ![n] = "PENDING"] /\ betId' = [betId EXCEPT ![n] = new]
      /\ blotter' = blotter \cup {n}
      /\ TakesUp(p, "settle", n)
      /\ UNCHANGED <<pending, exch>>
  BY DEF CreateReplacement, mainVars, TakesUp
<1> HIDE DEF n, new
<1>3. BlotterInv'
  BY <1>1, <1>2 DEF TrackedInv, BlotterInv, TypeInv, OrdersOK
<1>4. /\ Others(p) /\ pkg'[p].orders = pkg[p].orders /\ pkg'[p].instr = pkg[p].instr
      /\ pkg'[p].work = pkg[p].work /\ pkg'[p].subject = n
  BY <1>2, SubjectFields
<1>5. HeldBy(pkg[p])' /\ Len(pkg'[p].orders) <= MaxBatch
  <2>1. blotter \subseteq blotter' /\ n \in blotter'
    BY <1>2
  <2> QED
    BY <1>4, <2>1, HeldKept
<1>6. \A o \in Order : status'[o] = "New" => status[o] = "New"
  BY <1>1, <1>2 DEF TypeInv, OrdersOK
<1>7. BatchInv'
  BY <1>2, <1>4, <1>5, <1>6 DEF TrackedInv, BatchInv, BatchLeft, Others
<1>8. HeldInv'
  <2>1. blotter \subseteq blotter' /\ pending' = pending
    BY <1>2
  <2>2. ASSUME NEW q \in Package \ {p}
        PROVE  HeldBy(pkg[q])'
    <3>1. HeldBy(pkg[q]) /\ pkg'[q] = pkg[q]
      BY <1>4 DEF TrackedInv, HeldInv, Others
    <3> QED
      BY <2>1, <3>1 DEF HeldBy, Tracked
  <2>3. \A type \in PackageType : Tracked(pending[type])'
    BY <2>1 DEF TrackedInv, HeldInv, Tracked
  <2> QED
    BY <1>5, <2>2, <2>3 DEF HeldInv
<1> QED
  BY <1>3, <1>7, <1>8 DEF TrackedInv

-----------------------------------------------------------------------------
(* The blotter: the steps of the main thread and of the exchange *)

\* A step of no thread that keeps the blotter
LEMMA TrackedMain ==
  ASSUME TypeInv, TypeInv', TrackedInv, UNCHANGED <<pkg, blotter>>, Mild,
         \A o \in Order : betId'[o] # 0 => o \in blotter,
         \A b \in 1..Len(exch') : b \in 1..Len(exch) /\ exch'[b].ref = exch[b].ref,
         \A type \in PackageType : Tracked(pending[type])' /\ Len(pending'[type]) <= MaxBatch,
         pending' = pending \/ NoNewOrder
  PROVE  TrackedInv'
<1>1. \A b \in 1..Len(exch') : exch'[b].ref \in Order
  BY BetsType DEF TypeInv, ExchangeOK
<1>2. BlotterInv'
  <2>1. \A b \in 1..Len(exch') : status'[exch'[b].ref] = "None" \/ exch'[b].ref \in blotter
    BY <1>1 DEF TrackedInv, BlotterInv, Mild
  <2> QED
    BY <2>1 DEF TrackedInv, BlotterInv, Mild, TypeInv, OrdersOK
<1>3. \A o \in Order : status'[o] = "New" => status[o] = "New"
  BY DEF Mild
<1>4. BatchInv'
  BY <1>3 DEF TrackedInv, BatchInv, BatchLeft, NoNewOrder
<1>5. HeldInv'
  BY DEF TrackedInv, HeldInv, HeldBy, Tracked
<1> QED
  BY <1>2, <1>4, <1>5 DEF TrackedInv

\* An order joins a transaction that has room.
LEMMA PendingGrows ==
  ASSUME TypeInv, TrackedInv, NEW type \in PackageType, NEW o, o \in blotter',
         blotter \subseteq blotter', BatchLeft,
         pending' = [pending EXCEPT ![type] = Append(@, o)]
  PROVE  \A x \in PackageType : Tracked(pending[x])' /\ Len(pending'[x]) <= MaxBatch
<1>1. \A x \in PackageType : /\ pending[x] \in Seq(Order) /\ Tracked(pending[x])
                             /\ Len(pending[x]) < MaxBatch
  BY DEF TypeInv, MainOK, TrackedInv, HeldInv, BatchLeft
<1>2. /\ pending'[type] = Append(pending[type], o)
      /\ \A x \in PackageType \ {type} : pending'[x] = pending[x]
  BY DEF TypeInv, MainOK
<1> DEFINE s == pending[type]
<1>3. s \in Seq(Order) /\ Tracked(s) /\ Len(s) < MaxBatch
  BY <1>1
<1>4. pending'[type] = Append(s, o)
  BY <1>2
<1> HIDE DEF s
<1>5. /\ Len(Append(s, o)) = Len(s) + 1 /\ Len(s) \in Nat
      /\ \A i \in 1..Len(Append(s, o)) : IF i = Len(s) + 1 THEN Append(s, o)[i] = o
                                         ELSE i \in 1..Len(s) /\ Append(s, o)[i] = s[i]
  BY <1>3
<1>6. Len(Append(s, o)) <= MaxBatch
  BY <1>3, <1>5, BoundAssumption
<1>7. \A i \in 1..Len(Append(s, o)) : Append(s, o)[i] \in blotter'
  BY <1>3, <1>5 DEF Tracked
<1>8. Tracked(pending[type])' /\ Len(pending'[type]) <= MaxBatch
  BY <1>4, <1>6, <1>7 DEF Tracked
<1>9. ASSUME NEW x \in PackageType \ {type}
      PROVE  Tracked(pending[x])' /\ Len(pending'[x]) <= MaxBatch
  <2>1. Tracked(pending[x]) /\ Len(pending[x]) <= MaxBatch
    BY <1>1 DEF TrackedInv, BatchInv
  <2> QED
    BY <1>2, <2>1 DEF Tracked
<1> QED
  BY <1>8, <1>9

\* A cancel, an update or a replace is asked for.
LEMMA TrackedAsk ==
  ASSUME TypeInv, TypeInv', TrackedInv, NEW o \in Order,
         CancelOrder(o) \/ UpdateOrder(o) \/ ReplaceOrder(o) \/ RejectRequest(o)
  PROVE  TrackedInv'
<1>1. /\ NoNewOrder /\ o \in blotter
      /\ UNCHANGED <<betId, blotter, pkg, exch>>
  BY DEF CancelOrder, UpdateOrder, ReplaceOrder, RejectRequest, Request
<1>2. \/ BatchLeft /\ \E type \in {"CANCEL", "UPDATE", "REPLACE"} : Accept(o, type)
      \/ UpdateStatus(o, "VIOLATION") /\ "control" \in Faults /\ pending' = pending
  BY DEF CancelOrder, UpdateOrder, ReplaceOrder, RejectRequest, Request, mainVars
<1>3. BlotterInv
  BY DEF TrackedInv
<1>4. /\ \A x \in Order : betId'[x] # 0 => x \in blotter
      /\ \A b \in 1..Len(exch') : b \in 1..Len(exch) /\ exch'[b].ref = exch[b].ref
  BY <1>1, <1>3 DEF BlotterInv
<1>5. ASSUME NEW type \in {"CANCEL", "UPDATE", "REPLACE"}, Accept(o, type), BatchLeft
      PROVE  TrackedInv'
  <2> DEFINE s == Requested[type]
  <2>1. /\ UpdateStatus(o, s) /\ s \notin {"None", "New", "VIOLATION"} /\ type \in PackageType
        /\ pending' = [pending EXCEPT ![type] = Append(@, o)]
    BY <1>5 DEF Accept, Requested, PackageType
  <2> HIDE DEF s
  <2>2. Mild
    BY <1>1, <1>3, <2>1, UpdateMild
  <2>3. \A x \in PackageType : Tracked(pending[x])' /\ Len(pending'[x]) <= MaxBatch
    BY <1>1, <1>5, <2>1, PendingGrows
  <2> QED
    BY <1>1, <1>4, <2>2, <2>3, TrackedMain
<1>6. CASE UpdateStatus(o, "VIOLATION") /\ "control" \in Faults /\ pending' = pending
  <2>1. Mild
    BY <1>1, <1>3, <1>6, UpdateMild
  <2>2. \A x \in PackageType : Tracked(pending[x])' /\ Len(pending'[x]) <= MaxBatch
    BY <1>1, <1>6 DEF TrackedInv, HeldInv, BatchInv, Tracked
  <2> QED
    BY <1>1, <1>4, <2>1, <2>2, TrackedMain
<1> QED
  BY <1>2, <1>5, <1>6

\* An order is created, placed or rejected.
LEMMA TrackedPlace ==
  ASSUME TypeInv, TypeInv', TrackedInv, NEW o \in Order,
         (\E t \in Trade : CreateOrder(o, t)) \/ PlaceOrder(o) \/ RejectPlace(o)
  PROVE  TrackedInv'
<1>0. /\ \A b \in 1..Len(exch) : exch[b].ref \in Order
      /\ status \in [Order -> OrderStatus]
  BY BetsType DEF TypeInv, OrdersOK, ExchangeOK
<1>1. CASE \E t \in Trade : CreateOrder(o, t)
  <2>1. /\ NoNewOrder /\ BatchLeft /\ UnusedOrders # {} /\ o = Fresh(UnusedOrders)
        /\ status' = [status EXCEPT ![o] = "New"]
        /\ UNCHANGED <<betId, blotter, pkg, pending, exch>>
    BY <1>1 DEF CreateOrder, mainVars, Fresh, BetsLeft, OrdersLeft
  <2>2. status[o] = "None" /\ \A b \in 1..Len(exch) : exch[b].ref # o
    BY <2>1, FreshOrder
  <2>3. BlotterInv'
    BY <1>0, <2>1, <2>2 DEF TrackedInv, BlotterInv
  <2>4. BatchInv'
    BY <1>0, <2>1 DEF TrackedInv, BatchInv, BatchLeft, NoNewOrder
  <2>5. HeldInv'
    BY <2>1 DEF TrackedInv, HeldInv, HeldBy, Tracked
  <2> QED
    BY <2>3, <2>4, <2>5 DEF TrackedInv
<1>2. ASSUME status[o] = "New"
      PROVE  /\ o \notin blotter /\ betId[o] = 0 /\ BatchLeft
             /\ \A b \in 1..Len(exch) : exch[b].ref # o
             /\ \A x \in Order \ {o} : status[x] # "New"
  BY <1>2 DEF TrackedInv, BlotterInv, BatchInv
<1>3. CASE PlaceOrder(o)
  <2>1. /\ status[o] = "New" /\ status' = [status EXCEPT ![o] = "PENDING"]
        /\ blotter' = blotter \cup {o}
        /\ pending' = [pending EXCEPT !["PLACE"] = Append(@, o)]
        /\ UNCHANGED <<betId, pkg, exch>>
    BY <1>3 DEF PlaceOrder
  <2>2. BlotterInv'
    BY <1>0, <1>2, <2>1 DEF TrackedInv, BlotterInv
  <2>3. \A x \in PackageType : Tracked(pending[x])' /\ Len(pending'[x]) <= MaxBatch
    <3>1. "PLACE" \in PackageType /\ o \in blotter' /\ blotter \subseteq blotter'
      BY <2>1 DEF PackageType
    <3> QED
      BY <1>2, <2>1, <3>1, PendingGrows
  <2>4. \A x \in Order : status'[x] # "New"
    BY <1>0, <1>2, <2>1
  <2>5. BatchInv'
    BY <2>1, <2>3, <2>4 DEF TrackedInv, BatchInv
  <2>6. HeldInv'
    <3>1. ASSUME NEW p \in Package
          PROVE  HeldBy(pkg[p])'
      <4>1. HeldBy(pkg[p]) /\ pkg'[p] = pkg[p] /\ blotter \subseteq blotter'
        BY <2>1 DEF TrackedInv, HeldInv
      <4> QED
        BY <4>1 DEF HeldBy, Tracked
    <3> QED
      BY <2>3, <3>1 DEF HeldInv
  <2> QED
    BY <2>2, <2>5, <2>6 DEF TrackedInv
<1>4. CASE RejectPlace(o)
  <2>1. /\ status[o] = "New" /\ status' = [status EXCEPT ![o] = "VIOLATION"]
        /\ UNCHANGED <<betId, blotter, pkg, pending, exch>>
    BY <1>4 DEF RejectPlace, UpdateStatus, mainVars
  <2>2. BlotterInv'
    BY <1>0, <1>2, <2>1 DEF TrackedInv, BlotterInv
  <2>3. \A x \in Order : status'[x] # "New"
    BY <1>0, <1>2, <2>1
  <2>4. BatchInv'
    BY <2>1, <2>3 DEF TrackedInv, BatchInv
  <2>5. HeldInv'
    BY <2>1 DEF TrackedInv, HeldInv, HeldBy, Tracked
  <2> QED
    BY <2>2, <2>4, <2>5 DEF TrackedInv
<1> QED
  BY <1>1, <1>3, <1>4

\* The package that a transaction is given
LEMMA ExecuteFields ==
  ASSUME TypeInv, NEW i \in 1..4, Execute(i)
  PROVE  \E p \in Package :
           /\ pkg[p].pc = "free" /\ Others(p)
           /\ pkg'[p].pc = "queued" /\ pkg'[p].type = PackageOrder[i]
           /\ PackageOrder[i] \in PackageType
           /\ pkg'[p].orders = pending[PackageOrder[i]] /\ pkg'[p].processed = FALSE
           /\ pkg'[p].instr = <<>> /\ pkg'[p].reports = <<>> /\ pkg'[p].work = <<>>
           /\ pkg'[p].subject = NoOrder
           /\ pending'[PackageOrder[i]] = <<>>
           /\ \A type \in PackageType \ {PackageOrder[i]} : pending'[type] = pending[type]
<1> DEFINE p == Fresh(FreePackages)
           type == PackageOrder[i]
           orders == pending[type]
           k == [Idle EXCEPT !.pc = "queued", !.type = type, !.orders = orders]
<1>1. p \in Package /\ pkg[p].pc = "free"
  BY DEF Execute, FreePackages, Fresh
<1>2. pkg' = [pkg EXCEPT ![p] = k] /\ pending' = [pending EXCEPT ![type] = <<>>]
  BY DEF Execute
<1>3. /\ k.pc = "queued" /\ k.type = type /\ k.orders = orders /\ k.processed = FALSE
      /\ k.instr = <<>> /\ k.reports = <<>> /\ k.work = <<>> /\ k.subject = NoOrder
  BY DEF Idle
<1>4. type \in PackageType
  BY DEF PackageOrder, PackageType
<1>5. DOMAIN pkg = Package /\ DOMAIN pending = PackageType
  BY DEF TypeInv, PackagesOK, MainOK
<1> HIDE DEF k, p, type
<1>6. pkg'[p] = k /\ Others(p)
  BY <1>1, <1>2, <1>5 DEF Others
<1>7. pending'[type] = <<>> /\ \A x \in PackageType \ {type} : pending'[x] = pending[x]
  BY <1>2, <1>4, <1>5
<1> QED
  BY <1>1, <1>3, <1>4, <1>6, <1>7 DEF type

LEMMA TrackedExecute ==
  ASSUME TypeInv, TypeInv', TrackedInv, NEW i \in 1..4, Execute(i)
  PROVE  TrackedInv'
<1> DEFINE type == PackageOrder[i]
<1>1. NoNewOrder /\ UNCHANGED <<status, betId, blotter, exch>>
  BY DEF Execute, orderVars
<1>2. PICK p \in Package :
           /\ Others(p) /\ type \in PackageType
           /\ pkg'[p].orders = pending[type] /\ pkg'[p].instr = <<>> /\ pkg'[p].work = <<>>
           /\ pkg'[p].subject = NoOrder
           /\ pending'[type] = <<>>
           /\ \A x \in PackageType \ {type} : pending'[x] = pending[x]
  BY ExecuteFields
<1> HIDE DEF type
<1>3. BlotterInv'
  BY <1>1 DEF TrackedInv, BlotterInv
<1>4. BatchInv'
  <2>1. \A x \in PackageType : Len(pending'[x]) <= MaxBatch
    <3>1. Len(pending'[type]) <= MaxBatch
      BY <1>2, BoundAssumption
    <3> QED
      BY <1>2, <3>1 DEF TrackedInv, BatchInv
  <2>2. \A q \in Package : Len(pkg'[q].orders) <= MaxBatch
    BY <1>2 DEF TrackedInv, BatchInv, Others
  <2> QED
    BY <1>1, <2>1, <2>2 DEF BatchInv, NoNewOrder
<1>5. HeldInv'
  <2>1. HeldBy(pkg[p])'
    BY <1>1, <1>2 DEF TrackedInv, HeldInv, HeldBy, Tracked
  <2>2. \A x \in PackageType : Tracked(pending[x])'
    <3>1. Tracked(pending[type])'
      BY <1>2 DEF Tracked
    <3> QED
      BY <1>1, <1>2, <3>1 DEF TrackedInv, HeldInv, Tracked
  <2>3. \A q \in Package \ {p} : HeldBy(pkg[q])'
    BY <1>1, <1>2 DEF TrackedInv, HeldInv, HeldBy, Tracked, Others
  <2> QED
    BY <2>1, <2>2, <2>3 DEF HeldInv
<1> QED
  BY <1>3, <1>4, <1>5 DEF TrackedInv

\* The order that a record is about
LEMMA OrderOfType ==
  ASSUME TypeInv, NEW b, exch[b].ref \in blotter, OrderOf(b) # NoOrder
  PROVE  /\ OrderOf(b) \in blotter /\ OrderOf(b) \in Order
         /\ \/ OrderOf(b) = exch[b].ref /\ betId[exch[b].ref] \in {0, b}
            \/ betId[OrderOf(b)] = b
BY DEF OrderOf, TypeInv, OrdersOK

LEMMA TrackedRecord ==
  ASSUME TypeInv, TypeInv', TrackedInv, NEW b \in Bets,
         ProcessCurrentOrder(b) \/ CreateOrderFromCurrent(b)
  PROVE  TrackedInv'
<1>0. BlotterInv /\ blotter \subseteq Order
  BY DEF TrackedInv, TypeInv, OrdersOK
<1>1. CASE ProcessCurrentOrder(b)
  <2> DEFINE o == OrderOf(b)
             bet == IF AsyncPlace /\ betId[o] = 0 THEN b ELSE betId[o]
             s == NewStatus(o, bet, current[b])
  <2>0. (status' = status) \/ (UpdateStatus(o, s) /\ s # status[o])
    BY <1>1 DEF ProcessCurrentOrder
  <2>1. /\ betId' = [betId EXCEPT ![o] = bet]
        /\ UNCHANGED <<blotter, pending, pkg, exch>>
        /\ exch[b].ref \in blotter /\ o # NoOrder
    BY <1>1 DEF ProcessCurrentOrder
  <2>2. o \in blotter
    BY <2>1, OrderOfType
  <2>3. s # status[o] => s \in {"EXECUTABLE", "EXECUTION_COMPLETE"}
    BY DEF NewStatus
  <2> HIDE DEF o, bet, s
  <2>4. Mild
    BY <1>0, <2>0, <2>2, <2>3, SameMild, UpdateMild
  <2>5. \A x \in Order : betId'[x] # 0 => x \in blotter
    BY <1>0, <2>1, <2>2 DEF BlotterInv, TypeInv, OrdersOK
  <2>6. \A x \in PackageType : Tracked(pending[x])' /\ Len(pending'[x]) <= MaxBatch
    BY <2>1 DEF TrackedInv, HeldInv, BatchInv, Tracked
  <2> QED
    BY <2>1, <2>4, <2>5, <2>6, TrackedMain
<1>2. CASE CreateOrderFromCurrent(b)
  <2> DEFINE o == exch[b].ref
             s == IF current[b] > 0 THEN "EXECUTABLE" ELSE "EXECUTION_COMPLETE"
  <2>1. /\ o \notin blotter /\ blotter' = blotter \cup {o}
        /\ betId' = [betId EXCEPT ![o] = b] /\ status' = [status EXCEPT ![o] = s]
        /\ UNCHANGED <<pending, pkg, exch>>
    BY <1>2 DEF CreateOrderFromCurrent
  <2>2. s \in {"EXECUTABLE", "EXECUTION_COMPLETE"}
    OBVIOUS
  <2>3. \A c \in 1..Len(exch) : exch[c].ref \in Order
    BY BetsType DEF TypeInv, ExchangeOK
  <2>4. o \in Order
    BY <2>3 DEF Bets
  <2> HIDE DEF o, s
  <2>5. BlotterInv'
    BY <1>0, <2>1, <2>2, <2>3, <2>4 DEF BlotterInv, TypeInv, OrdersOK
  <2>6. \A x \in Order : status'[x] = "New" => status[x] = "New"
    BY <2>1, <2>2, <2>4 DEF TypeInv, OrdersOK
  <2>7. BatchInv'
    BY <2>1, <2>6 DEF TrackedInv, BatchInv, BatchLeft
  <2>8. HeldInv'
    <3>1. blotter \subseteq blotter' /\ pkg' = pkg /\ pending' = pending
      BY <2>1
    <3> QED
      BY <3>1 DEF TrackedInv, HeldInv, HeldBy, Tracked
  <2> QED
    BY <2>5, <2>7, <2>8 DEF TrackedInv
<1> QED
  BY <1>1, <1>2

\* The steps that change neither the orders nor the packages
LEMMA TrackedQueue ==
  ASSUME TypeInv, TypeInv', TrackedInv,
         \/ UNCHANGED vars \/ NextSnapshot \/ Snap
         \/ \E b \in Bets : SkipCurrentOrder(b) \/ ExchangeMatch(b)
  PROVE  TrackedInv'
<1>1. UNCHANGED <<status, betId, blotter, pending, pkg>>
  BY DEF vars, NextSnapshot, Snap, SkipCurrentOrder, ExchangeMatch, orderVars, mainVars
<1>2. \A b \in 1..Len(exch') : b \in 1..Len(exch) /\ exch'[b].ref = exch[b].ref
  <2>1. CASE exch' = exch
    BY <2>1
  <2>2. CASE \E b \in Bets : ExchangeMatch(b)
    <3>0. PICK b \in 1..Len(exch) : ExchangeMatch(b)
      BY <2>2 DEF Bets
    <3>1. PICK left \in 0..(exch[b].left - 1) : exch' = [exch EXCEPT ![b].left = left]
      BY <3>0 DEF ExchangeMatch
    <3>2. left \in 0..Size /\ left <= exch[b].left
      BY BetType, BoundAssumption
    <3> QED
      BY <3>1, <3>2, LessFollows
  <2> QED
    BY <2>1, <2>2 DEF vars, NextSnapshot, Snap, SkipCurrentOrder
<1>3. Mild
  BY <1>1, SameMild DEF TrackedInv
<1>4. \A o \in Order : betId'[o] # 0 => o \in blotter
  BY <1>1 DEF TrackedInv, BlotterInv
<1>5. \A x \in PackageType : Tracked(pending[x])' /\ Len(pending'[x]) <= MaxBatch
  BY <1>1 DEF TrackedInv, HeldInv, BatchInv, Tracked
<1> QED
  BY <1>1, <1>2, <1>3, <1>4, <1>5, TrackedMain

\* Before the first step, and after a restart, nothing is tracked.
LEMMA TrackedNothing ==
  ASSUME status = [o \in Order |-> "None"], betId = [o \in Order |-> 0], blotter = {},
         pending = NoPending, pkg = [p \in Package |-> Idle],
         \A b \in 1..Len(exch) : exch[b].ref \in Order
  PROVE  TrackedInv
<1>1. BlotterInv
  BY DEF BlotterInv
<1>2. BatchInv
  BY BoundAssumption DEF BatchInv, NoPending, Idle
<1>3. HeldInv
  BY DEF HeldInv, HeldBy, Tracked, NoPending, Idle
<1> QED
  BY <1>1, <1>2, <1>3 DEF TrackedInv

LEMMA TrackedInit ==
  ASSUME Init
  PROVE  TrackedInv
<1>1. \A b \in 1..Len(exch) : exch[b].ref \in Order
  BY DEF Init
<1> QED
  BY <1>1, TrackedNothing DEF Init

LEMMA TrackedRestart ==
  ASSUME TypeInv, Restart
  PROVE  TrackedInv'
<1>1. BlotterInv'
  BY BetsType DEF BlotterInv, Restart, TypeInv, ExchangeOK
<1>2. BatchInv'
  BY BoundAssumption DEF BatchInv, NoPending, Idle, Restart
<1>3. HeldInv'
  BY DEF HeldInv, HeldBy, Tracked, NoPending, Idle, Restart
<1> QED
  BY <1>1, <1>2, <1>3 DEF TrackedInv

LEMMA TrackedNext ==
  ASSUME TypeInv, TypeInv', TrackedInv, [Next]_vars
  PROVE  TrackedInv'
<1>1. CASE Strategy
  BY <1>1, TrackedPlace, TrackedAsk DEF Strategy
<1>2. CASE Main
  BY <1>2, TrackedPlace, TrackedExecute, TrackedRecord, TrackedQueue DEF Main
<1>3. CASE \E p \in Package : Thread(p) \/ RequestError(p) \/ RequestBroken(p)
  BY <1>3, TrackedRequest, TrackedExchange, TrackedReply, TrackedApply, TrackedCreate
     DEF Thread
<1>4. CASE Snap \/ UNCHANGED vars \/ \E b \in Bets : ExchangeMatch(b)
  BY <1>4, TrackedQueue
<1>5. CASE Restart
  BY <1>5, TrackedRestart
<1> QED
  BY <1>1, <1>2, <1>3, <1>4, <1>5 DEF Next

-----------------------------------------------------------------------------
(* The inductive invariant of bets and their orders *)

\* Bet b is of an order that is in the blotter, has a bet and is in the trade of o.
Kin(b, o) ==
  /\ b \in 1..Len(exch)
  /\ exch[b].ref \in blotter /\ betId[exch[b].ref] # 0 /\ trade[exch[b].ref] = trade[o]

\* Of the bets, the order has one that was placed for it, if any.
OwnBet(o) == betId[o] # 0 => exch[betId[o]].ref = o
BetOK(o) == betId[o] # 0 =>
  /\ Kin(betId[o], o)
  /\ \A n \in Order \ {o} : betId[n] # betId[o]
  /\ exch[betId[o]].ref = o \/ \A b \in 1..Len(exch) : exch[b].ref # o

\* The reports a package has, or will have, to apply, each with its order
Items(k) == IF k.pc = "handled" THEN Zip(k.orders, k.reports) ELSE k.work
\* The bet id of the first report has been given to an order.
Spent(k, i) ==
  /\ i = 1
  /\ \/ k.type = "PLACE" /\ k.pc \notin {"handled", "next"}
     \/ k.type = "REPLACE" /\ k.pc \notin {"handled", "next", "apply", "create"}
\* The bet id that report i of the package is still to give to an order, or 0
Claim(k, i) ==
  IF Spent(k, i) THEN 0
  ELSE IF k.type = "PLACE" THEN Items(k)[i].report.bet
  ELSE IF k.type = "REPLACE" THEN Items(k)[i].report.new ELSE 0

\* Reports of each type of request
ReportOK(type, r) ==
  /\ r.new # 0 => type = "REPLACE"
  /\ type = "PLACE" /\ AsyncPlace => r.bet = 0
  /\ type = "PLACE" /\ r.bet = 0 => r.size = Size

\* There is work once the reply is here and reports until then; what the exchange has
\* done of a place or a replace and what it has still to do make up the orders.
ShapeOK(k) ==
  /\ k.work # <<>> => k.pc \notin {"free", "queued", "sent", "handled"}
  /\ k.reports # <<>> => k.pc = "handled"
  /\ \A i \in 1..Len(k.reports) : ReportOK(k.type, k.reports[i])
  /\ \A i \in 1..Len(k.work) : ReportOK(k.type, k.work[i].report)
  /\ k.type \in {"PLACE", "REPLACE"} /\ k.pc \in {"sent", "handled"} =>
       /\ Len(k.reports) + Len(k.instr) = Len(k.orders)
       /\ \A i \in 1..Len(k.instr) : k.instr[i].order = k.orders[Len(k.reports) + i]

\* What is placed has no bet of another order; what is replaced has a bet.
InstrOK(k) ==
  /\ k.type = "PLACE" => \A i \in 1..Len(k.orders) : OwnBet(k.orders[i])
  /\ k.type = "REPLACE" => \A i \in 1..Len(k.instr) : Kin(k.instr[i].bet, k.instr[i].order)

\* A bet that a report names is for the order the report is paired with, and nobody
\* has it yet.
Owns(type, o, b) ==
  IF type = "PLACE" THEN b \in 1..Len(exch) /\ exch[b].ref = o ELSE o \in blotter /\ Kin(b, o)
ClaimsOK(k) ==
  \A i \in 1..Len(Items(k)) : Claim(k, i) # 0 =>
    /\ Owns(k.type, Items(k)[i].order, Claim(k, i))
    /\ \A x \in Order : betId[x] # Claim(k, i)

\* No two reports name the same bet.
ApartInv ==
  \A p, q \in Package :
    \A i \in 1..Len(Items(pkg[p])), j \in 1..Len(Items(pkg[q])) :
      Claim(pkg[p], i) # 0 /\ Claim(pkg[p], i) = Claim(pkg[q], j) => p = q /\ i = j

BetInv ==
  /\ \A o \in Order : BetOK(o)
  /\ \A i \in 1..Len(pending["PLACE"]) : OwnBet(pending["PLACE"][i])
  /\ \A p \in Package : ShapeOK(pkg[p])
  /\ \A p \in Package : InstrOK(pkg[p])
  /\ \A p \in Package : ClaimsOK(pkg[p])
  /\ ApartInv

-----------------------------------------------------------------------------
(* What a step may do to the orders and their bets *)

\* Orders of the blotter keep their trade and keep having a bet; bets keep their
\* reference.
Stable ==
  /\ blotter \subseteq blotter'
  /\ \A o \in blotter : trade'[o] = trade[o] /\ (betId[o] # 0 => betId'[o] # 0)
  /\ Len(exch) <= Len(exch') /\ \A b \in 1..Len(exch) : exch'[b].ref = exch[b].ref

\* No report names bet b.
Unclaimed(b) == \A q \in Package : \A i \in 1..Len(Items(pkg[q])) : Claim(pkg[q], i) # b

\* An order gets a bet that no other has and no report names: its own, or that of the
\* order it replaces, in which case it is a new order.
Gets(x) ==
  /\ betId'[x] # 0 /\ Unclaimed(betId[x])'
  /\ \A n \in Order \ {x} : betId'[n] = betId[n] /\ betId[n] # betId'[x]
  /\ Kin(betId[x], x)'
  /\ \/ exch'[betId'[x]].ref = x
     \/ x \notin blotter /\ \A b \in 1..Len(exch') : exch'[b].ref # x
BetChange == \A x \in Order : betId'[x] = betId[x] \/ Gets(x)

\* A new bet is for an order without a bet of another, or for one with a bet already.
NewRefs ==
  \A b \in 1..Len(exch') :
    (\E c \in 1..Len(exch) : exch'[b].ref = exch[c].ref) \/ OwnBet(exch'[b].ref)

\* The reports of a package are those it had, without the first or with less to give.
Fewer(p) ==
  /\ Len(Items(pkg'[p])) > 0 => pkg'[p].type = pkg[p].type
  /\ \E d \in {0, 1} : \A i \in 1..Len(Items(pkg'[p])) :
       Claim(pkg'[p], i) # 0 =>
         /\ i + d \in 1..Len(Items(pkg[p]))
         /\ Claim(pkg'[p], i) = Claim(pkg[p], i + d)
         /\ Items(pkg'[p])[i].order = Items(pkg[p])[i + d].order
         /\ Items(pkg'[p])[i].report = Items(pkg[p])[i + d].report

\* What a step that gives the reports no new bet to name has to keep
BetKept == BetInv' /\ \A p \in Package : Fewer(p)

LEMMA KinKept ==
  ASSUME TypeInv, Stable, NEW b, NEW o \in blotter, Kin(b, o)
  PROVE  Kin(b, o)'
<1>1. Len(exch) \in Nat /\ exch[b].ref \in blotter /\ exch'[b].ref = exch[b].ref
  BY DEF TypeInv, ExchangeOK, Kin, Stable
<1>2. b \in 1..Len(exch')
  <2>1. Len(exch') \in Nat \/ Len(exch') \notin Nat
    OBVIOUS
  <2> QED
    BY <1>1 DEF Kin, Stable
<1> QED
  BY <1>1, <1>2 DEF Kin, Stable

LEMMA BetsOKKept ==
  ASSUME TypeInv, TypeInv', BlotterInv, \A o \in Order : BetOK(o), Stable, BetChange, NewRefs
  PROVE  \A o \in Order : BetOK(o)'
<1> SUFFICES ASSUME NEW o \in Order, betId'[o] # 0
             PROVE  /\ Kin(betId[o], o)'
                    /\ \A n \in Order \ {o} : betId'[n] # betId'[o]
                    /\ exch'[betId'[o]].ref = o \/ \A b \in 1..Len(exch') : exch'[b].ref # o
  BY DEF BetOK
<1>1. CASE Gets(o)
  BY <1>1 DEF Gets
<1>2. CASE ~Gets(o)
  <2>1. betId'[o] = betId[o] /\ betId[o] # 0 /\ BetOK(o) /\ o \in blotter
    BY <1>2 DEF BetChange, BlotterInv
  <2>2. PICK b : b = betId[o]
    OBVIOUS
  <2>3. Kin(b, o) /\ exch'[b].ref = exch[b].ref
    BY <2>1, <2>2 DEF BetOK, Kin, Stable
  <2>4. Kin(b, o)'
    BY <2>1, <2>3, KinKept
  <2>5. \A n \in Order \ {o} : betId'[n] # b
    BY <2>1, <2>2 DEF BetOK, BetChange, Gets
  <2>6. exch'[b].ref = o \/ \A c \in 1..Len(exch') : exch'[c].ref # o
    <3>1. CASE exch[b].ref = o
      BY <2>3, <3>1
    <3>2. CASE exch[b].ref # o
      <4>1. ~OwnBet(o) /\ \A c \in 1..Len(exch) : exch[c].ref # o
        BY <2>1, <2>2, <3>2 DEF BetOK, OwnBet
      <4> QED
        BY <4>1 DEF NewRefs
    <3> QED
      BY <3>1, <3>2
  <2>7. b = betId'[o]
    BY <2>1, <2>2
  <2>8. Kin(betId[o], o)'
    BY <2>4, <2>7 DEF Kin
  <2> QED
    BY <2>5, <2>6, <2>7, <2>8
<1> QED
  BY <1>1, <1>2

LEMMA OwnKept ==
  ASSUME TypeInv, Stable, BetChange, NEW o \in blotter, OwnBet(o)
  PROVE  OwnBet(o)'
<1>1. o \in Order /\ betId[o] \in 0..Len(exch) /\ Len(exch) \in Nat
  BY DEF TypeInv, OrdersOK, ExchangeOK
<1> SUFFICES ASSUME betId'[o] # 0
             PROVE  exch'[betId'[o]].ref = o
  BY DEF OwnBet
<1>2. CASE betId'[o] = betId[o]
  <2>1. betId[o] \in 1..Len(exch)
    BY <1>1, <1>2
  <2>2. exch[betId[o]].ref = o
    BY <1>2 DEF OwnBet
  <2> QED
    BY <1>2, <2>1, <2>2 DEF Stable
<1>3. CASE Gets(o)
  BY <1>3 DEF Gets
<1> QED
  BY <1>1, <1>2, <1>3 DEF BetChange

LEMMA OwnsKept ==
  ASSUME TypeInv, TypeInv', Stable, NEW type, NEW o, NEW b, Owns(type, o, b)
  PROVE  Owns(type, o, b)'
<1>1. CASE type = "PLACE"
  <2>1. b \in 1..Len(exch) /\ exch[b].ref = o /\ Len(exch) \in Nat /\ Len(exch') \in Nat
    BY <1>1 DEF Owns, TypeInv, ExchangeOK
  <2> QED
    BY <1>1, <2>1 DEF Owns, Stable
<1>2. CASE type # "PLACE"
  <2>1. o \in blotter /\ Kin(b, o)
    BY <1>2 DEF Owns
  <2> QED
    BY <1>2, <2>1, KinKept DEF Owns, Stable
<1> QED
  BY <1>1, <1>2

\* What the reports of a package name remains right when none is added.
LEMMA ClaimsFewer ==
  ASSUME TypeInv, TypeInv', BetInv, Stable, BetChange, NEW p \in Package, Fewer(p)
  PROVE  ClaimsOK(pkg[p])'
<1>1. ASSUME NEW i \in 1..Len(Items(pkg'[p])), Claim(pkg'[p], i) # 0
      PROVE  /\ Owns(pkg[p].type, Items(pkg[p])[i].order, Claim(pkg[p], i))'
             /\ \A x \in Order : betId'[x] # Claim(pkg'[p], i)
  <2>1. PICK d \in {0, 1} :
          /\ i + d \in 1..Len(Items(pkg[p]))
          /\ Claim(pkg'[p], i) = Claim(pkg[p], i + d)
          /\ Items(pkg'[p])[i].order = Items(pkg[p])[i + d].order
    BY <1>1 DEF Fewer
  <2>2. pkg'[p].type = pkg[p].type
    <3>1. CASE Len(Items(pkg'[p])) > 0
      BY <3>1 DEF Fewer
    <3>2. CASE ~(Len(Items(pkg'[p])) > 0)
      <4>1. Len(Items(pkg'[p])) \in Nat
        <5>1. pkg'[p].work \in Seq(WorkAt(Len(exch'))) /\ pkg'[p].orders \in Seq(Order)
              /\ pkg'[p].reports \in Seq(ReportAt(Len(exch')))
          BY DEF TypeInv, PackagesOK, PackageAt
        <5> QED
          BY <5>1, ZipFields DEF Items
      <4> QED
        BY <3>2, <4>1
    <3> QED
      BY <3>1, <3>2
  <2>3. PICK c, o, type : /\ c = Claim(pkg[p], i + d) /\ o = Items(pkg[p])[i + d].order
                          /\ type = pkg[p].type
    OBVIOUS
  <2>4. c # 0 /\ Owns(type, o, c) /\ \A x \in Order : betId[x] # c
    BY <1>1, <2>1, <2>3 DEF BetInv, ClaimsOK
  <2>5. Owns(type, o, c)'
    BY <2>4, OwnsKept
  <2>6. c = Claim(pkg'[p], i) /\ o = Items(pkg'[p])[i].order /\ type = pkg'[p].type
    BY <2>1, <2>2, <2>3
  <2>7. Owns(pkg[p].type, Items(pkg[p])[i].order, Claim(pkg[p], i))'
    BY <2>5, <2>6
  <2>8. ASSUME NEW x \in Order
        PROVE  betId'[x] # c
    <3>1. CASE betId'[x] = betId[x]
      BY <2>4, <3>1
    <3>2. CASE Gets(x)
      BY <1>1, <2>6, <3>2 DEF Gets, Unclaimed
    <3> QED
      BY <3>1, <3>2 DEF BetChange
  <2> QED
    BY <2>6, <2>7, <2>8
<1> QED
  BY <1>1 DEF ClaimsOK

LEMMA ClaimsShrink ==
  ASSUME TypeInv, TypeInv', BetInv, Stable, BetChange, \A q \in Package : Fewer(q)
  PROVE  (\A p \in Package : ClaimsOK(pkg[p])') /\ ApartInv'
<1>1. \A p \in Package : ClaimsOK(pkg[p])'
  BY ClaimsFewer
<1>2. ApartInv'
  <2> SUFFICES ASSUME NEW p \in Package, NEW q \in Package,
                      NEW i \in 1..Len(Items(pkg'[p])), NEW j \in 1..Len(Items(pkg'[q])),
                      Claim(pkg'[p], i) # 0, Claim(pkg'[p], i) = Claim(pkg'[q], j)
               PROVE  p = q /\ i = j
    BY DEF ApartInv
  <2>1. PICK d \in {0, 1} : \A x \in 1..Len(Items(pkg'[p])) :
          Claim(pkg'[p], x) # 0 =>
            x + d \in 1..Len(Items(pkg[p])) /\ Claim(pkg'[p], x) = Claim(pkg[p], x + d)
    BY DEF Fewer
  <2>2. PICK e \in {0, 1} : \A x \in 1..Len(Items(pkg'[q])) :
          Claim(pkg'[q], x) # 0 =>
            x + e \in 1..Len(Items(pkg[q])) /\ Claim(pkg'[q], x) = Claim(pkg[q], x + e)
    BY DEF Fewer
  <2>3. p = q
    BY <2>1, <2>2 DEF BetInv, ApartInv
  <2>4. i + d = j + d
    BY <2>1, <2>3 DEF BetInv, ApartInv
  <2> QED
    BY <2>3, <2>4
<1> QED
  BY <1>1, <1>2

\* The bets after a step: what is to be shown of the packages and the transactions
LEMMA BetStep ==
  ASSUME TypeInv, TypeInv', BlotterInv, BetInv, Stable, BetChange, NewRefs,
         \A i \in 1..Len(pending'["PLACE"]) : OwnBet(pending["PLACE"][i])',
         \A p \in Package : Fewer(p) /\ ShapeOK(pkg[p])' /\ InstrOK(pkg[p])'
  PROVE  BetKept
<1>1. \A o \in Order : BetOK(o)'
  BY BetsOKKept DEF BetInv
<1>2. (\A p \in Package : ClaimsOK(pkg[p])') /\ ApartInv'
  BY ClaimsShrink
<1> QED
  BY <1>1, <1>2 DEF BetInv, BetKept

\* A package that is left alone
LEMMA SameFewer ==
  ASSUME NEW p \in Package, pkg'[p] = pkg[p], Len(Items(pkg[p])) \in Nat
  PROVE  Fewer(p)
<1>1. \A i \in 1..Len(Items(pkg[p])) : i + 0 = i
  OBVIOUS
<1> QED
  BY <1>1 DEF Fewer

LEMMA SameShape ==
  ASSUME NEW p \in Package, pkg'[p] = pkg[p], ShapeOK(pkg[p])
  PROVE  ShapeOK(pkg[p])'
BY DEF ShapeOK, ReportOK

\* The instructions that a package has left
LEMMA InstrKept ==
  ASSUME TypeInv, TrackedInv, BetInv, Stable, BetChange, NEW p \in Package,
         pkg'[p].type = pkg[p].type, pkg'[p].orders = pkg[p].orders,
         \A i \in 1..Len(pkg'[p].instr) : \E j \in 1..Len(pkg[p].instr) :
           pkg'[p].instr[i] = pkg[p].instr[j]
  PROVE  InstrOK(pkg[p])'
<1>1. InstrOK(pkg[p]) /\ HeldBy(pkg[p])
  BY DEF BetInv, TrackedInv, HeldInv
<1>2. ASSUME pkg[p].type = "PLACE", NEW i \in 1..Len(pkg[p].orders)
      PROVE  OwnBet(pkg[p].orders[i])'
  <2>1. PICK o : o = pkg[p].orders[i]
    OBVIOUS
  <2>2. o \in blotter /\ OwnBet(o)
    BY <1>1, <1>2, <2>1 DEF InstrOK, HeldBy, Tracked
  <2>3. OwnBet(o)'
    BY <2>2, OwnKept
  <2>4. o = pkg'[p].orders[i]
    BY <2>1
  <2> QED
    BY <2>3, <2>4 DEF OwnBet
<1>3. ASSUME pkg[p].type = "REPLACE", NEW i \in 1..Len(pkg'[p].instr)
      PROVE  Kin(pkg[p].instr[i].bet, pkg[p].instr[i].order)'
  <2>1. PICK j \in 1..Len(pkg[p].instr) : pkg'[p].instr[i] = pkg[p].instr[j]
    OBVIOUS
  <2>2. PICK b, o : b = pkg[p].instr[j].bet /\ o = pkg[p].instr[j].order
    OBVIOUS
  <2>3. o \in blotter /\ Kin(b, o)
    BY <1>1, <1>3, <2>2 DEF InstrOK, HeldBy
  <2>4. Kin(b, o)'
    BY <2>3, KinKept
  <2> QED
    BY <2>1, <2>2, <2>4 DEF Kin
<1> QED
  BY <1>2, <1>3 DEF InstrOK

-----------------------------------------------------------------------------
(* The steps of a thread *)

LEMMA ItemsType ==
  ASSUME TypeInv, NEW p \in Package
  PROVE  Len(Items(pkg[p])) \in Nat
<1>1. /\ pkg[p].work \in Seq(WorkAt(Len(exch))) /\ pkg[p].orders \in Seq(Order)
      /\ pkg[p].reports \in Seq(ReportAt(Len(exch)))
  BY PackageFields
<1> QED
  BY <1>1, ZipFields DEF Items

\* A thread's step leaves the transactions and the other packages as they are.
LEMMA BetOthers ==
  ASSUME TypeInv, TypeInv', TrackedInv, BetInv, Stable, BetChange,
         UNCHANGED pending, NEW p \in Package, Others(p)
  PROVE  /\ \A q \in Package \ {p} : Fewer(q) /\ ShapeOK(pkg[q])' /\ InstrOK(pkg[q])'
         /\ \A i \in 1..Len(pending'["PLACE"]) : OwnBet(pending["PLACE"][i])'
<1>1. ASSUME NEW q \in Package \ {p}
      PROVE  Fewer(q) /\ ShapeOK(pkg[q])' /\ InstrOK(pkg[q])'
  <2>1. pkg'[q] = pkg[q] /\ ShapeOK(pkg[q]) /\ Len(Items(pkg[q])) \in Nat
    BY ItemsType DEF Others, BetInv
  <2>2. Fewer(q) /\ ShapeOK(pkg[q])'
    BY <2>1, SameFewer, SameShape
  <2>3. InstrOK(pkg[q])'
    BY <2>1, InstrKept
  <2> QED
    BY <2>2, <2>3
<1>2. ASSUME NEW i \in 1..Len(pending["PLACE"])
      PROVE  OwnBet(pending["PLACE"][i])'
  <2>1. PICK o : o = pending["PLACE"][i]
    OBVIOUS
  <2>2. o \in blotter /\ OwnBet(o)
    BY <2>1 DEF TrackedInv, HeldInv, Tracked, BetInv, PackageType
  <2>3. OwnBet(o)'
    BY <2>2, OwnKept
  <2> QED
    BY <2>1, <2>3 DEF OwnBet
<1> QED
  BY <1>1, <1>2

\* A thread's step that adds no report
LEMMA BetThread ==
  ASSUME TypeInv, TypeInv', TrackedInv, BetInv, Stable, BetChange, NewRefs,
         UNCHANGED pending, NEW p \in Package, Others(p),
         Fewer(p), ShapeOK(pkg[p])', InstrOK(pkg[p])'
  PROVE  BetKept
<1>1. \A q \in Package : Fewer(q) /\ ShapeOK(pkg[q])' /\ InstrOK(pkg[q])'
  BY BetOthers
<1>2. \A i \in 1..Len(pending'["PLACE"]) : OwnBet(pending["PLACE"][i])'
  BY BetOthers
<1> QED
  BY <1>1, <1>2, BetStep DEF TrackedInv

\* A step that gives no order a bet or a trade
LEMMA StableSame ==
  ASSUME TypeInv, UNCHANGED <<trade, betId, blotter, exch>>
  PROVE  Stable /\ BetChange /\ NewRefs
<1>1. Len(exch) \in Nat
  BY DEF TypeInv, ExchangeOK
<1> QED
  BY <1>1 DEF Stable, BetChange, NewRefs

LEMMA FewerNone ==
  ASSUME NEW p \in Package, Len(Items(pkg'[p])) = 0
  PROVE  Fewer(p)
BY DEF Fewer

\* The thread goes on with the reports it has.
LEMMA FewerWork ==
  ASSUME TypeInv, NEW p \in Package, pkg[p].pc # "handled", pkg'[p].pc # "handled",
         pkg'[p].type = pkg[p].type, pkg'[p].work = pkg[p].work,
         \A i : Spent(pkg[p], i) => Spent(pkg'[p], i)
  PROVE  Fewer(p)
<1>1. Items(pkg'[p]) = Items(pkg[p]) /\ Len(Items(pkg[p])) \in Nat
  BY ItemsType DEF Items
<1>2. \A i \in 1..Len(Items(pkg[p])) :
        Claim(pkg'[p], i) # 0 => Claim(pkg'[p], i) = Claim(pkg[p], i)
  BY <1>1 DEF Claim
<1>3. \A i \in 1..Len(Items(pkg[p])) : i + 0 = i
  BY <1>1
<1> QED
  BY <1>1, <1>2, <1>3 DEF Fewer

\* The tail of the reports a thread has to apply
LEMMA WorkTail ==
  ASSUME TypeInv, NEW p \in Package, pkg[p].work # <<>>
  PROVE  /\ Len(Tail(pkg[p].work)) = Len(pkg[p].work) - 1 /\ Len(pkg[p].work) \in Nat
         /\ \A i \in 1..Len(Tail(pkg[p].work)) :
              i + 1 \in 1..Len(pkg[p].work) /\ Tail(pkg[p].work)[i] = pkg[p].work[i + 1]
<1> DEFINE work == pkg[p].work
<1>1. work \in Seq(WorkAt(Len(exch))) /\ work # <<>>
  BY PackageFields
<1> HIDE DEF work
<1>2. /\ Len(Tail(work)) = Len(work) - 1 /\ Len(work) \in Nat
      /\ \A i \in 1..Len(Tail(work)) : Tail(work)[i] = work[i + 1]
  BY <1>1, HeadTailProperties
<1>3. \A i \in 1..Len(Tail(work)) : i + 1 \in 1..Len(work)
  BY <1>2
<1> QED
  BY <1>2, <1>3 DEF work

LEMMA FewerTail ==
  ASSUME TypeInv, NEW p \in Package, NextItem(p), pkg[p].work # <<>>, pkg[p].pc # "handled"
  PROVE  Fewer(p)
<1>1. /\ pkg'[p].pc = "next" /\ pkg'[p].type = pkg[p].type /\ pkg'[p].work = Tail(pkg[p].work)
  BY NextFields
<1>2. Items(pkg[p]) = pkg[p].work /\ Items(pkg'[p]) = Tail(pkg[p].work)
  BY <1>1 DEF Items
<1>3. ASSUME NEW i \in 1..Len(Items(pkg'[p]))
      PROVE  /\ i + 1 \in 1..Len(Items(pkg[p]))
             /\ Items(pkg'[p])[i] = Items(pkg[p])[i + 1]
             /\ ~Spent(pkg'[p], i) /\ ~Spent(pkg[p], i + 1)
  <2>1. i + 1 \in 1..Len(Items(pkg[p])) /\ Items(pkg'[p])[i] = Items(pkg[p])[i + 1] /\ i >= 1
    BY <1>2, WorkTail
  <2>2. i + 1 # 1
    OBVIOUS
  <2> QED
    BY <1>1, <2>1, <2>2 DEF Spent
<1>4. \A i \in 1..Len(Items(pkg'[p])) : Claim(pkg'[p], i) = Claim(pkg[p], i + 1)
  BY <1>1, <1>3 DEF Claim
<1> QED
  BY <1>1, <1>3, <1>4 DEF Fewer

\* The reports left to apply were reports before.
LEMMA ShapeWork ==
  ASSUME BetInv, NEW p \in Package, pkg[p].pc # "handled",
         pkg'[p].pc \notin {"free", "queued", "sent", "handled"},
         pkg'[p].type = pkg[p].type, pkg'[p].reports = pkg[p].reports,
         \A i \in 1..Len(pkg'[p].work) : \E j \in 1..Len(pkg[p].work) :
           pkg'[p].work[i] = pkg[p].work[j]
  PROVE  ShapeOK(pkg[p])'
<1>1. ShapeOK(pkg[p])
  BY DEF BetInv
<1>2. pkg'[p].reports = <<>>
  BY <1>1 DEF ShapeOK
<1> QED
  BY <1>1, <1>2 DEF ShapeOK, ReportOK

\* The thread goes on with the reports it has: the bets
LEMMA BetWork ==
  ASSUME TypeInv, TypeInv', TrackedInv, BetInv, Stable, BetChange, NewRefs,
         UNCHANGED pending, NEW p \in Package, Others(p),
         pkg[p].pc # "handled", pkg'[p].pc \notin {"free", "queued", "sent", "handled"},
         pkg'[p].type = pkg[p].type, pkg'[p].orders = pkg[p].orders,
         pkg'[p].instr = pkg[p].instr, pkg'[p].reports = pkg[p].reports,
         pkg'[p].work = pkg[p].work,
         \A i : Spent(pkg[p], i) => Spent(pkg'[p], i)
  PROVE  BetKept
<1>1. Fewer(p)
  BY FewerWork
<1>2. ShapeOK(pkg[p])'
  BY ShapeWork
<1>3. InstrOK(pkg[p])'
  BY InstrKept
<1> QED
  BY <1>1, <1>2, <1>3, BetThread

\* The thread is done, or gives up.
LEMMA BetLeave ==
  ASSUME TypeInv, TypeInv', TrackedInv, BetInv, UNCHANGED <<trade, betId, blotter, exch, pending>>,
         NEW p \in Package, Leave(p)
  PROVE  BetKept
<1>1. Others(p) /\ pkg'[p] = Idle
  BY LeaveFields
<1>2. Stable /\ BetChange /\ NewRefs
  BY StableSame
<1>3. Len(Items(pkg'[p])) = 0 /\ ShapeOK(pkg[p])' /\ InstrOK(pkg[p])'
  BY <1>1 DEF Items, ShapeOK, InstrOK, Idle
<1>4. Fewer(p)
  BY <1>3, FewerNone
<1> QED
  BY <1>1, <1>2, <1>3, <1>4, BetThread

\* The thread applies reports, without giving an order a bet.
LEMMA BetApply ==
  ASSUME TypeInv, TypeInv', TrackedInv, BetInv, NEW p \in Package,
         \/ ApplyReport(p) \/ PassReport(p) \/ ClearUpdateData(p) \/ SettleReplacement(p)
         \/ ExitTrade(p) \/ ReleaseTrade(p)
  PROVE  BetKept
<1>1. /\ UNCHANGED <<trade, betId, blotter, exch, pending>>
      /\ pkg[p].pc \in {"apply", "clear", "settle", "exit", "release"}
  BY DEF ApplyReport, PassReport, ClearUpdateData, SettleReplacement, ExitTrade, ReleaseTrade,
         orderVars, mainVars
<1>2. Stable /\ BetChange /\ NewRefs
  BY <1>1, StableSame
<1>3. \/ NextItem(p)
      \/ \E pc \in {"create", "clear", "exit", "release"} :
           Goto(p, pc) /\ (pc = "create" => pkg[p].pc = "apply")
  BY DEF ApplyReport, PassReport, ClearUpdateData, SettleReplacement, ExitTrade, ReleaseTrade
<1>4. CASE NextItem(p)
  <2>1. pkg[p].work # <<>> /\ pkg[p].pc # "handled"
    BY <1>1, ApplyingItem DEF Applying
  <2>2. /\ Others(p) /\ pkg'[p].pc = "next" /\ pkg'[p].type = pkg[p].type
        /\ pkg'[p].orders = pkg[p].orders /\ pkg'[p].instr = pkg[p].instr
        /\ pkg'[p].reports = pkg[p].reports /\ pkg'[p].work = Tail(pkg[p].work)
    BY <1>4, NextFields
  <2>3. Fewer(p)
    BY <1>4, <2>1, FewerTail
  <2>4. \A i \in 1..Len(pkg'[p].work) : \E j \in 1..Len(pkg[p].work) :
          pkg'[p].work[i] = pkg[p].work[j]
    BY <2>1, <2>2, WorkTail
  <2>5. ShapeOK(pkg[p])'
    BY <2>1, <2>2, <2>4, ShapeWork
  <2>6. InstrOK(pkg[p])'
    BY <1>2, <2>2, InstrKept
  <2> QED
    BY <1>1, <1>2, <2>2, <2>3, <2>5, <2>6, BetThread
<1>5. ASSUME NEW pc \in {"create", "clear", "exit", "release"}, Goto(p, pc),
             pc = "create" => pkg[p].pc = "apply"
      PROVE  BetKept
  <2>1. /\ Others(p) /\ pkg'[p].pc = pc /\ pkg'[p].type = pkg[p].type
        /\ pkg'[p].orders = pkg[p].orders /\ pkg'[p].instr = pkg[p].instr
        /\ pkg'[p].reports = pkg[p].reports /\ pkg'[p].work = pkg[p].work
    BY <1>5, GotoFields
  <2>2. \A i : Spent(pkg[p], i) => Spent(pkg'[p], i)
    BY <1>1, <1>5, <2>1 DEF Spent
  <2>3. pkg[p].pc # "handled" /\ pkg'[p].pc \notin {"free", "queued", "sent", "handled"}
    BY <1>1, <1>5, <2>1
  <2> QED
    BY <1>1, <1>2, <2>1, <2>2, <2>3, BetWork
<1> QED
  BY <1>3, <1>4, <1>5

\* The request is built, sent or sent again.
LEMMA BetSend ==
  ASSUME TypeInv, TypeInv', TrackedInv, BetInv, Aligned, NEW p \in Package, SendRequest(p)
  PROVE  BetKept
<1> DEFINE live == LiveOrders(p)
<1>1. UNCHANGED <<trade, betId, blotter, exch, pending>> /\ pkg[p].pc = "queued"
  BY DEF SendRequest, orderVars, mainVars
<1>2. Stable /\ BetChange /\ NewRefs
  BY <1>1, StableSame
<1>3. ShapeOK(pkg[p]) /\ InstrOK(pkg[p])
  BY DEF BetInv
<1>4. live = pkg[p].orders
  BY LiveAligned DEF SendRequest
<1>5. /\ Others(p)
      /\ pkg'[p].pc = "sent" /\ pkg'[p].type = pkg[p].type
      /\ pkg'[p].orders = pkg[p].orders
      /\ Len(pkg'[p].instr) = Len(live)
      /\ \A i \in 1..Len(live) :
           pkg'[p].instr[i].order = live[i] /\ pkg'[p].instr[i].bet = betId[live[i]]
      /\ pkg'[p].reports = <<>> /\ pkg'[p].work = pkg[p].work
  BY SendFields
<1>6. Len(live) \in Nat /\ \A i \in 1..Len(live) :
        live[i] \in Order /\ (pkg[p].type # "PLACE" => betId[live[i]] # 0)
  BY LiveOrdersType
<1> HIDE DEF live
<1>7. pkg[p].work = <<>>
  BY <1>1, <1>3 DEF ShapeOK
<1>8. Fewer(p)
  <2>1. Len(Items(pkg'[p])) = 0
    BY <1>5, <1>7 DEF Items
  <2> QED
    BY <2>1, FewerNone
<1>9. ShapeOK(pkg[p])'
  BY <1>4, <1>5, <1>6, <1>7 DEF ShapeOK
<1>10. InstrOK(pkg[p])'
  <2>1. pkg[p].type = "PLACE" => \A i \in 1..Len(pkg[p].orders) : OwnBet(pkg[p].orders[i])'
    BY <1>1, <1>3, <1>5 DEF InstrOK, OwnBet
  <2>2. ASSUME pkg[p].type = "REPLACE", NEW i \in 1..Len(live)
        PROVE  Kin(pkg[p].instr[i].bet, pkg[p].instr[i].order)'
    <3>1. BetOK(live[i]) /\ betId[live[i]] # 0
      BY <1>6, <2>2 DEF BetInv
    <3>2. Kin(betId[live[i]], live[i])
      BY <3>1 DEF BetOK
    <3> QED
      BY <1>1, <1>5, <3>2 DEF Kin
  <2> QED
    BY <1>5, <2>1, <2>2 DEF InstrOK
<1> QED
  BY <1>1, <1>2, <1>5, <1>8, <1>9, <1>10, BetThread

LEMMA BetRequest ==
  ASSUME TypeInv, TypeInv', TrackedInv, BetInv, NEW p \in Package,
         AbandonRequest(p) \/ RequestError(p) \/ RequestBroken(p) \/ Finish(p)
  PROVE  BetKept
<1>1. UNCHANGED <<trade, betId, blotter, exch, pending>>
  BY DEF AbandonRequest, RequestError, RequestBroken, Finish, orderVars, mainVars
<1>2. CASE Leave(p)
  BY <1>1, <1>2, BetLeave
<1>3. CASE RequestError(p) /\ RetryLeft(p)
  <2>1. Stable /\ BetChange /\ NewRefs
    BY <1>1, StableSame
  <2>2. RetryOrGiveUp(p) /\ pkg[p].pc \in {"sent", "handled"}
    BY <1>3 DEF RequestError, SeenNothing, SeenAll
  <2>3. /\ Others(p)
        /\ pkg'[p].pc = "queued" /\ pkg'[p].type = pkg[p].type
        /\ pkg'[p].orders = pkg[p].orders
        /\ pkg'[p].instr = <<>> /\ pkg'[p].reports = <<>> /\ pkg'[p].work = pkg[p].work
    BY <1>3, <2>2, RetryFields
  <2>4. pkg[p].work = <<>>
    BY <2>2 DEF BetInv, ShapeOK
  <2>5. Len(Items(pkg'[p])) = 0 /\ ShapeOK(pkg[p])'
    BY <2>3, <2>4 DEF Items, ShapeOK
  <2>6. Fewer(p)
    BY <2>5, FewerNone
  <2>7. InstrOK(pkg[p])'
    <3>1. \A i \in 1..Len(pkg'[p].instr) : \E j \in 1..Len(pkg[p].instr) :
            pkg'[p].instr[i] = pkg[p].instr[j]
      BY <2>3
    <3> QED
      BY <2>1, <2>3, <3>1, InstrKept
  <2> QED
    BY <1>1, <2>1, <2>3, <2>5, <2>6, <2>7, BetThread
<1> QED
  BY <1>2, <1>3 DEF AbandonRequest, RequestError, RequestBroken, Finish, RetryOrGiveUp

\* What the exchange has done of a place or a replace
LEMMA ItemsHandled ==
  ASSUME TypeInv, NEW p \in Package, ShapeOK(pkg[p]), pkg[p].pc = "handled",
         pkg[p].type \in {"PLACE", "REPLACE"}
  PROVE  /\ Items(pkg[p]) = Zip(pkg[p].orders, pkg[p].reports)
         /\ Len(Items(pkg[p])) = Len(pkg[p].reports)
         /\ \A i \in 1..Len(pkg[p].reports) : /\ Items(pkg[p])[i].order = pkg[p].orders[i]
                                              /\ Items(pkg[p])[i].report = pkg[p].reports[i]
<1> DEFINE orders == pkg[p].orders
           reports == pkg[p].reports
<1>1. /\ orders \in Seq(Order) /\ reports \in Seq(ReportAt(Len(exch)))
      /\ pkg[p].instr \in Seq(InstructionAt(Len(exch)))
  BY PackageFields
<1>2. Items(pkg[p]) = Zip(orders, reports) /\ Len(reports) + Len(pkg[p].instr) = Len(orders)
  BY DEF Items, ShapeOK
<1> DEFINE instr == pkg[p].instr
<1>a. instr \in Seq(InstructionAt(Len(exch))) /\ Len(reports) + Len(instr) = Len(orders)
  BY <1>1, <1>2
<1> HIDE DEF orders, reports, instr
<1>3. Len(reports) <= Len(orders) /\ Len(orders) \in Nat /\ Len(reports) \in Nat
  <2>1. Len(orders) \in Nat /\ Len(reports) \in Nat /\ Len(instr) \in Nat
    BY <1>1, <1>a
  <2> QED
    BY <1>a, <2>1
<1>4. /\ Len(Zip(orders, reports)) = Len(orders) \/ Len(Zip(orders, reports)) = Len(reports)
      /\ Len(Zip(orders, reports)) <= Len(reports) /\ Len(Zip(orders, reports)) \in Nat
      /\ \A i \in 1..Len(Zip(orders, reports)) :
           /\ Zip(orders, reports)[i].order = orders[i]
           /\ Zip(orders, reports)[i].report = reports[i]
  BY <1>1, ZipFields
<1>5. Len(Zip(orders, reports)) = Len(reports)
  BY <1>3, <1>4
<1> QED
  BY <1>2, <1>4, <1>5 DEF orders, reports

LEMMA BetReply ==
  ASSUME TypeInv, TypeInv', TrackedInv, BetInv, Aligned, NEW p \in Package, Reply(p)
  PROVE  BetKept
<1>1. UNCHANGED <<trade, betId, blotter, exch, pending>>
  BY DEF Reply, orderVars, mainVars
<1>2. Stable /\ BetChange /\ NewRefs
  BY <1>1, StableSame
<1>3. ShapeOK(pkg[p])
  BY DEF BetInv
<1>4. /\ pkg[p].pc \in {"sent", "handled"}
      /\ pkg[p].pc = "sent" => pkg[p].processed
      /\ Others(p)
      /\ pkg'[p].pc = "next" /\ pkg'[p].type = pkg[p].type
      /\ pkg'[p].orders = pkg[p].orders
      /\ pkg'[p].instr = <<>> /\ pkg'[p].reports = <<>>
  BY ReplyFields
<1>5. Items(pkg'[p]) = pkg'[p].work
  BY <1>4 DEF Items
<1>6. \A i \in 1..Len(pkg'[p].work) : ReportOK(pkg[p].type, pkg'[p].work[i].report)
  <2>1. CASE pkg[p].type = "CANCEL"
    <3>1. ReportOK("CANCEL", Missing)
      BY DEF ReportOK, Missing
    <3> QED
      BY <1>3, <2>1, <3>1, CancelItems DEF ShapeOK
  <2>2. CASE pkg[p].type # "CANCEL"
    <3> DEFINE orders == LiveOrders(p)
               reports == IF pkg[p].processed THEN <<>> ELSE pkg[p].reports
    <3>1. pkg'[p].work = Zip(orders, reports) /\ reports \in Seq(ReportAt(Len(exch)))
          /\ orders \in Seq(Order)
      BY <2>2, ReplyFields, PackageFields, LiveOrdersType
    <3>2. \A i \in 1..Len(reports) : ReportOK(pkg[p].type, reports[i])
      BY <1>3 DEF ShapeOK
    <3> HIDE DEF orders, reports
    <3>3. /\ Len(Zip(orders, reports)) \in Nat /\ Len(Zip(orders, reports)) <= Len(reports)
          /\ \A i \in 1..Len(Zip(orders, reports)) : Zip(orders, reports)[i].report = reports[i]
      BY <3>1, ZipFields
    <3>4. Len(reports) \in Nat
      BY <3>1
    <3> QED
      BY <3>1, <3>2, <3>3, <3>4
  <2> QED
    BY <2>1, <2>2
<1>7. ShapeOK(pkg[p])'
  BY <1>4, <1>6 DEF ShapeOK, ReportOK
<1>8. InstrOK(pkg[p])'
  <2>1. \A i \in 1..Len(pkg'[p].instr) : \E j \in 1..Len(pkg[p].instr) :
          pkg'[p].instr[i] = pkg[p].instr[j]
    BY <1>4
  <2> QED
    BY <1>2, <1>4, <2>1, InstrKept
<1>9. Fewer(p)
  <2>1. CASE pkg[p].type \notin {"PLACE", "REPLACE"}
    <3>1. \A i : Claim(pkg'[p], i) = 0
      BY <1>4, <2>1 DEF Claim
    <3> QED
      BY <1>4, <3>1 DEF Fewer
  <2>2. CASE pkg[p].type \in {"PLACE", "REPLACE"}
    <3> DEFINE orders == LiveOrders(p)
               reports == IF pkg[p].processed THEN <<>> ELSE pkg[p].reports
    <3>1. pkg'[p].work = Zip(orders, reports) /\ reports \in Seq(ReportAt(Len(exch)))
          /\ orders \in Seq(Order)
      BY <2>2, ReplyFields, PackageFields, LiveOrdersType
    <3>2. CASE Len(orders) = 0 \/ Len(reports) = 0
      <4> HIDE DEF orders, reports
      <4>1. /\ Len(Zip(orders, reports)) \in Nat /\ Len(Zip(orders, reports)) <= Len(reports)
            /\ Len(Zip(orders, reports)) <= Len(orders)
        BY <3>1, ZipFields
      <4>2. Len(Zip(orders, reports)) = 0
        BY <3>2, <4>1
      <4> QED
        BY <1>5, <3>1, <4>2, FewerNone
    <3>3. CASE Len(orders) # 0 /\ Len(reports) # 0
      <4>1. orders = pkg[p].orders /\ reports = pkg[p].reports /\ pkg[p].pc = "handled"
        BY <1>4, <3>3, LiveAligned
      <4>2. /\ Items(pkg'[p]) = Items(pkg[p])
            /\ \A i : ~Spent(pkg'[p], i) /\ ~Spent(pkg[p], i)
        BY <1>3, <1>4, <1>5, <2>2, <3>1, <4>1, ItemsHandled DEF Spent
      <4>3. \A i : Claim(pkg'[p], i) = Claim(pkg[p], i)
        BY <1>4, <4>2 DEF Claim
      <4>4. Len(Items(pkg[p])) \in Nat
        BY ItemsType
      <4>5. \A i \in 1..Len(Items(pkg[p])) : i + 0 = i
        BY <4>4
      <4> QED
        BY <1>4, <4>2, <4>3, <4>5 DEF Fewer
    <3> QED
      BY <3>2, <3>3
  <2> QED
    BY <2>1, <2>2
<1> QED
  BY <1>1, <1>2, <1>4, <1>7, <1>8, <1>9, BetThread

\* Once its bet id has been given away, no report names a bet.
LEMMA SpentUnclaimed ==
  ASSUME BetInv, \A q \in Package : Fewer(q), NEW p \in Package, NEW c, c # 0,
         c = Claim(pkg[p], 1), 1 \in 1..Len(Items(pkg[p])), Claim(pkg'[p], 1) = 0
  PROVE  \A q \in Package : \A i \in 1..Len(Items(pkg'[q])) : Claim(pkg'[q], i) # c
<1> SUFFICES ASSUME NEW q \in Package, NEW i \in 1..Len(Items(pkg'[q])), Claim(pkg'[q], i) = c
             PROVE  FALSE
  OBVIOUS
<1>1. PICK d \in {0, 1} : i + d \in 1..Len(Items(pkg[q])) /\ c = Claim(pkg[q], i + d)
  BY DEF Fewer
<1>2. q = p /\ i + d = 1
  BY <1>1 DEF BetInv, ApartInv
<1>3. i = 1
  BY <1>2
<1> QED
  BY <1>2, <1>3

\* A report of a place gives the order its bet.
LEMMA BetEnter ==
  ASSUME TypeInv, TypeInv', TrackedInv, BetInv, NEW p \in Package, EnterTrade(p)
  PROVE  BetKept
<1>0. PICK o, c : o = Item(p).order /\ c = Item(p).report.bet
  OBVIOUS
<1>1. /\ pkg[p].pc = "next" /\ pkg[p].work # <<>> /\ o # NoOrder
      /\ TakesUp(p, "apply", o)
      /\ UNCHANGED <<trade, blotter, exch, pending>>
      /\ \/ betId' = betId
         \/ pkg[p].type = "PLACE" /\ c # 0 /\ betId' = [betId EXCEPT ![o] = c]
  BY <1>0 DEF EnterTrade, TakesUp, mainVars
<1>2. o \in blotter /\ o \in Order
  BY <1>0, <1>1, ItemTracked DEF TypeInv, OrdersOK
<1>3. o = pkg[p].work[1].order /\ c = pkg[p].work[1].report.bet /\ 1 \in 1..Len(pkg[p].work)
  BY <1>0, <1>1, ItemHead
<1>4. /\ Others(p)
      /\ pkg'[p].pc = "apply" /\ pkg'[p].type = pkg[p].type /\ pkg'[p].orders = pkg[p].orders
      /\ pkg'[p].instr = pkg[p].instr
      /\ pkg'[p].reports = pkg[p].reports /\ pkg'[p].work = pkg[p].work
  BY <1>1, SubjectFields
<1>5. \A i : ~Spent(pkg[p], i)
  BY <1>1 DEF Spent
<1>6. CASE betId' = betId
  <2>1. Stable /\ BetChange /\ NewRefs
    BY <1>1, <1>6, StableSame
  <2> QED
    BY <1>1, <1>4, <1>5, <2>1, BetWork
<1>7. CASE pkg[p].type = "PLACE" /\ c # 0 /\ betId' = [betId EXCEPT ![o] = c]
  <2>1. Items(pkg[p]) = pkg[p].work /\ Items(pkg'[p]) = pkg[p].work
    BY <1>1, <1>4 DEF Items
  <2>2. Claim(pkg[p], 1) = c /\ 1 \in 1..Len(Items(pkg[p])) /\ Claim(pkg'[p], 1) = 0
    <3>1. Spent(pkg'[p], 1)
      BY <1>4, <1>7 DEF Spent
    <3> QED
      BY <1>3, <1>5, <1>7, <2>1, <3>1 DEF Claim
  <2>3. Owns("PLACE", o, c) /\ \A x \in Order : betId[x] # c
    BY <1>3, <1>7, <2>1, <2>2 DEF BetInv, ClaimsOK
  <2>4. c \in 1..Len(exch) /\ exch[c].ref = o
    BY <2>3 DEF Owns
  <2>5. betId'[o] = c /\ \A x \in Order \ {o} : betId'[x] = betId[x]
    BY <1>2, <1>7 DEF TypeInv, OrdersOK
  <2>6. Stable
    <3>1. Len(exch) \in Nat /\ blotter \subseteq Order
      BY DEF TypeInv, ExchangeOK, OrdersOK
    <3> QED
      BY <1>1, <1>7, <2>5, <3>1 DEF Stable
  <2>7. NewRefs
    BY <1>1 DEF NewRefs
  <2>8. Fewer(p)
    BY <1>1, <1>4, <1>5, FewerWork
  <2>9. \A q \in Package : Fewer(q)
    <3>1. ASSUME NEW q \in Package \ {p}
          PROVE  Fewer(q)
      BY <1>4, ItemsType, SameFewer DEF Others
    <3> QED
      BY <2>8, <3>1
  <2>10. \A q \in Package : \A i \in 1..Len(Items(pkg'[q])) : Claim(pkg'[q], i) # c
    BY <1>7, <2>2, <2>9, SpentUnclaimed
  <2>11. Unclaimed(betId[o])'
    BY <2>5, <2>10 DEF Unclaimed
  <2>12. Kin(betId[o], o)'
    BY <1>1, <1>2, <1>7, <2>4, <2>5 DEF Kin
  <2>13. Gets(o)
    BY <1>1, <1>7, <2>3, <2>4, <2>5, <2>11, <2>12 DEF Gets
  <2>14. BetChange
    BY <2>5, <2>13 DEF BetChange
  <2>15. pkg[p].pc # "handled" /\ pkg'[p].pc \notin {"free", "queued", "sent", "handled"}
    BY <1>1, <1>4
  <2> QED
    BY <1>1, <1>4, <1>5, <2>6, <2>7, <2>14, <2>15, BetWork
<1> QED
  BY <1>1, <1>6, <1>7

\* The replacement takes the bet that the report of the replace names.
LEMMA BetCreate ==
  ASSUME TypeInv, TypeInv', TrackedInv, BetInv, NEW p \in Package, CreateReplacement(p)
  PROVE  BetKept
<1>0. PICK n, o, c : n = Fresh(UnusedOrders) /\ o = Item(p).order /\ c = Item(p).report.new
  OBVIOUS
<1>1. /\ pkg[p].pc = "create"
      /\ trade' = [trade EXCEPT ![n] = trade[o]]
      /\ betId' = [betId EXCEPT ![n] = c]
      /\ blotter' = blotter \cup {n}
      /\ TakesUp(p, "settle", n)
      /\ UNCHANGED <<pending, exch>>
  BY <1>0 DEF CreateReplacement, mainVars, TakesUp, ReplacementBet
<1>2. n \in Order /\ status[n] = "None" /\ \A b \in 1..Len(exch) : exch[b].ref # n
  BY <1>0, FreshOrder DEF CreateReplacement
<1>3. pkg[p].work # <<>> /\ c # 0
  BY <1>0, <1>1 DEF TypeInv, PackagesOK, HeadOK, Applying, Item
<1>4. o = pkg[p].work[1].order /\ c = pkg[p].work[1].report.new /\ 1 \in 1..Len(pkg[p].work)
  BY <1>0, <1>3, ItemHead
<1>5. n \notin blotter
  BY <1>2 DEF TrackedInv, BlotterInv
<1>6. /\ Others(p)
      /\ pkg'[p].pc = "settle" /\ pkg'[p].type = pkg[p].type /\ pkg'[p].orders = pkg[p].orders
      /\ pkg'[p].instr = pkg[p].instr
      /\ pkg'[p].reports = pkg[p].reports /\ pkg'[p].work = pkg[p].work
  BY <1>1, SubjectFields
<1>7. pkg[p].type = "REPLACE"
  BY <1>3, <1>4 DEF BetInv, ShapeOK, ReportOK
<1>8. /\ Items(pkg[p]) = pkg[p].work /\ 1 \in 1..Len(Items(pkg[p]))
      /\ Claim(pkg[p], 1) = c /\ Claim(pkg'[p], 1) = 0
  <2>1. ~Spent(pkg[p], 1) /\ Spent(pkg'[p], 1)
    BY <1>1, <1>6, <1>7 DEF Spent
  <2> QED
    BY <1>1, <1>4, <1>7, <2>1 DEF Claim, Items
<1>9. Owns("REPLACE", o, c) /\ \A x \in Order : betId[x] # c
  BY <1>3, <1>4, <1>7, <1>8 DEF BetInv, ClaimsOK
<1>10. o \in blotter /\ Kin(c, o)
  BY <1>9 DEF Owns
<1>11. /\ betId'[n] = c /\ \A x \in Order \ {n} : betId'[x] = betId[x]
       /\ trade'[n] = trade[o] /\ \A x \in Order \ {n} : trade'[x] = trade[x]
       /\ blotter \subseteq Order /\ Len(exch) \in Nat
  BY <1>1, <1>2 DEF TypeInv, OrdersOK, ExchangeOK
<1>12. Stable
  BY <1>1, <1>5, <1>11 DEF Stable
<1>13. NewRefs
  BY <1>1 DEF NewRefs
<1>14. \A i : Spent(pkg[p], i) => Spent(pkg'[p], i)
  BY <1>1, <1>7 DEF Spent
<1>15. Fewer(p)
  BY <1>1, <1>6, <1>14, FewerWork
<1>16. \A q \in Package : Fewer(q)
  <2>1. ASSUME NEW q \in Package \ {p}
        PROVE  Fewer(q)
    BY <1>6, ItemsType, SameFewer DEF Others
  <2> QED
    BY <1>15, <2>1
<1>17. \A q \in Package : \A i \in 1..Len(Items(pkg'[q])) : Claim(pkg'[q], i) # c
  BY <1>3, <1>8, <1>16, SpentUnclaimed
<1>18. Unclaimed(betId[n])'
  BY <1>11, <1>17 DEF Unclaimed
<1>19. Kin(betId[n], n)'
  <2>1. c \in 1..Len(exch) /\ exch[c].ref \in blotter /\ exch[c].ref # n
    BY <1>2, <1>10 DEF Kin
  <2>2. betId[exch[c].ref] # 0 /\ trade[exch[c].ref] = trade[o] /\ exch[c].ref \in Order
    BY <1>10, <1>11 DEF Kin
  <2> QED
    BY <1>1, <1>11, <2>1, <2>2 DEF Kin
<1>20. Gets(n)
  BY <1>1, <1>2, <1>3, <1>5, <1>9, <1>11, <1>18, <1>19 DEF Gets
<1>21. BetChange
  BY <1>11, <1>20 DEF BetChange
<1>22. pkg[p].pc # "handled" /\ pkg'[p].pc \notin {"free", "queued", "sent", "handled"}
  BY <1>1, <1>6
<1> QED
  BY <1>1, <1>6, <1>12, <1>13, <1>14, <1>21, <1>22, BetWork

-----------------------------------------------------------------------------
(* The steps of the exchange *)

LEMMA FollowsStable ==
  ASSUME TypeInv, UNCHANGED <<trade, betId, blotter>>, Follows
  PROVE  Stable /\ BetChange
BY DEF Follows, Stable, BetChange

\* The first instruction, and those after it
LEMMA InstrHead ==
  ASSUME TypeInv, NEW p \in Package, pkg[p].instr # <<>>
  PROVE  /\ Head(pkg[p].instr) = pkg[p].instr[1] /\ 1 \in 1..Len(pkg[p].instr)
         /\ Len(pkg[p].instr) \in Nat /\ Len(Tail(pkg[p].instr)) = Len(pkg[p].instr) - 1
         /\ \A i \in 1..Len(Tail(pkg[p].instr)) :
              i + 1 \in 1..Len(pkg[p].instr) /\ Tail(pkg[p].instr)[i] = pkg[p].instr[i + 1]
<1> DEFINE instr == pkg[p].instr
<1>1. instr \in Seq(InstructionAt(Len(exch))) /\ instr # <<>>
  BY PackageFields
<1> HIDE DEF instr
<1>2. /\ Len(Tail(instr)) = Len(instr) - 1 /\ Len(instr) \in Nat
      /\ \A i \in 1..Len(Tail(instr)) : Tail(instr)[i] = instr[i + 1]
  BY <1>1, HeadTailProperties
<1>3. \A i \in 1..Len(Tail(instr)) : i + 1 \in 1..Len(instr)
  BY <1>2
<1>4. Head(instr) = instr[1] /\ 1 \in 1..Len(instr)
  BY <1>1
<1> QED
  BY <1>2, <1>3, <1>4 DEF instr

\* The reports with one more
LEMMA ReportsMore ==
  ASSUME TypeInv, NEW p \in Package, NEW r
  PROVE  /\ Len(pkg[p].reports) \in Nat
         /\ Len(pkg[p].reports \o <<r>>) = Len(pkg[p].reports) + 1
         /\ \A i \in 1..Len(pkg[p].reports) : (pkg[p].reports \o <<r>>)[i] = pkg[p].reports[i]
         /\ (pkg[p].reports \o <<r>>)[Len(pkg[p].reports) + 1] = r
<1> DEFINE s == pkg[p].reports
           S == ReportAt(Len(exch)) \cup {r}
<1>1. s \in Seq(ReportAt(Len(exch)))
  BY PackageFields
<1> HIDE DEF s
<1>2. s \in Seq(S) /\ <<r>> \in Seq(S)
  <2>1. ReportAt(Len(exch)) \subseteq S
    OBVIOUS
  <2>2. s \in Seq(S)
    BY <1>1, <2>1, SeqGrows
  <2> QED
    BY <2>2
<1> HIDE DEF S
<1>3. /\ Len(s \o <<r>>) = Len(s) + Len(<<r>>)
      /\ \A i \in 1..Len(s) + Len(<<r>>) :
           (s \o <<r>>)[i] = IF i <= Len(s) THEN s[i] ELSE <<r>>[i - Len(s)]
  BY <1>2, ConcatProperties
<1>4. Len(<<r>>) = 1 /\ <<r>>[1] = r /\ Len(s) \in Nat
  BY <1>1
<1> QED
  BY <1>3, <1>4 DEF s

\* A place or a replace is done: one report more
LEMMA AnswerShape ==
  ASSUME TypeInv, BetInv, NEW p \in Package, NEW r, Answer(p, <<r>>), pkg[p].instr # <<>>,
         pkg[p].pc \in {"sent", "handled"}, pkg[p].type \in {"PLACE", "REPLACE"},
         ReportOK(pkg[p].type, r)
  PROVE  ShapeOK(pkg[p])'
<1> DEFINE m == Len(pkg[p].reports)
<1>2. /\ Others(p)
      /\ pkg'[p].pc = "handled" /\ pkg'[p].type = pkg[p].type /\ pkg'[p].orders = pkg[p].orders
      /\ pkg'[p].instr = Tail(pkg[p].instr)
      /\ pkg'[p].reports = pkg[p].reports \o <<r>> /\ pkg'[p].work = pkg[p].work
  BY AnswerFields
<1>3. /\ m \in Nat /\ Len(pkg'[p].reports) = m + 1
      /\ \A i \in 1..m : pkg'[p].reports[i] = pkg[p].reports[i]
      /\ pkg'[p].reports[m + 1] = r
  BY <1>2, ReportsMore
<1>4. ShapeOK(pkg[p])
  BY DEF BetInv
<1> HIDE DEF m
<1>6. ShapeOK(pkg[p])'
  <2>1. pkg'[p].work = <<>>
    BY <1>2, <1>4 DEF ShapeOK
  <2>2. \A i \in 1..Len(pkg'[p].reports) : ReportOK(pkg[p].type, pkg'[p].reports[i])
    <3>1. ASSUME NEW i \in 1..(m + 1)
          PROVE  ReportOK(pkg[p].type, pkg'[p].reports[i])
      <4>1. CASE i = m + 1
        BY <1>3, <4>1
      <4>2. CASE i # m + 1
        <5>1. i \in 1..m
          BY <1>3, <4>2
        <5> QED
          BY <1>3, <1>4, <5>1 DEF ShapeOK, m
      <4> QED
        BY <4>1, <4>2
    <3> QED
      BY <1>3, <3>1
  <2>3. /\ Len(pkg'[p].reports) + Len(pkg'[p].instr) = Len(pkg[p].orders)
        /\ \A i \in 1..Len(pkg'[p].instr) :
             pkg'[p].instr[i].order = pkg[p].orders[Len(pkg'[p].reports) + i]
    <3> DEFINE instr == pkg[p].instr
               orders == pkg[p].orders
               more == pkg'[p].instr
               n == Len(pkg'[p].reports)
    <3>1. /\ m + Len(instr) = Len(orders)
          /\ \A i \in 1..Len(instr) : instr[i].order = orders[m + i]
      BY <1>4 DEF ShapeOK, m
    <3>2. /\ Len(instr) \in Nat /\ Len(more) = Len(instr) - 1
          /\ \A i \in 1..Len(more) : i + 1 \in 1..Len(instr) /\ more[i] = instr[i + 1]
      BY <1>2, InstrHead
    <3>3. n = m + 1
      BY <1>3
    <3> HIDE DEF instr, orders, more, n
    <3>4. n + Len(more) = Len(orders)
      <4>1. m + Len(instr) = Len(orders)
        BY <3>1
      <4>2. Len(instr) \in Nat /\ Len(more) = Len(instr) - 1
        BY <3>2
      <4>3. m \in Nat
        BY <1>3
      <4> QED
        BY <3>3, <4>1, <4>2, <4>3
    <3>5. ASSUME NEW i \in 1..Len(more)
          PROVE  more[i].order = orders[n + i]
      <4>1. more[i] = instr[i + 1] /\ instr[i + 1].order = orders[m + (i + 1)]
        BY <3>1, <3>2
      <4>2. m + (i + 1) = n + i
        BY <1>3, <3>3
      <4> QED
        BY <4>1, <4>2
    <3> QED
      BY <3>4, <3>5 DEF instr, orders, more, n
  <2>4. pkg'[p].type = pkg[p].type /\ pkg'[p].pc = "handled" /\ pkg'[p].orders = pkg[p].orders
    BY <1>2
  <2>5. /\ pkg'[p].work # <<>> => pkg'[p].pc \notin {"free", "queued", "sent", "handled"}
        /\ \A i \in 1..Len(pkg'[p].work) : ReportOK(pkg'[p].type, pkg'[p].work[i].report)
    BY <2>1
  <2>6. \A i \in 1..Len(pkg'[p].reports) : ReportOK(pkg'[p].type, pkg'[p].reports[i])
    BY <2>2, <2>4
  <2>7. PICK k : k = pkg'[p]
    OBVIOUS
  <2>8. /\ k.work # <<>> => k.pc \notin {"free", "queued", "sent", "handled"}
        /\ k.reports # <<>> => k.pc = "handled"
        /\ \A i \in 1..Len(k.work) : ReportOK(k.type, k.work[i].report)
    BY <2>4, <2>5, <2>7
  <2>9. \A i \in 1..Len(k.reports) : ReportOK(k.type, k.reports[i])
    BY <2>6, <2>7
  <2>10. /\ Len(k.reports) + Len(k.instr) = Len(k.orders)
         /\ \A i \in 1..Len(k.instr) : k.instr[i].order = k.orders[Len(k.reports) + i]
    BY <2>3, <2>4, <2>7
  <2>11. ShapeOK(k)
    BY <2>8, <2>9, <2>10 DEF ShapeOK
  <2> QED
    BY <2>7, <2>11 DEF ShapeOK, ReportOK
<1> QED
  BY <1>6

\* The reports and their orders: those there were, and that of the first instruction
LEMMA AnswerItems ==
  ASSUME TypeInv, TypeInv', BetInv, NEW p \in Package, NEW r, Answer(p, <<r>>),
         pkg[p].instr # <<>>, pkg[p].pc \in {"sent", "handled"},
         pkg[p].type \in {"PLACE", "REPLACE"}, ReportOK(pkg[p].type, r)
  PROVE  /\ Len(pkg[p].reports) \in Nat
         /\ Len(Items(pkg[p])) = Len(pkg[p].reports)
         /\ Len(Items(pkg'[p])) = Len(pkg[p].reports) + 1
         /\ \A i \in 1..Len(pkg[p].reports) :
              /\ Claim(pkg'[p], i) = Claim(pkg[p], i)
              /\ Items(pkg'[p])[i].order = Items(pkg[p])[i].order
              /\ Items(pkg'[p])[i].report = Items(pkg[p])[i].report
         /\ Items(pkg'[p])[Len(pkg[p].reports) + 1].order = Head(pkg[p].instr).order
         /\ Items(pkg'[p])[Len(pkg[p].reports) + 1].report = r
         /\ Claim(pkg'[p], Len(pkg[p].reports) + 1) =
              IF pkg[p].type = "PLACE" THEN r.bet ELSE r.new
<1> DEFINE m == Len(pkg[p].reports)
<1>2. /\ Others(p)
      /\ pkg'[p].pc = "handled" /\ pkg'[p].type = pkg[p].type /\ pkg'[p].orders = pkg[p].orders
      /\ pkg'[p].instr = Tail(pkg[p].instr)
      /\ pkg'[p].reports = pkg[p].reports \o <<r>> /\ pkg'[p].work = pkg[p].work
  BY AnswerFields
<1>3. /\ m \in Nat /\ Len(pkg'[p].reports) = m + 1
      /\ \A i \in 1..m : pkg'[p].reports[i] = pkg[p].reports[i]
      /\ pkg'[p].reports[m + 1] = r
  BY <1>2, ReportsMore
<1>4. ShapeOK(pkg[p])
  BY DEF BetInv
<1> HIDE DEF m
<1>6. ShapeOK(pkg[p])'
  BY AnswerShape
<1>7. /\ Len(Items(pkg'[p])) = m + 1
      /\ \A i \in 1..(m + 1) : /\ Items(pkg'[p])[i].order = pkg[p].orders[i]
                               /\ Items(pkg'[p])[i].report = pkg'[p].reports[i]
  <2> DEFINE orders == pkg[p].orders
             reports == pkg'[p].reports
  <2>1. /\ orders \in Seq(Order) /\ reports \in Seq(ReportAt(Len(exch')))
        /\ pkg'[p].instr \in Seq(InstructionAt(Len(exch')))
    BY <1>2 DEF TypeInv, PackagesOK, PackageAt
  <2>2. Items(pkg'[p]) = Zip(orders, reports)
    BY <1>2 DEF Items
  <2>3. Len(reports) + Len(pkg'[p].instr) = Len(orders)
    BY <1>2, <1>6 DEF ShapeOK
  <2>4. Len(pkg'[p].instr) \in Nat
    BY <2>1
  <2> HIDE DEF orders, reports
  <2>5. /\ Len(Zip(orders, reports)) = Len(orders) \/ Len(Zip(orders, reports)) = Len(reports)
        /\ Len(Zip(orders, reports)) <= Len(reports) /\ Len(Zip(orders, reports)) \in Nat
        /\ \A i \in 1..Len(Zip(orders, reports)) :
             /\ Zip(orders, reports)[i].order = orders[i]
             /\ Zip(orders, reports)[i].report = reports[i]
    BY <2>1, ZipFields
  <2>6. Len(orders) \in Nat /\ Len(reports) \in Nat
    BY <2>1
  <2>7. Len(Zip(orders, reports)) = Len(reports)
    BY <2>3, <2>4, <2>5, <2>6
  <2> QED
    BY <1>3, <2>2, <2>5, <2>7 DEF orders, reports
<1>8. /\ Len(Items(pkg[p])) = m
      /\ \A i \in 1..m : /\ Items(pkg[p])[i].order = pkg[p].orders[i]
                         /\ Items(pkg[p])[i].report = pkg[p].reports[i]
                         /\ pkg[p].pc = "handled"
  <2>1. CASE pkg[p].pc = "handled"
    BY <1>4, <2>1, ItemsHandled DEF m
  <2>2. CASE pkg[p].pc = "sent"
    <3>1. pkg[p].work = <<>> /\ pkg[p].reports = <<>>
      BY <1>4, <2>2 DEF ShapeOK
    <3>2. Items(pkg[p]) = pkg[p].work /\ m = 0
      BY <2>2, <3>1 DEF Items, m
    <3> QED
      BY <3>1, <3>2
  <2> QED
    BY <2>1, <2>2
<1>9. /\ \A i \in 1..m : /\ Claim(pkg'[p], i) = Claim(pkg[p], i)
                         /\ Items(pkg'[p])[i].order = Items(pkg[p])[i].order
                         /\ Items(pkg'[p])[i].report = Items(pkg[p])[i].report
      /\ Claim(pkg'[p], m + 1) = IF pkg[p].type = "PLACE" THEN r.bet ELSE r.new
      /\ Items(pkg'[p])[m + 1].order = Head(pkg[p].instr).order
      /\ Items(pkg'[p])[m + 1].report = r
  <2>1. \A i : ~Spent(pkg'[p], i)
    BY <1>2 DEF Spent
  <2>2. \A i \in 1..m : ~Spent(pkg[p], i)
    BY <1>8 DEF Spent
  <2>3. Head(pkg[p].instr).order = pkg[p].orders[m + 1]
    BY <1>4, InstrHead DEF ShapeOK, m
  <2>4. m + 1 \in 1..(m + 1) /\ \A i \in 1..m : i \in 1..(m + 1)
    BY <1>3
  <2>5. Claim(pkg'[p], m + 1) = IF pkg[p].type = "PLACE" THEN r.bet ELSE r.new
    BY <1>2, <1>3, <1>7, <2>1, <2>4 DEF Claim
  <2>6. \A i \in 1..m : Items(pkg'[p])[i].report = Items(pkg[p])[i].report
    BY <1>3, <1>7, <1>8, <2>4
  <2>7. \A i \in 1..m : Claim(pkg'[p], i) = Claim(pkg[p], i)
    BY <1>2, <2>1, <2>2, <2>6 DEF Claim
  <2> QED
    BY <1>3, <1>7, <1>8, <2>3, <2>4, <2>5, <2>6, <2>7
<1> QED
  BY <1>3, <1>7, <1>8, <1>9 DEF m

\* A place or a replace: one report more, with or without a bet
LEMMA BetAnswer ==
  ASSUME TypeInv, TypeInv', TrackedInv, BetInv, NEW p \in Package, NEW r, NEW c, NEW o,
         Answer(p, <<r>>), pkg[p].instr # <<>>, pkg[p].pc \in {"sent", "handled"},
         UNCHANGED <<trade, betId, blotter, pending>>, Follows, NewRefs,
         pkg[p].type \in {"PLACE", "REPLACE"}, ReportOK(pkg[p].type, r),
         o = Head(pkg[p].instr).order,
         c = IF pkg[p].type = "PLACE" THEN r.bet ELSE r.new,
         c # 0 => c = Len(exch) + 1 /\ Owns(pkg[p].type, o, c)'
  PROVE  BetInv'
<1> DEFINE m == Len(pkg[p].reports)
<1>1. Stable /\ BetChange
  BY FollowsStable
<1>2. /\ Others(p)
      /\ pkg'[p].pc = "handled" /\ pkg'[p].type = pkg[p].type /\ pkg'[p].orders = pkg[p].orders
      /\ pkg'[p].instr = Tail(pkg[p].instr)
      /\ pkg'[p].reports = pkg[p].reports \o <<r>> /\ pkg'[p].work = pkg[p].work
  BY AnswerFields
<1>5. InstrOK(pkg[p])'
  <2>1. \A i \in 1..Len(Tail(pkg[p].instr)) : \E j \in 1..Len(pkg[p].instr) :
          Tail(pkg[p].instr)[i] = pkg[p].instr[j]
    BY InstrHead
  <2> QED
    BY <1>1, <1>2, <2>1, InstrKept
<1> HIDE DEF m
<1>6. ShapeOK(pkg[p])'
  BY AnswerShape
<1>9. /\ Len(Items(pkg[p])) = m /\ Len(Items(pkg'[p])) = m + 1 /\ m \in Nat
      /\ \A i \in 1..m : /\ Claim(pkg'[p], i) = Claim(pkg[p], i)
                         /\ Items(pkg'[p])[i].order = Items(pkg[p])[i].order
      /\ Claim(pkg'[p], m + 1) = c
      /\ Items(pkg'[p])[m + 1].order = o
  BY AnswerItems DEF m
<1>10. Len(exch) \in Nat /\ \A x \in Order : betId[x] \in 0..Len(exch)
  BY DEF TypeInv, OrdersOK, ExchangeOK
<1>11. \A q \in Package : \A i \in 1..Len(Items(pkg[q])) :
         Claim(pkg[q], i) # 0 => Claim(pkg[q], i) \in 1..Len(exch)
  BY DEF BetInv, ClaimsOK, Owns, Kin
<1>12. ASSUME NEW i \in 1..(m + 1), Claim(pkg'[p], i) # 0
       PROVE  /\ Owns(pkg[p].type, Items(pkg[p])[i].order, Claim(pkg[p], i))'
              /\ \A x \in Order : betId[x] # Claim(pkg'[p], i)
  <2>1. CASE i = m + 1
    <3>1. Claim(pkg'[p], i) = c /\ Items(pkg'[p])[i].order = o /\ pkg'[p].type = pkg[p].type
      BY <1>2, <1>9, <2>1
    <3>2. PICK type : type = pkg[p].type
      OBVIOUS
    <3>3. c = Len(exch) + 1 /\ Owns(type, o, c)'
      BY <1>12, <3>1, <3>2 DEF Owns
    <3>4. \A x \in Order : betId[x] # c
      BY <1>10, <3>3
    <3> QED
      BY <1>2, <3>1, <3>2, <3>3, <3>4 DEF Owns
  <2>2. CASE i # m + 1
    <3>1. i \in 1..m
      BY <1>9, <2>2
    <3>2. PICK type, d, x : type = pkg[p].type /\ d = Claim(pkg[p], i)
                            /\ x = Items(pkg[p])[i].order
      OBVIOUS
    <3>3. d = Claim(pkg'[p], i) /\ type = pkg'[p].type /\ x = Items(pkg'[p])[i].order
      BY <1>2, <1>9, <3>1, <3>2
    <3>4. Owns(type, x, d) /\ \A y \in Order : betId[y] # d
      BY <1>9, <1>12, <3>1, <3>2, <3>3 DEF BetInv, ClaimsOK
    <3>5. Owns(type, x, d)'
      BY <1>1, <3>4, OwnsKept
    <3>6. Owns(pkg[p].type, Items(pkg[p])[i].order, Claim(pkg[p], i))'
      BY <3>3, <3>5
    <3> QED
      BY <3>3, <3>4, <3>6
  <2> QED
    BY <2>1, <2>2
<1>13. ClaimsOK(pkg[p])'
  BY <1>9, <1>12 DEF ClaimsOK
<1>14. \A q \in Package \ {p} : Fewer(q) /\ ShapeOK(pkg[q])' /\ InstrOK(pkg[q])'
  BY <1>1, <1>2, BetOthers
<1>15. \A q \in Package : ClaimsOK(pkg[q])'
  <2>1. ASSUME NEW q \in Package \ {p}
        PROVE  ClaimsOK(pkg[q])'
    BY <1>1, <1>14, ClaimsFewer
  <2> QED
    BY <1>13, <2>1
<1>16. ApartInv'
  <2> SUFFICES ASSUME NEW q1 \in Package, NEW q2 \in Package,
                      NEW i \in 1..Len(Items(pkg'[q1])), NEW j \in 1..Len(Items(pkg'[q2])),
                      Claim(pkg'[q1], i) # 0, Claim(pkg'[q1], i) = Claim(pkg'[q2], j)
               PROVE  q1 = q2 /\ i = j
    BY DEF ApartInv
  <2>1. ASSUME NEW q \in Package, NEW k \in 1..Len(Items(pkg'[q])), Claim(pkg'[q], k) # 0
        PROVE  \/ /\ k \in 1..Len(Items(pkg[q])) /\ Claim(pkg'[q], k) = Claim(pkg[q], k)
                  /\ Claim(pkg'[q], k) \in 1..Len(exch)
               \/ q = p /\ k = m + 1 /\ Claim(pkg'[q], k) = Len(exch) + 1
    <3>1. CASE q # p
      BY <1>2, <1>11, <2>1, <3>1 DEF Others
    <3>2. CASE q = p /\ k = m + 1
      BY <1>9, <2>1, <3>2
    <3>3. CASE q = p /\ k # m + 1
      <4>1. k \in 1..m
        BY <1>9, <3>3
      <4> QED
        BY <1>9, <1>11, <2>1, <3>3, <4>1
    <3> QED
      BY <3>1, <3>2, <3>3
  <2>2. Len(exch) + 1 \notin 1..Len(exch)
    BY <1>10
  <2>3. \/ /\ i \in 1..Len(Items(pkg[q1])) /\ Claim(pkg'[q1], i) = Claim(pkg[q1], i)
           /\ Claim(pkg'[q1], i) \in 1..Len(exch)
        \/ q1 = p /\ i = m + 1 /\ Claim(pkg'[q1], i) = Len(exch) + 1
    BY <2>1
  <2>4. \/ /\ j \in 1..Len(Items(pkg[q2])) /\ Claim(pkg'[q2], j) = Claim(pkg[q2], j)
           /\ Claim(pkg'[q2], j) \in 1..Len(exch)
        \/ q2 = p /\ j = m + 1 /\ Claim(pkg'[q2], j) = Len(exch) + 1
    BY <2>1
  <2> QED
    BY <2>2, <2>3, <2>4 DEF BetInv, ApartInv
<1>17. \A q \in Package : ShapeOK(pkg[q])' /\ InstrOK(pkg[q])'
  BY <1>5, <1>6, <1>14
<1>18. \A x \in Order : BetOK(x)'
  BY <1>1, BetsOKKept DEF BetInv, TrackedInv
<1>19. \A i \in 1..Len(pending'["PLACE"]) : OwnBet(pending["PLACE"][i])'
  BY <1>1, <1>2, BetOthers
<1> QED
  BY <1>15, <1>16, <1>17, <1>18, <1>19 DEF BetInv
\* An instruction of a request that names no new bet
LEMMA BetSilent ==
  ASSUME TypeInv, TypeInv', TrackedInv, BetInv, NEW p \in Package, NEW rep, Answer(p, rep),
         UNCHANGED <<trade, betId, blotter, pending>>, Follows, Len(exch') = Len(exch),
         pkg[p].type \notin {"PLACE", "REPLACE"}, pkg[p].pc \in {"sent", "handled"},
         rep = <<>> \/ \E r : rep = <<r>> /\ r.new = 0
  PROVE  BetKept
<1>1. Stable /\ BetChange
  BY FollowsStable
<1>2. NewRefs
  BY DEF NewRefs, Follows
<1>3. /\ Others(p)
      /\ pkg'[p].pc = "handled" /\ pkg'[p].type = pkg[p].type
      /\ pkg'[p].reports = pkg[p].reports \o rep /\ pkg'[p].work = pkg[p].work
  BY AnswerFields
<1>4. Fewer(p)
  BY <1>3 DEF Fewer, Claim
<1>5. InstrOK(pkg[p])'
  BY <1>3 DEF InstrOK
<1>6. ShapeOK(pkg[p])
  BY DEF BetInv
<1>7. pkg'[p].work = <<>>
  BY <1>3, <1>6 DEF ShapeOK
<1>8. \A i \in 1..Len(pkg'[p].reports) : pkg'[p].reports[i].new = 0
  <2>1. \A i \in 1..Len(pkg[p].reports) : pkg[p].reports[i].new = 0
    BY <1>6 DEF ShapeOK, ReportOK
  <2>2. CASE rep = <<>>
    <3>1. pkg[p].reports \o <<>> = pkg[p].reports
      BY PackageFields
    <3> QED
      BY <1>3, <2>1, <2>2, <3>1
  <2>3. ASSUME NEW r, rep = <<r>>, r.new = 0
        PROVE  \A i \in 1..Len(pkg'[p].reports) : pkg'[p].reports[i].new = 0
    <3> DEFINE m == Len(pkg[p].reports)
    <3>1. /\ m \in Nat /\ Len(pkg'[p].reports) = m + 1
          /\ \A i \in 1..m : pkg'[p].reports[i] = pkg[p].reports[i]
          /\ pkg'[p].reports[m + 1] = r
      BY <1>3, <2>3, ReportsMore
    <3>2. \A i \in 1..m : pkg[p].reports[i].new = 0
      BY <2>1
    <3> HIDE DEF m
    <3>3. \A i \in 1..(m + 1) : i \in 1..m \/ i = m + 1
      BY <3>1
    <3> QED
      BY <2>3, <3>1, <3>2, <3>3
  <2> QED
    BY <2>2, <2>3
<1>9. ShapeOK(pkg[p])'
  <2>1. PICK k : k = pkg'[p]
    OBVIOUS
  <2>2. /\ k.work = <<>> /\ k.pc = "handled" /\ k.type \notin {"PLACE", "REPLACE"}
        /\ \A i \in 1..Len(k.reports) : k.reports[i].new = 0
    BY <1>3, <1>7, <1>8, <2>1
  <2>3. \A i \in 1..Len(k.work) : FALSE
    BY <2>2
  <2>4. ShapeOK(k)
    BY <2>2, <2>3 DEF ShapeOK, ReportOK
  <2> QED
    BY <2>1, <2>4 DEF ShapeOK, ReportOK
<1> QED
  BY <1>1, <1>2, <1>3, <1>4, <1>5, <1>9, BetThread

\* The order of the first instruction is one of the package.
LEMMA InstrOrder ==
  ASSUME TypeInv, BetInv, NEW p \in Package, pkg[p].instr # <<>>,
         pkg[p].pc \in {"sent", "handled"}, pkg[p].type \in {"PLACE", "REPLACE"}
  PROVE  /\ Len(pkg[p].reports) + 1 \in 1..Len(pkg[p].orders)
         /\ Head(pkg[p].instr).order = pkg[p].orders[Len(pkg[p].reports) + 1]
<1>1. /\ Len(pkg[p].reports) + Len(pkg[p].instr) = Len(pkg[p].orders)
      /\ \A i \in 1..Len(pkg[p].instr) :
           pkg[p].instr[i].order = pkg[p].orders[Len(pkg[p].reports) + i]
  BY DEF BetInv, ShapeOK
<1>2. /\ Head(pkg[p].instr) = pkg[p].instr[1] /\ 1 \in 1..Len(pkg[p].instr)
      /\ Len(pkg[p].instr) \in Nat
  BY InstrHead
<1>3. Len(pkg[p].reports) \in Nat
  BY PackageFields
<1>4. Len(pkg[p].reports) + 1 \in 1..Len(pkg[p].orders)
  <2>1. Len(pkg[p].reports) + Len(pkg[p].instr) = Len(pkg[p].orders)
    BY <1>1
  <2>2. Len(pkg[p].instr) \in Nat /\ 1 <= Len(pkg[p].instr)
    BY <1>2
  <2>3. \A m, n, k : m \in Nat /\ n \in Nat /\ 1 <= n /\ m + n = k => m + 1 \in 1..k
    OBVIOUS
  <2> QED
    BY <1>3, <2>1, <2>2, <2>3
<1> QED
  BY <1>1, <1>2, <1>4

LEMMA BetPlace ==
  ASSUME TypeInv, TypeInv', TrackedInv, BetInv, NEW p \in Package, ExchangePlace(p)
  PROVE  BetInv'
<1>1. PICK o : o = Head(pkg[p].instr).order
  OBVIOUS
<1>2. /\ pkg[p].pc \in {"sent", "handled"} /\ pkg[p].type = "PLACE" /\ pkg[p].instr # <<>>
      /\ UNCHANGED <<trade, betId, blotter, pending>> /\ Follows
  BY PlaceShape DEF Processing, orderVars, mainVars
<1>3. PICK r : /\ Answer(p, <<r>>) /\ r.new = 0
               /\ \/ exch' = exch /\ r.bet = 0 /\ r.size = Size
                  \/ /\ Len(exch') = Len(exch) + 1 /\ exch'[Len(exch')].ref = o
                     /\ \/ ~AsyncPlace /\ r.bet = Len(exch')
                        \/ r.bet = 0 /\ r.size = Size
  BY <1>1, PlaceShape
<1>4. Len(exch) \in Nat
  BY DEF TypeInv, ExchangeOK
<1>5. OwnBet(o)
  <2>1. PICK j \in 1..Len(pkg[p].orders) : o = pkg[p].orders[j]
    BY <1>1, <1>2, InstrOrder
  <2> QED
    BY <1>2, <2>1 DEF BetInv, InstrOK
<1>6. NewRefs
  BY <1>2, <1>3, <1>4, <1>5 DEF NewRefs, Follows
<1>7. ReportOK(pkg[p].type, r)
  BY <1>2, <1>3, <1>4 DEF ReportOK
<1>8. r.bet # 0 => r.bet = Len(exch) + 1 /\ Owns(pkg[p].type, o, r.bet)'
  BY <1>2, <1>3, <1>4, AnswerFields DEF Owns
<1>9. PICK c : c = r.bet
  OBVIOUS
<1>10. c # 0 => c = Len(exch) + 1 /\ Owns(pkg[p].type, o, c)'
  BY <1>8, <1>9 DEF Owns
<1> QED
  BY <1>1, <1>2, <1>3, <1>6, <1>7, <1>9, <1>10, BetAnswer

LEMMA BetReplace ==
  ASSUME TypeInv, TypeInv', TrackedInv, BetInv, NEW p \in Package, ExchangeReplace(p)
  PROVE  BetInv'
<1>1. PICK o, b : o = Head(pkg[p].instr).order /\ b = Head(pkg[p].instr).bet
  OBVIOUS
<1>2. /\ pkg[p].pc \in {"sent", "handled"} /\ pkg[p].type = "REPLACE" /\ pkg[p].instr # <<>>
      /\ UNCHANGED <<trade, betId, blotter, pending>> /\ Follows /\ b \in 1..Len(exch)
  BY <1>1, ReplaceShape DEF Processing, orderVars, mainVars
<1>3. PICK r : /\ Answer(p, <<r>>) /\ r.bet = b
               /\ \/ r.new = 0 /\ Len(exch') = Len(exch)
                  \/ /\ Len(exch') = Len(exch) + 1 /\ exch'[Len(exch')].ref = exch[b].ref
                     /\ r.new = 0 \/ r.new = Len(exch')
  BY <1>1, ReplaceShape
<1>4. Len(exch) \in Nat
  BY DEF TypeInv, ExchangeOK
<1>5. o \in blotter /\ Kin(b, o)
  BY <1>1, <1>2, InstrHead DEF BetInv, InstrOK, TrackedInv, HeldInv, HeldBy
<1>6. NewRefs
  BY <1>2, <1>3, <1>4 DEF NewRefs, Follows
<1>7. ReportOK(pkg[p].type, r)
  BY <1>2 DEF ReportOK
<1>8. PICK c : c = r.new
  OBVIOUS
<1>9. ASSUME c # 0
      PROVE  c = Len(exch) + 1 /\ Owns(pkg[p].type, o, c)'
  <2>1. c = Len(exch) + 1 /\ c \in 1..Len(exch') /\ exch'[c].ref = exch[b].ref
    BY <1>3, <1>4, <1>8, <1>9
  <2>2. pkg'[p].type = "REPLACE"
    BY <1>2, <1>3, AnswerFields
  <2>3. Kin(c, o)'
    BY <1>2, <1>5, <2>1 DEF Kin
  <2> QED
    BY <1>2, <1>5, <2>1, <2>2, <2>3 DEF Owns
<1> QED
  BY <1>1, <1>2, <1>3, <1>6, <1>7, <1>8, <1>9, BetAnswer

LEMMA BetCancel ==
  ASSUME TypeInv, TypeInv', TrackedInv, BetInv, NEW p \in Package,
         ExchangeCancel(p) \/ ExchangeUpdate(p)
  PROVE  BetKept
<1>1. CASE ExchangeCancel(p)
  <2>1. /\ Processing(p, "CANCEL") /\ Follows /\ Len(exch') = Len(exch)
        /\ Answer(p, <<>>) \/ \E r : Answer(p, <<r>>) /\ r.new = 0
    BY <1>1, CancelShape
  <2>2. /\ UNCHANGED <<trade, betId, blotter, pending>> /\ pkg[p].type = "CANCEL"
        /\ pkg[p].pc \in {"sent", "handled"}
    BY <2>1 DEF Processing, orderVars, mainVars
  <2>3. PICK rep : Answer(p, rep) /\ (rep = <<>> \/ \E r : rep = <<r>> /\ r.new = 0)
    BY <2>1
  <2> QED
    BY <2>1, <2>2, <2>3, BetSilent
<1>2. CASE ExchangeUpdate(p)
  <2>1. /\ Processing(p, "UPDATE") /\ exch' = exch
        /\ \E r : Answer(p, <<r>>) /\ r.new = 0
    BY <1>2, UpdateShape
  <2>2. /\ UNCHANGED <<trade, betId, blotter, pending>> /\ pkg[p].type = "UPDATE"
        /\ pkg[p].pc \in {"sent", "handled"}
    BY <2>1 DEF Processing, orderVars, mainVars
  <2>3. PICK rep : Answer(p, rep) /\ (rep = <<>> \/ \E r : rep = <<r>> /\ r.new = 0)
    BY <2>1
  <2>4. Follows /\ Len(exch') = Len(exch)
    BY <2>1, SameFollows
  <2> QED
    BY <2>2, <2>3, <2>4, BetSilent
<1> QED
  BY <1>1, <1>2

-----------------------------------------------------------------------------
(* The steps of the main thread *)

\* A step of no thread
LEMMA BetMain ==
  ASSUME TypeInv, TypeInv', TrackedInv, BetInv, Stable, BetChange, NewRefs, UNCHANGED pkg,
         \A i \in 1..Len(pending'["PLACE"]) : OwnBet(pending["PLACE"][i])'
  PROVE  BetKept
<1>1. ASSUME NEW p \in Package
      PROVE  Fewer(p) /\ ShapeOK(pkg[p])' /\ InstrOK(pkg[p])'
  <2>1. pkg'[p] = pkg[p] /\ ShapeOK(pkg[p]) /\ Len(Items(pkg[p])) \in Nat
    BY ItemsType DEF BetInv
  <2>2. Fewer(p) /\ ShapeOK(pkg[p])'
    BY <2>1, SameFewer, SameShape
  <2>3. InstrOK(pkg[p])'
    BY <2>1, InstrKept
  <2> QED
    BY <2>2, <2>3
<1> QED
  BY <1>1, BetStep DEF TrackedInv

\* An order that waits to be placed
LEMMA PendingOwn ==
  ASSUME TypeInv, TrackedInv, BetInv, Stable, BetChange, NEW i \in 1..Len(pending["PLACE"])
  PROVE  \A o : o = pending["PLACE"][i] => OwnBet(o)'
<1>1. PICK o : o = pending["PLACE"][i]
  OBVIOUS
<1>2. o \in blotter /\ OwnBet(o)
  BY <1>1 DEF TrackedInv, HeldInv, Tracked, BetInv, PackageType
<1>3. OwnBet(o)'
  BY <1>2, OwnKept
<1> QED
  BY <1>1, <1>3

\* Orders join the blotter and the transactions; no order gets a bet.
LEMMA BetQuiet ==
  ASSUME TypeInv, TypeInv', TrackedInv, BetInv, UNCHANGED <<betId, pkg>>,
         blotter \subseteq blotter', \A o \in blotter : trade'[o] = trade[o],
         Len(exch') = Len(exch), \A b \in 1..Len(exch) : exch'[b].ref = exch[b].ref,
         \A i \in 1..Len(pending'["PLACE"]) :
           \/ \E j \in 1..Len(pending["PLACE"]) : pending'["PLACE"][i] = pending["PLACE"][j]
           \/ betId[pending'["PLACE"][i]] = 0
  PROVE  BetKept
<1>1. Len(exch) \in Nat
  BY DEF TypeInv, ExchangeOK
<1>2. Stable /\ BetChange /\ NewRefs
  BY <1>1 DEF Stable, BetChange, NewRefs
<1>3. ASSUME NEW i \in 1..Len(pending'["PLACE"])
      PROVE  OwnBet(pending["PLACE"][i])'
  <2>1. CASE betId[pending'["PLACE"][i]] = 0
    BY <2>1 DEF OwnBet
  <2>2. ASSUME NEW j \in 1..Len(pending["PLACE"]),
               pending'["PLACE"][i] = pending["PLACE"][j]
        PROVE  OwnBet(pending["PLACE"][i])'
    <3>1. PICK o : o = pending["PLACE"][j]
      OBVIOUS
    <3>2. OwnBet(o)'
      BY <1>2, <3>1, PendingOwn
    <3> QED
      BY <2>2, <3>1, <3>2 DEF OwnBet
  <2> QED
    BY <2>1, <2>2
<1> QED
  BY <1>2, <1>3, BetMain

\* What a step of the queue or a request after placing leaves as it is
LEMMA BetStutter ==
  ASSUME TypeInv, TypeInv', TrackedInv, BetInv, UNCHANGED <<trade, betId, blotter, pkg, exch>>,
         pending'["PLACE"] = pending["PLACE"]
  PROVE  BetKept
BY BetQuiet

LEMMA BetAsk ==
  ASSUME TypeInv, TypeInv', TrackedInv, BetInv, NEW o \in Order,
         CancelOrder(o) \/ UpdateOrder(o) \/ ReplaceOrder(o) \/ RejectRequest(o)
  PROVE  BetKept
<1>1. UNCHANGED <<trade, betId, blotter, pkg, exch>>
  BY DEF CancelOrder, UpdateOrder, ReplaceOrder, RejectRequest, Request
<1>2. \/ pending' = pending
      \/ \E type \in {"CANCEL", "UPDATE", "REPLACE"} :
           pending' = [pending EXCEPT ![type] = Append(@, o)]
  BY DEF CancelOrder, UpdateOrder, ReplaceOrder, RejectRequest, Accept, mainVars
<1>3. pending'["PLACE"] = pending["PLACE"]
  BY <1>2 DEF TypeInv, MainOK, PackageType
<1> QED
  BY <1>1, <1>3, BetStutter

LEMMA BetNew ==
  ASSUME TypeInv, TypeInv', TrackedInv, BetInv, NEW o \in Order,
         (\E t \in Trade : CreateOrder(o, t)) \/ PlaceOrder(o) \/ RejectPlace(o)
  PROVE  BetKept
<1>1. /\ \A x \in blotter : status[x] # "None" /\ status[x] # "New"
      /\ status[o] = "New" => betId[o] = 0
  BY DEF TrackedInv, BlotterInv, TypeInv, OrdersOK
<1>2. CASE \E t \in Trade : CreateOrder(o, t)
  <2>1. PICK t \in Trade : CreateOrder(o, t)
    BY <1>2
  <2>2. status[o] = "None"
    BY <2>1, FreshOrder DEF CreateOrder
  <2>3. UNCHANGED <<betId, pkg, blotter, exch, pending>> /\ trade' = [trade EXCEPT ![o] = t]
    BY <2>1 DEF CreateOrder, mainVars
  <2>4. \A x \in blotter : trade'[x] = trade[x]
    BY <1>1, <2>2, <2>3 DEF TypeInv, OrdersOK
  <2> QED
    BY <2>3, <2>4, BetQuiet
<1>3. CASE PlaceOrder(o)
  <2>1. /\ UNCHANGED <<betId, pkg, trade, exch>> /\ blotter' = blotter \cup {o}
        /\ status[o] = "New"
        /\ pending' = [pending EXCEPT !["PLACE"] = Append(@, o)]
    BY <1>3 DEF PlaceOrder
  <2>2. pending["PLACE"] \in Seq(Order) /\ pending'["PLACE"] = Append(pending["PLACE"], o)
    BY <2>1 DEF TypeInv, MainOK, PackageType
  <2>3. \A i \in 1..Len(pending'["PLACE"]) :
          \/ i \in 1..Len(pending["PLACE"]) /\ pending'["PLACE"][i] = pending["PLACE"][i]
          \/ pending'["PLACE"][i] = o
    BY <2>2
  <2> QED
    BY <1>1, <2>1, <2>3, BetQuiet
<1>4. CASE RejectPlace(o)
  BY <1>4, BetStutter DEF RejectPlace, mainVars
<1> QED
  BY <1>2, <1>3, <1>4

\* A transaction becomes a package: nothing of it is at the exchange yet.
LEMMA BetExecute ==
  ASSUME TypeInv, TypeInv', TrackedInv, BetInv, NEW i \in 1..4, Execute(i)
  PROVE  BetKept
<1>1. UNCHANGED <<trade, betId, blotter, exch>>
  BY DEF Execute, orderVars
<1>2. Stable /\ BetChange /\ NewRefs
  BY <1>1, StableSame
<1>3. PICK p \in Package :
        /\ Others(p)
        /\ pkg'[p].pc = "queued"
        /\ pkg'[p].orders = pending[PackageOrder[i]] /\ pkg'[p].type = PackageOrder[i]
        /\ pkg'[p].instr = <<>> /\ pkg'[p].reports = <<>> /\ pkg'[p].work = <<>>
        /\ pending'[PackageOrder[i]] = <<>>
        /\ \A type \in PackageType \ {PackageOrder[i]} : pending'[type] = pending[type]
  BY ExecuteFields
<1>4. \A j \in 1..Len(pending["PLACE"]) : OwnBet(pending["PLACE"][j])
  BY DEF BetInv
<1>5. \A j \in 1..Len(pending'["PLACE"]) : OwnBet(pending["PLACE"][j])'
  <2>1. pending'["PLACE"] = <<>> \/ pending'["PLACE"] = pending["PLACE"]
    BY <1>3 DEF PackageType
  <2>2. CASE pending'["PLACE"] = <<>>
    BY <2>2
  <2>3. CASE pending'["PLACE"] = pending["PLACE"]
    BY <1>1, <1>4, <2>3 DEF OwnBet
  <2> QED
    BY <2>1, <2>2, <2>3
<1>6. Fewer(p)
  BY <1>3, FewerNone DEF Items
<1>7. ShapeOK(pkg[p])'
  BY <1>3 DEF ShapeOK
<1>8. InstrOK(pkg[p])'
  <2>1. ASSUME pkg'[p].type = "PLACE", NEW j \in 1..Len(pkg'[p].orders)
        PROVE  OwnBet(pkg[p].orders[j])'
    BY <1>1, <1>3, <1>4, <2>1 DEF OwnBet
  <2>2. \A j \in 1..Len(pkg'[p].instr) : FALSE
    BY <1>3
  <2> QED
    BY <2>1, <2>2 DEF InstrOK
<1>9. ASSUME NEW q \in Package
      PROVE  Fewer(q) /\ ShapeOK(pkg[q])' /\ InstrOK(pkg[q])'
  <2>1. CASE q = p
    BY <1>6, <1>7, <1>8, <2>1
  <2>2. CASE q # p
    <3>1. pkg'[q] = pkg[q] /\ ShapeOK(pkg[q]) /\ Len(Items(pkg[q])) \in Nat
      BY <1>3, <2>2, ItemsType DEF Others, BetInv
    <3>2. Fewer(q) /\ ShapeOK(pkg[q])'
      BY <3>1, SameFewer, SameShape
    <3>3. /\ pkg'[q].type = pkg[q].type /\ pkg'[q].orders = pkg[q].orders
          /\ \A k \in 1..Len(pkg'[q].instr) : \E j \in 1..Len(pkg[q].instr) :
               pkg'[q].instr[k] = pkg[q].instr[j]
      BY <3>1
    <3>4. InstrOK(pkg[q])'
      BY <1>2, <3>3, InstrKept
    <3> QED
      BY <3>2, <3>4
  <2> QED
    BY <2>1, <2>2
<1> QED
  BY <1>2, <1>5, <1>9, BetStep DEF TrackedInv

\* The items of a place or a replace, and their orders
LEMMA ItemsOf ==
  ASSUME TypeInv, TrackedInv, BetInv, NEW p \in Package, pkg[p].type \in {"PLACE", "REPLACE"}
  PROVE  \A i \in 1..Len(Items(pkg[p])) :
           /\ Items(pkg[p])[i].order \in blotter \cup {NoOrder}
           /\ ReportOK(pkg[p].type, Items(pkg[p])[i].report)
<1>1. ShapeOK(pkg[p]) /\ HeldBy(pkg[p])
  BY DEF BetInv, TrackedInv, HeldInv
<1>2. CASE pkg[p].pc # "handled"
  <2>1. Items(pkg[p]) = pkg[p].work
    BY <1>2 DEF Items
  <2>2. \A i \in 1..Len(pkg[p].work) : ReportOK(pkg[p].type, pkg[p].work[i].report)
    BY <1>1 DEF ShapeOK
  <2> QED
    BY <1>1, <2>1, <2>2 DEF HeldBy
<1>3. CASE pkg[p].pc = "handled"
  <2>1. /\ Len(Items(pkg[p])) = Len(pkg[p].reports)
        /\ \A i \in 1..Len(pkg[p].reports) : /\ Items(pkg[p])[i].order = pkg[p].orders[i]
                                             /\ Items(pkg[p])[i].report = pkg[p].reports[i]
    BY <1>1, <1>3, ItemsHandled
  <2>2. Len(pkg[p].reports) <= Len(pkg[p].orders)
    <3>1. Len(pkg[p].reports) + Len(pkg[p].instr) = Len(pkg[p].orders)
      BY <1>1, <1>3 DEF ShapeOK
    <3>2. Len(pkg[p].reports) \in Nat /\ Len(pkg[p].instr) \in Nat
      BY PackageFields
    <3>3. \A m, n, k : m \in Nat /\ n \in Nat /\ m + n = k => m <= k
      OBVIOUS
    <3> QED
      BY <3>1, <3>2, <3>3
  <2>3. Len(pkg[p].reports) \in Nat /\ Len(pkg[p].orders) \in Nat
    BY PackageFields
  <2>4. \A i \in 1..Len(pkg[p].reports) : i \in 1..Len(pkg[p].orders)
    BY <2>2, <2>3
  <2> QED
    BY <1>1, <2>1, <2>4 DEF ShapeOK, HeldBy, Tracked
<1> QED
  BY <1>2, <1>3

\* No report names a bet whose order has none, or is not in the blotter.
LEMMA RecordUnclaimed ==
  ASSUME TypeInv, TrackedInv, BetInv, NEW b \in 1..Len(exch),
         \/ AsyncPlace /\ betId[exch[b].ref] = 0
         \/ exch[b].ref \notin blotter
  PROVE  /\ Unclaimed(b)
         /\ \A n \in Order : betId[n] # b
<1>1. b # 0 /\ exch[b].ref \in Order
  <2>1. exch \in Seq([ref : Order, left : 0..Size])
    BY DEF TypeInv, ExchangeOK
  <2>2. \A c \in 1..Len(exch) : exch[c].ref \in Order
    BY <2>1, BetsType
  <2>3. \A n : n \in Nat => \A c \in 1..n : c # 0
    OBVIOUS
  <2>4. Len(exch) \in Nat
    BY <2>1
  <2> QED
    BY <2>2, <2>3, <2>4
<1>2. \A o : ~Kin(b, o)
  <2>1. CASE betId[exch[b].ref] = 0
    BY <2>1 DEF Kin
  <2>2. CASE exch[b].ref \notin blotter
    BY <2>2 DEF Kin
  <2> QED
    BY <2>1, <2>2
<1>3. ASSUME NEW n \in Order, betId[n] = b
      PROVE  FALSE
  <2>1. BetOK(n) /\ betId[n] # 0
    BY <1>1, <1>3 DEF BetInv
  <2>2. Kin(betId[n], n)
    BY <2>1 DEF BetOK
  <2>3. Kin(b, n)
    BY <1>3, <2>2
  <2> QED
    BY <1>2, <2>3
<1>4. ASSUME NEW q \in Package, NEW i \in 1..Len(Items(pkg[q])), Claim(pkg[q], i) = b
      PROVE  FALSE
  <2>1. Claim(pkg[q], i) # 0 /\ pkg[q].type \in {"PLACE", "REPLACE"}
    BY <1>1, <1>4 DEF Claim
  <2>2. Owns(pkg[q].type, Items(pkg[q])[i].order, b)
    BY <1>4, <2>1 DEF BetInv, ClaimsOK
  <2>3. /\ Items(pkg[q])[i].order \in blotter \cup {NoOrder}
        /\ ReportOK(pkg[q].type, Items(pkg[q])[i].report)
    BY <2>1, ItemsOf
  <2>4. pkg[q].type = "PLACE" /\ exch[b].ref = Items(pkg[q])[i].order
    BY <1>2, <2>1, <2>2 DEF Owns
  <2>5. exch[b].ref \in blotter
    BY <1>1, <2>3, <2>4, OrderAssumption
  <2>6. Items(pkg[q])[i].report.bet = 0
    BY <2>3, <2>4, <2>5 DEF ReportOK
  <2> QED
    BY <1>1, <1>4, <2>4, <2>6 DEF Claim
<1> QED
  BY <1>3, <1>4 DEF Unclaimed

\* A record of the stream gives an order its bet.
LEMMA BetRecord ==
  ASSUME TypeInv, TypeInv', TrackedInv, BetInv, NEW b \in Bets,
         ProcessCurrentOrder(b) \/ CreateOrderFromCurrent(b)
  PROVE  BetKept
<1>1. exch' = exch /\ UNCHANGED <<pkg, pending>> /\ b \in 1..Len(exch) /\ Len(exch) \in Nat
  BY DEF ProcessCurrentOrder, CreateOrderFromCurrent, Bets, TypeInv, ExchangeOK
<1>2. PICK o : o = exch[b].ref
  OBVIOUS
<1>3. o \in Order /\ b # 0
  <2>1. exch \in Seq([ref : Order, left : 0..Size])
    BY DEF TypeInv, ExchangeOK
  <2>2. \A c \in 1..Len(exch) : exch[c].ref \in Order
    BY <2>1, BetsType
  <2> QED
    BY <1>1, <1>2, <2>2
<1>4. ASSUME betId' = [betId EXCEPT ![o] = b], o \in blotter',
             blotter \subseteq blotter', \A x \in blotter : trade'[x] = trade[x],
             o \in blotter => betId[o] = 0 /\ AsyncPlace
      PROVE  BetKept
  <2>1. Unclaimed(b) /\ \A n \in Order : betId[n] # b
    BY <1>1, <1>2, <1>4, RecordUnclaimed
  <2>2. betId'[o] = b /\ \A n \in Order \ {o} : betId'[n] = betId[n]
    BY <1>3, <1>4 DEF TypeInv, OrdersOK
  <2>3. Unclaimed(b)'
    BY <1>1, <2>1 DEF Unclaimed, Claim, Spent, Items
  <2>4. Kin(betId[o], o)'
    BY <1>1, <1>2, <1>3, <1>4, <2>2 DEF Kin
  <2>5. Gets(o)
    <3>1. Unclaimed(betId[o])'
      BY <2>2, <2>3 DEF Unclaimed
    <3> QED
      BY <1>1, <1>2, <1>3, <2>1, <2>2, <2>4, <3>1 DEF Gets
  <2>6. BetChange
    BY <2>2, <2>5 DEF BetChange
  <2>7. Stable /\ NewRefs
    BY <1>1, <1>2, <1>3, <1>4, <2>2 DEF Stable, NewRefs
  <2>8. \A i \in 1..Len(pending'["PLACE"]) : OwnBet(pending["PLACE"][i])'
    <3>1. ASSUME NEW i \in 1..Len(pending["PLACE"])
          PROVE  OwnBet(pending["PLACE"][i])'
      <4>1. PICK x : x = pending["PLACE"][i]
        OBVIOUS
      <4>2. OwnBet(x)'
        BY <2>6, <2>7, <4>1, PendingOwn
      <4> QED
        BY <1>1, <4>1, <4>2 DEF OwnBet
    <3> QED
      BY <1>1, <3>1
  <2> QED
    BY <1>1, <2>6, <2>7, <2>8, BetMain
<1>5. CASE CreateOrderFromCurrent(b)
  <2>1. o \notin blotter /\ betId' = [betId EXCEPT ![o] = b] /\ blotter' = blotter \cup {o}
        /\ \E t : trade' = [trade EXCEPT ![o] = t]
    BY <1>2, <1>5 DEF CreateOrderFromCurrent
  <2>2. \A x \in blotter : trade'[x] = trade[x]
    BY <2>1 DEF TypeInv, OrdersOK
  <2> QED
    BY <1>4, <2>1, <2>2
<1>6. CASE ProcessCurrentOrder(b)
  <2>1. PICK x : x = OrderOf(b)
    OBVIOUS
  <2>2. /\ UNCHANGED <<trade, blotter>> /\ o \in blotter
        /\ betId' = [betId EXCEPT ![x] = IF AsyncPlace /\ betId[x] = 0 THEN b ELSE betId[x]]
        /\ x # NoOrder
    BY <1>2, <1>6, <2>1 DEF ProcessCurrentOrder
  <2>3. \/ x = o
        \/ betId[x] = b
    BY <1>2, <2>1, <2>2, OrderOfType
  <2>4. CASE AsyncPlace /\ betId[x] = 0
    <3>1. x = o
      BY <1>3, <2>3, <2>4
    <3> QED
      BY <1>4, <2>2, <2>4, <3>1
  <2>5. CASE ~(AsyncPlace /\ betId[x] = 0)
    <3>1. betId' = betId
      BY <2>2, <2>5 DEF TypeInv, OrdersOK
    <3> QED
      BY <1>1, <2>2, <3>1, BetStutter
  <2> QED
    BY <2>4, <2>5
<1> QED
  BY <1>5, <1>6

\* Before the first step, and after a restart, no order has a bet.
LEMMA BetNothing ==
  ASSUME betId = [o \in Order |-> 0], pending = NoPending, pkg = [p \in Package |-> Idle]
  PROVE  BetInv
<1>1. pending["PLACE"] = <<>>
  BY DEF NoPending, PackageType
<1>2. ASSUME NEW p \in Package
      PROVE  ShapeOK(pkg[p]) /\ InstrOK(pkg[p]) /\ Items(pkg[p]) = <<>>
  BY DEF Idle, ShapeOK, InstrOK, Items
<1>3. \A o \in Order : BetOK(o)
  BY DEF BetOK
<1>4. (\A p \in Package : ClaimsOK(pkg[p])) /\ ApartInv
  BY <1>2 DEF ClaimsOK, ApartInv
<1> QED
  BY <1>1, <1>2, <1>3, <1>4 DEF BetInv

LEMMA BetRestart ==
  ASSUME Restart
  PROVE  BetInv'
<1>1. pending'["PLACE"] = <<>> /\ \A o \in Order : betId'[o] = 0
  BY DEF Restart, NoPending, PackageType
<1>2. ASSUME NEW p \in Package
      PROVE  /\ ShapeOK(pkg[p])' /\ InstrOK(pkg[p])' /\ Len(Items(pkg'[p])) = 0
             /\ \A i \in 1..Len(Items(pkg'[p])) : FALSE
  <2>1. pkg'[p] = Idle
    BY DEF Restart
  <2> QED
    BY <2>1 DEF Idle, ShapeOK, InstrOK, Items
<1>3. \A o \in Order : BetOK(o)'
  BY <1>1 DEF BetOK
<1>4. (\A p \in Package : ClaimsOK(pkg[p])') /\ ApartInv'
  BY <1>2 DEF ClaimsOK, ApartInv
<1> QED
  BY <1>1, <1>2, <1>3, <1>4 DEF BetInv

LEMMA BetNext ==
  ASSUME TypeInv, TypeInv', TrackedInv, BetInv, Aligned, [Next]_vars
  PROVE  BetInv'
<1>1. ASSUME NEW o \in Order,
             \/ \E t \in Trade : CreateOrder(o, t)
             \/ CancelOrder(o) \/ UpdateOrder(o) \/ ReplaceOrder(o) \/ RejectRequest(o)
             \/ PlaceOrder(o) \/ RejectPlace(o)
      PROVE  BetInv'
  BY <1>1, BetAsk, BetNew DEF BetKept
<1>2. ASSUME NEW i \in 1..4, Execute(i)
      PROVE  BetInv'
  BY <1>2, BetExecute DEF BetKept
<1>3. ASSUME NEW b \in Bets, ProcessCurrentOrder(b) \/ CreateOrderFromCurrent(b)
      PROVE  BetInv'
  BY <1>3, BetRecord DEF BetKept
<1>4. CASE UNCHANGED vars \/ NextSnapshot \/ Snap \/ \E b \in Bets : SkipCurrentOrder(b)
  BY <1>4, BetStutter DEF BetKept, vars, NextSnapshot, Snap, SkipCurrentOrder, orderVars, mainVars
<1>5. ASSUME NEW b \in Bets, ExchangeMatch(b)
      PROVE  BetInv'
  <2>1. PICK left \in 0..(exch[b].left - 1) : exch' = [exch EXCEPT ![b].left = left]
    BY <1>5 DEF ExchangeMatch
  <2>2. UNCHANGED <<trade, betId, blotter, pkg, pending>>
    BY <1>5 DEF ExchangeMatch, orderVars, mainVars
  <2>3. Len(exch') = Len(exch) /\ \A c \in 1..Len(exch) : exch'[c].ref = exch[c].ref
    <3>1. b \in 1..Len(exch) /\ exch[b].left \in 0..Size
      BY BetType DEF Bets
    <3>2. left \in 0..Size /\ left <= exch[b].left
      BY <3>1, BoundAssumption
    <3> QED
      BY <2>1, <3>1, <3>2, LessFollows
  <2> QED
    BY <2>2, <2>3, BetQuiet DEF BetKept
<1>6. CASE Restart
  BY <1>6, BetRestart
<1>7. ASSUME NEW p \in Package, Thread(p) \/ RequestError(p) \/ RequestBroken(p)
      PROVE  BetInv'
  BY <1>7, BetSend, BetRequest, BetPlace, BetCancel, BetReplace, BetReply, BetEnter,
     BetApply, BetCreate
  DEF Thread, BetKept
<1> QED
  BY <1>1, <1>2, <1>3, <1>4, <1>5, <1>6, <1>7 DEF Next, Strategy, Main

-----------------------------------------------------------------------------
(* The theorem *)

\* A bet id is given to the order that the bet was placed for, or to the replacement
\* of that order in the same trade, and to no other (RightBet): execute_place and
\* execute_replace pair the reports of the exchange with the orders by position,
\* process_current_order pairs a record with an order by its customer reference, on
\* another thread, and a restart takes the orders over from the stream.  It holds
\* when zip(order_package, reports) cannot mispair (Aligned).
THEOREM RightBetSafe == Aligned => (Spec => []RightBet)
<1> DEFINE Inv == TypeInv /\ TrackedInv /\ BetInv
<1>1. Init => Inv
  BY TypeInit, TrackedInit, BetNothing DEF Init
<1>2. ASSUME Aligned
      PROVE  Inv /\ [Next]_vars => Inv'
  BY <1>2, TypeStep, TrackedNext, BetNext
<1>3. Inv => RightBet
  <2> SUFFICES ASSUME Inv, NEW o \in Order, betId[o] # 0
               PROVE  LET ref == exch[betId[o]].ref IN
                      /\ betId[o] \in Bets
                      /\ \A n \in Order \ {o} : betId[n] # betId[o]
                      /\ ref = o \/ (status[ref] # "None" /\ trade[ref] = trade[o]
                                      /\ \A b \in Bets : exch[b].ref # o)
    BY DEF RightBet
  <2>1. BetOK(o)
    BY DEF BetInv
  <2>2. \A x \in blotter : status[x] # "None"
    BY DEF TrackedInv, BlotterInv
  <2> QED
    BY <2>1, <2>2 DEF BetOK, Kin, Bets
<1> HIDE DEF Inv
<1>4. CASE Aligned
  BY <1>1, <1>2, <1>3, <1>4, PTL DEF Spec
<1> QED
  BY <1>4

-----------------------------------------------------------------------------
(* The inductive invariant of what an order knows of its bet *)

\* The order is at the exchange neither under its own name nor under another.
NoBetYet(o) == betId[o] = 0 /\ \A b \in 1..Len(exch) : exch[b].ref # o

\* The exchange may still be given order i of the package.
Unplaced(k, i) ==
  /\ k.type = "PLACE" /\ ~k.processed /\ k.pc \in {"queued", "sent", "handled"}
  /\ i > Len(k.reports)
Waits(o) ==
  \/ \E i \in 1..Len(pending["PLACE"]) : pending["PLACE"][i] = o
  \/ \E p \in Package : \E i \in 1..Len(pkg[p].orders) :
       Unplaced(pkg[p], i) /\ pkg[p].orders[i] = o

\* An order is placed once: it is in one transaction or one package, at one place.
OnceInv ==
  /\ \A i, j \in 1..Len(pending["PLACE"]) : pending["PLACE"][i] = pending["PLACE"][j] => i = j
  /\ \A p \in Package : pkg[p].type = "PLACE" =>
       \A i \in 1..Len(pkg[p].orders), j \in 1..Len(pending["PLACE"]) :
         pkg[p].orders[i] # pending["PLACE"][j]
  /\ \A p, q \in Package : pkg[p].type = "PLACE" /\ pkg[q].type = "PLACE" =>
       \A i \in 1..Len(pkg[p].orders), j \in 1..Len(pkg[q].orders) :
         pkg[p].orders[i] = pkg[q].orders[j] => p = q /\ i = j

\* What is still to be placed is not at the exchange; what is there without the order
\* knowing is one bet.
PlaceInv ==
  /\ \A o \in Order : Waits(o) => NoBetYet(o)
  /\ \A o \in blotter : betId[o] = 0 =>
       \A b, c \in 1..Len(exch) : exch[b].ref = o /\ exch[c].ref = o => b = c

\* What an order has left, with a bet and before it knows of one
OrderView ==
  \A o \in Order :
    /\ betId[o] # 0 => exch[betId[o]].left <= remaining[o]
    /\ betId[o] = 0 => \A b \in 1..Len(exch) : exch[b].ref = o => exch[b].left <= remaining[o]
    /\ NoBetYet(o) => remaining[o] = Size
\* What a snapshot says is left
Recorded(s) == \A b \in DOMAIN s : exch[b].left <= s[b]
RecordView == Recorded(current) /\ \A i \in 1..Len(queue) : Recorded(queue[i])
\* What a report says is left
ClaimView ==
  \A p \in Package : \A i \in 1..Len(Items(pkg[p])) : Claim(pkg[p], i) # 0 =>
    /\ exch[Claim(pkg[p], i)].left <= Items(pkg[p])[i].report.size
    /\ pkg[p].type = "PLACE" => betId[Items(pkg[p])[i].order] = 0

ViewInv == OnceInv /\ PlaceInv /\ OrderView /\ RecordView /\ ClaimView

-----------------------------------------------------------------------------
(* What is still to be placed *)

\* Packages keep their orders or lose them; no order is to be placed again.
Calm ==
  /\ pending'["PLACE"] = pending["PLACE"]
  /\ \A q \in Package :
       \/ pkg'[q].orders = <<>>
       \/ /\ pkg'[q].type = pkg[q].type /\ pkg'[q].orders = pkg[q].orders
          /\ \A i \in 1..Len(pkg[q].orders) : Unplaced(pkg'[q], i) => Unplaced(pkg[q], i)

LEMMA CalmOnce ==
  ASSUME OnceInv, Calm
  PROVE  OnceInv'
<1>1. ASSUME NEW p \in Package, NEW i \in 1..Len(pkg'[p].orders)
      PROVE  /\ pkg'[p].type = pkg[p].type /\ i \in 1..Len(pkg[p].orders)
             /\ pkg'[p].orders[i] = pkg[p].orders[i]
  <2>1. pkg'[p].orders # <<>>
    OBVIOUS
  <2> QED
    BY <2>1 DEF Calm
<1>2. \A p \in Package : pkg'[p].type = "PLACE" =>
        \A i \in 1..Len(pkg'[p].orders), j \in 1..Len(pending'["PLACE"]) :
          pkg'[p].orders[i] # pending'["PLACE"][j]
  BY <1>1 DEF OnceInv, Calm
<1>3. ASSUME NEW p \in Package, NEW q \in Package,
             pkg'[p].type = "PLACE", pkg'[q].type = "PLACE",
             NEW i \in 1..Len(pkg'[p].orders), NEW j \in 1..Len(pkg'[q].orders),
             pkg'[p].orders[i] = pkg'[q].orders[j]
      PROVE  p = q /\ i = j
  <2>1. /\ pkg[p].type = "PLACE" /\ i \in 1..Len(pkg[p].orders)
        /\ pkg[q].type = "PLACE" /\ j \in 1..Len(pkg[q].orders)
        /\ pkg[p].orders[i] = pkg[q].orders[j]
    BY <1>1, <1>3
  <2> QED
    BY <2>1 DEF OnceInv
<1> QED
  BY <1>2, <1>3 DEF OnceInv, Calm

LEMMA CalmWaits ==
  ASSUME Calm, NEW o, Waits(o)'
  PROVE  Waits(o)
<1>1. CASE \E i \in 1..Len(pending'["PLACE"]) : pending'["PLACE"][i] = o
  BY <1>1 DEF Calm, Waits
<1>2. ASSUME NEW p \in Package, NEW i \in 1..Len(pkg'[p].orders),
             Unplaced(pkg'[p], i), pkg'[p].orders[i] = o
      PROVE  Waits(o)
  <2>1. pkg'[p].orders # <<>>
    OBVIOUS
  <2> QED
    BY <1>2, <2>1 DEF Calm, Waits
<1>3. \/ \E i \in 1..Len(pending'["PLACE"]) : pending'["PLACE"][i] = o
      \/ \E p \in Package : \E i \in 1..Len(pkg'[p].orders) :
           Unplaced(pkg'[p], i) /\ pkg'[p].orders[i] = o
  BY DEF Waits, Unplaced
<1> QED
  BY <1>1, <1>2, <1>3

\* A thread goes on with its package, with the reports it has or more.
LEMMA ThreadGoes ==
  ASSUME TypeInv, BetInv, NEW p \in Package, Others(p), UNCHANGED pending,
         \/ pkg'[p].orders = <<>>
         \/ /\ pkg'[p].type = pkg[p].type /\ pkg'[p].orders = pkg[p].orders
            /\ \A i \in 1..Len(pkg[p].orders) : Unplaced(pkg'[p], i) => Unplaced(pkg[p], i)
  PROVE  Calm
<1>1. ASSUME NEW q \in Package \ {p}
      PROVE  /\ pkg'[q].type = pkg[q].type /\ pkg'[q].orders = pkg[q].orders
             /\ \A i \in 1..Len(pkg[q].orders) : Unplaced(pkg'[q], i) => Unplaced(pkg[q], i)
  BY DEF Others
<1> QED
  BY <1>1 DEF Calm

LEMMA ReportCalm ==
  ASSUME TypeInv, BetInv, NEW p \in Package,
         \/ EnterTrade(p) \/ ApplyReport(p) \/ PassReport(p) \/ ClearUpdateData(p)
         \/ CreateReplacement(p) \/ SettleReplacement(p) \/ ExitTrade(p) \/ ReleaseTrade(p)
  PROVE  Calm
<1>1. /\ UNCHANGED pending
      /\ \/ NextItem(p)
         \/ \E pc \in {"create", "clear", "exit", "release"} : Goto(p, pc)
         \/ \E o : TakesUp(p, "apply", o) \/ TakesUp(p, "settle", o)
  BY DEF EnterTrade, ApplyReport, PassReport, ClearUpdateData, CreateReplacement,
         SettleReplacement, ExitTrade, ReleaseTrade, TakesUp, orderVars, mainVars
<1>2. /\ Others(p) /\ pkg'[p].type = pkg[p].type /\ pkg'[p].orders = pkg[p].orders
      /\ pkg'[p].pc \in {"next", "create", "clear", "exit", "release", "apply", "settle"}
  <2>1. CASE NextItem(p)
    BY <2>1, NextFields
  <2>2. CASE \E pc \in {"create", "clear", "exit", "release"} : Goto(p, pc)
    BY <2>2, GotoFields
  <2>3. CASE \E o : TakesUp(p, "apply", o) \/ TakesUp(p, "settle", o)
    BY <2>3, SubjectFields
  <2> QED
    BY <1>1, <2>1, <2>2, <2>3
<1>3. \A i : ~Unplaced(pkg'[p], i)
  BY <1>2 DEF Unplaced
<1> QED
  BY <1>1, <1>2, <1>3, ThreadGoes

LEMMA RequestCalm ==
  ASSUME TypeInv, BetInv, NEW p \in Package,
         \/ SendRequest(p) \/ AbandonRequest(p) \/ RequestError(p) \/ RequestBroken(p)
         \/ Reply(p) \/ Finish(p)
  PROVE  Calm
<1>0. UNCHANGED pending /\ ShapeOK(pkg[p])
  BY DEF SendRequest, AbandonRequest, RequestError, RequestBroken, Reply, Finish, mainVars, BetInv
<1>1. CASE Leave(p)
  <2>1. Others(p) /\ pkg'[p].orders = <<>>
    BY <1>1, LeaveFields DEF Idle
  <2> QED
    BY <1>0, <2>1, ThreadGoes
<1>2. CASE Reply(p)
  <2>1. /\ Others(p) /\ pkg'[p].type = pkg[p].type /\ pkg'[p].orders = pkg[p].orders
        /\ pkg'[p].pc = "next"
    BY <1>2, ReplyFields
  <2>2. \A i : ~Unplaced(pkg'[p], i)
    BY <2>1 DEF Unplaced
  <2> QED
    BY <1>0, <2>1, <2>2, ThreadGoes
<1>3. CASE SendRequest(p)
  <2>1. /\ Others(p) /\ pkg'[p].type = pkg[p].type /\ pkg'[p].orders = pkg[p].orders
        /\ pkg'[p].processed = pkg[p].processed /\ pkg'[p].reports = <<>>
    BY <1>3, SendFields
  <2>2. pkg[p].pc = "queued" /\ pkg[p].reports = <<>>
    BY <1>0, <1>3 DEF SendRequest, ShapeOK
  <2>3. \A i : Unplaced(pkg'[p], i) => Unplaced(pkg[p], i)
    BY <2>1, <2>2 DEF Unplaced
  <2> QED
    BY <1>0, <2>1, <2>3, ThreadGoes
<1>4. CASE RequestError(p) /\ RetryLeft(p)
  <2>1. /\ Others(p) /\ pkg'[p].type = pkg[p].type /\ pkg'[p].orders = pkg[p].orders
        /\ pkg'[p].processed = KnownRef(p) /\ pkg'[p].reports = <<>>
    BY <1>4, RetryFields DEF RequestError
  <2>2. pkg[p].pc \in {"sent", "handled"}
    BY <1>4 DEF RequestError, SeenNothing, SeenAll
  <2>3. \A i : Unplaced(pkg'[p], i) => Unplaced(pkg[p], i)
    <3>1. CASE pkg[p].pc = "handled"
      BY <2>1, <3>1 DEF Unplaced, KnownRef
    <3>2. CASE pkg[p].pc = "sent"
      <4>1. pkg[p].reports = <<>>
        BY <1>0, <3>2 DEF ShapeOK
      <4> QED
        BY <2>1, <3>2, <4>1 DEF Unplaced, KnownRef
    <3> QED
      BY <2>2, <3>1, <3>2
  <2> QED
    BY <1>0, <2>1, <2>3, ThreadGoes
<1> QED
  BY <1>1, <1>2, <1>3, <1>4
  DEF AbandonRequest, RequestError, RetryOrGiveUp, RequestBroken, Finish

\* The exchange does an instruction.
LEMMA AnswerCalm ==
  ASSUME TypeInv, BetInv, NEW p \in Package, NEW rep, Answer(p, rep), UNCHANGED pending,
         pkg[p].pc \in {"sent", "handled"}, rep = <<>> \/ \E r : rep = <<r>>
  PROVE  Calm
<1>1. /\ Others(p) /\ pkg'[p].type = pkg[p].type /\ pkg'[p].orders = pkg[p].orders
      /\ pkg'[p].processed = pkg[p].processed /\ pkg'[p].reports = pkg[p].reports \o rep
  BY AnswerFields
<1>2. Len(pkg[p].reports) \in Nat /\ Len(pkg'[p].reports) \in Nat
      /\ Len(pkg[p].reports) <= Len(pkg'[p].reports)
  <2>0. pkg[p].reports \in Seq(ReportAt(Len(exch)))
    BY PackageFields
  <2>1. CASE rep = <<>>
    BY <1>1, <2>0, <2>1
  <2>2. CASE \E r : rep = <<r>>
    BY <1>1, <2>2, ReportsMore
  <2> QED
    BY <2>1, <2>2
<1>3. \A i \in Nat : Unplaced(pkg'[p], i) => Unplaced(pkg[p], i)
  BY <1>1, <1>2 DEF Unplaced
<1>4. Len(pkg[p].orders) \in Nat
  BY PackageFields
<1> QED
  BY <1>1, <1>3, <1>4, ThreadGoes

-----------------------------------------------------------------------------
(* What the reports and the snapshots say *)

LEMMA ItemSize ==
  ASSUME TypeInv, BetInv, NEW p \in Package, pkg[p].type \in {"PLACE", "REPLACE"}
  PROVE  \A i \in 1..Len(Items(pkg[p])) : Items(pkg[p])[i].report.size \in 0..Size
<1>1. /\ \A i \in 1..Len(pkg[p].reports) : pkg[p].reports[i] \in ReportAt(Len(exch))
      /\ \A i \in 1..Len(pkg[p].work) : pkg[p].work[i] \in WorkAt(Len(exch))
  BY PackageFields, ElementOfSeq
<1>2. /\ \A i \in 1..Len(pkg[p].reports) : pkg[p].reports[i].size \in 0..Size
      /\ \A i \in 1..Len(pkg[p].work) : pkg[p].work[i].report.size \in 0..Size
  BY <1>1 DEF ReportAt, WorkAt
<1>3. CASE pkg[p].pc # "handled"
  BY <1>2, <1>3 DEF Items
<1>4. CASE pkg[p].pc = "handled"
  <2>1. ShapeOK(pkg[p])
    BY DEF BetInv
  <2> QED
    BY <1>2, <1>4, <2>1, ItemsHandled
<1> QED
  BY <1>3, <1>4

\* A claim is for a bet of the exchange, and of a place or a replace.
LEMMA ClaimBet ==
  ASSUME BetInv, NEW p \in Package, NEW i \in 1..Len(Items(pkg[p])), Claim(pkg[p], i) # 0
  PROVE  Claim(pkg[p], i) \in 1..Len(exch) /\ pkg[p].type \in {"PLACE", "REPLACE"}
BY DEF BetInv, ClaimsOK, Owns, Kin, Claim

\* What is left of the bets, before and after
LEMMA BetsLess ==
  ASSUME TypeInv, TypeInv', Follows, NEW b \in 1..Len(exch), NEW n \in Nat, exch[b].left <= n
  PROVE  exch'[b].left <= n
<1>1. exch \in Seq([ref : Order, left : 0..Size]) /\ exch' \in Seq([ref : Order, left : 0..Size])
  BY DEF TypeInv, ExchangeOK
<1>2. b \in 1..Len(exch')
  BY <1>1 DEF Follows
<1>3. exch[b].left \in 0..Size /\ exch'[b].left \in 0..Size
  BY <1>1, <1>2, BetsType
<1>4. exch'[b].left <= exch[b].left
  BY DEF Follows
<1> QED
  BY <1>3, <1>4

\* A report that was there before
LEMMA ClaimsView ==
  ASSUME TypeInv, TypeInv', BetInv, ClaimView, Follows, NEW p \in Package,
         NEW i, NEW j \in 1..Len(Items(pkg[p])), Claim(pkg'[p], i) # 0,
         Claim(pkg'[p], i) = Claim(pkg[p], j), pkg'[p].type = pkg[p].type,
         Items(pkg'[p])[i].order = Items(pkg[p])[j].order,
         Items(pkg'[p])[i].report = Items(pkg[p])[j].report,
         \A o \in Order : betId[o] = 0 /\ betId'[o] # 0 =>
           ~(pkg'[p].type = "PLACE" /\ Items(pkg'[p])[i].order = o)
  PROVE  /\ exch'[Claim(pkg'[p], i)].left <= Items(pkg'[p])[i].report.size
         /\ pkg'[p].type = "PLACE" => betId'[Items(pkg'[p])[i].order] = 0
<1>2. PICK c, n, o : /\ c = Claim(pkg[p], j) /\ n = Items(pkg[p])[j].report.size
                     /\ o = Items(pkg[p])[j].order
  OBVIOUS
<1>3. c # 0 /\ c \in 1..Len(exch) /\ pkg[p].type \in {"PLACE", "REPLACE"}
  BY <1>2, ClaimBet
<1>4. n \in Nat
  BY <1>2, <1>3, ItemSize
<1>5. exch[c].left <= n /\ (pkg[p].type = "PLACE" => betId[o] = 0)
  BY <1>2, <1>3 DEF ClaimView
<1>6. exch'[c].left <= n
  BY <1>3, <1>4, <1>5, BetsLess
<1>7. pkg[p].type = "PLACE" => betId'[o] = 0
  <2> SUFFICES ASSUME pkg[p].type = "PLACE" PROVE betId'[o] = 0
    OBVIOUS
  <2>1. Owns(pkg[p].type, o, c)
    BY <1>2, <1>3 DEF BetInv, ClaimsOK
  <2>2. exch[c].ref = o
    BY <2>1 DEF Owns
  <2>3. o \in Order
    <3>1. exch \in Seq([ref : Order, left : 0..Size])
      BY DEF TypeInv, ExchangeOK
    <3> QED
      BY <1>3, <2>2, <3>1, BetsType
  <2> QED
    BY <1>2, <1>5, <2>3
<1> QED
  BY <1>2, <1>6, <1>7

LEMMA ClaimsKept ==
  ASSUME TypeInv, TypeInv', BetInv, ClaimView, Follows, \A p \in Package : Fewer(p),
         \A o \in Order : betId[o] = 0 /\ betId'[o] # 0 =>
           \A p \in Package : \A i \in 1..Len(Items(pkg'[p])) :
             ~(pkg'[p].type = "PLACE" /\ Claim(pkg'[p], i) # 0 /\ Items(pkg'[p])[i].order = o)
  PROVE  ClaimView'
<1>1. ASSUME NEW p \in Package, NEW i \in 1..Len(Items(pkg'[p])), Claim(pkg'[p], i) # 0
      PROVE  /\ exch'[Claim(pkg'[p], i)].left <= Items(pkg'[p])[i].report.size
             /\ pkg'[p].type = "PLACE" => betId'[Items(pkg'[p])[i].order] = 0
  <2>1. PICK j : /\ j \in 1..Len(Items(pkg[p]))
                 /\ Claim(pkg'[p], i) = Claim(pkg[p], j) /\ pkg'[p].type = pkg[p].type
                 /\ Items(pkg'[p])[i].order = Items(pkg[p])[j].order
                 /\ Items(pkg'[p])[i].report = Items(pkg[p])[j].report
    <3>1. Fewer(p)
      OBVIOUS
    <3>2. PICK d \in {0, 1} :
            /\ i + d \in 1..Len(Items(pkg[p]))
            /\ Claim(pkg'[p], i) = Claim(pkg[p], i + d)
            /\ Items(pkg'[p])[i].order = Items(pkg[p])[i + d].order
            /\ Items(pkg'[p])[i].report = Items(pkg[p])[i + d].report
      BY <1>1, <3>1 DEF Fewer
    <3>3. Len(Items(pkg'[p])) > 0
      OBVIOUS
    <3>4. pkg'[p].type = pkg[p].type
      BY <3>1, <3>3 DEF Fewer
    <3> QED
      BY <3>2, <3>4
  <2>2. \A o \in Order : betId[o] = 0 /\ betId'[o] # 0 =>
          ~(pkg'[p].type = "PLACE" /\ Items(pkg'[p])[i].order = o)
    BY <1>1
  <2> QED
    BY <1>1, <2>1, <2>2, ClaimsView
<1> QED
  BY <1>1 DEF ClaimView

\* A snapshot remains right while the bets only lose.
LEMMA RecordedKept ==
  ASSUME TypeInv, TypeInv', Follows, NEW s \in SnapshotAt(Len(exch)), Recorded(s)
  PROVE  Recorded(s)'
<1>1. ASSUME NEW b \in DOMAIN s
      PROVE  exch'[b].left <= s[b]
  <2>1. b \in 1..Len(exch) /\ s[b] \in Nat
    BY BoundAssumption DEF SnapshotAt
  <2>2. exch[b].left <= s[b]
    BY DEF Recorded
  <2>3. PICK n : n = s[b]
    OBVIOUS
  <2>4. exch'[b].left <= n
    BY <2>1, <2>2, <2>3, BetsLess
  <2> QED
    BY <2>3, <2>4
<1> QED
  BY <1>1 DEF Recorded

LEMMA RecordsKept ==
  ASSUME TypeInv, TypeInv', RecordView, Follows, UNCHANGED <<queue, current>>
  PROVE  RecordView'
<1>1. current \in SnapshotAt(Len(exch)) /\ queue \in Seq(SnapshotAt(Len(exch)))
  BY DEF TypeInv, MainOK
<1>2. \A i \in 1..Len(queue) : queue[i] \in SnapshotAt(Len(exch))
  BY <1>1, ElementOfSeq
<1>3. PICK s : s = current
  OBVIOUS
<1>4. Recorded(s)'
  BY <1>1, <1>3, RecordedKept DEF RecordView
<1>5. ASSUME NEW i \in 1..Len(queue)
      PROVE  Recorded(queue[i])'
  <2>1. PICK r : r = queue[i]
    OBVIOUS
  <2>2. Recorded(r)'
    BY <1>2, <2>1, RecordedKept DEF RecordView
  <2> QED
    BY <2>1, <2>2 DEF Recorded
<1> QED
  BY <1>3, <1>4, <1>5 DEF RecordView, Recorded

-----------------------------------------------------------------------------
(* The steps, by what they change *)

\* No bet and no order's view of one
LEMMA ViewQuiet ==
  ASSUME TypeInv, TypeInv', BetInv, BetKept, ViewInv, OnceInv', RecordView',
         UNCHANGED <<betId, remaining, exch>>,
         \A o \in Order : Waits(o)' => Waits(o) \/ NoBetYet(o),
         \A o \in blotter' \ blotter : NoBetYet(o)
  PROVE  ViewInv'
<1>1. Follows
  BY SameFollows
<1>2. ClaimView'
  BY <1>1, ClaimsKept DEF BetKept, ViewInv
<1>3. \A o \in Order : NoBetYet(o)' <=> NoBetYet(o)
  BY DEF NoBetYet
<1>4. OrderView'
  BY <1>3 DEF OrderView, ViewInv
<1>5. PlaceInv'
  BY <1>3 DEF PlaceInv, ViewInv, NoBetYet
<1> QED
  BY <1>2, <1>4, <1>5 DEF ViewInv

\* An order learns of a bet, or of what is left of it.
LEMMA ViewTakes ==
  ASSUME TypeInv, TypeInv', BetInv, BetKept, ViewInv, Calm, RecordView', exch' = exch,
         NEW x \in Order, blotter' \subseteq blotter \cup {x},
         \A o \in Order \ {x} : betId'[o] = betId[o] /\ remaining'[o] = remaining[o],
         betId'[x] # 0 => exch[betId'[x]].left <= remaining'[x],
         betId'[x] # 0 => betId[x] # 0 \/ ~Waits(x),
         betId[x] = 0 /\ betId'[x] # 0 =>
           \A p \in Package : \A i \in 1..Len(Items(pkg'[p])) :
             ~(pkg'[p].type = "PLACE" /\ Claim(pkg'[p], i) # 0 /\ Items(pkg'[p])[i].order = x),
         betId'[x] = 0 =>
           /\ x \in blotter /\ betId[x] = 0
           /\ \A b \in 1..Len(exch) : exch[b].ref = x => exch[b].left <= remaining'[x]
           /\ NoBetYet(x) => remaining'[x] = Size
  PROVE  ViewInv'
<1>1. Follows
  BY SameFollows
<1>2. ClaimView'
  BY <1>1, ClaimsKept DEF BetKept, ViewInv
<1>3. \A o \in Order \ {x} : NoBetYet(o)' <=> NoBetYet(o)
  BY DEF NoBetYet
<1>4. OrderView'
  BY <1>3 DEF OrderView, ViewInv, NoBetYet
<1>5. PlaceInv'
  <2>1. ASSUME NEW o \in Order, Waits(o)'
        PROVE  NoBetYet(o)'
    <3>1. Waits(o)
      BY <2>1, CalmWaits
    <3>2. NoBetYet(o)
      BY <3>1 DEF ViewInv, PlaceInv
    <3> QED
      BY <3>1, <3>2 DEF NoBetYet
  <2>2. ASSUME NEW o \in blotter', betId'[o] = 0
        PROVE  o \in blotter /\ betId[o] = 0
    BY <2>2 DEF TypeInv, OrdersOK
  <2> QED
    BY <2>1, <2>2 DEF PlaceInv, ViewInv
<1>6. OnceInv'
  BY CalmOnce DEF ViewInv
<1> QED
  BY <1>2, <1>4, <1>5, <1>6 DEF ViewInv

\* The exchange takes off bets, and adds at most one.
LEMMA ViewBets ==
  ASSUME TypeInv, TypeInv', BetInv, ViewInv, Calm, Follows, ClaimView',
         UNCHANGED <<betId, remaining, blotter, queue, current>>,
         \A b \in 1..Len(exch') :
           \/ b \in 1..Len(exch)
           \/ /\ b = Len(exch) + 1
              /\ \/ betId[exch'[b].ref] # 0
                 \/ NoBetYet(exch'[b].ref) /\ ~Waits(exch[b].ref)'
  PROVE  ViewInv'
<1>1. RecordView'
  BY RecordsKept DEF ViewInv
<1>2. OnceInv'
  BY CalmOnce DEF ViewInv
<1>3. /\ exch \in Seq([ref : Order, left : 0..Size]) /\ Len(exch) \in Nat
      /\ exch' \in Seq([ref : Order, left : 0..Size])
      /\ remaining \in [Order -> 0..Size] /\ betId \in [Order -> 0..Len(exch)]
  BY DEF TypeInv, ExchangeOK, OrdersOK
<1>4. /\ \A b \in 1..Len(exch') : exch'[b].left \in 0..Size /\ exch'[b].ref \in Order
  BY <1>3, BetsType
<1>5. \A b \in 1..Len(exch) : b \in 1..Len(exch') /\ exch'[b].ref = exch[b].ref
  BY <1>3 DEF Follows
<1>6. ASSUME NEW o \in Order, NoBetYet(o)'
      PROVE  NoBetYet(o)
  BY <1>5, <1>6 DEF NoBetYet
<1>7. ASSUME NEW b \in 1..Len(exch), NEW o \in Order, exch[b].left <= remaining[o]
      PROVE  exch'[b].left <= remaining[o]
  <2>1. PICK n : n = remaining[o]
    OBVIOUS
  <2>2. n \in Nat
    BY <1>3, <2>1
  <2>3. exch'[b].left <= n
    BY <1>7, <2>1, <2>2, BetsLess
  <2> QED
    BY <2>1, <2>3
<1>8. ASSUME NEW o \in Order
      PROVE  /\ betId'[o] # 0 => exch'[betId'[o]].left <= remaining'[o]
             /\ betId'[o] = 0 =>
                  \A b \in 1..Len(exch') : exch'[b].ref = o => exch'[b].left <= remaining'[o]
             /\ NoBetYet(o)' => remaining'[o] = Size
  <2>1. CASE betId[o] # 0
    <3>1. PICK b : b = betId[o]
      OBVIOUS
    <3>2. b \in 1..Len(exch) /\ exch[b].left <= remaining[o]
      BY <1>3, <2>1, <3>1 DEF ViewInv, OrderView
    <3> QED
      BY <1>7, <2>1, <3>1, <3>2 DEF NoBetYet
  <2>2. ASSUME betId[o] = 0, NEW b \in 1..Len(exch'), exch'[b].ref = o
        PROVE  exch'[b].left <= remaining[o]
    <3>1. CASE b \in 1..Len(exch)
      BY <1>5, <1>7, <2>2, <3>1 DEF ViewInv, OrderView
    <3>2. CASE b \notin 1..Len(exch)
      <4>1. remaining[o] = Size
        BY <2>2, <3>2 DEF ViewInv, OrderView
      <4> QED
        BY <1>4, <4>1
    <3> QED
      BY <3>1, <3>2
  <2>3. NoBetYet(o)' => remaining[o] = Size
    BY <1>6 DEF ViewInv, OrderView
  <2> QED
    BY <2>1, <2>2, <2>3
<1>9. OrderView'
  BY <1>8 DEF OrderView
<1>10. PlaceInv'
  <2>1. ASSUME NEW o \in Order, Waits(o)'
        PROVE  NoBetYet(o)'
    <3>1. NoBetYet(o)
      BY <2>1, CalmWaits DEF ViewInv, PlaceInv
    <3>2. ASSUME NEW b \in 1..Len(exch'), exch'[b].ref = o
          PROVE  FALSE
      <4>1. CASE b \in 1..Len(exch)
        BY <1>5, <3>1, <3>2, <4>1 DEF NoBetYet
      <4>2. CASE b \notin 1..Len(exch)
        <5>1. ~Waits(exch[b].ref)'
          BY <3>1, <3>2, <4>2 DEF NoBetYet
        <5> QED
          BY <2>1, <3>2, <5>1 DEF Waits
      <4> QED
        BY <4>1, <4>2
    <3> QED
      BY <3>1, <3>2 DEF NoBetYet
  <2>2. ASSUME NEW o \in blotter, betId[o] = 0, NEW b \in 1..Len(exch'), NEW c \in 1..Len(exch'),
               exch'[b].ref = o, exch'[c].ref = o
        PROVE  b = c
    <3>1. CASE NoBetYet(o)
      BY <1>5, <2>2, <3>1 DEF NoBetYet
    <3>2. CASE ~NoBetYet(o)
      <4>1. b \in 1..Len(exch) /\ c \in 1..Len(exch)
        BY <2>2, <3>2
      <4> QED
        BY <1>5, <2>2, <4>1 DEF ViewInv, PlaceInv
    <3> QED
      BY <3>1, <3>2
  <2> QED
    BY <2>1, <2>2 DEF PlaceInv
<1> QED
  BY <1>1, <1>2, <1>9, <1>10 DEF ViewInv


-----------------------------------------------------------------------------
(* The pool threads *)

\* What is to be placed is in the blotter.
LEMMA WaitsTracked ==
  ASSUME TypeInv, TrackedInv, NEW o, Waits(o)
  PROVE  o \in blotter
<1>1. CASE \E i \in 1..Len(pending["PLACE"]) : pending["PLACE"][i] = o
  BY <1>1 DEF TrackedInv, HeldInv, Tracked, PackageType
<1>2. CASE \E p \in Package : \E i \in 1..Len(pkg[p].orders) : pkg[p].orders[i] = o
  BY <1>2 DEF TrackedInv, HeldInv, HeldBy, Tracked
<1> QED
  BY <1>1, <1>2 DEF Waits

LEMMA ViewCalm ==
  ASSUME TypeInv, TypeInv', BetInv, BetKept, ViewInv, Calm,
         UNCHANGED <<betId, remaining, exch, blotter, queue, current>>
  PROVE  ViewInv'
<1>1. OnceInv'
  BY CalmOnce DEF ViewInv
<1>2. Follows
  BY SameFollows
<1>3. RecordView'
  BY <1>2, RecordsKept DEF ViewInv
<1>4. \A o \in Order : Waits(o)' => Waits(o)
  BY CalmWaits
<1> QED
  BY <1>1, <1>3, <1>4, ViewQuiet

\* The head report of a package that has not given its bet away
LEMMA HeadClaim ==
  ASSUME TypeInv, BetInv, ViewInv, NEW p \in Package, pkg[p].pc \in {"next", "create"},
         pkg[p].work # <<>>, pkg[p].type \in {"PLACE", "REPLACE"},
         NEW c, c = IF pkg[p].type = "PLACE" THEN Item(p).report.bet ELSE Item(p).report.new,
         pkg[p].type = "PLACE" => pkg[p].pc = "next"
  PROVE  /\ ReportOK(pkg[p].type, Item(p).report) /\ Item(p).report.size \in 0..Size
         /\ c # 0 => /\ c \in 1..Len(exch) /\ exch[c].left <= Item(p).report.size
                     /\ pkg[p].type = "PLACE" =>
                          exch[c].ref = Item(p).order /\ betId[Item(p).order] = 0
<1>1. Item(p) = pkg[p].work[1] /\ 1 \in 1..Len(pkg[p].work)
  BY ItemHead
<1>2. Items(pkg[p]) = pkg[p].work /\ ~Spent(pkg[p], 1)
  BY DEF Items, Spent
<1>3. Claim(pkg[p], 1) = c
  BY <1>1, <1>2 DEF Claim
<1>4. ReportOK(pkg[p].type, Item(p).report)
  BY <1>1 DEF BetInv, ShapeOK
<1>5. Item(p).report.size \in 0..Size
  BY ItemType
<1>6. ASSUME c # 0
      PROVE  /\ c \in 1..Len(exch) /\ exch[c].left <= Item(p).report.size
             /\ pkg[p].type = "PLACE" => exch[c].ref = Item(p).order /\ betId[Item(p).order] = 0
  <2>1. c \in 1..Len(exch)
    BY <1>1, <1>2, <1>3, <1>6, ClaimBet
  <2>2. /\ exch[c].left <= Item(p).report.size
        /\ pkg[p].type = "PLACE" => betId[Item(p).order] = 0
    BY <1>1, <1>2, <1>3, <1>6 DEF ViewInv, ClaimView
  <2>3. Owns(pkg[p].type, Item(p).order, c)
    BY <1>1, <1>2, <1>3, <1>6 DEF BetInv, ClaimsOK
  <2> QED
    BY <2>1, <2>2, <2>3 DEF Owns
<1> QED
  BY <1>4, <1>5, <1>6

LEMMA ViewEnter ==
  ASSUME TypeInv, TypeInv', TrackedInv, BetInv, BetKept, ViewInv, NEW p \in Package,
         EnterTrade(p)
  PROVE  ViewInv'
<1>1. Calm
  BY ReportCalm
<1>2. UNCHANGED <<exch, blotter, queue, current>>
  BY DEF EnterTrade, mainVars
<1>3. CASE pkg[p].type # "PLACE"
  <2>1. UNCHANGED <<betId, remaining>>
    BY <1>3 DEF EnterTrade
  <2> QED
    BY <1>1, <1>2, <2>1, ViewCalm
<1>4. CASE pkg[p].type = "PLACE"
  <2>0. PICK o, r : o = Item(p).order /\ r = Item(p).report
    OBVIOUS
  <2>1. /\ pkg[p].pc = "next" /\ pkg[p].work # <<>> /\ o # NoOrder
        /\ betId' = IF r.bet = 0 THEN betId ELSE [betId EXCEPT ![o] = r.bet]
        /\ remaining' = [remaining EXCEPT ![o] = PlacedRemaining(o, r)]
    BY <1>4, <2>0 DEF EnterTrade
  <2>2. o \in blotter /\ o \in Order
    <3>1. o \in blotter
      BY <2>0, <2>1, ItemTracked
    <3> QED
      BY <3>1 DEF TypeInv, OrdersOK
  <2>3. /\ betId \in [Order -> 0..Len(exch)] /\ remaining \in [Order -> 0..Size]
        /\ \A b \in 1..Len(exch) : exch[b].left \in 0..Size /\ exch[b].ref \in Order
    <3>1. exch \in Seq([ref : Order, left : 0..Size])
      BY DEF TypeInv, ExchangeOK
    <3> QED
      BY <3>1, BetsType DEF TypeInv, OrdersOK
  <2>4. /\ \A n \in Order \ {o} : betId'[n] = betId[n] /\ remaining'[n] = remaining[n]
        /\ betId'[o] = IF r.bet = 0 THEN betId[o] ELSE r.bet
        /\ remaining'[o] = IF o \in seen THEN remaining[o] ELSE r.size
    BY <2>1, <2>2, <2>3 DEF PlacedRemaining
  <2>5. PICK c : c = r.bet
    OBVIOUS
  <2>6. /\ ReportOK("PLACE", r) /\ r.size \in 0..Size
        /\ c # 0 => /\ c \in 1..Len(exch) /\ exch[c].left <= r.size
                    /\ exch[c].ref = o /\ betId[o] = 0
    <3>1. c = IF pkg[p].type = "PLACE" THEN Item(p).report.bet ELSE Item(p).report.new
      BY <1>4, <2>0, <2>5
    <3> QED
      BY <1>4, <2>0, <2>1, <3>1, HeadClaim
  <2>7. CASE c # 0
    <3>1. exch[c].left <= remaining[o] /\ ~NoBetYet(o)
      BY <2>2, <2>6, <2>7 DEF ViewInv, OrderView, NoBetYet
    <3>2. betId'[o] = c /\ exch[betId'[o]].left <= remaining'[o]
      BY <2>4, <2>5, <2>6, <2>7, <3>1
    <3>3. ~Waits(o)
      BY <2>2, <3>1 DEF ViewInv, PlaceInv
    <3>4. ASSUME NEW q \in Package, NEW i \in 1..Len(Items(pkg'[q])), pkg'[q].type = "PLACE",
                 Claim(pkg'[q], i) # 0, Items(pkg'[q])[i].order = o
          PROVE  FALSE
      <4>1. PICK d : d = Claim(pkg'[q], i)
        OBVIOUS
      <4>2. Owns("PLACE", o, d)' /\ \A x \in Order : betId'[x] # d
        BY <3>4, <4>1 DEF BetKept, BetInv, ClaimsOK
      <4>3. d \in 1..Len(exch) /\ exch[d].ref = o /\ d # c
        BY <1>2, <2>2, <3>2, <4>2 DEF Owns
      <4> QED
        BY <2>2, <2>6, <2>7, <4>3 DEF ViewInv, PlaceInv
    <3> QED
      BY <1>1, <1>2, <2>2, <2>4, <2>7, <3>2, <3>3, <3>4, ViewTakes, RecordsKept, SameFollows
      DEF ViewInv
  <2>8. CASE c = 0
    <3>1. betId'[o] = betId[o] /\ r.size = Size
      BY <2>4, <2>5, <2>6, <2>8 DEF ReportOK
    <3>2. remaining'[o] \in {remaining[o], Size}
      BY <2>4, <3>1
    <3>3. /\ betId[o] # 0 => exch[betId[o]].left <= remaining'[o]
          /\ betId[o] = 0 =>
               \A b \in 1..Len(exch) : exch[b].ref = o => exch[b].left <= remaining'[o]
          /\ NoBetYet(o) => remaining'[o] = Size
      <4>1. CASE remaining'[o] = remaining[o]
        BY <2>2, <4>1 DEF ViewInv, OrderView
      <4>2. CASE remaining'[o] = Size
        <5>1. betId[o] # 0 => betId[o] \in 1..Len(exch)
          BY <2>2, <2>3
        <5> QED
          BY <2>3, <4>2, <5>1
      <4> QED
        BY <3>2, <4>1, <4>2
    <3>4. RecordView'
      BY <1>2, RecordsKept, SameFollows DEF ViewInv
    <3> QED
      BY <1>1, <1>2, <2>2, <2>4, <3>1, <3>3, <3>4, ViewTakes
  <2> QED
    BY <2>7, <2>8
<1> QED
  BY <1>3, <1>4

LEMMA ViewCreate ==
  ASSUME TypeInv, TypeInv', TrackedInv, BetInv, BetKept, ViewInv, NEW p \in Package,
         CreateReplacement(p)
  PROVE  ViewInv'
<1>1. Calm
  BY ReportCalm
<1>2. UNCHANGED <<exch, queue, current>>
  BY DEF CreateReplacement, mainVars
<1>3. PICK n, r, c : n = Fresh(UnusedOrders) /\ r = Item(p).report /\ c = r.new
  OBVIOUS
<1>4. /\ pkg[p].pc = "create" /\ UnusedOrders # {}
      /\ betId' = [betId EXCEPT ![n] = c] /\ remaining' = [remaining EXCEPT ![n] = r.size]
      /\ blotter' = blotter \cup {n}
  BY <1>3 DEF CreateReplacement, ReplacementBet
<1>5. /\ n \in Order /\ n \notin blotter /\ \A b \in 1..Len(exch) : exch[b].ref # n
  BY <1>3, <1>4, FreshOrder DEF TrackedInv, BlotterInv
<1>6. HeadOK(pkg[p])
  BY <1>4 DEF TypeInv, PackagesOK, Applying
<1>7. pkg[p].work # <<>> /\ c # 0
  BY <1>3, <1>4, <1>6 DEF HeadOK, Item
<1>8. pkg[p].type = "REPLACE"
  <2>1. ReportOK(pkg[p].type, r)
    BY <1>3, <1>7, ItemHead DEF BetInv, ShapeOK
  <2> QED
    BY <1>3, <1>7, <2>1 DEF ReportOK
<1>9. exch[c].left <= r.size
  <2>1. c = IF pkg[p].type = "PLACE" THEN Item(p).report.bet ELSE Item(p).report.new
    BY <1>3, <1>8
  <2> QED
    BY <1>3, <1>4, <1>7, <1>8, <2>1, HeadClaim
<1>10. ~Waits(n)
  BY <1>5, WaitsTracked
<1>11. ASSUME NEW q \in Package, NEW i \in 1..Len(Items(pkg'[q])), pkg'[q].type = "PLACE",
              Claim(pkg'[q], i) # 0, Items(pkg'[q])[i].order = n
       PROVE  FALSE
  <2>1. PICK d : d = Claim(pkg'[q], i)
    OBVIOUS
  <2>2. Owns("PLACE", n, d)'
    BY <1>11, <2>1 DEF BetKept, BetInv, ClaimsOK
  <2> QED
    BY <1>2, <1>5, <2>2 DEF Owns
<1>12. /\ \A o \in Order \ {n} : betId'[o] = betId[o] /\ remaining'[o] = remaining[o]
       /\ betId'[n] = c /\ remaining'[n] = r.size
  BY <1>4, <1>5 DEF TypeInv, OrdersOK
<1>13. RecordView'
  BY <1>2, RecordsKept, SameFollows DEF ViewInv
<1> QED
  BY <1>1, <1>2, <1>4, <1>5, <1>7, <1>9, <1>10, <1>11, <1>12, <1>13, ViewTakes

\* The steps of a thread, without the exchange
LEMMA ViewThread ==
  ASSUME TypeInv, TypeInv', TrackedInv, BetInv, Aligned, ViewInv, NEW p \in Package,
         \/ SendRequest(p) \/ AbandonRequest(p) \/ RequestError(p) \/ RequestBroken(p)
         \/ Reply(p) \/ EnterTrade(p) \/ Finish(p)
         \/ ApplyReport(p) \/ PassReport(p) \/ ClearUpdateData(p)
         \/ CreateReplacement(p) \/ SettleReplacement(p) \/ ExitTrade(p) \/ ReleaseTrade(p)
  PROVE  ViewInv'
<1>1. CASE EnterTrade(p)
  BY <1>1, BetEnter, ViewEnter
<1>2. CASE CreateReplacement(p)
  BY <1>2, BetCreate, ViewCreate
<1>3. CASE \/ SendRequest(p) \/ AbandonRequest(p) \/ RequestError(p) \/ RequestBroken(p)
           \/ Reply(p) \/ Finish(p)
  <2>1. BetKept
    BY <1>3, BetSend, BetRequest, BetReply
  <2>2. UNCHANGED <<betId, remaining, exch, blotter, queue, current>>
    BY <1>3 DEF SendRequest, AbandonRequest, RequestError, RequestBroken, Reply, Finish,
                orderVars, mainVars
  <2> QED
    BY <1>3, <2>1, <2>2, RequestCalm, ViewCalm
<1>4. CASE \/ ApplyReport(p) \/ PassReport(p) \/ ClearUpdateData(p)
           \/ SettleReplacement(p) \/ ExitTrade(p) \/ ReleaseTrade(p)
  <2>1. UNCHANGED <<betId, remaining, exch, blotter, queue, current>>
    BY <1>4 DEF ApplyReport, PassReport, ClearUpdateData, SettleReplacement, ExitTrade,
                ReleaseTrade, orderVars, mainVars
  <2> QED
    BY <1>4, <2>1, BetApply, ReportCalm, ViewCalm
<1> QED
  BY <1>1, <1>2, <1>3, <1>4

-----------------------------------------------------------------------------
(* The exchange *)

\* A cancel, an update or a match takes off a bet.
LEMMA ViewLess ==
  ASSUME TypeInv, TypeInv', TrackedInv, BetInv, BetKept, ViewInv, Calm, Follows,
         Len(exch') = Len(exch), UNCHANGED <<betId, remaining, blotter, queue, current>>
  PROVE  ViewInv'
<1>1. ClaimView'
  BY ClaimsKept DEF BetKept, ViewInv
<1> QED
  BY <1>1, ViewBets

LEMMA ViewCancel ==
  ASSUME TypeInv, TypeInv', TrackedInv, BetInv, ViewInv, NEW p \in Package,
         ExchangeCancel(p) \/ ExchangeUpdate(p)
  PROVE  ViewInv'
<1>1. /\ \E type : Processing(p, type)
      /\ Follows /\ Len(exch') = Len(exch)
      /\ \E rep : Answer(p, rep) /\ (rep = <<>> \/ \E r : rep = <<r>>)
  BY CancelShape, UpdateShape, SameFollows
<1>2. /\ UNCHANGED <<betId, remaining, blotter, queue, current, pending>>
      /\ pkg[p].pc \in {"sent", "handled"}
  BY <1>1 DEF Processing, orderVars, mainVars
<1>3. Calm
  BY <1>1, <1>2, AnswerCalm
<1> QED
  BY <1>1, <1>2, <1>3, BetCancel, ViewLess

LEMMA ViewMatch ==
  ASSUME TypeInv, TypeInv', TrackedInv, BetInv, ViewInv, NEW b \in Bets, ExchangeMatch(b)
  PROVE  ViewInv'
<1>1. PICK left \in 0..(exch[b].left - 1) : exch' = [exch EXCEPT ![b].left = left]
  BY DEF ExchangeMatch
<1>2. b \in 1..Len(exch) /\ exch[b].left \in 0..Size
  <2>1. exch \in Seq([ref : Order, left : 0..Size])
    BY DEF TypeInv, ExchangeOK
  <2> QED
    BY <2>1, BetsType DEF Bets
<1>3. left \in 0..Size /\ left <= exch[b].left
  BY <1>2, BoundAssumption
<1>4. Follows /\ Len(exch') = Len(exch)
  <2>1. Len(exch') = Len(exch) /\ Len(exch) \in Nat
    BY <1>1, <1>2, <1>3, LessFollows DEF TypeInv, ExchangeOK
  <2>2. \A c \in 1..Len(exch) : exch'[c].ref = exch[c].ref /\ exch'[c].left <= exch[c].left
    BY <1>1, <1>2, <1>3, LessFollows
  <2> QED
    BY <2>1, <2>2 DEF Follows
<1>5. UNCHANGED <<betId, remaining, blotter, queue, current, pkg, trade, pending>>
  BY DEF ExchangeMatch, orderVars, mainVars
<1>6. BetKept
  BY <1>4, <1>5, BetQuiet DEF Follows
<1>7. Calm
  BY <1>5 DEF Calm
<1> QED
  BY <1>4, <1>5, <1>6, <1>7, ViewLess

\* The exchange has placed a bet, or not, and its report comes last.
LEMMA ClaimsAnswer ==
  ASSUME TypeInv, TypeInv', BetInv, ClaimView, Follows, UNCHANGED betId,
         NEW p \in Package, NEW r, Answer(p, <<r>>), pkg[p].instr # <<>>,
         pkg[p].pc \in {"sent", "handled"}, pkg[p].type \in {"PLACE", "REPLACE"},
         ReportOK(pkg[p].type, r),
         NEW c, c = IF pkg[p].type = "PLACE" THEN r.bet ELSE r.new,
         c # 0 => /\ exch'[c].left <= r.size
                  /\ pkg[p].type = "PLACE" => betId[Head(pkg[p].instr).order] = 0
  PROVE  ClaimView'
<1>1. Others(p) /\ pkg'[p].type = pkg[p].type
  BY AnswerFields
<1>2. ASSUME NEW q \in Package \ {p}, NEW i \in 1..Len(Items(pkg'[q])), Claim(pkg'[q], i) # 0
      PROVE  /\ exch'[Claim(pkg'[q], i)].left <= Items(pkg'[q])[i].report.size
             /\ pkg'[q].type = "PLACE" => betId'[Items(pkg'[q])[i].order] = 0
  <2>1. pkg'[q] = pkg[q]
    BY <1>1 DEF Others
  <2>2. i \in 1..Len(Items(pkg[q]))
    BY <2>1
  <2> QED
    BY <1>2, <2>1, <2>2, ClaimsView
<1>3. PICK m : m = Len(pkg[p].reports)
  OBVIOUS
<1>4. /\ m \in Nat /\ Len(Items(pkg[p])) = m /\ Len(Items(pkg'[p])) = m + 1
      /\ \A i \in 1..m :
           /\ Claim(pkg'[p], i) = Claim(pkg[p], i)
           /\ Items(pkg'[p])[i].order = Items(pkg[p])[i].order
           /\ Items(pkg'[p])[i].report = Items(pkg[p])[i].report
      /\ Items(pkg'[p])[m + 1].order = Head(pkg[p].instr).order
      /\ Items(pkg'[p])[m + 1].report = r
      /\ Claim(pkg'[p], m + 1) = c
  BY <1>3, AnswerItems
<1>5. ASSUME NEW i \in 1..(m + 1), Claim(pkg'[p], i) # 0
      PROVE  /\ exch'[Claim(pkg'[p], i)].left <= Items(pkg'[p])[i].report.size
             /\ pkg'[p].type = "PLACE" => betId'[Items(pkg'[p])[i].order] = 0
  <2>1. CASE i = m + 1
    BY <1>1, <1>4, <1>5, <2>1
  <2>2. CASE i # m + 1
    <3>1. i \in 1..m
      BY <1>4, <2>2
    <3>2. i \in 1..Len(Items(pkg[p]))
      BY <1>4, <3>1
    <3> QED
      BY <1>1, <1>4, <1>5, <3>1, <3>2, ClaimsView
  <2> QED
    BY <2>1, <2>2
<1> QED
  BY <1>2, <1>4, <1>5 DEF ClaimView

\* The order at the head of a place request waits, and does not once it is placed.
LEMMA PlacedOnce ==
  ASSUME TypeInv, BetInv, ViewInv, NEW p \in Package, ExchangePlace(p),
         NEW o, o = Head(pkg[p].instr).order
  PROVE  Waits(o) /\ NoBetYet(o) /\ ~Waits(o)'
<1>1. Processing(p, "PLACE") /\ \E r : Answer(p, <<r>>)
  BY PlaceShape
<1>3. PICK r : Answer(p, <<r>>)
  BY <1>1
<1>4. /\ UNCHANGED pending
      /\ pkg[p].pc \in {"sent", "handled"} /\ pkg[p].type = "PLACE"
      /\ pkg[p].instr # <<>> /\ ~pkg[p].processed
  BY <1>1 DEF Processing, mainVars
<1>8. PICK m : m = Len(pkg[p].reports) + 1
  OBVIOUS
<1>9. /\ Len(pkg[p].reports) \in Nat /\ m \in 1..Len(pkg[p].orders) /\ pkg[p].orders[m] = o
      /\ m > Len(pkg[p].reports)
  BY <1>4, <1>8, InstrOrder, ReportsMore
<1>10. Waits(o) /\ NoBetYet(o)
  <2>1. Unplaced(pkg[p], m)
    BY <1>4, <1>9 DEF Unplaced
  <2>2. Waits(o)
    BY <1>9, <2>1 DEF Waits
  <2>3. o \in Order
    BY <1>4, HeadInstruction
  <2> QED
    BY <2>2, <2>3 DEF ViewInv, PlaceInv
<1>11. ~Waits(o)'
  <2>1. /\ Others(p) /\ pkg'[p].type = "PLACE" /\ pkg'[p].orders = pkg[p].orders
        /\ pkg'[p].pc = "handled" /\ pkg'[p].processed = pkg[p].processed
        /\ Len(pkg'[p].reports) = m
    <3>1. /\ Others(p) /\ pkg'[p].type = pkg[p].type /\ pkg'[p].orders = pkg[p].orders
          /\ pkg'[p].pc = "handled" /\ pkg'[p].processed = pkg[p].processed
          /\ pkg'[p].reports = pkg[p].reports \o <<r>>
      BY <1>3, AnswerFields
    <3>2. Len(pkg'[p].reports) = m
      BY <1>8, <3>1, ReportsMore
    <3> QED
      BY <1>4, <3>1, <3>2
  <2>2. \A j \in 1..Len(pending["PLACE"]) : pending["PLACE"][j] # o
    BY <1>4, <1>9 DEF ViewInv, OnceInv
  <2>3. \A q \in Package \ {p} : pkg[q].type = "PLACE" =>
          \A i \in 1..Len(pkg[q].orders) : pkg[q].orders[i] # o
    BY <1>4, <1>9 DEF ViewInv, OnceInv
  <2>4. \A i \in 1..Len(pkg[p].orders) : pkg[p].orders[i] = o => i = m
    BY <1>4, <1>9 DEF ViewInv, OnceInv
  <2>5. \A i \in 1..Len(pkg'[p].orders) : ~(Unplaced(pkg'[p], i) /\ pkg'[p].orders[i] = o)
    <3>1. ~(m > m)
      BY <1>9
    <3> QED
      BY <2>1, <2>4, <3>1 DEF Unplaced
  <2>6. \A q \in Package \ {p} : \A i \in 1..Len(pkg'[q].orders) :
          ~(Unplaced(pkg'[q], i) /\ pkg'[q].orders[i] = o)
    BY <2>1, <2>3 DEF Others, Unplaced
  <2>7. \A j \in 1..Len(pending'["PLACE"]) : pending'["PLACE"][j] # o
    BY <1>4, <2>2
  <2>8. Waits(o)' <=>
          \/ \E i \in 1..Len(pending'["PLACE"]) : pending'["PLACE"][i] = o
          \/ \E q \in Package : \E i \in 1..Len(pkg'[q].orders) :
               Unplaced(pkg'[q], i) /\ pkg'[q].orders[i] = o
    BY DEF Waits, Unplaced
  <2> QED
    BY <2>5, <2>6, <2>7, <2>8
<1> QED
  BY <1>10, <1>11

LEMMA ViewPlace ==
  ASSUME TypeInv, TypeInv', TrackedInv, BetInv, ViewInv, NEW p \in Package, ExchangePlace(p)
  PROVE  ViewInv'
<1>1. Processing(p, "PLACE") /\ Follows
  BY PlaceShape
<1>2. PICK o : o = Head(pkg[p].instr).order
  OBVIOUS
<1>3. PICK r : /\ Answer(p, <<r>>) /\ r.new = 0
               /\ \/ exch' = exch /\ r.bet = 0 /\ r.size = Size
                  \/ /\ Len(exch') = Len(exch) + 1 /\ exch'[Len(exch')].ref = o
                     /\ \/ /\ ~AsyncPlace
                           /\ r.bet = Len(exch') /\ r.size = exch'[Len(exch')].left
                        \/ r.bet = 0 /\ r.size = Size
  BY <1>2, PlaceShape
<1>4. /\ UNCHANGED <<betId, remaining, blotter, queue, current, pending>>
      /\ pkg[p].pc \in {"sent", "handled"} /\ pkg[p].type = "PLACE"
      /\ pkg[p].instr # <<>> /\ ~pkg[p].processed
  BY <1>1 DEF Processing, orderVars, mainVars
<1>5. Calm
  BY <1>3, <1>4, AnswerCalm
<1>6. Len(exch) \in Nat /\ Len(exch') \in Nat
  BY DEF TypeInv, ExchangeOK
<1>7. ReportOK(pkg[p].type, r)
  BY <1>3, <1>4, <1>6 DEF ReportOK
<1>8. Waits(o) /\ NoBetYet(o) /\ ~Waits(o)'
  BY <1>2, PlacedOnce
<1>12. ClaimView'
  <2>1. PICK c : c = r.bet
    OBVIOUS
  <2>2. c # 0 => exch'[c].left <= r.size /\ betId[o] = 0
    <3> SUFFICES ASSUME c # 0 PROVE exch'[c].left <= r.size /\ betId[o] = 0
      OBVIOUS
    <3>1. c = Len(exch') /\ r.size = exch'[c].left
      BY <1>3, <2>1
    <3>2. r.size \in Nat
      <4>1. c \in 1..Len(exch') /\ exch' \in Seq([ref : Order, left : 0..Size])
        BY <1>6, <3>1 DEF TypeInv, ExchangeOK
      <4>2. exch'[c].left \in 0..Size
        BY <4>1, BetsType
      <4> QED
        BY <3>1, <4>2, BoundAssumption
    <3> QED
      BY <1>8, <3>1, <3>2 DEF NoBetYet
  <2>3. c = IF pkg[p].type = "PLACE" THEN r.bet ELSE r.new
    BY <1>4, <2>1
  <2> QED
    BY <1>1, <1>2, <1>3, <1>4, <1>7, <2>2, <2>3, ClaimsAnswer DEF ViewInv
<1>13. ASSUME NEW b \in 1..Len(exch'), b \notin 1..Len(exch)
       PROVE  b = Len(exch) + 1 /\ NoBetYet(exch'[b].ref) /\ ~Waits(exch[b].ref)'
  <2>1. Len(exch') = Len(exch) + 1 /\ exch'[Len(exch')].ref = o
    BY <1>3, <1>13
  <2>2. b = Len(exch')
    BY <1>6, <1>13, <2>1
  <2>3. exch'[b].ref = o
    BY <2>1, <2>2
  <2> QED
    BY <1>8, <2>1, <2>2, <2>3 DEF Waits
<1> QED
  BY <1>1, <1>4, <1>5, <1>12, <1>13, ViewBets

LEMMA ViewReplace ==
  ASSUME TypeInv, TypeInv', TrackedInv, BetInv, ViewInv, NEW p \in Package, ExchangeReplace(p)
  PROVE  ViewInv'
<1>1. PICK b, n : b = Head(pkg[p].instr).bet /\ n = Len(exch')
  OBVIOUS
<1>2. Processing(p, "REPLACE") /\ Follows /\ b \in 1..Len(exch)
  BY <1>1, ReplaceShape
<1>3. PICK r : /\ Answer(p, <<r>>)
               /\ \/ r.new = 0
                  \/ /\ n = Len(exch) + 1 /\ exch'[n].ref = exch[b].ref
                     /\ r.new = n /\ r.size = exch'[n].left
               /\ \/ n = Len(exch)
                  \/ n = Len(exch) + 1 /\ exch'[n].ref = exch[b].ref
  BY <1>1, ReplaceShape
<1>4. /\ UNCHANGED <<betId, remaining, blotter, queue, current, pending>>
      /\ pkg[p].pc \in {"sent", "handled"} /\ pkg[p].type = "REPLACE" /\ pkg[p].instr # <<>>
  BY <1>2 DEF Processing, orderVars, mainVars
<1>5. Calm
  BY <1>3, <1>4, AnswerCalm
<1>6. Len(exch) \in Nat /\ n \in Nat /\ exch' \in Seq([ref : Order, left : 0..Size])
  BY <1>1 DEF TypeInv, ExchangeOK
<1>7. ReportOK(pkg[p].type, r)
  BY <1>4 DEF ReportOK
<1>8. betId[exch[b].ref] # 0
  <2>1. Kin(b, Head(pkg[p].instr).order)
    BY <1>1, <1>4, InstrHead DEF BetInv, InstrOK
  <2> QED
    BY <2>1 DEF Kin
<1>9. ClaimView'
  <2>1. PICK c : c = r.new
    OBVIOUS
  <2>2. c # 0 => exch'[c].left <= r.size
    <3> SUFFICES ASSUME c # 0 PROVE exch'[c].left <= r.size
      OBVIOUS
    <3>1. c = n /\ c \in 1..n /\ r.size = exch'[c].left
      BY <1>3, <1>6, <2>1
    <3>2. r.size \in Nat
      <4>1. exch'[c].left \in 0..Size
        BY <1>1, <1>6, <3>1, BetsType
      <4> QED
        BY <3>1, <4>1, BoundAssumption
    <3> QED
      BY <3>1, <3>2
  <2>3. c = IF pkg[p].type = "PLACE" THEN r.bet ELSE r.new
    BY <1>4, <2>1
  <2> QED
    BY <1>2, <1>3, <1>4, <1>7, <2>2, <2>3, ClaimsAnswer DEF ViewInv
<1>10. ASSUME NEW x \in 1..Len(exch'), x \notin 1..Len(exch)
       PROVE  x = Len(exch) + 1 /\ betId[exch'[x].ref] # 0
  <2>1. n = Len(exch) + 1 /\ exch'[n].ref = exch[b].ref
    BY <1>1, <1>3, <1>10
  <2>2. x = n
    BY <1>1, <1>6, <1>10, <2>1
  <2> QED
    BY <1>8, <2>1, <2>2
<1> QED
  BY <1>2, <1>4, <1>5, <1>9, <1>10, ViewBets

-----------------------------------------------------------------------------
(* The main thread *)

LEMMA AppendItems ==
  ASSUME NEW S, NEW s \in Seq(S), NEW e
  PROVE  \A i \in 1..Len(Append(s, e)) :
           Append(s, e)[i] = e \/ (i \in 1..Len(s) /\ Append(s, e)[i] = s[i])
<1>1. /\ Len(Append(s, e)) = Len(s) + 1 /\ Len(s) \in Nat
      /\ \A i \in 1..Len(Append(s, e)) : IF i = Len(s) + 1 THEN Append(s, e)[i] = e
                                         ELSE i \in 1..Len(s) /\ Append(s, e)[i] = s[i]
  OBVIOUS
<1> QED
  BY <1>1

\* The record of bet b has been dealt with.
LEMMA RecordDone ==
  ASSUME TypeInv, RecordView, UNCHANGED <<queue, exch>>, NEW b,
         current' = [c \in DOMAIN current \ {b} |-> current[c]]
  PROVE  RecordView'
<1>1. PICK s : s = current'
  OBVIOUS
<1>2. DOMAIN s \subseteq DOMAIN current /\ \A c \in DOMAIN s : s[c] = current[c]
  BY <1>1
<1>3. Recorded(s)
  BY <1>2 DEF RecordView, Recorded
<1> QED
  BY <1>1, <1>3 DEF RecordView, Recorded

LEMMA ViewProcess ==
  ASSUME TypeInv, TypeInv', TrackedInv, BetInv, ViewInv, NEW b \in Bets,
         ProcessCurrentOrder(b)
  PROVE  ViewInv'
<1>1. PICK o, bet : /\ o = OrderOf(b)
                    /\ bet = IF AsyncPlace /\ betId[o] = 0 THEN b ELSE betId[o]
  OBVIOUS
<1>2. /\ b \in DOMAIN current /\ exch[b].ref \in blotter /\ o # NoOrder
      /\ remaining' = [remaining EXCEPT ![o] = current[b]]
      /\ betId' = [betId EXCEPT ![o] = bet]
      /\ current' = [c \in DOMAIN current \ {b} |-> current[c]]
      /\ UNCHANGED <<blotter, pending, queue, pkg, exch>>
  BY <1>1 DEF ProcessCurrentOrder
<1>3. /\ o \in blotter /\ o \in Order
      /\ \/ o = exch[b].ref /\ betId[o] \in {0, b}
         \/ betId[o] = b
  BY <1>1, <1>2, OrderOfType
<1>4. /\ \A x \in Order \ {o} : betId'[x] = betId[x] /\ remaining'[x] = remaining[x]
      /\ betId'[o] = bet /\ remaining'[o] = current[b]
  BY <1>2, <1>3 DEF TypeInv, OrdersOK
<1>5. b \in 1..Len(exch) /\ b # 0 /\ exch[b].left <= current[b]
  <2>1. b \in 1..Len(exch)
    BY <1>2, RecordTypes
  <2> QED
    BY <1>2, <2>1 DEF ViewInv, RecordView, Recorded
<1>6. Calm
  BY <1>2 DEF Calm
<1>7. RecordView'
  BY <1>2, RecordDone DEF ViewInv
<1>8. BetKept
  BY BetRecord
<1>9. CASE betId[o] # 0
  <2>1. betId'[o] = b
    BY <1>1, <1>3, <1>4, <1>9
  <2> QED
    BY <1>2, <1>3, <1>4, <1>5, <1>6, <1>7, <1>8, <1>9, <2>1, ViewTakes
<1>10. CASE betId[o] = 0 /\ AsyncPlace
  <2>1. betId'[o] = b /\ exch[b].ref = o
    BY <1>1, <1>3, <1>4, <1>5, <1>10
  <2>2. ~Waits(o)
    BY <1>3, <1>5, <2>1 DEF ViewInv, PlaceInv, NoBetYet
  <2>3. ASSUME NEW q \in Package, NEW i \in 1..Len(Items(pkg'[q])), pkg'[q].type = "PLACE",
               Claim(pkg'[q], i) # 0
        PROVE  FALSE
    <3>1. pkg[q].type = "PLACE" /\ i \in 1..Len(Items(pkg[q])) /\ Claim(pkg[q], i) # 0
      BY <1>2, <2>3
    <3>2. ReportOK("PLACE", Items(pkg[q])[i].report)
      BY <3>1, ItemsOf
    <3>3. Items(pkg[q])[i].report.bet = 0
      BY <1>10, <3>2 DEF ReportOK
    <3> QED
      BY <3>1, <3>3 DEF Claim
  <2> QED
    BY <1>2, <1>3, <1>4, <1>5, <1>6, <1>7, <1>8, <2>1, <2>2, <2>3, ViewTakes
<1>11. CASE betId[o] = 0 /\ ~AsyncPlace
  <2>1. betId'[o] = 0 /\ exch[b].ref = o
    BY <1>1, <1>3, <1>4, <1>5, <1>11
  <2>2. \A c \in 1..Len(exch) : exch[c].ref = o => c = b
    BY <1>3, <1>5, <1>11, <2>1 DEF ViewInv, PlaceInv
  <2>3. \A c \in 1..Len(exch) : exch[c].ref = o => exch[c].left <= remaining'[o]
    BY <1>4, <1>5, <2>2
  <2>4. ~NoBetYet(o)
    BY <1>5, <2>1 DEF NoBetYet
  <2> QED
    BY <1>2, <1>3, <1>4, <1>6, <1>7, <1>8, <1>11, <2>1, <2>3, <2>4, ViewTakes
<1> QED
  BY <1>9, <1>10, <1>11

LEMMA ViewFromCurrent ==
  ASSUME TypeInv, TypeInv', TrackedInv, BetInv, ViewInv, NEW b \in Bets,
         CreateOrderFromCurrent(b)
  PROVE  ViewInv'
<1>1. PICK o : o = exch[b].ref
  OBVIOUS
<1>2. /\ b \in DOMAIN current /\ o \notin blotter
      /\ remaining' = [remaining EXCEPT ![o] = current[b]]
      /\ betId' = [betId EXCEPT ![o] = b]
      /\ blotter' = blotter \cup {o}
      /\ current' = [c \in DOMAIN current \ {b} |-> current[c]]
      /\ UNCHANGED <<pending, queue, pkg, exch>>
  BY <1>1 DEF CreateOrderFromCurrent
<1>3. b \in 1..Len(exch) /\ b # 0 /\ o \in Order /\ exch[b].left <= current[b]
  <2>1. b \in 1..Len(exch) /\ o \in Order
    BY <1>1, <1>2, RecordTypes
  <2> QED
    BY <1>2, <2>1 DEF ViewInv, RecordView, Recorded
<1>4. /\ \A x \in Order \ {o} : betId'[x] = betId[x] /\ remaining'[x] = remaining[x]
      /\ betId'[o] = b /\ remaining'[o] = current[b]
  BY <1>2, <1>3 DEF TypeInv, OrdersOK
<1>5. Calm
  BY <1>2 DEF Calm
<1>6. RecordView'
  BY <1>2, RecordDone DEF ViewInv
<1>7. BetKept
  BY BetRecord
<1>8. ~Waits(o)
  BY <1>2, WaitsTracked
<1>9. ASSUME NEW q \in Package, NEW i \in 1..Len(Items(pkg'[q])), pkg'[q].type = "PLACE",
             Items(pkg'[q])[i].order = o
      PROVE  FALSE
  <2>1. pkg[q].type = "PLACE" /\ i \in 1..Len(Items(pkg[q])) /\ Items(pkg[q])[i].order = o
    BY <1>2, <1>9
  <2>2. o \in blotter \cup {NoOrder}
    BY <2>1, ItemsOf
  <2> QED
    BY <1>2, <1>3, <2>2, OrderAssumption
<1> QED
  BY <1>2, <1>3, <1>4, <1>5, <1>6, <1>7, <1>8, <1>9, ViewTakes

\* The strategy, its rejections and the records that are skipped: no order is placed.
LEMMA ViewStrategy ==
  ASSUME TypeInv, TypeInv', TrackedInv, BetInv, ViewInv,
         \/ \E o \in Order :
              \/ \E t \in Trade : CreateOrder(o, t)
              \/ CancelOrder(o) \/ UpdateOrder(o) \/ ReplaceOrder(o) \/ RejectRequest(o)
              \/ RejectPlace(o)
         \/ UNCHANGED vars
  PROVE  ViewInv'
<1>1. BetKept
  BY BetNew, BetAsk, BetStutter DEF vars, orderVars, mainVars
<1>2. UNCHANGED <<betId, remaining, exch, blotter, queue, current, pkg>>
  BY DEF CreateOrder, CancelOrder, UpdateOrder, ReplaceOrder, RejectRequest, Request,
         RejectPlace, vars, orderVars, mainVars
<1>3. pending'["PLACE"] = pending["PLACE"]
  BY DEF CreateOrder, CancelOrder, UpdateOrder, ReplaceOrder, RejectRequest, Request,
         Accept, RejectPlace, vars, mainVars, TypeInv, MainOK, PackageType
<1>4. Calm
  BY <1>2, <1>3 DEF Calm
<1> QED
  BY <1>1, <1>2, <1>4, ViewCalm

\* The snapshots
LEMMA ViewQueue ==
  ASSUME TypeInv, TypeInv', TrackedInv, BetInv, ViewInv,
         NextSnapshot \/ Snap \/ \E b \in Bets : SkipCurrentOrder(b)
  PROVE  ViewInv'
<1>1. UNCHANGED <<trade, betId, remaining, exch, blotter, pending, pkg>>
  BY DEF NextSnapshot, Snap, SkipCurrentOrder, orderVars
<1>2. BetKept
  BY <1>1, BetStutter
<1>3. Calm
  BY <1>1 DEF Calm
<1>4. queue \in Seq(SnapshotAt(Len(exch))) /\ Len(exch) \in Nat
  BY DEF TypeInv, MainOK, ExchangeOK
<1>5. RecordView'
  <2>1. CASE NextSnapshot
    <3>1. current' = queue[1] /\ 1 \in 1..Len(queue) /\ queue' = Tail(queue)
      BY <1>4, <2>1 DEF NextSnapshot
    <3>2. \A i \in 1..Len(queue') : i + 1 \in 1..Len(queue) /\ queue'[i] = queue[i + 1]
      BY <1>4, <3>1
    <3> QED
      BY <1>1, <3>1, <3>2 DEF ViewInv, RecordView, Recorded
  <2>2. CASE Snap
    <3>1. PICK s : s = [b \in Bets |-> exch[b].left]
      OBVIOUS
    <3>2. queue' = Append(queue, s) /\ current' = current
      BY <2>2, <3>1 DEF Snap
    <3>3. ASSUME NEW b \in DOMAIN s
          PROVE  exch[b].left <= s[b]
      <4>1. b \in 1..Len(exch) /\ exch \in Seq([ref : Order, left : 0..Size])
        BY <3>1 DEF Bets, TypeInv, ExchangeOK
      <4>2. exch[b].left \in 0..Size
        BY <4>1, BetsType
      <4>3. s[b] = exch[b].left
        BY <3>1
      <4> QED
        BY <4>2, <4>3, BoundAssumption
    <3>4. \A i \in 1..Len(queue') :
            queue'[i] = s \/ (i \in 1..Len(queue) /\ queue'[i] = queue[i])
      BY <1>4, <3>2, AppendItems
    <3> QED
      BY <1>1, <3>2, <3>3, <3>4 DEF ViewInv, RecordView, Recorded
  <2>3. CASE \E b \in Bets : SkipCurrentOrder(b)
    <3>1. PICK b \in Bets : SkipCurrentOrder(b)
      BY <2>3
    <3> QED
      BY <1>1, <3>1, RecordDone DEF SkipCurrentOrder, ViewInv
  <2> QED
    BY <2>1, <2>2, <2>3
<1> QED
  BY <1>1, <1>2, <1>3, <1>5, CalmOnce, CalmWaits, ViewQuiet DEF ViewInv

\* Only the order that is placed comes to wait.
LEMMA PlaceWaits ==
  ASSUME TypeInv, NEW o \in Order, PlaceOrder(o), NEW x, Waits(x)'
  PROVE  Waits(x) \/ x = o
<1>1. pkg' = pkg /\ pending' = [pending EXCEPT !["PLACE"] = Append(@, o)]
  BY DEF PlaceOrder
<1>2. pending["PLACE"] \in Seq(Order) /\ pending'["PLACE"] = Append(pending["PLACE"], o)
  BY <1>1 DEF TypeInv, MainOK, PackageType
<1>3. CASE \E i \in 1..Len(pending'["PLACE"]) : pending'["PLACE"][i] = x
  <2>1. PICK s : s = pending["PLACE"]
    OBVIOUS
  <2>2. x = o \/ \E i \in 1..Len(s) : s[i] = x
    BY <1>2, <1>3, <2>1, AppendItems
  <2> QED
    BY <2>1, <2>2 DEF Waits
<1>4. CASE \E p \in Package : \E i \in 1..Len(pkg[p].orders) :
             Unplaced(pkg[p], i) /\ pkg[p].orders[i] = x
  BY <1>4 DEF Waits
<1> QED
  BY <1>1, <1>3, <1>4 DEF Waits

LEMMA ViewPlaceOrder ==
  ASSUME TypeInv, TypeInv', TrackedInv, BetInv, ViewInv, NEW o \in Order, PlaceOrder(o)
  PROVE  ViewInv'
<1>1. /\ UNCHANGED <<betId, remaining, pkg, exch, queue, current>>
      /\ blotter' = blotter \cup {o} /\ status[o] = "New"
      /\ pending' = [pending EXCEPT !["PLACE"] = Append(@, o)]
  BY DEF PlaceOrder
<1>2. pending["PLACE"] \in Seq(Order) /\ pending'["PLACE"] = Append(pending["PLACE"], o)
  BY <1>1 DEF TypeInv, MainOK, PackageType
<1>3. PICK s : s = pending["PLACE"]
  OBVIOUS
<1>4. /\ Len(s) \in Nat /\ Len(pending'["PLACE"]) = Len(s) + 1
      /\ \A i \in 1..(Len(s) + 1) : IF i = Len(s) + 1 THEN pending'["PLACE"][i] = o
                                    ELSE i \in 1..Len(s) /\ pending'["PLACE"][i] = s[i]
  BY <1>2, <1>3
<1>5. o \notin blotter /\ NoBetYet(o)
  BY <1>1 DEF TrackedInv, BlotterInv, NoBetYet
<1>6. /\ \A i \in 1..Len(s) : s[i] # o
      /\ \A p \in Package : \A i \in 1..Len(pkg[p].orders) : pkg[p].orders[i] # o
  BY <1>3, <1>5 DEF TrackedInv, HeldInv, HeldBy, Tracked, PackageType
<1>7. OnceInv'
  <2>1. ASSUME NEW i \in 1..(Len(s) + 1), NEW j \in 1..(Len(s) + 1),
               pending'["PLACE"][i] = pending'["PLACE"][j]
        PROVE  i = j
    <3>1. CASE i \in 1..Len(s) /\ j \in 1..Len(s)
      <4>1. s[i] = s[j]
        BY <1>4, <2>1, <3>1
      <4> QED
        BY <1>3, <3>1, <4>1 DEF ViewInv, OnceInv
    <3>2. CASE i = Len(s) + 1 /\ j \in 1..Len(s)
      BY <1>4, <1>6, <2>1, <3>2
    <3>3. CASE j = Len(s) + 1 /\ i \in 1..Len(s)
      BY <1>4, <1>6, <2>1, <3>3
    <3> QED
      BY <1>4, <3>1, <3>2, <3>3
  <2>2. ASSUME NEW p \in Package, pkg[p].type = "PLACE",
               NEW i \in 1..Len(pkg[p].orders), NEW j \in 1..(Len(s) + 1)
        PROVE  pkg[p].orders[i] # pending'["PLACE"][j]
    <3>1. CASE j = Len(s) + 1
      BY <1>4, <1>6, <3>1
    <3>2. CASE j # Len(s) + 1
      BY <1>3, <1>4, <2>2, <3>2 DEF ViewInv, OnceInv
    <3> QED
      BY <3>1, <3>2
  <2>3. \A p, q \in Package : pkg[p].type = "PLACE" /\ pkg[q].type = "PLACE" =>
          \A i \in 1..Len(pkg[p].orders), j \in 1..Len(pkg[q].orders) :
            pkg[p].orders[i] = pkg[q].orders[j] => p = q /\ i = j
    BY DEF ViewInv, OnceInv
  <2> QED
    BY <1>1, <1>4, <2>1, <2>2, <2>3 DEF OnceInv
<1>8. \A x \in Order : Waits(x)' => Waits(x) \/ NoBetYet(x)
  BY <1>5, PlaceWaits
<1>9. RecordView'
  BY <1>1, RecordsKept, SameFollows DEF ViewInv
<1> QED
  BY <1>1, <1>5, <1>7, <1>8, <1>9, BetNew, ViewQuiet

\* What is to be placed moves from the transaction to a package.
LEMMA ExecuteWaits ==
  ASSUME TypeInv, NEW i \in 1..4, Execute(i), NEW x, Waits(x)'
  PROVE  Waits(x)
<1>1. PICK p \in Package, type \in PackageType :
        /\ Others(p) /\ pkg'[p].type = type /\ pkg'[p].orders = pending[type]
        /\ pending'[type] = <<>>
        /\ \A other \in PackageType \ {type} : pending'[other] = pending[other]
  BY ExecuteFields
<1>2. CASE \E j \in 1..Len(pending'["PLACE"]) : pending'["PLACE"][j] = x
  <2>1. CASE type = "PLACE"
    <3>1. \A j \in 1..Len(pending'["PLACE"]) : FALSE
      BY <1>1, <2>1
    <3> QED
      BY <1>2, <3>1
  <2>2. CASE type # "PLACE"
    BY <1>1, <1>2, <2>2 DEF PackageType, Waits
  <2> QED
    BY <2>1, <2>2
<1>3. ASSUME NEW q \in Package, NEW j \in 1..Len(pkg'[q].orders),
             Unplaced(pkg'[q], j), pkg'[q].orders[j] = x
      PROVE  Waits(x)
  <2>1. pkg'[q].type = "PLACE"
    BY <1>3 DEF Unplaced
  <2>2. CASE q = p
    BY <1>1, <1>3, <2>1, <2>2 DEF Waits
  <2>3. CASE q # p
    <3>1. pkg'[q] = pkg[q]
      BY <1>1, <2>3 DEF Others
    <3> QED
      BY <1>3, <3>1 DEF Waits
  <2> QED
    BY <2>2, <2>3
<1>4. \/ \E j \in 1..Len(pending'["PLACE"]) : pending'["PLACE"][j] = x
      \/ \E q \in Package : \E j \in 1..Len(pkg'[q].orders) :
           Unplaced(pkg'[q], j) /\ pkg'[q].orders[j] = x
  BY DEF Waits, Unplaced
<1> QED
  BY <1>2, <1>3, <1>4

LEMMA ViewExecute ==
  ASSUME TypeInv, TypeInv', TrackedInv, BetInv, ViewInv, NEW i \in 1..4, Execute(i)
  PROVE  ViewInv'
<1>1. UNCHANGED <<betId, remaining, exch, blotter, queue, current>>
  BY DEF Execute, orderVars
<1>2. PICK p \in Package, type \in PackageType :
        /\ Others(p)
        /\ pkg'[p].type = type /\ pkg'[p].orders = pending[type]
        /\ pkg'[p].processed = FALSE /\ pkg'[p].reports = <<>> /\ pkg'[p].pc = "queued"
        /\ pending'[type] = <<>>
        /\ \A other \in PackageType \ {type} : pending'[other] = pending[other]
  BY ExecuteFields
<1>3. /\ \A j \in 1..Len(pending'["PLACE"]) :
           /\ j \in 1..Len(pending["PLACE"]) /\ pending'["PLACE"][j] = pending["PLACE"][j]
           /\ type # "PLACE"
  <2>1. CASE type = "PLACE"
    <3>1. \A j \in 1..Len(pending'["PLACE"]) : FALSE
      BY <1>2, <2>1
    <3> QED
      BY <3>1
  <2>2. CASE type # "PLACE"
    BY <1>2, <2>2 DEF PackageType
  <2> QED
    BY <2>1, <2>2
\* The orders to be placed of a package were there, or in the transaction.
<1>4. ASSUME NEW q \in Package, pkg'[q].type = "PLACE", NEW j \in 1..Len(pkg'[q].orders)
      PROVE  IF q = p THEN /\ j \in 1..Len(pending["PLACE"]) /\ type = "PLACE"
                           /\ pkg'[q].orders[j] = pending["PLACE"][j]
             ELSE /\ pkg[q].type = "PLACE" /\ j \in 1..Len(pkg[q].orders)
                  /\ pkg'[q].orders[j] = pkg[q].orders[j]
  BY <1>2, <1>4 DEF Others
<1>5. OnceInv'
  <2>1. \A j, k \in 1..Len(pending'["PLACE"]) :
          pending'["PLACE"][j] = pending'["PLACE"][k] => j = k
    BY <1>3 DEF ViewInv, OnceInv
  <2>2. ASSUME NEW q \in Package, pkg'[q].type = "PLACE",
               NEW j \in 1..Len(pkg'[q].orders), NEW k \in 1..Len(pending'["PLACE"])
        PROVE  pkg'[q].orders[j] # pending'["PLACE"][k]
    <3>1. q # p
      BY <1>3, <1>4, <2>2
    <3>2. /\ pkg[q].type = "PLACE" /\ j \in 1..Len(pkg[q].orders)
          /\ pkg'[q].orders[j] = pkg[q].orders[j]
      BY <1>4, <2>2, <3>1
    <3> QED
      BY <1>3, <3>2 DEF ViewInv, OnceInv
  <2>3. ASSUME NEW q \in Package, NEW r \in Package,
               pkg'[q].type = "PLACE", pkg'[r].type = "PLACE",
               NEW j \in 1..Len(pkg'[q].orders), NEW k \in 1..Len(pkg'[r].orders),
               pkg'[q].orders[j] = pkg'[r].orders[k]
        PROVE  q = r /\ j = k
    <3>1. CASE q = p /\ r = p
      <4>1. /\ j \in 1..Len(pending["PLACE"]) /\ k \in 1..Len(pending["PLACE"])
            /\ pending["PLACE"][j] = pending["PLACE"][k]
        BY <1>4, <2>3, <3>1
      <4> QED
        BY <3>1, <4>1 DEF ViewInv, OnceInv
    <3>2. CASE q = p /\ r # p
      <4>1. /\ j \in 1..Len(pending["PLACE"]) /\ pkg'[q].orders[j] = pending["PLACE"][j]
            /\ pkg[r].type = "PLACE" /\ k \in 1..Len(pkg[r].orders)
            /\ pkg'[r].orders[k] = pkg[r].orders[k]
        BY <1>4, <2>3, <3>2
      <4>2. pkg[r].orders[k] = pending["PLACE"][j]
        BY <2>3, <4>1
      <4> QED
        BY <4>1, <4>2 DEF ViewInv, OnceInv
    <3>3. CASE q # p /\ r = p
      <4>1. /\ k \in 1..Len(pending["PLACE"]) /\ pkg'[r].orders[k] = pending["PLACE"][k]
            /\ pkg[q].type = "PLACE" /\ j \in 1..Len(pkg[q].orders)
            /\ pkg'[q].orders[j] = pkg[q].orders[j]
        BY <1>4, <2>3, <3>3
      <4>2. pkg[q].orders[j] = pending["PLACE"][k]
        BY <2>3, <4>1
      <4> QED
        BY <4>1, <4>2 DEF ViewInv, OnceInv
    <3>4. CASE q # p /\ r # p
      <4>1. /\ pkg[q].type = "PLACE" /\ j \in 1..Len(pkg[q].orders)
            /\ pkg'[q].orders[j] = pkg[q].orders[j]
            /\ pkg[r].type = "PLACE" /\ k \in 1..Len(pkg[r].orders)
            /\ pkg'[r].orders[k] = pkg[r].orders[k]
        BY <1>4, <2>3, <3>4
      <4>2. pkg[q].orders[j] = pkg[r].orders[k]
        BY <2>3, <4>1
      <4> QED
        BY <4>1, <4>2 DEF ViewInv, OnceInv
    <3> QED
      BY <3>1, <3>2, <3>3, <3>4
  <2> QED
    BY <2>1, <2>2, <2>3 DEF OnceInv
<1>6. \A x \in Order : Waits(x)' => Waits(x)
  BY ExecuteWaits
<1>7. RecordView'
  BY <1>1, RecordsKept, SameFollows DEF ViewInv
<1> QED
  BY <1>1, <1>5, <1>6, <1>7, BetExecute, ViewQuiet

\* The process has not done anything yet, or not since its restart.
LEMMA ViewNothing ==
  ASSUME betId = [o \in Order |-> 0], remaining = [o \in Order |-> Size], blotter = {},
         pending = NoPending, pkg = [p \in Package |-> Idle], queue = <<>>,
         current = NoRecords, \A b \in 1..Len(exch) : exch[b].left <= Size
  PROVE  ViewInv
<1>1. pending["PLACE"] = <<>>
  BY DEF NoPending, PackageType
<1>2. \A p \in Package : /\ pkg[p].orders = <<>> /\ Items(pkg[p]) = <<>>
  BY DEF Idle, Items
<1>3. OnceInv /\ \A o : ~Waits(o)
  BY <1>1, <1>2 DEF OnceInv, Waits
<1>4. PlaceInv
  BY <1>3 DEF PlaceInv
<1>5. OrderView
  BY DEF OrderView
<1>6. RecordView
  BY DEF RecordView, Recorded, NoRecords
<1>7. ClaimView
  BY <1>2 DEF ClaimView
<1> QED
  BY <1>3, <1>4, <1>5, <1>6, <1>7 DEF ViewInv

LEMMA ViewRestart ==
  ASSUME TypeInv, Restart
  PROVE  ViewInv'
<1>0. /\ pending' = NoPending /\ queue' = <<>> /\ current' = NoRecords /\ blotter' = {}
      /\ exch' = exch
      /\ \A o \in Order : betId'[o] = 0 /\ remaining'[o] = Size
      /\ \A p \in Package : pkg'[p] = Idle
  BY DEF Restart
<1>1. \A i \in 1..Len(pending'["PLACE"]) : FALSE
  <2>1. pending'["PLACE"] = <<>>
    BY <1>0 DEF NoPending, PackageType
  <2> QED
    BY <2>1
<1>2. ASSUME NEW p \in Package
      PROVE  /\ \A i \in 1..Len(pkg'[p].orders) : FALSE
             /\ \A i \in 1..Len(Items(pkg'[p])) : FALSE
  <2>1. pkg'[p].orders = <<>> /\ Items(pkg'[p]) = <<>>
    BY <1>0 DEF Idle, Items
  <2> QED
    BY <2>1
<1>3. OnceInv' /\ \A o : ~(Waits(o)')
  BY <1>1, <1>2 DEF OnceInv, Waits
<1>4. PlaceInv'
  BY <1>0, <1>3 DEF PlaceInv
<1>5. OrderView'
  <2>1. exch \in Seq([ref : Order, left : 0..Size])
    BY DEF TypeInv, ExchangeOK
  <2>2. \A b \in 1..Len(exch) : exch[b].left \in 0..Size
    BY <2>1, BetsType
  <2>3. \A b \in 1..Len(exch) : exch[b].left <= Size
    BY <2>2, BoundAssumption
  <2> QED
    BY <1>0, <2>3 DEF OrderView
<1>6. RecordView'
  <2>1. \A i \in 1..Len(queue') : FALSE
    BY <1>0
  <2> QED
    BY <1>0, <2>1 DEF RecordView, Recorded, NoRecords
<1>7. ClaimView'
  BY <1>2 DEF ClaimView
<1> QED
  BY <1>3, <1>4, <1>5, <1>6, <1>7 DEF ViewInv

LEMMA ViewNext ==
  ASSUME TypeInv, TypeInv', TrackedInv, BetInv, Aligned, ViewInv, [Next]_vars
  PROVE  ViewInv'
<1>1. ASSUME NEW o \in Order,
             \/ \E t \in Trade : CreateOrder(o, t)
             \/ CancelOrder(o) \/ UpdateOrder(o) \/ ReplaceOrder(o) \/ RejectRequest(o)
             \/ RejectPlace(o)
      PROVE  ViewInv'
  BY <1>1, ViewStrategy
<1>2. ASSUME NEW o \in Order, PlaceOrder(o)
      PROVE  ViewInv'
  BY <1>2, ViewPlaceOrder
<1>3. ASSUME NEW i \in 1..4, Execute(i)
      PROVE  ViewInv'
  BY <1>3, ViewExecute
<1>4. ASSUME NEW b \in Bets, ProcessCurrentOrder(b) \/ CreateOrderFromCurrent(b)
      PROVE  ViewInv'
  BY <1>4, ViewProcess, ViewFromCurrent
<1>5. CASE NextSnapshot \/ Snap \/ \E b \in Bets : SkipCurrentOrder(b)
  BY <1>5, ViewQueue
<1>6. ASSUME NEW b \in Bets, ExchangeMatch(b)
      PROVE  ViewInv'
  BY <1>6, ViewMatch
<1>7. CASE Restart
  BY <1>7, ViewRestart
<1>8. CASE UNCHANGED vars
  BY <1>8, ViewStrategy
<1>9. ASSUME NEW p \in Package, Thread(p) \/ RequestError(p) \/ RequestBroken(p)
      PROVE  ViewInv'
  BY <1>9, ViewThread, ViewPlace, ViewCancel, ViewReplace DEF Thread
<1> QED
  BY <1>1, <1>2, <1>3, <1>4, <1>5, <1>6, <1>7, <1>8, <1>9 DEF Next, Strategy, Main

-----------------------------------------------------------------------------
(* The theorem *)

\* size_remaining of an order that has a bet is never below what is left of the bet at
\* the exchange (NeverUnderstated): neither the reports of execute_place and
\* execute_replace, applied late, nor the snapshots that process_current_orders works
\* off hide a part of the bet that can still be matched.
THEOREM NeverUnderstatedSafe == Aligned => (Spec => []NeverUnderstated)
<1> DEFINE Inv == TypeInv /\ TrackedInv /\ BetInv /\ ViewInv
<1>1. Init => Inv
  <2> SUFFICES ASSUME Init PROVE Inv
    OBVIOUS
  <2>1. TypeInv /\ TrackedInv /\ BetInv
    BY TypeInit, TrackedInit, BetNothing DEF Init
  <2>2. \A b \in 1..Len(exch) : FALSE
    BY DEF Init
  <2>3. ViewInv
    BY <2>2, ViewNothing DEF Init
  <2> QED
    BY <2>1, <2>3
<1>2. ASSUME Aligned
      PROVE  Inv /\ [Next]_vars => Inv'
  BY <1>2, TypeStep, TrackedNext, BetNext, ViewNext
<1>3. Inv => NeverUnderstated
  BY DEF ViewInv, OrderView, NeverUnderstated, Left
<1> HIDE DEF Inv
<1>4. CASE Aligned
  BY <1>1, <1>2, <1>3, <1>4, PTL DEF Spec
<1> QED
  BY <1>4
===============================================================================

------------------------ MODULE MarketLifecycleProofs ------------------------
(***************************************************************************)
(* Proofs about MarketLifecycle, for any number of markets, objects, bets, *)
(* events and failures: a market id has its newest object or none, a       *)
(* removed object never comes back, and no cleared order is lost between   *)
(* the worker that asks for it and the blotter.                            *)
(***************************************************************************)
EXTENDS MarketLifecycle, FiniteSetTheorems, SequenceTheorems, WellFoundedInduction, TLAPS

-----------------------------------------------------------------------------
(* The newest object of a market *)

\* Every nonempty set of naturals with a bound has a greatest element: the least of
\* the intervals from an element to the bound.
LEMMA GreatestIn ==
  ASSUME NEW n \in Nat, NEW T \in SUBSET (0..n), T # {}
  PROVE  \E x \in T : \A y \in T : y <= x
<1> DEFINE U == {x..n : x \in T}
<1>1. U \subseteq FiniteSubsetsOf(Nat)
  <2> SUFFICES ASSUME NEW x \in T
               PROVE  x..n \in FiniteSubsetsOf(Nat)
    OBVIOUS
  <2>1. IsFiniteSet(x..n)
    BY FS_Interval
  <2> QED
    BY <2>1 DEF FiniteSubsetsOf
<1>2. U # {}
  OBVIOUS
<1>3. PICK M \in U : \A N \in U : ~ (<<N, M>> \in StrictSubsetOrdering(Nat))
  <2>1. IsWellFoundedOn(StrictSubsetOrdering(Nat), FiniteSubsetsOf(Nat))
    BY FS_StrictSubsetOrderingWellFounded
  <2> HIDE DEF U
  <2> QED
    BY <1>1, <1>2, <2>1, WFMin
<1>4. PICK x \in T : M = x..n
  OBVIOUS
<1>5. ASSUME NEW y \in T, y > x
      PROVE  FALSE
  <2>1. y..n \in SUBSET (x..n) /\ x \in x..n /\ x \notin y..n
    BY <1>5
  <2>2. <<y..n, x..n>> \in StrictSubsetOrdering(Nat)
    BY <2>1 DEF StrictSubsetOrdering
  <2> QED
    BY <1>3, <1>4, <2>2
<1> QED
  BY <1>5

\* Newest, of any assignment of objects
Top(f, m) == Max({0} \cup {g \in 1..MaxObjects[m] : f[<<m, g>>].made})

LEMMA TopIs ==
  ASSUME NEW f, NEW m \in Market
  PROVE  /\ Top(f, m) \in 0..MaxObjects[m]
         /\ Top(f, m) # 0 => f[<<m, Top(f, m)>>].made
         /\ \A g \in 1..MaxObjects[m] : f[<<m, g>>].made => g <= Top(f, m)
<1> DEFINE T == {0} \cup {g \in 1..MaxObjects[m] : f[<<m, g>>].made}
<1>1. MaxObjects[m] \in Nat /\ T \in SUBSET (0..MaxObjects[m]) /\ T # {}
  BY MarketAssumption
<1>2. \E x \in T : \A y \in T : y <= x
  <2> HIDE DEF T
  <2> QED
    BY <1>1, GreatestIn
<1>3. Max(T) \in T /\ \A y \in T : Max(T) >= y
  <2> HIDE DEF T
  <2>1. T \subseteq Int
    BY <1>1
  <2>2. \E x \in T : \A y \in T : x >= y
    BY <1>2, <2>1
  <2> QED
    BY <2>2 DEF Max
<1>4. Top(f, m) = Max(T)
  BY DEF Top
<1> HIDE DEF Max
<1> QED
  BY <1>1, <1>3, <1>4

\* It depends on which objects are made.
LEMMA TopSame ==
  ASSUME NEW f, NEW h, NEW m \in Market,
         \A g \in 1..MaxObjects[m] : h[<<m, g>>].made = f[<<m, g>>].made
  PROVE  Top(h, m) = Top(f, m)
<1>1. {g \in 1..MaxObjects[m] : h[<<m, g>>].made} = {g \in 1..MaxObjects[m] : f[<<m, g>>].made}
  OBVIOUS
<1> QED
  BY <1>1 DEF Top

\* The object made after the newest is the newest.
LEMMA TopNext ==
  ASSUME NEW f, NEW h, NEW m \in Market, NEW k \in 1..MaxObjects[m],
         k = Top(f, m) + 1, h[<<m, k>>].made,
         \A g \in 1..MaxObjects[m] : g # k => h[<<m, g>>].made = f[<<m, g>>].made
  PROVE  Top(h, m) = k
<1>1. MaxObjects[m] \in Nat /\ Top(f, m) \in Nat /\ Top(h, m) \in 0..MaxObjects[m]
  <2>1. MaxObjects[m] \in Nat
    BY MarketAssumption
  <2>2. Top(f, m) \in 0..MaxObjects[m] /\ Top(h, m) \in 0..MaxObjects[m]
    BY TopIs
  <2> QED
    BY <2>1, <2>2
<1>2. k <= Top(h, m)
  BY TopIs
<1>3. Top(h, m) # 0 /\ h[<<m, Top(h, m)>>].made
  BY <1>1, <1>2, TopIs
<1>4. ASSUME Top(h, m) # k PROVE FALSE
  <2>1. Top(h, m) \in 1..MaxObjects[m]
    BY <1>1, <1>3
  <2>2. f[<<m, Top(h, m)>>].made
    BY <1>3, <1>4, <2>1
  <2>3. Top(h, m) <= Top(f, m)
    BY <2>1, <2>2, TopIs
  <2> QED
    BY <1>1, <1>2, <2>3
<1> QED
  BY <1>4

\* A finite set as a sequence
LEMMA SetToSeqIs ==
  ASSUME NEW S, IsFiniteSet(S), S # {}
  PROVE  SetToSeq(S) \in Seq(S) /\ SetToSeq(S) # <<>>
<1> DEFINE n == Cardinality(S)
<1>1. n \in Nat /\ ExistsBijection(1..n, S)
  BY FS_CardinalityType
<1>2. \E f \in [1..n -> S] : IsInjective(f)
  BY <1>1 DEF ExistsBijection, Bijection, Injection
<1>3. SetToSeq(S) \in [1..n -> S]
  BY <1>2 DEF SetToSeq
<1>4. n # 0
  BY FS_EmptySet
<1> HIDE DEF n
<1> QED
  BY <1>1, <1>3, <1>4

-----------------------------------------------------------------------------
(* Types *)

EventType == {"MARKET_BOOK", "CLOSE_MARKET", "CLEARED_ORDERS", "CLEARED_MARKETS"}
EventRecord ==
  [type : EventType, market : Market, status : {"OPEN", "CLOSED"}, records : SUBSET Bets]
ExchangeRecord ==
  [status : {"OPEN", "CLOSED"}, unseen : BOOLEAN, reopens : Nat, snaps : Nat, placed : Nat]
MarketRecord ==
  [closed : BOOLEAN, ordersCleared : BOOLEAN, marketCleared : BOOLEAN, expired : BOOLEAN,
   made : BOOLEAN, bets : SUBSET Bets, cleared : SUBSET Bets]

\* What an object may be: an expired one leaves room for the next.
Sound(x, r) ==
  /\ r \in MarketRecord
  /\ r.cleared \subseteq r.bets
  /\ r.closed => r.made
  /\ r.expired => x[2] < MaxObjects[x[1]]
  /\ ~r.made => r.bets = {}

ObjectOK == object \in [Object -> MarketRecord] /\ \A x \in Object : Sound(x, object[x])
ExchangeOK == exchange \in [Market -> ExchangeRecord]
QueueOK == queue \in Seq(EventRecord)
CurrentOK ==
  /\ current \in [Market -> Nat]
  /\ \A m \in Market : current[m] \in {0, Newest(m)}
  /\ \A m \in Market : current[m] = 0 => Newest(m) < MaxObjects[m]
WorkerOK ==
  /\ working \in Seq(Object)
  /\ \A i \in 1..Len(working) : object[working[i]].made
  /\ at \in {"idle", "orders", "ordersCleared", "market", "marketCleared"}
  /\ (at = "idle") = (working = <<>>)
  /\ from \in Nat /\ (from # 0 => at = "orders")
TypeInv == ObjectOK /\ ExchangeOK /\ QueueOK /\ CurrentOK /\ WorkerOK

\* Objects are named by a market id and a number.
LEMMA ObjectIs ==
  /\ \A m \in Market : \A g \in 1..MaxObjects[m] : <<m, g>> \in Object
  /\ \A x \in Object : x[1] \in Market /\ x[2] \in 1..MaxObjects[x[1]] /\ x = <<x[1], x[2]>>
BY DEF Object

LEMMA BetsAre ==
  ASSUME NEW m \in Market, NEW b \in Nat, 1 <= b, b <= MaxBets[m]
  PROVE  b \in Bets
<1>1. MaxBets[m] \in Nat /\ b \in 1..MaxBets[m]
  BY BoundAssumption
<1> QED
  BY <1>1 DEF Bets

\* The object a market id has is one that was made.
LEMMA CurrentIs ==
  ASSUME TypeInv, NEW m \in Market
  PROVE  /\ Newest(m) = Top(object, m) /\ Newest(m) \in 0..MaxObjects[m]
         /\ current[m] # 0 => /\ current[m] = Newest(m) /\ current[m] \in 1..MaxObjects[m]
                              /\ <<m, current[m]>> \in Object /\ It(m).made
                              /\ It(m) = object[<<m, current[m]>>]
<1>1. Newest(m) = Top(object, m) /\ MaxObjects[m] \in Nat
  BY MarketAssumption DEF Newest, Top
<1>2. Newest(m) \in 0..MaxObjects[m]
  BY <1>1, TopIs
<1>3. ASSUME current[m] # 0
      PROVE  current[m] = Newest(m) /\ current[m] \in 1..MaxObjects[m]
  BY <1>1, <1>2, <1>3 DEF TypeInv, CurrentOK
<1>4. current[m] # 0 => object[<<m, current[m]>>].made
  BY <1>1, <1>3, TopIs
<1> QED
  BY <1>1, <1>2, <1>3, <1>4, ObjectIs DEF It

\* The event the main thread handles
LEMMA HeadIs ==
  ASSUME TypeInv, queue # <<>>
  PROVE  /\ Head(queue) \in EventRecord /\ Head(queue).market \in Market
         /\ Head(queue).type \in EventType /\ Head(queue).records \in SUBSET Bets
         /\ Head(queue).status \in {"OPEN", "CLOSED"}
         /\ Tail(queue) \in Seq(EventRecord)
<1>1. queue \in Seq(EventRecord)
  BY DEF TypeInv, QueueOK
<1>2. Head(queue) \in EventRecord /\ Tail(queue) \in Seq(EventRecord)
  BY <1>1
<1> QED
  BY <1>2 DEF EventRecord

\* The market the worker is at
LEMMA WorkingIs ==
  ASSUME TypeInv, at # "idle"
  PROVE  /\ working # <<>> /\ Working \in Object /\ object[Working].made
         /\ Working = working[1] /\ Working[1] \in Market
         /\ Tail(working) \in Seq(Object)
         /\ \A i \in 1..Len(Tail(working)) : object[Tail(working)[i]].made
<1>1. working # <<>> /\ working \in Seq(Object) /\ Len(working) >= 1
  BY DEF TypeInv, WorkerOK
<1>2. Working = working[1] /\ 1 \in 1..Len(working)
  BY <1>1 DEF Working
<1>3. Working \in Object /\ object[Working].made
  BY <1>1, <1>2 DEF TypeInv, WorkerOK
<1>4. /\ Tail(working) \in Seq(Object) /\ Len(Tail(working)) = Len(working) - 1
      /\ \A i \in 1..Len(Tail(working)) : Tail(working)[i] = working[i + 1]
  BY <1>1
<1>5. \A i \in 1..Len(Tail(working)) : i + 1 \in 1..Len(working)
  BY <1>1, <1>4
<1>6. \A i \in 1..Len(working) : object[working[i]].made
  BY DEF TypeInv, WorkerOK
<1> QED
  BY <1>1, <1>2, <1>3, <1>4, <1>5, <1>6, ObjectIs

\* One object changes, and stays made.
Changes(x, r) ==
  /\ x \in Object /\ Sound(x, r)
  /\ object' = [object EXCEPT ![x] = r]

LEMMA ChangeSound ==
  ASSUME TypeInv, NEW x, NEW r, Changes(x, r)
  PROVE  /\ ObjectOK'
         /\ \A y \in Object : object'[y] = IF y = x THEN r ELSE object[y]
<1>1. object \in [Object -> MarketRecord] /\ \A y \in Object : Sound(y, object[y])
  BY DEF TypeInv, ObjectOK
<1>2. \A y \in Object : object'[y] = IF y = x THEN r ELSE object[y]
  BY <1>1 DEF Changes
<1>3. object' \in [Object -> MarketRecord]
  BY <1>1 DEF Changes, Sound
<1>4. \A y \in Object : Sound(y, object'[y])
  BY <1>1, <1>2 DEF Changes
<1> QED
  BY <1>2, <1>3, <1>4 DEF ObjectOK, Sound

\* The worker's markets stay made.
LEMMA WorkerSame ==
  ASSUME TypeInv, UNCHANGED workerVars,
         \A y \in Object : object[y].made => object'[y].made
  PROVE  WorkerOK'
<1>1. working' = working /\ at' = at /\ from' = from /\ working \in Seq(Object)
  BY DEF workerVars, TypeInv, WorkerOK
<1>2. \A i \in 1..Len(working) : working[i] \in Object
  BY <1>1
<1>3. \A i \in 1..Len(working) : object'[working[i]].made
  BY <1>2 DEF TypeInv, WorkerOK
<1> QED
  BY <1>1, <1>3 DEF TypeInv, WorkerOK

\* Which object a market has does not change while the same are made.
LEMMA MadeSame ==
  ASSUME TypeInv, \A y \in Object : object'[y].made = object[y].made
  PROVE  /\ \A m \in Market : Newest(m)' = Newest(m)
         /\ UNCHANGED current => CurrentOK'
<1>1. ASSUME NEW m \in Market
      PROVE  Newest(m)' = Newest(m)
  <2>1. \A g \in 1..MaxObjects[m] : object'[<<m, g>>].made = object[<<m, g>>].made
    BY ObjectIs
  <2>2. Top(object', m) = Top(object, m)
    BY <2>1, TopSame
  <2> QED
    BY <2>2 DEF Newest, Top
<1>2. ASSUME UNCHANGED current PROVE CurrentOK'
  BY <1>1, <1>2 DEF TypeInv, CurrentOK
<1> QED
  BY <1>1, <1>2

LEMMA MainSame ==
  ASSUME TypeInv, UNCHANGED mainVars
  PROVE  /\ ObjectOK' /\ CurrentOK'
         /\ UNCHANGED workerVars => WorkerOK'
<1>1. object' = object /\ current' = current
  BY DEF mainVars
<1>2. ObjectOK'
  BY <1>1 DEF TypeInv, ObjectOK, Sound
<1> QED
  BY <1>1, <1>2, MadeSame, WorkerSame

-----------------------------------------------------------------------------
(* Type correctness, action by action *)

\* What changes of a market at the exchange
LEMMA ChangeStatusIs ==
  ASSUME TypeInv, NEW m \in Market, ChangeStatus(m)
  PROVE  /\ exchange' \in [Market -> ExchangeRecord]
         /\ \A n \in Market : exchange'[n].placed = exchange[n].placed
         /\ \A n \in Market \ {m} : exchange'[n] = exchange[n]
         /\ IF exchange[m].status = "OPEN"
            THEN exchange'[m].status = "CLOSED" /\ exchange'[m].reopens = exchange[m].reopens
            ELSE exchange'[m].status = "OPEN" /\ exchange'[m].reopens = exchange[m].reopens + 1
<1>1. exchange \in [Market -> ExchangeRecord] /\ exchange[m] \in ExchangeRecord
  BY DEF TypeInv, ExchangeOK
<1>2. PICK s, k : /\ s = IF exchange[m].status = "OPEN" THEN "CLOSED" ELSE "OPEN"
                  /\ k = IF exchange[m].status = "CLOSED" THEN exchange[m].reopens + 1
                         ELSE exchange[m].reopens
  OBVIOUS
<1>3. exchange[m].status \in {"OPEN", "CLOSED"} /\ s \in {"OPEN", "CLOSED"} /\ k \in Nat
  BY <1>1, <1>2 DEF ExchangeRecord
<1> DEFINE r == [[[exchange[m] EXCEPT !.status = s] EXCEPT !.reopens = k] EXCEPT !.unseen = TRUE]
<1>4. exchange' = [exchange EXCEPT ![m] = r]
  BY <1>1, <1>2 DEF ChangeStatus
<1>5. r \in ExchangeRecord /\ r.status = s /\ r.reopens = k /\ r.placed = exchange[m].placed
  BY <1>1, <1>3 DEF ExchangeRecord
<1> HIDE DEF r
<1>6. exchange' \in [Market -> ExchangeRecord] /\ exchange'[m] = r
      /\ \A n \in Market \ {m} : exchange'[n] = exchange[n]
  BY <1>1, <1>4, <1>5
<1> QED
  BY <1>2, <1>3, <1>5, <1>6

LEMMA PublishIs ==
  ASSUME TypeInv, NEW m \in Market, Publish(m)
  PROVE  /\ exchange' \in [Market -> ExchangeRecord]
         /\ \A n \in Market : /\ exchange'[n].placed = exchange[n].placed
                              /\ exchange'[n].status = exchange[n].status
                              /\ exchange'[n].reopens = exchange[n].reopens
<1>1. exchange \in [Market -> ExchangeRecord] /\ exchange[m] \in ExchangeRecord
  BY DEF TypeInv, ExchangeOK
<1>2. PICK k \in Nat : k = IF exchange[m].status = "OPEN" \/ exchange[m].unseen
                         THEN exchange[m].snaps ELSE exchange[m].snaps + 1
  BY <1>1 DEF ExchangeRecord
<1> DEFINE r == [[exchange[m] EXCEPT !.unseen = FALSE] EXCEPT !.snaps = k]
<1>3. exchange' = [exchange EXCEPT ![m] = r]
  BY <1>1, <1>2 DEF Publish
<1>4. /\ r \in ExchangeRecord /\ r.placed = exchange[m].placed
      /\ r.status = exchange[m].status /\ r.reopens = exchange[m].reopens
  BY <1>1 DEF ExchangeRecord
<1> HIDE DEF r
<1> QED
  BY <1>1, <1>3, <1>4

LEMMA ChangeStatusType ==
  ASSUME TypeInv, NEW m \in Market, ChangeStatus(m)
  PROVE  TypeInv'
<1>1. ExchangeOK'
  <2>1. exchange' \in [Market -> ExchangeRecord]
    BY ChangeStatusIs
  <2> QED
    BY <2>1 DEF ExchangeOK, ExchangeRecord
<1>2. QueueOK'
  BY DEF ChangeStatus, TypeInv, QueueOK
<1>3. UNCHANGED mainVars /\ UNCHANGED workerVars
  BY DEF ChangeStatus
<1> QED
  BY <1>1, <1>2, <1>3, MainSame DEF TypeInv

LEMMA PublishType ==
  ASSUME TypeInv, NEW m \in Market, Publish(m)
  PROVE  TypeInv'
<1>1. ExchangeOK'
  <2>1. exchange' \in [Market -> ExchangeRecord]
    BY PublishIs
  <2> QED
    BY <2>1 DEF ExchangeOK, ExchangeRecord
<1>2. QueueOK'
  <2>1. exchange[m].status \in {"OPEN", "CLOSED"}
    BY DEF TypeInv, ExchangeOK, ExchangeRecord
  <2>2. Book(m, exchange[m].status) \in EventRecord
    BY <2>1 DEF Book, EventRecord, EventType
  <2> QED
    BY <2>2 DEF Publish, TypeInv, QueueOK
<1>3. UNCHANGED mainVars /\ UNCHANGED workerVars
  BY DEF Publish
<1> QED
  BY <1>1, <1>2, <1>3, MainSame DEF TypeInv

\* What an event of the worker or of the main thread is
LEMMA EventIs ==
  ASSUME NEW type \in EventType, NEW m \in Market, NEW records \in SUBSET Bets
  PROVE  Event(type, m, records) \in EventRecord
BY DEF Event, EventRecord

\* The object a book is for, made or opened
BookFor(m) == IF current[m] = 0 THEN Newest(m) + 1 ELSE current[m]
MarketFor(m) ==
  IF current[m] = 0 THEN [NewMarket EXCEPT !.made = TRUE] ELSE Opened(It(m))

LEMMA MarketForIs ==
  ASSUME TypeInv, NEW m \in Market
  PROVE  /\ BookFor(m) \in 1..MaxObjects[m] /\ <<m, BookFor(m)>> \in Object
         /\ Sound(<<m, BookFor(m)>>, MarketFor(m)) /\ MarketFor(m).made
         /\ current[m] # 0 => /\ BookFor(m) = current[m]
                              /\ MarketFor(m).bets = It(m).bets
                              /\ MarketFor(m).cleared = It(m).cleared
                              /\ MarketFor(m).ordersCleared => It(m).ordersCleared
         /\ current[m] = 0 => /\ MarketFor(m).bets = {} /\ MarketFor(m).cleared = {}
                              /\ ~MarketFor(m).ordersCleared
                              /\ ~object[<<m, BookFor(m)>>].made
         /\ ~MarketFor(m).closed
<1>1. CASE current[m] = 0
  <2>1. Newest(m) = Top(object, m) /\ Newest(m) \in 0..MaxObjects[m] /\ Newest(m) < MaxObjects[m]
    BY <1>1, CurrentIs DEF TypeInv, CurrentOK
  <2>2. MaxObjects[m] \in Nat /\ BookFor(m) = Newest(m) + 1
    BY <1>1, MarketAssumption DEF BookFor
  <2>3. BookFor(m) \in 1..MaxObjects[m]
    BY <2>1, <2>2
  <2>4. ~object[<<m, BookFor(m)>>].made
    <3>1. object[<<m, BookFor(m)>>].made => BookFor(m) <= Top(object, m)
      BY <2>3, TopIs
    <3> QED
      BY <2>1, <2>2, <3>1
  <2>5. MarketFor(m) = [closed |-> FALSE, ordersCleared |-> FALSE, marketCleared |-> FALSE,
                        expired |-> FALSE, made |-> TRUE, bets |-> {}, cleared |-> {}]
    BY <1>1 DEF MarketFor, NewMarket
  <2>6. Sound(<<m, BookFor(m)>>, MarketFor(m))
    BY <2>5 DEF Sound, MarketRecord
  <2> QED
    BY <1>1, <2>3, <2>4, <2>5, <2>6, ObjectIs
<1>2. CASE current[m] # 0
  <2>1. /\ current[m] \in 1..MaxObjects[m] /\ <<m, current[m]>> \in Object
        /\ It(m).made /\ It(m) = object[<<m, current[m]>>]
    BY <1>2, CurrentIs
  <2>2. BookFor(m) = current[m] /\ MarketFor(m) = Opened(It(m))
    BY <1>2 DEF BookFor, MarketFor
  <2>3. Sound(<<m, current[m]>>, It(m))
    BY <2>1 DEF TypeInv, ObjectOK
  <2>4. /\ Opened(It(m)) \in MarketRecord
        /\ Opened(It(m)).bets = It(m).bets /\ Opened(It(m)).cleared = It(m).cleared
        /\ Opened(It(m)).made = It(m).made /\ Opened(It(m)).expired = It(m).expired
        /\ Opened(It(m)).ordersCleared => It(m).ordersCleared
        /\ ~Opened(It(m)).closed
    BY <2>3 DEF Sound, Opened, MarketRecord
  <2>5. Sound(<<m, current[m]>>, Opened(It(m)))
    BY <2>1, <2>3, <2>4 DEF Sound
  <2> QED
    BY <1>2, <2>1, <2>2, <2>4, <2>5
<1> QED
  BY <1>1, <1>2

\* What ProcessMarketBook does, in these terms
LEMMA BookStep ==
  ASSUME TypeInv, ProcessMarketBook
  PROVE  LET m == Head(queue).market IN
         /\ queue # <<>> /\ m \in Market /\ Head(queue).type = "MARKET_BOOK"
         /\ current' = [current EXCEPT ![m] = BookFor(m)]
         /\ \/ /\ Head(queue).status = "CLOSED"
               /\ queue' = Append(Tail(queue), Event("CLOSE_MARKET", m, {}))
               /\ object' = [object EXCEPT ![<<m, BookFor(m)>>] = MarketFor(m)]
               /\ UNCHANGED exchange
            \/ /\ Head(queue).status = "OPEN"
               /\ queue' = Tail(queue)
               /\ object' = [object EXCEPT ![<<m, BookFor(m)>>] = MarketFor(m)]
               /\ UNCHANGED exchange
            \/ /\ Head(queue).status = "OPEN"
               /\ queue' = Tail(queue)
               /\ exchange[m].status = "OPEN" /\ exchange[m].placed + 1 <= MaxBets[m]
               /\ exchange' = [exchange EXCEPT ![m].placed = exchange[m].placed + 1]
               /\ object' = [object EXCEPT ![<<m, BookFor(m)>>] =
                               [MarketFor(m) EXCEPT !.bets = @ \cup {exchange[m].placed + 1}]]
         /\ UNCHANGED workerVars
<1> DEFINE m == Head(queue).market
<1>1. queue # <<>> /\ Head(queue).type = "MARKET_BOOK" /\ m \in Market
  BY HeadIs DEF ProcessMarketBook, Handling
<1>2. BookFor(m) = IF current[m] = 0 THEN Newest(m) + 1 ELSE current[m]
  BY DEF BookFor
<1>3. MarketFor(m) = IF current[m] = 0 THEN [NewMarket EXCEPT !.made = TRUE] ELSE Opened(It(m))
  BY DEF MarketFor
<1> QED
  BY <1>1, <1>2, <1>3 DEF ProcessMarketBook

LEMMA BookType ==
  ASSUME TypeInv, ProcessMarketBook
  PROVE  TypeInv'
<1>0. PICK m \in Market : m = Head(queue).market
  BY BookStep
<1>11. PICK g : g = BookFor(m)
  OBVIOUS
<1>12. PICK b : b = exchange[m].placed + 1
  OBVIOUS
<1>1. /\ queue # <<>> /\ UNCHANGED workerVars
      /\ current' = [current EXCEPT ![m] = g]
  BY <1>0, <1>11, BookStep
<1>2. PICK r : /\ object' = [object EXCEPT ![<<m, g>>] = r]
               /\ \/ r = MarketFor(m)
                  \/ /\ r = [MarketFor(m) EXCEPT !.bets = @ \cup {b}]
                     /\ b <= MaxBets[m]
  BY <1>0, <1>11, <1>12, BookStep
<1>3. /\ g \in 1..MaxObjects[m] /\ <<m, g>> \in Object
      /\ Sound(<<m, g>>, MarketFor(m)) /\ MarketFor(m).made
  BY <1>11, MarketForIs
<1>4. exchange[m] \in ExchangeRecord /\ exchange[m].placed \in Nat
  BY <1>1 DEF TypeInv, ExchangeOK, ExchangeRecord
<1>5. Sound(<<m, g>>, r) /\ r.made
  <2>1. CASE r = MarketFor(m)
    BY <1>3, <2>1
  <2>2. CASE r = [MarketFor(m) EXCEPT !.bets = @ \cup {b}] /\ b <= MaxBets[m]
    <3>1. b \in Bets
      BY <1>4, <1>12, <2>2, BetsAre
    <3>2. MarketFor(m) \in MarketRecord
      BY <1>3 DEF Sound
    <3>3. /\ r \in MarketRecord /\ r.bets = MarketFor(m).bets \cup {b}
          /\ r.cleared = MarketFor(m).cleared /\ r.made = MarketFor(m).made
          /\ r.closed = MarketFor(m).closed /\ r.expired = MarketFor(m).expired
      BY <2>2, <3>1, <3>2 DEF MarketRecord
    <3> QED
      BY <1>3, <3>3 DEF Sound
  <2> QED
    BY <1>2, <2>1, <2>2
<1>6. Changes(<<m, g>>, r)
  BY <1>2, <1>3, <1>5 DEF Changes
<1>7. ObjectOK' /\ \A y \in Object : object'[y] = IF y = <<m, g>> THEN r ELSE object[y]
  BY <1>6, ChangeSound
<1>8. WorkerOK'
  BY <1>1, <1>5, <1>7, WorkerSame
<1>9. CurrentOK'
  <2>1. current \in [Market -> Nat] /\ g \in Nat
    BY <1>3 DEF TypeInv, CurrentOK
  <2>2. current' \in [Market -> Nat] /\ current'[m] = g
        /\ \A n \in Market \ {m} : current'[n] = current[n]
    BY <1>1, <2>1
  <2>3. ASSUME NEW n \in Market, n # m
        PROVE  Newest(n)' = Newest(n)
    <3>1. \A h \in 1..MaxObjects[n] : <<n, h>> \in Object /\ <<n, h>> # <<m, g>>
      BY <2>3, ObjectIs
    <3>2. \A h \in 1..MaxObjects[n] : object'[<<n, h>>].made = object[<<n, h>>].made
      BY <1>7, <3>1
    <3>3. Top(object', n) = Top(object, n)
      BY <3>2, TopSame
    <3> QED
      BY <3>3 DEF Newest, Top
  <2>4. Newest(m)' = g
    <3>1. \A h \in 1..MaxObjects[m] : h # g => object'[<<m, h>>].made = object[<<m, h>>].made
      <4>1. \A h \in 1..MaxObjects[m] : <<m, h>> \in Object /\ (h # g => <<m, h>> # <<m, g>>)
        BY <1>1, ObjectIs
      <4> QED
        BY <1>7, <4>1
    <3>2. object'[<<m, g>>].made
      BY <1>3, <1>5, <1>7
    <3>3. CASE current[m] = 0
      <4>1. g = Top(object, m) + 1
        BY <1>11, <3>3, CurrentIs DEF BookFor
      <4>2. Top(object', m) = g
        BY <1>1, <1>3, <3>1, <3>2, <4>1, TopNext
      <4> QED
        BY <4>2 DEF Newest, Top
    <3>4. CASE current[m] # 0
      <4>1. g = current[m] /\ g = Top(object, m) /\ It(m).made /\ It(m) = object[<<m, g>>]
        BY <1>11, <3>4, CurrentIs DEF BookFor
      <4>2. object'[<<m, g>>].made = object[<<m, g>>].made
        <5>1. object[<<m, g>>].made \in BOOLEAN /\ object'[<<m, g>>].made \in BOOLEAN
          BY <1>3, <1>5, <1>7 DEF TypeInv, ObjectOK, Sound, MarketRecord
        <5> QED
          BY <3>2, <4>1, <5>1
      <4>3. Top(object', m) = Top(object, m)
        BY <1>1, <3>1, <4>2, TopSame
      <4> QED
        BY <4>1, <4>3 DEF Newest, Top
    <3> QED
      BY <3>3, <3>4
  <2>5. \A n \in Market : current'[n] \in {0, Newest(n)'} /\ (current'[n] = 0 => Newest(n)' < MaxObjects[n])
    <3>1. ASSUME NEW n \in Market, n # m
          PROVE  current'[n] \in {0, Newest(n)'} /\ (current'[n] = 0 => Newest(n)' < MaxObjects[n])
      BY <2>2, <2>3, <3>1 DEF TypeInv, CurrentOK
    <3>2. current'[m] = Newest(m)' /\ current'[m] # 0
      BY <1>3, <2>2, <2>4
    <3> QED
      BY <3>1, <3>2
  <2> QED
    BY <2>2, <2>5 DEF CurrentOK
<1>10. ExchangeOK' /\ QueueOK'
  <2>1. Tail(queue) \in Seq(EventRecord) /\ Event("CLOSE_MARKET", m, {}) \in EventRecord
    BY <1>1, HeadIs, EventIs DEF EventType
  <2>2. queue' \in {Tail(queue), Append(Tail(queue), Event("CLOSE_MARKET", m, {}))}
    BY <1>0, BookStep
  <2>3. queue' \in Seq(EventRecord)
    BY <2>1, <2>2
  <2>4. exchange' = exchange \/ exchange' = [exchange EXCEPT ![m].placed = b]
    BY <1>0, <1>12, BookStep
  <2>5. exchange' \in [Market -> ExchangeRecord]
    BY <1>4, <1>12, <2>4 DEF TypeInv, ExchangeOK, ExchangeRecord
  <2> QED
    BY <2>3, <2>5 DEF ExchangeOK, QueueOK, ExchangeRecord, EventRecord
<1> QED
  BY <1>7, <1>8, <1>9, <1>10 DEF TypeInv

\* What closing an object, settling it or setting a flag of it makes of it
LEMMA ObjectChanges ==
  ASSUME TypeInv, NEW x \in Object
  PROVE  /\ Sound(x, Closed(object[x])) \/ ~object[x].made
         /\ Closed(object[x]).made = object[x].made
         /\ Closed(object[x]).bets = object[x].bets
         /\ Closed(object[x]).cleared = object[x].cleared
         /\ Closed(object[x]).ordersCleared = object[x].ordersCleared
         /\ Closed(object[x]).expired => object[x].expired
<1> DEFINE r == object[x]
<1>1. Sound(x, r) /\ r \in MarketRecord
  BY DEF TypeInv, ObjectOK, Sound
<1> HIDE DEF r
<1>2. /\ Closed(r) \in MarketRecord /\ Closed(r).made = r.made /\ Closed(r).bets = r.bets
      /\ Closed(r).cleared = r.cleared /\ Closed(r).ordersCleared = r.ordersCleared
      /\ Closed(r).expired => r.expired
  BY <1>1 DEF Closed, MarketRecord
<1>3. Sound(x, Closed(r)) \/ ~r.made
  BY <1>1, <1>2 DEF Sound
<1> QED
  BY <1>2, <1>3 DEF r

\* What ProcessCloseMarket does to the market of the event and to those it removes
LEMMA CloseStep ==
  ASSUME TypeInv, ProcessCloseMarket, NEW m \in Market, m = Head(queue).market
  PROVE  /\ queue # <<>> /\ Head(queue).type = "CLOSE_MARKET" /\ queue' = Tail(queue)
         /\ UNCHANGED <<exchange, workerVars, faults>>
         /\ \/ UNCHANGED mainVars
            \/ /\ current[m] # 0
               /\ object' = [object EXCEPT ![<<m, current[m]>>] = Closed(It(m))]
               /\ current' \in [Market -> Nat]
               /\ \A n \in Market : \/ current'[n] = current[n]
                                    \/ /\ current'[n] = 0 /\ current[n] # 0
                                       /\ object'[<<n, current[n]>>].expired
<1>1. queue # <<>> /\ Head(queue).type = "CLOSE_MARKET" /\ queue' = Tail(queue)
      /\ UNCHANGED <<exchange, workerVars, faults>>
  BY DEF ProcessCloseMarket, Handling
<1>2. CASE current[m] = 0
  BY <1>1, <1>2 DEF ProcessCloseMarket
<1>3. CASE current[m] # 0
  <2>1. object' = [object EXCEPT ![<<m, current[m]>>] = Closed(@)]
    BY <1>3 DEF ProcessCloseMarket
  <2>2. <<m, current[m]>> \in Object /\ It(m) = object[<<m, current[m]>>]
    BY <1>3, CurrentIs
  <2>3. object' = [object EXCEPT ![<<m, current[m]>>] = Closed(It(m))]
    BY <2>1, <2>2 DEF TypeInv, ObjectOK
  <2>4. current' = [n \in Market |->
                      IF /\ current[n] # 0
                         /\ object'[<<n, current[n]>>].closed
                         /\ object'[<<n, current[n]>>].expired
                      THEN 0 ELSE current[n]]
    BY <1>3 DEF ProcessCloseMarket
  <2>5. current \in [Market -> Nat]
    BY DEF TypeInv, CurrentOK
  <2> QED
    BY <1>1, <1>3, <2>3, <2>4, <2>5
<1> QED
  BY <1>2, <1>3

LEMMA CloseType ==
  ASSUME TypeInv, ProcessCloseMarket
  PROVE  TypeInv'
<1>1. PICK m \in Market : m = Head(queue).market
  BY HeadIs DEF ProcessCloseMarket, Handling
<1>2. /\ queue # <<>> /\ queue' = Tail(queue) /\ UNCHANGED <<exchange, workerVars>>
  BY <1>1, CloseStep
<1>3. ExchangeOK' /\ QueueOK'
  BY <1>2, HeadIs DEF TypeInv, ExchangeOK, QueueOK
<1>4. CASE UNCHANGED mainVars
  BY <1>2, <1>3, <1>4, MainSame DEF TypeInv
<1>5. ASSUME /\ current[m] # 0
             /\ object' = [object EXCEPT ![<<m, current[m]>>] = Closed(It(m))]
             /\ current' \in [Market -> Nat]
             /\ \A n \in Market : \/ current'[n] = current[n]
                                  \/ /\ current'[n] = 0 /\ current[n] # 0
                                     /\ object'[<<n, current[n]>>].expired
      PROVE  TypeInv'
  <2>1. PICK x \in Object : x = <<m, current[m]>> /\ It(m) = object[x] /\ object[x].made
    BY <1>5, CurrentIs
  <2>2. PICK r : r = Closed(object[x])
    OBVIOUS
  <2>3. Sound(x, r) /\ r.made = object[x].made
    BY <2>1, <2>2, ObjectChanges
  <2>4. Changes(x, r)
    BY <1>5, <2>1, <2>2, <2>3 DEF Changes
  <2>5. ObjectOK' /\ \A y \in Object : object'[y] = IF y = x THEN r ELSE object[y]
    BY <2>4, ChangeSound
  <2>6. \A y \in Object : object'[y].made = object[y].made
    BY <2>3, <2>5
  <2>7. WorkerOK' /\ \A n \in Market : Newest(n)' = Newest(n)
    BY <1>2, <2>6, WorkerSame, MadeSame
  <2>8. ASSUME NEW n \in Market
        PROVE  current'[n] \in {0, Newest(n)'} /\ (current'[n] = 0 => Newest(n)' < MaxObjects[n])
    <3>1. CASE current'[n] = current[n]
      BY <2>7, <3>1 DEF TypeInv, CurrentOK
    <3>2. CASE current'[n] = 0 /\ current[n] # 0 /\ object'[<<n, current[n]>>].expired
      <4>1. current[n] = Newest(n) /\ <<n, current[n]>> \in Object
        BY <3>2, CurrentIs
      <4>2. Sound(<<n, current[n]>>, object'[<<n, current[n]>>])
        BY <2>3, <2>5, <4>1 DEF TypeInv, ObjectOK
      <4>3. current[n] < MaxObjects[n]
        BY <3>2, <4>2 DEF Sound
      <4> QED
        BY <2>7, <3>2, <4>1, <4>3
    <3> QED
      BY <1>5, <3>1, <3>2
  <2>9. CurrentOK'
    BY <1>5, <2>8 DEF CurrentOK
  <2> QED
    BY <1>3, <2>5, <2>7, <2>9 DEF TypeInv
<1> QED
  BY <1>1, <1>4, <1>5, CloseStep

\* What ProcessClearedOrders makes of an object
LEMMA ClearedStep ==
  ASSUME TypeInv, ProcessClearedOrders, NEW m \in Market, m = Head(queue).market
  PROVE  /\ queue # <<>> /\ Head(queue).type = "CLEARED_ORDERS" /\ queue' = Tail(queue)
         /\ UNCHANGED <<exchange, current, workerVars, faults>>
         /\ \/ current[m] = 0 /\ object' = object
            \/ /\ current[m] # 0
               /\ object' = [object EXCEPT ![<<m, current[m]>>] =
                     [It(m) EXCEPT !.cleared = @ \cup (It(m).bets \cap Head(queue).records)]]
<1>1. /\ queue # <<>> /\ Head(queue).type = "CLEARED_ORDERS" /\ queue' = Tail(queue)
      /\ UNCHANGED <<exchange, current, workerVars, faults>>
  BY DEF ProcessClearedOrders, Handling
<1>2. ASSUME current[m] # 0
      PROVE  object' = [object EXCEPT ![<<m, current[m]>>] =
                     [It(m) EXCEPT !.cleared = @ \cup (It(m).bets \cap Head(queue).records)]]
  <2>1. <<m, current[m]>> \in Object /\ It(m) = object[<<m, current[m]>>]
    BY <1>2, CurrentIs
  <2>2. object' = [object EXCEPT ![<<m, current[m]>>].cleared =
                    @ \cup (It(m).bets \cap Head(queue).records)]
    BY <1>2 DEF ProcessClearedOrders, InBlotter
  <2> QED
    BY <2>1, <2>2 DEF TypeInv, ObjectOK
<1>3. current[m] = 0 => object' = object
  BY DEF ProcessClearedOrders
<1> QED
  BY <1>1, <1>2, <1>3

\* An object whose bets and whose being made stay is sound with what is cleared of them.
LEMMA SoundWith ==
  ASSUME NEW x, NEW r, Sound(x, r), NEW s \in SUBSET Bets
  PROVE  /\ Sound(x, [r EXCEPT !.cleared = @ \cup (r.bets \cap s)])
         /\ [r EXCEPT !.cleared = @ \cup (r.bets \cap s)].made = r.made
         /\ [r EXCEPT !.cleared = @ \cup (r.bets \cap s)].bets = r.bets
         /\ [r EXCEPT !.cleared = @ \cup (r.bets \cap s)].cleared = r.cleared \cup (r.bets \cap s)
         /\ [r EXCEPT !.cleared = @ \cup (r.bets \cap s)].ordersCleared = r.ordersCleared
         /\ [r EXCEPT !.cleared = @ \cup (r.bets \cap s)].closed = r.closed
<1> DEFINE c == [r EXCEPT !.cleared = @ \cup (r.bets \cap s)]
<1>1. r \in MarketRecord
  BY DEF Sound
<1>2. /\ c \in MarketRecord /\ c.cleared = r.cleared \cup (r.bets \cap s) /\ c.bets = r.bets
      /\ c.made = r.made /\ c.closed = r.closed /\ c.expired = r.expired
      /\ c.ordersCleared = r.ordersCleared
  BY <1>1 DEF MarketRecord
<1> HIDE DEF c
<1>3. Sound(x, c)
  BY <1>2 DEF Sound
<1> QED
  BY <1>2, <1>3 DEF c

LEMMA ClearedType ==
  ASSUME TypeInv, ProcessClearedOrders
  PROVE  TypeInv'
<1>1. PICK m \in Market : m = Head(queue).market
  BY HeadIs DEF ProcessClearedOrders, Handling
<1>2. /\ queue # <<>> /\ queue' = Tail(queue) /\ UNCHANGED <<exchange, current, workerVars>>
  BY <1>1, ClearedStep
<1>3. ExchangeOK' /\ QueueOK' /\ Head(queue).records \in SUBSET Bets
  BY <1>2, HeadIs DEF TypeInv, ExchangeOK, QueueOK
<1>4. CASE object' = object
  BY <1>2, <1>3, <1>4, MainSame DEF TypeInv, mainVars
<1>5. CASE current[m] # 0
  <2>1. PICK x \in Object : x = <<m, current[m]>> /\ It(m) = object[x] /\ object[x].made
    BY <1>5, CurrentIs
  <2>2. PICK r : r = [object[x] EXCEPT !.cleared = @ \cup (object[x].bets \cap Head(queue).records)]
    OBVIOUS
  <2>3. Sound(x, object[x])
    BY DEF TypeInv, ObjectOK
  <2>4. Sound(x, r) /\ r.made = object[x].made
    BY <1>3, <2>2, <2>3, SoundWith
  <2>5. Changes(x, r)
    BY <1>1, <1>5, <2>1, <2>2, <2>4, ClearedStep DEF Changes
  <2>6. ObjectOK' /\ \A y \in Object : object'[y] = IF y = x THEN r ELSE object[y]
    BY <2>5, ChangeSound
  <2>7. \A y \in Object : object'[y].made = object[y].made
    BY <2>4, <2>6
  <2> QED
    BY <1>2, <1>3, <2>6, <2>7, WorkerSame, MadeSame DEF TypeInv
<1> QED
  BY <1>1, <1>4, <1>5, ClearedStep

LEMMA ClearedMarketsType ==
  ASSUME TypeInv, ProcessClearedMarkets
  PROVE  TypeInv'
<1>1. queue # <<>> /\ queue' = Tail(queue) /\ UNCHANGED <<exchange, mainVars, workerVars>>
  BY DEF ProcessClearedMarkets, Handling
<1> QED
  BY <1>1, HeadIs, MainSame DEF TypeInv, ExchangeOK, QueueOK

\* A flag of an object is set.
LEMMA FlagSet ==
  ASSUME TypeInv, NEW x \in Object, NEW r,
         \/ r = [object[x] EXCEPT !.expired = TRUE] /\ x[2] < MaxObjects[x[1]]
         \/ r = [object[x] EXCEPT !.ordersCleared = TRUE]
         \/ r = [object[x] EXCEPT !.marketCleared = TRUE]
  PROVE  /\ Sound(x, r) /\ r.made = object[x].made
         /\ r.bets = object[x].bets /\ r.cleared = object[x].cleared /\ r.closed = object[x].closed
         /\ r.ordersCleared = object[x].ordersCleared
            \/ r = [object[x] EXCEPT !.ordersCleared = TRUE]
<1> DEFINE o == object[x]
<1>1. Sound(x, o) /\ o \in MarketRecord
  BY DEF TypeInv, ObjectOK, Sound
<1> HIDE DEF o
<1>2. CASE r = [o EXCEPT !.expired = TRUE] /\ x[2] < MaxObjects[x[1]]
  <2>1. /\ r \in MarketRecord /\ r.made = o.made /\ r.bets = o.bets /\ r.cleared = o.cleared
        /\ r.closed = o.closed /\ r.ordersCleared = o.ordersCleared
    BY <1>1, <1>2 DEF MarketRecord
  <2> QED
    BY <1>1, <1>2, <2>1 DEF Sound, o
<1>3. CASE r = [o EXCEPT !.ordersCleared = TRUE]
  <2>1. /\ r \in MarketRecord /\ r.made = o.made /\ r.bets = o.bets /\ r.cleared = o.cleared
        /\ r.closed = o.closed /\ r.expired = o.expired
    BY <1>1, <1>3 DEF MarketRecord
  <2> QED
    BY <1>1, <1>3, <2>1 DEF Sound, o
<1>4. CASE r = [o EXCEPT !.marketCleared = TRUE]
  <2>1. /\ r \in MarketRecord /\ r.made = o.made /\ r.bets = o.bets /\ r.cleared = o.cleared
        /\ r.closed = o.closed /\ r.expired = o.expired /\ r.ordersCleared = o.ordersCleared
    BY <1>1, <1>4 DEF MarketRecord
  <2> QED
    BY <1>1, <1>4, <2>1 DEF Sound, o
<1> QED
  BY <1>2, <1>3, <1>4 DEF o

LEMMA ExpireType ==
  ASSUME TypeInv, NEW m \in Market, Expire(m)
  PROVE  TypeInv'
<1>1. /\ current[m] # 0 /\ current[m] < MaxObjects[m]
      /\ UNCHANGED <<exchange, queue, current, workerVars, faults>>
  <2>1. MaxObjects[m] \in Nat
    BY MarketAssumption
  <2> QED
    BY <2>1 DEF Expire
<1>2. PICK x \in Object : x = <<m, current[m]>> /\ object[x].made
  BY <1>1, CurrentIs
<1>3. PICK r : r = [object[x] EXCEPT !.expired = TRUE]
  OBVIOUS
<1>4. Sound(x, r) /\ r.made = object[x].made
  BY <1>1, <1>2, <1>3, FlagSet
<1>5. object' = [object EXCEPT ![x] = r]
  BY <1>2, <1>3 DEF Expire, TypeInv, ObjectOK
<1>6. ObjectOK' /\ \A y \in Object : object'[y] = IF y = x THEN r ELSE object[y]
  <2>1. Changes(x, r)
    BY <1>4, <1>5 DEF Changes
  <2> QED
    BY <2>1, ChangeSound
<1>7. \A y \in Object : object'[y].made = object[y].made
  BY <1>4, <1>6
<1>8. WorkerOK' /\ CurrentOK'
  BY <1>1, <1>7, WorkerSame, MadeSame
<1> QED
  BY <1>1, <1>6, <1>8 DEF TypeInv, ExchangeOK, QueueOK

\* The markets a poll finds are a finite set of objects that were made.
LEMMA PollStep ==
  ASSUME TypeInv, Poll
  PROVE  /\ working' \in Seq(Object) /\ working' # <<>>
         /\ \A i \in 1..Len(working') : /\ working'[i][1] \in Market
                                        /\ current[working'[i][1]] # 0
                                        /\ It(working'[i][1]).closed
                                        /\ object[working'[i]].made
<1> DEFINE found == {m \in Market : current[m] # 0 /\ Uncleared(<<m, current[m]>>)}
           S == {<<m, current[m]>> : m \in found}
<1>1. working' = SetToSeq(S) /\ S # {}
  BY DEF Poll
<1>2. IsFiniteSet(S)
  <2>1. IsFiniteSet(found)
    BY FS_Subset, MarketAssumption
  <2> DEFINE f == [m \in found |-> <<m, current[m]>>]
  <2>2. f \in Surjection(found, S)
    BY DEF Surjection
  <2> HIDE DEF found, S, f
  <2> QED
    BY <2>1, <2>2, FS_Surjection
<1>3. \A x \in S : /\ x \in Object /\ x[1] \in Market /\ current[x[1]] # 0
                   /\ It(x[1]).closed /\ object[x].made
  <2>1. ASSUME NEW x \in S
        PROVE  /\ x \in Object /\ x[1] \in Market /\ current[x[1]] # 0
               /\ It(x[1]).closed /\ object[x].made
    <3>1. PICK m \in found : x = <<m, current[m]>>
      BY <2>1
    <3>2. m \in Market /\ current[m] # 0 /\ object[<<m, current[m]>>].closed
      BY DEF Uncleared
    <3>3. <<m, current[m]>> \in Object /\ It(m).closed /\ object[<<m, current[m]>>].made
      BY <3>2, CurrentIs DEF It
    <3>4. x[1] = m
      BY <3>1
    <3> QED
      BY <3>1, <3>2, <3>3, <3>4
  <2> QED
    BY <2>1
<1> HIDE DEF S
<1>4. working' \in Seq(S) /\ working' # <<>>
  BY <1>1, <1>2, SetToSeqIs
<1>5. \A i \in 1..Len(working') : working'[i] \in S
  BY <1>4
<1>6. working' \in Seq(Object)
  BY <1>3, <1>4
<1> QED
  BY <1>3, <1>4, <1>5, <1>6

LEMMA PollType ==
  ASSUME TypeInv, Poll
  PROVE  TypeInv'
<1>1. at' = "orders" /\ from' = 0 /\ UNCHANGED <<exchange, queue, mainVars>>
  BY DEF Poll
<1>2. object' = object /\ ObjectOK' /\ CurrentOK'
  BY <1>1, MainSame DEF mainVars
<1>3. WorkerOK'
  BY <1>1, <1>2, PollStep DEF WorkerOK
<1> QED
  BY <1>1, <1>2, <1>3 DEF TypeInv, ExchangeOK, QueueOK

\* The worker stays at its market, or goes to the next.
LEMMA WorkerGoes ==
  ASSUME TypeInv, at # "idle", \A y \in Object : object[y].made => object'[y].made,
         from' \in Nat, from' # 0 => at' = "orders",
         \/ /\ working' = working
            /\ at' \in {"orders", "ordersCleared", "market", "marketCleared"}
         \/ NextMarket
  PROVE  WorkerOK'
<1>1. CASE working' = working /\ at' \in {"orders", "ordersCleared", "market", "marketCleared"}
  <2>1. \A i \in 1..Len(working) : working[i] \in Object /\ object[working[i]].made
    BY DEF TypeInv, WorkerOK
  <2> QED
    BY <1>1, <2>1, WorkingIs DEF TypeInv, WorkerOK
<1>2. CASE NextMarket
  <2>1. working' = Tail(working) /\ at' = IF Len(working) = 1 THEN "idle" ELSE "orders"
    BY <1>2 DEF NextMarket
  <2>2. working' \in Seq(Object) /\ \A i \in 1..Len(working') : object[working'[i]].made
    BY <2>1, WorkingIs
  <2>3. \A i \in 1..Len(working') : object'[working'[i]].made
    BY <2>2
  <2>4. (Len(working) = 1) = (working' = <<>>)
    <3>1. working \in Seq(Object) /\ working # <<>>
      BY WorkingIs DEF TypeInv, WorkerOK
    <3>2. Len(Tail(working)) = Len(working) - 1 /\ Len(working) \in Nat
      BY <3>1
    <3>3. Tail(working) \in Seq(Object)
      BY <3>1
    <3>4. Tail(working) = <<>> <=> Len(Tail(working)) = 0
      BY <3>3, EmptySeq
    <3> QED
      BY <2>1, <3>2, <3>4
  <2> QED
    BY <2>1, <2>2, <2>3, <2>4 DEF WorkerOK
<1> QED
  BY <1>1, <1>2

\* The requests of the worker
LEMMA RequestType ==
  ASSUME TypeInv, SkipOrders \/ GetClearedOrders \/ FailOrders \/ GetClearedMarket \/ PassMarket
  PROVE  TypeInv'
<1>1. at # "idle" /\ UNCHANGED <<exchange, mainVars>>
  BY DEF SkipOrders, GetClearedOrders, FailOrders, GetClearedMarket, PassMarket
<1>2. object' = object /\ ObjectOK' /\ CurrentOK' /\ ExchangeOK'
  BY <1>1, MainSame DEF mainVars, TypeInv, ExchangeOK
<1>3. from' \in Nat /\ (from' # 0 => at' = "orders")
  <2>1. from \in Nat /\ PageSize \in Nat /\ (from # 0 => at = "orders")
    BY BoundAssumption DEF TypeInv, WorkerOK
  <2>2. CASE GetClearedOrders
    BY <2>1, <2>2 DEF GetClearedOrders, Goto
  <2>3. CASE SkipOrders \/ FailOrders \/ GetClearedMarket \/ PassMarket
    BY <2>1, <2>3 DEF SkipOrders, FailOrders, GetClearedMarket, PassMarket, Goto
  <2> QED
    BY <2>2, <2>3
<1>4. \/ /\ working' = working
         /\ at' \in {"orders", "ordersCleared", "market", "marketCleared"}
      \/ NextMarket
  BY DEF SkipOrders, GetClearedOrders, FailOrders, GetClearedMarket, PassMarket, Goto
<1>5. WorkerOK'
  BY <1>1, <1>2, <1>3, <1>4, WorkerGoes
<1>6. QueueOK'
  <2>1. queue \in Seq(EventRecord) /\ Working[1] \in Market
    BY <1>1, WorkingIs DEF TypeInv, QueueOK
  <2>2. queue' = queue \/ \E e \in EventRecord : queue' = Append(queue, e)
    <3>1. CASE GetClearedOrders
      BY <2>1, <3>1, EventIs DEF GetClearedOrders, EventType
    <3>2. CASE GetClearedMarket
      BY <2>1, <3>2, EventIs DEF GetClearedMarket, EventType
    <3>3. CASE SkipOrders \/ FailOrders \/ PassMarket
      BY <3>3 DEF SkipOrders, FailOrders, PassMarket
    <3> QED
      BY <3>1, <3>2, <3>3
  <2>3. queue' \in Seq(EventRecord)
    BY <2>1, <2>2
  <2> QED
    BY <2>3 DEF QueueOK, EventRecord
<1> QED
  BY <1>2, <1>5, <1>6 DEF TypeInv

\* The worker sets orders_cleared or market_cleared.
LEMMA SetStep ==
  ASSUME TypeInv, SetOrdersCleared \/ SetMarketCleared
  PROVE  /\ at # "idle" /\ Working \in Object
         /\ \E r : /\ object' = [object EXCEPT ![Working] = r]
                   /\ \/ r = [object[Working] EXCEPT !.ordersCleared = TRUE] /\ at = "ordersCleared"
                      \/ r = [object[Working] EXCEPT !.marketCleared = TRUE]
         /\ UNCHANGED <<exchange, queue, current, from, faults>>
<1>1. at # "idle" /\ UNCHANGED <<exchange, queue, current, from, faults>>
  BY DEF SetOrdersCleared, SetMarketCleared
<1>2. Working \in Object
  BY <1>1, WorkingIs
<1> QED
  BY <1>1, <1>2 DEF SetOrdersCleared, SetMarketCleared, TypeInv, ObjectOK

LEMMA SetType ==
  ASSUME TypeInv, SetOrdersCleared \/ SetMarketCleared
  PROVE  TypeInv'
<1>1. at # "idle" /\ UNCHANGED <<exchange, queue, current, from, faults>>
  BY SetStep
<1>2. PICK x \in Object : x = Working
  BY SetStep
<1>3. PICK r : /\ object' = [object EXCEPT ![x] = r]
               /\ \/ r = [object[x] EXCEPT !.ordersCleared = TRUE]
                  \/ r = [object[x] EXCEPT !.marketCleared = TRUE]
  BY <1>2, SetStep
<1>4. Sound(x, r) /\ r.made = object[x].made
  BY <1>3, FlagSet
<1>5. ObjectOK' /\ \A y \in Object : object'[y] = IF y = x THEN r ELSE object[y]
  <2>1. Changes(x, r)
    BY <1>3, <1>4 DEF Changes
  <2> QED
    BY <2>1, ChangeSound
<1>6. \A y \in Object : object'[y].made = object[y].made
  BY <1>4, <1>5
<1>7. \/ /\ working' = working
         /\ at' \in {"orders", "ordersCleared", "market", "marketCleared"}
      \/ NextMarket
  BY DEF SetOrdersCleared, SetMarketCleared, Goto
<1>8. from' \in Nat /\ (from' # 0 => at' = "orders")
  <2>1. from = 0
    BY DEF SetOrdersCleared, SetMarketCleared, TypeInv, WorkerOK
  <2> QED
    BY <1>1, <2>1
<1>9. WorkerOK' /\ CurrentOK'
  BY <1>1, <1>6, <1>7, <1>8, WorkerGoes, MadeSame
<1> QED
  BY <1>1, <1>5, <1>9 DEF TypeInv, ExchangeOK, QueueOK

LEMMA TypeStep ==
  ASSUME TypeInv, [Next]_vars
  PROVE  TypeInv'
<1>1. ASSUME NEW m \in Market, ChangeStatus(m) \/ Expire(m) \/ Publish(m)
      PROVE  TypeInv'
  BY <1>1, ChangeStatusType, ExpireType, PublishType
<1>2. CASE Main
  BY <1>2, BookType, CloseType, ClearedType, ClearedMarketsType DEF Main
<1>3. CASE Worker
  BY <1>3, PollType, RequestType, SetType DEF Worker
<1>4. CASE UNCHANGED vars
  BY <1>4, MainSame, WorkerSame DEF vars, TypeInv, ExchangeOK, QueueOK, mainVars, workerVars
<1> QED
  BY <1>1, <1>2, <1>3, <1>4 DEF Next, Exchange, Stream

LEMMA InitType == Init => TypeInv
<1> SUFFICES ASSUME Init
             PROVE  TypeInv
  OBVIOUS
<1>1. NewMarket \in MarketRecord /\ \A x \in Object : Sound(x, NewMarket)
  BY DEF NewMarket, MarketRecord, Sound
<1>2. ObjectOK
  BY <1>1 DEF Init, ObjectOK
<1>3. ExchangeOK /\ QueueOK /\ WorkerOK
  BY DEF Init, ExchangeOK, ExchangeRecord, QueueOK, WorkerOK
<1>4. ASSUME NEW m \in Market
      PROVE  current[m] = 0 /\ Newest(m) = 0 /\ 0 < MaxObjects[m]
  <2>1. \A g \in 1..MaxObjects[m] : ~object[<<m, g>>].made
    BY ObjectIs DEF Init, NewMarket
  <2>2. Newest(m) = Top(object, m)
    BY DEF Newest, Top
  <2>3. Newest(m) \in 0..MaxObjects[m] /\ (Newest(m) # 0 => object[<<m, Newest(m)>>].made)
    BY <2>2, TopIs
  <2>4. MaxObjects[m] \in Nat \ {0}
    BY MarketAssumption
  <2> QED
    BY <2>1, <2>3, <2>4 DEF Init
<1>5. CurrentOK
  BY <1>4 DEF Init, CurrentOK
<1> QED
  BY <1>2, <1>3, <1>5 DEF TypeInv

LEMMA TypeIs == TypeInv => TypeOK
<1> SUFFICES ASSUME TypeInv
             PROVE  TypeOK
  OBVIOUS
<1>1. \A m \in Market : current[m] \in {0, Newest(m)}
  BY DEF TypeInv, CurrentOK
<1>2. \A x \in Object :
        /\ object[x].bets \subseteq Bets /\ object[x].cleared \subseteq object[x].bets
        /\ object[x].closed => object[x].made
  BY DEF TypeInv, ObjectOK, Sound, MarketRecord
<1>3. \A i \in DOMAIN working : object[working[i]].made
  BY DEF TypeInv, WorkerOK
<1> QED
  BY <1>1, <1>2, <1>3 DEF TypeInv, WorkerOK, TypeOK

\* Spec => []TypeOK: a market id has the newest of its objects or none, and the worker,
\* which holds on to markets over several requests, works on objects that were markets
\* (markets.py, worker.py).
THEOREM TypeSafe == Spec => []TypeOK
<1>1. Init => TypeInv
  BY InitType
<1>2. TypeInv /\ [Next]_vars => TypeInv'
  BY TypeStep
<1> QED
  BY <1>1, <1>2, TypeIs, PTL DEF Spec

-----------------------------------------------------------------------------
(* A removed object never comes back *)

\* A market id keeps its object, loses it, or gets one that was never a market before
\* (Markets.add_market, remove_market, BaseFlumine._process_market_books).
RemovedForGood ==
  \A m \in Market :
    \/ current'[m] \in {0, current[m]}
    \/ current[m] = 0 /\ ~object[<<m, current'[m]>>].made

LEMMA RemovedStep ==
  ASSUME TypeInv, [Next]_vars
  PROVE  RemovedForGood
<1>1. CASE UNCHANGED current
  BY <1>1 DEF RemovedForGood
<1>2. ASSUME ProcessMarketBook
      PROVE  RemovedForGood
  <2>1. PICK m \in Market : m = Head(queue).market
    BY <1>2, BookStep
  <2>2. PICK g : g = BookFor(m)
    OBVIOUS
  <2>3. current' = [current EXCEPT ![m] = g]
    BY <1>2, <2>1, <2>2, BookStep
  <2>4. \/ g = current[m]
        \/ current[m] = 0 /\ ~object[<<m, g>>].made
    BY <2>2, MarketForIs
  <2>5. \A n \in Market : current'[n] = IF n = m THEN g ELSE current[n]
    BY <2>3 DEF TypeInv, CurrentOK
  <2> QED
    BY <2>4, <2>5 DEF RemovedForGood
<1>3. ASSUME ProcessCloseMarket
      PROVE  RemovedForGood
  <2>1. PICK m \in Market : m = Head(queue).market
    BY <1>3, HeadIs DEF ProcessCloseMarket, Handling
  <2>2. \A n \in Market : current'[n] \in {0, current[n]}
    BY <1>3, <2>1, CloseStep DEF mainVars
  <2> QED
    BY <2>2 DEF RemovedForGood
<1> QED
  BY <1>1, <1>2, <1>3
     DEF Next, vars, mainVars, Exchange, Stream, Main, Worker, ChangeStatus, Expire, Publish,
         ProcessClearedOrders, ProcessClearedMarkets, Poll, SkipOrders, GetClearedOrders,
         FailOrders, SetOrdersCleared, GetClearedMarket, PassMarket, SetMarketCleared

\* A removed market object never comes back: its market id gets a new one, whatever
\* books and closures are still on the queue (markets.py, baseflumine.py).
THEOREM NeverBack == Spec => [][RemovedForGood]_vars
<1>1. Init => TypeInv
  BY InitType
<1>2. TypeInv /\ [Next]_vars => TypeInv' /\ RemovedForGood
  BY TypeStep, RemovedStep
<1> QED
  BY <1>1, <1>2, PTL DEF Spec

-----------------------------------------------------------------------------
(* No cleared order is lost *)

\* The exchange has the market open and has never closed it.
FirstOpen(m) == exchange[m].status = "OPEN" /\ exchange[m].reopens = 0
\* Then nothing in the program says that it is closed.
Fresh(m) ==
  /\ \A i \in 1..Len(queue) :
       queue[i].market = m => queue[i].type = "MARKET_BOOK" /\ queue[i].status = "OPEN"
  /\ \A x \in Object : x[1] = m => ~object[x].closed /\ ~object[x].ordersCleared
  /\ \A i \in 1..Len(working) : working[i][1] # m
NotClosedYet == \A m \in Market : FirstOpen(m) => Fresh(m)

\* The bets of an object are among those the exchange took.
Placed == \A x \in Object : \A b \in object[x].bets : b <= exchange[x[1]].placed

\* An event carries the cleared order of bet b of market m.
Carries(e, m, b) == e.type = "CLEARED_ORDERS" /\ e.market = m /\ b \in e.records
Waiting(m, b) == \E i \in 1..Len(queue) : Carries(queue[i], m, b)
Kept(m, b) == b \in It(m).cleared \/ Waiting(m, b)
\* The cleared orders of the bets up to n have been put on the queue.
Delivered(m, n) == \A b \in It(m).bets : b <= n => Kept(m, b)
\* What poll_market_closure has delivered of the market it is working on
PagesOf(m) ==
  working # <<>> /\ Working[1] = m =>
    /\ at = "orders" => Delivered(m, from)
    /\ at = "ordersCleared" => Delivered(m, exchange[m].placed)
Paged ==
  \A m \in Market :
    exchange[m].reopens = 0 /\ current[m] # 0 =>
      /\ It(m).ordersCleared => Delivered(m, exchange[m].placed)
      /\ PagesOf(m)

LostInv == TypeInv /\ NotClosedYet /\ Placed /\ Paged

\* Events of the queue stay, move up or are handled; what is put goes to the end.
LEMMA TailKeeps ==
  ASSUME TypeInv, queue # <<>>, NEW e, NEW m, NEW b, Waiting(m, b),
         queue' = Tail(queue) \/ queue' = Append(Tail(queue), e)
  PROVE  Waiting(m, b)' \/ Carries(Head(queue), m, b)
<1>1. queue \in Seq(EventRecord) /\ Len(queue) \in Nat
  BY DEF TypeInv, QueueOK
<1>2. PICK i \in 1..Len(queue) : Carries(queue[i], m, b)
  BY DEF Waiting
<1>3. CASE i = 1
  BY <1>1, <1>2, <1>3
<1>4. CASE i # 1
  <2>1. i - 1 \in 1..Len(Tail(queue)) /\ Tail(queue)[i - 1] = queue[i]
    BY <1>1, <1>4
  <2>2. Tail(queue) \in Seq(EventRecord) /\ Len(Tail(queue)) \in Nat
    BY <1>1
  <2>3. i - 1 \in 1..Len(queue') /\ queue'[i - 1] = queue[i]
    BY <2>1, <2>2
  <2> QED
    BY <1>2, <2>3 DEF Waiting
<1> QED
  BY <1>3, <1>4

LEMMA AppendIs ==
  ASSUME NEW S, NEW q \in Seq(S), NEW e
  PROVE  /\ Len(Append(q, e)) = Len(q) + 1 /\ Append(q, e)[Len(q) + 1] = e
         /\ \A i \in 1..Len(q) : Append(q, e)[i] = q[i]
OBVIOUS

LEMMA AppendKeeps ==
  ASSUME TypeInv, NEW e, NEW m, NEW b, queue' = Append(queue, e),
         Waiting(m, b) \/ Carries(e, m, b)
  PROVE  Waiting(m, b)'
<1>1. queue \in Seq(EventRecord) /\ Len(queue) \in Nat
  BY DEF TypeInv, QueueOK
<1>2. /\ Len(queue') = Len(queue) + 1 /\ queue'[Len(queue) + 1] = e
      /\ \A i \in 1..Len(queue) : queue'[i] = queue[i]
  BY <1>1
<1>3. CASE Waiting(m, b)
  <2>1. PICK i \in 1..Len(queue) : Carries(queue[i], m, b)
    BY <1>3 DEF Waiting
  <2>2. i \in 1..Len(queue') /\ queue'[i] = queue[i]
    BY <1>1, <1>2
  <2> QED
    BY <2>1, <2>2 DEF Waiting
<1>4. CASE Carries(e, m, b)
  <2>1. Len(queue) + 1 \in 1..Len(queue')
    BY <1>1, <1>2
  <2> QED
    BY <1>2, <1>4, <2>1 DEF Waiting
<1> QED
  BY <1>3, <1>4

\* An event of the queue was there, or was put by this step.
LEMMA QueueFrom ==
  ASSUME TypeInv, NEW e,
         \/ queue' = queue \/ queue' = Append(queue, e)
         \/ queue # <<>> /\ (queue' = Tail(queue) \/ queue' = Append(Tail(queue), e)),
         NEW i \in 1..Len(queue')
  PROVE  queue'[i] = e \/ \E j \in 1..Len(queue) : queue'[i] = queue[j]
<1>1. queue \in Seq(EventRecord) /\ Len(queue) \in Nat
  BY DEF TypeInv, QueueOK
<1>2. CASE queue' = queue
  BY <1>2
<1>3. CASE queue' = Append(queue, e)
  BY <1>1, <1>3
<1>4. ASSUME queue # <<>>, queue' = Tail(queue) \/ queue' = Append(Tail(queue), e)
      PROVE  queue'[i] = e \/ \E j \in 1..Len(queue) : queue'[i] = queue[j]
  <2>1. Tail(queue) \in Seq(EventRecord) /\ Len(Tail(queue)) \in Nat
        /\ Len(Tail(queue)) = Len(queue) - 1
    BY <1>1, <1>4
  <2>2. \A j \in 1..Len(Tail(queue)) : Tail(queue)[j] = queue[j + 1] /\ j + 1 \in 1..Len(queue)
    BY <1>1, <1>4, <2>1
  <2>3. CASE i \in 1..Len(Tail(queue))
    <3>1. queue'[i] = Tail(queue)[i]
      BY <1>4, <2>1, <2>3
    <3> QED
      BY <2>2, <2>3, <3>1
  <2>4. CASE i \notin 1..Len(Tail(queue))
    <3>1. queue' # Tail(queue)
      BY <2>4
    <3>2. queue' = Append(Tail(queue), e)
      BY <1>4, <3>1
    <3>3. Len(queue') = Len(Tail(queue)) + 1 /\ queue'[Len(Tail(queue)) + 1] = e
      BY <2>1, <3>2, AppendIs
    <3>4. i = Len(Tail(queue)) + 1
      <4> DEFINE n == Len(Tail(queue))
      <4>1. n \in Nat /\ i \in 1..(n + 1) /\ i \notin 1..n
        BY <2>1, <2>4, <3>3
      <4> HIDE DEF n
      <4>2. i = n + 1
        BY <4>1
      <4> QED
        BY <4>2 DEF n
    <3> QED
      BY <3>3, <3>4
  <2> QED
    BY <2>3, <2>4
<1> QED
  BY <1>2, <1>3, <1>4

\* A market of the worker's was there already.
LEMMA WorkingFrom ==
  ASSUME TypeInv, at # "idle", working' = working \/ NextMarket, NEW i \in 1..Len(working')
  PROVE  \E j \in 1..Len(working) : working'[i] = working[j]
<1>1. working \in Seq(Object) /\ working # <<>> /\ Len(working) \in Nat
  BY WorkingIs DEF TypeInv, WorkerOK
<1>2. CASE working' = working
  BY <1>2
<1>3. CASE NextMarket
  <2>1. working' = Tail(working)
    BY <1>3 DEF NextMarket
  <2>2. i + 1 \in 1..Len(working) /\ working'[i] = working[i + 1]
    BY <1>1, <2>1
  <2> QED
    BY <2>2
<1> QED
  BY <1>2, <1>3

\* What a step does to the market at the exchange: only ChangeStatus opens and closes
\* it, only a book of an open market adds a bet.
LEMMA ExchangeStep ==
  ASSUME TypeInv, [Next]_vars, NEW m \in Market
  PROVE  /\ exchange'[m].reopens = 0 => exchange[m].reopens = 0
         /\ FirstOpen(m)' => FirstOpen(m)
         /\ exchange'[m].placed >= exchange[m].placed
         /\ exchange'[m].placed # exchange[m].placed => exchange'[m].status = "OPEN"
<1> DEFINE Fine == /\ exchange'[m].reopens = 0 => exchange[m].reopens = 0
                   /\ FirstOpen(m)' => FirstOpen(m)
                   /\ exchange'[m].placed >= exchange[m].placed
                   /\ exchange'[m].placed # exchange[m].placed => exchange'[m].status = "OPEN"
<1>1. exchange \in [Market -> ExchangeRecord] /\ exchange[m] \in ExchangeRecord
      /\ exchange[m].placed \in Nat /\ exchange[m].reopens \in Nat
  BY DEF TypeInv, ExchangeOK, ExchangeRecord
<1>2. CASE exchange' = exchange
  BY <1>1, <1>2 DEF FirstOpen
<1>3. ASSUME NEW k \in Market, ChangeStatus(k)
      PROVE  Fine
  <2>1. CASE k = m
    <3>1. exchange'[m].placed = exchange[m].placed
      BY <1>3, ChangeStatusIs
    <3>2. CASE exchange[m].status = "OPEN"
      <4>1. exchange'[m].status = "CLOSED" /\ exchange'[m].reopens = exchange[m].reopens
        BY <1>3, <2>1, <3>2, ChangeStatusIs
      <4> QED
        BY <1>1, <3>1, <4>1 DEF FirstOpen
    <3>3. CASE exchange[m].status # "OPEN"
      <4>1. exchange'[m].reopens = exchange[m].reopens + 1
        BY <1>3, <2>1, <3>3, ChangeStatusIs
      <4> QED
        BY <1>1, <3>1, <4>1 DEF FirstOpen
    <3> QED
      BY <3>2, <3>3
  <2>2. CASE k # m
    <3>1. exchange'[m] = exchange[m]
      BY <1>3, <2>2, ChangeStatusIs
    <3> QED
      BY <1>1, <3>1 DEF FirstOpen
  <2> QED
    BY <2>1, <2>2
<1>4. ASSUME NEW k \in Market, Publish(k)
      PROVE  Fine
  <2>1. /\ exchange'[m].placed = exchange[m].placed /\ exchange'[m].status = exchange[m].status
        /\ exchange'[m].reopens = exchange[m].reopens
    BY <1>4, PublishIs
  <2> QED
    BY <1>1, <2>1 DEF FirstOpen
<1>5. ASSUME ProcessMarketBook
      PROVE  Fine
  <2>1. PICK k \in Market : k = Head(queue).market
    BY <1>5, BookStep
  <2>2. PICK b : b = exchange[k].placed + 1
    OBVIOUS
  <2>3. \/ exchange' = exchange
        \/ exchange[k].status = "OPEN" /\ exchange' = [exchange EXCEPT ![k].placed = b]
    BY <1>5, <2>1, <2>2, BookStep
  <2>4. CASE exchange[k].status = "OPEN" /\ exchange' = [exchange EXCEPT ![k].placed = b]
    <3>1. /\ exchange'[m].reopens = exchange[m].reopens
          /\ exchange'[m].status = exchange[m].status
          /\ \/ exchange'[m].placed = exchange[m].placed
             \/ exchange'[m].placed = exchange[m].placed + 1 /\ exchange[m].status = "OPEN"
      BY <1>1, <2>2, <2>4 DEF ExchangeRecord
    <3> QED
      BY <1>1, <3>1 DEF FirstOpen
  <2> QED
    BY <1>2, <2>3, <2>4
<1> HIDE DEF Fine
<1>6. Fine
  BY <1>2, <1>3, <1>4, <1>5
     DEF Fine, Next, vars, mainVars, Exchange, Stream, Main, Worker, Expire, ProcessCloseMarket,
         ProcessClearedOrders, ProcessClearedMarkets, Poll, SkipOrders, GetClearedOrders,
         FailOrders, SetOrdersCleared, GetClearedMarket, PassMarket, SetMarketCleared
<1> QED
  BY <1>6 DEF Fine

\* The events of a step that leave a market as it is
QueueMoves(e) ==
  \/ queue' = queue \/ queue' = Append(queue, e)
  \/ queue # <<>> /\ (queue' = Tail(queue) \/ queue' = Append(Tail(queue), e))
Quiet(e, m) == e.market = m => e.type = "MARKET_BOOK" /\ e.status = "OPEN"
FlagsStay(m) ==
  \A x \in Object :
    x[1] = m => /\ object'[x].closed => object[x].closed
                /\ object'[x].ordersCleared => object[x].ordersCleared

LEMMA FreshKept ==
  ASSUME TypeInv, NEW m \in Market, Fresh(m), NEW e, QueueMoves(e), Quiet(e, m), FlagsStay(m),
         \A i \in 1..Len(working') : working'[i][1] # m
  PROVE  Fresh(m)'
<1>1. ASSUME NEW i \in 1..Len(queue'), queue'[i].market = m
      PROVE  queue'[i].type = "MARKET_BOOK" /\ queue'[i].status = "OPEN"
  <2>1. queue'[i] = e \/ \E j \in 1..Len(queue) : queue'[i] = queue[j]
    BY QueueFrom DEF QueueMoves
  <2> QED
    BY <1>1, <2>1 DEF Quiet, Fresh
<1>2. \A x \in Object : x[1] = m => ~object'[x].closed /\ ~object'[x].ordersCleared
  BY DEF Fresh, FlagsStay
<1> QED
  BY <1>1, <1>2 DEF Fresh

\* A step of the worker is for a market that has been closed.
LEMMA FreshWorks ==
  ASSUME TypeInv, NEW m \in Market, Fresh(m), at # "idle", working' = working \/ NextMarket
  PROVE  Working[1] # m /\ \A i \in 1..Len(working') : working'[i][1] # m
<1>1. working # <<>> /\ Working = working[1] /\ Len(working) \in Nat
  BY WorkingIs DEF TypeInv, WorkerOK
<1>2. 1 \in 1..Len(working)
  BY <1>1, WorkingIs, EmptySeq DEF TypeInv, WorkerOK
<1>3. Working[1] # m
  BY <1>1, <1>2 DEF Fresh
<1>4. ASSUME NEW i \in 1..Len(working')
      PROVE  working'[i][1] # m
  <2>1. PICK j \in 1..Len(working) : working'[i] = working[j]
    BY WorkingFrom
  <2> QED
    BY <2>1 DEF Fresh
<1> QED
  BY <1>3, <1>4

\* What the main thread changes, object by object
BookDone(m, g, r) ==
  /\ queue # <<>> /\ Head(queue).type = "MARKET_BOOK" /\ Head(queue).market = m
  /\ g = BookFor(m) /\ <<m, g>> \in Object
  /\ \A n \in Market : current'[n] = IF n = m THEN g ELSE current[n]
  /\ \A y \in Object : object'[y] = IF y = <<m, g>> THEN r ELSE object[y]
  /\ ~r.closed /\ r.cleared = MarketFor(m).cleared
  /\ r.ordersCleared <=> MarketFor(m).ordersCleared
  /\ \/ r.bets = MarketFor(m).bets /\ UNCHANGED exchange
     \/ /\ exchange[m].status = "OPEN" /\ exchange'[m].placed = exchange[m].placed + 1
        /\ r.bets = MarketFor(m).bets \cup {exchange[m].placed + 1}
  /\ \/ Head(queue).status = "CLOSED"
        /\ queue' = Append(Tail(queue), Event("CLOSE_MARKET", m, {}))
     \/ queue' = Tail(queue)
  /\ UNCHANGED workerVars

LEMMA BookChanges ==
  ASSUME TypeInv, ProcessMarketBook
  PROVE  \E m \in Market : \E g, r : BookDone(m, g, r)
<1>1. PICK m \in Market : m = Head(queue).market
  BY BookStep
<1>2. PICK g : g = BookFor(m)
  OBVIOUS
<1>3. PICK b : b = exchange[m].placed + 1
  OBVIOUS
<1>4. PICK r : /\ object' = [object EXCEPT ![<<m, g>>] = r]
               /\ \/ r = MarketFor(m) /\ UNCHANGED exchange
                  \/ /\ r = [MarketFor(m) EXCEPT !.bets = @ \cup {b}]
                     /\ exchange[m].status = "OPEN"
                     /\ exchange' = [exchange EXCEPT ![m].placed = b]
  BY <1>1, <1>2, <1>3, BookStep
<1>5. /\ g \in 1..MaxObjects[m] /\ <<m, g>> \in Object /\ ~MarketFor(m).closed
      /\ MarketFor(m) \in MarketRecord
  BY <1>2, MarketForIs DEF Sound
<1>6. \A y \in Object : object'[y] = IF y = <<m, g>> THEN r ELSE object[y]
  BY <1>4, <1>5 DEF TypeInv, ObjectOK
<1>7. \A n \in Market : current'[n] = IF n = m THEN g ELSE current[n]
  <2>1. current' = [current EXCEPT ![m] = g]
    BY <1>1, <1>2, BookStep
  <2> QED
    BY <2>1 DEF TypeInv, CurrentOK
<1>8. /\ ~r.closed /\ r.cleared = MarketFor(m).cleared
      /\ r.ordersCleared <=> MarketFor(m).ordersCleared
      /\ \/ r.bets = MarketFor(m).bets /\ UNCHANGED exchange
         \/ /\ exchange[m].status = "OPEN" /\ exchange'[m].placed = b
            /\ r.bets = MarketFor(m).bets \cup {b}
  <2>1. CASE r = MarketFor(m) /\ UNCHANGED exchange
    BY <1>5, <2>1
  <2>2. CASE /\ r = [MarketFor(m) EXCEPT !.bets = @ \cup {b}]
             /\ exchange[m].status = "OPEN"
             /\ exchange' = [exchange EXCEPT ![m].placed = b]
    <3>1. exchange'[m].placed = b
      BY <2>2 DEF TypeInv, ExchangeOK, ExchangeRecord
    <3>2. /\ r.bets = MarketFor(m).bets \cup {b} /\ r.cleared = MarketFor(m).cleared
          /\ (r.closed <=> MarketFor(m).closed)
          /\ (r.ordersCleared <=> MarketFor(m).ordersCleared)
      BY <1>5, <2>2 DEF MarketRecord
    <3> QED
      BY <1>5, <2>2, <3>1, <3>2
  <2> QED
    BY <1>4, <2>1, <2>2
<1>9. /\ queue # <<>> /\ Head(queue).type = "MARKET_BOOK" /\ UNCHANGED workerVars
      /\ \/ Head(queue).status = "CLOSED"
            /\ queue' = Append(Tail(queue), Event("CLOSE_MARKET", m, {}))
         \/ queue' = Tail(queue)
  BY <1>1, BookStep
<1>10. g \in Nat
  BY <1>5
<1>11. BookDone(m, g, r)
  BY <1>1, <1>2, <1>3, <1>5, <1>6, <1>7, <1>8, <1>9 DEF BookDone
<1> QED
  BY <1>10, <1>11

CloseDone(m) ==
  /\ queue # <<>> /\ Head(queue).type = "CLOSE_MARKET" /\ Head(queue).market = m
  /\ queue' = Tail(queue) /\ UNCHANGED <<exchange, workerVars>>
  /\ \A n \in Market : current'[n] \in {0, current[n]}
  /\ \A y \in Object :
       /\ object'[y].bets = object[y].bets /\ object'[y].cleared = object[y].cleared
       /\ object'[y].ordersCleared = object[y].ordersCleared
       /\ y[1] # m => object'[y] = object[y]

LEMMA CloseChanges ==
  ASSUME TypeInv, ProcessCloseMarket
  PROVE  \E m \in Market : CloseDone(m)
<1>1. PICK m \in Market : m = Head(queue).market
  BY HeadIs DEF ProcessCloseMarket, Handling
<1>2. /\ queue # <<>> /\ Head(queue).type = "CLOSE_MARKET" /\ queue' = Tail(queue)
      /\ UNCHANGED <<exchange, workerVars>>
  BY <1>1, CloseStep
<1>3. CASE UNCHANGED mainVars
  BY <1>1, <1>2, <1>3 DEF CloseDone, mainVars
<1>4. ASSUME /\ current[m] # 0
             /\ object' = [object EXCEPT ![<<m, current[m]>>] = Closed(It(m))]
             /\ \A n \in Market : current'[n] \in {0, current[n]}
      PROVE  CloseDone(m)
  <2>1. PICK x \in Object : x = <<m, current[m]>> /\ It(m) = object[x]
    BY <1>4, CurrentIs
  <2>2. PICK r : r = Closed(object[x])
    OBVIOUS
  <2>3. /\ r.bets = object[x].bets /\ r.cleared = object[x].cleared
        /\ r.ordersCleared = object[x].ordersCleared
    BY <2>2, ObjectChanges
  <2>4. \A y \in Object : object'[y] = IF y = x THEN r ELSE object[y]
    BY <1>4, <2>1, <2>2 DEF TypeInv, ObjectOK
  <2>5. x[1] = m
    BY <2>1
  <2> QED
    BY <1>1, <1>2, <1>4, <2>3, <2>4, <2>5 DEF CloseDone
<1> QED
  BY <1>1, <1>3, <1>4, CloseStep

ClearedDone(m) ==
  /\ queue # <<>> /\ Head(queue).type = "CLEARED_ORDERS" /\ Head(queue).market = m
  /\ queue' = Tail(queue) /\ UNCHANGED <<exchange, current, workerVars>>
  /\ \A y \in Object :
       /\ object'[y].bets = object[y].bets /\ object[y].cleared \subseteq object'[y].cleared
       /\ object'[y].ordersCleared = object[y].ordersCleared
       /\ object'[y].closed = object[y].closed
  /\ current[m] # 0 =>
       It(m).bets \cap Head(queue).records \subseteq object'[<<m, current[m]>>].cleared

LEMMA ClearedChanges ==
  ASSUME TypeInv, ProcessClearedOrders
  PROVE  \E m \in Market : ClearedDone(m)
<1>1. PICK m \in Market : m = Head(queue).market
  BY HeadIs DEF ProcessClearedOrders, Handling
<1>2. /\ queue # <<>> /\ Head(queue).type = "CLEARED_ORDERS" /\ queue' = Tail(queue)
      /\ UNCHANGED <<exchange, current, workerVars>>
  BY <1>1, ClearedStep
<1>3. CASE current[m] = 0 /\ object' = object
  BY <1>1, <1>2, <1>3 DEF ClearedDone
<1>4. ASSUME /\ current[m] # 0
             /\ object' = [object EXCEPT ![<<m, current[m]>>] =
                   [It(m) EXCEPT !.cleared = @ \cup (It(m).bets \cap Head(queue).records)]]
      PROVE  ClearedDone(m)
  <2>1. PICK x \in Object : x = <<m, current[m]>> /\ It(m) = object[x]
    BY <1>4, CurrentIs
  <2>2. PICK s \in SUBSET Bets : s = Head(queue).records
    BY <1>2, HeadIs
  <2>3. PICK r : r = [object[x] EXCEPT !.cleared = @ \cup (object[x].bets \cap s)]
    OBVIOUS
  <2>4. /\ r.bets = object[x].bets /\ r.cleared = object[x].cleared \cup (object[x].bets \cap s)
        /\ r.ordersCleared = object[x].ordersCleared /\ r.closed = object[x].closed
    <3>1. Sound(x, object[x])
      BY DEF TypeInv, ObjectOK
    <3> QED
      BY <2>3, <3>1, SoundWith
  <2>5. \A y \in Object : object'[y] = IF y = x THEN r ELSE object[y]
    BY <1>4, <2>1, <2>2, <2>3 DEF TypeInv, ObjectOK
  <2>6. \A y \in Object :
          /\ object'[y].bets = object[y].bets /\ object[y].cleared \subseteq object'[y].cleared
          /\ object'[y].ordersCleared = object[y].ordersCleared
          /\ object'[y].closed = object[y].closed
    BY <2>4, <2>5
  <2>7. It(m).bets \cap Head(queue).records \subseteq object'[<<m, current[m]>>].cleared
    BY <2>1, <2>2, <2>4, <2>5
  <2> QED
    BY <1>1, <1>2, <2>6, <2>7 DEF ClearedDone
<1> QED
  BY <1>1, <1>3, <1>4, ClearedStep

\* Setting a flag of an object leaves its bets.
LEMMA ExpireChanges ==
  ASSUME TypeInv, NEW m \in Market, Expire(m)
  PROVE  \A y \in Object :
           /\ object'[y].bets = object[y].bets /\ object'[y].cleared = object[y].cleared
           /\ object'[y].ordersCleared = object[y].ordersCleared
           /\ object'[y].closed = object[y].closed
<1>1. PICK x \in Object : x = <<m, current[m]>>
  BY CurrentIs DEF Expire
<1>2. object' = [object EXCEPT ![x] = [object[x] EXCEPT !.expired = TRUE]]
  BY <1>1 DEF Expire, TypeInv, ObjectOK
<1>3. object[x] \in MarketRecord /\ object \in [Object -> MarketRecord]
  BY DEF TypeInv, ObjectOK
<1> QED
  BY <1>2, <1>3 DEF MarketRecord

LEMMA SetChanges ==
  ASSUME TypeInv, SetOrdersCleared \/ SetMarketCleared
  PROVE  \A y \in Object :
           /\ object'[y].bets = object[y].bets /\ object'[y].cleared = object[y].cleared
           /\ object'[y].closed = object[y].closed
           /\ (y # Working \/ at # "ordersCleared") =>
                object'[y].ordersCleared = object[y].ordersCleared
<1>1. PICK x \in Object : x = Working
  BY SetStep
<1>2. PICK r : /\ object' = [object EXCEPT ![x] = r]
               /\ \/ r = [object[x] EXCEPT !.ordersCleared = TRUE] /\ at = "ordersCleared"
                  \/ r = [object[x] EXCEPT !.marketCleared = TRUE]
  BY <1>1, SetStep
<1>3. object[x] \in MarketRecord /\ object \in [Object -> MarketRecord]
  BY DEF TypeInv, ObjectOK
<1>4. /\ r.bets = object[x].bets /\ r.cleared = object[x].cleared /\ r.closed = object[x].closed
      /\ at # "ordersCleared" => r.ordersCleared = object[x].ordersCleared
  BY <1>2, <1>3 DEF MarketRecord
<1>5. \A y \in Object : object'[y] = IF y = x THEN r ELSE object[y]
  BY <1>2, <1>3
<1> QED
  BY <1>1, <1>4, <1>5

\* The requests of the worker
Request == SkipOrders \/ GetClearedOrders \/ FailOrders \/ GetClearedMarket \/ PassMarket
LEMMA RequestMoves ==
  ASSUME TypeInv, Request
  PROVE  /\ at # "idle" /\ (working' = working \/ NextMarket)
         /\ UNCHANGED <<exchange, mainVars>>
         /\ \E e : QueueMoves(e) /\ e.market = Working[1]
<1>1. PICK m : m = Working[1]
  OBVIOUS
<1>2. PICK e : /\ e.market = m
               /\ queue' = queue \/ queue' = Append(queue, e)
  <2>1. Event("CLEARED_MARKETS", m, {}).market = m
    BY DEF Event
  <2>2. CASE GetClearedOrders
    <3>1. PICK s : queue' = Append(queue, Event("CLEARED_ORDERS", m, s))
      BY <1>1, <2>2 DEF GetClearedOrders
    <3>2. Event("CLEARED_ORDERS", m, s).market = m
      BY DEF Event
    <3> QED
      BY <3>1, <3>2
  <2>3. CASE GetClearedMarket
    BY <1>1, <2>1, <2>3 DEF GetClearedMarket
  <2>4. CASE SkipOrders \/ FailOrders \/ PassMarket
    BY <2>1, <2>4 DEF SkipOrders, FailOrders, PassMarket
  <2> QED
    BY <2>2, <2>3, <2>4 DEF Request
<1>3. at # "idle" /\ (working' = working \/ NextMarket) /\ UNCHANGED <<exchange, mainVars>>
  BY DEF Request, SkipOrders, GetClearedOrders, FailOrders, GetClearedMarket, PassMarket, Goto
<1> QED
  BY <1>1, <1>2, <1>3 DEF QueueMoves

LEMMA NotClosedStep ==
  ASSUME TypeInv, NotClosedYet, [Next]_vars
  PROVE  NotClosedYet'
<1> SUFFICES ASSUME NEW m \in Market, FirstOpen(m)'
             PROVE  Fresh(m)'
  BY DEF NotClosedYet
<1>1. FirstOpen(m) /\ Fresh(m)
  BY ExchangeStep DEF NotClosedYet
<1>2. PICK o : o = Book(m, "OPEN")
  OBVIOUS
<1>3. Quiet(o, m)
  BY <1>2 DEF Quiet, Book
<1>4. object' = object => FlagsStay(m)
  BY DEF FlagsStay
<1>5. working' = working => \A i \in 1..Len(working') : working'[i][1] # m
  BY <1>1 DEF Fresh
<1>6. ASSUME NEW k \in Market, ChangeStatus(k)
      PROVE  Fresh(m)'
  BY <1>1, <1>6 DEF ChangeStatus, Fresh, mainVars, workerVars
<1>7. ASSUME NEW k \in Market, Publish(k)
      PROVE  Fresh(m)'
  <2>1. PICK e : e = Book(k, exchange[k].status)
    OBVIOUS
  <2>2. Quiet(e, m)
    BY <1>1, <2>1 DEF Quiet, Book, FirstOpen
  <2>3. queue' = Append(queue, e) /\ object' = object /\ working' = working
    BY <1>7, <2>1 DEF Publish, mainVars, workerVars
  <2>4. QueueMoves(e)
    BY <2>3 DEF QueueMoves
  <2> QED
    BY <1>1, <1>4, <1>5, <2>2, <2>3, <2>4, FreshKept
<1>8. ASSUME NEW k \in Market, Expire(k)
      PROVE  Fresh(m)'
  <2>1. FlagsStay(m)
    BY <1>8, ExpireChanges DEF FlagsStay
  <2>2. QueueMoves(o) /\ working' = working
    BY <1>8 DEF Expire, QueueMoves, workerVars
  <2> QED
    BY <1>1, <1>3, <1>5, <2>1, <2>2, FreshKept
<1>9. ASSUME ProcessMarketBook
      PROVE  Fresh(m)'
  <2>0. PICK k \in Market : \E g, r : BookDone(k, g, r)
    BY <1>9, BookChanges
  <2>1. PICK g, r : BookDone(k, g, r)
    BY <2>0
  <2>2. working' = working
    BY <2>1 DEF BookDone, workerVars
  <2>3. FlagsStay(m)
    <3>1. CASE k = m
      <4>1. ~r.closed /\ ~r.ordersCleared
        <5>1. ~MarketFor(m).ordersCleared
          <6>1. CASE current[m] = 0
            BY <6>1, MarketForIs
          <6>2. CASE current[m] # 0
            <7>1. <<m, current[m]>> \in Object /\ It(m) = object[<<m, current[m]>>]
              BY <6>2, CurrentIs
            <7>2. ~It(m).ordersCleared
              BY <1>1, <7>1 DEF Fresh
            <7> QED
              BY <6>2, <7>2, MarketForIs
          <6> QED
            BY <6>1, <6>2
        <5> QED
          BY <2>1, <3>1, <5>1 DEF BookDone
      <4> QED
        BY <2>1, <4>1 DEF BookDone, FlagsStay
    <3>2. CASE k # m
      <4>1. \A y \in Object : y[1] = m => object'[y] = object[y]
        BY <2>1, <3>2 DEF BookDone
      <4> QED
        BY <4>1 DEF FlagsStay
    <3> QED
      BY <3>1, <3>2
  <2>4. CASE queue' = Tail(queue)
    <3>1. QueueMoves(o)
      BY <2>1, <2>4 DEF QueueMoves, BookDone
    <3> QED
      BY <1>1, <1>3, <1>5, <2>2, <2>3, <3>1, FreshKept
  <2>5. CASE Head(queue).status = "CLOSED"
             /\ queue' = Append(Tail(queue), Event("CLOSE_MARKET", k, {}))
    <3>1. PICK e : e = Event("CLOSE_MARKET", k, {})
      OBVIOUS
    <3>2. k # m
      <4>1. queue # <<>> /\ Head(queue).market = k /\ Head(queue) = queue[1] /\ 1 \in 1..Len(queue)
        BY <2>1, EmptySeq DEF BookDone, TypeInv, QueueOK
      <4> QED
        BY <1>1, <2>5, <4>1 DEF Fresh
    <3>3. Quiet(e, m)
      BY <3>1, <3>2 DEF Quiet, Event
    <3>4. QueueMoves(e)
      BY <2>1, <2>5, <3>1 DEF QueueMoves, BookDone
    <3> QED
      BY <1>1, <1>5, <2>2, <2>3, <3>3, <3>4, FreshKept
  <2> QED
    BY <2>1, <2>4, <2>5 DEF BookDone
<1>10. ASSUME ProcessCloseMarket \/ ProcessClearedOrders \/ ProcessClearedMarkets
       PROVE  Fresh(m)'
  <2>1. /\ queue # <<>> /\ Head(queue).type # "MARKET_BOOK" /\ queue' = Tail(queue)
        /\ working' = working
    BY <1>10 DEF ProcessCloseMarket, ProcessClearedOrders, ProcessClearedMarkets, Handling, workerVars
  <2>2. Head(queue).market # m
    <3>1. Head(queue) = queue[1] /\ 1 \in 1..Len(queue)
      BY <2>1, EmptySeq DEF TypeInv, QueueOK
    <3> QED
      BY <1>1, <2>1, <3>1 DEF Fresh
  <2>3. FlagsStay(m)
    <3>1. CASE ProcessCloseMarket
      BY <2>2, <3>1, CloseChanges DEF CloseDone, FlagsStay
    <3>2. CASE ProcessClearedOrders
      BY <3>2, ClearedChanges DEF ClearedDone, FlagsStay
    <3>3. CASE ProcessClearedMarkets
      BY <1>4, <3>3 DEF ProcessClearedMarkets, mainVars
    <3> QED
      BY <1>10, <3>1, <3>2, <3>3
  <2>4. QueueMoves(o)
    BY <2>1 DEF QueueMoves
  <2> QED
    BY <1>1, <1>3, <1>5, <2>1, <2>3, <2>4, FreshKept
<1>11. ASSUME Poll
       PROVE  Fresh(m)'
  <2>1. queue' = queue /\ object' = object
    BY <1>11 DEF Poll, mainVars
  <2>2. ASSUME NEW i \in 1..Len(working'), working'[i][1] = m
        PROVE  FALSE
    <3>1. current[m] # 0 /\ It(m).closed
      BY <1>11, <2>2, PollStep
    <3>2. <<m, current[m]>> \in Object /\ It(m) = object[<<m, current[m]>>]
      BY <3>1, CurrentIs
    <3> QED
      BY <1>1, <3>1, <3>2 DEF Fresh
  <2>3. QueueMoves(o)
    BY <2>1 DEF QueueMoves
  <2> QED
    BY <1>1, <1>3, <1>4, <2>1, <2>2, <2>3, FreshKept
<1>12. ASSUME Request
       PROVE  Fresh(m)'
  <2>1. at # "idle" /\ (working' = working \/ NextMarket) /\ object' = object
    <3>1. at # "idle" /\ (working' = working \/ NextMarket)
      BY <1>12, RequestMoves
    <3>2. UNCHANGED <<exchange, mainVars>>
      BY <1>12, RequestMoves
    <3> QED
      BY <3>1, <3>2 DEF mainVars
  <2>2. Working[1] # m /\ \A i \in 1..Len(working') : working'[i][1] # m
    BY <1>1, <2>1, FreshWorks
  <2>3. PICK e : QueueMoves(e) /\ e.market = Working[1]
    BY <1>12, RequestMoves
  <2>4. Quiet(e, m)
    BY <2>2, <2>3 DEF Quiet
  <2> QED
    BY <1>1, <1>4, <2>1, <2>2, <2>3, <2>4, FreshKept
<1>13. ASSUME SetOrdersCleared \/ SetMarketCleared
       PROVE  Fresh(m)'
  <2>1. at # "idle" /\ Working \in Object /\ queue' = queue
    BY <1>13, SetStep
  <2>2. working' = working \/ NextMarket
    BY <1>13 DEF SetOrdersCleared, SetMarketCleared, Goto
  <2>3. Working[1] # m /\ \A i \in 1..Len(working') : working'[i][1] # m
    BY <1>1, <2>1, <2>2, FreshWorks
  <2>4. FlagsStay(m)
    BY <1>13, <2>3, SetChanges DEF FlagsStay
  <2>5. QueueMoves(o)
    BY <2>1 DEF QueueMoves
  <2> QED
    BY <1>1, <1>3, <2>3, <2>4, <2>5, FreshKept
<1>14. CASE UNCHANGED vars
  BY <1>1, <1>14 DEF Fresh, vars, mainVars, workerVars
<1> QED
  BY <1>6, <1>7, <1>8, <1>9, <1>10, <1>11, <1>12, <1>13, <1>14
     DEF Next, Exchange, Stream, Main, Worker, Request

\* A bet that is new to an object is the last the exchange took.
LEMMA BetsStep ==
  ASSUME TypeInv, [Next]_vars, NEW y \in Object, NEW b \in object'[y].bets
  PROVE  \/ b \in object[y].bets
         \/ /\ b = exchange'[y[1]].placed /\ exchange[y[1]].status = "OPEN"
            /\ ProcessMarketBook
<1>1. CASE object' = object
  BY <1>1
<1>2. ASSUME NEW k \in Market, Expire(k)
      PROVE  b \in object[y].bets
  BY <1>2, ExpireChanges
<1>3. ASSUME ProcessMarketBook
      PROVE  \/ b \in object[y].bets
             \/ b = exchange'[y[1]].placed /\ exchange[y[1]].status = "OPEN"
  <2>0. PICK k \in Market : \E g, r : BookDone(k, g, r)
    BY <1>3, BookChanges
  <2>1. PICK g, r : BookDone(k, g, r)
    BY <2>0
  <2>2. CASE y = <<k, g>>
    <3>1. y[1] = k /\ object'[y] = r
      BY <2>1, <2>2 DEF BookDone
    <3>2. MarketFor(k).bets \subseteq object[y].bets
      <4>1. CASE current[k] = 0
        BY <4>1, MarketForIs
      <4>2. CASE current[k] # 0
        <5>1. g = current[k] /\ MarketFor(k).bets = It(k).bets
          BY <2>1, <4>2, MarketForIs DEF BookDone
        <5>2. It(k) = object[<<k, g>>]
          BY <4>2, <5>1, CurrentIs
        <5> QED
          BY <2>2, <5>1, <5>2
      <4> QED
        BY <4>1, <4>2
    <3>3. \/ r.bets = MarketFor(k).bets
          \/ /\ exchange[k].status = "OPEN"
             /\ r.bets = MarketFor(k).bets \cup {exchange'[k].placed}
      BY <2>1 DEF BookDone
    <3> QED
      BY <3>1, <3>2, <3>3
  <2>3. CASE y # <<k, g>>
    BY <2>1, <2>3 DEF BookDone
  <2> QED
    BY <2>2, <2>3
<1>4. ASSUME ProcessCloseMarket
      PROVE  b \in object[y].bets
  BY <1>4, CloseChanges DEF CloseDone
<1>5. ASSUME ProcessClearedOrders
      PROVE  b \in object[y].bets
  BY <1>5, ClearedChanges DEF ClearedDone
<1>6. ASSUME SetOrdersCleared \/ SetMarketCleared
      PROVE  b \in object[y].bets
  BY <1>6, SetChanges
<1> QED
  BY <1>1, <1>2, <1>3, <1>4, <1>5, <1>6
     DEF Next, vars, mainVars, Exchange, Stream, Main, Worker, ChangeStatus, Publish,
         ProcessClearedMarkets, Poll, SkipOrders, GetClearedOrders, FailOrders,
         GetClearedMarket, PassMarket

LEMMA PlacedStep ==
  ASSUME TypeInv, Placed, [Next]_vars
  PROVE  Placed'
<1> SUFFICES ASSUME NEW x \in Object, NEW b \in object'[x].bets
             PROVE  b <= exchange'[x[1]].placed
  BY DEF Placed
<1>1. PICK m \in Market : m = x[1]
  BY ObjectIs
<1>2. exchange[m].placed \in Nat /\ exchange'[m].placed \in Nat
  <2>1. TypeInv'
    BY TypeStep
  <2> QED
    BY <2>1 DEF TypeInv, ExchangeOK, ExchangeRecord
<1>3. CASE b \in object[x].bets
  <2>1. b <= exchange[m].placed /\ exchange[m].placed <= exchange'[m].placed
    BY <1>1, <1>2, <1>3, ExchangeStep DEF Placed
  <2>2. b \in Nat
    <3>1. b \in Bets
      BY <1>3 DEF TypeInv, ObjectOK, MarketRecord
    <3>2. \A n \in Market : MaxBets[n] \in Nat
      BY BoundAssumption
    <3> QED
      BY <3>1, <3>2 DEF Bets
  <2> QED
    BY <1>1, <1>2, <2>1, <2>2
<1>4. CASE b = exchange'[m].placed
  BY <1>1, <1>2, <1>4
<1> QED
  BY <1>1, <1>3, <1>4, BetsStep

\* The object of a market stays, with its bets and what was delivered of them.
BetsStay(m) ==
  /\ current'[m] = current[m] /\ It(m)'.bets = It(m).bets
  /\ \A b \in It(m).bets : Kept(m, b) => Kept(m, b)'
Stays(m) == BetsStay(m) /\ (It(m)'.ordersCleared => It(m).ordersCleared)

LEMMA DeliveredStays ==
  ASSUME NEW m, NEW n, NEW k, BetsStay(m), Delivered(m, n),
         \A b \in It(m).bets : b <= k => b <= n \/ Kept(m, b)'
  PROVE  \A b \in It(m)'.bets : b <= k => Kept(m, b)'
BY DEF BetsStay, Delivered

\* What remains of Paged when the worker does nothing, or works on another market
LEMMA ClearedStays ==
  ASSUME NEW m, BetsStay(m), exchange'[m].placed = exchange[m].placed,
         Delivered(m, exchange[m].placed)
  PROVE  Delivered(m, exchange[m].placed)'
<1>1. PICK n : n = exchange[m].placed
  OBVIOUS
<1>2. Delivered(m, n)
  BY <1>1
<1>3. \A b \in It(m)'.bets : b <= n => Kept(m, b)'
  BY <1>2, DeliveredStays
<1> QED
  BY <1>1, <1>3 DEF Delivered

LEMMA PagedStays ==
  ASSUME NEW m, Stays(m), UNCHANGED workerVars,
         exchange'[m].placed = exchange[m].placed,
         It(m).ordersCleared => Delivered(m, exchange[m].placed), PagesOf(m)
  PROVE  /\ It(m)'.ordersCleared => Delivered(m, exchange[m].placed)'
         /\ PagesOf(m)'
<1>1. working' = working /\ at' = at /\ from' = from
  BY DEF workerVars
<1>2. ASSUME NEW n, Delivered(m, n)
      PROVE  \A b \in It(m)'.bets : b <= n => Kept(m, b)'
  BY <1>2, DeliveredStays DEF Stays
<1>3. It(m)'.ordersCleared => Delivered(m, exchange[m].placed)'
  BY ClearedStays DEF Stays
<1>4. PagesOf(m)'
  <2> SUFFICES ASSUME working # <<>>, Working[1] = m
               PROVE  /\ at = "orders" => Delivered(m, from)'
                      /\ at = "ordersCleared" => Delivered(m, exchange[m].placed)'
    BY <1>1 DEF PagesOf, Working
  <2>1. ASSUME at = "orders"
        PROVE  Delivered(m, from)'
    <3>1. PICK n : n = from
      OBVIOUS
    <3>2. Delivered(m, n)
      BY <2>1, <3>1 DEF PagesOf
    <3> QED
      BY <1>1, <1>2, <3>1, <3>2 DEF Delivered
  <2>2. ASSUME at = "ordersCleared"
        PROVE  Delivered(m, exchange[m].placed)'
    BY <2>2, ClearedStays DEF PagesOf, Stays
  <2> QED
    BY <2>1, <2>2
<1> QED
  BY <1>3, <1>4

LEMMA StaysWhen ==
  ASSUME TypeInv, NEW m \in Market, current[m] # 0, current'[m] = current[m], NEW x \in Object,
         x = <<m, current[m]>>,
         object'[x].bets = object[x].bets, object[x].cleared \subseteq object'[x].cleared,
         object'[x].ordersCleared => object[x].ordersCleared,
         \A b \in object[x].bets : Waiting(m, b) => Waiting(m, b)' \/ b \in object'[x].cleared
  PROVE  Stays(m)
<1>1. It(m) = object[x] /\ It(m)' = object'[x]
  BY DEF It
<1>2. \A b \in It(m).bets : Kept(m, b) => Kept(m, b)'
  BY <1>1 DEF Kept
<1> QED
  BY <1>1, <1>2 DEF Stays, BetsStay

\* A step of the exchange, of the stream or of the main thread that takes no bet
LEMMA PagedMain ==
  ASSUME LostInv, [Next]_vars, NEW m \in Market, exchange'[m].reopens = 0, current'[m] # 0,
         \/ \E k \in Market : ChangeStatus(k) \/ Expire(k) \/ Publish(k)
         \/ Main \/ UNCHANGED vars,
         current[m] # 0, exchange'[m].placed = exchange[m].placed
  PROVE  /\ It(m)'.ordersCleared => Delivered(m, exchange[m].placed)'
         /\ PagesOf(m)'
<1> USE DEF LostInv
<1>1. exchange[m].reopens = 0
  BY ExchangeStep
<1>2. (It(m).ordersCleared => Delivered(m, exchange[m].placed)) /\ PagesOf(m)
  BY <1>1 DEF Paged
<1>3. PICK x \in Object : x = <<m, current[m]>> /\ It(m) = object[x]
  BY CurrentIs
<1>4. ASSUME queue' = queue, object' = object, current' = current, UNCHANGED workerVars
      PROVE  Stays(m) /\ UNCHANGED workerVars
  <2>1. \A b : Waiting(m, b) => Waiting(m, b)'
    BY <1>4 DEF Waiting
  <2> QED
    BY <1>3, <1>4, <2>1, StaysWhen
<1>5. ASSUME NEW k \in Market, ChangeStatus(k)
      PROVE  Stays(m) /\ UNCHANGED workerVars
  BY <1>4, <1>5 DEF ChangeStatus, mainVars, workerVars
<1>6. ASSUME NEW k \in Market, Expire(k)
      PROVE  Stays(m) /\ UNCHANGED workerVars
  <2>1. queue' = queue /\ current' = current /\ UNCHANGED workerVars
    BY <1>6 DEF Expire
  <2>2. \A b : Waiting(m, b) => Waiting(m, b)'
    BY <2>1 DEF Waiting
  <2>3. /\ object'[x].bets = object[x].bets /\ object'[x].cleared = object[x].cleared
        /\ object'[x].ordersCleared = object[x].ordersCleared
    BY <1>6, ExpireChanges
  <2> QED
    BY <1>3, <2>1, <2>2, <2>3, StaysWhen
<1>7. ASSUME NEW k \in Market, Publish(k)
      PROVE  Stays(m) /\ UNCHANGED workerVars
  <2>1. PICK e : e = Book(k, exchange[k].status)
    OBVIOUS
  <2>2. /\ queue' = Append(queue, e) /\ object' = object /\ current' = current
        /\ UNCHANGED workerVars
    BY <1>7, <2>1 DEF Publish, mainVars
  <2>3. \A b : Waiting(m, b) => Waiting(m, b)'
    BY <2>2, AppendKeeps
  <2> QED
    BY <1>3, <2>2, <2>3, StaysWhen
<1>8. ASSUME ProcessMarketBook
      PROVE  Stays(m) /\ UNCHANGED workerVars
  <2>1. PICK k \in Market : \E g, r : BookDone(k, g, r)
    BY <1>8, BookChanges
  <2>2. PICK g, r : BookDone(k, g, r)
    BY <2>1
  <2>3. current'[m] = current[m]
    BY <2>1, <2>2, MarketForIs DEF BookDone
  <2>4. ASSUME NEW b, Waiting(m, b)
        PROVE  Waiting(m, b)'
    <3>1. PICK e : e = Event("CLOSE_MARKET", k, {})
      OBVIOUS
    <3>2. /\ queue # <<>> /\ (queue' = Tail(queue) \/ queue' = Append(Tail(queue), e))
          /\ ~Carries(Head(queue), m, b)
      BY <2>2, <3>1 DEF BookDone, Carries
    <3> QED
      BY <2>4, <3>2, TailKeeps
  <2>5. /\ object'[x].bets = object[x].bets /\ object'[x].cleared = object[x].cleared
        /\ object'[x].ordersCleared => object[x].ordersCleared
    <3>1. CASE x = <<k, g>>
      <4>1. k = m /\ object'[x] = r
        BY <1>3, <2>2, <3>1 DEF BookDone
      <4>2. /\ MarketFor(m).bets = It(m).bets /\ MarketFor(m).cleared = It(m).cleared
            /\ MarketFor(m).ordersCleared => It(m).ordersCleared
        BY MarketForIs
      <4>3. r.bets = MarketFor(m).bets
        <5>1. exchange[m].placed \in Nat
          BY DEF TypeInv, ExchangeOK, ExchangeRecord
        <5>2. exchange'[m].placed # exchange[m].placed + 1
          BY <5>1
        <5> QED
          BY <2>2, <4>1, <5>2 DEF BookDone
      <4>4. r.cleared = MarketFor(m).cleared /\ (r.ordersCleared <=> MarketFor(m).ordersCleared)
        BY <2>2, <4>1 DEF BookDone
      <4> QED
        BY <1>3, <4>1, <4>2, <4>3, <4>4
    <3>2. CASE x # <<k, g>>
      BY <2>2, <3>2 DEF BookDone
    <3> QED
      BY <3>1, <3>2
  <2>6. UNCHANGED workerVars
    BY <2>2 DEF BookDone
  <2> QED
    BY <1>3, <2>3, <2>4, <2>5, <2>6, StaysWhen
<1>9. ASSUME ProcessCloseMarket
      PROVE  Stays(m) /\ UNCHANGED workerVars
  <2>1. PICK k \in Market : CloseDone(k)
    BY <1>9, CloseChanges
  <2>2. current'[m] = current[m] /\ UNCHANGED workerVars
    BY <2>1 DEF CloseDone
  <2>3. ASSUME NEW b, Waiting(m, b)
        PROVE  Waiting(m, b)'
    <3>1. queue # <<>> /\ queue' = Tail(queue) /\ ~Carries(Head(queue), m, b)
      BY <2>1 DEF CloseDone, Carries
    <3> QED
      BY <2>3, <3>1, TailKeeps
  <2>4. /\ object'[x].bets = object[x].bets /\ object'[x].cleared = object[x].cleared
        /\ object'[x].ordersCleared = object[x].ordersCleared
    BY <2>1 DEF CloseDone
  <2> QED
    BY <1>3, <2>2, <2>3, <2>4, StaysWhen
<1>10. ASSUME ProcessClearedOrders
       PROVE  Stays(m) /\ UNCHANGED workerVars
  <2>1. PICK k \in Market : ClearedDone(k)
    BY <1>10, ClearedChanges
  <2>2. current'[m] = current[m] /\ UNCHANGED workerVars
    BY <2>1 DEF ClearedDone
  <2>3. ASSUME NEW b \in object[x].bets, Waiting(m, b)
        PROVE  Waiting(m, b)' \/ b \in object'[x].cleared
    <3>1. queue # <<>> /\ queue' = Tail(queue)
      BY <2>1 DEF ClearedDone
    <3>2. Waiting(m, b)' \/ Carries(Head(queue), m, b)
      BY <2>3, <3>1, TailKeeps
    <3>3. ASSUME Carries(Head(queue), m, b)
          PROVE  b \in object'[x].cleared
      <4>1. k = m /\ b \in Head(queue).records
        BY <2>1, <3>3 DEF ClearedDone, Carries
      <4> QED
        BY <1>3, <2>1, <2>3, <4>1 DEF ClearedDone
    <3> QED
      BY <3>2, <3>3
  <2>4. /\ object'[x].bets = object[x].bets /\ object[x].cleared \subseteq object'[x].cleared
        /\ object'[x].ordersCleared = object[x].ordersCleared
    BY <2>1 DEF ClearedDone
  <2> QED
    BY <1>3, <2>2, <2>3, <2>4, StaysWhen
<1>11. ASSUME ProcessClearedMarkets
       PROVE  Stays(m) /\ UNCHANGED workerVars
  <2>1. /\ queue # <<>> /\ Head(queue).type = "CLEARED_MARKETS" /\ queue' = Tail(queue)
        /\ object' = object /\ current' = current /\ UNCHANGED workerVars
    BY <1>11 DEF ProcessClearedMarkets, Handling, mainVars
  <2>2. ASSUME NEW b, Waiting(m, b)
        PROVE  Waiting(m, b)'
    <3>1. ~Carries(Head(queue), m, b)
      BY <2>1 DEF Carries
    <3> QED
      BY <2>1, <2>2, <3>1, TailKeeps
  <2> QED
    BY <1>3, <2>1, <2>2, StaysWhen
<1>12. ASSUME UNCHANGED vars
       PROVE  Stays(m) /\ UNCHANGED workerVars
  <2>1. queue' = queue /\ object' = object /\ current' = current
    BY <1>12 DEF vars, mainVars
  <2>2. UNCHANGED workerVars
    BY <1>12 DEF vars
  <2> QED
    BY <1>4, <2>1, <2>2
<1>13. Stays(m) /\ UNCHANGED workerVars
  <2>1. ASSUME NEW k \in Market, ChangeStatus(k) \/ Expire(k) \/ Publish(k)
        PROVE  Stays(m) /\ UNCHANGED workerVars
    BY <1>5, <1>6, <1>7, <2>1
  <2>2. ASSUME Main
        PROVE  Stays(m) /\ UNCHANGED workerVars
    BY <1>8, <1>9, <1>10, <1>11, <2>2 DEF Main
  <2> QED
    BY <1>12, <2>1, <2>2
<1> QED
  BY <1>2, <1>13, PagedStays

\* Bets are numbered from 1.
LEMMA NoneBelow ==
  ASSUME TypeInv, NEW m \in Market, current[m] # 0
  PROVE  (\A b \in It(m).bets : b \in Bets /\ b \in Nat /\ b >= 1) /\ Delivered(m, 0)
<1>1. It(m).bets \subseteq Bets
  <2>1. <<m, current[m]>> \in Object /\ It(m) = object[<<m, current[m]>>]
    BY CurrentIs
  <2> QED
    BY <2>1 DEF TypeInv, ObjectOK, MarketRecord
<1>2. \A b \in Bets : b \in Nat /\ b >= 1
  <2>1. \A n \in Market : MaxBets[n] \in Nat
    BY BoundAssumption
  <2> QED
    BY <2>1 DEF Bets
<1>3. \A b \in It(m).bets : b \in Bets /\ b \in Nat /\ b >= 1
  BY <1>1, <1>2
<1> QED
  BY <1>3 DEF Delivered

\* Before the exchange first closes the market there is nothing to deliver.
NothingDue ==
  \A m \in Market :
    TypeInv /\ NotClosedYet /\ FirstOpen(m) /\ current[m] # 0 =>
      ~It(m).ordersCleared /\ PagesOf(m)

LEMMA PagedFresh == NothingDue
<1> SUFFICES ASSUME TypeInv, NotClosedYet, NEW m \in Market, FirstOpen(m), current[m] # 0
             PROVE  ~It(m).ordersCleared /\ PagesOf(m)
  BY DEF NothingDue
<1>1. Fresh(m)
  BY DEF NotClosedYet
<1>2. ~It(m).ordersCleared
  <2>1. <<m, current[m]>> \in Object /\ It(m) = object[<<m, current[m]>>]
    BY CurrentIs
  <2> QED
    BY <1>1, <2>1 DEF Fresh
<1>3. PagesOf(m)
  <2>1. working # <<>> => Len(working) \in Nat \ {0} /\ Working = working[1]
    BY EmptySeq DEF TypeInv, WorkerOK, Working
  <2>2. working # <<>> => Working[1] # m
    BY <1>1, <2>1 DEF Fresh
  <2> QED
    BY <2>2 DEF PagesOf
<1> QED
  BY <1>2, <1>3

\* A market that gets its object has no bets to deliver.
LEMMA PagedNew ==
  ASSUME LostInv, [Next]_vars, NEW m \in Market, exchange'[m].placed = exchange[m].placed,
         current[m] = 0, current'[m] # 0
  PROVE  /\ It(m)'.ordersCleared => Delivered(m, exchange[m].placed)'
         /\ PagesOf(m)'
<1> USE DEF LostInv
<1>1. ProcessMarketBook
  <2>1. CASE UNCHANGED current
    BY <2>1
  <2>2. ASSUME ProcessCloseMarket
        PROVE  FALSE
    BY <2>2, CloseChanges DEF CloseDone
  <2> QED
    BY <2>1, <2>2
       DEF Next, vars, mainVars, Exchange, Stream, Main, Worker, ChangeStatus, Expire, Publish,
           ProcessClearedOrders, ProcessClearedMarkets, Poll, SkipOrders, GetClearedOrders,
           FailOrders, SetOrdersCleared, GetClearedMarket, PassMarket, SetMarketCleared
<1>2. PICK k \in Market : \E g, r : BookDone(k, g, r)
  BY <1>1, BookChanges
<1>3. PICK g, r : BookDone(k, g, r)
  BY <1>2
<1>4. k = m
  BY <1>3 DEF BookDone
<1>5. It(m)' = r
  BY <1>3, <1>4 DEF BookDone, It
<1>6. r.bets = {}
  <2>1. MarketFor(m).bets = {}
    BY MarketForIs
  <2>2. exchange[m].placed \in Nat
    BY DEF TypeInv, ExchangeOK, ExchangeRecord
  <2>3. exchange'[m].placed # exchange[m].placed + 1
    BY <2>2
  <2> QED
    BY <1>3, <1>4, <2>1, <2>3 DEF BookDone
<1>7. Delivered(m, exchange[m].placed)' /\ Delivered(m, from)'
  BY <1>5, <1>6 DEF Delivered
<1> QED
  BY <1>7 DEF PagesOf

\* Between the first request for a market and the last page, nothing more is due.
NothingAsked ==
  \A m \in Market :
    TypeInv /\ current[m] # 0 /\ at # "ordersCleared" /\ (at = "orders" => from = 0) => PagesOf(m)

LEMMA PagesNone == NothingAsked
BY NoneBelow DEF PagesOf, NothingAsked

\* Both hold in the next state too.
LEMMA PagesNext == NothingDue' /\ NothingAsked'
<1>1. NothingDue'
  BY PagedFresh, PTL
<1>2. NothingAsked'
  BY PagesNone, PTL
<1> QED
  BY <1>1, <1>2

\* A page that is put on the queue carries the bets after from, up to its end.
LEMMA PageCarries ==
  ASSUME LostInv, NEW m \in Market, current[m] # 0, exchange[m].status # "OPEN",
         GetClearedOrders, Working[1] = m, NEW b \in It(m).bets, b > from, b <= from + PageSize
  PROVE  Waiting(m, b)'
<1>1. b \in Bets /\ b \in Nat
  BY NoneBelow DEF LostInv
<1>2. b <= exchange[m].placed /\ Settled(m) = exchange[m].placed
  <2>1. <<m, current[m]>> \in Object /\ It(m) = object[<<m, current[m]>>]
    BY CurrentIs DEF LostInv
  <2>2. exchange[m].status = "CLOSED"
    BY DEF LostInv, TypeInv, ExchangeOK, ExchangeRecord
  <2>3. b <= exchange[<<m, current[m]>>[1]].placed
    BY <2>1 DEF LostInv, Placed
  <2> QED
    BY <2>2, <2>3 DEF Settled
<1>3. PICK s : s = {c \in Bets : from < c /\ c <= from + PageSize /\ c <= Settled(m)}
  OBVIOUS
<1>4. PICK e : e = Event("CLEARED_ORDERS", m, s)
  OBVIOUS
<1>5. queue' = Append(queue, e)
  BY <1>3, <1>4 DEF GetClearedOrders
<1>6. b \in s
  <2>1. from \in Nat
    BY DEF LostInv, TypeInv, WorkerOK
  <2> QED
    BY <1>1, <1>2, <1>3, <2>1
<1>7. Carries(e, m, b)
  BY <1>4, <1>6 DEF Carries, Event
<1> QED
  BY <1>5, <1>7, AppendKeeps DEF LostInv

\* A step of the worker, for a market the exchange has closed once
LEMMA PagedWorker ==
  ASSUME LostInv, Worker, TypeInv', NEW m \in Market, exchange[m].reopens = 0, current[m] # 0,
         exchange[m].status # "OPEN"
  PROVE  /\ It(m)'.ordersCleared => Delivered(m, exchange[m].placed)'
         /\ PagesOf(m)'
<1> USE DEF LostInv
<1>1. (It(m).ordersCleared => Delivered(m, exchange[m].placed)) /\ PagesOf(m)
  BY DEF Paged
<1>2. PICK x \in Object : x = <<m, current[m]>> /\ It(m) = object[x]
  BY CurrentIs
<1>3. exchange' = exchange /\ current' = current
  BY DEF Worker, Poll, SkipOrders, GetClearedOrders, FailOrders, SetOrdersCleared,
         GetClearedMarket, PassMarket, SetMarketCleared, mainVars
<1>4. It(m)' = object'[x] /\ current'[m] # 0
  BY <1>2, <1>3 DEF It
<1>5. ASSUME NEW b, Waiting(m, b)
      PROVE  Waiting(m, b)'
  <2>1. queue' = queue \/ \E e : queue' = Append(queue, e)
    BY DEF Worker, Poll, SkipOrders, GetClearedOrders, FailOrders, SetOrdersCleared,
           GetClearedMarket, PassMarket, SetMarketCleared
  <2>2. CASE queue' = queue
    BY <1>5, <2>2 DEF Waiting
  <2>3. CASE \E e : queue' = Append(queue, e)
    BY <1>5, <2>3, AppendKeeps
  <2> QED
    BY <2>1, <2>2, <2>3
<1>6. object'[x].bets = object[x].bets /\ object'[x].cleared = object[x].cleared
  <2>1. CASE SetOrdersCleared \/ SetMarketCleared
    BY <2>1, SetChanges
  <2>2. CASE object' = object
    BY <2>2
  <2> QED
    BY <2>1, <2>2 DEF Worker, Poll, SkipOrders, GetClearedOrders, FailOrders,
                      GetClearedMarket, PassMarket, mainVars
<1>7. BetsStay(m)
  BY <1>2, <1>3, <1>4, <1>5, <1>6 DEF BetsStay, Kept
<1>8. It(m)'.ordersCleared => Delivered(m, exchange[m].placed)'
  <2> SUFFICES ASSUME It(m)'.ordersCleared
               PROVE  Delivered(m, exchange[m].placed)
    BY <1>3, <1>7, ClearedStays
  <2>1. CASE SetOrdersCleared
    <3>1. CASE x = Working
      <4>1. at = "ordersCleared" /\ working # <<>> /\ Working[1] = m
        BY <1>2, <2>1, <3>1, WorkingIs DEF SetOrdersCleared
      <4> QED
        BY <1>1, <4>1 DEF PagesOf
    <3>2. CASE x # Working
      <4>1. It(m).ordersCleared
        BY <1>2, <1>4, <2>1, <3>2, SetChanges
      <4> QED
        BY <1>1, <4>1
    <3> QED
      BY <3>1, <3>2
  <2>2. CASE SetMarketCleared
    <3>1. at # "ordersCleared"
      BY <2>2 DEF SetMarketCleared
    <3>2. It(m).ordersCleared
      BY <1>2, <1>4, <2>2, <3>1, SetChanges
    <3> QED
      BY <1>1, <3>2
  <2>3. CASE object' = object
    BY <1>1, <1>2, <1>4, <2>3
  <2> QED
    BY <2>1, <2>2, <2>3 DEF Worker, Poll, SkipOrders, GetClearedOrders, FailOrders,
                            GetClearedMarket, PassMarket, mainVars
<1>9. PagesOf(m)'
  <2>1. CASE GetClearedOrders
    <3>1. at = "orders" /\ working' = working
      BY <2>1 DEF GetClearedOrders, Goto
    <3>2. CASE Working[1] # m
      BY <3>1, <3>2 DEF PagesOf, Working
    <3>3. CASE Working[1] = m
      <4>1. from \in Nat /\ PageSize \in Nat \ {0} /\ exchange[m].placed \in Nat
        BY BoundAssumption DEF TypeInv, WorkerOK, ExchangeOK, ExchangeRecord
      <4>2. \A b \in It(m).bets : b \in Nat
        BY NoneBelow
      <4>3. Delivered(m, from)
        BY <1>1, <3>1, <3>3, WorkingIs DEF PagesOf
      <4>4. ASSUME NEW k \in Nat, k <= from + PageSize
            PROVE  \A b \in It(m)'.bets : b <= k => Kept(m, b)'
        <5>1. PICK n : n = from
          OBVIOUS
        <5>2. Delivered(m, n)
          BY <4>3, <5>1
        <5>3. ASSUME NEW b \in It(m).bets, b <= k
              PROVE  b <= n \/ Kept(m, b)'
          <6>1. CASE b <= from
            BY <5>1, <6>1
          <6>2. CASE b > from
            <7>1. b <= from + PageSize
              BY <4>1, <4>2, <4>4, <5>3
            <7>2. Waiting(m, b)'
              BY <2>1, <3>3, <6>2, <7>1, PageCarries
            <7> QED
              BY <7>2 DEF Kept
          <6> QED
            BY <4>1, <4>2, <6>1, <6>2
        <5> QED
          BY <1>7, <5>2, <5>3, DeliveredStays
      <4>5. CASE LastPage(m)
        <5>1. at' = "ordersCleared" /\ exchange[m].placed <= from + PageSize
          <6>1. Settled(m) = exchange[m].placed
            BY DEF Settled, TypeInv, ExchangeOK, ExchangeRecord
          <6> QED
            BY <2>1, <3>3, <4>1, <4>5, <6>1 DEF GetClearedOrders, Goto, LastPage
        <5>2. PICK k \in Nat : k = exchange[m].placed
          BY <4>1
        <5>3. \A b \in It(m)'.bets : b <= k => Kept(m, b)'
          BY <4>4, <5>1, <5>2
        <5>4. Delivered(m, exchange[m].placed)'
          BY <1>3, <5>2, <5>3 DEF Delivered
        <5> QED
          BY <5>1, <5>4 DEF PagesOf
      <4>6. CASE ~LastPage(m)
        <5>1. at' = "orders" /\ from' = from + PageSize
          BY <2>1, <3>1, <3>3, <4>6 DEF GetClearedOrders
        <5>2. PICK k \in Nat : k = from + PageSize
          BY <4>1
        <5>3. \A b \in It(m)'.bets : b <= k => Kept(m, b)'
          BY <4>1, <4>4, <5>2
        <5>4. Delivered(m, from)'
          BY <5>1, <5>2, <5>3 DEF Delivered
        <5> QED
          BY <5>1, <5>4 DEF PagesOf
      <4> QED
        BY <4>5, <4>6
    <3> QED
      BY <3>2, <3>3
  <2>2. CASE ~GetClearedOrders
    <3>1. at' # "ordersCleared" /\ (at' = "orders" => from' = 0)
      BY <2>2 DEF Worker, Poll, SkipOrders, FailOrders, SetOrdersCleared, GetClearedMarket,
                  PassMarket, SetMarketCleared, Goto, NextMarket, TypeInv, WorkerOK
    <3> QED
      BY <1>4, <3>1, PagesNext DEF NothingAsked
  <2> QED
    BY <2>1, <2>2
<1> QED
  BY <1>8, <1>9

LEMMA PagedStep ==
  ASSUME LostInv, [Next]_vars
  PROVE  Paged'
<1> SUFFICES ASSUME NEW m \in Market, exchange'[m].reopens = 0, current'[m] # 0
             PROVE  /\ It(m)'.ordersCleared => Delivered(m, exchange[m].placed)'
                    /\ PagesOf(m)'
  BY DEF Paged
<1>1. TypeInv' /\ NotClosedYet'
  BY TypeStep, NotClosedStep DEF LostInv
<1>2. CASE exchange'[m].status = "OPEN"
  <2>1. FirstOpen(m)'
    BY <1>2 DEF FirstOpen
  <2>2. ~It(m)'.ordersCleared /\ PagesOf(m)'
    BY <1>1, <2>1, PagesNext DEF NothingDue
  <2> QED
    BY <2>2
<1>3. CASE exchange'[m].status # "OPEN"
  <2>1. exchange'[m].placed = exchange[m].placed /\ exchange[m].reopens = 0
    BY <1>3, ExchangeStep DEF LostInv
  <2>2. CASE current[m] = 0
    BY <2>1, <2>2, PagedNew
  <2>3. CASE current[m] # 0 /\ Worker
    <3>1. exchange' = exchange
      BY <2>3 DEF Worker, Poll, SkipOrders, GetClearedOrders, FailOrders, SetOrdersCleared,
                  GetClearedMarket, PassMarket, SetMarketCleared
    <3> QED
      BY <1>1, <1>3, <2>1, <2>3, <3>1, PagedWorker
  <2>4. CASE current[m] # 0 /\ ~Worker
    <3>1. \/ \E k \in Market : ChangeStatus(k) \/ Expire(k) \/ Publish(k)
          \/ Main \/ UNCHANGED vars
      BY <2>4 DEF Next, Exchange, Stream
    <3> QED
      BY <2>1, <2>4, <3>1, PagedMain
  <2> QED
    BY <2>2, <2>3, <2>4
<1> QED
  BY <1>2, <1>3

LEMMA LostInit == Init => LostInv
<1> SUFFICES ASSUME Init
             PROVE  LostInv
  OBVIOUS
<1>1. TypeInv
  BY InitType
<1>2. \A x \in Object : object[x] = NewMarket
  BY DEF Init
<1>3. NotClosedYet
  BY <1>2 DEF Init, NotClosedYet, Fresh, NewMarket
<1>4. Placed
  BY <1>2 DEF Placed, NewMarket
<1>5. Paged
  BY DEF Init, Paged
<1> QED
  BY <1>1, <1>3, <1>4, <1>5 DEF LostInv

LEMMA LostIs == LostInv => NothingLost
<1> SUFFICES ASSUME LostInv, NEW m \in Market, current[m] # 0, exchange[m].reopens = 0,
                    It(m).ordersCleared, NEW b \in It(m).bets
             PROVE  \/ b \in It(m).cleared
                    \/ \E i \in DOMAIN queue : /\ queue[i].type = "CLEARED_ORDERS"
                                               /\ queue[i].market = m /\ b \in queue[i].records
  BY DEF NothingLost
<1>1. Delivered(m, exchange[m].placed)
  BY DEF LostInv, Paged
<1>2. b <= exchange[m].placed
  <2>1. <<m, current[m]>> \in Object /\ It(m) = object[<<m, current[m]>>]
    BY CurrentIs DEF LostInv
  <2>2. b <= exchange[<<m, current[m]>>[1]].placed
    BY <2>1 DEF LostInv, Placed
  <2> QED
    BY <2>2
<1>3. b \in It(m).cleared \/ Waiting(m, b)
  BY <1>1, <1>2 DEF Delivered, Kept
<1>4. DOMAIN queue = 1..Len(queue)
  BY DEF LostInv, TypeInv, QueueOK
<1> QED
  BY <1>3, <1>4 DEF Waiting, Carries

\* Spec => []NothingLost: once orders_cleared is set, the cleared order of every bet of
\* the market is in the blotter or on its way there, whatever pages, failing requests and
\* repeated closures came before; unless the exchange reopened the market (worker.py,
\* baseflumine.py).
THEOREM NothingLostSafe == Spec => []NothingLost
<1>1. Init => LostInv
  BY LostInit
<1>2. LostInv /\ [Next]_vars => LostInv'
  BY TypeStep, NotClosedStep, PlacedStep, PagedStep DEF LostInv
<1> QED
  BY <1>1, <1>2, LostIs, PTL DEF Spec
=============================================================================

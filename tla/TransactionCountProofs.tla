----------------------- MODULE TransactionCountProofs -----------------------
(***************************************************************************)
(* The proofs about TransactionCount.  The inductive invariant says who    *)
(* holds the lock, what a thread has loaded, how far the totals are ahead  *)
(* of the calls that returned, and how much is still to be added.          *)
(***************************************************************************)
EXTENDS TransactionCount, FiniteSetTheorems, TLAPS

-----------------------------------------------------------------------------
(* The inductive invariants *)

\* The main thread validates an order for a transaction that has room for it.
TypeInv == TypeOK /\ (main # "idle" => Room)

\* Where a thread holds the lock
Critical == {"load_total", "store_total", "load_current", "store_current", "release"}

\* The lock is held by the one thread that is inside add_transaction, and a
\* thread that calls it has something to add.
LockInv ==
  /\ \A t \in Thread : pc[t] \in Critical <=> lock = t
  /\ \A t \in Thread : pc[t] \in Critical \cup {"acquire"} => Amount(t) > 0

\* What the thread that holds the lock has added to the total, its call not
\* having returned
Ahead(k) ==
  IF lock # NoThread /\ pc[lock] \in {"load_current", "store_current", "release"}
     /\ Adding(lock) = k
  THEN Amount(lock) ELSE 0

TotalInv ==
  /\ \A k \in Kind : count[Total(k)] = completed[k] + Ahead(k)
  /\ \A t \in Thread : pc[t] = "store_total" => loaded[t] = count[Total(Adding(t))]

CurrentInv ==
  /\ NeverUndercounted
  /\ \A t \in Thread : pc[t] = "store_current" => sinceReset[Adding(t)] <= loaded[t]

-----------------------------------------------------------------------------
(* Type correctness *)

\* The call a thread is in adds to one of the two counts, at most a package.
LEMMA AddTypes ==
  ASSUME TypeOK, NEW t \in Thread
  PROVE  /\ Adding(t) \in Kind
         /\ Amount(t) \in 0..MaxOrders
         /\ Total(Adding(t)) \in Counter
         /\ Current(Adding(t)) \in Counter
<1>1. Adding(t) \in Kind
  BY DEF Adding, Kind
<1>2. adds[t] \in [Kind -> 0..MaxOrders]
  BY DEF TypeOK
<1>3. Amount(t) \in 0..MaxOrders
  BY <1>1, <1>2 DEF Amount
<1>4. Total(Adding(t)) \in Counter /\ Current(Adding(t)) \in Counter
  BY DEF Total, Current, Counter
<1> QED
  BY <1>1, <1>3, <1>4

\* Every step keeps the types: the counters stay natural numbers, a package
\* never holds more than MaxOrders orders (Transaction, MaxTransactionCount).
LEMMA TypeStep ==
  ASSUME TypeInv, [Next]_vars
  PROVE  TypeInv'
<1> USE ThreadAssumption, CountAssumption DEF TypeInv, TypeOK, Room
<1>1. ASSUME NEW t \in Thread, Send(t)
      PROVE  TypeInv'
  BY <1>1 DEF Send, PC
<1>2. ASSUME NEW t \in Thread, Answer(t)
      PROVE  TypeInv'
  <2>1. PICK a \in [Kind -> 0..orders[t]] :
          /\ adds' = [adds EXCEPT ![t] = a]
          /\ pc' = [pc EXCEPT ![t] = IF a = Nothing THEN "free" ELSE "acquire"]
    BY <1>2 DEF Answer
  <2>2. a \in [Kind -> 0..MaxOrders]
    OBVIOUS
  <2>3. adds' \in [Thread -> [Kind -> 0..MaxOrders]]
    BY <2>1, <2>2
  <2>4. pc' \in [Thread -> PC]
    BY <2>1 DEF PC
  <2> QED
    BY <1>2, <2>3, <2>4 DEF Answer, mainVars
<1>3. ASSUME NEW t \in Thread, Acquire(t)
      PROVE  TypeInv'
  BY <1>3 DEF Acquire, mainVars, PC
<1>4. ASSUME NEW t \in Thread, LoadTotal(t)
      PROVE  TypeInv'
  <2>1. count[Total(Adding(t))] \in Nat
    BY AddTypes
  <2> QED
    BY <1>4, <2>1 DEF LoadTotal, mainVars, PC
<1>5. ASSUME NEW t \in Thread, StoreTotal(t)
      PROVE  TypeInv'
  <2>1. loaded[t] + Amount(t) \in Nat
    BY AddTypes
  <2> QED
    BY <1>5, <2>1 DEF StoreTotal, mainVars, PC
<1>6. ASSUME NEW t \in Thread, LoadCurrent(t)
      PROVE  TypeInv'
  <2>1. count[Current(Adding(t))] \in Nat
    BY AddTypes
  <2> QED
    BY <1>6, <2>1 DEF LoadCurrent, mainVars, PC
<1>7. ASSUME NEW t \in Thread, StoreCurrent(t)
      PROVE  TypeInv'
  <2>1. loaded[t] + Amount(t) \in Nat /\ sinceReset[Adding(t)] + Amount(t) \in Nat
    BY AddTypes
  <2> QED
    BY <1>7, <2>1 DEF StoreCurrent, mainVars, PC
<1>8. ASSUME NEW t \in Thread, Release(t)
      PROVE  TypeInv'
  <2>1. completed' \in [Kind -> Nat]
    BY <1>8, AddTypes DEF Release
  <2>2. adds' \in [Thread -> [Kind -> 0..MaxOrders]]
    BY <1>8, AddTypes DEF Release
  <2>3. pc' \in [Thread -> PC]
    BY <1>8 DEF Release, PC
  <2> QED
    BY <1>8, <2>1, <2>2, <2>3 DEF Release, mainVars
<1>9. CASE CheckHour
  BY <1>9 DEF CheckHour, threadVars
<1>10. CASE Reset
  BY <1>10 DEF Reset, ResetCount, threadVars, Current
<1>11. CASE ResetFailed
  BY <1>11 DEF ResetFailed, ResetCount, threadVars, Current
<1>12. CASE Validate
  <2>1. batch' \in 0..MaxOrders
    BY <1>12 DEF Validate
  <2> QED
    BY <1>12, <2>1 DEF Validate, threadVars
<1>13. CASE Tick
  BY <1>13 DEF Tick, threadVars, mainVars
<1>14. CASE UNCHANGED vars
  BY <1>14 DEF vars, threadVars, mainVars
<1> QED
  BY <1>1, <1>2, <1>3, <1>4, <1>5, <1>6, <1>7, <1>8, <1>9, <1>10, <1>11, <1>12, <1>13,
     <1>14 DEF Next, AddTransaction

\* Spec => []TypeOK: the counters are natural numbers, a package has at most
\* MaxOrders orders and a thread adds at most that many (clientcontrols.py).
THEOREM TypeCorrect == Spec => []TypeOK
<1>1. Init => TypeInv
  BY CountAssumption DEF Init, TypeInv, TypeOK, Room, Nothing, PC
<1>2. TypeInv /\ [Next]_vars => TypeInv'
  BY TypeStep
<1>3. TypeInv => TypeOK
  BY DEF TypeInv
<1> QED
  BY <1>1, <1>2, <1>3, PTL DEF Spec

-----------------------------------------------------------------------------
(* The lock *)

\* What a thread adds next does not change while its adds do not.
LEMMA SameAdds ==
  ASSUME NEW t \in Thread, adds'[t] = adds[t]
  PROVE  Adding(t)' = Adding(t) /\ Amount(t)' = Amount(t)
BY DEF Adding, Amount

\* add_transaction is entered and left through the lock only.
LEMMA LockStep ==
  ASSUME TypeInv, LockInv, [Next]_vars
  PROVE  LockInv'
<1> USE ThreadAssumption DEF TypeInv, TypeOK
<1> SUFFICES ASSUME NEW u \in Thread
             PROVE  /\ pc'[u] \in Critical <=> lock' = u
                    /\ pc'[u] \in Critical \cup {"acquire"} => Amount(u)' > 0
  BY DEF LockInv
<1>0. /\ pc[u] \in Critical <=> lock = u
      /\ pc[u] \in Critical \cup {"acquire"} => Amount(u) > 0
  BY DEF LockInv
<1>1. ASSUME NEW t \in Thread, Send(t)
      PROVE  /\ pc'[u] \in Critical <=> lock' = u
             /\ pc'[u] \in Critical \cup {"acquire"} => Amount(u)' > 0
  BY <1>0, <1>1, SameAdds DEF Send, Critical
<1>2. ASSUME NEW t \in Thread, Answer(t)
      PROVE  /\ pc'[u] \in Critical <=> lock' = u
             /\ pc'[u] \in Critical \cup {"acquire"} => Amount(u)' > 0
  <2>1. PICK a \in [Kind -> 0..orders[t]] :
          /\ adds' = [adds EXCEPT ![t] = a]
          /\ pc' = [pc EXCEPT ![t] = IF a = Nothing THEN "free" ELSE "acquire"]
    BY <1>2 DEF Answer
  <2>2. CASE u # t
    BY <1>0, <1>2, <2>1, <2>2, SameAdds DEF Answer
  <2>3. CASE u = t
    <3>1. pc'[u] \notin Critical /\ lock' # u
      BY <1>0, <1>2, <2>1, <2>3 DEF Answer, Critical
    <3>2. a # Nothing => a["placed"] > 0 \/ (a["placed"] = 0 /\ a["failed"] > 0)
      <4>1. a["placed"] \in Nat /\ a["failed"] \in Nat
        BY DEF Kind
      <4>2. a["placed"] = 0 /\ a["failed"] = 0 => a = Nothing
        BY DEF Nothing, Kind
      <4> QED
        BY <4>1, <4>2
    <3>3. a # Nothing => Amount(u)' > 0
      BY <2>1, <2>3, <3>2 DEF Amount, Adding, Kind
    <3> QED
      BY <2>1, <2>3, <3>1, <3>3
  <2> QED
    BY <2>2, <2>3
<1>3. ASSUME NEW t \in Thread, Acquire(t)
      PROVE  /\ pc'[u] \in Critical <=> lock' = u
             /\ pc'[u] \in Critical \cup {"acquire"} => Amount(u)' > 0
  BY <1>0, <1>3, SameAdds DEF Acquire, CanLock, Critical
<1>4. ASSUME NEW t \in Thread, LoadTotal(t)
      PROVE  /\ pc'[u] \in Critical <=> lock' = u
             /\ pc'[u] \in Critical \cup {"acquire"} => Amount(u)' > 0
  BY <1>0, <1>4, SameAdds DEF LoadTotal, Critical
<1>5. ASSUME NEW t \in Thread, StoreTotal(t)
      PROVE  /\ pc'[u] \in Critical <=> lock' = u
             /\ pc'[u] \in Critical \cup {"acquire"} => Amount(u)' > 0
  BY <1>0, <1>5, SameAdds DEF StoreTotal, Critical
<1>6. ASSUME NEW t \in Thread, LoadCurrent(t)
      PROVE  /\ pc'[u] \in Critical <=> lock' = u
             /\ pc'[u] \in Critical \cup {"acquire"} => Amount(u)' > 0
  BY <1>0, <1>6, SameAdds DEF LoadCurrent, Critical
<1>7. ASSUME NEW t \in Thread, StoreCurrent(t)
      PROVE  /\ pc'[u] \in Critical <=> lock' = u
             /\ pc'[u] \in Critical \cup {"acquire"} => Amount(u)' > 0
  BY <1>0, <1>7, SameAdds DEF StoreCurrent, Critical
<1>8. ASSUME NEW t \in Thread, Release(t)
      PROVE  /\ pc'[u] \in Critical <=> lock' = u
             /\ pc'[u] \in Critical \cup {"acquire"} => Amount(u)' > 0
  <2>1. lock = t
    BY <1>8 DEF LockInv, Release, Critical
  <2>2. CASE u # t
    <3>1. adds'[u] = adds[u] /\ pc'[u] = pc[u] /\ lock' # u /\ lock # u
      BY <1>8, <2>1, <2>2 DEF Release
    <3> QED
      BY <1>0, <3>1, SameAdds
  <2>3. CASE u = t
    <3>1. pc'[u] \notin Critical /\ lock' # u
      BY <1>8, <2>3 DEF Release, Critical
    <3>2. pc'[u] = "acquire" => Adding(t) = "placed" /\ adds[t]["failed"] > 0
      BY <1>8, <2>3 DEF Release
    <3>3. Adding(t) = "placed" => adds'[t] = [adds[t] EXCEPT !["placed"] = 0]
      BY <1>8 DEF Release
    <3>4. Adding(t) = "placed" /\ adds[t]["failed"] > 0 => Amount(t)' > 0
      BY <3>3 DEF Amount, Adding, Kind
    <3> QED
      BY <2>3, <3>1, <3>2, <3>4 DEF Critical
  <2> QED
    BY <2>2, <2>3
<1>9. CASE CheckHour \/ Reset \/ ResetFailed \/ Validate \/ Tick \/ UNCHANGED vars
  <2>1. pc' = pc /\ lock' = lock /\ adds' = adds
    BY <1>9 DEF CheckHour, Reset, ResetFailed, ResetCount, Validate, Tick, vars, threadVars
  <2> QED
    BY <1>0, <2>1, SameAdds
<1> QED
  BY <1>1, <1>2, <1>3, <1>4, <1>5, <1>6, <1>7, <1>8, <1>9 DEF Next, AddTransaction

-----------------------------------------------------------------------------
(* The totals since the start *)

\* The counters of the two kinds are four different ones.
LEMMA CounterNames ==
  /\ \A k, m \in Kind : Total(k) = Total(m) => k = m
  /\ \A k, m \in Kind : Current(k) = Current(m) => k = m
  /\ \A k, m \in Kind : Total(k) # Current(m)
  /\ \A k \in Kind : Total(k) \in Counter /\ Current(k) \in Counter
BY DEF Kind, Total, Current, Counter

\* A thread that does not hold the lock is not ahead.
LEMMA AheadOf ==
  ASSUME TypeInv, LockInv, NEW t \in Thread, lock = t
  PROVE  \A k \in Kind :
           Ahead(k) = IF pc[t] \in {"load_current", "store_current", "release"}
                         /\ Adding(t) = k
                      THEN Amount(t) ELSE 0
BY ThreadAssumption DEF Ahead

\* The thread that holds the lock adds to a total exactly what it was given:
\* nobody else stores a total between its load and its store.
LEMMA TotalStep ==
  ASSUME TypeInv, LockInv, TotalInv, [Next]_vars, TypeInv', LockInv'
  PROVE  TotalInv'
<1> USE ThreadAssumption DEF TypeInv, TypeOK
<1>1. ASSUME NEW t \in Thread, Send(t) \/ Answer(t)
      PROVE  TotalInv'
  <2>1. /\ lock' = lock /\ count' = count /\ completed' = completed /\ loaded' = loaded
        /\ pc[t] \in {"free", "waiting"}
        /\ pc'[t] \notin Critical
        /\ \A u \in Thread \ {t} : pc'[u] = pc[u] /\ adds'[u] = adds[u]
    BY <1>1 DEF Send, Answer, Critical
  <2>2. lock # t
    BY <2>1 DEF LockInv, Critical
  <2>3. \A k \in Kind : Ahead(k)' = Ahead(k)
    BY <2>1, <2>2, SameAdds DEF Ahead
  <2> QED
    BY <2>1, <2>3, SameAdds DEF TotalInv, Critical
<1>2. ASSUME NEW t \in Thread, Acquire(t)
      PROVE  TotalInv'
  <2>1. \A k \in Kind : Ahead(k) = 0
    BY <1>2 DEF Acquire, CanLock, Ahead
  <2>2. \A k \in Kind : Ahead(k)' = 0
    BY <1>2 DEF Acquire, Ahead
  <2> QED
    BY <1>2, <2>1, <2>2, SameAdds DEF Acquire, TotalInv
<1>3. ASSUME NEW t \in Thread, LoadTotal(t)
      PROVE  TotalInv'
  <2>1. lock = t /\ lock' = t
    BY <1>3 DEF LoadTotal, LockInv, Critical
  <2>2. \A k \in Kind : Ahead(k) = 0 /\ Ahead(k)' = 0
    BY <1>3, <2>1 DEF LoadTotal, Ahead
  <2>3. \A u \in Thread : adds'[u] = adds[u]
    BY <1>3 DEF LoadTotal
  <2>4. \A k \in Kind : count'[Total(k)] = completed'[k] + Ahead(k)'
    BY <1>3, <2>2 DEF LoadTotal, TotalInv
  <2>5. ASSUME NEW u \in Thread, pc'[u] = "store_total"
        PROVE  loaded'[u] = count'[Total(Adding(u)')]
    BY <1>3, <2>3, <2>5, SameAdds DEF LoadTotal, TotalInv
  <2> QED
    BY <2>4, <2>5 DEF TotalInv, Total
<1>4. ASSUME NEW t \in Thread, StoreTotal(t)
      PROVE  TotalInv'
  <2>1. lock = t /\ lock' = t
    BY <1>4 DEF StoreTotal, LockInv, Critical
  <2>2. Adding(t)' = Adding(t) /\ Amount(t)' = Amount(t)
    BY <1>4, SameAdds DEF StoreTotal
  <2>3. \A k \in Kind : Ahead(k) = 0 /\ Ahead(k)' = IF k = Adding(t) THEN Amount(t) ELSE 0
    BY <1>4, <2>1, <2>2 DEF StoreTotal, Ahead
  <2>4. Adding(t) \in Kind /\ loaded[t] = count[Total(Adding(t))]
    BY <1>4, AddTypes DEF StoreTotal, TotalInv
  <2>5. \A k \in Kind : count'[Total(k)] = IF k = Adding(t) THEN count[Total(k)] + Amount(t)
                                           ELSE count[Total(k)]
    BY <1>4, <2>4, CounterNames DEF StoreTotal
  <2>6. \A k \in Kind : count'[Total(k)] = completed'[k] + Ahead(k)'
    <3> TAKE k \in Kind
    <3>1. completed'[k] = completed[k] /\ completed[k] \in Nat /\ Amount(t) \in Nat
      BY <1>4, AddTypes DEF StoreTotal
    <3>2. count[Total(k)] = completed[k]
      BY <2>3, <3>1 DEF TotalInv
    <3> QED
      BY <2>3, <2>5, <3>1, <3>2
  <2>7. \A u \in Thread : pc'[u] # "store_total"
    BY <1>4, <2>1 DEF StoreTotal, LockInv, Critical
  <2> QED
    BY <2>6, <2>7 DEF TotalInv
<1>5. ASSUME NEW t \in Thread, LoadCurrent(t) \/ StoreCurrent(t)
      PROVE  TotalInv'
  <2>1. lock = t /\ lock' = t
    BY <1>5 DEF LoadCurrent, StoreCurrent, LockInv, Critical
  <2>2. Adding(t)' = Adding(t) /\ Amount(t)' = Amount(t)
    BY <1>5, SameAdds DEF LoadCurrent, StoreCurrent
  <2>3. \A k \in Kind : Ahead(k)' = Ahead(k)
    BY <1>5, <2>1, <2>2 DEF LoadCurrent, StoreCurrent, Ahead
  <2>4. \A k \in Kind : count'[Total(k)] = count[Total(k)] /\ completed'[k] = completed[k]
    BY <1>5, AddTypes, CounterNames DEF LoadCurrent, StoreCurrent
  <2>5. \A u \in Thread : pc'[u] # "store_total"
    BY <1>5, <2>1 DEF LoadCurrent, StoreCurrent, LockInv, Critical
  <2> QED
    BY <2>3, <2>4, <2>5 DEF TotalInv
<1>6. ASSUME NEW t \in Thread, Release(t)
      PROVE  TotalInv'
  <2>1. lock = t /\ lock' = NoThread
    BY <1>6 DEF Release, LockInv, Critical
  <2>2. \A k \in Kind : Ahead(k)' = 0 /\ Ahead(k) = IF k = Adding(t) THEN Amount(t) ELSE 0
    BY <1>6, <2>1 DEF Release, Ahead
  <2>3. \A k \in Kind : completed'[k] = IF k = Adding(t) THEN completed[k] + Amount(t)
                                       ELSE completed[k]
    BY <1>6, AddTypes DEF Release
  <2>4. \A k \in Kind : count'[Total(k)] = completed'[k] + Ahead(k)'
    <3> TAKE k \in Kind
    <3>1. completed[k] \in Nat /\ completed'[k] \in Nat /\ Amount(t) \in Nat
      BY AddTypes
    <3>2. count'[Total(k)] = completed[k] + Ahead(k)
      BY <1>6 DEF Release, TotalInv
    <3>3. CASE k = Adding(t)
      BY <2>2, <2>3, <3>1, <3>2, <3>3
    <3>4. CASE k # Adding(t)
      BY <2>2, <2>3, <3>1, <3>2, <3>4
    <3> QED
      BY <3>3, <3>4
  <2>5. \A u \in Thread : pc'[u] # "store_total"
    BY <2>1 DEF LockInv, Critical
  <2> QED
    BY <2>4, <2>5 DEF TotalInv
<1>7. CASE Reset \/ ResetFailed
  <2>1. lock' = lock /\ pc' = pc /\ adds' = adds /\ completed' = completed /\ loaded' = loaded
    BY <1>7 DEF Reset, ResetFailed, ResetCount, threadVars
  <2>2. PICK m \in Kind : count' = [count EXCEPT ![Current(m)] = 0]
    BY <1>7 DEF Reset, ResetFailed, ResetCount, Kind
  <2>3. \A k \in Kind : count'[Total(k)] = count[Total(k)]
    BY <2>2, CounterNames
  <2>4. \A k \in Kind : Ahead(k)' = Ahead(k)
    BY <2>1 DEF Ahead, Adding, Amount
  <2> QED
    BY <2>1, <2>3, <2>4, AddTypes DEF TotalInv, Adding
<1>8. CASE CheckHour \/ Validate \/ Tick \/ UNCHANGED vars
  <2>1. /\ count' = count /\ lock' = lock /\ pc' = pc /\ adds' = adds
        /\ completed' = completed /\ loaded' = loaded
    BY <1>8 DEF CheckHour, Validate, Tick, vars, threadVars
  <2> QED
    BY <2>1 DEF TotalInv, Ahead, Adding, Amount
<1> QED
  BY <1>1, <1>2, <1>3, <1>4, <1>5, <1>6, <1>7, <1>8 DEF Next, AddTransaction

\* Spec => []TotalsExact: no update of transaction_count or
\* failed_transaction_count is lost (add_transaction's lock).
THEOREM TotalsCorrect == Spec => []TotalsExact
<1> DEFINE Inv == TypeInv /\ LockInv /\ TotalInv
<1>1. Init => Inv
  <2>1. Init => TypeInv
    BY CountAssumption DEF Init, TypeInv, TypeOK, Room, Nothing, PC
  <2>2. Init => LockInv
    BY ThreadAssumption DEF Init, LockInv, Critical
  <2>3. Init => TotalInv
    BY CounterNames DEF Init, TotalInv, Ahead, Nothing
  <2> QED
    BY <2>1, <2>2, <2>3
<1>2. Inv /\ [Next]_vars => Inv'
  BY TypeStep, LockStep, TotalStep
<1>3. Inv => TotalsExact
  BY DEF TypeInv, TypeOK, TotalInv, TotalsExact, Ahead
<1> QED
  BY <1>1, <1>2, <1>3, PTL DEF Spec

-----------------------------------------------------------------------------
(* The counts of the hour *)

\* A store never drops what was added since the reset: a reset between a load and
\* its store lowers what was added, no other store comes between.
LEMMA CurrentStep ==
  ASSUME TypeInv, LockInv, CurrentInv, [Next]_vars, LockInv'
  PROVE  CurrentInv'
<1> USE ThreadAssumption DEF TypeInv, TypeOK
<1>1. ASSUME NEW t \in Thread, LoadCurrent(t)
      PROVE  CurrentInv'
  <2>1. \A u \in Thread : Adding(u)' = Adding(u) /\ Adding(u) \in Kind
    BY <1>1, AddTypes, SameAdds DEF LoadCurrent
  <2>2. ASSUME NEW u \in Thread, pc'[u] = "store_current"
        PROVE  sinceReset'[Adding(u)'] <= loaded'[u]
    BY <1>1, <2>1, <2>2 DEF LoadCurrent, CurrentInv, NeverUndercounted
  <2> QED
    BY <1>1, <2>2 DEF LoadCurrent, CurrentInv, NeverUndercounted
<1>2. ASSUME NEW t \in Thread, StoreCurrent(t)
      PROVE  CurrentInv'
  <2>1. lock = t /\ lock' = t
    BY <1>2 DEF StoreCurrent, LockInv, Critical
  <2>2. \A u \in Thread : pc'[u] # "store_current"
    BY <1>2, <2>1 DEF StoreCurrent, LockInv, Critical
  <2>3. sinceReset[Adding(t)] <= loaded[t]
    BY <1>2 DEF StoreCurrent, CurrentInv
  <2>4. ASSUME NEW k \in Kind
        PROVE  sinceReset'[k] <= count'[Current(k)]
    <3>1. CASE k = Adding(t)
      BY <1>2, <2>3, <3>1, AddTypes, CounterNames DEF StoreCurrent
    <3>2. CASE k # Adding(t)
      BY <1>2, <3>2, AddTypes, CounterNames DEF StoreCurrent, CurrentInv, NeverUndercounted
    <3> QED
      BY <3>1, <3>2
  <2> QED
    BY <2>2, <2>4 DEF CurrentInv, NeverUndercounted
<1>3. ASSUME NEW t \in Thread, StoreTotal(t)
      PROVE  CurrentInv'
  <2>1. \A u \in Thread : Adding(u)' = Adding(u)
    BY <1>3, SameAdds DEF StoreTotal
  <2>2. \A k \in Kind : count'[Current(k)] = count[Current(k)]
    BY <1>3, AddTypes, CounterNames DEF StoreTotal
  <2>3. \A u \in Thread : pc'[u] = "store_current" => pc[u] = "store_current"
    BY <1>3 DEF StoreTotal
  <2> QED
    BY <1>3, <2>1, <2>2, <2>3 DEF StoreTotal, CurrentInv, NeverUndercounted
<1>4. ASSUME NEW t \in Thread, Send(t) \/ Answer(t) \/ Acquire(t) \/ LoadTotal(t) \/ Release(t)
      PROVE  CurrentInv'
  <2>1. /\ count' = count /\ sinceReset' = sinceReset
        /\ \A u \in Thread : pc'[u] = "store_current" =>
             pc[u] = "store_current" /\ loaded'[u] = loaded[u] /\ adds'[u] = adds[u]
    BY <1>4 DEF Send, Answer, Acquire, LoadTotal, Release
  <2> QED
    BY <2>1, SameAdds DEF CurrentInv, NeverUndercounted
<1>5. CASE Reset \/ ResetFailed
  <2>1. pc' = pc /\ adds' = adds /\ loaded' = loaded
    BY <1>5 DEF Reset, ResetFailed, ResetCount, threadVars
  <2>2. PICK m \in Kind : /\ count' = [count EXCEPT ![Current(m)] = 0]
                         /\ sinceReset' = [sinceReset EXCEPT ![m] = 0]
    BY <1>5 DEF Reset, ResetFailed, ResetCount, Kind
  <2>3. \A k \in Kind : sinceReset'[k] <= sinceReset[k]
    BY <2>2
  <2>4. NeverUndercounted'
    BY <2>2, CounterNames DEF CurrentInv, NeverUndercounted
  <2>5. ASSUME NEW u \in Thread, pc'[u] = "store_current"
        PROVE  sinceReset'[Adding(u)'] <= loaded'[u]
    <3>1. Adding(u)' = Adding(u) /\ Adding(u) \in Kind
      BY <2>1, AddTypes, SameAdds
    <3>2. sinceReset[Adding(u)] <= loaded[u]
      BY <2>1, <2>5 DEF CurrentInv
    <3>3. sinceReset'[Adding(u)] \in Nat /\ sinceReset[Adding(u)] \in Nat /\ loaded[u] \in Nat
      BY <2>2, <3>1
    <3> QED
      BY <2>1, <2>3, <3>1, <3>2, <3>3
  <2> QED
    BY <2>4, <2>5 DEF CurrentInv
<1>6. CASE CheckHour \/ Validate \/ Tick \/ UNCHANGED vars
  <2>1. /\ count' = count /\ sinceReset' = sinceReset /\ pc' = pc /\ adds' = adds
        /\ loaded' = loaded
    BY <1>6 DEF CheckHour, Validate, Tick, vars, threadVars
  <2> QED
    BY <2>1 DEF CurrentInv, NeverUndercounted, Adding
<1> QED
  BY <1>1, <1>2, <1>3, <1>4, <1>5, <1>6 DEF Next, AddTransaction

\* Spec => []NeverUndercounted: the count the limit is compared with is never too
\* low, although _set_next_hour resets it without the lock.
THEOREM CurrentCorrect == Spec => []NeverUndercounted
<1> DEFINE Inv == TypeInv /\ LockInv /\ CurrentInv
<1>1. Init => Inv
  <2>1. Init => TypeInv
    BY CountAssumption DEF Init, TypeInv, TypeOK, Room, Nothing, PC
  <2>2. Init => LockInv
    BY ThreadAssumption DEF Init, LockInv, Critical
  <2>3. Init => CurrentInv
    BY CounterNames DEF Init, CurrentInv, NeverUndercounted, Nothing
  <2> QED
    BY <2>1, <2>2, <2>3
<1>2. Inv /\ [Next]_vars => Inv'
  BY TypeStep, LockStep, CurrentStep
<1>3. Inv => NeverUndercounted
  BY DEF CurrentInv
<1> QED
  BY <1>1, <1>2, <1>3, PTL DEF Spec

-----------------------------------------------------------------------------
(* The overshoot of an hour *)

\* What the package of a thread may still add to the counts of the hour
MayAdd ==
  [ t \in Thread |->
      CASE pc[t] = "free" -> 0
        [] pc[t] = "waiting" -> 2 * orders[t]
        [] pc[t] = "release" ->
             IF Adding(t) = "placed" THEN adds[t]["failed"] ELSE 0
        [] OTHER -> adds[t]["placed"] + adds[t]["failed"] ]
\* One slot for every transaction that may still be added
Slots(f) == {x \in Thread \X (1..(2 * MaxOrders)) : x[2] <= f[x[1]]}
InFlight == Cardinality(Slots(MayAdd))
Ceiling == Limit + 2 * MaxOrders * (Cardinality(Thread) + 1)
AddedInHour == sinceReset["placed"] + sinceReset["failed"]

\* A transaction validates an order only while the counts do not exceed the limit.
OvershootInv == AddedInHour + InFlight + 2 * batch <= Ceiling

\* There are never more slots than two for each order of each package.
LEMMA SlotsBound ==
  ASSUME NEW f \in [Thread -> 0..(2 * MaxOrders)]
  PROVE  /\ IsFiniteSet(Slots(f))
         /\ Cardinality(Slots(f)) \in Nat
         /\ Cardinality(Slots(f)) <= Cardinality(Thread) * (2 * MaxOrders)
<1> USE ThreadAssumption, CountAssumption
<1>1. IsFiniteSet(1..(2 * MaxOrders)) /\ Cardinality(1..(2 * MaxOrders)) = 2 * MaxOrders
  BY FS_Interval
<1>2. /\ IsFiniteSet(Thread \X (1..(2 * MaxOrders)))
      /\ Cardinality(Thread \X (1..(2 * MaxOrders))) = Cardinality(Thread) * (2 * MaxOrders)
  BY <1>1, FS_Product
<1>3. Slots(f) \in SUBSET (Thread \X (1..(2 * MaxOrders)))
  BY DEF Slots
<1> QED
  BY <1>2, <1>3, FS_Subset, FS_CardinalityType

\* What one thread may add changes the number of slots by the difference.
LEMMA SlotsUpdate ==
  ASSUME NEW f \in [Thread -> 0..(2 * MaxOrders)], NEW t \in Thread,
         NEW g \in [Thread -> 0..(2 * MaxOrders)],
         \A u \in Thread \ {t} : g[u] = f[u]
  PROVE  Cardinality(Slots(g)) = Cardinality(Slots(f)) - f[t] + g[t]
<1> USE ThreadAssumption, CountAssumption
<1> DEFINE Row(n) == {t} \X (1..n)
           Rest(h) == {x \in Slots(h) : x[1] # t}
<1>1. ASSUME NEW n \in 0..(2 * MaxOrders)
      PROVE  IsFiniteSet(Row(n)) /\ Cardinality(Row(n)) = n
  <2>0. n \in Nat /\ n \in Int /\ 1 \in Int
    OBVIOUS
  <2>1. IsFiniteSet(1..n) /\ Cardinality(1..n) = n
    <3>1. IsFiniteSet(1..n) /\ Cardinality(1..n) = IF 1 > n THEN 0 ELSE n - 1 + 1
      BY <2>0, FS_Interval
    <3> QED
      BY <2>0, <3>1
  <2>2. IsFiniteSet({t}) /\ Cardinality({t}) = 1
    BY FS_Singleton
  <2> QED
    <3>1. IsFiniteSet(Row(n)) /\ Cardinality(Row(n)) = 1 * n
      BY <2>1, <2>2, FS_Product
    <3> QED
      BY <2>0, <3>1
<1>2. ASSUME NEW h \in [Thread -> 0..(2 * MaxOrders)]
      PROVE  /\ IsFiniteSet(Rest(h)) /\ Cardinality(Rest(h)) \in Nat
             /\ Cardinality(Slots(h)) = Cardinality(Rest(h)) + h[t]
  <2>1. Slots(h) = Rest(h) \cup Row(h[t])
    BY DEF Slots
  <2>2. Rest(h) \cap Row(h[t]) = {}
    OBVIOUS
  <2>3. Rest(h) \in SUBSET Slots(h)
    OBVIOUS
  <2>4. IsFiniteSet(Rest(h)) /\ Cardinality(Rest(h)) \in Nat
    BY <2>3, SlotsBound, FS_Subset, FS_CardinalityType
  <2>5. IsFiniteSet(Row(h[t])) /\ Cardinality(Row(h[t])) = h[t]
    BY <1>1
  <2>6. Cardinality(Slots(h)) = Cardinality(Rest(h)) + h[t] - Cardinality({})
    BY <2>1, <2>2, <2>4, <2>5, FS_Union
  <2> QED
    BY <2>4, <2>6, FS_EmptySet
<1>3. Rest(g) = Rest(f)
  BY DEF Slots
<1>4. f[t] \in Nat /\ g[t] \in Nat
  OBVIOUS
<1>5. Cardinality(Slots(f)) = Cardinality(Rest(f)) + f[t] /\ Cardinality(Rest(f)) \in Nat
  BY <1>2
<1>6. Cardinality(Slots(g)) = Cardinality(Rest(g)) + g[t]
  BY <1>2
<1> HIDE DEF Rest
<1> QED
  BY <1>3, <1>4, <1>5, <1>6

\* A step of one thread: what it adds, and what it may still add
LEMMA MayAddType ==
  ASSUME TypeInv
  PROVE  MayAdd \in [Thread -> 0..(2 * MaxOrders)]
<1> SUFFICES ASSUME NEW t \in Thread
             PROVE  MayAdd[t] \in 0..(2 * MaxOrders)
  BY DEF MayAdd
<1>1. /\ orders[t] \in 0..MaxOrders
      /\ adds[t]["placed"] \in 0..MaxOrders /\ adds[t]["failed"] \in 0..MaxOrders
  BY DEF TypeInv, TypeOK, Kind
<1> QED
  BY <1>1, CountAssumption DEF MayAdd

\* A step of one thread changes the slots by what that thread may still add.
LEMMA InFlightStep ==
  ASSUME TypeInv, TypeInv', NEW t \in Thread,
         \A u \in Thread \ {t} :
           pc'[u] = pc[u] /\ orders'[u] = orders[u] /\ adds'[u] = adds[u]
  PROVE  /\ InFlight \in Nat /\ InFlight' \in Nat
         /\ MayAdd[t] \in Nat /\ MayAdd'[t] \in Nat
         /\ InFlight' = InFlight - MayAdd[t] + MayAdd'[t]
<1>1. MayAdd \in [Thread -> 0..(2 * MaxOrders)]
  BY MayAddType
<1>2. MayAdd' \in [Thread -> 0..(2 * MaxOrders)]
  <2>1. ASSUME NEW u \in Thread
        PROVE  MayAdd'[u] \in 0..(2 * MaxOrders)
    <3>1. /\ orders'[u] \in 0..MaxOrders
          /\ adds'[u]["placed"] \in 0..MaxOrders /\ adds'[u]["failed"] \in 0..MaxOrders
      BY DEF TypeInv, TypeOK, Kind
    <3> QED
      BY <3>1, CountAssumption DEF MayAdd
  <2> QED
    BY <2>1 DEF MayAdd
<1>3. \A u \in Thread \ {t} : MayAdd'[u] = MayAdd[u]
  BY DEF MayAdd, Adding
<1>4. Cardinality(Slots(MayAdd')) = Cardinality(Slots(MayAdd)) - MayAdd[t] + MayAdd'[t]
  BY <1>1, <1>2, <1>3, SlotsUpdate
<1>5. InFlight \in Nat /\ InFlight' \in Nat
  BY <1>1, <1>2, SlotsBound DEF InFlight, Slots
<1>6. InFlight' = Cardinality(Slots(MayAdd'))
  BY DEF InFlight, Slots
<1> QED
  BY <1>1, <1>2, <1>4, <1>5, <1>6 DEF InFlight

\* An addition is paid for by what was in flight, and an order is validated only
\* while all that was added is within the limit.
LEMMA OvershootStep ==
  ASSUME TypeInv, LockInv, NeverUndercounted, OvershootInv, [Next]_vars, TypeInv'
  PROVE  OvershootInv'
<1> USE ThreadAssumption, CountAssumption
<1>0. /\ Cardinality(Thread) \in Nat /\ Ceiling \in Nat
      /\ Ceiling = Limit + Cardinality(Thread) * (2 * MaxOrders) + 2 * MaxOrders
  <2>1. Cardinality(Thread) \in Nat
    BY FS_CardinalityType
  <2>2. Ceiling = Limit + Cardinality(Thread) * (2 * MaxOrders) + 2 * MaxOrders
    BY <2>1 DEF Ceiling
  <2>3. Cardinality(Thread) * (2 * MaxOrders) \in Nat
    BY <2>1
  <2> QED
    BY <2>1, <2>2, <2>3
<1>1. /\ batch \in Nat /\ batch' \in Nat /\ AddedInHour \in Nat /\ AddedInHour' \in Nat
      /\ sinceReset["placed"] \in Nat /\ sinceReset["failed"] \in Nat
  BY DEF TypeInv, TypeOK, AddedInHour, Kind
<1>2. \A t \in Thread : /\ orders[t] \in Nat
                        /\ adds[t]["placed"] \in Nat /\ adds[t]["failed"] \in Nat
  BY DEF TypeInv, TypeOK, Kind
<1>3. ASSUME NEW t \in Thread, Send(t)
      PROVE  OvershootInv'
  <2>1. MayAdd[t] = 0
    BY <1>3 DEF Send, MayAdd
  <2>2. MayAdd'[t] = 2 * batch
    BY <1>3 DEF Send, MayAdd, TypeInv, TypeOK
  <2>3. InFlight \in Nat /\ InFlight' = InFlight - MayAdd[t] + MayAdd'[t]
    BY <1>3, InFlightStep DEF Send, TypeInv, TypeOK
  <2>4. batch' = 0 /\ AddedInHour' = AddedInHour
    BY <1>3 DEF Send, AddedInHour
  <2> QED
    BY <1>0, <1>1, <2>1, <2>2, <2>3, <2>4 DEF OvershootInv, Ceiling
<1>4. ASSUME NEW t \in Thread, Answer(t)
      PROVE  OvershootInv'
  <2>1. PICK a \in [Kind -> 0..orders[t]] :
          /\ adds' = [adds EXCEPT ![t] = a]
          /\ pc' = [pc EXCEPT ![t] = IF a = Nothing THEN "free" ELSE "acquire"]
    BY <1>4 DEF Answer
  <2>2. a["placed"] \in 0..orders[t] /\ a["failed"] \in 0..orders[t]
    BY DEF Kind
  <2>3. MayAdd[t] = 2 * orders[t]
    BY <1>4 DEF Answer, MayAdd
  <2>4. MayAdd'[t] = IF a = Nothing THEN 0 ELSE a["placed"] + a["failed"]
    BY <2>1 DEF MayAdd, TypeInv, TypeOK
  <2>5. /\ InFlight \in Nat /\ InFlight' \in Nat
        /\ InFlight' = InFlight - MayAdd[t] + MayAdd'[t]
    BY <1>4, <2>1, InFlightStep DEF Answer, TypeInv, TypeOK
  <2>6. MayAdd'[t] \in Nat /\ MayAdd[t] \in Nat /\ MayAdd'[t] <= MayAdd[t]
    BY <1>2, <2>2, <2>3, <2>4
  <2>7. batch' = batch /\ AddedInHour' = AddedInHour
    BY <1>4 DEF Answer, mainVars, AddedInHour
  <2> QED
    BY <1>0, <1>1, <2>5, <2>6, <2>7 DEF OvershootInv, Ceiling
<1>5. ASSUME NEW t \in Thread, Acquire(t) \/ LoadTotal(t) \/ StoreTotal(t) \/ LoadCurrent(t)
      PROVE  OvershootInv'
  <2>1. MayAdd'[t] = MayAdd[t]
    BY <1>5 DEF Acquire, LoadTotal, StoreTotal, LoadCurrent, MayAdd, TypeInv, TypeOK
  <2>2. /\ InFlight \in Nat /\ MayAdd[t] \in Nat
        /\ InFlight' = InFlight - MayAdd[t] + MayAdd'[t]
    BY <1>5, InFlightStep DEF Acquire, LoadTotal, StoreTotal, LoadCurrent, TypeInv, TypeOK
  <2>3. batch' = batch /\ AddedInHour' = AddedInHour
    BY <1>5 DEF Acquire, LoadTotal, StoreTotal, LoadCurrent, mainVars, AddedInHour
  <2> QED
    BY <1>0, <1>1, <2>1, <2>2, <2>3 DEF OvershootInv, Ceiling
<1>6. ASSUME NEW t \in Thread, StoreCurrent(t)
      PROVE  OvershootInv'
  <2>1. MayAdd[t] = adds[t]["placed"] + adds[t]["failed"]
    BY <1>6 DEF StoreCurrent, MayAdd
  <2>2. MayAdd'[t] = IF Adding(t) = "placed" THEN adds[t]["failed"] ELSE 0
    BY <1>6 DEF StoreCurrent, MayAdd, Adding, TypeInv, TypeOK
  <2>3. /\ InFlight \in Nat /\ InFlight' = InFlight - MayAdd[t] + MayAdd'[t]
    BY <1>6, InFlightStep DEF StoreCurrent, TypeInv, TypeOK
  <2>4. batch' = batch /\ AddedInHour' = AddedInHour + Amount(t)
    <3>1. Adding(t) \in Kind /\ Amount(t) \in Nat
      BY AddTypes DEF TypeInv
    <3>2. sinceReset' = [sinceReset EXCEPT ![Adding(t)] = @ + Amount(t)]
      BY <1>6 DEF StoreCurrent
    <3> QED
      BY <1>1, <1>6, <3>1, <3>2 DEF StoreCurrent, mainVars, AddedInHour, TypeInv, TypeOK, Kind
  <2>5. Amount(t) = MayAdd[t] - MayAdd'[t]
    BY <1>2, <2>1, <2>2 DEF Amount, Adding
  <2>6. MayAdd[t] \in Nat /\ MayAdd'[t] \in Nat
    BY <1>2, <2>1, <2>2
  <2> QED
    BY <1>0, <1>1, <2>3, <2>4, <2>5, <2>6 DEF OvershootInv, Ceiling
<1>7. ASSUME NEW t \in Thread, Release(t)
      PROVE  OvershootInv'
  <2>1. MayAdd[t] = IF Adding(t) = "placed" THEN adds[t]["failed"] ELSE 0
    BY <1>7 DEF Release, MayAdd
  <2>2. MayAdd'[t] = MayAdd[t]
    <3>1. CASE Adding(t) = "placed" /\ adds[t]["failed"] > 0
      <4>1. pc'[t] = "acquire"
        BY <1>7, <3>1 DEF Release, TypeInv, TypeOK
      <4>2. adds'[t]["placed"] = 0 /\ adds'[t]["failed"] = adds[t]["failed"]
        BY <1>7, <3>1 DEF Release, TypeInv, TypeOK, Kind
      <4>3. MayAdd'[t] = adds'[t]["placed"] + adds'[t]["failed"]
        BY <4>1 DEF MayAdd
      <4> QED
        BY <1>2, <2>1, <3>1, <4>2, <4>3
    <3>2. CASE ~(Adding(t) = "placed" /\ adds[t]["failed"] > 0)
      <4>1. pc'[t] = "free"
        BY <1>7, <3>2 DEF Release, TypeInv, TypeOK
      <4>2. MayAdd'[t] = 0
        BY <4>1 DEF MayAdd
      <4> QED
        BY <1>2, <2>1, <3>2, <4>2
    <3> QED
      BY <3>1, <3>2
  <2>3. /\ InFlight \in Nat /\ MayAdd[t] \in Nat
        /\ InFlight' = InFlight - MayAdd[t] + MayAdd'[t]
    BY <1>7, InFlightStep DEF Release, TypeInv, TypeOK
  <2>4. batch' = batch /\ AddedInHour' = AddedInHour
    BY <1>7 DEF Release, mainVars, AddedInHour
  <2> QED
    BY <1>0, <1>1, <2>2, <2>3, <2>4 DEF OvershootInv, Ceiling
<1>8. CASE CheckHour \/ Reset \/ ResetFailed \/ Validate \/ Tick \/ UNCHANGED vars
  <2>1. pc' = pc /\ orders' = orders /\ adds' = adds
    BY <1>8 DEF CheckHour, Reset, ResetFailed, ResetCount, Validate, Tick, vars, threadVars
  <2>2. InFlight' = InFlight
    BY <2>1 DEF InFlight, Slots, MayAdd, Adding
  <2>3. InFlight \in Nat /\ InFlight <= Cardinality(Thread) * (2 * MaxOrders)
    BY MayAddType, SlotsBound DEF InFlight
  <2>4. CASE Validate /\ Safe
    <3>1. AddedInHour <= Limit
      BY <1>1, <2>4, CounterNames
         DEF NeverUndercounted, Safe, CurrentTotal, AddedInHour, Current, Kind, TypeInv, TypeOK,
             Counter
    <3>2. AddedInHour' = AddedInHour /\ batch' <= MaxOrders
      BY <2>4 DEF Validate, AddedInHour, TypeInv, TypeOK
    <3> QED
      BY <1>0, <1>1, <2>2, <2>3, <3>1, <3>2 DEF OvershootInv
  <2>5. CASE ~(Validate /\ Safe)
    <3>1. batch' = batch /\ AddedInHour' <= AddedInHour
      BY <1>1, <1>8, <2>5
         DEF CheckHour, Reset, ResetFailed, ResetCount, Validate, Tick, vars, mainVars,
             AddedInHour, TypeInv, TypeOK, Kind
    <3>2. Ceiling' = Ceiling
      BY DEF Ceiling
    <3> QED
      BY <1>0, <1>1, <2>2, <2>3, <3>1, <3>2 DEF OvershootInv
  <2> QED
    BY <2>4, <2>5
<1> QED
  BY <1>3, <1>4, <1>5, <1>6, <1>7, <1>8 DEF Next, AddTransaction

\* Spec => []Overshoot: an hour's transactions exceed client.transaction_limit at
\* most by two for every order in a package in flight or in the transaction.
THEOREM OvershootBounded == Spec => []Overshoot
<1> DEFINE Inv == TypeInv /\ LockInv /\ CurrentInv /\ OvershootInv
<1>1. Init => Inv
  <2>1. Init => TypeInv
    BY CountAssumption DEF Init, TypeInv, TypeOK, Room, Nothing, PC
  <2>2. Init => LockInv
    BY ThreadAssumption DEF Init, LockInv, Critical
  <2>3. Init => CurrentInv
    BY CounterNames DEF Init, CurrentInv, NeverUndercounted, Nothing
  <2>4. ASSUME Init
        PROVE  OvershootInv
    <3>1. AddedInHour = 0 /\ batch = 0
      BY <2>4 DEF Init, AddedInHour, Nothing, Kind
    <3>2. Slots(MayAdd) = {}
      BY <2>4, CountAssumption DEF Init, Slots, MayAdd
    <3>3. InFlight = 0
      BY <3>2, FS_EmptySet DEF InFlight
    <3>4. Cardinality(Thread) \in Nat
      BY ThreadAssumption, FS_CardinalityType
    <3>5. Ceiling \in Nat
      BY <3>4, CountAssumption DEF Ceiling
    <3> QED
      BY <3>1, <3>3, <3>5 DEF OvershootInv
  <2> QED
    BY <2>1, <2>2, <2>3, <2>4
<1>2. Inv /\ [Next]_vars => Inv'
  BY TypeStep, LockStep, CurrentStep, OvershootStep DEF CurrentInv
<1>3. Inv => Overshoot
  <2> SUFFICES ASSUME Inv
               PROVE  Overshoot
    OBVIOUS
  <2>1. InFlight \in Nat
    BY MayAddType, SlotsBound DEF InFlight
  <2>2. Cardinality(Thread) \in Nat
    BY ThreadAssumption, FS_CardinalityType
  <2>3. Ceiling \in Nat
    BY <2>2, CountAssumption DEF Ceiling
  <2>4. batch \in Nat /\ AddedInHour \in Nat
    BY DEF TypeInv, TypeOK, AddedInHour, Kind
  <2>5. AddedInHour <= Ceiling
    BY <2>1, <2>3, <2>4 DEF OvershootInv
  <2> QED
    BY <2>5 DEF Overshoot, AddedInHour, Ceiling
<1> QED
  BY <1>1, <1>2, <1>3, PTL DEF Spec
=============================================================================

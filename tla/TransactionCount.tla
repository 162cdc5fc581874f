-------------------------- MODULE TransactionCount --------------------------
(***************************************************************************)
(* The MaxTransactionCount client control (controls/clientcontrols.py).    *)
(*                                                                         *)
(* The main thread validates every request of a transaction against the    *)
(* transactions of the current hour and starts a new hour's count; the     *)
(* pool threads add to the counts, under a lock, once the exchange has     *)
(* answered their package.  "count += n" is a load and a store.  The reset *)
(* of the hour's counts takes no lock.                                     *)
(***************************************************************************)
EXTENDS Integers, FiniteSets

CONSTANTS
  Thread,    \* pool threads, one for each package in flight (bound)
  NoThread,  \* the lock is free
  Limit,     \* client.transaction_limit, not None
  MaxOrders, \* the orders of one package, its order_limit
  MaxHour    \* bound on the hours that pass

ASSUME ThreadAssumption == IsFiniteSet(Thread) /\ NoThread \notin Thread
ASSUME CountAssumption == Limit \in Nat /\ MaxOrders \in Nat \ {0} /\ MaxHour \in Nat

VARIABLES
  count,     \* the four counters
  lock,      \* _lock
  orders,    \* the orders of the package a thread executes
  adds,      \* what a thread still has to add, "failed" or not
  pc,        \* where a thread is
  loaded,    \* the value a thread has loaded and not yet stored
  batch,     \* orders validated in the transaction and not yet sent
  main,      \* where the main thread is in _validate
  hour,      \* the clock
  nextHour,  \* _next_hour, -1 for None
  completed, \* what the add_transaction calls that returned have added
  sinceReset \* what was added to each count of the hour since it was reset

threadVars == <<lock, orders, adds, pc, loaded, completed>>
mainVars == <<batch, main, nextHour>>
vars == <<count, threadVars, mainVars, hour, sinceReset>>

Counter == {"transaction_count", "failed_transaction_count",
            "current_transaction_count", "current_failed_transaction_count"}
\* add_transaction(count, failed=False) and add_transaction(count, failed=True)
Kind == {"placed", "failed"}
\* The counters a call adds to
Total(kind) == IF kind = "failed" THEN "failed_transaction_count" ELSE "transaction_count"
Current(kind) ==
  IF kind = "failed" THEN "current_failed_transaction_count" ELSE "current_transaction_count"
\* current_transaction_count_total
CurrentTotal == count["current_transaction_count"] + count["current_failed_transaction_count"]

Nothing == [k \in Kind |-> 0]
PC == { "free", "waiting", "acquire", "load_total", "store_total", "load_current",
        "store_current", "release" }

Init ==
  /\ count = [c \in Counter |-> 0]
  /\ lock = NoThread
  /\ orders = [t \in Thread |-> 0]
  /\ adds = [t \in Thread |-> Nothing]
  /\ pc = [t \in Thread |-> "free"]
  /\ loaded = [t \in Thread |-> 0]
  /\ batch = 0
  /\ main = "idle"
  /\ hour = 0
  /\ nextHour = -1
  /\ completed = Nothing
  /\ sinceReset = Nothing

-----------------------------------------------------------------------------
(* The pool threads *)

\* The package is answered or fails: its orders (but those violated meanwhile)
\* are counted when it places or replaces, and the instructions that failed.
Answer(t) ==
  /\ pc[t] = "waiting"
  /\ \E a \in [Kind -> 0..orders[t]] :
       /\ adds' = [adds EXCEPT ![t] = a]
       /\ pc' = [pc EXCEPT ![t] = IF a = Nothing THEN "free" ELSE "acquire"]
  /\ UNCHANGED <<count, lock, orders, loaded, completed, mainVars, hour, sinceReset>>

\* The add_transaction call a thread is in: the placed orders are added first.
Adding(t) == IF adds[t]["placed"] > 0 THEN "placed" ELSE "failed"
Amount(t) == adds[t][Adding(t)]

\* Mutant: add_transaction takes no lock.
CanLock_Unlocked(t) == TRUE
CanLock(t) == lock = NoThread

\* with self._lock
Acquire(t) ==
  /\ pc[t] = "acquire"
  /\ CanLock(t)
  /\ lock' = t
  /\ pc' = [pc EXCEPT ![t] = "load_total"]
  /\ UNCHANGED <<count, orders, adds, loaded, completed, mainVars, hour, sinceReset>>

LoadTotal(t) ==
  /\ pc[t] = "load_total"
  /\ loaded' = [loaded EXCEPT ![t] = count[Total(Adding(t))]]
  /\ pc' = [pc EXCEPT ![t] = "store_total"]
  /\ UNCHANGED <<count, lock, orders, adds, completed, mainVars, hour, sinceReset>>

StoreTotal(t) ==
  /\ pc[t] = "store_total"
  /\ count' = [count EXCEPT ![Total(Adding(t))] = loaded[t] + Amount(t)]
  /\ pc' = [pc EXCEPT ![t] = "load_current"]
  /\ UNCHANGED <<lock, orders, adds, loaded, completed, mainVars, hour, sinceReset>>

LoadCurrent(t) ==
  /\ pc[t] = "load_current"
  /\ loaded' = [loaded EXCEPT ![t] = count[Current(Adding(t))]]
  /\ pc' = [pc EXCEPT ![t] = "store_current"]
  /\ UNCHANGED <<count, lock, orders, adds, completed, mainVars, hour, sinceReset>>

StoreCurrent(t) ==
  /\ pc[t] = "store_current"
  /\ count' = [count EXCEPT ![Current(Adding(t))] = loaded[t] + Amount(t)]
  /\ sinceReset' = [sinceReset EXCEPT ![Adding(t)] = @ + Amount(t)]
  /\ pc' = [pc EXCEPT ![t] = "release"]
  /\ UNCHANGED <<lock, orders, adds, loaded, completed, mainVars, hour>>

\* The lock is given back; a replace goes on to add the failed transactions.
Release(t) ==
  /\ pc[t] = "release"
  /\ lock' = NoThread
  /\ completed' = [completed EXCEPT ![Adding(t)] = @ + Amount(t)]
  /\ adds' = [adds EXCEPT ![t][Adding(t)] = 0]
  /\ pc' = [pc EXCEPT ![t] = IF Adding(t) = "placed" /\ adds[t]["failed"] > 0
                           THEN "acquire" ELSE "free"]
  /\ UNCHANGED <<count, orders, loaded, mainVars, hour, sinceReset>>

-----------------------------------------------------------------------------
(* The main thread *)

\* Mutant: packages of one order too many
Room_Inclusive == batch <= MaxOrders
\* A package holds at most order_limit orders (_create_order_package chunks them;
\* here the transaction is sent before it holds more).
Room == batch < MaxOrders

\* _check_hour: the first hour or a new one moves _next_hour on before the reset.
CheckHour ==
  /\ main = "idle"
  /\ Room
  /\ IF nextHour = -1 \/ hour >= nextHour
     THEN nextHour' = hour + 1 /\ main' = "reset"
     ELSE UNCHANGED nextHour /\ main' = "safe"
  /\ UNCHANGED <<count, threadVars, batch, hour, sinceReset>>

\* _set_next_hour: the two counts of the hour, one after the other, without lock
ResetCount(k, from, to) ==
  /\ main = from
  /\ count' = [count EXCEPT ![Current(k)] = 0]
  /\ sinceReset' = [sinceReset EXCEPT ![k] = 0]
  /\ main' = to
  /\ UNCHANGED <<threadVars, batch, nextHour, hour>>
Reset == ResetCount("placed", "reset", "reset_failed")
ResetFailed == ResetCount("failed", "reset_failed", "safe")

\* Mutant: the failed transactions of the hour are not counted.
Safe_PlacedOnly == count["current_transaction_count"] <= Limit
\* safe
Safe == CurrentTotal <= Limit

\* _validate: a safe order joins the transaction, any other violates the control.
Validate ==
  /\ main = "safe"
  /\ main' = "idle"
  /\ batch' = IF Safe THEN batch + 1 ELSE batch
  /\ UNCHANGED <<count, threadVars, nextHour, hour, sinceReset>>

\* Transaction.execute: the orders go to a pool thread as one package.
Send(t) ==
  /\ main = "idle" /\ batch > 0
  /\ pc[t] = "free"
  /\ pc' = [pc EXCEPT ![t] = "waiting"]
  /\ orders' = [orders EXCEPT ![t] = batch]
  /\ batch' = 0
  /\ UNCHANGED <<count, lock, adds, loaded, completed, main, nextHour, hour, sinceReset>>

Tick ==
  /\ hour < MaxHour
  /\ hour' = hour + 1
  /\ UNCHANGED <<count, threadVars, mainVars, sinceReset>>

AddTransaction(t) ==
  Acquire(t) \/ LoadTotal(t) \/ StoreTotal(t) \/ LoadCurrent(t) \/ StoreCurrent(t) \/ Release(t)
Next ==
  \/ \E t \in Thread : Send(t) \/ Answer(t) \/ AddTransaction(t)
  \/ CheckHour \/ Reset \/ ResetFailed \/ Validate
  \/ Tick

Spec == Init /\ [][Next]_vars

-----------------------------------------------------------------------------
(* Properties *)

TypeOK ==
  /\ count \in [Counter -> Nat]
  /\ lock \in Thread \cup {NoThread}
  /\ orders \in [Thread -> 0..MaxOrders]
  /\ adds \in [Thread -> [Kind -> 0..MaxOrders]]
  /\ pc \in [Thread -> PC]
  /\ loaded \in [Thread -> Nat]
  /\ batch \in 0..MaxOrders
  /\ main \in {"idle", "reset", "reset_failed", "safe"}
  /\ hour \in Nat
  /\ nextHour \in Nat \cup {-1}
  /\ completed \in [Kind -> Nat]
  /\ sinceReset \in [Kind -> Nat]

\* No addition to the totals since the start is lost: while no thread is inside
\* add_transaction, transaction_count and failed_transaction_count are the sums
\* of what the calls that returned were given.
TotalsExact ==
  lock = NoThread => \A k \in Kind : count[Total(k)] = completed[k]

\* The counts the control compares with the limit hold all that was added since
\* their reset, although the reset takes no lock and a thread may be between the
\* load and the store of the same count.
NeverUndercounted == \A k \in Kind : sinceReset[k] <= count[Current(k)]

\* What is added in an hour exceeds the limit at most by what was validated and
\* not yet added when the limit was reached: for every order in flight, or in the
\* transaction, at most two (a replace whose cancel failed is counted twice).
Overshoot ==
  sinceReset["placed"] + sinceReset["failed"] <= Limit + 2 * MaxOrders * (Cardinality(Thread) + 1)

=============================================================================

---------------------------- MODULE ShutdownProofs ----------------------------
(* What the session list of the pool keeps, for every number of packages,      *)
(* sessions, workers and pool threads.                                         *)
EXTENDS Shutdown, TLAPS

\* The places of a package that has a session
Holding == {"submit", "queued", "call", "room", "append"}

\* SessionExclusive says that no two packages have a session in common; to keep it
\* a step also needs which packages have one at all: exactly those at Holding.
HoldersKnown == \A p \in Package : session[p] # NoSession <=> pc[p] \in Holding
NotShared == \A p \in Package :
  session[p] # NoSession => /\ session[p] \notin idle
                            /\ \A q \in Package \ {p} : session[q] # session[p]
\* The work queue has each queued package once.
WorkQueued ==
  /\ work \in Seq(Package)
  /\ \A i \in 1..Len(work) : pc[work[i]] = "queued"
  /\ \A i, j \in 1..Len(work) : work[i] = work[j] => i = j
SessionTypes ==
  /\ pc \in [Package -> PC]
  /\ session \in [Package -> Session \cup {NoSession}]
  /\ idle \subseteq Session
IInv == SessionTypes /\ HoldersKnown /\ NotShared /\ WorkQueued

held == <<pc, session, idle, work>>

LEMMA InitInv == Init => IInv
BY SessionAssumption DEF Init, IInv, SessionTypes, HoldersKnown, NotShared, WorkQueued, Holding, PC, Taking, Busy, Ended

LEMMA HeldInv == IInv /\ UNCHANGED held => IInv'
BY DEF held, IInv, SessionTypes, HoldersKnown, NotShared, WorkQueued

\* A package moves on with or without its session, and no other package changes.
LEMMA MoveInv ==
  ASSUME IInv, NEW p \in Package, NEW place \in PC, NEW s \in Session \cup {NoSession},
         Goto(p, place), pc[p] # "queued", place # "queued", work' = work,
         session' = [session EXCEPT ![p] = s],
         idle' \subseteq Session,
         s # NoSession <=> place \in Holding,
         s # NoSession => s \notin idle' /\ \A q \in Package \ {p} : session[q] # s,
         \A q \in Package \ {p} : session[q] # NoSession => session[q] \notin idle'
  PROVE  IInv'
<1>1. SessionTypes'
  BY DEF IInv, SessionTypes, Goto
<1>2. HoldersKnown'
  BY DEF IInv, SessionTypes, HoldersKnown, Goto
<1>3. NotShared'
  BY DEF IInv, SessionTypes, NotShared, Goto
<1>4. WorkQueued'
  <2>1. \A i \in 1..Len(work) : work[i] # p /\ work[i] \in Package
    BY DEF IInv, WorkQueued
  <2>2. \A i \in 1..Len(work) : pc'[work[i]] = pc[work[i]]
    BY <2>1 DEF Goto, IInv, SessionTypes
  <2> QED BY <2>2 DEF IInv, WorkQueued
<1> QED BY <1>1, <1>2, <1>3, <1>4 DEF IInv

LEMMA SubmitInv == ASSUME IInv, NEW p \in Package, Submit(p) PROVE IInv'
<1> USE DEF IInv, SessionTypes
<1>0. pc' = [pc EXCEPT ![p] = "queued"] /\ work' = Append(work, p) /\ pc[p] = "submit"
      /\ UNCHANGED <<session, idle>>
  BY DEF Submit, Goto
<1>1. SessionTypes'
  BY <1>0 DEF PC
<1>2. HoldersKnown'
  BY <1>0 DEF HoldersKnown, Holding
<1>3. NotShared'
  BY <1>0 DEF NotShared
<1>4. WorkQueued'
  <2>1. \A i \in 1..Len(work) : work[i] # p /\ work[i] \in Package
    BY <1>0 DEF WorkQueued
  <2>2. work' \in Seq(Package) /\ Len(work') = Len(work) + 1 /\ work'[Len(work) + 1] = p
        /\ \A i \in 1..Len(work) : work'[i] = work[i]
    BY <1>0 DEF WorkQueued
  <2>3. \A i \in 1..Len(work) : pc'[work[i]] = "queued"
    BY <1>0, <2>1 DEF WorkQueued
  <2>4. pc'[p] = "queued" /\ Len(work) \in Nat
    BY <1>0 DEF WorkQueued
  <2> QED BY <2>1, <2>2, <2>3, <2>4 DEF WorkQueued
<1> QED BY <1>1, <1>2, <1>3, <1>4

LEMMA StartInv == ASSUME IInv, StartWork PROVE IInv'
<1> USE DEF IInv, SessionTypes
<1> DEFINE p == work[1]
<1>0. /\ pc' = [pc EXCEPT ![p] = "call"] /\ work' = Tail(work) /\ work # <<>>
      /\ UNCHANGED <<session, idle>>
  BY DEF StartWork, WorkQueued
<1>a. p \in Package /\ pc[p] = "queued" /\ Len(work) \in Nat /\ Len(work) >= 1
  BY <1>0 DEF WorkQueued
<1>1. SessionTypes'
  BY <1>0, <1>a DEF PC, Busy
<1>2. HoldersKnown'
  BY <1>0, <1>a DEF HoldersKnown, Holding
<1>3. NotShared'
  BY <1>0 DEF NotShared
<1>4. WorkQueued'
  <2>1. work' \in Seq(Package) /\ Len(work') = Len(work) - 1
        /\ \A i \in 1..Len(work') : work'[i] = work[i + 1]
    BY <1>0, <1>a DEF WorkQueued
  <2>2. \A i \in 1..Len(work') : i + 1 \in 1..Len(work) /\ i + 1 # 1
    BY <1>a, <2>1
  <2>3. \A i \in 1..Len(work') : work'[i] \in Package /\ work'[i] # p /\ pc[work'[i]] = "queued"
    <3>1. \A i \in 1..Len(work) : work[i] \in Package /\ pc[work[i]] = "queued" /\ (i # 1 => work[i] # p)
      BY <1>a DEF WorkQueued
    <3> QED BY <2>1, <2>2, <3>1
  <2>4. \A i \in 1..Len(work') : pc'[work'[i]] = "queued"
    BY <1>0, <2>3
  <2>5. \A i, j \in 1..Len(work') : work'[i] = work'[j] => i = j
    <3>1. \A i, j \in 1..Len(work) : work[i] = work[j] => i = j
      BY DEF WorkQueued
    <3> QED BY <2>1, <2>2, <3>1
  <2> QED BY <2>1, <2>4, <2>5 DEF WorkQueued
<1> QED BY <1>1, <1>2, <1>3, <1>4

LEMMA ExecutionInv == ASSUME IInv, NEW p \in Package, Execution(p) PROVE IInv'
<1> USE DEF IInv, SessionTypes
<1>t. pc[p] \in PC /\ session[p] \in Session \cup {NoSession} /\ idle \subseteq Session
  OBVIOUS
<1>s. session = [session EXCEPT ![p] = session[p]]
  OBVIOUS
<1>n. NoSession \notin Session
  BY SessionAssumption
<1>h. session[p] # NoSession <=> pc[p] \in Holding
  BY DEF HoldersKnown
<1>x. /\ session[p] # NoSession => session[p] \notin idle /\ \A q \in Package \ {p} : session[q] # session[p]
      /\ \A q \in Package \ {p} : session[q] # NoSession => session[q] \notin idle
  BY DEF NotShared
<1>p. /\ {"get", "pop", "submit", "call", "room", "append", "reports", "placed", "done", "gave_up", "stranded"} \subseteq PC
  BY DEF PC, Taking, Busy, Ended
<1>1. CASE LookForSession(p)
  BY <1>1, <1>t, <1>s, <1>h, <1>x, <1>p, MoveInv DEF LookForSession, Holding
<1>2. CASE CreateSession(p)
  <2> DEFINE s == Fresh(Unused)
  <2>1. s \in Unused
    BY <1>2 DEF CreateSession, Fresh
  <2>2. s \in Session /\ s \notin idle /\ \A q \in Package : session[q] # s
    BY <2>1 DEF Unused, Range
  <2>3. /\ session' = [session EXCEPT ![p] = s] /\ Goto(p, "submit") /\ pc[p] = "get"
        /\ UNCHANGED <<idle, work>>
    BY <1>2 DEF CreateSession
  <2> HIDE DEF s
  <2> QED BY <2>2, <2>3, <1>t, <1>n, <1>x, <1>p, MoveInv DEF Holding
<1>3. CASE PopSession(p)
  <2>1. PICK s \in idle : idle' = idle \ {s} /\ session' = [session EXCEPT ![p] = s]
    BY <1>3 DEF PopSession
  <2>2. Goto(p, "submit") /\ pc[p] = "pop" /\ work' = work
    BY <1>3 DEF PopSession
  <2> QED BY <2>1, <2>2, <1>t, <1>n, <1>x, <1>p, MoveInv DEF Holding
<1>4. CASE PassSession(p)
  <2>1. idle' \subseteq idle
    BY <1>4 DEF PassSession
  <2>2. Goto(p, "get") /\ pc[p] = "pop" /\ work' = work /\ session' = session
    BY <1>4 DEF PassSession
  <2> QED BY <2>1, <2>2, <1>t, <1>s, <1>h, <1>x, <1>p, MoveInv DEF Holding
<1>5. CASE Submit(p)
  BY <1>5, SubmitInv
<1>6. CASE SubmitRefused(p)
  BY <1>6, <1>t, <1>x, <1>p, MoveInv DEF SubmitRefused, Holding
<1>7. CASE CallReturns(p)
  BY <1>7, <1>t, <1>s, <1>h, <1>x, <1>p, MoveInv DEF CallReturns, Holding
<1>8. CASE CallFails(p)
  BY <1>8, <1>t, <1>x, <1>p, MoveInv DEF CallFails, CallRaises, NewSession, Holding
<1>9. CASE GiveUp(p)
  BY <1>9, <1>t, <1>x, <1>p, MoveInv DEF GiveUp, CallRaises, Holding
<1>10. CASE CheckRoom(p)
  <2>1. CASE Room
    BY <1>10, <2>1, <1>t, <1>s, <1>h, <1>x, <1>p, MoveInv DEF CheckRoom, Holding
  <2>2. CASE ~Room
    BY <1>10, <2>2, <1>t, <1>x, <1>p, MoveInv DEF CheckRoom, Holding
  <2> QED BY <2>1, <2>2
<1>11. CASE ReturnSession(p)
  <2>1. /\ idle' = idle \cup {session[p]} /\ session' = [session EXCEPT ![p] = NoSession]
        /\ Goto(p, "reports") /\ pc[p] = "append" /\ work' = work
    BY <1>11 DEF ReturnSession
  <2>2. session[p] \in Session /\ session[p] # NoSession
    BY <2>1, <1>t, <1>h DEF Holding
  <2> QED BY <2>1, <2>2, <1>t, <1>x, <1>p, MoveInv DEF Holding
<1>12. CASE PassOrders(p)
  BY <1>12, <1>t, <1>s, <1>h, <1>x, <1>p, MoveInv DEF PassOrders, Holding
<1>13. CASE LogOrders(p)
  BY <1>13, <1>t, <1>s, <1>h, <1>x, <1>p, MoveInv DEF LogOrders, Holding
<1> QED BY <1>1, <1>2, <1>3, <1>4, <1>5, <1>6, <1>7, <1>8, <1>9, <1>10, <1>11, <1>12, <1>13
        DEF Execution

LEMMA HandOverInv == ASSUME IInv, NEW p \in Package, HandOver(p) PROVE IInv'
<1>1. pc[p] = "new" /\ Goto(p, "get") /\ UNCHANGED <<session, idle, work>>
  BY DEF HandOver
<1>2. session = [session EXCEPT ![p] = session[p]] /\ session[p] \in Session \cup {NoSession}
  BY DEF IInv, SessionTypes
<1>3. session[p] = NoSession /\ \A q \in Package \ {p} : session[q] # NoSession => session[q] \notin idle
  BY <1>1 DEF IInv, HoldersKnown, Holding, NotShared
<1>4. "get" \in PC /\ "get" \notin Holding /\ idle \subseteq Session
  BY DEF PC, Taking, Holding, IInv, SessionTypes
<1> QED BY <1>1, <1>2, <1>3, <1>4, MoveInv

LEMMA StepInv == IInv /\ [Next]_vars => IInv'
<1> SUFFICES ASSUME IInv, [Next]_vars PROVE IInv'
  OBVIOUS
<1>1. CASE Stop
  BY <1>1, HeldInv DEF Stop, held, poolVars
<1>2. CASE Main
  BY <1>2, HeldInv DEF Main, ShutdownPool, JoinPool, ShutdownWorker, EndLogging, JoinLogging,
       Logout, LogoutRaises, held, poolVars
<1>3. CASE StartWork
  BY <1>3, StartInv
<1>4. CASE LogEvent
  BY <1>4, HeldInv DEF LogEvent, held, poolVars
<1>5. ASSUME NEW p \in Package, HandOver(p) \/ Execution(p) PROVE IInv'
  BY <1>5, HandOverInv, ExecutionInv
<1>6. ASSUME NEW w \in Worker, WorkerThread(w) PROVE IInv'
  BY <1>6, HeldInv DEF WorkerThread, BeginWork, CheckRunning, DoWork, held, poolVars
<1>7. CASE UNCHANGED vars
  BY <1>7, HeldInv DEF vars, poolVars, held
<1> QED BY <1>1, <1>2, <1>3, <1>4, <1>5, <1>6, <1>7 DEF Next

\* _get_http_session and _return_http_session give a session to one package at a
\* time, although threads pop and append without a lock and the length is checked
\* before the append.
THEOREM SessionSafe == Spec => []SessionExclusive
<1>1. IInv => SessionExclusive
  BY DEF IInv, HoldersKnown, NotShared, Holding, SessionExclusive
<1> QED BY <1>1, InitInv, StepInv, PTL DEF Spec

-------------------------------------------------------------------------------
\* What is in hand belongs to a pool thread or to the main thread, which has
\* nothing in hand once it has left the loop; the pool has nothing to do once it
\* was joined.
After == {"workers", "join_logging", "logout", "exited", "raised"}
PoolInv ==
  /\ main \in Stage
  /\ \A p \in Package : pc[p] \in Busy => p \in by
  /\ \A p \in Package : pc[p] = "queued" => \E i \in 1..Len(work) : work[i] = p
  /\ main # "loop" => \A p \in Package \ by : pc[p] \notin Taking
  /\ main \in After => \A p \in Package : pc[p] \notin {"queued"} \cup Taking \cup Busy

poolHeld == <<main, pc, by, work>>
LEMMA PoolHeld == PoolInv /\ UNCHANGED poolHeld => PoolInv'
BY DEF PoolInv, poolHeld

LEMMA PoolMain == ASSUME PoolInv, UNCHANGED <<pc, by, work>>, Stop \/ Main PROVE PoolInv'
<1>1. CASE Stop
  <2>1. main' = "pool" /\ \A p \in Package \ by : pc[p] \notin Taking
    BY <1>1 DEF Stop, MainBusy
  <2> QED BY <2>1 DEF PoolInv, Stage, After
<1>2. CASE JoinPool
  <2>1. work = <<>> /\ (\A p \in by : pc[p] \notin Taking \cup Busy) /\ main = "join_pool" /\ main' = "workers"
    BY <1>2 DEF JoinPool, PoolDrained, InPool
  <2> QED BY <2>1 DEF PoolInv, Stage, After
<1>3. CASE ShutdownPool \/ (\E w \in Worker : ShutdownWorker(w)) \/ EndLogging \/ JoinLogging \/ Logout
           \/ LogoutRaises
  BY <1>3 DEF PoolInv, Stage, After, ShutdownPool, ShutdownWorker, EndLogging, JoinLogging, Logout,
     LogoutRaises
<1> QED BY <1>1, <1>2, <1>3 DEF Main

\* A step of the execution but for submit: the package is in hand, and comes into
\* the hands of the pool only from there.
Advance(p, place) ==
  /\ place \in PC /\ place # "queued"
  /\ pc' = [pc EXCEPT ![p] = place]
  /\ pc[p] \in Taking \cup Busy
  /\ place \in Busy => pc[p] \in Busy

LEMMA ExecutionStep ==
  ASSUME NEW p \in Package, Execution(p), ~Submit(p)
  PROVE  \E place \in PC : Advance(p, place)
<1>0. \A place : Advance(p, place) => place \in PC
  BY DEF Advance
<1>1. CASE LookForSession(p)
  <2>1. Advance(p, "pop")
    BY <1>1 DEF LookForSession, Advance, Goto, PC, Taking, Busy, Ended
  <2> QED BY <2>1, <1>0
<1>2. CASE CreateSession(p)
  <2>1. Advance(p, "submit")
    BY <1>2 DEF CreateSession, Advance, Goto, PC, Taking, Busy, Ended
  <2> QED BY <2>1, <1>0
<1>3. CASE PopSession(p)
  <2>1. Advance(p, "submit")
    BY <1>3 DEF PopSession, Advance, Goto, PC, Taking, Busy, Ended
  <2> QED BY <2>1, <1>0
<1>4. CASE PassSession(p)
  <2>1. Advance(p, "get")
    BY <1>4 DEF PassSession, Advance, Goto, PC, Taking, Busy, Ended
  <2> QED BY <2>1, <1>0
<1>5. CASE SubmitRefused(p)
  <2>1. Advance(p, "stranded")
    BY <1>5 DEF SubmitRefused, Advance, Goto, PC, Taking, Busy, Ended
  <2> QED BY <2>1, <1>0
<1>6. CASE CallReturns(p)
  <2>1. Advance(p, "room")
    BY <1>6 DEF CallReturns, Advance, Goto, PC, Taking, Busy, Ended
  <2> QED BY <2>1, <1>0
<1>7. CASE CallFails(p)
  <2>1. Advance(p, "get")
    BY <1>7 DEF CallFails, CallRaises, Advance, Goto, PC, Taking, Busy, Ended
  <2> QED BY <2>1, <1>0
<1>8. CASE GiveUp(p)
  <2>1. Advance(p, "gave_up")
    BY <1>8 DEF GiveUp, CallRaises, Advance, Goto, PC, Taking, Busy, Ended
  <2> QED BY <2>1, <1>0
<1>9. CASE ReturnSession(p)
  <2>1. Advance(p, "reports")
    BY <1>9 DEF ReturnSession, Advance, Goto, PC, Taking, Busy, Ended
  <2> QED BY <2>1, <1>0
<1>10. CASE PassOrders(p)
  <2>1. Advance(p, "done")
    BY <1>10 DEF PassOrders, Advance, Goto, PC, Taking, Busy, Ended
  <2> QED BY <2>1, <1>0
<1>11. CASE LogOrders(p)
  <2>1. Advance(p, "placed")
    BY <1>11 DEF LogOrders, Advance, Goto, PC, Taking, Busy, Ended
  <2> QED BY <2>1, <1>0
<1>12. CASE CheckRoom(p)
  <2>1. CASE Room
    <3>1. Advance(p, "append")
      BY <1>12, <2>1 DEF CheckRoom, Advance, Goto, PC, Taking, Busy, Ended
    <3> QED BY <3>1, <1>0
  <2>2. CASE ~Room
    <3>1. Advance(p, "reports")
      BY <1>12, <2>2 DEF CheckRoom, Advance, Goto, PC, Taking, Busy, Ended
    <3> QED BY <3>1, <1>0
  <2> QED BY <2>1, <2>2
<1> QED BY <1>1, <1>2, <1>3, <1>4, <1>5, <1>6, <1>7, <1>8, <1>9, <1>10, <1>11, <1>12
        DEF Execution

LEMMA PoolStep ==
  ASSUME PoolInv, IInv, NEW p \in Package,
         HandOver(p) \/ Execution(p) \/ (StartWork /\ p = work[1])
  PROVE  PoolInv'
<1>t. pc \in [Package -> PC] /\ work \in Seq(Package)
  BY DEF IInv, SessionTypes, WorkQueued
<1>a. \A x : (x \in Taking \/ x \in Busy) => x # "queued"
  BY DEF Taking, Busy
<1>1. CASE HandOver(p)
  <2>1. main = "loop" /\ main' = main /\ pc' = [pc EXCEPT ![p] = "get"] /\ UNCHANGED <<by, work>>
    BY <1>1 DEF HandOver, Goto
  <2> QED BY <2>1, <1>t DEF PoolInv, After, Busy
<1>2. CASE Submit(p)
  <2>1. main' = main /\ pc' = [pc EXCEPT ![p] = "queued"] /\ by' = by \ {p} /\ work' = Append(work, p)
        /\ pc[p] = "submit"
    BY <1>2 DEF Submit, Goto
  <2>2. Len(work') = Len(work) + 1 /\ work'[Len(work) + 1] = p /\ Len(work) \in Nat
        /\ \A i \in 1..Len(work) : work'[i] = work[i] /\ i \in 1..Len(work')
    BY <2>1, <1>t
  <2>3. main \notin After
    BY <2>1 DEF PoolInv, Taking
  <2>4. \A q \in Package : pc'[q] = "queued" => \E i \in 1..Len(work') : work'[i] = q
    <3>1. Len(work) + 1 \in 1..Len(work')
      BY <2>2
    <3> QED BY <2>1, <2>2, <3>1, <1>t DEF PoolInv
  <2> QED BY <2>1, <2>3, <2>4, <1>t DEF PoolInv, Busy, Taking
<1>3. CASE StartWork /\ p = work[1]
  <2>1. main' = main /\ pc' = [pc EXCEPT ![p] = "call"] /\ by' = by \cup {p} /\ work' = Tail(work)
        /\ work # <<>>
    BY <1>3, <1>t DEF StartWork
  <2>2. Len(work) \in Nat /\ Len(work) >= 1 /\ Len(work') = Len(work) - 1
        /\ \A i \in 1..Len(work') : work'[i] = work[i + 1]
    BY <2>1, <1>t
  <2>3. pc[p] = "queued"
    BY <1>3, <2>2 DEF IInv, WorkQueued
  <2>4. \A q \in Package : pc'[q] = "queued" => \E i \in 1..Len(work') : work'[i] = q
    <3> SUFFICES ASSUME NEW q \in Package, pc'[q] = "queued" PROVE \E i \in 1..Len(work') : work'[i] = q
      OBVIOUS
    <3>1. q # p /\ pc[q] = "queued"
      BY <2>1, <1>t
    <3>2. PICK i \in 1..Len(work) : work[i] = q
      BY <3>1 DEF PoolInv
    <3>3. i # 1 /\ i - 1 \in 1..Len(work')
      BY <3>1, <3>2, <2>2, <1>3
    <3>4. work'[i - 1] = work[(i - 1) + 1] /\ (i - 1) + 1 = i
      BY <2>2, <3>3
    <3> QED BY <3>2, <3>3, <3>4
  <2> QED BY <2>1, <2>3, <2>4, <1>t DEF PoolInv, After, Busy, Taking
<1>4. CASE Execution(p) /\ ~Submit(p)
  <2>1. PICK place \in PC : Advance(p, place)
    BY <1>4, ExecutionStep
  <2>2. UNCHANGED <<main, by, work>>
    BY <1>4 DEF Execution, LookForSession, CreateSession, PopSession, PassSession, SubmitRefused,
         CallReturns, CallFails, GiveUp, CallRaises, CheckRoom, ReturnSession, PassOrders,
         LogOrders
  <2>3. main \notin After
    BY <2>1 DEF PoolInv, Advance
  <2> QED BY <2>1, <2>2, <2>3, <1>t DEF PoolInv, Advance
<1> QED BY <1>1, <1>2, <1>3, <1>4

LEMMA PoolInvStep == PoolInv /\ IInv /\ [Next]_vars => PoolInv'
<1> SUFFICES ASSUME PoolInv, IInv, [Next]_vars PROVE PoolInv'
  OBVIOUS
<1>1. CASE Stop \/ Main
  <2>1. UNCHANGED <<pc, by, work>>
    BY <1>1 DEF Stop, Main, ShutdownPool, JoinPool, ShutdownWorker, EndLogging, JoinLogging,
         Logout, LogoutRaises, poolVars
  <2> QED BY <1>1, <2>1, PoolMain
<1>2. CASE StartWork
  <2>1. work[1] \in Package
    BY <1>2 DEF StartWork, IInv, WorkQueued
  <2> QED BY <1>2, <2>1, PoolStep
<1>3. ASSUME NEW p \in Package, HandOver(p) \/ Execution(p) PROVE PoolInv'
  BY <1>3, PoolStep
<1>4. CASE LogEvent \/ UNCHANGED vars \/ \E w \in Worker : WorkerThread(w)
  BY <1>4, PoolHeld DEF LogEvent, vars, poolVars, poolHeld, WorkerThread, BeginWork,
     CheckRunning, DoWork
<1> QED BY <1>1, <1>2, <1>3, <1>4 DEF Next

-------------------------------------------------------------------------------
\* What is left in the queue: the orders of a placed package, until they are
\* logged, stand before the end of the control.
Last == {TerminationEvent, None}
LogInv ==
  /\ queue \in Seq(Events)
  /\ logger \in {"on", "raised", "off"}
  /\ main \notin {"join_logging", "logout", "exited", "raised"} =>
       /\ logger = "on"
       /\ \A i \in 1..Len(queue) : queue[i] \notin Last
  /\ \A i, j \in 1..Len(queue) :
       (\E p \in Package : queue[i] = [of |-> p]) /\ queue[j] \in Last => i < j
  /\ logger = "off" => \A i \in 1..Len(queue) : \A p \in Package : queue[i] # [of |-> p]
  /\ \A p \in Package : pc[p] = "placed" =>
       p \in logged \/ \E i \in 1..Len(queue) : queue[i] = [of |-> p]
  /\ main \in {"logout", "exited", "raised"} => logger = "off"

LEMMA EventsDiffer ==
  /\ \A p \in Package : [of |-> p] \notin Last /\ [of |-> p] \in Events
  /\ \A w \in Worker : [worker |-> w] \notin Last /\ [worker |-> w] \in Events
  /\ \A w \in Worker, p \in Package : [worker |-> w] # [of |-> p]
  /\ \A p, q \in Package : [of |-> p] = [of |-> q] => p = q
  /\ TerminationEvent # None /\ Last \subseteq Events
<1>1. ASSUME NEW p, NEW w, NEW e
      PROVE [of |-> p] # [end |-> e] /\ [worker |-> w] # [end |-> e] /\ [worker |-> w] # [of |-> p]
  <2>1. DOMAIN [of |-> p] = {"of"} /\ DOMAIN [end |-> e] = {"end"} /\ DOMAIN [worker |-> w] = {"worker"}
    OBVIOUS
  <2>2. {"of"} # {"end"} /\ {"worker"} # {"end"} /\ {"worker"} # {"of"}
    OBVIOUS
  <2> QED BY <2>1, <2>2
<1>2. ASSUME NEW p, NEW q, [of |-> p] = [of |-> q] PROVE p = q
  BY <1>2
<1>3. TerminationEvent # None
  BY DEF TerminationEvent, None
<1> QED BY <1>1, <1>2, <1>3 DEF Last, Events, TerminationEvent, None

LEMMA InitLog == Init => PoolInv /\ LogInv
BY DEF Init, PoolInv, LogInv, Stage, Busy, Taking, After

\* An event at the end of the queue: the orders of a package while the pool has it
\* in hand, the end when nothing more is placed, or what a worker says.
LEMMA AppendLog ==
  ASSUME LogInv, NEW e \in Events, queue' = Append(queue, e), UNCHANGED <<logger, logged>>,
         main' \in {"logout", "exited", "raised"} => logger = "off",
         main' \notin {"join_logging", "logout", "exited", "raised"} =>
           e \notin Last /\ main \notin {"join_logging", "logout", "exited", "raised"},
         \A p \in Package : e = [of |-> p] => main \notin {"join_logging", "logout", "exited", "raised"},
         \A p \in Package : pc'[p] = "placed" => pc[p] = "placed" \/ e = [of |-> p]
  PROVE  LogInv'
<1>1. /\ queue' \in Seq(Events) /\ Len(queue) \in Nat /\ Len(queue') = Len(queue) + 1
      /\ queue'[Len(queue) + 1] = e
      /\ \A i \in 1..Len(queue) : queue'[i] = queue[i]
  BY DEF LogInv
<1>2. \A i \in 1..Len(queue') : i = Len(queue) + 1 \/ i \in 1..Len(queue)
  BY <1>1
<1>3. main' \notin {"join_logging", "logout", "exited", "raised"} =>
        logger' = "on" /\ \A i \in 1..Len(queue') : queue'[i] \notin Last
  BY <1>1, <1>2 DEF LogInv
<1>4. ASSUME NEW i \in 1..Len(queue'), NEW j \in 1..Len(queue'), NEW p \in Package,
             queue'[i] = [of |-> p], queue'[j] \in Last
      PROVE  i < j
  <2>1. CASE j = Len(queue) + 1
    <3>1. i # j
      BY <1>1, <1>4, <2>1, EventsDiffer
    <3> QED BY <1>1, <1>2, <2>1, <3>1
  <2>2. CASE j \in 1..Len(queue) /\ i \in 1..Len(queue)
    BY <1>1, <1>4, <2>2 DEF LogInv
  <2>3. CASE j \in 1..Len(queue) /\ i = Len(queue) + 1
    <3>1. e = [of |-> p]
      BY <1>1, <1>4, <2>3
    <3>2. queue[j] \in Last
      BY <1>1, <1>4, <2>3
    <3> QED BY <3>1, <3>2, <2>3 DEF LogInv
  <2> QED BY <1>2, <2>1, <2>2, <2>3
<1>5. logger' = "off" => \A i \in 1..Len(queue') : \A p \in Package : queue'[i] # [of |-> p]
  <2> SUFFICES ASSUME logger = "off", NEW i \in 1..Len(queue'), NEW p \in Package
               PROVE  queue'[i] # [of |-> p]
    OBVIOUS
  <2>1. e # [of |-> p]
    BY DEF LogInv
  <2>2. i \in 1..Len(queue) => queue[i] # [of |-> p]
    BY DEF LogInv
  <2> QED BY <2>1, <2>2, <1>1, <1>2
<1>6. \A p \in Package : pc'[p] = "placed" =>
        p \in logged' \/ \E i \in 1..Len(queue') : queue'[i] = [of |-> p]
  <2> SUFFICES ASSUME NEW p \in Package, pc'[p] = "placed", p \notin logged
               PROVE  \E i \in 1..Len(queue') : queue'[i] = [of |-> p]
    OBVIOUS
  <2>1. CASE e = [of |-> p]
    <3>1. Len(queue) + 1 \in 1..Len(queue')
      BY <1>1
    <3> QED BY <3>1, <1>1, <2>1
  <2>2. CASE pc[p] = "placed"
    <3>1. PICK i \in 1..Len(queue) : queue[i] = [of |-> p]
      BY <2>2 DEF LogInv
    <3>2. i \in 1..Len(queue')
      BY <1>1
    <3> QED BY <3>1, <3>2, <1>1
  <2> QED BY <2>1, <2>2
<1>7. /\ \A i, j \in 1..Len(queue') :
          (\E p \in Package : queue'[i] = [of |-> p]) /\ queue'[j] \in Last' => i < j
      /\ logger' \in {"on", "raised", "off"}
      /\ main' \in {"logout", "exited", "raised"} => logger' = "off"
  BY <1>4 DEF LogInv, Last, TerminationEvent, None
<1>8. Last' = Last
  BY DEF Last, TerminationEvent, None
<1> QED BY <1>1, <1>3, <1>5, <1>6, <1>7, <1>8 DEF LogInv

\* The control takes an event out of its queue.
LEMMA TakeLog == ASSUME LogInv, LogEvent PROVE LogInv'
<1> DEFINE e == queue[1]
           rest == Tail(queue)
<1>0. /\ logger # "off" /\ queue # <<>> /\ e = Head(queue)
      /\ UNCHANGED <<main, pc>>
  BY DEF LogEvent, LogInv, poolVars
<1>1. /\ Len(queue) \in Nat /\ Len(queue) >= 1 /\ e \in Events /\ rest \in Seq(Events)
      /\ Len(rest) = Len(queue) - 1
      /\ \A i \in 1..Len(rest) : rest[i] = queue[i + 1]
  BY <1>0 DEF LogInv
<1> DEFINE Orders(q) == \A i, j \in 1..Len(q) :
             (\E p \in Package : q[i] = [of |-> p]) /\ q[j] \in Last => i < j
<1>2. Orders(rest)
  <2> SUFFICES ASSUME NEW i \in 1..Len(rest), NEW j \in 1..Len(rest), NEW p \in Package,
                      rest[i] = [of |-> p], rest[j] \in Last
               PROVE  i < j
    OBVIOUS
  <2>1. i + 1 \in 1..Len(queue) /\ j + 1 \in 1..Len(queue)
    BY <1>1
  <2>2. queue[i + 1] = [of |-> p] /\ queue[j + 1] \in Last
    BY <1>1
  <2>3. i + 1 < j + 1
    BY <2>1, <2>2 DEF LogInv
  <2> QED BY <2>3
<1>3. e \in Last => \A i \in 1..Len(rest) : \A p \in Package : rest[i] # [of |-> p]
  <2> SUFFICES ASSUME e \in Last, NEW i \in 1..Len(rest), NEW p \in Package, rest[i] = [of |-> p]
               PROVE  FALSE
    OBVIOUS
  <2>1. i + 1 \in 1..Len(queue) /\ queue[i + 1] = [of |-> p] /\ 1 \in 1..Len(queue)
    BY <1>1
  <2>2. i + 1 < 1
    BY <2>1 DEF LogInv
  <2> QED BY <2>2
<1>4. \A p \in Package : pc[p] = "placed" =>
        p \in logged \/ e = [of |-> p] \/ \E i \in 1..Len(rest) : rest[i] = [of |-> p]
  <2> SUFFICES ASSUME NEW p \in Package, pc[p] = "placed", p \notin logged, e # [of |-> p]
               PROVE  \E i \in 1..Len(rest) : rest[i] = [of |-> p]
    OBVIOUS
  <2>1. PICK i \in 1..Len(queue) : queue[i] = [of |-> p]
    BY DEF LogInv
  <2>2. i # 1 /\ i - 1 \in 1..Len(rest)
    BY <2>1, <1>1
  <2>3. rest[i - 1] = queue[(i - 1) + 1] /\ (i - 1) + 1 = i
    BY <2>2, <1>1
  <2> QED BY <2>1, <2>2, <2>3
<1>5. main \notin {"join_logging", "logout", "exited", "raised"} =>
        /\ logger = "on" /\ e \notin Last
        /\ \A i \in 1..Len(rest) : rest[i] \notin Last
  <2>1. \A i \in 1..Len(rest) : i + 1 \in 1..Len(queue)
    BY <1>1
  <2>2. 1 \in 1..Len(queue)
    BY <1>1
  <2> QED BY <2>1, <2>2, <1>1 DEF LogInv
<1>6. main \in {"logout", "exited", "raised"} => logger = "off"
  BY DEF LogInv
<1>7. CASE e = None
  <2>1. logger' = "off" /\ queue' = rest /\ logged' = logged
    BY <1>7, <1>0 DEF LogEvent
  <2>2. e \in Last /\ \A p \in Package : e # [of |-> p]
    BY <1>7, EventsDiffer DEF Last
  <2> QED BY <2>1, <2>2, <1>0, <1>1, <1>2, <1>3, <1>4, <1>5 DEF LogInv
<1>8. CASE e # None /\ e # TerminationEvent
  <2>1. logger' = logger /\ queue' = rest /\ logged' = logged \cup {p \in Package : e = [of |-> p]}
    BY <1>8, <1>0 DEF LogEvent
  <2> QED BY <2>1, <1>0, <1>1, <1>2, <1>4, <1>5, <1>6 DEF LogInv
<1>9. CASE e = TerminationEvent
  <2>1. e \in Last /\ (\A p \in Package : e # [of |-> p]) /\ e # None
    BY <1>9, EventsDiffer DEF Last
  <2>2. logged' = logged
    BY <2>1, <1>0 DEF LogEvent
  <2>3. CASE queue' = rest /\ logger' = "raised"
    BY <2>1, <2>2, <2>3, <1>0, <1>1, <1>2, <1>3, <1>4, <1>5, <1>6 DEF LogInv
  <2>4. CASE queue' = Append(rest, None) /\ logger' = logger
    <3>1. None \in Last /\ None \in Events
      BY EventsDiffer DEF Last
    <3>2. /\ queue' \in Seq(Events) /\ Len(queue') = Len(rest) + 1 /\ Len(rest) \in Nat
          /\ queue'[Len(rest) + 1] = None
          /\ \A i \in 1..Len(rest) : queue'[i] = rest[i]
      BY <2>4, <3>1, <1>1
    <3>3. ASSUME NEW i \in 1..Len(queue'), NEW p \in Package PROVE queue'[i] # [of |-> p]
      <4>1. i = Len(rest) + 1 \/ i \in 1..Len(rest)
        BY <3>2
      <4>2. None # [of |-> p]
        BY <3>1, EventsDiffer
      <4>3. i \in 1..Len(rest) => rest[i] # [of |-> p]
        BY <1>3, <2>1
      <4> QED BY <4>1, <4>2, <4>3, <3>2
    <3>4. main \in {"join_logging", "logout", "exited", "raised"}
      BY <1>5, <2>1
    <3>5. \A p \in Package : pc[p] = "placed" => p \in logged
      <4> SUFFICES ASSUME NEW p \in Package, pc[p] = "placed" PROVE p \in logged
        OBVIOUS
      <4>1. e # [of |-> p]
        BY <2>1
      <4>2. \A i \in 1..Len(rest) : rest[i] # [of |-> p]
        BY <1>3, <2>1
      <4> QED BY <1>4, <4>1, <4>2
    <3> QED BY <2>2, <2>4, <3>2, <3>3, <3>4, <3>5, <1>0, <1>6 DEF LogInv
  <2>5. (queue' = rest /\ logger' = "raised") \/ (queue' = Append(rest, None) /\ logger' = logger)
    BY <1>9, <1>0, <2>1 DEF LogEvent, AfterEnd
  <2> QED BY <2>3, <2>4, <2>5
<1> QED BY <1>7, <1>8, <1>9

\* Steps that leave the control and what is placed alone
LEMMA KeepLog ==
  ASSUME LogInv, UNCHANGED <<queue, logger, logged>>,
         \A p \in Package : pc'[p] = "placed" => pc[p] = "placed",
         main' \in {"logout", "exited", "raised"} => logger = "off",
         main' \notin {"join_logging", "logout", "exited", "raised"} =>
           main \notin {"join_logging", "logout", "exited", "raised"}
  PROVE  LogInv'
BY DEF LogInv, Last, TerminationEvent, None

LEMMA LogMain == ASSUME LogInv, Stop \/ Main PROVE LogInv'
<1>0. pc' = pc /\ logger' = logger /\ logged' = logged
  BY DEF Stop, Main, ShutdownPool, JoinPool, ShutdownWorker, EndLogging, JoinLogging, Logout,
     LogoutRaises, poolVars, logVars
<1>1. CASE EndLogging
  <2>1. /\ main = "workers" /\ main' = "join_logging" /\ queue' = Append(queue, TerminationEvent)
    BY <1>1 DEF EndLogging
  <2>2. TerminationEvent \in Events /\ \A p \in Package : TerminationEvent # [of |-> p]
    BY EventsDiffer DEF Last
  <2> QED BY <2>1, <2>2, <1>0, AppendLog
<1>2. CASE ~EndLogging
  <2>1. queue' = queue
    BY <1>2 DEF Stop, Main, ShutdownPool, JoinPool, ShutdownWorker, JoinLogging, Logout,
       LogoutRaises, logVars
  <2>2. main' \in {"logout", "exited", "raised"} => logger = "off"
    BY <1>2 DEF LogInv, Stop, Main, ShutdownPool, JoinPool, ShutdownWorker, JoinLogging, Logout,
       LogoutRaises
  <2>3. main' \notin {"join_logging", "logout", "exited", "raised"} =>
          main \notin {"join_logging", "logout", "exited", "raised"}
    BY <1>2 DEF Stop, Main, ShutdownPool, JoinPool, ShutdownWorker, JoinLogging, Logout,
       LogoutRaises
  <2> QED BY <2>1, <2>2, <2>3, <1>0, KeepLog
<1> QED BY <1>1, <1>2

LEMMA LogInvStep == PoolInv /\ IInv /\ LogInv /\ [Next]_vars => LogInv'
<1> SUFFICES ASSUME PoolInv, IInv, LogInv, [Next]_vars PROVE LogInv'
  OBVIOUS
<1>t. pc \in [Package -> PC]
  BY DEF IInv, SessionTypes
<1>m. main \in {"logout", "exited", "raised"} => logger = "off"
  BY DEF LogInv
<1>1. CASE Stop \/ Main
  BY <1>1, LogMain
<1>2. CASE LogEvent
  BY <1>2, TakeLog
<1>3. CASE StartWork
  <2>1. UNCHANGED <<queue, logger, logged, main>> /\ pc' = [pc EXCEPT ![Head(work)] = "call"]
    BY <1>3 DEF StartWork, logVars
  <2>2. \A p \in Package : pc'[p] = "placed" => pc[p] = "placed"
    BY <2>1, <1>t
  <2> QED BY <2>1, <2>2, <1>m, KeepLog
<1>4. ASSUME NEW p \in Package, LogOrders(p) PROVE LogInv'
  <2>1. /\ queue' = Append(queue, [of |-> p]) /\ UNCHANGED <<logger, logged, main>>
        /\ pc[p] = "reports" /\ pc' = [pc EXCEPT ![p] = "placed"]
    BY <1>4 DEF LogOrders, Goto
  <2>2. main \notin {"join_logging", "logout", "exited", "raised"}
    BY <2>1 DEF PoolInv, After, Busy
  <2>3. [of |-> p] \in Events /\ [of |-> p] \notin Last
    BY EventsDiffer
  <2>4. \A q \in Package : pc'[q] = "placed" => pc[q] = "placed" \/ [of |-> p] = [of |-> q]
    BY <2>1, <1>t
  <2> HIDE DEF LogInv
  <2> QED BY <2>1, <2>2, <2>3, <2>4, AppendLog
<1>5. ASSUME NEW p \in Package, HandOver(p) \/ Execution(p), ~LogOrders(p) PROVE LogInv'
  <2>1. UNCHANGED <<queue, logger, logged, main>>
    BY <1>5 DEF HandOver, Execution, LookForSession, CreateSession, PopSession, PassSession, Submit,
       SubmitRefused, CallReturns, CallFails, GiveUp, CheckRoom, ReturnSession, PassOrders, logVars
  <2>2. \A q \in Package : pc'[q] = "placed" => pc[q] = "placed"
    <3>1. CASE HandOver(p)
      BY <3>1, <1>t DEF HandOver, Goto
    <3>2. CASE CheckRoom(p)
      <4>1. pc' = [pc EXCEPT ![p] = IF Room THEN "append" ELSE "reports"]
        BY <3>2 DEF CheckRoom, Goto
      <4> HIDE DEF Room
      <4> QED BY <4>1, <1>t
    <3>3. CASE Execution(p) /\ ~CheckRoom(p)
      BY <3>3, <1>5, <1>t DEF Execution, LookForSession, CreateSession, PopSession, PassSession,
         Submit, SubmitRefused, CallReturns, CallFails, GiveUp, ReturnSession, PassOrders, Goto
    <3> QED BY <1>5, <3>1, <3>2, <3>3
  <2> QED BY <2>1, <2>2, <1>m, KeepLog
<1>6. ASSUME NEW w \in Worker, WorkerThread(w) PROVE LogInv'
  <2>1. UNCHANGED <<logger, logged, main, pc>>
    BY <1>6 DEF WorkerThread, BeginWork, CheckRunning, DoWork, poolVars, logVars
  <2>2. queue' = queue \/ queue' = Append(queue, [worker |-> w])
    BY <1>6 DEF WorkerThread, BeginWork, CheckRunning, DoWork, logVars
  <2>3. [worker |-> w] \in Events /\ [worker |-> w] \notin Last
        /\ \A p \in Package : [worker |-> w] # [of |-> p]
    BY EventsDiffer
  <2>4. CASE queue' = queue
    BY <2>1, <2>4, <1>m, KeepLog
  <2>5. CASE queue' = Append(queue, [worker |-> w])
    BY <2>1, <2>3, <2>5, <1>m, AppendLog
  <2> QED BY <2>2, <2>4, <2>5
<1>7. CASE UNCHANGED vars
  BY <1>7, <1>m, KeepLog DEF vars, poolVars, logVars
<1> QED BY <1>1, <1>2, <1>3, <1>4, <1>5, <1>6, <1>7 DEF Next

\* BaseFlumine.__exit__ ends the pool before the logging controls, and these end on
\* an event of their own queue: when it goes on to log out, nothing is sent any
\* more, and the bets have been logged but for those of a call that raised.
THEOREM LoggedSafe == Spec => []OrdersLogged
<1> DEFINE All == IInv /\ PoolInv /\ LogInv
<1>1. Init => All
  BY InitInv, InitLog
<1>2. All /\ [Next]_vars => All'
  BY StepInv, PoolInvStep, LogInvStep
<1>3. All => OrdersLogged
  <2> SUFFICES ASSUME PoolInv, LogInv, main \in {"logout", "exited", "raised"}, NEW p \in Package
               PROVE  /\ pc[p] \notin {"queued"} \cup Busy
                      /\ pc[p] = "placed" => p \in logged
    BY DEF OrdersLogged, Bets
  <2>1. pc[p] \notin {"queued"} \cup Busy
    BY DEF PoolInv, After
  <2>2. pc[p] = "placed" => p \in logged
    <3>1. logger = "off"
      BY DEF LogInv
    <3>2. \A i \in 1..Len(queue) : queue[i] # [of |-> p]
      BY <3>1 DEF LogInv
    <3>3. pc[p] = "placed" => p \in logged \/ \E i \in 1..Len(queue) : queue[i] = [of |-> p]
      BY DEF LogInv
    <3> QED BY <3>2, <3>3
  <2> QED BY <2>1, <2>2
<1> QED BY <1>1, <1>2, <1>3, PTL DEF Spec

-------------------------------------------------------------------------------
\* A worker that was shut down between two rounds has stopped for good.
WorkerInv ==
  /\ running \in [Worker -> BOOLEAN]
  /\ worker \in [Worker -> Place]
  /\ stoppedAt \in [Worker -> {"no", "active", "idle"}]
  /\ \A w \in Worker : stoppedAt[w] = "idle" => worker[w] \in {"check", "gone"} /\ ~running[w]
  /\ main \in {"join_logging", "logout", "exited", "raised"} => \A w \in Worker : stoppedAt[w] # "no"

LEMMA InitWorker == Init => WorkerInv /\ LogoutHolds
BY DEF Init, WorkerInv, LogoutHolds, Place

LEMMA WorkerStep ==
  ASSUME WorkerInv, LogoutHolds, NEW w \in Worker, WorkerThread(w)
  PROVE  WorkerInv' /\ LogoutHolds'
<1>1. CASE BeginWork(w)
  <2>1. stoppedAt[w] # "idle"
    BY <1>1 DEF BeginWork, WorkerInv
  <2>2. UNCHANGED <<stoppedAt, main, login>> /\ worker' = [worker EXCEPT ![w] = "check"]
        /\ running' = [running EXCEPT ![w] = TRUE]
    BY <1>1 DEF BeginWork
  <2> QED BY <2>1, <2>2 DEF WorkerInv, LogoutHolds, Place
<1>2. CASE CheckRunning(w)
  <2>1. UNCHANGED <<stoppedAt, main, login, running>>
        /\ worker' = [worker EXCEPT ![w] = IF running[w] THEN "work" ELSE "gone"]
    BY <1>2 DEF CheckRunning
  <2>2. CASE running[w]
    BY <2>1, <2>2 DEF WorkerInv, LogoutHolds, Place
  <2>3. CASE ~running[w]
    BY <2>1, <2>3 DEF WorkerInv, LogoutHolds, Place
  <2> QED BY <2>2, <2>3
<1>3. CASE DoWork(w)
  <2>1. UNCHANGED <<stoppedAt, main, running>> /\ worker' = [worker EXCEPT ![w] = "check"]
        /\ worker[w] = "work"
    BY <1>3 DEF DoWork
  <2>2. main = "exited" => stoppedAt[w] = "active"
    BY <2>1 DEF WorkerInv
  <2> QED BY <2>1, <2>2 DEF WorkerInv, LogoutHolds, Place
<1> QED BY <1>1, <1>2, <1>3 DEF WorkerThread

LEMMA WorkerInvStep == WorkerInv /\ LogoutHolds /\ [Next]_vars => WorkerInv' /\ LogoutHolds'
<1> SUFFICES ASSUME WorkerInv, LogoutHolds, [Next]_vars PROVE WorkerInv' /\ LogoutHolds'
  OBVIOUS
<1>1. ASSUME NEW w \in Worker, WorkerThread(w) PROVE WorkerInv' /\ LogoutHolds'
  BY <1>1, WorkerStep
<1>2. ASSUME NEW w \in Worker, ShutdownWorker(w) PROVE WorkerInv' /\ LogoutHolds'
  <2>1. /\ main = "workers" /\ main' = main /\ worker' = worker
        /\ running' = [running EXCEPT ![w] = FALSE]
        /\ stoppedAt' = [stoppedAt EXCEPT ![w] =
                           IF worker[w] \in {"delay", "work"} THEN "active" ELSE "idle"]
    BY <1>2 DEF ShutdownWorker, Stopped
  <2>2. CASE worker[w] \in {"delay", "work"}
    BY <2>1, <2>2 DEF WorkerInv, LogoutHolds
  <2>3. CASE worker[w] \notin {"delay", "work"}
    BY <2>1, <2>3 DEF WorkerInv, LogoutHolds, Place
  <2> QED BY <2>2, <2>3
<1>3. CASE Stop \/ ShutdownPool \/ JoinPool \/ EndLogging \/ JoinLogging \/ Logout \/ LogoutRaises
  <2>1. UNCHANGED <<worker, running, stoppedAt>>
    BY <1>3 DEF Stop, ShutdownPool, JoinPool, EndLogging, JoinLogging, Logout, LogoutRaises,
       workerVars
  <2>2. main' \in {"join_logging", "logout", "exited", "raised"} => \A w \in Worker : stoppedAt[w] # "no"
    BY <1>3 DEF WorkerInv, Stop, ShutdownPool, JoinPool, EndLogging, JoinLogging, Logout,
       LogoutRaises
  <2>3. main' = "exited" => ~login'
    BY <1>3 DEF Stop, ShutdownPool, JoinPool, EndLogging, JoinLogging, Logout, LogoutRaises
  <2> QED BY <2>1, <2>2, <2>3 DEF WorkerInv, LogoutHolds
<1>4. CASE StartWork \/ LogEvent \/ UNCHANGED vars \/ \E p \in Package : HandOver(p) \/ Execution(p)
  <2>1. UNCHANGED <<worker, running, stoppedAt, main, login>>
    BY <1>4 DEF StartWork, LogEvent, vars, HandOver, Execution, LookForSession, CreateSession,
       PopSession, PassSession, Submit, SubmitRefused, CallReturns, CallFails, GiveUp, CheckRoom,
       ReturnSession, PassOrders, LogOrders, workerVars
  <2> QED BY <2>1 DEF WorkerInv, LogoutHolds
<1> QED BY <1>1, <1>2, <1>3, <1>4 DEF Next, Main

\* BackgroundWorker.shutdown and client.logout: after the exit no worker logs in
\* again, but for one that was in its function or its start_delay when it was shut
\* down.
THEOREM LogoutSafe == Spec => []LogoutHolds
BY InitWorker, WorkerInvStep, PTL DEF Spec

-------------------------------------------------------------------------------
\* The types of what the invariants above leave out. That a worker does not run more
\* often than the bound needs that it is between the test and its function only
\* below it.
RestOK ==
  /\ by \subseteq Package /\ lost \subseteq Package
  /\ retries \in [Package -> 0..MaxRetries]
  /\ down \in BOOLEAN
  /\ runs \in [Worker -> 0..MaxWork]
  /\ \A w \in Worker : worker[w] = "work" => runs[w] < MaxWork
  /\ queue \in Seq(Events)
  /\ logger \in {"on", "raised", "off"}
  /\ logged \subseteq Package
  /\ login \in BOOLEAN

restVars == <<by, lost, retries, down, runs, worker, queue, logger, logged, login>>

LEMMA InitRest == Init => RestOK
<1>1. 0 \in 0..MaxRetries /\ 0 \in 0..MaxWork
  BY BoundAssumption
<1>2. <<>> \in Seq(Events)
  OBVIOUS
<1> QED BY <1>1, <1>2 DEF Init, RestOK

LEMMA RestSame == RestOK /\ UNCHANGED restVars => RestOK'
BY DEF RestOK, restVars

LEMMA EventTypes ==
  /\ \A p \in Package : [of |-> p] \in Events
  /\ \A w \in Worker : [worker |-> w] \in Events
  /\ TerminationEvent \in Events /\ None \in Events
BY DEF Events, TerminationEvent, None

\* A package changes hands, is tried again or puts its event in the queue.
LEMMA RestPackage ==
  ASSUME RestOK, NEW p \in Package, HandOver(p) \/ Execution(p)
  PROVE  RestOK'
<1>1. CASE CallFails(p)
  <2>1. retries' = [retries EXCEPT ![p] = @ + 1] /\ retries[p] < MaxRetries
        /\ lost' \subseteq Package
        /\ UNCHANGED <<by, down, runs, worker, queue, logger, logged, login>>
    BY <1>1 DEF CallFails, CallRaises, RetryLeft, RestOK, workerVars, logVars
  <2>2. retries[p] \in 0..MaxRetries /\ MaxRetries \in Nat
    BY BoundAssumption DEF RestOK
  <2>3. retries[p] + 1 \in 0..MaxRetries
    BY <2>1, <2>2
  <2> QED BY <2>1, <2>3 DEF RestOK
<1>2. CASE Submit(p)
  <2>1. by' = by \ {p} /\ UNCHANGED <<lost, retries, down, runs, worker, queue, logger, logged, login>>
    BY <1>2 DEF Submit, workerVars, logVars
  <2> QED BY <2>1 DEF RestOK
<1>3. CASE LogOrders(p)
  <2>1. queue' = Append(queue, [of |-> p])
        /\ UNCHANGED <<by, lost, retries, down, runs, worker, logger, logged, login>>
    BY <1>3 DEF LogOrders, workerVars
  <2>2. queue' \in Seq(Events)
    BY <2>1, EventTypes DEF RestOK
  <2> QED BY <2>1, <2>2 DEF RestOK
<1>4. CASE GiveUp(p)
  <2>1. lost' \subseteq Package
        /\ UNCHANGED <<by, retries, down, runs, worker, queue, logger, logged, login>>
    BY <1>4 DEF GiveUp, CallRaises, RestOK, workerVars, logVars
  <2> QED BY <2>1 DEF RestOK
<1>5. CASE HandOver(p) \/ (Execution(p) /\ ~CallFails(p) /\ ~GiveUp(p) /\ ~Submit(p) /\ ~LogOrders(p))
  <2>1. UNCHANGED restVars
    BY <1>5 DEF HandOver, Execution, LookForSession, CreateSession, PopSession, PassSession,
       SubmitRefused, CallReturns, CheckRoom, ReturnSession, PassOrders, restVars,
       workerVars, logVars
  <2> QED BY <2>1, RestSame
<1> QED BY <1>1, <1>2, <1>3, <1>4, <1>5

LEMMA RestWorker ==
  ASSUME RestOK, WorkerInv, NEW w \in Worker, WorkerThread(w)
  PROVE  RestOK'
<1>0. runs[w] \in 0..MaxWork /\ MaxWork \in Nat
  BY BoundAssumption DEF RestOK
<1>1. CASE BeginWork(w)
  <2>1. worker' = [worker EXCEPT ![w] = "check"]
        /\ UNCHANGED <<by, lost, retries, down, runs, queue, logger, logged, login>>
    BY <1>1 DEF BeginWork, poolVars, logVars
  <2> QED BY <2>1 DEF RestOK, WorkerInv
<1>2. CASE CheckRunning(w)
  <2>1. /\ worker' = [worker EXCEPT ![w] = IF running[w] THEN "work" ELSE "gone"]
        /\ running[w] => runs[w] < MaxWork
        /\ UNCHANGED <<by, lost, retries, down, runs, queue, logger, logged, login>>
    BY <1>2 DEF CheckRunning, poolVars, logVars
  <2>2. \A v \in Worker : worker'[v] = "work" => runs[v] < MaxWork
    BY <2>1 DEF RestOK, WorkerInv
  <2> QED BY <2>1, <2>2 DEF RestOK
<1>3. CASE DoWork(w)
  <2>1. /\ worker[w] = "work" /\ worker' = [worker EXCEPT ![w] = "check"]
        /\ runs' = [runs EXCEPT ![w] = @ + 1]
        /\ queue' \in {queue, Append(queue, [worker |-> w])}
        /\ login' \in {login, TRUE}
        /\ UNCHANGED <<by, lost, retries, down, logger, logged>>
    BY <1>3 DEF DoWork, poolVars
  <2>2. runs[w] + 1 \in 0..MaxWork
    BY <1>0, <2>1 DEF RestOK
  <2>3. queue' \in Seq(Events)
    <3>1. [worker |-> w] \in Events /\ queue \in Seq(Events)
      BY EventTypes DEF RestOK
    <3>2. Append(queue, [worker |-> w]) \in Seq(Events)
      BY <3>1
    <3> QED BY <2>1, <3>1, <3>2
  <2>4. \A v \in Worker : worker'[v] = "work" => runs'[v] < MaxWork
    BY <2>1 DEF RestOK, WorkerInv
  <2> QED BY <2>1, <2>2, <2>3, <2>4 DEF RestOK
<1> QED BY <1>1, <1>2, <1>3 DEF WorkerThread

LEMMA RestLog == ASSUME RestOK, LogEvent PROVE RestOK'
<1>1. /\ queue # <<>> /\ queue \in Seq(Events)
      /\ queue' \in {Tail(queue), Append(Tail(queue), None)}
      /\ logger' \in {"on", "raised", "off"}
      /\ logged' \subseteq Package
      /\ UNCHANGED <<by, lost, retries, down, runs, worker, login>>
  BY DEF LogEvent, AfterEnd, RestOK, poolVars, workerVars
<1>2. Tail(queue) \in Seq(Events)
  BY <1>1
<1>3. queue' \in Seq(Events)
  BY <1>1, <1>2, EventTypes
<1> QED BY <1>1, <1>3 DEF RestOK

LEMMA RestStep ==
  ASSUME RestOK, WorkerInv, IInv, [Next]_vars
  PROVE  RestOK'
<1>1. CASE StartWork
  <2>1. Head(work) \in Package
    BY <1>1 DEF StartWork, IInv, WorkQueued
  <2>2. by' = by \cup {Head(work)}
        /\ UNCHANGED <<lost, retries, down, runs, worker, queue, logger, logged, login>>
    BY <1>1 DEF StartWork, workerVars, logVars
  <2> QED BY <2>1, <2>2 DEF RestOK
<1>2. CASE LogEvent
  BY <1>2, RestLog
<1>3. CASE ShutdownPool
  <2>1. down' = TRUE /\ UNCHANGED <<by, lost, retries, runs, worker, queue, logger, logged, login>>
    BY <1>3 DEF ShutdownPool, workerVars, logVars
  <2> QED BY <2>1 DEF RestOK
<1>4. CASE EndLogging
  <2>1. queue' = Append(queue, TerminationEvent)
        /\ UNCHANGED <<by, lost, retries, down, runs, worker, logger, logged, login>>
    BY <1>4 DEF EndLogging, poolVars, workerVars
  <2>2. queue' \in Seq(Events)
    BY <2>1, EventTypes DEF RestOK
  <2> QED BY <2>1, <2>2 DEF RestOK
<1>5. CASE Logout
  <2>1. login' = FALSE /\ UNCHANGED <<by, lost, retries, down, runs, worker, queue, logger, logged>>
    BY <1>5 DEF Logout, poolVars, workerVars, logVars
  <2> QED BY <2>1 DEF RestOK
<1>6. CASE Stop \/ JoinPool \/ JoinLogging \/ LogoutRaises \/ (\E w \in Worker : ShutdownWorker(w))
           \/ UNCHANGED vars
  <2>1. UNCHANGED restVars
    BY <1>6 DEF Stop, JoinPool, JoinLogging, LogoutRaises, ShutdownWorker, vars, restVars, poolVars,
       workerVars, logVars
  <2> QED BY <2>1, RestSame
<1> QED BY <1>1, <1>2, <1>3, <1>4, <1>5, <1>6, RestPackage, RestWorker DEF Next, Main

\* The type invariant, for every number of packages, sessions and workers.
THEOREM TypeOKSafe == Spec => []TypeOK
<1> DEFINE All == IInv /\ PoolInv /\ WorkerInv /\ LogoutHolds /\ RestOK
<1>1. Init => All
  BY InitInv, InitLog, InitWorker, InitRest
<1>2. All /\ [Next]_vars => All'
  BY StepInv, PoolInvStep, WorkerInvStep, RestStep
<1>3. All => TypeOK
  BY DEF IInv, SessionTypes, WorkQueued, PoolInv, WorkerInv, RestOK, TypeOK
<1> HIDE DEF All
<1> QED BY <1>1, <1>2, <1>3, PTL DEF Spec

===============================================================================

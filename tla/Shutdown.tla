------------------------------ MODULE Shutdown ------------------------------
(***************************************************************************)
(* The threads of a live flumine and how they end.                         *)
(*                                                                         *)
(* The main thread hands order packages to BaseExecution.handler, which    *)
(* takes an HTTP session from a list that all threads share and submits    *)
(* the package to a ThreadPoolExecutor; a pool thread calls the exchange,  *)
(* gives the session back, and puts the orders it placed in the queue of   *)
(* the logging control.  A call that fails with a BetfairError is handed   *)
(* to the handler again, by the pool thread.  Background workers log and   *)
(* keep the client logged in.  BaseFlumine.__exit__ ends them one after    *)
(* the other.                                                              *)
(***************************************************************************)
EXTENDS Naturals, Sequences, FiniteSets, Functions

CONSTANTS
  Package,     \* order packages
  Session,     \* requests.Session objects
  NoSession,
  Worker,      \* background workers that log what they did (poll_account_balance)
  MaxWorkers,  \* config.max_execution_workers: threads of the pool
  MaxRetries,  \* OrderPackage._max_retries
  MaxWork,     \* bound on the times a worker's function runs
  EndRaises    \* whether _process_end_flumine of the logging control may raise

ASSUME SessionAssumption == NoSession \notin Session
ASSUME BoundAssumption ==
  /\ IsFiniteSet(Package) /\ IsFiniteSet(Session)
  /\ MaxWorkers \in Nat \ {0} /\ MaxRetries \in Nat /\ MaxWork \in Nat
  /\ EndRaises \in BOOLEAN

VARIABLES
  main,       \* where the main thread is: the loop, or the steps of __exit__
  pc,         \* where a package is, and with it the thread that has it in hand
  by,         \* packages that are in the hands of a pool thread
  session,    \* the session the package is executed with
  retries,    \* OrderPackage._retry_count
  lost,       \* packages whose bets were placed by a call that raised
  idle,       \* BaseExecution._sessions
  work,       \* ThreadPoolExecutor._work_queue
  down,       \* ThreadPoolExecutor._shutdown
  worker,     \* where a background worker is
  running,    \* BackgroundWorker._running
  stoppedAt,  \* whether it was in its delay or its function when it was shut down
  runs,       \* times its function ran
  queue,      \* LoggingControl.logging_queue
  logger,     \* whether the thread of the logging control is at work, and whether
              \* its last event raised
  logged,     \* the packages whose orders it has processed
  login       \* whether the client has a session with the exchange

poolVars == <<pc, by, session, retries, lost, idle, work, down>>
workerVars == <<worker, running, runs, stoppedAt>>
logVars == <<queue, logger, logged>>
vars == <<main, poolVars, workerVars, logVars, login>>

-----------------------------------------------------------------------------
Stage == {"loop", "pool", "join_pool", "workers", "join_logging",
          "logout", "exited", "raised"}
\* "get" and "pop" are the two steps of _get_http_session, "room" and "append" those
\* of _return_http_session.
Taking == {"get", "pop", "submit"}
Busy == {"call", "room", "append", "reports"}
Ended == {"placed", "done", "gave_up", "stranded"}
\* "check" is before the test of the loop, the sleep of the last round included.
Place == {"delay", "check", "work", "gone"}
PC == {"new", "queued"} \cup Taking \cup Busy \cup Ended
Events == {[of |-> p] : p \in Package} \cup {[worker |-> w] : w \in Worker}
          \cup {[end |-> TRUE], [end |-> FALSE]}
TerminationEvent == [end |-> TRUE]
None == [end |-> FALSE]

Init ==
  /\ main = "loop"
  /\ pc = [p \in Package |-> "new"]
  /\ by = {}
  /\ session = [p \in Package |-> NoSession]
  /\ retries = [p \in Package |-> 0]
  /\ lost = {}
  /\ idle = {}
  /\ work = <<>>
  /\ down = FALSE
  /\ worker = [w \in Worker |-> "delay"]
  /\ running = [w \in Worker |-> FALSE]
  /\ runs = [w \in Worker |-> 0]
  /\ stoppedAt = [w \in Worker |-> "no"]
  /\ queue = <<>>
  /\ logger = "on"
  /\ logged = {}
  /\ login = TRUE

Fresh(S) == CHOOSE x \in S : TRUE
Goto(p, place) == pc' = [pc EXCEPT ![p] = place]
\* Packages a pool thread has in hand: there are MaxWorkers threads.
InPool == {p \in by : pc[p] \in Taking \cup Busy}
MainBusy == \E p \in Package \ by : pc[p] \in Taking

-----------------------------------------------------------------------------
(* BaseExecution.handler, called by the main thread, or by the pool for a retry *)

\* A strategy's transaction is executed.
HandOver(p) ==
  /\ main = "loop" /\ ~MainBusy
  /\ pc[p] = "new" /\ p = Fresh({q \in Package : pc[q] = "new"})
  /\ Goto(p, "get")
  /\ UNCHANGED <<main, by, session, retries, lost, idle, work, down, workerVars, logVars, login>>

\* _get_http_session: while self._sessions
LookForSession(p) ==
  /\ pc[p] = "get" /\ idle # {}
  /\ Goto(p, "pop")
  /\ UNCHANGED <<main, by, session, retries, lost, idle, work, down, workerVars, logVars, login>>

\* Sessions that are neither in the list nor in use: new ones, or deleted
Unused == Session \ (idle \cup Range(session))
\* There is none: _create_new_session
CreateSession(p) ==
  /\ pc[p] = "get" /\ idle = {}
  /\ Unused # {}
  /\ session' = [session EXCEPT ![p] = Fresh(Unused)]
  /\ Goto(p, "submit")
  /\ UNCHANGED <<main, by, retries, lost, idle, work, down, workerVars, logVars, login>>

\* self._sessions.pop(), of a session that is not too old
PopSession(p) ==
  /\ pc[p] = "pop"
  /\ \E s \in idle : idle' = idle \ {s} /\ session' = [session EXCEPT ![p] = s]
  /\ Goto(p, "submit")
  /\ UNCHANGED <<main, by, retries, lost, work, down, workerVars, logVars, login>>

\* The session is older than MAX_SESSION_AGE and deleted, or another thread
\* took the last one (IndexError): continue.
PassSession(p) ==
  /\ pc[p] = "pop"
  /\ IF idle = {} THEN UNCHANGED idle ELSE \E s \in idle : idle' = idle \ {s}
  /\ Goto(p, "get")
  /\ UNCHANGED <<main, by, session, retries, lost, work, down, workerVars, logVars, login>>

\* ThreadPoolExecutor.submit
Submit(p) ==
  /\ pc[p] = "submit" /\ ~down
  /\ work' = Append(work, p)
  /\ Goto(p, "queued")
  /\ by' = by \ {p}
  /\ UNCHANGED <<main, session, retries, lost, idle, down, workerVars, logVars, login>>

\* It raises once the pool is shut down: the exception ends in the Future of
\* the pool thread that retries, the session and the request are forgotten.
SubmitRefused(p) ==
  /\ pc[p] = "submit" /\ down
  /\ Goto(p, "stranded")
  /\ session' = [session EXCEPT ![p] = NoSession]
  /\ UNCHANGED <<main, by, retries, lost, idle, work, down, workerVars, logVars, login>>

-----------------------------------------------------------------------------
(* The pool threads: BetfairExecution._execution_helper and execute_place *)

StartWork ==
  /\ work # <<>> /\ Cardinality(InPool) < MaxWorkers
  /\ pc' = [pc EXCEPT ![Head(work)] = "call"]
  /\ by' = by \cup {Head(work)}
  /\ work' = Tail(work)
  /\ UNCHANGED <<main, session, retries, lost, idle, down, workerVars, logVars, login>>

\* The exchange answers.
CallReturns(p) ==
  /\ pc[p] = "call"
  /\ Goto(p, "room")
  /\ UNCHANGED <<main, by, session, retries, lost, idle, work, down, workerVars, logVars, login>>

\* The call raises: the exchange may have placed the bets all the same.
CallRaises(p) == pc[p] = "call" /\ lost' \in {lost, lost \cup {p}}

\* Mutant: the session of the failed call is used for the retry too.
NewSession_Kept(p) == /\ idle' = idle \cup {session[p]} /\ UNCHANGED session
\* The retry takes a session of its own, the one that failed is deleted.
NewSession(p) == /\ session' = [session EXCEPT ![p] = NoSession] /\ UNCHANGED idle

\* Mutant: one retry too many.
RetryLeft_Inclusive(p) == retries[p] <= MaxRetries
\* OrderPackage.retry
RetryLeft(p) == retries[p] < MaxRetries
\* BetfairError: order_package.retry(), handler
CallFails(p) ==
  /\ CallRaises(p) /\ RetryLeft(p)
  /\ retries' = [retries EXCEPT ![p] = @ + 1]
  /\ NewSession(p)
  /\ Goto(p, "get")
  /\ UNCHANGED <<main, by, work, down, workerVars, logVars, login>>

\* BetfairError without a retry left, or any other exception
GiveUp(p) ==
  /\ CallRaises(p)
  /\ Goto(p, "gave_up")
  /\ session' = [session EXCEPT ![p] = NoSession]
  /\ UNCHANGED <<main, by, retries, idle, work, down, workerVars, logVars, login>>

\* _return_http_session: len(self._sessions) >= self._max_workers is the check ...
Room == Cardinality(idle) < MaxWorkers
CheckRoom(p) ==
  /\ pc[p] = "room"
  /\ Goto(p, IF Room THEN "append" ELSE "reports")
  /\ session' = IF Room THEN session ELSE [session EXCEPT ![p] = NoSession]
  /\ UNCHANGED <<main, by, retries, lost, idle, work, down, workerVars, logVars, login>>

\* ... and self._sessions.append comes after it.
ReturnSession(p) ==
  /\ pc[p] = "append"
  /\ idle' = idle \cup {session[p]}
  /\ session' = [session EXCEPT ![p] = NoSession]
  /\ Goto(p, "reports")
  /\ UNCHANGED <<main, by, retries, lost, work, down, workerVars, logVars, login>>

\* The package places or replaces no order, or none that got a bet, or the exchange
\* knows it by its customer_ref and answers without reports.
PassOrders(p) ==
  /\ pc[p] = "reports"
  /\ Goto(p, "done")
  /\ UNCHANGED <<main, by, session, retries, lost, idle, work, down, workerVars, logVars, login>>

\* _order_logger: log_control(OrderEvent)
LogOrders(p) ==
  /\ pc[p] = "reports" /\ p \notin lost
  /\ Goto(p, "placed")
  /\ queue' = Append(queue, [of |-> p])
  /\ UNCHANGED <<main, by, session, retries, lost, idle, work, down, workerVars, logger, logged,
                 login>>

-----------------------------------------------------------------------------
(* BackgroundWorker.run *)

\* After start_delay, whatever has been asked meanwhile
BeginWork(w) ==
  /\ worker[w] = "delay"
  /\ worker' = [worker EXCEPT ![w] = "check"]
  /\ running' = [running EXCEPT ![w] = TRUE]
  /\ UNCHANGED <<main, poolVars, runs, stoppedAt, logVars, login>>

CheckRunning(w) ==
  /\ worker[w] = "check" /\ (running[w] => runs[w] < MaxWork)
  /\ worker' = [worker EXCEPT ![w] = IF running[w] THEN "work" ELSE "gone"]
  /\ UNCHANGED <<main, poolVars, running, runs, stoppedAt, logVars, login>>

\* The function: poll_account_balance logs a BalanceEvent, keep_alive logs in when
\* there is no session with the exchange, others do neither.
DoWork(w) ==
  /\ worker[w] = "work"
  /\ worker' = [worker EXCEPT ![w] = "check"]
  /\ runs' = [runs EXCEPT ![w] = @ + 1]
  /\ queue' \in {queue, Append(queue, [worker |-> w])}
  /\ login' \in {login, TRUE}
  /\ UNCHANGED <<main, poolVars, running, stoppedAt, logger, logged>>

-----------------------------------------------------------------------------
(* LoggingControl.run *)

\* Mutant: the control is not told to stop.
AfterEnd_Dropped(q) == q
\* process_event, TERMINATOR: the control puts None for itself.
AfterEnd(q) == Append(q, None)

LogEvent ==
  /\ logger # "off" /\ queue # <<>>
  /\ LET event == Head(queue) IN
     IF event = None
     THEN logger' = "off" /\ queue' = Tail(queue) /\ UNCHANGED logged
     ELSE /\ IF event = TerminationEvent
             THEN \/ queue' = AfterEnd(Tail(queue)) /\ UNCHANGED logger
                  \/ EndRaises /\ queue' = Tail(queue) /\ logger' = "raised"
             ELSE queue' = Tail(queue) /\ UNCHANGED logger
          /\ logged' = logged \cup {p \in Package : event = [of |-> p]}
  /\ UNCHANGED <<main, poolVars, workerVars, login>>

-----------------------------------------------------------------------------
(* The main thread: Flumine.run and BaseFlumine.__exit__ *)

\* A TERMINATOR event, or an exception: __exit__ stops the streams.
Stop ==
  /\ main = "loop" /\ ~MainBusy
  /\ main' = "pool"
  /\ UNCHANGED <<poolVars, workerVars, logVars, login>>

\* Mutant: shutdown(wait=False)
PoolDrained_NoWait == TRUE
\* _thread_pool.shutdown(wait=True): what was submitted is executed.
PoolDrained == work = <<>> /\ InPool = {}
ShutdownPool ==
  /\ main = "pool"
  /\ down' = TRUE
  /\ main' = "join_pool"
  /\ UNCHANGED <<pc, by, session, retries, lost, idle, work, workerVars, logVars, login>>
JoinPool ==
  /\ main = "join_pool"
  /\ PoolDrained
  /\ main' = "workers"
  /\ UNCHANGED <<poolVars, workerVars, logVars, login>>

\* Mutant: the worker is only joined.
Stopped_JoinOnly(w) == running
\* BackgroundWorker.shutdown, one after the other: the join has a timeout and
\* may end before the worker has.
Stopped(w) == [running EXCEPT ![w] = FALSE]
ShutdownWorker(w) ==
  /\ main = "workers" /\ stoppedAt[w] = "no"
  /\ running' = Stopped(w)
  /\ stoppedAt' = [stoppedAt EXCEPT ![w] = IF worker[w] \in {"delay", "work"} THEN "active" ELSE "idle"]
  /\ UNCHANGED <<main, poolVars, worker, runs, logVars, login>>

EndLogging ==
  /\ main = "workers" /\ \A w \in Worker : stoppedAt[w] # "no"
  /\ queue' = Append(queue, TerminationEvent)
  /\ main' = "join_logging"
  /\ UNCHANGED <<poolVars, workerVars, logger, logged, login>>
JoinLogging ==
  /\ main = "join_logging" /\ logger = "off"
  /\ main' = "logout"
  /\ UNCHANGED <<poolVars, workerVars, logVars, login>>
Logout ==
  /\ main = "logout"
  /\ login' = FALSE
  /\ main' = "exited"
  /\ UNCHANGED <<poolVars, workerVars, logVars>>
\* client.logout raises, out of __exit__: nothing catches it.
LogoutRaises ==
  /\ main = "logout"
  /\ main' = "raised"
  /\ UNCHANGED <<poolVars, workerVars, logVars, login>>

Main ==
  \/ ShutdownPool \/ JoinPool \/ \E w \in Worker : ShutdownWorker(w)
  \/ EndLogging \/ JoinLogging \/ Logout \/ LogoutRaises
Execution(p) ==
  \/ LookForSession(p) \/ CreateSession(p) \/ PopSession(p) \/ PassSession(p)
  \/ Submit(p) \/ SubmitRefused(p)
  \/ CallReturns(p) \/ CallFails(p) \/ GiveUp(p)
  \/ CheckRoom(p) \/ ReturnSession(p) \/ PassOrders(p) \/ LogOrders(p)
WorkerThread(w) == BeginWork(w) \/ CheckRunning(w) \/ DoWork(w)

Next ==
  \/ Stop \/ Main \/ StartWork \/ LogEvent
  \/ \E p \in Package : HandOver(p) \/ Execution(p)
  \/ \E w \in Worker : WorkerThread(w)

Spec == Init /\ [][Next]_vars
\* Every thread that can go on does.
Fairness ==
  /\ WF_vars(Main) /\ WF_vars(StartWork) /\ WF_vars(LogEvent)
  /\ \A p \in Package : WF_vars(Execution(p))
FairSpec == Spec /\ Fairness

-----------------------------------------------------------------------------
(* Properties *)

TypeOK ==
  /\ main \in Stage
  /\ pc \in [Package -> PC]
  /\ by \subseteq Package
  /\ session \in [Package -> Session \cup {NoSession}]
  /\ retries \in [Package -> 0..MaxRetries]
  /\ lost \subseteq Package
  /\ idle \subseteq Session
  /\ work \in Seq(Package)
  /\ down \in BOOLEAN
  /\ worker \in [Worker -> Place]
  /\ running \in [Worker -> BOOLEAN]
  /\ runs \in [Worker -> 0..MaxWork]
  /\ stoppedAt \in [Worker -> {"no", "active", "idle"}]
  /\ queue \in Seq(Events)
  /\ logger \in {"on", "raised", "off"}
  /\ logged \subseteq Package
  /\ login \in BOOLEAN

\* A session is used for one package at a time: requests.Session is not made for
\* more, and the list is read, popped and appended to by all threads without a
\* lock (_get_http_session, _return_http_session).
SessionExclusive ==
  \A p \in Package :
    /\ session[p] # NoSession => session[p] \notin idle
    /\ \A q \in Package \ {p} : session[p] = session[q] => session[p] = NoSession
    /\ pc[p] \in {"queued", "call", "append"} => session[p] # NoSession

\* Once the logging controls have ended nothing is sent to the exchange any
\* more, and the bets at the exchange have been logged, but for those of a call that
\* raised (__exit__ ends the pool before the controls).
Bets == {p \in Package : pc[p] = "placed"} \cup lost
OrdersLogged ==
  main \in {"logout", "exited", "raised"} =>
    /\ \A p \in Package : pc[p] \notin {"queued"} \cup Busy
    /\ Bets \subseteq logged \cup lost

\* After the exit the client is logged in again only by a worker that was in its
\* function, or still in its start_delay, when it was shut down: run sets
\* _running after the delay, whatever shutdown has set.
LogoutHolds ==
  main = "exited" /\ login => \E w \in Worker : stoppedAt[w] = "active"

\* The exit comes to its end, with an exception when the logout raised, whatever
\* the pool, its retries and the workers are at, unless the logging control raised
\* in _process_end_flumine: it then waits for an event for ever, and __exit__ for it.
EndLost == main = "join_logging" /\ logger = "raised"
ExitCompletes == (main = "pool") ~> (main \in {"exited", "raised"} \/ EndLost)

=============================================================================

----------------------------- MODULE OrderLedger -----------------------------
(***************************************************************************)
(* What a strategy is promised of its orders (the comments of OrderStatus  *)
(* in order.py), without threads, requests and reports: an order is opened *)
(* or rejected, the exchange makes at most one bet for it while it is      *)
(* open, what is left of the bet only falls, the order's own view of it    *)
(* follows from above, and the order closes, in the end always, when       *)
(* nothing is left.                                                        *)
(***************************************************************************)
EXTENDS Naturals

CONSTANTS Order, Size

VARIABLES
  phase,  \* what the status of an order comes to
  made,   \* orders that a bet was made for
  left,   \* what is left of the bet at the exchange
  view    \* what the order says is left
vars == <<phase, made, left, view>>

Phase == {"unborn", "new", "open", "closed", "void"}

Init ==
  /\ phase = [o \in Order |-> "unborn"]
  /\ made = {}
  /\ left = [o \in Order |-> 0]
  /\ view = [o \in Order |-> Size]

Move(o, from, to) == phase[o] = from /\ phase' = [phase EXCEPT ![o] = to]

Create(o) == Move(o, "unborn", "new") /\ UNCHANGED <<made, left, view>>
Open(o) == Move(o, "new", "open") /\ UNCHANGED <<made, left, view>>
Reject(o) == Move(o, "new", "void") /\ UNCHANGED <<made, left, view>>

\* The exchange makes the bet of an order, some of it matched at once: one bet, and
\* only while the order is open.
Make(o) ==
  /\ phase[o] = "open" /\ o \notin made
  /\ made' = made \cup {o}
  /\ \E n \in 0..Size : left' = [left EXCEPT ![o] = n]
  /\ UNCHANGED <<phase, view>>

Fall(o) ==
  /\ o \in made
  /\ \E n \in 0..Size : n < left[o] /\ left' = [left EXCEPT ![o] = n]
  /\ UNCHANGED <<phase, made, view>>

\* The order learns that less is left, but never less than there is.
LearnOf(o) == \E n \in left[o]..view[o] : view' = [view EXCEPT ![o] = n]
Learn(o) == LearnOf(o) /\ UNCHANGED <<phase, made, left>>

\* An order closes when nothing is left of its bet, or when it gets none.
Close(o) ==
  /\ Move(o, "open", "closed")
  /\ left[o] = 0
  /\ LearnOf(o)
  /\ UNCHANGED <<made, left>>

\* The report of a request may come after the order stream has closed the order.
Reopen(o) ==
  /\ o \in made /\ left[o] = 0
  /\ Move(o, "closed", "open")
  /\ UNCHANGED <<made, left, view>>

Next == \E o \in Order :
  \/ Create(o) \/ Open(o) \/ Reject(o) \/ Make(o) \/ Fall(o) \/ Learn(o)
  \/ Close(o) \/ Reopen(o)

Spec == Init /\ [][Next]_vars
\* An order whose bet is over is closed, however its requests went.
CloseMade(o) == o \in made /\ Close(o)
FairSpec == Spec /\ \A o \in Order : WF_vars(CloseMade(o))
=============================================================================

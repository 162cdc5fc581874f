SPECIFICATION Spec
CONSTANTS
  th1 = th1
  th2 = th2
  Thread = {th1, th2}
  NoThread = NoThread
  Limit = 0
  MaxOrders = 2
  MaxHour = 1
SYMMETRY ThreadSymmetry
INVARIANTS
  TypeOK
  TotalsExact
  NeverUndercounted
  Overshoot

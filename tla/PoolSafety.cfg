SPECIFICATION Spec
CONSTANTS
  Takers = {t1, t2}
  Conns = {c1, c2, c3}
  MinCount = 1
  MaxCount = 2
  KeepAlive = TRUE
  NoConn = NoConn
SYMMETRY Symmetry
INVARIANT TypeOK
INVARIANT CountExact
INVARIANT CountBounded
INVARIANT HandlersAlive
INVARIANT NoSleepPastOpen
INVARIANT WaiterWillBeWoken
INVARIANT StopWakesWaiter

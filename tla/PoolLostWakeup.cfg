SPECIFICATION FairSpec
CONSTANTS
  Takers = {t1, t2}
  Conns = {c1, c2}
  MinCount = 1
  MaxCount = 1
  KeepAlive = FALSE
  NoConn = NoConn
PROPERTY WaiterReturns

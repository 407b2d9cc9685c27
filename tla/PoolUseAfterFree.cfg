SPECIFICATION Spec
CONSTANTS
  Takers = {t1}
  Conns = {c1, c2}
  MinCount = 1
  MaxCount = 1
  KeepAlive = FALSE
  NoConn = NoConn
INVARIANT NoHandlerAfterFree

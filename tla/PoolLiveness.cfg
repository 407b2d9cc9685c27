SPECIFICATION FairSpec
CONSTANTS
  Takers = {t1}
  Conns = {c1, c2, c3}
  MinCount = 2
  MaxCount = 2
  KeepAlive = FALSE
  NoConn = NoConn
PROPERTY DeadConnectionLeaves
 

SPECIFICATION FairSpec
CONSTANTS
  Producers = {p1, p2}
  Items = {a, b}
  MaxPushes = 3
INVARIANT TypeOK
INVARIANT NoLostWakeup
PROPERTY ImplementsChannel
\* A queue serves one Speak call: after the last take() nothing is left to do.
CHECK_DEADLOCK FALSE

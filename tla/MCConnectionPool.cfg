SPECIFICATION PoolLiveSpec
CONSTANTS
  Threads = {t1, t2, t3, t4}
  Capacity = 2
  None = None
INVARIANTS ConnectionsConserved NoLostWakeup
PROPERTIES OnlyFullPoolBlocks PoolNotIdle

SPECIFICATION Spec
CONSTANTS
  QUEUE_SIZE = 2
  WRITE_BATCH = 2
  MaxRows = 4
  MaxWriteFaults = 2
  QUEUE_MAX_SIZE = 2
  FLUSH_BATCH_SIZE = 2
  MaxSnapshots = 4
  Client = {c1, c2, c3}
  Broadcast = {b1, b2}
  Thread = {t1, t2}
  MAX_TELEMETRY_ROWS = 5
  PRUNE_BATCH_SIZE = 2
  MaxLogged = 9
  MaxPruneFaults = 1
INVARIANTS
  WriterInv
  ConductorInv
  PoolInv
  TableInv
PROPERTIES
  ShutsDown
CHECK_DEADLOCK FALSE

SPECIFICATION FairSpec
CONSTANTS
  SAFE_MIN_REACH = 4
  SAFE_MAX_REACH = 12
  Grain = 4
  Near = 2
  Solved <- MCSolved
  MAX_ANGLE = 8
  QUEUE_MAX_CAPACITY = 4
  SLEW_RATE_MAX_DELTA_DEG = 2
  HEARTBEAT_INTERVAL_SEC = 3
  WATCHDOG_TIMEOUT_SEC = 6
  RESET = 4
  PASS = 1
  Home <- MCHome
  Poses <- MCPoses
  Paths <- MCPaths
  Steps = {3, 6}
  MaxRequests = 2
  MaxFaults = 2
INVARIANTS
  DaemonInv
PROPERTIES
  PathsWhole
  FramesContinuous
  Settles

SPECIFICATION FairSpec
CONSTANTS
  Record = {1, 2, 3}
  FLUSH_BATCH_SIZE = 2
  batch_size_threshold = 2
  batch_time_threshold_sec = 2
  max_consecutive_failures = 2
  circuit_cooldown_sec = 2
  SweepAtBoot = FALSE
  MaxFaults = 3
PROPERTIES
  CrashRecovers

SPECIFICATION FairSpec
CONSTANTS
  Joint <- MCJoint
  Command <- MCCommand
  MAX_ANGLE = 5
  Home = 2
  ClockMod = 12
  Timeout = 4
  Period = 3
  SlewMax = 2
  Burst = 3
  MaxPass = 2
  MaxSilence = 18
PROPERTIES
  HaltHoldsArm

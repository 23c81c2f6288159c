SPECIFICATION FairSpec
CONSTANTS
  MAX_ROBOTIC_JOINTS = 2
  Angle = {60, 90}
  MIDPOINT = 90
  MinTicks = 102
  MaxTicks = 512
INVARIANTS
  DriverInv
  SuccessMeansApplied
PROPERTIES
  NeverWrongFrequency
  Returns

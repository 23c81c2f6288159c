SPECIFICATION Spec
CONSTANTS
  Pose = {home, p1}
  Home = home
  Trajectory = 2
  SERIAL_TIMEOUT = 1
  IDLE_KEEPALIVE = 4
  WATCHDOG = 6
  PAUSE = 2
  BURST = 3
  Garbled = {"?"}
  MaxFaults = 2
PROPERTIES
  OperatorConfirms

SPECIFICATION Spec
CONSTANTS
  MAX_PACKET_LENGTH = 11
  MAX_ROBOTIC_JOINTS = 2
  MAX_ANGLE = 180
  MIDPOINT = 90
  Command <- MCCommand
  LineByte <- MCLineByte
  MaxFaults = 1
INVARIANTS
  BuffersInBounds
  Resynchronises
  NotMisread
  AnswersBounded

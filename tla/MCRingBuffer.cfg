SPECIFICATION FairSpec
CONSTANTS
  Byte = {b0, b1}
  Zero = b0
  BUFFER_SIZE = 4
INVARIANTS
  RingInv
PROPERTIES
  NoUnreadOverwritten
  Delivered
  ImplementsFifo

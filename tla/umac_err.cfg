SPECIFICATION Spec
CONSTANTS
  RXDES_NUM = 3
  TXDES_NUM = 2
  Packets = {p1, p2}
  MaxSegs = 2
  ErrSegs <- MCAnyBuffers
INVARIANT ReturnedToHardware

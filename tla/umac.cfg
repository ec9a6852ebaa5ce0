SPECIFICATION FairSpec
CONSTANTS
  RXDES_NUM = 3
  TXDES_NUM = 2
  Packets = {p1, p2}
  MaxSegs = 2
  ErrSegs <- MCOneBuffer
INVARIANTS TypeOK ReturnedToHardware TxRun
PROPERTIES SentInOrder SendEnds ImplementsLine

SPECIFICATION Spec
CONSTANTS
  PCI_MAX_BUS_NUM = 2
  PCI_MAX_DEVICE_NUM = 2
  PCI_MAX_FUNCTION_NUM = 2
  PCI_MAX_BAR_NUM = 2
  card = card
  disk = disk
  Functions = {card, disk}
  NoFunction = nobody
  Boards <- MCBoards
  Base <- MCBase
  Size <- MCSize
  Alignment <- MCAlign
  Word = 256
INVARIANTS TypeOK WindowsApart OnesOnlyInUpperHalves

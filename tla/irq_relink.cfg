CONSTANTS
  RxRing = 2
  MaxTx = 1
  Budget = 1
  Speeds <- MCSpeeds
SPECIFICATION FairSpec
PROPERTY InterruptsComeBack

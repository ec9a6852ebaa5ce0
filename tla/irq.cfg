CONSTANTS
  RxRing = 2
  MaxTx = 1
  Budget = 1
  Speeds <- MCSpeeds
SPECIFICATION FairSpec
INVARIANTS TypeOK RestMeansDone NothingUsesFreedRings
PROPERTIES DeafOnlyByRelink RingsServed

CONSTANTS
  N = 2
  Skbs = {s1, s2, s3}
  NoSkb = NoSkb
  SMP = FALSE
  HwRestart <- MCKeep
SPECIFICATION FairSpec
INVARIANTS TypeOK RingInv OwnHasBuffer NoEarlyFree TxSkbTracked
PROPERTIES OwnFreezesDesc SkbsComeBack QueueRestarts ImplementsFifo
CHECK_DEADLOCK FALSE

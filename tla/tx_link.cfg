CONSTANTS
  N = 2
  Skbs = {s1, s2, s3}
  NoSkb = NoSkb
  SMP = FALSE
  HwRestart <- MCKeep
SPECIFICATION FairSpec

PROPERTY FilledOverOwn
CHECK_DEADLOCK FALSE

CONSTANTS
  N = 2
  Pages = {p1, p2, p3, p4}
  NoPage = NoPage
  MaxSegs = 2
  Allocates <- MCFirst
  AllocMayFail = {"open", "poll"}
  HwFaults = TRUE
  HwRestart = {"keep"}
SPECIFICATION FairSpec
CONSTRAINT MCOnTrack
INVARIANTS TypeOK PagesTracked PacketsAreWhole
PROPERTIES DmaOnlyIntoRing PacketEnds ImplementsLine

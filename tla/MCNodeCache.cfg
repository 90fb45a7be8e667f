\* Three Jobs, one server, three files, two transfer threads; every failure.
CONSTANTS
  Jobs = {j1, j2, j3}
  Servers = {s1}
  NumFiles = 3
  Size <- MCSize
  Excess <- MCExcess
  CONCURRENCY = 2
  RESERVE = 1
  Capacity = 7
  OldContent = {"absent", "bad", "good", "escape"}

SPECIFICATION Spec
SYMMETRY Symmetry
INVARIANTS
  TypeOK
  MarkerMeansVerified
  LockCoversPool
  ServesVerified
PROPERTIES
  NoLiveTempSwept
  OnlyVerifiedReplaces
  ReserveKept
  IsVerifiedCopy

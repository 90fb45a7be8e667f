\* Two publishers, three files, two staged at once; every failure.
CONSTANTS
  Publishers = {p1, p2}
  NumFiles = 3
  Size <- MCSize
  CONCURRENCY = 2
  RESERVE = 1
  Scratch = 4
  HubCache = {0, 1}
  Perishable = {1}
  Lists <- MCLists
  MODEL_MAX_BYTES = 4

SPECIFICATION LiveSpec
INVARIANTS
  TypeOK
  ReadyMeansComplete
  SuccessMeansReady
PROPERTIES
  NoLiveStagingRemoved
  ReserveKept
  IsVerifiedCopy
  Completes

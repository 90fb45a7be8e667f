\* One replica on an allowlist of two nodes; the other backend may be created
\* once more.
CONSTANTS
  Nodes = {1, 2}
  Domain <- MCDomain
  nodeNames = {1, 2}
  Required = 1
  REPLACE_BACKEND = TRUE
  MaxUid = 2

SPECIFICATION LiveSpec
INVARIANTS
  TypeOK
  OneBackend
  DeletesWhatItRead
  ColdNodeKeptOut
PROPERTIES
  OldServesUntilReady
  Completes

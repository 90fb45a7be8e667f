\* One Job and its retries beside a second one, on a volume with room for the
\* files, their replacements and the reserve, and not a byte more.
CONSTANTS
  Jobs = {j1, j2}
  Servers = {s1}
  NumFiles = 2
  Size <- MCSize
  Excess <- MCExcess
  CONCURRENCY = 1
  RESERVE = 1
  Capacity = 7
  OldContent = {"absent", "bad", "good"}

SPECIFICATION LiveSpec
PROPERTY Recovers
CHECK_DEADLOCK FALSE

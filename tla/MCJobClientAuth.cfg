\* One invocation is enough.
CONSTANTS
  NumJobs = 1
  NumArtifacts = 1
  MaxErrors = 3
  MaxRuns = 1

SPECIFICATION Spec
INVARIANT AuthIsExplained
CHECK_DEADLOCK FALSE

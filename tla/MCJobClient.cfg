\* Two jobs, five invocations, an artifact name that always collides.
CONSTANTS
  NumJobs = 2
  NumArtifacts = 2
  MaxErrors = 3
  MaxRuns = 5

SPECIFICATION Spec
INVARIANTS
  TypeOK
  FollowsToTheEnd
  BundleResolves
CHECK_DEADLOCK FALSE

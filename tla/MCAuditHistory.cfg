\* Two runs of either kind, two workloads, two changes of the deployment.
CONSTANTS
  NumRuns = 2
  NumLoads = 2
  MaxGen = 3
  Conf <- MCConf
  MaxReviews = 1

SPECIFICATION Spec
INVARIANTS
  TypeOK
  ComparesLikeWithLike
  PassedIsEarned
CHECK_DEADLOCK FALSE

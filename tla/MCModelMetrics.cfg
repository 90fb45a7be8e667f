\* Jobs 1 and 2 publish, Job 3 fills a cache.
CONSTANTS
  Jobs = {1, 2, 3}
  Namespace <- MCNamespace
  Key <- MCKey
  Attempts <- MCAttempts
  Timed = {1, 2, 3}

SPECIFICATION LiveSpec
INVARIANT TypeOK
PROPERTIES
  SuccessMissesNothing
  Observed

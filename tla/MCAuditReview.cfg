\* One run and one review are enough.
CONSTANTS
  NumRuns = 1
  NumLoads = 1
  MaxGen = 1
  Conf <- MCConf
  MaxReviews = 1

SPECIFICATION Spec
PROPERTY ReviewStays
CHECK_DEADLOCK FALSE

\* Two requests; interrupts, kills, lost answers and failed writes at any time.
CONSTANT NumRequests = 2

SPECIFICATION LiveSpec
INVARIANTS
  TypeOK
  RunningJobsAreAccountedFor
  ReviewedIsComplete
PROPERTIES
  PolledJobsAreSaved
  Terminates
CHECK_DEADLOCK FALSE

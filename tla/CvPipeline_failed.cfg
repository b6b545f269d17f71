\* One job that fails on each of its attempts.
CONSTANTS
  w1 = w1
  w2 = w2
  r1 = r1
  r2 = r2
  NoOne = NoOne
  Worker <- TwoWorkers
  Request <- TwoRequests
  DocId = {1, 2}
  JobId = {1, 2}
  MaxAttempts = 2
  MaxFaults = 2
SPECIFICATION Spec
CHECK_DEADLOCK FALSE
INVARIANTS FailureShown

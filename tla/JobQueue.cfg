\* Two jobs, two faults and a shutdown, with the fairness of the polling loop.
CONSTANTS
  w1 = w1
  w2 = w2
  NoOne = NoOne
  Worker <- MCWorker
  NumJobs = 2
  Names = {"cv_parsing", "other"}
  Registered = {"cv_parsing"}
  Delays = {0, 1}
  MaxAttempts = 2
  BackoffUnit = 1
  MaxFaults = 2
  MaxShutdowns = 1
SPECIFICATION FairSpec
INVARIANTS TypeOK OneRunner LockProtocol AttemptsBounded OrphansAccounted
PROPERTIES Settles FinalIsFinal InDueOrder ImplementsLifecycle

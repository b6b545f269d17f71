\* Four requests of any kind on two postings.
CONSTANTS
  r1 = r1
  r2 = r2
  r3 = r3
  r4 = r4
  p1 = p1
  p2 = p2
  NoPosting = NoPosting
  Request <- FourRequests
  Posting <- TwoPostings
  AppId = {1, 2}
  Targets = {"interview", "offer", "rejected", "withdrawn"}
SYMMETRY Symmetry4
SPECIFICATION Spec
CHECK_DEADLOCK FALSE
INVARIANTS TypeOK OnePerPosting HistoryAccounts
PROPERTIES RulesBrokenOnlyByRaces

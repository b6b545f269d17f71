\* Two generations of a roadmap with two phases, a failure, four requests.
CONSTANTS
  r1 = r1
  r2 = r2
  r3 = r3
  r4 = r4
  t1 = t1
  t2 = t2
  t3 = t3
  m1 = m1
  m2 = m2
  m3 = m3
  p1 = p1
  p2 = p2
  Request <- FourRequests
  Task <- ThreeTasks
  Units <- TwoPhases
  Children <- TwoPhasesChildren
  Opened <- TwoPhasesOpened
  Weight <- Weights3
  RoadmapId = {1, 2}
  MaxFaults = 1
SYMMETRY Symmetry4
SPECIFICATION Spec
CHECK_DEADLOCK FALSE
INVARIANTS TypeOK NothingUnearned SupersededIsClosed
PROPERTIES CalmRecalculationHeals

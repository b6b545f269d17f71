\* One task completed.
CONSTANTS
  r1 = r1
  r2 = r2
  r3 = r3
  r4 = r4
  t1 = t1
  t2 = t2
  t3 = t3
  m1 = m1
  m2 = m2
  m3 = m3
  p1 = p1
  p2 = p2
  Request <- ThreeRequests
  Task <- TwoTasks
  Units <- OnePhase
  Children <- OnePhaseChildren
  Opened = {}
  Weight <- Weights2
  RoadmapId = {1}
  MaxFaults = 0

SPECIFICATION Spec
CHECK_DEADLOCK FALSE
PROPERTIES XpIsAwarded

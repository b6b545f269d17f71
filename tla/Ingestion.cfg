\* Two runs of one or two items at once, over two days, one failure.
CONSTANTS
  vacancy1 = vacancy1
  vacancy2 = vacancy2
  vacancy3 = vacancy3
  vacancy4 = vacancy4
  acme = acme
  globex = globex
  globexInc = globexInc
  go = go
  x1 = x1
  cDeveloper = cDeveloper
  goDeveloper = goDeveloper
  tester = tester
  dated = dated
  named = named
  aliased = aliased
  clashing = clashing
  None = None
  Item <- Items
  JobOf <- Jobs
  NameOf <- Names
  CompanyOf <- Companies
  SkillOf <- Skills
  ExtOf <- Exts
  LabelOf <- Labels
  DateOf <- Dates
  Known = {globex}
  RunId = {1, 2}
  Batches <- OneOrTwo
  MaxDay = 2
  MaxFaults = 1
SPECIFICATION FairSpec
CHECK_DEADLOCK FALSE
INVARIANTS TypeOK RecordsAreTrue SecondPostExplained CleanRunCovers
PROPERTIES RunEnds HealthFollowsRun

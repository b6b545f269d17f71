\* A failure of an item with an external id, and a second run.
CONSTANTS
  vacancy1 = vacancy1
  vacancy2 = vacancy2
  vacancy3 = vacancy3
  vacancy4 = vacancy4
  acme = acme
  globex = globex
  globexInc = globexInc
  go = go
  x1 = x1
  cDeveloper = cDeveloper
  goDeveloper = goDeveloper
  tester = tester
  dated = dated
  named = named
  aliased = aliased
  clashing = clashing
  None = None
  Item <- Items
  JobOf <- Jobs
  NameOf <- Names
  CompanyOf <- Companies
  SkillOf <- Skills
  ExtOf <- Exts
  LabelOf <- Labels
  DateOf <- Dates
  Known = {globex}
  RunId = {1, 2}
  Batches <- NamedOnly
  MaxDay = 1
  MaxFaults = 1
SPECIFICATION Spec
CHECK_DEADLOCK FALSE
INVARIANTS RetryImports

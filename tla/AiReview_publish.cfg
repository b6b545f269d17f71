\* One decision and no failure: is what is approved published?
CONSTANTS
  r1 = r1
  skill = skill
  jobPost = jobPost
  extraction = extraction
  Request = {r1}
  Item = {skill, jobPost, extraction}
  EntityType <- EntityTypeOf
  MaxFaults = 0
SPECIFICATION Spec
CHECK_DEADLOCK FALSE
INVARIANTS ApprovalPublishes

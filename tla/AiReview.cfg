\* Three decisions on one skill and one job post, one failure.
CONSTANTS
  r1 = r1
  r2 = r2
  r3 = r3
  skill = skill
  jobPost = jobPost
  extraction = extraction
  Request = {r1, r2, r3}
  Item = {skill, jobPost}
  EntityType <- EntityTypeOf
  MaxFaults = 1
SYMMETRY Symmetric
SPECIFICATION Spec
CHECK_DEADLOCK FALSE
INVARIANTS TypeOK TrailAccounts LogMatchesTrail PublishedAsDecided

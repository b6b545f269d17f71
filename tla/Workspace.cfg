\* Accounts, interview practice, the skill taxonomy, conversations, companies
\* and the recommendation feed.
CONSTANTS
  r1 = r1
  r2 = r2
  r3 = r3
  q1 = q1
  q2 = q2
  p1 = p1
  n1 = n1
  n2 = n2
  n3 = n3
  e1 = e1
  e2 = e2
  m1 = m1
  m2 = m2
  m3 = m3
  Request = {r1, r2, r3}
  MaxFaults = 1
  MaxCodes = 2
  Question = {q1, q2}
  Scores = {4, 9}
  Profile = {p1}
  Name = {n1, n2, n3}
  First = n1
  Second = n2
  Candidate = p1
  Experience = {e1, e2}
  MaxSkills = 3
  MaxLinks = 3
  MaxWork = 2
  HistoryLimit = 2
  CompanyName = {m1, m2, m3}
  Acme = m1
  Bell = m2
  MaxCompanies = 4
  lead = lead
  second = second
  mixed = mixed
  relisted = relisted
  repost = repost
  ext1 = ext1
  ext2 = ext2
  ext3 = ext3
  url1 = url1
  url2 = url2
  url3 = url3
  same = same
  other = other
  Ad <- Ads
  FirstImport <- Delivered
  IdOf <- ExternalIds
  UrlOf <- Urls
  PrintOf <- Prints
  SkillsIn <- SkillCounts
  ScoreOf <- MatchScores
  Versions = 2
  NotExtracted = NotExtracted
  PageSize = 1
  MaxImports = 1
  MaxEvents = 3
  MaxRequests = 2
  MaxMoves = 4
SYMMETRY Symmetric
SPECIFICATION WorkspaceSpec
CHECK_DEADLOCK FALSE
INVARIANTS
  WorkspaceTypeOK
  CodesAccounted
  PracticeAddsUp
  ToldIsHeld
  MatchExplained
  ConversationsAreWhole
  CompaniesKeepTheirs
PROPERTIES
  FeedIsCurrent

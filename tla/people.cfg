SPECIFICATION PeopleSpec
CONSTANTS
  r1 = r1
  r2 = r2
  s1 = s1
  g1 = g1
  g2 = g2
  w1 = w1
  w2 = w2
  u1 = u1
  u2 = u2
  Run = {r1, r2}
  Slip = {s1}
  Covers <- SharedSlip
  User = {u1, u2}
  Worker = {w1, w2}
  Salary = {1, 2}
  OneOfficer = TRUE
  Parts <- EveryPart
  Short = TRUE
  Entitlement <- Types
  Holder <- OneHolder
  Request = {r1, r2}
  Dates = {g1, g2}
  InYear <- OneYear
  Overlap <- TwoRanges
  Working <- WorkingDays
  NeedsHR <- AnnualIsHR
  Opening <- StartDays
  Rate <- OneAMonth
  Cap = 3
  MaxMonth = 1
  Adjustment = {0}
  Employee = {"e1", "e2"}
  Clerk = {"hr"}
  Salaries = {1, 2}
  Outcomes = {"late", "on_leave", "half_day"}
  Corrects = {"status"}
  Typed <- MorningOrNight
  Break = 1
  DayLength = 3
  LastDay = 1
  MaxEntered = 2
  Clocking = {"e1"}
  Org = {"o1", "o2"}
  Email = {"e1", "e2"}
  Currency = {"c1", "c2"}
  Key = {"k1", "k2"}
  Month = {"m1", "m2"}
  MaxPlaces = 3
  Template <- TwoReleases
  Settled = {"o1"}
  Permission = {"read", "post", "void"}
  SystemRole = {"clerk", "auditor"}
  CustomRole = {"own"}
  Member = {"m"}
  Seat = {"d"}
  File <- ThreeFiles
  MaxGrants = 1
  Department = {"hq", "eng", "fin"}
  Project = {"p"}
  Resource <- Resources
  Rule <- Shipped
  Rank <- RoleRank
  Actor = "e1"
  Boss <- OneBoss
  Builds = TRUE
  Moves = FALSE
  None = None
INVARIANTS PeopleTypeOK PaidByTheRules  OrganisationsStand NumbersAddUp
SYMMETRY AnyOrder
CHECK_DEADLOCK FALSE

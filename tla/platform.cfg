SPECIFICATION PlatformSpec
CONSTANTS
  None = None
  Tenant = {a, b}
  User = {u1}
  Worker = {w1, w2}
  Connection = {conn}
  MaxDepth = 2
  s1 = s1
  s2 = s2
  Schedule = {s1, s2}
  Cadence <- Periods
  Broken = {s2}
  Sweeper = {w1}
  MaxTime = 4
  MaxCrash = 2
  Person = {u1, u2}
  Founder = u1
  Asker = {w2}
  OneDesk = TRUE
  Offer = {i1, i2}
  MaxSent = 2
INVARIANTS PlatformTypeOK OnlyItsTenant DeliveredOnce MembersAgree
PROPERTIES PlatformMovesOn
CHECK_DEADLOCK FALSE

SPECIFICATION FairSpec
CONSTANTS
  r1 = r1
  r2 = r2
  r3 = r3
  r4 = r4
  r5 = r5
  r6 = r6
  Request = {r1, r2, r3, r4, r5}
  Op <- TokensOp
  User = {u1}
  Password = {w1}
  Ticket = {t1}
  OneBrowser = TRUE
  None = None
  MaxFaults = 1
INVARIANTS CookieLagsByOneAnswer UsedMeansAccepted
PROPERTIES RequestsReturn ImplementsTokenChain LiveCookieKept
CHECK_DEADLOCK FALSE

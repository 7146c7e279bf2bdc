SPECIFICATION Spec
CONSTANTS
  r1 = r1
  r2 = r2
  r3 = r3
  r4 = r4
  r5 = r5
  r6 = r6
  Request = {r1, r2, r3, r4, r5, r6}
  Op <- PasswordsOp
  User = {u1}
  Password = {w1}
  Ticket = {t1}
  OneBrowser = FALSE
  None = None
  MaxFaults = 1
INVARIANTS DeadlocksArePairs
PROPERTIES TicketResetsOnce UserRowKept PasswordChangeEndsSessions LockLeavesByOwner
SYMMETRY PasswordsSymmetry
CHECK_DEADLOCK FALSE

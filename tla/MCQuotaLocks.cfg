SPECIFICATION FairSpec
CONSTANTS
  Users = {u1}
  Logins = {l1}
  Requests = {q1, q2}
  Writers = {w1}
  Overrides = {0, 2}
  quotaPerDay = 1
  MaxDay = 1
  None = None
INVARIANTS
  LocksHold
PROPERTIES
  ImplementsQuota
  AdmittedWithinLimit
  CallsReturn

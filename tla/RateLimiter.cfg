CONSTANTS
  Callers = {c1, c2}
  Limits = {0, 1, 2}
  Second = 2
  Skew = 1
  Expiry = 4
  MaxTime = 6
  Absent = Absent
SPECIFICATION LimiterSpec
INVARIANT LimiterTypeOK
INVARIANT BurstBound
PROPERTY QuietThenAdmitted

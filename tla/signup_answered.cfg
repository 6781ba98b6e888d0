CONSTANTS
  p1 = p1  p2 = p2  p3 = p3  v1 = v1  v2 = v2
  e1 = e1  e2 = e2  m1 = m1  m2 = m2  none = none
  Starts = {p1, p2}
  Verifies = {v1, v2}
  Emails = {e1}
  Mobiles = {m1}
  Ttl = 1
  MaxClock = 1
  None = none
SPECIFICATION FairSpec
PROPERTY CallsFinish

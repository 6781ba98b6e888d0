CONSTANTS
  r1 = r1  r2 = r2  r3 = r3
  s0 = s0  s1 = s1  u1 = u1  d1 = d1  d2 = d2  l1 = l1  l2 = l2  none = none
  Requests = {r1, r2}
  Seeds = {s0}
  Users = {u1}
  Devices = {d1}
  Locations = {l1}
  Owner <- OneOwner
  Ops = {"create", "revoke"}
  Goals = {}
  Ttl = 2
  Policies = {3}
  ScheduleEnds = {9}
  MaxClock = 1
  None = none
SPECIFICATION Spec
PROPERTY RevokedBlocksIssuance

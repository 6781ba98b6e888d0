\* create, refresh and revoke of the sessions of one device
CONSTANTS
  r1 = r1  r2 = r2  r3 = r3
  s0 = s0  s1 = s1  u1 = u1  d1 = d1  d2 = d2  l1 = l1  l2 = l2  none = none
  Requests = {r1, r2, r3}
  Seeds = {s0}
  Users = {u1}
  Devices = {d1}
  Locations = {l1, l2}
  Owner <- OneOwner
  Ops = {"create", "refresh", "revoke"}
  Goals = {}
  Ttl = 2
  Policies = {1, 3}
  ScheduleEnds = {2, 9}
  MaxClock = 2
  None = none
SPECIFICATION Spec
SYMMETRY RequestSymmetry
INVARIANTS
  TypeOK
  OneActiveSession
  RevocationWindow
  DurationCap
  NoWaitCycle
PROPERTIES
  ImplementsLedger
  IssueMatchesRow

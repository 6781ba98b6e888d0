\* administrators change the USER's status while its sessions are in use
CONSTANTS
  r1 = r1  r2 = r2  r3 = r3
  s0 = s0  s1 = s1  u1 = u1  d1 = d1  d2 = d2  l1 = l1  l2 = l2  none = none
  Requests = {r1, r2, r3}
  Seeds = {s0}
  Users = {u1}
  Devices = {d1, d2}
  Locations = {l1}
  Owner <- OneOwner
  Ops = {"create", "refresh", "status"}
  Goals = {"ACTIVE", "SUSPENDED", "EXITED"}
  Ttl = 1
  Policies = {1}
  ScheduleEnds = {9}
  MaxClock = 0
  None = none
SPECIFICATION FairSpec
INVARIANTS
  EstablishedSessionsRevoked
  NoWaitCycle
PROPERTIES
  RequestsFinish

\* Two calls of any kind at once, on each database of Found.
SPECIFICATION FairSpec
CONSTANTS
  q1 = q1
  q2 = q2
  a = a
  b = b
  s1 = s1
  s2 = s2
  role = role
  owner = owner
  None = None
  Requests = {q1, q2}
  Seeds = {a, b}
  Subjects = {s1, s2}
  Roles = {role, owner}
  Privileged = {owner}
  MaxDevices = 1
  Expected = s1
  Verbs <- TheVerbs
  Starts <- Found
INVARIANTS
  TypeOK
  DeviceLimit
  OneWinner
  OneAdminPerPath
  CirclesKnown
PROPERTIES
  AccessWasDecided
  
  
  IdentityKept
  KeyVersionGrows
  CallsFinish
CHECK_DEADLOCK FALSE

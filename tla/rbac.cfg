\* Two concurrent calls of every kind, from six tenants.
SPECIFICATION Spec
CONSTANTS
  q1 = q1
  q2 = q2
  q3 = q3
  seed = seed
  ann = ann
  bob = bob
  group = group
  ordinary = ordinary
  privileged = privileged
  perm = perm
  none = none
  Requests = {q1, q2}
  Seeds = {seed}
  Users = {1, 2}
  Actors = {1, ann, bob}
  Groups = {group}
  Roles = {ordinary, privileged}
  Perms = {perm}
  Privileged = {privileged}
  Verbs = {"add", "remove", "ask", "status", "template", "catalog", "approve", "reject"}
  Starts <- Found
  None = none
SYMMETRY Symmetry
CHECK_DEADLOCK FALSE
INVARIANTS TypeOK NoWaitCycle
PROPERTIES OwnChangeBumps UncontendedChangeBumps MakerChecker DecidedOnce

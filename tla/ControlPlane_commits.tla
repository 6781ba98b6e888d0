------------------------- MODULE ControlPlane_commits -------------------------
(***************************************************************************)
(* What the commits of ControlPlane publish, and with it the invariant of  *)
(* ControlPlane_courses for every behaviour; and what follows from it: how *)
(* access, identities, requests, decisions and keys depend on the locks    *)
(* that calls take, and which calls alone can wait for one another.        *)
(***************************************************************************)
EXTENDS ControlPlane_courses

-----------------------------------------------------------------------------
(* The commits. *)

(* The step of call q keeps what the others rely on and the tables right. *)
Sound(q) ==
  /\ Alone(q) /\ Guarded(q)
  /\ db' \in Database /\ ForeignKeys(db') /\ InStep(db')
  /\ \A r \in Requests : Unborn(r)' => NoRowsOf(db', r)

LEMMA SoundStep ==
  ASSUME CourseInv, NEW q \in Requests, Sound(q)
  PROVE  CourseInv'
BY CourseStep DEF Sound

LEMMA QuietIsSound ==
  ASSUME CourseInv, NEW q \in Requests, Quiet(q)
  PROVE  Sound(q)
<1>1. Guarded(q)
  BY DEF Quiet, Guarded, GuardedInvitations, GuardedIdentities, GuardedMembers,
         GuardedRequests, GuardedDevices, GuardedSettings
<1>2. \A r \in Requests : Unborn(r)' => Unborn(r)
  BY OthersSame DEF Quiet, Alone, Unborn
<1> QED BY <1>1, <1>2 DEF Quiet, Sound, CourseInv, Typed, Rows

LEMMA StillUnborn ==
  ASSUME CourseInv, NEW q \in Requests, Alone(q), pc'[q] # "run", NEW r \in Requests, Unborn(r)'
  PROVE  r # q /\ Unborn(r) /\ NoRowsOf(db, r)
<1>1. r # q
  BY DEF Alone, Unborn, Outcomes
<1>2. Unborn(r)
  BY <1>1, OthersSame DEF Unborn
<1> QED BY <1>1, <1>2 DEF CourseInv, Rows

(* The commit of a call that is about none of the tables of USERs. *)
LEMMA PlainCommit ==
  ASSUME CourseInv, NEW q \in Requests, Alone(q), pc'[q] # "run", db' \in Database,
         db'.user = db.user, db'.identity = db.identity, db'.member = db.member,
         db'.invitation = db.invitation, db'.request = db.request, db'.device = db.device,
         GuardedSettings(q)
  PROVE  Sound(q)
<1>1. Guarded(q)
  BY DEF Guarded, GuardedInvitations, GuardedIdentities, GuardedMembers, GuardedRequests, GuardedDevices
<1>2. ForeignKeys(db') /\ InStep(db')
  BY DEF CourseInv, Rows, ForeignKeys, InStep
<1>3. \A r \in Requests : Unborn(r)' => NoRowsOf(db', r)
  BY StillUnborn DEF NoRowsOf
<1> QED BY <1>1, <1>2, <1>3 DEF Sound

LEMMA SetKeySound ==
  ASSUME CourseInv, NEW q \in Requests, pc[q] = "run", call[q].verb = "setKey", Run(q)
  PROVE  Sound(q)
<1>1. CASE CommitSetKey(q) /\ Keying(q) /\ Here(q, <<Finish>>, {<<"key">>})
  <2>1. PICK status \in {"ACTIVE", "DISABLED"} :
          Publish(q, [db EXCEPT !.key = [status |-> status, version |-> call[q].version, by |-> q]], "ok")
    BY <1>1 DEF CommitSetKey
  <2> DEFINE k == [status |-> status, version |-> call[q].version, by |-> q]
             d == [db EXCEPT !.key = k]
  <2>2. db' = d /\ pc'[q] = "ok" /\ Alone(q)
    <3>1. ~(call[q].verb \in {"cancel", "accept", "approve", "reject", "activate", "activateTenant"})
      OBVIOUS
    <3> HIDE DEF d
    <3>2. Publish(q, d, "ok")
      BY <2>1 DEF d
    <3>3. db' = d /\ pc'[q] = "ok" /\ call'[q].verb = "setKey" /\ (Standing(q)' => Alone(q))
      BY <3>2, Publishes DEF Outcomes
    <3> QED BY <3>3 DEF Standing
  <2>3. k \in Keys
    <3>1. call[q].version \in Nat \ {0}
      <4>1. db.key \in Keys \cup {NoRow}
        BY DEF CourseInv, Typed, Database
      <4>2. call[q].version = 1 \/ (db.key # NoRow /\ call[q].version = db.key.version + 1)
        <5>1. Len(<<Finish>>) = 1 /\ \A s, t : Len(<<s, t>>) = 2 /\ \A v : Len(<<s, t, v>>) = 3
          OBVIOUS
        <5> QED BY <1>1, <5>1 DEF Keying, Here
      <4> QED BY <4>1, <4>2 DEF Keys
    <3> QED BY <3>1 DEF Keys, Ids
  <2>4. db' \in Database
    BY <2>2, <2>3 DEF CourseInv, Typed, Database
  <2>5. /\ db'.user = db.user /\ db'.identity = db.identity /\ db'.member = db.member
        /\ db'.invitation = db.invitation /\ db'.request = db.request /\ db'.device = db.device
        /\ db'.tenant = db.tenant /\ db'.setting = db.setting
    BY <2>2 DEF CourseInv, Typed, Database
  <2>6. GuardedSettings(q)
    BY <1>1, <2>5 DEF GuardedSettings, Here
  <2> QED BY <2>2, <2>4, <2>5, <2>6, PlainCommit
<1> QED BY <1>1, SetKeyRuns, QuietIsSound

LEMMA DisableKeySound ==
  ASSUME CourseInv, NEW q \in Requests, pc[q] = "run", call[q].verb = "disableKey", Run(q)
  PROVE  Sound(q)
<1>1. CASE CommitDisableKey(q) /\ db.key # NoRow /\ locks[q] = {<<"key">>}
  <2>1. Publish(q, [db EXCEPT !.key.status = "DISABLED"], "ok")
    BY <1>1 DEF CommitDisableKey
  <2> DEFINE d == [db EXCEPT !.key.status = "DISABLED"]
  <2>2. db' = d /\ pc'[q] = "ok" /\ Alone(q)
    <3> HIDE DEF d
    <3>1. Publish(q, d, "ok")
      BY <2>1 DEF d
    <3>2. db' = d /\ pc'[q] = "ok" /\ call'[q].verb = "disableKey" /\ (Standing(q)' => Alone(q))
      BY <3>1, Publishes DEF Outcomes
    <3> QED BY <3>2 DEF Standing
  <2>3. db' \in Database
    BY <1>1, <2>1, <2>2 DEF CourseInv, Typed, Database, Keys
  <2>4. /\ db'.user = db.user /\ db'.identity = db.identity /\ db'.member = db.member
        /\ db'.invitation = db.invitation /\ db'.request = db.request /\ db'.device = db.device
        /\ db'.tenant = db.tenant /\ db'.setting = db.setting
    BY <2>1, <2>2 DEF CourseInv, Typed, Database
  <2>5. GuardedSettings(q)
    BY <1>1, <2>4 DEF GuardedSettings
  <2> QED BY <2>2, <2>3, <2>4, <2>5, PlainCommit
<1> QED BY <1>1, DisableKeyRuns, QuietIsSound

LEMMA CreateTenantSound ==
  ASSUME CourseInv, NEW q \in Requests, pc[q] = "run", call[q].verb = "createTenant", Run(q)
  PROVE  Sound(q)
<1>1. CASE CommitCreateTenant(q) /\ db.tenant = "NONE" /\ locks[q] = {<<"tenant">>}
  <2>1. PICK status \in {"ACTIVE", "DISABLED", "NONE"} :
          Publish(q, [db EXCEPT !.tenant = "CONFIGURING",
                          !.setting = IF status = "NONE" THEN NoRow
                                      ELSE [status |-> status, version |-> 1]], "ok")
    BY <1>1 DEF CommitCreateTenant
  <2> DEFINE d == [db EXCEPT !.tenant = "CONFIGURING",
                          !.setting = IF status = "NONE" THEN NoRow
                                      ELSE [status |-> status, version |-> 1]]
  <2>2. db' = d /\ pc'[q] = "ok" /\ Alone(q)
    <3> HIDE DEF d
    <3>1. Publish(q, d, "ok")
      BY <2>1 DEF d
    <3>2. db' = d /\ pc'[q] = "ok" /\ call'[q].verb = "createTenant" /\ (Standing(q)' => Alone(q))
      BY <3>1, Publishes DEF Outcomes
    <3> QED BY <3>2 DEF Standing
  <2>3. db' \in Database
    <3> DEFINE setting == IF status = "NONE" THEN NoRow ELSE [status |-> status, version |-> 1]
    <3>1. setting \in Settings \cup {NoRow}
      BY <2>1 DEF Settings
    <3> HIDE DEF setting
    <3>2. [db EXCEPT !.tenant = "CONFIGURING", !.setting = setting] \in Database
      BY <3>1 DEF CourseInv, Typed, Database
    <3> QED BY <2>2, <3>2 DEF setting
  <2>4. /\ db'.user = db.user /\ db'.identity = db.identity /\ db'.member = db.member
        /\ db'.invitation = db.invitation /\ db'.request = db.request /\ db'.device = db.device
        /\ db'.key = db.key
        /\ db'.tenant = "CONFIGURING"
    BY <2>1, <2>2 DEF CourseInv, Typed, Database
  <2>5. GuardedSettings(q)
    BY <1>1, <2>4 DEF GuardedSettings
  <2> QED BY <2>2, <2>3, <2>4, <2>5, PlainCommit
<1> QED BY <1>1, CreateTenantRuns, QuietIsSound

LEMMA ActivateTenantSound ==
  ASSUME CourseInv, NEW q \in Requests, pc[q] = "run", call[q].verb = "activateTenant", Run(q)
  PROVE  Sound(q)
<1>1. CASE CommitActivateTenant(q) /\ db.tenant = "CONFIGURING" /\ locks[q] = {<<"tenant">>}
  <2>1. Publish(q, [db EXCEPT !.tenant = "ACTIVE"], "ok")
    BY <1>1 DEF CommitActivateTenant
  <2> DEFINE d == [db EXCEPT !.tenant = "ACTIVE"]
  <2>2. db' = d /\ pc'[q] = "ok" /\ Alone(q)
    <3> HIDE DEF d
    <3>1. Publish(q, d, "ok")
      BY <2>1 DEF d
    <3>2. db' = d /\ pc'[q] = "ok" /\ call'[q].verb = "activateTenant" /\ (Standing(q)' => Alone(q))
      BY <3>1, Publishes DEF Outcomes
    <3>3. db'.tenant = "ACTIVE"
      BY <3>2 DEF d, CourseInv, Typed, Database
    <3> QED BY <3>2, <3>3 DEF Standing
  <2>3. db' \in Database
    BY <1>1, <2>1, <2>2 DEF CourseInv, Typed, Database
  <2>4. /\ db'.user = db.user /\ db'.identity = db.identity /\ db'.member = db.member
        /\ db'.invitation = db.invitation /\ db'.request = db.request /\ db'.device = db.device
        /\ db'.setting = db.setting /\ db'.key = db.key
        /\ db'.tenant = "ACTIVE"
    BY <2>1, <2>2 DEF CourseInv, Typed, Database
  <2>5. GuardedSettings(q)
    BY <1>1, <2>4 DEF GuardedSettings
  <2> QED BY <2>2, <2>3, <2>4, <2>5, PlainCommit
<1> QED BY <1>1, ActivateTenantRuns, QuietIsSound

LEMMA RotateTokenSound ==
  ASSUME CourseInv, NEW q \in Requests, pc[q] = "run", call[q].verb = "rotateToken", Run(q)
  PROVE  Sound(q)
<1>1. CASE CommitRotateToken(q) /\ locks[q] = {<<"setting">>}
  <2>1. Publish(q, [db EXCEPT !.setting =
                          [status |-> "ACTIVE", version |-> IF @ = NoRow THEN 1 ELSE @.version + 1]], "ok")
    BY <1>1 DEF CommitRotateToken
  <2> DEFINE d == [db EXCEPT !.setting =
                          [status |-> "ACTIVE", version |-> IF @ = NoRow THEN 1 ELSE @.version + 1]]
  <2>2. db' = d /\ pc'[q] = "ok" /\ Alone(q)
    <3> HIDE DEF d
    <3>1. Publish(q, d, "ok")
      BY <2>1 DEF d
    <3>2. db' = d /\ pc'[q] = "ok" /\ call'[q].verb = "rotateToken" /\ (Standing(q)' => Alone(q))
      BY <3>1, Publishes DEF Outcomes
    <3> QED BY <3>2 DEF Standing
  <2>3. db' \in Database
    BY <1>1, <2>1, <2>2 DEF CourseInv, Typed, Database, Settings
  <2>4. /\ db'.user = db.user /\ db'.identity = db.identity /\ db'.member = db.member
        /\ db'.invitation = db.invitation /\ db'.request = db.request /\ db'.device = db.device
        /\ db'.tenant = db.tenant /\ db'.key = db.key
    BY <2>1, <2>2 DEF CourseInv, Typed, Database
  <2>5. GuardedSettings(q)
    BY <1>1, <2>4 DEF GuardedSettings
  <2> QED BY <2>2, <2>3, <2>4, <2>5, PlainCommit
<1> QED BY <1>1, RotateTokenRuns, QuietIsSound

LEMMA DisableTokenSound ==
  ASSUME CourseInv, NEW q \in Requests, pc[q] = "run", call[q].verb = "disableToken", Run(q)
  PROVE  Sound(q)
<1>1. CASE CommitDisableToken(q) /\ db.setting # NoRow /\ locks[q] = {<<"setting">>}
  <2>1. Publish(q, [db EXCEPT !.setting.status = "DISABLED"], "ok")
    BY <1>1 DEF CommitDisableToken
  <2> DEFINE d == [db EXCEPT !.setting.status = "DISABLED"]
  <2>2. db' = d /\ pc'[q] = "ok" /\ Alone(q)
    <3> HIDE DEF d
    <3>1. Publish(q, d, "ok")
      BY <2>1 DEF d
    <3>2. db' = d /\ pc'[q] = "ok" /\ call'[q].verb = "disableToken" /\ (Standing(q)' => Alone(q))
      BY <3>1, Publishes DEF Outcomes
    <3> QED BY <3>2 DEF Standing
  <2>3. db' \in Database
    BY <1>1, <2>1, <2>2 DEF CourseInv, Typed, Database, Settings
  <2>4. /\ db'.user = db.user /\ db'.identity = db.identity /\ db'.member = db.member
        /\ db'.invitation = db.invitation /\ db'.request = db.request /\ db'.device = db.device
        /\ db'.tenant = db.tenant /\ db'.key = db.key
    BY <2>1, <2>2 DEF CourseInv, Typed, Database
  <2>5. GuardedSettings(q)
    BY <1>1, <2>4 DEF GuardedSettings
  <2> QED BY <2>2, <2>3, <2>4, <2>5, PlainCommit
<1> QED BY <1>1, DisableTokenRuns, QuietIsSound

(* The commit of a call that writes one row of users. *)
LEMMA UserCommit ==
  ASSUME CourseInv, NEW q \in Requests, Alone(q), pc'[q] # "run", db' \in Database,
         NEW u \in Ids, u \in Requests \ {q} => ~Unborn(u), NEW status, status # "NONE",
         db'.user = [db.user EXCEPT ![u] = status],
         db'.identity = db.identity, db'.member = db.member,
         db'.invitation = db.invitation, db'.request = db.request, db'.device = db.device,
         db'.tenant = db.tenant, db'.setting = db.setting, db'.key = db.key
  PROVE  Sound(q)
<1>1. \A w \in Ids : db'.user[w] = IF w = u THEN status ELSE db.user[w]
  BY DEF CourseInv, Typed, Database
<1>2. Guarded(q)
  BY <1>1 DEF Guarded, GuardedInvitations, GuardedIdentities, GuardedMembers, GuardedRequests,
              GuardedDevices, GuardedSettings
<1>3. ForeignKeys(db')
  <2>1. /\ \A s \in Subjects : db.identity[s] \in Ids \cup {None}
        /\ \A x \in Ids : db.invitation[x].status = "PENDING" => db.invitation[x].user \in Ids
        /\ \A x \in Ids : db.request[x] # NoRow => db.request[x].user \in Ids
    BY DEF CourseInv, Typed, Database, Invitations, SelfRequests, NoRow
  <2> QED BY <1>1, <2>1 DEF CourseInv, Rows, ForeignKeys
<1>4. InStep(db')
  BY DEF CourseInv, Rows, InStep
<1>5. ASSUME NEW r \in Requests, Unborn(r)'
      PROVE  NoRowsOf(db', r)
  <2>1. r # q /\ Unborn(r) /\ NoRowsOf(db, r)
    BY <1>5, StillUnborn
  <2>2. r # u /\ r \in Ids
    BY <2>1 DEF Ids
  <2> QED BY <1>1, <2>1, <2>2 DEF NoRowsOf
<1> QED BY <1>2, <1>3, <1>4, <1>5 DEF Sound

LEMMA BootstrapSound ==
  ASSUME CourseInv, NEW q \in Requests, pc[q] = "run", call[q].verb = "bootstrap", Run(q)
  PROVE  Sound(q)
<1>1. CASE CommitBootstrap(q)
  <2> DEFINE d == [db EXCEPT !.user[q] = "ACTIVE", !.login = q, !.admin[q] = "bootstrap"]
  <2>1. Publish(q, d, "ok")
    BY <1>1 DEF CommitBootstrap
  <2>2. db' = d /\ pc'[q] = "ok" /\ Alone(q)
    <3> HIDE DEF d
    <3>1. db' = d /\ pc'[q] = "ok" /\ call'[q].verb = "bootstrap" /\ (Standing(q)' => Alone(q))
      BY <2>1, Publishes DEF Outcomes
    <3> QED BY <3>1 DEF Standing
  <2>3. db' \in Database
    BY <2>2 DEF CourseInv, Typed, Database, Ids, Paths
  <2>4. /\ db'.identity = db.identity /\ db'.member = db.member /\ db'.invitation = db.invitation
        /\ db'.request = db.request /\ db'.device = db.device /\ db'.tenant = db.tenant
        /\ db'.setting = db.setting /\ db'.key = db.key
        /\ db'.user = [db.user EXCEPT ![q] = "ACTIVE"]
    BY <2>2 DEF CourseInv, Typed, Database
  <2>5. q \in Ids /\ (q \in Requests \ {q} => ~Unborn(q)) /\ "ACTIVE" # "NONE" /\ pc'[q] # "run"
    BY <2>2 DEF Ids
  <2> HIDE DEF d
  <2> QED BY <2>2, <2>3, <2>4, <2>5, UserCommit
<1> QED BY <1>1, BootstrapRuns, QuietIsSound

LEMMA ConfigureSound ==
  ASSUME CourseInv, NEW q \in Requests, pc[q] = "run", call[q].verb = "configure", Run(q)
  PROVE  Sound(q)
<1> DEFINE u == call[q].user
<1>1. CASE CommitConfigure(q) /\ u \in Ids /\ (u \in Requests \ {q} => ~Unborn(u))
  <2>1. PICK status \in {"INVITED", "ACTIVE", "INACTIVE"} :
          Publish(q, [db EXCEPT !.user[u] = status], "ok")
    BY <1>1 DEF CommitConfigure
  <2> DEFINE d == [db EXCEPT !.user[u] = status]
  <2>2. db' = d /\ pc'[q] = "ok" /\ Alone(q)
    <3> HIDE DEF d
    <3>1. Publish(q, d, "ok")
      BY <2>1 DEF d
    <3>2. db' = d /\ pc'[q] = "ok" /\ call'[q].verb = "configure" /\ (Standing(q)' => Alone(q))
      BY <3>1, Publishes DEF Outcomes
    <3> QED BY <3>2 DEF Standing
  <2>3. db' \in Database
    BY <1>1, <2>2 DEF CourseInv, Typed, Database
  <2>4. /\ db'.identity = db.identity /\ db'.member = db.member /\ db'.invitation = db.invitation
        /\ db'.request = db.request /\ db'.device = db.device /\ db'.tenant = db.tenant
        /\ db'.setting = db.setting /\ db'.key = db.key
        /\ db'.user = [db.user EXCEPT ![u] = status]
    BY <2>2 DEF CourseInv, Typed, Database
  <2> QED BY <1>1, <2>1, <2>2, <2>3, <2>4, UserCommit
<1> QED BY <1>1, ConfigureRuns, QuietIsSound

(* The commit of a call that writes a device. *)
LEMMA DeviceCommit ==
  ASSUME CourseInv, NEW q \in Requests, Alone(q), pc'[q] # "run", db' \in Database,
         GuardedDevices(q),
         NEW x, x \in Requests \ {q} => db.device[x] # NoRow, \A y \in Ids \ {x} : db'.device[y] = db.device[y],
         db'.user = db.user, db'.identity = db.identity, db'.member = db.member,
         db'.invitation = db.invitation, db'.request = db.request,
         db'.tenant = db.tenant, db'.setting = db.setting, db'.key = db.key
  PROVE  Sound(q)
<1>1. Guarded(q)
  BY DEF Guarded, GuardedInvitations, GuardedIdentities, GuardedMembers, GuardedRequests, GuardedSettings
<1>2. ForeignKeys(db') /\ InStep(db')
  BY DEF CourseInv, Rows, ForeignKeys, InStep
<1>3. ASSUME NEW r \in Requests, Unborn(r)'
      PROVE  NoRowsOf(db', r)
  <2>1. r # q /\ NoRowsOf(db, r) /\ r \in Ids
    BY <1>3, StillUnborn DEF Ids
  <2>2. r # x
    BY <2>1 DEF NoRowsOf
  <2> QED BY <2>1, <2>2 DEF NoRowsOf
<1> QED BY <1>1, <1>2, <1>3 DEF Sound

LEMMA EnrollSound ==
  ASSUME CourseInv, NEW q \in Requests, pc[q] = "run", call[q].verb = "enroll", Run(q)
  PROVE  Sound(q)
<1> DEFINE u == call[q].user
           device == [status |-> "PENDING", user |-> u, enrolment |-> "PENDING"]
           d == [db EXCEPT !.device[q] = device]
<1>1. InsertDevice(q) /\ u \in Ids
  BY EnrollRuns
<1>2. CASE Leave(q, "conflict")
  BY <1>2, Leaves, QuietIsSound DEF Outcomes
<1>3. CASE Publish(q, d, "ok")
  <2>1. db' = d /\ pc'[q] = "ok" /\ Alone(q)
    <3> HIDE DEF d
    <3>1. db' = d /\ pc'[q] = "ok" /\ call'[q].verb = "enroll" /\ (Standing(q)' => Alone(q))
      BY <1>3, Publishes DEF Outcomes
    <3> QED BY <3>1 DEF Standing
  <2>2. q \in Ids /\ device \in Devices
    BY <1>1 DEF Ids, Devices
  <2> HIDE DEF device
  <2>3. db' \in Database
    BY <2>1, <2>2 DEF CourseInv, Typed, Database
  <2>4. /\ db'.identity = db.identity /\ db'.member = db.member /\ db'.invitation = db.invitation
        /\ db'.request = db.request /\ db'.user = db.user /\ db'.tenant = db.tenant
        /\ db'.setting = db.setting /\ db'.key = db.key
        /\ \A x \in Ids : db'.device[x] = IF x = q THEN device ELSE db.device[x]
    BY <2>1 DEF CourseInv, Typed, Database
  <2>5. device # NoRow
    BY <2>2 DEF Devices, NoRow
  <2>6. GuardedDevices(q)
    BY <2>4, <2>5 DEF GuardedDevices
  <2>7. \A y \in Ids \ {q} : db'.device[y] = db.device[y]
    BY <2>4
  <2>8. (q \in Requests \ {q} => db.device[q] # NoRow) /\ pc'[q] # "run"
    BY <2>1
  <2> HIDE DEF d
  <2> QED BY <2>1, <2>3, <2>4, <2>6, <2>7, <2>8, DeviceCommit
<1> QED BY <1>1, <1>2, <1>3 DEF InsertDevice

LEMMA ActivateSound ==
  ASSUME CourseInv, NEW q \in Requests, pc[q] = "run", call[q].verb = "activate", Run(q)
  PROVE  Sound(q)
<1> DEFINE x == call[q].row
           device == [db.device[x] EXCEPT !.status = "ACTIVE", !.enrolment = "APPROVED"]
           d == [db EXCEPT !.device[x] = device]
<1>1. CASE /\ CommitActivate(q) /\ x \in Ids /\ db.device[x] # NoRow
           /\ db.device[x].status = "PENDING" /\ <<"device", x>> \in locks[q]
  <2>1. Publish(q, d, "ok")
    BY <1>1 DEF CommitActivate
  <2>2. db.device[x] \in Devices /\ x # q
    <3>1. Unborn(q)
      BY DEF Unborn
    <3>2. x # q
      BY <1>1, <3>1, UnbornUnknown DEF NoRowsOf
    <3> QED BY <1>1, <3>2 DEF CourseInv, Typed, Database
  <2>3. device \in Devices /\ device.status = "ACTIVE" /\ device.user = db.device[x].user /\ device # NoRow
    BY <2>2 DEF Devices, NoRow
  <2> HIDE DEF device
  <2>4. db' = d /\ pc'[q] = "ok" /\ call'[q].verb = "activate" /\ call'[q].row = x
        /\ (Standing(q)' => Alone(q))
    <3> HIDE DEF d
    <3> QED BY <2>1, Publishes DEF Outcomes
  <2>5. /\ db'.identity = db.identity /\ db'.member = db.member /\ db'.invitation = db.invitation
        /\ db'.request = db.request /\ db'.user = db.user /\ db'.tenant = db.tenant
        /\ db'.setting = db.setting /\ db'.key = db.key
        /\ \A y \in Ids : db'.device[y] = IF y = x THEN device ELSE db.device[y]
    BY <1>1, <2>4 DEF CourseInv, Typed, Database
  <2>6. Alone(q)
    BY <1>1, <2>3, <2>4, <2>5 DEF Standing
  <2>7. db' \in Database
    BY <1>1, <2>3, <2>4 DEF CourseInv, Typed, Database
  <2>8. GuardedDevices(q)
    BY <1>1, <2>3, <2>5 DEF GuardedDevices
  <2>9. (\A y \in Ids \ {x} : db'.device[y] = db.device[y]) /\ pc'[q] # "run"
        /\ (x \in Requests \ {q} => db.device[x] # NoRow)
    BY <1>1, <2>4, <2>5
  <2> HIDE DEF d, x
  <2> QED BY <2>5, <2>6, <2>7, <2>8, <2>9, DeviceCommit
<1> QED BY <1>1, ActivateRuns, QuietIsSound

LEMMA LinkSound ==
  ASSUME CourseInv, NEW q \in Requests, pc[q] = "run", call[q].verb = "link", Run(q)
  PROVE  Sound(q)
<1> DEFINE u == call[q].user
           s == call[q].subject
           d == [db EXCEPT !.identity[s] = LinkedTo(@, u)]
<1>1. CASE /\ CommitLink(q) /\ u \in Ids /\ s \in Subjects /\ db.user[u] # "NONE"
           /\ locks[q] = {<<"subject", s>>, <<"deleted", u>>}
  <2>1. Publish(q, d, "ok")
    BY <1>1 DEF CommitLink
  <2>2. db' = d /\ pc'[q] = "ok" /\ Alone(q)
    <3> HIDE DEF d
    <3>1. db' = d /\ pc'[q] = "ok" /\ call'[q].verb = "link" /\ (Standing(q)' => Alone(q))
      BY <2>1, Publishes DEF Outcomes
    <3> QED BY <3>1 DEF Standing
  <2>3. /\ db'.user = db.user /\ db'.member = db.member /\ db'.invitation = db.invitation
        /\ db'.request = db.request /\ db'.device = db.device /\ db'.tenant = db.tenant
        /\ db'.setting = db.setting /\ db'.key = db.key
        /\ \A z \in Subjects :
             db'.identity[z] = IF z = s /\ db.identity[z] = None THEN u ELSE db.identity[z]
    BY <1>1, <2>2 DEF CourseInv, Typed, Database, LinkedTo
  <2>4. db' \in Database
    BY <1>1, <2>2 DEF CourseInv, Typed, Database, LinkedTo
  <2>5. ForeignKeys(db') /\ InStep(db')
    BY <1>1, <2>3 DEF CourseInv, Rows, ForeignKeys, InStep
  <2>6. Guarded(q)
    BY <1>1, <2>3 DEF Guarded, GuardedInvitations, GuardedIdentities, GuardedMembers,
                      GuardedRequests, GuardedDevices, GuardedSettings
  <2>7. \A r \in Requests : Unborn(r)' => NoRowsOf(db', r)
    BY <2>2, <2>3, StillUnborn DEF NoRowsOf
  <2> QED BY <2>2, <2>4, <2>5, <2>6, <2>7 DEF Sound
<1> QED BY <1>1, LinkRuns, QuietIsSound

(* A claim or a provisioning. *)
LEMMA AppointmentSound ==
  ASSUME CourseInv, NEW q \in Requests, pc[q] = "run", CommitAdmin(q), NEW u \in Ids, NEW s \in Subjects,
         u = call[q].user, s = call[q].subject, call[q].verb \in {"claim", "provision"},
         \/ u = q /\ db.identity[s] = None /\ <<"subject", s>> \in locks[q]
         \/ u # q /\ db.identity[s] = u
  PROVE  Sound(q)
<1> DEFINE d == [(IF u = q THEN WithUser(db, q, s) ELSE db) EXCEPT !.admin[u] = call[q].verb]
<1>1. Publish(q, d, "ok")
  BY DEF CommitAdmin
<1>2. db' = d /\ pc'[q] = "ok" /\ Alone(q)
  <2> HIDE DEF d
  <2>1. db' = d /\ pc'[q] = "ok" /\ call'[q].verb \in {"claim", "provision"} /\ (Standing(q)' => Alone(q))
    BY <1>1, Publishes DEF Outcomes
  <2> QED BY <2>1 DEF Standing
<1>3. q \in Ids /\ Unborn(q)
  BY DEF Ids, Unborn
<1>4. /\ db' \in Database
      /\ db'.member = db.member /\ db'.invitation = db.invitation
      /\ db'.request = db.request /\ db'.device = db.device /\ db'.tenant = db.tenant
      /\ db'.setting = db.setting /\ db'.key = db.key
      /\ \A w \in Ids : db'.user[w] = IF w = u /\ u = q THEN "ACTIVE" ELSE db.user[w]
      /\ \A z \in Subjects : db'.identity[z] = IF z = s /\ u = q THEN u ELSE db.identity[z]
  <2>1. CASE u = q
    BY <1>2, <1>3, <2>1 DEF WithUser, CourseInv, Typed, Database, Paths
  <2>2. CASE u # q
    BY <1>2, <1>3, <2>2 DEF CourseInv, Typed, Database, Paths
  <2> QED BY <2>1, <2>2
<1> HIDE DEF d
<1>5. Guarded(q)
  BY <1>4 DEF Guarded, GuardedInvitations, GuardedIdentities, GuardedMembers,
              GuardedRequests, GuardedDevices, GuardedSettings
<1>6. ForeignKeys(db')
  <2>1. /\ \A z \in Subjects : db.identity[z] \in Ids \cup {None}
        /\ \A x \in Ids : db.invitation[x].status = "PENDING" => db.invitation[x].user \in Ids
        /\ \A x \in Ids : db.request[x] # NoRow => db.request[x].user \in Ids
    BY DEF CourseInv, Typed, Database, Invitations, SelfRequests, NoRow
  <2> QED BY <1>4, <2>1 DEF CourseInv, Rows, ForeignKeys
<1>7. InStep(db')
  BY <1>4 DEF CourseInv, Rows, InStep
<1>8. ASSUME NEW r \in Requests, Unborn(r)'
      PROVE  NoRowsOf(db', r)
  <2>1. r # q /\ NoRowsOf(db, r) /\ r \in Ids
    BY <1>2, <1>8, StillUnborn DEF Ids
  <2> QED BY <1>4, <2>1 DEF NoRowsOf
<1> QED BY <1>2, <1>4, <1>5, <1>6, <1>7, <1>8 DEF Sound

LEMMA ClaimSound ==
  ASSUME CourseInv, NEW q \in Requests, pc[q] = "run", call[q].verb = "claim", Run(q)
  PROVE  Sound(q)
BY ClaimRuns, AppointmentSound, QuietIsSound

LEMMA ProvisionSound ==
  ASSUME CourseInv, NEW q \in Requests, pc[q] = "run", call[q].verb = "provision", Run(q)
  PROVE  Sound(q)
BY ProvisionRuns, AppointmentSound, QuietIsSound

(* What a step does to access and memberships. *)
AccessStep ==
  \A u \in Ids :
    \/ db'.member[u] = "ACTIVE" /\ db.member[u] # "ACTIVE"
    \/ db'.grants[u] # db.grants[u]
    => /\ \E x \in Ids : Accepts(x, u) \/ Approves(x, u)
       /\ (db'.grants[u] \ db.grants[u]) \cap Privileged = {}
LedgerStep == [Members!Next]_<<db.member, db.grants>>

LEMMA AccessKept ==
  ASSUME db'.member = db.member, db'.grants = db.grants
  PROVE  AccessStep /\ LedgerStep
BY DEF AccessStep, LedgerStep

LEMMA QuietIsFine ==
  ASSUME CourseInv, NEW q \in Requests, Quiet(q)
  PROVE  Sound(q) /\ AccessStep /\ LedgerStep
BY QuietIsSound, AccessKept DEF Quiet

LEMMA InviteSound ==
  ASSUME CourseInv, NEW q \in Requests, pc[q] = "run", call[q].verb = "invite", Run(q)
  PROVE  Sound(q) /\ AccessStep /\ LedgerStep
<1> DEFINE invitation == [status |-> "PENDING", user |-> q, roles |-> call[q].roles]
           d == [db EXCEPT !.user[q] = "INVITED", !.member[q] = "PENDING", !.invitation[q] = invitation]
<1>1. CASE CommitInvite(q) /\ call[q].user = q /\ locks[q] = {}
  <2>1. Publish(q, d, "ok")
    BY <1>1 DEF CommitInvite
  <2>2. db' = d /\ pc'[q] = "ok" /\ Alone(q)
    <3> HIDE DEF d
    <3>1. db' = d /\ pc'[q] = "ok" /\ call'[q].verb = "invite" /\ (Standing(q)' => Alone(q))
      BY <2>1, Publishes DEF Outcomes
    <3> QED BY <3>1 DEF Standing
  <2>3. q \in Ids /\ Unborn(q)
    BY DEF Ids, Unborn
  <2>4. invitation \in Invitations /\ invitation.status = "PENDING" /\ invitation.user = q
    BY <2>3 DEF CourseInv, Typed, Framed, Invitations, Decisions
  <2> HIDE DEF invitation
  <2>5. /\ db' \in Database
        /\ db'.identity = db.identity /\ db'.grants = db.grants
        /\ db'.request = db.request /\ db'.device = db.device /\ db'.tenant = db.tenant
        /\ db'.setting = db.setting /\ db'.key = db.key
        /\ db'.member = [db.member EXCEPT ![q] = "PENDING"]
        /\ \A w \in Ids : db'.user[w] = IF w = q THEN "INVITED" ELSE db.user[w]
        /\ \A w \in Ids : db'.member[w] = IF w = q THEN "PENDING" ELSE db.member[w]
        /\ \A x \in Ids : db'.invitation[x] = IF x = q THEN invitation ELSE db.invitation[x]
    BY <2>2, <2>3, <2>4 DEF CourseInv, Typed, Database
  <2> HIDE DEF d
  <2>6. Guarded(q)
    BY <2>4, <2>5 DEF Guarded, GuardedInvitations, GuardedIdentities, GuardedMembers,
              GuardedRequests, GuardedDevices, GuardedSettings
  <2>7. /\ \A z \in Subjects : db.identity[z] \in Ids \cup {None}
        /\ \A x \in Ids : db.invitation[x].status = "PENDING" => db.invitation[x].user \in Ids
        /\ \A x \in Ids : db.request[x] # NoRow => db.request[x].user \in Ids
        /\ \A x \in Ids : db.request[x].status # "NONE" => db.request[x] # NoRow
    BY DEF CourseInv, Typed, Database, Invitations, SelfRequests, NoRow
  <2>8. ForeignKeys(db')
    BY <2>3, <2>4, <2>5, <2>7 DEF CourseInv, Rows, ForeignKeys
  <2>9. /\ \A x \in Ids : db.invitation[x].status = "PENDING" => db.invitation[x].user # q
        /\ \A x \in Ids : db.request[x].status # "NONE" => db.request[x].user # q
        /\ db.member[q] = "NONE"
    BY <2>3, <2>7, UnbornUnknown DEF PendingInvitation, NoRowsOf
  <2>10. InStep(db')
    BY <2>3, <2>4, <2>5, <2>7, <2>9 DEF CourseInv, Rows, InStep
  <2>11. ASSUME NEW r \in Requests, Unborn(r)'
         PROVE  NoRowsOf(db', r)
    <3>1. r # q /\ NoRowsOf(db, r) /\ r \in Ids
      BY <2>2, <2>11, StillUnborn DEF Ids
    <3> QED BY <2>5, <3>1 DEF NoRowsOf
  <2>12. Sound(q)
    BY <2>2, <2>5, <2>6, <2>8, <2>10, <2>11 DEF Sound
  <2>13. AccessStep
    BY <2>5 DEF AccessStep
  <2>14. LedgerStep
    <3>1. Members!Join(q)
      BY <2>5, <2>9 DEF Members!Join
    <3> QED BY <2>3, <3>1 DEF LedgerStep, Members!Next
  <2> QED BY <2>12, <2>13, <2>14
<1> QED BY <1>1, InviteRuns, QuietIsFine

LEMMA References ==
  ASSUME CourseInv
  PROVE  /\ \A z \in Subjects : db.identity[z] \in Ids \cup {None}
         /\ \A x \in Ids : db.invitation[x].status = "PENDING" =>
              /\ db.invitation[x] \in Invitations /\ db.invitation[x].user \in Ids
              /\ db.user[db.invitation[x].user] # "NONE"
         /\ \A x \in Ids : db.request[x] # NoRow =>
              /\ db.request[x] \in SelfRequests /\ db.request[x].user \in Ids
              /\ db.user[db.request[x].user] # "NONE"
         /\ \A x \in Ids : db.request[x].status # "NONE" => db.request[x] # NoRow
BY DEF CourseInv, Typed, Database, Invitations, SelfRequests, NoRow, Rows, ForeignKeys

LEMMA CancelSound ==
  ASSUME CourseInv, NEW q \in Requests, pc[q] = "run", call[q].verb = "cancel", Run(q)
  PROVE  Sound(q) /\ AccessStep /\ LedgerStep
<1> DEFINE x == call[q].row
           u == call[q].user
           cancelled == [db.invitation[x] EXCEPT !.status = "CANCELLED"]
           membership == IF db.member[u] = "PENDING" THEN "ENDED" ELSE db.member[u]
           d == [db EXCEPT !.invitation[x] = cancelled, !.member[u] = membership]
<1>1. CASE /\ CommitCancel(q) /\ x \in Ids /\ PendingInvitation(x) /\ u = db.invitation[x].user
           /\ locks[q] = {<<"invitation", x>>, <<"member", u>>}
  <2>1. db.invitation[x] \in Invitations /\ u \in Ids /\ db.user[u] # "NONE"
    BY <1>1, References DEF PendingInvitation
  <2>2. cancelled \in Invitations /\ cancelled.status = "CANCELLED" /\ cancelled # NoRow
    BY <2>1 DEF Invitations, Decisions, NoRow
  <2>3. membership \in {"NONE", "ACTIVE", "ENDED"}
    BY <2>1 DEF CourseInv, Typed, Database
  <2>4. Publish(q, d, "ok")
    <3>1. [db EXCEPT !.invitation[x].status = "CANCELLED",
                     !.member[u] = IF @ = "PENDING" THEN "ENDED" ELSE @] = d
      BY <1>1, <2>1 DEF CourseInv, Typed, Database
    <3> QED BY <1>1, <3>1 DEF CommitCancel
  <2> HIDE DEF cancelled
  <2>5. db' = d /\ pc'[q] = "ok" /\ call'[q].verb = "cancel" /\ call'[q].row = x
        /\ (Standing(q)' => Alone(q))
    <3> HIDE DEF d
    <3> QED BY <2>4, Publishes DEF Outcomes
  <2>6. /\ db' \in Database
        /\ db'.user = db.user /\ db'.identity = db.identity /\ db'.grants = db.grants
        /\ db'.request = db.request /\ db'.device = db.device /\ db'.tenant = db.tenant
        /\ db'.setting = db.setting /\ db'.key = db.key
        /\ db'.member = [db.member EXCEPT ![u] = membership]
        /\ \A w \in Ids : db'.member[w] = IF w = u THEN membership ELSE db.member[w]
        /\ \A y \in Ids : db'.invitation[y] = IF y = x THEN cancelled ELSE db.invitation[y]
    <3> HIDE DEF membership
    <3> QED BY Zenon, <1>1, <2>1, <2>2, <2>3, <2>5 DEF CourseInv, Typed, Database
  <2> HIDE DEF d
  <2>7. Alone(q)
    BY Zenon, <1>1, <2>2, <2>5, <2>6 DEF Standing
  <2>8. Guarded(q)
    <3> HIDE DEF membership
    <3> QED BY <1>1, <2>2, <2>6 DEF Guarded, GuardedInvitations, GuardedIdentities, GuardedMembers,
              GuardedRequests, GuardedDevices, GuardedSettings, PendingInvitation
  <2>9. ForeignKeys(db')
    BY <2>2, <2>6 DEF CourseInv, Rows, ForeignKeys
  <2>10. InStep(db')
    <3>1. \A y \in Ids : db'.invitation[y].status = "PENDING" =>
            db'.invitation[y] = db.invitation[y] /\ db.invitation[y].user # u
      <4>1. \A y \in Ids : y # x /\ db.invitation[y].status = "PENDING" => db.invitation[y].user # u
        BY <1>1 DEF CourseInv, Rows, InStep, PendingInvitation
      <4> HIDE DEF x, u
      <4> QED BY <2>2, <2>6, <4>1
    <3> QED BY <2>3, <2>6, <3>1, References DEF CourseInv, Rows, InStep
  <2>11. ASSUME NEW r \in Requests, Unborn(r)'
         PROVE  NoRowsOf(db', r)
    <3>1. r # q /\ NoRowsOf(db, r) /\ r \in Ids
      BY <2>5, <2>7, <2>11, StillUnborn DEF Ids
    <3>2. r # x /\ r # u
      BY <1>1, <2>1, <3>1 DEF NoRowsOf, PendingInvitation, NoRow
    <3> QED BY <2>6, <3>1, <3>2 DEF NoRowsOf
  <2>12. Sound(q)
    BY <2>6, <2>7, <2>8, <2>9, <2>10, <2>11 DEF Sound
  <2>13. AccessStep
    BY <2>3, <2>6 DEF AccessStep
  <2>14. LedgerStep
    <3>1. CASE db.member[u] = "PENDING"
      <4>1. Members!Withdraw(u)
        BY <2>6, <3>1 DEF Members!Withdraw
      <4> QED BY <2>1, <4>1 DEF LedgerStep, Members!Next
    <3>2. CASE db.member[u] # "PENDING"
      <4>1. db'.member = db.member
        BY <2>6, <3>2 DEF CourseInv, Typed, Database
      <4> QED BY <2>6, <4>1 DEF LedgerStep
    <3> QED BY <3>1, <3>2
  <2> QED BY <2>12, <2>13, <2>14
<1> QED BY <1>1, CancelRuns, QuietIsFine

LEMMA ApproveSound ==
  ASSUME CourseInv, NEW q \in Requests, pc[q] = "run", call[q].verb = "approve", Run(q)
  PROVE  Sound(q) /\ AccessStep /\ LedgerStep
<1> DEFINE x == call[q].row
           u == call[q].user
           rs == call[q].roles
           approved == [db.request[x] EXCEPT !.status = "APPROVED"]
           d == [db EXCEPT !.request[x] = approved, !.member[u] = "ACTIVE",
                           !.grants[u] = db.grants[u] \cup rs]
<1>1. CASE /\ CommitApprove(q) /\ PendingRequest(x) /\ u = db.request[x].user /\ ~Asks(q)
           /\ x \in Ids /\ db.member[u] = "PENDING"
           /\ locks[q] = {<<"request", x>>, <<"member", u>>}
  <2>1. db.request[x] \in SelfRequests /\ u \in Ids /\ db.user[u] # "NONE" /\ db.request[x] # NoRow
    BY <1>1, References DEF PendingRequest
  <2>2. /\ approved \in SelfRequests /\ approved.status = "APPROVED" /\ approved # NoRow
        /\ approved.user = u
    BY <1>1, <2>1 DEF SelfRequests, Decisions, NoRow
  <2>3. rs \in SUBSET Roles /\ rs \cap Privileged = {}
    BY <1>1 DEF CourseInv, Typed, Framed, Asks
  <2>4. Publish(q, d, "ok")
    <3>1. Admit([db EXCEPT !.request[x].status = "APPROVED"], u, rs) = d
      BY Zenon, <1>1, <2>1 DEF CourseInv, Typed, Database, Admit
    <3> QED BY <1>1, <3>1 DEF CommitApprove
  <2> HIDE DEF approved
  <2>5. db' = d /\ pc'[q] = "ok" /\ call'[q].verb = "approve" /\ call'[q].row = x
        /\ (Standing(q)' => Alone(q))
    <3> HIDE DEF d
    <3> QED BY <2>4, Publishes DEF Outcomes
  <2>6. /\ db' \in Database
        /\ db'.user = db.user /\ db'.identity = db.identity
        /\ db'.invitation = db.invitation /\ db'.device = db.device /\ db'.tenant = db.tenant
        /\ db'.setting = db.setting /\ db'.key = db.key
        /\ db'.member = [db.member EXCEPT ![u] = "ACTIVE"]
        /\ db'.grants = [db.grants EXCEPT ![u] = db.grants[u] \cup rs]
        /\ \A w \in Ids : db'.member[w] = IF w = u THEN "ACTIVE" ELSE db.member[w]
        /\ \A w \in Ids : db'.grants[w] = IF w = u THEN db.grants[u] \cup rs ELSE db.grants[w]
        /\ \A y \in Ids : db'.request[y] = IF y = x THEN approved ELSE db.request[y]
    <3>1. db.grants[u] \cup rs \in SUBSET Roles
      BY <2>1, <2>3 DEF CourseInv, Typed, Database
    <3> HIDE DEF rs
    <3> QED BY Zenon, <1>1, <2>1, <2>2, <2>5, <3>1 DEF CourseInv, Typed, Database
  <2> HIDE DEF d
  <2>7. Alone(q)
    BY Zenon, <1>1, <2>2, <2>5, <2>6 DEF Standing
  <2>8. Guarded(q)
    BY Zenon, <1>1, <2>2, <2>6 DEF Guarded, GuardedInvitations, GuardedIdentities, GuardedMembers,
              GuardedRequests, GuardedDevices, GuardedSettings, PendingRequest
  <2>9. ForeignKeys(db')
    BY <2>1, <2>2, <2>6 DEF CourseInv, Rows, ForeignKeys
  <2>10. InStep(db')
    BY <2>1, <2>2, <2>6, References DEF CourseInv, Rows, InStep
  <2>11. ASSUME NEW r \in Requests, Unborn(r)'
         PROVE  NoRowsOf(db', r)
    <3>1. r # q /\ NoRowsOf(db, r) /\ r \in Ids
      BY <2>5, <2>7, <2>11, StillUnborn DEF Ids
    <3>2. r # x /\ r # u
      BY <2>1, <3>1 DEF NoRowsOf
    <3> QED BY <2>6, <3>1, <3>2 DEF NoRowsOf
  <2>12. Sound(q)
    BY <2>6, <2>7, <2>8, <2>9, <2>10, <2>11 DEF Sound
  <2>13. AccessStep
    <3>1. Approves(x, u)
      BY <1>1, <2>2, <2>6 DEF Approves, PendingRequest
    <3> HIDE DEF rs
    <3> QED BY Zenon, <1>1, <2>3, <2>6, <3>1 DEF AccessStep
  <2>14. LedgerStep
    <3>1. Members!Admit(u, rs)
      BY <1>1, <2>6 DEF Members!Admit
    <3> QED BY <2>1, <2>3, <3>1 DEF LedgerStep, Members!Next
  <2> QED BY <2>12, <2>13, <2>14
<1> QED BY <1>1, ApproveRuns, QuietIsFine

LEMMA RejectSound ==
  ASSUME CourseInv, NEW q \in Requests, pc[q] = "run", call[q].verb = "reject", Run(q)
  PROVE  Sound(q) /\ AccessStep /\ LedgerStep
<1> DEFINE x == call[q].row
           rejected == [db.request[x] EXCEPT !.status = "REJECTED"]
           d == [db EXCEPT !.request[x] = rejected]
<1>1. CASE /\ CommitReject(q) /\ PendingRequest(x) /\ x \in Ids /\ locks[q] = {<<"request", x>>}
  <2>1. db.request[x] \in SelfRequests /\ db.request[x] # NoRow
    BY <1>1, References DEF PendingRequest
  <2>2. /\ rejected \in SelfRequests /\ rejected.status = "REJECTED" /\ rejected # NoRow
        /\ rejected.user = db.request[x].user
    BY <1>1, <2>1 DEF SelfRequests, Decisions, NoRow
  <2>3. Publish(q, d, "ok")
    <3>1. [db EXCEPT !.request[x].status = "REJECTED"] = d
      BY <1>1, <2>1 DEF CourseInv, Typed, Database
    <3> QED BY <1>1, <3>1 DEF CommitReject
  <2> HIDE DEF rejected
  <2>4. db' = d /\ pc'[q] = "ok" /\ call'[q].verb = "reject" /\ call'[q].row = x
        /\ (Standing(q)' => Alone(q))
    <3> HIDE DEF d
    <3> QED BY <2>3, Publishes DEF Outcomes
  <2>5. /\ db' \in Database
        /\ db'.user = db.user /\ db'.identity = db.identity /\ db'.member = db.member
        /\ db'.grants = db.grants
        /\ db'.invitation = db.invitation /\ db'.device = db.device /\ db'.tenant = db.tenant
        /\ db'.setting = db.setting /\ db'.key = db.key
        /\ \A y \in Ids : db'.request[y] = IF y = x THEN rejected ELSE db.request[y]
    BY <1>1, <2>2, <2>4 DEF CourseInv, Typed, Database
  <2> HIDE DEF d
  <2>6. Alone(q)
    BY <1>1, <2>2, <2>4, <2>5 DEF Standing
  <2>7. Guarded(q)
    BY <1>1, <2>2, <2>5 DEF Guarded, GuardedInvitations, GuardedIdentities, GuardedMembers,
              GuardedRequests, GuardedDevices, GuardedSettings, PendingRequest
  <2>8. ForeignKeys(db')
    BY <2>1, <2>2, <2>5 DEF CourseInv, Rows, ForeignKeys
  <2>9. InStep(db')
    BY <2>1, <2>2, <2>5, References DEF CourseInv, Rows, InStep
  <2>10. ASSUME NEW r \in Requests, Unborn(r)'
         PROVE  NoRowsOf(db', r)
    <3>1. r # q /\ NoRowsOf(db, r) /\ r \in Ids
      BY <2>4, <2>6, <2>10, StillUnborn DEF Ids
    <3>2. r # x
      BY <2>1, <3>1 DEF NoRowsOf
    <3> QED BY <2>5, <3>1, <3>2 DEF NoRowsOf
  <2> QED BY <2>5, <2>6, <2>7, <2>8, <2>9, <2>10, AccessKept DEF Sound
<1> QED BY <1>1, RejectRuns, QuietIsFine

LEMMA CallersRows ==
  ASSUME CourseInv, NEW q \in Requests, pc[q] = "run", Callers(q), NEW u, u = call[q].user,
         NEW s, s = call[q].subject, NEW e, e = WithCaller(db, q)
  PROVE  /\ u \in Ids /\ s \in Subjects
         /\ u = q \/ db.user[u] # "NONE"
         /\ u = q => <<"subject", s>> \in locks[q] /\ db.identity[s] = None
         /\ e \in Database
         /\ e.member = db.member /\ e.grants = db.grants /\ e.invitation = db.invitation
         /\ e.request = db.request /\ e.device = db.device /\ e.tenant = db.tenant
         /\ e.setting = db.setting /\ e.key = db.key
         /\ e.user[u] # "NONE"
         /\ \A w \in Ids : e.user[w] = db.user[w] \/ (w = u /\ e.user[w] = "ACTIVE")
         /\ \A z \in Subjects : e.identity[z] = IF z = s /\ u = q THEN q ELSE db.identity[z]
<1>1. q \in Ids /\ u \in Ids /\ s \in Subjects
  BY DEF Callers, Ids
<1>2. CASE u = q
  <2>1. e = [db EXCEPT !.user[q] = "ACTIVE", !.identity[s] = q]
    BY <1>2 DEF WithCaller, WithUser
  <2>2. <<"subject", s>> \in locks[q] /\ db.identity[s] = None
    BY <1>2 DEF Callers
  <2>3. /\ e.member = db.member /\ e.grants = db.grants /\ e.invitation = db.invitation
        /\ e.request = db.request /\ e.device = db.device /\ e.tenant = db.tenant
        /\ e.setting = db.setting /\ e.key = db.key
        /\ e.user = [db.user EXCEPT ![q] = "ACTIVE"]
        /\ e.identity = [db.identity EXCEPT ![s] = q]
    BY <1>1, <2>1 DEF CourseInv, Typed, Database
  <2>5. e \in Database
    <3>1. "ACTIVE" \in {"NONE", "INVITED", "ACTIVE", "INACTIVE"} /\ q \in Ids \cup {None} /\ db \in Database
      BY <1>1 DEF CourseInv, Typed
    <3>2. [db EXCEPT !.user[q] = "ACTIVE", !.identity[s] = q] \in Database
      BY <1>1, <3>1 DEF Database
    <3> QED BY <2>1, <3>2
  <2>4. /\ db.user \in [Ids -> {"NONE", "INVITED", "ACTIVE", "INACTIVE"}]
        /\ db.identity \in [Subjects -> Ids \cup {None}]
    BY DEF CourseInv, Typed, Database
  <2> QED BY <1>1, <1>2, <2>2, <2>3, <2>4, <2>5
<1>3. CASE u # q
  <2>1. db.identity[s] = u /\ db.user[u] # "NONE"
    <3>1. db.identity[s] = u /\ u # None
      BY <1>1, <1>3, NamesAssumption DEF Callers
    <3> QED BY <1>1, <3>1 DEF CourseInv, Rows, ForeignKeys
  <2>2. e = [db EXCEPT !.user[u] = "ACTIVE"] \/ e = db
    BY <1>3 DEF WithCaller
  <2> QED BY <1>1, <1>3, <2>1, <2>2 DEF CourseInv, Typed, Database
<1> QED BY <1>2, <1>3

LEMMA RegisterSound ==
  ASSUME CourseInv, NEW q \in Requests, pc[q] = "run", call[q].verb = "register", Run(q)
  PROVE  Sound(q) /\ AccessStep /\ LedgerStep
<1> DEFINE u == call[q].user
           s == call[q].subject
           e == WithCaller(db, q)
           request == [status |-> "PENDING", user |-> u]
           d == [e EXCEPT !.member[u] = "PENDING", !.request[q] = request]
<1> q \in Ids
  BY DEF Ids
<1>1. CASE CommitAsItWas(q) /\ Callers(q)
  <2>1. Publish(q, e, "unchanged")
    BY <1>1 DEF CommitAsItWas
  <2>2. db' = e /\ pc'[q] = "unchanged" /\ Alone(q)
    <3> HIDE DEF e
    <3> QED BY <2>1, Publishes DEF Outcomes
  <2>3. /\ u \in Ids /\ s \in Subjects
        /\ u = q \/ db.user[u] # "NONE"
        /\ u = q => <<"subject", s>> \in locks[q] /\ db.identity[s] = None
        /\ db' \in Database
        /\ db'.member = db.member /\ db'.grants = db.grants /\ db'.invitation = db.invitation
        /\ db'.request = db.request /\ db'.device = db.device /\ db'.tenant = db.tenant
        /\ db'.setting = db.setting /\ db'.key = db.key
        /\ db'.user[u] # "NONE"
        /\ \A w \in Ids : db'.user[w] = db.user[w] \/ (w = u /\ db'.user[w] = "ACTIVE")
        /\ \A z \in Subjects : db'.identity[z] = IF z = s /\ u = q THEN q ELSE db.identity[z]
    <3> HIDE DEF u, s, e
    <3> QED BY <1>1, <2>2, CallersRows DEF u, s, e
  <2> HIDE DEF u, s, e
  <2>4. Guarded(q)
    BY <2>3 DEF Guarded, GuardedInvitations, GuardedIdentities, GuardedMembers,
                GuardedRequests, GuardedDevices, GuardedSettings
  <2>5. ForeignKeys(db') /\ InStep(db')
    BY <2>3, References DEF CourseInv, Rows, ForeignKeys, InStep
  <2>6. ASSUME NEW r \in Requests, Unborn(r)'
        PROVE  NoRowsOf(db', r)
    <3>1. r # q /\ NoRowsOf(db, r) /\ r \in Ids
      BY <2>2, <2>6, StillUnborn DEF Ids
    <3> QED BY <2>3, <3>1 DEF NoRowsOf
  <2> QED BY <2>2, <2>3, <2>4, <2>5, <2>6, AccessKept DEF Sound
<1>2. CASE /\ CommitRegister(q) /\ Callers(q) /\ NoneOpen(u)
           /\ db.member[u] \in {"NONE", "PENDING"} /\ <<"member", u>> \in locks[q]
  <2>1. Publish(q, d, "ok")
    BY <1>2 DEF CommitRegister
  <2>2. db' = d /\ pc'[q] = "ok" /\ Alone(q)
    <3> HIDE DEF d
    <3>1. db' = d /\ pc'[q] = "ok" /\ call'[q].verb = "register" /\ (Standing(q)' => Alone(q))
      BY <2>1, Publishes DEF Outcomes
    <3> QED BY <3>1 DEF Standing
  <2>3. /\ u \in Ids /\ s \in Subjects
        /\ u = q \/ db.user[u] # "NONE"
        /\ u = q => <<"subject", s>> \in locks[q] /\ db.identity[s] = None
        /\ e \in Database
        /\ e.member = db.member /\ e.grants = db.grants /\ e.invitation = db.invitation
        /\ e.request = db.request /\ e.device = db.device /\ e.tenant = db.tenant
        /\ e.setting = db.setting /\ e.key = db.key
        /\ e.user[u] # "NONE"
        /\ \A w \in Ids : e.user[w] = db.user[w] \/ (w = u /\ e.user[w] = "ACTIVE")
        /\ \A z \in Subjects : e.identity[z] = IF z = s /\ u = q THEN q ELSE db.identity[z]
    <3> HIDE DEF u, s, e
    <3> QED BY <1>2, CallersRows DEF u, s, e
  <2>4. request \in SelfRequests /\ request.status = "PENDING" /\ request.user = u /\ request # NoRow
    BY <2>3 DEF SelfRequests, Decisions, NoRow
  <2> HIDE DEF u, s, e, request
  <2>5. /\ db' \in Database
        /\ db'.user = e.user /\ db'.identity = e.identity /\ db'.grants = db.grants
        /\ db'.invitation = db.invitation /\ db'.device = db.device /\ db'.tenant = db.tenant
        /\ db'.setting = db.setting /\ db'.key = db.key
        /\ db'.member = [db.member EXCEPT ![u] = "PENDING"]
        /\ \A w \in Ids : db'.member[w] = IF w = u THEN "PENDING" ELSE db.member[w]
        /\ \A y \in Ids : db'.request[y] = IF y = q THEN request ELSE db.request[y]
    <3>1. /\ e.member \in [Ids -> {"NONE", "PENDING", "ACTIVE", "ENDED"}]
          /\ e.request \in [Ids -> SelfRequests \cup {NoRow}]
      BY <2>3 DEF Database
    <3>2. /\ d.user = e.user /\ d.identity = e.identity /\ d.grants = e.grants
          /\ d.invitation = e.invitation /\ d.device = e.device /\ d.tenant = e.tenant
          /\ d.setting = e.setting /\ d.key = e.key
          /\ d.member = [e.member EXCEPT ![u] = "PENDING"]
          /\ d.request = [e.request EXCEPT ![q] = request]
      BY <2>3 DEF Database
    <3>3. d \in Database
      BY <2>3, <2>4, <3>1 DEF Database
    <3> HIDE DEF d
    <3> QED BY <2>2, <2>3, <3>1, <3>2, <3>3
  <2> HIDE DEF d
  <2>6. Guarded(q)
    BY <1>2, <2>3, <2>4, <2>5 DEF Guarded, GuardedInvitations, GuardedIdentities, GuardedMembers,
                GuardedRequests, GuardedDevices, GuardedSettings
  <2>7. ForeignKeys(db')
    BY <2>3, <2>4, <2>5, References DEF CourseInv, Rows, ForeignKeys
  <2>8. InStep(db')
    <3>1. \A x \in Ids : db'.request[x].status = "APPROVED" =>
            x # q /\ db'.request[x] = db.request[x] /\ db.request[x].user # u
      BY <1>2, <2>4, <2>5 DEF NoneOpen
    <3>2. \A x \in Ids : db'.request[x].status = "PENDING" => db'.member[db'.request[x].user] # "NONE"
      BY <2>3, <2>4, <2>5, References DEF CourseInv, Rows, InStep
    <3>3. \A x \in Ids : db'.request[x].status = "APPROVED" =>
            db'.member[db'.request[x].user] \in {"ACTIVE", "ENDED"}
      BY <2>5, <3>1, References DEF CourseInv, Rows, InStep
    <3>4. \A x \in Ids : db'.invitation[x].status = "PENDING" =>
       db'.member[db'.invitation[x].user] \in {"PENDING", "ACTIVE"}
      BY <2>5, References DEF CourseInv, Rows, InStep
    <3> QED BY <2>5, <3>2, <3>3, <3>4 DEF CourseInv, Rows, InStep
  <2>9. ASSUME NEW r \in Requests, Unborn(r)'
        PROVE  NoRowsOf(db', r)
    <3>1. r # q /\ NoRowsOf(db, r) /\ r \in Ids
      BY <2>2, <2>9, StillUnborn DEF Ids
    <3>2. r # u
      BY <2>3, <3>1 DEF NoRowsOf
    <3> QED BY <2>3, <2>5, <3>1, <3>2 DEF NoRowsOf
  <2>10. Sound(q)
    BY <2>2, <2>5, <2>6, <2>7, <2>8, <2>9 DEF Sound
  <2>11. AccessStep
    BY <2>5 DEF AccessStep
  <2>12. LedgerStep
    <3>1. CASE db.member[u] = "NONE"
      <4>1. Members!Join(u)
        BY <2>5, <3>1 DEF Members!Join
      <4> QED BY <2>3, <4>1 DEF LedgerStep, Members!Next
    <3>2. CASE db.member[u] = "PENDING"
      <4>1. db'.member = db.member
        BY <2>5, <3>2 DEF CourseInv, Typed, Database
      <4> QED BY <2>5, <4>1 DEF LedgerStep
    <3> QED BY <1>2, <3>1, <3>2
  <2> QED BY <2>10, <2>11, <2>12
<1>3. CASE Quiet(q)
  BY <1>3, QuietIsFine
<1> QED BY <1>1, <1>2, <1>3, RegisterRuns

LEMMA ExpiringSound ==
  ASSUME CourseInv, NEW q \in Requests, pc[q] = "run", ExpireInvitation(q), call[q].row \in Ids,
         PendingInvitation(call[q].row), <<"invitation", call[q].row>> \in locks[q]
  PROVE  Sound(q) /\ AccessStep /\ LedgerStep
<1> DEFINE x == call[q].row
           expired == [db.invitation[x] EXCEPT !.status = "EXPIRED"]
           d == [db EXCEPT !.invitation[x] = expired]
<1>1. db.invitation[x] \in Invitations
  BY References DEF PendingInvitation
<1>2. expired \in Invitations /\ expired.status = "EXPIRED" /\ expired # NoRow
  BY <1>1 DEF Invitations, Decisions, NoRow
<1>3. Publish(q, d, "denied")
  <2>1. [db EXCEPT !.invitation[x].status = "EXPIRED"] = d
    BY <1>1 DEF CourseInv, Typed, Database
  <2> QED BY <2>1 DEF ExpireInvitation
<1> HIDE DEF expired
<1>4. db' = d /\ pc'[q] = "denied" /\ Alone(q)
  <2> HIDE DEF d
  <2> QED BY <1>3, Publishes DEF Outcomes
<1>5. /\ db' \in Database
      /\ db'.user = db.user /\ db'.identity = db.identity /\ db'.member = db.member
      /\ db'.grants = db.grants
      /\ db'.request = db.request /\ db'.device = db.device /\ db'.tenant = db.tenant
      /\ db'.setting = db.setting /\ db'.key = db.key
      /\ \A y \in Ids : db'.invitation[y] = IF y = x THEN expired ELSE db.invitation[y]
  BY <1>2, <1>4 DEF CourseInv, Typed, Database
<1> HIDE DEF d
<1>6. Guarded(q)
  BY <1>2, <1>5 DEF Guarded, GuardedInvitations, GuardedIdentities, GuardedMembers,
            GuardedRequests, GuardedDevices, GuardedSettings, PendingInvitation
<1>7. ForeignKeys(db')
  BY <1>2, <1>5 DEF CourseInv, Rows, ForeignKeys
<1>8. InStep(db')
  BY <1>2, <1>5 DEF CourseInv, Rows, InStep
<1>9. ASSUME NEW r \in Requests, Unborn(r)'
      PROVE  NoRowsOf(db', r)
  <2>1. r # q /\ NoRowsOf(db, r) /\ r \in Ids
    BY <1>4, <1>9, StillUnborn DEF Ids
  <2>2. r # x
    BY <1>1, <2>1 DEF NoRowsOf, PendingInvitation, NoRow
  <2> QED BY <1>5, <2>1, <2>2 DEF NoRowsOf
<1> QED BY <1>4, <1>5, <1>6, <1>7, <1>8, <1>9, AccessKept DEF Sound

(* The rows of whoever accepts, but for the identity and the invited user. *)
AsAccepted(d, e, x, u, rs) ==
  /\ d \in Database
  /\ d.identity = e.identity
  /\ d.request = e.request /\ d.device = e.device /\ d.tenant = e.tenant
  /\ d.setting = e.setting /\ d.key = e.key
  /\ d.invitation = [e.invitation EXCEPT ![x] = [e.invitation[x] EXCEPT !.status = "ACCEPTED"]]
  /\ d.user = [e.user EXCEPT ![u] = IF e.user[u] = "INVITED" THEN "ACTIVE" ELSE e.user[u]]
  /\ rs \cap Privileged # {} => d.member = e.member /\ d.grants = e.grants
  /\ rs \cap Privileged = {} =>
       /\ d.member = [e.member EXCEPT ![u] = IF e.member[u] = "PENDING" THEN "ACTIVE" ELSE e.member[u]]
       /\ d.grants = [e.grants EXCEPT ![u] = e.grants[u] \cup rs]

LEMMA AcceptedRows ==
  ASSUME NEW e \in Database, NEW c, c.row \in Ids, c.user \in Ids, c.roles \in SUBSET Roles,
         e.invitation[c.row] \in Invitations, NEW d, d = Accepted(e, c)
  PROVE  AsAccepted(d, e, c.row, c.user, c.roles)
<1> DEFINE x == c.row
           u == c.user
           rs == c.roles
           status == IF e.user[u] = "INVITED" THEN "ACTIVE" ELSE e.user[u]
           accepted == [e.invitation[x] EXCEPT !.status = "ACCEPTED"]
           f == [e EXCEPT !.invitation[x] = accepted, !.user[u] = status]
           asked == rs \cap Privileged
<1>1. status \in {"NONE", "INVITED", "ACTIVE", "INACTIVE"} /\ accepted \in Invitations
  BY DEF Database, Invitations, Decisions
<1>0. x \in Ids /\ u \in Ids /\ rs \in SUBSET Roles
  OBVIOUS
<1> DEFINE g == [e EXCEPT !.invitation[c.row].status = "ACCEPTED",
                         !.user[c.user] = IF @ = "INVITED" THEN "ACTIVE" ELSE @]
<1>2. g = f
  BY DEF Database
<1>3. d = IF asked # {} THEN [f EXCEPT !.asks[u] = @ \cup asked] ELSE Admit(f, u, rs)
  <2>1. Accepted(e, c) = IF asked # {} THEN [g EXCEPT !.asks[u] = @ \cup asked] ELSE Admit(g, u, rs)
    BY DEF Accepted
  <2> HIDE DEF f, g
  <2> QED BY <1>2, <2>1
<1> HIDE DEF status, accepted, g, x, u, rs
<1>4. /\ f \in Database /\ f.identity = e.identity
      /\ f.request = e.request /\ f.device = e.device /\ f.tenant = e.tenant
      /\ f.setting = e.setting /\ f.key = e.key
      /\ f.invitation = [e.invitation EXCEPT ![x] = accepted]
      /\ f.user = [e.user EXCEPT ![u] = status]
      /\ f.member = e.member /\ f.grants = e.grants
  BY <1>0, <1>1 DEF Database
<1> HIDE DEF f
<1>5. CASE asked # {}
  <2>1. f.asks[u] \cup asked \in SUBSET Roles
    BY <1>0, <1>4 DEF Database
  <2>2. d = [f EXCEPT !.asks[u] = f.asks[u] \cup asked]
    BY <1>0, <1>3, <1>4, <1>5 DEF Database
  <2>3. d \in Database /\ d.identity = f.identity
        /\ d.request = f.request /\ d.device = f.device /\ d.tenant = f.tenant
        /\ d.setting = f.setting /\ d.key = f.key
        /\ d.invitation = f.invitation /\ d.user = f.user
        /\ d.member = f.member /\ d.grants = f.grants
    <3> DEFINE sum == f.asks[u] \cup asked
    <3>1. sum \in SUBSET Roles /\ d = [f EXCEPT !.asks[u] = sum]
      BY <2>1, <2>2
    <3> HIDE DEF sum
    <3>2. [f EXCEPT !.asks[u] = sum] \in Database
      BY <1>0, <1>4, <3>1 DEF Database
    <3> HIDE DEF asked
    <3> QED BY <1>0, <1>4, <3>1, <3>2 DEF Database
  <2> QED BY <1>0, <1>4, <1>5, <2>3 DEF status, accepted, asked, x, u, rs, AsAccepted
<1>6. CASE asked = {}
  <2> DEFINE membership == IF f.member[u] = "PENDING" THEN "ACTIVE" ELSE f.member[u]
             roles == f.grants[u] \cup rs
  <2>1. roles \in SUBSET Roles /\ membership \in {"NONE", "PENDING", "ACTIVE", "ENDED"}
    BY <1>0, <1>4 DEF Database
  <2>2. d = [f EXCEPT !.member[u] = membership, !.grants[u] = roles]
    BY <1>0, <1>3, <1>4, <1>6 DEF Database, Admit
  <2> HIDE DEF membership, roles
  <2>4. [f EXCEPT !.member[u] = membership, !.grants[u] = roles] \in Database
    BY <1>0, <1>4, <2>1 DEF Database
  <2>3. d.identity = f.identity
        /\ d.request = f.request /\ d.device = f.device /\ d.tenant = f.tenant
        /\ d.setting = f.setting /\ d.key = f.key
        /\ d.invitation = f.invitation /\ d.user = f.user
        /\ d.member = [f.member EXCEPT ![u] = membership] /\ d.grants = [f.grants EXCEPT ![u] = roles]
    BY <1>0, <1>4, <2>1, <2>2 DEF Database
  <2> QED BY <1>0, <1>4, <1>6, <2>2, <2>3, <2>4 DEF status, accepted, asked, x, u, rs, AsAccepted, membership, roles
<1> QED BY <1>5, <1>6

(* The invited user accepts. *)

LEMMA InvitedSound ==
  ASSUME CourseInv, NEW q \in Requests, pc[q] = "run", call[q].verb = "accept",
         CommitAccept(q), Concluding(q), call[q].user = db.invitation[call[q].row].user
  PROVE  Sound(q) /\ AccessStep /\ LedgerStep
<1> DEFINE c == call[q]
           x == call[q].row
           u == call[q].user
           s == call[q].subject
           rs == call[q].roles
           accepted == [db.invitation[x] EXCEPT !.status = "ACCEPTED"]
           status == IF db.user[u] = "INVITED" THEN "ACTIVE" ELSE db.user[u]
           membership == IF db.member[u] = "PENDING" THEN "ACTIVE" ELSE db.member[u]
           e == [db EXCEPT !.identity[s] = u]
           d == Accepted(e, c)
<1>1. /\ x \in Ids /\ u \in Ids /\ s \in Subjects /\ db.invitation[x].status = "PENDING"
      /\ db.invitation[x] \in Invitations /\ db.user[u] # "NONE"
      /\ <<"invitation", x>> \in locks[q] /\ rs = db.invitation[x].roles /\ rs \in SUBSET Roles
      /\ Asks(q) \/ <<"member", u>> \in locks[q]
      /\ db.identity[s] = u \/ (db.identity[s] = None /\ <<"subject", s>> \in locks[q])
      /\ db.member[u] \in {"PENDING", "ACTIVE"}
  BY References DEF Concluding, Taking, PendingInvitation, Invitations, CourseInv, Rows, InStep
<1>2. /\ accepted \in Invitations /\ accepted.status = "ACCEPTED" /\ accepted # NoRow
      /\ accepted.user = u
  BY <1>1 DEF Invitations, Decisions, NoRow
<1>3. status \in {"INVITED", "ACTIVE", "INACTIVE"} /\ membership = "ACTIVE"
  BY <1>1 DEF CourseInv, Typed, Database
<1>4. Publish(q, d, "ok")
  BY DEF CommitAccept
<1>5. /\ e \in Database /\ e.user = db.user /\ e.member = db.member /\ e.grants = db.grants
      /\ e.invitation = db.invitation /\ e.request = db.request /\ e.device = db.device
      /\ e.tenant = db.tenant /\ e.setting = db.setting /\ e.key = db.key
      /\ e.identity = [db.identity EXCEPT ![s] = u]
  BY <1>1 DEF CourseInv, Typed, Database
<1> HIDE DEF e
<1>6. AsAccepted(d, e, x, u, rs)
  <2>1. d = Accepted(e, c)
    OBVIOUS
  <2> HIDE DEF d
  <2> QED BY <1>1, <1>5, <2>1, AcceptedRows
<1>7. db' = d /\ pc'[q] = "ok" /\ call'[q].verb = "accept" /\ call'[q].row = x
      /\ (Standing(q)' => Alone(q))
  <2> HIDE DEF d
  <2> QED BY <1>4, Publishes DEF Outcomes
<1> HIDE DEF d, c, accepted, status, membership
<1>8. /\ db' \in Database
      /\ db'.request = db.request /\ db'.device = db.device /\ db'.tenant = db.tenant
      /\ db'.setting = db.setting /\ db'.key = db.key
      /\ db'.identity = [db.identity EXCEPT ![s] = u]
      /\ db'.invitation = [db.invitation EXCEPT ![x] = accepted]
      /\ db'.user = [db.user EXCEPT ![u] = status]
      /\ Asks(q) => db'.member = db.member /\ db'.grants = db.grants
      /\ ~Asks(q) => /\ db'.member = [db.member EXCEPT ![u] = "ACTIVE"]
                     /\ db'.grants = [db.grants EXCEPT ![u] = @ \cup rs]
  <2>1. /\ db' \in Database
        /\ db'.request = db.request /\ db'.device = db.device /\ db'.tenant = db.tenant
        /\ db'.setting = db.setting /\ db'.key = db.key
        /\ db'.identity = [db.identity EXCEPT ![s] = u]
    BY <1>5, <1>6, <1>7, Zenon DEF AsAccepted
  <2>2. db'.invitation = [db.invitation EXCEPT ![x] = accepted]
    BY <1>5, <1>6, <1>7, Zenon DEF AsAccepted, accepted
  <2>3. db'.user = [db.user EXCEPT ![u] = status]
    BY <1>5, <1>6, <1>7, Zenon DEF AsAccepted, status
  <2>4. Asks(q) => db'.member = db.member /\ db'.grants = db.grants
    BY <1>5, <1>6, <1>7, Zenon DEF AsAccepted, Asks
  <2>5. ~Asks(q) => db'.member = [db.member EXCEPT ![u] = membership]
    BY <1>5, <1>6, <1>7, Zenon DEF AsAccepted, Asks, membership
  <2>6. ~Asks(q) => db'.grants = [db.grants EXCEPT ![u] = @ \cup rs]
    BY <1>5, <1>6, <1>7, Zenon DEF AsAccepted, Asks
  <2> QED BY <1>3, <2>1, <2>2, <2>3, <2>4, <2>5, <2>6
<1> HIDE DEF x, u, s, rs
<1>9. /\ \A z \in Subjects : db'.identity[z] = IF z = s THEN u ELSE db.identity[z]
      /\ \A y \in Ids : db'.invitation[y] = IF y = x THEN accepted ELSE db.invitation[y]
      /\ \A w \in Ids : db'.user[w] = IF w = u THEN status ELSE db.user[w]
      /\ \A w \in Ids : db'.member[w] = IF ~Asks(q) /\ w = u THEN "ACTIVE" ELSE db.member[w]
      /\ \A w \in Ids : db'.grants[w] = IF ~Asks(q) /\ w = u THEN db.grants[w] \cup rs ELSE db.grants[w]
  <2>1. /\ db.identity \in [Subjects -> Ids \cup {None}]
        /\ db.invitation \in [Ids -> Invitations \cup {NoRow}]
        /\ db.user \in [Ids -> {"NONE", "INVITED", "ACTIVE", "INACTIVE"}]
        /\ db.member \in [Ids -> {"NONE", "PENDING", "ACTIVE", "ENDED"}]
        /\ db.grants \in [Ids -> SUBSET Roles]
    BY DEF CourseInv, Typed, Database
  <2> QED BY <1>1, <1>8, <2>1
<1>10. Alone(q)
  BY <1>1, <1>2, <1>7, <1>9 DEF Standing
<1>11. Guarded(q)
  <2>1. GuardedInvitations(q)
    BY <1>1, <1>2, <1>9 DEF GuardedInvitations
  <2>2. GuardedIdentities(q)
    <3>1. PendingInvitation(x) /\ <<"invitation", x>> \in locks[q] /\ db.invitation[x].user = u
      BY <1>1 DEF PendingInvitation, x, u
    <3> QED BY <1>1, <1>9, <3>1 DEF GuardedIdentities
  <2>3. GuardedMembers(q)
    BY <1>1, <1>9 DEF GuardedMembers
  <2>4. GuardedRequests(q) /\ GuardedDevices(q)
    BY <1>8 DEF GuardedRequests, GuardedDevices
  <2>5. GuardedSettings(q)
    BY <1>3, <1>8, <1>9 DEF GuardedSettings
  <2> QED BY <2>1, <2>2, <2>3, <2>4, <2>5 DEF Guarded
<1>12. ForeignKeys(db')
  <2>1. \A w \in Ids : db.user[w] # "NONE" => db'.user[w] # "NONE"
    BY <1>3, <1>9
  <2> QED BY <1>1, <1>2, <1>8, <1>9, <2>1, References DEF CourseInv, Rows, ForeignKeys
<1>13. InStep(db')
  <2>1. \A w \in Ids : \/ db'.member[w] = db.member[w]
                       \/ db.member[w] \in {"PENDING", "ACTIVE"} /\ db'.member[w] = "ACTIVE"
    BY <1>1, <1>9
  <2>2. \A y \in Ids : db'.invitation[y].status = "PENDING" => db'.invitation[y] = db.invitation[y]
    BY <1>2, <1>9
  <2> QED BY <1>8, <2>1, <2>2, References DEF CourseInv, Rows, InStep
<1>14. ASSUME NEW r \in Requests, Unborn(r)'
       PROVE  NoRowsOf(db', r)
  <2>1. r # q /\ NoRowsOf(db, r) /\ r \in Ids
    BY <1>7, <1>10, <1>14, StillUnborn DEF Ids
  <2>2. r # x /\ r # u
    BY <1>1, <2>1 DEF NoRowsOf, NoRow
  <2> QED BY <1>8, <1>9, <2>1, <2>2 DEF NoRowsOf
<1>15. Sound(q)
  BY <1>8, <1>10, <1>11, <1>12, <1>13, <1>14 DEF Sound
<1>16. AccessStep
  <2>1. db.invitation[x].user = u /\ (Asks(q) <=> rs \cap Privileged # {})
    BY DEF x, u, rs, Asks
  <2>2. ~Asks(q) => Accepts(x, u)
    BY <1>1, <1>2, <1>9, <2>1 DEF Accepts
  <2> QED BY <1>1, <1>9, <2>1, <2>2 DEF AccessStep
<1>17. LedgerStep
  <2>1. CASE Asks(q)
    BY <1>8, <2>1 DEF LedgerStep
  <2>2. CASE ~Asks(q) /\ db.member[u] = "PENDING"
    <3>1. Members!Admit(u, rs)
      BY <1>8, <2>2 DEF Members!Admit
    <3> QED BY <1>1, <3>1 DEF LedgerStep, Members!Next
  <2>3. CASE ~Asks(q) /\ db.member[u] = "ACTIVE"
    <3>1. db'.member = db.member
      BY <1>1, <1>8, <2>3 DEF CourseInv, Typed, Database
    <3>2. Members!Extend(u, rs)
      BY <1>8, <2>3, <3>1 DEF Members!Extend
    <3> QED BY <1>1, <3>2 DEF LedgerStep, Members!Next
  <2> QED BY <1>1, <2>1, <2>2, <2>3
<1> QED BY <1>15, <1>16, <1>17

(* A user known already takes the place of the invited one. *)
LEMMA KnownSound ==
  ASSUME CourseInv, NEW q \in Requests, pc[q] = "run", call[q].verb = "accept",
         CommitAccept(q), Concluding(q), call[q].user # db.invitation[call[q].row].user
  PROVE  Sound(q) /\ AccessStep /\ LedgerStep
<1> DEFINE c == call[q]
           x == call[q].row
           u == call[q].user
           v == db.invitation[x].user
           s == call[q].subject
           rs == call[q].roles
           given == [db.invitation[x] EXCEPT !.user = u]
           accepted == [given EXCEPT !.status = "ACCEPTED"]
           status == IF db.user[u] = "INVITED" THEN "ACTIVE" ELSE db.user[u]
           e == Replaced(db, c, v)
           d == Accepted(e, c)
<1>1. /\ x \in Ids /\ u \in Ids /\ v \in Ids /\ s \in Subjects /\ db.invitation[x].status = "PENDING"
      /\ u # v
      /\ db.invitation[x] \in Invitations /\ db.user[v] # "NONE"
      /\ <<"invitation", x>> \in locks[q] /\ rs = db.invitation[x].roles /\ rs \in SUBSET Roles
      /\ db.identity[s] = u /\ NotInvited(u) /\ db.member[u] = "NONE"
      /\ Unknown(v) /\ db.member[v] = "PENDING"
      /\ {<<"member", v>>, <<"member", u>>, <<"deleted", v>>} \subseteq locks[q]
  BY References DEF Concluding, Taking, PendingInvitation, Invitations
<1>2. db.user[u] # "NONE"
  <2>1. u # None
    BY <1>1, NamesAssumption
  <2> QED BY <1>1, <2>1 DEF CourseInv, Rows, ForeignKeys
<1>3. /\ given \in Invitations /\ accepted \in Invitations
      /\ accepted.status = "ACCEPTED" /\ accepted # NoRow /\ accepted.user = u
  BY <1>1 DEF Invitations, Decisions, NoRow
<1>4. status \in {"INVITED", "ACTIVE", "INACTIVE"}
  BY <1>1, <1>2 DEF CourseInv, Typed, Database
<1>5. Publish(q, d, "ok")
  BY DEF CommitAccept
<1>6. e = [db EXCEPT !.invitation[x] = given, !.user[v] = "NONE",
                     !.member = [db.member EXCEPT ![v] = "NONE", ![u] = "PENDING"]]
  BY <1>1 DEF Replaced, CourseInv, Typed, Database
<1> HIDE DEF e, given
<1>7. /\ e \in Database /\ e.grants = db.grants
      /\ e.request = db.request /\ e.device = db.device
      /\ e.tenant = db.tenant /\ e.setting = db.setting /\ e.key = db.key
      /\ e.identity = db.identity
      /\ e.invitation = [db.invitation EXCEPT ![x] = given]
      /\ e.user = [db.user EXCEPT ![v] = "NONE"]
      /\ e.member = [db.member EXCEPT ![v] = "NONE", ![u] = "PENDING"]
  <2> DEFINE members == [db.member EXCEPT ![v] = "NONE", ![u] = "PENDING"]
  <2>1. members \in [Ids -> {"NONE", "PENDING", "ACTIVE", "ENDED"}]
    BY <1>1 DEF CourseInv, Typed, Database
  <2> HIDE DEF members
  <2>2. e = [db EXCEPT !.invitation[x] = given, !.user[v] = "NONE", !.member = members]
    BY <1>6 DEF members
  <2>3. [db EXCEPT !.invitation[x] = given, !.user[v] = "NONE", !.member = members] \in Database
    BY Zenon, <1>1, <1>3, <2>1 DEF CourseInv, Typed, Database
  <2>4. /\ e.grants = db.grants
        /\ e.request = db.request /\ e.device = db.device
        /\ e.tenant = db.tenant /\ e.setting = db.setting /\ e.key = db.key
        /\ e.identity = db.identity
        /\ e.invitation = [db.invitation EXCEPT ![x] = given]
        /\ e.user = [db.user EXCEPT ![v] = "NONE"]
        /\ e.member = members
    BY <1>1, <2>1, <2>2 DEF CourseInv, Typed, Database
  <2> QED BY <2>2, <2>3, <2>4 DEF members
<1>8. e.invitation[x] = given /\ e.user[u] = db.user[u] /\ e.member[u] = "PENDING"
  BY <1>1, <1>7 DEF CourseInv, Typed, Database
<1>9. AsAccepted(d, e, x, u, rs)
  <2>1. d = Accepted(e, c)
    OBVIOUS
  <2> HIDE DEF d
  <2> QED BY <1>1, <1>3, <1>7, <1>8, <2>1, AcceptedRows
<1>10. db' = d /\ pc'[q] = "ok" /\ call'[q].verb = "accept" /\ call'[q].row = x
       /\ (Standing(q)' => Alone(q))
  <2> HIDE DEF d
  <2> QED BY <1>5, Publishes DEF Outcomes
<1> HIDE DEF d, c, accepted, status
<1>11. /\ db' \in Database
       /\ db'.request = db.request /\ db'.device = db.device /\ db'.tenant = db.tenant
       /\ db'.setting = db.setting /\ db'.key = db.key
       /\ db'.identity = db.identity
       /\ db'.invitation = [e.invitation EXCEPT ![x] = accepted]
       /\ db'.user = [e.user EXCEPT ![u] = status]
       /\ Asks(q) => db'.member = e.member /\ db'.grants = db.grants
       /\ ~Asks(q) => /\ db'.member = [e.member EXCEPT ![u] = "ACTIVE"]
                      /\ db'.grants = [db.grants EXCEPT ![u] = @ \cup rs]
  BY <1>7, <1>8, <1>9, <1>10 DEF accepted, status, Asks, AsAccepted
<1>12. /\ db.invitation \in [Ids -> Invitations \cup {NoRow}]
       /\ db.user \in [Ids -> {"NONE", "INVITED", "ACTIVE", "INACTIVE"}]
       /\ db.member \in [Ids -> {"NONE", "PENDING", "ACTIVE", "ENDED"}]
       /\ db.grants \in [Ids -> SUBSET Roles]
  BY DEF CourseInv, Typed, Database
<1> HIDE DEF x, u, v, s, rs
<1>13. /\ \A y \in Ids : db'.invitation[y] = IF y = x THEN accepted ELSE db.invitation[y]
       /\ \A w \in Ids : db'.user[w] = IF w = u THEN status ELSE IF w = v THEN "NONE" ELSE db.user[w]
       /\ \A w \in Ids : db'.member[w] = IF w = u THEN (IF Asks(q) THEN "PENDING" ELSE "ACTIVE")
                                         ELSE IF w = v THEN "NONE" ELSE db.member[w]
       /\ \A w \in Ids : db'.grants[w] = IF ~Asks(q) /\ w = u THEN db.grants[w] \cup rs ELSE db.grants[w]
  <2>1. \A y \in Ids : db'.invitation[y] = IF y = x THEN accepted ELSE db.invitation[y]
    BY <1>1, <1>7, <1>11, <1>12
  <2>2. \A w \in Ids : db'.user[w] = IF w = u THEN status ELSE IF w = v THEN "NONE" ELSE db.user[w]
    BY <1>1, <1>7, <1>11, <1>12
  <2>3. \A w \in Ids : db'.member[w] = IF w = u THEN (IF Asks(q) THEN "PENDING" ELSE "ACTIVE")
                                         ELSE IF w = v THEN "NONE" ELSE db.member[w]
    BY <1>1, <1>7, <1>11, <1>12
  <2>4. \A w \in Ids : db'.grants[w] = IF ~Asks(q) /\ w = u THEN db.grants[w] \cup rs ELSE db.grants[w]
    BY <1>1, <1>11, <1>12
  <2> QED BY <2>1, <2>2, <2>3, <2>4
<1>14. Alone(q)
  BY <1>1, <1>3, <1>10, <1>13 DEF Standing
<1>15. Guarded(q)
  <2>1. GuardedInvitations(q)
    BY <1>1, <1>3, <1>13 DEF GuardedInvitations
  <2>2. GuardedMembers(q)
    BY <1>1, <1>13 DEF GuardedMembers
  <2>3. GuardedIdentities(q) /\ GuardedRequests(q) /\ GuardedDevices(q)
    BY <1>11 DEF GuardedIdentities, GuardedRequests, GuardedDevices
  <2>4. GuardedSettings(q)
    BY <1>1, <1>4, <1>11, <1>13 DEF GuardedSettings
  <2> QED BY <2>1, <2>2, <2>3, <2>4 DEF Guarded
<1>16. \A y \in Ids : db'.invitation[y].status = "PENDING" =>
         /\ y # x /\ db'.invitation[y] = db.invitation[y]
         /\ db.invitation[y].user # u /\ db.invitation[y].user # v
  <2>1. \A y \in Ids : y # x /\ db.invitation[y].status = "PENDING" => db.invitation[y].user # v
    BY <1>1 DEF CourseInv, Rows, InStep, v
  <2> QED BY <1>1, <1>3, <1>13, <2>1 DEF NotInvited, PendingInvitation
<1>17. ForeignKeys(db')
  <2>1. \A w \in Ids : w # v /\ db.user[w] # "NONE" => db'.user[w] # "NONE"
    BY <1>4, <1>13
  <2>2. \A z \in Subjects : db'.identity[z] # None => db'.user[db'.identity[z]] # "NONE"
    BY <1>1, <1>11, <2>1, References DEF CourseInv, Rows, ForeignKeys, Unknown
  <2>3. \A y \in Ids : db'.invitation[y].status = "PENDING" => db'.user[db'.invitation[y].user] # "NONE"
    BY <1>16, <2>1, References
  <2>4. \A y \in Ids : db'.request[y] # NoRow => db'.user[db'.request[y].user] # "NONE"
    BY <1>1, <1>11, <2>1, References DEF Unknown
  <2> QED BY <2>2, <2>3, <2>4 DEF ForeignKeys
<1>18. InStep(db')
  <2>1. \A w \in Ids : w # u /\ w # v => db'.member[w] = db.member[w]
    BY <1>13
  <2>2. \A y \in Ids : db'.invitation[y].status = "PENDING" =>
          db'.member[db'.invitation[y].user] \in {"PENDING", "ACTIVE"}
    BY <1>16, <2>1, References DEF CourseInv, Rows, InStep
  <2>3. \A y, z \in Ids :
          /\ db'.invitation[y].status = "PENDING" /\ db'.invitation[z].status = "PENDING"
          /\ db'.invitation[y].user = db'.invitation[z].user
          => y = z
    BY <1>16 DEF CourseInv, Rows, InStep
  <2>4. \A y \in Ids : db.request[y].status \in {"PENDING", "APPROVED"} =>
          /\ db.request[y].user \in Ids /\ db.request[y].user # v /\ db.request[y].user # u
    BY <1>1, References DEF CourseInv, Rows, InStep, Unknown
  <2> QED BY <1>11, <2>1, <2>2, <2>3, <2>4 DEF CourseInv, Rows, InStep
<1>19. ASSUME NEW r \in Requests, Unborn(r)'
       PROVE  NoRowsOf(db', r)
  <2>1. r # q /\ NoRowsOf(db, r) /\ r \in Ids
    BY <1>10, <1>14, <1>19, StillUnborn DEF Ids
  <2>2. r # x /\ r # u /\ r # v
    BY <1>1, <1>2, <2>1 DEF NoRowsOf, NoRow, u
  <2> QED BY <1>11, <1>13, <2>1, <2>2 DEF NoRowsOf
<1>20. Sound(q)
  BY <1>11, <1>14, <1>15, <1>17, <1>18, <1>19 DEF Sound
<1>21. AccessStep
  <2>1. Asks(q) <=> rs \cap Privileged # {}
    BY DEF rs, Asks
  <2>2. ~Asks(q) => Accepts(x, u)
    BY <1>1, <1>3, <1>13, <2>1 DEF Accepts
  <2> QED BY <1>1, <1>13, <2>1, <2>2 DEF AccessStep
<1>22. LedgerStep
  <2>1. Members!Succeed(v, u, rs)
    <3>1. CASE Asks(q)
      BY <1>1, <1>7, <1>11, <3>1 DEF Members!Succeed
    <3>2. CASE ~Asks(q)
      <4>1. db'.member = [db.member EXCEPT ![v] = "NONE", ![u] = "ACTIVE"]
        BY <1>1, <1>7, <1>11, <1>12, <3>2
      <4> QED BY <1>1, <1>11, <3>2, <4>1 DEF Members!Succeed
    <3> QED BY <3>1, <3>2
  <2> QED BY <1>1, <2>1 DEF LedgerStep, Members!Next
<1> QED BY <1>20, <1>21, <1>22

LEMMA AcceptSound ==
  ASSUME CourseInv, NEW q \in Requests, pc[q] = "run", call[q].verb = "accept", Run(q)
  PROVE  Sound(q) /\ AccessStep /\ LedgerStep
BY AcceptRuns, QuietIsFine, ExpiringSound, InvitedSound, KnownSound

LEMMA RunsOnly ==
  ASSUME NEW q, Run(q)
  PROVE  pc[q] = "run"
BY Zenon DEF Run, RunOnboarding, RunDevice, RunSetup, RunAdministration, At, Take, Insert,
       Committing, WriteUser, InsertIdentity, TenantExists, CommitInvite, LockInvitation,
       ExpireInvitation, TouchMember, CommitCancel, FindInvitedIdentity, NoMembership,
       InsertMember, DropInvited, DropPrincipal, ValidateAccess, CommitAccept, CheckToken,
       FindOwnIdentity, FindMember, FindRequest, InsertRequest, CommitAsItWas,
       CommitRegister, LockRequest, LockMemberOfRequest, CommitApprove, CommitReject,
       InsertDevice, LockMembership, LockPendingDevice, CountDevices, LockEnrolment,
       CommitActivate, AdvisoryLock, NoAdmin, InsertLogin, InsertAdmin, CommitBootstrap,
       FindClaimant, FindProvisioned, CommitAdmin, FindKey, Upsert, CommitSetKey,
       CommitDisableKey, InsertTenant, CommitCreateTenant, TenantBefore, SwitchTenant,
       CommitActivateTenant, TenantOfToken, FindSetting, CommitRotateToken,
       CommitDisableToken, FindPrincipal, CommitConfigure, ReadLinked, UpsertIdentity,
       CheckLinkedUser, CommitLink

(* Neither setting up nor the administration of USERs and devices touches  *)
(* memberships and roles.                                                  *)
LEMMA OthersKeepAccess ==
  ASSUME CourseInv, NEW q \in Requests, pc[q] = "run", Run(q),
         call[q].verb \notin {"invite", "cancel", "accept", "register", "approve", "reject"}
  PROVE  AccessStep /\ LedgerStep
<1>1. OnCourse(q)
  BY DEF CourseInv, CallInv
<1>2. DOMAIN db = {"user", "identity", "admin", "login", "key", "tenant", "setting", "member", "grants",
                  "asks", "invitation", "due", "request", "device"}
  BY DEF CourseInv, Typed, Database
<1>3. db'.member = db.member /\ db'.grants = db.grants
  <2>1. CASE call[q].verb = "bootstrap"
    <3>1. Quiet(q) \/ CommitBootstrap(q)
      BY <2>1, BootstrapRuns
    <3>2. CommitBootstrap(q) => db'.member = db.member /\ db'.grants = db.grants
      BY <1>2 DEF CommitBootstrap, Publish
    <3> QED BY <3>1, <3>2 DEF Quiet
  <2>2. CASE call[q].verb = "claim"
    <3>1. Quiet(q) \/ CommitAdmin(q)
      BY <2>2, ClaimRuns
    <3>2. CommitAdmin(q) => db'.member = db.member /\ db'.grants = db.grants
      BY <1>2 DEF CommitAdmin, Publish, WithUser
    <3> QED BY <3>1, <3>2 DEF Quiet
  <2>3. CASE call[q].verb = "provision"
    <3>1. Quiet(q) \/ CommitAdmin(q)
      BY <2>3, ProvisionRuns
    <3>2. CommitAdmin(q) => db'.member = db.member /\ db'.grants = db.grants
      BY <1>2 DEF CommitAdmin, Publish, WithUser
    <3> QED BY <3>1, <3>2 DEF Quiet
  <2>4. CASE call[q].verb = "setKey"
    <3>1. Quiet(q) \/ CommitSetKey(q)
      BY <2>4, SetKeyRuns
    <3>2. CommitSetKey(q) => db'.member = db.member /\ db'.grants = db.grants
      BY <1>2 DEF CommitSetKey, Publish
    <3> QED BY <3>1, <3>2 DEF Quiet
  <2>5. CASE call[q].verb = "disableKey"
    <3>1. Quiet(q) \/ CommitDisableKey(q)
      BY <2>5, DisableKeyRuns
    <3>2. CommitDisableKey(q) => db'.member = db.member /\ db'.grants = db.grants
      BY <1>2 DEF CommitDisableKey, Publish
    <3> QED BY <3>1, <3>2 DEF Quiet
  <2>6. CASE call[q].verb = "createTenant"
    <3>1. Quiet(q) \/ CommitCreateTenant(q)
      BY <2>6, CreateTenantRuns
    <3>2. CommitCreateTenant(q) => db'.member = db.member /\ db'.grants = db.grants
      BY <1>2 DEF CommitCreateTenant, Publish
    <3> QED BY <3>1, <3>2 DEF Quiet
  <2>7. CASE call[q].verb = "activateTenant"
    <3>1. Quiet(q) \/ CommitActivateTenant(q)
      BY <2>7, ActivateTenantRuns
    <3>2. CommitActivateTenant(q) => db'.member = db.member /\ db'.grants = db.grants
      BY <1>2 DEF CommitActivateTenant, Publish
    <3> QED BY <3>1, <3>2 DEF Quiet
  <2>8. CASE call[q].verb = "rotateToken"
    <3>1. Quiet(q) \/ CommitRotateToken(q)
      BY <2>8, RotateTokenRuns
    <3>2. CommitRotateToken(q) => db'.member = db.member /\ db'.grants = db.grants
      BY <1>2 DEF CommitRotateToken, Publish
    <3> QED BY <3>1, <3>2 DEF Quiet
  <2>9. CASE call[q].verb = "disableToken"
    <3>1. Quiet(q) \/ CommitDisableToken(q)
      BY <2>9, DisableTokenRuns
    <3>2. CommitDisableToken(q) => db'.member = db.member /\ db'.grants = db.grants
      BY <1>2 DEF CommitDisableToken, Publish
    <3> QED BY <3>1, <3>2 DEF Quiet
  <2>10. CASE call[q].verb = "configure"
    <3>1. Quiet(q) \/ CommitConfigure(q)
      BY <2>10, ConfigureRuns
    <3>2. CommitConfigure(q) => db'.member = db.member /\ db'.grants = db.grants
      BY <1>2 DEF CommitConfigure, Publish
    <3> QED BY <3>1, <3>2 DEF Quiet
  <2>11. CASE call[q].verb = "link"
    <3>1. Quiet(q) \/ CommitLink(q)
      BY <2>11, LinkRuns
    <3>2. CommitLink(q) => db'.member = db.member /\ db'.grants = db.grants
      BY <1>2 DEF CommitLink, Publish
    <3> QED BY <3>1, <3>2 DEF Quiet
  <2>12. CASE call[q].verb = "enroll"
    <3>1. InsertDevice(q)
      BY <2>12, EnrollRuns
    <3> QED BY <1>2, <3>1 DEF InsertDevice, Publish, Leave
  <2>13. CASE call[q].verb = "activate"
    <3>1. Quiet(q) \/ CommitActivate(q)
      BY <2>13, ActivateRuns
    <3>2. CommitActivate(q) => db'.member = db.member /\ db'.grants = db.grants
      BY <1>2 DEF CommitActivate, Publish
    <3> QED BY <3>1, <3>2 DEF Quiet
  <2> QED BY <1>1, <2>1, <2>2, <2>3, <2>4, <2>5, <2>6, <2>7, <2>8, <2>9, <2>10, <2>11, <2>12, <2>13 DEF OnCourse, AllVerbs
<1> QED BY <1>3, AccessKept

LEMMA RunSound ==
  ASSUME CourseInv, NEW q \in Requests, Run(q)
  PROVE  Sound(q) /\ AccessStep /\ LedgerStep
<1>1. pc[q] = "run" /\ OnCourse(q)
  BY RunsOnly DEF CourseInv, CallInv
<1>2. CASE call[q].verb \in {"invite", "cancel", "accept", "register", "approve", "reject"}
  BY <1>1, <1>2, InviteSound, CancelSound, AcceptSound, RegisterSound, ApproveSound, RejectSound
<1>3. CASE call[q].verb \notin {"invite", "cancel", "accept", "register", "approve", "reject"}
  <2>1. Sound(q)
    BY <1>1, <1>3, BootstrapSound, ClaimSound, ProvisionSound, SetKeySound, DisableKeySound, CreateTenantSound, ActivateTenantSound, RotateTokenSound, DisableTokenSound, ConfigureSound, LinkSound, EnrollSound, ActivateSound
       DEF OnCourse, AllVerbs
  <2> QED BY <1>1, <1>3, <2>1, OthersKeepAccess
<1> QED BY <1>2, <1>3

LEMMA AbortSound ==
  ASSUME CourseInv, NEW q \in Requests, Abort(q)
  PROVE  Sound(q) /\ AccessStep /\ LedgerStep
BY Leaves, QuietIsFine DEF Abort, Outcomes

(* The rows are the same, but that time may have passed. *)
RowsSame ==
  /\ UNCHANGED <<locks, pc, call>>
  /\ db'.user = db.user /\ db'.identity = db.identity /\ db'.member = db.member
  /\ db'.grants = db.grants /\ db'.invitation = db.invitation /\ db'.request = db.request
  /\ db'.device = db.device /\ db'.tenant = db.tenant /\ db'.setting = db.setting
  /\ db'.key = db.key
  /\ db' \in Database

LEMMA DueAlone ==
  ASSUME CourseInv, TimePasses
  PROVE  RowsSame
<1>1. PICK x \in Ids : db' = [db EXCEPT !.due = @ \cup {x}] /\ UNCHANGED <<locks, pc, call>>
  BY DEF TimePasses
<1>2. DOMAIN db = {"user", "identity", "admin", "login", "key", "tenant", "setting", "member", "grants",
                   "asks", "invitation", "due", "request", "device"}
  BY DEF CourseInv, Typed, Database
<1>3. db' \in Database
  BY <1>1 DEF CourseInv, Typed, Database
<1> QED BY <1>1, <1>2, <1>3 DEF RowsSame

LEMMA SameRows ==
  ASSUME CourseInv, RowsSame
  PROVE  CourseInv'
<1>1. /\ locks' = locks /\ pc' = pc /\ call' = call
      /\ db'.user = db.user /\ db'.identity = db.identity /\ db'.member = db.member
      /\ db'.grants = db.grants /\ db'.invitation = db.invitation /\ db'.request = db.request
      /\ db'.device = db.device /\ db'.tenant = db.tenant /\ db'.setting = db.setting
      /\ db'.key = db.key
      /\ db' \in Database
  BY DEF RowsSame
<1>2. Typed' /\ Rows' /\ Exclusive'
  BY <1>1 DEF CourseInv, Typed, Framed, Rows, Unborn, NoRowsOf, ForeignKeys, InStep, Exclusive
<1>3. ASSUME NEW q \in Requests
      PROVE  CallInv(q)'
  <2>1. Standing(q) => Standing(q)'
    BY <1>1 DEF Standing
  <2>2. OnCourse(q) => OnCourse(q)'
    <3>1. /\ Inviting(q) => Inviting(q)'
          /\ Cancelling(q) => Cancelling(q)'
      BY <1>1 DEF Inviting, Cancelling, PendingInvitation, Here
    <3>2. /\ Accepting(q) => Accepting(q)'
      <4>1. AsInvited(q) => AsInvited(q)'
        BY <1>1, Zenon DEF AsInvited, Admitting, Here, Asks
      <4>2. AsKnown(q) => AsKnown(q)'
        <5>1. /\ \A u : NotInvited(u) <=> NotInvited(u)'
              /\ \A u : Unknown(u) <=> Unknown(u)'
          BY <1>1 DEF NotInvited, Unknown, PendingInvitation
        <5> QED BY <1>1, <5>1, Zenon DEF AsKnown, Admitting, Here, Asks
      <4> QED BY <1>1, <4>1, <4>2 DEF Accepting, PendingInvitation, Here
    <3>3. /\ Registering(q) => Registering(q)'
      BY <1>1 DEF Registering, ForUser, NoneOpen, Here
    <3>4. /\ Approving(q) => Approving(q)'
          /\ Rejecting(q) => Rejecting(q)'
      BY <1>1 DEF Approving, Rejecting, PendingRequest, Asks, Here
    <3>5. /\ Enrolling(q) => Enrolling(q)'
          /\ Activating(q) => Activating(q)'
      BY <1>1 DEF Enrolling, Activating, Here
    <3>6. /\ Bootstrapping(q) => Bootstrapping(q)'
          /\ Appointing(q) => Appointing(q)'
      BY <1>1 DEF Bootstrapping, Appointing, Here
    <3>7. /\ Keying(q) => Keying(q)'
          /\ Unkeying(q) => Unkeying(q)'
          /\ Founding(q) => Founding(q)'
          /\ Opening(q) => Opening(q)'
          /\ Rotating(q) => Rotating(q)'
          /\ Disabling(q) => Disabling(q)'
      BY <1>1 DEF Keying, Unkeying, Founding, Opening, Rotating, Disabling, Here
    <3>8. /\ Configuring(q) => Configuring(q)'
          /\ Linking(q) => Linking(q)'
      BY <1>1 DEF Configuring, Linking, Unborn, Here
    <3> QED BY <1>1, <3>1, <3>2, <3>3, <3>4, <3>5, <3>6, <3>7, <3>8 DEF OnCourse
  <2> QED BY <1>1, <2>1, <2>2 DEF CallInv, CourseInv
<1> QED BY <1>2, <1>3 DEF CourseInv

LEMMA CoursesBegin ==
  ASSUME Init
  PROVE  CourseInv
<1>1. db \in Database /\ ForeignKeys(db) /\ InStep(db) /\ \A q \in Requests : NoRowsOf(db, q)
  BY StartsAssumption, InputAssumption DEF Init
<1>2. Typed
  <2>1. Framed(Blank)
    BY BlankFramed
  <2> QED BY <1>1, <2>1 DEF Init, Typed
<1>3. Rows /\ Exclusive
  BY <1>1 DEF Init, Rows, Exclusive
<1>4. \A q \in Requests : CallInv(q)
  BY DEF Init, CallInv
<1> QED BY <1>2, <1>3, <1>4 DEF CourseInv

LEMMA CoursesGoOn ==
  ASSUME CourseInv, [Next]_vars
  PROVE  CourseInv'
<1>1. ASSUME NEW q \in Requests, Arrive(q) \/ Run(q) \/ Abort(q)
      PROVE  CourseInv'
  <2>1. Sound(q)
    <3>1. Arrive(q) => Sound(q)
      BY ArriveQuiet, QuietIsSound
    <3>2. Run(q) => Sound(q)
      BY RunSound
    <3>3. Abort(q) => Sound(q)
      BY AbortSound
    <3> QED BY <1>1, <3>1, <3>2, <3>3
  <2> QED BY <2>1, SoundStep
<1>2. CASE UNCHANGED vars
  BY <1>2, SameRows DEF vars, RowsSame, CourseInv, Typed
<1> QED BY <1>1, <1>2, DueAlone, SameRows DEF Next

-----------------------------------------------------------------------------
(* What holds of every behaviour. *)

LEMMA CoursesHold == Spec => []CourseInv
<1>1. Init => CourseInv
  BY CoursesBegin
<1>2. CourseInv /\ [Next]_vars => CourseInv'
  BY CoursesGoOn
<1> QED BY <1>1, <1>2, PTL DEF Spec

LEMMA AccessSteps ==
  ASSUME CourseInv, [Next]_vars
  PROVE  AccessStep /\ LedgerStep
<1>1. ASSUME NEW q \in Requests, Arrive(q)
      PROVE  AccessStep /\ LedgerStep
  BY <1>1, ArriveQuiet, QuietIsFine
<1>2. ASSUME NEW q \in Requests, Run(q)
      PROVE  AccessStep /\ LedgerStep
  BY <1>2, RunSound
<1>3. ASSUME NEW q \in Requests, Abort(q)
      PROVE  AccessStep /\ LedgerStep
  BY <1>3, AbortSound
<1>4. CASE TimePasses
  BY <1>4, DueAlone, AccessKept DEF RowsSame
<1>5. CASE UNCHANGED vars
  BY <1>5, AccessKept DEF vars
<1> QED BY <1>1, <1>2, <1>3, <1>4, <1>5 DEF Next

(* RULE-SELF-007: who becomes ACTIVE or is given a role is so by the commit *)
(* of an acceptance or an approval of the user's own, and a privileged     *)
(* role never comes that way.                                              *)
THEOREM AccessWasDecidedHolds == Spec => AccessWasDecided
<1>1. CourseInv /\ [Next]_vars => AccessStep
  BY AccessSteps
<1>2. CourseInv /\ [Next]_vars =>
        [\A u \in Ids :
           \/ db'.member[u] = "ACTIVE" /\ db.member[u] # "ACTIVE"
           \/ db'.grants[u] # db.grants[u]
           => /\ \E x \in Ids : Accepts(x, u) \/ Approves(x, u)
              /\ (db'.grants[u] \ db.grants[u]) \cap Privileged = {}]_vars
  BY <1>1 DEF AccessStep
<1> QED BY <1>2, CoursesHold, PTL DEF Spec, AccessWasDecided

(* Whatever calls run beside one another, every step is one of the ledger  *)
(* of memberships and roles, or leaves them as they are.                   *)
THEOREM ImplementsMembersHolds == Spec => ImplementsMembers
<1>1. Init => Members!Init
  BY StartsAssumption DEF Init, Members!Init
<1>2. CourseInv /\ [Next]_vars => [Members!Next]_<<db.member, db.grants>>
  BY AccessSteps DEF LedgerStep
<1> QED BY <1>1, <1>2, CoursesHold, PTL DEF Spec, ImplementsMembers, Members!Spec

LEMMA SoundKeepsIdentities ==
  ASSUME CourseInv, NEW q \in Requests, Sound(q), NEW s \in Subjects, db.identity[s] # None
  PROVE  db'.identity[s] = db.identity[s] /\ db'.user[db.identity[s]] # "NONE"
BY DEF Sound, Guarded, GuardedIdentities, ForeignKeys

(* No call takes an identity from its USER or deletes a USER who has one:  *)
(* the DELETE of an acceptance is refused while an identity refers to the  *)
(* row, and holds the row against those that would.                        *)
THEOREM IdentityKeptHolds == Spec => IdentityKept
<1>1. ASSUME CourseInv, [Next]_vars, NEW s \in Subjects, db.identity[s] # None
      PROVE  db'.identity[s] = db.identity[s] /\ db'.user[db.identity[s]] # "NONE"
  <2>1. ASSUME NEW q \in Requests, Arrive(q)
        PROVE  Sound(q)
    BY <1>1, <2>1, ArriveQuiet, QuietIsSound
  <2>2. ASSUME NEW q \in Requests, Run(q)
        PROVE  Sound(q)
    BY <1>1, <2>2, RunSound
  <2>3. ASSUME NEW q \in Requests, Abort(q)
        PROVE  Sound(q)
    BY <1>1, <2>3, AbortSound
  <2>4. CASE TimePasses \/ UNCHANGED vars
    <3>1. db'.identity = db.identity /\ db'.user = db.user
      BY <1>1, <2>4, DueAlone DEF RowsSame, vars
    <3> QED BY <1>1, <3>1 DEF CourseInv, Rows, ForeignKeys
  <2> QED BY <1>1, <2>1, <2>2, <2>3, <2>4, SoundKeepsIdentities DEF Next
<1>2. CourseInv /\ [Next]_vars =>
        [\A s \in Subjects : db.identity[s] # None =>
           /\ db'.identity[s] = db.identity[s]
           /\ db'.user[db.identity[s]] # "NONE"]_vars
  BY <1>1
<1> QED BY <1>2, CoursesHold, PTL DEF Spec, IdentityKept

Proper(plan) == plan \in Seq(Statements) /\ plan # <<>>

LEMMA PlansAre ==
  /\ \A n \in Labels : Look(n) \in Statements /\ \A t \in Things : Do(n, t) \in Statements
  /\ Finish \in Statements
BY DEF Look, Do, Finish, Statements, Labels

LEMMA PlansOf ==
  /\ \A a \in Statements : Proper(<<a>>)
  /\ \A a, b \in Statements : Proper(<<a, b>>)
  /\ \A a, b, c \in Statements : Proper(<<a, b, c>>)
  /\ \A a, b, c, d \in Statements : Proper(<<a, b, c, d>>)
  /\ \A a, b, c, d, e \in Statements : Proper(<<a, b, c, d, e>>)
  /\ \A a, b, c, d, e, f \in Statements : Proper(<<a, b, c, d, e, f>>)
  /\ \A a, b, c, d, e, f, g \in Statements : Proper(<<a, b, c, d, e, f, g>>)
BY DEF Proper

(* What a call holds and means to do is of its types. *)
OfType(q) == Proper(call[q].plan) /\ locks[q] \subseteq Things

LEMMA OnboardingTyped ==
  ASSUME CourseInv, NEW q \in Requests
  PROVE  /\ Inviting(q) => OfType(q)
         /\ Cancelling(q) => OfType(q)
         /\ Approving(q) => OfType(q)
         /\ Rejecting(q) => OfType(q)
<1>0. call[q].user \in Ids \cup {None} /\ q \in Ids
  BY DEF CourseInv, Typed, Framed, Ids
<1>1. Look("tenantExists") \in Statements /\ Finish \in Statements
  BY PlansAre DEF Labels
<1>2. Inviting(q) => OfType(q)
  BY <1>1, PlansOf DEF Inviting, Here, OfType
<1>3. Cancelling(q) => OfType(q)
  <2> SUFFICES ASSUME Cancelling(q) PROVE OfType(q)
    OBVIOUS
  <2> DEFINE invitation == <<"invitation", call[q].row>>
             member == <<"member", call[q].user>>
  <2>1. invitation \in Things
    BY ThingsAre DEF Cancelling
  <2>2. Do("lockInvitation", invitation) \in Statements
    BY <2>1, PlansAre DEF Labels
  <2>3. PendingInvitation(call[q].row) /\ call[q].user = db.invitation[call[q].row].user =>
          member \in Things /\ Do("member", member) \in Statements
    BY ThingsAre, References, PlansAre DEF Cancelling, PendingInvitation, Labels
  <2> QED BY <1>1, <2>1, <2>2, <2>3, PlansOf DEF Cancelling, Here, OfType
<1>4. Approving(q) => OfType(q)
  <2> SUFFICES ASSUME Approving(q) PROVE OfType(q)
    OBVIOUS
  <2> DEFINE request == <<"request", call[q].row>>
             member == <<"member", call[q].user>>
  <2>1. request \in Things
    BY ThingsAre DEF Approving
  <2>2. Do("lockRequest", request) \in Statements
    BY <2>1, PlansAre DEF Labels
  <2>3. PendingRequest(call[q].row) /\ call[q].user = db.request[call[q].row].user =>
          member \in Things /\ Do("memberOfRequest", member) \in Statements
    BY ThingsAre, References, PlansAre DEF Approving, PendingRequest, Labels
  <2> QED BY <1>1, <2>1, <2>2, <2>3, PlansOf DEF Approving, Here, OfType
<1>5. Rejecting(q) => OfType(q)
  <2> SUFFICES ASSUME Rejecting(q) PROVE OfType(q)
    OBVIOUS
  <2> DEFINE request == <<"request", call[q].row>>
  <2>1. request \in Things
    BY ThingsAre DEF Rejecting
  <2>2. Do("lockRequest", request) \in Statements
    BY <2>1, PlansAre DEF Labels
  <2> QED BY <1>1, <2>1, <2>2, PlansOf DEF Rejecting, Here, OfType
<1> QED BY <1>2, <1>3, <1>4, <1>5

LEMMA AcceptTyped ==
  ASSUME CourseInv, NEW q \in Requests, Accepting(q)
  PROVE  OfType(q)
<1> DEFINE c == call[q]
           v == db.invitation[c.row].user
           invitation == <<"invitation", c.row>>
           subject == <<"subject", c.subject>>
           user == <<"user", c.user>>
           member == <<"member", c.user>>
           memberV == <<"member", v>>
           userV == <<"user", v>>
           deleted == <<"deleted", v>>
           principal == <<"principal", v>>
<1>1. invitation \in Things /\ subject \in Things
  BY ThingsAre DEF Accepting
<1>2. /\ Finish \in Statements /\ Look("expire") \in Statements /\ Look("findIdentity") \in Statements
      /\ Look("access") \in Statements /\ Look("noMembership") \in Statements
      /\ Do("lockInvitation", invitation) \in Statements
      /\ Do("insertIdentity", subject) \in Statements
  BY <1>1, PlansAre DEF Labels
<1>3. CASE Here(q, <<Do("lockInvitation", invitation)>>, {})
  BY <1>1, <1>2, <1>3, PlansOf DEF Here, OfType
<1>4. CASE Here(q, <<Look("expire")>>, {invitation})
  BY <1>1, <1>2, <1>4, PlansOf DEF Here, OfType
<1>5. CASE PendingInvitation(c.row) /\ (AsInvited(q) \/ AsKnown(q))
  <2>1. v \in Ids /\ c.user \in Ids
    <3>1. v \in Ids
      BY <1>5, References DEF Accepting, PendingInvitation
    <3>2. c.user \in Ids \cup {None}
      BY DEF CourseInv, Typed, Framed
    <3> QED BY Zenon, <1>5, <3>1, <3>2 DEF AsInvited, AsKnown
  <2>2. /\ user \in Things /\ member \in Things /\ memberV \in Things /\ userV \in Things
        /\ deleted \in Things /\ principal \in Things
    BY <2>1, ThingsAre
  <2>3. /\ Do("user", user) \in Statements /\ Do("member", member) \in Statements
        /\ Do("member", memberV) \in Statements /\ Do("insertMember", member) \in Statements
        /\ Do("user", userV) \in Statements /\ Do("dropInvited", deleted) \in Statements
        /\ Do("dropPrincipal", principal) \in Statements
    BY <2>2, PlansAre DEF Labels
  <2>4. ASSUME NEW held \in SUBSET Things, Admitting(q, held)
        PROVE  OfType(q)
    <3> HIDE DEF user, member
    <3>1. /\ Proper(<<Look("access")>>) /\ Proper(<<Do("user", user), Finish>>) /\ Proper(<<Finish>>)
          /\ Proper(<<Do("user", user), Do("member", member), Finish>>)
          /\ Proper(<<Do("member", member), Finish>>)
      BY <1>2, <2>3, PlansOf
    <3> QED BY <2>2, <2>4, <3>1 DEF Admitting, Here, OfType, user, member
  <2>5. CASE AsInvited(q)
    <3>1. ASSUME Admitting(q, {invitation}) \/ Admitting(q, {invitation, subject})
          PROVE  OfType(q)
      <4>1. {invitation} \in SUBSET Things /\ {invitation, subject} \in SUBSET Things
        BY <1>1
      <4> QED BY <2>4, <3>1, <4>1
    <3> QED BY Zenon, <1>1, <1>2, <2>5, <3>1, PlansOf DEF AsInvited, Here, OfType
  <2>6. CASE AsKnown(q)
    <3> DEFINE holding == {invitation, memberV, member, userV, deleted, principal}
    <3>1. holding \in SUBSET Things
      BY <1>1, <2>2
    <3>2. Admitting(q, holding) => OfType(q)
      <4> HIDE DEF holding
      <4> QED BY <2>4, <3>1
    <3>3. /\ Proper(<<Look("noMembership"), Do("member", memberV), Do("insertMember", member),
                      Do("user", userV), Do("dropInvited", deleted), Do("dropPrincipal", principal), Look("access")>>)
          /\ Proper(<<Do("member", memberV), Do("insertMember", member),
                      Do("user", userV), Do("dropInvited", deleted), Do("dropPrincipal", principal), Look("access")>>)
          /\ Proper(<<Do("insertMember", member),
                      Do("user", userV), Do("dropInvited", deleted), Do("dropPrincipal", principal), Look("access")>>)
          /\ Proper(<<Do("user", userV), Do("dropInvited", deleted), Do("dropPrincipal", principal), Look("access")>>)
          /\ Proper(<<Do("dropInvited", deleted), Do("dropPrincipal", principal), Look("access")>>)
          /\ Proper(<<Do("dropPrincipal", principal), Look("access")>>)
      <4> HIDE DEF memberV, member, userV, deleted, principal
      <4> QED BY <1>2, <2>3, PlansOf
    <3> QED BY Zenon, <1>1, <2>2, <2>6, <3>2, <3>3 DEF AsKnown, Here, OfType
  <2> QED BY <1>5, <2>5, <2>6
<1> QED BY <1>3, <1>4, <1>5 DEF Accepting

LEMMA RegisterTyped ==
  ASSUME CourseInv, NEW q \in Requests, Registering(q)
  PROVE  OfType(q)
<1> DEFINE c == call[q]
           u == c.user
           subject == <<"subject", c.subject>>
           user == <<"user", u>>
           member == <<"member", u>>
           open == <<"open", u>>
<1>1. subject \in Things
  BY ThingsAre DEF Registering
<1>2. /\ Finish \in Statements /\ Look("token") \in Statements /\ Look("findIdentity") \in Statements
      /\ Look("asItWas") \in Statements /\ Look("findRequest") \in Statements
      /\ Do("insertIdentity", subject) \in Statements
  BY <1>1, PlansAre DEF Labels
<1>3. CASE \/ Here(q, <<Look("token"), Look("findIdentity")>>, {})
           \/ Here(q, <<Look("findIdentity")>>, {})
  BY <1>2, <1>3, PlansOf DEF Here, OfType
<1>4. CASE ~(\/ Here(q, <<Look("token"), Look("findIdentity")>>, {})
             \/ Here(q, <<Look("findIdentity")>>, {}))
  <2>1. u \in Ids
    <3>1. q \in Ids /\ u \in Ids \cup {None}
      BY DEF CourseInv, Typed, Framed, Ids
    <3>2. u = q \/ u # None
      BY <1>4 DEF Registering, ForUser
    <3> QED BY <3>1, <3>2
  <2>2. user \in Things /\ member \in Things /\ open \in Things
    BY <2>1, ThingsAre
  <2>3. /\ Do("user", user) \in Statements /\ Do("findMember", member) \in Statements
        /\ Do("insertMember", member) \in Statements /\ Do("insertRequest", open) \in Statements
    BY <2>2, PlansAre DEF Labels
  <2>4. ASSUME NEW plan, Proper(plan), NEW held \in SUBSET Things, ForUser(q, plan, held)
        PROVE  OfType(q)
    BY <1>1, <2>2, <2>4 DEF ForUser, Here, OfType
  <2>5. /\ Proper(<<Do("findMember", member)>>) /\ Proper(<<Look("asItWas")>>)
        /\ Proper(<<Look("findRequest")>>) /\ Proper(<<Look("findRequest"), Do("insertMember", member)>>)
        /\ Proper(<<Do("insertMember", member), Do("insertRequest", open), Finish>>)
        /\ Proper(<<Do("insertRequest", open), Finish>>) /\ Proper(<<Finish>>)
        /\ Proper(<<Do("insertIdentity", subject), Do("findMember", member)>>)
        /\ Proper(<<Do("user", user), Do("findMember", member)>>)
    <3> HIDE DEF user, member, open, subject
    <3> QED BY <1>2, <2>3, PlansOf
  <2>6. {} \in SUBSET Things /\ {member} \in SUBSET Things /\ {member, open} \in SUBSET Things
    BY <2>2
  <2>7. \/ Here(q, <<Do("insertIdentity", subject), Do("findMember", member)>>, {})
        \/ Here(q, <<Do("user", user), Do("findMember", member)>>, {})
        \/ ForUser(q, <<Do("findMember", member)>>, {})
        \/ ForUser(q, <<Look("asItWas")>>, {})
        \/ ForUser(q, <<Look("asItWas")>>, {member})
        \/ ForUser(q, <<Look("findRequest")>>, {member})
        \/ ForUser(q, <<Look("findRequest"), Do("insertMember", member)>>, {})
        \/ ForUser(q, <<Do("insertMember", member), Do("insertRequest", open), Finish>>, {})
        \/ ForUser(q, <<Do("insertRequest", open), Finish>>, {member})
        \/ ForUser(q, <<Finish>>, {member, open})
    BY <1>4 DEF Registering
  <2>8. ASSUME NEW plan, Proper(plan), Here(q, plan, {})
        PROVE  OfType(q)
    BY <2>8 DEF Here, OfType
  <2> DEFINE none == {}
             one == {member}
             both == {member, open}
  <2>9. none \in SUBSET Things /\ one \in SUBSET Things /\ both \in SUBSET Things
    BY <2>6
  <2>10. CASE ForUser(q, <<Finish>>, both) \/ ForUser(q, <<Do("insertRequest", open), Finish>>, one)
              \/ ForUser(q, <<Look("findRequest")>>, one) \/ ForUser(q, <<Look("asItWas")>>, one)
    <3> HIDE DEF none, one, both
    <3> QED BY <2>4, <2>5, <2>9, <2>10
  <2>11. CASE \/ ForUser(q, <<Do("findMember", member)>>, none)
              \/ ForUser(q, <<Look("asItWas")>>, none)
              \/ ForUser(q, <<Look("findRequest"), Do("insertMember", member)>>, none)
              \/ ForUser(q, <<Do("insertMember", member), Do("insertRequest", open), Finish>>, none)
    <3> HIDE DEF none, one, both
    <3> QED BY <2>4, <2>5, <2>9, <2>11
  <2> QED BY <2>5, <2>7, <2>8, <2>10, <2>11
<1> QED BY <1>3, <1>4

LEMMA DeviceTyped ==
  ASSUME CourseInv, NEW q \in Requests
  PROVE  /\ Enrolling(q) => OfType(q)
         /\ Activating(q) => OfType(q)
<1>1. Enrolling(q) => OfType(q)
  <2> DEFINE deleted == <<"deleted", call[q].user>>
  <2>1. Enrolling(q) => Do("insertDevice", deleted) \in Statements
    BY ThingsAre, PlansAre DEF Enrolling, Labels
  <2> QED BY <2>1, PlansOf DEF Enrolling, Here, OfType
<1>2. ASSUME Activating(q)
      PROVE  OfType(q)
  <2> DEFINE x == call[q].row
             member == <<"member", call[q].user>>
             device == <<"device", x>>
             enrolment == <<"enrolment", x>>
  <2>1. x \in Ids /\ call[q].user \in Ids
    <3>1. q \in Ids /\ x \in Ids /\ db.device[x] # NoRow /\ call[q].user = db.device[x].user
      BY <1>2 DEF Activating, Ids
    <3>2. db.device[x] \in Devices \cup {NoRow}
      BY <3>1 DEF CourseInv, Typed, Database
    <3> QED BY <3>1, <3>2 DEF Devices
  <2>2. member \in Things /\ device \in Things /\ enrolment \in Things
    BY <2>1, ThingsAre
  <2>3. /\ Do("membershipInForce", member) \in Statements /\ Do("pendingDevice", device) \in Statements
        /\ Look("count") \in Statements /\ Do("enrolment", enrolment) \in Statements
        /\ Finish \in Statements
    BY <2>2, PlansAre DEF Labels
  <2>4. /\ Proper(<<Do("membershipInForce", member), Do("pendingDevice", device), Look("count"),
                    Do("enrolment", enrolment), Finish>>)
        /\ Proper(<<Do("pendingDevice", device), Look("count"), Do("enrolment", enrolment), Finish>>)
        /\ Proper(<<Look("count"), Do("enrolment", enrolment), Finish>>)
        /\ Proper(<<Do("enrolment", enrolment), Finish>>) /\ Proper(<<Finish>>)
    <3> HIDE DEF member, device, enrolment
    <3> QED BY <2>3, PlansOf
  <2> QED BY <1>2, <2>2, <2>4 DEF Activating, ApprovalPlan, Here, OfType
<1> QED BY <1>1, <1>2

LEMMA AppointingTyped ==
  ASSUME CourseInv, NEW q \in Requests, Appointing(q), call[q].verb \in {"claim", "provision"}
  PROVE  OfType(q)
<1> DEFINE c == call[q]
           advisory == <<"advisory", c.verb>>
           subject == <<"subject", c.subject>>
           admin == <<"admin", c.user>>
<1>1. advisory \in Things /\ subject \in Things
  BY ThingsAre DEF Appointing, Paths
<1>2. /\ Look("noAdmin") \in Statements /\ Look("findClaimant") \in Statements
      /\ Look("findProvisioned") \in Statements /\ Finish \in Statements
      /\ Do("advisoryLock", advisory) \in Statements /\ Do("insertIdentity", subject) \in Statements
  BY <1>1, PlansAre DEF Labels
<1>3. /\ Proper(<<Do("advisoryLock", advisory), Look("noAdmin"), Look("findClaimant")>>)
      /\ Proper(<<Do("advisoryLock", advisory), Look("findProvisioned"), Look("noAdmin")>>)
      /\ Proper(<<Look("noAdmin"), Look("findClaimant")>>) /\ Proper(<<Look("findClaimant")>>)
      /\ Proper(<<Look("findProvisioned"), Look("noAdmin")>>) /\ Proper(<<Look("noAdmin")>>)
      /\ Proper(<<Finish>>)
  <2> HIDE DEF advisory, subject
  <2> QED BY <1>2, PlansOf
<1>4. c.user \in Ids =>
        /\ admin \in Things
        /\ Proper(<<Do("insertIdentity", subject), Do("insertAdmin", admin), Finish>>)
        /\ Proper(<<Do("insertAdmin", admin), Finish>>)
  <2>1. c.user \in Ids => admin \in Things /\ Do("insertAdmin", admin) \in Statements
    BY ThingsAre, PlansAre DEF Labels
  <2> HIDE DEF admin, subject
  <2> QED BY <1>2, <2>1, PlansOf
<1>5. q \in Ids /\ c.user \in Ids \cup {None}
  BY DEF CourseInv, Typed, Framed, Ids
<1>6. CASE c.user \in Ids
  BY <1>1, <1>3, <1>4, <1>6 DEF Appointing, ClaimPlan, ProvisionPlan, Here, OfType
<1>7. CASE c.user = None
  <2>1. c.user # q
    BY <1>5, <1>7, NamesAssumption
  <2>2. \/ c.verb = "claim" /\ Here(q, ClaimPlan, {})
        \/ c.verb = "claim" /\ Here(q, <<Look("noAdmin"), Look("findClaimant")>>, {advisory})
        \/ c.verb = "claim" /\ Here(q, <<Look("findClaimant")>>, {advisory})
        \/ c.verb = "provision" /\ Here(q, ProvisionPlan, {})
        \/ c.verb = "provision" /\ Here(q, <<Look("findProvisioned"), Look("noAdmin")>>, {advisory})
        \/ c.verb = "provision" /\ Here(q, <<Look("noAdmin")>>, {advisory})
    BY <1>7, <2>1 DEF Appointing
  <2> QED BY <1>1, <1>3, <2>2 DEF ClaimPlan, ProvisionPlan, Here, OfType
<1> QED BY <1>5, <1>6, <1>7

LEMMA SetupTyped ==
  ASSUME CourseInv, NEW q \in Requests
  PROVE  /\ Bootstrapping(q) => OfType(q)
         /\ Keying(q) => OfType(q)
         /\ Unkeying(q) => OfType(q)
         /\ Founding(q) => OfType(q)
         /\ Opening(q) => OfType(q)
         /\ Rotating(q) => OfType(q)
         /\ Disabling(q) => OfType(q)
<1> DEFINE login == <<"login">>
           key == <<"key">>
           tenant == <<"tenant">>
           setting == <<"setting">>
<1>1. login \in Things /\ key \in Things /\ tenant \in Things /\ setting \in Things
  BY ThingsAre
<1>2. /\ Finish \in Statements /\ Look("noAdmin") \in Statements
      /\ Do("insertLogin", login) \in Statements /\ Do("findKey", key) \in Statements
      /\ Do("upsert", key) \in Statements /\ Do("insertTenant", tenant) \in Statements
      /\ Look("tenantBefore") \in Statements /\ Do("switchTenant", tenant) \in Statements
      /\ Look("tenantOfToken") \in Statements /\ Do("upsert", setting) \in Statements
      /\ Do("findSetting", setting) \in Statements
  BY <1>1, PlansAre DEF Labels
<1>3. /\ Proper(<<Finish>>)
      /\ Proper(<<Look("noAdmin"), Do("insertLogin", login), Finish>>)
      /\ Proper(<<Do("insertLogin", login), Finish>>)
      /\ Proper(<<Do("findKey", key), Do("upsert", key), Finish>>)
      /\ Proper(<<Do("upsert", key), Finish>>) /\ Proper(<<Do("findKey", key), Finish>>)
      /\ Proper(<<Do("insertTenant", tenant), Finish>>)
      /\ Proper(<<Look("tenantBefore"), Do("switchTenant", tenant), Finish>>)
      /\ Proper(<<Do("switchTenant", tenant), Finish>>)
      /\ Proper(<<Look("tenantOfToken"), Do("upsert", setting), Finish>>)
      /\ Proper(<<Do("upsert", setting), Finish>>)
      /\ Proper(<<Look("tenantOfToken"), Do("findSetting", setting), Finish>>)
      /\ Proper(<<Do("findSetting", setting), Finish>>)
  <2> HIDE DEF login, key, tenant, setting
  <2> QED BY <1>2, PlansOf
<1>4. Bootstrapping(q) => OfType(q)
  BY <1>1, <1>3 DEF Bootstrapping, Here, OfType
<1>5. /\ Keying(q) => OfType(q)
      /\ Unkeying(q) => OfType(q)
  BY <1>1, <1>3 DEF Keying, Unkeying, Here, OfType
<1>6. /\ Founding(q) => OfType(q)
      /\ Opening(q) => OfType(q)
  BY <1>1, <1>3 DEF Founding, Opening, Here, OfType
<1>7. /\ Rotating(q) => OfType(q)
      /\ Disabling(q) => OfType(q)
  BY <1>1, <1>3 DEF Rotating, Disabling, Here, OfType
<1> QED BY <1>4, <1>5, <1>6, <1>7

LEMMA AdministrationTyped ==
  ASSUME CourseInv, NEW q \in Requests
  PROVE  /\ Configuring(q) => OfType(q)
         /\ Linking(q) => OfType(q)
<1> DEFINE u == call[q].user
           principal == <<"principal", u>>
           user == <<"user", u>>
           subject == <<"subject", call[q].subject>>
           deleted == <<"deleted", u>>
<1>1. ASSUME Configuring(q)
      PROVE  OfType(q)
  <2>1. principal \in Things /\ user \in Things
    BY <1>1, ThingsAre DEF Configuring
  <2>2. /\ Do("principal", principal) \in Statements /\ Do("user", user) \in Statements
        /\ Finish \in Statements
    BY <2>1, PlansAre DEF Labels
  <2>3. /\ Proper(<<Do("principal", principal), Do("user", user), Finish>>)
        /\ Proper(<<Do("user", user), Finish>>) /\ Proper(<<Finish>>)
    <3> HIDE DEF principal, user
    <3> QED BY <2>2, PlansOf
  <2> QED BY <1>1, <2>1, <2>3 DEF Configuring, Here, OfType
<1>2. ASSUME Linking(q)
      PROVE  OfType(q)
  <2>1. subject \in Things /\ deleted \in Things
    BY <1>2, ThingsAre DEF Linking
  <2>2. /\ Do("upsertIdentity", subject) \in Statements /\ Do("linkedUser", deleted) \in Statements
        /\ Finish \in Statements /\ Look("linked") \in Statements
    BY <2>1, PlansAre DEF Labels
  <2>3. /\ Proper(<<Look("linked"), Do("upsertIdentity", subject), Do("linkedUser", deleted), Finish>>)
        /\ Proper(<<Do("upsertIdentity", subject), Do("linkedUser", deleted), Finish>>)
        /\ Proper(<<Do("linkedUser", deleted), Finish>>) /\ Proper(<<Finish>>)
    <3> HIDE DEF subject, deleted
    <3> QED BY <2>2, PlansOf
  <2> QED BY <1>2, <2>1, <2>3 DEF Linking, Here, OfType
<1> QED BY <1>1, <1>2

LEMMA CourseTyped ==
  ASSUME CourseInv, NEW q \in Requests, pc[q] = "run"
  PROVE  OfType(q)
<1>1. OnCourse(q)
  BY DEF CourseInv, CallInv
<1>2. CASE call[q].verb \in {"invite", "cancel", "accept", "register", "approve", "reject"}
  BY <1>1, <1>2, OnboardingTyped, AcceptTyped, RegisterTyped DEF OnCourse
<1>3. CASE call[q].verb \notin {"invite", "cancel", "accept", "register", "approve", "reject"}
  BY <1>1, <1>3, DeviceTyped, AppointingTyped, SetupTyped, AdministrationTyped DEF OnCourse, AllVerbs
<1> QED BY <1>2, <1>3

(* A call ends by a rollback or by a commit, and is over then; that it     *)
(* answers that it did is the answer of a commit.                          *)
Ended(q) ==
  \/ UNCHANGED pc
  \/ /\ \E outcome \in Outcomes \ {"ok"} : pc' = [pc EXCEPT ![q] = outcome]
     /\ call' = [call EXCEPT ![q] = Blank]
  \/ /\ \E outcome \in Outcomes : pc' = [pc EXCEPT ![q] = outcome]
     /\ call' = [call EXCEPT ![q] = [Blank EXCEPT !.verb = call[q].verb, !.row = call[q].row]]
     /\ At(q, "commit") \/ At(q, "insertDevice") \/ pc'[q] # "ok"

LEMMA Endings ==
  ASSUME NEW q \in Requests, DOMAIN pc = Requests
  PROVE  /\ \A c : See(q, c) \/ Go(q, c) => Ended(q)
         /\ \A outcome \in {"unchanged", "denied", "conflict", "failed"} : Leave(q, outcome) => Ended(q)
         /\ \A d : \A outcome \in {"unchanged", "denied"} : Publish(q, d, outcome) => Ended(q)
         /\ \A d : Publish(q, d, "ok") /\ (At(q, "commit") \/ At(q, "insertDevice")) => Ended(q)
BY DEF See, Go, Leave, Publish, Ended, Outcomes

LEMMA RunEnds ==
  ASSUME NEW q \in Requests, DOMAIN pc = Requests, Run(q)
  PROVE  Ended(q)
<1>1. WriteUser(q) \/ InsertIdentity(q) => Ended(q)
  BY Endings, Zenon DEF WriteUser, InsertIdentity, Take, Insert
<1>2. RunOnboarding(q) => Ended(q)
  <2>1. TenantExists(q) \/ LockInvitation(q) \/ FindInvitedIdentity(q) \/ NoMembership(q)
        \/ ValidateAccess(q) \/ CheckToken(q) => Ended(q)
    BY Endings, Zenon DEF TenantExists, LockInvitation, FindInvitedIdentity, NoMembership, ValidateAccess, CheckToken
  <2>2. TouchMember(q) \/ InsertMember(q) \/ DropInvited(q) \/ DropPrincipal(q) \/ InsertRequest(q) => Ended(q)
    BY Endings, Zenon DEF TouchMember, InsertMember, DropInvited, DropPrincipal, InsertRequest, Take, Insert
  <2>3. FindOwnIdentity(q) \/ FindRequest(q) \/ LockRequest(q) \/ LockMemberOfRequest(q) => Ended(q)
    BY Endings, Zenon DEF FindOwnIdentity, FindRequest, LockRequest, LockMemberOfRequest
  <2>4. FindMember(q) => Ended(q)
    BY Endings DEF FindMember
  <2>5. CommitInvite(q) \/ CommitCancel(q) \/ CommitAccept(q) \/ CommitRegister(q)
        \/ CommitApprove(q) \/ CommitReject(q) => Ended(q)
    BY Endings, Zenon DEF CommitInvite, CommitCancel, CommitAccept, CommitRegister, CommitApprove,
         CommitReject, Committing
  <2>6. ExpireInvitation(q) \/ CommitAsItWas(q) => Ended(q)
    BY Endings, Zenon DEF ExpireInvitation, CommitAsItWas
  <2> QED BY <2>1, <2>2, <2>3, <2>4, <2>5, <2>6, Zenon DEF RunOnboarding
<1>3. RunDevice(q) => Ended(q)
  BY Endings, Zenon DEF RunDevice, InsertDevice, LockMembership, LockPendingDevice, CountDevices,
       LockEnrolment, CommitActivate, Committing
<1>4. RunSetup(q) => Ended(q)
  <2>1. NoAdmin(q) \/ FindProvisioned(q) => Ended(q)
    BY Endings DEF NoAdmin, FindProvisioned
  <2>2. AdvisoryLock(q) \/ InsertLogin(q) \/ InsertAdmin(q) \/ FindClaimant(q) \/ FindKey(q)
        \/ Upsert(q) \/ InsertTenant(q) \/ TenantBefore(q) \/ SwitchTenant(q) \/ TenantOfToken(q)
        \/ FindSetting(q) => Ended(q)
    BY Endings, Zenon DEF AdvisoryLock, InsertLogin, InsertAdmin, FindClaimant, FindKey, Upsert,
         InsertTenant, TenantBefore, SwitchTenant, TenantOfToken, FindSetting, Take, Insert
  <2>3. CommitBootstrap(q) \/ CommitAdmin(q) \/ CommitSetKey(q) \/ CommitDisableKey(q)
        \/ CommitCreateTenant(q) \/ CommitActivateTenant(q) \/ CommitRotateToken(q)
        \/ CommitDisableToken(q) => Ended(q)
    BY Endings, Zenon DEF CommitBootstrap, CommitAdmin, CommitSetKey, CommitDisableKey,
         CommitCreateTenant, CommitActivateTenant, CommitRotateToken, CommitDisableToken, Committing
  <2> QED BY <2>1, <2>2, <2>3, Zenon DEF RunSetup
<1>5. RunAdministration(q) => Ended(q)
  BY Endings, Zenon DEF RunAdministration, FindPrincipal, CommitConfigure, ReadLinked, UpsertIdentity,
       CheckLinkedUser, CommitLink, Committing, Take
<1> QED BY <1>1, <1>2, <1>3, <1>4, <1>5, Zenon DEF Run

LEMMA ArrivalRuns ==
  ASSUME NEW q \in Requests, DOMAIN pc = Requests, Arrive(q)
  PROVE  pc'[q] = "run"
<1>1. \A c : Begin(q, c) => pc'[q] = "run"
  BY DEF Begin
<1>2. BeginOnboarding(q) => pc'[q] = "run"
  BY <1>1, Zenon DEF BeginOnboarding, Invite, Cancel, Accept, Register, Approve, Reject
<1>3. BeginDevice(q) \/ BeginAdministration(q) => pc'[q] = "run"
  BY <1>1, Zenon DEF BeginDevice, BeginAdministration, Enroll, Activate, Configure, Link
<1>4. BeginSetup(q) => pc'[q] = "run"
  BY <1>1, Zenon DEF BeginSetup, Bootstrap, Claim, Provision, SetKey, DisableKey, CreateTenant,
       ActivateTenant, RotateToken, DisableToken
<1> QED BY <1>2, <1>3, <1>4 DEF Arrive

(* A call that does not run has nothing left to do. *)
IdlePlans == \A q \in Requests : pc[q] # "run" => call[q].plan = <<>>

LEMMA PlansEnd ==
  ASSUME CourseInv, IdlePlans, [Next]_vars
  PROVE  IdlePlans'
<1>1. DOMAIN pc = Requests /\ DOMAIN call = Requests
  BY DEF CourseInv, Typed
<1>2. ASSUME NEW q \in Requests, Arrive(q)
      PROVE  IdlePlans'
  <2>1. pc'[q] = "run"
    BY <1>1, <1>2, ArrivalRuns
  <2>2. \A r \in Requests \ {q} : call'[r] = call[r] /\ pc'[r] = pc[r]
    BY <1>2, ArriveQuiet, OthersSame DEF Quiet
  <2> QED BY <2>1, <2>2 DEF IdlePlans
<1>3. ASSUME NEW q \in Requests, Run(q) \/ Abort(q)
      PROVE  IdlePlans'
  <2>1. pc[q] = "run" /\ Ended(q) /\ Alone(q)
    <3>1. CASE Run(q)
      BY <1>1, <3>1, RunsOnly, RunEnds, RunSound DEF Sound
    <3>2. CASE Abort(q)
      <4>1. pc[q] = "run" /\ Leave(q, "failed")
        BY <3>2 DEF Abort
      <4>2. Ended(q)
        BY <1>1, <4>1, Endings, Zenon
      <4> QED BY <3>2, <4>1, <4>2, AbortSound DEF Sound
    <3> QED BY <1>3, <3>1, <3>2
  <2>2. pc'[q] = "run" \/ call'[q].plan = <<>>
    <3>1. CASE UNCHANGED pc
      BY <2>1, <3>1
    <3>2. CASE call' = [call EXCEPT ![q] = Blank]
      BY <1>1, <3>2 DEF Blank
    <3>3. CASE call' = [call EXCEPT ![q] = [Blank EXCEPT !.verb = call[q].verb, !.row = call[q].row]]
      BY <1>1, <3>3 DEF Blank
    <3> QED BY <2>1, <3>1, <3>2, <3>3 DEF Ended
  <2>3. \A r \in Requests \ {q} : call'[r] = call[r] /\ pc'[r] = pc[r]
    BY <2>1, OthersSame
  <2> QED BY <2>2, <2>3 DEF IdlePlans
<1>4. CASE TimePasses \/ UNCHANGED vars
  BY <1>4 DEF TimePasses, vars, IdlePlans
<1> QED BY <1>2, <1>3, <1>4 DEF Next

(* Types: among them that every call has statements of the program left    *)
(* until it is answered, and holds rows and keys of the tables only.       *)
THEOREM TypeCorrect == Spec => []TypeOK
<1>1. Init => IdlePlans
  BY DEF Init, IdlePlans, Blank
<1>2. CourseInv /\ IdlePlans /\ [Next]_vars => IdlePlans'
  BY PlansEnd
<1>3. CourseInv /\ IdlePlans => TypeOK
  <2> SUFFICES ASSUME CourseInv, IdlePlans
               PROVE  TypeOK
    OBVIOUS
  <2>1. ASSUME NEW q \in Requests
        PROVE  /\ locks[q] \in SUBSET Things
               /\ call[q] \in Calls
               /\ pc[q] = "run" => call[q].plan # <<>>
               /\ locks[q] # {} => pc[q] = "run"
    <3>1. pc[q] = "run" => OfType(q)
      BY CourseTyped
    <3>2. pc[q] # "run" => locks[q] = {}
      BY DEF CourseInv, CallInv
    <3>3. call[q].plan \in Seq(Statements)
      <4>1. <<>> \in Seq(Statements)
        OBVIOUS
      <4>2. CASE pc[q] = "run"
        BY <3>1, <4>2 DEF OfType, Proper
      <4> QED BY <4>1, <4>2 DEF IdlePlans
    <3> QED BY <3>1, <3>2, <3>3 DEF OfType, Proper, CourseInv, Typed, Framed, Calls
  <2>2. locks \in [Requests -> SUBSET Things] /\ call \in [Requests -> Calls]
    BY <2>1 DEF CourseInv, Typed
  <2> QED BY <2>1, <2>2 DEF TypeOK, CourseInv, Typed
<1> QED BY <1>1, <1>2, <1>3, CoursesHold, PTL DEF Spec

LEMMA OthersKeepTheKey ==
  ASSUME CourseInv, NEW q \in Requests, pc[q] = "run", Run(q),
         call[q].verb \notin {"setKey", "disableKey"}
  PROVE  db'.key = db.key
<1>1. OnCourse(q)
  BY DEF CourseInv, CallInv
<1>2. DOMAIN db = {"user", "identity", "admin", "login", "key", "tenant", "setting", "member", "grants",
                   "asks", "invitation", "due", "request", "device"}
  BY DEF CourseInv, Typed, Database
<1>3. CASE call[q].verb = "bootstrap"
  <2>1. CommitBootstrap(q) => db'.key = db.key
    BY <1>2 DEF CommitBootstrap, Publish
  <2> QED BY <1>3, <2>1, BootstrapRuns DEF Quiet
<1>4. CASE call[q].verb = "claim"
  <2>1. CommitAdmin(q) => db'.key = db.key
    BY <1>2 DEF CommitAdmin, Publish, WithUser
  <2> QED BY <1>4, <2>1, ClaimRuns DEF Quiet
<1>5. CASE call[q].verb = "provision"
  <2>1. CommitAdmin(q) => db'.key = db.key
    BY <1>2 DEF CommitAdmin, Publish, WithUser
  <2> QED BY <1>5, <2>1, ProvisionRuns DEF Quiet
<1>6. CASE call[q].verb = "createTenant"
  <2>1. CommitCreateTenant(q) => db'.key = db.key
    BY <1>2 DEF CommitCreateTenant, Publish
  <2> QED BY <1>6, <2>1, CreateTenantRuns DEF Quiet
<1>7. CASE call[q].verb = "activateTenant"
  <2>1. CommitActivateTenant(q) => db'.key = db.key
    BY <1>2 DEF CommitActivateTenant, Publish
  <2> QED BY <1>7, <2>1, ActivateTenantRuns DEF Quiet
<1>8. CASE call[q].verb = "rotateToken"
  <2>1. CommitRotateToken(q) => db'.key = db.key
    BY <1>2 DEF CommitRotateToken, Publish
  <2> QED BY <1>8, <2>1, RotateTokenRuns DEF Quiet
<1>9. CASE call[q].verb = "disableToken"
  <2>1. CommitDisableToken(q) => db'.key = db.key
    BY <1>2 DEF CommitDisableToken, Publish
  <2> QED BY <1>9, <2>1, DisableTokenRuns DEF Quiet
<1>10. CASE call[q].verb = "configure"
  <2>1. CommitConfigure(q) => db'.key = db.key
    BY <1>2 DEF CommitConfigure, Publish
  <2> QED BY <1>10, <2>1, ConfigureRuns DEF Quiet
<1>11. CASE call[q].verb = "link"
  <2>1. CommitLink(q) => db'.key = db.key
    BY <1>2 DEF CommitLink, Publish
  <2> QED BY <1>11, <2>1, LinkRuns DEF Quiet
<1>12. CASE call[q].verb = "enroll"
  BY Zenon, <1>2, <1>12, EnrollRuns DEF InsertDevice, Publish, Leave
<1>13. CASE call[q].verb = "activate"
  <2>1. CommitActivate(q) => db'.key = db.key
    BY <1>2 DEF CommitActivate, Publish
  <2> QED BY <1>13, <2>1, ActivateRuns DEF Quiet
<1>14. CASE call[q].verb = "invite"
  <2>1. CommitInvite(q) => db'.key = db.key
    BY <1>2 DEF CommitInvite, Publish
  <2> QED BY <1>14, <2>1, InviteRuns DEF Quiet
<1>15. CASE call[q].verb = "cancel"
  <2>1. CommitCancel(q) => db'.key = db.key
    BY <1>2 DEF CommitCancel, Publish
  <2> QED BY <1>15, <2>1, CancelRuns DEF Quiet
<1>16. CASE call[q].verb = "approve"
  <2>1. CommitApprove(q) => db'.key = db.key
    BY <1>2 DEF CommitApprove, Publish, Admit
  <2> QED BY <1>16, <2>1, ApproveRuns DEF Quiet
<1>17. CASE call[q].verb = "reject"
  <2>1. CommitReject(q) => db'.key = db.key
    BY <1>2 DEF CommitReject, Publish
  <2> QED BY <1>17, <2>1, RejectRuns DEF Quiet
<1>18. CASE call[q].verb = "register"
  <2>1. WithCaller(db, q).key = db.key /\ "key" \in DOMAIN WithCaller(db, q)
    BY <1>2 DEF WithCaller, WithUser
  <2> DEFINE e == WithCaller(db, q)
  <2> HIDE DEF e
  <2>2. e.key = db.key /\ "key" \in DOMAIN e
    BY <2>1 DEF e
  <2>3. CommitRegister(q) => db'.key = db.key
    BY <2>2 DEF CommitRegister, Publish, e
  <2>4. CommitAsItWas(q) => db'.key = db.key
    BY <2>2 DEF CommitAsItWas, Publish, e
  <2> QED BY <1>18, <2>3, <2>4, RegisterRuns DEF Quiet
<1>19. CASE call[q].verb = "accept"
  <2>1. ExpireInvitation(q) => db'.key = db.key
    BY <1>2 DEF ExpireInvitation, Publish
  <2>2. ASSUME NEW e, NEW c, "key" \in DOMAIN e
        PROVE  Accepted(e, c).key = e.key
    BY <2>2 DEF Accepted, Admit
  <2>3. ASSUME NEW c, NEW s, NEW u
        PROVE  /\ [db EXCEPT !.identity[s] = u].key = db.key /\ "key" \in DOMAIN [db EXCEPT !.identity[s] = u]
               /\ Replaced(db, c, u).key = db.key /\ "key" \in DOMAIN Replaced(db, c, u)
    BY <1>2 DEF Replaced
  <2>4. CommitAccept(q) => db'.key = db.key
    BY <2>2, <2>3 DEF CommitAccept, Publish
  <2> QED BY <1>19, <2>1, <2>4, AcceptRuns DEF Quiet
<1> QED BY <1>1, <1>3, <1>4, <1>5, <1>6, <1>7, <1>8, <1>9, <1>10, <1>11, <1>12, <1>13,
       <1>14, <1>15, <1>16, <1>17, <1>18, <1>19 DEF OnCourse, AllVerbs

(* A new key counts on from the one that is there. *)
LEMMA KeysCount ==
  ASSUME CourseInv, NEW q \in Requests, Run(q), db.key # NoRow, db'.key # db.key, db'.key.by # db.key.by
  PROVE  db'.key.version > db.key.version \/ db'.key.version = 1
<1>1. pc[q] = "run" /\ OnCourse(q)
  BY RunsOnly DEF CourseInv, CallInv
<1>2. DOMAIN db = {"user", "identity", "admin", "login", "key", "tenant", "setting", "member", "grants",
                   "asks", "invitation", "due", "request", "device"}
      /\ db.key \in Keys
  BY DEF CourseInv, Typed, Database
<1>3. CASE call[q].verb = "disableKey"
  <2>1. CommitDisableKey(q)
    BY <1>1, <1>3, DisableKeyRuns DEF Quiet
  <2>2. db' = [db EXCEPT !.key.status = "DISABLED"]
    BY <2>1 DEF CommitDisableKey, Publish
  <2>3. db'.key.by = db.key.by
    BY <1>2, <2>2 DEF Keys
  <2> QED BY <2>3
<1>4. CASE call[q].verb = "setKey"
  <2>1. CommitSetKey(q) /\ Keying(q) /\ Here(q, <<Finish>>, {<<"key">>})
    BY <1>1, <1>4, SetKeyRuns DEF Quiet, OnCourse
  <2>2. call[q].version = 1 \/ call[q].version = db.key.version + 1
    <3>1. Len(<<Finish>>) = 1 /\ \A s, t : Len(<<s, t>>) = 2 /\ \A v : Len(<<s, t, v>>) = 3
      OBVIOUS
    <3> QED BY <2>1, <3>1 DEF Keying, Here
  <2>3. db'.key.version = call[q].version
    BY <1>2, <2>1 DEF CommitSetKey, Publish
  <2> QED BY <1>2, <2>2, <2>3 DEF Keys
<1> QED BY <1>1, <1>3, <1>4, OthersKeepTheKey

(* The version of the onboarding key never falls back to one in between:   *)
(* SELECT ... FOR UPDATE of the key's row serialises who counts it up, and *)
(* only who found no row at all writes the first version anew.             *)
THEOREM KeyVersionGrowsHolds == Spec => KeyVersionGrows
<1>1. ASSUME CourseInv, [Next]_vars, db.key # NoRow, db'.key # db.key, db'.key.by # db.key.by
      PROVE  db'.key.version > db.key.version \/ db'.key.version = 1
  <2>1. ASSUME NEW q \in Requests, Arrive(q) \/ Abort(q)
        PROVE  UNCHANGED db
    <3>1. Arrive(q) => UNCHANGED db
      BY <1>1, ArriveQuiet DEF Quiet
    <3>2. Abort(q) => UNCHANGED db
      BY DEF Abort, Leave
    <3> QED BY <2>1, <3>1, <3>2
  <2>2. CASE TimePasses \/ UNCHANGED vars
    BY <1>1, <2>2, DueAlone DEF RowsSame, vars
  <2> QED BY <1>1, <2>1, <2>2, KeysCount DEF Next
<1>2. CourseInv /\ [Next]_vars =>
        [db.key # NoRow /\ db'.key # db.key /\ db'.key.by # db.key.by =>
           db'.key.version > db.key.version \/ db'.key.version = 1]_vars
  BY <1>1
<1> QED BY <1>2, CoursesHold, PTL DEF Spec, KeyVersionGrows

LEMMA DecidedRows ==
  ASSUME NEW q
  PROVE  /\ call[q].verb \in {"cancel", "accept"} => Decided(q) = <<"invitation", call[q].row>>
         /\ call[q].verb \in {"approve", "reject"} => Decided(q) = <<"request", call[q].row>>
         /\ call[q].verb = "activate" => Decided(q) = <<"device", call[q].row>>
         /\ call[q].verb = "activateTenant" => Decided(q) = <<"tenant">>
<1>1. CASE call[q].verb \in {"cancel", "accept"}
  BY <1>1 DEF Decided
<1>2. CASE call[q].verb \in {"approve", "reject"}
  BY <1>2 DEF Decided
<1>3. CASE call[q].verb = "activate"
  BY <1>3 DEF Decided
<1>4. CASE call[q].verb = "activateTenant"
  BY <1>4 DEF Decided
<1> QED BY <1>1, <1>2, <1>3, <1>4

(* What a call is about to commit a decision on is still to be decided.    *)
LEMMA DecidesPending ==
  ASSUME CourseInv, NEW q \in Requests, At(q, "commit")
  PROVE  /\ call[q].verb \in {"cancel", "accept"} => PendingInvitation(call[q].row)
         /\ call[q].verb \in {"approve", "reject"} => PendingRequest(call[q].row)
         /\ call[q].verb = "activate" => db.device[call[q].row].status = "PENDING"
         /\ call[q].verb = "activateTenant" => db.tenant = "CONFIGURING"
<1>1. pc[q] = "run" /\ OnCourse(q) /\ Statement(q).name = "commit"
  BY DEF At, CourseInv, CallInv
<1>2. ASSUME NEW n, NEW t, NEW h, Here(q, <<Do(n, t)>>, h)
      PROVE  n = "commit"
  BY <1>1, <1>2, HereIsOne, StatementsAre
<1>3. ASSUME NEW n, NEW t, NEW x, NEW h, Here(q, <<Do(n, t), x>>, h)
      PROVE  n = "commit"
  BY <1>1, <1>3, HereIsTwo, StatementsAre
<1>4. ASSUME NEW n, NEW t, NEW x, NEW y, NEW z, NEW h, Here(q, <<Do(n, t), x, y, z>>, h)
      PROVE  n = "commit"
  BY <1>1, <1>4, HereIsFour, StatementsAre
<1>5. ASSUME NEW n, NEW t, NEW x, NEW y, NEW z, NEW w, NEW h, Here(q, <<Do(n, t), x, y, z, w>>, h)
      PROVE  n = "commit"
  BY <1>1, <1>5, HereIsFive, StatementsAre
<1>6. ASSUME NEW n, NEW x, NEW y, NEW h, Here(q, <<Look(n), x, y>>, h)
      PROVE  n = "commit"
  BY <1>1, <1>6, HereIsThree, StatementsAre
<1>7. CASE call[q].verb = "cancel"
  BY <1>1, <1>2, <1>7 DEF OnCourse, Cancelling
<1>8. CASE call[q].verb = "accept"
  BY <1>1, <1>2, <1>8 DEF OnCourse, Accepting
<1>9. CASE call[q].verb = "approve"
  BY <1>1, <1>2, <1>9 DEF OnCourse, Approving
<1>10. CASE call[q].verb = "reject"
  BY <1>1, <1>3, <1>10 DEF OnCourse, Rejecting
<1>11. CASE call[q].verb = "activate"
  BY <1>1, <1>4, <1>5, <1>11 DEF OnCourse, Activating, ApprovalPlan
<1>12. CASE call[q].verb = "activateTenant"
  BY <1>1, <1>3, <1>6, <1>12 DEF OnCourse, Opening
<1> QED BY <1>7, <1>8, <1>9, <1>10, <1>11, <1>12

LEMMA NobodyWonBefore ==
  ASSUME CourseInv, NEW q \in Requests, At(q, "commit"), call[q].verb \in Deciders,
         NEW r \in Requests, pc[r] = "ok", call[r].verb \in Deciders
  PROVE  Decided(q) # Decided(r)
<1>1. Standing(r)
  BY DEF CourseInv, CallInv
<1> SUFFICES ASSUME Decided(q) = Decided(r)
             PROVE  FALSE
  OBVIOUS
<1>2. \A x, y : <<x, y>> # <<"tenant">>
  OBVIOUS
<1>3. \/ {call[q].verb, call[r].verb} \subseteq {"cancel", "accept"}
      \/ {call[q].verb, call[r].verb} \subseteq {"approve", "reject"}
      \/ call[q].verb = "activate" /\ call[r].verb = "activate"
      \/ call[q].verb = "activateTenant" /\ call[r].verb = "activateTenant"
  <2>1. ASSUME NEW x, NEW y
        PROVE  /\ <<"invitation", x>> # <<"request", y>> /\ <<"invitation", x>> # <<"device", y>>
               /\ <<"request", x>> # <<"device", y>>
    OBVIOUS
  <2>2. CASE call[q].verb \in {"cancel", "accept"}
    BY <1>2, <2>1, <2>2, DecidedRows DEF Deciders
  <2>3. CASE call[q].verb \in {"approve", "reject"}
    BY <1>2, <2>1, <2>3, DecidedRows DEF Deciders
  <2>4. CASE call[q].verb \in {"activate", "activateTenant"}
    BY <1>2, <2>1, <2>4, DecidedRows DEF Deciders
  <2> QED BY <2>2, <2>3, <2>4 DEF Deciders
<1>4. call[q].row = call[r].row \/ call[q].verb = "activateTenant"
  BY <1>3, DecidedRows
<1> QED BY <1>1, <1>3, <1>4, DecidesPending DEF Standing, PendingInvitation, PendingRequest

LEMMA WinnersStayAlone ==
  ASSUME CourseInv, OneWinner, [Next]_vars
  PROVE  OneWinner'
<1>1. DOMAIN pc = Requests /\ DOMAIN call = Requests
  BY DEF CourseInv, Typed
<1>2. ASSUME NEW q \in Requests, Alone(q),
             pc'[q] = "ok" => /\ At(q, "commit") \/ call'[q].verb \notin Deciders
                              /\ call'[q].verb = call[q].verb /\ call'[q].row = call[q].row
      PROVE  OneWinner'
  <2>1. \A r \in Requests \ {q} : call'[r] = call[r] /\ pc'[r] = pc[r]
    BY <1>2, OthersSame
  <2>2. \A r \in Requests \ {q} : Decided(r)' = Decided(r)
    BY <2>1 DEF Decided
  <2>3. pc'[q] = "ok" => Decided(q)' = Decided(q)
    BY <1>2 DEF Decided
  <2>4. ASSUME pc'[q] = "ok", call'[q].verb \in Deciders,
               NEW r \in Requests \ {q}, pc'[r] = "ok", call'[r].verb \in Deciders
        PROVE  Decided(q)' # Decided(r)'
    BY <1>2, <2>1, <2>2, <2>3, <2>4, NobodyWonBefore
  <2>5. ASSUME NEW r \in Requests \ {q}, NEW w \in Requests \ {q},
               pc'[r] = "ok", pc'[w] = "ok",
               call'[r].verb \in Deciders, call'[w].verb \in Deciders, Decided(r)' = Decided(w)'
        PROVE  r = w
    BY <2>1, <2>2, <2>5 DEF OneWinner
  <2> QED BY <2>4, <2>5, Zenon DEF OneWinner
<1>3. ASSUME NEW q \in Requests, Arrive(q)
      PROVE  OneWinner'
  <2>1. Alone(q)
    BY <1>3, ArriveQuiet DEF Quiet
  <2>2. pc'[q] = "run"
    BY <1>1, <1>3, ArrivalRuns
  <2> QED BY <1>2, <2>1, <2>2
<1>4. ASSUME NEW q \in Requests, Run(q)
      PROVE  OneWinner'
  <2>1. pc[q] = "run" /\ Ended(q) /\ Alone(q)
    BY <1>1, <1>4, RunsOnly, RunEnds, RunSound DEF Sound
  <2>2. At(q, "insertDevice") => call[q].verb = "enroll"
    BY <1>4, ByName DEF At, InsertDevice
  <2> SUFFICES ASSUME pc'[q] = "ok"
               PROVE  /\ At(q, "commit") \/ call'[q].verb \notin Deciders
                      /\ call'[q].verb = call[q].verb /\ call'[q].row = call[q].row
    BY <1>2, <2>1
  <2>3. /\ call' = [call EXCEPT ![q] = [Blank EXCEPT !.verb = call[q].verb, !.row = call[q].row]]
        /\ At(q, "commit") \/ At(q, "insertDevice")
    BY <1>1, <2>1 DEF Ended, Outcomes
  <2>4. call'[q].verb = call[q].verb /\ call'[q].row = call[q].row
    BY <1>1, <2>3 DEF Blank
  <2> QED BY <2>2, <2>3, <2>4 DEF Deciders
<1>5. ASSUME NEW q \in Requests, Abort(q)
      PROVE  OneWinner'
  <2>1. Alone(q) /\ pc'[q] = "failed"
    BY <1>5, <1>1, AbortSound DEF Sound, Abort, Leave
  <2> QED BY <1>2, <2>1
<1>6. CASE TimePasses \/ UNCHANGED vars
  BY <1>6 DEF TimePasses, vars, OneWinner, Decided
<1> QED BY <1>3, <1>4, <1>5, <1>6 DEF Next

(* However many calls race to decide an invitation, a request, a device or *)
(* the tenant, one answers that it did: the row is locked, or read again   *)
(* as it is updated, before any of them goes on.                           *)
THEOREM OneWinnerHolds == Spec => []OneWinner
<1>1. Init => OneWinner
  BY DEF Init, OneWinner
<1>2. CourseInv /\ OneWinner /\ [Next]_vars => OneWinner'
  BY WinnersStayAlone
<1> QED BY <1>1, <1>2, CoursesHold, PTL DEF Spec

LEMMA FirstIs ==
  ASSUME NEW q, NEW h
  PROVE  /\ \A a : Here(q, <<a>>, h) => Statement(q) = a /\ locks[q] = h
         /\ \A a, b : Here(q, <<a, b>>, h) => Statement(q) = a /\ locks[q] = h
         /\ \A a, b, c : Here(q, <<a, b, c>>, h) => Statement(q) = a /\ locks[q] = h
         /\ \A a, b, c, d : Here(q, <<a, b, c, d>>, h) => Statement(q) = a /\ locks[q] = h
         /\ \A a, b, c, d, e : Here(q, <<a, b, c, d, e>>, h) => Statement(q) = a /\ locks[q] = h
         /\ \A a, b, c, d, e, f : Here(q, <<a, b, c, d, e, f>>, h) => Statement(q) = a /\ locks[q] = h
         /\ \A a, b, c, d, e, f, g : Here(q, <<a, b, c, d, e, f, g>>, h) => Statement(q) = a /\ locks[q] = h
<1>1. ASSUME NEW a, Here(q, <<a>>, h)
      PROVE  Statement(q) = a /\ locks[q] = h
  BY <1>1, HereIsOne
<1>2. ASSUME NEW a, NEW b, Here(q, <<a, b>>, h)
      PROVE  Statement(q) = a /\ locks[q] = h
  BY <1>2, HereIsTwo
<1>3. ASSUME NEW a, NEW b, NEW c, Here(q, <<a, b, c>>, h)
      PROVE  Statement(q) = a /\ locks[q] = h
  BY <1>3, HereIsThree
<1>4. ASSUME NEW a, NEW b, NEW c, NEW d, Here(q, <<a, b, c, d>>, h)
      PROVE  Statement(q) = a /\ locks[q] = h
  BY <1>4, HereIsFour
<1>5. ASSUME NEW a, NEW b, NEW c, NEW d, NEW e, Here(q, <<a, b, c, d, e>>, h)
      PROVE  Statement(q) = a /\ locks[q] = h
  BY <1>5, HereIsFive
<1>6. ASSUME NEW a, NEW b, NEW c, NEW d, NEW e, NEW f, Here(q, <<a, b, c, d, e, f>>, h)
      PROVE  Statement(q) = a /\ locks[q] = h
  BY <1>6, HereIsSix
<1>7. ASSUME NEW a, NEW b, NEW c, NEW d, NEW e, NEW f, NEW g, Here(q, <<a, b, c, d, e, f, g>>, h)
      PROVE  Statement(q) = a /\ locks[q] = h
  BY <1>7, HereIsSeven
<1> QED BY <1>1, <1>2, <1>3, <1>4, <1>5, <1>6, <1>7

(* The call has the statement called n before it, and may have to wait for *)
(* t meanwhile, or reads or commits, and waits for nothing.                *)
Stands(q, n, t, h) == Statement(q).name = n /\ Wanted(q) \subseteq {t} /\ locks[q] = h
Rests(q, n, h) == Statement(q).name = n /\ Wanted(q) = {} /\ locks[q] = h

LEMMA StandsThere ==
  ASSUME NEW q, NEW h
  PROVE  /\ \A n, t : Here(q, <<Do(n, t)>>, h) => Stands(q, n, t, h)
         /\ \A n, t, b : Here(q, <<Do(n, t), b>>, h) => Stands(q, n, t, h)
         /\ \A n, t, b, c : Here(q, <<Do(n, t), b, c>>, h) => Stands(q, n, t, h)
         /\ \A n, t, b, c, d : Here(q, <<Do(n, t), b, c, d>>, h) => Stands(q, n, t, h)
         /\ \A n, t, b, c, d, e : Here(q, <<Do(n, t), b, c, d, e>>, h) => Stands(q, n, t, h)
         /\ \A n, t, b, c, d, e, f : Here(q, <<Do(n, t), b, c, d, e, f>>, h) => Stands(q, n, t, h)
         /\ \A n : Here(q, <<Look(n)>>, h) => Rests(q, n, h)
         /\ \A n, b : Here(q, <<Look(n), b>>, h) => Rests(q, n, h)
         /\ \A n, b, c : Here(q, <<Look(n), b, c>>, h) => Rests(q, n, h)
         /\ \A n, b, c, d : Here(q, <<Look(n), b, c, d>>, h) => Rests(q, n, h)
         /\ \A n, b, c, d, e, f, g : Here(q, <<Look(n), b, c, d, e, f, g>>, h) => Rests(q, n, h)
         /\ Here(q, <<Finish>>, h) => Rests(q, "commit", h)
<1>1. \A n, t : Statement(q) = Do(n, t) => Wanted(q) \subseteq {t} /\ Statement(q).name = n
  BY DEF Wanted, Do
<1>2. \A n : Statement(q) = Look(n) => Wanted(q) = {} /\ Statement(q).name = n
  <2> SUFFICES ASSUME NEW n, Statement(q) = Look(n)
               PROVE  Wanted(q) = {} /\ Statement(q).name = n
    OBVIOUS
  <2>1. Statement(q).on = None /\ Statement(q).name = n
    BY StatementsAre
  <2> QED BY <2>1 DEF Wanted
<1>3. Statement(q) = Finish => Wanted(q) = {} /\ Statement(q).name = "commit"
  BY <1>2 DEF Finish
<1> QED BY <1>1, <1>2, <1>3, FirstIs, Zenon DEF Stands, Rests

-----------------------------------------------------------------------------
(* Which calls wait for which. *)

(* The order in which calls take what they take: all of them but one.      *)
Level(t) ==
  IF t[1] \in {"advisory", "invitation", "request", "principal"} THEN 1
  ELSE IF t[1] = "subject" THEN 2
  ELSE IF t[1] \in {"user", "deleted"} THEN 3
  ELSE IF t[1] = "member" THEN 4
  ELSE IF t[1] \in {"open", "device", "admin"} THEN 5
  ELSE IF t[1] = "enrolment" THEN 6
  ELSE 7
Ordered(q) == \A t \in locks[q], w \in Wanted(q) : t = w \/ Level(t) < Level(w)

(* It neither holds a row of users or principals nor inserts a request. *)
Plain(q) ==
  /\ \A t \in locks[q] : t[1] \notin {"user", "deleted", "principal"}
  /\ Statement(q).name # "insertRequest"

LEMMA Levels ==
  \A x : /\ Level(<<"advisory", x>>) = 1 /\ Level(<<"invitation", x>>) = 1
         /\ Level(<<"request", x>>) = 1 /\ Level(<<"principal", x>>) = 1
         /\ Level(<<"subject", x>>) = 2
         /\ Level(<<"user", x>>) = 3 /\ Level(<<"deleted", x>>) = 3
         /\ Level(<<"member", x>>) = 4
         /\ Level(<<"open", x>>) = 5 /\ Level(<<"device", x>>) = 5 /\ Level(<<"admin", x>>) = 5
         /\ Level(<<"enrolment", x>>) = 6
BY DEF Level

LEMMA OrderedThere ==
  ASSUME NEW q
  PROVE  /\ \A n, t, h : Stands(q, n, t, h) /\ (\A s \in h : s = t \/ Level(s) < Level(t)) => Ordered(q)
         /\ \A n, h : Rests(q, n, h) => Ordered(q)
BY DEF Stands, Rests, Ordered

LEMMA PlainThere ==
  ASSUME NEW q
  PROVE  /\ \A n, t, h : /\ Stands(q, n, t, h) /\ n # "insertRequest"
                         /\ \A s \in h : s[1] \notin {"user", "deleted", "principal"}
                         => Plain(q)
         /\ \A n, h : /\ Rests(q, n, h) /\ n # "insertRequest"
                      /\ \A s \in h : s[1] \notin {"user", "deleted", "principal"}
                      => Plain(q)
BY DEF Stands, Rests, Plain

LEMMA DecidingWaits ==
  ASSUME NEW q
  PROVE  Inviting(q) \/ Cancelling(q) \/ Approving(q) \/ Rejecting(q) => Ordered(q) /\ Plain(q)
<1> DEFINE c == call[q]
           invitation == <<"invitation", c.row>>
           request == <<"request", c.row>>
           member == <<"member", c.user>>
<1>1. ASSUME Inviting(q)
      PROVE  Ordered(q) /\ Plain(q)
  <2>1. Rests(q, "tenantExists", {}) \/ Rests(q, "commit", {})
    BY <1>1, StandsThere DEF Inviting
  <2> QED BY <2>1, OrderedThere, PlainThere
<1>2. ASSUME Cancelling(q)
      PROVE  Ordered(q) /\ Plain(q)
  <2>1. \/ Stands(q, "lockInvitation", invitation, {})
        \/ Stands(q, "member", member, {invitation})
        \/ Rests(q, "commit", {invitation, member})
    BY <1>2, StandsThere DEF Cancelling
  <2> QED BY <2>1, OrderedThere, PlainThere, Levels
<1>3. ASSUME Approving(q)
      PROVE  Ordered(q) /\ Plain(q)
  <2>1. \/ Stands(q, "lockRequest", request, {})
        \/ Stands(q, "memberOfRequest", member, {request})
        \/ Rests(q, "commit", {request, member})
    BY <1>3, StandsThere DEF Approving
  <2> QED BY <2>1, OrderedThere, PlainThere, Levels
<1>4. ASSUME Rejecting(q)
      PROVE  Ordered(q) /\ Plain(q)
  <2>1. \/ Stands(q, "lockRequest", request, {})
        \/ Rests(q, "commit", {request})
    BY <1>4, StandsThere DEF Rejecting
  <2> QED BY <2>1, OrderedThere, PlainThere, Levels
<1> QED BY <1>1, <1>2, <1>3, <1>4

LEMMA DeviceWaits ==
  ASSUME NEW q
  PROVE  Enrolling(q) \/ Activating(q) => Ordered(q) /\ Plain(q)
<1> DEFINE c == call[q]
           member == <<"member", c.user>>
           device == <<"device", c.row>>
           enrolment == <<"enrolment", c.row>>
<1>1. ASSUME Enrolling(q)
      PROVE  Ordered(q) /\ Plain(q)
  <2>1. Stands(q, "insertDevice", <<"deleted", c.user>>, {})
    BY <1>1, StandsThere DEF Enrolling
  <2> QED BY <2>1, OrderedThere, PlainThere
<1>2. ASSUME Activating(q)
      PROVE  Ordered(q) /\ Plain(q)
  <2>1. \/ Stands(q, "membershipInForce", member, {})
        \/ Stands(q, "pendingDevice", device, {member})
        \/ Rests(q, "count", {member, device})
        \/ Stands(q, "enrolment", enrolment, {member, device})
        \/ Rests(q, "commit", {member, device, enrolment})
    BY <1>2, StandsThere DEF Activating, ApprovalPlan
  <2> QED BY <2>1, OrderedThere, PlainThere, Levels
<1> QED BY <1>1, <1>2

LEMMA AppointingWaits ==
  ASSUME NEW q
  PROVE  Bootstrapping(q) \/ Appointing(q) => Ordered(q) /\ Plain(q)
<1> DEFINE c == call[q]
           login == <<"login">>
           advisory == <<"advisory", c.verb>>
           subject == <<"subject", c.subject>>
           admin == <<"admin", c.user>>
<1>1. ASSUME Bootstrapping(q)
      PROVE  Ordered(q) /\ Plain(q)
  <2>1. \/ Rests(q, "noAdmin", {})
        \/ Stands(q, "insertLogin", login, {})
        \/ Rests(q, "commit", {login})
    BY <1>1, StandsThere DEF Bootstrapping
  <2> QED BY <2>1, OrderedThere, PlainThere
<1>2. ASSUME Appointing(q)
      PROVE  Ordered(q) /\ Plain(q)
  <2>1. \/ Stands(q, "advisoryLock", advisory, {})
        \/ Stands(q, "advisoryLock", <<"advisory", "claim">>, {})
        \/ Stands(q, "advisoryLock", <<"advisory", "provision">>, {})
        \/ Rests(q, "noAdmin", {advisory})
        \/ Rests(q, "findClaimant", {advisory})
        \/ Rests(q, "findProvisioned", {advisory})
        \/ Stands(q, "insertIdentity", subject, {advisory})
        \/ Stands(q, "insertAdmin", admin, {advisory, subject})
        \/ Stands(q, "insertAdmin", admin, {advisory})
        \/ Rests(q, "commit", {advisory, subject, admin})
        \/ Rests(q, "commit", {advisory, admin})
    BY <1>2, StandsThere DEF Appointing, ClaimPlan, ProvisionPlan
  <2> QED BY <2>1, OrderedThere, PlainThere, Levels
<1> QED BY <1>1, <1>2

LEMMA SetupWaits ==
  ASSUME NEW q
  PROVE  Keying(q) \/ Unkeying(q) \/ Founding(q) \/ Opening(q) \/ Rotating(q) \/ Disabling(q)
           => Ordered(q) /\ Plain(q)
<1>1. ASSUME NEW t, t \in {<<"key">>, <<"tenant">>, <<"setting">>}, NEW n \in {"findKey", "upsert", "insertTenant", "switchTenant", "findSetting"},
             Stands(q, n, t, {}) \/ Stands(q, n, t, {t})
      PROVE  Ordered(q) /\ Plain(q)
  BY <1>1, OrderedThere, PlainThere
<1>2. ASSUME NEW t, t \in {<<"key">>, <<"tenant">>, <<"setting">>}, NEW n \in {"tenantBefore", "tenantOfToken", "commit"},
             Rests(q, n, {}) \/ Rests(q, n, {t})
      PROVE  Ordered(q) /\ Plain(q)
  BY <1>2, OrderedThere, PlainThere
<1>3. Keying(q) \/ Unkeying(q) =>
        \/ \E n \in {"findKey", "upsert"} : Stands(q, n, <<"key">>, {}) \/ Stands(q, n, <<"key">>, {<<"key">>})
        \/ Rests(q, "commit", {<<"key">>})
  BY StandsThere DEF Keying, Unkeying
<1>4. Founding(q) \/ Opening(q) =>
        \/ \E n \in {"insertTenant", "switchTenant"} : Stands(q, n, <<"tenant">>, {})
        \/ Rests(q, "tenantBefore", {})
        \/ Rests(q, "commit", {<<"tenant">>})
  BY StandsThere DEF Founding, Opening
<1>5. Rotating(q) \/ Disabling(q) =>
        \/ \E n \in {"upsert", "findSetting"} : Stands(q, n, <<"setting">>, {})
        \/ Rests(q, "tenantOfToken", {})
        \/ Rests(q, "commit", {<<"setting">>})
  BY StandsThere DEF Rotating, Disabling
<1> QED BY <1>1, <1>2, <1>3, <1>4, <1>5

(* Who holds a row of users or principals has little left to wait for. *)

(* Who holds a row of users or principals has little left to wait for. *)

(* Who holds a row of users or principals has little left to wait for. *)
LEMMA LinkWaits ==
  ASSUME NEW q, Linking(q)
  PROVE  /\ Ordered(q) /\ Statement(q).name # "insertRequest"
         /\ \A m : <<"user", m>> \notin locks[q] /\ <<"principal", m>> \notin locks[q]
         /\ \A m : <<"deleted", m>> \in locks[q] => Wanted(q) = {}
<1> DEFINE c == call[q]
           subject == <<"subject", c.subject>>
           deleted == <<"deleted", c.user>>
<1>1. \/ Rests(q, "linked", {})
      \/ Stands(q, "upsertIdentity", subject, {})
      \/ Stands(q, "linkedUser", deleted, {subject})
      \/ Rests(q, "commit", {subject, deleted})
  BY StandsThere DEF Linking
<1>2. Ordered(q)
  BY <1>1, OrderedThere, Levels
<1> QED BY <1>1, <1>2 DEF Stands, Rests

LEMMA ConfigureWaits ==
  ASSUME NEW q, Configuring(q)
  PROVE  /\ Ordered(q) /\ Statement(q).name # "insertRequest"
         /\ \A m : <<"user", m>> \in locks[q] => Wanted(q) = {}
         /\ \A m : <<"principal", m>> \in locks[q] => Wanted(q) \subseteq {<<"user", m>>}
         /\ \A m : <<"deleted", m>> \notin locks[q]
<1> DEFINE c == call[q]
           principal == <<"principal", c.user>>
           user == <<"user", c.user>>
<1>1. \/ Stands(q, "principal", principal, {})
      \/ Stands(q, "user", user, {principal})
      \/ Rests(q, "commit", {principal, user})
  BY StandsThere DEF Configuring
<1>2. Ordered(q)
  BY <1>1, OrderedThere, Levels
<1> QED BY <1>1, <1>2 DEF Stands, Rests

LEMMA ForUserHolds ==
  ASSUME NEW q, NEW plan, NEW h, ForUser(q, plan, h)
  PROVE  \E g : /\ Here(q, plan, g) /\ h \subseteq g
                /\ g \subseteq h \cup {<<"subject", call[q].subject>>, <<"user", call[q].user>>}
<1>1. /\ h \subseteq h \cup {<<"subject", call[q].subject>>}
      /\ h \cup {<<"subject", call[q].subject>>} \subseteq h \cup {<<"subject", call[q].subject>>, <<"user", call[q].user>>}
      /\ h \subseteq h \cup {<<"user", call[q].user>>}
      /\ h \cup {<<"user", call[q].user>>} \subseteq h \cup {<<"subject", call[q].subject>>, <<"user", call[q].user>>}
      /\ h \subseteq h
      /\ h \subseteq h \cup {<<"subject", call[q].subject>>, <<"user", call[q].user>>}
  OBVIOUS
<1> QED BY <1>1, Zenon DEF ForUser

LEMMA RegisterWaits ==
  ASSUME NEW q, Registering(q)
  PROVE  /\ Ordered(q)
         /\ Statement(q).name = "insertRequest" => NoneOpen(call[q].user)
         /\ \A m : <<"deleted", m>> \notin locks[q] /\ <<"principal", m>> \notin locks[q]
         /\ \A m : <<"user", m>> \in locks[q] =>
              Wanted(q) \subseteq {<<"member", m>>} \/ <<"member", m>> \in locks[q]
<1> DEFINE c == call[q]
           subject == <<"subject", c.subject>>
           user == <<"user", c.user>>
           member == <<"member", c.user>>
           open == <<"open", c.user>>
           insert == Do("insertRequest", open)
           some == {subject, user}
<1>1. ASSUME NEW plan, NEW h, ForUser(q, plan, h)
      PROVE  \E g : Here(q, plan, g) /\ h \subseteq g /\ g \subseteq h \cup some
  BY <1>1, ForUserHolds
<1>2. \/ Rests(q, "token", {}) \/ Rests(q, "findIdentity", {})
      \/ Stands(q, "insertIdentity", subject, {})
      \/ Stands(q, "user", user, {})
      \/ \E g \in SUBSET some : Stands(q, "findMember", member, g)
      \/ \E g : g \subseteq some \cup {member} /\ Rests(q, "asItWas", g)
      \/ \E g : g \subseteq some \cup {member} /\ Rests(q, "findRequest", g)
      \/ \E g \in SUBSET some : Stands(q, "insertMember", member, g)
      \/ NoneOpen(c.user) /\ \E g : /\ {member} \subseteq g /\ g \subseteq some \cup {member}
                                    /\ Stands(q, "insertRequest", open, g)
      \/ \E g : g \subseteq some \cup {member, open} /\ Rests(q, "commit", g)
  <2>1. ASSUME ForUser(q, <<Do("findMember", member)>>, {})
        PROVE  \E g \in SUBSET some : Stands(q, "findMember", member, g)
    <3>1. PICK g : Here(q, <<Do("findMember", member)>>, g) /\ {} \subseteq g /\ g \subseteq {} \cup some
      BY <1>1, <2>1, Zenon
    <3>2. Stands(q, "findMember", member, g)
      BY <3>1, StandsThere
    <3> QED BY <3>1, <3>2
  <2>2. ASSUME ForUser(q, <<Look("asItWas")>>, {}) \/ ForUser(q, <<Look("asItWas")>>, {member})
        PROVE  \E g : g \subseteq some \cup {member} /\ Rests(q, "asItWas", g)
    BY <1>1, <2>2, StandsThere
  <2>3. ASSUME ForUser(q, <<Look("findRequest")>>, {member})
               \/ ForUser(q, <<Look("findRequest"), Do("insertMember", member)>>, {})
        PROVE  \E g : g \subseteq some \cup {member} /\ Rests(q, "findRequest", g)
    <3>1. CASE ForUser(q, <<Look("findRequest")>>, {member})
      <4>1. PICK g : Here(q, <<Look("findRequest")>>, g) /\ g \subseteq {member} \cup some
        BY <1>1, <3>1
      <4>2. Rests(q, "findRequest", g)
        BY <4>1, StandsThere
      <4> QED BY <4>1, <4>2
    <3>2. CASE ForUser(q, <<Look("findRequest"), Do("insertMember", member)>>, {})
      <4>1. PICK g : /\ Here(q, <<Look("findRequest"), Do("insertMember", member)>>, g)
                     /\ g \subseteq {} \cup some
        BY <1>1, <3>2, Zenon
      <4>2. Rests(q, "findRequest", g)
        BY <4>1, StandsThere
      <4> QED BY <4>1, <4>2
    <3> QED BY <2>3, <3>1, <3>2
  <2>4. ASSUME ForUser(q, <<Do("insertMember", member), insert, Finish>>, {})
        PROVE  \E g \in SUBSET some : Stands(q, "insertMember", member, g)
    <3>1. PICK g : Here(q, <<Do("insertMember", member), insert, Finish>>, g) /\ {} \subseteq g /\ g \subseteq {} \cup some
      BY <1>1, <2>4, Zenon
    <3>2. Stands(q, "insertMember", member, g)
      BY <3>1, StandsThere
    <3> QED BY <3>1, <3>2
  <2>5. ASSUME ForUser(q, <<insert, Finish>>, {member})
        PROVE  \E g : /\ {member} \subseteq g /\ g \subseteq some \cup {member}
                      /\ Stands(q, "insertRequest", open, g)
    <3>1. PICK g : Here(q, <<insert, Finish>>, g) /\ {member} \subseteq g /\ g \subseteq {member} \cup some
      BY <1>1, <2>5
    <3>2. Stands(q, "insertRequest", open, g)
      BY <3>1, StandsThere
    <3> QED BY <3>1, <3>2
  <2>6. ASSUME ForUser(q, <<Finish>>, {member, open})
        PROVE  \E g : g \subseteq some \cup {member, open} /\ Rests(q, "commit", g)
    BY <1>1, <2>6, StandsThere
  <2>7. /\ Here(q, <<Look("token"), Look("findIdentity")>>, {}) => Rests(q, "token", {})
        /\ Here(q, <<Look("findIdentity")>>, {}) => Rests(q, "findIdentity", {})
        /\ Here(q, <<Do("insertIdentity", subject), Do("findMember", member)>>, {})
             => Stands(q, "insertIdentity", subject, {})
        /\ Here(q, <<Do("user", user), Do("findMember", member)>>, {}) => Stands(q, "user", user, {})
    BY StandsThere
  <2>8. \/ Here(q, <<Look("token"), Look("findIdentity")>>, {})
        \/ Here(q, <<Look("findIdentity")>>, {})
        \/ Here(q, <<Do("insertIdentity", subject), Do("findMember", member)>>, {})
        \/ Here(q, <<Do("user", user), Do("findMember", member)>>, {})
        \/ ForUser(q, <<Do("findMember", member)>>, {})
        \/ ForUser(q, <<Look("asItWas")>>, {}) \/ ForUser(q, <<Look("asItWas")>>, {member})
        \/ ForUser(q, <<Look("findRequest")>>, {member})
        \/ ForUser(q, <<Look("findRequest"), Do("insertMember", member)>>, {})
        \/ ForUser(q, <<Do("insertMember", member), insert, Finish>>, {})
        \/ NoneOpen(c.user) /\ ForUser(q, <<insert, Finish>>, {member})
        \/ ForUser(q, <<Finish>>, {member, open})
    BY Zenon DEF Registering
  <2> QED BY <2>1, <2>2, <2>3, <2>4, <2>5, <2>6, <2>7, <2>8
<1>3. Ordered(q)
  BY <1>2, Levels DEF Stands, Rests, Ordered
<1>4. Statement(q).name = "insertRequest" => NoneOpen(c.user)
  BY <1>2 DEF Stands, Rests
<1>5. \A m : <<"deleted", m>> \notin locks[q] /\ <<"principal", m>> \notin locks[q]
  BY <1>2 DEF Stands, Rests
<1>6. \A m : <<"user", m>> \in locks[q] =>
        Wanted(q) \subseteq {<<"member", m>>} \/ <<"member", m>> \in locks[q]
  <2>1. \A m : <<"user", m>> \in locks[q] => m = c.user
    BY <1>2 DEF Stands, Rests
  <2> QED BY <1>2, <2>1 DEF Stands, Rests
<1> QED BY <1>3, <1>4, <1>5, <1>6

(* The exceptions: an acceptance that takes one membership after another,  *)
(* and then, with both, the invited user's rows and the known user's.      *)
Swapping(q) ==
  LET c == call[q]
      v == db.invitation[c.row].user
  IN
  /\ c.verb = "accept" /\ c.row \in Ids /\ PendingInvitation(c.row) /\ NotInvited(c.user)
  /\ locks[q] = {<<"invitation", c.row>>, <<"member", v>>}
  /\ Wanted(q) \subseteq {<<"member", c.user>>}
Replacing(q) ==
  LET c == call[q]
      u == c.user
      v == db.invitation[c.row].user
  IN
  /\ c.verb = "accept" /\ c.row \in Ids /\ PendingInvitation(c.row) /\ NotInvited(u)
  /\ {<<"invitation", c.row>>, <<"member", v>>, <<"member", u>>} \subseteq locks[q]
  /\ \/ Wanted(q) \subseteq {<<"user", v>>}
     \/ /\ <<"user", v>> \in locks[q]
        /\ Wanted(q) \subseteq {<<"deleted", v>>} \/ Wanted(q) \subseteq {<<"principal", v>>}
     \/ Wanted(q) \subseteq {<<"user", u>>}
     \/ Wanted(q) \subseteq {<<"member", u>>}

(* The rows of users that an acceptance holds are those of the user whom   *)
(* its invitation is for and of the user who becomes a member.             *)
AcceptHolds(q) ==
  LET c == call[q]
      v == db.invitation[c.row].user
  IN
  \A m :
    /\ <<"user", m>> \in locks[q] =>
         /\ c.row \in Ids /\ PendingInvitation(c.row) /\ <<"invitation", c.row>> \in locks[q]
         /\ m = v \/ (NotInvited(m) /\ <<"member", m>> \in locks[q])
    /\ <<"deleted", m>> \in locks[q] \/ <<"principal", m>> \in locks[q] =>
         /\ c.row \in Ids /\ PendingInvitation(c.row) /\ <<"invitation", c.row>> \in locks[q]
         /\ m = v

LEMMA AdmittingIs ==
  ASSUME NEW q, NEW h, Admitting(q, h)
  PROVE  LET user == <<"user", call[q].user>>
             member == <<"member", call[q].user>>
         IN  \/ Rests(q, "access", h) \/ Stands(q, "user", user, h)
             \/ Rests(q, "commit", h \cup {user}) \/ Stands(q, "member", member, h \cup {user})
             \/ Rests(q, "commit", h \cup {user, member})
BY StandsThere DEF Admitting

LEMMA AsInvitedWaits ==
  ASSUME NEW q, call[q].row \in Ids, PendingInvitation(call[q].row), AsInvited(q)
  PROVE  Ordered(q) /\ Statement(q).name # "insertRequest" /\ AcceptHolds(q)
<1> DEFINE c == call[q]
           invitation == <<"invitation", c.row>>
           subject == <<"subject", c.subject>>
           user == <<"user", c.user>>
           member == <<"member", c.user>>
<1>1. c.user = db.invitation[c.row].user
  BY DEF AsInvited
<1>2. \/ Rests(q, "findIdentity", {invitation})
      \/ Stands(q, "insertIdentity", subject, {invitation})
      \/ Admitting(q, {invitation}) \/ Admitting(q, {invitation, subject})
  BY StandsThere DEF AsInvited
<1>3. \E h \in {{invitation}, {invitation, subject}} :
        \/ Rests(q, "findIdentity", {invitation})
        \/ Stands(q, "insertIdentity", subject, {invitation})
        \/ Rests(q, "access", h) \/ Stands(q, "user", user, h)
        \/ Rests(q, "commit", h \cup {user}) \/ Stands(q, "member", member, h \cup {user})
        \/ Rests(q, "commit", h \cup {user, member})
  BY <1>2, AdmittingIs
<1>4. Ordered(q)
  BY <1>3, Levels DEF Stands, Rests, Ordered
<1>5. Statement(q).name # "insertRequest"
  BY <1>3 DEF Stands, Rests
<1>6. AcceptHolds(q)
  BY <1>1, <1>3 DEF Stands, Rests, AcceptHolds
<1> QED BY <1>4, <1>5, <1>6

LEMMA AsKnownWaits ==
  ASSUME NEW q, call[q].verb = "accept", call[q].row \in Ids, PendingInvitation(call[q].row), AsKnown(q)
  PROVE  /\ Ordered(q) \/ Swapping(q) \/ Replacing(q)
         /\ Statement(q).name # "insertRequest" /\ AcceptHolds(q)
<1> DEFINE c == call[q]
           u == c.user
           v == db.invitation[c.row].user
           invitation == <<"invitation", c.row>>
           both == {invitation, <<"member", v>>, <<"member", u>>}
           all == {invitation, <<"member", v>>, <<"member", u>>, <<"user", v>>, <<"deleted", v>>,
                   <<"principal", v>>}
<1>1. \/ Rests(q, "noMembership", {invitation})
      \/ /\ NotInvited(u)
         /\ \/ Stands(q, "member", <<"member", v>>, {invitation})
            \/ Stands(q, "insertMember", <<"member", u>>, {invitation, <<"member", v>>})
            \/ Stands(q, "user", <<"user", v>>, both)
            \/ Stands(q, "dropInvited", <<"deleted", v>>,
                      {invitation, <<"member", v>>, <<"member", u>>, <<"user", v>>})
            \/ Stands(q, "dropPrincipal", <<"principal", v>>,
                      {invitation, <<"member", v>>, <<"member", u>>, <<"user", v>>, <<"deleted", v>>})
            \/ Admitting(q, all)
  BY Zenon, StandsThere DEF AsKnown
<1>2. CASE Rests(q, "noMembership", {invitation})
  BY <1>2, OrderedThere DEF Rests, AcceptHolds
<1>3. CASE Stands(q, "member", <<"member", v>>, {invitation})
  <2>1. Ordered(q)
    BY <1>3, OrderedThere, Levels
  <2> QED BY <1>3, <2>1 DEF Stands, AcceptHolds
<1>4. CASE NotInvited(u) /\ Stands(q, "insertMember", <<"member", u>>, {invitation, <<"member", v>>})
  BY <1>4 DEF Stands, AcceptHolds, Swapping
<1>5. CASE NotInvited(u) /\ Stands(q, "user", <<"user", v>>, both)
  BY <1>5 DEF Stands, AcceptHolds, Replacing
<1>6. CASE NotInvited(u) /\ Stands(q, "dropInvited", <<"deleted", v>>,
                      {invitation, <<"member", v>>, <<"member", u>>, <<"user", v>>})
  BY <1>6 DEF Stands, AcceptHolds, Replacing
<1>7. CASE NotInvited(u) /\ Stands(q, "dropPrincipal", <<"principal", v>>,
                      {invitation, <<"member", v>>, <<"member", u>>, <<"user", v>>, <<"deleted", v>>})
  BY <1>7 DEF Stands, AcceptHolds, Replacing
<1>8. CASE NotInvited(u) /\ Admitting(q, all)
  <2> DEFINE a == all
  <2> HIDE DEF a
  <2>1. \/ Rests(q, "access", a) \/ Stands(q, "user", <<"user", u>>, a)
        \/ Rests(q, "commit", a \cup {<<"user", u>>})
        \/ Stands(q, "member", <<"member", u>>, a \cup {<<"user", u>>})
        \/ Rests(q, "commit", a \cup {<<"user", u>>, <<"member", u>>})
    BY <1>8, AdmittingIs, Zenon DEF a
  <2>2. <<"member", u>> \in a
    BY DEF a
  <2>3. /\ a \subseteq locks[q] /\ locks[q] \subseteq a \cup {<<"user", u>>}
        /\ Wanted(q) \subseteq {<<"user", u>>} \/ Wanted(q) \subseteq {<<"member", u>>}
        /\ Statement(q).name # "insertRequest"
    BY <2>1, <2>2 DEF Stands, Rests
  <2>4. both \subseteq locks[q]
    BY <2>3 DEF a
  <2>5. Replacing(q)
    BY <1>8, <2>3, <2>4 DEF Replacing
  <2>6. \A m : /\ <<"user", m>> \in locks[q] => m = v \/ m = u
               /\ <<"deleted", m>> \in locks[q] \/ <<"principal", m>> \in locks[q] => m = v
    BY <2>3 DEF a
  <2>7. AcceptHolds(q)
    BY Zenon, <1>8, <2>4, <2>6 DEF AcceptHolds
  <2> QED BY <2>3, <2>5, <2>7
<1> QED BY <1>1, <1>2, <1>3, <1>4, <1>5, <1>6, <1>7, <1>8

LEMMA AcceptWaits ==
  ASSUME NEW q, call[q].verb = "accept", Accepting(q)
  PROVE  /\ Ordered(q) \/ Swapping(q) \/ Replacing(q)
         /\ Statement(q).name # "insertRequest" /\ AcceptHolds(q)
<1> DEFINE invitation == <<"invitation", call[q].row>>
<1>1. \/ Stands(q, "lockInvitation", invitation, {})
      \/ Rests(q, "expire", {invitation})
      \/ PendingInvitation(call[q].row) /\ (AsInvited(q) \/ AsKnown(q))
  BY StandsThere DEF Accepting
<1>2. CASE Stands(q, "lockInvitation", invitation, {}) \/ Rests(q, "expire", {invitation})
  <2>1. Ordered(q)
    BY <1>2, OrderedThere
  <2> QED BY <1>2, <2>1 DEF Stands, Rests, AcceptHolds
<1>3. call[q].row \in Ids
  BY DEF Accepting
<1> QED BY <1>1, <1>2, <1>3, AsInvitedWaits, AsKnownWaits

(* Call r waits for call s, over t. *)
WaitsOver(r, s, t) == s # r /\ t \in Wanted(r) /\ t \in locks[s]

LEMMA WhoWaits ==
  ASSUME CourseInv, NEW q \in Requests, pc[q] = "run"
  PROVE  /\ Ordered(q) \/ Swapping(q) \/ Replacing(q)
         /\ Statement(q).name = "insertRequest" => NoneOpen(call[q].user)
         /\ \A m :
              /\ <<"user", m>> \in locks[q] =>
                   \/ AcceptHolds(q)
                   \/ Wanted(q) = {}
                   \/ /\ call[q].verb = "register"
                      /\ Wanted(q) \subseteq {<<"member", m>>} \/ <<"member", m>> \in locks[q]
              /\ <<"deleted", m>> \in locks[q] => AcceptHolds(q) \/ Wanted(q) = {}
              /\ <<"principal", m>> \in locks[q] =>
                   \/ AcceptHolds(q)
                   \/ call[q].verb = "configure" /\ Wanted(q) \subseteq {<<"user", m>>}
<1>1. OnCourse(q)
  BY DEF CourseInv, CallInv
<1>2. CASE Plain(q) /\ Ordered(q)
  <2>1. \A m : <<"user", m>> \notin locks[q] /\ <<"deleted", m>> \notin locks[q]
               /\ <<"principal", m>> \notin locks[q]
    BY <1>2 DEF Plain
  <2> QED BY <1>2, <2>1 DEF Plain
<1>3. CASE call[q].verb = "accept"
  BY <1>1, <1>3, AcceptWaits DEF OnCourse
<1>4. CASE call[q].verb = "register"
  BY <1>1, <1>4, RegisterWaits DEF OnCourse
<1>5. CASE call[q].verb = "configure"
  BY <1>1, <1>5, ConfigureWaits DEF OnCourse
<1>6. CASE call[q].verb = "link"
  BY <1>1, <1>6, LinkWaits DEF OnCourse
<1>7. CASE call[q].verb \notin {"accept", "register", "configure", "link"}
  <2>1. Plain(q) /\ Ordered(q)
    BY <1>1, <1>7, DecidingWaits, DeviceWaits, AppointingWaits, SetupWaits DEF OnCourse, AllVerbs
  <2> QED BY <1>2, <2>1
<1> QED BY <1>3, <1>4, <1>5, <1>6, <1>7

LEMMA CircleGoesOn ==
  ASSUME NEW S, Circle(S), NEW r \in S
  PROVE  pc[r] = "run" /\ \E s \in S : \E t : WaitsOver(r, s, t)
BY DEF Circle, WaitsFor, WaitsOver

LEMMA HeldByOne ==
  ASSUME CourseInv, NEW q \in Requests, NEW r \in Requests, NEW t, t \in locks[q], t \in locks[r]
  PROVE  q = r
BY DEF CourseInv, Exclusive

(* No other acceptance holds the invited user's rows. *)
LEMMA OneInvitation ==
  ASSUME CourseInv, NEW q \in Requests, Replacing(q), NEW r \in Requests \ {q}, AcceptHolds(r)
  PROVE  LET v == db.invitation[call[q].row].user IN
         /\ <<"user", v>> \notin locks[r] /\ <<"deleted", v>> \notin locks[r]
         /\ <<"principal", v>> \notin locks[r]
         /\ <<"user", call[q].user>> \notin locks[r]
<1> DEFINE x == call[q].row
           y == call[r].row
           v == db.invitation[x].user
           u == call[q].user
<1>1. /\ x \in Ids /\ PendingInvitation(x) /\ NotInvited(u)
      /\ <<"invitation", x>> \in locks[q] /\ <<"member", u>> \in locks[q]
  BY DEF Replacing
<1>2. <<"invitation", x>> \notin locks[r] /\ <<"member", u>> \notin locks[r]
  BY <1>1, HeldByOne
<1>3. ~NotInvited(v)
  BY <1>1 DEF NotInvited
<1>4. y \in Ids /\ PendingInvitation(y) /\ db.invitation[y].user = v => y = x
  BY <1>1 DEF CourseInv, Rows, InStep, PendingInvitation
<1>5. y \in Ids /\ PendingInvitation(y) => db.invitation[y].user # u
  BY <1>1 DEF NotInvited
<1>6. \A m :
        /\ <<"user", m>> \in locks[r] =>
             /\ y \in Ids /\ PendingInvitation(y) /\ <<"invitation", y>> \in locks[r]
             /\ m = db.invitation[y].user \/ (NotInvited(m) /\ <<"member", m>> \in locks[r])
        /\ <<"deleted", m>> \in locks[r] \/ <<"principal", m>> \in locks[r] =>
             /\ y \in Ids /\ PendingInvitation(y) /\ <<"invitation", y>> \in locks[r]
             /\ m = db.invitation[y].user
  BY Zenon DEF AcceptHolds
<1> HIDE DEF x, y, v, u
<1>7. /\ <<"user", v>> \notin locks[r] /\ <<"deleted", v>> \notin locks[r]
      /\ <<"principal", v>> \notin locks[r] /\ <<"user", u>> \notin locks[r]
  BY <1>2, <1>3, <1>4, <1>5, <1>6
<1> QED BY <1>7 DEF x, v, u

(* Where an acceptance waits with both memberships, it waits for a call    *)
(* that waits for it.                                                      *)
LEMMA ReplacingWaits ==
  ASSUME CourseInv, NEW S \in SUBSET Requests, Circle(S), NEW q \in S, Replacing(q)
  PROVE  \E r \in S :
           /\ call[q].verb = "accept" /\ call[r].verb \in {"configure", "register"}
           /\ r \in WaitsFor(q) /\ q \in WaitsFor(r)
<1> DEFINE u == call[q].user
           v == db.invitation[call[q].row].user
<1>1. PICK r \in S : \E t : WaitsOver(q, r, t)
  BY CircleGoesOn
<1>2. PICK t : WaitsOver(q, r, t)
  BY <1>1
<1>3. PICK s \in S : \E w : WaitsOver(r, s, w)
  BY CircleGoesOn
<1>4. PICK w : WaitsOver(r, s, w)
  BY <1>3
<1>5. r # q /\ t \in Wanted(q) /\ t \in locks[r] /\ w \in Wanted(r) /\ pc[r] = "run"
  BY <1>2, <1>4, CircleGoesOn DEF WaitsOver
<1>6. t \notin locks[q]
  BY <1>5, HeldByOne
<1>7. /\ call[q].verb = "accept"
      /\ <<"member", v>> \in locks[q] /\ <<"member", u>> \in locks[q]
      /\ \/ t = <<"user", v>>
         \/ <<"user", v>> \in locks[q] /\ t \in {<<"deleted", v>>, <<"principal", v>>}
         \/ t = <<"user", u>>
  BY <1>5, <1>6 DEF Replacing
<1>8. AcceptHolds(r) => t \notin {<<"user", v>>, <<"deleted", v>>, <<"principal", v>>, <<"user", u>>}
  BY <1>5, OneInvitation
<1>9. r \in WaitsFor(q)
  BY <1>5 DEF WaitsFor
<1>10. ASSUME NEW m \in {u, v}, t = <<"user", m>>
       PROVE  call[r].verb = "register" /\ q \in WaitsFor(r)
  <2>1. <<"member", m>> \in locks[q] /\ <<"member", m>> \notin locks[r]
    BY <1>5, <1>7, <1>10, HeldByOne
  <2>2. call[r].verb = "register" /\ Wanted(r) \subseteq {<<"member", m>>}
    BY <1>5, <1>8, <1>10, <2>1, WhoWaits
  <2>3. w = <<"member", m>>
    BY <1>5, <2>2
  <2> QED BY <1>5, <2>1, <2>2, <2>3 DEF WaitsFor
<1>11. t # <<"deleted", v>>
  BY <1>5, <1>8, WhoWaits
<1>12. ASSUME t = <<"principal", v>>
       PROVE  call[r].verb = "configure" /\ q \in WaitsFor(r)
  <2>1. <<"user", v>> \in locks[q]
    BY <1>7, <1>12
  <2>2. call[r].verb = "configure" /\ Wanted(r) \subseteq {<<"user", v>>}
    BY <1>5, <1>8, <1>12, WhoWaits
  <2> QED BY <1>5, <2>1, <2>2 DEF WaitsFor
<1> QED BY <1>7, <1>9, <1>10, <1>11, <1>12

(* Some call of S waits for another one of S over a thing of that level.   *)
Blocked(S, level) ==
  \E r \in S : \E s \in S : \E t : WaitsOver(r, s, t) /\ Level(t) = level

LEMMA BlockedHigher ==
  ASSUME CourseInv, NEW S \in SUBSET Requests, Circle(S),
         \A q \in S : Ordered(q) \/ Swapping(q),
         NEW level, Blocked(S, level)
  PROVE  (\E higher : level < higher /\ Blocked(S, higher)) \/ (Blocked(S, 4) /\ level \in {1, 4})
<1>1. PICK r \in S : \E s \in S : \E t : WaitsOver(r, s, t) /\ Level(t) = level
  BY DEF Blocked
<1>2. PICK s \in S : \E t : WaitsOver(r, s, t) /\ Level(t) = level
  BY <1>1
<1>3. PICK t : WaitsOver(r, s, t) /\ Level(t) = level
  BY <1>2
<1>4. PICK z \in S : \E w : WaitsOver(s, z, w)
  BY CircleGoesOn
<1>5. PICK w : WaitsOver(s, z, w)
  BY <1>4
<1>6. t \in locks[s] /\ w \in Wanted(s) /\ w \in locks[z] /\ z # s
  BY <1>3, <1>5 DEF WaitsOver
<1>7. t # w
  BY <1>6, HeldByOne
<1>8. CASE Ordered(s)
  <2>1. level < Level(w)
    BY <1>3, <1>6, <1>7, <1>8 DEF Ordered
  <2>2. Blocked(S, Level(w))
    BY <1>5 DEF Blocked
  <2> QED BY <2>1, <2>2
<1>9. CASE Swapping(s)
  <2>1. t[1] \in {"invitation", "member"} /\ w[1] = "member"
    BY <1>6, <1>9 DEF Swapping
  <2>2. Level(w) = 4 /\ level \in {1, 4}
    BY <1>3, <2>1 DEF Level
  <2>3. Blocked(S, 4)
    BY <1>5, <2>2 DEF Blocked
  <2> QED BY <2>2, <2>3
<1> QED BY <1>8, <1>9

(* Nor does an acceptance with one membership wait for another such one:   *)
(* the user whom it makes a member is not invited.                         *)
LEMMA MembersInOrder ==
  ASSUME CourseInv, NEW S \in SUBSET Requests, Circle(S),
         \A q \in S : Ordered(q) \/ Swapping(q), Blocked(S, 4)
  PROVE  \E higher : 4 < higher /\ Blocked(S, higher)
<1> SUFFICES ASSUME ~ \E higher : 4 < higher /\ Blocked(S, higher)
             PROVE  FALSE
  OBVIOUS
<1>1. ASSUME NEW r \in S, NEW s \in S, NEW t, WaitsOver(r, s, t), Level(t) = 4
      PROVE  Swapping(s) /\ \E z \in S : WaitsOver(s, z, <<"member", call[s].user>>)
  <2>1. PICK z \in S : \E w : WaitsOver(s, z, w)
    BY CircleGoesOn
  <2>2. PICK w : WaitsOver(s, z, w)
    BY <2>1
  <2>3. t \in locks[s] /\ w \in Wanted(s) /\ w \in locks[z] /\ z # s
    BY <1>1, <2>2 DEF WaitsOver
  <2>4. t # w
    BY <2>3, HeldByOne
  <2>5. Blocked(S, Level(w))
    BY <2>2 DEF Blocked
  <2>6. ~Ordered(s)
    BY <1>1, <2>3, <2>4, <2>5 DEF Ordered
  <2>7. w = <<"member", call[s].user>>
    BY <2>3, <2>6 DEF Swapping
  <2> QED BY <2>2, <2>6, <2>7
<1>2. PICK s \in S : Swapping(s) /\ \E z \in S : WaitsOver(s, z, <<"member", call[s].user>>)
  <2>1. PICK r \in S : \E s \in S : \E t : WaitsOver(r, s, t) /\ Level(t) = 4
    BY DEF Blocked
  <2>2. PICK s \in S : \E t : WaitsOver(r, s, t) /\ Level(t) = 4
    BY <2>1
  <2>3. PICK t : WaitsOver(r, s, t) /\ Level(t) = 4
    BY <2>2
  <2> QED BY <1>1, <2>3
<1>3. PICK z \in S : WaitsOver(s, z, <<"member", call[s].user>>)
  BY <1>2
<1>4. Swapping(z)
  BY <1>1, <1>3, Levels
<1> DEFINE v == db.invitation[call[z].row].user
<1>5. <<"member", call[s].user>> \in {<<"invitation", call[z].row>>, <<"member", v>>}
  BY <1>3, <1>4 DEF WaitsOver, Swapping
<1>6. call[s].user = v
  BY <1>5
<1>7. NotInvited(call[s].user) /\ call[z].row \in Ids /\ PendingInvitation(call[z].row)
  BY <1>2, <1>4 DEF Swapping
<1> QED BY <1>6, <1>7 DEF NotInvited

LEMMA NoOtherCircles ==
  ASSUME CourseInv, NEW S \in SUBSET Requests, Circle(S)
  PROVE  \E q \in S : Replacing(q)
<1> SUFFICES ASSUME \A q \in S : ~Replacing(q)
             PROVE  FALSE
  OBVIOUS
<1>1. \A q \in S : Ordered(q) \/ Swapping(q)
  BY WhoWaits, CircleGoesOn
<1>2. \A t : Level(t) \in 1..7
  BY DEF Level
<1>3. \A k : Blocked(S, k) => k \in 1..7
  BY <1>2 DEF Blocked
<1>4. ASSUME NEW k, Blocked(S, k)
      PROVE  (\E higher : k < higher /\ Blocked(S, higher)) \/ (Blocked(S, 4) /\ k \in {1, 4})
  BY <1>1, <1>4, BlockedHigher
<1>5. Blocked(S, 4) => \E higher : 4 < higher /\ Blocked(S, higher)
  BY <1>1, MembersInOrder
<1>6. ~Blocked(S, 7)
  BY <1>3, <1>4
<1>7. ~Blocked(S, 6)
  BY <1>3, <1>4, <1>6
<1>8. ~Blocked(S, 5)
  BY <1>3, <1>4, <1>6, <1>7
<1>9. ~Blocked(S, 4)
  BY <1>3, <1>5, <1>6, <1>7, <1>8
<1>10. ~Blocked(S, 3)
  BY <1>3, <1>4, <1>6, <1>7, <1>8, <1>9
<1>11. ~Blocked(S, 2)
  BY <1>3, <1>4, <1>6, <1>7, <1>8, <1>9, <1>10
<1>12. ~Blocked(S, 1)
  BY <1>3, <1>4, <1>6, <1>7, <1>8, <1>9, <1>10, <1>11
<1>13. PICK q \in S : TRUE
  BY DEF Circle
<1>14. \E s \in S : \E t : WaitsOver(q, s, t)
  BY CircleGoesOn
<1>15. \E k : Blocked(S, k)
  BY <1>14 DEF Blocked
<1> QED BY <1>3, <1>6, <1>7, <1>8, <1>9, <1>10, <1>11, <1>12, <1>15

(* Calls wait for one another in a circle only where an acceptance that    *)
(* replaces the invited user meets an administrator who writes that user,  *)
(* or a registration of the user.  All others take their locks in one      *)
(* order.                                                                  *)
THEOREM CirclesKnownHolds == Spec => []CirclesKnown
<1>1. CourseInv => CirclesKnown
  <2> SUFFICES ASSUME CourseInv, NEW S \in SUBSET Requests, Circle(S)
               PROVE  \E q, r \in S :
                        /\ call[q].verb = "accept" /\ call[r].verb \in {"configure", "register"}
                        /\ r \in WaitsFor(q) /\ q \in WaitsFor(r)
    BY DEF CirclesKnown
  <2>1. PICK q \in S : Replacing(q)
    BY NoOtherCircles
  <2> QED BY <2>1, ReplacingWaits
<1> QED BY <1>1, CoursesHold, PTL

(* Two calls with one user's membership never race for the unique index on *)
(* open requests: who comes to insert one has seen, with the membership    *)
(* locked, that there is none.                                             *)
THEOREM NoDuplicateRequestHolds == Spec => NoDuplicateRequest
<1>1. ASSUME CourseInv, [Next]_vars, NEW q \in Requests, At(q, "insertRequest")
      PROVE  pc'[q] # "conflict"
  <2>1. pc[q] = "run" /\ DOMAIN pc = Requests
    BY <1>1 DEF At, CourseInv, Typed
  <2>2. CASE Run(q)
    <3>1. InsertRequest(q)
      BY <1>1, <2>2, ByName DEF At
    <3>2. NoneOpen(call[q].user)
      BY <1>1, <2>1, WhoWaits DEF At
    <3>3. Go(q, Next1(call[q]))
      BY <3>1, <3>2 DEF InsertRequest, Insert, NoneOpen
    <3> QED BY <2>1, <3>3 DEF Go
  <2>3. CASE Abort(q)
    BY <2>1, <2>3 DEF Abort, Leave
  <2>4. CASE Arrive(q)
    BY <1>1, <2>1, <2>4, ArrivalRuns
  <2>5. ASSUME NEW r \in Requests \ {q}, Arrive(r) \/ Run(r) \/ Abort(r)
        PROVE  pc'[q] # "conflict"
    <3>1. Alone(r)
      <4>1. Arrive(r) => Alone(r)
        BY <1>1, ArriveQuiet DEF Quiet
      <4>2. Run(r) \/ Abort(r) => Alone(r)
        BY <1>1, RunSound, AbortSound DEF Sound
      <4> QED BY <2>5, <4>1, <4>2
    <3>2. pc'[q] = pc[q]
      BY <1>1, <3>1, OthersSame
    <3> QED BY <2>1, <3>2
  <2>6. CASE TimePasses \/ UNCHANGED vars
    BY <2>1, <2>6 DEF TimePasses, vars
  <2> QED BY <1>1, <2>2, <2>3, <2>4, <2>5, <2>6 DEF Next
<1>2. CourseInv /\ [Next]_vars => [\A q \in Requests : At(q, "insertRequest") => pc'[q] # "conflict"]_vars
  BY <1>1
<1> QED BY <1>2, CoursesHold, PTL DEF Spec, NoDuplicateRequest
==============================================================================

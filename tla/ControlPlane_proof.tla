-------------------------- MODULE ControlPlane_proof --------------------------
(***************************************************************************)
(* For any number of calls, USERs, devices and subjects: approvals of      *)
(* devices together never pass the tenant's limit, and no path makes two   *)
(* super admins.  Both rest on locks: of the statements of a call that     *)
(* matters here the invariant says which are left, what the call holds     *)
(* meanwhile, and what it has read that therefore still is so.             *)
(***************************************************************************)
EXTENDS ControlPlane, FiniteSetTheorems, TLAPS

(* The calls that write devices or super admins. *)
Staged == {"enroll", "activate", "bootstrap", "claim", "provision"}

StagedNames ==
  {"membershipInForce", "pendingDevice", "count", "enrolment",
   "advisoryLock", "noAdmin", "findClaimant", "findProvisioned",
   "insertIdentity", "insertAdmin", "insertLogin", "insertDevice", "commit"}

TableNames == {"device", "admin", "login"}
CallNames == {"verb", "row", "subject", "user", "plan"}

-----------------------------------------------------------------------------
(* The invariant. *)

(* As much of the types as the proofs need. *)
Shape ==
  /\ TableNames \subseteq DOMAIN db
  /\ db.device \in [Ids -> Devices \cup {NoRow}]
  /\ db.admin \in [Ids -> Paths \cup {None}]
  /\ DOMAIN locks = Requests
  /\ DOMAIN pc = Requests
  /\ DOMAIN call = Requests
  /\ \A q \in Requests : CallNames \subseteq DOMAIN call[q]

(* No two calls hold the same row or unique key. *)
Exclusive ==
  \A q, r \in Requests : q # r => locks[q] \cap locks[r] = {}

(* A device of a call is there only once the call has ended. *)
Fresh == \A q \in Requests : pc[q] \in {"idle", "run"} => db.device[q] = NoRow

(* An enrolment has one statement. *)
Enrolment(q) ==
  /\ call[q].user \in Ids
  /\ call[q].plan = <<Do("insertDevice", <<"deleted", call[q].user>>)>>

(* An approval knows its device, holds the membership after its first      *)
(* statement, and there is room for one more device after it has counted.  *)
Approval(q) ==
  LET c == call[q]
      enrolment == Do("enrolment", <<"enrolment", c.row>>)
      device == Do("pendingDevice", <<"device", c.row>>)
      member == <<"member", c.user>>
  IN
  /\ c.row \in Ids /\ db.device[c.row] # NoRow /\ db.device[c.row].user = c.user
  /\ \/ c.plan = <<Do("membershipInForce", member), device, Look("count"), enrolment, Finish>>
     \/ /\ member \in locks[q]
        /\ \/ c.plan = <<device, Look("count"), enrolment, Finish>>
           \/ c.plan = <<Look("count"), enrolment, Finish>>
     \/ /\ member \in locks[q]
        /\ Cardinality(ActiveDevices(c.user)) < MaxDevices
        /\ \/ c.plan = <<enrolment, Finish>>
           \/ c.plan = <<Finish>>

(* The start-up bootstrap has the login name to itself when it commits. *)
Startup(q) ==
  LET c == call[q]
      login == Do("insertLogin", <<"login">>)
  IN
  \/ c.plan = <<Look("noAdmin"), login, Finish>>
  \/ c.plan = <<login, Finish>>
  \/ c.plan = <<Finish>> /\ <<"login">> \in locks[q] /\ db.login = None

(* The statements of a claim or a provision before it has read the super   *)
(* admins, and those after.                                                *)
Before(c, plan) ==
  IF c.verb = "claim"
  THEN plan = <<Look("noAdmin"), Look("findClaimant")>>
  ELSE \/ plan = <<Look("findProvisioned"), Look("noAdmin")>>
       \/ plan = <<Look("noAdmin")>>
After(c, plan) ==
  LET identity == Do("insertIdentity", <<"subject", c.subject>>)
      admin == Do("insertAdmin", <<"admin", c.user>>)
  IN
  \/ c.verb = "claim" /\ plan = <<Look("findClaimant")>>
  \/ plan = <<identity, admin, Finish>>
  \/ plan = <<admin, Finish>>
  \/ plan = <<Finish>>

(* A path holds its advisory lock after its first statement, and nobody is *)
(* an admin by it yet after it has read that there is none.                *)
Setup(q) ==
  LET c == call[q]
      lock == <<"advisory", c.verb>>
  IN
  \/ c.plan = IF c.verb = "claim" THEN ClaimPlan ELSE ProvisionPlan
  \/ lock \in locks[q] /\ Before(c, c.plan)
  \/ /\ lock \in locks[q]
     /\ \A u \in Ids : db.admin[u] # c.verb
     /\ After(c, c.plan)

OnTrack(q) ==
  /\ call[q].verb = "enroll" => Enrolment(q)
  /\ call[q].verb = "activate" => Approval(q)
  /\ call[q].verb = "bootstrap" => Startup(q)
  /\ call[q].verb \in {"claim", "provision"} => Setup(q)

Inv ==
  /\ Shape
  /\ Exclusive
  /\ Fresh
  /\ \A q \in Requests : pc[q] = "run" => OnTrack(q)
  /\ DeviceLimit
  /\ OneAdminPerPath
  /\ \A u \in Ids : db.admin[u] = "bootstrap" => db.login = u

-----------------------------------------------------------------------------
(* What the steps of a call have in common. *)

(* Call q, which has not ended, alone takes the step; it gets no row that  *)
(* another call holds.                                                     *)
Frame(q) ==
  /\ DOMAIN locks' = Requests /\ DOMAIN pc' = Requests /\ DOMAIN call' = Requests
  /\ CallNames \subseteq DOMAIN call'[q]
  /\ pc[q] \in {"idle", "run"} /\ pc'[q] # "idle"
  /\ \A r \in Requests \ {q} :
       /\ pc'[r] = pc[r] /\ call'[r] = call[r] /\ locks'[r] = locks[r]
       /\ locks'[q] \cap locks[r] \subseteq locks[q]

TablesSame ==
  /\ TableNames \subseteq DOMAIN db'
  /\ db'.device = db.device /\ db'.admin = db.admin /\ db'.login = db.login

(* A step that leaves the tables and the locks of the others alone. *)
Calm(q) ==
  /\ Frame(q)
  /\ TablesSame
  /\ pc'[q] = "run" => OnTrack(q)'

LEMMA FrameKeepsExclusive ==
  ASSUME Exclusive, NEW q \in Requests, Frame(q)
  PROVE  Exclusive'
BY DEF Exclusive, Frame

LEMMA FrameKeepsCalls ==
  ASSUME Shape, NEW q \in Requests, Frame(q)
  PROVE  /\ DOMAIN locks' = Requests /\ DOMAIN pc' = Requests /\ DOMAIN call' = Requests
         /\ \A r \in Requests : CallNames \subseteq DOMAIN call'[r]
BY DEF Shape, Frame

(* What a call knows stays true while its call, locks and tables do. *)
LEMMA TrackStays ==
  ASSUME NEW r \in Requests, OnTrack(r), TablesSame,
         call'[r] = call[r], locks'[r] = locks[r]
  PROVE  OnTrack(r)'
<1>1. \A u : ActiveDevices(u)' = ActiveDevices(u)
  BY DEF ActiveDevices, TablesSame
<1>0. call[r].verb = "enroll" => Enrolment(r)'
  BY DEF OnTrack, Enrolment
<1>2. call[r].verb = "activate" => Approval(r)'
  BY <1>1 DEF OnTrack, Approval, TablesSame
<1>3. call[r].verb = "bootstrap" => Startup(r)'
  BY DEF OnTrack, Startup, TablesSame
<1>4. call[r].verb \in {"claim", "provision"} => Setup(r)'
  BY DEF OnTrack, Setup, TablesSame
<1> QED BY <1>0, <1>2, <1>3, <1>4 DEF OnTrack

LEMMA CalmStep ==
  ASSUME Inv, NEW q \in Requests, Calm(q)
  PROVE  Inv'
<1>1. Shape'
  BY FrameKeepsCalls DEF Inv, Calm, Shape, TablesSame
<1>2. Exclusive'
  BY FrameKeepsExclusive DEF Inv, Calm
<1>3. Fresh'
  BY DEF Inv, Calm, Frame, Fresh, TablesSame
<1>4. \A r \in Requests : pc'[r] = "run" => OnTrack(r)'
  BY TrackStays DEF Inv, Calm, Frame
<1>5. DeviceLimit'
  BY DEF Inv, Calm, DeviceLimit, ActiveDevices, TablesSame
<1>6. OneAdminPerPath' /\ \A u \in Ids : db'.admin[u] = "bootstrap" => db'.login = u
  BY DEF Inv, Calm, OneAdminPerPath, TablesSame
<1> QED BY <1>1, <1>2, <1>3, <1>4, <1>5, <1>6 DEF Inv

(* A step that only changes the call and perhaps gets a free row. *)
LEMMA GoFrame ==
  ASSUME Shape, NEW q \in Requests, NEW c, CallNames \subseteq DOMAIN c,
         pc[q] = "run", See(q, c) \/ (Free(q) /\ Go(q, c))
  PROVE  /\ Frame(q) /\ TablesSame
         /\ pc'[q] = "run" /\ call'[q] = c /\ locks[q] \subseteq locks'[q]
<1>1. CASE See(q, c)
  BY <1>1 DEF See, Shape, Frame, TablesSame
<1>2. CASE Free(q) /\ Go(q, c)
  BY <1>2 DEF Free, WaitsFor, Go, Shape, Frame, TablesSame
<1> QED BY <1>1, <1>2

LEMMA GoCalm ==
  ASSUME Shape, NEW q \in Requests, NEW c, CallNames \subseteq DOMAIN c,
         c.verb \notin Staged,
         pc[q] = "run", See(q, c) \/ (Free(q) /\ Go(q, c))
  PROVE  Calm(q)
BY GoFrame DEF Calm, OnTrack, Staged

LEMMA BeginFrame ==
  ASSUME Shape, NEW q \in Requests, NEW c, CallNames \subseteq DOMAIN c, Begin(q, c)
  PROVE  Frame(q) /\ TablesSame /\ pc'[q] = "run" /\ call'[q] = c
BY DEF Begin, Shape, Frame, TablesSame

LEMMA BeginCalm ==
  ASSUME Shape, NEW q \in Requests, NEW c, CallNames \subseteq DOMAIN c,
         c.verb \notin Staged, Begin(q, c)
  PROVE  Calm(q)
BY BeginFrame DEF Calm, OnTrack, Staged

LEMMA LeaveCalm ==
  ASSUME Shape, NEW q \in Requests, pc[q] = "run",
         NEW outcome \in Outcomes, Leave(q, outcome)
  PROVE  Calm(q)
BY DEF Leave, Shape, Frame, TablesSame, Calm, Blank, CallNames, Outcomes

LEMMA PublishFrame ==
  ASSUME Shape, NEW q \in Requests, pc[q] = "run",
         NEW d, NEW outcome \in Outcomes, Publish(q, d, outcome)
  PROVE  Frame(q) /\ db' = d /\ pc'[q] \in Outcomes
BY DEF Publish, Shape, Frame, Blank, CallNames, Outcomes

LEMMA PublishCalm ==
  ASSUME Shape, NEW q \in Requests, pc[q] = "run",
         NEW d, NEW outcome \in Outcomes, Publish(q, d, outcome),
         TableNames \subseteq DOMAIN d,
         d.device = db.device, d.admin = db.admin, d.login = db.login
  PROVE  Calm(q)
BY PublishFrame DEF Calm, TablesSame, Outcomes

-----------------------------------------------------------------------------
(* The calls that neither approve devices nor make super admins. *)

LEMMA Lists ==
  /\ \A x : Head(<<x>>) = x /\ Tail(<<x>>) = <<>>
  /\ \A x, y : Head(<<x, y>>) = x /\ Tail(<<x, y>>) = <<y>>
  /\ \A x, y, z : Head(<<x, y, z>>) = x /\ Tail(<<x, y, z>>) = <<y, z>>
  /\ \A x, y, z, v : Head(<<x, y, z, v>>) = x /\ Tail(<<x, y, z, v>>) = <<y, z, v>>
  /\ \A x, y, z, v, w :
       Head(<<x, y, z, v, w>>) = x /\ Tail(<<x, y, z, v, w>>) = <<y, z, v, w>>
OBVIOUS

(* Where the call stands is known by the name of its next statement. *)
LEMMA NameTells ==
  ASSUME Inv, NEW q \in Requests, NEW name, At(q, name)
  PROVE  /\ pc[q] = "run" /\ OnTrack(q) /\ Head(call[q].plan).name = name
         /\ call[q].verb = "enroll" => name = "insertDevice"
         /\ call[q].verb = "activate" =>
              name \in {"membershipInForce", "pendingDevice", "count", "enrolment", "commit"}
         /\ call[q].verb = "bootstrap" => name \in {"noAdmin", "insertLogin", "commit"}
         /\ call[q].verb \in {"claim", "provision"} =>
              name \in {"advisoryLock", "noAdmin", "findClaimant", "findProvisioned",
                        "insertIdentity", "insertAdmin", "commit"}
<1>0. pc[q] = "run" /\ OnTrack(q) /\ Head(call[q].plan).name = name
  BY DEF Inv, At, Statement
<1>4. ASSUME call[q].verb = "enroll"
      PROVE  name = "insertDevice"
  <2>1. Head(call[q].plan) = Do("insertDevice", <<"deleted", call[q].user>>)
    BY <1>0, <1>4, Lists DEF OnTrack, Enrolment
  <2> QED BY <1>0, <2>1 DEF Do
<1>1. ASSUME call[q].verb = "activate"
      PROVE  name \in {"membershipInForce", "pendingDevice", "count", "enrolment", "commit"}
  <2> DEFINE device == Do("pendingDevice", <<"device", call[q].row>>)
             enrolment == Do("enrolment", <<"enrolment", call[q].row>>)
             membership == Do("membershipInForce", <<"member", call[q].user>>)
  <2>1. Head(call[q].plan) \in {membership, device, Look("count"), enrolment, Finish}
    BY <1>0, <1>1, Lists DEF OnTrack, Approval
  <2> QED BY <1>0, <2>1 DEF Do, Look, Finish
<1>2. ASSUME call[q].verb = "bootstrap"
      PROVE  name \in {"noAdmin", "insertLogin", "commit"}
  <2>1. Head(call[q].plan) \in {Look("noAdmin"), Do("insertLogin", <<"login">>), Finish}
    BY <1>0, <1>2, Lists DEF OnTrack, Startup
  <2> QED BY <1>0, <2>1 DEF Do, Look, Finish
<1>3. ASSUME call[q].verb \in {"claim", "provision"}
      PROVE  name \in {"advisoryLock", "noAdmin", "findClaimant", "findProvisioned",
                       "insertIdentity", "insertAdmin", "commit"}
  <2> DEFINE identity == Do("insertIdentity", <<"subject", call[q].subject>>)
             admin == Do("insertAdmin", <<"admin", call[q].user>>)
             lock(p) == Do("advisoryLock", <<"advisory", p>>)
  <2>1. Head(call[q].plan) \in
          {lock("claim"), lock("provision"), Look("noAdmin"), Look("findClaimant"),
           Look("findProvisioned"), identity, admin, Finish}
    BY <1>0, <1>3, Lists DEF OnTrack, Setup, Before, After, ClaimPlan, ProvisionPlan
  <2> QED BY <1>0, <2>1 DEF Do, Look, Finish
<1> QED BY <1>0, <1>1, <1>2, <1>3, <1>4

LEMMA ForeignName ==
  ASSUME Inv, NEW q \in Requests, NEW name, At(q, name), name \notin StagedNames
  PROVE  call[q].verb \notin Staged /\ pc[q] = "run"
BY NameTells DEF Staged, StagedNames

(* The plan of a call may change and what it has found, not what it is. *)
LEMMA CallChanges ==
  ASSUME Shape, NEW q \in Requests, NEW rest
  PROVE  /\ CallNames \subseteq DOMAIN Next1(call[q])
         /\ Next1(call[q]).verb = call[q].verb /\ Next1(call[q]).row = call[q].row
         /\ Next1(call[q]).user = call[q].user
         /\ Next1(call[q]).subject = call[q].subject
         /\ Next1(call[q]).plan = Tail(call[q].plan)
         /\ CallNames \subseteq DOMAIN Then(call[q], rest)
         /\ Then(call[q], rest).verb = call[q].verb
         /\ \A u : /\ CallNames \subseteq DOMAIN Then([call[q] EXCEPT !.user = u], rest)
                   /\ Then([call[q] EXCEPT !.user = u], rest).verb = call[q].verb
BY DEF Shape, CallNames, Next1, Then

LEMMA StepCalm ==
  ASSUME Inv, NEW q \in Requests, NEW name, name \notin StagedNames, At(q, name),
         NEW outcome \in Outcomes,
         \/ Free(q) /\ Go(q, Next1(call[q]))
         \/ See(q, Next1(call[q]))
         \/ Leave(q, outcome)
  PROVE  Calm(q)
<1>1. Shape /\ pc[q] = "run" /\ call[q].verb \notin Staged
  BY ForeignName DEF Inv
<1> QED BY <1>1, CallChanges, GoCalm, LeaveCalm

(* The administration of USERs. *)
LEMMA AdministrationCalm ==
  ASSUME Inv, NEW q \in Requests,
         \/ FindPrincipal(q) \/ CommitConfigure(q) \/ ReadLinked(q) \/
            UpsertIdentity(q) \/ CheckLinkedUser(q) \/ CommitLink(q)
  PROVE  Calm(q)
<1>0. Shape BY DEF Inv
<1>1. CASE FindPrincipal(q)
  BY <1>1, StepCalm DEF FindPrincipal, StagedNames, Outcomes
<1>2. CASE CommitConfigure(q)
  BY <1>2, <1>0, PublishCalm DEF CommitConfigure, Outcomes, Committing, At, Shape, TableNames
<1>3. CASE ReadLinked(q)
  BY <1>3, StepCalm DEF ReadLinked, StagedNames, Outcomes
<1>4. CASE UpsertIdentity(q)
  BY <1>4, StepCalm DEF UpsertIdentity, Take, StagedNames, Outcomes
<1>5. CASE CheckLinkedUser(q)
  BY <1>5, StepCalm DEF CheckLinkedUser, StagedNames, Outcomes
<1>6. CASE CommitLink(q)
  BY <1>6, <1>0, PublishCalm DEF CommitLink, Outcomes, Committing, At, Shape, TableNames
<1> QED BY <1>1, <1>2, <1>3, <1>4, <1>5, <1>6

LEMMA VersionChanges ==
  ASSUME Shape, NEW q \in Requests, NEW v
  PROVE  /\ CallNames \subseteq DOMAIN [Next1(call[q]) EXCEPT !.version = v]
         /\ [Next1(call[q]) EXCEPT !.version = v].verb = call[q].verb
BY CallChanges DEF CallNames

(* The key, the tenant and its token. *)
LEMMA KeysCalm ==
  ASSUME Inv, NEW q \in Requests,
         \/ FindKey(q) \/ Upsert(q) \/ CommitSetKey(q) \/ CommitDisableKey(q)
            \/ InsertTenant(q) \/ CommitCreateTenant(q) \/ TenantBefore(q) \/
            SwitchTenant(q) \/ CommitActivateTenant(q) \/ TenantOfToken(q) \/
            FindSetting(q) \/ CommitRotateToken(q) \/ CommitDisableToken(q)
  PROVE  Calm(q)
<1>0. Shape BY DEF Inv
<1>1. CASE FindKey(q)
  BY <1>1, <1>0, ForeignName, VersionChanges, GoCalm, LeaveCalm DEF FindKey, StagedNames, Outcomes
<1>2. CASE Upsert(q)
  BY <1>2, StepCalm DEF Upsert, Take, StagedNames, Outcomes
<1>3. CASE CommitSetKey(q)
  BY <1>3, <1>0, PublishCalm DEF CommitSetKey, Outcomes, Committing, At, Shape, TableNames
<1>4. CASE CommitDisableKey(q)
  BY <1>4, <1>0, PublishCalm DEF CommitDisableKey, Outcomes, Committing, At, Shape, TableNames
<1>5. CASE InsertTenant(q)
  BY <1>5, StepCalm DEF InsertTenant, Insert, StagedNames, Outcomes
<1>6. CASE CommitCreateTenant(q)
  BY <1>6, <1>0, PublishCalm DEF CommitCreateTenant, Outcomes, Committing, At, Shape, TableNames
<1>7. CASE TenantBefore(q)
  BY <1>7, StepCalm DEF TenantBefore, StagedNames, Outcomes
<1>8. CASE SwitchTenant(q)
  BY <1>8, StepCalm DEF SwitchTenant, StagedNames, Outcomes
<1>9. CASE CommitActivateTenant(q)
  BY <1>9, <1>0, PublishCalm DEF CommitActivateTenant, Outcomes, Committing, At, Shape, TableNames
<1>10. CASE TenantOfToken(q)
  BY <1>10, StepCalm DEF TenantOfToken, StagedNames, Outcomes
<1>11. CASE FindSetting(q)
  BY <1>11, StepCalm DEF FindSetting, StagedNames, Outcomes
<1>12. CASE CommitRotateToken(q)
  BY <1>12, <1>0, PublishCalm DEF CommitRotateToken, Outcomes, Committing, At, Shape, TableNames
<1>13. CASE CommitDisableToken(q)
  BY <1>13, <1>0, PublishCalm DEF CommitDisableToken, Outcomes, Committing, At, Shape, TableNames
<1> QED BY <1>1, <1>2, <1>3, <1>4, <1>5, <1>6, <1>7, <1>8, <1>9, <1>10, <1>11, <1>12, <1>13

LEMMA InvitationChanges ==
  ASSUME Shape, NEW q \in Requests
  PROVE  /\ CallNames \subseteq DOMAIN AfterInvitation(call[q])
         /\ AfterInvitation(call[q]).verb = call[q].verb
BY DEF Shape, CallNames, AfterInvitation, Then

(* Onboarding into the tenant. *)
LEMMA OnboardingCalm ==
  ASSUME Inv, NEW q \in Requests,
         \/ TenantExists(q) \/ CommitInvite(q) \/ LockInvitation(q) \/
            ExpireInvitation(q) \/ TouchMember(q) \/ CommitCancel(q) \/
            FindInvitedIdentity(q) \/ NoMembership(q) \/ InsertMember(q) \/
            DropInvited(q) \/ DropPrincipal(q) \/ ValidateAccess(q) \/ CommitAccept(q) \/
            CheckToken(q) \/ FindOwnIdentity(q) \/ FindMember(q) \/
            FindRequest(q) \/ InsertRequest(q) \/ CommitAsItWas(q) \/
            CommitRegister(q) \/ LockRequest(q) \/ LockMemberOfRequest(q) \/
            CommitApprove(q) \/ CommitReject(q)
  PROVE  Calm(q)
<1>0. Shape BY DEF Inv
<1>1. CASE TenantExists(q)
  BY <1>1, StepCalm DEF TenantExists, StagedNames, Outcomes
<1>2. CASE CommitInvite(q)
  BY <1>2, <1>0, PublishCalm DEF CommitInvite, Outcomes, Committing, At, Shape, TableNames
<1>3. CASE LockInvitation(q)
  BY <1>3, <1>0, ForeignName, InvitationChanges, GoCalm, LeaveCalm DEF LockInvitation, StagedNames, Outcomes
<1>4. CASE ExpireInvitation(q)
  BY <1>4, <1>0, PublishCalm DEF ExpireInvitation, Outcomes, At, Shape, TableNames
<1>5. CASE TouchMember(q)
  BY <1>5, StepCalm DEF TouchMember, Take, StagedNames, Outcomes
<1>6. CASE CommitCancel(q)
  BY <1>6, <1>0, PublishCalm DEF CommitCancel, Outcomes, Committing, At, Shape, TableNames
<1>7. CASE FindInvitedIdentity(q)
  BY <1>7, <1>0, ForeignName, CallChanges, GoCalm, LeaveCalm DEF FindInvitedIdentity, StagedNames, Outcomes
<1>8. CASE NoMembership(q)
  BY <1>8, StepCalm DEF NoMembership, StagedNames, Outcomes
<1>9. CASE InsertMember(q)
  BY <1>9, StepCalm DEF InsertMember, Insert, StagedNames, Outcomes
<1>10. CASE DropInvited(q)
  BY <1>10, StepCalm DEF DropInvited, StagedNames, Outcomes
<1>11. CASE DropPrincipal(q)
  BY <1>11, StepCalm DEF DropPrincipal, Take, StagedNames, Outcomes
<1>12. CASE CommitAccept(q)
  BY <1>12, <1>0, PublishCalm, ZenonT(30) DEF CommitAccept, Accepted, Replaced, Admit, Outcomes, Committing, At, Shape, TableNames
<1>13. CASE CheckToken(q)
  BY <1>13, StepCalm DEF CheckToken, StagedNames, Outcomes
<1>14. CASE FindOwnIdentity(q)
  BY <1>14, <1>0, ForeignName, CallChanges, GoCalm, LeaveCalm DEF FindOwnIdentity, StagedNames, Outcomes
<1>15. CASE FindMember(q)
  BY <1>15, <1>0, ForeignName, CallChanges, GoCalm, LeaveCalm DEF FindMember, StagedNames, Outcomes
<1>16. CASE FindRequest(q)
  BY <1>16, <1>0, ForeignName, CallChanges, GoCalm, LeaveCalm DEF FindRequest, StagedNames, Outcomes
<1>17. CASE InsertRequest(q)
  BY <1>17, StepCalm DEF InsertRequest, Insert, StagedNames, Outcomes
<1>18. CASE CommitAsItWas(q)
  BY <1>18, <1>0, ForeignName, PublishCalm DEF CommitAsItWas, WithCaller, WithUser, Shape, TableNames, StagedNames, Outcomes
<1>19. CASE CommitRegister(q)
  BY <1>19, <1>0, PublishCalm DEF CommitRegister, WithCaller, WithUser, Outcomes, Committing, At, Shape, TableNames
<1>20. CASE LockRequest(q)
  BY <1>20, <1>0, ForeignName, CallChanges, GoCalm, LeaveCalm DEF LockRequest, StagedNames, Outcomes
<1>21. CASE LockMemberOfRequest(q)
  BY <1>21, StepCalm DEF LockMemberOfRequest, StagedNames, Outcomes
<1>22. CASE CommitApprove(q)
  BY <1>22, <1>0, PublishCalm DEF CommitApprove, Admit, Outcomes, Committing, At, Shape, TableNames
<1>23. CASE CommitReject(q)
  BY <1>23, <1>0, PublishCalm DEF CommitReject, Outcomes, Committing, At, Shape, TableNames
<1>24. CASE ValidateAccess(q)
  BY <1>24, <1>0, ForeignName, CallChanges, GoCalm DEF ValidateAccess, StagedNames
<1> QED BY <1>1, <1>2, <1>3, <1>4, <1>5, <1>6, <1>7, <1>8, <1>9, <1>10, <1>11, <1>12, <1>13, <1>14, <1>15, <1>16, <1>17, <1>18, <1>19, <1>20, <1>21, <1>22, <1>23, <1>24

LEMMA BeginningCalm ==
  ASSUME Inv, NEW q \in Requests,
         \/ BeginOnboarding(q) \/ BeginAdministration(q)
         \/ SetKey(q) \/ DisableKey(q)
         \/ CreateTenant(q) \/ ActivateTenant(q) \/ RotateToken(q) \/ DisableToken(q)
  PROVE  Calm(q)
<1>0. Shape BY DEF Inv
<1>1. CASE BeginOnboarding(q)
  <2>1. ASSUME NEW rs \in SUBSET Roles, Invite(q, rs)
        PROVE  Calm(q)
    BY <1>0, <2>1, BeginCalm DEF Invite, Blank, CallNames, Staged
  <2>2. ASSUME NEW x \in Ids, NEW s \in Subjects, Cancel(q, x) \/ Accept(q, x, s)
        PROVE  Calm(q)
    BY <1>0, <2>2, BeginCalm DEF Cancel, Accept, Blank, CallNames, Staged
  <2>3. ASSUME NEW s \in Subjects, Register(q, s)
        PROVE  Calm(q)
    BY <1>0, <2>3, BeginCalm DEF Register, Blank, CallNames, Staged
  <2>4. ASSUME NEW x \in Ids, NEW rs \in SUBSET Roles, Approve(q, x, rs) \/ Reject(q, x)
        PROVE  Calm(q)
    BY <1>0, <2>4, BeginCalm DEF Approve, Reject, Blank, CallNames, Staged
  <2> QED BY <1>1, <2>1, <2>2, <2>3, <2>4 DEF BeginOnboarding
<1>2. CASE BeginAdministration(q)
  <2>1. ASSUME NEW u \in Ids, Configure(q, u)
        PROVE  Calm(q)
    BY <1>0, <2>1, BeginCalm DEF Configure, Blank, CallNames, Staged
  <2>2. ASSUME NEW u \in Ids, NEW s \in Subjects, Link(q, u, s)
        PROVE  Calm(q)
    BY <1>0, <2>2, BeginCalm DEF Link, Blank, CallNames, Staged
  <2> QED BY <1>2, <2>1, <2>2 DEF BeginAdministration
<1>4. CASE SetKey(q) \/ DisableKey(q)
  BY <1>0, <1>4, BeginCalm DEF SetKey, DisableKey, Blank, CallNames, Staged
<1>5. CASE CreateTenant(q) \/ ActivateTenant(q) \/ RotateToken(q) \/ DisableToken(q)
  BY <1>0, <1>5, BeginCalm
     DEF CreateTenant, ActivateTenant, RotateToken, DisableToken, Blank, CallNames, Staged
<1> QED BY <1>1, <1>2, <1>4, <1>5

-----------------------------------------------------------------------------
(* The approval of a device. *)

(* Which statement is next tells how far the approval has come. *)
LEMMA ApprovalAt ==
  ASSUME Inv, NEW q \in Requests, NEW name, At(q, name), call[q].verb = "activate",
         name # "commit"
  PROVE  LET c == call[q]
             enrolment == Do("enrolment", <<"enrolment", c.row>>)
             device == Do("pendingDevice", <<"device", c.row>>)
         IN
         /\ pc[q] = "run" /\ Approval(q)
         /\ \/ /\ name = "membershipInForce"
               /\ Statement(q).on = <<"member", c.user>>
               /\ Tail(c.plan) = <<device, Look("count"), enrolment, Finish>>
            \/ /\ name = "pendingDevice"
               /\ <<"member", c.user>> \in locks[q]
               /\ Tail(c.plan) = <<Look("count"), enrolment, Finish>>
            \/ /\ name = "count"
               /\ <<"member", c.user>> \in locks[q]
               /\ Tail(c.plan) = <<enrolment, Finish>>
            \/ /\ name = "enrolment"
               /\ <<"member", c.user>> \in locks[q]
               /\ Cardinality(ActiveDevices(c.user)) < MaxDevices
               /\ Tail(c.plan) = <<Finish>>
<1>1. pc[q] = "run" /\ Approval(q) /\ Head(call[q].plan).name = name
  BY DEF Inv, OnTrack, At, Statement
<1> DEFINE c == call[q]
           membership == Do("membershipInForce", <<"member", c.user>>)
           device == Do("pendingDevice", <<"device", c.row>>)
           enrolment == Do("enrolment", <<"enrolment", c.row>>)
<1>2. CASE c.plan = <<membership, device, Look("count"), enrolment, Finish>>
  BY <1>1, <1>2 DEF Statement, Do, Look, Finish
<1>3. CASE <<"member", c.user>> \in locks[q] /\ c.plan = <<device, Look("count"), enrolment, Finish>>
  BY <1>1, <1>3 DEF Statement, Do, Look, Finish
<1>4. CASE <<"member", c.user>> \in locks[q] /\ c.plan = <<Look("count"), enrolment, Finish>>
  BY <1>1, <1>4 DEF Statement, Do, Look, Finish
<1>5. CASE /\ <<"member", c.user>> \in locks[q]
           /\ Cardinality(ActiveDevices(c.user)) < MaxDevices
           /\ c.plan = <<enrolment, Finish>>
  BY <1>1, <1>5 DEF Statement, Do, Look, Finish
<1>6. c.plan # <<Finish>>
  BY <1>1 DEF Do, Look, Finish
<1> QED BY <1>1, <1>2, <1>3, <1>4, <1>5, <1>6 DEF Approval

LEMMA CountIsNumber ==
  ASSUME NEW u
  PROVE  IsFiniteSet(ActiveDevices(u)) /\ Cardinality(ActiveDevices(u)) \in Nat
<1>1. IsFiniteSet(Ids)
  BY NamesAssumption, FS_Union DEF Ids
<1>2. ActiveDevices(u) \subseteq Ids
  BY DEF ActiveDevices
<1> QED BY <1>1, <1>2, FS_Subset, FS_CardinalityType

(* What an approval waits for is there when it goes on. *)
LEMMA MembershipHeld ==
  ASSUME Inv, NEW q \in Requests, call[q].verb = "activate",
         At(q, "membershipInForce"), db.member[call[q].user] = "ACTIVE"
  PROVE  <<"member", call[q].user>> \in Wanted(q)
<1> DEFINE u == call[q].user
<1>1. Statement(q).name = "membershipInForce" /\ Statement(q).on = <<"member", u>>
  BY ApprovalAt DEF At
<1>2. u \in Ids
  <2>1. db.device \in [Ids -> Devices \cup {NoRow}] /\ Approval(q)
    BY ApprovalAt DEF Inv, Shape
  <2>2. db.device[call[q].row] \in Devices /\ db.device[call[q].row].user = u
    BY <2>1 DEF Approval
  <2> QED BY <2>2 DEF Devices
<1>3. Statement(q).on # None
  BY <1>1, <1>2, NamesAssumption DEF Things
<1>4. ~ NoSuchRow(Statement(q))
  BY <1>1 DEF NoSuchRow
<1> QED BY <1>1, <1>3, <1>4 DEF Wanted

LEMMA ApprovalMoves ==
  ASSUME Inv, NEW q \in Requests, call[q].verb = "activate",
         NEW name, name # "commit", At(q, name),
         \/ Free(q) /\ Go(q, Next1(call[q]))
         \/ See(q, Next1(call[q])),
         name = "membershipInForce" => <<"member", call[q].user>> \in locks'[q],
         name = "count" => Cardinality(ActiveDevices(call[q].user)) < MaxDevices
  PROVE  Calm(q)
<1> DEFINE c == call[q]
           enrolment == Do("enrolment", <<"enrolment", c.row>>)
           device == Do("pendingDevice", <<"device", c.row>>)
<1>1. Shape /\ pc[q] = "run" /\ Approval(q)
  BY ApprovalAt DEF Inv
<1>2. /\ Frame(q) /\ TablesSame /\ call'[q] = Next1(c)
      /\ locks[q] \subseteq locks'[q]
  BY <1>1, CallChanges, GoFrame
<1>3. /\ call'[q].verb = c.verb /\ call'[q].row = c.row /\ call'[q].user = c.user
      /\ call'[q].plan = Tail(c.plan)
  BY <1>1, <1>2, CallChanges
<1>4. ActiveDevices(c.user)' = ActiveDevices(c.user)
  BY <1>2, <1>3 DEF ActiveDevices, TablesSame
<1>5. \/ /\ <<"member", c.user>> \in locks'[q]
         /\ \/ call'[q].plan = <<device, Look("count"), enrolment, Finish>>
            \/ call'[q].plan = <<Look("count"), enrolment, Finish>>
      \/ /\ <<"member", c.user>> \in locks'[q]
         /\ Cardinality(ActiveDevices(c.user)) < MaxDevices
         /\ \/ call'[q].plan = <<enrolment, Finish>>
            \/ call'[q].plan = <<Finish>>
  BY <1>2, <1>3, ApprovalAt
<1>6. Approval(q)'
  BY <1>1, <1>2, <1>3, <1>4, <1>5 DEF Approval, TablesSame
<1> QED BY <1>2, <1>3, <1>6 DEF Calm, OnTrack

LEMMA ApprovalCalm ==
  ASSUME Inv, NEW q \in Requests,
         LockMembership(q) \/ LockPendingDevice(q) \/ CountDevices(q) \/ LockEnrolment(q)
  PROVE  Calm(q)
<1>1. ASSUME NEW name \in StagedNames, At(q, name), NEW outcome \in Outcomes,
             call[q].verb \notin Staged,
             \/ Free(q) /\ Go(q, Next1(call[q]))
             \/ See(q, Next1(call[q]))
             \/ Leave(q, outcome)
      PROVE  Calm(q)
  BY <1>1, CallChanges, GoCalm, LeaveCalm DEF Inv, At
<1>2. ASSUME NEW name \in StagedNames, At(q, name), NEW outcome \in Outcomes, Leave(q, outcome)
      PROVE  Calm(q)
  BY <1>2, LeaveCalm DEF Inv, At
<1>3. CASE LockMembership(q)
  <2>1. CASE call[q].verb \in Staged /\ db.member[call[q].user] = "ACTIVE"
    <3>1. At(q, "membershipInForce") /\ Free(q) /\ Go(q, Next1(call[q]))
      BY <1>3, <2>1 DEF LockMembership
    <3>2. call[q].verb = "activate"
      BY <2>1, <3>1, NameTells DEF Staged
    <3>3. <<"member", call[q].user>> \in locks'[q]
      BY <2>1, <3>1, <3>2, MembershipHeld DEF Go, Inv, Shape
    <3> QED BY <3>1, <3>2, <3>3, ApprovalMoves
  <2> QED BY <1>1, <1>2, <1>3, <2>1 DEF LockMembership, StagedNames, Outcomes
<1>4. CASE LockPendingDevice(q)
  <2>1. At(q, "pendingDevice") /\ (call[q].verb \in Staged => call[q].verb = "activate")
    BY <1>4, NameTells DEF LockPendingDevice, Staged
  <2> QED BY <1>1, <1>2, <1>4, <2>1, ApprovalMoves
          DEF LockPendingDevice, StagedNames, Outcomes
<1>5. CASE CountDevices(q)
  <2>1. At(q, "count") /\ (call[q].verb \in Staged => call[q].verb = "activate")
    BY <1>5, NameTells DEF CountDevices, Staged
  <2>2. \/ Leave(q, "denied")
        \/ See(q, Next1(call[q])) /\ ~ (Cardinality(ActiveDevices(call[q].user)) >= MaxDevices)
    BY <1>5 DEF CountDevices
  <2>3. CASE Leave(q, "denied")
    BY <1>2, <2>1, <2>3 DEF StagedNames, Outcomes
  <2>4. CASE /\ See(q, Next1(call[q]))
             /\ ~ (Cardinality(ActiveDevices(call[q].user)) >= MaxDevices)
    <3>1. Cardinality(ActiveDevices(call[q].user)) < MaxDevices
      BY <2>4, CountIsNumber, InputAssumption
    <3> QED BY <1>1, <2>1, <2>4, <3>1, ApprovalMoves DEF StagedNames, Outcomes
  <2> QED BY <2>2, <2>3, <2>4
<1>6. CASE LockEnrolment(q)
  <2>1. At(q, "enrolment") /\ (call[q].verb \in Staged => call[q].verb = "activate")
    BY <1>6, NameTells DEF LockEnrolment, Staged
  <2> QED BY <1>1, <1>2, <1>6, <2>1, ApprovalMoves
          DEF LockEnrolment, StagedNames, Outcomes
<1> QED BY <1>3, <1>4, <1>5, <1>6

-----------------------------------------------------------------------------
(* The paths to a super admin. *)

LEMMA SetupAt ==
  ASSUME Inv, NEW q \in Requests, NEW name, At(q, name), name # "commit",
         call[q].verb \in {"claim", "provision"}
  PROVE  LET c == call[q]
             rest == Tail(c.plan)
             lock == <<"advisory", c.verb>>
             admin == Do("insertAdmin", <<"admin", c.user>>)
             none == \A u \in Ids : db.admin[u] # c.verb
         IN
         /\ name = "advisoryLock" => Statement(q).on = lock /\ Before(c, rest)
         /\ lock \in locks[q] \/ name = "advisoryLock"
         /\ name = "findProvisioned" => Before(c, rest)
         /\ name = "noAdmin" /\ c.verb = "claim" => rest = <<Look("findClaimant")>>
         /\ name = "findClaimant" => c.verb = "claim" /\ none
         /\ name = "insertIdentity" => none /\ rest = <<admin, Finish>>
         /\ name = "insertAdmin" => none /\ rest = <<Finish>>
<1> DEFINE c == call[q]
           identity == Do("insertIdentity", <<"subject", c.subject>>)
           admin == Do("insertAdmin", <<"admin", c.user>>)
           lock == Do("advisoryLock", <<"advisory", c.verb>>)
<1>1. Head(c.plan).name = name /\ Setup(q)
  BY NameTells DEF OnTrack
<1>2. CASE c.plan = IF c.verb = "claim" THEN ClaimPlan ELSE ProvisionPlan
  <2>1. CASE c.verb = "claim"
    <3>1. c.plan = <<Do("advisoryLock", <<"advisory", "claim">>), Look("noAdmin"),
                     Look("findClaimant")>>
      BY <1>2, <2>1 DEF ClaimPlan
    <3> QED BY <1>1, <2>1, <3>1 DEF Before, Statement, Do, Look
  <2>2. CASE c.verb = "provision"
    <3>1. c.plan = <<Do("advisoryLock", <<"advisory", "provision">>), Look("findProvisioned"),
                     Look("noAdmin")>>
      BY <1>2, <2>2 DEF ProvisionPlan
    <3> QED BY <1>1, <2>2, <3>1 DEF Before, Statement, Do, Look
  <2> QED BY <2>1, <2>2
<1>3. CASE <<"advisory", c.verb>> \in locks[q] /\ Before(c, c.plan)
  <2>1. CASE c.plan = <<Look("noAdmin"), Look("findClaimant")>>
    BY <1>1, <1>3, <2>1 DEF Do, Look
  <2>2. CASE c.verb = "provision" /\ c.plan = <<Look("findProvisioned"), Look("noAdmin")>>
    BY <1>1, <1>3, <2>2 DEF Before, Do, Look
  <2>3. CASE c.verb = "provision" /\ c.plan = <<Look("noAdmin")>>
    BY <1>1, <1>3, <2>3 DEF Do, Look
  <2> QED BY <1>3, <2>1, <2>2, <2>3 DEF Before
<1>4. CASE /\ <<"advisory", c.verb>> \in locks[q]
           /\ \A u \in Ids : db.admin[u] # c.verb
           /\ After(c, c.plan)
  <2>1. CASE c.verb = "claim" /\ c.plan = <<Look("findClaimant")>>
    BY <1>1, <1>4, <2>1 DEF Do, Look
  <2>2. CASE c.plan = <<identity, admin, Finish>>
    BY <1>1, <1>4, <2>2 DEF Do, Look, Finish
  <2>3. CASE c.plan = <<admin, Finish>>
    BY <1>1, <1>4, <2>3 DEF Do, Look, Finish
  <2>4. c.plan # <<Finish>>
    BY <1>1 DEF Do, Look, Finish
  <2> QED BY <1>4, <2>1, <2>2, <2>3, <2>4 DEF After
<1> QED BY <1>1, <1>2, <1>3, <1>4 DEF Setup

LEMMA SetupHolds ==
  ASSUME Inv, NEW q \in Requests, call[q].verb \in {"claim", "provision"},
         NEW name \in {"findProvisioned", "noAdmin", "findClaimant",
                       "insertIdentity", "insertAdmin"},
         At(q, name), NEW c, c.verb = call[q].verb,
         See(q, c) \/ Go(q, c)
  PROVE  <<"advisory", c.verb>> \in locks'[q]
<1>1. <<"advisory", c.verb>> \in locks[q]
  BY SetupAt
<1> QED BY <1>1 DEF See, Go, Inv, Shape

(* A step of a claim or a provision that goes on as c. *)
LEMMA SetupMoves ==
  ASSUME Inv, NEW q \in Requests, pc[q] = "run", call[q].verb \in {"claim", "provision"},
         NEW c, CallNames \subseteq DOMAIN c, c.verb = call[q].verb,
         See(q, c) \/ (Free(q) /\ Go(q, c)),
         <<"advisory", c.verb>> \in locks'[q],
         Before(c, c.plan) \/ (After(c, c.plan) /\ \A u \in Ids : db.admin[u] # c.verb)
  PROVE  Calm(q)
<1>1. /\ Frame(q) /\ TablesSame /\ call'[q] = c
  BY GoFrame DEF Inv
<1>2. Before(c, c.plan) => Before(call'[q], call'[q].plan)
  BY <1>1
<1>3. After(c, c.plan) => After(call'[q], call'[q].plan)
  BY <1>1
<1>4. Setup(q)'
  BY <1>1, <1>2, <1>3 DEF Setup, TablesSame, Before, After
<1> QED BY <1>1, <1>4 DEF Calm, OnTrack

LEMMA StartupAt ==
  ASSUME Inv, NEW q \in Requests, NEW name, At(q, name), name # "commit",
         call[q].verb = "bootstrap"
  PROVE  /\ name = "noAdmin" =>
              Tail(call[q].plan) = <<Do("insertLogin", <<"login">>), Finish>>
         /\ name = "insertLogin" =>
              Statement(q).on = <<"login">> /\ Tail(call[q].plan) = <<Finish>>
<1> DEFINE login == Do("insertLogin", <<"login">>)
<1>1. Head(call[q].plan).name = name /\ Startup(q)
  BY NameTells DEF OnTrack
<1>2. CASE call[q].plan = <<Look("noAdmin"), login, Finish>>
  BY <1>1, <1>2 DEF Do, Look, Finish
<1>3. CASE call[q].plan = <<login, Finish>>
  BY <1>1, <1>3 DEF Statement, Do, Look, Finish
<1>4. call[q].plan # <<Finish>>
  BY <1>1 DEF Do, Look, Finish
<1> QED BY <1>1, <1>2, <1>3, <1>4 DEF Startup

(* What a free statement wants is held afterwards. *)
LEMMA ThingHeld ==
  ASSUME Shape, NEW q \in Requests, NEW c, Go(q, c), Statement(q).on \in Things,
         Statement(q).name \in {"advisoryLock", "insertLogin"}
  PROVE  Statement(q).on \in locks'[q]
<1>1. Statement(q).on # None
  BY NamesAssumption
<1>2. ~ NoSuchRow(Statement(q))
  BY DEF NoSuchRow
<1> QED BY <1>1, <1>2 DEF Wanted, Go, Shape

LEMMA AdvisoryLockCalm ==
  ASSUME Inv, NEW q \in Requests, AdvisoryLock(q)
  PROVE  Calm(q)
<1> DEFINE c == call[q]
<1>1. At(q, "advisoryLock") /\ pc[q] = "run" /\ Free(q) /\ Go(q, Next1(c))
  BY DEF AdvisoryLock, Take, At
<1>2. CASE c.verb \notin Staged
  BY <1>1, <1>2, CallChanges, GoCalm DEF Inv
<1>3. CASE c.verb \in Staged
  <2>1. c.verb \in {"claim", "provision"}
    BY <1>1, <1>3, NameTells DEF Staged
  <2>2. Statement(q).on = <<"advisory", c.verb>> /\ Before(c, Tail(c.plan))
    BY <1>1, <2>1, SetupAt
  <2>3. <<"advisory", c.verb>> \in locks'[q]
    BY <1>1, <2>1, <2>2, ThingHeld DEF At, Things, Paths, Inv
  <2>4. Before(Next1(c), Next1(c).plan)
    BY <2>2, CallChanges DEF Before, Inv
  <2> QED BY <1>1, <2>1, <2>3, <2>4, CallChanges, SetupMoves DEF Inv
<1> QED BY <1>2, <1>3

LEMMA InsertsFollow ==
  ASSUME Shape, NEW q \in Requests, call[q].verb \in {"claim", "provision"}
  PROVE  LET c == Then([call[q] EXCEPT !.user = q], InsertPlan(q, call[q].subject))
         IN  CallNames \subseteq DOMAIN c /\ c.verb = call[q].verb /\ After(c, c.plan)
BY DEF Shape, CallNames, Then, InsertPlan, After

LEMMA NoAdminCalm ==
  ASSUME Inv, NEW q \in Requests, NoAdmin(q)
  PROVE  Calm(q)
<1> DEFINE c == call[q]
<1>1. At(q, "noAdmin") /\ pc[q] = "run" /\ Shape
  BY DEF NoAdmin, At, Inv
<1>2. CASE Admins # {}
  <2>1. PICK outcome \in Outcomes : Leave(q, outcome)
    BY <1>2 DEF NoAdmin, Outcomes
  <2> QED BY <1>1, <2>1, LeaveCalm
<1>3. CASE Admins = {} /\ c.verb = "provision"
  <2>1. See(q, Then([c EXCEPT !.user = q], InsertPlan(q, c.subject)))
    BY <1>3 DEF NoAdmin
  <2>2. \A u \in Ids : db.admin[u] # "provision"
    BY <1>3, NamesAssumption DEF Admins, Paths
  <2> QED BY <1>1, <1>3, <2>1, <2>2, InsertsFollow, SetupHolds, SetupMoves
<1>4. CASE Admins = {} /\ c.verb = "claim"
  <2>1. See(q, Next1(c))
    BY <1>4 DEF NoAdmin
  <2>2. Tail(c.plan) = <<Look("findClaimant")>>
    BY <1>1, <1>4, SetupAt
  <2>3. \A u \in Ids : db.admin[u] # "claim"
    BY <1>4, NamesAssumption DEF Admins, Paths
  <2>4. After(Next1(c), Next1(c).plan)
    BY <1>1, <1>4, <2>2, CallChanges DEF After
  <2> QED BY <1>1, <1>4, <2>1, <2>3, <2>4, CallChanges, SetupHolds, SetupMoves
<1>5. CASE Admins = {} /\ c.verb = "bootstrap"
  <2>1. See(q, Next1(c))
    BY <1>5 DEF NoAdmin
  <2>2. Frame(q) /\ TablesSame /\ call'[q] = Next1(c)
    BY <1>1, <2>1, CallChanges, GoFrame
  <2>3. call'[q].plan = <<Do("insertLogin", <<"login">>), Finish>>
    BY <1>1, <1>5, <2>2, CallChanges, StartupAt
  <2> QED BY <1>1, <1>5, <2>2, <2>3, CallChanges DEF Calm, OnTrack, Startup
<1>6. CASE Admins = {} /\ c.verb \notin Staged
  <2>1. See(q, Next1(c))
    BY <1>6 DEF NoAdmin, Staged
  <2> QED BY <1>1, <1>6, <2>1, CallChanges, GoCalm
<1>7. c.verb \notin {"enroll", "activate"}
  BY <1>1, NameTells
<1> QED BY <1>2, <1>3, <1>4, <1>5, <1>6, <1>7 DEF Staged

LEMMA FindProvisionedCalm ==
  ASSUME Inv, NEW q \in Requests, FindProvisioned(q)
  PROVE  Calm(q)
<1> DEFINE c == call[q]
<1>1. At(q, "findProvisioned") /\ pc[q] = "run" /\ Shape
  BY DEF FindProvisioned, At, Inv
<1>2. See(q, Next1(c)) \/ \E outcome \in Outcomes : Leave(q, outcome)
  BY DEF FindProvisioned, Outcomes
<1>3. CASE See(q, Next1(c)) /\ c.verb \notin Staged
  BY <1>1, <1>3, CallChanges, GoCalm
<1>4. CASE See(q, Next1(c)) /\ c.verb \in Staged
  <2>1. c.verb \in {"claim", "provision"}
    BY <1>1, <1>4, NameTells DEF Staged
  <2>2. Before(c, Tail(c.plan))
    BY <1>1, <2>1, SetupAt
  <2>3. Before(Next1(c), Next1(c).plan)
    BY <1>1, <2>2, CallChanges DEF Before
  <2> QED BY <1>1, <1>4, <2>1, <2>3, CallChanges, SetupHolds, SetupMoves
<1> QED BY <1>1, <1>2, <1>3, <1>4, LeaveCalm

LEMMA FindClaimantCalm ==
  ASSUME Inv, NEW q \in Requests, FindClaimant(q)
  PROVE  Calm(q)
<1> DEFINE c == call[q]
           u == db.identity[c.subject]
           made == Then([c EXCEPT !.user = q], InsertPlan(q, c.subject))
           known == Then([c EXCEPT !.user = u], <<Do("insertAdmin", <<"admin", u>>), Finish>>)
<1>1. At(q, "findClaimant") /\ pc[q] = "run" /\ Shape
  BY DEF FindClaimant, At, Inv
<1>2. See(q, made) \/ See(q, known) \/ \E outcome \in Outcomes : Leave(q, outcome)
  BY DEF FindClaimant, Outcomes
<1>3. CASE c.verb \notin Staged
  BY <1>1, <1>2, <1>3, CallChanges, GoCalm, LeaveCalm
<1>4. CASE c.verb \in Staged /\ (See(q, made) \/ See(q, known))
  <2>1. c.verb \in {"claim", "provision"}
    BY <1>1, <1>4, NameTells DEF Staged
  <2>2. \A w \in Ids : db.admin[w] # c.verb
    BY <1>1, <2>1, SetupAt
  <2>3. CallNames \subseteq DOMAIN known /\ known.verb = c.verb /\ After(known, known.plan)
    BY <1>1 DEF Shape, CallNames, Then, After
  <2>4. CallNames \subseteq DOMAIN made /\ made.verb = c.verb /\ After(made, made.plan)
    BY <1>1, <2>1, InsertsFollow
  <2>5. CASE See(q, made)
    BY <1>1, <2>1, <2>2, <2>4, <2>5, SetupHolds, SetupMoves
  <2>6. CASE See(q, known)
    BY <1>1, <2>1, <2>2, <2>3, <2>6, SetupHolds, SetupMoves
  <2> QED BY <1>4, <2>5, <2>6
<1> QED BY <1>1, <1>2, <1>3, <1>4, LeaveCalm

LEMMA InsertsCalm ==
  ASSUME Inv, NEW q \in Requests, InsertIdentity(q) \/ InsertAdmin(q)
  PROVE  Calm(q)
<1> DEFINE c == call[q]
<1>1. PICK name \in {"insertIdentity", "insertAdmin"} :
        /\ At(q, name) /\ pc[q] = "run"
        /\ Leave(q, "conflict") \/ (Free(q) /\ Go(q, Next1(c)))
  BY DEF InsertIdentity, InsertAdmin, Insert, At
<1>2. CASE Leave(q, "conflict")
  BY <1>1, <1>2, LeaveCalm DEF Outcomes, Inv
<1>3. CASE Free(q) /\ Go(q, Next1(c)) /\ c.verb \notin Staged
  BY <1>1, <1>3, CallChanges, GoCalm DEF Inv
<1>4. CASE Free(q) /\ Go(q, Next1(c)) /\ c.verb \in Staged
  <2>1. c.verb \in {"claim", "provision"}
    BY <1>1, <1>4, NameTells DEF Staged
  <2>2. /\ \A u \in Ids : db.admin[u] # c.verb
        /\ \/ Tail(c.plan) = <<Do("insertAdmin", <<"admin", c.user>>), Finish>>
           \/ Tail(c.plan) = <<Finish>>
    BY <1>1, <2>1, SetupAt
  <2>3. After(Next1(c), Next1(c).plan)
    BY <2>2, CallChanges DEF After, Inv
  <2> QED BY <1>1, <1>4, <2>1, <2>2, <2>3, CallChanges, SetupHolds, SetupMoves DEF Inv
<1> QED BY <1>1, <1>2, <1>3, <1>4

LEMMA InsertLoginCalm ==
  ASSUME Inv, NEW q \in Requests, InsertLogin(q)
  PROVE  Calm(q)
<1> DEFINE c == call[q]
<1>1. /\ At(q, "insertLogin") /\ pc[q] = "run" /\ Shape
      /\ Leave(q, "conflict") \/ (db.login = None /\ Free(q) /\ Go(q, Next1(c)))
  BY DEF InsertLogin, Insert, At, Inv
<1>2. CASE Leave(q, "conflict")
  BY <1>1, <1>2, LeaveCalm DEF Outcomes
<1>3. CASE db.login = None /\ Free(q) /\ Go(q, Next1(c))
  <2>1. CASE c.verb \notin Staged
    BY <1>1, <1>3, <2>1, CallChanges, GoCalm
  <2>2. CASE c.verb \in Staged
    <3>1. c.verb = "bootstrap"
      BY <1>1, <2>2, NameTells DEF Staged
    <3>2. Statement(q).on = <<"login">> /\ Tail(c.plan) = <<Finish>>
      BY <1>1, <3>1, StartupAt
    <3>3. <<"login">> \in locks'[q]
      BY <1>1, <1>3, <3>2, ThingHeld DEF At, Things
    <3>4. Frame(q) /\ TablesSame /\ call'[q] = Next1(c)
      BY <1>1, <1>3, CallChanges, GoFrame
    <3> QED BY <1>1, <1>3, <3>1, <3>2, <3>3, <3>4, CallChanges
            DEF Calm, OnTrack, Startup, TablesSame
  <2> QED BY <2>1, <2>2
<1> QED BY <1>1, <1>2, <1>3

LEMMA StagedBeginningCalm ==
  ASSUME Inv, NEW q \in Requests,
         \/ BeginDevice(q)
         \/ Bootstrap(q)
         \/ \E s \in Subjects : Claim(q, s) \/ Provision(q, s)
  PROVE  Calm(q)
<1>0. Shape BY DEF Inv
<1>1. ASSUME NEW d \in Ids, db.device[d] # NoRow, Activate(q, d)
      PROVE  Calm(q)
  <2> DEFINE u == db.device[d].user
             c == [Blank EXCEPT !.verb = "activate", !.row = d, !.user = u,
                                !.plan = ApprovalPlan(d, u)]
  <2>1. /\ CallNames \subseteq DOMAIN c /\ c.verb = "activate" /\ c.row = d /\ c.user = u
        /\ c.plan = ApprovalPlan(d, u)
    BY DEF Blank, CallNames
  <2>2. Frame(q) /\ TablesSame /\ call'[q] = c
    BY <1>0, <1>1, <2>1, BeginFrame DEF Activate
  <2>3. Approval(q)'
    BY <1>1, <2>1, <2>2 DEF Approval, ApprovalPlan, TablesSame
  <2> QED BY <2>1, <2>2, <2>3 DEF Calm, OnTrack
<1>4. ASSUME NEW u \in Ids, Enroll(q, u)
      PROVE  Calm(q)
  <2> DEFINE c == [Blank EXCEPT !.verb = "enroll", !.user = u,
                     !.plan = <<Do("insertDevice", <<"deleted", u>>)>>]
  <2>1. /\ CallNames \subseteq DOMAIN c /\ c.verb = "enroll" /\ c.user = u
        /\ c.plan = <<Do("insertDevice", <<"deleted", u>>)>>
    BY DEF Blank, CallNames
  <2>2. Frame(q) /\ TablesSame /\ call'[q] = c
    BY <1>0, <1>4, <2>1, BeginFrame DEF Enroll
  <2>3. Enrolment(q)'
    BY <2>1, <2>2 DEF Enrolment
  <2> QED BY <2>1, <2>2, <2>3 DEF Calm, OnTrack
<1>2. CASE Bootstrap(q)
  <2> DEFINE c == [Blank EXCEPT !.verb = "bootstrap", !.user = q,
                     !.plan = <<Look("noAdmin"), Do("insertLogin", <<"login">>), Finish>>]
  <2>1. /\ CallNames \subseteq DOMAIN c /\ c.verb = "bootstrap"
        /\ c.plan = <<Look("noAdmin"), Do("insertLogin", <<"login">>), Finish>>
    BY DEF Blank, CallNames
  <2>2. Frame(q) /\ TablesSame /\ call'[q] = c
    BY <1>0, <1>2, <2>1, BeginFrame DEF Bootstrap
  <2> QED BY <2>1, <2>2 DEF Calm, OnTrack, Startup
<1>3. ASSUME NEW s \in Subjects, NEW verb \in {"claim", "provision"},
             verb = "claim" => Claim(q, s), verb = "provision" => Provision(q, s)
      PROVE  Calm(q)
  <2> DEFINE plan == IF verb = "claim" THEN ClaimPlan ELSE ProvisionPlan
             c == [Blank EXCEPT !.verb = verb, !.subject = s, !.plan = plan]
  <2>1. CallNames \subseteq DOMAIN c /\ c.verb = verb /\ c.plan = plan
    BY DEF Blank, CallNames
  <2>2. Begin(q, c)
    BY <1>3 DEF Claim, Provision
  <2>3. Frame(q) /\ TablesSame /\ call'[q] = c
    BY <1>0, <2>1, <2>2, BeginFrame
  <2>4. Setup(q)'
    BY <2>1, <2>3 DEF Setup
  <2> QED BY <2>1, <2>3, <2>4 DEF Calm, OnTrack
<1> QED BY <1>1, <1>2, <1>3, <1>4 DEF BeginDevice

-----------------------------------------------------------------------------
(* The steps that change devices or super admins. *)

(* The call whose commit it is leaves the others what they had, and ends. *)
LEMMA CommitFrame ==
  ASSUME Inv, NEW q \in Requests, NEW d, NEW name, At(q, name), Publish(q, d, "ok")
  PROVE  /\ db' = d /\ Exclusive'
         /\ DOMAIN locks' = Requests /\ DOMAIN pc' = Requests /\ DOMAIN call' = Requests
         /\ \A r \in Requests : CallNames \subseteq DOMAIN call'[r]
         /\ pc[q] = "run" /\ pc'[q] = "ok"
         /\ \A r \in Requests \ {q} :
              pc'[r] = pc[r] /\ call'[r] = call[r] /\ locks'[r] = locks[r]
<1>1. Shape /\ pc[q] = "run" /\ Frame(q) /\ db' = d
  BY PublishFrame DEF Inv, At, Outcomes
<1>2. Exclusive'
  BY <1>1, FrameKeepsExclusive DEF Inv
<1>3. pc'[q] = "ok"
  BY <1>1 DEF Publish, Shape
<1> QED BY <1>1, <1>2, <1>3, FrameKeepsCalls DEF Frame

LEMMA InsertDeviceStep ==
  ASSUME Inv, NEW q \in Requests, InsertDevice(q)
  PROVE  Inv'
<1> DEFINE row == [status |-> "PENDING", user |-> call[q].user, enrolment |-> "PENDING"]
<1>1. At(q, "insertDevice") /\ pc[q] = "run" /\ call[q].verb = "enroll"
  BY DEF InsertDevice, At
<1>2. CASE Leave(q, "conflict")
  BY <1>1, <1>2, LeaveCalm, CalmStep DEF Outcomes, Inv
<1>3. CASE Publish(q, [db EXCEPT !.device[q] = row], "ok")
  <2>1. row \in Devices
    BY <1>1 DEF Inv, OnTrack, Enrolment, Devices
  <2>2. db.device[q] = NoRow
    BY <1>1 DEF Inv, Fresh
  <2>3. /\ TableNames \subseteq DOMAIN db' /\ db'.admin = db.admin /\ db'.login = db.login
        /\ db'.device = [db.device EXCEPT ![q] = row]
        /\ db.device \in [Ids -> Devices \cup {NoRow}] /\ q \in Ids
    BY <1>3 DEF Publish, Inv, Shape, TableNames, Ids
  <2>4. Shape'
    BY <1>1, <1>3, <2>1, <2>3, CommitFrame DEF Shape, Inv
  <2>5. Fresh'
    BY <1>1, <1>3, <2>3, CommitFrame DEF Fresh, Inv, Ids
  <2>6. \A u : ActiveDevices(u)' = ActiveDevices(u)
    BY <2>2, <2>3 DEF ActiveDevices
  <2>7. ASSUME NEW r \in Requests, pc'[r] = "run"
        PROVE  OnTrack(r)'
    <3>1. /\ r # q /\ OnTrack(r) /\ call'[r] = call[r] /\ locks'[r] = locks[r]
      BY <1>1, <1>3, <2>7, CommitFrame DEF Inv
    <3>2. call[r].verb = "activate" => Approval(r)'
      BY <2>2, <2>3, <2>6, <3>1 DEF OnTrack, Approval
    <3> QED BY <2>3, <3>1, <3>2 DEF OnTrack, Enrolment, Startup, Setup
  <2>8. DeviceLimit' /\ OneAdminPerPath' /\ \A u \in Ids : db'.admin[u] = "bootstrap" => db'.login = u
    BY <2>3, <2>6 DEF Inv, DeviceLimit, OneAdminPerPath
  <2> QED BY <1>1, <1>3, <2>4, <2>5, <2>7, <2>8, CommitFrame DEF Inv
<1> QED BY <1>2, <1>3 DEF InsertDevice

LEMMA CommitActivateStep ==
  ASSUME Inv, NEW q \in Requests, CommitActivate(q)
  PROVE  Inv'
<1> DEFINE x == call[q].row
           u == call[q].user
           row == [db.device[x] EXCEPT !.status = "ACTIVE", !.enrolment = "APPROVED"]
<1>1. /\ At(q, "commit") /\ pc[q] = "run" /\ call[q].verb = "activate"
      /\ Publish(q, [db EXCEPT !.device[x] = row], "ok")
  BY DEF CommitActivate, Committing, At
<1>2. /\ x \in Ids /\ db.device[x] # NoRow /\ db.device[x].user = u
      /\ <<"member", u>> \in locks[q]
      /\ Cardinality(ActiveDevices(u)) < MaxDevices
  <2>1. Approval(q) /\ Head(call[q].plan).name = "commit"
    BY <1>1, NameTells DEF OnTrack
  <2> QED BY <2>1 DEF Approval, Do, Look, Finish
<1>3. row \in Devices /\ row.user = u /\ row.status = "ACTIVE" /\ row # NoRow
  BY <1>2 DEF Inv, Shape, Devices, NoRow
<1>4. /\ TableNames \subseteq DOMAIN db' /\ db'.admin = db.admin /\ db'.login = db.login
      /\ db'.device = [db.device EXCEPT ![x] = row]
      /\ db.device \in [Ids -> Devices \cup {NoRow}]
  BY <1>1 DEF Publish, Inv, Shape, TableNames
<1>5. Shape'
  <2>1. /\ DOMAIN locks' = Requests /\ DOMAIN pc' = Requests /\ DOMAIN call' = Requests
        /\ \A r \in Requests : CallNames \subseteq DOMAIN call'[r]
    BY <1>1, CommitFrame
  <2>2. db'.device \in [Ids -> Devices \cup {NoRow}] /\ db'.admin \in [Ids -> Paths \cup {None}]
    BY <1>3, <1>4 DEF Inv, Shape
  <2> QED BY <1>4, <2>1, <2>2 DEF Shape
<1>6. Fresh'
  BY <1>1, <1>2, <1>4, CommitFrame DEF Fresh, Inv, Ids
<1>7. \A w : w # u => ActiveDevices(w)' = ActiveDevices(w)
  BY <1>2, <1>3, <1>4 DEF ActiveDevices
<1>8. \A w : ActiveDevices(w)' \subseteq ActiveDevices(w) \cup {x}
  <2>1. \A y \in Ids \ {x} : db'.device[y] = db.device[y]
    BY <1>4
  <2> QED BY <2>1 DEF ActiveDevices
<1>9. ASSUME NEW r \in Requests, pc'[r] = "run"
      PROVE  OnTrack(r)'
  <2>1. r # q /\ pc[r] = "run" /\ OnTrack(r) /\ call'[r] = call[r] /\ locks'[r] = locks[r]
    BY <1>1, <1>9, CommitFrame DEF Inv
  <2>2. <<"member", call[r].user>> \in locks[r] => call[r].user # u
    BY <1>2, <2>1 DEF Inv, Exclusive
  <2>3. ASSUME call[r].verb = "activate"
        PROVE  Approval(r)'
    <3>1. /\ db'.device[call[r].row] # NoRow
          /\ db'.device[call[r].row].user = db.device[call[r].row].user
      BY <1>2, <1>3, <1>4, <2>1, <2>3 DEF OnTrack, Approval
    <3> QED BY <1>7, <2>1, <2>2, <2>3, <3>1 DEF OnTrack, Approval
  <2> QED BY <1>4, <2>1, <2>3 DEF OnTrack, Enrolment, Startup, Setup
<1>10. ASSUME NEW w \in Ids
       PROVE  Cardinality(ActiveDevices(w)') <= MaxDevices
  <2>1. CASE w # u
    BY <1>7, <2>1 DEF Inv, DeviceLimit
  <2>2. CASE w = u
    <3>1. IsFiniteSet(ActiveDevices(w)) /\ Cardinality(ActiveDevices(w)) \in Nat
      BY CountIsNumber
    <3>2. /\ IsFiniteSet(ActiveDevices(w) \cup {x})
          /\ Cardinality(ActiveDevices(w) \cup {x}) <= Cardinality(ActiveDevices(w)) + 1
      BY <3>1, FS_AddElement
    <3>3. /\ Cardinality(ActiveDevices(w)') \in Nat
          /\ Cardinality(ActiveDevices(w) \cup {x}) \in Nat
          /\ Cardinality(ActiveDevices(w)') <= Cardinality(ActiveDevices(w) \cup {x})
      BY <1>8, <3>2, FS_Subset, FS_CardinalityType
    <3>4. Cardinality(ActiveDevices(w)) < MaxDevices
      BY <1>2, <2>2
    <3> QED BY <3>1, <3>2, <3>3, <3>4, InputAssumption
  <2> QED BY <2>1, <2>2
<1>11. OneAdminPerPath' /\ \A w \in Ids : db'.admin[w] = "bootstrap" => db'.login = w
  BY <1>4 DEF Inv, OneAdminPerPath
<1> QED BY <1>1, <1>5, <1>6, <1>9, <1>10, <1>11, CommitFrame DEF Inv, DeviceLimit

LEMMA CommitBootstrapStep ==
  ASSUME Inv, NEW q \in Requests, CommitBootstrap(q)
  PROVE  Inv'
<1>1. /\ At(q, "commit") /\ pc[q] = "run" /\ call[q].verb = "bootstrap"
      /\ Publish(q, [db EXCEPT !.user[q] = "ACTIVE", !.login = q, !.admin[q] = "bootstrap"], "ok")
  BY DEF CommitBootstrap, Committing, At
<1>2. <<"login">> \in locks[q] /\ db.login = None
  <2>1. Startup(q) /\ Head(call[q].plan).name = "commit"
    BY <1>1, NameTells DEF OnTrack
  <2> QED BY <2>1 DEF Startup, Do, Look, Finish
<1>3. /\ TableNames \subseteq DOMAIN db' /\ db'.device = db.device /\ db'.login = q
      /\ db'.admin = [db.admin EXCEPT ![q] = "bootstrap"]
      /\ db.admin \in [Ids -> Paths \cup {None}] /\ q \in Ids
  BY <1>1 DEF Publish, Inv, Shape, TableNames, Ids
<1>4. \A u \in Ids : db.admin[u] # "bootstrap"
  BY <1>2, NamesAssumption DEF Inv
<1>5. Shape'
  <2>1. /\ DOMAIN locks' = Requests /\ DOMAIN pc' = Requests /\ DOMAIN call' = Requests
        /\ \A r \in Requests : CallNames \subseteq DOMAIN call'[r]
    BY <1>1, CommitFrame
  <2>2. db'.device \in [Ids -> Devices \cup {NoRow}] /\ db'.admin \in [Ids -> Paths \cup {None}]
    BY <1>1, <1>3 DEF Inv, Shape, Paths
  <2> QED BY <1>3, <2>1, <2>2 DEF Shape
<1>6. Fresh'
  BY <1>1, <1>3, CommitFrame DEF Fresh, Inv
<1>7. \A u : ActiveDevices(u)' = ActiveDevices(u)
  BY <1>3 DEF ActiveDevices
<1>8. ASSUME NEW r \in Requests, pc'[r] = "run"
      PROVE  OnTrack(r)'
  <2>1. r # q /\ OnTrack(r) /\ call'[r] = call[r] /\ locks'[r] = locks[r]
    BY <1>1, <1>8, CommitFrame DEF Inv
  <2>2. <<"login">> \notin locks[r]
    BY <1>2, <2>1 DEF Inv, Exclusive
  <2>3. call[r].verb = "activate" => Approval(r)'
    BY <1>3, <1>7, <2>1 DEF OnTrack, Approval
  <2>4. call[r].verb = "bootstrap" => Startup(r)'
    BY <2>1, <2>2 DEF OnTrack, Startup
  <2>5. call[r].verb \in {"claim", "provision"} => Setup(r)'
    <3>1. call[r].verb \in {"claim", "provision"} =>
            \A u \in Ids : db.admin[u] # call[r].verb => db'.admin[u] # call[r].verb
      BY <1>3
    <3> QED BY <2>1, <3>1 DEF OnTrack, Setup
  <2> QED BY <2>1, <2>3, <2>4, <2>5 DEF OnTrack, Enrolment
<1>9. DeviceLimit'
  BY <1>7 DEF Inv, DeviceLimit
<1>10. OneAdminPerPath' /\ \A u \in Ids : db'.admin[u] = "bootstrap" => db'.login = u
  BY <1>3, <1>4 DEF Inv, OneAdminPerPath
<1> QED BY <1>1, <1>5, <1>6, <1>8, <1>9, <1>10, CommitFrame DEF Inv

LEMMA CommitAdminStep ==
  ASSUME Inv, NEW q \in Requests, CommitAdmin(q)
  PROVE  Inv'
<1> DEFINE c == call[q]
           d == [(IF c.user = q THEN WithUser(db, q, c.subject) ELSE db)
                   EXCEPT !.admin[c.user] = c.verb]
<1>1. /\ At(q, "commit") /\ pc[q] = "run" /\ c.verb \in {"claim", "provision"}
      /\ Publish(q, d, "ok")
  BY DEF CommitAdmin, Committing, At
<1>2. <<"advisory", c.verb>> \in locks[q] /\ \A u \in Ids : db.admin[u] # c.verb
  <2>1. Setup(q) /\ Head(c.plan).name = "commit"
    BY <1>1, NameTells DEF OnTrack
  <2>2. \/ c.plan = IF c.verb = "claim" THEN ClaimPlan ELSE ProvisionPlan
        \/ Before(c, c.plan)
        \/ <<"advisory", c.verb>> \in locks[q] /\ \A u \in Ids : db.admin[u] # c.verb
    BY <2>1 DEF Setup
  <2>3. ~ Before(c, c.plan)
    BY <2>1 DEF Before, Do, Look
  <2>4. c.plan # ClaimPlan /\ c.plan # ProvisionPlan
    BY <2>1 DEF ClaimPlan, ProvisionPlan, Do, Look
  <2> QED BY <2>2, <2>3, <2>4
<1>3. /\ TableNames \subseteq DOMAIN db' /\ db'.device = db.device /\ db'.login = db.login
      /\ db'.admin = [db.admin EXCEPT ![c.user] = c.verb]
      /\ db.admin \in [Ids -> Paths \cup {None}]
  BY <1>1 DEF Publish, Inv, Shape, TableNames, WithUser
<1>4. Shape'
  <2>1. /\ DOMAIN locks' = Requests /\ DOMAIN pc' = Requests /\ DOMAIN call' = Requests
        /\ \A r \in Requests : CallNames \subseteq DOMAIN call'[r]
    BY <1>1, CommitFrame
  <2>2. db'.device \in [Ids -> Devices \cup {NoRow}] /\ db'.admin \in [Ids -> Paths \cup {None}]
    BY <1>1, <1>3 DEF Inv, Shape, Paths
  <2> QED BY <1>3, <2>1, <2>2 DEF Shape
<1>5. Fresh'
  BY <1>1, <1>3, CommitFrame DEF Fresh, Inv
<1>6. \A u : ActiveDevices(u)' = ActiveDevices(u)
  BY <1>3 DEF ActiveDevices
<1>7. ASSUME NEW r \in Requests, pc'[r] = "run"
      PROVE  OnTrack(r)'
  <2>1. r # q /\ OnTrack(r) /\ call'[r] = call[r] /\ locks'[r] = locks[r]
    BY <1>1, <1>7, CommitFrame DEF Inv
  <2>2. call[r].verb = c.verb => <<"advisory", call[r].verb>> \notin locks[r]
    BY <1>2, <2>1 DEF Inv, Exclusive
  <2>3. call[r].verb = "activate" => Approval(r)'
    BY <1>3, <1>6, <2>1 DEF OnTrack, Approval
  <2>4. call[r].verb \in {"claim", "provision"} => Setup(r)'
    <3>1. call[r].verb # c.verb =>
            \A u \in Ids : db.admin[u] # call[r].verb => db'.admin[u] # call[r].verb
      BY <1>3
    <3> QED BY <2>1, <2>2, <3>1 DEF OnTrack, Setup
  <2>5. call[r].verb = "bootstrap" => Startup(r)'
    BY <1>3, <2>1 DEF OnTrack, Startup
  <2> QED BY <2>1, <2>3, <2>4, <2>5 DEF OnTrack, Enrolment
<1>8. DeviceLimit'
  BY <1>6 DEF Inv, DeviceLimit
<1>9. OneAdminPerPath' /\ \A u \in Ids : db'.admin[u] = "bootstrap" => db'.login = u
  BY <1>1, <1>2, <1>3 DEF Inv, OneAdminPerPath
<1> QED BY <1>1, <1>4, <1>5, <1>7, <1>8, <1>9, CommitFrame DEF Inv

-----------------------------------------------------------------------------
(* The invariant holds. *)

LEMMA InitInv == Init => Inv
<1> SUFFICES ASSUME Init
             PROVE  Inv
  OBVIOUS
<1>1. db \in Starts /\ db \in Database
  BY InputAssumption DEF Init
<1>2. Shape
  BY <1>1 DEF Init, Shape, Database, Blank, TableNames, CallNames
<1>3. Exclusive /\ (\A q \in Requests : pc[q] # "run")
  BY DEF Init, Exclusive
<1>4. Fresh /\ OneAdminPerPath /\ (\A u \in Ids : db.admin[u] = "bootstrap" => db.login = u)
  BY <1>1, StartsAssumption DEF Fresh, NoRowsOf, OneAdminPerPath
<1>5. DeviceLimit
  BY <1>1, StartsAssumption DEF DeviceLimit, ActiveDevices
<1> QED BY <1>2, <1>3, <1>4, <1>5 DEF Inv

LEMMA NoCallStep ==
  ASSUME Inv, TimePasses \/ UNCHANGED vars
  PROVE  Inv'
<1>1. TablesSame /\ UNCHANGED <<locks, pc, call>>
  BY DEF TimePasses, vars, TablesSame, Inv, Shape, TableNames
<1>2. \A u : ActiveDevices(u)' = ActiveDevices(u)
  BY <1>1 DEF ActiveDevices, TablesSame
<1>3. Shape' /\ Exclusive' /\ Fresh'
  BY <1>1 DEF Inv, Shape, Exclusive, Fresh, TablesSame
<1>4. \A q \in Requests : pc'[q] = "run" => OnTrack(q)'
  BY <1>1, TrackStays DEF Inv
<1>5. DeviceLimit' /\ OneAdminPerPath' /\ \A u \in Ids : db'.admin[u] = "bootstrap" => db'.login = u
  BY <1>1, <1>2 DEF Inv, DeviceLimit, OneAdminPerPath, TablesSame
<1> QED BY <1>3, <1>4, <1>5 DEF Inv

LEMMA WriteUserCalm ==
  ASSUME Inv, NEW q \in Requests, WriteUser(q)
  PROVE  Calm(q)
BY StepCalm DEF WriteUser, Take, StagedNames, Outcomes

LEMMA NextInv == Inv /\ [Next]_vars => Inv'
<1> SUFFICES ASSUME Inv, [Next]_vars
             PROVE  Inv'
  OBVIOUS
<1>1. ASSUME NEW q \in Requests, Arrive(q)
      PROVE  Inv'
  <2>1. Calm(q)
    BY <1>1, BeginningCalm, StagedBeginningCalm DEF Arrive, BeginSetup
  <2> QED BY <2>1, CalmStep
<1>2. ASSUME NEW q \in Requests, RunOnboarding(q) \/ RunAdministration(q) \/ WriteUser(q)
      PROVE  Inv'
  <2>1. Calm(q)
    BY <1>2, OnboardingCalm, AdministrationCalm, WriteUserCalm
       DEF RunOnboarding, RunAdministration
  <2> QED BY <2>1, CalmStep
<1>3. ASSUME NEW q \in Requests, RunDevice(q)
      PROVE  Inv'
  BY <1>3, InsertDeviceStep, CommitActivateStep, ApprovalCalm, CalmStep DEF RunDevice
<1>4. ASSUME NEW q \in Requests, RunSetup(q) \/ InsertIdentity(q)
      PROVE  Inv'
  BY <1>4, CommitBootstrapStep, CommitAdminStep, AdvisoryLockCalm, NoAdminCalm, InsertLoginCalm,
     InsertsCalm, FindClaimantCalm, FindProvisionedCalm, KeysCalm, CalmStep DEF RunSetup
<1>5. ASSUME NEW q \in Requests, Abort(q)
      PROVE  Inv'
  BY <1>5, LeaveCalm, CalmStep DEF Abort, Outcomes, Inv
<1> QED BY <1>1, <1>2, <1>3, <1>4, <1>5, NoCallStep DEF Next, Run

(* Concurrent approvals cannot both consume the same remaining capacity    *)
(* (device_lifecycle.py, approve_device).                                  *)
THEOREM DeviceLimitHolds == Spec => []DeviceLimit
<1>1. Inv => DeviceLimit
  BY DEF Inv
<1> QED BY <1>1, InitInv, NextInv, PTL DEF Spec

(* Bootstrap, claim and provision each make one super admin at most        *)
(* (bootstrap.py, platform_admin.py and the provisioning script).          *)
THEOREM OneAdminPerPathHolds == Spec => []OneAdminPerPath
<1>1. Inv => OneAdminPerPath
  BY DEF Inv
<1> QED BY <1>1, InitInv, NextInv, PTL DEF Spec
==============================================================================

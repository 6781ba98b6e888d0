----------------------------- MODULE PlatformSetup -----------------------------
(***************************************************************************)
(* How an empty platform gets its first super admin, by three paths that   *)
(* know nothing of one another, its onboarding key, its tenant and the     *)
(* tenant's self-onboarding token.                                         *)
(***************************************************************************)
EXTENDS Accounts

Admins == {u \in Ids : db.admin[u] # None}

-----------------------------------------------------------------------------
(* The first super admin. *)

(* At start-up, from the settings: an admin with a local password. *)
Bootstrap(q) ==
  Begin(q, [Blank EXCEPT !.verb = "bootstrap", !.user = q,
              !.plan = <<Look("noAdmin"), Do("insertLogin", <<"login">>), Finish>>])

(* By whom the identity provider knows as the configured user. *)
ClaimPlan == <<Do("advisoryLock", <<"advisory", "claim">>), Look("noAdmin"), Look("findClaimant")>>
Claim(q, s) ==
  /\ s = Expected
  /\ Begin(q, [Blank EXCEPT !.verb = "claim", !.subject = s, !.plan = ClaimPlan])

(* Mutant of ProvisionPlan: no advisory lock. *)
UnlockedProvisionPlan == <<Look("findProvisioned"), Look("noAdmin")>>

(* By an operator, for whatever user the operator names. *)
ProvisionPlan ==
  <<Do("advisoryLock", <<"advisory", "provision">>), Look("findProvisioned"), Look("noAdmin")>>
Provision(q, s) ==
  Begin(q, [Blank EXCEPT !.verb = "provision", !.subject = s, !.plan = ProvisionPlan])

AdvisoryLock(q) == Take(q, "advisoryLock")

InsertPlan(q, s) ==
  <<Do("insertIdentity", <<"subject", s>>), Do("insertAdmin", <<"admin", q>>), Finish>>

NoAdmin(q) ==
  /\ At(q, "noAdmin")
  /\ LET c == call[q] IN
     IF Admins # {} THEN Leave(q, IF c.verb = "bootstrap" THEN "unchanged" ELSE "denied")
     ELSE IF c.verb = "provision"
     THEN See(q, Then([c EXCEPT !.user = q], InsertPlan(q, c.subject)))
     ELSE See(q, Next1(c))

InsertLogin(q) == Insert(q, "insertLogin", db.login # None)
InsertAdmin(q) == Insert(q, "insertAdmin", db.admin[call[q].user] # None)

CommitBootstrap(q) ==
  /\ Committing(q, "bootstrap")
  /\ Publish(q, [db EXCEPT !.user[q] = "ACTIVE", !.login = q, !.admin[q] = "bootstrap"], "ok")

(* The claimant's USER is taken as it is, or made. *)
FindClaimant(q) ==
  /\ At(q, "findClaimant")
  /\ LET c == call[q]
         u == db.identity[c.subject]
     IN
     IF u = None THEN See(q, Then([c EXCEPT !.user = q], InsertPlan(q, c.subject)))
     ELSE IF db.user[u] = "ACTIVE"
     THEN See(q, Then([c EXCEPT !.user = u], <<Do("insertAdmin", <<"admin", u>>), Finish>>))
     ELSE Leave(q, "denied")

(* Provisioned before: nothing to do, or refused where not an admin now. *)
FindProvisioned(q) ==
  /\ At(q, "findProvisioned")
  /\ LET u == db.identity[call[q].subject] IN
     IF u = None THEN See(q, Next1(call[q]))
     ELSE Leave(q, IF db.admin[u] # None THEN "unchanged" ELSE "denied")

CommitAdmin(q) ==
  /\ Committing(q, "claim") \/ Committing(q, "provision")
  /\ LET c == call[q] IN
     Publish(q, [(IF c.user = q THEN WithUser(db, q, c.subject) ELSE db)
                   EXCEPT !.admin[c.user] = c.verb], "ok")

-----------------------------------------------------------------------------
(* The platform's onboarding key. *)

SetKey(q) ==
  Begin(q, [Blank EXCEPT !.verb = "setKey",
              !.plan = <<Do("findKey", <<"key">>), Do("upsert", <<"key">>), Finish>>])
DisableKey(q) ==
  Begin(q, [Blank EXCEPT !.verb = "disableKey", !.plan = <<Do("findKey", <<"key">>), Finish>>])

(* Mutant of FindKey: the version is read without a lock. *)
ReadKey(q) ==
  /\ At(q, "findKey")
  /\ IF db.key = NoRow /\ call[q].verb = "disableKey" THEN Leave(q, "unchanged")
     ELSE See(q, [Next1(call[q]) EXCEPT
                    !.version = IF db.key = NoRow THEN 1 ELSE db.key.version + 1])

FindKey(q) ==
  /\ At(q, "findKey") /\ Free(q)
  /\ IF db.key = NoRow /\ call[q].verb = "disableKey" THEN Leave(q, "unchanged")
     ELSE Go(q, [Next1(call[q]) EXCEPT
                   !.version = IF db.key = NoRow THEN 1 ELSE db.key.version + 1])

(* INSERT ... ON CONFLICT DO UPDATE, of the key's row or the token's. *)
Upsert(q) == Take(q, "upsert")

CommitSetKey(q) ==
  /\ Committing(q, "setKey")
  /\ \E status \in {"ACTIVE", "DISABLED"} :
       Publish(q, [db EXCEPT !.key =
                     [status |-> status, version |-> call[q].version, by |-> q]], "ok")

CommitDisableKey(q) ==
  /\ Committing(q, "disableKey")
  /\ Publish(q, [db EXCEPT !.key.status = "DISABLED"], "ok")

-----------------------------------------------------------------------------
(* The tenant and its self-onboarding token. *)

CreateTenant(q) ==
  Begin(q, [Blank EXCEPT !.verb = "createTenant",
              !.plan = <<Do("insertTenant", <<"tenant">>), Finish>>])
InsertTenant(q) == Insert(q, "insertTenant", db.tenant # "NONE")

(* With its standard roles and, where one is given, a token. *)
CommitCreateTenant(q) ==
  /\ Committing(q, "createTenant")
  /\ \E status \in {"ACTIVE", "DISABLED", "NONE"} :
       Publish(q, [db EXCEPT !.tenant = "CONFIGURING",
                     !.setting = IF status = "NONE" THEN NoRow
                                 ELSE [status |-> status, version |-> 1]], "ok")

ActivateTenant(q) ==
  Begin(q, [Blank EXCEPT !.verb = "activateTenant",
              !.plan = <<Look("tenantBefore"), Do("switchTenant", <<"tenant">>), Finish>>])
TenantBefore(q) ==
  /\ At(q, "tenantBefore")
  /\ IF db.tenant = "CONFIGURING" THEN See(q, Next1(call[q])) ELSE Leave(q, "denied")

SwitchTenant(q) ==
  /\ At(q, "switchTenant") /\ Free(q)
  /\ IF db.tenant = "CONFIGURING" THEN Go(q, Next1(call[q])) ELSE Leave(q, "failed")
CommitActivateTenant(q) ==
  /\ Committing(q, "activateTenant")
  /\ Publish(q, [db EXCEPT !.tenant = "ACTIVE"], "ok")

(* A token of a tenant that exists. *)
RotateToken(q) ==
  Begin(q, [Blank EXCEPT !.verb = "rotateToken",
              !.plan = <<Look("tenantOfToken"), Do("upsert", <<"setting">>), Finish>>])
DisableToken(q) ==
  Begin(q, [Blank EXCEPT !.verb = "disableToken",
              !.plan = <<Look("tenantOfToken"), Do("findSetting", <<"setting">>), Finish>>])
TenantOfToken(q) ==
  /\ At(q, "tenantOfToken")
  /\ IF db.tenant = "NONE" THEN Leave(q, "unchanged") ELSE See(q, Next1(call[q]))
FindSetting(q) ==
  /\ At(q, "findSetting") /\ Free(q)
  /\ IF db.setting = NoRow THEN Leave(q, "unchanged") ELSE Go(q, Next1(call[q]))
CommitRotateToken(q) ==
  /\ Committing(q, "rotateToken")
  /\ Publish(q, [db EXCEPT !.setting =
                   [status |-> "ACTIVE",
                    version |-> IF @ = NoRow THEN 1 ELSE @.version + 1]], "ok")
CommitDisableToken(q) ==
  /\ Committing(q, "disableToken")
  /\ Publish(q, [db EXCEPT !.setting.status = "DISABLED"], "ok")

-----------------------------------------------------------------------------
BeginSetup(q) ==
  \/ Bootstrap(q)
  \/ \E s \in Subjects : Claim(q, s) \/ Provision(q, s)
  \/ SetKey(q) \/ DisableKey(q)
  \/ CreateTenant(q) \/ ActivateTenant(q) \/ RotateToken(q) \/ DisableToken(q)

RunSetup(q) ==
  \/ AdvisoryLock(q) \/ NoAdmin(q) \/ InsertLogin(q) \/ InsertAdmin(q) \/ CommitBootstrap(q)
  \/ FindClaimant(q) \/ FindProvisioned(q) \/ CommitAdmin(q)
  \/ FindKey(q) \/ Upsert(q) \/ CommitSetKey(q) \/ CommitDisableKey(q)
  \/ InsertTenant(q) \/ CommitCreateTenant(q)
  \/ TenantBefore(q) \/ SwitchTenant(q) \/ CommitActivateTenant(q)
  \/ TenantOfToken(q) \/ FindSetting(q) \/ CommitRotateToken(q) \/ CommitDisableToken(q)
==============================================================================

# Verification of verigence-security

TLA+ models of the Verigence Security service (`src/src/verigence_security`), the TLC
configurations that check them on small instances, and theorems about them that the TLAPS proof
system has checked. Paths below are relative to the repository unless they name a module.

1. [The system](#1-the-system): components, state, operations, hard behaviours
2. [The modules](#2-the-modules) and how they correspond to the code
3. [The runs](#3-the-runs): questions, bounds, results
4. [Fairness](#4-fairness)
5. [Theorems](#5-theorems)
6. [Where the code and its documents disagree](#6-where-the-code-and-its-documents-disagree)
7. [What is not modelled](#7-what-is-not-modelled)
8. [Plan](#8-plan)
9. [Running it](#9-running-it)

## 1. The system

One FastAPI process, PostgreSQL (schema `security`) and Clerk, an external identity provider. A
request runs in a worker thread with a SQLAlchemy session of its own; at most four connections
exist (`db/session.py`: pool 2, overflow 2). Nothing is shared in memory: **all interaction between
requests goes through rows of PostgreSQL and through Clerk**. The isolation level is the server's
default, READ COMMITTED, so the unit of interleaving is the SQL statement. That is the unit of an
action in the models.

| Component | State | Operations | Hard behaviours |
|---|---|---|---|
| USER access sessions (`access_service.py`, `session_refresh_service.py`, `session_lifecycle.py`) | `access_sessions`, row locks on `registered_devices` and `access_sessions`, issued tokens | create or reuse, refresh, revoke | reads made before a lock is granted and used after it; two lock orders; ignored row counts; expiry computed from an early "now" |
| USER status (`global_user_onboarding.py: set_user_status`) | `users.status`, Clerk's banned flag | activate, suspend, disable, exit | unlocked check before an unconditional UPDATE; Clerk called before and after the transaction; a revoking UPDATE that sees only committed sessions |
| Phase 1 self-onboarding (`phase1_self_onboarding.py`) | `platform_user_signup_attempts`, `users`, `external_identities`, Clerk identities | start, resend code, verify code | one signup spread over the database and Clerk; expiry, compensation, lost answers, double clicks, crashes |
| Clerk backend adapter (`clerk_backend.py`) | none of its own | create banned, unverify, mail and check codes, delete, ban | a new address counts as verified for a moment; retries after lost answers |
| Tenant policy (`tenant_configuration.py`) | `tenant_security_policies` | configure | changes under running calls |
| Tenant RBAC (`tenant_rbac_admin.py`, `tenant_rbac_gate.py`) | groups, roles, assignments, `authorization_version` | create, assign, remove, rename, (de)activate, upgrade from a template | effective permissions change without a new version; a rename writes back a stale status; several version rows locked in one call |
| Privileged access (`privileged_access.py`) | `privileged_access_requests` | request, approve, reject | maker and checker, two deciders at once, races with direct assignment |
| Module catalog (`module_catalog.py`) | modules, permissions, templates | publish | retiring a permission that is being assigned |
| Device enrolment (`device_lifecycle.py`) | `registered_devices`, enrolment requests | enroll, approve under the device limit | count and activate must be one step |
| Platform administration and bootstrap (`platform_admin.py`, `platform_identity.py`, `initial_super_admin.py`, `platform_self_onboarding.py`) | platform roles, local credentials, tenants, the tenant's token | bootstrap, claim, provision, login, tenants, tokens | three paths to the first SUPER_ADMIN that know nothing of one another |
| Global onboarding key (`global_user_onboarding.py`) | `platform_user_onboarding_settings` | set, rotate, disable | the first key has no row to lock |
| USER administration (`user_administration.py`) | `users`, principals, `external_identities` | configure, link | an identity that is read unlocked and then upserted |
| Tenant onboarding (`onboarding.py`) | invitations, self-onboarding requests, memberships | invite, cancel, accept, register, approve, reject | expiry, double acceptance, an invited USER that turns out to be a known one and is deleted |
| Legacy global onboarding (`submit` and `bind` in `global_user_onboarding.py`) | onboarding requests | submit, bind | called by no route any more |
| Pure algorithms (`schedule.py`, `geo.py`, `permissions.py`) | none | evaluate | windows that cross midnight |
| Tokens and machine access (`token_service.py`, end of `access_service.py`) | none but keys and machine credentials | issue, verify, exchange | no concurrency of its own |
| Routes, errors, correlation, configuration | none | parse, map errors | none |

The interactions that matter: create, refresh and revoke meet on the device row and on the session
row; a status change meets them on the session rows and, unlocked, on the `users` row; a policy
change reaches a call only at the moment the call reads the policy; start and verify of signups meet
on the attempt row and on Clerk's identity, which no lock protects; the calls of tenant administration
meet on the rows of the assignment tables, on the version of each user they affect, and, unlocked, in
the queries that find out who that is. Tenant onboarding, device enrolment, USER administration and the first super
admin share USERs, identities and memberships: an acceptance deletes a USER that an enrolment may be about to
refer to, a claim finds an identity that a registration is inserting.

What makes each component correct:

- **Sessions**: one ACTIVE session per device; a closed session stays closed; a token says what
  the committed row says; no token outlives the revocation of its session by more than one TTL; no
  session outlives its maximum duration; no cycle of lock waits; every call is answered.
- **USER status**: a deactivation takes the USER's sessions with it; `EXITED` is final.
- **Self-onboarding**: one USER per person; attempt and USER complete together; only addresses
  verified by a code are registered; a live attempt can be completed; closed attempts stay closed;
  abandoned identities are cleaned up, registered ones are not.
- **Tenant RBAC**: effective permissions change only together with the authorization version that
  tokens carry; calls do not wait for each other in a circle.
- **Privileged access**: a privileged role is granted only by approving a pending request, by
  somebody who neither made it nor gains by it; a decision is final.
- **Tenant onboarding**: nobody has access that was not decided; an invitation or a request is decided once;
  a person has one pending request; a USER who is known is never lost to an invitation.
- **Device enrolment**: the device limit is never exceeded.
- **Platform setup**: each path makes one super admin at most; a new onboarding key has a new version.
- **All of them together**: identities stay with their USER; lock waits end.

`PROJECT.json` lists every component with its status and every hazard with its line in the code
and the properties that would notice it going wrong.

## 2. The modules

| Module | What it is |
|---|---|
| `SessionLedger` | abstract specification: what the committed rows of `access_sessions` promise |
| `AccessSessions` | create-or-reuse, refresh, revoke and status changes, one action per SQL statement |
| `AccessSessionsMC` | constants and symmetry for TLC |
| `AccessSessions_proof` | type correctness and one ACTIVE session per device, proved |
| `AccessSessions_ledger` | `AccessSessions` implements `SessionLedger`, no circle of lock waits, no session forgotten by a deactivation: proved |
| `AccessSessions_time` | revocation window, maximum duration, what a token says of its row, proved |
| `SelfOnboarding` | start, resend and verify of Phase 1 signups, with Clerk and crashes |
| `SelfOnboardingMC` | constants and symmetry for TLC |
| `SelfOnboarding_proof` | types, a person registered once, attempts and USERs in step, closed attempts stay closed, live ones can be completed, only verified addresses: proved |
| `TenantRbac` | roles, groups, permissions, the maker-checker and the catalog's permission status, one action per SQL statement |
| `TenantRbacMC` | the tenants that TLC starts from |
| `TenantRbac_proof` | types, maker-checker, final decisions, version bumps of own and of uncontended changes, no circle of lock waits: proved |
| `Accounts` | the tables that administration and onboarding share, and how a call runs its statements on them |
| `TenantOnboarding` | invitations and self-onboarding requests of a tenant |
| `DeviceEnrolment` | enrolment and approval of devices under the limit |
| `UserAdministration` | `configure_user` and `link_external_identity` |
| `PlatformSetup` | the first super admin, the onboarding key, the tenant and its token |
| `ControlPlane` | the composition of these four: any of their calls beside any other |
| `MemberLedger` | abstract specification: what a tenant promises of memberships and roles |
| `ControlPlaneMC` | the databases that TLC starts from |
| `ControlPlane_proof` | the device limit and one super admin per path, proved |
| `ControlPlane_courses` | what each call still has to do, holds and may rely on, and that no other call disturbs it: lemmas |
| `ControlPlane_commits` | what commits publish; with it types, `MemberLedger` implemented, access, identities, requests, one winner, key versions, known circles: proved |

### AccessSessions

Each element of `Requests` is one call. `pc[r]` is the next statement of the call or its outcome;
`call[r]` holds its arguments and local variables. A transaction is described by what it has locked
and written: `rowLock[s] = r` with the uncommitted version in `rowNext[s]`, `devLock[d] = r`,
`usrLock[u] = r`. `Seen(r, s)` is what a statement of `r` sees of a row (its own version, otherwise
the committed one), `Publish` is COMMIT, `Rollback` is `except Exception: rollback; raise`.

| Code | Actions |
|---|---|
| `UserAccessService.create_or_reuse` | `BeginCreate`, `ReadContext`, `LockDevice`, `Deny`, `ExpireStale`, `FindActive` or `FindNone`, `Reuse` or `Insert`, `CommitGrant` |
| `UserSessionRefreshService.refresh` | `BeginRefresh`, `ReadContext`, `Observe`, `LockDevice`, `LockSession`, `Deny`, `WriteRefresh`, `CommitGrant` |
| `UserSessionLifecycleService.revoke` | `BeginRevoke`, `RevokeRow`, `CommitRevoke` |
| `GlobalUserOnboardingService.set_user_status` | `BeginStatus`, `ReadStatus`, `Unban`, `UpdateUser`, `ScanSessions`, `CloseRow`, `CommitActivation` or `CommitDeactivation`, `Ban` |
| `TenantConfigurationService.configure_security_policy` | `ChangePolicy` |
| timeouts, lost connections, failing Clerk or signing key | `Abort` |

Choices worth knowing:

- `now` is read in `Begin...`, before the network-risk call and before any lock is waited for, and
  used to the end; `Tick` may happen anywhere in between.
- The UPDATE of `set_user_status` that revokes sessions is not one step: its snapshot is taken
  (`ScanSessions`) and rows are then locked and looked at again one by one (`CloseRow`), which is how
  PostgreSQL executes it under READ COMMITTED. The UPDATE that expires stale sessions is one step,
  because its caller holds the device and at most one row can match; it waits for a locked row.
- The unique index `uq_active_user_device_session` is there (`Rivals`): an INSERT waits for an
  uncommitted rival and fails on a committed one, with the outcome `duplicate`.
  `OneActiveSession` says that this outcome never occurs, so it is the lock that does the work.
- `CHECK (expires_at_utc > started_at_utc)` is modelled where it can fail (outcome `failed`).
- The reads before the device lock (tenant, USER, membership, policy) are one action: they are reads
  of different tables whose relative order nothing depends on.
- Geo, location, schedule, VPN and permission checks are one nondeterministic refusal, `Deny`; what
  they contribute to the session (location, schedule end) is chosen nondeterministically.
- Devices are ACTIVE and USERs have a Clerk identity. Refresh, revoke and device approval exist as
  services with integration tests but are not wired to a route yet; the model treats them as callable.

### SessionLedger

One variable, the committed rows, and three steps: `Open` a session on a device (expiring what was
ACTIVE there in the same commit), `Renew` it in place (same device, same start), `Revoke` any
number. A closed row never changes. `AccessSessions!ImplementsLedger` instantiates it with the
model's own `sess`: every commit of every call is one of these steps or a stutter.

### SelfOnboarding

Each element of `Starts` is a call of `start` and names the attempt and the Clerk identity it
creates; each element of `Verifies` is a call of `verify_email_code` or `resend_email_code` for an
attempt whose `start` has returned. A USER is the record of its address and of the attempt it comes
from.

| Code | Actions |
|---|---|
| `start`, `_expire_stale_identity_attempts` | `BeginStart`, `FindStale`, `ExpireStale`, `Purge`, `CheckRegistered`, `CheckLive`, `InsertAttempt`, `RecordIdentity` |
| `create_pending_email_user` in the Clerk adapter | `CreateIdentity`, `PrepareEmail`, `ClerkFails` |
| the compensation of `start` | `RecordFails`, `CancelAttempt`, `UndoIdentity` |
| `resend_email_code`, `verify_email_code` | `BeginVerify`, `LoadAttempt`, `Lapse`, `ResendCode`, `VerifyCode`, `LockAttempt`, `CheckIdentity`, `Register` |
| death of the process or its connection, unhandled errors | `Crash` |

Choices worth knowing:

- A statement and the COMMIT after it are one action where the transaction holds nothing that another
  call could wait for in between (the INSERT of an attempt, the UPDATEs that close one). Verification
  holds the attempt locked over several statements, so those are separate.
- `CreateIdentity` may succeed at Clerk and still fail for the caller: the answer, and with it the
  id, is lost. `VerifyCode` likewise may set the address verified and lose the answer; a later call then
  finds it verified, as the comment in `verify_email_code` intends.
- `Register` sets COMPLETED whatever the row's status is, as the UPDATE does; only the row lock makes
  that right.
- An error raised after `LockAttempt` is raised outside the `try`: it is the closing of the session
  at the end of the request (`platform_session`) that frees the row (`Release`).
- The onboarding key, and the syntax of names, addresses and numbers, are checks without state and
  are left out. Two addresses or two mobile numbers are the same or not; that is all `Clash` needs.

### TenantRbac

Each element of `Requests` is one call. The four assignment tables are one set of rows `<<table, left,
right>>`; a role, group or permission has a status, a user a version. `call[q].plan` is the sequence
of statements that the call has still to run: the operations (`AddGroupMember`, ..., `Reject`) differ in
their plan and in the row they name, and the statements are actions of their own.

| Code | Plan |
|---|---|
| `add_group_member` | group and user ACTIVE? exists? INSERT, bump the user |
| `assign_group_role`, `add_role_permission` | ACTIVE? exists? INSERT, SELECT the users affected, bump them |
| `remove_group_role`, `remove_role_permission` | SELECT the users affected, UPDATE or DELETE, bump them |
| `remove_group_member`, `remove_user_role` | UPDATE, bump the user |
| `assign_user_role`, ordinary role | role, user, role again; exists? INSERT, bump |
| `assign_user_role`, privileged role | role, user; has it? asked for? INSERT the request; after a duplicate, look again |
| `update_group`, `update_role` | read, SELECT the users affected, UPDATE, bump if the status read differs |
| `_upgrade` of `tenant_roles.py` with its trigger | permission ACTIVE? INSERT ... ON CONFLICT DO NOTHING, the trigger bumps |
| `put_catalog` | upsert the module, references if RETIRED, upsert the permission |
| `approve`, `reject` | FOR UPDATE and the checks; user, role, has it? INSERT, bump; decide |

Choices worth knowing:

- `locks[q]` is at once what a call has locked and what it has written, and `Commit` publishes it. An INSERT
  waits for an uncommitted row of its unique key and fails on a committed one; a removal looks at committed rows only.
- The users affected are found by `GroupUsers` and `RoleUsers`, translated from the gate's queries; what a user may do is
  `Effective`, translated from `permissions.py`. That the two agree is what the version properties are about.
- Versions are bumped one user at a time, in the order of the user id; those of the template trigger in any order.
- The update of a request that an approval has locked is part of `Commit`: nothing can happen in between.
- Users remain ACTIVE (queries about users are not affected by deactivation here), but the check of one
  may fail. Validity periods, platform roles and the right of the administrator to call are left out, and so is
  `tenant_memberships.authorization_version`, which nothing reads at run time.
- `MakerChecker` is about direct assignments, the ones that the gate routes to the maker-checker.

### Accounts and the modules on it

`db` is the record of the committed tables. Each element of `Requests` is one call, and the rows it inserts under new
uuids have its name. `call[q].plan` is the sequence of statements the call has still to run; each is an action, named by
the statement, that may wait for one row or key (`Wanted`), holds it until the end (`locks`), and replaces the
rest of the plan by what the code does next. What a call writes is protected by what it holds, so writing is
part of the commit (`Publish`), where another call could first see it. `Leave` is the rollback, `Abort` the failure of any statement.

| Code | Actions |
|---|---|
| `create_invitation`, `cancel_invitation` | `Invite`, `TenantExists`, `CommitInvite`; `Cancel`, `LockInvitation`, `TouchMember`, `CommitCancel` |
| `accept_invitation` with `_bind_invitation_identity`, `_validated_access`, `_materialize_access` | `Accept`, `LockInvitation`, `ExpireInvitation`, `FindInvitedIdentity`, then `InsertIdentity` or (for a known USER) `NoMembership`, `TouchMember`, `InsertMember`, `WriteUser`, `DropInvited`, `DropPrincipal`; then `ValidateAccess`, `WriteUser`, `TouchMember` (not where a privileged role is asked for), `CommitAccept` |
| `submit_self_registration` with `_resolve_or_create_identity_user` | `Register`, `CheckToken`, `FindOwnIdentity`, `InsertIdentity` or `WriteUser`, `FindMember`, `FindRequest`, `InsertMember`, `InsertRequest`, `CommitRegister` or `CommitAsItWas` |
| `approve_...`, `reject_self_onboarding_request` | `Approve`, `Reject`, `LockRequest`, `LockMemberOfRequest`, `CommitApprove`, `CommitReject` |
| `create_pending_enrollment`, `approve_pending_device` | `Enroll`, `InsertDevice`; `Activate`, `LockMembership`, `LockPendingDevice`, `CountDevices`, `LockEnrolment`, `CommitActivate` |
| `configure_user`, `link_external_identity` | `Configure`, `FindPrincipal`, `WriteUser`, `CommitConfigure`; `Link`, `ReadLinked`, `UpsertIdentity`, `CheckLinkedUser`, `CommitLink` |
| `bootstrap_if_needed`, `bootstrap_claim`, `provision` | `Bootstrap`, `NoAdmin`, `InsertLogin`, `CommitBootstrap`; `Claim`, `Provision`, `AdvisoryLock`, `FindClaimant`, `FindProvisioned`, `NoAdmin`, `InsertIdentity`, `InsertAdmin`, `CommitAdmin` |
| onboarding key: set and rotate, disable | `SetKey`, `FindKey`, `Upsert`, `CommitSetKey`; `DisableKey`, `FindKey`, `CommitDisableKey` |
| tenants and their token | `CreateTenant`, `InsertTenant`, `CommitCreateTenant`; `ActivateTenant`, `TenantBefore`, `SwitchTenant`, `CommitActivateTenant`; `RotateToken`, `DisableToken`, `TenantOfToken`, `Upsert` or `FindSetting`, `CommitRotateToken`, `CommitDisableToken` |

Choices worth knowing:

- Statuses: of a USER, `INACTIVE` stands for PENDING, SUSPENDED, DISABLED and EXITED; of a membership, `ENDED` for
  SUSPENDED too; of a self-onboarding request, `PENDING` for PENDING_ADMIN_APPROVAL. No modelled call suspends a membership; the
  runs start from such states too.
- Groups and locations of an invitation are given exactly like its roles and are left out, as are the checks that roles are
  ACTIVE, of the secret of an invitation and of the tenant's control settings: each is a refusal, which `Abort`
  covers. The secret of a self-registration has a version, since it may be rotated while somebody uses the old one.
- `now` of an acceptance is read before the invitation is locked (`call[q].late`), so an acceptance that has waited may
  succeed after the expiry.
- An acceptance for a USER known already deletes the invited one. The foreign keys are modelled: the DELETE is refused
  while a committed row refers to the USER (`Referenced`), and a row that refers to a USER waits for its
  DELETE. Of a row of `users`, `"user"` is the lock of who changes it and `"deleted"` the one of who deletes or refers to it; two
  calls that only refer to the same USER wait for one another in the model and not in PostgreSQL, which only adds waits.
- `_materialize_access` gives the roles whether its UPDATE of the membership found it PENDING or not. That nobody but
  an ACTIVE member ever gets any is what `ImplementsMembers` checks.
- An invitation that proposes a privileged role gives nothing when it is accepted: the membership stays PENDING, the request is filed,
  and the ordinary roles it proposed are not given later by any code. A membership also stays PENDING when an invitation
  expires or a request is rejected.
- In `bootstrap_if_needed` the bootstrap login is the unique key; the two advisory locks of `claim` and `provision` have different keys.

### MemberLedger

Two variables, the membership of each user and the roles given, and five steps: `Join` (a membership begins, without
access), `Admit`, `Withdraw`, `Succeed` (a known user takes the place of the invited one) and `Extend`. All but the first and the last act on a membership
that is PENDING. `Extend` is for a person who was invited, registered meanwhile and was admitted by an administrator, and then accepts the invitation, which is
still open: `_materialize_access` gives its roles to the ACTIVE member. Only ACTIVE members have roles. `ControlPlane!ImplementsMembers` instantiates it with `db.member` and
`db.grants`.

## 3. The runs

| Run | Question | Result |
|---|---|---|
| `sessions` | do three concurrent create, refresh and revoke calls on one device keep every session property? | holds, 2.8 million states |
| `user_status` | the same with an administrator changing the USER's status, two devices; are all calls answered? | holds |
| `revoked_blocks_issuance` | is no token issued for a revoked session? | violated |
| `deactivation_revokes_all` | does a deactivation leave no ACTIVE session? | violated |
| `exited_is_terminal` | is EXITED final? | violated |
| `signup` | do two signups and two verifications keep every onboarding property, crashes included? | holds, 260 thousand states |
| `signup_answered` | are all calls answered? | holds |
| `replacement_cleans_up` | is the identity of an expired attempt deleted before its replacement is accepted? | violated |
| `registered_identity_stays` | does a registered USER keep his Clerk identity? | violated |
| `rbac` | do all pairs of administrative calls keep versions, approvals and lock order right, from six tenants? | holds, 137 thousand states |
| `control_plane` | do all pairs of calls of setup, administration, onboarding and enrolment keep access, limits, identities and lock order right, and are they answered, from eleven databases? | holds, 320 thousand states |
| `authorization_version` | does every change of a user's effective permissions bump the user's version? | violated |

The properties of the passing runs, in words:

- `OneActiveSession`: at most one ACTIVE session per device, and nobody meets the unique index.
- `ImplementsLedger`: the committed rows behave as `SessionLedger` says.
- `IssueMatchesRow`: a token agrees with the committed row of its session; the one exception is a
  create that reuses a session which was revoked before its UPDATE.
- `RevocationWindow`: a token expires at most one TTL after its session was closed, exception included.
- `DurationCap`: reuse and refresh never exceed the maximum duration counted from the session's start.
- `NoWaitCycle`: no set of calls waits for one another's rows (in `rbac`, of calls other than template upgrades).
- `RequestsFinish`, `CallsFinish`: every call that arrived is answered.
- `EstablishedSessionsRevoked`: a session older than all calls in flight does not survive a deactivation.
- `RegisteredOnce`: one USER per address and number, and no verification meets the unique indexes of
  `users` after its checks.
- `CompletedMeansRegistered`: an attempt is COMPLETED exactly if its USER exists.
- `ClosedAttemptsStay`: COMPLETED, EXPIRED and CANCELLED are final.
- `RegisteredIsVerified`: a USER is created only for a recorded identity whose address is verified.
- `LiveAttemptUsable`: an attempt whose id was returned has its identity as long as it is live.
- `OwnChangeBumps`: a change of a user's own roles or memberships bumps the user's version by one in
  the same transaction, whatever runs beside it.
- `UncontendedChangeBumps`: a call during which no other commits bumps every user whose effective
  permissions it changes. With `EffectiveChangeBumps` violated, this is what the code does guarantee.
- `MakerChecker`: a privileged role is gained directly only with the approval of a pending request by
  somebody who is neither its maker nor its subject.
- `DecidedOnce`: a decided request never changes.
- `DeviceLimit`: a USER never has more ACTIVE devices than the policy allows.
- `AccessWasDecided`: whoever becomes ACTIVE or gets a role does so by the commit that accepts an invitation of that person without privileged
  roles, and then no role beyond the proposed ones, or approves that person's request; no privileged role comes this way.
- `OneWinner`: of the calls that decide one invitation, request, device or tenant, one answers that it did.
- `OneAdminPerPath`: no path to the first super admin makes two. (Two paths can make one each.)
- `NoDuplicateRequest`: of two submissions of one person one finds the other's request; none meets the unique index of open requests.
- `CirclesKnown`: whatever set of calls wait for one another, among them are two that wait for each other, an acceptance and a `configure_user` of the USER it
  deletes, or an acceptance and the self-registration of the invited USER.
- `ImplementsMembers`: memberships and roles behave as `MemberLedger` says.
- `IdentityKept`: an identity never passes to another USER and its USER is never deleted.
- `KeyVersionGrows`: a new onboarding key has a higher version, unless it was set together with the first.

Every one of them is also checked against a mutant: one definition of the model changed the way a
plausible bug would change the code (a missing FOR UPDATE, a skipped re-read, a forgotten status
filter), under which TLC finds the property violated.

### Bounds, and why they are enough

- **Requests**: 3. The races are between two calls; the third shows that a bystander (another waiter, a
  second closer) does not matter. The proofs remove this bound for the properties they cover.
- **Devices** 1, **locations** 2 in `sessions`: calls on different devices share no row except through a status
  change, which is why `user_status` has 2 devices. Two locations tell reuse from conflict and let a
  refresh move a session.
- **Seeds** 1: a session that exists before the calls, so that refresh and revoke have an object from the start.
- **Time**: `MaxClock` 2 with `Ttl` 2, `Policies` {1, 3} and `ScheduleEnds` {2, 9}: every one of TTL, maximum duration and
  schedule can be the smallest term, sessions can go stale during a call, and a policy can be shortened
  below the age of a session. In `user_status` time stands still, nothing there depends on it.
- **Signups**: 2 starts and 2 verifications over 2 addresses and 2 numbers: same person, different persons,
  and persons who share only one of the two. `Ttl` 1 and `MaxClock` 2 let an attempt expire before, during and after
  a verification and be replaced afterwards. In `signup_answered` symmetry is not used (it is not sound for liveness) and the
  address is shared, which is the case in which calls wait for one another.
- **Tenant**: 2 users, 1 group, 2 roles (one privileged), 1 permission, 3 administrators of whom one is a user too; two users
  are what lock order needs. Two calls run, each of any kind: the races are between two, and longer histories are the
  six tenants they start from (a seeded request, pending or refused; an INACTIVE group or role; a role held directly,
  through the group, both or not at all). A circle of three waiting calls is outside this bound; the theorem `NoWaitCycleHolds` covers it.
- **Control plane**: 2 calls of any kind, 2 seeded rows, 2 identities, one role of each kind, a limit of 1 device with two devices
  waiting. Longer histories are the eleven databases they start from: nothing at all; somebody invited, to an ordinary or
  to a privileged role, or two people, or one whose identity is linked, also while the other USER is inactive or after the invited one was admitted on a request; a request that is pending, was
  rejected, or whose membership is suspended; a member. A circle of three calls is outside this bound; the theorem `CirclesKnownHolds` covers circles of any size. No symmetry, because of `CallsFinish`.
- Symmetry is over requests (and over starts, verifications, addresses and numbers), which no
  definition distinguishes.
- `Finished` is a self-loop in the states where all calls have ended, so that TLC's deadlock check is about the others. In `rbac` and `control_plane`
  deadlock is not checked: a call never stops for good there (`Abort`), and when all have ended nothing is left to do.

## 4. Fairness

`AccessSessions!FairSpec` and `SelfOnboarding!FairSpec` assume weak fairness of each call's own
steps, and of nothing else: a call runs in a thread of its own and PostgreSQL grants a free lock
to a waiter. No fairness is assumed of arrivals, of `Abort` or `Crash`, of the clock or of policy
changes. With a cycle of lock waits, or with a lock that is not released, the liveness properties
fail (that is what their mutants do). Statement timeouts and PostgreSQL's deadlock detection would end such
waits with an error; they are not needed for the result.

`ControlPlane!FairSpec` assumes weak fairness of each call's own statements and of `BreakCircle`: PostgreSQL's deadlock
detection lets one of the calls fail that wait for one another. Here it is needed, for the circles that `CirclesKnown` names.

## 5. Theorems

Proved by TLAPS for every value of the constants (finite or infinite sets of requests, devices, locations, users;
every policy), from the named assumptions of the modules: `SetsAssumption` (ids and `None`
are different things), `OwnerAssumption` (a device has a USER), `InputAssumption` (operations and goals
are among the known ones; in `TenantRbac` that privileged roles are roles and that the tables found are typed), `CallsAssumption` and
`NamesAssumption` (calls of different kinds and seeded rows have different ids, and in `TenantRbac` that `None` is no status), `UsersAssumption` (user ids are numbers: versions are locked in their order), `RequestsAssumption` (the calls of `TenantRbac` are finitely many), `PolicyAssumption` (durations are positive, as the CHECKs of
`tenant_security_policies` say).

- `AccessSessions_proof!TypeCorrect`: `Spec => []TypeOK`. TypeOK is not inductive: that the device
  or the session which a statement uses exists follows from what the call has done before. `CallOK` says what
  a call knows at each statement, `UserLockInv` that a call which has written a `users` row has a
  goal status to publish; their conjunction `TypeInv` is inductive.
- `AccessSessions_proof!DeviceExclusive`: `Spec => []OneActiveSession`, for any number of concurrent calls. The
  argument is that of the code. `DeviceOK`: the device row is locked exactly while a create or refresh
  is between its FOR UPDATE and its end, so two of them never work on one device. `RowsOK`: what a
  call may have done to a row it has locked (inserted it; expired, reused, refreshed or revoked it), in
  particular that a row never changes its device. `ClearOK`: from the moment a create has found no
  ACTIVE session until it commits its own, every session of the device that is still ACTIVE in the
  committed state is locked by it and expired in its own version; a revoke or a status change cannot break
  that since they only close rows. `TargetOK` and `NewIdOK` say that the session a call works on exists on the
  device it has locked, and that a new id is new. One lemma shows the step of a call that commits nothing
  (`OwnStep`), one the commit (`CommitDeviceInv`), one each action (`ProceedDeviceInv`).

- `AccessSessions_ledger!LedgerImplemented`: `Spec => ImplementsLedger`, the refinement of `SessionLedger` (its
  `sess` is the committed table, the identity mapping). The invariant above says too little of what a commit
  will publish, so `RowShape` adds the whole of each uncommitted row version and what it depends on: expired (`Expiring`),
  inserted (`Opening`), reused or refreshed (`Renewing`), or `Revoking`. The one argument that is not local is that a create
  which reuses a session has expired none (`NothingHeld`): the expired one and the reused one would both have
  been ACTIVE on the device. Then a create that inserted is an `Open`, any other create or
  refresh a `Renew` or a stutter, revoke and status changes are a `Revoke` of the rows they hold
  (`CommitImplements`), and all other steps leave the committed rows alone.
- `AccessSessions_ledger!EstablishedSessionsRevokedHolds` and `!NoWaitCycleHolds`. `WaitInv` adds to the invariant above what a change of
  status holds: the USER's row from its UPDATE on (`UserRowOK`), sessions of that USER only (`VisitOK`), and that a seed which is still ACTIVE is either
  still to be visited or revoked in the change's own version (`CaughtOK`). The second theorem needs no more: calls that wait for a device or a USER hold no row
  yet, those that wait for a session hold their device, and a call that can still close rows holds no device, so whoever waits
  is waited for only by calls that are further behind (`Further`).
- `AccessSessions_time!RevocationWindowHolds`, `!DurationCapHolds`, `!IssueMatchesRowHolds`, for every TTL, policy and schedule, though `now` and the policy
  are read long before the row is written. `TimeInv` says what a call's figures are worth later: `GrantOK` bounds the expiry it has computed by its own `now`
  and the policy it has read; `ReuseOK` says what became of a session found ACTIVE (still so at the same location, or revoked no
  earlier than the call's `now`), `WonOK` and `LostOK` the two ways an UPDATE may end: with the row in its hands, or beaten by a revocation. A token issued
  in the second case expires at most one TTL after the call's `now`, so after the revocation, which is the exception
  in `IssueMatchesRow` and the reason why `RevocationWindow` holds all the same.

- `ControlPlane_proof!DeviceLimitHolds` and `!OneAdminPerPathHolds`: `Spec => []DeviceLimit`, `Spec => []OneAdminPerPath`, for any
  number of calls of every kind, users and devices. Of all the statements only those matter that write devices or super admins, so the invariant
  `Inv` says, for the four kinds of call that have such statements (`Enrolment`, `Approval`, `Startup`, `Setup`), which are left and
  what the call holds meanwhile. An approval past its count holds the membership row of the USER and there is room for one more device; another
  approval for the same USER would need that row (`Exclusive`), so there still is room at the commit. A claim or a provisioning that has seen no admin
  holds its advisory lock; the bootstrap has nothing but the unique login name, which is enough for one path. Beyond the names, the
  theorems assume that requests and seeds are finitely many (`NamesAssumption`; the limit counts rows) and that the tables that are found satisfy
  the two properties already (part of `StartsAssumption`). Steps of all other calls are `Calm`.
- `ControlPlane_courses` is about all calls of every kind. Its invariant `CourseInv` has four parts. `Typed`; `Rows`: the committed tables keep their
  foreign keys (`ForeignKeys`) and memberships, invitations and requests in step (`InStep`), and no row has the id of a call that has not committed;
  `Exclusive`: no row or key is held twice; and `CallInv` for each call. For a call that runs this is `OnCourse`, one operator for each verb (`Cancelling`,
  `Accepting`, `Registering`, ...), which lists the places where the call may be: the statements left of its plan, *exactly* what it holds there, and what it has read that
  still is so. For a call that has answered ok it is `Standing`: what it decided stays decided. What the call relies on is about rows it holds, about rows that never go
  back (a decided request, an identity), or about ids that nobody else writes. So a step of another call disturbs it only by writing, and what a call writes in
  the committed tables it holds (`Guarded`): bystanders keep theirs (`CourseStep`).
- `ControlPlane_commits` shows of each kind of commit that it is `Sound`: guarded, of the right types, foreign keys and rows in step. That gives `Spec => []CourseInv`
  and from it, for any number of calls of every kind, USERs, subjects, roles and rows:
  - `AccessWasDecidedHolds` and `ImplementsMembersHolds`: only the commits of accept and approve touch memberships that become ACTIVE or roles (`AccessStep`), and at these the
    invitation or request is still PENDING with the user and roles that the call has read, since it holds the row; `MemberLedger` is implemented step by step (`LedgerStep`).
  - `IdentityKeptHolds`: identities are written by those who hold the subject and found it free or with the same user; the DELETE of a USER has seen, with the row in its hands, that no identity refers to it.
  - `OneWinnerHolds`: at its commit what a call decides is PENDING (`DecidesPending`), while for a call that has already won it is decided (`Standing`).
  - `NoDuplicateRequestHolds`: a submission that comes to its INSERT knows `NoneOpen` and holds the membership, which everybody needs who opens a request.
  - `KeyVersionGrowsHolds`: who counts the version up holds the key's row; who found no row writes version 1, which is the exception in `KeyVersionGrows`.
  - `CirclesKnownHolds`: rows and keys have a `Level`, and every call takes what it locks in ascending order (`Ordered`), except an acceptance that replaces the
    invited user: it takes a second membership (`Swapping`), then that user's row and principal (`Replacing`). A circle without a replacing one is impossible: level by level nobody in it can
    hold something of that level (`NoOtherCircles`). A circle with one has its
    counterpart in it: whoever a replacing acceptance waits for is a `configure` or a `register` that waits for it (`ReplacingWaits`). Circles may be of any size.
  - `TypeCorrect`: the plans and locks that `OnCourse` lists are of the types that `TypeOK` names.

  These theorems use all of `StartsAssumption`: the databases found have their foreign keys, rows in step, no rows with the ids of calls to come, roles granted to ACTIVE members
  only, the bootstrap's admin under its login name, and the limits kept. TLC evaluates it for the databases of `control_plane`.
- `SelfOnboarding_proof`: `TypeCorrect` (`TypeOK`), `RegisteredOnceHolds`, `CompletedMeansRegisteredHolds` and
  `ClosedAttemptsStayHolds`, from one inductive invariant and for any number of calls, addresses and numbers. Neither of them is inductive alone. `HeldIsLive`: from its second look on a verification holds
  the row, and the attempt is live. `LiveAttemptsDiffer`: live attempts are of different persons (the unique indexes on live rows, and the look of the INSERT).
  So while one verification is between its check and its registration, no other can register the same person (`CheckedIsNew`), and the UPDATE that
  completes an attempt without asking for its status meets a live one.
  `LiveAttemptUsableHolds` and `RegisteredIsVerifiedHolds` rest on a second one, `IdentityInv`: what a start has still to delete at Clerk belongs to closed attempts
  (`PurgedAreClosed`), an id is recorded only by the start that then returns (`LinkedIsReturned`, `RecordedIsNew`), and past Clerk's answer the address
  of a live attempt is verified (`VouchedIsVerified`): between that answer and the registration only a purge could undo it, and a purge
  comes after the attempt has been closed.
- `TenantRbac_proof`, first part: `MakerCheckerHolds`, `DecidedOnceHolds` and `OwnChangeBumpsHolds`, three action properties, for any number of concurrent calls, users, groups
  and roles; this removes the bound of two calls of `rbac`. `LockedIsPending`: a request that is locked is PENDING, and it is the one the call decides. `Approval`: past its first statement an
  approval holds that request, the row it will write is the request's user and role, and its administrator is neither maker nor subject. `Change`: no other call
  has a privileged role of a user as the row it writes, and a call that has written a direct row of a user has the user's version still to bump or holds it. A commit publishes what is
  locked (`Changed`), so the properties follow at the commit, and no other step touches the committed tables (`OnlyCommits`).
- `TenantRbac_proof`, second part: `TypeCorrect` (`TypeOK`), `UncontendedChangeBumpsHolds` and `NoWaitCycleHolds`, from `CourseInv`, which says how far a call is in its plan
  and what it holds there (`Course`: first a request or the module, then the row or status, then versions in user order), which status it has read and may write (`Restating`),
  and that a version has been bumped at most once for each call that answered ok (`Counted`, the bound in `TypeOK`). `Covered` is about calls beside which no other has committed: those whose
  effective permissions the change affects are still to be looked for, or are among the versions the call holds or has still to lock. At the commit
  whoever gains or loses a permission is therefore bumped; that `GroupUsers` and `RoleUsers` find everybody who is affected is
  proved from the definitions (the gate's queries against `permissions.py`). For the circles a waiting call has a rank: 0 before its row, 1 at it, `2 + u` at the version of user
  `u`; the call it waits for has a higher one. Since requests are finitely many (`RequestsAssumption`) a smallest set of calls waiting for one another would exist, and it
  loses its member of lowest rank.

With this, every invariant and every action property that a passing run checks is a theorem, and so are both refinements.

Only model-checked: the liveness properties `RequestsFinish` and `CallsFinish`, since the prover does not handle fairness and ENABLED. The modules use no recursive
definition, so no proof needs induction over data.

## 6. Where the code and its documents disagree

Each is a run that TLC ends with a counterexample.

- `RevokedBlocksIssuance`: the decision register (SEC-033) says revoking a session immediately blocks new
  issuance. `create_or_reuse` reads the session to reuse without a lock and ignores how many rows its UPDATE
  changed, so a revoke in between leaves the caller with a fresh token for a revoked session. The
  window stays bounded by the TTL (`RevocationWindow`).
- `DeactivationRevokesAll`: the v1.4.2 design says active sessions are revoked when a USER is deactivated. A create that has
  read the USER as ACTIVE may insert its session after the revoking UPDATE.
- `ExitedIsTerminal`: the code says "EXITED USER is terminal", but checks a status read without a
  lock; an activation that raced the exit overwrites it.
- `ReplacementCleansUp`: rule 8 of the v1.4.8 design has the identity of an expired attempt deleted before a
  replacement is accepted. An attempt that verify or resend found expired is closed without that, and `start` looks
  at live attempts only.
- `RegisteredIdentityStays`: `start` deletes the identities its first, unlocked SELECT returned, although a
  verification that held the row may have completed one of these attempts meanwhile: the new USER has lost his Clerk identity.
- `EffectiveChangeBumps`: RULE-AUTHVER-002 wants the version incremented in the transaction that changes effective
  permissions. A user is added to a group after `assign_group_role` has looked for the members to bump and before it
  commits: the user's version is bumped while the group has no role yet, and not when the role arrives. A removal beside an addition, and a rename that
  writes back a status it has read, end likewise. `put_catalog` never bumps at all when it changes a permission's
  status; and its refusal to retire a permission in use (rules 10 and 11) can be overtaken by a grant in the same way.

Not a run, but worth knowing: the design v1.4.8 (line 267) speaks of a "single-active-bootstrap invariant". A claim, a
provisioning and the bootstrap of an empty platform that run at the same time each find no super admin and each make one: two of them hold advisory
locks, of different keys. `OneAdminPerPath` is what holds. And `link_external_identity` answers that it linked an identity
when another call has just given it to another USER; the identity itself is not taken away (`IdentityKept`).

## 7. What is not modelled

Everything whose status in `PROJECT.json` is `not_modelled`, with the reason there. In short: the parts in the
plan below; geo distances (floating-point trigonometry); cryptography and token formats (a token is the
record of what it says); HTTP parsing, error documents and correlation ids (no state); the
connection pool (it delays or fails a call before its first statement); audit and event rows (written in the
same transaction, read by nothing).

## 8. Plan

Done: `SessionLedger`, `AccessSessions`, `SelfOnboarding`, `TenantRbac`, `MemberLedger` and `ControlPlane` with its four parts, checked; all their safety and
action properties and both refinements proved (section 5). Left:

1. `Schedule`: evaluation over a week of small days against a reference definition.
2. `MachineAccess`: the token exchange at the end of `access_service.py`.

Modules that are proved about use no RECURSIVE operators; each keeps its theorems in a module of its own.

## 9. Running it

In this directory, `tlc -workers 2 -config sessions.cfg AccessSessionsMC` checks a run (module and
configuration of each are in `PROJECT.json`); `tlapm AccessSessions_proof.tla` checks the proofs of a module.

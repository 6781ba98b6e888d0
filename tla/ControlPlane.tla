----------------------------- MODULE ControlPlane -----------------------------
(***************************************************************************)
(* Platform setup, administration of USERs, onboarding into the tenant and *)
(* device enrolment, all on the same tables: any call may run beside any   *)
(* other.                                                                  *)
(***************************************************************************)
EXTENDS TenantOnboarding, DeviceEnrolment, PlatformSetup, UserAdministration

(* A row that refers to a USER keeps the USER from being deleted. *)
ForeignKeys(d) ==
  /\ \A s \in Subjects : d.identity[s] # None => d.user[d.identity[s]] # "NONE"
  /\ \A x \in Ids : d.invitation[x].status = "PENDING" => d.user[d.invitation[x].user] # "NONE"
  /\ \A x \in Ids : d.request[x] # NoRow => d.user[d.request[x].user] # "NONE"

(* What onboarding makes of its tables: an invitation makes a user of its  *)
(* own and a request waits for a membership.                               *)
InStep(d) ==
  /\ \A x \in Ids : d.invitation[x].status = "PENDING" =>
       d.member[d.invitation[x].user] \in {"PENDING", "ACTIVE"}
  /\ \A x, y \in Ids :
       /\ d.invitation[x].status = "PENDING" /\ d.invitation[y].status = "PENDING"
       /\ d.invitation[x].user = d.invitation[y].user
       => x = y
  /\ \A x \in Ids :
       /\ d.request[x].status = "PENDING" => d.member[d.request[x].user] # "NONE"
       /\ d.request[x].status = "APPROVED" => d.member[d.request[x].user] \in {"ACTIVE", "ENDED"}

NoRowsOf(d, q) ==
  /\ d.user[q] = "NONE" /\ d.member[q] = "NONE"
  /\ d.invitation[q] = NoRow /\ d.request[q] = NoRow /\ d.device[q] = NoRow

(* The database that is found is one that earlier calls have left: it has  *)
(* no row of a call to come, no USER with too many devices and no two      *)
(* super admins of one path.                                               *)
ASSUME StartsAssumption ==
  \A d \in Starts :
    /\ ForeignKeys(d) /\ InStep(d)
    /\ \A q \in Requests : NoRowsOf(d, q)
    /\ \A u \in Ids : d.grants[u] # {} => d.member[u] = "ACTIVE"
    /\ \A u \in Ids :
         Cardinality({x \in Ids : /\ d.device[x] # NoRow
                                 /\ d.device[x].user = u
                                 /\ d.device[x].status = "ACTIVE"}) <= MaxDevices
    /\ \A u \in Ids : d.admin[u] = "bootstrap" => d.login = u
    /\ \A u, w \in Ids : d.admin[u] # None /\ d.admin[u] = d.admin[w] => u = w

Init ==
  /\ db \in Starts
  /\ locks = [q \in Requests |-> {}]
  /\ pc = [q \in Requests |-> "idle"]
  /\ call = [q \in Requests |-> Blank]

Arrive(q) ==
  BeginOnboarding(q) \/ BeginDevice(q) \/ BeginSetup(q) \/ BeginAdministration(q)
Run(q) ==
  \/ WriteUser(q) \/ InsertIdentity(q)
  \/ RunOnboarding(q) \/ RunDevice(q) \/ RunSetup(q) \/ RunAdministration(q)

Next ==
  \/ \E q \in Requests : Arrive(q) \/ Run(q) \/ Abort(q)
  \/ TimePasses

Spec == Init /\ [][Next]_vars

(* The database runs every statement that need not wait and breaks every   *)
(* circle of calls that do.                                                *)
FairSpec == Spec /\ \A q \in Requests : WF_vars(Run(q)) /\ WF_vars(BreakCircle(q))

-----------------------------------------------------------------------------
TypeOK ==
  /\ db \in Database
  /\ locks \in [Requests -> SUBSET Things]
  /\ pc \in [Requests -> {"idle", "run"} \cup Outcomes]
  /\ call \in [Requests -> Calls]
  /\ \A q \in Requests : pc[q] = "run" => call[q].plan # <<>>
  /\ \A q \in Requests : locks[q] # {} => pc[q] = "run"

(* docs/PHASE_4_DEVICE_SESSION_LIFECYCLE.md:36: concurrent approvals       *)
(* cannot both consume the same remaining capacity.                        *)
DeviceLimit ==
  \A u \in Ids : Cardinality(ActiveDevices(u)) <= MaxDevices

(* RULE-SELF-007 and the invitation's proposed access: who becomes ACTIVE  *)
(* or gets a role does so by the commit that accepts an invitation of the  *)
(* user's without privileged roles or approves a request of the user's,    *)
(* and a privileged role never comes that way.                             *)
Accepts(x, u) ==
  /\ db.invitation[x].status = "PENDING" /\ db'.invitation[x].status = "ACCEPTED"
  /\ db'.invitation[x].user = u
  /\ db'.grants[u] \subseteq db.grants[u] \cup db.invitation[x].roles
  /\ db.invitation[x].roles \cap Privileged = {}
Approves(x, u) ==
  /\ db.request[x].status = "PENDING" /\ db'.request[x].status = "APPROVED"
  /\ db.request[x].user = u
AccessWasDecided ==
  [][\A u \in Ids :
       \/ db'.member[u] = "ACTIVE" /\ db.member[u] # "ACTIVE"
       \/ db'.grants[u] # db.grants[u]
       => /\ \E x \in Ids : Accepts(x, u) \/ Approves(x, u)
          /\ (db'.grants[u] \ db.grants[u]) \cap Privileged = {}]_vars

(* Of the calls that decide the same invitation, request, device or        *)
(* tenant, one at most answers that it did.                                *)
Deciders == {"cancel", "accept", "approve", "reject", "activate", "activateTenant"}
Decided(q) ==
  LET c == call[q] IN
  CASE c.verb \in {"cancel", "accept"} -> <<"invitation", c.row>>
    [] c.verb \in {"approve", "reject"} -> <<"request", c.row>>
    [] c.verb = "activate" -> <<"device", c.row>>
    [] OTHER -> <<"tenant">>
OneWinner ==
  \A q, r \in Requests :
    /\ pc[q] = "ok" /\ pc[r] = "ok"
    /\ call[q].verb \in Deciders /\ call[r].verb \in Deciders
    /\ Decided(q) = Decided(r)
    => q = r

(* The advisory lock of each path keeps it from making two super admins,   *)
(* though not two paths from making one each.                              *)
OneAdminPerPath ==
  \A u, w \in Ids : db.admin[u] # None /\ db.admin[u] = db.admin[w] => u = w

(* RULE-SELF-010: a repeated submission reuses the pending request; the    *)
(* unique index on open requests never has to refuse one.                  *)
NoDuplicateRequest ==
  [][\A q \in Requests :
       At(q, "insertRequest") => pc'[q] # "conflict"]_vars

(* Calls take their locks in orders that agree, but for an acceptance that *)
(* replaces the invited user: it deletes the user's row and then the       *)
(* principal, the administration of USERs updates the principal and then   *)
(* the row; it takes memberships and then USERs, a self-registration of an *)
(* INVITED user the USER and then the membership.                          *)
CirclesKnown ==
  \A S \in SUBSET Requests :
    Circle(S) => \E q, r \in S :
      /\ call[q].verb = "accept" /\ call[r].verb \in {"configure", "register"}
      /\ r \in WaitsFor(q) /\ q \in WaitsFor(r)

(* The memberships and roles behave as MemberLedger says. *)
Members == INSTANCE MemberLedger WITH
  Users <- Ids, Roles <- Roles, member <- db.member, grants <- db.grants
ImplementsMembers == Members!Spec

(* Once an identity is known it stays with its USER, and the USER stays:   *)
(* the invited user that an acceptance deletes never has one.              *)
IdentityKept ==
  [][\A s \in Subjects : db.identity[s] # None =>
       /\ db'.identity[s] = db.identity[s]
       /\ db'.user[db.identity[s]] # "NONE"]_vars

(* A new onboarding key gets a new version, unless two administrators set  *)
(* the first one at the same time.                                         *)
KeyVersionGrows ==
  [][db.key # NoRow /\ db'.key # db.key /\ db'.key.by # db.key.by =>
       db'.key.version > db.key.version \/ db'.key.version = 1]_vars

(* Every call that has arrived is answered. *)
CallsFinish == \A q \in Requests : pc[q] = "run" ~> pc[q] \in Outcomes
==============================================================================
